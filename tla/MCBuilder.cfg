SPECIFICATION Spec
CONSTANTS
  t1 = t1
  t2 = t2
  f1 = f1
  f2 = f2
  Thread <- MCThread
  Function <- MCFunction
  NoFunction = NoFunction
  Parameters <- MCParameters
  Result <- MCResult
  Index = {1, 2}
  MaxBlocks = 2
  MaxValues = 3
  MaxTotal = 5
  MaxRace = 3
CONSTRAINT FewValues
SYMMETRY Interchangeable
INVARIANTS
  TypeOK
  OneBuilder
  VerifiedComplete
PROPERTIES
  BodiesAreFinal
CHECK_DEADLOCK FALSE
