SPECIFICATION FairSpec
CONSTANTS
  t1 = t1
  t2 = t2
  Thread <- MCThread
  Key <- MCKey
  NoneKey = "none"
  RawHash <- MCRawHash
  CellCount = 2
  StripeCount = 1
  CellSize = 2
  TypeSize = 2
  MembersSize <- MCMembersSize
  CellBytes = 2
  CellAlign = 2
  LocalSize = 5
  PageSize = 3
  ArenaBase = 1
  ArenaSize = 25
  MaxCells = 2
  NoThread = NoThread
INVARIANTS
  Inv
  OneIdPerKey
  PublishedComplete
PROPERTIES
  EntriesAreForever
  ImplementsInterning
  CallsReturn
