SPECIFICATION Spec
CONSTANTS
  Input <- MCInput
  InstChunk = 4
  ExtraChunk = 4
INVARIANTS
  SilentMeansComplete
CHECK_DEADLOCK FALSE
