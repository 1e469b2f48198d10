SPECIFICATION Spec
CONSTANTS
  Input <- MCInput
  InstChunk = 16
  ExtraChunk = 16
INVARIANTS
  ExtrasAsListed
CHECK_DEADLOCK FALSE
