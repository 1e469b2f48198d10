SPECIFICATION FairSpec
CONSTANTS
  LaneCount = 3
  SliceKind <- MCSliceKind
  File <- MCReturning
PROPERTIES
  ReadReturns
CHECK_DEADLOCK FALSE
