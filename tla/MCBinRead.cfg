SPECIFICATION FairSpec
CONSTANTS
  LaneCount = 3
  SliceKind <- MCSliceKind
  File <- MCFile
INVARIANTS
  TypeOK
  LanesAgree
  SameCall
  NoDanglingUse
  DiagnosticsComplete
  ModuleComplete
PROPERTIES
  LanesExit
  ScannedReadReturns
CHECK_DEADLOCK FALSE
