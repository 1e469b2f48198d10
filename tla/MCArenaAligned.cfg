SPECIFICATION Spec
CONSTANTS
  PageSize = 4
  HeaderSize = 2
  Commit = 0
  Reserve = 3
  NoGrowing = FALSE
  Size <- MCSize
  Align = {1, 4}
  ResizeOuter = FALSE
  MaxBlocks = 3
  MaxGuards = 2
  MaxLive = 3
INVARIANTS
  PushEndsInBlock
