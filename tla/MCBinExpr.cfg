SPECIFICATION FairSpec
CONSTANTS
  Input <- MCInput
  InstChunk = 4
  ExtraChunk = 4
INVARIANTS
  TypeOK
  ErrorsReported
  FirstChunksOwned
  StructureRecovered
PROPERTIES
  EndsUnlessStarved
CHECK_DEADLOCK FALSE
