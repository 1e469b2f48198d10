SPECIFICATION FairSpec
CONSTANTS
  Input <- MCInput
  MaxErrors = 4
INVARIANTS
  TypeOK
  AcceptsGrammar
  NothingDropped
PROPERTIES
  EndsUnlessStuck
CHECK_DEADLOCK FALSE
