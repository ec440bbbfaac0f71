CONSTANTS
  NumBranches = 2
  Queries <- MCQueries
  Verbosity = {0, 1, 2}
  FilesAsked = {FALSE, TRUE}
SPECIFICATION Spec
CHECK_DEADLOCK FALSE
INVARIANTS
  TypeOK
  CrashesExactly
  FreesAll
  BranchHandedOver
PROPERTIES
  BranchOwned
  Answers
