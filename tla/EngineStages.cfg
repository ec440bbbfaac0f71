CONSTANTS
  NumBranches = 1
  Queries <- MCQueries
  Verbosity = {0}
  FilesAsked = {FALSE}
SPECIFICATION Spec
CHECK_DEADLOCK FALSE
INVARIANTS
  StagesOptional
