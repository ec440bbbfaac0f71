SPECIFICATION Spec
CONSTANTS
  WordBits = 3
  HalfBits = 2
  NumBranches = 2
  MaxGroups = 2
  Queries <- MCQueries
  IndexRange = 16
INVARIANTS
  ClausesAreORd
CHECK_DEADLOCK FALSE
