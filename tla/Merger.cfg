SPECIFICATION Spec
CONSTANTS
  WordBits = 3
  HalfBits = 2
  NumBranches = 3
  MaxGroups = 3
  Queries <- MCQueries
  IndexRange = 6
INVARIANTS
  TypeOK
  SubscriptsInRange
  ExaminedInOrder
  EveryTupleExamined
  MatchedExactly
  TotalCounts
PROPERTIES
  ImplementsJoin
CHECK_DEADLOCK FALSE
