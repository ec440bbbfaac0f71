SPECIFICATION Spec
CONSTANTS
  WordBits = 3
  HalfBits = 2
  NumBranches = 2
  MaxGroups = 3
  Members <- MCMembers
  FilterRules <- MCFilterRules
  MergerRules <- MCMergerRules
  IndexRange = 16
INVARIANTS
  TypeOK
  AnswerExact
  FilesAgree
PROPERTIES
  Answered
CHECK_DEADLOCK FALSE
