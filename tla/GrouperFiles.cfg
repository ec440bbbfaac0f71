SPECIFICATION Spec
CONSTANTS
  WordBits = 6
  HalfBits = 4
  MaxRecords = 2
  Fields <- MCFields
  TypeRange <- MCTypeRange
  Flows <- MCFlows
  ClauseSets <- MCClauseSets
  FilterFields = {}
  AggrTermset <- NoAggrTerms
INVARIANTS
  FilesHoldMembers
CHECK_DEADLOCK FALSE
