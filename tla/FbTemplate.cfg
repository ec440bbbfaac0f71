SPECIFICATION Spec
CONSTANTS
  NumBranches = 3
  Sessions <- AllSessions
  Programs <- AllPrograms
  NumClauses = 2
  NumGroups = 2
  NumTuples = 2
INVARIANTS
  CountExact
  TemplateLive
  FreedWithLast
PROPERTIES
  Closes
