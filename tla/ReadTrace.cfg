SPECIFICATION Spec
CONSTANTS
  WordBits = 3
  HalfBits = 2
  NumBranches = 2
  Records <- MCRecords
  MaxTrace = 4
  Filters <- MCFilters
  AllocMayFail = TRUE
INVARIANTS
  TypeOK
  CopiesFaithful
  SavedOnce
  FilterExact
  SentinelLast
  NoOrphans
  StreamsAgree
  TraceDataExact
PROPERTIES
  ImplementsSplitter
CHECK_DEADLOCK FALSE
