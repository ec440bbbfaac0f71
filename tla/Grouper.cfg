SPECIFICATION Spec
CONSTANTS
  WordBits = 6
  HalfBits = 4
  MaxRecords = 4
  Fields <- MCFields
  TypeRange <- MCTypeRange
  Flows <- MCFlows
  ClauseSets <- MCClauseSets
  FilterFields = {"b"}
  AggrTermset <- MCAggrTermset
INVARIANTS
  TypeOK
  GroupedOnce
  GroupsAreClasses
  NearStayTogether
  BoundsExact
  AggregatesExact
PROPERTIES
  ImplementsPartition
CHECK_DEADLOCK FALSE
