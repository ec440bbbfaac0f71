SPECIFICATION Spec
CONSTANTS
  Names <- MCNames
  SizeOf <- MCSizeOf
  Defaults <- MCDefaults
  Queries <- MCQueries
  SizeRange = 4096
INVARIANTS
  LayoutSound
  DescriptionAgrees
  UnsizedNeverUsed
CHECK_DEADLOCK FALSE
