SPECIFICATION Spec
CONSTANTS
  Indices <- Refs
  Definitions <- Mixed
  MaxDefs = 2
INVARIANTS
  CompiledStarts
CHECK_DEADLOCK FALSE
