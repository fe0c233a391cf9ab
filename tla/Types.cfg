SPECIFICATION Spec
CONSTANTS
  Indices <- Refs
  Definitions <- Mixed
  MaxDefs = 4
INVARIANTS
  IsDeclared
  RecordsComplete
  SpecificFirst
  LeastSupertype
  WrapsBack
  CompiledAsDeclared
CHECK_DEADLOCK FALSE
