\* Two pushes in quick succession.
CONSTANTS
  NTasks = 2
  MaxRuns = 1
  MaxResched = 0
  Nested = FALSE
  Paced = FALSE
SPECIFICATION Spec
INVARIANT Cooperative
CHECK_DEADLOCK FALSE
