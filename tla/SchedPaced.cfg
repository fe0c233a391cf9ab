\* Three tasks that start one at a time.
CONSTANTS
  NTasks = 3
  MaxRuns = 1
  MaxResched = 1
  Nested = FALSE
  Paced = TRUE
SPECIFICATION FairSpec
INVARIANTS
  Cooperative
  RunJoinsAll
PROPERTIES
  RunReturns
  ReschedReturns
  ImplementsBaton
