\* Any program of three pushes and one run.
CONSTANTS
  NTasks = 3
  MaxRuns = 1
  MaxResched = 1
  Nested = TRUE
  Paced = FALSE
SPECIFICATION FairSpec
INVARIANTS
  IInv
  CooperativeOnceStarted
  LockedJoinReturns
PROPERTIES
  PushReturns
\* The protocol can get stuck: a task that reschedules and one that starts can spin for each other.
CHECK_DEADLOCK FALSE
