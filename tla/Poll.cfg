SPECIFICATION FairSpec
CONSTANTS
  Fds = {0, 1}
  MaxOps = 4
  MaxWaits = 2
  MaxDepth = 2
INVARIANTS
  RegisteredOwned
PROPERTIES
  CalledAsRegistered
  EveryoneCalled
  WaitReturns
\* Every bound stops the program.
CHECK_DEADLOCK FALSE
