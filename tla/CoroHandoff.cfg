SPECIFICATION FairSpec
CONSTANTS
  Coros = {c1, c2, c3}
  Main = Main
  MaxCalls = 3
  MaxThreads = 3
  Disciplined = TRUE
INVARIANTS
  ThreadsOwned
  PostConsumed
PROPERTIES
  ImplementsHandoff
  CallReturns
  JoinReturns
