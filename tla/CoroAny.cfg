SPECIFICATION Spec
CONSTANTS
  Coros = {c1, c2}
  Main = Main
  MaxCalls = 4
  MaxThreads = 1
  Disciplined = FALSE
INVARIANT OneRuns
CHECK_DEADLOCK FALSE
