SPECIFICATION Spec
CONSTANTS
  t1 = t1
  t2 = t2
  t3 = t3
  s1 = s1
  s2 = s2
  Coros = {c1}
  Tasks = {t1, t2}
  Scheds = {s1}
  SchedOf <- OneSched
  Main = Main
  MaxFrames = 1
  MaxEnters = 5
  MaxCalls = 20
  Across = FALSE
INVARIANTS
  StackedInOrder
  SavedInFull
  InnermostCoro
\* Every bound stops the program.
CHECK_DEADLOCK FALSE
