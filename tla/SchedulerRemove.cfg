SPECIFICATION Spec
CONSTANTS
  t1 = t1
  t2 = t2
  t3 = t3
  t4 = t4
  Tasks = {t1, t2, t3, t4}
  NoTask = NoTask
  MaxProcesses = 3
  ExitAt <- Anywhere
  ReuseFreed = TRUE
  StaleFrame = FALSE
INVARIANTS
  RemovedIsUnlinked
