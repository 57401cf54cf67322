SPECIFICATION Spec
CONSTANTS
  t1 = t1
  t2 = t2
  t3 = t3
  t4 = t4
  t5 = t5
  Tasks = {t1, t2, t3, t4, t5}
  NoTask = NoTask
  MaxProcesses = 3
  ExitAt <- EndsOnly
  ReuseFreed = FALSE
  StaleFrame = FALSE
INVARIANTS
  TypeOK
  WellLinked
  TableMatchesTasks
  CpuIsCurrent
  FocusIsLoaded
PROPERTIES
  PanicOnlyWhenDone
  FailedLoadKeepsTasks
  Schedules
  EveryTaskRuns
