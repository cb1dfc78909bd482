SPECIFICATION FairSpec
CONSTANTS
  N = 2
  Task = {t1, t2}
  Stopper = {main}
  Owner = main
  NULL = NULL
INVARIANTS
  PendingTasksComplete
PROPERTIES
  WaitIdleReturns
  QueuedTaskRuns
  ShutdownReturns
CHECK_DEADLOCK FALSE
