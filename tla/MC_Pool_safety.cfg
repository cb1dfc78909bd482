SPECIFICATION Spec
CONSTANTS
  N = 2
  Task = {t1, t2, t3}
  Stopper = {main, other}
  Owner = main
  NULL = NULL
SYMMETRY TaskSymmetry
INVARIANTS
  TypeOK
  RunsOnce
  CountsInFlight
  WaitIdleSound
  EarlyTasksDrained
  JoinedBeforeDestroyed
  IInv
CHECK_DEADLOCK FALSE
PROPERTY ImplementsTaskPool
