SPECIFICATION FairSpec
CONSTANTS
  MaxStart = 3
  Rounds = 20
INVARIANTS
  NoChildLeft
  RunningIsWatched
  AbortsOnlyUnasked
PROPERTIES
  StopReturns
CHECK_DEADLOCK FALSE
