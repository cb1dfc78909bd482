SPECIFICATION FairSpec
CONSTANTS
  MaxStart = 3
  Rounds = 20
INVARIANTS
  KillIsForOne
CHECK_DEADLOCK FALSE
