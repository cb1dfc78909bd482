SPECIFICATION Spec
CONSTANTS
  WhileLimit = 4
INVARIANTS
  RoundTrip
  Laws
  ExitCutsOff
CHECK_DEADLOCK FALSE
