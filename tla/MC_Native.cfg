SPECIFICATION FairSpec
CONSTANTS
  Name <- Names
  Ignored = {".git"}
  Path <- Places
  Root <- TheRoot
  First <- Numbered
  FirstMade = 3
  MaxOp = 2
  MaxWd = 4
  MaxQueue = 3
INVARIANTS
  TypeOK
  NoStrayWatch
  InSync
PROPERTIES
  Reported
  StopReturns
CHECK_DEADLOCK FALSE
