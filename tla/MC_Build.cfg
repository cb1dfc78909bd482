SPECIFICATION Spec
CONSTANTS
  a = a
  b = b
  Source = {a, b}
  Output = {a, b}
  OutputOf <- OwnOutputs
  Threads = 2
  MaxContent = 3
  Envs = {{"crash", "enospc", "live", "clean"}, {"nocache", "clean", "live", "race"},
          {"revert", "clean", "race"}}
SYMMETRY SourceSymmetry
INVARIANTS TypeOK UpToDate CachedIsFresh IndexSound IndexNeverTorn
PROPERTY ImplementsSiteBuild
CHECK_DEADLOCK FALSE
