SPECIFICATION Spec
CONSTANTS
  a = a
  b = b
  Source = {a, b}
  Output = {a, b}
  OutputOf <- OwnOutputs
  Threads = 2
  MaxContent = 2
  Envs = {{}}

INVARIANTS CacheSingleThreaded
CHECK_DEADLOCK FALSE
