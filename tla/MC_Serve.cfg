SPECIFICATION ServeSpec
CONSTANTS
  File = {f}
  Ignored = {}
  MaxTime = 3
  MaxEdit = 3
  Paced = {f}
  Tab = {t}
  Sink = {s1, s2}
  Workers = 2
  MaxGen = 3
  Doc <- Shown
  Html = {1, 2}
INVARIANTS
  NoLostReload
  CallbackHasServer
PROPERTIES
  ImplementsLiveReload
  EditShown
  ServeReturns
CHECK_DEADLOCK FALSE
