SPECIFICATION Spec
CONSTANTS
  Texts <- MCTexts
  Objects <- MCObjects
  Defaults <- MCDefaults
  Tracked = {"t"}
  Value = {"content", "public", "a", "b"}
  Absolute = {"b"}
  MaxEdit = 2
  MaxCommand = 3
INVARIANTS TypeOK MigrateKeeps Completes
CHECK_DEADLOCK FALSE
