SPECIFICATION FairSpec
CONSTANTS
  File = {f, g}
  Ignored = {g}
  MaxTime = 4
  MaxEdit = 4
  Paced = {f, g}
INVARIANTS
  RecordedIsPublished
PROPERTIES
  EditPublished
CHECK_DEADLOCK FALSE
