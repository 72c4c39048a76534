SPECIFICATION Spec
CONSTANTS
  Nif = {a, b}
  Kfm = {k}
  Archived = {z}
  MaxClicks = 3
INVARIANTS
  UnmarkedIsSaved
  ViewsReconnected
  CursorRestored
PROPERTIES
  PostedLoadsRun
  EnabledAgain
CHECK_DEADLOCK FALSE
