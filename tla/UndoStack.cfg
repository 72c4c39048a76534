SPECIFICATION Spec
CONSTANTS
  Fields <- MCFields
  Needs <- MCNeeds
  Values <- MCValues
  CellValues = {0, 1}
  Files <- MCFiles
  Flags = {2}
  SizeField = 1
  Selections <- MCSelections
  Clipboards <- MCClipboards
  MaxMade = 3
  MaxCommands = 2
  MaxUpdates = 1
INVARIANTS
  ConditionsFollowEdits
PROPERTIES
  UndoRestores
CHECK_DEADLOCK FALSE
