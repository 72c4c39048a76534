SPECIFICATION Spec
CONSTANTS
  Nif = {a, b}
  Kfm = {k}
  Archived = {z}
  MaxClicks = 3
INVARIANT YesSaves
CHECK_DEADLOCK FALSE
