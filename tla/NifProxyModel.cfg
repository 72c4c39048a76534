SPECIFICATION Spec
CONSTANTS
  MaxBlocks = 3
  MaxRefs = 2
  MaxPtrs = 1
  MaxHeld = 1
INVARIANTS
  TreeIsLinks
  EveryBlockShown
CHECK_DEADLOCK FALSE
