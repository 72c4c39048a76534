SPECIFICATION CacheSpec
CONSTANTS
  NumBlocks = 3
  MaxLink = 3
  MaxRows = 2
INVARIANTS
  NoCycles
  OnlyCycleLinksDropped
  DroppedLinksNeeded
  EveryBlockBelowARoot
CHECK_DEADLOCK FALSE
