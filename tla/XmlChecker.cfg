SPECIFICATION Spec
CONSTANTS
  Thread = {t1, t2}
  File = {f1, f2, k}
  KfmFile = {k}
  MaxClicks = 4
INVARIANTS
  UninterruptedRunIsComplete
  NoReloadDuringTest
  NoThreadOutlivesQueue
PROPERTIES
  RunEnds
  GuiReturns
CHECK_DEADLOCK FALSE
