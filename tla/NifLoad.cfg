SPECIFICATION Spec
CONSTANT Files <- MCFiles
INVARIANTS
  ReadableIsRead
  NothingMisplaced
  LinksNameBlocks
CHECK_DEADLOCK FALSE
