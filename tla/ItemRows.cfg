SPECIFICATION Spec
CONSTANTS
  Own <- MCOwn
  Ancestor <- MCAncestor
  PartFields <- MCPartFields
  Width = 2
  MaxBlocks = 2
  MaxItems = 3
  MaxRows = 8
  ShownDepth = 0
INVARIANTS
  LinksFound
  OnlyFooterMisplaced
CHECK_DEADLOCK FALSE
