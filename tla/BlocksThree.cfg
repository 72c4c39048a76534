SPECIFICATION Spec
CONSTANTS
  a = a
  b = b
  c = c
  Obj = {a, b, c}
  Type = {"node", "ctrl"}
  ArrayTypes <- MCArrayTypes
  PtrTypes <- MCPtrTypes
  MaxKids = 1
  MaxLink = 3
  BlockSizes = FALSE
  LooseCounts = FALSE
  Holds = FALSE
  Files <- MCFiles
SYMMETRY MCSymmetry
INVARIANTS
  TypeOK
  NumberedOnce
PROPERTY
  LinksFollowBlocks
