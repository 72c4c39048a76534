SPECIFICATION Spec
CONSTANTS
  a = a
  b = b
  c = c
  Obj = {a, b}
  Type = {"node", "obj"}
  ArrayTypes <- MCArrayTypes
  PtrTypes <- MCPtrTypes
  MaxKids = 1
  MaxLink = 2
  BlockSizes = TRUE
  LooseCounts = TRUE
  Holds = TRUE
  Files <- MCFiles
SYMMETRY MCSymmetry
INVARIANTS
  StaleIsNoted
  WrittenFileDescribesItself
PROPERTY
  LinksFollowBlocks
