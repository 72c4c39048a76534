SPECIFICATION Spec
CONSTANTS
  Documents <- MCDocuments
  Plain <- MCPlain
PROPERTIES
  ContentKept
  PropertiesCombined
  PropertiesSplit
  BogusNodesGone
  BlocksInOrder
CHECK_DEADLOCK FALSE
