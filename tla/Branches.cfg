SPECIFICATION KfSpec
CONSTANTS
  Names <- MCNames
  Documents <- MCDocuments
  Kfs <- MCKfs
PROPERTIES
  BranchCopied
  BranchRemoved
  LinksKept
  BlocksKeepARoot
  NoRecursiveLinks
  SequencesAttached
CHECK_DEADLOCK FALSE
