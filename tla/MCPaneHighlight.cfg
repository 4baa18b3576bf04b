\* The process pane, while operations are recorded.
CONSTANTS
  Nodes <- MCNodes
  NameRank <- MCNameRank
  Pids = {1, 2}
  PageHeight = 2
  Keys <- PaneKeys
  None = None
  MaxRecords = 2
  MaxKeys = 2
SPECIFICATION Spec
PROPERTY ProcessHighlightIsSelection
CHECK_DEADLOCK FALSE
