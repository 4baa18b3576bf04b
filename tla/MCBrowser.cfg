\* Every key; two operations between resets and four keys, in any order.
CONSTANTS
  Nodes <- MCNodes
  NameRank <- MCNameRank
  Pids = {1, 2}
  PageHeight = 2
  Keys <- AllKeys
  None = None
  MaxRecords = 2
  MaxKeys = 4
SPECIFICATION Spec
INVARIANTS TypeOK SelectionFollowsFile FilterHidesNoMatch
PROPERTIES FileHighlightIsSelection EnterFiltersSelectedProcess
CHECK_DEADLOCK FALSE
