\* Two processes, a file with an alias, and a file below it.
CONSTANTS
  file = file
  alias = alias
  nested = nested
  beside = beside
  root = root
  Pids = {p1, p2}
  Paths <- MCPaths
  Components <- MCComponents
  Deltas <- MCDeltas
  CounterMax = 2
SPECIFICATION Spec
INVARIANTS TypeOK TreeIsClosed AggregatesMatchSubtree IndexMatchesBreakdown ReferencesCounted
PROPERTY LedgerSpec
CHECK_DEADLOCK FALSE
