\* Two processes and up to three events, in batches of every size.
CONSTANTS
  p1 = p1
  p2 = p2
  file = file
  hidden = hidden
  unresolved = unresolved
  Pids = {p1, p2}
  Descriptors <- MCDescriptors
  Paths = {file, hidden, unresolved}
  Unresolved = unresolved
  Ignored = ignored
  Excluded = {hidden}
  ProcTargets <- MCProcTargets
  CounterMax = 3
  Events <- MCEvents
  MaxEvents = 3
  MaxDrops = 1
SPECIFICATION Spec
INVARIANTS IndexedGroupsAreActive 
PROPERTIES PerEventSpec EventsCountForThemselves
CHECK_DEADLOCK FALSE
