\* A window of six ticks in at most three buckets of three ticks.
CONSTANTS
  root = root
  file = file
  directory = directory
  Root = root
  Paths = {directory, file}
  Pids = {p1, p2}
  PrefixesOf <- MCPrefixesOf
  Window = 6
  MaxTimeBuckets = 3
  Amounts = {0, 1}
  MaxTime = 10
  MaxBytes = 4
SPECIFICATION Spec
INVARIANTS TypeOK WindowIsExactToABucket IndexesMatchBuckets
PROPERTY TrackerSpec
CHECK_DEADLOCK FALSE
