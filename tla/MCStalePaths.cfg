\* A ring of two events, so that some are lost before the counters are sampled.
CONSTANTS
  t1 = t1
  t2 = t2
  process = process
  a = a
  b = b
  pipe = pipe
  Threads = {t1}
  ProcessOf <- MCProcessOf
  MaxFd = 1
  Files = {a, b}
  NonFiles = {}
  None = None
  Unresolved = unresolved
  Inherited <- NothingInherited
  Calls <- FewCalls
  StashCapacity = 2
  RingCapacity = 2
  MaxCalls = 6
SPECIFICATION ASpec
INVARIANT StalePathsAreNotReused
CHECK_DEADLOCK FALSE
