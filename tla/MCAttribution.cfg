\* One thread, a ring that holds everything, and userspace as late as it likes.
CONSTANTS
  t1 = t1
  t2 = t2
  process = process
  a = a
  b = b
  pipe = pipe
  Threads = {t1}
  ProcessOf <- MCProcessOf
  MaxFd = 1
  Files = {a, b, pipe}
  NonFiles = {pipe}
  None = None
  Unresolved = unresolved
  Inherited <- MCInherited
  Calls <- MCCalls
  StashCapacity = 2
  RingCapacity = 3
  MaxCalls = 5
SPECIFICATION ASpec
INVARIANTS ATypeOK CapturedOpensAreFollowed CacheIsCurrent
CHECK_DEADLOCK FALSE
