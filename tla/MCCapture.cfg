\* A stash with room for one thread, so that the other's call is lost.
CONSTANTS
  t1 = t1
  t2 = t2
  process = process
  a = a
  Threads = {t1, t2}
  ProcessOf <- MCProcessOf
  MaxFd = 1
  Files = {a}
  None = None
  Inherited <- MCInherited
  Calls <- MCCalls
  StashCapacity = 1
  RingCapacity = 1
  MaxCalls = 4
SPECIFICATION Spec
INVARIANTS TypeOK StashesHaveOwners ExitsFollowEntries
PROPERTIES EventsTellOfTheirCall EveryLossIsCounted
CHECK_DEADLOCK FALSE
