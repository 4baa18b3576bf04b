\* Tasks fail: the reader and the monitor with an error, the aggregator and the output
\* with the state lock, which is then poisoned for all others.
CONSTANTS
  MaxRecords = 3
  RingCapacity = 1
  MaxBatchEvents = 1
  ChannelCapacity = 1
  Malformed = {}
  Faults = {"reader", "aggregator", "stats", "output"}
SPECIFICATION FairSpec
PROPERTIES DeliverySpec ShutdownCompletes WorkerExitEndsProgram
CHECK_DEADLOCK FALSE
