\* No task fails; the ring, the channel and batches can be full.
CONSTANTS
  MaxRecords = 3
  RingCapacity = 2
  MaxBatchEvents = 2
  ChannelCapacity = 2
  Malformed = {2}
  Faults = {}
SPECIFICATION FairSpec
INVARIANTS TypeOK NothingLeftBehind ShutdownInOrder ShownLossesAreReal
PROPERTIES DeliverySpec RecordsSettle
CHECK_DEADLOCK FALSE
