\* The last sample of the monitor against the counters it samples.
CONSTANTS
  MaxRecords = 2
  RingCapacity = 1
  MaxBatchEvents = 1
  ChannelCapacity = 1
  Malformed = {}
  Faults = {}
SPECIFICATION Spec
INVARIANT FinalSampleIsFinal
CHECK_DEADLOCK FALSE
