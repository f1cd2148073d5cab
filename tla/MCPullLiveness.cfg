SPECIFICATION FairPullSpec
CONSTANTS
  CapacityBytes = 4
  Batches <- MCBatches
  MaxSeq = 3
  MaxEpoch = 1
  MaxRefusals = 1
  MaxParams <- MCMaxParams
  DrainMaxDefault = 1
  DrainMaxLimit = 2
  MaxHandlers = 1
PROPERTIES
  EventuallyAcked
  BackpressureEnds
CHECK_DEADLOCK FALSE
