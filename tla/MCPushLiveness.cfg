SPECIFICATION FairPushSpec
CONSTANTS
  CapacityBytes = 5
  Batches <- MCBatches
  MaxSeq = 3
  MaxEpoch = 1
  MaxRefusals = 1
  Batch = 2
  MaxBodyBytes = 3
  Interval = 1
  MaxBackoff = 4
  RetryAfters <- MCDates
  MaxRetryAfter = 9
  Second = 3
  WordMax = 31
  MaxLate = 0
PROPERTIES
  EventuallyDelivered
  DeliveredLeavesRam
  StopsWhenCancelled
CHECK_DEADLOCK FALSE
