SPECIFICATION PushSpec
CONSTANTS
  CapacityBytes = 5
  Batches <- MCBatches
  MaxSeq = 3
  MaxEpoch = 2
  MaxRefusals = 0
  Batch = 2
  MaxBodyBytes = 3
  Interval = 1
  MaxBackoff = 4
  RetryAfters <- MCRetryAfters
  MaxRetryAfter = 9
  Second = 3
  WordMax = 31
  MaxLate = 1
INVARIANTS
  AckCannotFail
PROPERTIES
  PushDelivers
  RetriesPaced
CHECK_DEADLOCK FALSE
