SPECIFICATION PullSpec
CONSTANTS
  CapacityBytes = 4
  Batches <- MCBatches
  MaxSeq = 3
  MaxEpoch = 2
  MaxRefusals = 0
  MaxParams <- MCMaxParams
  DrainMaxDefault = 1
  DrainMaxLimit = 2
  MaxHandlers = 2
INVARIANTS
  AckReplyCoversRequest
  RestartIsConflict
  EachChunkAckedOnce
PROPERTIES
  PullDelivers
CHECK_DEADLOCK FALSE
