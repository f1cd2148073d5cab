SPECIFICATION ServerSpec
CONSTANTS
  CapacityBytes = 4
  Batches <- MCBatches
  MaxSeq = 3
  MaxEpoch = 2
  MaxRefusals = 1
  Clients = {c1, c2}
INVARIANT
  LossIsLogged
CHECK_DEADLOCK FALSE
