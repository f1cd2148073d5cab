SPECIFICATION RingSpec
CONSTANTS
  CapacityBytes = 6
  Batches <- MCBatches
  MaxSeq = 7
  MaxEpoch = 2
  MaxRefusals = 2
INVARIANTS
  TypeOK
  RecordsAccounted
  BytesExact
  BackpressureExact
  DrainIsExact
PROPERTIES
  NeverDropsUnacked
  EvictsOnlyWhenNeeded
  ImplementsLog
CHECK_DEADLOCK FALSE
