SPECIFICATION ServerSpec
CONSTANTS
  CapacityBytes = 4
  Batches <- MCBatches
  MaxSeq = 3
  MaxEpoch = 2
  MaxRefusals = 1
  Clients = {c1, c2}
SYMMETRY Symmetry
INVARIANTS
  TelemetryAccountsForBuffer
  AnswersPartitionSeqs
  StatsLagBounded
CHECK_DEADLOCK FALSE
