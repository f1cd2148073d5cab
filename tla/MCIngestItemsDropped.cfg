SPECIFICATION IngestSpec
CONSTANTS
  Requests <- MCJsonLines
  RecordTags <- MCRecordTags
  MaxParagraphs = 1
  Separators <- MCSeparators
  Heartbeats <- MCHeartbeats
  HeartbeatTypes <- MCHeartbeatTypes
  DedupTypes <- MCDedupTypes
INVARIANTS
  ChunkerDropsNothing
CHECK_DEADLOCK FALSE
