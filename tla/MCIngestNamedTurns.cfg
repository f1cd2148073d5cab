SPECIFICATION IngestSpec
CONSTANTS
  Requests <- MCNamedTurns
  RecordTags <- MCRecordTags
  MaxParagraphs = 1
  Separators <- MCSeparators
  Heartbeats <- MCHeartbeats
  HeartbeatTypes <- MCHeartbeatTypes
  DedupTypes <- MCDedupTypes
INVARIANTS
  AnswersKeptByQuestion
CHECK_DEADLOCK FALSE
