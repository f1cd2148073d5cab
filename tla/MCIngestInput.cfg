SPECIFICATION IngestSpec
CONSTANTS
  Requests <- MCRequests
  RecordTags <- MCRecordTags
  MaxParagraphs = 1
  Separators <- MCSeparators
  Heartbeats <- MCHeartbeats
  HeartbeatTypes <- MCHeartbeatTypes
  DedupTypes <- MCDedupTypes
INVARIANTS
  LinesOnceInOrder
  ChunksBeginRight
  PathIsEnclosing
  KeepsExactlyTheNew
  ItemsFaithful
CHECK_DEADLOCK FALSE
