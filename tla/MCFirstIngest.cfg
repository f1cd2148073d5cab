SPECIFICATION FairWorkSpec
CONSTANTS
  Environments <- MCEnvironments
  FlagSets <- MCFlagSets
  WordMax <- MCWordMax
  Millisecond <- MCMillisecond
  Megabyte <- MCMegabyte
  Texts <- MCTexts
  Limits <- MCLimits
  Inputs <- MCInputs
  BatchSize = 2
  FilterRequests <- MCFilterRequests
INVARIANTS
  StartsSound
  RunsAsWritten
  PiecesSound
  RoutedByOwnScore
  OnlyBadUnscored
  ReportsAgree
  GateSound
PROPERTIES
  NothingLost
  WorkEnds
CHECK_DEADLOCK FALSE
