SPECIFICATION ReadsSpec
CONSTANTS
  Start = 6
  End = 13
  CallerTimes <- MCCallerTimes
  Sizes <- MCSizes
  MaxSeq = 3
  LimitParams <- MCLimitParams
  Windows <- MCWindows
  DefaultLimit = 2
  MaxLimit = 3
  FilterRequests <- MCFilterRequests
INVARIANTS
  QueryIsNewestMatching
  RateIsWindow
  FilterIdsUnique
