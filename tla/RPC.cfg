CONSTANTS
  MaxSubstreams = 2
  OutRequests = {1, 2, 3, 4}
  KindOf <- FourRequests
  MaxResponses = 2
  MAX_INBOUND_SUBSTREAMS = 2
  max_dial_negotiated = 1
  IO_ERROR_RETRIES = 2
  MAX_CONCURRENT_REQUESTS = 1
  Budgets <- Mixes
SPECIFICATION FairSpec
INVARIANTS TimersInBooks ResponsesFaithful LimitCountsUnanswered
PROPERTIES NoResponseAfterEnd RequestEnds ShutdownCloses
CHECK_DEADLOCK FALSE
