CONSTANTS
  ping = ping
  range = range
  Peers = {p1}
  Protocols = {ping, range}
  replenish_all_every <- Replenish
  max_tokens <- MaxTokens
  MaxResponses = {0, 2, 9}
  U64_MAX = 12
  MaxTime = 6
SPECIFICATION Spec
INVARIANTS WindowBound WaitSuffices
PROPERTY BucketSpec
CHECK_DEADLOCK FALSE
