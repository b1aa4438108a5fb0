CONSTANTS
  r1 = r1
  r2 = r2
  r3 = r3
  r4 = r4
  ping = ping
  blocks = blocks
  p1 = p1
  Requests = {r1, r2, r3, r4}
  Keys = {ping, blocks}
  KeyOf <- TwoKeys
  Peers = {p1}
  PeerOf <- OnePeer
  ManyChunks = {blocks}
  Internal = {r4}
  MAX_CONCURRENT_REQUESTS = 2
  RateLimited = TRUE
  InboundErrors = TRUE
SPECIFICATION Spec
INVARIANT ConcurrencyLimit
CHECK_DEADLOCK FALSE
