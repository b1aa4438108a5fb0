CONSTANTS
  p1 = p1
  p2 = p2
  p3 = p3
  ip1 = ip1
  Peers = {p1, p2, p3}
  IPs = {ip1}
  Addrs <- OneAddr
  IpOf <- FirstOf
  Trustable = {p1}
  InitTrusted = {}
  DisablePeerScoring = FALSE
  RemovedWhile <- Unbanned
  MAX_DC_PEERS = 1
  MAX_BANNED_PEERS = 1
  BANNED_PEERS_PER_IP_THRESHOLD = 1
SPECIFICATION DBSpec
INVARIANTS CountersExact ConnectedNotBanned
PROPERTIES PendingBanKept BannedPeersBounded
SYMMETRY UntrustedSymmetry
CHECK_DEADLOCK FALSE
