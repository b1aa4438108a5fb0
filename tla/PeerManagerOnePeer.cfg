CONSTANTS
  p1 = p1
  p2 = p2
  ip1 = ip1
  Peers = {p1}
  IPs = {ip1}
  Addrs <- OneAddr
  IpOf <- FirstOf
  Trustable = {p1}
  InitTrusted = {}
  DisablePeerScoring = FALSE
  RemovedWhile <- Statuses
  MAX_DC_PEERS = 0
  MAX_BANNED_PEERS = 0
  BANNED_PEERS_PER_IP_THRESHOLD = 1
  TargetPeers = 1
  AnonymousDialErrors = TRUE
  Discoverable = {p1}
  Requirable = {p1}
  MaxEvents = 2
  MaxToDial = 1
  MaxDials = 1
SPECIFICATION FairSpec
INVARIANTS CountersOneSided ConnectedHasConnection
PROPERTIES DBSpec ShutdownCompletes
