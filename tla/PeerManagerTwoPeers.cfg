CONSTANTS
  p1 = p1
  p2 = p2
  ip1 = ip1
  Peers = {p1, p2}
  IPs = {ip1}
  Addrs <- OneAddr
  IpOf <- FirstOf
  Trustable = {}
  InitTrusted = {}
  DisablePeerScoring = FALSE
  RemovedWhile = {}
  MAX_DC_PEERS = 1
  MAX_BANNED_PEERS = 1
  BANNED_PEERS_PER_IP_THRESHOLD = 1
  TargetPeers = 1
  AnonymousDialErrors = FALSE
  Discoverable = {p1}
  Requirable = {}
  MaxEvents = 2
  MaxToDial = 1
  MaxDials = 1
SPECIFICATION Spec
INVARIANTS ApplicationKnowsConnections BanReachesDiscovery DisconnectionInProgress
