\* The network service: searches, records, metadata, topics and messages.
CONSTANTS
  FAR_FUTURE_EPOCH = 99
  ChainConfig <- Chain
  AttestationSubnetCount = 1
  SyncCommitteeSubnetCount = 1
  blob_sidecar_subnet_count = 1
  blob_sidecar_subnet_count_electra = 2
  data_column_sidecar_subnet_count = 2
  number_of_custody_groups = 2
  custody_requirement = 1
  max_payload_size = 60
  TopicOptions <- Options
  peerdas_scheduled = TRUE
  update_ports = {"tcp", "quic", "quic6"}
  Subnets <- ThreeSubnets
  Nodes <- TwoNodes
  NodeSubnets <- FoundOn
  MAX_DISCOVERY_RETRY = 1
  MAX_CONCURRENT_SUBNET_QUERIES = 1
  MAX_SUBNETS_IN_QUERY = 2
  ENR_CACHE_CAPACITY = 1
  Budgets <- Occupations
  Ports = {1, 3}
  Sockets <- TwoSockets
  MaxTime = 1
  MAX_CONCURRENT_REQUESTS = 2

SPECIFICATION FairSpec
CHECK_DEADLOCK FALSE

INVARIANTS
  QueryLimits
  CopiesAgree
  SeqNamesRecord
  ForkTopics
  GossipFaithful

PROPERTIES
  QueriesKept
  QueriesEnd
  MetadataConverges
