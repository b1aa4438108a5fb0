SPECIFICATION Spec
CONSTANTS
  FAR_FUTURE_EPOCH = 99
  Configs <- ThreeConfigs
  MaxChunks = 2
  max_packet_size = 10485760
  BODY = 2
CHECK_DEADLOCK FALSE
INVARIANTS
  ChunksFaithful
  HonestChunksAccepted
  NothingStalls
  RequestFaithful
