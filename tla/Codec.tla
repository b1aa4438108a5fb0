------------------------------- MODULE Codec -------------------------------
(***************************************************************************)
(* One request/response substream on the wire: the protocol the two sides  *)
(* agree on (src/rpc/protocol.rs), the request the outbound codec writes   *)
(* and the inbound codec reads, and the response chunks that come back     *)
(* (src/rpc/codec.rs), with the values they carry (src/rpc/methods.rs).    *)
(*                                                                         *)
(* Bytes are counted, not spelled out.  A message is a sequence of         *)
(* segments (response code, context bytes, length prefix, body); the       *)
(* decoder sees a number of received bytes and takes segments off the      *)
(* front when it has enough.  A segment taken for another one is garbage.  *)
(*                                                                         *)
(* The requester and the responder share the chain configuration; each     *)
(* moves to the next fork in its own time.                                 *)
(***************************************************************************)
EXTENDS ForkContext, Sequences, SequencesExt

CONSTANTS
  Configs,             \* chain configurations
  MaxChunks,           \* bound: response chunks of a request
  max_packet_size,     \* the largest SSZ message, in bytes
  BODY                 \* bound: compressed bytes of a body that is not empty

VARIABLES
  config,         \* the chain configuration
  current_fork,   \* each side's current fork
  offers,         \* the versioned protocols the responder supports
  request,        \* the request the requester asks
  protocol_id,    \* the versioned protocol negotiated for the substream
  stage,          \* how far the substream is
  asked,          \* the request the responder decoded
  sent,           \* the response chunks the responder encoded
  src,            \* the requester's read buffer and what will follow in it
  codec,          \* the state of the requester's decoder
  decoded         \* the chunks, or the error, the decoder returned

vars == <<config, current_fork, offers, request, protocol_id, stage, asked,
          sent, src, codec, decoded>>

Sides == {"requester", "responder"}

-----------------------------------------------------------------------------
(* Protocols. *)

\* The protocol of each versioned protocol.
protocol ==
  [StatusV1 |-> "Status", StatusV2 |-> "Status", GoodbyeV1 |-> "Goodbye",
   BlocksByRangeV1 |-> "BlocksByRange", BlocksByRangeV2 |-> "BlocksByRange",
   BlocksByRootV1 |-> "BlocksByRoot", BlocksByRootV2 |-> "BlocksByRoot",
   BlobsByRangeV1 |-> "BlobsByRange", BlobsByRootV1 |-> "BlobsByRoot",
   DataColumnsByRootV1 |-> "DataColumnsByRoot",
   DataColumnsByRangeV1 |-> "DataColumnsByRange",
   PingV1 |-> "Ping", MetaDataV1 |-> "MetaData", MetaDataV2 |-> "MetaData",
   MetaDataV3 |-> "MetaData", LightClientBootstrapV1 |-> "LightClientBootstrap",
   LightClientOptimisticUpdateV1 |-> "LightClientOptimisticUpdate",
   LightClientFinalityUpdateV1 |-> "LightClientFinalityUpdate",
   LightClientUpdatesByRangeV1 |-> "LightClientUpdatesByRange"]

SupportedProtocol == DOMAIN protocol

version(v) ==
  CASE v = "MetaDataV3" -> 3
    [] v \in {"StatusV2", "BlocksByRangeV2", "BlocksByRootV2", "MetaDataV2"} -> 2
    [] OTHER -> 1

LightClient == {"LightClientBootstrap", "LightClientOptimisticUpdate",
                "LightClientFinalityUpdate", "LightClientUpdatesByRange"}

Blocks == {"BlocksByRange", "BlocksByRoot"}
Blobs == {"BlobsByRange", "BlobsByRoot"}
DataColumns == {"DataColumnsByRange", "DataColumnsByRoot"}

\* The protocols whose chunks follow one another until a terminator.
Multiple == Blocks \cup Blobs \cup DataColumns

is_peerdas_scheduled(c) == fork_exists(c, Fulu)

currently_supported(c) ==
  {"StatusV2", "StatusV1", "GoodbyeV1", "BlocksByRangeV2", "BlocksByRangeV1",
   "BlocksByRootV2", "BlocksByRootV1", "PingV1", "MetaDataV2", "MetaDataV1"}
  \cup (IF is_peerdas_scheduled(c) THEN {"MetaDataV3"} ELSE {})
  \cup (IF fork_exists(c, Deneb) THEN {"BlobsByRootV1", "BlobsByRangeV1"} ELSE {})
  \cup (IF is_peerdas_scheduled(c)
        THEN {"DataColumnsByRootV1", "DataColumnsByRangeV1"} ELSE {})

protocol_info(c, enable_light_client_server) ==
  currently_supported(c) \cup
    (IF enable_light_client_server
     THEN {"LightClientBootstrapV1", "LightClientOptimisticUpdateV1",
           "LightClientFinalityUpdateV1"}
     ELSE {})

\* Mutant: the oldest version of a block request is proposed first.
supported_protocolsOldFirst(name) ==
  CASE name = "Status" -> <<"StatusV2", "StatusV1">>
    [] name = "BlocksByRange" -> <<"BlocksByRangeV1", "BlocksByRangeV2">>
    [] name = "BlocksByRoot" -> <<"BlocksByRootV2", "BlocksByRootV1">>
    [] name = "MetaData" -> <<"MetaDataV3", "MetaDataV2", "MetaDataV1">>
    [] OTHER -> <<CHOOSE v \in SupportedProtocol : protocol[v] = name>>

\* What the dialer proposes for a request, the preferred version first.
supported_protocols(name) ==
  CASE name = "Status" -> <<"StatusV2", "StatusV1">>
    [] name = "BlocksByRange" -> <<"BlocksByRangeV2", "BlocksByRangeV1">>
    [] name = "BlocksByRoot" -> <<"BlocksByRootV2", "BlocksByRootV1">>
    [] name = "MetaData" -> <<"MetaDataV3", "MetaDataV2", "MetaDataV1">>
    [] OTHER -> <<CHOOSE v \in SupportedProtocol : protocol[v] = name>>

has_context_bytes(v) ==
  v \in {"BlocksByRangeV2", "BlocksByRootV2", "BlobsByRangeV1", "BlobsByRootV1",
         "DataColumnsByRootV1", "DataColumnsByRangeV1", "LightClientBootstrapV1",
         "LightClientOptimisticUpdateV1", "LightClientFinalityUpdateV1",
         "LightClientUpdatesByRangeV1"}

-----------------------------------------------------------------------------
(* Length limits, in bytes of SSZ. *)

RpcLimits(min, max) == [min |-> min, max |-> max]

is_out_of_bounds(limits, length) ==
  \/ length > Min({limits.max, max_packet_size})
  \/ length < limits.min

\* SIGNED_BEACON_BLOCK_BELLATRIX_MAX and max_data_columns_by_root_request: above
\* max_packet_size, which is then the bound.
HUGE == 2 ^ 30

rpc_block_limits_by_fork(phase) ==
  CASE phase = Phase0 -> RpcLimits(404, 157756)
    [] phase = Altair -> RpcLimits(404, 157916)
    [] OTHER -> RpcLimits(404, HUGE)

rpc_blob_limits == RpcLimits(131928, 131928)

\* The lengths of the empty and of the full column of each form.
DataColumnMin(phase) == IF phase >= Gloas THEN 60 ELSE 356
DataColumnMax(phase) == DataColumnMin(phase) + 4096 * 2144

rpc_data_column_limits(phase) == RpcLimits(DataColumnMin(phase), DataColumnMax(phase))

\* The lengths of the Altair containers; from Capella on each header carries
\* an execution payload header besides.
altair_fixed_len ==
  [LightClientBootstrap |-> 24896, LightClientOptimisticUpdate |-> 280,
   LightClientFinalityUpdate |-> 584, LightClientUpdatesByRange |-> 25368]

MaxExtraDataBytes == 32
ExecutionHeaderLen == 704

rpc_light_client_limits_by_fork(name, phase) ==
  CASE phase = Phase0 -> RpcLimits(0, 0)
    [] phase \in {Altair, Bellatrix} ->
         RpcLimits(altair_fixed_len[name], altair_fixed_len[name])
    [] OTHER -> RpcLimits(altair_fixed_len[name],
                          altair_fixed_len[name] + MaxExtraDataBytes)

rpc_response_limits(v, phase) ==
  LET name == protocol[v]
  IN  CASE name = "Status" -> RpcLimits(84, 92)
        [] name = "Goodbye" -> RpcLimits(0, 0)
        [] name \in Blocks -> rpc_block_limits_by_fork(phase)
        [] name \in Blobs -> rpc_blob_limits
        [] name \in DataColumns -> rpc_data_column_limits(phase)
        [] name = "Ping" -> RpcLimits(8, 8)
        [] name = "MetaData" -> RpcLimits(16, 25)
        [] name \in LightClient -> rpc_light_client_limits_by_fork(name, phase)

max_request_blocks(phase) == IF phase >= Deneb THEN 128 ELSE 1024
max_request_blob_sidecars(phase) == IF phase >= Electra THEN 1152 ELSE 768
NumberOfColumns == 128

rpc_request_limits(v, phase) ==
  LET name == protocol[v]
  IN  CASE name = "Status" -> RpcLimits(84, 92)
        [] name = "Goodbye" -> RpcLimits(8, 8)
        [] name = "BlocksByRange" -> RpcLimits(24, 24)
        [] name = "BlocksByRoot" -> RpcLimits(0, max_request_blocks(Phase0) * 32)
        [] name = "BlobsByRange" -> RpcLimits(16, 16)
        [] name = "BlobsByRoot" -> RpcLimits(0, max_request_blob_sidecars(phase) * 40)
        [] name = "DataColumnsByRoot" -> RpcLimits(0, HUGE)
        [] name = "DataColumnsByRange" -> RpcLimits(20 + 8, 20 + 8 * NumberOfColumns)
        [] name = "Ping" -> RpcLimits(8, 8)
        [] name = "LightClientBootstrap" -> RpcLimits(32, 32)
        [] OTHER -> RpcLimits(0, 0)

-----------------------------------------------------------------------------
(* Values.  A payload has the SSZ type it is serialized as, its length and   *)
(* the fields the properties tell apart.                                     *)

Payload(type, len) == [type |-> type, len |-> len]

StatusV1 == Payload(<<"Status", 1>>, 84)
StatusV2(slot) == Payload(<<"Status", 2>>, 92) @@ [earliest_available_slot |-> slot]

status_v1(status) == StatusV1
status_v2(status) == IF status.type[2] = 1 THEN StatusV2(0) ELSE status

MetaDataV1 == Payload(<<"MetaData", 1>>, 16)
MetaDataV2(syncnets) == Payload(<<"MetaData", 2>>, 17) @@ [syncnets |-> syncnets]
MetaDataV3(syncnets, count) ==
  Payload(<<"MetaData", 3>>, 25) @@ [syncnets |-> syncnets, custody_group_count |-> count]

custody_requirement == 4

metadata_v1(m) == MetaDataV1
metadata_v2(m) == MetaDataV2(IF m.type[2] = 1 THEN {} ELSE m.syncnets)
metadata_v3(m) ==
  CASE m.type[2] = 1 -> MetaDataV3({}, custody_requirement)
    [] m.type[2] = 2 -> MetaDataV3(m.syncnets, custody_requirement)
    [] m.type[2] = 3 -> m

\* An object of the chain: slot() falls in the epoch.
Object(type, len, epoch) == Payload(type, len) @@ [epoch |-> epoch]

\* Response codes.
InvalidRequest == 1
ServerError == 2
ResourceUnavailable == 3
RateLimited == 139
BlobsNotFoundForBlock == 140
Unknown == 255

\* A chunk is a success with its payload or an error with its message, which
\* ErrorType cuts off at MaxErrorLen bytes.
MaxErrorLen == 256
Success(payload) == [code |-> 0, payload |-> payload]
ErrorType(length) == Payload(<<"ErrorType", 0>>, Min({length, MaxErrorLen}))
RpcError(code, message) == [code |-> code, payload |-> message]

\* Mutant: the code for missing blobs is not read back.
from_errorNotBlobs(code, message) ==
  RpcError(IF code \in {InvalidRequest, ServerError, ResourceUnavailable, RateLimited}
           THEN code ELSE Unknown, message)

from_error(code, message) ==
  RpcError(IF code \in {InvalidRequest, ServerError, ResourceUnavailable, RateLimited,
                        BlobsNotFoundForBlock}
           THEN code ELSE Unknown, message)

is_response(code) == code = 0

\* Goodbye reasons: a reason that is not known is read as Unknown, 0.
GoodbyeReason(id) ==
  IF id \in {1, 2, 3, 128, 129, 250, 251, 252} THEN id ELSE 0

-----------------------------------------------------------------------------
(* Segments.  The bytes of a message arrive in order and in any portions.    *)

CONTEXT_BYTES_LEN == 4

\* The length prefix is a varint; a body without content has no bytes.
Bytes(segment) ==
  CASE "code" \in DOMAIN segment -> 1
    [] "context" \in DOMAIN segment -> CONTEXT_BYTES_LEN
    [] "length" \in DOMAIN segment -> IF segment.length < 128 THEN 1 ELSE 2
    [] "body" \in DOMAIN segment -> IF segment.body.len = 0 THEN 0 ELSE BODY

TotalBytes(segments) ==
  LET total[i \in 0 .. Len(segments)] ==
        IF i = 0 THEN 0 ELSE total[i - 1] + Bytes(segments[i])
  IN  total[Len(segments)]

\* Above the compressed length of every honest body.
max_compressed_len == BODY + 2

NoSrc == [received |-> 0, segments |-> <<>>]
Write(buffer, segments) == [buffer EXCEPT !.segments = @ \o segments]
SplitTo(buffer) ==
  [received |-> buffer.received - Bytes(Head(buffer.segments)),
   segments |-> Tail(buffer.segments)]

LengthAndBody(payload) == <<[length |-> payload.len], [body |-> payload]>>

None == -1
Failed(error) == [failed |-> error]
Garbage == Failed("Garbage")
NotYet == [more |-> TRUE]
Reading == [reading |-> TRUE]

NewCodec == [code |-> None, phase |-> None, len |-> None, more |-> TRUE]

-----------------------------------------------------------------------------
(* Encoding. *)

\* The outbound codec: what a request becomes for the negotiated version.
RequestPayload(v, r) ==
  CASE v = "StatusV1" -> status_v1(r.payload)
    [] v = "StatusV2" -> status_v2(r.payload)
    [] OTHER -> r.payload

\* Requests that are nothing but the protocol they are asked on.
EmptyRequests == {"MetaData", "LightClientOptimisticUpdate", "LightClientFinalityUpdate"}

EncodeRequest(v, r) ==
  IF r.name \in EmptyRequests THEN <<>> ELSE LengthAndBody(RequestPayload(v, r))

\* The inbound codec: what a response becomes for the negotiated version.
ResponsePayload(v, payload) ==
  CASE v = "StatusV1" -> status_v1(payload)
    [] v = "StatusV2" -> status_v2(payload)
    [] v = "MetaDataV1" -> metadata_v1(payload)
    [] v = "MetaDataV2" -> metadata_v2(payload)
    [] v = "MetaDataV3" -> metadata_v3(payload)
    [] OTHER -> payload

\* Mutant: the digest of the responder's fork, not of the payload's.
ContextSegmentCurrent(v, chunk) ==
  IF has_context_bytes(v) /\ is_response(chunk.code)
  THEN <<[context |-> current_fork["responder"].fork_digest]>> ELSE <<>>

\* context_bytes() of the codec: the digest of the fork the payload's slot is in.
ContextSegment(v, chunk) ==
  IF has_context_bytes(v) /\ is_response(chunk.code)
  THEN <<[context |-> context_bytes(config, chunk.payload.epoch)]>> ELSE <<>>

encode_response(v, chunk) ==
  LET payload == IF is_response(chunk.code) THEN ResponsePayload(v, chunk.payload)
                 ELSE chunk.payload
  IN  <<[code |-> chunk.code]>> \o ContextSegment(v, chunk) \o LengthAndBody(payload)

-----------------------------------------------------------------------------
(* Decoding.  A decoder step works on d: the buffer, the codec's fields and   *)
(* what the call returns; a step does nothing once the call is to return.     *)

\* The decoder needs `bytes` more and takes a segment with the field.
Available(d, bytes) == d.buffer.received >= bytes
HeadIs(d, field) == d.buffer.segments # <<>> /\ field \in DOMAIN Head(d.buffer.segments)

\* Mutant: waits for one byte more.
ReadCodeLate(d) ==
  IF ~Available(d, 3) THEN [d EXCEPT !.out = NotYet]
  ELSE IF d.code # None THEN d
  ELSE IF ~HeadIs(d, "code") THEN [d EXCEPT !.out = Garbage]
  ELSE [d EXCEPT !.code = Head(d.buffer.segments).code, !.buffer = SplitTo(@)]

\* A lone byte waits for more; the code is read once per chunk.
ReadCode(d) ==
  IF ~Available(d, 2) THEN [d EXCEPT !.out = NotYet]
  ELSE IF d.code # None THEN d
  ELSE IF ~HeadIs(d, "code") THEN [d EXCEPT !.out = Garbage]
  ELSE [d EXCEPT !.code = Head(d.buffer.segments).code, !.buffer = SplitTo(@)]

context_bytes_to_phase(context) == get_fork_from_context_bytes(config, context)

ReadContext(v, d) ==
  IF d.out # Reading \/ ~is_response(d.code) \/ ~has_context_bytes(v) \/ d.phase # None
  THEN d
  ELSE IF ~Available(d, CONTEXT_BYTES_LEN) THEN [d EXCEPT !.out = NotYet]
  ELSE IF ~HeadIs(d, "context") THEN [d EXCEPT !.out = Garbage]
  ELSE LET fork == context_bytes_to_phase(Head(d.buffer.segments).context)
       IN  IF fork = NoFork THEN [d EXCEPT !.out = Failed("ErrorResponse")]
           ELSE [d EXCEPT !.phase = fork.phase, !.buffer = SplitTo(@)]

handle_length(d) ==
  IF d.out # Reading \/ d.len # None THEN d
  ELSE IF d.buffer.segments = <<>> \/ ~Available(d, Bytes(Head(d.buffer.segments)))
       THEN [d EXCEPT !.out = NotYet]
  ELSE IF ~HeadIs(d, "length") THEN [d EXCEPT !.out = Garbage]
  ELSE [d EXCEPT !.len = Head(d.buffer.segments).length, !.buffer = SplitTo(@)]

CheckLength(d, limits) ==
  IF d.out = Reading /\ is_out_of_bounds(limits, d.len)
  THEN [d EXCEPT !.out = Failed("InvalidData")] ELSE d

\* The snappy reader stopped before the buffer was full.
handle_error(num_bytes) ==
  IF num_bytes >= max_compressed_len THEN Failed("InvalidData") ELSE NotYet

\* The body, when all of it has arrived: the call is about to return it.
ReadBody(d) ==
  IF d.out # Reading THEN d
  ELSE IF ~HeadIs(d, "body") THEN [d EXCEPT !.out = Garbage]
  ELSE IF ~Available(d, Bytes(Head(d.buffer.segments)))
       THEN [d EXCEPT !.out = handle_error(d.buffer.received)]
  ELSE [d EXCEPT !.out = [body |-> Head(d.buffer.segments).body],
                 !.len = None, !.buffer = SplitTo(@)]

from_ssz(type, payload) == payload.type = type

BlockType(v, phase) ==
  <<"Block", IF v \in {"BlocksByRangeV1", "BlocksByRootV1"} THEN Phase0 ELSE phase>>

BlobType(phase) == IF phase >= Deneb THEN <<"Blob", 0>> ELSE <<"Invalid", 0>>

DataColumnType(phase) ==
  IF phase \in {Fulu, Gloas} THEN <<"DataColumn", phase>> ELSE <<"Invalid", 0>>

\* Altair's containers serve Bellatrix.
LightClientType(name, phase) ==
  CASE phase = Phase0 -> <<"Invalid", 0>>
    [] phase \in {Altair, Bellatrix} -> <<name, Altair>>
    [] OTHER -> <<name, phase>>

\* The type a success chunk is read as.
ResponseType(v, phase) ==
  LET name == protocol[v]
  IN  CASE v = "StatusV1" -> <<"Status", 1>>
        [] v = "StatusV2" -> <<"Status", 2>>
        [] v = "MetaDataV1" -> <<"MetaData", 1>>
        [] v = "MetaDataV2" -> <<"MetaData", 2>>
        [] v = "MetaDataV3" -> <<"MetaData", 3>>
        [] name = "Ping" -> <<"Ping", 0>>
        [] name = "Goodbye" -> <<"Invalid", 0>>
        [] name \in Blocks -> BlockType(v, phase)
        [] name \in Blobs -> BlobType(phase)
        [] name \in DataColumns -> DataColumnType(phase)
        [] name \in LightClient -> LightClientType(name, phase)

handle_rpc_response(v, payload, phase) ==
  LET type == ResponseType(v, phase)
  IN  CASE type = <<"Invalid", 0>> -> Failed("ErrorResponse")
        [] from_ssz(type, payload) -> Success(payload)
        [] OTHER -> Failed("SszReadError")

decode_response(v, d) ==
  LET limits == rpc_response_limits(v, current_fork["requester"].fork_name)
      r == ReadBody(CheckLength(handle_length(ReadContext(v, d)), limits))
  IN  IF "body" \in DOMAIN r.out
      THEN [r EXCEPT !.out = handle_rpc_response(v, r.out.body, r.phase), !.phase = None]
      ELSE r

decode_error(d) ==
  LET r == ReadBody(CheckLength(handle_length(d), RpcLimits(0, MaxErrorLen)))
  IN  IF "body" \in DOMAIN r.out
      THEN [r EXCEPT !.out = from_error(r.code, r.out.body)] ELSE r

\* One call of the outbound codec's decoder.
OutboundDecode(v, d) ==
  LET r == ReadCode(d)
      s == IF is_response(r.code) THEN decode_response(v, r) ELSE decode_error(r)
  IN  IF r.out # Reading THEN r
      ELSE IF "payload" \in DOMAIN s.out THEN [s EXCEPT !.code = None] ELSE s

\* The most items the SSZ list of a request by root may have.
ListBound(name, phase) ==
  IF name = "BlobsByRoot" THEN max_request_blob_sidecars(phase) ELSE max_request_blocks(phase)

handle_rpc_request(v, payload, phase) ==
  CASE protocol[v] \in {"BlocksByRoot", "BlobsByRoot", "DataColumnsByRoot"}
         /\ payload.type[2] > ListBound(protocol[v], phase) -> Failed("SszReadError")
    [] protocol[v] = "Goodbye" ->
         [version |-> v,
          payload |-> Payload(<<"Goodbye", GoodbyeReason(payload.type[2])>>, 8)]
    [] OTHER -> [version |-> v, payload |-> payload]

\* One call of the inbound codec's decoder.
InboundDecode(v, d) ==
  LET phase == current_fork["responder"].fork_name
      r == ReadBody(CheckLength(handle_length(d), rpc_request_limits(v, phase)))
  IN  IF "body" \in DOMAIN r.out
      THEN [r EXCEPT !.out = handle_rpc_request(v, r.out.body, phase)] ELSE r

-----------------------------------------------------------------------------
(* The requester and the responder. *)

\* The requests the requester builds: lists are as long as its phase allows.
Requests(phase) ==
  LET R(name, payload) == [name |-> name, payload |-> payload]
      Roots(name, n, size) == R(name, Payload(<<name, n>>, n * size))
  IN  {R("Status", StatusV1), R("Status", StatusV2(1)),
       R("Goodbye", Payload(<<"Goodbye", 129>>, 8)),
       R("Goodbye", Payload(<<"Goodbye", 77>>, 8)),
       R("BlocksByRange", Payload(<<"BlocksByRange", 0>>, 24)),
       Roots("BlocksByRoot", 0, 32),
       Roots("BlocksByRoot", max_request_blocks(phase), 32),
       R("BlobsByRange", Payload(<<"BlobsByRange", 0>>, 16)),
       Roots("BlobsByRoot", max_request_blob_sidecars(phase), 40),
       Roots("DataColumnsByRoot", max_request_blocks(Deneb), 44),
       R("DataColumnsByRange", Payload(<<"DataColumnsByRange", 1>>, 20 + 8)),
       R("DataColumnsByRange",
         Payload(<<"DataColumnsByRange", NumberOfColumns>>, 20 + 8 * NumberOfColumns)),
       R("Ping", Payload(<<"Ping", 0>>, 8)),
       R("MetaData", Payload(<<"MetaData", 0>>, 0)),
       R("LightClientBootstrap", Payload(<<"LightClientBootstrap", 0>>, 32)),
       R("LightClientOptimisticUpdate", Payload(<<"LightClientOptimisticUpdate", 0>>, 0)),
       R("LightClientFinalityUpdate", Payload(<<"LightClientFinalityUpdate", 0>>, 0)),
       R("LightClientUpdatesByRange", Payload(<<"LightClientUpdatesByRange", 0>>, 16))}

LastEpoch(c) == Max(all_fork_epochs(c)) + 1

\* The epochs the responder has objects of: those of its current fork and before.
\* (Bound: the first epoch, the one before its current fork's and its fork's.)
Epochs ==
  LET next == next_fork(config, current_fork["responder"])
      known == 0 .. (IF next = NoFork THEN LastEpoch(config) ELSE next.fork_epoch - 1)
  IN  {e \in known : e = 0 \/ e >= current_fork["responder"].fork_epoch - 1}

BlockLens(phase) ==
  IF phase <= Altair
  THEN {404, rpc_block_limits_by_fork(phase).max}
  ELSE {404, max_packet_size, max_packet_size + 1}

LightClientLen(name, phase) ==
  altair_fixed_len[name] + (IF phase >= Capella THEN ExecutionHeaderLen ELSE 0)

\* A light client object is of the form of the header it attests to, which may
\* be an epoch older than its slot().
LightClientObjects(name, e) ==
  {Object(LightClientType(name, phase), LightClientLen(name, phase), e) :
     phase \in {phase_at_epoch(config, a) : a \in {Max({e - 1, 0}), e}} \ {Phase0}}

ObjectsAt(name, e) ==
  LET phase == phase_at_epoch(config, e)
  IN  CASE name \in Blocks -> {Object(<<"Block", phase>>, n, e) : n \in BlockLens(phase)}
        [] name \in Blobs ->
             {Object(<<"Blob", 0>>, 131928, e) : p \in {phase} \cap (Deneb .. Gloas)}
        [] name \in DataColumns ->
             {Object(<<"DataColumn", phase>>, n, e) :
                n \in IF phase >= Fulu THEN {DataColumnMin(phase), DataColumnMax(phase)}
                      ELSE {}}
        [] name \in LightClient -> LightClientObjects(name, e)

SuccessPayloads(name) ==
  CASE name = "Status" -> {StatusV1, StatusV2(1)}
    [] name = "Ping" -> {Payload(<<"Ping", 0>>, 8)}
    [] name = "MetaData" -> {MetaDataV1, MetaDataV2({1}), MetaDataV3({1}, 8)}
    [] name = "Goodbye" -> {}
    [] OTHER -> UNION {ObjectsAt(name, e) : e \in Epochs}

Errors == {RpcError(code, ErrorType(0)) : code \in {InvalidRequest, Unknown}}
          \cup {RpcError(code, ErrorType(300)) : code \in {RateLimited, BlobsNotFoundForBlock}}

\* The chunks come in the order of their slots (bound: in the same epoch or the
\* next, and no longer than the one before).
InOrder(chunk) ==
  sent # <<>> /\ is_response(chunk.code) =>
    /\ chunk.payload.epoch - Last(sent).payload.epoch \in {0, 1}
    /\ chunk.payload.len <= Last(sent).payload.len

\* What a node of the first release offers.
FirstVersions == {"StatusV1", "GoodbyeV1", "BlocksByRangeV1", "BlocksByRootV1",
                  "PingV1", "MetaDataV1"}

Init ==
  /\ config \in Configs
  /\ \E e \in all_fork_epochs(config) : current_fork = [side \in Sides |-> HardFork(config, e)]
  /\ request \in Requests(current_fork["requester"].fork_name)
  /\ offers \in IF Len(supported_protocols(request.name)) > 1
                THEN {protocol_info(config, FALSE), FirstVersions}
                ELSE {protocol_info(config, TRUE), protocol_info(config, FALSE)}
  /\ protocol_id = ""
  /\ stage = "new"
  /\ asked = NotYet
  /\ sent = <<>>
  /\ src = NoSrc
  /\ codec = NewCodec
  /\ decoded = <<>>

\* The first proposal of the dialer the listener supports; the dialer writes the
\* request and closes its half.  Without a request to read the listener has it.
Negotiate ==
  /\ stage = "new"
  /\ LET common == SelectSeq(supported_protocols(request.name), LAMBDA v : v \in offers)
     IN  IF common = <<>>
         THEN /\ stage' = "unsupported"
              /\ UNCHANGED <<protocol_id, asked, src>>
         ELSE /\ protocol_id' = Head(common)
              /\ src' = Write(src, EncodeRequest(Head(common), request))
              /\ IF request.name \in EmptyRequests
                 THEN /\ stage' = "answering"
                      /\ asked' = [version |-> Head(common), payload |-> request.payload]
                 ELSE /\ stage' = "asking"
                      /\ UNCHANGED asked
  /\ UNCHANGED <<config, current_fork, offers, request, sent, codec, decoded>>

\* The reader of the substream gets some more bytes.
Receive ==
  /\ stage \in {"asking", "answering", "closed"}
  /\ codec.more
  /\ \E n \in 1 .. TotalBytes(src.segments) - src.received :
       src' = [src EXCEPT !.received = @ + n]
  /\ codec' = [codec EXCEPT !.more = FALSE]
  /\ UNCHANGED <<config, current_fork, offers, request, protocol_id, stage, asked, sent,
                 decoded>>

\* The codec and its buffer after a call of a decoder.
Decoding == codec @@ [buffer |-> src, out |-> Reading]
After(d) ==
  /\ src' = d.buffer
  /\ codec' = [code |-> d.code, phase |-> d.phase, len |-> d.len, more |-> d.out = NotYet]

\* upgrade_inbound waits for the request.
DecodeRequest ==
  /\ stage = "asking"
  /\ ~codec.more
  /\ LET d == InboundDecode(protocol_id, Decoding)
     IN  IF d.out = NotYet
         THEN /\ After(d)
              /\ UNCHANGED <<stage, asked>>
         ELSE /\ asked' = d.out
              /\ stage' = IF "failed" \in DOMAIN d.out THEN "failed" ELSE "answering"
              /\ src' = d.buffer
              /\ codec' = NewCodec
  /\ UNCHANGED <<config, current_fork, offers, request, protocol_id, sent, decoded>>

\* ... for REQUEST_TIMEOUT seconds.
RequestTimeout ==
  /\ stage = "asking"
  /\ stage' = "failed"
  /\ asked' = Failed("StreamTimeout")
  /\ UNCHANGED <<config, current_fork, offers, request, protocol_id, sent, src, codec,
                 decoded>>

\* The responder encodes a chunk.  One too large ends the substream, and the
\* response code encode() has put before it goes out alone; the last chunk of the
\* request and an error end it too.  (Bound: it writes its chunks before the
\* requester reads.  The decoder depends on the bytes it has only.)
SendResponse ==
  /\ stage = "answering"
  /\ src.received = 0 /\ decoded = <<>>
  /\ \E chunk \in {Success(p) : p \in SuccessPayloads(request.name)} \cup Errors :
       /\ request.name # "Goodbye"
       /\ InOrder(chunk)
       /\ LET tooLarge == chunk.payload.len > max_packet_size
              last == \/ ~is_response(chunk.code)
                      \/ request.name \notin Multiple
                      \/ Len(sent) + 1 = MaxChunks
          IN  /\ sent' = IF tooLarge THEN sent ELSE Append(sent, chunk)
              /\ src' = Write(src, IF tooLarge THEN <<[code |-> chunk.code]>>
                                 ELSE encode_response(protocol_id, chunk))
              /\ stage' = IF tooLarge \/ last THEN "closed" ELSE stage
  /\ UNCHANGED <<config, current_fork, offers, request, protocol_id, asked, codec, decoded>>

\* A decoding error is the end of the substream.
DecodeResponse ==
  /\ stage \in {"answering", "closed"}
  /\ ~codec.more
  /\ LET d == OutboundDecode(protocol_id, Decoding)
     IN  /\ After(d)
         /\ decoded' = IF d.out = NotYet THEN decoded ELSE Append(decoded, d.out)
         /\ stage' = IF "failed" \in DOMAIN d.out THEN "failed" ELSE stage
  /\ UNCHANGED <<config, current_fork, offers, request, protocol_id, asked, sent>>

\* A side's clock reaches the next fork (bound: one side, once,
\* before the responder is done).
UpdateFork(side) ==
  LET next == next_fork(config, current_fork[side])
  IN  /\ stage \in {"asking", "answering"}
      /\ next # NoFork
      /\ current_fork["requester"] = current_fork["responder"]
      /\ current_fork' = [current_fork EXCEPT ![side] = update_current_fork(config, @)]
      /\ UNCHANGED <<config, offers, request, protocol_id, stage, asked, sent, src, codec,
                     decoded>>

Next ==
  \/ Negotiate
  \/ Receive
  \/ DecodeRequest
  \/ RequestTimeout
  \/ SendResponse
  \/ DecodeResponse
  \/ \E side \in Sides : UpdateFork(side)

Spec == Init /\ [][Next]_vars

-----------------------------------------------------------------------------
(* Properties. *)

\* What the requester gets for a chunk: the code and the kind of value are those
\* of the chunk, a status or metadata is of the negotiated version, everything
\* else is of the form it was written in, and no field that both have differs.
Carries(got, chunk) ==
  /\ got.code = chunk.code
  /\ got.payload.type[1] = chunk.payload.type[1]
  /\ chunk.payload.type[1] \notin {"Status", "MetaData"} => got.payload = chunk.payload
  /\ \A f \in DOMAIN got.payload \cap DOMAIN chunk.payload :
       f \notin {"type", "len"} => got.payload[f] = chunk.payload[f]

\* Whatever portions the bytes of the response arrive in, and whichever fork each
\* side is in, the chunks the outbound codec returns are those the responder
\* encoded, in order and none of them twice: context bytes, length prefix and
\* body are read for what they are and as the fork of the chunk's slot says.
ChunksFaithful ==
  \A i \in DOMAIN decoded :
    "payload" \in DOMAIN decoded[i] => i \in DOMAIN sent /\ Carries(decoded[i], sent[i])

\* A chunk the requester may refuse: a later block on a version 1 protocol, which
\* has no context bytes; an object of a fork the requester has not reached, whose
\* length its limits need not admit; a full Fulu column once the limits are those
\* of Gloas; a light client object whose form is not that of its slot()'s fork, or
\* is of Capella or later, for which the limits leave no room.
Refusable(chunk) ==
  LET type == chunk.payload.type
      current == current_fork["requester"].fork_name
  IN  \/ protocol_id \in {"BlocksByRangeV1", "BlocksByRootV1"} /\ type[2] # Phase0
      \/ is_response(chunk.code) /\ "epoch" \in DOMAIN chunk.payload
         /\ phase_at_epoch(config, chunk.payload.epoch) > current
      \/ type = <<"DataColumn", Fulu>> /\ current >= Gloas
         /\ chunk.payload.len > DataColumnMax(Gloas)
      \/ /\ type[1] \in LightClient
         /\ \/ type[2] >= Capella
            \/ type # LightClientType(type[1], phase_at_epoch(config, chunk.payload.epoch))

\* The requester accepts every chunk that is not refusable: what one side's codec
\* writes is within the limits, of the type and behind the context bytes that the
\* other side's codec expects.
HonestChunksAccepted ==
  \A i \in DOMAIN decoded :
    "failed" \in DOMAIN decoded[i] => i \in DOMAIN sent /\ Refusable(sent[i])

\* The decoder never sits on a chunk that has arrived: when it asks for more bytes
\* and has been given all that were written, every chunk has been returned.
NothingStalls ==
  stage \in {"answering", "closed"} /\ codec.more /\ src.received = TotalBytes(src.segments)
    => Len(decoded) = Len(sent)

\* The responder reads the request that was asked, in the newest version both
\* sides have; it refuses an honest request only for a list that its own phase
\* allows fewer items than the requester's.
RequestFaithful ==
  /\ "version" \in DOMAIN asked =>
       /\ asked.version = protocol_id
       /\ \A v \in offers :
            protocol[v] = request.name => version(v) <= version(protocol_id)
       /\ CASE request.name = "Status" ->
                 asked.payload.type = <<"Status", IF protocol_id = "StatusV1" THEN 1 ELSE 2>>
            [] request.name = "Goodbye" ->
                 asked.payload.type[2] \in {request.payload.type[2], 0}
            [] OTHER -> asked.payload = request.payload
  /\ "failed" \in DOMAIN asked /\ asked.failed # "StreamTimeout" =>
       /\ request.name \in {"BlocksByRoot", "BlobsByRoot", "DataColumnsByRoot"}
       /\ request.payload.type[2] > ListBound(request.name, current_fork["responder"].fork_name)
=============================================================================
