------------------------------ MODULE Gossip ------------------------------
(***************************************************************************)
(* The gossip side of the network service: the topics of                   *)
(* src/types/topics.rs, the subscriptions and the fork transition of       *)
(* src/service/mod.rs, the messages of src/types/pubsub.rs and the cache   *)
(* of unsent messages of src/service/gossip_cache.rs.                      *)
(*                                                                         *)
(* A topic is a kind (with an index, 0 where the kind has none) and a fork *)
(* digest.  A message is its kind, the form of its contents (the first     *)
(* phase whose container has that shape) and its length.  gossipsub is     *)
(* external: it knows the node's own subscriptions (mesh), one peer's      *)
(* (peer_topics) and the messages it has published, and it delivers to     *)
(* that peer, which runs this code under the same chain configuration.     *)
(***************************************************************************)
EXTENDS LocalRecord, ForkContext

CONSTANTS
  ChainConfig,
  blob_sidecar_subnet_count, blob_sidecar_subnet_count_electra,
  data_column_sidecar_subnet_count,
  number_of_custody_groups,
  max_payload_size,
  TopicOptions     \* the configuration's options: light_client, all_subnets,
                   \* all_columns

\* Phase0 starts with the chain.
ASSUME GossipAssumption ==
  /\ FAR_FUTURE_EPOCH \in Nat \ {0}
  /\ ChainConfig.fork_epoch \in [Phases -> Nat]
  /\ ChainConfig.fork_epoch[Phase0] = 0
  /\ ChainConfig.blob_schedule \subseteq Nat
  /\ \A phase \in Phases : ChainConfig.fork_epoch[phase] <= FAR_FUTURE_EPOCH
  /\ \A epoch \in ChainConfig.blob_schedule : epoch < FAR_FUTURE_EPOCH
  /\ blob_sidecar_subnet_count \in Nat /\ blob_sidecar_subnet_count_electra \in Nat
  /\ data_column_sidecar_subnet_count \in Nat
  /\ number_of_custody_groups \in Nat /\ custody_requirement \in Nat
  /\ max_payload_size \in Nat

VARIABLES
  current_fork,              \* of the fork context
  enr_fork_id,               \* the service's digest
  sampling_subnets, gossipsub_subscriptions,   \* of the network globals
  mesh, peer_topics, published,                \* of gossipsub
  peer_subnets,              \* the subnets in the peer's PeerInfo
  topic_msgs, expirations,   \* of the gossip cache
  delivered                  \* the last message the peer decoded

cacheVars == <<topic_msgs, expirations>>
topicVars == <<gossipsub_subscriptions, mesh>>
peerVars == <<peer_topics, peer_subnets>>

-----------------------------------------------------------------------------
(* Topics.                                                                 *)

Kind(name) == [kind |-> name, index |-> 0]
Indexed(name, indices) == {[kind |-> name, index |-> i] : i \in indices}

GossipTopic(kind, digest) == [kind |-> kind, fork_digest |-> digest]

is_peerdas_activated(phase) == phase >= Fulu

blob_subnet_count(phase) ==
  IF phase >= Electra THEN blob_sidecar_subnet_count_electra
                      ELSE blob_sidecar_subnet_count

core_topics_to_subscribe(phase, opts) ==
  {Kind("BeaconBlock"), Kind("BeaconAggregateAndProof"), Kind("VoluntaryExit"),
   Kind("ProposerSlashing"), Kind("AttesterSlashing")}
  \cup (IF opts.all_subnets
        THEN Indexed("Attestation", 0 .. AttestationSubnetCount - 1) ELSE {})
  \cup (IF phase >= Altair THEN {Kind("SignedContributionAndProof")} ELSE {})
  \cup (IF phase >= Altair /\ opts.all_subnets
        THEN Indexed("SyncCommitteeMessage", 0 .. SyncCommitteeSubnetCount - 1)
        ELSE {})
  \cup (IF phase >= Altair /\ opts.light_client
        THEN {Kind("LightClientFinalityUpdate"), Kind("LightClientOptimisticUpdate")}
        ELSE {})
  \cup (IF phase >= Capella THEN {Kind("BlsToExecutionChange")} ELSE {})
  \cup (IF phase >= Deneb /\ ~is_peerdas_activated(phase)
        THEN Indexed("BlobSidecar", 0 .. blob_subnet_count(phase) - 1) ELSE {})
  \cup (IF is_peerdas_activated(phase)
        THEN Indexed("DataColumnSidecar",
                     IF opts.all_columns
                     THEN 0 .. data_column_sidecar_subnet_count - 1
                     ELSE opts.sampling_subnets)
        ELSE {})
  \cup (IF phase >= Gloas THEN {Kind("ExecutionPayloadBid")} ELSE {})

\* Mutant: sync committee subnets do not follow the fork.
is_fork_non_core_topicAttestation(kind) == kind.kind = "Attestation"

is_fork_non_core_topic(kind) == kind.kind \in {"Attestation", "SyncCommitteeMessage"}

all_topics_at_fork(phase) ==
  core_topics_to_subscribe(phase,
    [light_client |-> TRUE, all_subnets |-> TRUE, all_columns |-> TRUE,
     sampling_subnets |-> {}])

subnet_id(kind) ==
  CASE kind.kind = "Attestation" -> {[net |-> "Attestation", id |-> kind.index]}
    [] kind.kind = "SyncCommitteeMessage" -> {[net |-> "SyncCommittee", id |-> kind.index]}
    [] kind.kind = "DataColumnSidecar" -> {[net |-> "DataColumn", id |-> kind.index]}
    [] OTHER -> {}

as_topic_config ==
  [light_client |-> TopicOptions.light_client,
   all_subnets |-> TopicOptions.all_subnets,
   all_columns |-> TopicOptions.all_columns,
   sampling_subnets |-> sampling_subnets]

all_fork_digests == {epoch_to_forks(ChainConfig)[e].fork_digest :
                       e \in all_fork_epochs(ChainConfig)}

\* The topics gossipsub accepts, for the node and for its peers.
create_whitelist_filter ==
  LET kinds ==
        {Kind(name) : name \in {"BeaconBlock", "BeaconAggregateAndProof",
           "VoluntaryExit", "ProposerSlashing", "AttesterSlashing",
           "SignedContributionAndProof", "BlsToExecutionChange",
           "LightClientFinalityUpdate", "LightClientOptimisticUpdate"}}
        \cup Indexed("Attestation", 0 .. AttestationSubnetCount - 1)
        \cup Indexed("SyncCommitteeMessage", 0 .. SyncCommitteeSubnetCount - 1)
        \cup Indexed("BlobSidecar",
                     0 .. (IF is_phase_enabled(ChainConfig, Electra)
                           THEN blob_sidecar_subnet_count_electra
                           ELSE blob_sidecar_subnet_count) - 1)
        \cup Indexed("DataColumnSidecar", 0 .. data_column_sidecar_subnet_count - 1)
  IN  {GossipTopic(kind, digest) : kind \in kinds, digest \in all_fork_digests}

-----------------------------------------------------------------------------
(* The subnets to sample.  The custody groups of a node come from its id;  *)
(* here they are the first ones, one subnet each.                          *)

compute_subnets(custody_group_count) == 0 .. custody_group_count - 1

sampling_subnets_new(metadata) ==
  compute_subnets(IF /\ metadata.custody_group_count # NoValue
                     /\ metadata.custody_group_count <= number_of_custody_groups
                  THEN metadata.custody_group_count ELSE custody_requirement)

-----------------------------------------------------------------------------
(* Subscriptions.  The globals take the topic whether gossipsub does or    *)
(* not.                                                                    *)

subscribe(topics) ==
  /\ gossipsub_subscriptions' = gossipsub_subscriptions \cup topics
  /\ mesh' = mesh \cup (topics \cap create_whitelist_filter)

unsubscribe(topics) ==
  /\ gossipsub_subscriptions' = gossipsub_subscriptions \ topics
  /\ mesh' = mesh \ topics

subscribe_kind(kind) == subscribe({GossipTopic(kind, enr_fork_id)})

unsubscribe_kind(kind) == unsubscribe({GossipTopic(kind, enr_fork_id)})

subscribe_new_fork_topics(phase, new_fork_digest) ==
  subscribe({GossipTopic(kind, new_fork_digest) :
               kind \in core_topics_to_subscribe(phase, as_topic_config)
                 \cup {t.kind : t \in {u \in gossipsub_subscriptions :
                                         is_fork_non_core_topic(u.kind)}}})

unsubscribe_from_fork_topics_except(except) ==
  unsubscribe({t \in gossipsub_subscriptions : t.fork_digest # except})

\* Subnets are only ever added.
update_data_column_subnets(sampling_size) ==
  sampling_subnets' = sampling_subnets \cup compute_subnets(sampling_size)

subscribe_new_data_column_subnets(sampling_size) ==
  /\ update_data_column_subnets(sampling_size)
  /\ subscribe({GossipTopic(kind, enr_fork_id) :
                  kind \in Indexed("DataColumnSidecar", sampling_subnets')})

-----------------------------------------------------------------------------
(* Messages.                                                               *)

Message(kind, form, len) == [kind |-> kind, form |-> form, len |-> len]
Rejected == [rejected |-> TRUE]

\* The form a message of the kind has in a phase, and the kinds a phase has,
\* as the consensus types define them.
FormAt(kind, phase) ==
  CASE kind.kind \in {"BeaconAggregateAndProof", "Attestation", "AttesterSlashing"} ->
         IF phase >= Electra THEN Electra ELSE Phase0
    [] kind.kind \in {"VoluntaryExit", "ProposerSlashing"} -> Phase0
    [] kind.kind \in {"SignedContributionAndProof", "SyncCommitteeMessage"} -> Altair
    [] kind.kind = "BlsToExecutionChange" -> Capella
    [] kind.kind = "BlobSidecar" -> Deneb
    [] kind.kind \in {"LightClientFinalityUpdate", "LightClientOptimisticUpdate"} ->
         IF phase = Bellatrix THEN Altair ELSE phase
    [] OTHER -> phase

-----------------------------------------------------------------------------
(* PubsubMessage::decode: the form the decoder reads for a kind under the  *)
(* phase of the topic's digest, -1 where the topic is invalid.             *)

Invalid == -1

AttestationForm(phase) == IF phase <= Deneb THEN Phase0 ELSE Electra

BlockForm(phase) == phase

SidecarForm(name, phase) ==
  IF name = "BlobSidecar"
  THEN IF phase \in {Deneb, Electra} THEN Deneb ELSE Invalid
  ELSE IF phase \in {Fulu, Gloas} THEN phase ELSE Invalid

\* Exits, slashings, changes and sync committee messages: only an attester
\* slashing depends on the fork.
OperationForm(name, phase) ==
  CASE name = "AttesterSlashing" -> IF phase <= Deneb THEN Phase0 ELSE Electra
    [] name \in {"SignedContributionAndProof", "SyncCommitteeMessage"} -> Altair
    [] name = "BlsToExecutionChange" -> Capella
    [] OTHER -> Phase0

LightClientForm(phase) ==
  CASE phase = Phase0 -> Invalid
    [] phase \in {Altair, Bellatrix} -> Altair
    [] OTHER -> phase

BidForm(phase) == IF phase = Gloas THEN Gloas ELSE Invalid

ReadForm(name, phase) ==
  CASE name \in {"BeaconAggregateAndProof", "Attestation"} -> AttestationForm(phase)
    [] name = "BeaconBlock" -> BlockForm(phase)
    [] name \in {"BlobSidecar", "DataColumnSidecar"} -> SidecarForm(name, phase)
    [] name \in {"LightClientFinalityUpdate", "LightClientOptimisticUpdate"} ->
         LightClientForm(phase)
    [] name = "ExecutionPayloadBid" -> BidForm(phase)
    [] OTHER -> OperationForm(name, phase)

\* Mutant: messages are read in the form of the current fork.
decodeCurrent(topic, message) ==
  IF ReadForm(topic.kind.kind, current_fork.fork_name) = message.form
  THEN Message(topic.kind, message.form, message.len) ELSE Rejected

\* A topic whose digest is unknown is rejected, except for the kinds whose form
\* does not depend on the fork: the decoder does not look at their digest.
Undated == {"VoluntaryExit", "ProposerSlashing", "SignedContributionAndProof",
            "SyncCommitteeMessage", "BlsToExecutionChange"}

decode(topic, message) ==
  LET fork == get_fork_from_context_bytes(ChainConfig, topic.fork_digest)
      phase == IF topic.kind.kind \in Undated THEN Phase0 ELSE fork.phase
  IN  IF fork = NoFork /\ topic.kind.kind \notin Undated THEN Rejected
      ELSE IF ReadForm(topic.kind.kind, phase) = message.form
      THEN Message(topic.kind, message.form, message.len)
      ELSE Rejected

-----------------------------------------------------------------------------
(* SnappyTransform.  max_compressed is the longest a payload compresses    *)
(* to.                                                                     *)

max_compressed(len) == 32 + len + len \div 6

outbound_transform(message) == message.len <= max_payload_size

inbound_transform(message) ==
  /\ max_compressed(message.len) <= max_compressed(max_payload_size)
  /\ message.len <= max_payload_size

-----------------------------------------------------------------------------
(* The gossip cache.  Kinds without a timeout are not kept.  expirations   *)
(* counts the timers of a message in the delay queue: nothing but the code *)
(* here keeps a message to one.                                            *)

Retried == {"BeaconBlock", "BeaconAggregateAndProof", "Attestation",
            "VoluntaryExit", "ProposerSlashing", "AttesterSlashing",
            "BlsToExecutionChange", "ExecutionPayloadBid"}

Timed(entry) == IF entry \in DOMAIN expirations THEN expirations[entry] ELSE 0

AddTimer(entry) == [e \in DOMAIN expirations \cup {entry} |->
                      IF e = entry THEN Timed(e) + 1 ELSE expirations[e]]

\* One timer of each of the entries ends.
RemoveTimers(entries) ==
  [e \in {t \in DOMAIN expirations : t \in entries => expirations[t] > 1} |->
     IF e \in entries THEN expirations[e] - 1 ELSE expirations[e]]

\* A message that is there already has its timer reset.
insert(topic, message) ==
  IF topic.kind.kind \in Retried /\ <<topic, message>> \notin topic_msgs
  THEN /\ topic_msgs' = topic_msgs \cup {<<topic, message>>}
       /\ expirations' = AddTimer(<<topic, message>>)
  ELSE UNCHANGED cacheVars

Cached(topic) == {entry \in topic_msgs : entry[1] = topic}

retrieve(topic) ==
  /\ topic_msgs' = topic_msgs \ Cached(topic)
  /\ expirations' = RemoveTimers(Cached(topic))

\* A timer that fires takes its message along.
PollExpired ==
  \E entry \in DOMAIN expirations :
    /\ expirations' = RemoveTimers({entry})
    /\ topic_msgs' = topic_msgs \ {entry}

-----------------------------------------------------------------------------
(* Publishing.  gossipsub answers Duplicate, NoPeersSubscribedToTopic, Ok, *)
(* or an error of another kind (the data is too long, the queues are       *)
(* full).                                                                  *)

Duplicate(topic, message) == <<topic, message>> \in published

Delivery(topic, message) ==
  delivered' = [topic |-> topic, message |-> message,
                decoded |-> IF inbound_transform(message)
                            THEN decode(topic, message) ELSE Rejected]

publish(message) ==
  LET topic == GossipTopic(message.kind, enr_fork_id)
  IN  IF ~outbound_transform(message) \/ Duplicate(topic, message)
      THEN UNCHANGED <<published, delivered, cacheVars>>
      ELSE IF topic \notin peer_topics
      THEN insert(topic, message) /\ UNCHANGED <<published, delivered>>
      ELSE /\ \/ /\ published' = published \cup {<<topic, message>>}
                 /\ Delivery(topic, message)
              \/ UNCHANGED <<published, delivered>>
           /\ UNCHANGED cacheVars

\* A peer's subscription: the cached messages of the topic are published, and
\* those gossipsub refuses once more are dropped.
OnSubscribed(topic) ==
  /\ peer_topics' = peer_topics \cup {topic}
  /\ peer_subnets' = peer_subnets \cup subnet_id(topic.kind)
  /\ retrieve(topic)
  /\ \E sent \in SUBSET {entry \in Cached(topic) : ~Duplicate(topic, entry[2])} :
       /\ published' = published \cup sent
       /\ IF sent = {} THEN UNCHANGED delivered
          ELSE \E entry \in sent : Delivery(topic, entry[2])

OnUnsubscribed(topic) ==
  /\ peer_topics' = peer_topics \ {topic}
  /\ peer_subnets' = peer_subnets \ subnet_id(topic.kind)
  /\ UNCHANGED <<published, delivered, cacheVars>>
=============================================================================
