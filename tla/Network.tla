------------------------------ MODULE Network ------------------------------
(***************************************************************************)
(* The network service of src/service/mod.rs around discovery, gossip and  *)
(* the records the node publishes: its calls from the application, a fork  *)
(* transition, restarts of the process, and the ping and metadata exchange *)
(* (src/peer_manager/mod.rs) by which a peer keeps up with the metadata.   *)
(*                                                                         *)
(* The application takes a fork in this order: it subscribes to the next   *)
(* fork's topics, the fork context moves on, the fork id and the next fork *)
(* digest of the record follow, and at last it leaves the old topics.      *)
(* Other calls come at any time in between.                                *)
(*                                                                         *)
(* budget bounds the calls of a behaviour; Init chooses it from Budgets.   *)
(* It also has the epoch at which the process first starts, the node       *)
(* configurations and custody group counts it may start with, the metadata *)
(* files an earlier release may have left, and whether the application     *)
(* uses gossip and a peer exchanges metadata.                              *)
(*                                                                         *)
(* The service's task does nothing else while an operation on the record   *)
(* is under way (Ready is false).  discv5's task, the peers and the clock  *)
(* go on, and the process may crash.                                       *)
(***************************************************************************)
EXTENDS Discovery, Gossip

CONSTANTS
  Budgets,
  Ports, Sockets,
  MaxTime,       \* bound on the clock
  MAX_CONCURRENT_REQUESTS

ASSUME NetworkAssumption ==
  /\ peerdas_scheduled = is_phase_enabled(ChainConfig, Fulu)
  /\ MAX_CONCURRENT_REQUESTS \in Nat \ {0}
  /\ \A b \in Budgets : /\ b.start \in Nat /\ "restarts" \in DOMAIN b /\ b.restarts \in Nat
                         /\ {"custody", "files"} \subseteq DOMAIN b
                         /\ b.custody \subseteq Nat
                         /\ \A file \in b.files : file = NoFile \/ file.custody_group_count \in Nat

VARIABLES
  budget,
  subject,          \* the kind of topic the behaviour publishes on
  transition,       \* how far the application is with a fork
  wanted,           \* kinds the application subscribed to besides the core ones
  windowed,         \* kinds changed between the two halves of a transition
  known_metadata,   \* what the peer knows of the node's metadata
  ping,             \* the sequence number on its way to the peer, or NoPing
  exchange,         \* the peer's metadata requests
  seen,             \* the records discv5 has ever served
  lost              \* those that were not saved when the process crashed

exchangeVars == <<known_metadata, ping, exchange>>
recordVars == <<enrVars, event_stream, socket_events, seen, lost>>
gossipVars == <<published, delivered, cacheVars, peerVars>>
forkVars == <<current_fork, enr_fork_id, transition>>
subscriptionVars == <<sampling_subnets, topicVars, wanted, windowed>>
vars == <<budget, subject, discoveryVars, recordVars, metadataVars, forkVars,
          subscriptionVars, gossipVars, exchangeVars>>

NoPing == -1
NoMetadata == MetaData(0, -1, {}, {}, NoValue)
Free == [state |-> "free"]
Requested == [state |-> "requested"]
Answered(metadata) == [state |-> "answered", metadata |-> metadata]

Ready == writes = <<>>

Spend(what) == budget[what] > 0 /\ budget' = [budget EXCEPT ![what] = @ - 1]

-----------------------------------------------------------------------------
(* The start of a process.                                                 *)

next_fork_digest(fork) ==
  IF next_fork(ChainConfig, fork) = NoFork THEN fork.fork_digest
  ELSE next_fork(ChainConfig, fork).fork_digest

\* Network::new, for the files left on disk and the fork the chain is in.
NewProcess(network_config, cgc, fork, enr_file, metadata_file) ==
  LET opt == IF peerdas_scheduled THEN cgc ELSE NoValue
      e == build_or_load_enr(network_config, fork.fork_digest, opt,
                             next_fork_digest(fork), enr_file)
      m == load_or_build_metadata(metadata_file, opt)
  IN  [enr |-> e, metadata |-> m, sampling_subnets |-> sampling_subnets_new(m),
       enr_fork_id |-> e["eth2"]]

\* Where discv5 does not change the record the stream has nothing to say, and
\* is taken as failed from the start.
FirstStream == IF budget.sockets > 0 THEN "Awaiting" ELSE "InActive"

Init ==
  /\ budget \in Budgets
  /\ current_fork = ForkAt(ChainConfig, budget.start)
  /\ subject \in (IF budget.publishes = 0 THEN {Kind("BeaconBlock")}
                  ELSE all_topics_at_fork(current_fork.fork_name))
  /\ \E network_config \in budget.configs, cgc \in budget.custody, file \in budget.files :
       LET p == NewProcess(network_config, cgc, current_fork, NoFile, file)
       IN  /\ enr = p.enr /\ local_enr = p.enr /\ disk_enr = p.enr
           /\ local_metadata = p.metadata /\ disk_metadata = p.metadata
           /\ seq_number = p.metadata.seq_number
           /\ sampling_subnets = p.sampling_subnets
           /\ enr_fork_id = p.enr_fork_id
           /\ seen = {p.enr}
  /\ event_stream = FirstStream /\ socket_events = <<>> /\ writes = <<>> /\ lost = {}
  /\ queued_queries = <<>> /\ active_queries = <<>> /\ completed = <<>>
  /\ find_peer_active = FALSE /\ cached_enrs = <<>> /\ satisfied = {} /\ now = 0
  /\ gossipsub_subscriptions = {} /\ mesh = {} /\ wanted = {} /\ windowed = {}
  /\ transition = "starting"
  /\ peer_topics = {} /\ peer_subnets = {} /\ published = {}
  /\ topic_msgs = {} /\ expirations = <<>> /\ delivered = Rejected
  /\ known_metadata = NoMetadata /\ ping = NoPing
  /\ exchange = [i \in 1 .. MAX_CONCURRENT_REQUESTS |-> Free]

\* The records that discv5 has served and the file does not have when an operation
\* or an event of discv5 is cut short.
Unsaved == IF Ready /\ socket_events = <<>> THEN {}
           ELSE {r \in seen : r["seq"] > disk_enr["seq"]}

\* A crash, before any statement of an operation, and a start: what is in memory
\* is gone, and the peer has to connect anew.  It keeps what it knows of the node.
Restart ==
  /\ Spend("restarts")
  /\ \E network_config \in budget.configs, cgc \in budget.custody :
       LET p == NewProcess(network_config, cgc, current_fork, disk_enr, disk_metadata)
       IN  /\ enr' = p.enr /\ local_enr' = p.enr /\ disk_enr' = p.enr
           /\ local_metadata' = p.metadata /\ disk_metadata' = p.metadata
           /\ seq_number' = p.metadata.seq_number
           /\ sampling_subnets' = p.sampling_subnets
           /\ enr_fork_id' = p.enr_fork_id
           /\ seen' = seen \cup {p.enr}
  /\ event_stream' = FirstStream /\ socket_events' = <<>> /\ writes' = <<>>
  /\ lost' = lost \cup Unsaved
  /\ queued_queries' = <<>> /\ active_queries' = <<>> /\ completed' = <<>>
  /\ find_peer_active' = FALSE /\ cached_enrs' = <<>>
  /\ gossipsub_subscriptions' = {} /\ mesh' = {} /\ wanted' = {} /\ windowed' = {}
  /\ transition' = "starting"
  /\ peer_topics' = {} /\ peer_subnets' = {} /\ published' = {}
  /\ topic_msgs' = {} /\ expirations' = <<>>
  /\ ping' = NoPing /\ exchange' = [i \in DOMAIN exchange |-> Free]
  /\ UNCHANGED <<subject, satisfied, now, current_fork, known_metadata, delivered>>

-----------------------------------------------------------------------------
(* Discovery.                                                              *)

Poll ==
  /\ Ready
  /\ PollQueries
  /\ IF Yields THEN UNCHANGED <<enrVars, event_stream, socket_events>>
               ELSE PollEventStream
  /\ seen' = seen \cup {enr'}
  /\ UNCHANGED <<budget, subject, lost, metadataVars, forkVars, subscriptionVars,
                 gossipVars, exchangeVars>>

\* Everything that discovery does not touch.
NotDiscovery == UNCHANGED <<subject, recordVars, metadataVars, forkVars,
                            subscriptionVars, gossipVars, exchangeVars>>

DiscoverPeers == Ready /\ Spend("queries") /\ discover_peers /\ NotDiscovery

DiscoverSubnetPeers ==
  /\ Ready /\ Spend("queries")
  /\ \E subnet \in Subnets, min_ttl \in {NoTtl} \cup 0 .. MaxTime :
       discover_subnet_peers(subnet, min_ttl)
  /\ NotDiscovery

QueryDone ==
  /\ \E i \in DOMAIN active_queries : QueryCompletes(i)
  /\ UNCHANGED budget
  /\ NotDiscovery

Cache ==
  /\ Ready /\ Spend("nodes")
  /\ \E node \in Nodes : add_enr(node) \/ on_dial_failure(node)
  /\ NotDiscovery

\* Peers come and go on a subnet.
PeersChange ==
  /\ Spend("nodes")
  /\ \E subnet \in Subnets :
       satisfied' = IF subnet \in satisfied THEN satisfied \ {subnet}
                                            ELSE satisfied \cup {subnet}
  /\ UNCHANGED <<queryVars, cached_enrs, now>>
  /\ NotDiscovery

Tick ==
  /\ Spend("time")
  /\ now' = now + 1
  /\ UNCHANGED <<queryVars, cached_enrs, satisfied>>
  /\ NotDiscovery

-----------------------------------------------------------------------------
(* The records.                                                            *)

NotRecords == /\ seen' = seen \cup {enr'}
              /\ UNCHANGED <<subject, lost, event_stream, discoveryVars, forkVars,
                             subscriptionVars, gossipVars, exchangeVars>>

NewListenAddr ==
  /\ Ready /\ Spend("records")
  /\ \E transport \in {"tcp", "quic"}, port \in Ports, v6 \in BOOLEAN :
       \/ on_new_listen_addr(transport, port, v6)
       \/ inject_upnp_event(transport, port, v6)
  /\ UNCHANGED <<socket_events, metadataVars>>
  /\ NotRecords

UpdateUdpSocket ==
  /\ Ready /\ Spend("records")
  /\ \E socket \in Sockets : update_enr_udp_socket(socket)
  /\ UNCHANGED <<socket_events, metadataVars>>
  /\ NotRecords

SocketUpdated ==
  /\ Spend("sockets")
  /\ \E socket \in Sockets : SocketUpdate(socket)
  /\ UNCHANGED metadataVars
  /\ NotRecords

UpdateEnrSubnet ==
  /\ Ready /\ Spend("subnets")
  /\ \E subnet \in Subnets, value \in BOOLEAN : update_enr_subnet(subnet, value)
  /\ UNCHANGED <<socket_events, metadataVars>>
  /\ NotRecords

UpdateEnrCgc ==
  /\ Ready /\ Spend("subnets")
  /\ \E cgc \in budget.custody : update_cgc(cgc)
  /\ UNCHANGED <<socket_events, metadataVars>>
  /\ NotRecords

\* The next statement of the operation under way.
Continue == ExecuteNext /\ UNCHANGED budget /\ NotRecords

-----------------------------------------------------------------------------
(* Topics and the fork transition.                                         *)

NotTopics == UNCHANGED <<subject, discoveryVars, metadataVars, event_stream,
                         socket_events, lost, gossipVars, exchangeVars>>

InWindow == transition \in {"subscribed", "forked"}

\* The application subscribes to the core topics when it starts.
StartTopics ==
  /\ Ready /\ transition = "starting"
  /\ budget.gossip = 1
  /\ subscribe_new_fork_topics(current_fork.fork_name, enr_fork_id)
  /\ transition' = "none"
  /\ UNCHANGED <<budget, current_fork, enr_fork_id, sampling_subnets, wanted, windowed,
                 enrVars, seen>>
  /\ NotTopics

NonCore == Indexed("Attestation", 0 .. AttestationSubnetCount - 1)
             \cup Indexed("SyncCommitteeMessage", 0 .. SyncCommitteeSubnetCount - 1)

SubscribeKind ==
  /\ Ready /\ transition # "starting"
  /\ Spend("topics")
  /\ \E kind \in NonCore :
       /\ subscribe_kind(kind)
       /\ wanted' = wanted \cup {kind}
       /\ windowed' = IF InWindow THEN windowed \cup {kind} ELSE windowed \ {kind}
  /\ UNCHANGED <<forkVars, sampling_subnets, enrVars, seen>>
  /\ NotTopics

UnsubscribeKind ==
  /\ Ready /\ transition # "starting"
  /\ Spend("topics")
  /\ \E kind \in wanted :
       /\ unsubscribe_kind(kind)
       /\ wanted' = wanted \ {kind}
       /\ windowed' = IF InWindow THEN windowed \cup {kind} ELSE windowed
  /\ UNCHANGED <<forkVars, sampling_subnets, enrVars, seen>>
  /\ NotTopics

NewColumns ==
  /\ Ready /\ transition # "starting"
  /\ Spend("topics")
  /\ \E cgc \in budget.custody : subscribe_new_data_column_subnets(cgc)
  /\ windowed' = IF InWindow
                 THEN windowed \cup Indexed("DataColumnSidecar",
                                            sampling_subnets' \ sampling_subnets)
                 ELSE windowed
  /\ UNCHANGED <<forkVars, wanted, enrVars, seen>>
  /\ NotTopics

SubscribeNewFork ==
  /\ Ready /\ transition = "none"
  /\ Spend("forks")
  /\ LET next == next_fork(ChainConfig, current_fork)
     IN  next # NoFork /\ subscribe_new_fork_topics(next.fork_name, next.fork_digest)
  /\ transition' = "subscribed"
  /\ UNCHANGED <<current_fork, enr_fork_id, sampling_subnets, wanted, windowed,
                 enrVars, seen>>
  /\ NotTopics

UpdateCurrentFork ==
  /\ Ready /\ transition = "subscribed"
  /\ current_fork' = update_current_fork(ChainConfig, current_fork)
  /\ transition' = "forked"
  /\ UNCHANGED <<budget, enr_fork_id, subscriptionVars, enrVars, seen>>
  /\ NotTopics

update_fork_version ==
  /\ Ready /\ transition = "forked"
  /\ update_eth2_enr(current_fork.fork_digest, <<"fork_id">>)
  /\ seen' = seen \cup {enr'}
  /\ UNCHANGED <<budget, forkVars, subscriptionVars>>
  /\ NotTopics

\* Its last statement: the service's own copy of the digest.
update_enr_fork_id ==
  /\ Execute("fork_id")
  /\ enr_fork_id' = current_fork.fork_digest
  /\ transition' = "versioned"
  /\ UNCHANGED <<budget, current_fork, enr, local_enr, disk_enr, seen, subscriptionVars>>
  /\ NotTopics

update_nfd ==
  /\ Ready /\ transition = "versioned"
  /\ update_enr_nfd(next_fork_digest(current_fork))
  /\ transition' = "announced"
  /\ seen' = seen \cup {enr'}
  /\ UNCHANGED <<budget, current_fork, enr_fork_id, subscriptionVars>>
  /\ NotTopics

LeaveOldTopics ==
  /\ Ready /\ transition = "announced"
  /\ unsubscribe_from_fork_topics_except(enr_fork_id)
  /\ transition' = "none"
  /\ UNCHANGED <<budget, current_fork, enr_fork_id, sampling_subnets, wanted, windowed,
                 enrVars, seen>>
  /\ NotTopics

-----------------------------------------------------------------------------
(* Messages.  The application publishes them in the form of the fork whose *)
(* digest the service uses.                                                *)

NotMessages == UNCHANGED <<subject, discoveryVars, recordVars, metadataVars, forkVars,
                           subscriptionVars, exchangeVars>>

PhaseOf == [digest \in all_fork_digests |->
              get_fork_from_context_bytes(ChainConfig, digest).phase]

Publish ==
  /\ Ready /\ transition # "starting"
  /\ subject \in all_topics_at_fork(PhaseOf[enr_fork_id])
  /\ Spend("publishes")
  /\ \E len \in {1, max_payload_size, max_payload_size + 1} :
       publish(Message(subject, FormAt(subject, PhaseOf[enr_fork_id]), len))
  /\ UNCHANGED peerVars
  /\ NotMessages

\* The peer's topics on the subject, of the current fork and the next one.
PeerTopics ==
  {GossipTopic(subject, d) : d \in {enr_fork_id, next_fork_digest(current_fork)}}
    \cap create_whitelist_filter

Subscribed ==
  /\ Ready /\ Spend("peers")
  /\ \E topic \in PeerTopics \ peer_topics : OnSubscribed(topic)
  /\ NotMessages

Unsubscribed ==
  /\ Ready /\ Spend("peers")
  /\ \E topic \in peer_topics : OnUnsubscribed(topic)
  /\ NotMessages

Expire ==
  /\ Ready /\ PollExpired
  /\ UNCHANGED <<budget, published, delivered, peerVars>>
  /\ NotMessages

-----------------------------------------------------------------------------
(* The metadata exchange.  A ping of the node's and its answer to the      *)
(* peer's ping both carry the RPC behaviour's seq_number.                  *)

NotExchange == UNCHANGED <<budget, subject, discoveryVars, recordVars, metadataVars,
                           forkVars, subscriptionVars, gossipVars>>

CanPing == Ready /\ budget.exchange = 1 /\ ping = NoPing

SendPing ==
  /\ CanPing
  /\ ping' = seq_number
  /\ UNCHANGED <<known_metadata, exchange>>
  /\ NotExchange

\* Whether the peer asks for the metadata on a ping or a pong.
ping_request(seq) == known_metadata.seq_number < seq

\* The peer's requests beyond the limit wait in its self-limiter.
ReceivePing ==
  /\ ping # NoPing
  /\ ping' = NoPing
  /\ IF ping_request(ping)
     THEN \E i \in DOMAIN exchange :
            /\ exchange[i] = Free
            /\ exchange' = [exchange EXCEPT ![i] = Requested]
     ELSE UNCHANGED exchange
  /\ UNCHANGED known_metadata
  /\ NotExchange

\* The node answers with the metadata of the moment.
AnswerMetadata(i) ==
  /\ Ready /\ exchange[i] = Requested
  /\ exchange' = [exchange EXCEPT ![i] = Answered(local_metadata)]
  /\ UNCHANGED <<known_metadata, ping>>
  /\ NotExchange

\* The peer stores what it gets, older than what it has or not.
meta_data_response(i) ==
  /\ exchange[i].state = "answered"
  /\ known_metadata' = exchange[i].metadata
  /\ exchange' = [exchange EXCEPT ![i] = Free]
  /\ UNCHANGED ping
  /\ NotExchange

-----------------------------------------------------------------------------
Next ==
  \/ Restart
  \/ Poll \/ DiscoverPeers \/ DiscoverSubnetPeers \/ QueryDone \/ Cache
  \/ PeersChange \/ Tick
  \/ NewListenAddr \/ UpdateUdpSocket \/ SocketUpdated \/ UpdateEnrSubnet \/ UpdateEnrCgc
  \/ Continue
  \/ StartTopics \/ SubscribeKind \/ UnsubscribeKind \/ NewColumns
  \/ SubscribeNewFork \/ UpdateCurrentFork \/ update_fork_version \/ update_enr_fork_id
  \/ update_nfd \/ LeaveOldTopics
  \/ Publish \/ Subscribed \/ Unsubscribed \/ Expire
  \/ SendPing \/ ReceivePing
  \/ \E i \in DOMAIN exchange : AnswerMetadata(i) \/ meta_data_response(i)

Spec == Init /\ [][Next]_vars

\* An operation goes on to its end, the swarm polls discovery over and over (the
\* peer manager's heartbeat wakes it), discv5's queries end by their timeouts,
\* pings are sent at an interval, and on a connection that stays requests and
\* responses arrive.  Each conjunct is the weak fairness of an action, written out
\* with its enabling condition.
PollWork == Ready /\ (completed # <<>> \/ process_queue.queue # queued_queries)
CanAnswer(i) == exchange[i] # Free /\ (exchange[i] = Requested => Ready)
CanReceive == ping # NoPing /\ (ping_request(ping) =>
                                  \E i \in DOMAIN exchange : exchange[i] = Free)

Fairness ==
  /\ []<>Ready \/ []<><<Continue \/ update_enr_fork_id>>_recordVars
  /\ []<>~PollWork \/ []<><<Poll>>_queryVars
  /\ []<>(active_queries = <<>>) \/ []<><<QueryDone>>_queryVars
  /\ []<>~CanPing \/ []<><<SendPing>>_exchangeVars
  /\ []<>~CanReceive \/ []<><<ReceivePing>>_exchangeVars
  /\ \/ []<>(\A i \in DOMAIN exchange : ~CanAnswer(i))
     \/ []<><<\E i \in DOMAIN exchange : AnswerMetadata(i) \/ meta_data_response(i)>>_exchangeVars

FairSpec == Spec /\ Fairness

-----------------------------------------------------------------------------
(* Properties.                                                             *)

\* The copies of what the node publishes about itself agree between operations,
\* whatever changed them (update_enr_subnet, the ports of listeners and UPnP, a
\* fork, discv5 itself during an operation or not, a crash in the middle of one):
\* the record in discv5, the globals and the file, unless discv5 has just changed
\* its own; the metadata in the globals and the file, the number in pings, the
\* subnets in both; and the service's fork digest.
CopiesAgree ==
  Ready =>
    /\ socket_events = <<>> => enr = local_enr /\ enr = disk_enr
    /\ local_metadata = disk_metadata
    /\ seq_number = local_metadata.seq_number
    /\ local_metadata.attnets = enr["attnets"]
    /\ local_metadata.syncnets = enr["syncnets"]
    /\ enr_fork_id = enr["eth2"]

\* A sequence number names one record: nodes replace a record only by one with
\* a higher number, so no restart (use_or_load_enr) and no change may serve two
\* records under one number.  discv5 serves a record as soon as it has it, before
\* the file does: a record that a crash in the middle of an operation, or before
\* poll has followed discv5's own change, found unsaved is exempt, as the next
\* process knows nothing of its number.
SeqNamesRecord ==
  \A a, b \in seen \ lost : a["seq"] = b["seq"] => a = b

\* A peer ends up with the node's metadata, however its requests, the changes
\* of subnets and custody (update_metadata_bitfields, update_metadata_cgc) and
\* restarts interleave, and although an older response may overwrite a newer
\* one (meta_data_response).
MetadataConverges ==
  (budget.exchange = 1) => <>[](known_metadata = local_metadata)

\* A subnet that is looked for does not fall out of the queue or of a group:
\* the search ends only for a reason the code knows (enough peers, expired,
\* the query failed, or MAX_DISCOVERY_RETRY retries), or with the process.
QueriesKept ==
  [][\A subnet \in Subnets :
       Sought(subnet) /\ ~Sought(subnet)' =>
         MayEnd(subnet) \/ budget'.restarts # budget.restarts]_queryVars

\* Every search ends, after every request anew: retries are counted across
\* groups, so a subnet without peers is not searched for ever, and the search
\* for peers can start again.
QueriesEnd ==
  /\ \A subnet \in Subnets : []<>~Sought(subnet)
  /\ []<>~find_peer_active

CoreKinds == core_topics_to_subscribe(PhaseOf[enr_fork_id], as_topic_config)

\* Across a fork the node never misses a topic: at every moment, between any
\* two calls of the transition too, it is subscribed to each core kind and each
\* kind the application asked for under the digest it publishes with, and once
\* the transition is over to nothing else.  Kinds changed between
\* subscribe_new_fork_topics and update_fork_version are exempt: subscribe_kind
\* and its like then act on the old digest alone.  gossipsub has the topics the
\* globals say, but for ExecutionPayloadBid, which create_whitelist_filter omits.
ForkTopics ==
  /\ transition # "starting" =>
       \A kind \in (CoreKinds \cup wanted) \ windowed :
         GossipTopic(kind, enr_fork_id) \in gossipsub_subscriptions
  /\ transition = "none" =>
       \A topic \in gossipsub_subscriptions :
         /\ topic.fork_digest = enr_fork_id
         /\ topic.kind \in CoreKinds \cup wanted \cup windowed
                             \cup Indexed("DataColumnSidecar", sampling_subnets)
  /\ mesh = {t \in gossipsub_subscriptions : t.kind # Kind("ExecutionPayloadBid")}

\* A message published in the form of the node's fork is accepted by a peer
\* that reads it and is what was published: for every kind and phase, at once or
\* out of the cache, on either side of a fork (PubsubMessage::decode takes the
\* fork from the topic).  Each cached message has one timer, however often it is
\* inserted, retrieved and timed out, and there is no other timer, as
\* gossip_cache.rs asserts: "Topic for registered message is not present."
GossipFaithful ==
  /\ delivered # Rejected => delivered.decoded = delivered.message
  /\ expirations = [entry \in topic_msgs |-> 1]

\* The peer database knows the subnets a peer is subscribed to.
PeerSubnetsKnown == peer_subnets = UNION {subnet_id(t.kind) : t \in peer_topics}
=============================================================================
