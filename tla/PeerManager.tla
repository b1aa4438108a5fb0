----------------------------- MODULE PeerManager -----------------------------
(***************************************************************************)
(* The peer manager (peer_manager/mod.rs, network_behaviour.rs) on top of  *)
(* the peer database, between the libp2p swarm, the discovery service and  *)
(* the application.                                                        *)
(*                                                                         *)
(* The swarm is external.  It holds at most one connection per peer        *)
(* (max_established_per_peer) and the dials in flight; it calls the        *)
(* handlers of network_behaviour.rs.  A connection is closing once the RPC *)
(* handler has been told to shut it down, and may close at any time.       *)
(*                                                                         *)
(* Abstractions.  The events that change nothing modelled here (Ping,      *)
(* Status, MetaData, discovery requests) are left out, and so are the IP   *)
(* addresses in Banned and UnBanned.  Which excess peers the heartbeat     *)
(* prunes is any choice its limits allow.                                  *)
(***************************************************************************)
EXTENDS PeerDB, Queues, Functions

CONSTANTS
  TargetPeers,                    \* target_peer_count of the configuration
  Discoverable, Requirable,       \* peers that discovery may find, and a validator may need
  AnonymousDialErrors,            \* libp2p may drop the peer id from a dial error
  MaxEvents, MaxToDial, MaxDials  \* bounds: queued events, queued dials, dials of a peer

ASSUME TargetAssumption == TargetPeers \in Nat /\ AnonymousDialErrors \in BOOLEAN
ASSUME DiscoveryAssumption == Discoverable \subseteq Peers /\ Requirable \subseteq Discoverable
ASSUME BoundsAssumption == MaxEvents \in Nat /\ MaxToDial \in Nat /\ MaxDials \in Nat

VARIABLES
  events,                         \* PeerManagerEvents not yet polled
  peers_to_dial,                  \* a stack
  temporary_banned_peers,
  trusted_peers,                  \* the ENRs dialed at every heartbeat
  duty,                           \* peers whose min_ttl is in the future
  conn, dials, refused,           \* swarm: connections, dials in flight, a dial refused at once
  discv5_banned,                  \* discovery: banned nodes
  known                           \* application: peers it was told are connected

swarmVars == <<conn, dials, refused>>
pmVars == <<events, peers_to_dial, temporary_banned_peers, trusted_peers, duty>>
outside == <<discv5_banned, known>>
vars == <<dbVars, pmVars, swarmVars, outside>>

Ev(type, p) == [type |-> type, peer |-> p]
EventTypes == {"PeerConnected", "PeerDisconnected", "Banned", "UnBanned", "DisconnectPeer"}

\* One event of the given type for every peer of S, in the order of a HashMap
EventsFor(type, S) == {[i \in DOMAIN s |-> Ev(type, s[i])] : s \in Orders(S)}

connected_peers == Cardinality(With("Connected"))
connected_or_dialing_peers == Cardinality(With("Connected") \cup With("Dialing"))

\* target_peers times (100 + percent) / 100, rounded up; the f32 product may round up to the
\* next integer where this is exact
Excess(percent) == (TargetPeers * (100 + percent) + 99) \div 100
max_peers == Excess(10)
max_priority_peers == Excess(30)
max_outbound_dialing_peers == Excess(20)

-----------------------------------------------------------------------------
(* Handlers shared by the actions *)

\* Mutant: the connection of a peer to be banned is not shut down.
BanEventsNoShutdown(op, p, ev) ==
  CASE op = "TemporaryBan" /\ connected_peers' >= TargetPeers -> Append(ev, Ev("Banned", p))
    [] op = "ReadyToBan" /\ p \notin temporary_banned_peers -> Append(ev, Ev("Banned", p))
    [] OTHER -> ev

\* handle_ban_operation, after the database has changed: the events, and the temporary bans
BanEvents(op, p, ev) ==
  CASE op = "TemporaryBan" /\ connected_peers' >= TargetPeers -> Append(ev, Ev("Banned", p))
    [] op = "DisconnectThePeer" -> Append(ev, Ev("DisconnectPeer", p))
    [] op = "ReadyToBan" /\ p \notin temporary_banned_peers ->
         Without(Append(ev, Ev("Banned", p)), {Ev("UnBanned", p)})
    [] OTHER -> ev

\* Mutant: a ban does not end the temporary ban.
TemporaryBansKept(op, p) ==
  IF op = "TemporaryBan" /\ connected_peers' >= TargetPeers
    THEN temporary_banned_peers \cup {p} ELSE temporary_banned_peers

TemporaryBans(op, p) ==
  CASE op = "TemporaryBan" /\ connected_peers' >= TargetPeers -> temporary_banned_peers \cup {p}
    [] op = "ReadyToBan" -> temporary_banned_peers \ {p}
    [] OTHER -> temporary_banned_peers

\* inject_disconnect of the peer manager, when ev are the events so far
InjectDisconnect(p, ev) ==
  /\ inject_disconnect(p)
  /\ LET op == CASE status[p] = "DisconnectingToBan" -> "ReadyToBan"
                 [] status[p] = "Disconnecting" -> "TemporaryBan"
                 [] OTHER -> "None"
         purged == {q \in Peers : /\ status'[q] = "None"
                                  /\ status[q] = "Banned" \/ (q = p /\ op = "ReadyToBan")}
     IN /\ \E unbanned \in EventsFor("UnBanned", purged) : events' = BanEvents(op, p, ev) \o unbanned
        /\ temporary_banned_peers' = TemporaryBans(op, p)
  /\ duty' = {q \in duty : status'[q] # "None"}

dial_peer(p) == peers_to_dial' = IF should_dial(p) THEN Append(peers_to_dial, p) ELSE peers_to_dial

\* The bounds on what the environment adds to the queues
Bounded == Len(events') <= MaxEvents /\ Len(peers_to_dial') <= MaxToDial

-----------------------------------------------------------------------------
(* The swarm's callbacks *)

\* Mutants: peers that are being disconnected are not announced; banned peers are accepted.
EstablishedUnannounced(p, a) ==
  /\ conn[p] = "none" /\ Cardinality({q \in Peers : conn[q] # "none"}) < max_priority_peers
  /\ ~ban_status(p)
  /\ ToConnected(p, a)
  /\ conn' = [conn EXCEPT ![p] = "open"]
  /\ events' = IF is_connected_or_disconnecting(p) THEN events ELSE Append(events, Ev("PeerConnected", p))
  /\ UNCHANGED <<peers_to_dial, temporary_banned_peers, trusted_peers, duty, refused, outside>>
EstablishedAnyone(p, a) ==
  /\ conn[p] = "none" /\ Cardinality({q \in Peers : conn[q] # "none"}) < max_priority_peers
  /\ ToConnected(p, a)
  /\ conn' = [conn EXCEPT ![p] = "open"]
  /\ events' = Append(events, Ev("PeerConnected", p))
  /\ UNCHANGED <<peers_to_dial, temporary_banned_peers, trusted_peers, duty, refused, outside>>

\* The connection limits of the swarm (in total and per peer), ban_status, and
\* on_connection_established
Established(p, a) ==
  /\ conn[p] = "none" /\ Cardinality({q \in Peers : conn[q] # "none"}) < max_priority_peers
  /\ ~ban_status(p)
  /\ ToConnected(p, a)
  /\ conn' = [conn EXCEPT ![p] = "open"]
  /\ events' = Append(events, Ev("PeerConnected", p))
  /\ UNCHANGED <<peers_to_dial, temporary_banned_peers, trusted_peers, duty, refused, outside>>

InboundEstablished(p, a) ==
  /\ connected_or_dialing_peers < max_peers \/ p \in duty
  /\ Established(p, a) /\ Bounded
  /\ UNCHANGED dials

DialEstablished(p, a) ==
  /\ dials[p] > 0
  /\ connected_peers < max_outbound_dialing_peers \/ p \in duty
  /\ Established(p, a)
  /\ dials' = [dials EXCEPT ![p] = @ - 1]

\* Mutant: only the peers that are still in the dialing state are updated.
DialFailureOfDialing(p) ==
  \/ /\ status[p] = "Dialing" /\ InjectDisconnect(p, events)
  \/ /\ status[p] # "Dialing" /\ UNCHANGED <<dbVars, events, temporary_banned_peers, duty>>

on_dial_failure(p) ==
  \/ /\ ~is_connected(p) /\ InjectDisconnect(p, events)
  \/ /\ is_connected(p) /\ UNCHANGED <<dbVars, events, temporary_banned_peers, duty>>

\* A dial fails in the transport, or its connection is denied.
DialFailed(p) ==
  /\ dials[p] > 0
  /\ on_dial_failure(p)
  /\ dials' = [dials EXCEPT ![p] = @ - 1]
  /\ UNCHANGED <<peers_to_dial, trusted_peers, conn, refused, outside>>

DialFailedAnonymously(p) ==
  /\ AnonymousDialErrors /\ dials[p] > 0
  /\ dials' = [dials EXCEPT ![p] = @ - 1]
  /\ UNCHANGED <<dbVars, pmVars, conn, refused, outside>>

\* The swarm refuses a dial before it does anything else.
DialRefused(p) ==
  /\ p \in refused
  /\ on_dial_failure(p)
  /\ refused' = refused \ {p}
  /\ UNCHANGED <<peers_to_dial, trusted_peers, conn, dials, outside>>

\* Mutant: a connection that the peer closes is not recorded.
ConnectionClosedByUs(p) ==
  /\ conn[p] # "none"
  /\ conn' = [conn EXCEPT ![p] = "none"]
  /\ \/ status[p] # "Connected" /\ InjectDisconnect(p, Append(events, Ev("PeerDisconnected", p)))
     \/ status[p] = "Connected" /\ UNCHANGED <<dbVars, events, temporary_banned_peers, duty>>
  /\ UNCHANGED <<peers_to_dial, trusted_peers, dials, refused, outside>>

ConnectionClosed(p) ==
  /\ conn[p] # "none"
  /\ conn' = [conn EXCEPT ![p] = "none"]
  /\ InjectDisconnect(p, IF is_connected_or_disconnecting(p)
                           THEN Append(events, Ev("PeerDisconnected", p)) ELSE events)
  /\ UNCHANGED <<peers_to_dial, trusted_peers, dials, refused, outside>>

-----------------------------------------------------------------------------
(* poll: an event if there is one, and otherwise a dial *)

\* Network::inject_pm_event
PollEvent ==
  /\ events # <<>>
  /\ events' = Tail(events)
  /\ LET e == Head(events)
     IN /\ known' = CASE e.type = "PeerConnected" -> known \cup {e.peer}
                      [] e.type = "PeerDisconnected" -> known \ {e.peer}
                      [] OTHER -> known
        /\ discv5_banned' = CASE e.type = "Banned" -> discv5_banned \cup {e.peer}
                              [] e.type = "UnBanned" -> discv5_banned \ {e.peer}
                              [] OTHER -> discv5_banned
        /\ conn' = IF e.type = "DisconnectPeer" /\ conn[e.peer] = "open"
                     THEN [conn EXCEPT ![e.peer] = "closing"] ELSE conn
  /\ UNCHANGED <<dbVars, peers_to_dial, temporary_banned_peers, trusted_peers, duty, dials, refused>>

\* PeerCondition::Disconnected refuses to dial a connected peer, and the limit on pending
\* connections any.
PollDial ==
  /\ events = <<>> /\ peers_to_dial # <<>>
  /\ \E p \in Peers :
       /\ p = peers_to_dial[Len(peers_to_dial)]
       /\ ToDialing(p)
       /\ \/ refused' = {p} /\ UNCHANGED dials
          \/ /\ conn[p] = "none" /\ dials[p] < MaxDials
             /\ dials' = [dials EXCEPT ![p] = @ + 1] /\ UNCHANGED refused
  /\ peers_to_dial' = SubSeq(peers_to_dial, 1, Len(peers_to_dial) - 1)
  /\ UNCHANGED <<events, temporary_banned_peers, trusted_peers, duty, conn, outside>>

-----------------------------------------------------------------------------
(* Calls of the network service and the application *)

\* peers_discovered: what one result adds to the dials and to the required peers so far
Consider(acc, r) ==
  LET count == connected_or_dialing_peers + Len(acc.dial)
  IN IF /\ r.peer \notin Range(peers_to_dial \o acc.dial)
        /\ (r.required /\ count < max_priority_peers) \/ count < max_peers
     THEN [dial |-> IF should_dial(r.peer) THEN Append(acc.dial, r.peer) ELSE acc.dial,
           required |-> IF r.required THEN acc.required \cup {r.peer} ELSE acc.required]
     ELSE acc

peers_discovered(results) ==
  LET after[i \in 0 .. Len(results)] ==
        IF i = 0 THEN [dial |-> <<>>, required |-> {}]
                 ELSE Consider(after[i - 1], results[i])
      acc == after[Len(results)]
  IN /\ update_min_ttl(acc.required)
     /\ peers_to_dial' = peers_to_dial \o acc.dial
     /\ duty' = duty \cup acc.required

\* The results of a discovery query are a HashMap: distinct peers in any order.
DiscoveryResults ==
  UNION {{[i \in DOMAIN s |-> [peer |-> s[i], required |-> s[i] \in R]] :
            R \in SUBSET (S \cap Requirable), s \in Orders(S)} : S \in SUBSET Discoverable}

PeersDiscovered ==
  /\ \E results \in DiscoveryResults : peers_discovered(results)
  /\ UNCHANGED <<events, temporary_banned_peers, trusted_peers, swarmVars, outside>>
  /\ Bounded

DutyExpires(p) ==
  /\ p \in duty /\ duty' = duty \ {p}
  /\ UNCHANGED <<dbVars, events, peers_to_dial, temporary_banned_peers, trusted_peers, swarmVars, outside>>

\* report_peer and goodbye_peer, with handle_score_action
ReportPeer(p, new) ==
  /\ report_peer(p, new)
  /\ LET op == CASE new = "Banned" /\ status'[p] = "Banned" -> "ReadyToBan"
                 [] /\ status[p] \in {"Connected", "Dialing"}
                    /\ status'[p] \in {"Disconnecting", "DisconnectingToBan"} -> "DisconnectThePeer"
                 [] OTHER -> "None"
     IN events' = BanEvents(op, p, events) /\ temporary_banned_peers' = TemporaryBans(op, p)
  /\ UNCHANGED <<peers_to_dial, trusted_peers, duty, swarmVars, outside>>
  /\ Bounded

UpdateGossipsubScores ==
  /\ GossipScores
  /\ \E more \in EventsFor("DisconnectPeer", {p \in Peers : status'[p] # status[p]}) : events' = events \o more
  /\ UNCHANGED <<peers_to_dial, temporary_banned_peers, trusted_peers, duty, swarmVars, outside>>
  /\ Bounded

\* Network::dial_trusted_peer and remove_trusted_peer
DialTrustedPeer(p) ==
  /\ p \in Trustable
  /\ trusted_peers' = trusted_peers \cup {p} /\ dial_peer(p)
  /\ UNCHANGED <<dbVars, events, temporary_banned_peers, duty, swarmVars, outside>>
  /\ Bounded

RemoveTrustedPeer(p) ==
  /\ RemoveTrusted(p)
  /\ trusted_peers' = trusted_peers \ {p}
  /\ events' = Append(events, Ev("DisconnectPeer", p))
  /\ UNCHANGED <<peers_to_dial, temporary_banned_peers, duty, swarmVars, outside>>
  /\ Bounded

\* NetworkGlobals::add_trusted_peer and remove_trusted_peer
GlobalsTrust(p) == (Trust(p) \/ Untrust(p)) /\ UNCHANGED <<pmVars, swarmVars, outside>>

\* A temporary ban (PEER_RECONNECTION_TIMEOUT) expires long before a banned score starts to
\* decay (BANNED_BEFORE_DECAY).
PeerManagerHeartbeat ==
  /\ \E timedOut \in SUBSET With("Dialing"), new \in DecayedScores,
        pruned \in SUBSET {p \in With("Connected") : p \notin trusted},
        expired \in SUBSET temporary_banned_peers,
        dialed \in Orders({p \in trusted_peers : should_dial(p)}) :
       /\ \A p \in temporary_banned_peers : score[p] = "Banned" => new[p] = "Banned"
       /\ Cardinality(pruned) <= SatSub(connected_peers, TargetPeers)
       /\ heartbeat(timedOut, new, pruned)
       /\ peers_to_dial' = peers_to_dial \o dialed
       /\ \E unbanned \in EventsFor("UnBanned", {p \in Peers : status[p] # "None" /\ Unbans(p, new, timedOut)}),
             disconnected \in EventsFor("DisconnectPeer", pruned),
             unbannedLater \in EventsFor("UnBanned", expired) :
               events' = events \o unbanned \o disconnected \o unbannedLater
       /\ temporary_banned_peers' = temporary_banned_peers \ expired
  /\ UNCHANGED <<trusted_peers, duty, swarmVars, outside>>
  /\ Bounded

-----------------------------------------------------------------------------

Init ==
  /\ DBInit
  /\ events = <<>> /\ peers_to_dial = <<>>
  /\ temporary_banned_peers = {} /\ trusted_peers = {} /\ duty = {}
  /\ conn = [p \in Peers |-> "none"] /\ dials = [p \in Peers |-> 0] /\ refused = {}
  /\ discv5_banned = {} /\ known = {}

Next ==
  \/ \E p \in Peers : DialRefused(p)
  \/ /\ refused = {}
     /\ \/ \E p \in Peers :
             \/ \E a \in Addrs : InboundEstablished(p, a) \/ DialEstablished(p, a)
             \/ DialFailed(p) \/ DialFailedAnonymously(p) \/ ConnectionClosed(p)
             \/ \E new \in ScoreStates : ReportPeer(p, new)
             \/ DialTrustedPeer(p) \/ RemoveTrustedPeer(p) \/ GlobalsTrust(p) \/ DutyExpires(p)
        \/ PollEvent \/ PollDial
        \/ PeersDiscovered \/ UpdateGossipsubScores \/ PeerManagerHeartbeat

Spec == Init /\ [][Next]_vars

(***************************************************************************)
(* The swarm keeps polling the peer manager, a dial ends, and a connection *)
(* that is shut down closes.  A dial refused at once does not put these    *)
(* off: the swarm reports it within the call that started it.              *)
(***************************************************************************)
FairSpec ==
  /\ Spec
  /\ WF_vars(PollEvent)
  /\ \A p \in Peers :
       /\ WF_vars(DialRefused(p))
       /\ WF_vars(DialFailed(p) \/ \E a \in Addrs : DialEstablished(p, a))
       /\ WF_vars(conn[p] = "closing" /\ ConnectionClosed(p))

-----------------------------------------------------------------------------
(* Properties *)

\* The variables have their types; only peers of the database have a duty.
TypeOK ==
  /\ DBTypeOK
  /\ events \in Seq([type : EventTypes, peer : Peers])
  /\ peers_to_dial \in Seq(Peers)
  /\ temporary_banned_peers \subseteq Peers /\ trusted_peers \subseteq Trustable
  /\ duty \subseteq {p \in Peers : status[p] # "None"}
  /\ conn \in [Peers -> {"none", "open", "closing"}] /\ dials \in [Peers -> 0 .. MaxDials]
  /\ refused \subseteq Peers /\ discv5_banned \subseteq Peers /\ known \subseteq Peers

\* p is in S once the events of q of type add put their peer in and those of type del take it out
InAfter(q, p, S, add, del) ==
  \/ \E i \in DOMAIN q : q[i] = Ev(add, p) /\ \A j \in DOMAIN q : j > i => q[j] # Ev(del, p)
  \/ p \in S /\ \A i \in DOMAIN q : q[i] # Ev(del, p)

Drained(S, add, del) == {p \in Peers : InAfter(events, p, S, add, del)}

\* A peer in the connected state has a connection.
ConnectedHasConnection == \A p \in With("Connected") : conn[p] # "none"

\* The application knows, or is about to be told, of every connection.
ApplicationKnowsConnections ==
  {p \in Peers : conn[p] # "none"} \subseteq Drained(known, "PeerConnected", "PeerDisconnected")

\* Every banned or temporarily banned peer is banned in discovery, or will be once the queued
\* events are polled: no UnBanned event overtakes a ban.
BanReachesDiscovery ==
  With("Banned") \cup temporary_banned_peers \subseteq Drained(discv5_banned, "Banned", "UnBanned")

\* A peer that is being disconnected still has a connection or a dial that will end it, as
\* long as dial errors carry the peer id and no trusted peer is removed.
DisconnectionInProgress ==
  \A p \in Peers : status[p] \in {"Disconnecting", "DisconnectingToBan"} =>
     conn[p] # "none" \/ dials[p] > 0

\* The connection of a peer that is being disconnected closes: its DisconnectPeer event is
\* neither lost nor polled before there is a connection to shut down.
ShutdownCompletes ==
  \A p \in Peers :
    (status[p] \in {"Disconnecting", "DisconnectingToBan"} /\ conn[p] # "none") ~> (conn[p] = "none")

(***************************************************************************)
(* What comments of the code say and the code does not do.                 *)
(***************************************************************************)

\* The application is told of the end of every connection it knows of (on_connection_closed).
ApplicationToldOfDisconnection ==
  Drained(known, "PeerConnected", "PeerDisconnected") \subseteq {p \in Peers : conn[p] # "none"}
=============================================================================
