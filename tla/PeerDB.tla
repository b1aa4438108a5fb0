------------------------------- MODULE PeerDB -------------------------------
(***************************************************************************)
(* The peer database of peer_manager/peerdb.rs: the connection status,     *)
(* score state and trust of every known peer, and the counters that bound  *)
(* the number of disconnected and banned peers kept in memory.             *)
(*                                                                         *)
(* Abstractions.  A score is its ScoreState.  The peers of the HashMap are *)
(* those whose status is not "None"; a peer outside the map has the fields *)
(* of PeerInfo::default().  The Instant of Disconnected{since} and         *)
(* Banned{since} is kept as the order older: <<p, q>> is in it when p was  *)
(* stamped before q.  Peers stamped by one call are not ordered, so that   *)
(* min_by_key may return any of them.  ENRs, subnets, clients, metadata    *)
(* and the sync status do not influence these transitions and are left     *)
(* out.                                                                    *)
(***************************************************************************)
EXTENDS Integers, FiniteSets

CONSTANTS
  Peers,                          \* peer ids
  IPs, Addrs,                     \* IP addresses, multiaddresses
  IpOf,                           \* the IP address of a multiaddress
  Trustable,                      \* peers the configuration or application may trust
  InitTrusted,                    \* trusted_peers of the configuration
  DisablePeerScoring,             \* disable_peer_scoring of the configuration
  RemovedWhile,                   \* statuses in which Network::remove_trusted_peer is called
  MAX_DC_PEERS, MAX_BANNED_PEERS, BANNED_PEERS_PER_IP_THRESHOLD

ASSUME PeersAssumption ==
  /\ IsFiniteSet(Peers)
  /\ Trustable \subseteq Peers /\ InitTrusted \subseteq Trustable
ASSUME AddressAssumption == IsFiniteSet(Addrs) /\ IpOf \in [Addrs -> IPs]
ASSUME ConfigAssumption ==
  /\ DisablePeerScoring \in BOOLEAN
  /\ MAX_DC_PEERS \in Nat /\ MAX_BANNED_PEERS \in Nat
  /\ BANNED_PEERS_PER_IP_THRESHOLD \in Nat

VARIABLES
  status, score, trusted, seen,   \* peers: HashMap<PeerId, PeerInfo>
  older,                          \* order of the since instants
  disconnected_peers,             \* counter of disconnected peers
  banned_peers,                   \* BannedPeersCount::banned_peers
  banned_peers_per_ip             \* BannedPeersCount::banned_peers_per_ip

counters == <<disconnected_peers, banned_peers, banned_peers_per_ip>>
dbVars == <<status, score, trusted, seen, older, counters>>

ScoreStates == {"Healthy", "ForcedDisconnect", "Banned"}
ConnectionStatuses == {"Unknown", "Dialing", "Connected", "Disconnecting",
                       "DisconnectingToBan", "Disconnected", "Banned"}
Statuses == ConnectionStatuses \cup {"None"}

With(s) == {p \in Peers : status[p] = s}

\* saturating_sub
SatSub(a, b) == IF a >= b THEN a - b ELSE 0

-----------------------------------------------------------------------------
(* Queries *)

StatusOf(p) == IF status[p] = "None" THEN "Unknown" ELSE status[p]

is_connected(p) == status[p] = "Connected"
is_connected_or_dialing(p) == status[p] \in {"Connected", "Dialing"}
is_connected_or_disconnecting(p) ==
  status[p] \in {"Connected", "Disconnecting", "DisconnectingToBan"}

ip_is_banned(ip) == banned_peers_per_ip[ip] > BANNED_PEERS_PER_IP_THRESHOLD

SeenIps(p) == {IpOf[a] : a \in seen[p]}

ban_status(p) == score[p] = "Banned" \/ \E ip \in SeenIps(p) : ip_is_banned(ip)

should_dial(p) ==
  /\ status[p] \in {"Disconnected", "Unknown", "None"}
  /\ score[p] = "Healthy"
  /\ \A ip \in SeenIps(p) : ~ip_is_banned(ip)

-----------------------------------------------------------------------------
(* Counters of banned peers.  seen_ip_addresses yields one IP address per  *)
(* seen multiaddress.                                                      *)

AddrsOn(S, ip) == {pa \in S \X Addrs : pa[2] \in seen[pa[1]] /\ IpOf[pa[2]] = ip}

\* banned_peers_per_ip after add_banned_peer, remove_banned_peer for the peers of S
AddBanned(perIp, S) == [ip \in IPs |-> perIp[ip] + Cardinality(AddrsOn(S, ip))]
RemoveBanned(perIp, S) == [ip \in IPs |-> SatSub(perIp[ip], Cardinality(AddrsOn(S, ip)))]

\* Mutant: the IP addresses of a banned peer are not counted.
AddBannedPeerNotIps(p) == banned_peers' = banned_peers + 1 /\ UNCHANGED banned_peers_per_ip

add_banned_peer(p) ==
  /\ banned_peers' = banned_peers + 1
  /\ banned_peers_per_ip' = AddBanned(banned_peers_per_ip, {p})

remove_banned_peer(p) ==
  /\ banned_peers' = SatSub(banned_peers, 1)
  /\ banned_peers_per_ip' = RemoveBanned(banned_peers_per_ip, {p})

\* The order of the since instants when the peers of S lose theirs, or get a new one
Unstamp(S) == {pq \in older : pq[1] \notin S /\ pq[2] \notin S}
Stamp(S) == Unstamp(S) \cup ((With("Disconnected") \cup With("Banned")) \ S) \X S

\* The entry of a peer that is not in the map yet: or_insert_with
InsertEntry(p) ==
  trusted' = IF status[p] = "None" /\ DisablePeerScoring THEN trusted \cup {p} ELSE trusted

-----------------------------------------------------------------------------
(* update_connection_state: one action per new state *)

\* Mutant: a disconnected peer that connects stays counted as disconnected.
ConnectedStillCounted(p, a) ==
  /\ InsertEntry(p)
  /\ status' = [status EXCEPT ![p] = "Connected"]
  /\ seen' = [seen EXCEPT ![p] = @ \cup {a}]
  /\ older' = Unstamp({p})
  /\ \/ status[p] = "Banned" /\ remove_banned_peer(p)
     \/ status[p] # "Banned" /\ UNCHANGED <<banned_peers, banned_peers_per_ip>>
  /\ UNCHANGED <<score, disconnected_peers>>

ToConnected(p, a) ==
  /\ InsertEntry(p)
  /\ status' = [status EXCEPT ![p] = "Connected"]
  /\ seen' = [seen EXCEPT ![p] = @ \cup {a}]
  /\ older' = Unstamp({p})
  /\ disconnected_peers' = IF status[p] = "Disconnected" THEN SatSub(disconnected_peers, 1)
                                                         ELSE disconnected_peers
  /\ \/ status[p] = "Banned" /\ remove_banned_peer(p)
     \/ status[p] # "Banned" /\ UNCHANGED <<banned_peers, banned_peers_per_ip>>
  /\ UNCHANGED score

ToDialing(p) ==
  /\ InsertEntry(p)
  /\ status' = [status EXCEPT ![p] = IF StatusOf(p) \in {"Disconnected", "Banned", "Unknown"}
                                     THEN "Dialing" ELSE @]
  /\ older' = Unstamp({p})
  /\ disconnected_peers' = IF status[p] = "Disconnected" THEN SatSub(disconnected_peers, 1)
                                                         ELSE disconnected_peers
  /\ \/ status[p] = "Banned" /\ remove_banned_peer(p)
     \/ status[p] # "Banned" /\ UNCHANGED <<banned_peers, banned_peers_per_ip>>
  /\ UNCHANGED <<score, seen>>

ToDisconnecting(p) ==
  /\ InsertEntry(p)
  /\ status' = [status EXCEPT ![p] = "Disconnecting"]
  /\ older' = Unstamp({p})
  /\ disconnected_peers' = IF status[p] = "Disconnected" THEN SatSub(disconnected_peers, 1)
                                                         ELSE disconnected_peers
  /\ UNCHANGED <<seen, banned_peers, banned_peers_per_ip>>

\* Only reached from a score transition to Banned of a peer in the map.
ToBanned(p) ==
  /\ \/ /\ StatusOf(p) \in {"Disconnected", "Unknown"}
        /\ status' = [status EXCEPT ![p] = "Banned"]
        /\ older' = Stamp({p})
        /\ disconnected_peers' = IF status[p] = "Disconnected" THEN SatSub(disconnected_peers, 1)
                                                               ELSE disconnected_peers
        /\ add_banned_peer(p)
     \/ /\ status[p] \in {"Disconnecting", "DisconnectingToBan", "Connected", "Dialing"}
        /\ status' = [status EXCEPT ![p] = "DisconnectingToBan"]
        /\ UNCHANGED <<older, counters>>
     \/ status[p] = "Banned" /\ UNCHANGED <<status, older, counters>>
  /\ UNCHANGED <<trusted, seen>>

-----------------------------------------------------------------------------
(* inject_disconnect: the peer becomes disconnected, or banned if a ban    *)
(* was pending, and shrink_to_fit then drops the oldest banned and         *)
(* disconnected peers above the limits.                                    *)

\* Mutant: the pending ban is forgotten.
AfterDisconnectUnbanned(s) == IF s = "Banned" THEN "Banned" ELSE "Disconnected"

AfterDisconnect(s) ==
  IF s \in {"DisconnectingToBan", "Banned"} THEN "Banned" ELSE "Disconnected"

\* The n peers of S that were stamped first
IsOldest(E, S, n, order) ==
  /\ Cardinality(E) = n
  /\ \A e \in E, q \in S \ E : <<q, e>> \notin order

Least(m, n) == IF m <= n THEN m ELSE n

\* shrink_to_fit on the given statuses, trust, order and counters
shrink_to_fit(st, tr, order, dc, banned, perIp) ==
  LET Banned == {q \in Peers : st[q] = "Banned"}
      Droppable == {q \in Peers : st[q] = "Disconnected" /\ q \notin tr}
      excess == SatSub(banned, MAX_BANNED_PEERS)
      excessDc == SatSub(dc, MAX_DC_PEERS)
  IN \E B \in SUBSET Banned, D \in SUBSET Droppable :
       /\ IsOldest(B, Banned, Least(excess, Cardinality(Banned)), order)
       /\ IsOldest(D, Droppable, Least(excessDc, Cardinality(Droppable)), order)
       /\ status' = [q \in Peers |-> IF q \in B \cup D THEN "None" ELSE st[q]]
       /\ trusted' = tr \ (B \cup D)
       /\ score' = [q \in Peers |-> IF q \in B \cup D THEN "Healthy" ELSE score[q]]
       /\ seen' = [q \in Peers |-> IF q \in B \cup D THEN {} ELSE seen[q]]
       /\ older' = {pq \in order : pq[1] \notin B \cup D /\ pq[2] \notin B \cup D}
       /\ disconnected_peers' = dc - excessDc
       /\ IF excess > Cardinality(Banned)
            THEN banned_peers' = 0 /\ banned_peers_per_ip' = [ip \in IPs |-> 0]
            ELSE /\ banned_peers' = banned - excess
                 /\ banned_peers_per_ip' = RemoveBanned(perIp, B)

\* Mutant: the disconnection of a peer does not shrink the database.
DisconnectUnshrunk(p) ==
  LET bans == status[p] = "DisconnectingToBan"
      frees == status[p] \notin {"Banned", "Disconnected"} /\ ~bans
  IN /\ status' = [status EXCEPT ![p] = AfterDisconnect(status[p])]
     /\ older' = Stamp({p})
     /\ disconnected_peers' = disconnected_peers + (IF frees THEN 1 ELSE 0)
     /\ banned_peers' = banned_peers + (IF bans THEN 1 ELSE 0)
     /\ banned_peers_per_ip' =
          IF bans THEN AddBanned(banned_peers_per_ip, {p}) ELSE banned_peers_per_ip
     /\ UNCHANGED <<trusted, score, seen>>

inject_disconnect(p) ==
  LET new == AfterDisconnect(status[p])
      bans == status[p] = "DisconnectingToBan"
      frees == status[p] \notin {"Banned", "Disconnected", "DisconnectingToBan"}
  IN shrink_to_fit([status EXCEPT ![p] = new],
                   IF status[p] = "None" /\ DisablePeerScoring THEN trusted \cup {p} ELSE trusted,
                   IF bans \/ frees THEN Stamp({p}) ELSE older,
                   IF frees THEN disconnected_peers + 1 ELSE disconnected_peers,
                   IF bans THEN banned_peers + 1 ELSE banned_peers,
                   IF bans THEN AddBanned(banned_peers_per_ip, {p}) ELSE banned_peers_per_ip)

-----------------------------------------------------------------------------
(* Scores.  A report never improves a score state and update_scores never  *)
(* worsens one (score.rs); a trusted peer has Score::Max.                  *)

Rank == [Healthy |-> 0, ForcedDisconnect |-> 1, Banned |-> 2]

handle_score_transition(previous, new, connectedOrDialing) ==
  CASE new = "Banned" /\ previous # "Banned" -> "Banned"
    [] new = "ForcedDisconnect" /\ previous # "ForcedDisconnect" /\ connectedOrDialing -> "Disconnected"
    [] /\ new # "Banned" /\ previous = "Banned"
       /\ new = "Healthy" \/ ~connectedOrDialing -> "Unbanned"
    [] OTHER -> "NoAction"

report_peer(p, new) ==
  /\ status[p] # "None" /\ p \notin trusted
  /\ Rank[new] > Rank[score[p]]
  /\ score' = [score EXCEPT ![p] = new]
  /\ LET result == handle_score_transition(score[p], new, is_connected_or_dialing(p))
     IN \/ result = "Banned" /\ ToBanned(p)
        \/ result = "Disconnected" /\ ToDisconnecting(p)
        \/ result = "NoAction" /\ UNCHANGED <<status, trusted, seen, older, counters>>

\* Gossipsub scores move the score states of connected peers in any direction.
GossipsubScores ==
  {new \in [Peers -> ScoreStates] :
     \A p \in Peers : new[p] # score[p] => is_connected(p) /\ p \notin trusted}

update_gossipsub_scores(new) ==
  LET Changed(result) ==
        {p \in With("Connected") : handle_score_transition(score[p], new[p], TRUE) = result}
  IN /\ score' = new
     /\ status' = [p \in Peers |-> IF p \in Changed("Banned") THEN "DisconnectingToBan"
                                   ELSE IF p \in Changed("Disconnected") THEN "Disconnecting"
                                   ELSE status[p]]
     /\ UNCHANGED <<trusted, seen, older, counters>>

DecayedScores ==
  {new \in [Peers -> ScoreStates] :
     \A p \in Peers : /\ Rank[new[p]] <= Rank[score[p]]
                      /\ new[p] # score[p] => status[p] # "None" /\ p \notin trusted}

(***************************************************************************)
(* What one heartbeat does to the database: cleanup_dialing_peers turns    *)
(* the peers of timedOut into disconnected ones, update_scores lets the    *)
(* scores decay to new and unbans the peers that recovered, and            *)
(* prune_excess_peers starts to disconnect the peers of pruned.            *)
(***************************************************************************)
Unbans(p, new, timedOut) ==
  handle_score_transition(score[p], new[p], is_connected_or_dialing(p) /\ p \notin timedOut)
    = "Unbanned"

heartbeat(timedOut, new, pruned) ==
  LET unbanned == {p \in With("Banned") : Unbans(p, new, timedOut)}
  IN /\ status' = [p \in Peers |-> IF p \in timedOut \cup unbanned THEN "Disconnected"
                                   ELSE IF p \in pruned THEN "Disconnecting"
                                   ELSE status[p]]
     /\ score' = new
     /\ older' = Stamp(timedOut)
     /\ disconnected_peers' = disconnected_peers + Cardinality(timedOut) + Cardinality(unbanned)
     /\ banned_peers' = SatSub(banned_peers, Cardinality(unbanned))
     /\ banned_peers_per_ip' = RemoveBanned(banned_peers_per_ip, unbanned)
     /\ UNCHANGED <<trusted, seen>>

-----------------------------------------------------------------------------
(* Trust and discovery *)

set_trusted_peer(p) ==
  /\ status' = [status EXCEPT ![p] = StatusOf(p)]
  /\ score' = [score EXCEPT ![p] = "Healthy"]
  /\ trusted' = trusted \cup {p}
  /\ UNCHANGED <<seen, older, counters>>

unset_trusted_peer(p) ==
  /\ status[p] # "None"
  /\ score' = [score EXCEPT ![p] = "Healthy"]
  /\ trusted' = trusted \ {p}
  /\ UNCHANGED <<status, seen, older, counters>>

\* The discovered peers of S are needed until some instant: entry(..).or_default()
update_min_ttl(S) ==
  /\ status' = [p \in Peers |-> IF p \in S THEN StatusOf(p) ELSE status[p]]
  /\ UNCHANGED <<score, trusted, seen, older, counters>>

-----------------------------------------------------------------------------
(* The calls of the peer manager, the swarm callbacks and the application  *)

\* Mutant: connections of banned peers are accepted.
ConnectAnyone(p, a) == ToConnected(p, a)

Connect(p, a) == ~ban_status(p) /\ ToConnected(p, a)
Dial(p) == ToDialing(p)
Disconnected(p) == inject_disconnect(p)
Report(p, new) == report_peer(p, new)
GossipScores == \E new \in GossipsubScores : update_gossipsub_scores(new)
Heartbeat ==
  \E timedOut \in SUBSET With("Dialing"), new \in DecayedScores,
     pruned \in SUBSET {p \in With("Connected") : p \notin trusted} :
       heartbeat(timedOut, new, pruned)
Discovered == \E S \in SUBSET Peers : update_min_ttl(S)
Trust(p) == p \in Trustable /\ set_trusted_peer(p)
Untrust(p) == p \in Trustable /\ unset_trusted_peer(p)
RemoveTrusted(p) ==
  /\ p \in Trustable /\ status[p] \in RemovedWhile
  /\ ToDisconnecting(p) /\ UNCHANGED score

DBInit ==
  /\ status = [p \in Peers |-> IF p \in InitTrusted THEN "Unknown" ELSE "None"]
  /\ score = [p \in Peers |-> "Healthy"]
  /\ trusted = InitTrusted
  /\ seen = [p \in Peers |-> {}]
  /\ older = {}
  /\ disconnected_peers = 0 /\ banned_peers = 0
  /\ banned_peers_per_ip = [ip \in IPs |-> 0]

DBNext ==
  \/ \E p \in Peers :
       \/ \E a \in Addrs : Connect(p, a)
       \/ Dial(p) \/ Disconnected(p)
       \/ \E new \in ScoreStates : Report(p, new)
       \/ Trust(p) \/ Untrust(p) \/ RemoveTrusted(p)
  \/ GossipScores \/ Heartbeat \/ Discovered

\* The database does nothing else: every step is one call with its whole effect.  As a property
\* of the peer manager, its handlers use the database in no other way.
DBSpec == DBInit /\ [][DBNext]_dbVars

-----------------------------------------------------------------------------
(* Properties *)

\* Every field has its type, and a peer outside the map has default fields.
DBTypeOK ==
  /\ status \in [Peers -> Statuses]
  /\ score \in [Peers -> ScoreStates]
  /\ trusted \in SUBSET Peers
  /\ seen \in [Peers -> SUBSET Addrs]
  /\ older \in SUBSET (Peers \X Peers)
  /\ disconnected_peers \in Nat /\ banned_peers \in Nat
  /\ banned_peers_per_ip \in [IPs -> Nat]
  /\ \A p \in Peers : status[p] = "None" =>
       score[p] = "Healthy" /\ p \notin trusted /\ seen[p] = {}

(***************************************************************************)
(* The counters err on one side only, whatever the application trusts or   *)
(* removes: no banned peer is missing from the count of banned peers or    *)
(* from those of its IP addresses, and disconnected_peers never exceeds    *)
(* the number of disconnected peers.                                       *)
(***************************************************************************)
CountersOneSided ==
  /\ Cardinality(With("Banned")) <= banned_peers
  /\ \A ip \in IPs : Cardinality(AddrsOn(With("Banned"), ip)) <= banned_peers_per_ip[ip]
  /\ disconnected_peers <= Cardinality(With("Disconnected"))

(***************************************************************************)
(* The counters are the sizes that they stand for: what the unit tests of  *)
(* peerdb.rs assert after single scenarios.  It takes an application that  *)
(* never removes a trusted peer, scoring that is enabled, and no more than *)
(* MAX_DC_PEERS trusted peers.                                             *)
(***************************************************************************)
CountersExact ==
  /\ banned_peers = Cardinality(With("Banned"))
  /\ \A ip \in IPs : banned_peers_per_ip[ip] = Cardinality(AddrsOn(With("Banned"), ip))
  /\ disconnected_peers = Cardinality(With("Disconnected"))

\* A peer in the connected state never has a banned score: whatever lowers the score of a
\* connected peer to Banned also starts its disconnection.
ConnectedNotBanned == \A p \in Peers : status[p] = "Connected" => score[p] # "Banned"

\* After every disconnection the database holds at most MAX_BANNED_PEERS banned peers.
BannedPeersBounded ==
  [][(\E p \in Peers : Disconnected(p)) => Cardinality(With("Banned"))' <= MAX_BANNED_PEERS]_dbVars

\* A peer that is being disconnected to be banned, and whose score does not recover, stays
\* in that state until its disconnection bans it.
PendingBanKept ==
  [][\A p \in Peers :
       status[p] = "DisconnectingToBan" /\ score[p] = "Banned" /\ score'[p] = "Banned"
         => status'[p] \in {"DisconnectingToBan", "Banned"}]_dbVars
=============================================================================
