-------------------------- MODULE PeerManagerProofs --------------------------
(***************************************************************************)
(* The peer database and the peer manager, for every set of peers and      *)
(* addresses and every limit.                                              *)
(*                                                                         *)
(* The first part is about the database on its own (PeerDB): its types,    *)
(* its counters, and which peers are connected or about to be banned.      *)
(*                                                                         *)
(* The second part is about the peer manager (PeerManager).  It uses the   *)
(* database only through its operations: it implements DBSpec, whatever    *)
(* the bounds, and inherits what is proved of the database.                *)
(*                                                                         *)
(* The third part is about its connections and its queue of events.  A     *)
(* peer in the connected state has a connection, the application knows the *)
(* connections, a ban reaches discovery, and a peer being disconnected has *)
(* a connection or a dial that will end it.  An event that waits in the    *)
(* queue counts as what it will do once it is polled (InAfter).            *)
(***************************************************************************)
EXTENDS PeerManager, QueueTheorems

-----------------------------------------------------------------------------
(* The database: type correctness *)

\* The cardinality of a finite set is a natural number.
LEMMA CardinalityNat == \A S : IsFiniteSet(S) => Cardinality(S) \in Nat
BY Zenon, FS_CardinalityType

\* Sets of peers and of their addresses on an IP address are finite.
LEMMA FiniteSetsOfPeers ==
  ASSUME NEW S \in SUBSET Peers
  PROVE  /\ IsFiniteSet(S) /\ Cardinality(S) \in Nat
         /\ \A ip : IsFiniteSet(AddrsOn(S, ip)) /\ Cardinality(AddrsOn(S, ip)) \in Nat
<1>1. IsFiniteSet(S)
  BY Zenon, PeersAssumption, FS_Subset
<1>2. IsFiniteSet(S \X Addrs)
  BY Zenon, <1>1, AddressAssumption, FS_Product
<1>3. ASSUME NEW ip PROVE IsFiniteSet(AddrsOn(S, ip))
  <2>1. AddrsOn(S, ip) \in SUBSET (S \X Addrs)
    BY Zenon DEF AddrsOn
  <2> QED BY Zenon, <1>2, <2>1, FS_Subset
<1> QED BY Zenon, <1>1, <1>3, CardinalityNat

\* The counters per IP address stay natural numbers.
LEMMA PerIpNat ==
  ASSUME NEW perIp \in [IPs -> Nat], NEW S \in SUBSET Peers
  PROVE  AddBanned(perIp, S) \in [IPs -> Nat] /\ RemoveBanned(perIp, S) \in [IPs -> Nat]
<1>1. \A ip : Cardinality(AddrsOn(S, ip)) \in Nat
  BY Zenon, FiniteSetsOfPeers
<1>2. ASSUME NEW ip \in IPs
      PROVE  /\ perIp[ip] + Cardinality(AddrsOn(S, ip)) \in Nat
             /\ SatSub(perIp[ip], Cardinality(AddrsOn(S, ip))) \in Nat
  BY <1>1 DEF SatSub
<1> QED BY Zenon, <1>2 DEF AddBanned, RemoveBanned

\* A new database, with the configured trusted peers, is well typed.
LEMMA TypeInit == DBInit => DBTypeOK
BY PeersAssumption DEF DBInit, DBTypeOK, Statuses, ConnectionStatuses, ScoreStates

\* The values update_connection_state gives to the counters have their types.
LEMMA CounterTypes ==
  ASSUME DBTypeOK, NEW S \in SUBSET Peers
  PROVE  /\ SatSub(disconnected_peers, 1) \in Nat /\ SatSub(banned_peers, 1) \in Nat
         /\ SatSub(banned_peers, Cardinality(S)) \in Nat
         /\ AddBanned(banned_peers_per_ip, S) \in [IPs -> Nat]
         /\ RemoveBanned(banned_peers_per_ip, S) \in [IPs -> Nat]
<1>1. banned_peers_per_ip \in [IPs -> Nat] /\ disconnected_peers \in Nat /\ banned_peers \in Nat
  BY Zenon DEF DBTypeOK
<1>2. Cardinality(S) \in Nat
  BY Zenon, FiniteSetsOfPeers
<1>3. AddBanned(banned_peers_per_ip, S) \in [IPs -> Nat] /\ RemoveBanned(banned_peers_per_ip, S) \in [IPs -> Nat]
  BY Zenon, <1>1, PerIpNat
<1> QED BY <1>1, <1>2, <1>3 DEF SatSub

\* Removing and adding since instants keeps an order on peers.
LEMMA OrderTypes ==
  ASSUME DBTypeOK, NEW S \in SUBSET Peers
  PROVE  Unstamp(S) \in SUBSET (Peers \X Peers) /\ Stamp(S) \in SUBSET (Peers \X Peers)
BY Zenon DEF DBTypeOK, Unstamp, Stamp, With

\* The transition to Connected keeps the fields well typed.
LEMMA TypeConnected ==
  ASSUME DBTypeOK, NEW p \in Peers, NEW a \in Addrs, ToConnected(p, a)
  PROVE  DBTypeOK'
<1> USE DEF DBTypeOK
<1>1. disconnected_peers' \in Nat /\ banned_peers' \in Nat /\ banned_peers_per_ip' \in [IPs -> Nat]
  BY Zenon, CounterTypes, {p} \in SUBSET Peers DEF ToConnected, remove_banned_peer
<1>2. older' \in SUBSET (Peers \X Peers)
  BY OrderTypes DEF ToConnected
<1>3. /\ status' \in [Peers -> Statuses] /\ trusted' \in SUBSET Peers
      /\ seen' \in [Peers -> SUBSET Addrs] /\ score' = score
  BY Zenon DEF ToConnected, InsertEntry, Statuses, ConnectionStatuses
<1>4. \A q \in Peers : status'[q] = "None" => score'[q] = "Healthy" /\ q \notin trusted' /\ seen'[q] = {}
  BY Zenon DEF ToConnected, InsertEntry
<1> QED BY Zenon, <1>1, <1>2, <1>3, <1>4

\* So does the transition to Dialing.
LEMMA TypeDialing ==
  ASSUME DBTypeOK, NEW p \in Peers, ToDialing(p)
  PROVE  DBTypeOK'
<1> USE DEF DBTypeOK
<1>1. disconnected_peers' \in Nat /\ banned_peers' \in Nat /\ banned_peers_per_ip' \in [IPs -> Nat]
  BY Zenon, CounterTypes, {p} \in SUBSET Peers DEF ToDialing, remove_banned_peer
<1>2. older' \in SUBSET (Peers \X Peers)
  BY OrderTypes DEF ToDialing
<1>3. /\ status' \in [Peers -> Statuses] /\ trusted' \in SUBSET Peers
      /\ seen' = seen /\ score' = score
  BY Zenon DEF ToDialing, InsertEntry, Statuses, ConnectionStatuses
<1>4. \A q \in Peers : status'[q] = "None" => score'[q] = "Healthy" /\ q \notin trusted' /\ seen'[q] = {}
  BY Zenon DEF ToDialing, InsertEntry, StatusOf
<1> QED BY Zenon, <1>1, <1>2, <1>3, <1>4

\* The transition to Disconnecting does not fix the score, which report_peer lowers.
LEMMA TypeDisconnecting ==
  ASSUME DBTypeOK, NEW p \in Peers, ToDisconnecting(p),
         score' \in [Peers -> ScoreStates], \A q \in Peers \ {p} : score'[q] = score[q]
  PROVE  DBTypeOK'
<1> USE DEF DBTypeOK
<1>1. disconnected_peers' \in Nat /\ banned_peers' \in Nat /\ banned_peers_per_ip' \in [IPs -> Nat]
  BY Zenon, CounterTypes, {p} \in SUBSET Peers DEF ToDisconnecting
<1>2. older' \in SUBSET (Peers \X Peers)
  BY OrderTypes DEF ToDisconnecting
<1>3. status' \in [Peers -> Statuses] /\ trusted' \in SUBSET Peers /\ seen' = seen
  BY Zenon DEF ToDisconnecting, InsertEntry, Statuses, ConnectionStatuses
<1>4. \A q \in Peers : status'[q] = "None" => score'[q] = "Healthy" /\ q \notin trusted' /\ seen'[q] = {}
  BY Zenon DEF ToDisconnecting, InsertEntry
<1> QED BY Zenon, <1>1, <1>2, <1>3, <1>4

\* So does the transition to Banned.
LEMMA TypeBanned ==
  ASSUME DBTypeOK, NEW p \in Peers, status[p] # "None", ToBanned(p),
         score' \in [Peers -> ScoreStates], \A q \in Peers \ {p} : score'[q] = score[q]
  PROVE  DBTypeOK'
<1> USE DEF DBTypeOK
<1>1. disconnected_peers' \in Nat /\ banned_peers' \in Nat /\ banned_peers_per_ip' \in [IPs -> Nat]
  BY CounterTypes, {p} \in SUBSET Peers DEF ToBanned, add_banned_peer, counters
<1>2. older' \in SUBSET (Peers \X Peers)
  BY OrderTypes DEF ToBanned
<1>3. status' \in [Peers -> Statuses] /\ trusted' = trusted /\ seen' = seen
  BY Zenon DEF ToBanned, Statuses, ConnectionStatuses
<1>4. \A q \in Peers : status'[q] = "None" => score'[q] = "Healthy" /\ q \notin trusted' /\ seen'[q] = {}
  BY Zenon DEF ToBanned
<1> QED BY Zenon, <1>1, <1>2, <1>3, <1>4

\* shrink_to_fit leaves a well-typed database, and resets every entry that it drops.
LEMMA TypeShrink ==
  ASSUME NEW st \in [Peers -> Statuses], NEW tr \in SUBSET Peers,
         NEW order \in SUBSET (Peers \X Peers),
         NEW dc \in Nat, NEW banned \in Nat, NEW perIp \in [IPs -> Nat],
         score \in [Peers -> ScoreStates], seen \in [Peers -> SUBSET Addrs],
         \A q \in Peers : st[q] = "None" => score[q] = "Healthy" /\ q \notin tr /\ seen[q] = {},
         shrink_to_fit(st, tr, order, dc, banned, perIp)
  PROVE  DBTypeOK'
<1> DEFINE Banned == {q \in Peers : st[q] = "Banned"}
           Droppable == {q \in Peers : st[q] = "Disconnected" /\ q \notin tr}
           excess == SatSub(banned, MAX_BANNED_PEERS)
           excessDc == SatSub(dc, MAX_DC_PEERS)
<1>1. PICK B \in SUBSET Banned, D \in SUBSET Droppable :
       /\ status' = [q \in Peers |-> IF q \in B \cup D THEN "None" ELSE st[q]]
       /\ trusted' = tr \ (B \cup D)
       /\ score' = [q \in Peers |-> IF q \in B \cup D THEN "Healthy" ELSE score[q]]
       /\ seen' = [q \in Peers |-> IF q \in B \cup D THEN {} ELSE seen[q]]
       /\ older' = {pq \in order : pq[1] \notin B \cup D /\ pq[2] \notin B \cup D}
       /\ disconnected_peers' = dc - excessDc
       /\ IF excess > Cardinality(Banned)
            THEN banned_peers' = 0 /\ banned_peers_per_ip' = [ip \in IPs |-> 0]
            ELSE /\ banned_peers' = banned - excess
                 /\ banned_peers_per_ip' = RemoveBanned(perIp, B)
  BY Zenon DEF shrink_to_fit
<1>2. disconnected_peers' \in Nat /\ banned_peers' \in Nat
  BY <1>1, ConfigAssumption DEF SatSub
<1>3. banned_peers_per_ip' \in [IPs -> Nat]
  <2>1. RemoveBanned(perIp, B) \in [IPs -> Nat]
    BY Zenon, PerIpNat, B \in SUBSET Peers
  <2> QED BY <1>1, <2>1
<1>4. status' \in [Peers -> Statuses] /\ score' \in [Peers -> ScoreStates]
  BY Zenon, <1>1 DEF Statuses, ScoreStates
<1>5. trusted' \in SUBSET Peers /\ seen' \in [Peers -> SUBSET Addrs] /\ older' \in SUBSET (Peers \X Peers)
  BY Zenon, <1>1
<1>6. \A q \in Peers : status'[q] = "None" => score'[q] = "Healthy" /\ q \notin trusted' /\ seen'[q] = {}
  BY Zenon, <1>1
<1> QED BY Zenon, <1>2, <1>3, <1>4, <1>5, <1>6 DEF DBTypeOK

\* So does a whole disconnection, which ends with shrink_to_fit.
LEMMA TypeInjectDisconnect ==
  ASSUME DBTypeOK, NEW p \in Peers, inject_disconnect(p)
  PROVE  DBTypeOK'
<1> DEFINE bans == status[p] = "DisconnectingToBan"
           frees == status[p] \notin {"Banned", "Disconnected", "DisconnectingToBan"}
           st == [status EXCEPT ![p] = AfterDisconnect(status[p])]
           tr == IF status[p] = "None" /\ DisablePeerScoring THEN trusted \cup {p} ELSE trusted
           order == IF bans \/ frees THEN Stamp({p}) ELSE older
           dc == IF frees THEN disconnected_peers + 1 ELSE disconnected_peers
           banned == IF bans THEN banned_peers + 1 ELSE banned_peers
           perIp == IF bans THEN AddBanned(banned_peers_per_ip, {p}) ELSE banned_peers_per_ip
<1>1. shrink_to_fit(st, tr, order, dc, banned, perIp)
  BY Zenon DEF inject_disconnect
<1>2. st \in [Peers -> Statuses] /\ st[p] # "None" /\ \A q \in Peers \ {p} : st[q] = status[q]
  BY Zenon DEF DBTypeOK, AfterDisconnect, Statuses, ConnectionStatuses
<1>3. tr \in SUBSET Peers /\ dc \in Nat /\ banned \in Nat
  BY DEF DBTypeOK
<1>4. order \in SUBSET (Peers \X Peers)
  BY OrderTypes DEF DBTypeOK
<1>5. perIp \in [IPs -> Nat]
  BY Zenon, CounterTypes, {p} \in SUBSET Peers DEF DBTypeOK
<1>6. \A q \in Peers : st[q] = "None" => score[q] = "Healthy" /\ q \notin tr /\ seen[q] = {}
  BY Zenon, <1>2 DEF DBTypeOK
<1>7. score \in [Peers -> ScoreStates] /\ seen \in [Peers -> SUBSET Addrs]
  BY Zenon DEF DBTypeOK
<1> HIDE DEF st, tr, order, dc, banned, perIp
<1> QED BY Zenon, <1>1, <1>2, <1>3, <1>4, <1>5, <1>6, <1>7, TypeShrink

\* update_gossipsub_scores keeps the fields well typed.
LEMMA TypeGossip ==
  ASSUME DBTypeOK, NEW new \in GossipsubScores, update_gossipsub_scores(new)
  PROVE  DBTypeOK'
<1> USE DEF DBTypeOK
<1>1. UNCHANGED <<trusted, seen, older, disconnected_peers, banned_peers, banned_peers_per_ip>>
  BY Zenon DEF update_gossipsub_scores, counters
<1>2. status' \in [Peers -> Statuses] /\ \A q \in Peers : status'[q] = "None" => status[q] = "None"
  BY Zenon DEF update_gossipsub_scores, Statuses, ConnectionStatuses
<1>3. score' \in [Peers -> ScoreStates] /\ \A q \in Peers : status[q] = "None" => score'[q] = score[q]
  BY Zenon DEF update_gossipsub_scores, GossipsubScores, is_connected
<1> QED BY Zenon, <1>1, <1>2, <1>3

\* So do the database updates of a heartbeat.
LEMMA TypeHeartbeat ==
  ASSUME DBTypeOK, NEW timedOut \in SUBSET With("Dialing"), NEW new \in DecayedScores,
         NEW pruned \in SUBSET With("Connected"), heartbeat(timedOut, new, pruned)
  PROVE  DBTypeOK'
<1> DEFINE unbanned == {p \in With("Banned") : Unbans(p, new, timedOut)}
<1>1. unbanned \in SUBSET Peers /\ timedOut \in SUBSET Peers
  BY Zenon DEF With
<1>2. Cardinality(unbanned) \in Nat /\ Cardinality(timedOut) \in Nat
  BY Zenon, <1>1, FiniteSetsOfPeers
<1>3. /\ SatSub(banned_peers, Cardinality(unbanned)) \in Nat
      /\ RemoveBanned(banned_peers_per_ip, unbanned) \in [IPs -> Nat]
      /\ Stamp(timedOut) \in SUBSET (Peers \X Peers)
  BY Zenon, <1>1, CounterTypes, OrderTypes
<1>4. disconnected_peers' \in Nat /\ banned_peers' \in Nat /\ banned_peers_per_ip' \in [IPs -> Nat]
      /\ older' \in SUBSET (Peers \X Peers)
  BY <1>2, <1>3 DEF heartbeat, DBTypeOK
<1>5. status' \in [Peers -> Statuses] /\ \A q \in Peers : status'[q] = "None" => status[q] = "None"
  BY Zenon DEF heartbeat, DBTypeOK, Statuses, ConnectionStatuses
<1>6. score' \in [Peers -> ScoreStates] /\ \A q \in Peers : status[q] = "None" => score'[q] = score[q]
  BY Zenon DEF heartbeat, DecayedScores
<1> QED BY Zenon, <1>4, <1>5, <1>6 DEF heartbeat, DBTypeOK

\* So does a report, through the transitions it causes.
LEMMA TypeReport ==
  ASSUME DBTypeOK, NEW p \in Peers, NEW new \in ScoreStates, report_peer(p, new)
  PROVE  DBTypeOK'
<1>1. score' \in [Peers -> ScoreStates] /\ \A q \in Peers \ {p} : score'[q] = score[q]
  BY Zenon DEF report_peer, DBTypeOK
<1>2. CASE ToBanned(p)
  BY Zenon, <1>1, <1>2, TypeBanned DEF report_peer
<1>3. CASE ToDisconnecting(p)
  BY Zenon, <1>1, <1>3, TypeDisconnecting
<1>4. CASE UNCHANGED <<status, trusted, seen, older, counters>>
  BY <1>1, <1>4 DEF DBTypeOK, counters, report_peer
<1> QED BY Zenon, <1>2, <1>3, <1>4 DEF report_peer

\* So do the changes of trust and the peers that discovery requires.
LEMMA TypeTrust ==
  ASSUME DBTypeOK,
         \/ \E p \in Peers : set_trusted_peer(p) \/ unset_trusted_peer(p)
         \/ \E S \in SUBSET Peers : update_min_ttl(S)
  PROVE  DBTypeOK'
BY DEF DBTypeOK, set_trusted_peer, unset_trusted_peer, update_min_ttl, StatusOf, counters,
       Statuses, ConnectionStatuses, ScoreStates

\* Every operation of the database keeps the fields well typed.
LEMMA TypeNext == DBTypeOK /\ [DBNext]_dbVars => DBTypeOK'
<1> SUFFICES ASSUME DBTypeOK, [DBNext]_dbVars PROVE DBTypeOK'
  BY Zenon
<1>1. ASSUME NEW p \in Peers, NEW a \in Addrs, Connect(p, a) PROVE DBTypeOK'
  BY Zenon, <1>1, TypeConnected DEF Connect
<1>2. ASSUME NEW p \in Peers, Dial(p) PROVE DBTypeOK'
  BY Zenon, <1>2, TypeDialing DEF Dial
<1>3. ASSUME NEW p \in Peers, Disconnected(p) PROVE DBTypeOK'
  BY Zenon, <1>3, TypeInjectDisconnect DEF Disconnected
<1>4. ASSUME NEW p \in Peers, NEW new \in ScoreStates, Report(p, new) PROVE DBTypeOK'
  BY Zenon, <1>4, TypeReport DEF Report
<1>5. CASE Discovered \/ \E p \in Peers : Trust(p) \/ Untrust(p)
  BY Zenon, <1>5, TypeTrust DEF Discovered, Trust, Untrust
<1>6. ASSUME NEW p \in Peers, RemoveTrusted(p) PROVE DBTypeOK'
  BY Zenon, <1>6, TypeDisconnecting DEF RemoveTrusted, DBTypeOK
<1>7. CASE GossipScores
  BY Zenon, <1>7, TypeGossip DEF GossipScores
<1>8. CASE Heartbeat
  <2>1. PICK timedOut \in SUBSET With("Dialing"), new \in DecayedScores,
             pruned \in SUBSET {p \in With("Connected") : p \notin trusted} :
               heartbeat(timedOut, new, pruned)
    BY Zenon, <1>8 DEF Heartbeat
  <2> QED BY Zenon, <2>1, TypeHeartbeat
<1>9. CASE UNCHANGED dbVars
  BY Zenon, <1>9 DEF dbVars, counters, DBTypeOK
<1> QED BY Zenon, <1>1, <1>2, <1>3, <1>4, <1>5, <1>6, <1>7, <1>8, <1>9 DEF DBNext

\* Every step of the database keeps its fields well typed.
THEOREM TypeCorrect == DBSpec => []DBTypeOK
BY TypeInit, TypeNext, PTL DEF DBSpec

-----------------------------------------------------------------------------
(* The counters.  Counting is stated for a set S of banned peers, the       *)
(* addresses se they were seen on, and the counters n and m of              *)
(* BannedPeersCount: the counters are at least, or at most, the sizes that  *)
(* they stand for.                                                          *)

On(S, se, ip) == {pa \in S \X Addrs : pa[2] \in se[pa[1]] /\ IpOf[pa[2]] = ip}

AtLeast(S, se, n, m) ==
  Cardinality(S) <= n /\ \A ip \in IPs : Cardinality(On(S, se, ip)) <= m[ip]
AtMost(S, se, n, m) ==
  n <= Cardinality(S) /\ \A ip \in IPs : m[ip] <= Cardinality(On(S, se, ip))

\* The counters after remove_banned_peer, or add_banned_peer, for every peer of T
Minus(m, T, se) == [ip \in IPs |-> SatSub(m[ip], Cardinality(On(T, se, ip)))]
Plus(m, T, se) == [ip \in IPs |-> m[ip] + Cardinality(On(T, se, ip))]

\* The sizes of a difference and of a disjoint union of finite sets.
LEMMA Sizes ==
  /\ \A S, T : IsFiniteSet(S) /\ T \subseteq S
       => /\ Cardinality(S \ T) = Cardinality(S) - Cardinality(T)
          /\ Cardinality(S \ T) \in Nat /\ Cardinality(S) \in Nat /\ Cardinality(T) \in Nat
  /\ \A S, T : IsFiniteSet(S) /\ IsFiniteSet(T) /\ S \cap T = {}
       => /\ Cardinality(S \cup T) = Cardinality(S) + Cardinality(T)
          /\ Cardinality(S) \in Nat /\ Cardinality(T) \in Nat
<1>1. ASSUME NEW S, NEW T, IsFiniteSet(S), T \subseteq S
      PROVE  /\ Cardinality(S \ T) = Cardinality(S) - Cardinality(T)
             /\ Cardinality(S \ T) \in Nat /\ Cardinality(S) \in Nat /\ Cardinality(T) \in Nat
  <2>1. IsFiniteSet(T) /\ IsFiniteSet(S \ T)
    BY Zenon, <1>1, FS_Subset
  <2>2. S \cap T = T
    BY Zenon, <1>1
  <2>3. Cardinality(S \ T) = Cardinality(S) - Cardinality(S \cap T)
    BY Zenon, <1>1, <2>1, FS_Difference
  <2> QED BY Zenon, <1>1, <2>1, <2>2, <2>3, FS_CardinalityType
<1>2. ASSUME NEW S, NEW T, IsFiniteSet(S), IsFiniteSet(T), S \cap T = {}
      PROVE  /\ Cardinality(S \cup T) = Cardinality(S) + Cardinality(T)
             /\ Cardinality(S) \in Nat /\ Cardinality(T) \in Nat
  <2>1. Cardinality(S \cup T) = Cardinality(S) + Cardinality(T) - Cardinality(S \cap T)
    BY Zenon, <1>2, FS_Union
  <2>2. Cardinality(S \cap T) = 0
    BY Zenon, <1>2, FS_EmptySet
  <2> QED BY <1>2, <2>1, <2>2, FS_CardinalityType
<1> QED BY Zenon, <1>1, <1>2

\* The address pairs of a set of peers are finite, and follow differences and unions.
LEMMA Pairs ==
  ASSUME NEW S \in SUBSET Peers, NEW se, NEW ip
  PROVE  /\ IsFiniteSet(S) /\ IsFiniteSet(On(S, se, ip))
         /\ \A T \in SUBSET S : On(T, se, ip) \subseteq On(S, se, ip)
                               /\ On(S \ T, se, ip) = On(S, se, ip) \ On(T, se, ip)
         /\ \A T : S \cap T = {} => On(S, se, ip) \cap On(T, se, ip) = {}
         /\ \A T : On(S \cup T, se, ip) = On(S, se, ip) \cup On(T, se, ip)
<1>1. IsFiniteSet(S)
  BY Zenon, PeersAssumption, FS_Subset
<1>2. IsFiniteSet(S \X Addrs)
  BY Zenon, <1>1, AddressAssumption, FS_Product
<1>3. On(S, se, ip) \in SUBSET (S \X Addrs)
  BY Zenon DEF On
<1>4. IsFiniteSet(On(S, se, ip))
  BY Zenon, <1>2, <1>3, FS_Subset
<1> QED BY <1>1, <1>4 DEF On

\* Unbanning the peers of T keeps both bounds; the other banned peers keep their addresses.
LEMMA Removal ==
  ASSUME NEW S \in SUBSET Peers, NEW T \in SUBSET S, NEW se, NEW se2,
         NEW n \in Nat, NEW m \in [IPs -> Nat],
         \A q \in S \ T : se2[q] = se[q]
  PROVE  /\ AtLeast(S, se, n, m) => AtLeast(S \ T, se2, SatSub(n, Cardinality(T)), Minus(m, T, se))
         /\ AtMost(S, se, n, m) => AtMost(S \ T, se2, SatSub(n, Cardinality(T)), Minus(m, T, se))
<1>1. /\ Cardinality(S \ T) = Cardinality(S) - Cardinality(T)
      /\ Cardinality(S \ T) \in Nat /\ Cardinality(S) \in Nat /\ Cardinality(T) \in Nat
  BY Zenon, PeersAssumption, FS_Subset, Sizes
<1>2. ASSUME NEW ip \in IPs
      PROVE  /\ Cardinality(On(S \ T, se2, ip)) = Cardinality(On(S, se, ip)) - Cardinality(On(T, se, ip))
             /\ Cardinality(On(S \ T, se2, ip)) \in Nat
             /\ Cardinality(On(S, se, ip)) \in Nat /\ Cardinality(On(T, se, ip)) \in Nat
             /\ Minus(m, T, se)[ip] = SatSub(m[ip], Cardinality(On(T, se, ip)))
  <2>1. On(S \ T, se2, ip) = On(S \ T, se, ip)
    BY Zenon DEF On
  <2>2. /\ On(S \ T, se, ip) = On(S, se, ip) \ On(T, se, ip)
        /\ On(T, se, ip) \subseteq On(S, se, ip)
        /\ IsFiniteSet(On(S, se, ip))
    BY Zenon, Pairs
  <2>3. /\ Cardinality(On(S, se, ip) \ On(T, se, ip))
             = Cardinality(On(S, se, ip)) - Cardinality(On(T, se, ip))
        /\ Cardinality(On(S, se, ip) \ On(T, se, ip)) \in Nat
        /\ Cardinality(On(S, se, ip)) \in Nat /\ Cardinality(On(T, se, ip)) \in Nat
    BY Zenon, <2>2, Sizes
  <2>4. Minus(m, T, se)[ip] = SatSub(m[ip], Cardinality(On(T, se, ip)))
    BY Zenon DEF Minus
  <2> QED BY Zenon, <2>1, <2>2, <2>3, <2>4
<1>3. ASSUME AtLeast(S, se, n, m)
      PROVE  AtLeast(S \ T, se2, SatSub(n, Cardinality(T)), Minus(m, T, se))
  <2>1. ASSUME NEW ip \in IPs PROVE Cardinality(On(S \ T, se2, ip)) <= Minus(m, T, se)[ip]
    BY <1>2, <1>3 DEF AtLeast, SatSub
  <2>2. Cardinality(S \ T) <= SatSub(n, Cardinality(T))
    BY <1>1, <1>3 DEF AtLeast, SatSub
  <2> QED BY Zenon, <2>1, <2>2 DEF AtLeast
<1>4. ASSUME AtMost(S, se, n, m)
      PROVE  AtMost(S \ T, se2, SatSub(n, Cardinality(T)), Minus(m, T, se))
  <2>1. ASSUME NEW ip \in IPs PROVE Minus(m, T, se)[ip] <= Cardinality(On(S \ T, se2, ip))
    BY <1>2, <1>4 DEF AtMost, SatSub
  <2>2. SatSub(n, Cardinality(T)) <= Cardinality(S \ T)
    BY <1>1, <1>4 DEF AtMost, SatSub
  <2> QED BY Zenon, <2>1, <2>2 DEF AtMost
<1> QED BY Zenon, <1>3, <1>4

\* Banning the peers of T of S, after those of S \ T, keeps both bounds.
LEMMA Addition ==
  ASSUME NEW S \in SUBSET Peers, NEW T \in SUBSET S, NEW se,
         NEW n \in Nat, NEW m \in [IPs -> Nat]
  PROVE  /\ AtLeast(S \ T, se, n, m) => AtLeast(S, se, n + Cardinality(T), Plus(m, T, se))
         /\ AtMost(S \ T, se, n, m) => AtMost(S, se, n + Cardinality(T), Plus(m, T, se))
<1>1. /\ Cardinality(S \ T) = Cardinality(S) - Cardinality(T)
      /\ Cardinality(S \ T) \in Nat /\ Cardinality(S) \in Nat /\ Cardinality(T) \in Nat
  BY Zenon, PeersAssumption, FS_Subset, Sizes
<1>2. ASSUME NEW ip \in IPs
      PROVE  /\ Cardinality(On(S \ T, se, ip)) = Cardinality(On(S, se, ip)) - Cardinality(On(T, se, ip))
             /\ Cardinality(On(S \ T, se, ip)) \in Nat
             /\ Cardinality(On(S, se, ip)) \in Nat /\ Cardinality(On(T, se, ip)) \in Nat
             /\ m[ip] \in Nat
             /\ Plus(m, T, se)[ip] = m[ip] + Cardinality(On(T, se, ip))
  <2>1. /\ On(S \ T, se, ip) = On(S, se, ip) \ On(T, se, ip)
        /\ On(T, se, ip) \subseteq On(S, se, ip)
        /\ IsFiniteSet(On(S, se, ip))
    BY Zenon, Pairs
  <2> QED BY Zenon, <2>1, Sizes DEF Plus
<1>3. ASSUME AtLeast(S \ T, se, n, m)
      PROVE  AtLeast(S, se, n + Cardinality(T), Plus(m, T, se))
  <2>1. ASSUME NEW ip \in IPs PROVE Cardinality(On(S, se, ip)) <= Plus(m, T, se)[ip]
    <3>1. Cardinality(On(S \ T, se, ip)) <= m[ip]
      BY Zenon, <1>3 DEF AtLeast
    <3> QED BY <1>2, <3>1
  <2>2. Cardinality(S) <= n + Cardinality(T)
    BY <1>1, <1>3 DEF AtLeast
  <2> QED BY Zenon, <2>1, <2>2 DEF AtLeast
<1>4. ASSUME AtMost(S \ T, se, n, m)
      PROVE  AtMost(S, se, n + Cardinality(T), Plus(m, T, se))
  <2>1. ASSUME NEW ip \in IPs PROVE Plus(m, T, se)[ip] <= Cardinality(On(S, se, ip))
    <3>1. m[ip] <= Cardinality(On(S \ T, se, ip))
      BY Zenon, <1>4 DEF AtMost
    <3> QED BY <1>2, <3>1
  <2>2. n + Cardinality(T) <= Cardinality(S)
    BY <1>1, <1>4 DEF AtMost
  <2> QED BY Zenon, <2>1, <2>2 DEF AtMost
<1> QED BY Zenon, <1>3, <1>4

\* The two bounds on the counters of banned peers, and those on disconnected_peers
BannedBelow == AtLeast(With("Banned"), seen, banned_peers, banned_peers_per_ip)
BannedAbove == AtMost(With("Banned"), seen, banned_peers, banned_peers_per_ip)
DisconnectedBelow == Cardinality(With("Disconnected")) <= disconnected_peers
DisconnectedAbove == disconnected_peers <= Cardinality(With("Disconnected"))

BannedKept == (BannedBelow => BannedBelow') /\ (BannedAbove => BannedAbove')
DisconnectedKept ==
  (DisconnectedBelow => DisconnectedBelow') /\ (DisconnectedAbove => DisconnectedAbove')

\* The invariants of PeerDB in these terms.
LEMMA Bounds ==
  /\ CountersOneSided <=> BannedBelow /\ DisconnectedAbove
  /\ DBTypeOK => (CountersExact <=> /\ BannedBelow /\ BannedAbove
                                    /\ DisconnectedBelow /\ DisconnectedAbove)
<1>1. \A S, ip : AddrsOn(S, ip) = On(S, seen, ip)
  BY Zenon DEF AddrsOn, On
<1>2. CountersOneSided <=> BannedBelow /\ DisconnectedAbove
  BY Zenon, <1>1 DEF CountersOneSided, BannedBelow, AtLeast, DisconnectedAbove
<1>3. ASSUME DBTypeOK
      PROVE  CountersExact <=> /\ BannedBelow /\ BannedAbove
                               /\ DisconnectedBelow /\ DisconnectedAbove
  <2> DEFINE n == Cardinality(With("Banned"))
             d == Cardinality(With("Disconnected"))
             a(ip) == Cardinality(On(With("Banned"), seen, ip))
  <2>1. n \in Nat /\ d \in Nat
    BY Zenon, FiniteSetsOfPeers DEF With
  <2>2. \A ip \in IPs : a(ip) \in Nat
    BY Zenon, FiniteSetsOfPeers, <1>1, With("Banned") \in SUBSET Peers DEF With
  <2>3. banned_peers \in Nat /\ disconnected_peers \in Nat /\ \A ip \in IPs : banned_peers_per_ip[ip] \in Nat
    BY Zenon, <1>3 DEF DBTypeOK
  <2>4. CountersExact <=> /\ banned_peers = n /\ disconnected_peers = d
                          /\ \A ip \in IPs : banned_peers_per_ip[ip] = a(ip)
    BY Zenon, <1>1 DEF CountersExact
  <2>5. (/\ BannedBelow /\ BannedAbove /\ DisconnectedBelow /\ DisconnectedAbove)
          <=> /\ n <= banned_peers /\ banned_peers <= n
              /\ d <= disconnected_peers /\ disconnected_peers <= d
              /\ \A ip \in IPs : a(ip) <= banned_peers_per_ip[ip] /\ banned_peers_per_ip[ip] <= a(ip)
    BY Zenon DEF BannedBelow, BannedAbove, DisconnectedBelow, DisconnectedAbove, AtLeast, AtMost
  <2>6. (n <= banned_peers /\ banned_peers <= n) <=> banned_peers = n
    BY <2>1, <2>3
  <2>7. (d <= disconnected_peers /\ disconnected_peers <= d) <=> disconnected_peers = d
    BY <2>1, <2>3
  <2>8. ASSUME NEW ip \in IPs
        PROVE  (a(ip) <= banned_peers_per_ip[ip] /\ banned_peers_per_ip[ip] <= a(ip))
                 <=> banned_peers_per_ip[ip] = a(ip)
    BY <2>2, <2>3
  <2> HIDE DEF n, d, a
  <2> QED BY Zenon, <2>4, <2>5, <2>6, <2>7, <2>8
<1> QED BY Zenon, <1>2, <1>3

\* A step that unbans the peers of T and uncounts them.
LEMMA BannedRemoved ==
  ASSUME DBTypeOK, NEW T \in SUBSET With("Banned"),
         With("Banned")' = With("Banned") \ T,
         \A q \in With("Banned") \ T : seen'[q] = seen[q],
         banned_peers' = SatSub(banned_peers, Cardinality(T)),
         banned_peers_per_ip' = RemoveBanned(banned_peers_per_ip, T)
  PROVE  BannedKept
<1>1. banned_peers_per_ip' = Minus(banned_peers_per_ip, T, seen)
  BY Zenon DEF RemoveBanned, Minus, AddrsOn, On
<1>2. With("Banned") \in SUBSET Peers /\ banned_peers \in Nat /\ banned_peers_per_ip \in [IPs -> Nat]
  BY Zenon DEF With, DBTypeOK
<1> DEFINE S == With("Banned")
<1>3. S' = S \ T /\ S \in SUBSET Peers /\ T \in SUBSET S /\ \A q \in S \ T : seen'[q] = seen[q]
  BY Zenon, <1>2
<1>4. /\ BannedBelow <=> AtLeast(S, seen, banned_peers, banned_peers_per_ip)
      /\ BannedAbove <=> AtMost(S, seen, banned_peers, banned_peers_per_ip)
      /\ BannedBelow' <=> AtLeast(S', seen', banned_peers', banned_peers_per_ip')
      /\ BannedAbove' <=> AtMost(S', seen', banned_peers', banned_peers_per_ip')
  BY Zenon DEF BannedBelow, BannedAbove
<1> HIDE DEF S
<1>5. /\ AtLeast(S, seen, banned_peers, banned_peers_per_ip)
           => AtLeast(S \ T, seen', SatSub(banned_peers, Cardinality(T)), Minus(banned_peers_per_ip, T, seen))
      /\ AtMost(S, seen, banned_peers, banned_peers_per_ip)
           => AtMost(S \ T, seen', SatSub(banned_peers, Cardinality(T)), Minus(banned_peers_per_ip, T, seen))
  BY Zenon, <1>2, <1>3, Removal
<1> QED BY Zenon, <1>1, <1>3, <1>4, <1>5 DEF BannedKept

\* A step that bans the peer p and counts it.
LEMMA BannedAdded ==
  ASSUME DBTypeOK, NEW p \in Peers, status[p] # "Banned",
         With("Banned")' = With("Banned") \cup {p}, seen' = seen,
         add_banned_peer(p)
  PROVE  BannedKept
<1> DEFINE S == With("Banned")
           T == {p}
<1>1. /\ S' \in SUBSET Peers /\ T \in SUBSET (S') /\ S' \ T = S /\ Cardinality(T) = 1
      /\ banned_peers \in Nat /\ banned_peers_per_ip \in [IPs -> Nat]
  BY Zenon, FS_Singleton DEF With, DBTypeOK
<1>2. banned_peers_per_ip' = Plus(banned_peers_per_ip, T, seen) /\ banned_peers' = banned_peers + Cardinality(T)
  BY Zenon, <1>1 DEF add_banned_peer, AddBanned, Plus, AddrsOn, On
<1>3. /\ BannedBelow <=> AtLeast(S, seen, banned_peers, banned_peers_per_ip)
      /\ BannedAbove <=> AtMost(S, seen, banned_peers, banned_peers_per_ip)
      /\ BannedBelow' <=> AtLeast(S', seen, banned_peers', banned_peers_per_ip')
      /\ BannedAbove' <=> AtMost(S', seen, banned_peers', banned_peers_per_ip')
  BY Zenon DEF BannedBelow, BannedAbove
<1> HIDE DEF S, T
<1>4. /\ AtLeast(S' \ T, seen, banned_peers, banned_peers_per_ip)
           => AtLeast(S', seen, banned_peers + Cardinality(T), Plus(banned_peers_per_ip, T, seen))
      /\ AtMost(S' \ T, seen, banned_peers, banned_peers_per_ip)
           => AtMost(S', seen, banned_peers + Cardinality(T), Plus(banned_peers_per_ip, T, seen))
  BY Zenon, <1>1, Addition
<1> QED BY Zenon, <1>1, <1>2, <1>3, <1>4 DEF BannedKept

\* A step that leaves the banned peers, their addresses and their counters alone.
LEMMA BannedSame ==
  ASSUME With("Banned")' = With("Banned"), \A q \in With("Banned") : seen'[q] = seen[q],
         UNCHANGED <<banned_peers, banned_peers_per_ip>>
  PROVE  BannedKept
<1>1. \A ip \in IPs : On(With("Banned"), seen', ip) = On(With("Banned"), seen, ip)
  BY Zenon DEF On
<1> QED BY Zenon, <1>1 DEF BannedKept, BannedBelow, BannedAbove, AtLeast, AtMost

\* A step that moves the peers of T into, or out of, the disconnected peers and counts it.
LEMMA DisconnectedChanged ==
  ASSUME DBTypeOK, NEW T \in SUBSET Peers,
         \/ /\ With("Disconnected") \cap T = {}
            /\ With("Disconnected")' = With("Disconnected") \cup T
            /\ disconnected_peers' = disconnected_peers + Cardinality(T)
         \/ /\ T \subseteq With("Disconnected")
            /\ With("Disconnected")' = With("Disconnected") \ T
            /\ disconnected_peers' = SatSub(disconnected_peers, Cardinality(T))
         \/ UNCHANGED <<With("Disconnected"), disconnected_peers>>
  PROVE  DisconnectedKept
<1> DEFINE S == With("Disconnected")
<1>1. IsFiniteSet(S) /\ IsFiniteSet(T) /\ disconnected_peers \in Nat
  BY Zenon, FiniteSetsOfPeers, S \in SUBSET Peers DEF DBTypeOK, With
<1>2. CASE /\ S \cap T = {} /\ S' = S \cup T
           /\ disconnected_peers' = disconnected_peers + Cardinality(T)
  <2>1. Cardinality(S') = Cardinality(S) + Cardinality(T) /\ Cardinality(S) \in Nat /\ Cardinality(T) \in Nat
    BY Zenon, <1>1, <1>2, Sizes
  <2> QED BY <1>1, <1>2, <2>1 DEF DisconnectedKept, DisconnectedBelow, DisconnectedAbove
<1>3. CASE /\ T \subseteq S /\ S' = S \ T
           /\ disconnected_peers' = SatSub(disconnected_peers, Cardinality(T))
  <2>1. /\ Cardinality(S') = Cardinality(S) - Cardinality(T) /\ Cardinality(S') \in Nat
        /\ Cardinality(S) \in Nat /\ Cardinality(T) \in Nat
    BY Zenon, <1>1, <1>3, Sizes
  <2> QED BY <1>1, <1>3, <2>1 DEF DisconnectedKept, DisconnectedBelow, DisconnectedAbove, SatSub
<1>4. CASE UNCHANGED <<S, disconnected_peers>>
  BY Zenon, <1>4 DEF DisconnectedKept, DisconnectedBelow, DisconnectedAbove
<1> QED BY Zenon, <1>2, <1>3, <1>4

\* A step that moves one peer out of the disconnected and the banned peers, as connecting
\* and dialing do.
LEMMA Leaves ==
  ASSUME DBTypeOK, NEW p \in Peers,
         \A q \in Peers : status'[q] = status[q] \/ (q = p /\ status'[q] \notin {"Banned", "Disconnected"}),
         status[p] \in {"Banned", "Disconnected"} => status'[p] # status[p],
         \A q \in Peers \ {p} : seen'[q] = seen[q],
         disconnected_peers' = IF status[p] = "Disconnected" THEN SatSub(disconnected_peers, 1)
                                                             ELSE disconnected_peers,
         \/ status[p] = "Banned" /\ remove_banned_peer(p)
         \/ status[p] # "Banned" /\ UNCHANGED <<banned_peers, banned_peers_per_ip>>
  PROVE  BannedKept /\ DisconnectedKept
<1>1. BannedKept
  <2>1. CASE status[p] = "Banned" /\ remove_banned_peer(p)
    <3> DEFINE T == {p}
    <3>1. T \in SUBSET With("Banned") /\ With("Banned")' = With("Banned") \ T
      BY Zenon, <2>1 DEF With
    <3>2. Cardinality(T) = 1
      BY Zenon, FS_Singleton
    <3>3. /\ banned_peers' = SatSub(banned_peers, Cardinality(T))
          /\ banned_peers_per_ip' = RemoveBanned(banned_peers_per_ip, T)
      BY Zenon, <2>1, <3>2 DEF remove_banned_peer
    <3>4. \A q \in With("Banned") \ T : seen'[q] = seen[q]
      BY Zenon DEF With
    <3> HIDE DEF T
    <3> QED BY Zenon, <3>1, <3>3, <3>4, BannedRemoved
  <2>2. CASE status[p] # "Banned" /\ UNCHANGED <<banned_peers, banned_peers_per_ip>>
    <3>1. With("Banned")' = With("Banned") /\ \A q \in With("Banned") : seen'[q] = seen[q]
      BY Zenon, <2>2 DEF With
    <3> QED BY Zenon, <2>2, <3>1, BannedSame
  <2> QED BY Zenon, <2>1, <2>2
<1>2. DisconnectedKept
  <2> DEFINE T == {p}
  <2>1. Cardinality(T) = 1 /\ T \in SUBSET Peers
    BY Zenon, FS_Singleton
  <2>2. CASE status[p] = "Disconnected"
    <3>1. T \subseteq With("Disconnected") /\ With("Disconnected")' = With("Disconnected") \ T
      BY Zenon, <2>2 DEF With
    <3>2. disconnected_peers' = SatSub(disconnected_peers, Cardinality(T))
      BY Zenon, <2>1, <2>2
    <3> HIDE DEF T
    <3> QED BY Zenon, <2>1, <3>1, <3>2, DisconnectedChanged
  <2>3. CASE status[p] # "Disconnected"
    <3>1. With("Disconnected")' = With("Disconnected") /\ disconnected_peers' = disconnected_peers
      BY Zenon, <2>3 DEF With
    <3> QED BY Zenon, <3>1, <2>1, DisconnectedChanged
  <2> QED BY Zenon, <2>2, <2>3
<1> QED BY Zenon, <1>1, <1>2

\* The transition to Connected keeps the counters within their bounds, and exact.
LEMMA CountConnected ==
  ASSUME DBTypeOK, NEW p \in Peers, NEW a \in Addrs, ToConnected(p, a)
  PROVE  BannedKept /\ DisconnectedKept
<1>1. /\ \A q \in Peers : status'[q] = status[q] \/ (q = p /\ status'[q] \notin {"Banned", "Disconnected"})
      /\ status[p] \in {"Banned", "Disconnected"} => status'[p] # status[p]
      /\ \A q \in Peers \ {p} : seen'[q] = seen[q]
  BY Zenon DEF ToConnected, DBTypeOK
<1> QED BY Zenon, <1>1, Leaves DEF ToConnected

\* So does the transition to Dialing, which may release a banned peer.
LEMMA CountDialing ==
  ASSUME DBTypeOK, NEW p \in Peers, ToDialing(p)
  PROVE  BannedKept /\ DisconnectedKept
<1>1. /\ \A q \in Peers : status'[q] = status[q] \/ (q = p /\ status'[q] \notin {"Banned", "Disconnected"})
      /\ status[p] \in {"Banned", "Disconnected"} => status'[p] # status[p]
      /\ \A q \in Peers \ {p} : seen'[q] = seen[q]
  BY DEF ToDialing, DBTypeOK, StatusOf
<1> QED BY Zenon, <1>1, Leaves DEF ToDialing

\* Disconnecting a banned peer leaves it in the counters of banned peers.
LEMMA CountDisconnecting ==
  ASSUME DBTypeOK, NEW p \in Peers, ToDisconnecting(p)
  PROVE  /\ DisconnectedKept /\ (BannedBelow => BannedBelow')
         /\ status[p] # "Banned" => BannedKept
<1>1. CASE status[p] # "Banned"
  <2>1. /\ \A q \in Peers : status'[q] = status[q] \/ (q = p /\ status'[q] \notin {"Banned", "Disconnected"})
        /\ status[p] \in {"Banned", "Disconnected"} => status'[p] # status[p]
        /\ \A q \in Peers \ {p} : seen'[q] = seen[q]
    BY Zenon DEF ToDisconnecting, DBTypeOK
  <2> QED BY Zenon, <1>1, <2>1, Leaves DEF ToDisconnecting, BannedKept, DisconnectedKept
<1>2. CASE status[p] = "Banned"
  <2> DEFINE S == With("Banned")
             T == {p}
  <2>1. /\ S \in SUBSET Peers /\ T \in SUBSET S /\ S' = S \ T /\ seen' = seen
        /\ UNCHANGED <<With("Disconnected"), disconnected_peers, banned_peers, banned_peers_per_ip>>
    BY Zenon, <1>2 DEF ToDisconnecting, DBTypeOK, With
  <2>2. DisconnectedKept
    BY Zenon, <2>1 DEF DisconnectedKept, DisconnectedBelow, DisconnectedAbove
  <2>3. ASSUME BannedBelow PROVE BannedBelow'
    <3> HIDE DEF S, T
    <3>1. AtLeast(S, seen, banned_peers, banned_peers_per_ip)
      BY Zenon, <2>3 DEF BannedBelow, S
    <3>2. Cardinality(S \ T) <= banned_peers
      <4>1. /\ Cardinality(S \ T) = Cardinality(S) - Cardinality(T)
            /\ Cardinality(S) \in Nat /\ Cardinality(T) \in Nat
        BY Zenon, <2>1, PeersAssumption, FS_Subset, Sizes
      <4> QED BY <3>1, <4>1 DEF AtLeast, DBTypeOK
    <3>3. ASSUME NEW ip \in IPs PROVE Cardinality(On(S \ T, seen, ip)) <= banned_peers_per_ip[ip]
      <4>1. /\ On(S \ T, seen, ip) = On(S, seen, ip) \ On(T, seen, ip)
            /\ On(T, seen, ip) \subseteq On(S, seen, ip) /\ IsFiniteSet(On(S, seen, ip))
        BY Zenon, <2>1, Pairs
      <4>2. /\ Cardinality(On(S \ T, seen, ip)) = Cardinality(On(S, seen, ip)) - Cardinality(On(T, seen, ip))
            /\ Cardinality(On(S, seen, ip)) \in Nat /\ Cardinality(On(T, seen, ip)) \in Nat
        BY Zenon, <4>1, Sizes
      <4>3. Cardinality(On(S, seen, ip)) <= banned_peers_per_ip[ip] /\ banned_peers_per_ip[ip] \in Nat
        BY Zenon, <3>1 DEF AtLeast, DBTypeOK
      <4> QED BY <4>2, <4>3
    <3>4. AtLeast(S', seen', banned_peers', banned_peers_per_ip')
      BY Zenon, <2>1, <3>2, <3>3 DEF AtLeast
    <3> QED BY Zenon, <3>4 DEF BannedBelow, S
  <2> QED BY Zenon, <1>2, <2>2, <2>3 DEF DisconnectedKept
<1> QED BY Zenon, <1>1, <1>2

\* A ban counts the peer at once, unless it waits for a disconnection.
LEMMA CountBanned ==
  ASSUME DBTypeOK, NEW p \in Peers, ToBanned(p)
  PROVE  BannedKept /\ DisconnectedKept
<1>1. CASE /\ StatusOf(p) \in {"Disconnected", "Unknown"}
           /\ status' = [status EXCEPT ![p] = "Banned"]
           /\ disconnected_peers' = IF status[p] = "Disconnected" THEN SatSub(disconnected_peers, 1)
                                                                  ELSE disconnected_peers
           /\ add_banned_peer(p)
  <2>1. /\ status[p] # "Banned" /\ With("Banned")' = With("Banned") \cup {p} /\ seen' = seen
        /\ status[p] = "Disconnected" => With("Disconnected")' = With("Disconnected") \ {p}
        /\ status[p] # "Disconnected" => UNCHANGED <<With("Disconnected"), disconnected_peers>>
    BY Zenon, <1>1 DEF ToBanned, StatusOf, DBTypeOK, With
  <2>2. BannedKept
    BY Zenon, <1>1, <2>1, BannedAdded
  <2> DEFINE T == {p}
  <2>3. /\ T \in SUBSET Peers
        /\ status[p] = "Disconnected" => /\ T \subseteq With("Disconnected")
                                         /\ With("Disconnected")' = With("Disconnected") \ T
                                         /\ disconnected_peers' = SatSub(disconnected_peers, Cardinality(T))
    BY <1>1, <2>1, FS_Singleton DEF With
  <2> HIDE DEF T
  <2>4. DisconnectedKept
    BY Zenon, <2>1, <2>3, DisconnectedChanged
  <2> QED BY <2>2, <2>4
<1>2. CASE UNCHANGED <<With("Banned"), With("Disconnected"), counters>> /\ seen' = seen
  BY Zenon, <1>2, BannedSame DEF counters, DisconnectedKept, DisconnectedBelow, DisconnectedAbove
<1>3. CASE /\ status[p] \in {"Disconnecting", "DisconnectingToBan", "Connected", "Dialing"}
           /\ status' = [status EXCEPT ![p] = "DisconnectingToBan"]
           /\ UNCHANGED counters
  <2>1. UNCHANGED <<With("Banned"), With("Disconnected")>> /\ seen' = seen
    BY Zenon, <1>3 DEF ToBanned, DBTypeOK, With
  <2> QED BY <1>2, <1>3, <2>1
<1>4. CASE status[p] = "Banned" /\ UNCHANGED <<status, counters>>
  <2>1. UNCHANGED <<With("Banned"), With("Disconnected")>> /\ seen' = seen
    BY Zenon, <1>4 DEF ToBanned, With
  <2> QED BY Zenon, <1>2, <1>4, <2>1
<1> QED BY Zenon, <1>1, <1>3, <1>4 DEF ToBanned

\* Steps that leave the disconnected and the banned peers and their counters alone.
LEMMA CountSame ==
  ASSUME UNCHANGED <<With("Banned"), With("Disconnected"), seen, counters>>
  PROVE  BannedKept /\ DisconnectedKept
BY Zenon, BannedSame DEF counters, DisconnectedKept, DisconnectedBelow, DisconnectedAbove

\* So does a report, through the transitions it causes.
LEMMA CountReport ==
  ASSUME DBTypeOK, NEW p \in Peers, NEW new \in ScoreStates, report_peer(p, new)
  PROVE  BannedKept /\ DisconnectedKept
<1>1. CASE ToBanned(p)
  BY Zenon, <1>1, CountBanned
<1>2. CASE ToDisconnecting(p) /\ status[p] # "Banned"
  BY Zenon, <1>2, CountDisconnecting
<1>3. CASE UNCHANGED <<status, seen, counters>>
  BY Zenon, <1>3, CountSame DEF With
<1>4. ASSUME handle_score_transition(score[p], new, is_connected_or_dialing(p)) = "Disconnected"
      PROVE  status[p] # "Banned"
  BY Zenon, <1>4 DEF handle_score_transition, is_connected_or_dialing
<1> QED BY Zenon, <1>1, <1>2, <1>3, <1>4 DEF report_peer

\* So does update_gossipsub_scores, which only starts disconnections.
LEMMA CountGossip ==
  ASSUME DBTypeOK, NEW new \in GossipsubScores, update_gossipsub_scores(new)
  PROVE  BannedKept /\ DisconnectedKept
<1>1. UNCHANGED <<With("Banned"), With("Disconnected"), seen, counters>>
  BY Zenon DEF update_gossipsub_scores, With, DBTypeOK
<1> QED BY Zenon, <1>1, CountSame

\* So do the changes of trust and the peers that discovery requires.
LEMMA CountTrust ==
  ASSUME DBTypeOK,
         \/ \E p \in Peers : set_trusted_peer(p) \/ unset_trusted_peer(p)
         \/ \E S \in SUBSET Peers : update_min_ttl(S)
  PROVE  BannedKept /\ DisconnectedKept
<1>1. UNCHANGED <<With("Banned"), With("Disconnected"), seen, counters>>
  BY DEF set_trusted_peer, unset_trusted_peer, update_min_ttl, StatusOf, With, DBTypeOK, counters
<1> QED BY <1>1, CountSame

\* So does a heartbeat, which disconnects dialing peers and unbans banned ones.
LEMMA CountHeartbeat ==
  ASSUME DBTypeOK, NEW timedOut \in SUBSET With("Dialing"), NEW new \in DecayedScores,
         NEW pruned \in SUBSET With("Connected"), heartbeat(timedOut, new, pruned)
  PROVE  BannedKept /\ DisconnectedKept
<1> DEFINE unbanned == {p \in With("Banned") : Unbans(p, new, timedOut)}
<1>1. /\ \A q \in Peers : status'[q] = IF q \in timedOut \cup unbanned THEN "Disconnected"
                                       ELSE IF q \in pruned THEN "Disconnecting" ELSE status[q]
      /\ disconnected_peers' = disconnected_peers + Cardinality(timedOut) + Cardinality(unbanned)
      /\ banned_peers' = SatSub(banned_peers, Cardinality(unbanned))
      /\ banned_peers_per_ip' = RemoveBanned(banned_peers_per_ip, unbanned)
      /\ seen' = seen
  BY Zenon DEF heartbeat
<1>2. unbanned \in SUBSET With("Banned") /\ timedOut \cap unbanned = {} /\ timedOut \cup unbanned \in SUBSET Peers
  BY Zenon DEF With
<1> HIDE DEF unbanned
<1>3. With("Banned")' = With("Banned") \ unbanned
  BY Zenon, <1>1, <1>2 DEF With
<1>4. BannedKept
  BY Zenon, <1>1, <1>2, <1>3, BannedRemoved
<1> DEFINE T == timedOut \cup unbanned
<1>5. T \in SUBSET Peers /\ With("Disconnected") \cap T = {} /\ With("Disconnected")' = With("Disconnected") \cup T
  BY Zenon, <1>1, <1>2 DEF With
<1>6. disconnected_peers' = disconnected_peers + Cardinality(T)
  <2>1. IsFiniteSet(timedOut) /\ IsFiniteSet(unbanned)
    BY Zenon, <1>2, FiniteSetsOfPeers DEF With
  <2>2. /\ Cardinality(T) = Cardinality(timedOut) + Cardinality(unbanned)
        /\ Cardinality(timedOut) \in Nat /\ Cardinality(unbanned) \in Nat
    BY Zenon, <1>2, <2>1, Sizes
  <2> QED BY <1>1, <2>2 DEF DBTypeOK
<1> HIDE DEF T
<1>7. DisconnectedKept
  BY Zenon, <1>5, <1>6, DisconnectedChanged
<1> QED BY Zenon, <1>4, <1>7

\* shrink_to_fit keeps both bounds on the banned peers and leaves at most MAX_BANNED_PEERS of
\* them.  It uncounts disconnected peers that it cannot drop, which only many trusted
\* peers make it do.
LEMMA CountShrink ==
  ASSUME NEW st \in [Peers -> Statuses], NEW tr \in SUBSET Peers, NEW order,
         NEW dc \in Nat, NEW banned \in Nat, NEW perIp \in [IPs -> Nat],
         NEW SB \in SUBSET Peers, SB = {q \in Peers : st[q] = "Banned"},
         NEW SD \in SUBSET Peers, SD = {q \in Peers : st[q] = "Disconnected"},
         shrink_to_fit(st, tr, order, dc, banned, perIp)
  PROVE  /\ AtLeast(SB, seen, banned, perIp)
              => BannedBelow' /\ Cardinality(With("Banned")') <= MAX_BANNED_PEERS
         /\ AtMost(SB, seen, banned, perIp) => BannedAbove'
         /\ dc <= Cardinality(SD) => DisconnectedAbove'
         /\ dc = Cardinality(SD) /\ Cardinality(SD \cap tr) <= MAX_DC_PEERS => DisconnectedBelow'
<1> DEFINE Banned == {q \in Peers : st[q] = "Banned"}
           Droppable == {q \in Peers : st[q] = "Disconnected" /\ q \notin tr}
           excess == SatSub(banned, MAX_BANNED_PEERS)
           excessDc == SatSub(dc, MAX_DC_PEERS)
<1>0. PICK B \in SUBSET Banned, D \in SUBSET Droppable :
       /\ IsOldest(B, Banned, Least(excess, Cardinality(Banned)), order)
       /\ IsOldest(D, Droppable, Least(excessDc, Cardinality(Droppable)), order)
       /\ status' = [q \in Peers |-> IF q \in B \cup D THEN "None" ELSE st[q]]
       /\ seen' = [q \in Peers |-> IF q \in B \cup D THEN {} ELSE seen[q]]
       /\ disconnected_peers' = dc - excessDc
       /\ IF excess > Cardinality(Banned)
            THEN banned_peers' = 0 /\ banned_peers_per_ip' = [ip \in IPs |-> 0]
            ELSE /\ banned_peers' = banned - excess
                 /\ banned_peers_per_ip' = RemoveBanned(perIp, B)
  BY Zenon DEF shrink_to_fit
<1>1. /\ B \in SUBSET SB
      /\ Cardinality(B) = Least(excess, Cardinality(SB))
      /\ Cardinality(D) = Least(excessDc, Cardinality(Droppable))
      /\ status' = [q \in Peers |-> IF q \in B \cup D THEN "None" ELSE st[q]]
      /\ seen' = [q \in Peers |-> IF q \in B \cup D THEN {} ELSE seen[q]]
      /\ disconnected_peers' = dc - excessDc
      /\ IF excess > Cardinality(SB)
           THEN banned_peers' = 0 /\ banned_peers_per_ip' = [ip \in IPs |-> 0]
           ELSE /\ banned_peers' = banned - excess
                /\ banned_peers_per_ip' = RemoveBanned(perIp, B)
  BY <1>0, Zenon DEF IsOldest
<1>2. /\ Droppable = SD \ (SD \cap tr)
      /\ Droppable \in SUBSET SD /\ D \in SUBSET SD
  BY Zenon
<1>3. /\ Cardinality(SB \ B) = Cardinality(SB) - Cardinality(B)
      /\ Cardinality(SB \ B) \in Nat /\ Cardinality(SB) \in Nat /\ Cardinality(B) \in Nat
      /\ IsFiniteSet(SB)
  BY Zenon, PeersAssumption, FS_Subset, Sizes
<1>4. /\ Cardinality(SD \ D) = Cardinality(SD) - Cardinality(D)
      /\ Cardinality(SD \ D) \in Nat /\ Cardinality(SD) \in Nat /\ Cardinality(D) \in Nat
      /\ Cardinality(Droppable) = Cardinality(SD) - Cardinality(SD \cap tr)
      /\ Cardinality(Droppable) \in Nat /\ Cardinality(SD \cap tr) \in Nat
  <2>1. IsFiniteSet(SD)
    BY Zenon, PeersAssumption, FS_Subset
  <2>2. Cardinality(SD \ (SD \cap tr)) = Cardinality(SD) - Cardinality(SD \cap tr)
        /\ Cardinality(SD \ (SD \cap tr)) \in Nat /\ Cardinality(SD \cap tr) \in Nat
    BY Zenon, <2>1, Sizes, SD \cap tr \subseteq SD
  <2>3. /\ Cardinality(SD \ D) = Cardinality(SD) - Cardinality(D)
        /\ Cardinality(SD \ D) \in Nat /\ Cardinality(SD) \in Nat /\ Cardinality(D) \in Nat
    BY Zenon, <1>2, <2>1, Sizes
  <2> QED BY Zenon, <1>2, <2>2, <2>3
<1>5. excess \in Nat /\ excess <= banned /\ excessDc \in Nat
  BY ConfigAssumption DEF SatSub
<1>6. With("Banned")' = SB \ B /\ With("Disconnected")' = SD \ D
  BY Zenon, <1>1 DEF With
<1>7. \A q \in SB \ B : seen'[q] = seen[q]
  BY Zenon, <1>1
<1> DEFINE BB == With("Banned")
           DD == With("Disconnected")
<1>8. /\ BannedBelow' <=> AtLeast(BB', seen', banned_peers', banned_peers_per_ip')
      /\ BannedAbove' <=> AtMost(BB', seen', banned_peers', banned_peers_per_ip')
      /\ DisconnectedBelow' <=> Cardinality(DD') <= disconnected_peers'
      /\ DisconnectedAbove' <=> disconnected_peers' <= Cardinality(DD')
      /\ BB' = SB \ B /\ DD' = SD \ D
  BY Zenon, <1>6 DEF BannedBelow, BannedAbove, DisconnectedBelow, DisconnectedAbove
<1>9. /\ banned <= excess + MAX_BANNED_PEERS
      /\ dc <= excessDc + MAX_DC_PEERS /\ (excessDc = 0 \/ dc = excessDc + MAX_DC_PEERS)
  BY ConfigAssumption DEF SatSub
<1>dropped. /\ Cardinality(B) = Least(excess, Cardinality(SB))
      /\ Cardinality(D) = Least(excessDc, Cardinality(Droppable))
  BY <1>1, Zenon
<1> HIDE DEF excess, excessDc, Droppable, BB, DD
<1>nats. excess \in Nat /\ excessDc \in Nat /\ Cardinality(SB) \in Nat /\ Cardinality(Droppable) \in Nat
  BY Zenon, <1>3, <1>4, <1>5
<1>10. /\ Cardinality(B) = excess \/ Cardinality(B) = Cardinality(SB)
       /\ Cardinality(D) <= excessDc
       /\ Cardinality(D) = excessDc \/ Cardinality(Droppable) < excessDc
  BY <1>dropped, <1>nats DEF Least
<1>11. ASSUME AtLeast(SB, seen, banned, perIp)
       PROVE  Cardinality(BB') <= MAX_BANNED_PEERS
  <2>1. Cardinality(SB) <= banned
    BY Zenon, <1>11 DEF AtLeast
  <2>2. Cardinality(BB') = Cardinality(SB) - Cardinality(B)
    BY Zenon, <1>3, <1>8
  <2> QED BY <1>3, <1>5, <1>9, <1>10, <2>1, <2>2, ConfigAssumption
<1>12. ASSUME excess <= Cardinality(SB)
       PROVE  /\ AtLeast(SB, seen, banned, perIp) => BannedBelow'
              /\ AtMost(SB, seen, banned, perIp) => BannedAbove'
  <2>1. Cardinality(B) = excess
    BY Zenon, <1>dropped, <1>nats, <1>12 DEF Least
  <2>2. banned_peers' = banned - excess /\ banned_peers_per_ip' = RemoveBanned(perIp, B)
    <3>1. ~(excess > Cardinality(SB))
      BY <1>nats, <1>12
    <3> QED BY <1>1, <3>1, Zenon
  <2>3. banned_peers' = SatSub(banned, Cardinality(B))
    BY Zenon, <1>5, <2>1, <2>2 DEF SatSub
  <2>4. banned_peers_per_ip' = Minus(perIp, B, seen)
    BY Zenon, <2>2 DEF RemoveBanned, Minus, AddrsOn, On
  <2>5. /\ AtLeast(SB, seen, banned, perIp)
             => AtLeast(SB \ B, seen', SatSub(banned, Cardinality(B)), Minus(perIp, B, seen))
        /\ AtMost(SB, seen, banned, perIp)
             => AtMost(SB \ B, seen', SatSub(banned, Cardinality(B)), Minus(perIp, B, seen))
    BY Zenon, <1>7, Removal
  <2> QED BY <1>8, <2>3, <2>4, <2>5
<1>13. ASSUME ~(excess <= Cardinality(SB))
       PROVE  BannedBelow' /\ BannedAbove'
  <2>1. Cardinality(B) = Cardinality(SB) /\ excess > Cardinality(SB)
    BY <1>dropped, <1>nats, <1>13 DEF Least
  <2>2. Cardinality(SB \ B) = 0
    BY <1>3, <2>1
  <2>3. BB' = {}
    <3>1. IsFiniteSet(SB \ B)
      BY Zenon, <1>3, FS_Subset
    <3> QED BY Zenon, <1>8, <2>2, <3>1, FS_EmptySet
  <2>4. ASSUME NEW ip \in IPs PROVE Cardinality(On({}, seen', ip)) = 0
    BY Zenon, FS_EmptySet, On({}, seen', ip) = {} DEF On
  <2>5. banned_peers' = 0 /\ banned_peers_per_ip' = [ip \in IPs |-> 0]
    BY Zenon, <1>1, <2>1
  <2>6. Cardinality({}) = 0 /\ \A ip \in IPs : banned_peers_per_ip'[ip] = 0
    BY <2>5, FS_EmptySet
  <2>7. AtLeast({}, seen', banned_peers', banned_peers_per_ip') /\ AtMost({}, seen', banned_peers', banned_peers_per_ip')
    BY <2>4, <2>5, <2>6 DEF AtLeast, AtMost
  <2> QED BY <1>8, <2>3, <2>7
<1>dc. disconnected_peers' = dc - excessDc
  BY Zenon, <1>1
<1>left. /\ Cardinality(SD \ D) = Cardinality(SD) - Cardinality(D)
      /\ Cardinality(SD) \in Nat /\ Cardinality(D) \in Nat
  BY Zenon, <1>4
<1>few. excessDc \in Nat /\ Cardinality(D) <= excessDc
  BY <1>5, <1>10
<1>14. ASSUME dc <= Cardinality(SD) PROVE DisconnectedAbove'
  <2>1. disconnected_peers' <= Cardinality(SD \ D)
    BY <1>dc, <1>left, <1>few, <1>14
  <2> QED BY Zenon, <1>8, <2>1
<1>15. ASSUME dc = Cardinality(SD), Cardinality(SD \cap tr) <= MAX_DC_PEERS
       PROVE  DisconnectedBelow'
  <2>1. ~(Cardinality(Droppable) < excessDc)
    BY <1>4, <1>5, <1>9, <1>15, ConfigAssumption
  <2>2. Cardinality(D) = excessDc
    BY <1>10, <2>1
  <2>3. Cardinality(SD \ D) = disconnected_peers'
    BY Zenon, <1>dc, <1>left, <1>15, <2>2
  <2>4. Cardinality(SD \ D) <= disconnected_peers'
    BY <1>4, <2>3
  <2> QED BY Zenon, <1>8, <2>4
<1> QED BY Zenon, <1>11, <1>12, <1>13, <1>14, <1>15 DEF BB

\* A disconnection counts the peer it bans or disconnects before it makes room.
LEMMA CountInjectDisconnect ==
  ASSUME DBTypeOK, NEW p \in Peers, inject_disconnect(p)
  PROVE  /\ BannedKept /\ (DisconnectedAbove => DisconnectedAbove')
         /\ BannedBelow => Cardinality(With("Banned")') <= MAX_BANNED_PEERS
         /\ (/\ DisconnectedBelow /\ DisconnectedAbove
             /\ ~DisablePeerScoring /\ trusted \subseteq Trustable
             /\ Cardinality(Trustable) <= MAX_DC_PEERS)
            => DisconnectedBelow'
<1> DEFINE bans == status[p] = "DisconnectingToBan"
           frees == status[p] \notin {"Banned", "Disconnected", "DisconnectingToBan"}
           st == [status EXCEPT ![p] = AfterDisconnect(status[p])]
           tr == IF status[p] = "None" /\ DisablePeerScoring THEN trusted \cup {p} ELSE trusted
           order == IF bans \/ frees THEN Stamp({p}) ELSE older
           dc == IF frees THEN disconnected_peers + 1 ELSE disconnected_peers
           banned == IF bans THEN banned_peers + 1 ELSE banned_peers
           perIp == IF bans THEN AddBanned(banned_peers_per_ip, {p}) ELSE banned_peers_per_ip
           SB == {q \in Peers : st[q] = "Banned"}
           SD == {q \in Peers : st[q] = "Disconnected"}
           T == {p}
<1>1. shrink_to_fit(st, tr, order, dc, banned, perIp)
  BY Zenon DEF inject_disconnect
<1>2. st \in [Peers -> Statuses] /\ tr \in SUBSET Peers /\ dc \in Nat /\ banned \in Nat
  BY DEF DBTypeOK, AfterDisconnect, Statuses, ConnectionStatuses
<1>3. perIp \in [IPs -> Nat]
  BY Zenon, CounterTypes, {p} \in SUBSET Peers DEF DBTypeOK
<1>4. /\ T \in SUBSET Peers /\ Cardinality(T) = 1
      /\ SB \in SUBSET Peers /\ SD \in SUBSET Peers
  BY Zenon, FS_Singleton
<1>5. /\ bans => T \in SUBSET SB /\ SB \ T = With("Banned")
      /\ ~bans => SB = With("Banned")
      /\ frees => SD = With("Disconnected") \cup T /\ With("Disconnected") \cap T = {}
      /\ ~frees => SD = With("Disconnected")
  BY DEF With, AfterDisconnect, DBTypeOK
<1>6. /\ bans => banned = banned_peers + Cardinality(T) /\ perIp = Plus(banned_peers_per_ip, T, seen)
      /\ ~bans => banned = banned_peers /\ perIp = banned_peers_per_ip
      /\ frees => dc = disconnected_peers + 1
      /\ ~frees => dc = disconnected_peers
  BY Zenon, <1>4 DEF AddBanned, AddrsOn, Plus, On
<1>7. SB = {q \in Peers : st[q] = "Banned"} /\ SD = {q \in Peers : st[q] = "Disconnected"}
  BY Zenon
<1>8. ~DisablePeerScoring => tr = trusted
  BY Zenon
<1> DEFINE S == With("Banned")
<1>9. /\ BannedBelow <=> AtLeast(S, seen, banned_peers, banned_peers_per_ip)
      /\ BannedAbove <=> AtMost(S, seen, banned_peers, banned_peers_per_ip)
      /\ banned_peers \in Nat /\ banned_peers_per_ip \in [IPs -> Nat] /\ disconnected_peers \in Nat
      /\ bans => SB \ T = S
      /\ ~bans => SB = S
  BY Zenon, <1>5 DEF BannedBelow, BannedAbove, DBTypeOK
<1> HIDE DEF st, tr, order, dc, banned, perIp, SB, SD, T, S, bans, frees
<1>10. /\ BannedBelow => AtLeast(SB, seen, banned, perIp)
       /\ BannedAbove => AtMost(SB, seen, banned, perIp)
  <2>1. CASE bans
    <3>1. /\ AtLeast(SB \ T, seen, banned_peers, banned_peers_per_ip)
               => AtLeast(SB, seen, banned_peers + Cardinality(T), Plus(banned_peers_per_ip, T, seen))
          /\ AtMost(SB \ T, seen, banned_peers, banned_peers_per_ip)
               => AtMost(SB, seen, banned_peers + Cardinality(T), Plus(banned_peers_per_ip, T, seen))
      BY Zenon, <1>4, <1>5, <1>9, <2>1, Addition
    <3> QED BY <1>6, <1>9, <2>1, <3>1
  <2>2. CASE ~bans
    BY <1>6, <1>9, <2>2
  <2> QED BY Zenon, <2>1, <2>2
<1>11. Cardinality(SD) - dc = Cardinality(With("Disconnected")) - disconnected_peers
       /\ Cardinality(SD) \in Nat /\ Cardinality(With("Disconnected")) \in Nat
  <2>1. IsFiniteSet(T) /\ IsFiniteSet(With("Disconnected"))
    BY Zenon, <1>4, FiniteSetsOfPeers, With("Disconnected") \in SUBSET Peers DEF With
  <2>2. CASE frees
    <3>1. Cardinality(SD) = Cardinality(With("Disconnected")) + Cardinality(T)
          /\ Cardinality(With("Disconnected")) \in Nat
      BY Zenon, <1>5, <2>1, <2>2, Sizes
    <3> QED BY <1>4, <1>6, <1>9, <2>2, <3>1
  <2>3. CASE ~frees
    BY Zenon, <1>5, <1>6, <1>9, <2>1, <2>3, FS_CardinalityType
  <2> QED BY Zenon, <2>2, <2>3
<1>12. ASSUME ~DisablePeerScoring, trusted \subseteq Trustable, Cardinality(Trustable) <= MAX_DC_PEERS
       PROVE  Cardinality(SD \cap tr) <= MAX_DC_PEERS
  <2>1. IsFiniteSet(Trustable) /\ SD \cap tr \subseteq Trustable
    BY Zenon, <1>8, <1>12, PeersAssumption, FS_Subset
  <2>2. Cardinality(SD \cap tr) <= Cardinality(Trustable)
        /\ Cardinality(SD \cap tr) \in Nat /\ Cardinality(Trustable) \in Nat
    BY Zenon, <2>1, FS_Subset, FS_CardinalityType
  <2> QED BY <1>12, <2>2, ConfigAssumption
<1>13. /\ AtLeast(SB, seen, banned, perIp)
            => BannedBelow' /\ Cardinality(With("Banned")') <= MAX_BANNED_PEERS
       /\ AtMost(SB, seen, banned, perIp) => BannedAbove'
       /\ dc <= Cardinality(SD) => DisconnectedAbove'
       /\ dc = Cardinality(SD) /\ Cardinality(SD \cap tr) <= MAX_DC_PEERS => DisconnectedBelow'
  BY <1>1, <1>2, <1>3, <1>4, <1>7, CountShrink
<1>14. /\ DisconnectedAbove => dc <= Cardinality(SD)
       /\ DisconnectedAbove /\ DisconnectedBelow => dc = Cardinality(SD)
  BY <1>2, <1>9, <1>11 DEF DisconnectedAbove, DisconnectedBelow
<1> QED BY Zenon, <1>10, <1>12, <1>13, <1>14 DEF BannedKept

-----------------------------------------------------------------------------
(* The theorems *)

\* The counters of a new database are zero, and no peer is disconnected or banned.
LEMMA InitialCounts ==
  ASSUME DBInit
  PROVE  CountersOneSided /\ CountersExact
<1>1. With("Banned") = {} /\ With("Disconnected") = {}
  BY Zenon DEF DBInit, With
<1>2. ASSUME NEW ip \in IPs PROVE Cardinality(AddrsOn(With("Banned"), ip)) = 0
  BY Zenon, <1>1, FS_EmptySet, AddrsOn(With("Banned"), ip) = {} DEF AddrsOn
<1>3. /\ Cardinality(With("Banned")) = 0 /\ Cardinality(With("Disconnected")) = 0
      /\ banned_peers = 0 /\ disconnected_peers = 0 /\ \A ip \in IPs : banned_peers_per_ip[ip] = 0
  BY <1>1, FS_EmptySet DEF DBInit
<1> QED BY <1>2, <1>3 DEF CountersOneSided, CountersExact

\* What one step of the database does to the counters.  Only the removal of a trusted peer
\* may leave a peer counted that is not banned any more, and only a disconnection may
\* uncount a peer that stays disconnected.
LEMMA CountNext ==
  ASSUME DBTypeOK, [DBNext]_dbVars
  PROVE  /\ BannedBelow => BannedBelow'
         /\ DisconnectedAbove => DisconnectedAbove'
         /\ "Banned" \notin RemovedWhile => BannedKept
         /\ (/\ DisconnectedBelow /\ DisconnectedAbove
             /\ ~DisablePeerScoring /\ trusted \subseteq Trustable
             /\ Cardinality(Trustable) <= MAX_DC_PEERS)
            => DisconnectedBelow'
<1> USE DEF BannedKept, DisconnectedKept
<1>1. ASSUME NEW p \in Peers, NEW a \in Addrs, Connect(p, a) PROVE BannedKept /\ DisconnectedKept
  BY <1>1, CountConnected DEF Connect
<1>2. ASSUME NEW p \in Peers, Dial(p) PROVE BannedKept /\ DisconnectedKept
  BY Zenon, <1>2, CountDialing DEF Dial
<1>3. CASE \E p \in Peers : Disconnected(p)
  BY Zenon, <1>3, CountInjectDisconnect DEF Disconnected
<1>4. ASSUME NEW p \in Peers, NEW new \in ScoreStates, Report(p, new) PROVE BannedKept /\ DisconnectedKept
  BY <1>4, CountReport DEF Report
<1>5. ASSUME Discovered \/ \E p \in Peers : Trust(p) \/ Untrust(p) PROVE BannedKept /\ DisconnectedKept
  BY Zenon, <1>5, CountTrust DEF Discovered, Trust, Untrust
<1>6. CASE \E p \in Peers : RemoveTrusted(p)
  BY Zenon, <1>6, CountDisconnecting DEF RemoveTrusted
<1>7. ASSUME GossipScores PROVE BannedKept /\ DisconnectedKept
  BY <1>7, CountGossip DEF GossipScores
<1>8. ASSUME Heartbeat PROVE BannedKept /\ DisconnectedKept
  <2>1. PICK timedOut \in SUBSET With("Dialing"), new \in DecayedScores,
             pruned \in SUBSET {p \in With("Connected") : p \notin trusted} :
               heartbeat(timedOut, new, pruned)
    BY Zenon, <1>8 DEF Heartbeat
  <2> QED BY Zenon, <2>1, CountHeartbeat
<1>9. ASSUME UNCHANGED dbVars PROVE BannedKept /\ DisconnectedKept
  <2>1. UNCHANGED <<With("Banned"), With("Disconnected"), seen, counters>>
    BY <1>9 DEF dbVars, counters, With
  <2> QED BY Zenon, <2>1, CountSame
<1> HIDE DEF BannedKept, DisconnectedKept
<1>10. CASE BannedKept /\ DisconnectedKept
  BY Zenon, <1>10 DEF BannedKept, DisconnectedKept
<1> QED BY Zenon, <1>1, <1>2, <1>3, <1>4, <1>5, <1>6, <1>7, <1>8, <1>9, <1>10 DEF DBNext

\* CountersOneSided: no banned peer is ever missing from a counter, and disconnected_peers
\* never exceeds the number of disconnected peers, whatever the application trusts or removes.
THEOREM CountersOneSidedCorrect == DBSpec => []CountersOneSided
<1>1. DBInit => CountersOneSided
  BY InitialCounts
<1>2. DBTypeOK /\ CountersOneSided /\ [DBNext]_dbVars => CountersOneSided'
  BY Bounds, CountNext, PTL
<1> QED BY <1>1, <1>2, TypeCorrect, PTL DEF DBSpec

\* The configurations under which the counters are exact
Countable ==
  "Banned" \notin RemovedWhile /\ ~DisablePeerScoring /\ Cardinality(Trustable) <= MAX_DC_PEERS

\* With scoring enabled, only the peers that the application trusts are trusted.
LEMMA TrustedNext ==
  ASSUME ~DisablePeerScoring, DBTypeOK, trusted \subseteq Trustable, [DBNext]_dbVars
  PROVE  trusted' \subseteq Trustable
<1>1. ASSUME NEW p \in Peers, NEW a \in Addrs, Connect(p, a) \/ Dial(p) \/ RemoveTrusted(p)
      PROVE  trusted' \subseteq Trustable
  BY <1>1 DEF Connect, Dial, RemoveTrusted, ToConnected, ToDialing, ToDisconnecting, InsertEntry
<1>2. ASSUME NEW p \in Peers, Dial(p) \/ RemoveTrusted(p)
      PROVE  trusted' \subseteq Trustable
  BY Zenon, <1>2 DEF Dial, RemoveTrusted, ToDialing, ToDisconnecting, InsertEntry
<1>3. ASSUME NEW p \in Peers, Disconnected(p) PROVE trusted' \subseteq Trustable
  BY Zenon, <1>3 DEF Disconnected, inject_disconnect, shrink_to_fit
<1>4. ASSUME NEW p \in Peers, NEW new \in ScoreStates, Report(p, new) PROVE trusted' \subseteq Trustable
  BY <1>4 DEF Report, report_peer, ToBanned, ToDisconnecting, InsertEntry
<1>5. CASE Discovered \/ \E p \in Peers : Trust(p) \/ Untrust(p)
  BY Zenon, <1>5 DEF Discovered, Trust, Untrust, update_min_ttl, set_trusted_peer, unset_trusted_peer
<1>6. CASE GossipScores
  BY Zenon, <1>6 DEF GossipScores, update_gossipsub_scores
<1>7. CASE Heartbeat
  BY <1>7 DEF Heartbeat, heartbeat
<1>8. CASE UNCHANGED dbVars
  BY Zenon, <1>8 DEF dbVars
<1> QED BY Zenon, <1>1, <1>2, <1>3, <1>4, <1>5, <1>6, <1>7, <1>8 DEF DBNext

\* The inductive strengthening: who is trusted bounds how many disconnected peers
\* shrink_to_fit may not drop.
ExactInv == Countable => CountersExact /\ trusted \subseteq Trustable

\* CountersExact: every counter is the size of the set that it stands for, as long as no
\* trusted peer is removed while it is banned, scoring is enabled, and at most MAX_DC_PEERS peers are trusted.
THEOREM CountersExactCorrect == DBSpec => [](Countable => CountersExact)
<1>1. DBInit => ExactInv
  BY InitialCounts, PeersAssumption DEF ExactInv, DBInit
<1>2. DBTypeOK /\ DBTypeOK' /\ ExactInv /\ [DBNext]_dbVars => ExactInv'
  <2> SUFFICES ASSUME DBTypeOK, DBTypeOK', Countable, CountersExact,
                      trusted \subseteq Trustable, [DBNext]_dbVars
               PROVE  CountersExact' /\ trusted' \subseteq Trustable
    BY Zenon DEF ExactInv, Countable
  <2>1. trusted' \subseteq Trustable
    BY TrustedNext DEF Countable
  <2>2. BannedBelow /\ BannedAbove /\ DisconnectedBelow /\ DisconnectedAbove
    BY Zenon, Bounds
  <2>3. BannedBelow' /\ BannedAbove' /\ DisconnectedBelow' /\ DisconnectedAbove'
    BY Zenon, <2>2, CountNext DEF Countable, BannedKept
  <2>4. CountersExact'
    BY <2>3, Bounds, PTL
  <2> QED BY Zenon, <2>1, <2>4
<1>3. ExactInv => (Countable => CountersExact)
  BY Zenon DEF ExactInv
<1> QED BY <1>1, <1>2, <1>3, TypeCorrect, PTL DEF DBSpec

\* BannedPeersBounded: a disconnection leaves at most MAX_BANNED_PEERS banned peers.
THEOREM BannedPeersBoundedCorrect == DBSpec => BannedPeersBounded
<1>1. DBTypeOK /\ CountersOneSided /\ [DBNext]_dbVars
        => [(\E p \in Peers : Disconnected(p)) => Cardinality(With("Banned"))' <= MAX_BANNED_PEERS]_dbVars
  <2> SUFFICES ASSUME DBTypeOK, CountersOneSided, NEW p \in Peers, Disconnected(p)
               PROVE  Cardinality(With("Banned"))' <= MAX_BANNED_PEERS
    BY Zenon
  <2>1. BannedBelow
    BY Zenon, Bounds
  <2> QED BY Zenon, <2>1, CountInjectDisconnect DEF Disconnected
<1> QED BY <1>1, TypeCorrect, CountersOneSidedCorrect, PTL DEF DBSpec, BannedPeersBounded

\* A score that did not worsen to Banned is not Banned.
LEMMA DecayNotBanned ==
  ASSUME DBTypeOK, NEW new \in DecayedScores, NEW p \in Peers, score[p] # "Banned"
  PROVE  new[p] # "Banned"
<1>1. score[p] \in {"Healthy", "ForcedDisconnect"}
  BY Zenon DEF DBTypeOK, ScoreStates
<1>2. Rank[new[p]] <= Rank[score[p]]
  BY Zenon DEF DecayedScores
<1> QED BY <1>1, <1>2 DEF Rank

\* The peer p is disconnected, and the peers of E are dropped from the database.
Dropped(E, p) ==
  /\ status' = [r \in Peers |-> IF r \in E THEN "None"
                                ELSE [status EXCEPT ![p] = AfterDisconnect(status[p])][r]]
  /\ score' = [r \in Peers |-> IF r \in E THEN "Healthy" ELSE score[r]]

\* A disconnection moves the peer to the state that follows, and may drop peers.
LEMMA DisconnectedDrops ==
  ASSUME NEW p, Disconnected(p)  PROVE \E E \in SUBSET Peers : Dropped(E, p)
<1> DEFINE st == [status EXCEPT ![p] = AfterDisconnect(status[p])]
<1>1. \E B \in SUBSET {q \in Peers : st[q] = "Banned"},
         D \in SUBSET {q \in Peers : st[q] = "Disconnected" /\ q \notin
                         (IF status[p] = "None" /\ DisablePeerScoring THEN trusted \cup {p} ELSE trusted)} :
        Dropped(B \cup D, p)
  BY Zenon DEF Disconnected, inject_disconnect, shrink_to_fit, Dropped
<1> QED BY Zenon, <1>1

\* No report reaches a peer whose score state is Banned.
LEMMA BannedNotReported ==
  ASSUME NEW p, NEW new \in ScoreStates, report_peer(p, new)  PROVE score[p] # "Banned"
<1>1. Rank[new] > Rank[score[p]]
  BY Zenon DEF report_peer
<1>2. Rank["Banned"] = 2 /\ Rank[new] \in {0, 1, 2}
  BY DEF Rank, ScoreStates
<1> QED BY <1>1, <1>2

\* ConnectedNotBanned: no step leaves a peer connected whose score state is Banned.
THEOREM ConnectedNotBannedCorrect == DBSpec => []ConnectedNotBanned
<1>1. DBInit => ConnectedNotBanned
  BY Zenon DEF DBInit, ConnectedNotBanned
<1>2. DBTypeOK /\ ConnectedNotBanned /\ [DBNext]_dbVars => ConnectedNotBanned'
  <2> SUFFICES ASSUME DBTypeOK, ConnectedNotBanned, [DBNext]_dbVars, NEW q \in Peers,
                      status'[q] = "Connected"
               PROVE  score'[q] # "Banned"
    BY DEF ConnectedNotBanned
  <2>1. status[q] = "Connected" => score[q] # "Banned"
    BY Zenon DEF ConnectedNotBanned
  <2>2. ASSUME NEW p \in Peers, NEW a \in Addrs, Connect(p, a) PROVE score'[q] # "Banned"
    BY Zenon, <2>1, <2>2 DEF Connect, ToConnected, ban_status, DBTypeOK
  <2>3. ASSUME NEW p \in Peers, Dial(p) PROVE score'[q] # "Banned"
    BY <2>1, <2>3 DEF Dial, ToDialing, DBTypeOK
  <2>4. ASSUME NEW p \in Peers, Disconnected(p) PROVE score'[q] # "Banned"
    <3>1. PICK E \in SUBSET Peers : Dropped(E, p)
      BY Zenon, <2>4, DisconnectedDrops
    <3> QED BY Zenon, <2>1, <3>1 DEF DBTypeOK, AfterDisconnect, Dropped
  <2>5. ASSUME NEW p \in Peers, NEW new \in ScoreStates, Report(p, new) PROVE score'[q] # "Banned"
    <3>1. CASE q # p
      BY Zenon, <2>1, <2>5, <3>1 DEF Report, report_peer, ToBanned, ToDisconnecting, DBTypeOK
    <3>2. CASE q = p
      <4>1. new = "Banned" => handle_score_transition(score[p], new, is_connected_or_dialing(p)) = "Banned"
        BY <2>5 DEF Report, report_peer, handle_score_transition, Rank, ScoreStates, DBTypeOK
      <4>2. ToBanned(p) => status'[p] # "Connected"
        BY Zenon DEF ToBanned, DBTypeOK, StatusOf
      <4>3. new # "Banned"
        BY Zenon, <2>5, <3>2, <4>1, <4>2 DEF Report, report_peer
      <4> QED BY <2>5, <3>2, <4>3 DEF Report, report_peer, DBTypeOK
    <3> QED BY Zenon, <3>1, <3>2
  <2>6. CASE Discovered \/ \E p \in Peers : Trust(p) \/ Untrust(p)
    BY <2>1, <2>6 DEF Discovered, Trust, Untrust, update_min_ttl, set_trusted_peer, unset_trusted_peer,
                      DBTypeOK, StatusOf
  <2>7. ASSUME NEW p \in Peers, RemoveTrusted(p) PROVE score'[q] # "Banned"
    BY Zenon, <2>1, <2>7 DEF RemoveTrusted, ToDisconnecting, DBTypeOK
  <2>8. CASE GossipScores
    <3>1. PICK new \in GossipsubScores : update_gossipsub_scores(new)
      BY Zenon, <2>8 DEF GossipScores
    <3>2. status[q] = "Connected" /\ handle_score_transition(score[q], new[q], TRUE) # "Banned"
      BY Zenon, <3>1 DEF update_gossipsub_scores, With, DBTypeOK
    <3>3. new[q] # "Banned"
      BY <2>1, <3>2 DEF handle_score_transition
    <3> QED BY <3>1, <3>3 DEF update_gossipsub_scores
  <2>9. CASE Heartbeat
    <3>1. PICK timedOut \in SUBSET With("Dialing"), new \in DecayedScores,
               pruned \in SUBSET {p \in With("Connected") : p \notin trusted} :
                 heartbeat(timedOut, new, pruned)
      BY Zenon, <2>9 DEF Heartbeat
    <3>2. status[q] = "Connected" /\ score' = new
      BY <3>1 DEF heartbeat
    <3> QED BY Zenon, <2>1, <3>2, DecayNotBanned
  <2>10. CASE UNCHANGED dbVars
    BY Zenon, <2>1, <2>10 DEF dbVars
  <2> QED BY Zenon, <2>2, <2>3, <2>4, <2>5, <2>6, <2>7, <2>8, <2>9, <2>10 DEF DBNext
<1> QED BY <1>1, <1>2, TypeCorrect, PTL DEF DBSpec

\* PendingBanKept: nothing but its disconnection takes a peer out of DisconnectingToBan while
\* its score stays Banned, as long as no trusted peer is removed in that very state.
THEOREM PendingBanKeptCorrect ==
  ASSUME "DisconnectingToBan" \notin RemovedWhile
  PROVE  DBSpec => PendingBanKept
<1> DEFINE Kept == \A p \in Peers :
              status[p] = "DisconnectingToBan" /\ score[p] = "Banned" /\ score'[p] = "Banned"
                => status'[p] \in {"DisconnectingToBan", "Banned"}
<1>1. DBTypeOK /\ [DBNext]_dbVars => [Kept]_dbVars
  <2> SUFFICES ASSUME DBTypeOK, DBNext, NEW q \in Peers,
                      status[q] = "DisconnectingToBan", score[q] = "Banned", score'[q] = "Banned"
               PROVE  status'[q] \in {"DisconnectingToBan", "Banned"}
    BY Zenon
  <2>1. ASSUME NEW p \in Peers, NEW a \in Addrs, Connect(p, a)
        PROVE  status'[q] = "DisconnectingToBan"
    BY <2>1 DEF Connect, ToConnected, ban_status, DBTypeOK
  <2>2. ASSUME NEW p \in Peers, Dial(p)  PROVE status'[q] = "DisconnectingToBan"
    BY Zenon, <2>2 DEF Dial, ToDialing, DBTypeOK, StatusOf
  <2>3. ASSUME NEW p \in Peers, Disconnected(p)
        PROVE  status'[q] \in {"DisconnectingToBan", "Banned"}
    <3>1. PICK E \in SUBSET Peers : Dropped(E, p)
      BY Zenon, <2>3, DisconnectedDrops
    <3> QED BY Zenon, <3>1 DEF DBTypeOK, AfterDisconnect, Dropped
  <2>4. ASSUME NEW p \in Peers, NEW new \in ScoreStates, Report(p, new)
        PROVE  status'[q] = "DisconnectingToBan"
    <3>1. p # q
      BY Zenon, <2>4, BannedNotReported DEF Report
    <3> QED BY Zenon, <2>4, <3>1 DEF Report, report_peer, ToBanned, ToDisconnecting, DBTypeOK
  <2>5. CASE Discovered \/ \E p \in Peers : Trust(p) \/ Untrust(p)
    BY Zenon, <2>5 DEF Discovered, Trust, Untrust, update_min_ttl, set_trusted_peer, unset_trusted_peer,
                DBTypeOK, StatusOf
  <2>6. ASSUME NEW p \in Peers, RemoveTrusted(p)  PROVE status'[q] = "DisconnectingToBan"
    BY Zenon, <2>6 DEF RemoveTrusted, ToDisconnecting, DBTypeOK
  <2>7. CASE GossipScores
    BY Zenon, <2>7 DEF GossipScores, update_gossipsub_scores, With, DBTypeOK
  <2>8. CASE Heartbeat
    BY <2>8 DEF Heartbeat, heartbeat, With, DBTypeOK
  <2> QED BY <2>1, <2>2, <2>3, <2>4, <2>5, <2>6, <2>7, <2>8 DEF DBNext
<1> QED BY <1>1, TypeCorrect, PTL DEF DBSpec, PendingBanKept

-----------------------------------------------------------------------------
(* The peer manager *)

\* A disconnection reported to the database is one of its operations.
LEMMA InjectDisconnectStep ==
  ASSUME NEW p \in Peers, NEW ev, InjectDisconnect(p, ev)
  PROVE DBNext
<1>1. Disconnected(p)  BY Zenon DEF InjectDisconnect, Disconnected
<1> QED  BY Zenon, <1>1 DEF DBNext

\* A connection that the checks of the swarm and the peer manager let through is one that
\* the database accepts: the peer is not banned.
LEMMA EstablishedStep ==
  ASSUME NEW p \in Peers, NEW a \in Addrs, Established(p, a)
  PROVE DBNext
<1>1. Connect(p, a)  BY Zenon DEF Established, Connect
<1> QED  BY Zenon, <1>1 DEF DBNext

\* Every step of the peer manager is a step of the database, or leaves it unchanged.
LEMMA DatabaseStep ==
  ASSUME [Next]_vars  PROVE [DBNext]_dbVars
<1>1. CASE UNCHANGED vars  BY <1>1 DEF vars
<1>2. CASE \E p \in Peers : DialRefused(p)
  <2>1. PICK p \in Peers : on_dial_failure(p)  BY <1>2, Zenon DEF DialRefused
  <2> QED  BY Zenon, <2>1, InjectDisconnectStep DEF on_dial_failure
<1>3. ASSUME NEW p \in Peers, NEW a \in Addrs, InboundEstablished(p, a) \/ DialEstablished(p, a)
      PROVE DBNext
  <2>1. Established(p, a)  BY Zenon, <1>3 DEF InboundEstablished, DialEstablished
  <2> QED  BY <2>1, EstablishedStep
<1>4. ASSUME NEW p \in Peers, DialFailed(p)  PROVE [DBNext]_dbVars
  <2>1. on_dial_failure(p)  BY <1>4 DEF DialFailed
  <2> QED  BY Zenon, <2>1, InjectDisconnectStep DEF on_dial_failure
<1>5. ASSUME NEW p \in Peers, DialFailedAnonymously(p) \/ DialTrustedPeer(p) \/ DutyExpires(p)
      PROVE UNCHANGED dbVars
  BY Zenon, <1>5 DEF DialFailedAnonymously, DialTrustedPeer, DutyExpires
<1>6. ASSUME NEW p \in Peers, ConnectionClosed(p)  PROVE DBNext
  <2>1. \E ev : InjectDisconnect(p, ev)  BY <1>6, Zenon DEF ConnectionClosed
  <2> QED  BY Zenon, <2>1, InjectDisconnectStep
<1>7. ASSUME NEW p \in Peers, NEW new \in ScoreStates, ReportPeer(p, new)  PROVE DBNext
  <2>1. Report(p, new)  BY Zenon, <1>7 DEF ReportPeer, Report
  <2> QED  BY Zenon, <2>1 DEF DBNext
<1>8. ASSUME NEW p \in Peers, RemoveTrustedPeer(p) \/ GlobalsTrust(p)  PROVE DBNext
  <2>1. RemoveTrusted(p) \/ Trust(p) \/ Untrust(p)  BY Zenon, <1>8 DEF RemoveTrustedPeer, GlobalsTrust
  <2> QED  BY <2>1 DEF DBNext
<1>9. ASSUME PollEvent  PROVE UNCHANGED dbVars  BY Zenon, <1>9 DEF PollEvent
<1>10. ASSUME PollDial  PROVE DBNext
  <2>1. PICK p \in Peers : ToDialing(p)  BY <1>10, Zenon DEF PollDial
  <2> QED  BY <2>1 DEF DBNext, Dial
<1>11. ASSUME PeersDiscovered  PROVE DBNext
  <2>1. PICK S : update_min_ttl(S)  BY <1>11, Zenon DEF PeersDiscovered, peers_discovered
  <2>2. update_min_ttl(S \cap Peers)  BY Zenon, <2>1 DEF update_min_ttl
  <2>3. S \cap Peers \in SUBSET Peers  BY Zenon
  <2> QED  BY Zenon, <2>2, <2>3 DEF DBNext, Discovered
<1>12. ASSUME UpdateGossipsubScores  PROVE DBNext
  BY <1>12 DEF UpdateGossipsubScores, DBNext
<1>13. ASSUME PeerManagerHeartbeat  PROVE DBNext
  <2>1. Heartbeat  BY <1>13, Zenon DEF PeerManagerHeartbeat, Heartbeat
  <2> QED  BY Zenon, <2>1 DEF DBNext
<1> QED  BY Zenon, <1>1, <1>2, <1>3, <1>4, <1>5, <1>6, <1>7, <1>8, <1>9, <1>10, <1>11, <1>12, <1>13 DEF Next

\* The peer manager, with the swarm and the application around it, implements the
\* specification of the peer database.
THEOREM ImplementsDB == Spec => DBSpec
<1>1. Init => DBInit  BY Zenon DEF Init
<1>2. [Next]_vars => [DBNext]_dbVars  BY Zenon, DatabaseStep
<1> QED  BY <1>1, <1>2, PTL DEF Spec, DBSpec

\* The counters of banned and disconnected peers err on one side only, whatever the
\* interleaving of callbacks, dials, reports and heartbeats.
THEOREM ManagerCounters == Spec => []CountersOneSided
BY ImplementsDB, CountersOneSidedCorrect, PTL

\* No interleaving of the handlers leaves a peer with a banned score in the connected state.
THEOREM ManagerConnectedNotBanned == Spec => []ConnectedNotBanned
BY ImplementsDB, ConnectedNotBannedCorrect, PTL

-----------------------------------------------------------------------------
(* The queue of events *)

Events == [type : EventTypes, peer : Peers]

\* Events that do not take a peer out leave it in.
LEMMA AfterConcat ==
  ASSUME NEW q \in Seq(Events), NEW r \in Seq(Events), NEW p, NEW S, NEW add, NEW del,
         InAfter(q, p, S, add, del), \A i \in DOMAIN r : r[i] # Ev(del, p)
  PROVE  InAfter(q \o r, p, S, add, del)
<1> DEFINE w == q \o r
<1>1. /\ DOMAIN w = 1 .. Len(q) + Len(r) /\ DOMAIN q = 1 .. Len(q) /\ DOMAIN r = 1 .. Len(r)
      /\ Len(q) \in Nat /\ Len(r) \in Nat
      /\ \A i \in DOMAIN w : w[i] = IF i <= Len(q) THEN q[i] ELSE r[i - Len(q)]
  OBVIOUS
<1> HIDE DEF w
<1>2. \A i \in DOMAIN w : i > Len(q) => w[i] # Ev(del, p)
  <2> SUFFICES ASSUME NEW i \in DOMAIN w, i > Len(q)  PROVE w[i] # Ev(del, p)
    BY Zenon
  <2>1. i - Len(q) \in DOMAIN r /\ w[i] = r[i - Len(q)]  BY <1>1
  <2> QED  BY Zenon, <2>1
<1>3. \A i \in DOMAIN q : i \in DOMAIN w /\ w[i] = q[i]  BY <1>1
<1>4. \A i \in DOMAIN w : i > Len(q) \/ i \in DOMAIN q  BY <1>1
<1>5. InAfter(w, p, S, add, del)  BY Zenon, <1>2, <1>3, <1>4 DEF InAfter
<1> QED  BY Zenon, <1>5 DEF w

\* So does a single event.
LEMMA AfterAppend ==
  ASSUME NEW q \in Seq(Events), NEW e \in Events, NEW p, NEW S, NEW add, NEW del,
         InAfter(q, p, S, add, del), e # Ev(del, p)
  PROVE  InAfter(Append(q, e), p, S, add, del)
<1> DEFINE w == Append(q, e)
<1>1. /\ DOMAIN w = DOMAIN q \cup {Len(q) + 1} /\ w[Len(q) + 1] = e
      /\ \A i \in DOMAIN q : w[i] = q[i]
  OBVIOUS
<1> HIDE DEF w
<1>2. InAfter(w, p, S, add, del)  BY Zenon, <1>1 DEF InAfter
<1> QED  BY Zenon, <1>2 DEF w

\* The last event puts its peer in.
LEMMA AfterAdd ==
  ASSUME NEW q \in Seq(Events), NEW p \in Peers, NEW S, NEW add \in EventTypes, NEW del
  PROVE  InAfter(Append(q, Ev(add, p)), p, S, add, del)
<1> DEFINE w == Append(q, Ev(add, p))
<1>1. Ev(add, p) \in Events  BY Zenon DEF Ev, Events
<1>2. /\ DOMAIN w = 1 .. Len(q) + 1 /\ w[Len(q) + 1] = Ev(add, p) /\ Len(q) \in Nat
  BY <1>1
<1> HIDE DEF w
<1>3. InAfter(w, p, S, add, del)  BY <1>2 DEF InAfter
<1> QED  BY Zenon, <1>3 DEF w

\* Removing events that put no peer in changes nothing for the peers that are in.
LEMMA AfterWithout ==
  ASSUME NEW q \in Seq(Events), NEW X, NEW p, NEW S, NEW add, NEW del,
         InAfter(q, p, S, add, del), Ev(add, p) \notin X
  PROVE  InAfter(Without(q, X), p, S, add, del)
<1> DEFINE w == Without(q, X)
<1>1. w \in Seq(Events)  BY Zenon, WithoutEmbeds
<1>2. PICK m : Embeds(m, w, q, X, Len(q))  BY Zenon, WithoutEmbeds
<1> HIDE DEF w
<1>3. /\ \A i \in DOMAIN w : m[i] \in DOMAIN q /\ w[i] = q[m[i]]
      /\ \A i, j \in DOMAIN w : i < j => m[i] < m[j]
      /\ \A k \in DOMAIN q : q[k] \notin X => \E i \in DOMAIN w : m[i] = k
  <2>1. DOMAIN w = 1 .. Len(w) /\ DOMAIN q = 1 .. Len(q)  BY <1>1
  <2>2. \A i \in 1 .. Len(w) : m[i] \in 1 .. Len(q)  BY Zenon, <1>2 DEF Embeds
  <2> QED  BY <1>2, <2>1, <2>2, Zenon DEF Embeds
<1>4. \A i, j \in DOMAIN w : i \in Nat /\ j \in Nat  BY <1>1
<1>5. InAfter(w, p, S, add, del)
  <2>1. CASE \E i \in DOMAIN q : q[i] = Ev(add, p) /\ \A j \in DOMAIN q : j > i => q[j] # Ev(del, p)
    <3>1. PICK k \in DOMAIN q : q[k] = Ev(add, p) /\ \A j \in DOMAIN q : j > k => q[j] # Ev(del, p)
      BY Zenon, <2>1
    <3>2. PICK i \in DOMAIN w : m[i] = k  BY Zenon, <1>3, <3>1
    <3>3. \A j \in DOMAIN w : j > i => w[j] # Ev(del, p)  BY <1>3, <1>4, <3>1, <3>2
    <3> QED  BY <1>3, <3>1, <3>2, <3>3 DEF InAfter
  <2>2. CASE p \in S /\ \A i \in DOMAIN q : q[i] # Ev(del, p)
    BY <1>3, <2>2 DEF InAfter
  <2> QED  BY Zenon, <2>1, <2>2 DEF InAfter
<1> QED  BY Zenon, <1>5 DEF w

\* Polling the first event applies it, and what it does is no longer to be done.
LEMMA AfterTail ==
  ASSUME NEW q \in Seq(Events), q # <<>>, NEW p, NEW S, NEW add, NEW del, add # del,
         InAfter(q, p, S, add, del), NEW U,
         p \in U <=> Head(q) = Ev(add, p) \/ (p \in S /\ Head(q) # Ev(del, p))
  PROVE  InAfter(Tail(q), p, U, add, del)
<1> DEFINE t == Tail(q)
<1>1. /\ Len(q) \in Nat \ {0} /\ DOMAIN q = 1 .. Len(q) /\ DOMAIN t = 1 .. Len(q) - 1
      /\ Head(q) = q[1] /\ \A i \in DOMAIN t : t[i] = q[i + 1]
  OBVIOUS
<1> HIDE DEF t
<1>2. InAfter(t, p, U, add, del)
  <2>1. CASE \E i \in DOMAIN q : q[i] = Ev(add, p) /\ \A j \in DOMAIN q : j > i => q[j] # Ev(del, p)
    <3>1. PICK k \in DOMAIN q : q[k] = Ev(add, p) /\ \A j \in DOMAIN q : j > k => q[j] # Ev(del, p)
      BY <2>1
    <3>2. \A j \in DOMAIN t : j + 1 \in DOMAIN q /\ (j + 1 > k <=> j > k - 1)  BY <1>1
    <3>3. CASE k = 1
      <4>1. p \in U  BY Zenon, <1>1, <3>1, <3>3
      <4>2. \A j \in DOMAIN t : t[j] # Ev(del, p)  BY <1>1, <3>1, <3>2, <3>3
      <4> QED  BY Zenon, <4>1, <4>2 DEF InAfter
    <3>4. CASE k # 1
      <4>1. k - 1 \in DOMAIN t /\ t[k - 1] = Ev(add, p)  BY <1>1, <3>1, <3>4
      <4>2. \A j \in DOMAIN t : j > k - 1 => t[j] # Ev(del, p)  BY Zenon, <1>1, <3>1, <3>2
      <4> QED  BY Zenon, <4>1, <4>2 DEF InAfter
    <3> QED  BY Zenon, <3>3, <3>4
  <2>2. CASE p \in S /\ \A i \in DOMAIN q : q[i] # Ev(del, p)
    <3>1. p \in U  BY <1>1, <2>2
    <3>2. \A j \in DOMAIN t : t[j] # Ev(del, p)  BY <1>1, <2>2
    <3> QED  BY Zenon, <3>1, <3>2 DEF InAfter
  <2> QED  BY Zenon, <2>1, <2>2 DEF InAfter
<1> QED  BY Zenon, <1>2 DEF t

\* The events for the peers of a set, in any order.
LEMMA EventsForType ==
  ASSUME NEW type \in EventTypes, NEW S \in SUBSET Peers, NEW r \in EventsFor(type, S)
  PROVE  r \in Seq(Events) /\ \A i \in DOMAIN r : \E p \in S : r[i] = Ev(type, p)
<1>1. PICK s \in Orders(S) : r = [i \in DOMAIN s |-> Ev(type, s[i])]  BY Zenon DEF EventsFor
<1>2. Cardinality(S) \in Nat /\ s \in [1 .. Cardinality(S) -> S]
  BY Zenon, <1>1, FiniteSetsOfPeers DEF Orders
<1>3. \A p \in S : Ev(type, p) \in Events  BY Zenon DEF Ev, Events
<1>4. DOMAIN s = 1 .. Cardinality(S)  BY Zenon, <1>2
<1>5. r \in [1 .. Cardinality(S) -> Events]  BY <1>1, <1>2, <1>3, <1>4
<1>6. \A i \in DOMAIN r : r[i] = Ev(type, s[i]) /\ s[i] \in S  BY Zenon, <1>1, <1>2, <1>4
<1> QED  BY <1>2, <1>5, <1>6


\* handle_ban_operation adds a Banned or a DisconnectPeer event, and removes UnBanned ones: no
\* peer that is known or banned after the events so far is lost, and a peer that it bans is banned.
LEMMA BanEventsQueue ==
  ASSUME NEW p \in Peers, NEW op, NEW ev \in Seq(Events)
  PROVE  /\ BanEvents(op, p, ev) \in Seq(Events)
         /\ \A q, S : InAfter(ev, q, S, "PeerConnected", "PeerDisconnected")
                        => InAfter(BanEvents(op, p, ev), q, S, "PeerConnected", "PeerDisconnected")
         /\ \A q, S : InAfter(ev, q, S, "Banned", "UnBanned")
                        => InAfter(BanEvents(op, p, ev), q, S, "Banned", "UnBanned")
         /\ op = "ReadyToBan" /\ p \notin temporary_banned_peers
              => \A S : InAfter(BanEvents(op, p, ev), p, S, "Banned", "UnBanned")
         /\ op = "TemporaryBan" /\ connected_peers' >= TargetPeers
              => \A S : InAfter(BanEvents(op, p, ev), p, S, "Banned", "UnBanned")
<1> DEFINE w == BanEvents(op, p, ev)
           b == Append(ev, Ev("Banned", p))
           d == Append(ev, Ev("DisconnectPeer", p))
           x == Without(b, {Ev("UnBanned", p)})
           Kept(v) == /\ v \in Seq(Events)
                      /\ \A q, S : InAfter(ev, q, S, "PeerConnected", "PeerDisconnected")
                                     => InAfter(v, q, S, "PeerConnected", "PeerDisconnected")
                      /\ \A q, S : InAfter(ev, q, S, "Banned", "UnBanned")
                                     => InAfter(v, q, S, "Banned", "UnBanned")
           Bans(v) == \A S : InAfter(v, p, S, "Banned", "UnBanned")
<1>1. "Banned" \in EventTypes /\ "DisconnectPeer" \in EventTypes  BY Zenon DEF EventTypes
<1>2. Ev("Banned", p) \in Events /\ Ev("DisconnectPeer", p) \in Events  BY Zenon, <1>1 DEF Ev, Events
<1>3. b \in Seq(Events) /\ d \in Seq(Events)  BY <1>2
<1>4. Kept(ev)  BY Zenon
<1>5. Kept(b)
  <2>1. \A q : Ev("Banned", p) # Ev("PeerDisconnected", q) /\ Ev("Banned", p) # Ev("UnBanned", q)
    BY Zenon DEF Ev
  <2> QED  BY Zenon, <1>2, <1>3, <2>1, AfterAppend
<1>6. Kept(d)
  <2>1. \A q : Ev("DisconnectPeer", p) # Ev("PeerDisconnected", q) /\ Ev("DisconnectPeer", p) # Ev("UnBanned", q)
    BY Zenon DEF Ev
  <2> QED  BY Zenon, <1>2, <1>3, <2>1, AfterAppend
<1>7. Bans(b)  BY <1>1, AfterAdd
<1> HIDE DEF b, d
<1>8. Kept(x) /\ Bans(x)
  <2>1. \A q : Ev("PeerConnected", q) \notin {Ev("UnBanned", p)} /\ Ev("Banned", q) \notin {Ev("UnBanned", p)}
    BY Zenon DEF Ev
  <2>2. x \in Seq(Events)  BY Zenon, <1>3, WithoutEmbeds
  <2> QED  BY Zenon, <1>3, <1>5, <1>7, <2>1, <2>2, AfterWithout
<1> HIDE DEF x, Kept, Bans
<1>9. /\ w = ev \/ w = b \/ w = d \/ w = x
      /\ op = "ReadyToBan" /\ p \notin temporary_banned_peers => w = x
      /\ op = "TemporaryBan" /\ connected_peers' >= TargetPeers => w = b
  BY Zenon DEF BanEvents, b, d, x
<1> HIDE DEF w
<1>10. Kept(w)  BY <1>4, <1>5, <1>6, <1>8, <1>9
<1>11. /\ op = "ReadyToBan" /\ p \notin temporary_banned_peers => Bans(w)
       /\ op = "TemporaryBan" /\ connected_peers' >= TargetPeers => Bans(w)
  BY Zenon, <1>7, <1>8, <1>9
<1> QED  BY Zenon, <1>10, <1>11 DEF w, Kept, Bans

\* What a disconnection does to the statuses: the peer is disconnected or banned, and some
\* peers are dropped.
LEMMA InjectStatus ==
  ASSUME DBTypeOK, NEW p \in Peers, inject_disconnect(p)
  PROVE  \A q \in Peers : status'[q] \in {"None", IF q = p THEN AfterDisconnect(status[p]) ELSE status[q]}
<1>1. PICK E \in SUBSET Peers :
        status' = [r \in Peers |-> IF r \in E THEN "None"
                                   ELSE [status EXCEPT ![p] = AfterDisconnect(status[p])][r]]
  BY Zenon DEF inject_disconnect, shrink_to_fit
<1> QED  BY Zenon, <1>1 DEF DBTypeOK

\* The events of a disconnection: those of handle_ban_operation, then one UnBanned for every
\* banned peer that the database drops.
LEMMA InjectEvents ==
  ASSUME NEW p \in Peers, NEW ev, InjectDisconnect(p, ev)
  PROVE  \E op \in {"ReadyToBan", "TemporaryBan", "None"}, purged \in SUBSET Peers :
           /\ op = "ReadyToBan" <=> status[p] = "DisconnectingToBan"
           /\ op = "TemporaryBan" <=> status[p] = "Disconnecting"
           /\ \A q \in purged : status'[q] = "None" /\ (status[q] = "Banned" \/ (q = p /\ op = "ReadyToBan"))
           /\ \E unbanned \in EventsFor("UnBanned", purged) : events' = BanEvents(op, p, ev) \o unbanned
           /\ temporary_banned_peers' = TemporaryBans(op, p)
<1> DEFINE op == CASE status[p] = "DisconnectingToBan" -> "ReadyToBan"
                   [] status[p] = "Disconnecting" -> "TemporaryBan"
                   [] OTHER -> "None"
           purged == {q \in Peers : /\ status'[q] = "None"
                                    /\ status[q] = "Banned" \/ (q = p /\ op = "ReadyToBan")}
<1>1. op \in {"ReadyToBan", "TemporaryBan", "None"}
      /\ (op = "ReadyToBan" <=> status[p] = "DisconnectingToBan")
      /\ (op = "TemporaryBan" <=> status[p] = "Disconnecting")
  BY Zenon
<1>2. purged \in SUBSET Peers
      /\ \A q \in purged : status'[q] = "None" /\ (status[q] = "Banned" \/ (q = p /\ op = "ReadyToBan"))
  BY Zenon
<1>3. /\ \E unbanned \in EventsFor("UnBanned", purged) : events' = BanEvents(op, p, ev) \o unbanned
      /\ temporary_banned_peers' = TemporaryBans(op, p)
  BY Zenon DEF InjectDisconnect
<1> HIDE DEF op, purged
<1> QED  BY <1>1, <1>2, <1>3, Zenon


\* A disconnection takes no peer out of those the application knows, or is told of.
LEMMA InjectQueue ==
  ASSUME NEW p \in Peers, NEW ev \in Seq(Events), InjectDisconnect(p, ev),
         temporary_banned_peers \subseteq Peers
  PROVE  /\ events' \in Seq(Events) /\ temporary_banned_peers' \subseteq Peers
         /\ \A q, S : InAfter(ev, q, S, "PeerConnected", "PeerDisconnected")
                        => InAfter(events', q, S, "PeerConnected", "PeerDisconnected")
<1>1. PICK op \in {"ReadyToBan", "TemporaryBan", "None"}, purged \in SUBSET Peers :
           /\ op = "ReadyToBan" <=> status[p] = "DisconnectingToBan"
           /\ op = "TemporaryBan" <=> status[p] = "Disconnecting"
           /\ \A q \in purged : status'[q] = "None" /\ (status[q] = "Banned" \/ (q = p /\ op = "ReadyToBan"))
           /\ \E unbanned \in EventsFor("UnBanned", purged) : events' = BanEvents(op, p, ev) \o unbanned
           /\ temporary_banned_peers' = TemporaryBans(op, p)
  BY InjectEvents, Zenon
<1>2. PICK unbanned \in EventsFor("UnBanned", purged) : events' = BanEvents(op, p, ev) \o unbanned  BY Zenon, <1>1
<1> DEFINE w == BanEvents(op, p, ev)
<1>3. w \in Seq(Events) /\ \A q, S : InAfter(ev, q, S, "PeerConnected", "PeerDisconnected")
                                       => InAfter(w, q, S, "PeerConnected", "PeerDisconnected")
  BY Zenon, BanEventsQueue
<1>4. "UnBanned" \in EventTypes  BY Zenon DEF EventTypes
<1>5. unbanned \in Seq(Events) /\ \A i \in DOMAIN unbanned : \E q \in purged : unbanned[i] = Ev("UnBanned", q)
  BY Zenon, <1>4, EventsForType
<1>6. \A q : \A i \in DOMAIN unbanned : unbanned[i] # Ev("PeerDisconnected", q)
  BY <1>5 DEF Ev
<1>7. temporary_banned_peers' \subseteq Peers  BY Zenon, <1>1 DEF TemporaryBans
<1> HIDE DEF w
<1>8. events' = w \o unbanned  BY Zenon, <1>2 DEF w
<1>9. events' \in Seq(Events)  BY <1>3, <1>5, <1>8
<1> QED  BY <1>3, <1>5, <1>6, <1>7, <1>8, <1>9, AfterConcat

-----------------------------------------------------------------------------
(* The connections, and what the application knows of them *)

PMType ==
  /\ DBTypeOK
  /\ events \in Seq(Events) /\ temporary_banned_peers \subseteq Peers
  /\ conn \in [Peers -> {"none", "open", "closing"}] /\ dials \in [Peers -> Nat]

\* The application knows, or is to be told of, the connection of q if it has one.
Told(q) == conn[q] # "none" => InAfter(events, q, known, "PeerConnected", "PeerDisconnected")

QueuesKept ==
  /\ events' \in Seq(Events) /\ temporary_banned_peers' \subseteq Peers
  /\ \A q \in Peers : Told(q) => Told(q)'

\* A new connection is announced.
LEMMA EstablishedQueues ==
  ASSUME PMType, NEW p \in Peers, NEW a \in Addrs, Established(p, a)  PROVE QueuesKept
<1> DEFINE e == Ev("PeerConnected", p)
<1>1. "PeerConnected" \in EventTypes  BY Zenon DEF EventTypes
<1>2. e \in Events  BY Zenon, <1>1 DEF Ev, Events
<1>3. events \in Seq(Events) /\ conn \in [Peers -> {"none", "open", "closing"}]  BY Zenon DEF PMType
<1>4. events' = Append(events, e) /\ known' = known /\ conn' = [conn EXCEPT ![p] = "open"]
      /\ temporary_banned_peers' = temporary_banned_peers
  BY DEF Established, outside
<1>5. events' \in Seq(Events)  BY <1>2, <1>3, <1>4
<1>6. InAfter(events', p, known, "PeerConnected", "PeerDisconnected")  BY Zenon, <1>1, <1>3, <1>4, AfterAdd
<1>7. \A q : e # Ev("PeerDisconnected", q)  BY DEF Ev
<1> HIDE DEF e
<1>8. ASSUME NEW q \in Peers, q # p, Told(q)  PROVE Told(q)'
  <2>1. conn'[q] = conn[q]  BY Zenon, <1>3, <1>4, <1>8
  <2>2. CASE conn[q] # "none"
    <3>1. InAfter(events, q, known, "PeerConnected", "PeerDisconnected")  BY Zenon, <1>8, <2>2 DEF Told
    <3>2. InAfter(events', q, known, "PeerConnected", "PeerDisconnected")
      BY Zenon, <3>1, <1>2, <1>3, <1>4, <1>7, AfterAppend
    <3> QED  BY <1>4, <3>2 DEF Told
  <2> QED  BY <2>1, <2>2 DEF Told
<1>9. Told(p)'  BY <1>4, <1>6 DEF Told
<1> QED  BY Zenon, <1>4, <1>5, <1>8, <1>9 DEF QueuesKept, PMType

\* A closed connection is no longer to be announced; the others still are.
LEMMA ClosedQueues ==
  ASSUME PMType, NEW p \in Peers, ConnectionClosed(p)  PROVE QueuesKept
<1> DEFINE e == Ev("PeerDisconnected", p)
           ev == IF is_connected_or_disconnecting(p) THEN Append(events, e) ELSE events
<1>1. "PeerDisconnected" \in EventTypes  BY Zenon DEF EventTypes
<1>2. e \in Events  BY <1>1 DEF Ev, Events
<1>3. /\ events \in Seq(Events) /\ conn \in [Peers -> {"none", "open", "closing"}]
      /\ temporary_banned_peers \subseteq Peers
  BY Zenon DEF PMType
<1>4. ev \in Seq(Events)  BY <1>2, <1>3
<1>5. \A q : q # p => e # Ev("PeerDisconnected", q)  BY Zenon DEF Ev
<1>6. InjectDisconnect(p, ev) /\ known' = known /\ conn' = [conn EXCEPT ![p] = "none"]
  BY Zenon DEF ConnectionClosed, outside
<1> HIDE DEF e
<1>7. \A q, S : q # p /\ InAfter(events, q, S, "PeerConnected", "PeerDisconnected")
                  => InAfter(ev, q, S, "PeerConnected", "PeerDisconnected")
  BY <1>2, <1>3, <1>5, AfterAppend
<1> HIDE DEF ev
<1>8. /\ events' \in Seq(Events) /\ temporary_banned_peers' \subseteq Peers
      /\ \A q, S : InAfter(ev, q, S, "PeerConnected", "PeerDisconnected")
                     => InAfter(events', q, S, "PeerConnected", "PeerDisconnected")
  BY Zenon, <1>3, <1>4, <1>6, InjectQueue
<1>9. ASSUME NEW q \in Peers, Told(q)  PROVE Told(q)'
  <2>1. conn'[q] = IF q = p THEN "none" ELSE conn[q]  BY Zenon, <1>3, <1>6
  <2>2. CASE q # p /\ conn[q] # "none"
    <3>1. InAfter(events, q, known, "PeerConnected", "PeerDisconnected")  BY <1>9, <2>2 DEF Told
    <3>2. InAfter(ev, q, known, "PeerConnected", "PeerDisconnected")  BY Zenon, <1>7, <2>2, <3>1
    <3>3. InAfter(events', q, known, "PeerConnected", "PeerDisconnected")  BY Zenon, <1>8, <3>2
    <3> QED  BY Zenon, <1>6, <3>3 DEF Told
  <2> QED  BY <2>1, <2>2 DEF Told
<1> QED  BY Zenon, <1>8, <1>9 DEF QueuesKept

\* Polling an event tells the application.
LEMMA PollQueues ==
  ASSUME PMType, PollEvent  PROVE QueuesKept
<1> DEFINE e == Head(events)
<1>1. /\ events \in Seq(Events) /\ conn \in [Peers -> {"none", "open", "closing"}]
      /\ events # <<>> /\ events' = Tail(events) /\ temporary_banned_peers' = temporary_banned_peers
      /\ known' = CASE e.type = "PeerConnected" -> known \cup {e.peer}
                    [] e.type = "PeerDisconnected" -> known \ {e.peer}
                    [] OTHER -> known
      /\ conn' = IF e.type = "DisconnectPeer" /\ conn[e.peer] = "open"
                     THEN [conn EXCEPT ![e.peer] = "closing"] ELSE conn
  BY Zenon DEF PollEvent, PMType
<1>2. e \in Events /\ events' \in Seq(Events)  BY <1>1
<1> HIDE DEF e
<1>3. e = Ev(e.type, e.peer)  BY Zenon, <1>2 DEF Events, Ev
<1>4. ASSUME NEW q \in Peers, Told(q), conn'[q] # "none"
      PROVE  InAfter(events', q, known', "PeerConnected", "PeerDisconnected")
  <2>1. conn[q] # "none"  BY <1>1, <1>4
  <2>2. InAfter(events, q, known, "PeerConnected", "PeerDisconnected")  BY Zenon, <1>4, <2>1 DEF Told
  <2>3. q \in known' <=> e = Ev("PeerConnected", q) \/ (q \in known /\ e # Ev("PeerDisconnected", q))
    <3>1. e = Ev("PeerConnected", q) <=> e.type = "PeerConnected" /\ e.peer = q  BY <1>3 DEF Ev
    <3>2. e = Ev("PeerDisconnected", q) <=> e.type = "PeerDisconnected" /\ e.peer = q  BY <1>3 DEF Ev
    <3> QED  BY Zenon, <1>1, <3>1, <3>2
  <2> QED  BY Zenon, <1>1, <2>2, <2>3, AfterTail DEF e
<1> QED  BY Zenon, <1>1, <1>2, <1>4 DEF QueuesKept, Told, PMType


\* Whoever only adds events other than PeerDisconnected, and changes no connection, keeps both.
LEMMA SameConnections ==
  ASSUME PMType, conn' = conn, known' = known,
         events' \in Seq(Events), temporary_banned_peers' \subseteq Peers,
         \A q, S : InAfter(events, q, S, "PeerConnected", "PeerDisconnected")
                     => InAfter(events', q, S, "PeerConnected", "PeerDisconnected")
  PROVE  QueuesKept
BY Zenon DEF QueuesKept, Told

\* Neither a failed dial nor a report changes what the application knows of connections.
LEMMA DialFailureQueues ==
  ASSUME PMType, NEW p \in Peers, on_dial_failure(p), conn' = conn, known' = known
  PROVE  QueuesKept
<1>1. events \in Seq(Events) /\ temporary_banned_peers \subseteq Peers  BY DEF PMType
<1>2. CASE InjectDisconnect(p, events)  BY <1>1, <1>2, InjectQueue, SameConnections
<1>3. CASE UNCHANGED <<events, temporary_banned_peers>>
  <2>1. events' = events /\ temporary_banned_peers' = temporary_banned_peers  BY <1>3
  <2> QED  BY Zenon, <1>1, <2>1, SameConnections
<1> QED  BY Zenon, <1>2, <1>3 DEF on_dial_failure

\* The events of a report leave the connections the application is told of.
LEMMA ReportQueues ==
  ASSUME PMType, NEW p \in Peers, NEW new \in ScoreStates, ReportPeer(p, new)  PROVE QueuesKept
<1>1. PICK op : events' = BanEvents(op, p, events) /\ temporary_banned_peers' = TemporaryBans(op, p)
  BY Zenon DEF ReportPeer
<1>2. /\ events \in Seq(Events) /\ temporary_banned_peers \subseteq Peers
      /\ conn' = conn /\ known' = known
  BY DEF PMType, ReportPeer, swarmVars, outside
<1>3. temporary_banned_peers' \subseteq Peers  BY Zenon, <1>1, <1>2 DEF TemporaryBans
<1> QED  BY Zenon, <1>1, <1>2, <1>3, BanEventsQueue, SameConnections

\* Events of a type that the application is not told of can be added for any peers.
LEMMA QuietEvents ==
  ASSUME NEW type \in {"UnBanned", "DisconnectPeer"}, NEW T \in SUBSET Peers,
         NEW r \in EventsFor(type, T), NEW ev \in Seq(Events)
  PROVE  /\ ev \o r \in Seq(Events)
         /\ \A q, S : InAfter(ev, q, S, "PeerConnected", "PeerDisconnected")
                        => InAfter(ev \o r, q, S, "PeerConnected", "PeerDisconnected")
         /\ \A q, S : (type = "UnBanned" => q \notin T) /\ InAfter(ev, q, S, "Banned", "UnBanned")
                        => InAfter(ev \o r, q, S, "Banned", "UnBanned")
<1>1. type \in EventTypes  BY Zenon DEF EventTypes
<1>2. r \in Seq(Events) /\ \A i \in DOMAIN r : \E p \in T : r[i] = Ev(type, p)
  BY Zenon, <1>1, EventsForType
<1>3. \A q : \A i \in DOMAIN r : r[i] # Ev("PeerDisconnected", q)  BY <1>2 DEF Ev
<1>4. \A q : (type = "UnBanned" => q \notin T) => \A i \in DOMAIN r : r[i] # Ev("UnBanned", q)
  BY <1>2 DEF Ev
<1> QED  BY <1>2, <1>3, <1>4, AfterConcat

\* The events of a heartbeat: peers that it unbans, peers that it prunes, and peers whose
\* temporary ban has expired.
LEMMA HeartbeatEvents ==
  ASSUME PeerManagerHeartbeat
  PROVE  \E timedOut \in SUBSET With("Dialing"), new \in DecayedScores,
            pruned \in SUBSET With("Connected"), expired \in SUBSET temporary_banned_peers :
           /\ \A p \in temporary_banned_peers : score[p] = "Banned" => new[p] = "Banned"
           /\ heartbeat(timedOut, new, pruned)
           /\ \E u \in EventsFor("UnBanned", {p \in Peers : status[p] # "None" /\ Unbans(p, new, timedOut)}),
                 d \in EventsFor("DisconnectPeer", pruned), l \in EventsFor("UnBanned", expired) :
                events' = events \o u \o d \o l
           /\ temporary_banned_peers' = temporary_banned_peers \ expired
           /\ UNCHANGED <<swarmVars, outside>>
<1>1. PICK timedOut \in SUBSET With("Dialing"), new \in DecayedScores,
           pruned \in SUBSET {p \in With("Connected") : p \notin trusted},
           expired \in SUBSET temporary_banned_peers :
           /\ \A p \in temporary_banned_peers : score[p] = "Banned" => new[p] = "Banned"
           /\ heartbeat(timedOut, new, pruned)
           /\ \E u \in EventsFor("UnBanned", {p \in Peers : status[p] # "None" /\ Unbans(p, new, timedOut)}),
                 d \in EventsFor("DisconnectPeer", pruned), l \in EventsFor("UnBanned", expired) :
                events' = events \o u \o d \o l
           /\ temporary_banned_peers' = temporary_banned_peers \ expired
  BY Zenon DEF PeerManagerHeartbeat
<1>2. pruned \in SUBSET With("Connected")  BY Zenon
<1>3. UNCHANGED <<swarmVars, outside>>  BY Zenon DEF PeerManagerHeartbeat
<1> QED  BY <1>1, <1>2, <1>3, Zenon

\* So do those of a heartbeat, for the peers it bans, unbans, disconnects and prunes.
LEMMA HeartbeatQueues ==
  ASSUME PMType, PeerManagerHeartbeat  PROVE QueuesKept
<1>1. PICK timedOut \in SUBSET With("Dialing"), new \in DecayedScores,
           pruned \in SUBSET With("Connected"), expired \in SUBSET temporary_banned_peers :
           /\ \A p \in temporary_banned_peers : score[p] = "Banned" => new[p] = "Banned"
           /\ heartbeat(timedOut, new, pruned)
           /\ \E u \in EventsFor("UnBanned", {p \in Peers : status[p] # "None" /\ Unbans(p, new, timedOut)}),
                 d \in EventsFor("DisconnectPeer", pruned), l \in EventsFor("UnBanned", expired) :
                events' = events \o u \o d \o l
           /\ temporary_banned_peers' = temporary_banned_peers \ expired
           /\ UNCHANGED <<swarmVars, outside>>
  BY HeartbeatEvents, Zenon
<1> DEFINE U == {p \in Peers : status[p] # "None" /\ Unbans(p, new, timedOut)}
<1>2. PICK u \in EventsFor("UnBanned", U), d \in EventsFor("DisconnectPeer", pruned),
           l \in EventsFor("UnBanned", expired) : events' = events \o u \o d \o l
  BY Zenon, <1>1
<1>3. U \in SUBSET Peers /\ pruned \in SUBSET Peers /\ expired \in SUBSET Peers /\ events \in Seq(Events)
      /\ temporary_banned_peers' \subseteq Peers /\ conn' = conn /\ known' = known
  BY Zenon, <1>1 DEF PMType, With, swarmVars, outside
<1> HIDE DEF U
<1> DEFINE x == events \o u
           y == x \o d
           z == y \o l
<1>4. x \in Seq(Events) /\ \A q, S : InAfter(events, q, S, "PeerConnected", "PeerDisconnected")
                                       => InAfter(x, q, S, "PeerConnected", "PeerDisconnected")
  BY Zenon, <1>3, QuietEvents
<1> HIDE DEF x
<1>5. y \in Seq(Events) /\ \A q, S : InAfter(x, q, S, "PeerConnected", "PeerDisconnected")
                                       => InAfter(y, q, S, "PeerConnected", "PeerDisconnected")
  BY Zenon, <1>3, <1>4, QuietEvents
<1> HIDE DEF y
<1>6. z \in Seq(Events) /\ \A q, S : InAfter(y, q, S, "PeerConnected", "PeerDisconnected")
                                       => InAfter(z, q, S, "PeerConnected", "PeerDisconnected")
  BY Zenon, <1>3, <1>5, QuietEvents
<1> HIDE DEF z
<1>7. events' = z  BY Zenon, <1>2 DEF x, y, z
<1> QED  BY <1>3, <1>4, <1>5, <1>6, <1>7, SameConnections

\* Every step keeps the queue well formed, and the application informed.
LEMMA QueuesNext ==
  ASSUME PMType, [Next]_vars  PROVE QueuesKept
<1> DEFINE Idle == UNCHANGED <<events, temporary_banned_peers, conn, known>>
<1>0. Idle => QueuesKept
  <2> SUFFICES ASSUME Idle  PROVE QueuesKept  BY Zenon
  <2>1. events' = events /\ temporary_banned_peers' = temporary_banned_peers /\ conn' = conn /\ known' = known
    BY Zenon
  <2> QED  BY Zenon, <2>1, SameConnections DEF PMType
<1>1. CASE UNCHANGED vars  BY <1>0, <1>1 DEF vars, pmVars, swarmVars, outside
<1>2. ASSUME NEW p \in Peers, DialRefused(p) \/ DialFailed(p)  PROVE QueuesKept
  BY Zenon, <1>2, DialFailureQueues DEF DialRefused, DialFailed, outside
<1>3. ASSUME NEW p \in Peers, NEW a \in Addrs, InboundEstablished(p, a) \/ DialEstablished(p, a)
      PROVE QueuesKept
  BY Zenon, <1>3, EstablishedQueues DEF InboundEstablished, DialEstablished
<1>4. ASSUME NEW p \in Peers, DialFailedAnonymously(p) \/ DialTrustedPeer(p) \/ DutyExpires(p) \/ GlobalsTrust(p)
      PROVE Idle
  BY <1>4 DEF DialFailedAnonymously, DialTrustedPeer, DutyExpires, GlobalsTrust, pmVars, swarmVars, outside
<1>5. ASSUME PollDial \/ PeersDiscovered  PROVE Idle
  BY Zenon, <1>5 DEF PollDial, PeersDiscovered, pmVars, swarmVars, outside
<1>6. ASSUME NEW p \in Peers, RemoveTrustedPeer(p)  PROVE QueuesKept
  <2> DEFINE e == Ev("DisconnectPeer", p)
  <2>1. e \in Events  BY Zenon DEF Ev, Events, EventTypes
  <2>2. \A q : e # Ev("PeerDisconnected", q)  BY Zenon DEF Ev
  <2>3. /\ events \in Seq(Events) /\ events' = Append(events, e) /\ conn' = conn /\ known' = known
        /\ temporary_banned_peers' \subseteq Peers
    BY Zenon, <1>6 DEF PMType, RemoveTrustedPeer, swarmVars, outside
  <2> HIDE DEF e
  <2>4. events' \in Seq(Events)  BY <2>1, <2>3
  <2> QED  BY Zenon, <2>1, <2>2, <2>3, <2>4, AfterAppend, SameConnections
<1>7. ASSUME UpdateGossipsubScores  PROVE QueuesKept
  <2> DEFINE T == {p \in Peers : status'[p] # status[p]}
  <2>1. PICK r \in EventsFor("DisconnectPeer", T) : events' = events \o r  BY Zenon, <1>7 DEF UpdateGossipsubScores
  <2>2. events \in Seq(Events) /\ conn' = conn /\ known' = known /\ temporary_banned_peers' \subseteq Peers
    BY Zenon, <1>7 DEF PMType, UpdateGossipsubScores, swarmVars, outside
  <2>3. T \in SUBSET Peers  BY Zenon
  <2> HIDE DEF T
  <2> QED  BY Zenon, <2>1, <2>2, <2>3, QuietEvents, SameConnections
<1> HIDE DEF Idle
<1> QED  BY Zenon, <1>0, <1>1, <1>2, <1>3, <1>4, <1>5, <1>6, <1>7, ClosedQueues, PollQueues, ReportQueues, HeartbeatQueues
         DEF Next


-----------------------------------------------------------------------------
(* The statuses of peers and their connections and dials *)

\* Dial errors carry the peer id, and a trusted peer is only removed while it has a connection
\* or a dial.
Reliable ==
  /\ ~AnonymousDialErrors
  /\ RemovedWhile \subseteq {"Connected", "Dialing", "Disconnecting", "DisconnectingToBan"}

\* A connected peer has a connection; a peer that is dialed has a dial, or one that was refused
\* and will be reported at once; a peer that is being disconnected has either.
Attached(q) ==
  /\ status[q] = "Connected" => conn[q] # "none"
  /\ Reliable => /\ status[q] = "Dialing" => dials[q] > 0 \/ q \in refused
                 /\ status[q] \in {"Disconnecting", "DisconnectingToBan"} => conn[q] # "none" \/ dials[q] > 0

\* A change of status that needs no new connection or dial
Calm(q) ==
  /\ status'[q] = "Connected" => status[q] = "Connected"
  /\ status'[q] = "Dialing" => status[q] = "Dialing"
  /\ Reliable /\ status'[q] \in {"Disconnecting", "DisconnectingToBan"}
       => status[q] \in {"Connected", "Dialing", "Disconnecting", "DisconnectingToBan"}

\* Such a change keeps a peer attached as long as no dial is waiting to be refused.
LEMMA CalmAttached ==
  ASSUME NEW q, Attached(q), Calm(q), refused = {}, UNCHANGED swarmVars
  PROVE  Attached(q)'
BY Zenon DEF Attached, Calm, swarmVars, Reliable

\* Reports, scores, heartbeats, trust and discovery only make such changes.
LEMMA CalmSteps ==
  ASSUME DBTypeOK, NEW q \in Peers,
         \/ \E p \in Peers, new \in ScoreStates : report_peer(p, new)
         \/ GossipScores \/ Heartbeat
         \/ \E p \in Peers : Trust(p) \/ Untrust(p) \/ RemoveTrusted(p)
         \/ \E S : update_min_ttl(S)
  PROVE  Calm(q)
<1>1. ASSUME NEW p \in Peers, NEW new \in ScoreStates, report_peer(p, new)  PROVE Calm(q)
  <2>1. CASE ToBanned(p)  BY Zenon, <2>1 DEF ToBanned, Calm, DBTypeOK
  <2>2. CASE handle_score_transition(score[p], new, is_connected_or_dialing(p)) = "Disconnected" /\ ToDisconnecting(p)
    <3>1. is_connected_or_dialing(p)  BY Zenon, <2>2 DEF handle_score_transition
    <3> QED  BY Zenon, <2>2, <3>1 DEF ToDisconnecting, Calm, DBTypeOK, is_connected_or_dialing
  <2>3. CASE UNCHANGED status  BY Zenon, <2>3 DEF Calm
  <2> QED  BY Zenon, <1>1, <2>1, <2>2, <2>3 DEF report_peer
<1>2. CASE GossipScores  BY Zenon, <1>2 DEF GossipScores, update_gossipsub_scores, Calm, With
<1>3. CASE Heartbeat  BY Zenon, <1>3 DEF Heartbeat, heartbeat, Calm, With
<1>4. ASSUME NEW p \in Peers, Trust(p) \/ Untrust(p)  PROVE Calm(q)
  BY Zenon, <1>4 DEF Trust, Untrust, set_trusted_peer, unset_trusted_peer, Calm, StatusOf, DBTypeOK
<1>5. ASSUME NEW p \in Peers, RemoveTrusted(p)  PROVE Calm(q)
  BY Zenon, <1>5 DEF RemoveTrusted, ToDisconnecting, Calm, Reliable, DBTypeOK
<1>6. ASSUME NEW S, update_min_ttl(S)  PROVE Calm(q)
  BY <1>6 DEF update_min_ttl, Calm, StatusOf
<1> QED  BY Zenon, <1>1, <1>2, <1>3, <1>4, <1>5, <1>6

\* A failed dial, whoever reports it, takes the peer out of the states that needed it.
LEMMA DialFailureAttached ==
  ASSUME PMType, NEW p \in Peers, on_dial_failure(p), conn' = conn,
         \A q \in Peers \ {p} : dials'[q] = dials[q] /\ (q \in refused => q \in refused'),
         NEW q \in Peers, Attached(q)
  PROVE  Attached(q)'
<1>1. CASE ~is_connected(p) /\ InjectDisconnect(p, events)
  <2>1. status'[q] \in {"None", IF q = p THEN AfterDisconnect(status[p]) ELSE status[q]}
    BY <1>1, InjectStatus DEF InjectDisconnect, PMType
  <2>2. AfterDisconnect(status[p]) \in {"Banned", "Disconnected"}  BY Zenon DEF AfterDisconnect
  <2> QED  BY Zenon, <2>1, <2>2 DEF Attached, Reliable
<1>2. CASE is_connected(p) /\ UNCHANGED dbVars
  <2>1. status' = status  BY Zenon, <1>2 DEF dbVars
  <2> QED  BY Zenon, <1>2, <2>1 DEF Attached, Reliable, is_connected
<1> QED  BY Zenon, <1>1, <1>2 DEF on_dial_failure

\* The swarm's connections and dials keep their types.
LEMMA SwarmTypes ==
  ASSUME PMType, [Next]_vars
  PROVE  conn' \in [Peers -> {"none", "open", "closing"}] /\ dials' \in [Peers -> Nat]
<1>0. conn \in [Peers -> {"none", "open", "closing"}] /\ dials \in [Peers -> Nat]  BY Zenon DEF PMType
<1> DEFINE Goal == conn' \in [Peers -> {"none", "open", "closing"}] /\ dials' \in [Peers -> Nat]
<1>1. ASSUME UNCHANGED <<conn, dials>>  PROVE Goal  BY <1>0, <1>1
<1>2. ASSUME NEW p \in Peers, DialRefused(p) \/ DialFailed(p) \/ DialFailedAnonymously(p)  PROVE Goal
  BY <1>0, <1>2 DEF DialRefused, DialFailed, DialFailedAnonymously
<1>3. ASSUME NEW p \in Peers, NEW a \in Addrs, InboundEstablished(p, a) \/ DialEstablished(p, a)  PROVE Goal
  <2>1. /\ conn' = [conn EXCEPT ![p] = "open"]
        /\ dials' = dials \/ (dials[p] > 0 /\ dials' = [dials EXCEPT ![p] = @ - 1])
    BY Zenon, <1>3 DEF InboundEstablished, DialEstablished, Established
  <2> QED  BY <1>0, <2>1
<1>4. ASSUME NEW p \in Peers, ConnectionClosed(p)  PROVE Goal
  BY <1>0, <1>4, Zenon DEF ConnectionClosed
<1>5. ASSUME PollEvent  PROVE Goal  BY Zenon, <1>0, <1>5 DEF PollEvent
<1>6. ASSUME PollDial  PROVE Goal  BY <1>0, <1>6 DEF PollDial
<1>7. ASSUME \/ \E p \in Peers, new \in ScoreStates : ReportPeer(p, new)
             \/ \E p \in Peers : RemoveTrustedPeer(p) \/ GlobalsTrust(p) \/ DialTrustedPeer(p) \/ DutyExpires(p)
             \/ PeersDiscovered \/ UpdateGossipsubScores \/ PeerManagerHeartbeat \/ UNCHANGED vars
      PROVE UNCHANGED <<conn, dials>>
  BY Zenon, <1>7 DEF ReportPeer, RemoveTrustedPeer, GlobalsTrust, DialTrustedPeer, DutyExpires, PeersDiscovered,
              UpdateGossipsubScores, PeerManagerHeartbeat, vars, swarmVars
<1> HIDE DEF Goal
<1>8. Goal  BY Zenon, <1>1, <1>2, <1>3, <1>4, <1>5, <1>6, <1>7 DEF Next
<1> QED  BY Zenon, <1>8 DEF Goal

\* Every step keeps every peer attached.
LEMMA AttachedNext ==
  ASSUME PMType, [Next]_vars, NEW q \in Peers, Attached(q)
  PROVE  Attached(q)'
<1> DEFINE Goal == Attached(q)'
<1>0. /\ DBTypeOK /\ status \in [Peers -> Statuses]
      /\ conn \in [Peers -> {"none", "open", "closing"}] /\ dials \in [Peers -> Nat]
  BY Zenon DEF PMType, DBTypeOK
<1>1. CASE UNCHANGED vars  BY Zenon, <1>0, <1>1 DEF vars, dbVars, swarmVars, Attached, Reliable
<1>2. ASSUME NEW p \in Peers, DialRefused(p) \/ (DialFailed(p) /\ refused = {})  PROVE Goal
  <2>1. on_dial_failure(p) /\ conn' = conn  BY Zenon, <1>2 DEF DialRefused, DialFailed
  <2>2. \A r \in Peers \ {p} : dials'[r] = dials[r] /\ (r \in refused => r \in refused')
    BY Zenon, <1>0, <1>2 DEF DialRefused, DialFailed
  <2> QED  BY <2>1, <2>2, DialFailureAttached
<1>3. ASSUME NEW p \in Peers, NEW a \in Addrs, InboundEstablished(p, a) \/ DialEstablished(p, a), refused = {}
      PROVE Goal
  <2>1. /\ status' = [status EXCEPT ![p] = "Connected"] /\ conn' = [conn EXCEPT ![p] = "open"] /\ refused' = refused
        /\ dials' = dials \/ (dials[p] > 0 /\ dials' = [dials EXCEPT ![p] = @ - 1])
    BY Zenon, <1>3 DEF InboundEstablished, DialEstablished, Established, ToConnected
  <2>2. \A r \in Peers \ {p} : dials'[r] = dials[r]  BY Zenon, <1>0, <2>1
  <2> QED  BY <1>0, <2>1, <2>2 DEF Attached, Reliable
<1>4. ASSUME NEW p \in Peers, DialFailedAnonymously(p), refused = {}  PROVE Goal
  <2>1. AnonymousDialErrors /\ dials[p] > 0 /\ dials' = [dials EXCEPT ![p] = @ - 1] /\ conn' = conn /\ status' = status
    BY Zenon, <1>4 DEF DialFailedAnonymously, dbVars
  <2> QED  BY <1>0, <2>1 DEF Attached, Reliable
<1>5. ASSUME NEW p \in Peers, ConnectionClosed(p)  PROVE Goal
  <2>1. inject_disconnect(p) /\ conn' = [conn EXCEPT ![p] = "none"] /\ dials' = dials /\ refused' = refused
    BY <1>5, Zenon DEF ConnectionClosed, InjectDisconnect
  <2>2. status'[q] \in {"None", IF q = p THEN AfterDisconnect(status[p]) ELSE status[q]}
    BY Zenon, <1>0, <2>1, InjectStatus
  <2>3. AfterDisconnect(status[p]) \in {"Banned", "Disconnected"}  BY Zenon DEF AfterDisconnect
  <2> QED  BY Zenon, <1>0, <2>1, <2>2, <2>3 DEF Attached, Reliable
<1>6. ASSUME PollEvent  PROVE Goal
  <2>1. /\ status' = status /\ dials' = dials /\ refused' = refused
        /\ conn' = conn \/ \E x : conn[x] = "open" /\ conn' = [conn EXCEPT ![x] = "closing"]
    BY Zenon, <1>6 DEF PollEvent, dbVars
  <2> QED  BY <1>0, <2>1 DEF Attached, Reliable
<1>7. ASSUME PollDial, refused = {}  PROVE Goal
  <2>1. PICK p \in Peers : /\ ToDialing(p)
                           /\ \/ refused' = {p} /\ UNCHANGED dials
                              \/ dials' = [dials EXCEPT ![p] = @ + 1] /\ UNCHANGED refused
    BY Zenon, <1>7 DEF PollDial
  <2>2. conn' = conn /\ status'[q] = (IF q = p /\ StatusOf(p) \in {"Disconnected", "Banned", "Unknown"} THEN "Dialing" ELSE status[q])
    BY Zenon, <1>0, <1>7, <2>1 DEF PollDial, ToDialing
  <2>3. dials'[q] \in Nat /\ dials'[q] >= dials[q] /\ (q = p => q \in refused' \/ dials'[q] > 0)
    BY <1>0, <2>1
  <2> QED  BY <1>0, <1>7, <2>2, <2>3 DEF Attached, Reliable
<1>8. ASSUME \/ \E p \in Peers, new \in ScoreStates : ReportPeer(p, new)
             \/ \E p \in Peers : RemoveTrustedPeer(p) \/ GlobalsTrust(p)
             \/ PeersDiscovered \/ UpdateGossipsubScores \/ PeerManagerHeartbeat,
             refused = {}
      PROVE Goal
  <2>1. UNCHANGED swarmVars
    BY Zenon, <1>8 DEF ReportPeer, RemoveTrustedPeer, GlobalsTrust, PeersDiscovered, UpdateGossipsubScores,
                PeerManagerHeartbeat
  <2>2. \/ \E p \in Peers, new \in ScoreStates : report_peer(p, new)
        \/ GossipScores \/ Heartbeat
        \/ \E p \in Peers : Trust(p) \/ Untrust(p) \/ RemoveTrusted(p)
        \/ \E S : update_min_ttl(S)
    <3>1. PeersDiscovered => \E S : update_min_ttl(S)  BY Zenon DEF PeersDiscovered, peers_discovered
    <3>2. PeerManagerHeartbeat => Heartbeat  BY Zenon DEF PeerManagerHeartbeat, Heartbeat
    <3> QED  BY <1>8, <3>1, <3>2 DEF ReportPeer, RemoveTrustedPeer, GlobalsTrust, UpdateGossipsubScores
  <2>3. Calm(q)  BY Zenon, <1>0, <2>2, CalmSteps
  <2> QED  BY Zenon, <1>8, <2>1, <2>3, CalmAttached
<1>9. ASSUME NEW p \in Peers, DialTrustedPeer(p) \/ DutyExpires(p)  PROVE Goal
  BY Zenon, <1>0, <1>9 DEF DialTrustedPeer, DutyExpires, dbVars, swarmVars, Attached, Reliable
<1> HIDE DEF Goal
<1>10. Goal  BY <1>1, <1>2, <1>3, <1>4, <1>5, <1>6, <1>7, <1>8, <1>9 DEF Next, Goal
<1> QED  BY <1>10 DEF Goal


-----------------------------------------------------------------------------
(* Bans and discovery *)

\* A peer that is banned, or temporarily banned, is banned in discovery after the queued events,
\* and no peer is both: the end of a temporary ban never lifts a ban.
BanKept(q) ==
  /\ status[q] = "Banned" \/ q \in temporary_banned_peers
       => InAfter(events, q, discv5_banned, "Banned", "UnBanned")
  /\ ~(status[q] = "Banned" /\ q \in temporary_banned_peers)

\* A peer that is not banned anew stays banned in discovery while its events are kept.
LEMMA SameBans ==
  ASSUME NEW q, BanKept(q), discv5_banned' = discv5_banned,
         status'[q] = "Banned" => status[q] = "Banned",
         temporary_banned_peers' \subseteq temporary_banned_peers,
         status'[q] = "Banned" \/ q \in temporary_banned_peers' =>
           \A S : InAfter(events, q, S, "Banned", "UnBanned") => InAfter(events', q, S, "Banned", "UnBanned")
  PROVE  BanKept(q)'
BY Zenon DEF BanKept

\* A disconnection bans a peer whose ban was pending, and reports every ban that it drops.
LEMMA InjectBans ==
  ASSUME PMType, NEW p \in Peers, NEW ev \in Seq(Events), InjectDisconnect(p, ev),
         discv5_banned' = discv5_banned,
         \A r, S : InAfter(events, r, S, "Banned", "UnBanned") => InAfter(ev, r, S, "Banned", "UnBanned"),
         NEW q \in Peers, BanKept(q)
  PROVE  BanKept(q)'
<1>1. PICK op \in {"ReadyToBan", "TemporaryBan", "None"}, purged \in SUBSET Peers :
           /\ op = "ReadyToBan" <=> status[p] = "DisconnectingToBan"
           /\ op = "TemporaryBan" <=> status[p] = "Disconnecting"
           /\ \A r \in purged : status'[r] = "None" /\ (status[r] = "Banned" \/ (r = p /\ op = "ReadyToBan"))
           /\ \E unbanned \in EventsFor("UnBanned", purged) : events' = BanEvents(op, p, ev) \o unbanned
           /\ temporary_banned_peers' = TemporaryBans(op, p)
  BY InjectEvents, Zenon
<1>2. PICK unbanned \in EventsFor("UnBanned", purged) : events' = BanEvents(op, p, ev) \o unbanned  BY Zenon, <1>1
<1>3. status'[q] \in {"None", IF q = p THEN AfterDisconnect(status[p]) ELSE status[q]}
  BY Zenon, InjectStatus DEF InjectDisconnect, PMType
<1> DEFINE w == BanEvents(op, p, ev)
<1>4. /\ w \in Seq(Events)
      /\ \A r, S : InAfter(ev, r, S, "Banned", "UnBanned") => InAfter(w, r, S, "Banned", "UnBanned")
      /\ op = "ReadyToBan" /\ p \notin temporary_banned_peers => \A S : InAfter(w, p, S, "Banned", "UnBanned")
      /\ op = "TemporaryBan" /\ connected_peers' >= TargetPeers => \A S : InAfter(w, p, S, "Banned", "UnBanned")
  BY Zenon, BanEventsQueue
<1> HIDE DEF w
<1>5. events' = w \o unbanned  BY Zenon, <1>2 DEF w
<1>6. temporary_banned_peers' =
        CASE op = "TemporaryBan" /\ connected_peers' >= TargetPeers -> temporary_banned_peers \cup {p}
          [] op = "ReadyToBan" -> temporary_banned_peers \ {p}
          [] OTHER -> temporary_banned_peers
  BY Zenon, <1>1 DEF TemporaryBans
<1>7. status'[q] = "Banned" =>
        (q = p /\ op = "ReadyToBan") \/ (status[q] = "Banned" /\ (q = p => op = "None"))
  BY Zenon, <1>1, <1>3 DEF AfterDisconnect
<1>8. ~(status'[q] = "Banned" /\ q \in temporary_banned_peers')
  BY Zenon, <1>1, <1>6, <1>7 DEF BanKept
<1>9. ASSUME status'[q] = "Banned" \/ q \in temporary_banned_peers'
      PROVE  InAfter(events', q, discv5_banned, "Banned", "UnBanned")
  <2>1. q \notin purged
    <3> SUFFICES ASSUME q \in purged  PROVE FALSE  BY Zenon
    <3>1. q \in temporary_banned_peers'  BY Zenon, <1>1, <1>9
    <3>2. CASE status[q] = "Banned"
      BY Zenon, <1>1, <1>6, <3>1, <3>2 DEF BanKept
    <3>3. CASE q = p /\ op = "ReadyToBan"
      BY Zenon, <1>6, <3>1, <3>3
    <3> QED  BY Zenon, <1>1, <3>2, <3>3
  <2>2. InAfter(w, q, discv5_banned, "Banned", "UnBanned")
    <3>1. CASE status[q] = "Banned" \/ q \in temporary_banned_peers
      <4>1. InAfter(events, q, discv5_banned, "Banned", "UnBanned")  BY Zenon, <3>1 DEF BanKept
      <4>2. InAfter(ev, q, discv5_banned, "Banned", "UnBanned")  BY Zenon, <4>1
      <4> QED  BY Zenon, <1>4, <4>2
    <3>2. CASE ~(status[q] = "Banned" \/ q \in temporary_banned_peers)
      BY Zenon, <1>4, <1>6, <1>7, <1>9, <3>2
    <3> QED  BY Zenon, <3>1, <3>2
  <2> QED  BY Zenon, <1>4, <1>5, <2>1, <2>2, QuietEvents
<1> QED  BY Zenon, <1>8, <1>9 DEF BanKept

\* A report that bans a peer at once tells discovery.
LEMMA ReportBans ==
  ASSUME PMType, NEW p \in Peers, NEW new \in ScoreStates, ReportPeer(p, new), NEW q \in Peers, BanKept(q)
  PROVE  BanKept(q)'
<1> DEFINE op == CASE new = "Banned" /\ status'[p] = "Banned" -> "ReadyToBan"
                   [] /\ status[p] \in {"Connected", "Dialing"}
                      /\ status'[p] \in {"Disconnecting", "DisconnectingToBan"} -> "DisconnectThePeer"
                   [] OTHER -> "None"
<1>1. events' = BanEvents(op, p, events) /\ temporary_banned_peers' = TemporaryBans(op, p)
  BY Zenon DEF ReportPeer
<1>2. /\ op \in {"ReadyToBan", "DisconnectThePeer", "None"}
      /\ op = "ReadyToBan" <=> new = "Banned" /\ status'[p] = "Banned"
  BY Zenon
<1> HIDE DEF op
<1>3. events \in Seq(Events) /\ discv5_banned' = discv5_banned /\ report_peer(p, new)
  BY Zenon DEF PMType, ReportPeer, outside
<1>4. /\ \A r, S : InAfter(events, r, S, "Banned", "UnBanned") => InAfter(events', r, S, "Banned", "UnBanned")
      /\ op = "ReadyToBan" /\ p \notin temporary_banned_peers => \A S : InAfter(events', p, S, "Banned", "UnBanned")
  BY Zenon, <1>1, <1>3, BanEventsQueue
<1>5. temporary_banned_peers' = IF op = "ReadyToBan" THEN temporary_banned_peers \ {p} ELSE temporary_banned_peers
  BY Zenon, <1>1, <1>2 DEF TemporaryBans
<1>6. q # p => status'[q] = status[q]
  BY Zenon, <1>3 DEF report_peer, ToBanned, ToDisconnecting, PMType, DBTypeOK
<1>7. status'[p] = "Banned" /\ new # "Banned" => status[p] = "Banned"
  <2>1. handle_score_transition(score[p], new, is_connected_or_dialing(p)) = "Banned" => new = "Banned"
    BY Zenon DEF handle_score_transition
  <2> QED  BY Zenon, <1>3, <2>1 DEF report_peer, ToDisconnecting, PMType, DBTypeOK
<1>8. ~(status'[q] = "Banned" /\ q \in temporary_banned_peers')
  BY Zenon, <1>2, <1>5, <1>6, <1>7 DEF BanKept
<1>9. ASSUME status'[q] = "Banned" \/ q \in temporary_banned_peers'
      PROVE  InAfter(events', q, discv5_banned, "Banned", "UnBanned")
  <2>1. CASE status[q] = "Banned" \/ q \in temporary_banned_peers
    BY <1>4, <2>1 DEF BanKept
  <2>2. CASE ~(status[q] = "Banned" \/ q \in temporary_banned_peers)
    BY Zenon, <1>2, <1>4, <1>5, <1>6, <1>7, <1>9, <2>2
  <2> QED  BY Zenon, <2>1, <2>2
<1> QED  BY Zenon, <1>3, <1>8, <1>9 DEF BanKept


\* A heartbeat lifts no ban and no temporary ban that it keeps: a peer with a temporary ban whose
\* score is Banned keeps that score.
LEMMA HeartbeatBans ==
  ASSUME PMType, PeerManagerHeartbeat, NEW q \in Peers, BanKept(q)
  PROVE  BanKept(q)'
<1>1. PICK timedOut \in SUBSET With("Dialing"), new \in DecayedScores,
           pruned \in SUBSET With("Connected"), expired \in SUBSET temporary_banned_peers :
           /\ \A p \in temporary_banned_peers : score[p] = "Banned" => new[p] = "Banned"
           /\ heartbeat(timedOut, new, pruned)
           /\ \E u \in EventsFor("UnBanned", {p \in Peers : status[p] # "None" /\ Unbans(p, new, timedOut)}),
                 d \in EventsFor("DisconnectPeer", pruned), l \in EventsFor("UnBanned", expired) :
                events' = events \o u \o d \o l
           /\ temporary_banned_peers' = temporary_banned_peers \ expired
           /\ UNCHANGED <<swarmVars, outside>>
  BY HeartbeatEvents, Zenon
<1> DEFINE U == {p \in Peers : status[p] # "None" /\ Unbans(p, new, timedOut)}
<1>2. PICK u \in EventsFor("UnBanned", U), d \in EventsFor("DisconnectPeer", pruned),
           l \in EventsFor("UnBanned", expired) : events' = events \o u \o d \o l
  BY Zenon, <1>1
<1>3. /\ U \in SUBSET Peers /\ pruned \in SUBSET Peers /\ expired \in SUBSET Peers /\ events \in Seq(Events)
      /\ temporary_banned_peers' \subseteq temporary_banned_peers /\ discv5_banned' = discv5_banned
  BY <1>1 DEF PMType, With, outside
<1>4. status'[q] = "Banned" => status[q] = "Banned" /\ ~Unbans(q, new, timedOut)
  BY Zenon, <1>1 DEF heartbeat, With
<1>5. q \in temporary_banned_peers => ~Unbans(q, new, timedOut)
  BY Zenon, <1>1 DEF Unbans, handle_score_transition
<1>6. status'[q] = "Banned" \/ q \in temporary_banned_peers' => q \notin U /\ q \notin expired
  BY <1>1, <1>4, <1>5 DEF BanKept
<1> HIDE DEF U
<1> DEFINE x == events \o u
           y == x \o d
           z == y \o l
<1>7. x \in Seq(Events) /\ \A S : q \notin U /\ InAfter(events, q, S, "Banned", "UnBanned")
                                    => InAfter(x, q, S, "Banned", "UnBanned")
  BY Zenon, <1>3, QuietEvents
<1> HIDE DEF x
<1>8. y \in Seq(Events) /\ \A S : InAfter(x, q, S, "Banned", "UnBanned") => InAfter(y, q, S, "Banned", "UnBanned")
  BY Zenon, <1>3, <1>7, QuietEvents
<1> HIDE DEF y
<1>9. \A S : q \notin expired /\ InAfter(y, q, S, "Banned", "UnBanned") => InAfter(z, q, S, "Banned", "UnBanned")
  BY <1>3, <1>8, QuietEvents
<1> HIDE DEF z
<1>10. events' = z  BY Zenon, <1>2 DEF x, y, z
<1>11. status'[q] = "Banned" \/ q \in temporary_banned_peers' =>
           \A S : InAfter(events, q, S, "Banned", "UnBanned") => InAfter(events', q, S, "Banned", "UnBanned")
  BY Zenon, <1>6, <1>7, <1>8, <1>9, <1>10
<1> QED  BY <1>3, <1>4, <1>11, SameBans

\* Polling an event tells discovery.
LEMMA PollBans ==
  ASSUME PMType, PollEvent, NEW q \in Peers, BanKept(q)
  PROVE  BanKept(q)'
<1> DEFINE e == Head(events)
<1>1. /\ events \in Seq(Events) /\ events # <<>> /\ events' = Tail(events)
      /\ temporary_banned_peers' = temporary_banned_peers /\ status' = status
      /\ discv5_banned' = CASE e.type = "Banned" -> discv5_banned \cup {e.peer}
                            [] e.type = "UnBanned" -> discv5_banned \ {e.peer}
                            [] OTHER -> discv5_banned
  BY Zenon DEF PollEvent, PMType, dbVars
<1>2. e \in Events  BY <1>1
<1> HIDE DEF e
<1>3. e = Ev(e.type, e.peer)  BY Zenon, <1>2 DEF Events, Ev
<1>4. ASSUME InAfter(events, q, discv5_banned, "Banned", "UnBanned")
      PROVE  InAfter(events', q, discv5_banned', "Banned", "UnBanned")
  <2>1. q \in discv5_banned' <=> e = Ev("Banned", q) \/ (q \in discv5_banned /\ e # Ev("UnBanned", q))
    <3>1. e = Ev("Banned", q) <=> e.type = "Banned" /\ e.peer = q  BY <1>3 DEF Ev
    <3>2. e = Ev("UnBanned", q) <=> e.type = "UnBanned" /\ e.peer = q  BY <1>3 DEF Ev
    <3> QED  BY <1>1, <3>1, <3>2
  <2> QED  BY Zenon, <1>1, <1>4, <2>1, AfterTail DEF e
<1> QED  BY <1>1, <1>4 DEF BanKept

\* Adding an event other than UnBanned, with no ban, keeps the bans.
LEMMA AppendBans ==
  ASSUME PMType, NEW type \in EventTypes \ {"UnBanned"}, NEW p \in Peers, events' = Append(events, Ev(type, p)),
         discv5_banned' = discv5_banned, temporary_banned_peers' = temporary_banned_peers,
         NEW q \in Peers, BanKept(q), status'[q] = "Banned" => status[q] = "Banned"
  PROVE  BanKept(q)'
<1> DEFINE e == Ev(type, p)
<1>1. e \in Events /\ e # Ev("UnBanned", q)  BY DEF Ev, Events
<1>2. events \in Seq(Events) /\ events' = Append(events, e)  BY DEF PMType
<1> HIDE DEF e
<1> QED  BY Zenon, <1>1, <1>2, AfterAppend, SameBans

\* Every step keeps the bans of every peer.
LEMMA BansNext ==
  ASSUME PMType, [Next]_vars, NEW q \in Peers, BanKept(q)
  PROVE  BanKept(q)'
<1>0. /\ DBTypeOK /\ status \in [Peers -> Statuses] /\ events \in Seq(Events)
  BY DEF PMType, DBTypeOK
<1> DEFINE Idle == /\ UNCHANGED <<events, temporary_banned_peers, discv5_banned>>
                   /\ status'[q] = "Banned" => status[q] = "Banned"
<1>1. Idle => BanKept(q)'  BY Zenon DEF BanKept
<1>2. CASE UNCHANGED vars  BY Zenon, <1>2, <1>1 DEF vars, dbVars, pmVars, outside
<1>3. ASSUME NEW p \in Peers, DialRefused(p) \/ DialFailed(p)  PROVE BanKept(q)'
  <2>1. on_dial_failure(p) /\ discv5_banned' = discv5_banned  BY Zenon, <1>3 DEF DialRefused, DialFailed, outside
  <2>2. CASE InjectDisconnect(p, events)  BY Zenon, <1>0, <2>1, <2>2, InjectBans
  <2>3. CASE UNCHANGED <<dbVars, events, temporary_banned_peers, duty>>
    BY Zenon, <1>1, <2>1, <2>3 DEF dbVars
  <2> QED  BY <2>1, <2>2, <2>3 DEF on_dial_failure
<1>4. ASSUME NEW p \in Peers, NEW a \in Addrs, InboundEstablished(p, a) \/ DialEstablished(p, a)
      PROVE BanKept(q)'
  <2>1. /\ events' = Append(events, Ev("PeerConnected", p)) /\ temporary_banned_peers' = temporary_banned_peers
        /\ discv5_banned' = discv5_banned /\ status' = [status EXCEPT ![p] = "Connected"]
    BY Zenon, <1>4 DEF InboundEstablished, DialEstablished, Established, ToConnected, outside
  <2>2. status'[q] = "Banned" => status[q] = "Banned"  BY <1>0, <2>1
  <2>3. "PeerConnected" \in EventTypes \ {"UnBanned"}  BY Zenon DEF EventTypes
  <2> QED  BY <2>1, <2>2, <2>3, AppendBans
<1>5. ASSUME NEW p \in Peers, DialFailedAnonymously(p) \/ DialTrustedPeer(p) \/ DutyExpires(p)  PROVE Idle
  BY Zenon, <1>5 DEF DialFailedAnonymously, DialTrustedPeer, DutyExpires, dbVars, pmVars, outside
<1>6. ASSUME NEW p \in Peers, GlobalsTrust(p)  PROVE Idle
  BY <1>0, <1>6 DEF GlobalsTrust, Trust, Untrust, set_trusted_peer, unset_trusted_peer, StatusOf, pmVars, outside
<1>7. ASSUME PollDial  PROVE Idle
  BY Zenon, <1>0, <1>7 DEF PollDial, ToDialing, outside
<1>8. ASSUME PeersDiscovered  PROVE Idle
  <2>1. PICK S : update_min_ttl(S)  BY <1>8, Zenon DEF PeersDiscovered, peers_discovered
  <2> QED  BY <1>8, <2>1 DEF PeersDiscovered, update_min_ttl, StatusOf, outside
<1>9. ASSUME NEW p \in Peers, ConnectionClosed(p)  PROVE BanKept(q)'
  <2> DEFINE e == Ev("PeerDisconnected", p)
             ev == IF is_connected_or_disconnecting(p) THEN Append(events, e) ELSE events
  <2>1. InjectDisconnect(p, ev) /\ discv5_banned' = discv5_banned  BY <1>9, Zenon DEF ConnectionClosed, outside
  <2>2. e \in Events /\ \A r : e # Ev("UnBanned", r)  BY Zenon DEF Ev, Events, EventTypes
  <2> HIDE DEF e
  <2>3. /\ ev \in Seq(Events)
        /\ \A r, S : InAfter(events, r, S, "Banned", "UnBanned") => InAfter(ev, r, S, "Banned", "UnBanned")
    BY <1>0, <2>2, AfterAppend
  <2> HIDE DEF ev
  <2> QED  BY Zenon, <2>1, <2>3, InjectBans
<1>10. ASSUME NEW p \in Peers, RemoveTrustedPeer(p)  PROVE BanKept(q)'
  <2>1. /\ events' = Append(events, Ev("DisconnectPeer", p)) /\ temporary_banned_peers' = temporary_banned_peers
        /\ discv5_banned' = discv5_banned /\ status' = [status EXCEPT ![p] = "Disconnecting"]
    BY <1>10 DEF RemoveTrustedPeer, RemoveTrusted, ToDisconnecting, outside
  <2>2. status'[q] = "Banned" => status[q] = "Banned"  BY Zenon, <1>0, <2>1
  <2>3. "DisconnectPeer" \in EventTypes \ {"UnBanned"}  BY Zenon DEF EventTypes
  <2> QED  BY Zenon, <2>1, <2>2, <2>3, AppendBans
<1>11. ASSUME UpdateGossipsubScores  PROVE BanKept(q)'
  <2> DEFINE T == {p \in Peers : status'[p] # status[p]}
  <2>1. PICK r \in EventsFor("DisconnectPeer", T) : events' = events \o r  BY Zenon, <1>11 DEF UpdateGossipsubScores
  <2>2. /\ discv5_banned' = discv5_banned /\ temporary_banned_peers' = temporary_banned_peers
        /\ status'[q] = "Banned" => status[q] = "Banned"
    BY Zenon, <1>11 DEF UpdateGossipsubScores, GossipScores, update_gossipsub_scores, outside
  <2>3. T \in SUBSET Peers  OBVIOUS
  <2> HIDE DEF T
  <2>4. \A S : InAfter(events, q, S, "Banned", "UnBanned") => InAfter(events', q, S, "Banned", "UnBanned")
    BY Zenon, <1>0, <2>1, <2>3, QuietEvents
  <2> QED  BY <2>2, <2>4, SameBans
<1> HIDE DEF Idle
<1> QED  BY Zenon, <1>1, <1>2, <1>3, <1>4, <1>5, <1>6, <1>7, <1>8, <1>9, <1>10, <1>11, ReportBans, HeartbeatBans, PollBans
         DEF Next

-----------------------------------------------------------------------------
(* The theorems *)

PMInv == PMType /\ \A q \in Peers : Told(q) /\ Attached(q) /\ BanKept(q)

\* The inductive invariant of the peer manager.
LEMMA PMInvariant == Spec => []PMInv
<1>1. Init => PMInv
  <2> SUFFICES ASSUME Init  PROVE PMInv  BY Zenon
  <2> DEFINE none == <<>>
  <2>1. none \in Seq(Events)  OBVIOUS
  <2> HIDE DEF none
  <2>2. events \in Seq(Events)  BY <2>1 DEF Init, none
  <2>3. PMType  BY Zenon, <2>2, TypeInit DEF Init, PMType
  <2>4. \A q \in Peers : Told(q)  BY DEF Init, Told
  <2>5. \A q \in Peers : status[q] \in {"Unknown", "None"}  BY Zenon DEF Init, DBInit
  <2>6. \A q \in Peers : Attached(q)  BY Zenon, <2>5 DEF Attached
  <2>7. \A q \in Peers : BanKept(q)  BY <2>5 DEF BanKept, Init
  <2> QED  BY <2>3, <2>4, <2>6, <2>7 DEF PMInv
<1>2. PMInv /\ [Next]_vars => PMInv'
  <2> SUFFICES ASSUME PMInv, [Next]_vars  PROVE PMInv'  BY Zenon
  <2>1. PMType  BY Zenon DEF PMInv
  <2>2. DBTypeOK'  BY Zenon, <2>1, DatabaseStep, TypeNext DEF PMType
  <2>3. QueuesKept  BY Zenon, <2>1, QueuesNext
  <2>4. \A q \in Peers : Attached(q)'  BY Zenon, <2>1, AttachedNext DEF PMInv
  <2>5. \A q \in Peers : BanKept(q)'  BY Zenon, <2>1, BansNext DEF PMInv
  <2>6. \A q \in Peers : Told(q)'  BY Zenon, <2>3 DEF PMInv, QueuesKept
  <2>7. conn' \in [Peers -> {"none", "open", "closing"}] /\ dials' \in [Peers -> Nat]
    BY <2>1, SwarmTypes
  <2>8. PMType'  BY Zenon, <2>2, <2>3, <2>7 DEF PMType, QueuesKept
  <2> QED  BY Zenon, <2>4, <2>5, <2>6, <2>8 DEF PMInv
<1> QED  BY <1>1, <1>2, PTL DEF Spec

\* ConnectedHasConnection: no interleaving of callbacks leaves a peer in the connected state
\* whose connection is gone.
THEOREM ConnectedHasConnectionCorrect == Spec => []ConnectedHasConnection
<1>1. PMInv => ConnectedHasConnection  BY Zenon DEF PMInv, Attached, ConnectedHasConnection, With
<1> QED  BY <1>1, PMInvariant, PTL

\* ApplicationKnowsConnections: the application knows, or is about to be told, of every connection.
THEOREM ApplicationKnowsConnectionsCorrect == Spec => []ApplicationKnowsConnections
<1>1. PMInv => ApplicationKnowsConnections
  BY DEF PMInv, Told, ApplicationKnowsConnections, Drained
<1> QED  BY <1>1, PMInvariant, PTL

\* BanReachesDiscovery: no UnBanned event, of an expired temporary ban, of a heartbeat or of a
\* database that shrinks, overtakes a ban on its way to discovery.
THEOREM BanReachesDiscoveryCorrect == Spec => []BanReachesDiscovery
<1>1. PMInv => BanReachesDiscovery
  BY Zenon DEF PMInv, PMType, BanKept, BanReachesDiscovery, Drained, With
<1> QED  BY <1>1, PMInvariant, PTL

\* DisconnectionInProgress: a peer that is being disconnected has a connection or a dial whose
\* end completes the disconnection, as long as dial errors carry the peer id and no trusted peer
\* is removed while it has neither.
THEOREM DisconnectionInProgressCorrect == Spec => [](Reliable => DisconnectionInProgress)
<1>1. PMInv => (Reliable => DisconnectionInProgress)
  BY Zenon DEF PMInv, Attached, DisconnectionInProgress
<1> QED  BY <1>1, PMInvariant, PTL

=============================================================================
