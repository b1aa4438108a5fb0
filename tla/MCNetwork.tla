----------------------------- MODULE MCNetwork -----------------------------
(***************************************************************************)
(* The network service on a chain that takes each phase an epoch after the *)
(* one before it, with a blob-parameter fork at the end.  A behaviour's    *)
(* budget is spent on one of five occupations, so that each is explored    *)
(* with every interleaving of its own: searches, the record, the metadata  *)
(* and its exchange, topics across two forks, and messages across a fork   *)
(* from each phase.                                                        *)
(***************************************************************************)
EXTENDS Network

Chain == [fork_epoch |-> [p \in Phases |-> p], blob_schedule |-> {8}]

Attestation(i) == [net |-> "Attestation", id |-> i]
SyncCommittee(i) == [net |-> "SyncCommittee", id |-> i]
DataColumn(i) == [net |-> "DataColumn", id |-> i]

ThreeSubnets == {Attestation(0), SyncCommittee(0), DataColumn(0)}
TwoNodes == {"n1", "n2"}
FoundOn == [n \in TwoNodes |-> IF n = "n1" THEN {Attestation(0), SyncCommittee(0)}
                                           ELSE {}]

Options == [light_client |-> TRUE, all_subnets |-> FALSE, all_columns |-> FALSE]

Config(port, socket) ==
  [key \in {"ip", "udp", "tcp", "quic", "ip6", "udp6", "tcp6", "quic6"} |->
     IF key \in {"tcp", "quic"} THEN port
     ELSE IF key \in {"ip", "udp"} THEN socket ELSE NoValue]
TwoConfigs == {Config(1, NoValue), Config(2, 1)}

Idle == [start |-> 6, restarts |-> 0, queries |-> 0, nodes |-> 0, time |-> 0,
         records |-> 0, sockets |-> 0, subnets |-> 0, topics |-> 0, forks |-> 0,
         publishes |-> 0, peers |-> 0, exchange |-> 0, gossip |-> 0,
         configs |-> {Config(1, NoValue)}, custody |-> {1}, files |-> {NoFile}]

Searches == {[Idle EXCEPT !.queries = 3],
             [Idle EXCEPT !.queries = 2, !.nodes = 1, !.time = 1]}
Records == {[Idle EXCEPT !.records = 1, !.sockets = 1, !.subnets = 1, !.restarts = 1],
            [Idle EXCEPT !.records = 1, !.sockets = 1, !.restarts = 1, !.configs = TwoConfigs],
            [Idle EXCEPT !.records = 1, !.subnets = 1, !.restarts = 1, !.configs = TwoConfigs],
            [Idle EXCEPT !.sockets = 1, !.subnets = 1, !.restarts = 1, !.configs = TwoConfigs],
            [Idle EXCEPT !.sockets = 2, !.subnets = 1, !.restarts = 1],
            [Idle EXCEPT !.subnets = 2, !.restarts = 2, !.configs = TwoConfigs]}
Metadata == [Idle EXCEPT !.subnets = 2, !.restarts = 1, !.exchange = 1,
                         !.custody = {1, 2}]
Upgrade == [Idle EXCEPT !.subnets = 1, !.restarts = 1, !.exchange = 1,
                        !.files = {MetaData(1, 3, {0}, {}, NoValue),
                                   MetaData(2, 3, {}, {0}, NoValue)}]
Topics == [Idle EXCEPT !.start = 5, !.topics = 3, !.forks = 2, !.gossip = 1,
                       !.restarts = 1, !.custody = {1, 2}]
Messages(epoch) == [Idle EXCEPT !.start = epoch, !.forks = 1, !.publishes = 2,
                                !.peers = 2, !.gossip = 1]
Followed == [Messages(6) EXCEPT !.publishes = 1, !.peers = 3]

Occupations == Searches \cup Records \cup {Metadata, Upgrade, Topics, Followed}
                 \cup {Messages(e) : e \in 0 .. 8}

TwoSockets == {[v6 |-> FALSE, ip |-> 2, port |-> p] : p \in {2, 3}}
=============================================================================
