---------------------------- MODULE LocalRecord ----------------------------
(***************************************************************************)
(* What the node publishes about itself: its node record (ENR) of          *)
(* src/discovery/mod.rs and src/discovery/enr.rs, and its metadata of      *)
(* src/service/mod.rs and src/service/utils.rs.                            *)
(*                                                                         *)
(* The record exists three times: discv5's (enr), the copy in the network  *)
(* globals (local_enr) and the file (disk_enr).  The metadata exists in    *)
(* the globals (local_metadata) and in a file (disk_metadata), and its     *)
(* sequence number once more in the RPC behaviour (seq_number), which puts *)
(* it into pings and pongs.                                                *)
(*                                                                         *)
(* A record is a function of its keys.  Bit fields are sets of subnet ids, *)
(* and a fork id is the digest it starts with.  Files are written whole.   *)
(*                                                                         *)
(* An operation changes discv5's record first.  The statements it then has *)
(* still to execute are kept in writes, and each is a step: discv5's task  *)
(* or a crash may come before any of them.  A statement that reads discv5's*)
(* record and writes it somewhere is one step, as only the service's task  *)
(* writes the globals and the files.                                       *)
(***************************************************************************)
EXTENDS Integers, Sequences

CONSTANTS
  AttestationSubnetCount,     \* the length of the attnets bit field
  SyncCommitteeSubnetCount,   \* the length of the syncnets bit field
  custody_requirement,
  peerdas_scheduled,          \* the chain configuration schedules Fulu
  update_ports                \* the keys whose port is not fixed by the
                              \* configuration, of tcp, tcp6, quic and quic6

VARIABLES
  enr, local_enr, disk_enr, event_stream, socket_events,
  local_metadata, disk_metadata, seq_number,
  writes                      \* what the running operation has still to do

enrVars == <<enr, local_enr, disk_enr, writes>>
metadataVars == <<local_metadata, disk_metadata, seq_number>>

NoValue == 0
NoFile == <<>>

-----------------------------------------------------------------------------
(* The record as the enr and discv5 crates keep it.                        *)

enr_insert(e, key, value) == [e EXCEPT ![key] = value, !["seq"] = @ + 1]

update_local_enr_socket(e, socket, is_tcp) ==
  LET ip == IF socket.v6 THEN "ip6" ELSE "ip"
      port == IF is_tcp THEN IF socket.v6 THEN "tcp6" ELSE "tcp"
                        ELSE IF socket.v6 THEN "udp6" ELSE "udp"
  IN  IF e[ip] = socket.ip /\ e[port] = socket.port THEN e
      ELSE [e EXCEPT ![ip] = socket.ip, ![port] = socket.port, !["seq"] = @ + 1]

-----------------------------------------------------------------------------
(* Building the record when the process starts.                            *)

\* The subnet fields start empty whatever they were before.  Network::new always
\* gives a custody group count, so that of a node with all columns is not used.
build_enr(network_config, fork_id, custody_group_count, next_fork_digest) ==
  [key \in {"seq", "ip", "udp", "tcp", "quic", "ip6", "udp6", "tcp6", "quic6",
            "eth2", "attnets", "syncnets", "cgc", "nfd"} |->
     CASE key = "seq" -> 1
       [] key = "eth2" -> fork_id
       [] key \in {"attnets", "syncnets"} -> {}
       [] key = "cgc" -> IF ~peerdas_scheduled THEN NoValue
                         ELSE IF custody_group_count # NoValue
                              THEN custody_group_count
                         ELSE custody_requirement
       [] key = "nfd" -> IF peerdas_scheduled THEN next_fork_digest
                                              ELSE <<NoValue, NoValue>>
       [] OTHER -> network_config[key]]

compare_enr(built, disk) ==
  /\ \A key \in {"ip", "ip6", "udp", "udp6"} :
        built[key] = NoValue \/ built[key] = disk[key]
  /\ \A key \in {"tcp", "tcp6", "quic", "quic6", "eth2", "attnets", "syncnets",
                 "cgc", "nfd"} : built[key] = disk[key]

\* Mutant: a record that replaces the one on disk keeps its sequence number.
use_or_load_enrSameSeq(built, disk) ==
  IF disk = NoFile THEN built
  ELSE IF compare_enr(built, disk) THEN disk
  ELSE [built EXCEPT !["seq"] = disk["seq"]]

use_or_load_enr(built, disk) ==
  IF disk = NoFile THEN built
  ELSE IF compare_enr(built, disk) THEN disk
  ELSE [built EXCEPT !["seq"] = disk["seq"] + 1]

build_or_load_enr(network_config, fork_id, cgc, next_fork_digest, disk) ==
  use_or_load_enr(build_enr(network_config, fork_id, cgc, next_fork_digest), disk)

-----------------------------------------------------------------------------
(* Changes of the record while the process runs.  rest is what the caller  *)
(* does after the operation.                                               *)

Unchanged(rest) == writes' = rest /\ UNCHANGED <<enr, local_enr, disk_enr>>

Insert(key, value, statements) ==
  /\ enr' = enr_insert(enr, key, value)
  /\ writes' = statements
  /\ UNCHANGED <<local_enr, disk_enr>>

update_enr_tcp_port(port, v6) ==
  LET key == IF v6 THEN "tcp6" ELSE "tcp"
  IN  IF enr[key] = port THEN Unchanged(<<>>) ELSE Insert(key, port, <<"globals", "file">>)

\* The second comparison is with the IPv4 port for both families.
update_enr_quic_port(port, v6) ==
  LET key == IF v6 THEN "quic6" ELSE "quic"
  IN  IF port \in {enr[key], enr["quic"]} THEN Unchanged(<<>>)
      ELSE Insert(key, port, <<"globals", "file">>)

update_enr_udp_socket(socket) ==
  LET e == update_local_enr_socket(enr, socket, FALSE)
  IN  /\ enr' = e
      /\ writes' = IF e # enr THEN <<"file", "globals">> ELSE <<"globals">>
      /\ UNCHANGED <<local_enr, disk_enr>>

update_enr_cgc(cgc, rest) == Insert("cgc", cgc, <<"file", "globals">> \o rest)

\* Mutant: the file is not written.
update_enr_bitfieldUnsaved(subnet, value, rest) ==
  LET key == IF subnet.net = "Attestation" THEN "attnets" ELSE "syncnets"
      new == IF value THEN enr[key] \cup {subnet.id} ELSE enr[key] \ {subnet.id}
  IN  IF subnet.net = "DataColumn" \/ new = enr[key] THEN Unchanged(rest)
      ELSE Insert(key, new, <<"globals">> \o rest)

\* A data column subnet has no bit, a subnet out of bounds is an error, and a
\* bit that has the value already changes nothing.
update_enr_bitfield(subnet, value, rest) ==
  LET key == IF subnet.net = "Attestation" THEN "attnets" ELSE "syncnets"
      count == IF subnet.net = "Attestation" THEN AttestationSubnetCount
                                             ELSE SyncCommitteeSubnetCount
      new == IF value THEN enr[key] \cup {subnet.id} ELSE enr[key] \ {subnet.id}
  IN  IF \/ subnet.net = "DataColumn"
         \/ subnet.id >= count
         \/ (subnet.id \in enr[key]) = value
      THEN Unchanged(rest)
      ELSE Insert(key, new, <<"globals", "file">> \o rest)

update_enr_nfd(next_fork_digest) == Insert("nfd", next_fork_digest, <<"globals", "file">>)

update_eth2_enr(fork_id, rest) == Insert("eth2", fork_id, <<"globals", "file">> \o rest)

\* NewListenAddr: only a port the configuration does not fix is published.
on_new_listen_addr(transport, port, v6) ==
  LET key == IF v6 THEN IF transport = "tcp" THEN "tcp6" ELSE "quic6"
                   ELSE transport
  IN  IF key \notin update_ports THEN Unchanged(<<>>)
      ELSE IF transport = "tcp" THEN update_enr_tcp_port(port, v6)
      ELSE update_enr_quic_port(port, v6)

inject_upnp_event(transport, port, v6) ==
  IF transport = "tcp" THEN update_enr_tcp_port(port, v6)
                       ELSE update_enr_quic_port(port, v6)

\* discv5 changes the record itself when the peers it talks to report another
\* address of ours, and says so on its event stream.
SocketUpdate(socket) ==
  /\ update_local_enr_socket(enr, socket, FALSE) # enr
  /\ enr' = update_local_enr_socket(enr, socket, FALSE)
  /\ socket_events' = Append(socket_events, socket)
  /\ UNCHANGED <<local_enr, disk_enr, writes>>

TcpFollows(e, socket) ==
  IF (IF socket.v6 THEN "tcp6" ELSE "tcp") \in update_ports
  THEN update_local_enr_socket(e, socket, TRUE)
  ELSE e

\* The first event is taken from the stream, and the loop goes on when its record
\* is stored.  Nothing is left to do when there is none.
SocketEvent ==
  /\ IF socket_events = <<>>
     THEN writes' = <<>> /\ UNCHANGED <<enr, socket_events>>
     ELSE /\ enr' = TcpFollows(enr, Head(socket_events))
          /\ socket_events' = Tail(socket_events)
          /\ writes' = <<"file", "globals_saved", "events">>
  /\ UNCHANGED <<local_enr, disk_enr>>

\* The last part of Discovery::poll.  The stream that becomes ready is read at
\* the next poll.
PollEventStream ==
  \/ /\ event_stream = "Awaiting"
     /\ event_stream' \in {"Awaiting", "Present", "InActive"}
     /\ UNCHANGED <<enrVars, socket_events>>
  \/ /\ event_stream = "InActive"
     /\ UNCHANGED <<enrVars, socket_events, event_stream>>
  \/ /\ event_stream = "Present"
     /\ SocketEvent
     /\ UNCHANGED event_stream

-----------------------------------------------------------------------------
(* The metadata.                                                           *)

MetaData(version, seq, attnets, syncnets, cgc) ==
  [version |-> version, seq_number |-> seq, attnets |-> attnets,
   syncnets |-> syncnets, custody_group_count |-> cgc]

\* Mutant: the fields that a restart resets do not change the number.
load_or_build_metadataSameSeq(file, custody_group_count) ==
  LET built == MetaData(IF peerdas_scheduled THEN 3 ELSE 2, 0, {}, {},
                        custody_group_count)
  IN  IF file = NoFile THEN built
      ELSE [built EXCEPT !.seq_number = file.seq_number,
                         !.custody_group_count =
                           IF file.version = 3 /\ peerdas_scheduled
                           THEN file.custody_group_count ELSE @]

\* The number goes up when the file differs from the metadata the process
\* starts with, and the custody group count of a version 3 file is kept.
load_or_build_metadata(file, custody_group_count) ==
  LET built == MetaData(IF peerdas_scheduled THEN 3 ELSE 2, 0, {}, {},
                        custody_group_count)
      differs == \/ file.version = 1
                 \/ file.attnets # {}
                 \/ file.syncnets # {}
                 \/ /\ file.version = 3
                    /\ peerdas_scheduled
                    /\ file.custody_group_count # custody_group_count
  IN  IF file = NoFile THEN built
      ELSE [built EXCEPT !.seq_number = file.seq_number + (IF differs THEN 1 ELSE 0),
                         !.custody_group_count =
                           IF file.version = 3 /\ peerdas_scheduled
                           THEN file.custody_group_count ELSE @]

\* The two operations of the service that change a record and the metadata.
update_enr_subnet(subnet, value) ==
  update_enr_bitfield(subnet, value, <<"metadata_bitfields", "metadata_file">>)

update_cgc(cgc) == update_enr_cgc(cgc, <<"metadata_cgc", "metadata_file">>)

-----------------------------------------------------------------------------
(* The statements after the first.                                         *)

Execute(statement) ==
  writes # <<>> /\ Head(writes) = statement /\ writes' = Tail(writes)

replace_local_enr ==
  Execute("globals") /\ local_enr' = enr /\ UNCHANGED <<enr, disk_enr, socket_events, metadataVars>>

save_enr_to_disk ==
  Execute("file") /\ disk_enr' = enr /\ UNCHANGED <<enr, local_enr, socket_events, metadataVars>>

\* poll gives the globals the record that it has saved, not discv5's of the moment.
replace_local_enr_saved ==
  /\ Execute("globals_saved")
  /\ local_enr' = disk_enr
  /\ UNCHANGED <<enr, disk_enr, socket_events, metadataVars>>

next_event ==
  /\ writes # <<>> /\ Head(writes) = "events"
  /\ SocketEvent
  /\ UNCHANGED metadataVars

ReplaceMetadata(m) ==
  /\ local_metadata' = m /\ seq_number' = m.seq_number
  /\ UNCHANGED <<disk_metadata, enr, local_enr, disk_enr, socket_events>>

update_metadata_bitfields ==
  /\ Execute("metadata_bitfields")
  /\ ReplaceMetadata([local_metadata EXCEPT !.seq_number = @ + 1,
                                            !.attnets = enr["attnets"],
                                            !.syncnets = enr["syncnets"]])

\* The count is the one that the record has just got.
update_metadata_cgc ==
  /\ Execute("metadata_cgc")
  /\ ReplaceMetadata([local_metadata EXCEPT
                        !.seq_number = @ + 1,
                        !.custody_group_count = IF @ = NoValue THEN @ ELSE enr["cgc"]])

save_metadata_to_disk ==
  /\ Execute("metadata_file")
  /\ disk_metadata' = local_metadata
  /\ UNCHANGED <<local_metadata, seq_number, enr, local_enr, disk_enr, socket_events>>

ExecuteNext ==
  \/ replace_local_enr \/ save_enr_to_disk \/ replace_local_enr_saved \/ next_event
  \/ update_metadata_bitfields \/ update_metadata_cgc \/ save_metadata_to_disk
=============================================================================
