--------------------------- MODULE NetworkProofs ---------------------------
(***************************************************************************)
(* The network service (Network) in every reachable state, in three parts. *)
(* The records the node publishes about itself: between operations their   *)
(* copies agree, and no sequence number names two records, crashes in the  *)
(* middle of an operation included.  The messages: what a peer decodes is  *)
(* what was published.  The topics: none is missed across a fork.  Each    *)
(* part has an inductive invariant (RecordInv, DigestInv with CacheInv,    *)
(* CustodyInv with TopicInv), and the later ones use the earlier.          *)
(***************************************************************************)
EXTENDS Network, WellFoundedInduction, TLAPS

-----------------------------------------------------------------------------
(* Changes of a record.                                                    *)

EnrKeys == {"seq", "ip", "udp", "tcp", "quic", "ip6", "udp6", "tcp6", "quic6",
            "eth2", "attnets", "syncnets", "cgc", "nfd"}

\* A record whose number can go up.
Numbered(e) == DOMAIN e = EnrKeys /\ e["seq"] \in Nat

\* What a change of a record keeps: the number goes up unless nothing changes.
Renumbers(e, f) ==
  /\ Numbered(f)
  /\ f["seq"] >= e["seq"]
  /\ f["seq"] = e["seq"] => f = e

\* What the metadata and the service copy from a record.
SameCopied(e, f) == \A key \in {"attnets", "syncnets", "eth2", "cgc"} : f[key] = e[key]

\* Enr::insert changes one key and the number (enr_insert).
LEMMA InsertRenumbers ==
  ASSUME NEW e, NEW key \in EnrKeys \ {"seq"}, NEW value, Numbered(e)
  PROVE  /\ Renumbers(e, enr_insert(e, key, value))
         /\ enr_insert(e, key, value)[key] = value
         /\ \A k \in EnrKeys \ {"seq", key} : enr_insert(e, key, value)[k] = e[k]
BY DEF Numbered, Renumbers, EnrKeys, enr_insert

\* discv5's update of a socket changes an address, a port and the number.
LEMMA SocketRenumbers ==
  ASSUME NEW e, NEW socket, NEW is_tcp, Numbered(e)
  PROVE  /\ Renumbers(e, update_local_enr_socket(e, socket, is_tcp))
         /\ SameCopied(e, update_local_enr_socket(e, socket, is_tcp))
<1> DEFINE ip == IF socket.v6 THEN "ip6" ELSE "ip"
           port == IF is_tcp THEN IF socket.v6 THEN "tcp6" ELSE "tcp"
                             ELSE IF socket.v6 THEN "udp6" ELSE "udp"
           f == [e EXCEPT ![ip] = socket.ip, ![port] = socket.port, !["seq"] = @ + 1]
<1>1. /\ ip \in EnrKeys \ {"seq", "attnets", "syncnets", "eth2", "cgc"}
      /\ port \in EnrKeys \ {"seq", "attnets", "syncnets", "eth2", "cgc"}
  BY Zenon DEF EnrKeys
<1>2. /\ update_local_enr_socket(e, socket, is_tcp) = e
      \/ update_local_enr_socket(e, socket, is_tcp) = f
  BY Zenon DEF update_local_enr_socket
<1> HIDE DEF ip, port
<1>3. Numbered(f) /\ f["seq"] = e["seq"] + 1 /\ SameCopied(e, f)
  BY <1>1 DEF Numbered, SameCopied, EnrKeys
<1>4. Renumbers(e, f) /\ Renumbers(e, e) /\ SameCopied(e, e)
  BY <1>3 DEF Numbered, Renumbers, SameCopied
<1> HIDE DEF f
<1> QED BY Zenon, <1>2, <1>3, <1>4

\* The TCP port that follows discv5's event is such an update, or none.
LEMMA TcpRenumbers ==
  ASSUME NEW e, NEW socket, Numbered(e)
  PROVE  Renumbers(e, TcpFollows(e, socket)) /\ SameCopied(e, TcpFollows(e, socket))
<1>1. Renumbers(e, e) /\ SameCopied(e, e)
  BY DEF Renumbers, SameCopied, Numbered
<1> QED BY Zenon, <1>1, SocketRenumbers DEF TcpFollows

-----------------------------------------------------------------------------
(* What an operation has still to do.                                      *)

Has(w, statement) == \E i \in DOMAIN w : w[i] = statement

\* All that is ever left of an operation.
Plans ==
  {<<>>, <<"globals">>, <<"file">>, <<"globals", "file">>, <<"file", "globals">>,
   <<"globals", "file", "metadata_bitfields", "metadata_file">>,
   <<"file", "metadata_bitfields", "metadata_file">>,
   <<"metadata_bitfields", "metadata_file">>,
   <<"file", "globals", "metadata_cgc", "metadata_file">>,
   <<"globals", "metadata_cgc", "metadata_file">>,
   <<"metadata_cgc", "metadata_file">>, <<"metadata_file">>,
   <<"globals", "file", "fork_id">>, <<"file", "fork_id">>, <<"fork_id">>,
   <<"file", "globals_saved", "events">>, <<"globals_saved", "events">>, <<"events">>}

\* Both copies of the record are written.
Stores(w) == Has(w, "file") /\ (Has(w, "globals") \/ Has(w, "globals_saved"))

Statements == {"globals", "file", "globals_saved", "events", "metadata_bitfields",
               "metadata_cgc", "metadata_file", "fork_id"}

\* A plan of which h comes next and t later.
Splits(w, h, t) == w \in Seq(Statements) /\ w # <<>> /\ Head(w) = h /\ Tail(w) = t

\* What the first statement of a plan may count on.
Proceeds(w) ==
  /\ Tail(w) \in Plans
  /\ \A statement : Has(w, statement) <=> Head(w) = statement \/ Has(Tail(w), statement)
  /\ Head(w) = "globals_saved" => Tail(w) = <<"events">>
  /\ Head(w) \in {"events", "fork_id"} => Tail(w) = <<>>
  /\ Head(w) \in {"metadata_bitfields", "metadata_cgc"} => Tail(w) = <<"metadata_file">>

\* What is done next or later is done.
LEMMA HasNext ==
  ASSUME NEW w \in Seq(Statements), w # <<>>
  PROVE  \A x : Has(w, x) <=> Head(w) = x \/ Has(Tail(w), x)
<1>1. /\ Head(w) = w[1] /\ 1 \in DOMAIN w
      /\ \A i \in DOMAIN Tail(w) : i + 1 \in DOMAIN w /\ Tail(w)[i] = w[i + 1]
      /\ \A i \in DOMAIN w : i # 1 => i - 1 \in DOMAIN Tail(w) /\ w[i] = Tail(w)[i - 1]
  OBVIOUS
<1> QED BY Zenon, <1>1 DEF Has

\* Every plan splits into its next statement and a plan.
LEMMA SplitProceeds ==
  ASSUME NEW w, NEW h, NEW t \in Plans, Splits(w, h, t),
         h = "globals_saved" => t = <<"events">>,
         h \in {"events", "fork_id"} => t = <<>>,
         h \in {"metadata_bitfields", "metadata_cgc"} => t = <<"metadata_file">>
  PROVE  Proceeds(w)
BY Zenon, HasNext DEF Splits, Proceeds

\* In particular where the next statement is one of these.
LEMMA StoreProceeds ==
  ASSUME NEW w, NEW h \in {"globals", "file"}, NEW t \in Plans, Splits(w, h, t)
  PROVE  Proceeds(w)
BY Zenon, SplitProceeds

\* Every plan that is not at its end goes on as it should.
LEMMA PlansProceed ==
  ASSUME NEW w \in Plans, w # <<>>
  PROVE  Proceeds(w)
<1>1. /\ Splits(<<"globals">>, "globals", <<>>)
      /\ Splits(<<"file">>, "file", <<>>)
      /\ Splits(<<"metadata_file">>, "metadata_file", <<>>)
      /\ Splits(<<"fork_id">>, "fork_id", <<>>)
      /\ Splits(<<"events">>, "events", <<>>)
  BY DEF Splits, Statements
<1>2. /\ Splits(<<"globals", "file">>, "globals", <<"file">>)
      /\ Splits(<<"file", "globals">>, "file", <<"globals">>)
      /\ Splits(<<"file", "fork_id">>, "file", <<"fork_id">>)
      /\ Splits(<<"metadata_bitfields", "metadata_file">>, "metadata_bitfields",
                <<"metadata_file">>)
      /\ Splits(<<"metadata_cgc", "metadata_file">>, "metadata_cgc", <<"metadata_file">>)
      /\ Splits(<<"globals_saved", "events">>, "globals_saved", <<"events">>)
  BY DEF Splits, Statements
<1>3. /\ Splits(<<"file", "metadata_bitfields", "metadata_file">>, "file",
                <<"metadata_bitfields", "metadata_file">>)
      /\ Splits(<<"globals", "metadata_cgc", "metadata_file">>, "globals",
                <<"metadata_cgc", "metadata_file">>)
      /\ Splits(<<"globals", "file", "fork_id">>, "globals", <<"file", "fork_id">>)
      /\ Splits(<<"file", "globals_saved", "events">>, "file", <<"globals_saved", "events">>)
  BY DEF Splits, Statements
<1>4. /\ Splits(<<"globals", "file", "metadata_bitfields", "metadata_file">>, "globals",
                <<"file", "metadata_bitfields", "metadata_file">>)
      /\ Splits(<<"file", "globals", "metadata_cgc", "metadata_file">>, "file",
                <<"globals", "metadata_cgc", "metadata_file">>)
  BY DEF Splits, Statements
<1>5. /\ {<<>>, <<"globals">>, <<"file">>, <<"metadata_file">>, <<"fork_id">>, <<"events">>}
           \subseteq Plans
      /\ {<<"metadata_bitfields", "metadata_file">>, <<"metadata_cgc", "metadata_file">>,
          <<"file", "fork_id">>, <<"globals_saved", "events">>} \subseteq Plans
      /\ {<<"file", "metadata_bitfields", "metadata_file">>,
          <<"globals", "metadata_cgc", "metadata_file">>} \subseteq Plans
  BY Zenon DEF Plans
<1>6. /\ Proceeds(<<"globals">>)
      /\ Proceeds(<<"file">>)
      /\ Proceeds(<<"metadata_file">>)
      /\ Proceeds(<<"fork_id">>)
      /\ Proceeds(<<"events">>)
  BY Zenon, <1>1, <1>5, SplitProceeds
<1>7. /\ Proceeds(<<"globals", "file">>)
      /\ Proceeds(<<"file", "globals">>)
      /\ Proceeds(<<"file", "fork_id">>)
      /\ Proceeds(<<"metadata_bitfields", "metadata_file">>)
      /\ Proceeds(<<"metadata_cgc", "metadata_file">>)
      /\ Proceeds(<<"globals_saved", "events">>)
  BY Zenon, <1>2, <1>5, SplitProceeds
<1>8. /\ Proceeds(<<"file", "metadata_bitfields", "metadata_file">>)
      /\ Proceeds(<<"globals", "metadata_cgc", "metadata_file">>)
      /\ Proceeds(<<"globals", "file", "fork_id">>)
      /\ Proceeds(<<"file", "globals_saved", "events">>)
  BY Zenon, <1>3, <1>5, StoreProceeds
<1>9. /\ Proceeds(<<"globals", "file", "metadata_bitfields", "metadata_file">>)
      /\ Proceeds(<<"file", "globals", "metadata_cgc", "metadata_file">>)
  BY Zenon, <1>4, <1>5, StoreProceeds
<1> QED BY Zenon, <1>6, <1>7, <1>8, <1>9 DEF Plans
-----------------------------------------------------------------------------
(* The inductive invariant of the records.                                 *)

MetaKeys == {"version", "seq_number", "attnets", "syncnets", "custody_group_count"}

Typed ==
  /\ Numbered(enr)
  /\ Numbered(disk_enr)
  /\ DOMAIN local_metadata = MetaKeys
  /\ socket_events \in Seq(Sockets)
  /\ writes \in Plans

\* A copy differs only while the statement that writes it is still to come.
Underway ==
  /\ socket_events = <<>> =>
       /\ Has(writes, "file") \/ disk_enr = enr
       /\ Has(writes, "globals") \/ Has(writes, "globals_saved") \/ local_enr = enr
  /\ seq_number = local_metadata.seq_number
  /\ Has(writes, "metadata_file") \/ local_metadata = disk_metadata
  /\ \/ Has(writes, "metadata_bitfields")
     \/ /\ local_metadata.attnets = enr["attnets"]
        /\ local_metadata.syncnets = enr["syncnets"]
  /\ IF Has(writes, "fork_id") THEN enr["eth2"] = current_fork.fork_digest
                               ELSE enr_fork_id = enr["eth2"]

\* Of the records that no crash left behind, none has a higher number than the one
\* discv5 serves, and those with its number or the file's are that record.
Newest ==
  /\ enr \in seen
  /\ \A a \in seen : a["seq"] \in Nat
  /\ disk_enr["seq"] <= enr["seq"]
  /\ \A a \in seen \ lost : /\ a["seq"] <= enr["seq"]
                            /\ a["seq"] = enr["seq"] => a = enr
                            /\ a["seq"] = disk_enr["seq"] => a = disk_enr

RecordInv == Typed /\ Underway /\ Newest /\ SeqNamesRecord

\* Between operations the invariant is what CopiesAgree says.
LEMMA RecordsAgree ==
  ASSUME RecordInv
  PROVE  CopiesAgree
<1>1. Ready => \A x : ~Has(writes, x)
  BY DEF Ready, Has
<1> QED BY Zenon, <1>1 DEF RecordInv, Underway, CopiesAgree

\* The variables the invariant is about.
copies == <<enrVars, socket_events, metadataVars, enr_fork_id, seen, lost>>

\* A step that leaves the copies alone keeps the invariant; the fork context moves
\* only between operations.
LEMMA RecordStutter ==
  ASSUME RecordInv, UNCHANGED copies, Ready \/ UNCHANGED current_fork
  PROVE  RecordInv'
<1>1. Ready => \A x : ~Has(writes, x)
  BY DEF Ready, Has
<1>2. UNCHANGED <<enr, local_enr, disk_enr, writes, socket_events, local_metadata,
                  disk_metadata, seq_number, enr_fork_id, seen, lost>>
  BY Zenon DEF copies, enrVars, metadataVars
<1>3. \A x : Has(writes, x)' <=> Has(writes, x)
  BY Zenon, <1>2 DEF Has
<1>4. Typed'
  BY Zenon, <1>2 DEF RecordInv, Typed, Numbered
<1>5. Underway'
  BY Zenon, <1>1, <1>2, <1>3 DEF RecordInv, Underway
<1>6. Newest' /\ SeqNamesRecord'
  BY Zenon, <1>2 DEF RecordInv, Newest, SeqNamesRecord
<1> QED BY Zenon, <1>4, <1>5, <1>6 DEF RecordInv

\* A record that renumbers the one discv5 serves may follow it.
LEMMA NewestKept ==
  ASSUME Newest, SeqNamesRecord, Numbered(enr), Numbered(disk_enr), Renumbers(enr, enr'),
         seen' = seen \cup {enr'}, lost' = lost, disk_enr' \in {disk_enr, enr'}
  PROVE  Newest' /\ SeqNamesRecord'
<1>1. enr["seq"] \in Nat /\ enr'["seq"] \in Nat /\ disk_enr["seq"] \in Nat
  BY Zenon DEF Numbered, Renumbers
<1>2. /\ enr' \in seen' /\ \A a \in seen' : a["seq"] \in Nat
      /\ disk_enr'["seq"] <= enr'["seq"]
  BY <1>1 DEF Newest, Renumbers
<1>3. ASSUME NEW a \in seen' \ lost'
      PROVE  /\ a["seq"] <= enr'["seq"]
             /\ a["seq"] = enr'["seq"] => a = enr'
             /\ a["seq"] = disk_enr'["seq"] => a = disk_enr'
  <2>1. CASE a = enr'
    <3>1. CASE enr' = enr
      BY <1>1, <2>1, <3>1 DEF Newest
    <3>2. CASE enr' # enr
      BY <1>1, <2>1, <3>2 DEF Newest, Renumbers
    <3> QED BY Zenon, <3>1, <3>2
  <2>2. CASE a \in seen \ lost
    <3>1. /\ a["seq"] \in Nat /\ a["seq"] <= enr["seq"]
          /\ a["seq"] = enr["seq"] => a = enr
          /\ a["seq"] = disk_enr["seq"] => a = disk_enr
      BY Zenon, <2>2 DEF Newest
    <3> QED BY <1>1, <3>1 DEF Renumbers
  <2> QED BY Zenon, <2>1, <2>2
<1>4. Newest'
  BY Zenon, <1>2, <1>3 DEF Newest
<1>5. ASSUME NEW a \in seen' \ lost', NEW b \in seen' \ lost', a["seq"] = b["seq"]
      PROVE  a = b
  <2>1. CASE a \in seen \ lost /\ b \in seen \ lost
    BY Zenon, <1>5, <2>1 DEF SeqNamesRecord
  <2>2. CASE a = enr' \/ b = enr'
    BY Zenon, <1>3, <1>5, <2>2
  <2> QED BY Zenon, <2>1, <2>2
<1> QED BY Zenon, <1>4, <1>5 DEF SeqNamesRecord

-----------------------------------------------------------------------------
(* A process that starts.                                                  *)

\* build_enr: a new record has no subnets.
LEMMA Built ==
  ASSUME NEW network_config, NEW fork_id, NEW cgc, NEW nfd
  PROVE  LET e == build_enr(network_config, fork_id, cgc, nfd)
         IN  /\ Numbered(e)
             /\ e["attnets"] = {} /\ e["syncnets"] = {} /\ e["eth2"] = fork_id
BY Zenon DEF build_enr, Numbered, EnrKeys

\* use_or_load_enr: the record of the file is kept only if its subnets are empty
\* too, and is otherwise replaced under the next number.
LEMMA Loaded ==
  ASSUME NEW built, NEW disk, Numbered(built),
         built["attnets"] = {}, built["syncnets"] = {}, disk # NoFile => Numbered(disk)
  PROVE  LET e == use_or_load_enr(built, disk)
         IN  /\ Numbered(e)
             /\ e["attnets"] = {} /\ e["syncnets"] = {} /\ e["eth2"] = built["eth2"]
             /\ disk # NoFile => Renumbers(disk, e)
<1>1. CASE disk = NoFile
  BY Zenon, <1>1 DEF use_or_load_enr
<1>2. CASE disk # NoFile /\ compare_enr(built, disk)
  <2>1. use_or_load_enr(built, disk) = disk
    BY Zenon, <1>2 DEF use_or_load_enr
  <2>2. disk["attnets"] = {} /\ disk["syncnets"] = {} /\ disk["eth2"] = built["eth2"]
    BY Zenon, <1>2 DEF compare_enr
  <2>3. Numbered(disk) /\ Renumbers(disk, disk)
    BY <1>2 DEF Renumbers, Numbered
  <2> QED BY Zenon, <2>1, <2>2, <2>3
<1>3. CASE disk # NoFile /\ ~compare_enr(built, disk)
  <2> DEFINE e == [built EXCEPT !["seq"] = disk["seq"] + 1]
  <2>1. use_or_load_enr(built, disk) = e
    BY Zenon, <1>3 DEF use_or_load_enr
  <2>2. /\ DOMAIN e = EnrKeys /\ e["seq"] = disk["seq"] + 1
        /\ e["attnets"] = {} /\ e["syncnets"] = {} /\ e["eth2"] = built["eth2"]
    BY Zenon DEF Numbered, EnrKeys
  <2> HIDE DEF e
  <2>3. Numbered(e) /\ Renumbers(disk, e)
    BY <1>3, <2>2 DEF Numbered, Renumbers
  <2> QED BY Zenon, <2>1, <2>2, <2>3
<1> QED BY Zenon, <1>1, <1>2, <1>3

\* load_or_build_metadata: the subnets start empty whatever the file says.
LEMMA MetadataBuilt ==
  ASSUME NEW file, NEW cgc
  PROVE  LET m == load_or_build_metadata(file, cgc)
         IN  DOMAIN m = MetaKeys /\ m.attnets = {} /\ m.syncnets = {}
BY Zenon DEF load_or_build_metadata, MetaData, MetaKeys

\* What a process starts with in a fork of the given digest.
BuiltAtStart(p, digest) ==
  /\ Numbered(p.enr)
  /\ p.enr["attnets"] = {} /\ p.enr["syncnets"] = {}
  /\ p.enr["eth2"] = digest /\ p.enr_fork_id = digest
  /\ DOMAIN p.metadata = MetaKeys
  /\ p.metadata.attnets = {} /\ p.metadata.syncnets = {}

\* Network::new, on whatever files it finds.
LEMMA ProcessStarts ==
  ASSUME NEW network_config, NEW cgc, NEW fork, NEW enr_file, NEW metadata_file,
         enr_file # NoFile => Numbered(enr_file)
  PROVE  LET p == NewProcess(network_config, cgc, fork, enr_file, metadata_file)
         IN  /\ BuiltAtStart(p, fork.fork_digest)
             /\ enr_file # NoFile => Renumbers(enr_file, p.enr)
<1> DEFINE opt == IF peerdas_scheduled THEN cgc ELSE NoValue
           built == build_enr(network_config, fork.fork_digest, opt, next_fork_digest(fork))
           e == use_or_load_enr(built, enr_file)
           m == load_or_build_metadata(metadata_file, opt)
           p == NewProcess(network_config, cgc, fork, enr_file, metadata_file)
<1>1. p.enr = e /\ p.metadata = m /\ p.enr_fork_id = e["eth2"]
  BY Zenon DEF NewProcess, build_or_load_enr
<1> HIDE DEF opt, p
<1>2. /\ Numbered(built) /\ built["attnets"] = {} /\ built["syncnets"] = {}
      /\ built["eth2"] = fork.fork_digest
  BY Built
<1> HIDE DEF built
<1>3. /\ Numbered(e) /\ e["attnets"] = {} /\ e["syncnets"] = {}
      /\ e["eth2"] = built["eth2"]
      /\ enr_file # NoFile => Renumbers(enr_file, e)
  BY Zenon, <1>2, Loaded
<1>4. DOMAIN m = MetaKeys /\ m.attnets = {} /\ m.syncnets = {}
  BY Zenon, MetadataBuilt
<1> HIDE DEF e, m
<1>5. BuiltAtStart(p, fork.fork_digest) /\ (enr_file # NoFile => Renumbers(enr_file, p.enr))
  BY Zenon, <1>1, <1>2, <1>3, <1>4 DEF BuiltAtStart
<1> QED BY Zenon, <1>5 DEF p

-----------------------------------------------------------------------------
(* Every step keeps the invariant.                                         *)

\* All copies are those of the process that starts.
Copied(p) ==
  /\ enr = p.enr /\ local_enr = p.enr /\ disk_enr = p.enr
  /\ local_metadata = p.metadata /\ disk_metadata = p.metadata
  /\ seq_number = p.metadata.seq_number
  /\ enr_fork_id = p.enr_fork_id

\* What a process starts with is typed and equal.
LEMMA CopiedAtStart ==
  ASSUME NEW p, NEW digest, Copied(p), BuiltAtStart(p, digest), socket_events = <<>>, writes = <<>>
  PROVE  Typed /\ Underway
<1>1. Numbered(enr) /\ Numbered(disk_enr) /\ DOMAIN local_metadata = MetaKeys
  BY Zenon DEF Copied, BuiltAtStart
<1>2. <<>> \in Seq(Sockets)
  OBVIOUS
<1>3. <<>> \in Plans
  BY Zenon DEF Plans
<1>4. \A x : ~Has(writes, x)
  BY DEF Has
<1>5. Typed
  BY <1>1, <1>2, <1>3, Zenon DEF Typed
<1>6. Underway
  BY Zenon, <1>4 DEF Underway, Copied, BuiltAtStart
<1> QED BY Zenon, <1>5, <1>6

\* The first process starts with all copies equal.
LEMMA RecordInit == Init => RecordInv
<1> SUFFICES ASSUME Init PROVE RecordInv
  BY Zenon
<1>1. \E network_config \in budget.configs, cgc \in budget.custody, file \in budget.files :
        LET p == NewProcess(network_config, cgc, current_fork, NoFile, file)
        IN  Copied(p) /\ seen = {p.enr}
  BY ZenonT(60) DEF Init, Copied
<1>2. PICK p : Copied(p) /\ seen = {p.enr} /\ BuiltAtStart(p, current_fork.fork_digest)
  BY <1>1, ProcessStarts, Zenon
<1>3. socket_events = <<>> /\ writes = <<>>
  BY Zenon DEF Init
<1>4. Typed /\ Underway
  BY Zenon, <1>2, <1>3, CopiedAtStart
<1>5. Newest /\ SeqNamesRecord
  BY <1>2 DEF Newest, SeqNamesRecord, Copied, BuiltAtStart, Numbered
<1> QED BY Zenon, <1>4, <1>5 DEF RecordInv

\* A process that restarts reads the file.  The records that no crash leaves behind
\* are not newer than it, so that its record may follow them all.
LEMMA RecordRestart ==
  ASSUME RecordInv, Restart
  PROVE  RecordInv'
<1>1. \E network_config \in budget.configs, cgc \in budget.custody :
        LET p == NewProcess(network_config, cgc, current_fork, disk_enr, disk_metadata)
        IN  /\ enr' = p.enr /\ local_enr' = p.enr /\ disk_enr' = p.enr
            /\ local_metadata' = p.metadata /\ disk_metadata' = p.metadata
            /\ seq_number' = p.metadata.seq_number
            /\ enr_fork_id' = p.enr_fork_id
            /\ seen' = seen \cup {p.enr}
  BY ZenonT(60) DEF Restart
<1>2. Numbered(disk_enr) /\ disk_enr # NoFile
  <2>1. "seq" \in DOMAIN disk_enr
    BY Zenon DEF RecordInv, Typed, Numbered, EnrKeys
  <2>2. DOMAIN NoFile = {}
    BY DEF NoFile
  <2> QED BY Zenon, <2>1, <2>2 DEF RecordInv, Typed
<1>3. PICK p : /\ enr' = p.enr /\ local_enr' = p.enr /\ disk_enr' = p.enr
               /\ local_metadata' = p.metadata /\ disk_metadata' = p.metadata
               /\ seq_number' = p.metadata.seq_number
               /\ enr_fork_id' = p.enr_fork_id
               /\ seen' = seen \cup {p.enr}
               /\ BuiltAtStart(p, current_fork.fork_digest)
               /\ Renumbers(disk_enr, p.enr)
  BY <1>1, <1>2, ProcessStarts, Zenon
<1>4. socket_events' = <<>> /\ writes' = <<>> /\ lost' = lost \cup Unsaved
  BY Zenon DEF Restart
<1>5. Typed' /\ Underway'
  <2>1. Numbered(enr') /\ Numbered(disk_enr') /\ DOMAIN local_metadata' = MetaKeys
    BY Zenon, <1>3 DEF BuiltAtStart
  <2>2. <<>> \in Seq(Sockets)
    OBVIOUS
  <2>3. <<>> \in Plans
    BY Zenon DEF Plans
  <2>4. \A x : ~Has(writes', x)
    BY <1>4 DEF Has
  <2>5. Typed'
    BY Zenon, <1>4, <2>1, <2>2, <2>3 DEF Typed, Numbered
  <2>6. Underway'
    BY Zenon, <1>3, <2>4 DEF Underway, BuiltAtStart
  <2> QED BY Zenon, <2>5, <2>6
<1>6. disk_enr["seq"] \in Nat /\ p.enr["seq"] \in Nat /\ enr["seq"] \in Nat
  BY Zenon, <1>2, <1>3 DEF Numbered, BuiltAtStart, RecordInv, Typed
<1>7. \A a \in seen \ lost' : /\ a["seq"] \in Nat /\ a["seq"] <= disk_enr["seq"]
                              /\ a["seq"] = disk_enr["seq"] => a = disk_enr
  <2>1. CASE Ready /\ socket_events = <<>>
    <3>1. disk_enr = enr /\ lost' = lost
      BY Zenon, <1>4, <2>1, RecordsAgree DEF CopiesAgree, Unsaved
    <3> QED BY Zenon, <3>1 DEF RecordInv, Newest
  <2>2. CASE ~(Ready /\ socket_events = <<>>)
    <3>1. lost' = lost \cup {r \in seen : r["seq"] > disk_enr["seq"]}
      BY Zenon, <1>4, <2>2 DEF Unsaved
    <3>2. \A a \in seen : a["seq"] \in Nat
      BY Zenon DEF RecordInv, Newest
    <3>3. \A a \in seen \ lost : a["seq"] = disk_enr["seq"] => a = disk_enr
      BY Zenon DEF RecordInv, Newest
    <3> QED BY <1>6, <3>1, <3>2, <3>3
  <2> QED BY Zenon, <2>1, <2>2
<1>8. \A a \in seen' \ lost' : /\ a["seq"] \in Nat /\ a["seq"] <= p.enr["seq"]
                               /\ a["seq"] = p.enr["seq"] => a = p.enr
  <2> SUFFICES ASSUME NEW a \in seen' \ lost'
               PROVE  /\ a["seq"] \in Nat /\ a["seq"] <= p.enr["seq"]
                      /\ a["seq"] = p.enr["seq"] => a = p.enr
    BY Zenon
  <2>1. CASE a = p.enr
    BY <1>6, <2>1
  <2>2. CASE a \in seen \ lost'
    <3>1. /\ a["seq"] \in Nat /\ a["seq"] <= disk_enr["seq"]
          /\ a["seq"] = disk_enr["seq"] => a = disk_enr
      BY Zenon, <1>7, <2>2
    <3> QED BY <1>3, <1>6, <3>1 DEF Renumbers
  <2> QED BY Zenon, <1>3, <2>1, <2>2
<1>9. Newest'
  <2>1. enr' \in seen' /\ \A a \in seen' : a["seq"] \in Nat
    BY Zenon, <1>3, <1>6 DEF RecordInv, Newest
  <2>2. disk_enr'["seq"] <= enr'["seq"]
    BY <1>3, <1>6
  <2> QED BY Zenon, <1>3, <1>8, <2>1, <2>2 DEF Newest
<1>10. SeqNamesRecord'
  <2> SUFFICES ASSUME NEW a \in seen' \ lost', NEW b \in seen' \ lost', a["seq"] = b["seq"]
               PROVE  a = b
    BY Zenon DEF SeqNamesRecord
  <2>1. CASE a = p.enr \/ b = p.enr
    BY Zenon, <1>8, <2>1
  <2>2. CASE a \in seen \ lost /\ b \in seen \ lost
    BY Zenon, <2>2 DEF RecordInv, SeqNamesRecord
  <2> QED BY Zenon, <1>3, <1>4, <2>1, <2>2
<1> QED BY Zenon, <1>5, <1>9, <1>10 DEF RecordInv

\* The operation before has written all that it should.
Settled == \A x : Has(writes, x) => x = "events"

\* An operation begins: it changes discv5's record and plans the writes that the
\* change calls for.
LEMMA OperationBegins ==
  ASSUME RecordInv, Settled, NEW w \in Plans, writes' = w, Renumbers(enr, enr'),
         seen' = seen \cup {enr'}, socket_events' \in Seq(Sockets),
         UNCHANGED <<local_enr, disk_enr, metadataVars, current_fork, enr_fork_id, lost>>,
         Stores(w) \/ UNCHANGED <<enr, socket_events>>,
         \/ Has(w, "metadata_bitfields")
         \/ enr'["attnets"] = enr["attnets"] /\ enr'["syncnets"] = enr["syncnets"],
         enr'["eth2"] = IF Has(w, "fork_id") THEN current_fork.fork_digest ELSE enr["eth2"]
  PROVE  RecordInv'
<1>1. UNCHANGED <<local_metadata, disk_metadata, seq_number>>
  BY Zenon DEF metadataVars
<1>2. /\ ~Has(writes, "file") /\ ~Has(writes, "globals") /\ ~Has(writes, "globals_saved")
      /\ ~Has(writes, "metadata_file") /\ ~Has(writes, "metadata_bitfields")
      /\ ~Has(writes, "fork_id")
  BY Zenon DEF Settled
<1>3. Typed'
  BY Zenon, <1>1 DEF RecordInv, Typed, Renumbers, Numbered
<1>4. Underway'
  <2>1. /\ socket_events = <<>> => disk_enr = enr /\ local_enr = enr
        /\ seq_number = local_metadata.seq_number /\ local_metadata = disk_metadata
        /\ local_metadata.attnets = enr["attnets"] /\ local_metadata.syncnets = enr["syncnets"]
        /\ enr_fork_id = enr["eth2"]
    BY Zenon, <1>2 DEF RecordInv, Underway
  <2> QED BY Zenon, <1>1, <2>1 DEF Underway, Stores
<1>5. Newest' /\ SeqNamesRecord'
  BY Zenon, NewestKept DEF RecordInv, Typed
<1> QED BY Zenon, <1>3, <1>4, <1>5 DEF RecordInv

\* A sequence that begins with the one and goes on with the other is both joined.
LEMMA Joined ==
  ASSUME NEW S, NEW s \in Seq(S), NEW t \in Seq(S), NEW u \in Seq(S), Len(u) = Len(s) + Len(t),
         \A i \in 1 .. Len(s) : u[i] = s[i], \A i \in 1 .. Len(t) : u[Len(s) + i] = t[i]
  PROVE  s \o t = u
<1>1. /\ s \o t \in Seq(S) /\ Len(s \o t) = Len(s) + Len(t)
         /\ \A i \in 1 .. Len(s) + Len(t) :
              (s \o t)[i] = IF i <= Len(s) THEN s[i] ELSE t[i - Len(s)]
  OBVIOUS
<1>2. ASSUME NEW i \in 1 .. Len(u) PROVE (s \o t)[i] = u[i]
  <2>1. CASE i <= Len(s)
    BY <1>1, <2>1
  <2>2. CASE i > Len(s)
    <3>1. i - Len(s) \in 1 .. Len(t) /\ Len(s) + (i - Len(s)) = i
      BY <2>2
    <3>2. u[i] = t[i - Len(s)]
      BY <3>1
    <3> QED BY <1>1, <2>2, <3>2
  <2> QED BY <2>1, <2>2
<1> QED BY <1>1, <1>2

\* Two statements and one more.
LEMMA JoinedOne ==
  ASSUME NEW a \in Statements, NEW b \in Statements, NEW c \in Statements
  PROVE  <<a, b>> \o <<c>> = <<a, b, c>>
<1>1. <<a, b>> \in Seq(Statements) /\ <<c>> \in Seq(Statements) /\ <<a, b, c>> \in Seq(Statements)
  OBVIOUS
<1>2. /\ Len(<<a, b, c>>) = Len(<<a, b>>) + Len(<<c>>)
      /\ \A i \in 1 .. Len(<<a, b>>) : <<a, b, c>>[i] = <<a, b>>[i]
  OBVIOUS
<1>3. \A i \in 1 .. Len(<<c>>) : <<a, b, c>>[Len(<<a, b>>) + i] = <<c>>[i]
  OBVIOUS
<1> QED BY Zenon, <1>1, <1>2, <1>3, Joined

\* Two statements and two more.
LEMMA JoinedTwo ==
  ASSUME NEW a \in Statements, NEW b \in Statements, NEW c \in Statements,
         NEW d \in Statements
  PROVE  <<a, b>> \o <<c, d>> = <<a, b, c, d>>
<1>1. <<a, b>> \in Seq(Statements) /\ <<c, d>> \in Seq(Statements) /\ <<a, b, c, d>> \in Seq(Statements)
  OBVIOUS
<1>2. /\ Len(<<a, b, c, d>>) = Len(<<a, b>>) + Len(<<c, d>>)
      /\ \A i \in 1 .. Len(<<a, b>>) : <<a, b, c, d>>[i] = <<a, b>>[i]
  OBVIOUS
<1>3. \A i \in 1 .. Len(<<c, d>>) : <<a, b, c, d>>[Len(<<a, b>>) + i] = <<c, d>>[i]
  OBVIOUS
<1> QED BY Zenon, <1>1, <1>2, <1>3, Joined

\* The plans that operations begin with.
LEMMA FirstPlans ==
  /\ {<<>>, <<"globals">>, <<"globals", "file">>, <<"file", "globals">>,
      <<"metadata_bitfields", "metadata_file">>,
      <<"globals", "file", "metadata_bitfields", "metadata_file">>,
      <<"file", "globals", "metadata_cgc", "metadata_file">>,
      <<"globals", "file", "fork_id">>,
      <<"file", "globals_saved", "events">>} \subseteq Plans
  /\ \A x : ~Has(<<>>, x)
  /\ \A x : Has(<<"globals">>, x) <=> x = "globals"
  /\ \A x : Has(<<"metadata_bitfields", "metadata_file">>, x) <=>
              x \in {"metadata_bitfields", "metadata_file"}
  /\ \A x : Has(<<"globals", "file">>, x) <=> x \in {"globals", "file"}
  /\ \A x : Has(<<"file", "globals">>, x) <=> x \in {"globals", "file"}
  /\ \A x : Has(<<"globals", "file", "metadata_bitfields", "metadata_file">>, x) <=>
              x \in {"globals", "file", "metadata_bitfields", "metadata_file"}
  /\ \A x : Has(<<"file", "globals", "metadata_cgc", "metadata_file">>, x) <=>
              x \in {"file", "globals", "metadata_cgc", "metadata_file"}
  /\ \A x : Has(<<"globals", "file", "fork_id">>, x) <=> x \in {"globals", "file", "fork_id"}
  /\ \A x : Has(<<"file", "globals_saved", "events">>, x) <=>
              x \in {"file", "globals_saved", "events"}
<1>1. \A x : ~Has(<<>>, x)
  BY DEF Has
<1>2. \A x : Has(<<"globals">>, x) <=> x = "globals"
  BY DEF Has
<1>3. ASSUME NEW a, NEW b, NEW x
      PROVE  Has(<<a, b>>, x) <=> x \in {a, b}
  <2>1. \A i \in DOMAIN <<a, b>> : <<a, b>>[i] \in {a, b}
    OBVIOUS
  <2>2. {1, 2} \subseteq DOMAIN <<a, b>> /\ <<a, b>>[1] = a /\ <<a, b>>[2] = b
    OBVIOUS
  <2> QED BY Zenon, <2>1, <2>2 DEF Has
<1>4. ASSUME NEW a, NEW b, NEW c, NEW x
      PROVE  Has(<<a, b, c>>, x) <=> x \in {a, b, c}
  <2>1. \A i \in DOMAIN <<a, b, c>> : <<a, b, c>>[i] \in {a, b, c}
    OBVIOUS
  <2>2. {1, 2, 3} \subseteq DOMAIN <<a, b, c>>
        /\ <<a, b, c>>[1] = a /\ <<a, b, c>>[2] = b /\ <<a, b, c>>[3] = c
    OBVIOUS
  <2> QED BY Zenon, <2>1, <2>2 DEF Has
<1>5. ASSUME NEW a, NEW b, NEW c, NEW d, NEW x
      PROVE  Has(<<a, b, c, d>>, x) <=> x \in {a, b, c, d}
  <2>1. \A i \in DOMAIN <<a, b, c, d>> : <<a, b, c, d>>[i] \in {a, b, c, d}
    OBVIOUS
  <2>2. {1, 2, 3, 4} \subseteq DOMAIN <<a, b, c, d>>
        /\ <<a, b, c, d>>[1] = a /\ <<a, b, c, d>>[2] = b /\ <<a, b, c, d>>[3] = c
        /\ <<a, b, c, d>>[4] = d
    OBVIOUS
  <2> QED BY Zenon, <2>1, <2>2 DEF Has
<1>6. {<<>>, <<"globals">>, <<"globals", "file">>, <<"file", "globals">>,
       <<"metadata_bitfields", "metadata_file">>,
       <<"globals", "file", "metadata_bitfields", "metadata_file">>,
       <<"file", "globals", "metadata_cgc", "metadata_file">>,
       <<"globals", "file", "fork_id">>,
       <<"file", "globals_saved", "events">>} \subseteq Plans
  BY Zenon DEF Plans
<1>7. /\ \A x : Has(<<"metadata_bitfields", "metadata_file">>, x) <=>
                  x \in {"metadata_bitfields", "metadata_file"}
      /\ \A x : Has(<<"globals", "file">>, x) <=> x \in {"globals", "file"}
      /\ \A x : Has(<<"file", "globals">>, x) <=> x \in {"globals", "file"}
  BY Zenon, <1>3
<1>8. /\ \A x : Has(<<"globals", "file", "fork_id">>, x) <=> x \in {"globals", "file", "fork_id"}
      /\ \A x : Has(<<"file", "globals_saved", "events">>, x) <=>
                  x \in {"file", "globals_saved", "events"}
  BY Zenon, <1>4
<1>9. /\ \A x : Has(<<"globals", "file", "metadata_bitfields", "metadata_file">>, x) <=>
                  x \in {"globals", "file", "metadata_bitfields", "metadata_file"}
      /\ \A x : Has(<<"file", "globals", "metadata_cgc", "metadata_file">>, x) <=>
                  x \in {"file", "globals", "metadata_cgc", "metadata_file"}
  BY Zenon, <1>5
<1> QED BY Zenon, <1>1, <1>2, <1>6, <1>7, <1>8, <1>9

\* What an operation leaves alone when it begins.
Untouched == /\ seen' = seen \cup {enr'}
             /\ UNCHANGED <<local_enr, disk_enr, metadataVars, current_fork, enr_fork_id, lost>>

\* Between operations nothing is left to write.
LEMMA ReadySettled ==
  ASSUME Ready
  PROVE  Settled
BY DEF Ready, Settled, Has

\* An operation that leaves discv5's record alone, and only copies it.
LEMMA OperationCopies ==
  ASSUME RecordInv, Settled, Untouched, UNCHANGED <<enr, socket_events>>,
         writes' \in {<<>>, <<"globals">>, <<"metadata_bitfields", "metadata_file">>}
  PROVE  RecordInv'
<1> DEFINE w == writes'
<1>1. w \in Plans /\ ~Has(w, "fork_id")
  BY Zenon, FirstPlans
<1>2. Renumbers(enr, enr') /\ socket_events' \in Seq(Sockets)
  BY DEF Renumbers, Numbered, RecordInv, Typed
<1>3. enr'["eth2"] = IF Has(w, "fork_id") THEN current_fork.fork_digest ELSE enr["eth2"]
  BY Zenon, <1>1
<1> QED BY Zenon, <1>1, <1>2, <1>3, OperationBegins DEF Untouched

\* An operation that changes a key that nobody copies, and stores the record.
LEMMA OperationInserts ==
  ASSUME RecordInv, Settled, Untouched, UNCHANGED socket_events,
         NEW key \in EnrKeys \ {"seq", "attnets", "syncnets", "eth2"}, NEW value,
         enr' = enr_insert(enr, key, value),
         writes' \in {<<"globals", "file">>, <<"file", "globals", "metadata_cgc", "metadata_file">>}
  PROVE  RecordInv'
<1> DEFINE w == writes'
<1>1. w \in Plans /\ Stores(w) /\ ~Has(w, "fork_id")
  BY Zenon, FirstPlans DEF Stores
<1>2. /\ Renumbers(enr, enr')
      /\ \A k \in EnrKeys \ {"seq", key} : enr'[k] = enr[k]
  BY InsertRenumbers DEF RecordInv, Typed
<1>3. {"attnets", "syncnets", "eth2"} \subseteq EnrKeys \ {"seq", key}
  BY Zenon DEF EnrKeys
<1>4. enr'["attnets"] = enr["attnets"] /\ enr'["syncnets"] = enr["syncnets"]
  BY Zenon, <1>2, <1>3
<1>5. enr'["eth2"] = IF Has(w, "fork_id") THEN current_fork.fork_digest ELSE enr["eth2"]
  BY Zenon, <1>1, <1>2, <1>3
<1>6. socket_events' \in Seq(Sockets)
  BY Zenon DEF RecordInv, Typed
<1> QED BY Zenon, <1>1, <1>2, <1>4, <1>5, <1>6, OperationBegins DEF Untouched

\* An operation that changes a socket, and stores the record.
LEMMA OperationFollows ==
  ASSUME RecordInv, Settled, Untouched, socket_events' \in Seq(Sockets),
         Renumbers(enr, enr'), SameCopied(enr, enr'),
         writes' \in {<<"file", "globals">>, <<"file", "globals_saved", "events">>}
  PROVE  RecordInv'
<1> DEFINE w == writes'
<1>1. w \in Plans /\ Stores(w) /\ ~Has(w, "fork_id")
  BY Zenon, FirstPlans DEF Stores
<1>2. enr'["attnets"] = enr["attnets"] /\ enr'["syncnets"] = enr["syncnets"]
  BY Zenon DEF SameCopied
<1>3. enr'["eth2"] = IF Has(w, "fork_id") THEN current_fork.fork_digest ELSE enr["eth2"]
  BY Zenon, <1>1 DEF SameCopied
<1> QED BY Zenon, <1>1, <1>2, <1>3, OperationBegins DEF Untouched

\* Discovery::poll takes an event of discv5's, or ends.
LEMMA RecordEvent ==
  ASSUME RecordInv, Settled, Untouched, SocketEvent
  PROVE  RecordInv'
<1>1. CASE socket_events = <<>>
  <2>1. writes' = <<>> /\ UNCHANGED <<enr, socket_events>>
    BY Zenon, <1>1 DEF SocketEvent
  <2> QED BY Zenon, <2>1, OperationCopies
<1>2. CASE socket_events # <<>>
  <2>1. /\ enr' = TcpFollows(enr, Head(socket_events))
        /\ socket_events' = Tail(socket_events)
        /\ writes' = <<"file", "globals_saved", "events">>
    BY Zenon, <1>2 DEF SocketEvent
  <2>2. Renumbers(enr, enr') /\ SameCopied(enr, enr')
    BY Zenon, <2>1, TcpRenumbers DEF RecordInv, Typed
  <2>3. socket_events' \in Seq(Sockets)
    BY <1>2, <2>1 DEF RecordInv, Typed
  <2> QED BY Zenon, <2>1, <2>2, <2>3, OperationFollows
<1> QED BY Zenon, <1>1, <1>2

\* A poll begins with the first event, or leaves the records alone.
LEMMA RecordPoll ==
  ASSUME RecordInv, Poll
  PROVE  RecordInv'
<1>1. /\ Settled /\ seen' = seen \cup {enr'}
      /\ UNCHANGED <<metadataVars, current_fork, enr_fork_id, lost>>
  BY Zenon, ReadySettled DEF Poll, forkVars
<1>2. CASE UNCHANGED <<enrVars, socket_events>>
  <2>1. UNCHANGED <<enr, local_enr, disk_enr>> /\ writes' = <<>>
    BY Zenon, <1>2 DEF enrVars, Poll, Ready
  <2> QED BY Zenon, <1>1, <1>2, <2>1, OperationCopies DEF Untouched
<1>3. CASE SocketEvent
  <2>1. UNCHANGED <<local_enr, disk_enr>>
    BY Zenon, <1>3 DEF SocketEvent
  <2> QED BY Zenon, <1>1, <1>3, <2>1, RecordEvent DEF Untouched
<1> QED BY Zenon, <1>2, <1>3 DEF Poll, PollEventStream

\* New listen addresses and UPnP mappings.
LEMMA RecordListen ==
  ASSUME RecordInv, NewListenAddr
  PROVE  RecordInv'
<1>1. /\ Settled /\ seen' = seen \cup {enr'}
      /\ UNCHANGED <<socket_events, metadataVars, current_fork, enr_fork_id, lost>>
  BY Zenon, ReadySettled DEF NewListenAddr, NotRecords, forkVars
<1>2. \/ Unchanged(<<>>)
      \/ \E key \in {"tcp", "tcp6", "quic", "quic6"}, port \in Ports :
           Insert(key, port, <<"globals", "file">>)
  BY DEF NewListenAddr, on_new_listen_addr, inject_upnp_event, update_enr_tcp_port,
         update_enr_quic_port
<1>3. CASE Unchanged(<<>>)
  BY Zenon, <1>1, <1>3, OperationCopies DEF Unchanged, Untouched
<1>4. ASSUME NEW key \in {"tcp", "tcp6", "quic", "quic6"}, NEW port \in Ports,
             Insert(key, port, <<"globals", "file">>)
      PROVE  RecordInv'
  <2>1. key \in EnrKeys \ {"seq", "attnets", "syncnets", "eth2"}
    BY Zenon DEF EnrKeys
  <2>2. Untouched
    BY Zenon, <1>1, <1>4 DEF Insert, Untouched
  <2>3. enr' = enr_insert(enr, key, port) /\ writes' = <<"globals", "file">>
    BY Zenon, <1>4 DEF Insert
  <2> QED BY Zenon, <1>1, <2>1, <2>2, <2>3, OperationInserts
<1> QED BY Zenon, <1>2, <1>3, <1>4

\* The application's own address: the file is written when the record changes.
LEMMA RecordUdp ==
  ASSUME RecordInv, UpdateUdpSocket
  PROVE  RecordInv'
<1>1. /\ Settled /\ seen' = seen \cup {enr'}
      /\ UNCHANGED <<socket_events, metadataVars, current_fork, enr_fork_id, lost>>
  BY Zenon, ReadySettled DEF UpdateUdpSocket, NotRecords, forkVars
<1>2. PICK socket \in Sockets : update_enr_udp_socket(socket)
  BY Zenon DEF UpdateUdpSocket
<1>3. /\ enr' = update_local_enr_socket(enr, socket, FALSE)
      /\ writes' = IF enr' # enr THEN <<"file", "globals">> ELSE <<"globals">>
      /\ UNCHANGED <<local_enr, disk_enr>>
  BY Zenon, <1>2 DEF update_enr_udp_socket
<1>4. Renumbers(enr, enr') /\ SameCopied(enr, enr') /\ socket_events' \in Seq(Sockets)
  BY Zenon, <1>1, <1>3, SocketRenumbers DEF RecordInv, Typed
<1>5. Untouched
  BY Zenon, <1>1, <1>3 DEF Untouched
<1>6. CASE enr' = enr
  BY Zenon, <1>1, <1>3, <1>5, <1>6, OperationCopies
<1>7. CASE enr' # enr
  BY Zenon, <1>1, <1>3, <1>4, <1>5, <1>7, OperationFollows
<1> QED BY Zenon, <1>6, <1>7

\* discv5 changes its own record, during an operation or not, and leaves an event.
LEMMA RecordSocket ==
  ASSUME RecordInv, SocketUpdated
  PROVE  RecordInv'
<1>1. seen' = seen \cup {enr'} /\ UNCHANGED <<metadataVars, current_fork, enr_fork_id, lost>>
  BY Zenon DEF SocketUpdated, NotRecords, forkVars
<1>2. PICK socket \in Sockets : SocketUpdate(socket)
  BY Zenon DEF SocketUpdated
<1>3. /\ enr' = update_local_enr_socket(enr, socket, FALSE)
      /\ socket_events' = Append(socket_events, socket)
      /\ UNCHANGED <<local_enr, disk_enr, writes>>
  BY Zenon, <1>2 DEF SocketUpdate
<1>4. Renumbers(enr, enr') /\ SameCopied(enr, enr')
  BY Zenon, <1>3, SocketRenumbers DEF RecordInv, Typed
<1>5. socket_events' \in Seq(Sockets) /\ socket_events' # <<>>
  BY <1>3 DEF RecordInv, Typed
<1>6. Typed'
  BY Zenon, <1>1, <1>3, <1>4, <1>5 DEF RecordInv, Typed, Renumbers, Numbered, metadataVars
<1>7. /\ enr'["attnets"] = enr["attnets"] /\ enr'["syncnets"] = enr["syncnets"]
      /\ enr'["eth2"] = enr["eth2"]
  BY Zenon, <1>4 DEF SameCopied
<1>8. \A x : Has(writes, x)' <=> Has(writes, x)
  BY Zenon, <1>3 DEF Has
<1>9. Underway'
  BY Zenon, <1>1, <1>3, <1>5, <1>7, <1>8 DEF RecordInv, Underway, metadataVars
<1>10. Newest' /\ SeqNamesRecord'
  BY Zenon, <1>1, <1>3, <1>4, NewestKept DEF RecordInv, Typed
<1> QED BY Zenon, <1>6, <1>9, <1>10 DEF RecordInv

\* A bit of a subnet field; the metadata are to follow.
LEMMA RecordSubnet ==
  ASSUME RecordInv, UpdateEnrSubnet
  PROVE  RecordInv'
<1> DEFINE rest == <<"metadata_bitfields", "metadata_file">>
           plan == <<"globals", "file", "metadata_bitfields", "metadata_file">>
<1>1. /\ Settled /\ seen' = seen \cup {enr'}
      /\ UNCHANGED <<socket_events, metadataVars, current_fork, enr_fork_id, lost>>
  BY Zenon, ReadySettled DEF UpdateEnrSubnet, NotRecords, forkVars
<1>2. <<"globals", "file">> \o rest = plan
  BY Zenon, JoinedTwo DEF Statements
<1>3. \/ Unchanged(rest)
      \/ \E key \in {"attnets", "syncnets"} : \E bits : Insert(key, bits, <<"globals", "file">> \o rest)
  BY Zenon DEF UpdateEnrSubnet, update_enr_subnet, update_enr_bitfield
<1>4. CASE Unchanged(rest)
  BY Zenon, <1>1, <1>4, OperationCopies DEF Unchanged, Untouched
<1>5. ASSUME NEW key \in {"attnets", "syncnets"}, NEW bits,
             Insert(key, bits, <<"globals", "file">> \o rest)
      PROVE  RecordInv'
  <2>1. enr' = enr_insert(enr, key, bits) /\ writes' = plan /\ UNCHANGED <<local_enr, disk_enr>>
    BY Zenon, <1>2, <1>5 DEF Insert
  <2>2. plan \in Plans /\ Stores(plan) /\ ~Has(plan, "fork_id") /\ Has(plan, "metadata_bitfields")
    BY Zenon, FirstPlans DEF Stores
  <2>3. key \in EnrKeys \ {"seq"} /\ "eth2" \in EnrKeys \ {"seq", key}
    BY Zenon DEF EnrKeys
  <2>4. Renumbers(enr, enr') /\ enr'["eth2"] = enr["eth2"]
    BY <2>1, <2>3, InsertRenumbers DEF RecordInv, Typed
  <2>5. enr'["eth2"] = IF Has(plan, "fork_id") THEN current_fork.fork_digest ELSE enr["eth2"]
    BY Zenon, <2>2, <2>4
  <2>6. socket_events' \in Seq(Sockets)
    BY Zenon, <1>1 DEF RecordInv, Typed
  <2> HIDE DEF plan
  <2> QED BY Zenon, <1>1, <2>1, <2>2, <2>4, <2>5, <2>6, OperationBegins
<1> QED BY Zenon, <1>3, <1>4, <1>5

\* The custody group count; the metadata are to follow.
LEMMA RecordCgc ==
  ASSUME RecordInv, UpdateEnrCgc
  PROVE  RecordInv'
<1>1. /\ Settled /\ seen' = seen \cup {enr'}
      /\ UNCHANGED <<socket_events, metadataVars, current_fork, enr_fork_id, lost>>
  BY Zenon, ReadySettled DEF UpdateEnrCgc, NotRecords, forkVars
<1>2. <<"file", "globals">> \o <<"metadata_cgc", "metadata_file">> =
        <<"file", "globals", "metadata_cgc", "metadata_file">>
  BY Zenon, JoinedTwo DEF Statements
<1>3. PICK cgc \in budget.custody :
        Insert("cgc", cgc, <<"file", "globals", "metadata_cgc", "metadata_file">>)
  BY Zenon, <1>2 DEF UpdateEnrCgc, update_cgc, update_enr_cgc
<1>4. "cgc" \in EnrKeys \ {"seq", "attnets", "syncnets", "eth2"}
  BY Zenon DEF EnrKeys
<1>5. Untouched
  BY Zenon, <1>1, <1>3 DEF Insert, Untouched
<1>6. /\ enr' = enr_insert(enr, "cgc", cgc)
      /\ writes' = <<"file", "globals", "metadata_cgc", "metadata_file">>
  BY Zenon, <1>3 DEF Insert
<1> QED BY Zenon, <1>1, <1>4, <1>5, <1>6, OperationInserts

\* The fork id; the service's own digest is to follow.
LEMMA RecordForkVersion ==
  ASSUME RecordInv, update_fork_version
  PROVE  RecordInv'
<1> DEFINE plan == <<"globals", "file", "fork_id">>
<1>1. /\ Settled /\ seen' = seen \cup {enr'}
      /\ UNCHANGED <<socket_events, metadataVars, current_fork, enr_fork_id, lost>>
  BY Zenon, ReadySettled DEF update_fork_version, NotTopics, forkVars
<1>2. <<"globals", "file">> \o <<"fork_id">> = plan
  BY Zenon, JoinedOne DEF Statements
<1>3. /\ enr' = enr_insert(enr, "eth2", current_fork.fork_digest) /\ writes' = plan
      /\ UNCHANGED <<local_enr, disk_enr>>
  BY Zenon, <1>2 DEF update_fork_version, update_eth2_enr, Insert
<1>4. plan \in Plans /\ Stores(plan) /\ Has(plan, "fork_id")
  BY Zenon, FirstPlans DEF Stores
<1>5. /\ "eth2" \in EnrKeys \ {"seq"}
      /\ {"attnets", "syncnets"} \subseteq EnrKeys \ {"seq", "eth2"}
  BY Zenon DEF EnrKeys
<1>6. /\ Renumbers(enr, enr') /\ enr'["eth2"] = current_fork.fork_digest
      /\ \A k \in EnrKeys \ {"seq", "eth2"} : enr'[k] = enr[k]
  BY <1>3, <1>5, InsertRenumbers DEF RecordInv, Typed
<1>7. enr'["attnets"] = enr["attnets"] /\ enr'["syncnets"] = enr["syncnets"]
  BY Zenon, <1>5, <1>6
<1>8. enr'["eth2"] = IF Has(plan, "fork_id") THEN current_fork.fork_digest ELSE enr["eth2"]
  BY Zenon, <1>4, <1>6
<1>9. socket_events' \in Seq(Sockets)
  BY Zenon, <1>1 DEF RecordInv, Typed
<1> HIDE DEF plan
<1> QED BY Zenon, <1>1, <1>3, <1>4, <1>6, <1>7, <1>8, <1>9, OperationBegins

\* The next fork digest goes to the record alone.
LEMMA RecordNfd ==
  ASSUME RecordInv, update_nfd
  PROVE  RecordInv'
<1>1. /\ Settled /\ seen' = seen \cup {enr'}
      /\ UNCHANGED <<socket_events, metadataVars, current_fork, enr_fork_id, lost>>
  BY Zenon, ReadySettled DEF update_nfd, NotTopics
<1>2. Insert("nfd", next_fork_digest(current_fork), <<"globals", "file">>)
  BY Zenon DEF update_nfd, update_enr_nfd
<1>3. "nfd" \in EnrKeys \ {"seq", "attnets", "syncnets", "eth2"}
  BY Zenon DEF EnrKeys
<1>4. Untouched
  BY Zenon, <1>1, <1>2 DEF Insert, Untouched
<1>5. /\ enr' = enr_insert(enr, "nfd", next_fork_digest(current_fork))
      /\ writes' = <<"globals", "file">>
  BY Zenon, <1>2 DEF Insert
<1> QED BY Zenon, <1>1, <1>3, <1>4, <1>5, OperationInserts

\* The rest of a plan after a statement.
LEMMA PlanGoesOn ==
  ASSUME RecordInv, NEW statement, Execute(statement)
  PROVE  /\ writes' \in Plans
         /\ \A x : Has(writes, x) <=> x = statement \/ Has(writes', x)
         /\ statement = "globals_saved" => writes' = <<"events">>
         /\ statement \in {"events", "fork_id"} => writes' = <<>>
         /\ statement \in {"metadata_bitfields", "metadata_cgc"} => writes' = <<"metadata_file">>
<1>1. Proceeds(writes) /\ Head(writes) = statement /\ writes' = Tail(writes)
  BY Zenon, PlansProceed DEF RecordInv, Typed, Execute
<1> QED BY Zenon, <1>1 DEF Proceeds

\* A statement that writes a copy of the record.
LEMMA RecordWritten ==
  ASSUME RecordInv, replace_local_enr \/ save_enr_to_disk \/ replace_local_enr_saved,
         seen' = seen \cup {enr'}, UNCHANGED <<current_fork, enr_fork_id, lost>>
  PROVE  RecordInv'
<1>1. PICK statement \in {"globals", "file", "globals_saved"} :
        /\ Execute(statement)
        /\ local_enr' = IF statement = "globals" THEN enr
                        ELSE IF statement = "globals_saved" THEN disk_enr ELSE local_enr
        /\ disk_enr' = IF statement = "file" THEN enr ELSE disk_enr
        /\ UNCHANGED <<enr, socket_events, metadataVars>>
  BY Zenon DEF replace_local_enr, save_enr_to_disk, replace_local_enr_saved
<1>2. /\ writes' \in Plans
      /\ \A x : Has(writes, x) <=> x = statement \/ Has(writes', x)
      /\ statement = "globals_saved" => writes' = <<"events">>
  BY Zenon, <1>1, PlanGoesOn
<1>3. ~Has(<<"events">>, "file")
  BY DEF Has
<1>4. Typed'
  BY Zenon, <1>1, <1>2 DEF RecordInv, Typed, Numbered, metadataVars
<1>5. Underway'
  BY Zenon, <1>1, <1>2, <1>3 DEF RecordInv, Underway, metadataVars
<1>6. Renumbers(enr, enr')
  BY <1>1 DEF RecordInv, Typed, Renumbers, Numbered
<1>7. Newest' /\ SeqNamesRecord'
  BY Zenon, <1>1, <1>6, NewestKept DEF RecordInv, Typed
<1> QED BY Zenon, <1>4, <1>5, <1>7 DEF RecordInv

\* A statement that changes the metadata, or writes their file.
LEMMA MetadataWritten ==
  ASSUME RecordInv,
         update_metadata_bitfields \/ update_metadata_cgc \/ save_metadata_to_disk,
         seen' = seen \cup {enr'}, UNCHANGED <<current_fork, enr_fork_id, lost>>
  PROVE  RecordInv'
<1> DEFINE Same == /\ local_metadata'.attnets = local_metadata.attnets
                   /\ local_metadata'.syncnets = local_metadata.syncnets
<1>1. PICK statement \in {"metadata_bitfields", "metadata_cgc", "metadata_file"} :
        /\ Execute(statement) /\ UNCHANGED <<enr, local_enr, disk_enr, socket_events>>
        /\ DOMAIN local_metadata' = MetaKeys /\ seq_number' = local_metadata'.seq_number
        /\ statement = "metadata_file" => local_metadata' = disk_metadata'
        /\ IF statement = "metadata_bitfields"
           THEN /\ local_metadata'.attnets = enr["attnets"]
                /\ local_metadata'.syncnets = enr["syncnets"]
           ELSE Same
  <2>1. CASE update_metadata_bitfields
    BY Zenon, <2>1 DEF RecordInv, Typed, MetaKeys, update_metadata_bitfields, ReplaceMetadata
  <2>2. CASE update_metadata_cgc
    BY Zenon, <2>2 DEF RecordInv, Typed, MetaKeys, update_metadata_cgc, ReplaceMetadata
  <2>3. CASE save_metadata_to_disk
    BY Zenon, <2>3 DEF RecordInv, Typed, Underway, save_metadata_to_disk
  <2> QED BY Zenon, <2>1, <2>2, <2>3
<1>2. /\ writes' \in Plans
      /\ \A x : Has(writes, x) <=> x = statement \/ Has(writes', x)
      /\ statement \in {"metadata_bitfields", "metadata_cgc"} => writes' = <<"metadata_file">>
  BY Zenon, <1>1, PlanGoesOn
<1>3. Has(<<"metadata_file">>, "metadata_file")
  BY DEF Has
<1>4. Typed'
  BY Zenon, <1>1, <1>2 DEF RecordInv, Typed, Numbered
<1>5. Underway'
  BY Zenon, <1>1, <1>2, <1>3 DEF RecordInv, Underway
<1>6. Renumbers(enr, enr')
  BY <1>1 DEF RecordInv, Typed, Renumbers, Numbered
<1>7. Newest' /\ SeqNamesRecord'
  BY Zenon, <1>1, <1>6, NewestKept DEF RecordInv, Typed
<1> QED BY Zenon, <1>4, <1>5, <1>7 DEF RecordInv

\* The next statement of an operation.
LEMMA RecordContinue ==
  ASSUME RecordInv, Continue
  PROVE  RecordInv'
<1>1. seen' = seen \cup {enr'} /\ UNCHANGED <<current_fork, enr_fork_id, lost>>
  BY Zenon DEF Continue, NotRecords, forkVars
<1>2. CASE next_event
  <2>1. writes \in Plans /\ writes # <<>> /\ Head(writes) = "events"
    BY Zenon, <1>2 DEF next_event, RecordInv, Typed
  <2>2. Proceeds(writes)
    BY Zenon, <2>1, PlansProceed
  <2>3. \A x : ~Has(<<>>, x)
    BY DEF Has
  <2>4. Settled
    BY Zenon, <2>1, <2>2, <2>3 DEF Proceeds, Settled
  <2>5. SocketEvent /\ UNCHANGED metadataVars /\ UNCHANGED <<local_enr, disk_enr>>
    BY Zenon, <1>2 DEF next_event, SocketEvent
  <2> QED BY Zenon, <1>1, <2>4, <2>5, RecordEvent DEF Untouched
<1> QED BY Zenon, <1>1, <1>2, RecordWritten, MetadataWritten DEF Continue, ExecuteNext

\* The last statement of update_fork_version.
LEMMA RecordForkId ==
  ASSUME RecordInv, update_enr_fork_id
  PROVE  RecordInv'
<1>1. /\ Execute("fork_id") /\ enr_fork_id' = current_fork.fork_digest
      /\ UNCHANGED <<current_fork, enr, local_enr, disk_enr, seen, lost, socket_events>>
      /\ UNCHANGED metadataVars
  BY Zenon DEF update_enr_fork_id, NotTopics
<1>2. /\ writes' = <<>> /\ writes' \in Plans
      /\ \A x : Has(writes, x) <=> x = "fork_id" \/ Has(writes', x)
  BY Zenon, <1>1, PlanGoesOn
<1>3. \A x : ~Has(<<>>, x)
  BY DEF Has
<1>4. Typed'
  BY Zenon, <1>1, <1>2 DEF RecordInv, Typed, Numbered, metadataVars
<1>5. Underway'
  BY Zenon, <1>1, <1>2, <1>3 DEF RecordInv, Underway, metadataVars
<1>6. Newest' /\ SeqNamesRecord'
  BY Zenon, <1>1 DEF RecordInv, Newest, SeqNamesRecord
<1> QED BY Zenon, <1>4, <1>5, <1>6 DEF RecordInv

\* Every step of the service.
LEMMA RecordStep == RecordInv /\ [Next]_vars => RecordInv'
<1> SUFFICES ASSUME RecordInv, [Next]_vars PROVE RecordInv'
  BY Zenon
<1> DEFINE Elsewhere ==
      \/ DiscoverPeers \/ DiscoverSubnetPeers \/ QueryDone \/ Cache \/ PeersChange \/ Tick
      \/ Publish \/ Subscribed \/ Unsubscribed \/ Expire \/ SendPing \/ ReceivePing
      \/ \E i \in DOMAIN exchange : AnswerMetadata(i) \/ meta_data_response(i)
<1>1. CASE Elsewhere
  <2>1. NotDiscovery \/ NotMessages \/ NotExchange
    BY Zenon, <1>1 DEF DiscoverPeers, DiscoverSubnetPeers, QueryDone, Cache, PeersChange, Tick,
       Publish, Subscribed, Unsubscribed, Expire, SendPing, ReceivePing, AnswerMetadata,
       meta_data_response
  <2>2. UNCHANGED copies /\ UNCHANGED current_fork
    BY Zenon, <2>1 DEF NotDiscovery, NotMessages, NotExchange, copies, recordVars, forkVars
  <2> QED BY Zenon, <2>2, RecordStutter
<1>2. CASE \/ StartTopics \/ SubscribeKind \/ UnsubscribeKind \/ NewColumns
           \/ SubscribeNewFork \/ UpdateCurrentFork \/ LeaveOldTopics
  <2>1. NotTopics /\ UNCHANGED <<enr_fork_id, enrVars, seen>> /\ Ready
    BY Zenon, <1>2 DEF StartTopics, SubscribeKind, UnsubscribeKind, NewColumns, SubscribeNewFork,
       UpdateCurrentFork, LeaveOldTopics, forkVars
  <2>2. UNCHANGED copies
    BY Zenon, <2>1 DEF NotTopics, copies
  <2> QED BY Zenon, <2>1, <2>2, RecordStutter
<1>3. CASE UNCHANGED vars
  <2>1. UNCHANGED copies /\ UNCHANGED current_fork
    BY Zenon, <1>3 DEF vars, recordVars, forkVars, copies
  <2> QED BY Zenon, <2>1, RecordStutter
<1> QED
  BY Zenon, <1>1, <1>2, <1>3, RecordRestart, RecordPoll, RecordListen, RecordUdp, RecordSocket,
     RecordSubnet, RecordCgc, RecordContinue, RecordForkVersion, RecordForkId, RecordNfd DEF Next

\* Between operations the record in discv5, the globals and the file, the metadata
\* in the globals and the file, the number in pings and the service's fork digest
\* agree, for every configuration and however the calls of the application, the
\* statements of the operations, discv5's own changes, forks and crashes interleave.
THEOREM CopiesAgreeCorrect == Spec => []CopiesAgree
<1>1. RecordInv => CopiesAgree
  BY Zenon, RecordsAgree
<1> QED BY RecordInit, RecordStep, <1>1, PTL DEF Spec

\* A sequence number names one record in every behaviour, with crashes before any
\* statement of an operation (save_enr_to_disk) and restarts (use_or_load_enr), of
\* the records that no crash found served but unsaved.
THEOREM SeqNamesRecordCorrect == Spec => []SeqNamesRecord
<1>1. RecordInv => SeqNamesRecord
  BY Zenon DEF RecordInv
<1> QED BY RecordInit, RecordStep, <1>1, PTL DEF Spec

-----------------------------------------------------------------------------
(* Two of the statements concern the other parts: the service's digest     *)
(* (fork_id) and the custody group count of the metadata (metadata_cgc).   *)

\* The plans with neither of them that an operation begins with.
Unconcerned ==
  {<<>>, <<"globals">>, <<"metadata_bitfields", "metadata_file">>, <<"globals", "file">>,
   <<"file", "globals">>, <<"globals", "file", "metadata_bitfields", "metadata_file">>,
   <<"file", "globals_saved", "events">>}

\* Which operations these are.
LEMMA UnconcernedPlans ==
  ASSUME \/ Restart \/ (Poll /\ ~UNCHANGED writes) \/ NewListenAddr \/ UpdateUdpSocket
         \/ UpdateEnrSubnet \/ update_nfd \/ next_event
  PROVE  writes' \in Unconcerned
<1>1. CASE Restart
  BY Zenon, <1>1 DEF Restart, Unconcerned
<1>2. SocketEvent => writes' \in Unconcerned
  BY Zenon DEF SocketEvent, Unconcerned
<1>3. CASE Poll /\ ~UNCHANGED writes
  BY Zenon, <1>2, <1>3 DEF Poll, PollEventStream, enrVars
<1>4. CASE NewListenAddr
  <2>1. \/ Unchanged(<<>>)
        \/ \E key \in {"tcp", "tcp6", "quic", "quic6"}, port \in Ports :
             Insert(key, port, <<"globals", "file">>)
    BY <1>4 DEF NewListenAddr, on_new_listen_addr, inject_upnp_event, update_enr_tcp_port,
                update_enr_quic_port
  <2> QED BY Zenon, <2>1 DEF Unchanged, Insert, Unconcerned
<1>5. CASE UpdateUdpSocket
  BY Zenon, <1>5 DEF UpdateUdpSocket, update_enr_udp_socket, Unconcerned
<1>6. CASE UpdateEnrSubnet
  <2>1. <<"globals", "file">> \o <<"metadata_bitfields", "metadata_file">> =
          <<"globals", "file", "metadata_bitfields", "metadata_file">>
    BY Zenon, JoinedTwo DEF Statements
  <2> QED BY Zenon, <1>6, <2>1 DEF UpdateEnrSubnet, update_enr_subnet, update_enr_bitfield,
                                   Unchanged, Insert, Unconcerned
<1>7. CASE update_nfd
  BY Zenon, <1>7 DEF update_nfd, update_enr_nfd, Insert, Unconcerned
<1>8. CASE next_event
  BY Zenon, <1>2, <1>8 DEF next_event
<1> QED BY Zenon, <1>1, <1>3, <1>4, <1>5, <1>6, <1>7, <1>8

Planned(x) ==
  \/ /\ Has(writes, x) /\ UNCHANGED transition
     /\ UNCHANGED enr \/ SocketUpdated
  \/ x = "fork_id" /\ update_fork_version
  \/ x = "metadata_cgc" /\ UpdateEnrCgc

\* Where one of the two statements is still to come, it was before, or the
\* operation that it belongs to has begun.
LEMMA PlannedBy ==
  ASSUME RecordInv, [Next]_vars, NEW x \in {"fork_id", "metadata_cgc"}, Has(writes', x)
  PROVE  Planned(x)
<1> USE DEF Planned
<1>1. Ready => ~Has(writes, x)
  BY DEF Ready, Has
<1>2. writes' \notin Unconcerned
  BY Zenon, FirstPlans DEF Unconcerned
<1>3. CASE UNCHANGED <<enr, writes, transition>>
  BY Zenon, <1>3
<1>4. CASE Ready /\ UNCHANGED writes
  BY Zenon, <1>1, <1>4
<1>5. CASE SocketUpdated
  BY Zenon, <1>5 DEF SocketUpdated, SocketUpdate, NotRecords, forkVars
<1>6. CASE UpdateEnrCgc
  <2>1. <<"file", "globals">> \o <<"metadata_cgc", "metadata_file">> =
          <<"file", "globals", "metadata_cgc", "metadata_file">>
    BY Zenon, JoinedTwo DEF Statements
  <2>2. writes' = <<"file", "globals", "metadata_cgc", "metadata_file">>
    BY Zenon, <1>6, <2>1 DEF UpdateEnrCgc, update_cgc, update_enr_cgc, Insert
  <2>3. x # "fork_id"
    BY Zenon, <2>2, FirstPlans
  <2> QED BY Zenon, <1>6, <2>3
<1>7. CASE update_fork_version
  <2>1. <<"globals", "file">> \o <<"fork_id">> = <<"globals", "file", "fork_id">>
    BY Zenon, JoinedOne DEF Statements
  <2>2. writes' = <<"globals", "file", "fork_id">>
    BY Zenon, <1>7, <2>1 DEF update_fork_version, update_eth2_enr, Insert
  <2>3. x # "metadata_cgc"
    BY Zenon, <2>2, FirstPlans
  <2> QED BY Zenon, <1>7, <2>3
<1>8. CASE Continue /\ ~next_event
  <2>1. PICK statement : Execute(statement)
    BY Zenon, <1>8 DEF Continue, ExecuteNext, replace_local_enr, save_enr_to_disk,
       replace_local_enr_saved, update_metadata_bitfields, update_metadata_cgc,
       save_metadata_to_disk
  <2>2. Has(writes, x)
    BY Zenon, <2>1, PlanGoesOn
  <2>3. UNCHANGED <<enr, transition>>
    BY Zenon, <1>8 DEF Continue, ExecuteNext, replace_local_enr, save_enr_to_disk,
       replace_local_enr_saved, update_metadata_bitfields, update_metadata_cgc,
       save_metadata_to_disk, ReplaceMetadata, NotRecords, forkVars
  <2> QED BY Zenon, <2>2, <2>3
<1>9. CASE update_enr_fork_id
  <2>1. writes' = <<>>
    BY Zenon, <1>9, PlanGoesOn DEF update_enr_fork_id
  <2> QED BY Zenon, <1>2, <2>1 DEF Unconcerned
<1>10. CASE \/ Restart \/ (Poll /\ ~UNCHANGED writes) \/ NewListenAddr \/ UpdateUdpSocket
            \/ UpdateEnrSubnet \/ update_nfd \/ next_event
  BY Zenon, <1>2, <1>10, UnconcernedPlans
<1>11. CASE \/ StartTopics \/ SubscribeKind \/ UnsubscribeKind \/ NewColumns
            \/ SubscribeNewFork \/ UpdateCurrentFork \/ LeaveOldTopics
  <2>1. Ready /\ UNCHANGED writes
    BY Zenon, <1>11 DEF StartTopics, SubscribeKind, UnsubscribeKind, NewColumns, SubscribeNewFork,
       UpdateCurrentFork, LeaveOldTopics, enrVars
  <2> QED BY Zenon, <1>4, <2>1
<1>12. CASE \/ DiscoverPeers \/ DiscoverSubnetPeers \/ QueryDone \/ Cache \/ PeersChange \/ Tick
            \/ Publish \/ Subscribed \/ Unsubscribed \/ Expire \/ SendPing \/ ReceivePing
            \/ \E i \in DOMAIN exchange : AnswerMetadata(i) \/ meta_data_response(i)
  <2>1. NotDiscovery \/ NotMessages \/ NotExchange
    BY Zenon, <1>12 DEF DiscoverPeers, DiscoverSubnetPeers, QueryDone, Cache, PeersChange, Tick,
       Publish, Subscribed, Unsubscribed, Expire, SendPing, ReceivePing, AnswerMetadata,
       meta_data_response
  <2> QED BY Zenon, <1>3, <2>1 DEF NotDiscovery, NotMessages, NotExchange, recordVars, enrVars,
                                   forkVars
<1>13. CASE Poll /\ UNCHANGED writes
  BY Zenon, <1>4, <1>13 DEF Poll
<1>14. CASE UNCHANGED vars
  BY Zenon, <1>3, <1>14 DEF vars, recordVars, enrVars, forkVars
<1> HIDE DEF Planned
<1> QED BY Zenon, <1>5, <1>6, <1>7, <1>8, <1>9, <1>10, <1>11, <1>12, <1>13, <1>14 DEF Next

-----------------------------------------------------------------------------
(* GossipFaithful: a published message is read by the peer as what it is,  *)
(* for every chain configuration.  The digest the service publishes under  *)
(* is always one of the configuration's, its phase says which form a kind  *)
(* has, and PubsubMessage::decode reads that form.  The cache keeps        *)
(* messages for as long as it likes, across forks.                         *)

Less == {pair \in Nat \X Nat : pair[1] < pair[2]}

\* The order of the naturals is well-founded.
LEMMA LessWellFounded == IsWellFoundedOn(Less, Nat)
BY Zenon, NatLessThanWellFounded DEF OpToRel, Less

\* A set of naturals that is not empty has a least element.
LEMMA LeastNat ==
  ASSUME NEW S, S \subseteq Nat, S # {}
  PROVE  \E n \in S : \A k \in S : n <= k
<1>1. PICK n \in S : \A k \in S : <<k, n>> \notin Less
  BY Zenon, WFMin, LessWellFounded
<1>2. \A k \in S : ~(k < n)
  BY Zenon, <1>1 DEF Less
<1> QED BY <1>2

\* A bounded set of naturals that is not empty has a greatest element.
LEMMA GreatestNat ==
  ASSUME NEW S, S \subseteq Nat, S # {}, NEW bound \in Nat, \A s \in S : s <= bound
  PROVE  Max(S) \in S
<1> DEFINE T == {bound - s : s \in S}
<1>1. T \subseteq Nat /\ T # {}
  <2>1. \A s \in S : bound - s \in Nat
    OBVIOUS
  <2> QED BY Zenon, <2>1
<1>2. PICK t \in T : \A k \in T : t <= k
  BY Zenon, <1>1, LeastNat
<1>3. PICK s \in S : t = bound - s
  BY Zenon
<1>4. \A k \in S : s >= k
  BY <1>2, <1>3
<1>5. \E x \in S : \A y \in S : x >= y
  BY Zenon, <1>4
<1> QED BY Zenon, <1>5 DEF Max

\* Min of a set of naturals is one of them.
LEMMA LeastIsMin ==
  ASSUME NEW S, S \subseteq Nat, S # {}
  PROVE  Min(S) \in S
<1>1. \E x \in S : \A y \in S : x <= y
  BY Zenon, LeastNat
<1> QED BY Zenon, <1>1 DEF Min

-----------------------------------------------------------------------------
(* The forks of the configuration.                                         *)

Forks == {epoch_to_forks(ChainConfig)[e] : e \in all_fork_epochs(ChainConfig)}

\* The epochs of the fork map, of which 0 is one.
LEMMA EpochsNat ==
  all_fork_epochs(ChainConfig) \subseteq Nat /\ 0 \in all_fork_epochs(ChainConfig)
<1>1. Phase0 \in Phases
  BY DEF Phases, Phase0, Gloas
<1>2. is_phase_enabled(ChainConfig, Phase0)
  BY Zenon, GossipAssumption DEF is_phase_enabled
<1> QED BY Zenon, <1>1, <1>2, GossipAssumption DEF all_fork_epochs

\* Every epoch has a phase.
LEMMA PhaseAt ==
  ASSUME NEW e \in Nat
  PROVE  phase_at_epoch(ChainConfig, e) \in Phases
<1> DEFINE S == {p \in Phases : ChainConfig.fork_epoch[p] <= e}
<1>1. S \subseteq Nat /\ \A p \in S : p <= Gloas
  BY DEF Phases, Phase0, Gloas
<1>2. Phase0 \in S
  BY GossipAssumption DEF Phases, Phase0, Gloas
<1>3. Gloas \in Nat
  BY Zenon DEF Gloas
<1>4. Max(S) \in S
  <2> HIDE DEF S
  <2> QED BY Zenon, <1>1, <1>2, <1>3, GreatestNat
<1> QED BY Zenon, <1>4 DEF phase_at_epoch

\* The fork context starts with an entry of the map.
LEMMA ForkAtIn ==
  ASSUME NEW e \in Nat
  PROVE  ForkAt(ChainConfig, e) \in Forks
<1> DEFINE S == {k \in all_fork_epochs(ChainConfig) : k <= e}
<1>1. S \subseteq Nat /\ 0 \in S /\ \A k \in S : k <= e
  BY EpochsNat
<1>2. Max(S) \in S
  <2> HIDE DEF S
  <2> QED BY Zenon, <1>1, GreatestNat
<1> QED BY Zenon, <1>2 DEF ForkAt, Forks

\* The next fork is an entry of the map.
LEMMA NextForkIn ==
  ASSUME NEW fork, next_fork(ChainConfig, fork) # NoFork
  PROVE  next_fork(ChainConfig, fork) \in Forks
<1> DEFINE later == {e \in all_fork_epochs(ChainConfig) : e > fork.fork_epoch}
<1>1. later # {}
  BY Zenon DEF next_fork
<1>2. later \subseteq all_fork_epochs(ChainConfig) /\ later \subseteq Nat
  BY Zenon, EpochsNat
<1>3. Min(later) \in later
  <2> HIDE DEF later
  <2> QED BY Zenon, <1>1, <1>2, LeastIsMin
<1> QED BY Zenon, <1>1, <1>2, <1>3 DEF next_fork, Forks

\* Every digest of the configuration is known to the peer, and has one phase.
LEMMA DigestKnown ==
  ASSUME NEW d \in all_fork_digests
  PROVE  /\ get_fork_from_context_bytes(ChainConfig, d) # NoFork
         /\ get_fork_from_context_bytes(ChainConfig, d).phase \in Phases
         /\ PhaseOf[d] = get_fork_from_context_bytes(ChainConfig, d).phase
<1> DEFINE found == {e \in all_fork_epochs(ChainConfig) :
                       epoch_to_forks(ChainConfig)[e].fork_digest = d}
           phase == epoch_to_forks(ChainConfig)[Min(found)].fork_name
<1>1. found # {} /\ found \subseteq Nat
  BY Zenon, EpochsNat DEF all_fork_digests
<1>2. Min(found) \in found
  <2> HIDE DEF found
  <2> QED BY Zenon, <1>1, LeastIsMin
<1>3. phase = phase_at_epoch(ChainConfig, Min(found))
  BY Zenon, <1>2 DEF epoch_to_forks, HardFork
<1>4. phase \in Phases
  <2> HIDE DEF found, phase
  <2> QED BY Zenon, <1>1, <1>2, <1>3, PhaseAt
<1>5. get_fork_from_context_bytes(ChainConfig, d) = [phase |-> phase]
  BY Zenon, <1>1 DEF get_fork_from_context_bytes
<1> HIDE DEF phase
<1>6. [phase |-> phase] # NoFork
  <2>1. "none" \in DOMAIN NoFork /\ "none" \notin DOMAIN [phase |-> phase]
    BY Zenon DEF NoFork
  <2> QED BY Zenon, <2>1
<1>7. PhaseOf[d] = get_fork_from_context_bytes(ChainConfig, d).phase
  BY Zenon DEF PhaseOf
<1> QED BY <1>4, <1>5, <1>6, <1>7

-----------------------------------------------------------------------------
(* Messages.                                                               *)

\* The kinds of topics each phase has (core_topics_to_subscribe).
LEMMA KindsAt ==
  ASSUME NEW phase \in Phases, NEW kind \in all_topics_at_fork(phase)
  PROVE  \/ kind.kind \in {"BeaconBlock", "BeaconAggregateAndProof", "VoluntaryExit",
                           "ProposerSlashing", "AttesterSlashing", "Attestation"}
         \/ /\ phase >= Altair
            /\ kind.kind \in {"SignedContributionAndProof", "SyncCommitteeMessage",
                              "LightClientFinalityUpdate", "LightClientOptimisticUpdate"}
         \/ phase >= Capella /\ kind.kind = "BlsToExecutionChange"
         \/ phase >= Deneb /\ ~(phase >= Fulu) /\ kind.kind = "BlobSidecar"
         \/ phase >= Fulu /\ kind.kind = "DataColumnSidecar"
         \/ phase >= Gloas /\ kind.kind = "ExecutionPayloadBid"
<1> DEFINE one == {Kind("BeaconBlock"), Kind("BeaconAggregateAndProof"), Kind("VoluntaryExit"),
                   Kind("ProposerSlashing"), Kind("AttesterSlashing")}
                  \cup Indexed("Attestation", 0 .. AttestationSubnetCount - 1)
           two == {Kind("SignedContributionAndProof"), Kind("LightClientFinalityUpdate"),
                   Kind("LightClientOptimisticUpdate")}
                  \cup Indexed("SyncCommitteeMessage", 0 .. SyncCommitteeSubnetCount - 1)
           blobs == Indexed("BlobSidecar", 0 .. blob_subnet_count(phase) - 1)
           columns == Indexed("DataColumnSidecar", 0 .. data_column_sidecar_subnet_count - 1)
<1>1. \/ kind \in one
      \/ phase >= Altair /\ kind \in two
      \/ phase >= Capella /\ kind = Kind("BlsToExecutionChange")
      \/ phase >= Deneb /\ ~(phase >= Fulu) /\ kind \in blobs
      \/ phase >= Fulu /\ kind \in columns
      \/ phase >= Gloas /\ kind = Kind("ExecutionPayloadBid")
  BY Zenon DEF all_topics_at_fork, core_topics_to_subscribe, is_peerdas_activated
<1>2. /\ \A k \in one : k.kind \in {"BeaconBlock", "BeaconAggregateAndProof", "VoluntaryExit",
                                   "ProposerSlashing", "AttesterSlashing", "Attestation"}
      /\ \A k \in two : k.kind \in {"SignedContributionAndProof", "SyncCommitteeMessage",
                                   "LightClientFinalityUpdate", "LightClientOptimisticUpdate"}
      /\ \A k \in blobs : k.kind = "BlobSidecar"
      /\ \A k \in columns : k.kind = "DataColumnSidecar"
      /\ \A name : Kind(name).kind = name
  BY DEF Kind, Indexed
<1> HIDE DEF one, two, blobs, columns
<1> QED BY Zenon, <1>1, <1>2

\* PubsubMessage::decode reads every kind of a phase in the form it has then.
LEMMA FormsAgree ==
  ASSUME NEW phase \in Phases, NEW kind \in all_topics_at_fork(phase)
  PROVE  ReadForm(kind.kind, phase) = FormAt(kind, phase)
<1> DEFINE name == kind.kind
<1> USE DEF Phases, Phase0, Altair, Bellatrix, Capella, Deneb, Electra, Fulu, Gloas
<1>1. CASE name \in {"BeaconAggregateAndProof", "Attestation"}
  BY <1>1 DEF ReadForm, FormAt, AttestationForm
<1>2. CASE name = "BeaconBlock"
  BY Zenon, <1>2 DEF ReadForm, FormAt, BlockForm
<1>3. CASE name \in {"VoluntaryExit", "ProposerSlashing", "AttesterSlashing"}
  BY <1>3 DEF ReadForm, FormAt, OperationForm
<1>4. CASE name \in {"SignedContributionAndProof", "SyncCommitteeMessage",
                     "BlsToExecutionChange"}
  BY Zenon, <1>4 DEF ReadForm, FormAt, OperationForm
<1>5. CASE phase >= Altair /\ name \in {"LightClientFinalityUpdate",
                                       "LightClientOptimisticUpdate"}
  BY <1>5 DEF ReadForm, FormAt, LightClientForm
<1>6. CASE phase >= Deneb /\ ~(phase >= Fulu) /\ name = "BlobSidecar"
  BY <1>6 DEF ReadForm, FormAt, SidecarForm
<1>7. CASE phase >= Fulu /\ name = "DataColumnSidecar"
  BY <1>7 DEF ReadForm, FormAt, SidecarForm
<1>8. CASE phase >= Gloas /\ name = "ExecutionPayloadBid"
  BY <1>8 DEF ReadForm, FormAt, BidForm
<1> QED BY Zenon, <1>1, <1>2, <1>3, <1>4, <1>5, <1>6, <1>7, <1>8, KindsAt

\* The peer accepts the message on the topic as what it is.
Readable(topic, message) == inbound_transform(message) /\ decode(topic, message) = message

\* A message of at most max_payload_size in the form of its fork is readable under
\* the fork's digest.
LEMMA PublishedReadable ==
  ASSUME NEW d \in all_fork_digests, NEW kind \in all_topics_at_fork(PhaseOf[d]),
         NEW len \in Nat, len <= max_payload_size
  PROVE  Readable(GossipTopic(kind, d), Message(kind, FormAt(kind, PhaseOf[d]), len))
<1> DEFINE fork == get_fork_from_context_bytes(ChainConfig, d)
           form == FormAt(kind, PhaseOf[d])
<1>1. fork # NoFork /\ fork.phase \in Phases /\ PhaseOf[d] = fork.phase
  BY Zenon, DigestKnown
<1>2. ReadForm(kind.kind, fork.phase) = form
  BY Zenon, <1>1, FormsAgree
<1> HIDE DEF form
<1>2a. kind.kind \in Undated => ReadForm(kind.kind, Phase0) = form
  BY Zenon, <1>2 DEF Undated, ReadForm, OperationForm
<1>3. decode(GossipTopic(kind, d), Message(kind, form, len)) = Message(kind, form, len)
  BY Zenon, <1>1, <1>2, <1>2a DEF decode, GossipTopic, Message
<1>4. inbound_transform(Message(kind, form, len))
  <2>1. max_payload_size \in Nat /\ Message(kind, form, len).len = len
    BY Zenon, GossipAssumption DEF Message
  <2>2. len \div 6 <= max_payload_size \div 6 /\ len \div 6 \in Nat
        /\ max_payload_size \div 6 \in Nat
    BY <2>1
  <2> QED BY <2>1, <2>2 DEF inbound_transform, max_compressed
<1> QED BY Zenon, <1>3, <1>4 DEF Readable, form

-----------------------------------------------------------------------------
(* The inductive invariant.                                                *)

\* The service's digest and the fork context's fork are of the configuration, a
\* transition leads to a fork, and the digest is about to change only in one.
DigestInv ==
  /\ enr_fork_id \in all_fork_digests
  /\ current_fork \in Forks
  /\ transition = "subscribed" => next_fork(ChainConfig, current_fork) # NoFork
  /\ Has(writes, "fork_id") => transition = "forked"

\* Whatever waits in the cache can still be read.
CacheInv ==
  /\ GossipFaithful
  /\ \A entry \in topic_msgs : Readable(entry[1], entry[2])

\* The digest of a fork is known.
LEMMA ForkDigests ==
  ASSUME NEW fork \in Forks
  PROVE  fork.fork_digest \in all_fork_digests
BY Zenon DEF Forks, all_fork_digests

\* One timer for each entry: an empty cache has none, a new entry gets one, and
\* entries that leave take theirs along.
LEMMA NoTimers == [entry \in {} |-> 1] = <<>>
OBVIOUS

LEMMA TimerAdded ==
  ASSUME expirations = [entry \in topic_msgs |-> 1], NEW new, new \notin topic_msgs
  PROVE  AddTimer(new) = [entry \in topic_msgs \cup {new} |-> 1]
BY DEF AddTimer, Timed

LEMMA TimersRemoved ==
  ASSUME expirations = [entry \in topic_msgs |-> 1], NEW gone
  PROVE  RemoveTimers(gone) = [entry \in topic_msgs \ gone |-> 1]
<1>1. {t \in DOMAIN expirations : t \in gone => expirations[t] > 1} = topic_msgs \ gone
  OBVIOUS
<1> QED BY <1>1 DEF RemoveTimers

\* The first process starts in a fork of the configuration, with an empty cache.
LEMMA GossipInit == Init => DigestInv /\ CacheInv
<1> SUFFICES ASSUME Init PROVE DigestInv /\ CacheInv
  BY Zenon
<1>1. current_fork \in Forks
  BY Zenon, ForkAtIn, NetworkAssumption DEF Init
<1>2. PICK network_config \in budget.configs, cgc \in budget.custody, file \in budget.files :
        enr_fork_id = NewProcess(network_config, cgc, current_fork, NoFile, file).enr_fork_id
  BY ZenonT(60) DEF Init
<1>3. BuiltAtStart(NewProcess(network_config, cgc, current_fork, NoFile, file),
              current_fork.fork_digest)
  BY ProcessStarts, Zenon
<1>4. enr_fork_id = current_fork.fork_digest
  BY Zenon, <1>2, <1>3 DEF BuiltAtStart
<1>5. /\ transition # "subscribed" /\ writes = <<>>
      /\ topic_msgs = {} /\ expirations = <<>> /\ delivered = Rejected
  BY Zenon DEF Init
<1>6. ~Has(writes, "fork_id")
  BY Zenon, <1>5, FirstPlans
<1> QED BY Zenon, <1>1, <1>4, <1>5, <1>6, ForkDigests, NoTimers DEF DigestInv, CacheInv, GossipFaithful

\* The digest changes at a restart and in the steps of a fork transition only.
LEMMA DigestStep == RecordInv /\ DigestInv /\ [Next]_vars => DigestInv'
<1> SUFFICES ASSUME RecordInv, DigestInv, [Next]_vars PROVE DigestInv'
  BY Zenon
<1>0. Has(writes', "fork_id") => transition' = "forked"
  <2>1. Has(writes', "fork_id") => Planned("fork_id")
    BY Zenon, PlannedBy
  <2> QED BY Zenon, <2>1 DEF Planned, DigestInv, update_fork_version, forkVars
<1>1. CASE /\ UNCHANGED <<current_fork, enr_fork_id>>
           /\ transition' \in {transition, "none", "announced"}
  BY Zenon, <1>0, <1>1 DEF DigestInv
<1>2. CASE Restart
  <2>1. PICK network_config \in budget.configs, cgc \in budget.custody :
          enr_fork_id' = NewProcess(network_config, cgc, current_fork, disk_enr,
                                    disk_metadata).enr_fork_id
    BY <1>2, ZenonT(60) DEF Restart
  <2>2. Numbered(disk_enr)
    BY Zenon DEF RecordInv, Typed
  <2>3. BuiltAtStart(NewProcess(network_config, cgc, current_fork, disk_enr, disk_metadata),
                current_fork.fork_digest)
    BY <2>2, ProcessStarts, Zenon
  <2>4. enr_fork_id' = current_fork.fork_digest
    BY Zenon, <2>1, <2>3 DEF BuiltAtStart
  <2>5. current_fork' = current_fork /\ transition' # "subscribed"
    BY Zenon, <1>2 DEF Restart
  <2> QED BY Zenon, <1>0, <2>4, <2>5, ForkDigests DEF DigestInv
<1>3. CASE SubscribeNewFork
  BY Zenon, <1>0, <1>3 DEF SubscribeNewFork, DigestInv
<1>4. CASE UpdateCurrentFork
  <2>1. next_fork(ChainConfig, current_fork) \in Forks
    BY Zenon, <1>4, NextForkIn DEF UpdateCurrentFork, DigestInv
  <2>2. /\ current_fork' = next_fork(ChainConfig, current_fork)
        /\ enr_fork_id' = enr_fork_id /\ transition' # "subscribed"
    BY Zenon, <1>4 DEF UpdateCurrentFork, DigestInv, update_current_fork
  <2> QED BY Zenon, <1>0, <2>1, <2>2 DEF DigestInv
<1>5. CASE update_enr_fork_id
  BY Zenon, <1>0, <1>5, ForkDigests DEF update_enr_fork_id, DigestInv
<1>6. \/ Restart \/ SubscribeNewFork \/ UpdateCurrentFork \/ update_enr_fork_id
      \/ /\ UNCHANGED <<current_fork, enr_fork_id>>
         /\ transition' \in {transition, "none", "announced"}
  BY Zenon DEF Next, Poll, DiscoverPeers, DiscoverSubnetPeers, QueryDone, Cache, PeersChange, Tick,
     NewListenAddr, UpdateUdpSocket, SocketUpdated, UpdateEnrSubnet, UpdateEnrCgc,
     Continue, StartTopics, SubscribeKind, UnsubscribeKind, NewColumns, update_fork_version,
     update_nfd, LeaveOldTopics,
     Publish, Subscribed, Unsubscribed, Expire, SendPing, ReceivePing, AnswerMetadata,
     meta_data_response, NotDiscovery, NotRecords, NotMessages, NotExchange, forkVars, vars
<1> QED BY Zenon, <1>1, <1>2, <1>3, <1>4, <1>5, <1>6

\* publish: the message is delivered, cached or refused.
LEMMA CachePublish ==
  ASSUME DigestInv, CacheInv, Publish
  PROVE  CacheInv'
<1> DEFINE form == FormAt(subject, PhaseOf[enr_fork_id])
<1>1. PICK len \in {1, max_payload_size, max_payload_size + 1} :
        publish(Message(subject, form, len))
  BY Zenon DEF Publish
<1> DEFINE topic == GossipTopic(subject, enr_fork_id)
           message == Message(subject, form, len)
<1>2. len \in Nat /\ enr_fork_id \in all_fork_digests
      /\ subject \in all_topics_at_fork(PhaseOf[enr_fork_id])
  BY GossipAssumption DEF Publish, DigestInv
<1>3. outbound_transform(message) => Readable(topic, message)
  BY Zenon, <1>2, PublishedReadable DEF outbound_transform, Message
<1>4. message.kind = subject
  BY Zenon DEF Message
<1> HIDE DEF form, message
<1>5. \/ UNCHANGED <<delivered, cacheVars>>
      \/ outbound_transform(message) /\ insert(topic, message) /\ UNCHANGED delivered
      \/ outbound_transform(message) /\ Delivery(topic, message) /\ UNCHANGED cacheVars
  BY Zenon, <1>1, <1>4 DEF publish, message
<1> HIDE DEF topic
<1>6. CASE UNCHANGED <<delivered, cacheVars>>
  BY Zenon, <1>6 DEF CacheInv, GossipFaithful, cacheVars
<1>7. CASE outbound_transform(message) /\ insert(topic, message) /\ UNCHANGED delivered
  <2>1. /\ topic_msgs' \subseteq topic_msgs \cup {<<topic, message>>}
        /\ expirations' = [entry \in topic_msgs' |-> 1]
        /\ delivered' = delivered
    BY Zenon, <1>7, TimerAdded DEF CacheInv, GossipFaithful, insert, cacheVars
  <2>2. \A entry \in topic_msgs' : Readable(entry[1], entry[2])
    BY <1>3, <1>7, <2>1 DEF CacheInv
  <2> QED BY Zenon, <2>1, <2>2 DEF CacheInv, GossipFaithful
<1>8. CASE outbound_transform(message) /\ Delivery(topic, message) /\ UNCHANGED cacheVars
  BY Zenon, <1>3, <1>8 DEF CacheInv, GossipFaithful, Delivery, Readable, cacheVars
<1> QED BY Zenon, <1>5, <1>6, <1>7, <1>8

\* A subscription takes messages out of the cache, possibly of an old fork.
LEMMA CacheSubscribed ==
  ASSUME CacheInv, Subscribed
  PROVE  CacheInv'
<1>1. PICK topic \in PeerTopics \ peer_topics : OnSubscribed(topic)
  BY Zenon DEF Subscribed
<1>2. /\ topic_msgs' = topic_msgs \ Cached(topic)
      /\ expirations' = [entry \in topic_msgs' |-> 1]
  BY Zenon, <1>1, TimersRemoved DEF OnSubscribed, retrieve, CacheInv, GossipFaithful
<1>3. \/ UNCHANGED delivered
      \/ \E entry \in Cached(topic) : Delivery(topic, entry[2])
  BY Zenon, <1>1 DEF OnSubscribed
<1>4. \A entry \in Cached(topic) : Readable(topic, entry[2])
  BY Zenon DEF CacheInv, Cached
<1>5. delivered' # Rejected => delivered'.decoded = delivered'.message
  <2>1. CASE UNCHANGED delivered
    BY Zenon, <2>1 DEF CacheInv, GossipFaithful
  <2>2. ASSUME NEW entry \in Cached(topic), Delivery(topic, entry[2])
        PROVE  delivered'.decoded = delivered'.message
    <3> DEFINE message == entry[2]
    <3>1. inbound_transform(message) /\ decode(topic, message) = message
      BY Zenon, <1>4 DEF Readable
    <3> HIDE DEF message
    <3> QED BY Zenon, <2>2, <3>1 DEF Delivery, message
  <2> QED BY Zenon, <1>3, <2>1, <2>2
<1> QED BY Zenon, <1>2, <1>5 DEF CacheInv, GossipFaithful

\* Every step of the service.
LEMMA CacheStep == DigestInv /\ CacheInv /\ [Next]_vars => CacheInv'
<1> SUFFICES ASSUME DigestInv, CacheInv, [Next]_vars PROVE CacheInv'
  BY Zenon
<1>1. CASE UNCHANGED <<delivered, cacheVars>>
  BY Zenon, <1>1 DEF CacheInv, GossipFaithful, cacheVars
<1>2. CASE Restart
  BY Zenon, <1>2, NoTimers DEF Restart, CacheInv, GossipFaithful
<1>3. CASE Expire
  BY Zenon, <1>3, TimersRemoved DEF Expire, PollExpired, CacheInv, GossipFaithful
<1>4. \/ Restart \/ Expire \/ Publish \/ Subscribed \/ UNCHANGED <<delivered, cacheVars>>
  BY Zenon DEF Next, Poll, DiscoverPeers, DiscoverSubnetPeers, QueryDone, Cache, PeersChange, Tick,
     NewListenAddr, UpdateUdpSocket, SocketUpdated, UpdateEnrSubnet, UpdateEnrCgc, Continue,
     StartTopics, SubscribeKind, UnsubscribeKind, NewColumns, SubscribeNewFork,
     UpdateCurrentFork, update_fork_version, update_enr_fork_id, update_nfd, LeaveOldTopics,
     Unsubscribed,
     OnUnsubscribed, SendPing, ReceivePing, AnswerMetadata, meta_data_response,
     NotDiscovery, NotRecords, NotTopics, NotExchange, gossipVars, vars
<1> QED BY Zenon, <1>1, <1>2, <1>3, <1>4, CachePublish, CacheSubscribed

\* A message published in the form of the node's fork is accepted by a peer that
\* reads it and is what was published, at once or out of the cache, for every
\* kind, phase and chain configuration; and each cached message has one timer.
THEOREM GossipFaithfulCorrect == Spec => []GossipFaithful
<1>1. RecordInv /\ DigestInv /\ CacheInv => GossipFaithful
  BY Zenon DEF CacheInv
<1> QED BY RecordInit, RecordStep, GossipInit, DigestStep, CacheStep, <1>1, PTL DEF Spec


-----------------------------------------------------------------------------
(* ForkTopics: the node is subscribed to what it needs at every moment of  *)
(* a fork transition.  Between the two halves of a transition two digests  *)
(* matter, the service's and the one it is about to take, and the          *)
(* invariant says of both what ForkTopics says of the first.               *)

Columns == 0 .. data_column_sidecar_subnet_count - 1

\* What the theorem asks of the configuration.  subscribe_all_subnets is off, as
\* is_fork_non_core_topic presumes of the kinds the application chooses (with it they
\* are core kinds, which the application could leave).  Electra has no fewer blob
\* subnets than Deneb, and a custody group count is at most the number of column
\* subnets, as in the configurations of the chain.
SubnetsFit ==
  /\ ~TopicOptions.all_subnets
  /\ blob_sidecar_subnet_count <= blob_sidecar_subnet_count_electra
  /\ custody_requirement <= data_column_sidecar_subnet_count
  /\ number_of_custody_groups <= data_column_sidecar_subnet_count
  /\ \A b \in Budgets : b.custody \subseteq 0 .. data_column_sidecar_subnet_count

\* The core kinds of a phase for a node that samples the subnets.
CoreOf(phase, subnets) ==
  core_topics_to_subscribe(phase,
    [light_client |-> TopicOptions.light_client,
     all_subnets |-> TopicOptions.all_subnets,
     all_columns |-> TopicOptions.all_columns,
     sampling_subnets |-> subnets])

ColumnKinds(subnets) == Indexed("DataColumnSidecar", subnets)

Bid == Kind("ExecutionPayloadBid")

\* The digest of a fork has the phase of the fork (compute_fork_digest).
LEMMA PhaseOfFork ==
  ASSUME NEW fork \in Forks
  PROVE  PhaseOf[fork.fork_digest] = fork.fork_name
<1> DEFINE d == fork.fork_digest
           found == {e \in all_fork_epochs(ChainConfig) :
                       epoch_to_forks(ChainConfig)[e].fork_digest = d}
<1>1. PICK e \in all_fork_epochs(ChainConfig) : fork = HardFork(ChainConfig, e)
  BY Zenon DEF Forks, epoch_to_forks
<1>2. d \in all_fork_digests
  BY Zenon, ForkDigests
<1>3. found # {} /\ found \subseteq Nat
  BY Zenon, <1>2, EpochsNat DEF all_fork_digests
<1>4. Min(found) \in found
  <2> HIDE DEF found
  <2> QED BY Zenon, <1>3, LeastIsMin
<1>5. \A k \in all_fork_epochs(ChainConfig) :
        epoch_to_forks(ChainConfig)[k] = HardFork(ChainConfig, k)
  BY Zenon DEF epoch_to_forks
<1>6. HardFork(ChainConfig, Min(found)).fork_digest = HardFork(ChainConfig, e).fork_digest
  BY Zenon, <1>1, <1>4, <1>5
<1>7. \A k : /\ HardFork(ChainConfig, k).fork_name = phase_at_epoch(ChainConfig, k)
             /\ HardFork(ChainConfig, k).fork_digest[1] = phase_at_epoch(ChainConfig, k)
  BY Zenon DEF HardFork, compute_fork_digest
<1>8. HardFork(ChainConfig, Min(found)).fork_name = fork.fork_name
  BY Zenon, <1>1, <1>6, <1>7
<1>9. get_fork_from_context_bytes(ChainConfig, d) =
        [phase |-> epoch_to_forks(ChainConfig)[Min(found)].fork_name]
  BY Zenon, <1>3 DEF get_fork_from_context_bytes
<1>10. PhaseOf[d] = get_fork_from_context_bytes(ChainConfig, d).phase
  BY Zenon, <1>2 DEF PhaseOf
<1> HIDE DEF found, d
<1> QED BY <1>4, <1>5, <1>8, <1>9, <1>10 DEF d, found

\* Electra is scheduled when a digest has its phase.
LEMMA ElectraScheduled ==
  ASSUME NEW d \in all_fork_digests, PhaseOf[d] = Electra
  PROVE  is_phase_enabled(ChainConfig, Electra)
<1>1. PICK e \in all_fork_epochs(ChainConfig) : d = epoch_to_forks(ChainConfig)[e].fork_digest
  BY Zenon DEF all_fork_digests
<1> DEFINE fork == epoch_to_forks(ChainConfig)[e]
           S == {p \in Phases : ChainConfig.fork_epoch[p] <= e}
<1>2. fork \in Forks
  BY Zenon DEF Forks
<1>3. fork.fork_name = phase_at_epoch(ChainConfig, e)
  BY Zenon DEF epoch_to_forks, HardFork
<1>4. PhaseOf[d] = phase_at_epoch(ChainConfig, e)
  <2> HIDE DEF fork
  <2> QED BY Zenon, <1>1, <1>2, <1>3, PhaseOfFork DEF fork
<1>5. e \in Nat /\ e < FAR_FUTURE_EPOCH
  BY EpochsNat, GossipAssumption DEF all_fork_epochs, is_phase_enabled
<1>6. S \subseteq Nat /\ Phase0 \in S /\ \A p \in S : p <= Gloas
  BY <1>5, GossipAssumption DEF Phases, Phase0, Gloas
<1>7. Max(S) \in S
  <2>1. Gloas \in Nat
    BY Zenon DEF Gloas
  <2> HIDE DEF S
  <2> QED BY Zenon, <1>6, <2>1, GreatestNat
<1>8. Electra \in S
  BY Zenon, <1>4, <1>7 DEF phase_at_epoch
<1> QED BY <1>5, <1>8, GossipAssumption DEF is_phase_enabled

\* The phase of a known digest.
LEMMA DigestPhase ==
  ASSUME NEW d \in all_fork_digests
  PROVE  PhaseOf[d] \in Phases
BY Zenon, DigestKnown

\* Without subscribe_all_subnets no core kind is one the application chooses
\* (is_fork_non_core_topic).
LEMMA CoreIsNotChosen ==
  ASSUME SubnetsFit, NEW phase \in Phases, NEW subnets, NEW kind \in CoreOf(phase, subnets)
  PROVE  ~is_fork_non_core_topic(kind)
BY DEF SubnetsFit, CoreOf, core_topics_to_subscribe, Kind, Indexed, is_fork_non_core_topic

\* Sampling more subnets adds their column kinds to the core kinds at most.
LEMMA CoreGrows ==
  ASSUME NEW phase \in Phases, NEW S, NEW T, S \subseteq T
  PROVE  /\ CoreOf(phase, S) \subseteq CoreOf(phase, T)
         /\ CoreOf(phase, T) \subseteq CoreOf(phase, S) \cup ColumnKinds(T \ S)
<1> DEFINE opts(X) == [light_client |-> TopicOptions.light_client,
                       all_subnets |-> TopicOptions.all_subnets,
                       all_columns |-> TopicOptions.all_columns,
                       sampling_subnets |-> X]
           rest == {Kind("BeaconBlock"), Kind("BeaconAggregateAndProof"),
                    Kind("VoluntaryExit"), Kind("ProposerSlashing"),
                    Kind("AttesterSlashing")}
             \cup (IF TopicOptions.all_subnets
                   THEN Indexed("Attestation", 0 .. AttestationSubnetCount - 1) ELSE {})
             \cup (IF phase >= Altair THEN {Kind("SignedContributionAndProof")} ELSE {})
             \cup (IF phase >= Altair /\ TopicOptions.all_subnets
                   THEN Indexed("SyncCommitteeMessage", 0 .. SyncCommitteeSubnetCount - 1)
                   ELSE {})
             \cup (IF phase >= Altair /\ TopicOptions.light_client
                   THEN {Kind("LightClientFinalityUpdate"),
                         Kind("LightClientOptimisticUpdate")} ELSE {})
             \cup (IF phase >= Capella THEN {Kind("BlsToExecutionChange")} ELSE {})
             \cup (IF phase >= Deneb /\ ~is_peerdas_activated(phase)
                   THEN Indexed("BlobSidecar", 0 .. blob_subnet_count(phase) - 1) ELSE {})
           bids == IF phase >= Gloas THEN {Kind("ExecutionPayloadBid")} ELSE {}
           columns(X) == IF is_peerdas_activated(phase)
                         THEN ColumnKinds(IF TopicOptions.all_columns THEN Columns ELSE X)
                         ELSE {}
<1>1. ASSUME NEW X PROVE CoreOf(phase, X) = rest \cup columns(X) \cup bids
  BY DEF CoreOf, core_topics_to_subscribe, ColumnKinds, Columns
<1> HIDE DEF rest, bids
<1>2. columns(S) \subseteq columns(T) /\ columns(T) \subseteq columns(S) \cup ColumnKinds(T \ S)
  BY Zenon DEF ColumnKinds, Indexed
<1> HIDE DEF columns
<1>3. CoreOf(phase, S) = rest \cup columns(S) \cup bids
  BY Zenon, <1>1
<1>4. CoreOf(phase, T) = rest \cup columns(T) \cup bids
  BY Zenon, <1>1
<1> QED BY Zenon, <1>2, <1>3, <1>4

\* The kinds that gossipsub accepts.
AcceptedKinds ==
  {Kind(name) : name \in {"BeaconBlock", "BeaconAggregateAndProof", "VoluntaryExit",
     "ProposerSlashing", "AttesterSlashing", "SignedContributionAndProof",
     "BlsToExecutionChange", "LightClientFinalityUpdate", "LightClientOptimisticUpdate"}}
  \cup Indexed("Attestation", 0 .. AttestationSubnetCount - 1)
  \cup Indexed("SyncCommitteeMessage", 0 .. SyncCommitteeSubnetCount - 1)
  \cup Indexed("BlobSidecar",
               0 .. (IF is_phase_enabled(ChainConfig, Electra)
                     THEN blob_sidecar_subnet_count_electra
                     ELSE blob_sidecar_subnet_count) - 1)
  \cup Indexed("DataColumnSidecar", 0 .. data_column_sidecar_subnet_count - 1)

\* create_whitelist_filter has those kinds under every known digest.
LEMMA Whitelist ==
  ASSUME NEW kind, NEW d \in all_fork_digests
  PROVE  GossipTopic(kind, d) \in create_whitelist_filter <=> kind \in AcceptedKinds
<1>1. create_whitelist_filter =
        {GossipTopic(k, digest) : k \in AcceptedKinds, digest \in all_fork_digests}
  BY DEF create_whitelist_filter, AcceptedKinds
<1>2. \A x : x \in create_whitelist_filter <=>
              \E k \in AcceptedKinds, digest \in all_fork_digests : x = GossipTopic(k, digest)
  BY <1>1
<1>3. \A k, digest : GossipTopic(k, digest) = GossipTopic(kind, d) => k = kind
  BY Zenon DEF GossipTopic
<1> QED BY <1>2, <1>3, Zenon

\* ExecutionPayloadBid is not among them.
LEMMA BidRefused == Bid \notin AcceptedKinds
BY Zenon DEF AcceptedKinds, Bid, Kind, Indexed

\* The application's kinds and the columns are accepted.
LEMMA ChosenAccepted ==
  /\ \A kind \in NonCore : kind \in AcceptedKinds /\ is_fork_non_core_topic(kind) /\ kind # Bid
  /\ \A kind \in ColumnKinds(Columns) :
       kind \in AcceptedKinds /\ ~is_fork_non_core_topic(kind) /\ kind # Bid
BY DEF NonCore, ColumnKinds, Columns, AcceptedKinds, Bid,
       Kind, Indexed, is_fork_non_core_topic

\* So is every core kind, but for the bids of Gloas.
LEMMA CoreAccepted ==
  ASSUME SubnetsFit, NEW d \in all_fork_digests, NEW S, S \subseteq Columns,
         NEW kind \in CoreOf(PhaseOf[d], S)
  PROVE  kind = Bid \/ kind \in AcceptedKinds
<1> DEFINE phase == PhaseOf[d]
           plain == {"BeaconBlock", "BeaconAggregateAndProof", "VoluntaryExit",
                     "ProposerSlashing", "AttesterSlashing", "SignedContributionAndProof",
                     "BlsToExecutionChange", "LightClientFinalityUpdate",
                     "LightClientOptimisticUpdate"}
           blobs == Indexed("BlobSidecar", 0 .. blob_subnet_count(phase) - 1)
<1>1. phase \in Phases
  BY Zenon, DigestPhase
<1>2. \/ kind \in {Kind(name) : name \in plain}
      \/ phase >= Deneb /\ ~is_peerdas_activated(phase) /\ kind \in blobs
      \/ kind \in ColumnKinds(Columns)
      \/ kind = Bid
  <2> HIDE DEF phase
  <2> QED BY <1>1 DEF SubnetsFit, CoreOf, core_topics_to_subscribe, Kind, Indexed, Bid, ColumnKinds,
             Columns, phase
<1>3. \A name \in plain : Kind(name) \in AcceptedKinds
  BY Zenon DEF AcceptedKinds
<1>4. ASSUME phase >= Deneb, ~is_peerdas_activated(phase), kind \in blobs
      PROVE  kind \in AcceptedKinds
  <2> DEFINE count == IF is_phase_enabled(ChainConfig, Electra)
                      THEN blob_sidecar_subnet_count_electra ELSE blob_sidecar_subnet_count
  <2>1. phase = Electra => is_phase_enabled(ChainConfig, Electra)
    BY Zenon, ElectraScheduled
  <2>2. phase \in {Deneb, Electra}
    BY <1>1, <1>4 DEF Phases, Phase0, Gloas, Deneb, Electra, Fulu, is_peerdas_activated
  <2>3. blob_subnet_count(phase) <= count /\ blob_subnet_count(phase) \in Nat /\ count \in Nat
    BY <2>1, <2>2, GossipAssumption DEF SubnetsFit, blob_subnet_count, Deneb, Electra
  <2>4. kind \in Indexed("BlobSidecar", 0 .. count - 1)
    <3> HIDE DEF count, phase
    <3> QED BY <1>4, <2>3 DEF Indexed, phase
  <2> QED BY Zenon, <2>4 DEF AcceptedKinds
<1> HIDE DEF phase, blobs
<1> QED BY Zenon, <1>2, <1>3, <1>4, ChosenAccepted

-----------------------------------------------------------------------------
(* The sampled subnets stay within the columns.                            *)

\* The counts the node works with are numbers.
CustodyInv ==
  /\ "custody" \in DOMAIN budget
  /\ budget.custody \subseteq 0 .. data_column_sidecar_subnet_count
  /\ local_metadata.custody_group_count \in Nat
  /\ disk_metadata.custody_group_count \in Nat
  /\ Has(writes, "metadata_cgc") => enr["cgc"] \in Nat
  /\ sampling_subnets \subseteq Columns

\* The subnets of a count that is at most the number of columns.
LEMMA SubnetsOfCount ==
  ASSUME NEW n \in 0 .. data_column_sidecar_subnet_count
  PROVE  compute_subnets(n) \subseteq Columns
BY GossipAssumption DEF compute_subnets, Columns

\* load_or_build_metadata takes the count of the file or the one it is given.
LEMMA MetadataCount ==
  ASSUME NEW file, NEW cgc \in Nat, file = NoFile \/ file.custody_group_count \in Nat
  PROVE  load_or_build_metadata(file, cgc).custody_group_count \in Nat
BY Zenon DEF load_or_build_metadata, MetaData

\* Network::new: a count beyond the custody groups falls back on the requirement.
LEMMA ProcessSamples ==
  ASSUME SubnetsFit, NEW network_config, NEW cgc \in Nat, NEW fork, NEW enr_file, NEW file,
         file = NoFile \/ file.custody_group_count \in Nat
  PROVE  LET p == NewProcess(network_config, cgc, fork, enr_file, file)
         IN  /\ p.metadata.custody_group_count \in Nat
             /\ p.sampling_subnets \subseteq Columns
<1> DEFINE opt == IF peerdas_scheduled THEN cgc ELSE NoValue
           m == load_or_build_metadata(file, opt)
           p == NewProcess(network_config, cgc, fork, enr_file, file)
<1>1. p.metadata = m /\ p.sampling_subnets = sampling_subnets_new(m)
  BY Zenon DEF NewProcess
<1> HIDE DEF p
<1>2. opt \in Nat
  BY Zenon DEF NoValue
<1> HIDE DEF opt
<1>3. m.custody_group_count \in Nat
  BY Zenon, <1>2, MetadataCount
<1> HIDE DEF m
<1> DEFINE n == IF /\ m.custody_group_count # NoValue
                   /\ m.custody_group_count <= number_of_custody_groups
                THEN m.custody_group_count ELSE custody_requirement
<1>4. n \in 0 .. data_column_sidecar_subnet_count
  BY <1>3, GossipAssumption DEF SubnetsFit
<1>5. sampling_subnets_new(m) = compute_subnets(n)
  BY Zenon DEF sampling_subnets_new
<1> HIDE DEF n
<1>6. p.metadata.custody_group_count \in Nat /\ p.sampling_subnets \subseteq Columns
  BY Zenon, <1>1, <1>3, <1>4, <1>5, SubnetsOfCount
<1> QED BY Zenon, <1>6 DEF p

\* The first process.
LEMMA CustodyInit == SubnetsFit /\ Init => CustodyInv
<1> SUFFICES ASSUME SubnetsFit, Init PROVE CustodyInv
  BY Zenon
<1>1. /\ "custody" \in DOMAIN budget
      /\ budget.custody \subseteq 0 .. data_column_sidecar_subnet_count
      /\ \A file \in budget.files : file = NoFile \/ file.custody_group_count \in Nat
  BY Zenon, NetworkAssumption DEF Init, SubnetsFit
<1>2. PICK network_config \in budget.configs, cgc \in budget.custody, file \in budget.files :
        LET p == NewProcess(network_config, cgc, current_fork, NoFile, file)
        IN  /\ local_metadata = p.metadata /\ disk_metadata = p.metadata
            /\ sampling_subnets = p.sampling_subnets
  BY ZenonT(60) DEF Init
<1>3. cgc \in Nat /\ (file = NoFile \/ file.custody_group_count \in Nat)
  BY <1>1
<1>4. LET p == NewProcess(network_config, cgc, current_fork, NoFile, file)
      IN  p.metadata.custody_group_count \in Nat /\ p.sampling_subnets \subseteq Columns
  BY <1>3, ProcessSamples, Zenon
<1>5. /\ local_metadata.custody_group_count \in Nat
      /\ disk_metadata.custody_group_count \in Nat
      /\ sampling_subnets \subseteq Columns
  BY <1>2, <1>4, Zenon
<1>6. ~Has(writes, "metadata_cgc")
  BY Zenon, FirstPlans DEF Init
<1> QED BY Zenon, <1>1, <1>5, <1>6 DEF CustodyInv

\* The counts of a behaviour are not spent.
LEMMA CustodyOfBudget ==
  ASSUME [Next]_vars, "custody" \in DOMAIN budget
  PROVE  "custody" \in DOMAIN budget' /\ budget'.custody = budget.custody
<1>1. ASSUME NEW what, what # "custody", Spend(what)
      PROVE  "custody" \in DOMAIN budget' /\ budget'.custody = budget.custody
  BY Zenon, <1>1 DEF Spend
<1>2. \/ UNCHANGED budget
      \/ \E what \in {"restarts", "queries", "nodes", "time", "records", "sockets", "subnets",
                      "topics", "forks", "publishes", "peers"} : Spend(what)
  BY Zenon DEF Next, Restart, Poll, DiscoverPeers, DiscoverSubnetPeers, QueryDone, Cache,
     PeersChange, Tick, NewListenAddr, UpdateUdpSocket, SocketUpdated, UpdateEnrSubnet,
     UpdateEnrCgc, Continue, StartTopics, SubscribeKind, UnsubscribeKind, NewColumns,
     SubscribeNewFork, UpdateCurrentFork, update_fork_version, update_enr_fork_id, update_nfd,
     LeaveOldTopics,
     Publish, Subscribed, Unsubscribed, Expire, SendPing, ReceivePing, AnswerMetadata,
     meta_data_response, NotExchange, vars
<1>3. ASSUME NEW what \in {"restarts", "queries", "nodes", "time", "records", "sockets",
                           "subnets", "topics", "forks", "publishes", "peers"}
      PROVE  what # "custody"
  BY Zenon
<1> QED BY Zenon, <1>1, <1>2, <1>3

\* The custody group count of the record is copied only where it is a number.
LEMMA CustodyPlanned ==
  ASSUME RecordInv, CustodyInv, [Next]_vars, Has(writes', "metadata_cgc")
  PROVE  enr'["cgc"] \in Nat
<1>1. Planned("metadata_cgc")
  BY Zenon, PlannedBy
<1>2. CASE Has(writes, "metadata_cgc") /\ UNCHANGED enr
  BY Zenon, <1>2 DEF CustodyInv
<1>3. CASE Has(writes, "metadata_cgc") /\ SocketUpdated
  <2>1. \E socket : enr' = update_local_enr_socket(enr, socket, FALSE)
    BY Zenon, <1>3 DEF SocketUpdated, SocketUpdate
  <2>2. SameCopied(enr, enr')
    BY Zenon, <2>1, SocketRenumbers DEF RecordInv, Typed
  <2> QED BY Zenon, <1>3, <2>2 DEF SameCopied, CustodyInv
<1>4. CASE UpdateEnrCgc
  <2>1. PICK cgc \in budget.custody : enr' = enr_insert(enr, "cgc", cgc)
    BY Zenon, <1>4 DEF UpdateEnrCgc, update_cgc, update_enr_cgc, Insert
  <2>2. "cgc" \in EnrKeys \ {"seq"}
    BY Zenon DEF EnrKeys
  <2>3. enr'["cgc"] = cgc
    BY <2>1, <2>2, InsertRenumbers DEF RecordInv, Typed
  <2> QED BY <2>3 DEF CustodyInv
<1> QED BY Zenon, <1>1, <1>2, <1>3, <1>4 DEF Planned

\* Every step of the service.
LEMMA CustodyStep == SubnetsFit /\ RecordInv /\ CustodyInv /\ [Next]_vars => CustodyInv'
<1> SUFFICES ASSUME SubnetsFit, RecordInv, CustodyInv, [Next]_vars PROVE CustodyInv'
  BY Zenon
<1>1. /\ "custody" \in DOMAIN budget' /\ budget'.custody = budget.custody
      /\ budget.custody \subseteq 0 .. data_column_sidecar_subnet_count
  BY Zenon, CustodyOfBudget DEF CustodyInv
<1>2. SUFFICES /\ local_metadata'.custody_group_count \in Nat
               /\ disk_metadata'.custody_group_count \in Nat
               /\ sampling_subnets' \subseteq Columns
  BY Zenon, <1>1, CustodyPlanned DEF CustodyInv
<1>3. CASE Restart
  <2>1. PICK network_config \in budget.configs, cgc \in budget.custody :
          LET p == NewProcess(network_config, cgc, current_fork, disk_enr, disk_metadata)
          IN  /\ local_metadata' = p.metadata /\ disk_metadata' = p.metadata
              /\ sampling_subnets' = p.sampling_subnets
    BY <1>3, ZenonT(60) DEF Restart
  <2>2. cgc \in Nat /\ disk_metadata.custody_group_count \in Nat
    BY <1>1 DEF CustodyInv
  <2>3. LET p == NewProcess(network_config, cgc, current_fork, disk_enr, disk_metadata)
        IN  p.metadata.custody_group_count \in Nat /\ p.sampling_subnets \subseteq Columns
    BY <2>2, ProcessSamples, Zenon
  <2> QED BY <2>1, <2>3, Zenon
<1>4. CASE Continue /\ (update_metadata_bitfields \/ save_metadata_to_disk)
  <2>1. sampling_subnets' = sampling_subnets
    BY Zenon, <1>4 DEF Continue, NotRecords, subscriptionVars
  <2>2. /\ local_metadata'.custody_group_count = local_metadata.custody_group_count
        /\ disk_metadata' \in {disk_metadata, local_metadata}
    BY Zenon, <1>4 DEF update_metadata_bitfields, save_metadata_to_disk, ReplaceMetadata,
       RecordInv, Typed, MetaKeys
  <2> QED BY Zenon, <2>1, <2>2 DEF CustodyInv
<1>5. CASE Continue /\ update_metadata_cgc
  <2>1. sampling_subnets' = sampling_subnets
    BY Zenon, <1>5 DEF Continue, NotRecords, subscriptionVars
  <2>2. enr["cgc"] \in Nat
    BY Zenon, <1>5, PlanGoesOn DEF update_metadata_cgc, CustodyInv
  <2>3. /\ local_metadata'.custody_group_count \in {local_metadata.custody_group_count, enr["cgc"]}
        /\ disk_metadata' = disk_metadata
    BY Zenon, <1>5 DEF update_metadata_cgc, ReplaceMetadata, RecordInv, Typed, MetaKeys
  <2> QED BY Zenon, <2>1, <2>2, <2>3 DEF CustodyInv
<1>6. CASE NewColumns
  <2>1. UNCHANGED <<local_metadata, disk_metadata>>
    BY Zenon, <1>6 DEF NewColumns, NotTopics, metadataVars
  <2>2. PICK cgc \in budget.custody :
          sampling_subnets' = sampling_subnets \cup compute_subnets(cgc)
    BY Zenon, <1>6 DEF NewColumns, subscribe_new_data_column_subnets, update_data_column_subnets
  <2> QED BY Zenon, <1>1, <2>1, <2>2, SubnetsOfCount DEF CustodyInv
<1>7. CASE UNCHANGED <<local_metadata, disk_metadata, sampling_subnets>>
  BY Zenon, <1>7 DEF CustodyInv
<1>8. Continue => \/ update_metadata_bitfields \/ save_metadata_to_disk \/ update_metadata_cgc
                  \/ UNCHANGED <<local_metadata, disk_metadata, sampling_subnets>>
  BY Zenon DEF Continue, ExecuteNext, replace_local_enr, save_enr_to_disk,
     replace_local_enr_saved, next_event, NotRecords, metadataVars, subscriptionVars
<1>9. \/ Restart \/ Continue \/ NewColumns
      \/ UNCHANGED <<local_metadata, disk_metadata, sampling_subnets>>
  BY Zenon DEF Next, Poll, DiscoverPeers, DiscoverSubnetPeers, QueryDone, Cache,
     PeersChange, Tick, NewListenAddr, UpdateUdpSocket, SocketUpdated, UpdateEnrSubnet,
     UpdateEnrCgc, StartTopics, SubscribeKind, UnsubscribeKind, SubscribeNewFork,
     UpdateCurrentFork, update_fork_version, update_enr_fork_id, update_nfd, LeaveOldTopics,
     Publish, Subscribed, Unsubscribed, Expire, SendPing, ReceivePing, AnswerMetadata,
     meta_data_response, NotDiscovery, NotRecords, NotTopics, NotMessages, NotExchange,
     metadataVars, subscriptionVars, vars
<1> QED BY Zenon, <1>3, <1>4, <1>5, <1>6, <1>7, <1>8, <1>9

-----------------------------------------------------------------------------
(* The inductive invariant of the topics.                                  *)

\* The fork the service is in or about to enter.
NewFork == IF transition = "subscribed" THEN next_fork(ChainConfig, current_fork)
                                        ELSE current_fork

\* The digests whose topics matter.
LiveDigests == {enr_fork_id, NewFork.fork_digest}

Core(d) == CoreOf(PhaseOf[d], sampling_subnets)

Needed(d) == (Core(d) \cup wanted) \ windowed

Permitted(d) == Core(d) \cup wanted \cup windowed \cup ColumnKinds(sampling_subnets)

TransitionInv ==
  /\ transition \in {"starting", "none", "subscribed", "forked", "versioned", "announced"}
  /\ transition # "forked" => enr_fork_id = current_fork.fork_digest
  /\ wanted \subseteq NonCore
  /\ windowed \subseteq NonCore \cup ColumnKinds(Columns)
  /\ transition = "starting" =>
       gossipsub_subscriptions = {} /\ wanted = {} /\ windowed = {}

\* Nothing is missing under a digest that matters, and nothing is there that has no
\* reason to be.
SubscribedInv ==
  /\ transition # "starting" =>
       \A d \in LiveDigests : \A kind \in Needed(d) :
         GossipTopic(kind, d) \in gossipsub_subscriptions
  /\ \A topic \in gossipsub_subscriptions :
       /\ topic = GossipTopic(topic.kind, topic.fork_digest)
       /\ topic.fork_digest \in LiveDigests => topic.kind \in Permitted(topic.fork_digest)
       /\ transition = "none" => topic.fork_digest = enr_fork_id

MeshInv == mesh = {t \in gossipsub_subscriptions : t.kind # Bid}

TopicInv == TransitionInv /\ SubscribedInv /\ MeshInv

\* The invariant is what ForkTopics says, and more.
LEMMA TopicsInvariant ==
  ASSUME TopicInv
  PROVE  ForkTopics
<1>1. CoreKinds = Core(enr_fork_id)
  BY Zenon DEF CoreKinds, Core, CoreOf, as_topic_config
<1>2. enr_fork_id \in LiveDigests
  BY Zenon DEF LiveDigests
<1>3. ASSUME transition # "starting", NEW kind \in (CoreKinds \cup wanted) \ windowed
      PROVE  GossipTopic(kind, enr_fork_id) \in gossipsub_subscriptions
  BY Zenon, <1>1, <1>2, <1>3 DEF TopicInv, SubscribedInv, Needed
<1>4. ASSUME transition = "none", NEW topic \in gossipsub_subscriptions
      PROVE  /\ topic.fork_digest = enr_fork_id
             /\ topic.kind \in CoreKinds \cup wanted \cup windowed
                                 \cup Indexed("DataColumnSidecar", sampling_subnets)
  BY Zenon, <1>1, <1>2, <1>4 DEF TopicInv, SubscribedInv, Permitted, ColumnKinds
<1> QED BY Zenon, <1>3, <1>4 DEF ForkTopics, TopicInv, MeshInv, Bid

-----------------------------------------------------------------------------
(* Every step keeps the invariant.                                         *)

\* The digests that matter are known, and the new fork's has the fork's phase.
LEMMA LiveKnown ==
  ASSUME DigestInv
  PROVE  /\ NewFork \in Forks
         /\ LiveDigests \subseteq all_fork_digests
         /\ PhaseOf[NewFork.fork_digest] = NewFork.fork_name
<1>1. NewFork \in Forks
  BY Zenon, NextForkIn DEF NewFork, DigestInv
<1> QED BY Zenon, <1>1, ForkDigests, PhaseOfFork DEF LiveDigests, DigestInv

\* gossipsub takes what the service subscribes to, but for bids.
LEMMA TopicAccepted ==
  ASSUME SubnetsFit, sampling_subnets \subseteq Columns, NEW d \in all_fork_digests,
         NEW kind \in Core(d) \cup NonCore \cup ColumnKinds(Columns)
  PROVE  GossipTopic(kind, d) \in create_whitelist_filter <=> GossipTopic(kind, d).kind # Bid
<1>1. GossipTopic(kind, d).kind = kind
  BY Zenon DEF GossipTopic
<1>2. GossipTopic(kind, d) \in create_whitelist_filter <=> kind \in AcceptedKinds
  BY Zenon, Whitelist
<1>3. kind = Bid \/ kind \in AcceptedKinds
  BY Zenon, CoreAccepted, ChosenAccepted DEF Core
<1> QED BY Zenon, <1>1, <1>2, <1>3, BidRefused

\* The two ways in which topics change keep gossipsub with the globals.
LEMMA MeshChanges ==
  ASSUME MeshInv, NEW topics
  PROVE  /\ /\ subscribe(topics)
            /\ \A t \in topics : t \in create_whitelist_filter <=> t.kind # Bid
            => MeshInv'
         /\ unsubscribe(topics) => MeshInv'
BY Zenon DEF MeshInv, subscribe, unsubscribe

\* subscribe_new_fork_topics, from a state in which only the service's digest has
\* topics: what is needed under the new digest is there, and no more.
LEMMA NewForkTopics ==
  ASSUME SubnetsFit, DigestInv, CustodyInv, TransitionInv, SubscribedInv, MeshInv,
         transition \in {"starting", "none"},
         NEW fork \in Forks, subscribe_new_fork_topics(fork.fork_name, fork.fork_digest)
  PROVE  /\ gossipsub_subscriptions \subseteq gossipsub_subscriptions'
         /\ \A kind \in Needed(fork.fork_digest) :
              GossipTopic(kind, fork.fork_digest) \in gossipsub_subscriptions'
         /\ \A topic \in gossipsub_subscriptions' \ gossipsub_subscriptions :
              /\ topic = GossipTopic(topic.kind, fork.fork_digest)
              /\ topic.fork_digest = fork.fork_digest
              /\ topic.kind \in Permitted(fork.fork_digest)
         /\ MeshInv'
<1> DEFINE d == fork.fork_digest
           chosen == {t.kind : t \in {u \in gossipsub_subscriptions :
                                        is_fork_non_core_topic(u.kind)}}
           kinds == Core(d) \cup chosen
           topics == {GossipTopic(kind, d) : kind \in kinds}
<1>1. PhaseOf[d] = fork.fork_name /\ d \in all_fork_digests
  BY Zenon, PhaseOfFork, ForkDigests
<1>2. Core(d) = core_topics_to_subscribe(fork.fork_name, as_topic_config)
  BY Zenon, <1>1 DEF Core, CoreOf, as_topic_config
<1>3. subscribe(topics)
  BY Zenon, <1>2 DEF subscribe_new_fork_topics
<1>4. chosen \subseteq (wanted \cup windowed) \cap NonCore
  <2> SUFFICES ASSUME NEW t \in gossipsub_subscriptions, is_fork_non_core_topic(t.kind)
               PROVE  t.kind \in (wanted \cup windowed) \cap NonCore
    BY Zenon
  <2>1. transition = "none" /\ t.fork_digest = enr_fork_id
    BY Zenon DEF TransitionInv, SubscribedInv
  <2>2. t.kind \in Permitted(enr_fork_id)
    BY Zenon, <2>1 DEF SubscribedInv, LiveDigests
  <2>3. PhaseOf[enr_fork_id] \in Phases
    BY Zenon, DigestPhase DEF DigestInv
  <2>4. t.kind \notin Core(enr_fork_id)
    BY Zenon, <2>3, CoreIsNotChosen DEF Core
  <2>5. t.kind \notin ColumnKinds(Columns)
    BY Zenon, ChosenAccepted
  <2>6. ColumnKinds(sampling_subnets) \subseteq ColumnKinds(Columns)
    BY Zenon DEF CustodyInv, ColumnKinds, Indexed
  <2> QED BY Zenon, <2>2, <2>4, <2>5, <2>6 DEF Permitted, TransitionInv
<1>5. wanted \ windowed \subseteq chosen
  <2> SUFFICES ASSUME NEW kind \in wanted \ windowed PROVE kind \in chosen
    BY Zenon
  <2>1. transition = "none" /\ kind \in NonCore
    BY Zenon DEF TransitionInv
  <2>2. GossipTopic(kind, enr_fork_id) \in gossipsub_subscriptions
    BY Zenon, <2>1 DEF SubscribedInv, Needed, LiveDigests
  <2>3. GossipTopic(kind, enr_fork_id).kind = kind /\ is_fork_non_core_topic(kind)
    BY Zenon, <2>1, ChosenAccepted DEF GossipTopic
  <2> QED BY Zenon, <2>2, <2>3
<1>6. \A t \in topics : t \in create_whitelist_filter <=> t.kind # Bid
  BY Zenon, <1>1, <1>4, TopicAccepted DEF CustodyInv
<1>7. MeshInv'
  BY Zenon, <1>3, <1>6, MeshChanges
<1>8. gossipsub_subscriptions' = gossipsub_subscriptions \cup topics
  BY Zenon, <1>3 DEF subscribe
<1>9. \A kind \in Needed(d) : GossipTopic(kind, d) \in topics
  BY Zenon, <1>5 DEF Needed
<1>10. \A topic \in topics : /\ topic = GossipTopic(topic.kind, d)
                             /\ topic.fork_digest = d
                             /\ topic.kind \in kinds
  BY DEF GossipTopic
<1>11. kinds \subseteq Permitted(d)
  BY Zenon, <1>4 DEF Permitted
<1> HIDE DEF topics, kinds
<1> QED BY Zenon, <1>7, <1>8, <1>9, <1>10, <1>11

\* The application's first topics.
LEMMA TopicsStart ==
  ASSUME SubnetsFit, DigestInv, CustodyInv, TopicInv, StartTopics
  PROVE  TopicInv'
<1>1. /\ transition = "starting" /\ transition' = "none"
      /\ UNCHANGED <<current_fork, enr_fork_id, sampling_subnets, wanted, windowed>>
  BY Zenon DEF StartTopics
<1>2. enr_fork_id = current_fork.fork_digest /\ current_fork \in Forks
  BY Zenon, <1>1 DEF TopicInv, TransitionInv, DigestInv
<1>3. subscribe_new_fork_topics(current_fork.fork_name, current_fork.fork_digest)
  BY Zenon, <1>2 DEF StartTopics
<1>4. /\ \A kind \in Needed(enr_fork_id) :
           GossipTopic(kind, enr_fork_id) \in gossipsub_subscriptions'
      /\ \A topic \in gossipsub_subscriptions' \ gossipsub_subscriptions :
           /\ topic = GossipTopic(topic.kind, enr_fork_id)
           /\ topic.fork_digest = enr_fork_id
           /\ topic.kind \in Permitted(enr_fork_id)
      /\ MeshInv'
  BY Zenon, <1>1, <1>2, <1>3, NewForkTopics DEF TopicInv
<1>5. gossipsub_subscriptions = {}
  BY Zenon, <1>1 DEF TopicInv, TransitionInv
<1>6. TransitionInv'
  BY Zenon, <1>1, <1>2 DEF TopicInv, TransitionInv
<1>7. LiveDigests' = {enr_fork_id}
  BY Zenon, <1>1, <1>2 DEF LiveDigests, NewFork
<1>8. \A d : Needed(d)' = Needed(d) /\ Permitted(d)' = Permitted(d)
  BY Zenon, <1>1 DEF Needed, Permitted, Core
<1>9. SubscribedInv'
  BY Zenon, <1>1, <1>4, <1>5, <1>7, <1>8 DEF SubscribedInv
<1> QED BY Zenon, <1>4, <1>6, <1>9 DEF TopicInv

\* The first half of a transition: the next fork's topics are added.
LEMMA TopicsNewFork ==
  ASSUME SubnetsFit, DigestInv, CustodyInv, TopicInv, SubscribeNewFork
  PROVE  TopicInv'
<1> DEFINE next == next_fork(ChainConfig, current_fork)
<1>1. /\ transition = "none" /\ transition' = "subscribed" /\ next # NoFork
      /\ subscribe_new_fork_topics(next.fork_name, next.fork_digest)
      /\ UNCHANGED <<current_fork, enr_fork_id, sampling_subnets, wanted, windowed>>
  BY Zenon DEF SubscribeNewFork
<1>2. next \in Forks
  BY Zenon, <1>1, NextForkIn
<1>3. LiveDigests' = {enr_fork_id, next.fork_digest} /\ enr_fork_id \in LiveDigests
  BY Zenon, <1>1 DEF LiveDigests, NewFork
<1> HIDE DEF next
<1> DEFINE d == next.fork_digest
<1>4. /\ gossipsub_subscriptions \subseteq gossipsub_subscriptions'
      /\ \A kind \in Needed(d) : GossipTopic(kind, d) \in gossipsub_subscriptions'
      /\ \A topic \in gossipsub_subscriptions' \ gossipsub_subscriptions :
           /\ topic = GossipTopic(topic.kind, d)
           /\ topic.fork_digest = d
           /\ topic.kind \in Permitted(d)
      /\ MeshInv'
  BY Zenon, <1>1, <1>2, NewForkTopics DEF TopicInv
<1>5. TransitionInv'
  BY Zenon, <1>1 DEF TopicInv, TransitionInv
<1>6. \A x : Needed(x)' = Needed(x) /\ Permitted(x)' = Permitted(x)
  BY Zenon, <1>1 DEF Needed, Permitted, Core
<1> HIDE DEF d
<1>7. LiveDigests' = {enr_fork_id, d}
  BY Zenon, <1>3 DEF d
<1>8. \A topic \in gossipsub_subscriptions : /\ topic = GossipTopic(topic.kind, topic.fork_digest)
                                             /\ topic.fork_digest = enr_fork_id
                                             /\ topic.kind \in Permitted(enr_fork_id)
  BY Zenon, <1>1, <1>3 DEF TopicInv, SubscribedInv
<1>9. \A kind \in Needed(enr_fork_id) :
        GossipTopic(kind, enr_fork_id) \in gossipsub_subscriptions
  BY Zenon, <1>1, <1>3 DEF TopicInv, SubscribedInv
<1>10. SubscribedInv'
  BY Zenon, <1>1, <1>4, <1>6, <1>7, <1>8, <1>9 DEF SubscribedInv
<1> QED BY Zenon, <1>4, <1>5, <1>10 DEF TopicInv

\* Outside the two halves of a transition one digest matters.
LEMMA OneDigest ==
  ASSUME TransitionInv, ~InWindow
  PROVE  LiveDigests = {enr_fork_id}
BY Zenon DEF TransitionInv, InWindow, LiveDigests, NewFork

\* The application subscribes to a kind under the service's digest.
LEMMA TopicsSubscribe ==
  ASSUME SubnetsFit, DigestInv, CustodyInv, TopicInv, SubscribeKind
  PROVE  TopicInv'
<1>1. /\ transition # "starting"
      /\ UNCHANGED <<transition, current_fork, enr_fork_id, sampling_subnets>>
  BY Zenon DEF SubscribeKind, forkVars
<1>2. PICK kind \in NonCore :
        /\ subscribe({GossipTopic(kind, enr_fork_id)})
        /\ wanted' = wanted \cup {kind}
        /\ windowed' = IF InWindow THEN windowed \cup {kind} ELSE windowed \ {kind}
  BY Zenon DEF SubscribeKind, subscribe_kind
<1> DEFINE new == GossipTopic(kind, enr_fork_id)
<1>3. /\ gossipsub_subscriptions' = gossipsub_subscriptions \cup {new}
      /\ new.kind = kind /\ new.fork_digest = enr_fork_id
  BY Zenon, <1>2 DEF subscribe, GossipTopic
<1>4. new \in create_whitelist_filter <=> new.kind # Bid
  BY Zenon, TopicAccepted DEF DigestInv, CustodyInv
<1>5. MeshInv'
  BY Zenon, <1>2, <1>4, MeshChanges DEF TopicInv
<1>6. TransitionInv'
  BY Zenon, <1>1, <1>2 DEF TopicInv, TransitionInv
<1>7. LiveDigests' = LiveDigests
  BY Zenon, <1>1 DEF LiveDigests, NewFork
<1>8. \A d : /\ Permitted(d) \subseteq Permitted(d)' /\ kind \in Permitted(d)'
             /\ Needed(d)' \subseteq Needed(d) \cup {kind}
             /\ InWindow => kind \notin Needed(d)'
  BY Zenon, <1>1, <1>2 DEF Needed, Permitted, Core
<1>9. ~InWindow => LiveDigests = {enr_fork_id}
  BY Zenon, OneDigest DEF TopicInv
<1> HIDE DEF new
<1>10. ASSUME NEW d \in LiveDigests, NEW k \in Needed(d)'
       PROVE  GossipTopic(k, d) \in gossipsub_subscriptions'
  <2>1. CASE k \in Needed(d)
    BY Zenon, <1>1, <1>3, <2>1 DEF TopicInv, SubscribedInv
  <2>2. CASE k = kind
    <3>1. d = enr_fork_id
      BY Zenon, <1>8, <1>9, <2>2
    <3> QED BY <1>3, <2>2, <3>1 DEF new
  <2> QED BY Zenon, <1>8, <2>1, <2>2
<1>11. ASSUME NEW topic \in gossipsub_subscriptions'
       PROVE  /\ topic = GossipTopic(topic.kind, topic.fork_digest)
              /\ topic.fork_digest \in LiveDigests => topic.kind \in Permitted(topic.fork_digest)'
              /\ transition = "none" => topic.fork_digest = enr_fork_id
  <2>1. CASE topic \in gossipsub_subscriptions
    BY <1>8, <2>1 DEF TopicInv, SubscribedInv
  <2>2. CASE topic = new
    BY Zenon, <1>3, <1>8, <2>2 DEF new
  <2> QED BY Zenon, <1>3, <2>1, <2>2
<1>12. SubscribedInv'
  BY Zenon, <1>1, <1>7, <1>10, <1>11 DEF SubscribedInv
<1> QED BY Zenon, <1>5, <1>6, <1>12 DEF TopicInv

\* The application leaves a kind under the service's digest.
LEMMA TopicsUnsubscribe ==
  ASSUME SubnetsFit, DigestInv, TopicInv, UnsubscribeKind
  PROVE  TopicInv'
<1>1. /\ transition # "starting"
      /\ UNCHANGED <<transition, current_fork, enr_fork_id, sampling_subnets>>
  BY Zenon DEF UnsubscribeKind, forkVars
<1>2. PICK kind \in wanted :
        /\ unsubscribe({GossipTopic(kind, enr_fork_id)})
        /\ wanted' = wanted \ {kind}
        /\ windowed' = IF InWindow THEN windowed \cup {kind} ELSE windowed
  BY Zenon DEF UnsubscribeKind, unsubscribe_kind
<1> DEFINE old == GossipTopic(kind, enr_fork_id)
<1>3. gossipsub_subscriptions' = gossipsub_subscriptions \ {old}
  BY Zenon, <1>2 DEF unsubscribe
<1>4. MeshInv'
  BY Zenon, <1>2, MeshChanges DEF TopicInv
<1>5. kind \in NonCore
  BY Zenon DEF TopicInv, TransitionInv
<1>6. TransitionInv'
  BY Zenon, <1>1, <1>2, <1>5 DEF TopicInv, TransitionInv
<1>7. LiveDigests' = LiveDigests /\ LiveDigests \subseteq all_fork_digests
  BY Zenon, <1>1, LiveKnown DEF LiveDigests, NewFork
<1>8. \A d \in LiveDigests : kind \notin Core(d)
  BY Zenon, <1>5, <1>7, CoreIsNotChosen, DigestPhase, ChosenAccepted DEF Core
<1>9. \A d \in LiveDigests : Needed(d)' \subseteq Needed(d) \ {kind}
  BY Zenon, <1>1, <1>2, <1>8 DEF Needed, Core
<1>10. \A d : /\ InWindow => Permitted(d) \subseteq Permitted(d)'
              /\ Permitted(d) \subseteq Permitted(d)' \cup {kind}
  BY Zenon, <1>1, <1>2 DEF Permitted, Core
<1>11. ~InWindow => LiveDigests = {enr_fork_id}
  BY Zenon, OneDigest DEF TopicInv
<1>12. ASSUME NEW d \in LiveDigests, NEW k \in Needed(d)'
       PROVE  GossipTopic(k, d) \in gossipsub_subscriptions'
  <2>1. GossipTopic(k, d) \in gossipsub_subscriptions /\ k # kind
    BY Zenon, <1>1, <1>9 DEF TopicInv, SubscribedInv
  <2>2. GossipTopic(k, d) # old
    BY Zenon, <2>1 DEF GossipTopic
  <2> QED BY Zenon, <1>3, <2>1, <2>2
<1> HIDE DEF old
<1>13. ASSUME NEW topic \in gossipsub_subscriptions'
       PROVE  /\ topic = GossipTopic(topic.kind, topic.fork_digest)
              /\ topic.fork_digest \in LiveDigests => topic.kind \in Permitted(topic.fork_digest)'
              /\ transition = "none" => topic.fork_digest = enr_fork_id
  <2>1. /\ topic \in gossipsub_subscriptions /\ topic # old
        /\ topic = GossipTopic(topic.kind, topic.fork_digest)
        /\ topic.fork_digest \in LiveDigests => topic.kind \in Permitted(topic.fork_digest)
        /\ transition = "none" => topic.fork_digest = enr_fork_id
    BY Zenon, <1>3 DEF TopicInv, SubscribedInv
  <2>2. topic.fork_digest = enr_fork_id => topic.kind # kind
    BY Zenon, <2>1 DEF old
  <2> QED BY Zenon, <1>10, <1>11, <2>1, <2>2
<1>14. SubscribedInv'
  BY Zenon, <1>1, <1>7, <1>12, <1>13 DEF SubscribedInv
<1> QED BY Zenon, <1>4, <1>6, <1>14 DEF TopicInv

\* More columns: they are subscribed to under the service's digest, and within the
\* two halves of a transition count as changed.
LEMMA TopicsColumns ==
  ASSUME SubnetsFit, DigestInv, CustodyInv, CustodyInv', TopicInv, NewColumns
  PROVE  TopicInv'
<1>1. /\ transition # "starting"
      /\ UNCHANGED <<transition, current_fork, enr_fork_id, wanted>>
      /\ windowed' = IF InWindow
                     THEN windowed \cup ColumnKinds(sampling_subnets' \ sampling_subnets)
                     ELSE windowed
  BY Zenon DEF NewColumns, forkVars, ColumnKinds
<1> DEFINE topics == {GossipTopic(kind, enr_fork_id) : kind \in ColumnKinds(sampling_subnets')}
<1>2. sampling_subnets \subseteq sampling_subnets' /\ subscribe(topics)
  BY Zenon DEF NewColumns, subscribe_new_data_column_subnets, update_data_column_subnets, ColumnKinds
<1>3. gossipsub_subscriptions' = gossipsub_subscriptions \cup topics
  BY Zenon, <1>2 DEF subscribe
<1>4. /\ ColumnKinds(sampling_subnets' \ sampling_subnets) \subseteq ColumnKinds(sampling_subnets')
      /\ ColumnKinds(sampling_subnets) \subseteq ColumnKinds(sampling_subnets')
      /\ ColumnKinds(sampling_subnets') \subseteq ColumnKinds(Columns)
  BY Zenon, <1>2 DEF CustodyInv, ColumnKinds, Indexed
<1>5. \A t \in topics : t \in create_whitelist_filter <=> t.kind # Bid
  BY Zenon, <1>4, TopicAccepted DEF DigestInv, CustodyInv
<1>6. MeshInv'
  BY Zenon, <1>2, <1>5, MeshChanges DEF TopicInv
<1>7. TransitionInv'
  BY Zenon, <1>1, <1>4 DEF TopicInv, TransitionInv
<1>8. LiveDigests' = LiveDigests /\ LiveDigests \subseteq all_fork_digests
  BY Zenon, <1>1, LiveKnown DEF LiveDigests, NewFork
<1>9. \A d \in LiveDigests :
        /\ Core(d) \subseteq Core(d)'
        /\ Core(d)' \subseteq Core(d) \cup ColumnKinds(sampling_subnets' \ sampling_subnets)
  BY Zenon, <1>2, <1>8, CoreGrows, DigestPhase DEF Core
<1>10. \A d \in LiveDigests :
         /\ Permitted(d) \cup ColumnKinds(sampling_subnets') \subseteq Permitted(d)'
         /\ Needed(d)' \subseteq Needed(d) \cup ColumnKinds(sampling_subnets' \ sampling_subnets)
         /\ InWindow => Needed(d)' \subseteq Needed(d)
  BY Zenon, <1>1, <1>4, <1>9 DEF Permitted, Needed
<1>11. ~InWindow => LiveDigests = {enr_fork_id}
  BY Zenon, OneDigest DEF TopicInv
<1>12. \A t \in topics : /\ t = GossipTopic(t.kind, enr_fork_id)
                         /\ t.fork_digest = enr_fork_id
                         /\ t.kind \in ColumnKinds(sampling_subnets')
  BY DEF GossipTopic
<1>13. ASSUME NEW d \in LiveDigests, NEW k \in Needed(d)'
       PROVE  GossipTopic(k, d) \in gossipsub_subscriptions'
  <2>1. CASE k \in Needed(d)
    BY Zenon, <1>1, <1>3, <2>1 DEF TopicInv, SubscribedInv
  <2>2. CASE k \notin Needed(d)
    <3>1. d = enr_fork_id /\ k \in ColumnKinds(sampling_subnets')
      BY Zenon, <1>4, <1>10, <1>11, <2>2
    <3> QED BY Zenon, <1>3, <3>1
  <2> QED BY Zenon, <2>1, <2>2
<1> HIDE DEF topics
<1>14. ASSUME NEW topic \in gossipsub_subscriptions'
       PROVE  /\ topic = GossipTopic(topic.kind, topic.fork_digest)
              /\ topic.fork_digest \in LiveDigests => topic.kind \in Permitted(topic.fork_digest)'
              /\ transition = "none" => topic.fork_digest = enr_fork_id
  <2>1. CASE topic \in gossipsub_subscriptions
    BY Zenon, <1>10, <2>1 DEF TopicInv, SubscribedInv
  <2>2. CASE topic \in topics
    BY <1>10, <1>12, <2>2
  <2> QED BY Zenon, <1>3, <2>1, <2>2
<1>15. SubscribedInv'
  BY Zenon, <1>1, <1>8, <1>13, <1>14 DEF SubscribedInv
<1> QED BY Zenon, <1>6, <1>7, <1>15 DEF TopicInv

\* The transition moves on: no digest comes to matter that did not.
LEMMA TopicsAdvance ==
  ASSUME TopicInv, UNCHANGED subscriptionVars, TransitionInv', LiveDigests' \subseteq LiveDigests,
         transition = "starting" => transition' = "starting",
         transition' = "none" => transition = "none" /\ enr_fork_id' = enr_fork_id
  PROVE  TopicInv'
<1>1. UNCHANGED <<sampling_subnets, gossipsub_subscriptions, mesh, wanted, windowed>>
  BY Zenon DEF subscriptionVars, topicVars
<1>2. \A d : Needed(d)' = Needed(d) /\ Permitted(d)' = Permitted(d)
  BY Zenon, <1>1 DEF Needed, Permitted, Core
<1>3. SubscribedInv'
  BY Zenon, <1>1, <1>2 DEF TopicInv, SubscribedInv
<1>4. MeshInv'
  BY Zenon, <1>1 DEF TopicInv, MeshInv
<1> QED BY Zenon, <1>3, <1>4 DEF TopicInv

\* The fork context moves on, and then the service's digest.
LEMMA TopicsForked ==
  ASSUME RecordInv, DigestInv, TopicInv, UpdateCurrentFork \/ update_enr_fork_id \/ update_nfd
  PROVE  TopicInv'
<1>1. UNCHANGED <<subscriptionVars, wanted, windowed, gossipsub_subscriptions>>
  BY Zenon DEF UpdateCurrentFork, update_enr_fork_id, update_nfd, subscriptionVars, topicVars
<1>2. CASE UpdateCurrentFork
  <2>1. /\ transition = "subscribed" /\ transition' = "forked" /\ enr_fork_id' = enr_fork_id
        /\ current_fork' = next_fork(ChainConfig, current_fork)
    BY Zenon, <1>2 DEF UpdateCurrentFork, update_current_fork, DigestInv
  <2>2. LiveDigests' \subseteq LiveDigests
    BY Zenon, <2>1 DEF LiveDigests, NewFork
  <2>3. TransitionInv'
    BY <1>1, <2>1 DEF TopicInv, TransitionInv
  <2> QED BY Zenon, <1>1, <2>1, <2>2, <2>3, TopicsAdvance
<1>3. CASE update_enr_fork_id
  <2>0. Has(writes, "fork_id")
    BY Zenon, <1>3, PlanGoesOn DEF update_enr_fork_id
  <2>1. /\ transition = "forked" /\ transition' = "versioned" /\ current_fork' = current_fork
        /\ enr_fork_id' = current_fork.fork_digest
    BY Zenon, <1>3, <2>0 DEF update_enr_fork_id, DigestInv
  <2>2. LiveDigests' \subseteq LiveDigests
    BY <2>1 DEF LiveDigests, NewFork
  <2>3. TransitionInv'
    BY Zenon, <1>1, <2>1 DEF TopicInv, TransitionInv
  <2> QED BY Zenon, <1>1, <2>1, <2>2, <2>3, TopicsAdvance
<1>4. CASE update_nfd
  <2>1. /\ transition = "versioned" /\ transition' = "announced"
        /\ current_fork' = current_fork /\ enr_fork_id' = enr_fork_id
    BY Zenon, <1>4 DEF update_nfd
  <2>2. LiveDigests' \subseteq LiveDigests
    BY Zenon, <2>1 DEF LiveDigests, NewFork
  <2>3. TransitionInv'
    BY Zenon, <1>1, <2>1 DEF TopicInv, TransitionInv
  <2> QED BY Zenon, <1>1, <2>1, <2>2, <2>3, TopicsAdvance
<1> QED BY Zenon, <1>2, <1>3, <1>4

\* The second half: the topics of other digests go.
LEMMA TopicsLeft ==
  ASSUME TopicInv, LeaveOldTopics
  PROVE  TopicInv'
<1> DEFINE old == {t \in gossipsub_subscriptions : t.fork_digest # enr_fork_id}
<1>1. /\ transition = "announced" /\ transition' = "none" /\ unsubscribe(old)
      /\ UNCHANGED <<current_fork, enr_fork_id, sampling_subnets, wanted, windowed>>
  BY Zenon DEF LeaveOldTopics, unsubscribe_from_fork_topics_except
<1>2. gossipsub_subscriptions' = {t \in gossipsub_subscriptions : t.fork_digest = enr_fork_id}
  BY Zenon, <1>1 DEF unsubscribe
<1>3. MeshInv'
  BY Zenon, <1>1, MeshChanges DEF TopicInv
<1>4. TransitionInv'
  BY Zenon, <1>1 DEF TopicInv, TransitionInv
<1>5. LiveDigests' = {enr_fork_id} /\ LiveDigests = {enr_fork_id}
  BY Zenon, <1>1 DEF TopicInv, TransitionInv, LiveDigests, NewFork
<1>6. \A d : Needed(d)' = Needed(d) /\ Permitted(d)' = Permitted(d)
  BY Zenon, <1>1 DEF Needed, Permitted, Core
<1>7. \A k : GossipTopic(k, enr_fork_id).fork_digest = enr_fork_id
  BY Zenon DEF GossipTopic
<1>8. SubscribedInv'
  BY Zenon, <1>1, <1>2, <1>5, <1>6, <1>7 DEF TopicInv, SubscribedInv
<1> QED BY Zenon, <1>3, <1>4, <1>8 DEF TopicInv

\* A state without topics whose digest is the fork's.
LEMMA TopicsEmpty ==
  ASSUME transition = "starting", enr_fork_id = current_fork.fork_digest,
         gossipsub_subscriptions = {}, mesh = {}, wanted = {}, windowed = {}
  PROVE  TopicInv
BY DEF TopicInv, TransitionInv, SubscribedInv, MeshInv

\* The first process has no topics.
LEMMA TopicsInit == Init => TopicInv
<1> SUFFICES ASSUME Init PROVE TopicInv
  BY Zenon
<1>1. PICK network_config \in budget.configs, cgc \in budget.custody, file \in budget.files :
        enr_fork_id = NewProcess(network_config, cgc, current_fork, NoFile, file).enr_fork_id
  BY ZenonT(60) DEF Init
<1>2. BuiltAtStart(NewProcess(network_config, cgc, current_fork, NoFile, file),
                   current_fork.fork_digest)
  BY ProcessStarts, Zenon
<1>3. enr_fork_id = current_fork.fork_digest
  BY Zenon, <1>1, <1>2 DEF BuiltAtStart
<1>4. /\ gossipsub_subscriptions = {} /\ mesh = {} /\ wanted = {} /\ windowed = {}
      /\ transition = "starting"
  BY Zenon DEF Init
<1> QED BY <1>3, <1>4, TopicsEmpty

\* Neither does one that restarts.
LEMMA TopicsRestart ==
  ASSUME RecordInv, Restart
  PROVE  TopicInv'
<1>1. PICK network_config \in budget.configs, cgc \in budget.custody :
        enr_fork_id' = NewProcess(network_config, cgc, current_fork, disk_enr,
                                  disk_metadata).enr_fork_id
  BY ZenonT(60) DEF Restart
<1>2. Numbered(disk_enr)
  BY Zenon DEF RecordInv, Typed
<1>3. BuiltAtStart(NewProcess(network_config, cgc, current_fork, disk_enr, disk_metadata),
                   current_fork.fork_digest)
  BY <1>2, ProcessStarts, Zenon
<1>4. enr_fork_id' = current_fork'.fork_digest
  BY Zenon, <1>1, <1>3 DEF BuiltAtStart, Restart
<1>5. /\ gossipsub_subscriptions' = {} /\ mesh' = {} /\ wanted' = {} /\ windowed' = {}
      /\ transition' = "starting"
  BY Zenon DEF Restart
<1> QED BY Zenon, <1>4, <1>5 DEF TopicInv, TransitionInv, SubscribedInv, MeshInv

\* Every step of the service.
LEMMA TopicsStep ==
  /\ SubnetsFit /\ RecordInv /\ DigestInv /\ CustodyInv /\ CustodyInv' /\ TopicInv
  /\ [Next]_vars
  => TopicInv'
<1> SUFFICES ASSUME SubnetsFit, RecordInv, DigestInv, CustodyInv, CustodyInv', TopicInv,
                    [Next]_vars
             PROVE  TopicInv'
  BY Zenon
<1>1. CASE UNCHANGED <<subscriptionVars, forkVars>>
  <2>1. UNCHANGED <<transition, enr_fork_id, current_fork, wanted, windowed,
                    gossipsub_subscriptions>>
    BY Zenon, <1>1 DEF subscriptionVars, forkVars, topicVars
  <2>2. TransitionInv' /\ LiveDigests' = LiveDigests
    BY Zenon, <2>1 DEF TopicInv, TransitionInv, LiveDigests, NewFork
  <2> QED BY Zenon, <1>1, <2>1, <2>2, TopicsAdvance
<1>2. \/ Restart \/ StartTopics \/ SubscribeKind \/ UnsubscribeKind \/ NewColumns
      \/ SubscribeNewFork \/ UpdateCurrentFork \/ update_enr_fork_id \/ update_nfd
      \/ LeaveOldTopics \/ UNCHANGED <<subscriptionVars, forkVars>>
  BY Zenon DEF Next, Poll, DiscoverPeers, DiscoverSubnetPeers, QueryDone, Cache, PeersChange,
     Tick, NewListenAddr, UpdateUdpSocket, SocketUpdated, UpdateEnrSubnet, UpdateEnrCgc,
     Continue, update_fork_version, Publish, Subscribed, Unsubscribed, Expire, SendPing, ReceivePing, AnswerMetadata,
     meta_data_response, NotDiscovery, NotRecords, NotMessages, NotExchange, vars
<1> QED BY <1>1, <1>2, TopicsRestart, TopicsStart, TopicsSubscribe, TopicsUnsubscribe,
           TopicsColumns, TopicsNewFork, TopicsForked, TopicsLeft

\* Across forks and restarts the node never misses a topic it needs and keeps none
\* it does not, for every chain configuration, sampling and order of the
\* application's calls, as long as the subnets fit (SubnetsFit).
THEOREM ForkTopicsCorrect == Spec => [](SubnetsFit => ForkTopics)
<1> DEFINE Inv == RecordInv /\ DigestInv /\ (SubnetsFit => CustodyInv /\ TopicInv)
<1>1. Init => Inv
  BY Zenon, RecordInit, GossipInit, CustodyInit, TopicsInit
<1>2. Inv /\ [Next]_vars => Inv'
  BY Zenon, RecordStep, DigestStep, CustodyStep, TopicsStep DEF SubnetsFit
<1>3. Inv => (SubnetsFit => ForkTopics)
  BY Zenon, TopicsInvariant
<1> QED BY <1>1, <1>2, <1>3, PTL DEF Spec
=============================================================================
