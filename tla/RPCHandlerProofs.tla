-------------------------- MODULE RPCHandlerProofs --------------------------
(***************************************************************************)
(* What the methods of the handler of a connection (RPCHandler) do, for    *)
(* any state of the handler that satisfies the stated conditions.  The     *)
(* proofs about the behaviour (RPCProofs) rest on these lemmas.            *)
(*                                                                         *)
(* The first part is about the books of the handler: the timers and the    *)
(* substreams they are for, and the events that wait for the behaviour.    *)
(* The second part is about the requests to the peer: where each is, and   *)
(* what the application has been told of it.                               *)
(***************************************************************************)
EXTENDS RPCHandler, QueueTheorems

-----------------------------------------------------------------------------
(* The books of the handler.                                               *)

Fields == {"state", "events_out", "dial_queue", "dialing", "outbound_io_error_retries",
           "inbound_substreams", "inbound_substreams_delay", "current_inbound_substream_id",
           "outbound_substreams", "outbound_substreams_delay", "wire"}

\* What HandlerOut and the connection may hold, other than a request of the peer.
Notices == [type : {"InboundErr", "OutboundErr", "Response", "EndOfStream", "Close"},
            of : Int \cup OutRequests]
PeerRequests == [type : {"Request"}, of : Substreams, kind : Kinds]

InFields == {"sending", "pending_items", "max_remaining_chunks"}
OutFields == {"state", "max_remaining_chunks"}

InboundInfo(x) == x = None \/ DOMAIN x = InFields
OutboundInfo(x) == x = None \/ DOMAIN x = OutFields

\* The names of the fields.
LEMMA FieldNames ==
  /\ "pending_items" \in InFields /\ "sending" \in InFields /\ "max_remaining_chunks" \in InFields
  /\ "state" \in OutFields /\ "max_remaining_chunks" \in OutFields
BY Zenon DEF InFields, OutFields

InBooks(substreams, delay) ==
  /\ DOMAIN substreams = Substreams
  /\ \A s \in Substreams : InboundInfo(substreams[s])
  /\ delay \subseteq {s \in Substreams : substreams[s] # None}

OutBooks(substreams, delay) ==
  /\ DOMAIN substreams = OutRequests
  /\ \A r \in OutRequests : OutboundInfo(substreams[r])
  /\ delay = {r \in OutRequests : substreams[r] # None}

Books(g) ==
  /\ DOMAIN g = Fields
  /\ g.dial_queue \in Seq(OutRequests)
  /\ InBooks(g.inbound_substreams, g.inbound_substreams_delay)
  /\ OutBooks(g.outbound_substreams, g.outbound_substreams_delay)

\* The books are in order, only notices wait, and c substreams have been opened: what a poll keeps.
Quiet(g, c) ==
  /\ Books(g)
  /\ g.events_out \in Seq(Notices)
  /\ g.current_inbound_substream_id = c

\* A change of an inbound substream's information keeps the books.
LEMMA InUpdated ==
  ASSUME NEW substreams, NEW delay, NEW s \in Substreams, NEW info,
         InBooks(substreams, delay), InboundInfo(info),
         info = None <=> substreams[s] = None
  PROVE  InBooks([substreams EXCEPT ![s] = info], delay)
BY Zenon DEF InBooks

\* A substream that is removed takes its timer along.
LEMMA InRemoved ==
  ASSUME NEW substreams, NEW delay, NEW s \in Substreams, InBooks(substreams, delay)
  PROVE  InBooks([substreams EXCEPT ![s] = None], delay \ {s})
BY Zenon DEF InBooks, InboundInfo

Updated(substreams, s, field, v) ==
  [substreams EXCEPT ![s] = [substreams[s] EXCEPT ![field] = v]]

\* A field of an inbound substream changes.
LEMMA InFieldUpdated ==
  ASSUME NEW substreams, NEW delay, NEW s \in Substreams, NEW field \in InFields, NEW v,
         InBooks(substreams, delay)
  PROVE  InBooks(Updated(substreams, s, field, v), delay)
<1> DEFINE x == substreams[s]
           y == [x EXCEPT ![field] = v]
<1>1. InboundInfo(x)
  BY Zenon DEF InBooks
<1> HIDE DEF x
<1>2. InboundInfo(y) /\ (y = None <=> x = None)
  BY Zenon, <1>1 DEF InboundInfo, InFields, None
<1> HIDE DEF y
<1>3. InBooks([substreams EXCEPT ![s] = y], delay)
  BY Zenon, <1>2, InUpdated DEF x
<1> QED BY Zenon, <1>3 DEF x, y, Updated

\* A notice is queued.
LEMMA PushQuiet ==
  ASSUME NEW g, NEW c, NEW e \in Notices, Quiet(g, c)
  PROVE  Quiet(Push(g, e), c)
<1>1. DOMAIN g = Fields
  BY Zenon DEF Quiet, Books
<1>2. /\ DOMAIN Push(g, e) = Fields
      /\ Push(g, e).events_out = Append(g.events_out, e)
      /\ \A field \in Fields \ {"events_out"} : Push(g, e)[field] = g[field]
  BY Zenon, <1>1 DEF Push, Fields
<1> QED BY <1>1, <1>2 DEF Quiet, Books, Fields

\* Errors of the peer's substreams, of which the application is not told
InboundErrs == [type : {"InboundErr"}, of : Substreams]

\* What the work on the inbound substreams leaves alone
Kept == {"state", "dial_queue", "dialing", "outbound_io_error_retries",
         "current_inbound_substream_id", "outbound_substreams", "outbound_substreams_delay"}

\* The handler o with changes to inbound substreams, their timers, and errors to report
Aside(g, o) ==
  /\ DOMAIN g = Fields
  /\ InBooks(g.inbound_substreams, g.inbound_substreams_delay)
  /\ g.events_out \in Seq(InboundErrs)
  /\ \A field \in Kept : g[field] = o[field]

\* An error of a substream is queued.
LEMMA PushAside ==
  ASSUME NEW g, NEW o, NEW e \in InboundErrs, Aside(g, o)
  PROVE  Aside(Push(g, e), o)
<1>1. DOMAIN g = Fields /\ g.events_out \in Seq(InboundErrs)
  BY Zenon DEF Aside
<1>2. /\ DOMAIN Push(g, e) = Fields
      /\ Push(g, e).events_out = Append(g.events_out, e)
      /\ \A field \in Fields \ {"events_out"} : Push(g, e)[field] = g[field]
  BY Zenon, <1>1 DEF Push, Fields
<1>3. Push(g, e).events_out \in Seq(InboundErrs)
  BY <1>1, <1>2
<1> QED BY Zenon, <1>2, <1>3 DEF Aside, Kept, Fields

\* A timer of an inbound substream expires.
LEMMA ExpireAside ==
  ASSUME NEW g, NEW o, NEW s \in Substreams, Aside(g, o)
  PROVE  Aside(ExpireInbound(g, s), o)
<1> DEFINE p == Push(g, Event("InboundErr", s))
           items == g.inbound_substreams[s].pending_items
           v == IF items = <<>> \/ ClosesLast(items) THEN items
                ELSE Append(items, [items[Len(items)] EXCEPT !.item = ERROR])
           k == ExpireInbound(g, s)
<1>1. Event("InboundErr", s) \in InboundErrs
  BY Zenon DEF Event, InboundErrs
<1>2. Aside(p, o)
  BY Zenon, <1>1, PushAside
<1>3. k = [p EXCEPT !.inbound_substreams_delay = @ \ {s},
                    !.inbound_substreams[s].pending_items = v]
  BY Zenon DEF ExpireInbound
<1> HIDE DEF p, v, k
<1>4. DOMAIN p = Fields
  BY Zenon, <1>2 DEF Aside
<1>5. /\ DOMAIN k = Fields
      /\ k.inbound_substreams_delay = p.inbound_substreams_delay \ {s}
      /\ k.inbound_substreams = Updated(p.inbound_substreams, s, "pending_items", v)
      /\ \A field \in Fields \ {"inbound_substreams", "inbound_substreams_delay"} :
           k[field] = p[field]
  BY Zenon, <1>3, <1>4 DEF Fields, Updated
<1>6. InBooks(p.inbound_substreams, p.inbound_substreams_delay \ {s})
  BY Zenon, <1>2 DEF Aside, InBooks
<1>7. InBooks(k.inbound_substreams, k.inbound_substreams_delay)
  <2>1. InBooks(Updated(p.inbound_substreams, s, "pending_items", v),
                p.inbound_substreams_delay \ {s})
    BY <1>6, InFieldUpdated, FieldNames, Zenon
  <2> QED BY Zenon, <1>5, <2>1
<1>8. Aside(k, o)
  BY Zenon, <1>2, <1>5, <1>7 DEF Aside, Kept, Fields
<1> QED BY Zenon, <1>8 DEF k

\* The books of the inbound substreams as a fact of their own.
LEMMA AsideFacts ==
  ASSUME NEW g, NEW o, Aside(g, o)
  PROVE  /\ DOMAIN g = Fields
         /\ InBooks(g.inbound_substreams, g.inbound_substreams_delay)
         /\ g.events_out \in Seq(InboundErrs)
BY Zenon DEF Aside

\* An inbound substream is removed.
LEMMA RemoveInboundAside ==
  ASSUME NEW g, NEW o, NEW s \in Substreams, Aside(g, o)
  PROVE  Aside(RemoveInbound(g, s), o)
<1> DEFINE k == RemoveInbound(g, s)
<1>1. DOMAIN g = Fields /\ InBooks(g.inbound_substreams, g.inbound_substreams_delay)
  BY Zenon, AsideFacts
<1>2. /\ DOMAIN k = Fields
      /\ k.inbound_substreams_delay = g.inbound_substreams_delay \ {s}
      /\ k.inbound_substreams = [g.inbound_substreams EXCEPT ![s] = None]
      /\ \A field \in Fields \ {"inbound_substreams", "inbound_substreams_delay"} :
           k[field] = g[field]
  BY Zenon, <1>1 DEF Fields, RemoveInbound
<1> HIDE DEF k
<1>3. InBooks([g.inbound_substreams EXCEPT ![s] = None], g.inbound_substreams_delay \ {s})
  BY <1>1, InRemoved, Zenon
<1>4. Aside(k, o)
  BY Zenon, <1>2, <1>3 DEF Aside, Kept, Fields
<1> QED BY Zenon, <1>4 DEF k

\* A response is handed to the substream.
LEMMA StartSendingAside ==
  ASSUME NEW g, NEW o, NEW s \in Substreams, Aside(g, o)
  PROVE  Aside(StartSending(g, s), o)
<1> DEFINE info == g.inbound_substreams[s]
           v == Tail(info.pending_items)
           w == [message |-> Head(info.pending_items),
                 last_chunk |-> info.max_remaining_chunks <= 1]
           subs == Updated(g.inbound_substreams, s, "pending_items", v)
           k == StartSending(g, s)
<1>1. DOMAIN g = Fields /\ InBooks(g.inbound_substreams, g.inbound_substreams_delay)
  BY Zenon, AsideFacts
<1>2. k = [g EXCEPT !.inbound_substreams[s].pending_items = v,
                    !.inbound_substreams[s].sending = w]
  BY Zenon DEF StartSending
<1> HIDE DEF v, w, k
<1>3. /\ DOMAIN k = Fields
      /\ k.inbound_substreams = Updated(subs, s, "sending", w)
      /\ \A field \in Fields \ {"inbound_substreams"} : k[field] = g[field]
  BY Zenon, <1>1, <1>2 DEF Fields, Updated
<1>4. InBooks(subs, g.inbound_substreams_delay)
  BY <1>1, InFieldUpdated, FieldNames, Zenon
<1> HIDE DEF subs
<1>5. InBooks(Updated(subs, s, "sending", w), g.inbound_substreams_delay)
  BY <1>4, InFieldUpdated, FieldNames, Zenon
<1>6. Aside(k, o)
  BY <1>3, <1>5 DEF Aside, Kept, Fields
<1> QED BY Zenon, <1>6 DEF k

\* A response has been sent.
LEMMA MessageSentAside ==
  ASSUME NEW g, NEW o, NEW s \in Substreams, Aside(g, o)
  PROVE  Aside(MessageSent(g, s), o)
<1> DEFINE info == g.inbound_substreams[s]
           sent == [g EXCEPT !.wire[s] = Append(@, info.sending.message)]
           idle == [sent EXCEPT !.inbound_substreams[s].sending = None,
                                !.inbound_substreams[s].max_remaining_chunks =
                                  IF @ > 0 THEN @ - 1 ELSE 0]
           subs == Updated(g.inbound_substreams, s, "sending", None)
           u == IF subs[s].max_remaining_chunks > 0 THEN subs[s].max_remaining_chunks - 1 ELSE 0
<1>1. DOMAIN g = Fields /\ InBooks(g.inbound_substreams, g.inbound_substreams_delay)
  BY Zenon, AsideFacts
<1>2. /\ DOMAIN sent = Fields
      /\ \A field \in Fields \ {"wire"} : sent[field] = g[field]
  BY Zenon, <1>1 DEF Fields
<1> HIDE DEF sent
<1>3. Aside(sent, o)
  BY <1>1, <1>2 DEF Aside, Kept, Fields
<1>4. /\ DOMAIN idle = Fields
      /\ idle.inbound_substreams = Updated(subs, s, "max_remaining_chunks", u)
      /\ \A field \in Fields \ {"inbound_substreams"} : idle[field] = sent[field]
  BY <1>1, <1>2 DEF Fields, Updated, InBooks
<1> HIDE DEF idle, u
<1>5. InBooks(subs, g.inbound_substreams_delay)
  BY <1>1, InFieldUpdated, FieldNames, Zenon
<1> HIDE DEF subs
<1>6. InBooks(Updated(subs, s, "max_remaining_chunks", u), g.inbound_substreams_delay)
  BY <1>5, InFieldUpdated, FieldNames, Zenon
<1>7. Aside(idle, o)
  BY Zenon, <1>2, <1>3, <1>4, <1>6 DEF Aside, Kept, Fields
<1>8. \/ MessageSent(g, s) = RemoveInbound(sent, s)
      \/ MessageSent(g, s) = StartSending(idle, s)
      \/ MessageSent(g, s) = idle
  BY Zenon DEF MessageSent, sent, idle
<1> QED BY Zenon, <1>3, <1>7, <1>8, RemoveInboundAside, StartSendingAside

\* Errors of substreams are queued.
LEMMA ErrorsAside ==
  ASSUME NEW g, NEW o, NEW more \in Seq(InboundErrs), Aside(g, o)
  PROVE  Aside([g EXCEPT !.events_out = @ \o more], o)
<1> DEFINE k == [g EXCEPT !.events_out = @ \o more]
<1>1. DOMAIN g = Fields /\ g.events_out \in Seq(InboundErrs)
  BY Zenon, AsideFacts
<1>2. /\ DOMAIN k = Fields
      /\ k.events_out = g.events_out \o more
      /\ \A field \in Fields \ {"events_out"} : k[field] = g[field]
  BY Zenon, <1>1 DEF Fields
<1> HIDE DEF k
<1>3. k.events_out \in Seq(InboundErrs)
  BY <1>1, <1>2
<1>4. Aside(k, o)
  BY Zenon, <1>1, <1>2, <1>3 DEF Aside, Kept, Fields
<1> QED BY Zenon, <1>4 DEF k

\* Errors of substreams are notices.
LEMMA NoticeTypes ==
  /\ \A s \in Substreams : Event("InboundErr", s) \in Notices
  /\ \A r \in OutRequests : /\ Event("OutboundErr", r) \in Notices
                             /\ Event("Response", r) \in Notices
                             /\ Event("EndOfStream", r) \in Notices
  /\ Event("Close", 0) \in Notices
BY DEF Event, Notices, Substreams

\* A deactivated handler closes an inbound substream.
LEMMA CloseInboundAside ==
  ASSUME NEW g, NEW o, NEW s \in Substreams, NEW failed, Aside(g, o)
  PROVE  Aside(CloseInbound(g, s, failed), o)
<1> DEFINE items == g.inbound_substreams[s].pending_items
           first == IF failed THEN <<Event("InboundErr", s)>> ELSE <<>>
           second == IF items # <<>> /\ ~ ClosesLast(items) THEN <<Event("InboundErr", s)>> ELSE <<>>
<1>1. <<>> \in Seq(InboundErrs)
  OBVIOUS
<1>2. <<Event("InboundErr", s)>> \in Seq(InboundErrs)
  BY DEF InboundErrs, Event
<1>3. first \in Seq(InboundErrs) /\ second \in Seq(InboundErrs)
  BY <1>1, <1>2, Zenon
<1>4. CloseInbound(g, s, failed) = [RemoveInbound(g, s) EXCEPT !.events_out = @ \o (first \o second)]
  BY Zenon DEF CloseInbound
<1> HIDE DEF first, second
<1>5. first \o second \in Seq(InboundErrs)
  BY <1>3
<1>6. Aside(RemoveInbound(g, s), o)
  BY Zenon, RemoveInboundAside
<1> QED BY <1>4, <1>5, <1>6, ErrorsAside, Zenon

\* An inbound substream is driven, whatever the transport says of it.
LEMMA DriveInboundAside ==
  ASSUME NEW g, NEW o, NEW s \in Substreams, NEW io, Aside(g, o)
  PROVE  Aside(DriveInbound(g, s, io), o)
<1> DEFINE info == g.inbound_substreams[s]
           begun == IF info.sending = None /\ info.pending_items # <<>> THEN StartSending(g, s) ELSE g
<1>1. Aside(begun, o)
  BY Zenon, StartSendingAside
<1>2. Event("InboundErr", s) \in InboundErrs
  BY Zenon DEF Event, InboundErrs
<1>3. \/ DriveInbound(g, s, io) \in {g, CloseInbound(g, s, io = "error"), begun}
      \/ DriveInbound(g, s, io) = Push(RemoveInbound(begun, s), Event("InboundErr", s))
      \/ DriveInbound(g, s, io) = MessageSent(begun, s)
  BY Zenon DEF DriveInbound
<1> HIDE DEF begun
<1>4. /\ Aside(CloseInbound(g, s, io = "error"), o)
      /\ Aside(Push(RemoveInbound(begun, s), Event("InboundErr", s)), o)
      /\ Aside(MessageSent(begun, s), o)
  BY <1>1, <1>2, CloseInboundAside, RemoveInboundAside, PushAside, MessageSentAside, Zenon
<1> QED BY <1>1, <1>3, <1>4, Zenon

-----------------------------------------------------------------------------
(* Outbound substreams.                                                    *)

\* A substream that is removed takes its timer along.
LEMMA RemoveOutboundQuiet ==
  ASSUME NEW g, NEW c, NEW r \in OutRequests, Quiet(g, c)
  PROVE  Quiet(RemoveOutbound(g, r), c)
<1> DEFINE k == RemoveOutbound(g, r)
<1>1. DOMAIN g = Fields /\ OutBooks(g.outbound_substreams, g.outbound_substreams_delay)
  BY Zenon DEF Quiet, Books
<1>2. /\ DOMAIN k = Fields
      /\ k.outbound_substreams_delay = g.outbound_substreams_delay \ {r}
      /\ k.outbound_substreams = [g.outbound_substreams EXCEPT ![r] = None]
      /\ \A field \in Fields \ {"outbound_substreams", "outbound_substreams_delay"} :
           k[field] = g[field]
  BY Zenon, <1>1 DEF Fields, RemoveOutbound
<1> HIDE DEF k
<1>3. OutBooks(k.outbound_substreams, k.outbound_substreams_delay)
  BY <1>1, <1>2 DEF OutBooks, OutboundInfo
<1>4. Quiet(k, c)
  BY Zenon, <1>2, <1>3 DEF Quiet, Books, Fields
<1> QED BY Zenon, <1>4 DEF k

\* A field of an outbound substream changes.
LEMMA OutFieldUpdated ==
  ASSUME NEW substreams, NEW delay, NEW r \in OutRequests, NEW field \in OutFields, NEW v,
         OutBooks(substreams, delay)
  PROVE  OutBooks(Updated(substreams, r, field, v), delay)
<1> DEFINE x == substreams[r]
           y == [x EXCEPT ![field] = v]
<1>1. OutboundInfo(x)
  BY Zenon DEF OutBooks
<1> HIDE DEF x
<1>2. OutboundInfo(y) /\ (y = None <=> x = None)
  BY Zenon, <1>1 DEF OutboundInfo, OutFields, None
<1> HIDE DEF y
<1>3. OutBooks([substreams EXCEPT ![r] = y], delay)
  BY Zenon, <1>2 DEF x, OutBooks
<1> QED BY Zenon, <1>3 DEF x, y, Updated

\* What poll returns: the handler, and no event or a notice.
QuietReturn(p, c) == Quiet(p.h, c) /\ p.event \in Notices \cup {None}

\* A substream's information changes, and its presence does not.
LEMMA UpdateOutboundQuiet ==
  ASSUME NEW g, NEW k, NEW c, NEW r \in OutRequests, NEW v, NEW w, Quiet(g, c),
         k = [g EXCEPT !.outbound_substreams[r].state = v,
                       !.outbound_substreams[r].max_remaining_chunks = w]
  PROVE  Quiet(k, c)
<1> DEFINE subs == Updated(g.outbound_substreams, r, "state", v)
<1>1. DOMAIN g = Fields /\ OutBooks(g.outbound_substreams, g.outbound_substreams_delay)
  BY Zenon DEF Quiet, Books
<1>2. /\ DOMAIN k = Fields
      /\ k.outbound_substreams = Updated(subs, r, "max_remaining_chunks", w)
      /\ \A field \in Fields \ {"outbound_substreams"} : k[field] = g[field]
  BY Zenon, <1>1 DEF Fields, Updated
<1>3. OutBooks(subs, g.outbound_substreams_delay)
  BY <1>1, OutFieldUpdated, FieldNames, Zenon
<1> HIDE DEF subs
<1>4. OutBooks(Updated(subs, r, "max_remaining_chunks", w), g.outbound_substreams_delay)
  BY <1>3, OutFieldUpdated, FieldNames, Zenon
<1> QED BY Zenon, <1>2, <1>4 DEF Quiet, Books, Fields

\* A substream begins to close.
LEMMA ClosingQuiet ==
  ASSUME NEW g, NEW c, NEW r \in OutRequests, NEW v, Quiet(g, c)
  PROVE  Quiet([g EXCEPT !.outbound_substreams[r].state = v], c)
<1> DEFINE k == [g EXCEPT !.outbound_substreams[r].state = v]
<1>1. DOMAIN g = Fields /\ OutBooks(g.outbound_substreams, g.outbound_substreams_delay)
  BY Zenon DEF Quiet, Books
<1>2. /\ DOMAIN k = Fields
      /\ k.outbound_substreams = Updated(g.outbound_substreams, r, "state", v)
      /\ \A field \in Fields \ {"outbound_substreams"} : k[field] = g[field]
  BY Zenon, <1>1 DEF Fields, Updated
<1> HIDE DEF k
<1>3. OutBooks(Updated(g.outbound_substreams, r, "state", v), g.outbound_substreams_delay)
  BY <1>1, OutFieldUpdated, FieldNames, Zenon
<1>4. Quiet(k, c)
  BY Zenon, <1>2, <1>3 DEF Quiet, Books, Fields
<1> QED BY Zenon, <1>4 DEF k

\* A response arrives.
LEMMA ReceivedQuiet ==
  ASSUME NEW g, NEW c, NEW r \in OutRequests, NEW isError, Quiet(g, c)
  PROVE  QuietReturn(Received(g, r, isError), c)
<1> DEFINE info == g.outbound_substreams[r]
           left == ChunksLeft(info)
           last == expect_exactly_one_response(r) \/ isError \/ left <= 0
           k == [g EXCEPT !.outbound_substreams[r].state = IF last THEN "Closing" ELSE @,
                          !.outbound_substreams[r].max_remaining_chunks = IF last THEN @ ELSE left]
<1>1. /\ Received(g, r, isError).h = k
      /\ Received(g, r, isError).event \in {Event("OutboundErr", r), Event("Response", r)}
  BY Zenon DEF Received, Return
<1>2. \E v, w : k = [g EXCEPT !.outbound_substreams[r].state = v,
                              !.outbound_substreams[r].max_remaining_chunks = w]
  BY Zenon
<1> HIDE DEF k
<1>3. Quiet(k, c)
  BY <1>2, UpdateOutboundQuiet, Zenon
<1> QED BY Zenon, <1>1, <1>3, NoticeTypes DEF QuietReturn

\* An outbound substream is driven, whatever the transport says of it.
LEMMA DriveOutboundQuiet ==
  ASSUME NEW g, NEW c, NEW r \in OutRequests, NEW io, Quiet(g, c)
  PROVE  QuietReturn(DriveOutbound(g, r, io), c)
<1> DEFINE removed == RemoveOutbound(g, r)
           err == Push(g, Event("OutboundErr", r))
           given == [err EXCEPT !.outbound_substreams[r].state = "Closing"]
<1>1. \/ DriveOutbound(g, r, io) \in {Return(g, None), Return(given, None), Return(removed, None),
                                      Return(removed, Event("EndOfStream", r)),
                                      Return(removed, Event("OutboundErr", r))}
      \/ DriveOutbound(g, r, io) = Received(g, r, io = "error")
  BY Zenon DEF DriveOutbound
<1>2. Quiet(removed, c)
  BY Zenon, RemoveOutboundQuiet
<1>3. Quiet(err, c)
  BY Zenon, PushQuiet, NoticeTypes
<1> HIDE DEF err
<1>4. Quiet(given, c)
  BY <1>3, ClosingQuiet, Zenon
<1> HIDE DEF removed, given
<1>5. \A k, e : Quiet(k, c) /\ e \in Notices \cup {None} => QuietReturn(Return(k, e), c)
  BY Zenon DEF QuietReturn, Return
<1>6. /\ Event("EndOfStream", r) \in Notices \cup {None}
      /\ Event("OutboundErr", r) \in Notices \cup {None}
      /\ None \in Notices \cup {None}
  BY Zenon, NoticeTypes
<1>7. /\ QuietReturn(Return(g, None), c)
      /\ QuietReturn(Return(given, None), c)
      /\ QuietReturn(Return(removed, None), c)
      /\ QuietReturn(Return(removed, Event("EndOfStream", r)), c)
      /\ QuietReturn(Return(removed, Event("OutboundErr", r)), c)
  BY <1>2, <1>4, <1>5, <1>6, Zenon
<1>8. QuietReturn(Received(g, r, io = "error"), c)
  BY Zenon, ReceivedQuiet
<1> QED BY <1>1, <1>7, <1>8, Zenon

-----------------------------------------------------------------------------
(* A whole poll.  Each applies a step to the elements of a sequence; the   *)
(* values it goes through are a function of the number of elements, which  *)
(* exists (..Exists), and what holds of each is shown by Climb.            *)

Purges(f, g, xs, m) ==
  f = [i \in 0 .. m |-> IF i = 0 THEN g ELSE ExpireInbound(f[i - 1], xs[i])]
Drives(f, g, xs, io, m) ==
  f = [i \in 0 .. m |-> IF i = 0 THEN g ELSE DriveInbound(f[i - 1], xs[i], io[xs[i]])]
DriveNext(p, r, io) == IF p.event # None THEN p ELSE DriveOutbound(p.h, r, io[r])
Returns(f, p, xs, io, m) ==
  f = [i \in 0 .. m |-> IF i = 0 THEN p ELSE DriveNext(f[i - 1], xs[i], io)]

\* The recursive definition in PurgeInbound has a solution.
LEMMA PurgesExists ==
  ASSUME NEW g, NEW xs, NEW n \in Nat
  PROVE  \E f : Purges(f, g, xs, n)
<1> DEFINE S == {m \in 0 .. n : \E f : Purges(f, g, xs, m)}
<1>1. 0 \in S
  <2>1. Purges([i \in 0 .. 0 |-> g], g, xs, 0)
    BY DEF Purges
  <2> QED BY <2>1
<1>2. ASSUME NEW m \in 1 .. n, m - 1 \in S PROVE m \in S
  <2>1. PICK f : Purges(f, g, xs, m - 1)
    BY Zenon, <1>2
  <2> DEFINE k == [i \in 0 .. m |-> IF i = m THEN ExpireInbound(f[m - 1], xs[m]) ELSE f[i]]
  <2>2. \A i \in 0 .. m : k[i] = IF i = 0 THEN g ELSE ExpireInbound(k[i - 1], xs[i])
    BY <2>1 DEF Purges
  <2>3. Purges(k, g, xs, m)
    BY Zenon, <2>2 DEF Purges
  <2> HIDE DEF k
  <2> QED BY <2>3
<1>3. n \in S
  BY Zenon, <1>1, <1>2, Climb
<1> QED BY Zenon, <1>3

\* Expired inbound timers are dealt with one after the other (PurgeInbound).
LEMMA PurgeInboundAside ==
  ASSUME NEW g, NEW o, NEW xs, Len(xs) \in Nat, Aside(g, o),
         \A i \in 1 .. Len(xs) : xs[i] \in Substreams
  PROVE  Aside(PurgeInbound(g, xs), o)
<1> DEFINE n == Len(xs)
           f == CHOOSE f : Purges(f, g, xs, n)
           S == {i \in 0 .. n : Aside(f[i], o)}
<1>1. \E k : Purges(k, g, xs, n)
  BY Zenon, PurgesExists
<1>2. Purges(f, g, xs, n)
  BY Zenon, <1>1
<1>3. PurgeInbound(g, xs) = f[n]
  BY Zenon DEF PurgeInbound, Each, Purges
<1> HIDE DEF f
<1>4. f[0] = g /\ \A i \in 1 .. n : f[i] = ExpireInbound(f[i - 1], xs[i])
  BY <1>2 DEF Purges
<1>5. 0 \in S
  BY <1>4
<1>6. ASSUME NEW i \in 1 .. n, i - 1 \in S PROVE i \in S
  BY <1>4, <1>6, ExpireAside
<1>7. n \in S
  BY Zenon, <1>5, <1>6, Climb
<1> QED BY Zenon, <1>3, <1>7

\* The recursive definition in DriveInbounds has a solution.
LEMMA DrivesExists ==
  ASSUME NEW g, NEW xs, NEW io, NEW n \in Nat
  PROVE  \E f : Drives(f, g, xs, io, n)
<1> DEFINE S == {m \in 0 .. n : \E f : Drives(f, g, xs, io, m)}
<1>1. 0 \in S
  <2>1. Drives([i \in 0 .. 0 |-> g], g, xs, io, 0)
    BY DEF Drives
  <2> QED BY <2>1
<1>2. ASSUME NEW m \in 1 .. n, m - 1 \in S PROVE m \in S
  <2>1. PICK f : Drives(f, g, xs, io, m - 1)
    BY Zenon, <1>2
  <2> DEFINE k == [i \in 0 .. m |-> IF i = m THEN DriveInbound(f[m - 1], xs[m], io[xs[m]]) ELSE f[i]]
  <2>2. \A i \in 0 .. m : k[i] = IF i = 0 THEN g ELSE DriveInbound(k[i - 1], xs[i], io[xs[i]])
    BY <2>1 DEF Drives
  <2>3. Drives(k, g, xs, io, m)
    BY Zenon, <2>2 DEF Drives
  <2> HIDE DEF k
  <2> QED BY <2>3
<1>3. n \in S
  BY Zenon, <1>1, <1>2, Climb
<1> QED BY Zenon, <1>3

\* The inbound substreams are driven one after the other (DriveInbounds).
LEMMA DriveInboundsAside ==
  ASSUME NEW g, NEW o, NEW xs, NEW io, Len(xs) \in Nat, Aside(g, o),
         \A i \in 1 .. Len(xs) : xs[i] \in Substreams
  PROVE  Aside(DriveInbounds(g, xs, io), o)
<1> DEFINE n == Len(xs)
           f == CHOOSE f : Drives(f, g, xs, io, n)
           S == {i \in 0 .. n : Aside(f[i], o)}
<1>1. \E k : Drives(k, g, xs, io, n)
  BY Zenon, DrivesExists
<1>2. Drives(f, g, xs, io, n)
  BY Zenon, <1>1
<1>3. DriveInbounds(g, xs, io) = f[n]
  BY Zenon DEF DriveInbounds, Each, Drives
<1> HIDE DEF f
<1>4. f[0] = g /\ \A i \in 1 .. n : f[i] = DriveInbound(f[i - 1], xs[i], io[xs[i]])
  BY <1>2 DEF Drives
<1>5. 0 \in S
  BY <1>4
<1>6. ASSUME NEW i \in 1 .. n, i - 1 \in S PROVE i \in S
  BY <1>4, <1>6, DriveInboundAside
<1>7. n \in S
  BY Zenon, <1>5, <1>6, Climb
<1> QED BY Zenon, <1>3, <1>7

\* The recursive definition in DriveOutbounds has a solution.
LEMMA ReturnsExists ==
  ASSUME NEW p, NEW xs, NEW io, NEW n \in Nat
  PROVE  \E f : Returns(f, p, xs, io, n)
<1> DEFINE S == {m \in 0 .. n : \E f : Returns(f, p, xs, io, m)}
<1>1. 0 \in S
  <2>1. Returns([i \in 0 .. 0 |-> p], p, xs, io, 0)
    BY DEF Returns
  <2> QED BY <2>1
<1>2. ASSUME NEW m \in 1 .. n, m - 1 \in S PROVE m \in S
  <2>1. PICK f : Returns(f, p, xs, io, m - 1)
    BY Zenon, <1>2
  <2> DEFINE k == [i \in 0 .. m |-> IF i = m THEN DriveNext(f[m - 1], xs[m], io) ELSE f[i]]
  <2>2. \A i \in 0 .. m : k[i] = IF i = 0 THEN p ELSE DriveNext(k[i - 1], xs[i], io)
    BY <2>1 DEF Returns
  <2>3. Returns(k, p, xs, io, m)
    BY Zenon, <2>2 DEF Returns
  <2> HIDE DEF k
  <2> QED BY <2>3
<1>3. n \in S
  BY Zenon, <1>1, <1>2, Climb
<1> QED BY Zenon, <1>3

\* The outbound substreams are driven until one has something to report (DriveOutbounds).
LEMMA DriveOutboundsQuiet ==
  ASSUME NEW g, NEW c, NEW xs, NEW io, Len(xs) \in Nat, Quiet(g, c),
         \A i \in 1 .. Len(xs) : xs[i] \in OutRequests
  PROVE  QuietReturn(DriveOutbounds(g, xs, io), c)
<1> DEFINE p == Return(g, None)
           n == Len(xs)
           f == CHOOSE f : Returns(f, p, xs, io, n)
           S == {i \in 0 .. n : QuietReturn(f[i], c)}
<1>1. \E k : Returns(k, p, xs, io, n)
  BY Zenon, ReturnsExists
<1>2. Returns(f, p, xs, io, n)
  BY Zenon, <1>1
<1>3. DriveOutbounds(g, xs, io) = f[n]
  BY Zenon DEF DriveOutbounds, Each, Returns, DriveNext, p
<1> HIDE DEF f
<1>4. f[0] = p /\ \A i \in 1 .. n : f[i] = DriveNext(f[i - 1], xs[i], io)
  BY <1>2 DEF Returns
<1>5. 0 \in S
  BY <1>4 DEF QuietReturn, Return
<1>6. ASSUME NEW i \in 1 .. n, i - 1 \in S PROVE i \in S
  <2>1. QuietReturn(f[i - 1], c)
    BY Zenon, <1>6
  <2>2. QuietReturn(DriveOutbound(f[i - 1].h, xs[i], io[xs[i]]), c)
    BY Zenon, <2>1, DriveOutboundQuiet DEF QuietReturn
  <2> QED BY <1>4, <2>1, <2>2 DEF DriveNext
<1>7. n \in S
  BY Zenon, <1>5, <1>6, Climb
<1> QED BY Zenon, <1>3, <1>7

\* The handler is deactivated.
LEMMA DeactivateQuiet ==
  ASSUME NEW g, NEW c, Quiet(g, c)
  PROVE  QuietReturn(Deactivate(g), c)
<1> DEFINE k == [g EXCEPT !.state = "Deactivated"]
<1>1. DOMAIN g = Fields
  BY Zenon DEF Quiet, Books
<1>2. DOMAIN k = Fields /\ \A field \in Fields \ {"state"} : k[field] = g[field]
  BY Zenon, <1>1 DEF Fields
<1>3. Deactivate(g).h = k /\ Deactivate(g).event = Event("Close", 0)
  BY Zenon DEF Deactivate, Return
<1> HIDE DEF k
<1>4. Quiet(k, c)
  BY <1>1, <1>2 DEF Quiet, Books, Fields
<1> QED BY Zenon, <1>3, <1>4, NoticeTypes DEF QuietReturn

\* The first request of the dial queue is dialed.
LEMMA DialQuiet ==
  ASSUME NEW g, NEW c, Quiet(g, c), g.dial_queue # <<>>
  PROVE  Quiet(Dial(g), c)
<1> DEFINE k == Dial(g)
<1>1. DOMAIN g = Fields /\ g.dial_queue \in Seq(OutRequests)
  BY Zenon DEF Quiet, Books
<1>2. /\ DOMAIN k = Fields /\ k.dial_queue = Tail(g.dial_queue)
      /\ \A field \in Fields \ {"dial_queue", "dialing"} : k[field] = g[field]
  BY Zenon, <1>1 DEF Fields, Dial
<1>3. Tail(g.dial_queue) \in Seq(OutRequests)
  BY <1>1
<1> HIDE DEF k
<1>4. Quiet(k, c)
  BY Zenon, <1>2, <1>3 DEF Quiet, Books, Fields
<1> QED BY Zenon, <1>4 DEF k

\* Without events the work on the inbound substreams may begin.
LEMMA AsideBegins ==
  ASSUME NEW g, Books(g), g.events_out = <<>>
  PROVE  Aside(g, g)
<1>1. <<>> \in Seq(InboundErrs)
  OBVIOUS
<1> QED BY Zenon, <1>1 DEF Aside, Books

\* After the work on the inbound substreams only notices wait.
LEMMA AsideQuiet ==
  ASSUME NEW g, NEW o, Aside(g, o), Books(o)
  PROVE  Quiet(g, o.current_inbound_substream_id)
<1>1. InboundErrs \subseteq Notices
  BY DEF InboundErrs, Notices, Substreams
<1>2. g.events_out \in Seq(Notices)
  BY <1>1 DEF Aside
<1> QED BY Zenon, <1>2 DEF Aside, Kept, Quiet, Books

\* The work on the inbound substreams in a poll.
LEMMA InboundAside ==
  ASSUME NEW g, NEW expired, NEW ins, NEW inIo, Books(g), g.events_out = <<>>,
         Len(expired) \in Nat, \A i \in 1 .. Len(expired) : expired[i] \in Substreams,
         Len(ins) \in Nat, \A i \in 1 .. Len(ins) : ins[i] \in Substreams
  PROVE  /\ Aside(PurgeInbound(g, expired), g)
         /\ Aside(DriveInbounds(PurgeInbound(g, expired), ins, inIo), g)
<1>1. Aside(PurgeInbound(g, expired), g)
  BY Zenon, AsideBegins, PurgeInboundAside
<1> QED BY Zenon, <1>1, DriveInboundsAside

\* A poll in which no outbound timer has run out (PollStreams).
LEMMA PollStreamsQuiet ==
  ASSUME NEW g, NEW expired, NEW ins, NEW inIo, NEW outs, NEW outIo, Books(g), g.events_out = <<>>,
         Len(expired) \in Nat, \A i \in 1 .. Len(expired) : expired[i] \in Substreams,
         Len(ins) \in Nat, \A i \in 1 .. Len(ins) : ins[i] \in Substreams,
         Len(outs) \in Nat, \A i \in 1 .. Len(outs) : outs[i] \in OutRequests
  PROVE  QuietReturn(PollStreams(g, expired, ins, inIo, outs, outIo), g.current_inbound_substream_id)
<1> DEFINE c == g.current_inbound_substream_id
           driven == DriveInbounds(PurgeInbound(g, expired), ins, inIo)
           p == DriveOutbounds(driven, outs, outIo)
<1>1. \/ PollStreams(g, expired, ins, inIo, outs, outIo) = p
      \/ CanDial(p.h) /\ PollStreams(g, expired, ins, inIo, outs, outIo) = Return(Dial(p.h), None)
      \/ PollStreams(g, expired, ins, inIo, outs, outIo) = Deactivate(p.h)
  BY Zenon DEF PollStreams
<1>2. Quiet(driven, c)
  BY Zenon, InboundAside, AsideQuiet
<1> HIDE DEF driven, c
<1>4. QuietReturn(p, c)
  BY <1>2, DriveOutboundsQuiet, Zenon
<1> HIDE DEF p
<1>5. QuietReturn(Deactivate(p.h), c)
  BY Zenon, <1>4, DeactivateQuiet DEF QuietReturn
<1>6. CanDial(p.h) => QuietReturn(Return(Dial(p.h), None), c)
  BY Zenon, <1>4, DialQuiet DEF QuietReturn, Return, CanDial
<1> QED BY <1>1, <1>4, <1>5, <1>6, Zenon DEF c

\* A poll in which an outbound timer has run out (PollOutboundTimeout).
LEMMA PollTimeoutQuiet ==
  ASSUME NEW g, NEW expired, NEW r \in OutRequests, Books(g), g.events_out = <<>>,
         Len(expired) \in Nat, \A i \in 1 .. Len(expired) : expired[i] \in Substreams
  PROVE  QuietReturn(PollOutboundTimeout(g, expired, r), g.current_inbound_substream_id)
<1>1. Aside(PurgeInbound(g, expired), g)
  BY Zenon, AsideBegins, PurgeInboundAside
<1>2. Quiet(RemoveOutbound(PurgeInbound(g, expired), r), g.current_inbound_substream_id)
  BY Zenon, <1>1, AsideQuiet, RemoveOutboundQuiet
<1> QED BY Zenon, <1>2, NoticeTypes DEF PollOutboundTimeout, Return, QuietReturn

\* The sets of substreams are finite.
LEMMA FiniteSubstreams ==
  ASSUME NEW g
  PROVE  /\ \A S : S \subseteq Substreams => IsFiniteSet(S)
         /\ IsFiniteSet(Inbound(g)) /\ Inbound(g) \subseteq Substreams
         /\ IsFiniteSet(Outbound(g)) /\ Outbound(g) \subseteq OutRequests
<1>1. MaxSubstreams - 1 \in Int /\ 0 \in Int
  BY HandlerAssumption
<1>2. IsFiniteSet(Substreams)
  BY Zenon, <1>1, FS_Interval DEF Substreams
<1>3. \A S : S \subseteq Substreams => IsFiniteSet(S)
  BY Zenon, <1>2, FS_Subset
<1>4. Inbound(g) \subseteq Substreams /\ Outbound(g) \subseteq OutRequests
  BY Zenon DEF Inbound, Outbound
<1>5. IsFiniteSet(Outbound(g))
  BY Zenon, <1>4, HandlerAssumption, FS_Subset
<1> QED BY <1>3, <1>4, <1>5

-----------------------------------------------------------------------------
(* Commands of the behaviour and events of the connection.  They find any  *)
(* events waiting, and add notices to them.                                *)

Events == Notices \cup PeerRequests

Grows(k, g) ==
  /\ Books(k)
  /\ k.current_inbound_substream_id = g.current_inbound_substream_id
  /\ \E more \in Seq(Notices) : k.events_out = g.events_out \o more

\* An update of a function stays in its type.
LEMMA ExceptTyped ==
  ASSUME NEW D, NEW R, NEW f \in [D -> R], NEW d, NEW v \in R
  PROVE  [f EXCEPT ![d] = v] \in [D -> R]
BY Zenon

\* A change that leaves the events alone adds nothing.
LEMMA SameGrows ==
  ASSUME NEW g, NEW k, g.events_out \in Seq(Events), Books(k), k.events_out = g.events_out,
         k.current_inbound_substream_id = g.current_inbound_substream_id
  PROVE  Grows(k, g)
<1>1. <<>> \in Seq(Notices)
  OBVIOUS
<1>2. k.events_out = g.events_out \o <<>>
  OBVIOUS
<1> QED BY Zenon, <1>1, <1>2 DEF Grows

\* A notice is queued.
LEMMA PushGrows ==
  ASSUME NEW g, NEW e \in Notices, g.events_out \in Seq(Events), Books(g)
  PROVE  Grows(Push(g, e), g) /\ Push(g, e).events_out \in Seq(Events)
<1>1. DOMAIN g = Fields
  BY Zenon DEF Books
<1>2. /\ DOMAIN Push(g, e) = Fields
      /\ Push(g, e).events_out = Append(g.events_out, e)
      /\ \A field \in Fields \ {"events_out"} : Push(g, e)[field] = g[field]
  BY Zenon, <1>1 DEF Push, Fields
<1>3. <<e>> \in Seq(Notices) /\ Append(g.events_out, e) = g.events_out \o <<e>>
  OBVIOUS
<1>4. Books(Push(g, e))
  BY Zenon, <1>1, <1>2 DEF Books, Fields
<1>5. e \in Events
  BY Zenon DEF Events
<1>6. Append(g.events_out, e) \in Seq(Events)
  BY <1>5
<1>7. Push(g, e).current_inbound_substream_id = g.current_inbound_substream_id
  BY Zenon, <1>2 DEF Fields
<1> QED BY Zenon, <1>2, <1>3, <1>4, <1>6, <1>7 DEF Grows

\* Only what is neither in the books nor an event changes.
LEMMA FieldsKept ==
  ASSUME NEW g, NEW b, Books(g), DOMAIN b = Fields,
         \A field \in Fields \ {"state", "dialing", "outbound_io_error_retries", "wire"} :
           b[field] = g[field]
  PROVE  /\ Books(b) /\ b.events_out = g.events_out
         /\ b.current_inbound_substream_id = g.current_inbound_substream_id
BY DEF Books, Fields

\* A change after one that adds nothing.
LEMMA GrowsAfter ==
  ASSUME NEW g, NEW b, NEW k, Grows(k, b), b.events_out = g.events_out,
         b.current_inbound_substream_id = g.current_inbound_substream_id
  PROVE  Grows(k, g)
BY Zenon DEF Grows

\* The handler begins to shut down.
LEMMA ShutdownGrows ==
  ASSUME NEW g, NEW goodbye \in Seq(OutRequests), g.events_out \in Seq(Events), Books(g)
  PROVE  Grows(shutdown(g, goodbye), g)
<1> DEFINE q == g.dial_queue
           more == [i \in DOMAIN q |-> Event("OutboundErr", q[Len(q) + 1 - i])]
           k == [g EXCEPT !.events_out = @ \o more, !.dial_queue = goodbye, !.state = "ShuttingDown"]
<1>1. DOMAIN g = Fields /\ q \in Seq(OutRequests)
  BY Zenon DEF Books
<1>2. shutdown(g, goodbye) = k \/ shutdown(g, goodbye) = g
  BY Zenon DEF shutdown
<1> HIDE DEF q
<1>3. more \in Seq(Notices)
  <2>1. \A i \in DOMAIN q : q[Len(q) + 1 - i] \in OutRequests
    BY <1>1
  <2>2. \A i \in 1 .. Len(q) : more[i] \in Notices
    BY <1>1, <2>1, NoticeTypes
  <2>3. DOMAIN more = 1 .. Len(q) /\ Len(q) \in Nat
    BY <1>1
  <2>4. more = [i \in 1 .. Len(q) |-> more[i]]
    BY Zenon, <2>3
  <2> HIDE DEF more
  <2>5. more \in [1 .. Len(q) -> Notices]
    BY Zenon, <2>2, <2>3, <2>4
  <2> QED BY <2>3, <2>5
<1> HIDE DEF more
<1>4. /\ DOMAIN k = Fields /\ k.dial_queue = goodbye /\ k.events_out = g.events_out \o more
      /\ \A field \in Fields \ {"events_out", "dial_queue", "state"} : k[field] = g[field]
  BY Zenon, <1>1 DEF Fields
<1> HIDE DEF k
<1>5. Books(k) /\ k.current_inbound_substream_id = g.current_inbound_substream_id
  BY <1>4 DEF Books, Fields
<1>6. Grows(k, g)
  BY Zenon, <1>3, <1>4, <1>5 DEF Grows
<1>7. Grows(g, g)
  BY Zenon, SameGrows
<1> QED BY Zenon, <1>2, <1>6, <1>7

\* A request is queued for dialing, or fails.
LEMMA SendRequestGrows ==
  ASSUME NEW g, NEW r \in OutRequests, g.events_out \in Seq(Events), Books(g)
  PROVE  Grows(send_request(g, r), g)
<1> DEFINE k == [g EXCEPT !.dial_queue = Append(@, r)]
<1>1. DOMAIN g = Fields /\ g.dial_queue \in Seq(OutRequests)
  BY Zenon DEF Books
<1>2. /\ DOMAIN k = Fields /\ k.dial_queue = Append(g.dial_queue, r)
      /\ \A field \in Fields \ {"dial_queue"} : k[field] = g[field]
  BY Zenon, <1>1 DEF Fields
<1>3. send_request(g, r) = k \/ send_request(g, r) = Push(g, Event("OutboundErr", r))
  BY DEF send_request
<1> HIDE DEF k
<1>4. k.dial_queue \in Seq(OutRequests)
  BY <1>1, <1>2
<1>5. Books(k) /\ k.events_out = g.events_out
      /\ k.current_inbound_substream_id = g.current_inbound_substream_id
  BY Zenon, <1>2, <1>4 DEF Books, Fields
<1>6. Grows(k, g)
  BY Zenon, <1>5, SameGrows
<1>7. Grows(Push(g, Event("OutboundErr", r)), g)
  BY Zenon, NoticeTypes, PushGrows
<1> QED BY <1>3, <1>6, <1>7

\* A response is queued for its substream, or dropped.
LEMMA SendResponseGrows ==
  ASSUME NEW g, NEW s, NEW response, g.events_out \in Seq(Events), Books(g)
  PROVE  Grows(send_response(g, s, response), g)
<1> DEFINE reported == IF response.item = ERROR THEN Push(g, Event("InboundErr", s)) ELSE g
           k == [reported EXCEPT !.inbound_substreams[s].pending_items = Append(@, response)]
<1>1. Grows(g, g)
  BY SameGrows
<1>2. CASE s \notin Inbound(g)
  BY Zenon, <1>1, <1>2 DEF send_response
<1>3. CASE s \in Inbound(g)
  <2>1. s \in Substreams
    BY <1>3 DEF Inbound
  <2>2. Grows(reported, g)
    BY Zenon, <1>1, <2>1, NoticeTypes, PushGrows
  <2>3. send_response(g, s, response) = reported \/ send_response(g, s, response) = k
    BY Zenon, <1>3 DEF send_response
  <2> HIDE DEF reported
  <2> DEFINE v == Append(reported.inbound_substreams[s].pending_items, response)
  <2>4. /\ DOMAIN reported = Fields
        /\ InBooks(reported.inbound_substreams, reported.inbound_substreams_delay)
    BY <2>2 DEF Grows, Books
  <2>5. /\ DOMAIN k = Fields
        /\ k.inbound_substreams = Updated(reported.inbound_substreams, s, "pending_items", v)
        /\ \A field \in Fields \ {"inbound_substreams"} : k[field] = reported[field]
    BY Zenon, <2>4 DEF Fields, Updated
  <2> HIDE DEF k, v
  <2>6. InBooks(Updated(reported.inbound_substreams, s, "pending_items", v),
                reported.inbound_substreams_delay)
    BY <2>1, <2>4, InFieldUpdated, FieldNames, Zenon
  <2>7. Grows(k, g)
    BY <2>2, <2>5, <2>6 DEF Grows, Books, Fields
  <2> QED BY Zenon, <2>2, <2>3, <2>7
<1> QED BY Zenon, <1>2, <1>3

\* A substream for a request has been negotiated; it gets a timer.
LEMMA NegotiatedGrows ==
  ASSUME NEW g, NEW r \in OutRequests, g.events_out \in Seq(Events), Books(g)
  PROVE  Grows(on_fully_negotiated_outbound(g, r), g)
<1> DEFINE reported == IF g.state = "Deactivated" THEN Push(g, Event("OutboundErr", r)) ELSE g
           b == [reported EXCEPT !.dialing = @ \ {r}, !.outbound_io_error_retries = 0]
           info == [state |-> "Pending", max_remaining_chunks |-> max_responses(KindOf[r])]
           k == [b EXCEPT !.outbound_substreams[r] = info,
                          !.outbound_substreams_delay = @ \cup {r}]
<1>1. Grows(reported, g)
  BY Zenon, NoticeTypes, PushGrows, SameGrows
<1>2. on_fully_negotiated_outbound(g, r) = b \/ on_fully_negotiated_outbound(g, r) = k
  BY Zenon DEF on_fully_negotiated_outbound
<1> HIDE DEF reported
<1>3. Books(reported) /\ DOMAIN reported = Fields
  BY Zenon, <1>1 DEF Grows, Books
<1>4. /\ DOMAIN b = Fields
      /\ \A field \in Fields \ {"dialing", "outbound_io_error_retries"} : b[field] = reported[field]
  BY Zenon, <1>3 DEF Fields
<1>5. info # None /\ OutboundInfo(info)
  BY Zenon DEF None, OutboundInfo, OutFields
<1> HIDE DEF b, info
<1>6. /\ Books(b) /\ b.events_out = reported.events_out
      /\ b.current_inbound_substream_id = reported.current_inbound_substream_id
  BY Zenon, <1>3, <1>4, FieldsKept
<1>7. DOMAIN b = Fields /\ OutBooks(b.outbound_substreams, b.outbound_substreams_delay)
  BY Zenon, <1>6 DEF Books
<1>8. /\ DOMAIN k = Fields
      /\ k.outbound_substreams = [b.outbound_substreams EXCEPT ![r] = info]
      /\ k.outbound_substreams_delay = b.outbound_substreams_delay \cup {r}
      /\ \A field \in Fields \ {"outbound_substreams", "outbound_substreams_delay"} :
           k[field] = b[field]
  BY Zenon, <1>7 DEF Fields
<1> HIDE DEF k
<1>9. OutBooks(k.outbound_substreams, k.outbound_substreams_delay)
  BY <1>5, <1>7, <1>8 DEF OutBooks
<1>10. /\ Books(k) /\ k.events_out = reported.events_out
       /\ k.current_inbound_substream_id = reported.current_inbound_substream_id
  BY Zenon, <1>6, <1>8, <1>9 DEF Books, Fields
<1>11. Grows(b, g) /\ Grows(k, g)
  BY Zenon, <1>1, <1>6, <1>10 DEF Grows
<1> QED BY Zenon, <1>2, <1>11

\* A negotiation has failed; the request is dialed again or fails.
LEMMA UpgradeErrorGrows ==
  ASSUME NEW g, NEW r \in OutRequests, NEW ioError, g.events_out \in Seq(Events), Books(g)
  PROVE  Grows(on_dial_upgrade_error(g, r, ioError), g)
<1> DEFINE failed == [g EXCEPT !.dialing = @ \ {r}]
           again == [failed EXCEPT !.outbound_io_error_retries = g.outbound_io_error_retries + 1]
           over == [failed EXCEPT !.outbound_io_error_retries = 0]
<1>1. \/ on_dial_upgrade_error(g, r, ioError) = send_request(again, r)
      \/ on_dial_upgrade_error(g, r, ioError) = Push(over, Event("OutboundErr", r))
  BY Zenon DEF on_dial_upgrade_error
<1>2. DOMAIN g = Fields
  BY Zenon DEF Books
<1>3. /\ DOMAIN again = Fields /\ DOMAIN over = Fields
      /\ \A field \in Fields \ {"dialing", "outbound_io_error_retries"} :
           again[field] = g[field] /\ over[field] = g[field]
  BY Zenon, <1>2 DEF Fields
<1> HIDE DEF again, over
<1>4. /\ Books(again) /\ again.events_out = g.events_out
      /\ again.current_inbound_substream_id = g.current_inbound_substream_id
  BY Zenon, <1>3, FieldsKept
<1>5. /\ Books(over) /\ over.events_out = g.events_out
      /\ over.current_inbound_substream_id = g.current_inbound_substream_id
  BY Zenon, <1>3, FieldsKept
<1>6. Grows(send_request(again, r), again)
  BY Zenon, <1>4, SendRequestGrows
<1>7. Grows(Push(over, Event("OutboundErr", r)), over)
  BY Zenon, <1>5, NoticeTypes, PushGrows
<1> QED BY Zenon, <1>1, <1>4, <1>5, <1>6, <1>7, GrowsAfter

\* Two changes in a row.
LEMMA GrowsTransitive ==
  ASSUME NEW g, NEW b, NEW k, g.events_out \in Seq(Events), Grows(b, g), Grows(k, b)
  PROVE  Grows(k, g)
<1>1. PICK m1 \in Seq(Notices) : b.events_out = g.events_out \o m1
  BY Zenon DEF Grows
<1>2. PICK m2 \in Seq(Notices) : k.events_out = b.events_out \o m2
  BY Zenon DEF Grows
<1>3. m1 \in Seq(Events) /\ m2 \in Seq(Events)
  BY DEF Events
<1>4. m1 \o m2 \in Seq(Notices)
  OBVIOUS
<1>5. k.events_out = g.events_out \o (m1 \o m2)
  <2> DEFINE q == g.events_out
  <2>1. q \in Seq(Events)
    BY Zenon
  <2> HIDE DEF q
  <2>2. (q \o m1) \o m2 = q \o (m1 \o m2)
    BY <1>3, <2>1
  <2> QED BY Zenon, <1>1, <1>2, <2>2 DEF q
<1> QED BY Zenon, <1>4, <1>5 DEF Grows

\* The request of the peer on the next substream.
NewRequest(g, kind) ==
  [type |-> "Request", of |-> g.current_inbound_substream_id, kind |-> kind]

Accepts(k, g, kind) ==
  /\ Books(k)
  /\ k.current_inbound_substream_id = g.current_inbound_substream_id + 1
  /\ \E more \in Seq(Notices) :
       k.events_out = Append(g.events_out \o more, NewRequest(g, kind))

\* A request of the peer has been read: it is rejected, or its substream gets a timer and it is
\* queued for the behaviour.
LEMMA InboundNegotiated ==
  ASSUME NEW g, NEW kind \in Kinds, NEW oversized \in BOOLEAN,
         g.events_out \in Seq(Events), Books(g), g.current_inbound_substream_id \in Nat,
         \/ g.current_inbound_substream_id \in Substreams
         \/ oversized
         \/ max_responses(kind) > 0 /\ Cardinality(Inbound(g)) >= MAX_INBOUND_SUBSTREAMS
  PROVE  \/ Grows(on_fully_negotiated_inbound(g, kind, oversized), g)
         \/ /\ g.current_inbound_substream_id \in Substreams
            /\ Accepts(on_fully_negotiated_inbound(g, kind, oversized), g, kind)
<1> DEFINE s == g.current_inbound_substream_id
           k == on_fully_negotiated_inbound(g, kind, oversized)
           pushed == Push(g, Event("InboundErr", s))
           rejected == shutdown(pushed, <<>>)
           info == [sending |-> None, pending_items |-> <<>>,
                    max_remaining_chunks |-> max_responses(kind)]
           kept == [g EXCEPT !.inbound_substreams[s] = info, !.inbound_substreams_delay = @ \cup {s}]
           stored == IF max_responses(kind) = 0 THEN g ELSE kept
           closing == IF kind = "goodbye" THEN shutdown(stored, <<>>) ELSE stored
           queued == [Push(closing, NewRequest(g, kind)) EXCEPT !.current_inbound_substream_id = @ + 1]
<1>1. \/ k = g
      \/ k = rejected
      \/ /\ k = queued
         /\ ~ oversized
         /\ ~ (max_responses(kind) > 0 /\ Cardinality(Inbound(g)) >= MAX_INBOUND_SUBSTREAMS)
  BY Zenon DEF on_fully_negotiated_inbound, NewRequest
<1>3. Grows(g, g)
  BY Zenon, SameGrows
<1>4. <<>> \in Seq(OutRequests)
  OBVIOUS
<1>5. Grows(rejected, g)
  <2>1. Event("InboundErr", s) \in Notices
    BY DEF Event, Notices
  <2>2. Grows(pushed, g) /\ pushed.events_out \in Seq(Events)
    BY Zenon, <2>1, PushGrows
  <2> HIDE DEF pushed
  <2>3. Books(pushed)
    BY Zenon, <2>2 DEF Grows
  <2>4. Grows(rejected, pushed)
    BY <1>4, <2>2, <2>3, ShutdownGrows
  <2> HIDE DEF rejected
  <2> QED BY Zenon, <2>2, <2>4, GrowsTransitive
<1>6. s \in Substreams => Accepts(queued, g, kind)
  <2> SUFFICES ASSUME s \in Substreams PROVE Accepts(queued, g, kind)
    BY Zenon
  <2>1. DOMAIN g = Fields /\ InBooks(g.inbound_substreams, g.inbound_substreams_delay)
    BY Zenon DEF Books
  <2>2. info # None /\ InboundInfo(info)
    BY Zenon DEF None, InboundInfo, InFields
  <2> HIDE DEF info
  <2>3. /\ DOMAIN kept = Fields
        /\ kept.inbound_substreams = [g.inbound_substreams EXCEPT ![s] = info]
        /\ kept.inbound_substreams_delay = g.inbound_substreams_delay \cup {s}
        /\ \A field \in Fields \ {"inbound_substreams", "inbound_substreams_delay"} :
             kept[field] = g[field]
    BY Zenon, <2>1 DEF Fields
  <2> HIDE DEF kept
  <2>4. InBooks(kept.inbound_substreams, kept.inbound_substreams_delay)
    BY <2>1, <2>2, <2>3 DEF InBooks
  <2>5. /\ Books(kept) /\ kept.events_out = g.events_out
        /\ kept.current_inbound_substream_id = s
    BY Zenon, <2>3, <2>4 DEF Books, Fields
  <2>6. /\ Books(stored) /\ stored.events_out = g.events_out
        /\ stored.current_inbound_substream_id = s
    BY Zenon, <2>5
  <2> HIDE DEF stored
  <2>7. Grows(closing, stored)
    BY <1>4, <2>6, ShutdownGrows, SameGrows
  <2> HIDE DEF closing
  <2>8. DOMAIN closing = Fields /\ Books(closing) /\ closing.current_inbound_substream_id = s
    BY Zenon, <2>6, <2>7 DEF Grows, Books
  <2>9. /\ DOMAIN queued = Fields
        /\ queued.events_out = Append(closing.events_out, NewRequest(g, kind))
        /\ queued.current_inbound_substream_id = s + 1
        /\ \A field \in Fields \ {"events_out", "current_inbound_substream_id"} :
             queued[field] = closing[field]
    BY Zenon, <2>8 DEF Fields, Push
  <2> HIDE DEF queued
  <2>10. Books(queued)
    BY <2>8, <2>9 DEF Books, Fields
  <2>11. PICK more \in Seq(Notices) : closing.events_out = g.events_out \o more
    BY Zenon, <2>6, <2>7 DEF Grows
  <2>12. queued.events_out = Append(g.events_out \o more, NewRequest(g, kind))
    BY Zenon, <2>9, <2>11
  <2> QED BY Zenon, <2>9, <2>10, <2>12 DEF Accepts
<1> HIDE DEF rejected, queued
<1> QED BY Zenon, <1>1, <1>3, <1>5, <1>6

-----------------------------------------------------------------------------
(* The requests that wait in the handler for the behaviour.                *)

Waiting(q) == {q[i].of : i \in {j \in DOMAIN q : q[j].type = "Request"}}

\* No substream has two of them.
Distinct(q) ==
  \A i, j \in DOMAIN q : q[i].type = "Request" /\ q[j].type = "Request" /\ q[i].of = q[j].of => i = j

\* A notice is no request.
LEMMA NoticeIsNone == \A e \in Notices : e.type # "Request"
BY Zenon DEF Notices

\* Notices are no requests.
LEMMA NoticesAreNone ==
  ASSUME NEW q \in Seq(Notices)
  PROVE  q \in Seq(Events) /\ Waiting(q) = {} /\ Distinct(q)
<1>1. \A i \in DOMAIN q : q[i].type # "Request"
  <2>1. \A i \in DOMAIN q : q[i] \in Notices
    OBVIOUS
  <2> QED BY Zenon, <2>1, NoticeIsNone
<1>2. q \in Seq(Events)
  BY DEF Events
<1> QED BY Zenon, <1>1, <1>2 DEF Waiting, Distinct

\* Notices are added.
LEMMA NoticesAdded ==
  ASSUME NEW q \in Seq(Events), NEW more \in Seq(Notices), Distinct(q)
  PROVE  q \o more \in Seq(Events) /\ Waiting(q \o more) = Waiting(q) /\ Distinct(q \o more)
<1> DEFINE z == q \o more
<1>1. more \in Seq(Events) /\ \A i \in DOMAIN more : more[i].type # "Request"
  <2>1. \A i \in DOMAIN more : more[i] \in Notices
    OBVIOUS
  <2>2. more \in Seq(Events)
    BY DEF Events
  <2> QED BY Zenon, <2>1, <2>2, NoticeIsNone
<1>2. z \in Seq(Events) /\ Len(z) = Len(q) + Len(more)
  BY <1>1
<1>3. /\ \A i \in 1 .. Len(q) : z[i] = q[i]
      /\ \A i \in 1 .. Len(z) : i \notin 1 .. Len(q) => z[i].type # "Request"
  BY <1>1, <1>2
<1>4. DOMAIN z = 1 .. Len(z) /\ DOMAIN q = 1 .. Len(q) /\ DOMAIN q \subseteq DOMAIN z
  BY <1>2
<1> HIDE DEF z
<1>5. Waiting(z) = Waiting(q)
  BY Zenon, <1>3, <1>4 DEF Waiting
<1>6. Distinct(z)
  BY Zenon, <1>3, <1>4 DEF Distinct
<1> QED BY Zenon, <1>2, <1>5, <1>6 DEF z

\* A request of another substream is added.
LEMMA RequestAdded ==
  ASSUME NEW q \in Seq(Events), NEW e \in PeerRequests, Distinct(q), e.of \notin Waiting(q)
  PROVE  /\ Append(q, e) \in Seq(Events)
         /\ Waiting(Append(q, e)) \subseteq Waiting(q) \cup {e.of}
         /\ Distinct(Append(q, e))
<1> DEFINE z == Append(q, e)
<1>1. e \in Events
  BY Zenon DEF Events
<1>2. z \in Seq(Events) /\ Len(z) = Len(q) + 1 /\ Len(q) \in Nat
  BY <1>1
<1>3. /\ \A i \in 1 .. Len(q) : z[i] = q[i]
      /\ z[Len(q) + 1] = e
  BY <1>1, <1>2
<1>4. DOMAIN z = 1 .. Len(q) + 1 /\ DOMAIN q = 1 .. Len(q)
  BY <1>2
<1> HIDE DEF z
<1>5. \A i \in DOMAIN z : i \in DOMAIN q \/ i = Len(q) + 1
  BY <1>2, <1>4
<1>6. Waiting(z) \subseteq Waiting(q) \cup {e.of}
  BY <1>3, <1>4, <1>5 DEF Waiting
<1>7. \A i \in DOMAIN q : q[i].type = "Request" => q[i].of # e.of
  BY Zenon DEF Waiting
<1>8. Distinct(z)
  BY Zenon, <1>3, <1>4, <1>5, <1>7 DEF Distinct
<1> QED BY Zenon, <1>2, <1>6, <1>8 DEF z

\* The first event is taken.
LEMMA EventTaken ==
  ASSUME NEW q \in Seq(Events), q # <<>>, Distinct(q)
  PROVE  /\ Head(q) \in Events /\ Tail(q) \in Seq(Events)
         /\ Waiting(Tail(q)) \subseteq Waiting(q) /\ Distinct(Tail(q))
         /\ Head(q).type = "Request" => Head(q).of \in Waiting(q) \ Waiting(Tail(q))
<1> DEFINE z == Tail(q)
<1>1. /\ Head(q) = q[1] /\ q[1] \in Events /\ 1 \in DOMAIN q
      /\ z \in Seq(Events) /\ Len(z) = Len(q) - 1 /\ Len(q) \in Nat
  OBVIOUS
<1>2. /\ DOMAIN z = 1 .. Len(q) - 1 /\ DOMAIN q = 1 .. Len(q)
      /\ \A i \in DOMAIN z : z[i] = q[i + 1] /\ i + 1 \in DOMAIN q /\ i + 1 # 1
  BY <1>1
<1> HIDE DEF z
<1>3. Waiting(z) \subseteq Waiting(q)
  BY Zenon, <1>2 DEF Waiting
<1>4. Distinct(z)
  BY <1>2 DEF Distinct
<1>5. q[1].type = "Request" => q[1].of \in Waiting(q) /\ q[1].of \notin Waiting(z)
  BY <1>1, <1>2 DEF Waiting, Distinct
<1> QED BY Zenon, <1>1, <1>3, <1>4, <1>5 DEF z

-----------------------------------------------------------------------------
(* Requests to the peer.  A request is in one place at a time: with the    *)
(* behaviour, in the handler's dial queue, being negotiated, or on a       *)
(* substream.  Until it has a substream the application has been told      *)
(* nothing of it, and nothing waits to be told; a substream that may still *)
(* bring chunks leaves room for as many as it counts.                      *)

\* The requests of which the application will be told when it takes the events of q
Notified(q) == {q[i].of : i \in {j \in DOMAIN q : q[j].type \in ForApplication}}

Queued(g) == Range(g.dial_queue) \cup g.dialing
Known(g) == Queued(g) \cup Outbound(g) \cup Notified(g.events_out)

\* The requests that may still be answered
Open(g) ==
  {r \in Outbound(g) : g.state # "Deactivated" /\ g.outbound_substreams[r].state # "Closing"}

Untold(result) == result.chunks = 0 /\ result.ends = 0
MoreToCome(result, r, left) ==
  result.ends = 0 /\ left \in Nat \ {0} /\ result.chunks + left <= max_responses(KindOf[r])

NoChunk(q) == \A i \in DOMAIN q : q[i].type # "Response"

Good(g, told) ==
  /\ g.dialing \subseteq OutRequests
  /\ NoChunk(g.events_out)
  /\ IsInjective(g.dial_queue) /\ Range(g.dial_queue) \cap g.dialing = {}
  /\ Queued(g) \cap (Outbound(g) \cup Notified(g.events_out)) = {}
  /\ Open(g) \cap Notified(g.events_out) = {}
  /\ \A r \in Queued(g) : Untold(told[r])
  /\ \A r \in Open(g) : MoreToCome(told[r], r, g.outbound_substreams[r].max_remaining_chunks)

\* Nothing changes for the requests, unless the handler is deactivated or something is told.
LEMMA SameGood ==
  ASSUME NEW g, NEW k, NEW told, Good(g, told),
         k.dial_queue = g.dial_queue, k.dialing = g.dialing,
         k.outbound_substreams = g.outbound_substreams, k.state \in {g.state, "Deactivated"},
         NoChunk(k.events_out), Notified(k.events_out) \subseteq Notified(g.events_out)
  PROVE  Good(k, told) /\ Known(k) \subseteq Known(g)
<1>1. Queued(k) = Queued(g) /\ Outbound(k) = Outbound(g) /\ Open(k) \subseteq Open(g)
  BY Zenon DEF Queued, Outbound, Open
<1>2. Known(k) \subseteq Known(g)
  BY Zenon, <1>1 DEF Known
<1> QED BY Zenon, <1>1, <1>2 DEF Good

\* Something changes for one request with a substream.
LEMMA OneGood ==
  ASSUME NEW g, NEW k, NEW told, NEW after, NEW r \in Outbound(g), Good(g, told),
         k.dial_queue = g.dial_queue, k.dialing = g.dialing, k.state = g.state,
         NoChunk(k.events_out), Notified(k.events_out) \subseteq Notified(g.events_out) \cup {r},
         \A x \in OutRequests \ {r} : /\ k.outbound_substreams[x] = g.outbound_substreams[x]
                                      /\ after[x] = told[x],
         r \in Open(k) => /\ r \notin Notified(k.events_out)
                          /\ MoreToCome(after[r], r, k.outbound_substreams[r].max_remaining_chunks),
         Books(g)
  PROVE  Good(k, after) /\ Known(k) \subseteq Known(g)
<1>1. Queued(k) = Queued(g) /\ Queued(g) \subseteq OutRequests /\ r \notin Queued(g)
  <2>1. Range(g.dial_queue) \subseteq OutRequests
    BY DEF Books, Range
  <2> QED BY Zenon, <2>1 DEF Queued, Good
<1>2. Outbound(k) \subseteq Outbound(g) /\ Outbound(g) \subseteq OutRequests
  BY Zenon DEF Outbound
<1>3. \A x \in Open(k) \ {r} : x \in Open(g) /\ x \in OutRequests
  BY Zenon DEF Open, Outbound
<1>4. Known(k) \subseteq Known(g)
  BY Zenon, <1>1, <1>2 DEF Known
<1>5. Queued(k) \cap (Outbound(k) \cup Notified(k.events_out)) = {}
  BY Zenon, <1>1, <1>2 DEF Good
<1>6. Open(k) \cap Notified(k.events_out) = {}
  BY Zenon, <1>3 DEF Good
<1>7. \A x \in Queued(k) : Untold(after[x])
  BY Zenon, <1>1 DEF Good
<1>8. \A x \in Open(k) : MoreToCome(after[x], x, k.outbound_substreams[x].max_remaining_chunks)
  BY Zenon, <1>3 DEF Good
<1> QED BY Zenon, <1>4, <1>5, <1>6, <1>7, <1>8 DEF Good

\* An event is queued.
LEMMA EventQueued ==
  ASSUME NEW S, NEW q \in Seq(S), NEW e, NoChunk(q), e.type # "Response"
  PROVE  /\ NoChunk(Append(q, e))
         /\ Notified(Append(q, e)) \subseteq Notified(q) \cup {e.of}
         /\ e.type \notin ForApplication => Notified(Append(q, e)) \subseteq Notified(q)
<1>1. \A i \in DOMAIN Append(q, e) : \/ i \in DOMAIN q /\ Append(q, e)[i] = q[i]
                                     \/ Append(q, e)[i] = e
  OBVIOUS
<1> QED BY Zenon, <1>1 DEF NoChunk, Notified

Results == [OutRequests -> [sent : BOOLEAN, chunks : Nat, ends : Nat, cut : BOOLEAN]]

\* What the application knows after it was told of r (Told)
After(told, type, r) ==
  IF type = "Response" THEN [told EXCEPT ![r].chunks = @ + 1]
  ELSE [told EXCEPT ![r].ends = @ + 1]

\* It knows more of that request, and nothing new of others.
LEMMA AfterFacts ==
  ASSUME NEW told \in Results, NEW type, NEW r
  PROVE  /\ After(told, type, r) \in Results
         /\ \A x \in OutRequests \ {r} : After(told, type, r)[x] = told[x]
         /\ \A x \in OutRequests : After(told, type, r)[x].sent = told[x].sent
         /\ type # "Response" => \A x \in OutRequests : After(told, type, r)[x].chunks = told[x].chunks
         /\ type = "Response" /\ r \in OutRequests =>
              /\ After(told, type, r)[r].chunks = told[r].chunks + 1
              /\ After(told, type, r)[r].ends = told[r].ends
<1> DEFINE R == [sent : BOOLEAN, chunks : Nat, ends : Nat, cut : BOOLEAN]
           v == IF type = "Response" THEN [told[r] EXCEPT !.chunks = @ + 1]
                ELSE [told[r] EXCEPT !.ends = @ + 1]
<1>1. After(told, type, r) = [told EXCEPT ![r] = v]
  BY Zenon DEF After
<1>2. CASE r \in OutRequests
  <2>1. told[r] \in R
    BY Zenon, <1>2 DEF Results
  <2>2. \A x \in R : /\ [x EXCEPT !.chunks = @ + 1] \in R /\ [x EXCEPT !.ends = @ + 1] \in R
                     /\ [x EXCEPT !.chunks = @ + 1].chunks = x.chunks + 1
                     /\ [x EXCEPT !.chunks = @ + 1].ends = x.ends
                     /\ [x EXCEPT !.chunks = @ + 1].sent = x.sent
                     /\ [x EXCEPT !.ends = @ + 1].chunks = x.chunks
                     /\ [x EXCEPT !.ends = @ + 1].sent = x.sent
    OBVIOUS
  <2>3. /\ v \in R /\ v.sent = told[r].sent
        /\ type # "Response" => v.chunks = told[r].chunks
        /\ type = "Response" => v.chunks = told[r].chunks + 1 /\ v.ends = told[r].ends
    BY Zenon, <2>1, <2>2
  <2> HIDE DEF v, R
  <2>4. told \in [OutRequests -> R]
    BY Zenon DEF Results, R
  <2>5. [told EXCEPT ![r] = v] \in Results
    BY Zenon, <2>3, <2>4, ExceptTyped DEF Results, R
  <2> QED BY Zenon, <1>1, <1>2, <2>3, <2>4, <2>5
<1>3. CASE r \notin OutRequests
  <2>1. [told EXCEPT ![r] = v] = told
    BY Zenon, <1>3 DEF Results
  <2> QED BY Zenon, <1>1, <1>3, <2>1
<1> QED BY Zenon, <1>2, <1>3

\* The handler g has become p.h, and the application is told of p.event.
Tells(p, g, told) ==
  /\ Known(p.h) \subseteq Known(g)
  /\ IF p.event = None \/ p.event.type \notin ForApplication THEN Good(p.h, told)
     ELSE /\ p.event.of \in Known(g)
          /\ p.event.type = "Response" =>
               /\ told[p.event.of].ends = 0
               /\ told[p.event.of].chunks < max_responses(KindOf[p.event.of])
          /\ Good(p.h, After(told, p.event.type, p.event.of))

\* Nothing, or the end of a request, is told.
LEMMA TellsEnd ==
  ASSUME NEW g, NEW k, NEW told, NEW r
  PROVE  /\ Known(k) \subseteq Known(g) /\ Good(k, told) => Tells(Return(k, None), g, told)
         /\ \A type \in {"OutboundErr", "EndOfStream"} :
              /\ Known(k) \subseteq Known(g) /\ r \in Known(g) /\ Good(k, After(told, type, r))
              => Tells(Return(k, Event(type, r)), g, told)
<1>1. \A type : Event(type, r) # None /\ Event(type, r).type = type /\ Event(type, r).of = r
  BY Zenon DEF Event, None
<1>2. \A e : Return(k, e).h = k /\ Return(k, e).event = e
  BY Zenon DEF Return
<1>3. \A type \in {"OutboundErr", "EndOfStream"} : type \in ForApplication /\ type # "Response"
  BY Zenon DEF ForApplication
<1>4. ASSUME Known(k) \subseteq Known(g), Good(k, told) PROVE Tells(Return(k, None), g, told)
  <2>1. Known(Return(k, None).h) \subseteq Known(g) /\ Good(Return(k, None).h, told)
    BY Zenon, <1>2, <1>4
  <2> QED BY Zenon, <1>2, <2>1 DEF Tells
<1>5. ASSUME NEW type \in {"OutboundErr", "EndOfStream"}, Known(k) \subseteq Known(g),
             r \in Known(g), Good(k, After(told, type, r))
      PROVE  Tells(Return(k, Event(type, r)), g, told)
  <2> DEFINE p == Return(k, Event(type, r))
  <2>1. /\ p.h = k /\ p.event # None /\ p.event.type = type /\ p.event.of = r
        /\ type \in ForApplication /\ type # "Response"
    BY Zenon, <1>1, <1>2, <1>3
  <2> HIDE DEF p
  <2>2. Tells(p, g, told)
    BY Zenon, <1>5, <2>1 DEF Tells
  <2> QED BY Zenon, <2>2 DEF p
<1> QED BY Zenon, <1>4, <1>5

\* The substream of r is removed, or begins to close, and r may have ended.
LEMMA ClosedGood ==
  ASSUME NEW g, NEW k, NEW told \in Results, NEW type, NEW r \in Outbound(g), Good(g, told), Books(g),
         k.dial_queue = g.dial_queue, k.dialing = g.dialing, k.state = g.state,
         k.events_out = g.events_out,
         \A x \in OutRequests \ {r} : k.outbound_substreams[x] = g.outbound_substreams[x],
         r \notin Open(k)
  PROVE  /\ Known(k) \subseteq Known(g) /\ r \in Known(g)
         /\ Good(k, told) /\ Good(k, After(told, type, r))
<1>1. /\ NoChunk(k.events_out)
      /\ Notified(k.events_out) \subseteq Notified(g.events_out) \cup {r}
  BY Zenon DEF Good
<1>2. \A x \in OutRequests \ {r} : After(told, type, r)[x] = told[x]
  BY AfterFacts
<1>3. Good(k, told) /\ Known(k) \subseteq Known(g)
  BY Zenon, <1>1, OneGood
<1>4. Good(k, After(told, type, r))
  BY Zenon, <1>1, <1>2, OneGood
<1> QED BY Zenon, <1>3, <1>4 DEF Known

\* The substream of r is removed.
LEMMA RemovedGood ==
  ASSUME NEW g, NEW told \in Results, NEW type, NEW r \in Outbound(g), Good(g, told), Books(g)
  PROVE  /\ Known(RemoveOutbound(g, r)) \subseteq Known(g) /\ r \in Known(g)
         /\ Good(RemoveOutbound(g, r), told)
         /\ Good(RemoveOutbound(g, r), After(told, type, r))
         /\ Outbound(g) \ {r} \subseteq Outbound(RemoveOutbound(g, r))
<1> DEFINE k == RemoveOutbound(g, r)
<1>1. r \in OutRequests /\ DOMAIN g = Fields /\ DOMAIN g.outbound_substreams = OutRequests
  BY Zenon DEF Outbound, Books, OutBooks
<1>2. /\ k.dial_queue = g.dial_queue /\ k.dialing = g.dialing /\ k.state = g.state
      /\ k.events_out = g.events_out
      /\ \A x \in OutRequests \ {r} : k.outbound_substreams[x] = g.outbound_substreams[x]
      /\ k.outbound_substreams[r] = None
  BY Zenon, <1>1 DEF RemoveOutbound, Fields
<1> HIDE DEF k
<1>3. r \notin Open(k)
  BY Zenon, <1>2 DEF Open, Outbound
<1>4. /\ Known(k) \subseteq Known(g) /\ r \in Known(g)
      /\ Good(k, told) /\ Good(k, After(told, type, r))
  BY Zenon, <1>2, <1>3, ClosedGood
<1>5. Outbound(g) \ {r} \subseteq Outbound(k)
  BY Zenon, <1>2 DEF Outbound
<1> QED BY Zenon, <1>4, <1>5 DEF k

\* A deactivated handler gives the substream of r up.
LEMMA GivenUpGood ==
  ASSUME NEW g, NEW c, NEW told, NEW r \in Outbound(g), Good(g, told), Quiet(g, c),
         g.state = "Deactivated"
  PROVE  LET k == [Push(g, Event("OutboundErr", r)) EXCEPT !.outbound_substreams[r].state = "Closing"]
         IN Known(k) \subseteq Known(g) /\ Good(k, told) /\ Outbound(g) \subseteq Outbound(k)
<1> DEFINE e == Event("OutboundErr", r)
           k == [Push(g, e) EXCEPT !.outbound_substreams[r].state = "Closing"]
<1>1. /\ r \in OutRequests /\ DOMAIN g = Fields /\ DOMAIN g.outbound_substreams = OutRequests
      /\ g.outbound_substreams[r] # None /\ OutboundInfo(g.outbound_substreams[r])
      /\ g.events_out \in Seq(Notices) /\ Books(g)
  BY Zenon DEF Outbound, Books, OutBooks, Quiet
<1>2. e.type = "OutboundErr" /\ e.of = r
  BY Zenon DEF Event
<1> HIDE DEF e
<1>3. /\ k.dial_queue = g.dial_queue /\ k.dialing = g.dialing /\ k.state = g.state
      /\ k.events_out = Append(g.events_out, e)
      /\ \A x \in OutRequests \ {r} : k.outbound_substreams[x] = g.outbound_substreams[x]
      /\ k.outbound_substreams[r] = [g.outbound_substreams[r] EXCEPT !.state = "Closing"]
  BY Zenon, <1>1 DEF Push, Fields
<1> HIDE DEF k
<1>4. k.outbound_substreams[r] # None
  BY Zenon, <1>1, <1>3 DEF OutboundInfo, OutFields, None
<1>5. r \notin Open(k)
  BY Zenon, <1>3 DEF Open
<1>6. NoChunk(k.events_out) /\ Notified(k.events_out) \subseteq Notified(g.events_out) \cup {r}
  <2>1. NoChunk(g.events_out)
    BY Zenon DEF Good
  <2>2. e.type # "Response"
    BY Zenon, <1>2
  <2>3. /\ NoChunk(Append(g.events_out, e))
        /\ Notified(Append(g.events_out, e)) \subseteq Notified(g.events_out) \cup {e.of}
    BY <1>1, <2>1, <2>2, EventQueued
  <2> QED BY Zenon, <1>2, <1>3, <2>3
<1>7. Good(k, told) /\ Known(k) \subseteq Known(g)
  BY Zenon, <1>1, <1>3, <1>5, <1>6, OneGood
<1>8. Outbound(g) \subseteq Outbound(k)
  BY Zenon, <1>3, <1>4 DEF Outbound
<1> QED BY Zenon, <1>7, <1>8 DEF k, e

\* A response arrives on a substream that waits for it.
LEMMA ReceivedTells ==
  ASSUME NEW g, NEW told \in Results, NEW r \in Open(g), NEW isError \in BOOLEAN, Good(g, told), Books(g)
  PROVE  Tells(Received(g, r, isError), g, told)
<1> DEFINE info == g.outbound_substreams[r]
           left == ChunksLeft(info)
           last == expect_exactly_one_response(r) \/ isError \/ left <= 0
           k == [g EXCEPT !.outbound_substreams[r].state = IF last THEN "Closing" ELSE @,
                          !.outbound_substreams[r].max_remaining_chunks = IF last THEN @ ELSE left]
           type == IF isError THEN "OutboundErr" ELSE "Response"
           after == After(told, type, r)
           after1 == after[r]
<1>1. /\ r \in Outbound(g) /\ r \in OutRequests /\ g.state # "Deactivated"
      /\ DOMAIN g = Fields /\ DOMAIN g.outbound_substreams = OutRequests
      /\ info # None /\ OutboundInfo(info)
  BY Zenon DEF Open, Outbound, Books, OutBooks
<1>2. /\ told[r].ends = 0 /\ info.max_remaining_chunks \in Nat \ {0}
      /\ told[r].chunks + info.max_remaining_chunks <= max_responses(KindOf[r])
      /\ r \notin Notified(g.events_out)
  BY Zenon DEF Good, MoreToCome
<1>3. Received(g, r, isError) = Return(k, Event(type, r))
  BY Zenon DEF Received
<1>4. told[r].chunks \in Nat /\ max_responses(KindOf[r]) \in Int
  <2>1. KindOf[r] \in Kinds /\ MaxResponses \in Nat
    BY <1>1, HandlerAssumption
  <2>2. told[r].chunks \in Nat
    BY <1>1 DEF Results
  <2> QED BY <2>1, <2>2 DEF Kinds, max_responses
<1>5. told[r].chunks < max_responses(KindOf[r])
  BY <1>2, <1>4
<1>6. /\ k.dial_queue = g.dial_queue /\ k.dialing = g.dialing /\ k.state = g.state
      /\ k.events_out = g.events_out
      /\ \A x \in OutRequests \ {r} : k.outbound_substreams[x] = g.outbound_substreams[x]
      /\ last => k.outbound_substreams[r].state = "Closing"
      /\ ~last => k.outbound_substreams[r].max_remaining_chunks = left
  BY Zenon, <1>1 DEF Fields, OutboundInfo, OutFields
<1>7. left = info.max_remaining_chunks - 1
  BY Zenon DEF ChunksLeft
<1>8. type \in ForApplication /\ (type = "Response" <=> ~isError)
  BY Zenon DEF ForApplication
<1>9. ~last => ~isError /\ left \in Nat \ {0}
  BY <1>2, <1>7
<1> HIDE DEF k, left, last
<1>10. Good(k, after) /\ Known(k) \subseteq Known(g)
  <2>1. CASE last
    <3>1. r \notin Open(k)
      BY Zenon, <1>6, <2>1 DEF Open
    <3> QED BY Zenon, <1>1, <1>6, <3>1, ClosedGood
  <2>2. CASE ~last
    <3>1. type = "Response"
      BY Zenon, <1>8, <1>9, <2>2
    <3>2. /\ \A x \in OutRequests \ {r} : after[x] = told[x]
          /\ after[r].chunks = told[r].chunks + 1 /\ after[r].ends = told[r].ends
      BY <1>1, <3>1, AfterFacts
    <3> HIDE DEF after, type
    <3>3. MoreToCome(after[r], r, left)
      BY <1>2, <1>4, <1>7, <1>9, <2>2, <3>2 DEF MoreToCome
    <3>4. MoreToCome(after[r], r, k.outbound_substreams[r].max_remaining_chunks)
      BY Zenon, <1>6, <2>2, <3>3
    <3>5. NoChunk(k.events_out) /\ Notified(k.events_out) \subseteq Notified(g.events_out) \cup {r}
      BY Zenon, <1>6 DEF Good
    <3>6. /\ \A x \in OutRequests \ {r} : /\ k.outbound_substreams[x] = g.outbound_substreams[x]
                                        /\ after[x] = told[x]
          /\ r \notin Notified(k.events_out)
      BY Zenon, <1>2, <1>6, <3>2
    <3>7. r \in Outbound(g) /\ k.dial_queue = g.dial_queue /\ k.dialing = g.dialing /\ k.state = g.state
      BY Zenon, <1>1, <1>6
    <3> QED BY Zenon, <3>4, <3>5, <3>6, <3>7, OneGood
  <2> QED BY Zenon, <2>1, <2>2
<1>11. r \in Known(g)
  BY Zenon, <1>1 DEF Known
<1> DEFINE p == Return(k, Event(type, r))
<1>12. p.h = k /\ p.event # None /\ p.event.type = type /\ p.event.of = r
  BY Zenon DEF Return, Event, None
<1> HIDE DEF p, type
<1>13. Tells(p, g, told)
  BY Zenon, <1>2, <1>5, <1>8, <1>10, <1>11, <1>12 DEF Tells
<1> QED BY Zenon, <1>3, <1>13 DEF p, k, type, last, left

\* What is told of a handler that has come from g.
LEMMA TellsAfter ==
  ASSUME NEW p, NEW g, NEW b, NEW told, Tells(p, b, told), Known(b) \subseteq Known(g)
  PROVE  Tells(p, g, told)
BY Zenon DEF Tells

\* An outbound substream is driven.
LEMMA DriveOutboundTells ==
  ASSUME NEW g, NEW c, NEW told \in Results, NEW r \in Outbound(g), NEW io, Quiet(g, c), Good(g, told)
  PROVE  /\ Tells(DriveOutbound(g, r, io), g, told)
         /\ DriveOutbound(g, r, io).event = None =>
              Outbound(g) \ {r} \subseteq Outbound(DriveOutbound(g, r, io).h)
<1> DEFINE info == g.outbound_substreams[r]
           removed == RemoveOutbound(g, r)
           given == [Push(g, Event("OutboundErr", r)) EXCEPT !.outbound_substreams[r].state = "Closing"]
           p == DriveOutbound(g, r, io)
<1>1. \/ p = Return(g, None) \/ p = Return(removed, None)
      \/ g.state = "Deactivated" /\ p = Return(given, None)
      \/ \E type \in {"OutboundErr", "EndOfStream"} : p = Return(removed, Event(type, r))
      \/ r \in Open(g) /\ p = Received(g, r, io = "error")
  BY Zenon DEF DriveOutbound, Open
<1> HIDE DEF p
<1>2. Books(g)
  BY Zenon DEF Quiet
<1>3. \A k, e : Return(k, e).h = k /\ Return(k, e).event = e
  BY Zenon DEF Return
<1>4. CASE p = Return(g, None)
  BY Zenon, <1>3, <1>4, TellsEnd DEF p
<1>5. CASE p = Return(removed, None)
  <2>1. /\ Known(removed) \subseteq Known(g) /\ Good(removed, told)
        /\ Outbound(g) \ {r} \subseteq Outbound(removed)
    BY Zenon, <1>2, RemovedGood
  <2> HIDE DEF removed
  <2> QED BY Zenon, <1>3, <1>5, <2>1, TellsEnd DEF p
<1>6. CASE g.state = "Deactivated" /\ p = Return(given, None)
  <2>1. Known(given) \subseteq Known(g) /\ Good(given, told) /\ Outbound(g) \subseteq Outbound(given)
    BY Zenon, <1>6, GivenUpGood
  <2> HIDE DEF given
  <2> QED BY Zenon, <1>3, <1>6, <2>1, TellsEnd DEF p
<1>7. CASE \E type \in {"OutboundErr", "EndOfStream"} : p = Return(removed, Event(type, r))
  <2>1. PICK type \in {"OutboundErr", "EndOfStream"} : p = Return(removed, Event(type, r))
    BY Zenon, <1>7
  <2>2. /\ Known(removed) \subseteq Known(g) /\ r \in Known(g)
        /\ Good(removed, After(told, type, r))
    BY Zenon, <1>2, RemovedGood
  <2> HIDE DEF removed
  <2>3. Tells(p, g, told)
    BY Zenon, <2>1, <2>2, TellsEnd
  <2>4. p.event # None
    <3>1. Event(type, r) # None
      BY Zenon DEF Event, None
    <3> QED BY Zenon, <1>3, <2>1, <3>1
  <2> QED BY Zenon, <2>3, <2>4 DEF p
<1>8. CASE r \in Open(g) /\ p = Received(g, r, io = "error")
  <2>1. Tells(p, g, told)
    BY Zenon, <1>2, <1>8, ReceivedTells
  <2>2. p.event # None
    BY Zenon, <1>8 DEF Received, Return, Event, None
  <2> QED BY Zenon, <2>1, <2>2 DEF p
<1> QED BY Zenon, <1>1, <1>4, <1>5, <1>6, <1>7, <1>8

\* The outbound substreams are driven until one has something to report.
LEMMA DriveOutboundsTells ==
  ASSUME NEW g, NEW c, NEW told \in Results, NEW xs, NEW io, Len(xs) \in Nat, Quiet(g, c), Good(g, told),
         \A i \in 1 .. Len(xs) : xs[i] \in Outbound(g),
         \A i, j \in 1 .. Len(xs) : xs[i] = xs[j] => i = j
  PROVE  Tells(DriveOutbounds(g, xs, io), g, told)
<1> DEFINE p == Return(g, None)
           n == Len(xs)
           f == CHOOSE f : Returns(f, p, xs, io, n)
           Ahead(i) == f[i].event = None => \A j \in 1 .. n : j > i => xs[j] \in Outbound(f[i].h)
           S == {i \in 0 .. n : QuietReturn(f[i], c) /\ Tells(f[i], g, told) /\ Ahead(i)}
<1>1. \E k : Returns(k, p, xs, io, n)
  BY Zenon, ReturnsExists
<1>2. Returns(f, p, xs, io, n)
  BY Zenon, <1>1
<1>3. DriveOutbounds(g, xs, io) = f[n]
  BY Zenon DEF DriveOutbounds, Each, Returns, DriveNext, p
<1> HIDE DEF f
<1>4. f[0] = p /\ \A i \in 1 .. n : f[i] = DriveNext(f[i - 1], xs[i], io)
  BY <1>2 DEF Returns
<1>5. 0 \in S
  <2>1. p.h = g /\ p.event = None
    BY Zenon DEF Return
  <2>2. Tells(p, g, told)
    BY Zenon, TellsEnd
  <2>3. QuietReturn(p, c)
    BY Zenon, <2>1 DEF QuietReturn
  <2>4. Ahead(0)
    BY Zenon, <1>4, <2>1
  <2>5. 0 \in 0 .. n
    OBVIOUS
  <2> QED BY Zenon, <1>4, <2>2, <2>3, <2>4, <2>5
<1>6. ASSUME NEW i \in 1 .. n, i - 1 \in S PROVE i \in S
  <2> DEFINE b == f[i - 1].h
             d == DriveOutbound(b, xs[i], io[xs[i]])
  <2>1. /\ QuietReturn(f[i - 1], c) /\ Tells(f[i - 1], g, told)
        /\ f[i - 1].event = None => \A j \in 1 .. n : j > i - 1 => xs[j] \in Outbound(b)
        /\ f[i] = IF f[i - 1].event # None THEN f[i - 1] ELSE d
    BY Zenon, <1>4, <1>6 DEF DriveNext
  <2>2. /\ i \in 0 .. n /\ i > i - 1 /\ \A j \in 1 .. n : j > i => j > i - 1 /\ j # i
    OBVIOUS
  <2>3. CASE f[i - 1].event # None
    <3>1. f[i] = f[i - 1]
      BY Zenon, <2>1, <2>3
    <3> QED BY Zenon, <2>1, <2>2, <2>3, <3>1
  <2>4. CASE f[i - 1].event = None
    <3>1. f[i] = d
      BY Zenon, <2>1, <2>4
    <3>2. Quiet(b, c) /\ Good(b, told) /\ Known(b) \subseteq Known(g)
      BY Zenon, <2>1, <2>4 DEF QuietReturn, Tells
    <3>3. xs[i] \in Outbound(b) /\ xs[i] \in OutRequests
      BY Zenon, <2>1, <2>2, <2>4 DEF Outbound
    <3> HIDE DEF b
    <3>4. QuietReturn(d, c)
      BY Zenon, <3>2, <3>3, DriveOutboundQuiet
    <3>5. Tells(d, b, told) /\ (d.event = None => Outbound(b) \ {xs[i]} \subseteq Outbound(d.h))
      BY Zenon, <3>2, <3>3, DriveOutboundTells
    <3> HIDE DEF d
    <3>6. Tells(d, g, told)
      BY Zenon, <3>2, <3>5, TellsAfter
    <3>7. Ahead(i)
      <4> SUFFICES ASSUME d.event = None, NEW j \in 1 .. n, j > i PROVE xs[j] \in Outbound(d.h)
        BY Zenon, <3>1
      <4>1. xs[j] \in Outbound(b) /\ xs[j] # xs[i]
        BY Zenon, <2>1, <2>2, <2>4
      <4> QED BY Zenon, <3>5, <4>1
    <3> QED BY Zenon, <2>2, <3>1, <3>4, <3>6, <3>7
  <2> QED BY Zenon, <2>3, <2>4
<1>7. n \in S
  BY Zenon, <1>5, <1>6, Climb
<1> QED BY Zenon, <1>3, <1>7

\* An order names each element once.
LEMMA OrderDistinct ==
  ASSUME NEW S, IsFiniteSet(S), NEW xs \in Orders(S)
  PROVE  \A i, j \in 1 .. Len(xs) : xs[i] = xs[j] => i = j
<1> DEFINE n == Cardinality(S)
<1>1. n \in Nat
  BY FS_CardinalityType
<1>2. xs \in Surjection(1 .. n, S) /\ DOMAIN xs = 1 .. n
  BY Zenon DEF Orders, Surjection
<1>3. IsFiniteSet(1 .. n) /\ Cardinality(1 .. n) = n
  BY <1>1, FS_Interval
<1>4. IsInjective(xs)
  BY Zenon, <1>2, <1>3, FS_SurjSameCardinalityImpliesInj DEF Injection
<1>5. Len(xs) = n
  BY <1>1, <1>2
<1> QED BY Zenon, <1>2, <1>4, <1>5 DEF IsInjective

\* The first element of a queue without repetitions is not among the others.
LEMMA FirstTaken ==
  ASSUME NEW S, NEW q \in Seq(S), q # <<>>, IsInjective(q)
  PROVE  /\ Head(q) \in Range(q) /\ Range(Tail(q)) \subseteq Range(q) \ {Head(q)}
         /\ IsInjective(Tail(q))
<1>1. /\ 1 \in DOMAIN q /\ Head(q) = q[1]
      /\ \A i \in DOMAIN Tail(q) : i + 1 \in DOMAIN q /\ i + 1 # 1 /\ Tail(q)[i] = q[i + 1]
      /\ \A i, j \in DOMAIN Tail(q) : i + 1 = j + 1 => i = j
  OBVIOUS
<1>2. Head(q) \in Range(q) /\ Range(Tail(q)) \subseteq Range(q) \ {Head(q)}
  <2>1. Head(q) \in Range(q)
    BY Zenon, <1>1 DEF Range
  <2>2. ASSUME NEW i \in DOMAIN Tail(q) PROVE Tail(q)[i] \in Range(q) /\ Tail(q)[i] # Head(q)
    <3>1. i + 1 \in DOMAIN q /\ i + 1 # 1 /\ Tail(q)[i] = q[i + 1]
      BY Zenon, <1>1
    <3> QED BY Zenon, <1>1, <3>1 DEF Range, IsInjective
  <2> QED BY Zenon, <2>1, <2>2 DEF Range
<1>3. IsInjective(Tail(q))
  BY Zenon, <1>1 DEF IsInjective
<1> QED BY Zenon, <1>2, <1>3

\* The first request of the dial queue is dialed.
LEMMA DialGood ==
  ASSUME NEW g, NEW told, Good(g, told), Books(g), g.dial_queue # <<>>
  PROVE  Good(Dial(g), told) /\ Known(Dial(g)) \subseteq Known(g)
<1> DEFINE k == Dial(g)
           q == g.dial_queue
<1>1. DOMAIN g = Fields /\ q \in Seq(OutRequests) /\ IsInjective(q)
  BY Zenon DEF Books, Good
<1>2. /\ k.dial_queue = Tail(q) /\ k.dialing = g.dialing \cup {Head(q)}
      /\ k.outbound_substreams = g.outbound_substreams /\ k.state = g.state
      /\ k.events_out = g.events_out
  BY Zenon, <1>1 DEF Fields, Dial
<1> HIDE DEF k
<1>3. /\ Head(q) \in Range(q) /\ Range(Tail(q)) \subseteq Range(q) \ {Head(q)}
      /\ IsInjective(Tail(q))
  BY Zenon, <1>1, FirstTaken
<1>4. Range(q) \subseteq OutRequests
  BY <1>1 DEF Range
<1>5. Queued(k) \subseteq Queued(g)
  BY Zenon, <1>2, <1>3 DEF Queued
<1>6. Outbound(k) = Outbound(g) /\ Open(k) = Open(g)
  BY Zenon, <1>2 DEF Outbound, Open
<1>7. Known(k) \subseteq Known(g)
  BY Zenon, <1>2, <1>5, <1>6 DEF Known
<1>8. k.dialing \subseteq OutRequests /\ Range(k.dial_queue) \cap k.dialing = {}
  BY Zenon, <1>2, <1>3, <1>4 DEF Good
<1>9. Good(k, told)
  BY Zenon, <1>2, <1>3, <1>5, <1>6, <1>8 DEF Good
<1> QED BY Zenon, <1>7, <1>9 DEF k

\* The handler is deactivated.
LEMMA DeactivateTells ==
  ASSUME NEW g, NEW told, Good(g, told), Books(g)
  PROVE  Tells(Deactivate(g), g, told)
<1> DEFINE k == [g EXCEPT !.state = "Deactivated"]
           p == Deactivate(g)
<1>1. DOMAIN g = Fields
  BY Zenon DEF Books
<1>2. /\ k.dial_queue = g.dial_queue /\ k.dialing = g.dialing
      /\ k.outbound_substreams = g.outbound_substreams /\ k.state = "Deactivated"
      /\ k.events_out = g.events_out
  BY Zenon, <1>1 DEF Fields
<1>3. p.h = k /\ p.event.type \notin ForApplication
  BY Zenon DEF Deactivate, Return, Event, ForApplication
<1> HIDE DEF k, p
<1>4. Good(k, told) /\ Known(k) \subseteq Known(g)
  <2>1. NoChunk(k.events_out) /\ Notified(k.events_out) \subseteq Notified(g.events_out)
    BY Zenon, <1>2 DEF Good
  <2>2. k.state \in {g.state, "Deactivated"}
    BY Zenon, <1>2
  <2> QED BY Zenon, <1>2, <2>1, <2>2, SameGood
<1>5. Tells(p, g, told)
  BY Zenon, <1>3, <1>4 DEF Tells
<1> QED BY Zenon, <1>5 DEF p

\* The work on the inbound substreams tells the application nothing.
LEMMA AsideGood ==
  ASSUME NEW g, NEW o, NEW told, Aside(g, o), Good(o, told)
  PROVE  Good(g, told) /\ Known(g) \subseteq Known(o)
<1>1. \A i \in DOMAIN g.events_out : g.events_out[i] \in InboundErrs
  BY DEF Aside
<1>2. NoChunk(g.events_out) /\ Notified(g.events_out) = {}
  BY Zenon, <1>1 DEF NoChunk, Notified, InboundErrs, ForApplication
<1>3. /\ g.dial_queue = o.dial_queue /\ g.dialing = o.dialing
      /\ g.outbound_substreams = o.outbound_substreams /\ g.state = o.state
  BY Zenon DEF Aside, Kept
<1>4. Notified(g.events_out) \subseteq Notified(o.events_out) /\ g.state \in {o.state, "Deactivated"}
  BY Zenon, <1>2, <1>3
<1> QED BY Zenon, <1>2, <1>3, <1>4, SameGood

\* A poll in which no outbound timer has run out (PollStreams).
LEMMA PollStreamsTells ==
  ASSUME NEW g, NEW expired, NEW ins, NEW inIo, NEW outs, NEW outIo, NEW told \in Results,
         Books(g), g.events_out = <<>>, Good(g, told),
         Len(expired) \in Nat, \A i \in 1 .. Len(expired) : expired[i] \in Substreams,
         Len(ins) \in Nat, \A i \in 1 .. Len(ins) : ins[i] \in Substreams,
         Len(outs) \in Nat, \A i \in 1 .. Len(outs) : outs[i] \in Outbound(g),
         \A i, j \in 1 .. Len(outs) : outs[i] = outs[j] => i = j
  PROVE  Tells(PollStreams(g, expired, ins, inIo, outs, outIo), g, told)
<1> DEFINE c == g.current_inbound_substream_id
           driven == DriveInbounds(PurgeInbound(g, expired), ins, inIo)
           p == DriveOutbounds(driven, outs, outIo)
           poll == PollStreams(g, expired, ins, inIo, outs, outIo)
<1>1. \/ poll = p
      \/ p.event = None /\ CanDial(p.h) /\ poll = Return(Dial(p.h), None)
      \/ p.event = None /\ poll = Deactivate(p.h)
  BY Zenon DEF PollStreams
<1> SUFFICES Tells(poll, g, told)
  OBVIOUS
<1> HIDE DEF poll
<1>2. Aside(driven, g)
  BY Zenon, InboundAside
<1> HIDE DEF driven
<1>3. Quiet(driven, c) /\ Good(driven, told) /\ Known(driven) \subseteq Known(g)
  BY Zenon, <1>2, AsideQuiet, AsideGood
<1>4. \A i \in 1 .. Len(outs) : outs[i] \in Outbound(driven) /\ outs[i] \in OutRequests
  <2>1. driven.outbound_substreams = g.outbound_substreams
    BY Zenon, <1>2 DEF Aside, Kept
  <2> QED BY Zenon, <2>1 DEF Outbound
<1>5. QuietReturn(p, c)
  BY Zenon, <1>3, <1>4, DriveOutboundsQuiet
<1>6. Tells(p, g, told)
  <2>1. Tells(p, driven, told)
    BY Zenon, <1>3, <1>4, DriveOutboundsTells
  <2> QED BY Zenon, <1>3, <2>1, TellsAfter
<1> HIDE DEF p
<1>7. ASSUME p.event = None PROVE Good(p.h, told) /\ Books(p.h) /\ Known(p.h) \subseteq Known(g)
  BY Zenon, <1>5, <1>6, <1>7 DEF QuietReturn, Quiet, Tells
<1>8. CASE p.event = None /\ CanDial(p.h) /\ poll = Return(Dial(p.h), None)
  <2>1. Good(Dial(p.h), told) /\ Known(Dial(p.h)) \subseteq Known(g)
    BY Zenon, <1>7, <1>8, DialGood DEF CanDial
  <2>2. Tells(Return(Dial(p.h), None), g, told)
    BY Zenon, <2>1, TellsEnd
  <2> QED BY Zenon, <1>8, <2>2
<1>9. CASE p.event = None /\ poll = Deactivate(p.h)
  <2>1. Tells(Deactivate(p.h), p.h, told)
    BY Zenon, <1>7, <1>9, DeactivateTells
  <2>2. Tells(Deactivate(p.h), g, told)
    BY Zenon, <1>7, <1>9, <2>1, TellsAfter
  <2> QED BY Zenon, <1>9, <2>2
<1> QED BY Zenon, <1>1, <1>6, <1>8, <1>9

\* A poll in which an outbound timer has run out (PollOutboundTimeout).
LEMMA PollTimeoutTells ==
  ASSUME NEW g, NEW expired, NEW r \in Outbound(g), NEW told \in Results,
         Books(g), g.events_out = <<>>, Good(g, told),
         Len(expired) \in Nat, \A i \in 1 .. Len(expired) : expired[i] \in Substreams
  PROVE  Tells(PollOutboundTimeout(g, expired, r), g, told)
<1> DEFINE b == PurgeInbound(g, expired)
<1>1. Aside(b, g)
  BY Zenon, AsideBegins, PurgeInboundAside
<1> HIDE DEF b
<1>2. Good(b, told) /\ Known(b) \subseteq Known(g) /\ Books(b)
  BY Zenon, <1>1, AsideQuiet, AsideGood DEF Quiet
<1>3. r \in Outbound(b)
  BY Zenon, <1>1 DEF Aside, Kept, Outbound
<1>4. /\ Known(RemoveOutbound(b, r)) \subseteq Known(b) /\ r \in Known(b)
      /\ Good(RemoveOutbound(b, r), After(told, "OutboundErr", r))
  BY Zenon, <1>2, <1>3, RemovedGood
<1>5. Tells(Return(RemoveOutbound(b, r), Event("OutboundErr", r)), b, told)
  BY Zenon, <1>4, TellsEnd
<1> QED BY Zenon, <1>2, <1>5, TellsAfter DEF PollOutboundTimeout, b

\* An event is taken from the handler's queue.
LEMMA TakenTells ==
  ASSUME NEW g, NEW told \in Results, Books(g), Good(g, told), g.events_out \in Seq(Events),
         g.events_out # <<>>
  PROVE  Tells(Return([g EXCEPT !.events_out = Tail(@)], Head(g.events_out)), g, told)
<1> DEFINE q == g.events_out
           e == Head(q)
           k == [g EXCEPT !.events_out = Tail(@)]
           p == Return(k, e)
           after == After(told, e.type, e.of)
<1>1. DOMAIN g = Fields
  BY Zenon DEF Books
<1>2. /\ k.dial_queue = g.dial_queue /\ k.dialing = g.dialing /\ k.state = g.state
      /\ k.outbound_substreams = g.outbound_substreams /\ k.events_out = Tail(q)
  BY Zenon, <1>1 DEF Fields
<1>3. p.h = k /\ p.event = e
  BY Zenon DEF Return
<1>4. /\ 1 \in DOMAIN q /\ e = q[1]
      /\ \A i \in DOMAIN Tail(q) : i + 1 \in DOMAIN q /\ Tail(q)[i] = q[i + 1]
  OBVIOUS
<1> HIDE DEF k, p, e
<1>5. NoChunk(q)
  BY Zenon DEF Good
<1>6. NoChunk(Tail(q)) /\ Notified(Tail(q)) \subseteq Notified(q)
  BY Zenon, <1>4, <1>5 DEF NoChunk, Notified
<1>7. e.type # "Response" /\ (e.type \in ForApplication => e.of \in Notified(q))
  BY Zenon, <1>4, <1>5 DEF NoChunk, Notified
<1>8. Good(k, told) /\ Known(k) \subseteq Known(g)
  <2>1. k.state \in {g.state, "Deactivated"}
    BY Zenon, <1>2
  <2> QED BY Zenon, <1>2, <1>6, <2>1, SameGood
<1>9. ASSUME e.type \in ForApplication PROVE Good(k, after) /\ e.of \in Known(g)
  <2>1. Queued(k) = Queued(g) /\ Open(k) = Open(g) /\ Open(k) \subseteq OutRequests
    BY Zenon, <1>2 DEF Queued, Open, Outbound
  <2>2. e.of \notin Queued(k) /\ e.of \notin Open(k)
    BY Zenon, <1>7, <1>9, <2>1 DEF Good
  <2>3. Queued(k) \subseteq OutRequests
    <3>1. Range(g.dial_queue) \subseteq OutRequests
      BY DEF Books, Range
    <3> QED BY Zenon, <2>1, <3>1 DEF Queued, Good
  <2>4. \A x \in OutRequests \ {e.of} : after[x] = told[x]
    BY AfterFacts
  <2> HIDE DEF after
  <2>5. \A x \in Queued(k) : after[x] = told[x]
    BY Zenon, <2>2, <2>3, <2>4
  <2>6. \A x \in Open(k) : after[x] = told[x]
    BY Zenon, <2>1, <2>2, <2>4
  <2>7. Good(k, after)
    BY Zenon, <1>8, <2>5, <2>6 DEF Good
  <2> QED BY Zenon, <1>7, <1>9, <2>7 DEF Known
<1>10. Tells(p, g, told)
  BY Zenon, <1>3, <1>7, <1>8, <1>9 DEF Tells
<1> QED BY Zenon, <1>10 DEF p, k, e

-----------------------------------------------------------------------------
(* Commands of the behaviour, and negotiated substreams.                   *)

\* A request is no longer being negotiated; it may get a substream, or an error to report.
LEMMA MovedGood ==
  ASSUME NEW g, NEW k, NEW told, NEW r \in OutRequests, Good(g, told), Books(g),
         k.dial_queue = g.dial_queue, r \notin Range(g.dial_queue),
         k.dialing = g.dialing \ {r}, k.state = g.state,
         NoChunk(k.events_out), Notified(k.events_out) \subseteq Notified(g.events_out) \cup {r},
         \A x \in OutRequests \ {r} : k.outbound_substreams[x] = g.outbound_substreams[x],
         r \in Open(k) => /\ r \notin Notified(k.events_out)
                          /\ MoreToCome(told[r], r, k.outbound_substreams[r].max_remaining_chunks)
  PROVE  Good(k, told) /\ Known(k) \subseteq Known(g) \cup {r}
<1>1. Queued(k) = Queued(g) \ {r}
  BY Zenon DEF Queued
<1>2. Outbound(k) \subseteq Outbound(g) \cup {r}
  BY Zenon DEF Outbound
<1>3. \A x \in Open(k) \ {r} : x \in Open(g) /\ x \in OutRequests
  BY Zenon DEF Open, Outbound
<1>4. Known(k) \subseteq Known(g) \cup {r}
  BY Zenon, <1>1, <1>2 DEF Known
<1>5. Queued(k) \cap (Outbound(k) \cup Notified(k.events_out)) = {}
  BY Zenon, <1>1, <1>2 DEF Good
<1>6. Open(k) \cap Notified(k.events_out) = {}
  BY Zenon, <1>3 DEF Good
<1>7. \A x \in Queued(k) : Untold(told[x])
  BY Zenon, <1>1 DEF Good
<1>8. \A x \in Open(k) : MoreToCome(told[x], x, k.outbound_substreams[x].max_remaining_chunks)
  BY Zenon, <1>3 DEF Good
<1> QED BY Zenon, <1>4, <1>5, <1>6, <1>7, <1>8 DEF Good

\* The failure of a request that has no substream is queued.
LEMMA FailedGood ==
  ASSUME NEW g, NEW told, NEW r \in OutRequests, Good(g, told), Books(g),
         g.events_out \in Seq(Events), r \notin Queued(g) \cup Outbound(g)
  PROVE  /\ Good(Push(g, Event("OutboundErr", r)), told)
         /\ Known(Push(g, Event("OutboundErr", r))) \subseteq Known(g) \cup {r}
<1> DEFINE e == Event("OutboundErr", r)
           k == Push(g, e)
<1>1. DOMAIN g = Fields
  BY Zenon DEF Books
<1>2. e.type # "Response" /\ e.of = r
  BY Zenon DEF Event
<1> HIDE DEF e
<1>3. /\ k.dial_queue = g.dial_queue /\ k.dialing = g.dialing /\ k.state = g.state
      /\ k.events_out = Append(g.events_out, e) /\ k.outbound_substreams = g.outbound_substreams
  BY Zenon, <1>1 DEF Push, Fields
<1> HIDE DEF k
<1>4. NoChunk(k.events_out) /\ Notified(k.events_out) \subseteq Notified(g.events_out) \cup {r}
  <2>1. NoChunk(g.events_out)
    BY Zenon DEF Good
  <2>2. /\ NoChunk(Append(g.events_out, e))
        /\ Notified(Append(g.events_out, e)) \subseteq Notified(g.events_out) \cup {e.of}
    BY <1>2, <2>1, EventQueued
  <2> QED BY Zenon, <1>2, <1>3, <2>2
<1>5. r \notin Open(k) /\ r \notin Range(g.dial_queue) /\ g.dialing = g.dialing \ {r}
  BY Zenon, <1>3 DEF Open, Outbound, Queued
<1>6. k.dialing = g.dialing \ {r}
  BY Zenon, <1>3, <1>5
<1>7. Good(k, told) /\ Known(k) \subseteq Known(g) \cup {r}
  BY Zenon, <1>3, <1>4, <1>5, <1>6, MovedGood
<1> QED BY Zenon, <1>7 DEF k, e

\* A request is queued for dialing, or fails (send_request).
LEMMA SendRequestGood ==
  ASSUME NEW g, NEW told, NEW r \in OutRequests, Good(g, told), Books(g),
         g.events_out \in Seq(Events), r \notin Known(g), Untold(told[r])
  PROVE  Good(send_request(g, r), told) /\ Known(send_request(g, r)) \subseteq Known(g) \cup {r}
<1> DEFINE k == [g EXCEPT !.dial_queue = Append(@, r)]
           q == g.dial_queue
<1>1. DOMAIN g = Fields /\ q \in Seq(OutRequests)
  BY Zenon DEF Books
<1>2. /\ k.dial_queue = Append(q, r) /\ k.dialing = g.dialing /\ k.state = g.state
      /\ k.events_out = g.events_out /\ k.outbound_substreams = g.outbound_substreams
  BY Zenon, <1>1 DEF Fields
<1>3. r \notin Queued(g) /\ r \notin Outbound(g) /\ r \notin Notified(g.events_out)
  BY Zenon DEF Known
<1>4. send_request(g, r) = k \/ send_request(g, r) = Push(g, Event("OutboundErr", r))
  BY Zenon DEF send_request
<1> HIDE DEF k
<1>5. Good(k, told) /\ Known(k) \subseteq Known(g) \cup {r}
  <2>1. IsInjective(q) /\ r \notin Range(q)
    BY Zenon, <1>3 DEF Good, Queued
  <2>2. IsInjective(Append(q, r)) /\ Range(Append(q, r)) = Range(q) \cup {r}
    <3> DEFINE a == Append(q, r)
    <3> HIDE DEF q
    <3>1. /\ \A i \in DOMAIN a : \/ i \in DOMAIN q /\ a[i] = q[i]
                                 \/ i = Len(q) + 1 /\ a[i] = r
          /\ \A i \in DOMAIN q : i \in DOMAIN a /\ a[i] = q[i]
          /\ Len(q) + 1 \in DOMAIN a /\ a[Len(q) + 1] = r
      BY <1>1
    <3> HIDE DEF a
    <3>2. \A i \in DOMAIN q : q[i] # r
      BY Zenon, <2>1 DEF Range
    <3>3. IsInjective(a)
      BY Zenon, <2>1, <3>1, <3>2 DEF IsInjective
    <3>4. Range(a) = Range(q) \cup {r}
      BY Zenon, <3>1 DEF Range
    <3> QED BY Zenon, <3>3, <3>4 DEF a
  <2>3. Queued(k) = Queued(g) \cup {r} /\ Outbound(k) = Outbound(g) /\ Open(k) = Open(g)
    BY Zenon, <1>2, <2>2 DEF Queued, Outbound, Open
  <2>4. Known(k) \subseteq Known(g) \cup {r}
    BY Zenon, <1>2, <2>3 DEF Known
  <2>5. IsInjective(k.dial_queue) /\ Range(k.dial_queue) \cap k.dialing = {}
    BY Zenon, <1>2, <1>3, <2>2 DEF Good, Queued
  <2>6. /\ Queued(k) \cap (Outbound(k) \cup Notified(k.events_out)) = {}
        /\ \A x \in Queued(k) : Untold(told[x])
    BY Zenon, <1>2, <1>3, <2>3 DEF Good
  <2> QED BY Zenon, <1>2, <2>3, <2>4, <2>5, <2>6 DEF Good
<1>6. /\ Good(Push(g, Event("OutboundErr", r)), told)
      /\ Known(Push(g, Event("OutboundErr", r))) \subseteq Known(g) \cup {r}
  BY Zenon, <1>3, FailedGood
<1> QED BY Zenon, <1>4, <1>5, <1>6

\* The handler begins to shut down: what was to be dialed fails (shutdown).
LEMMA ShutdownGood ==
  ASSUME NEW g, NEW told, NEW goodbye, NEW S, Good(g, told), DOMAIN g = Fields,
         g.dial_queue \in Seq(OutRequests), g.events_out \in Seq(S), IsInjective(goodbye),
         Range(goodbye) \cap Known(g) = {}, \A r \in Range(goodbye) : Untold(told[r])
  PROVE  /\ Good(shutdown(g, goodbye), told)
         /\ Known(shutdown(g, goodbye)) \subseteq Known(g) \cup Range(goodbye)
         /\ shutdown(g, goodbye).events_out \in Seq(S \cup Notices)
         /\ DOMAIN shutdown(g, goodbye) = Fields
<1> DEFINE q == g.dial_queue
           more == [i \in DOMAIN q |-> Event("OutboundErr", q[Len(q) + 1 - i])]
           k == [g EXCEPT !.events_out = @ \o more, !.dial_queue = goodbye, !.state = "ShuttingDown"]
<1>1. DOMAIN g = Fields /\ q \in Seq(OutRequests)
  BY Zenon
<1>2. \/ g.state = "Active" /\ shutdown(g, goodbye) = k
      \/ shutdown(g, goodbye) = g
  BY Zenon DEF shutdown
<1>3. CASE shutdown(g, goodbye) = g
  <2>1. g.events_out \in Seq(S \cup Notices)
    OBVIOUS
  <2> QED BY Zenon, <1>1, <1>3, <2>1
<1>4. CASE g.state = "Active" /\ shutdown(g, goodbye) = k
  <2>1. /\ DOMAIN k = Fields /\ k.dial_queue = goodbye /\ k.dialing = g.dialing /\ k.state = "ShuttingDown"
        /\ k.events_out = g.events_out \o more /\ k.outbound_substreams = g.outbound_substreams
    BY Zenon, <1>1 DEF Fields
  <2> HIDE DEF k, q
  <2>2. DOMAIN more = 1 .. Len(q) /\ Len(q) \in Nat
    BY <1>1
  <2>3. \A i \in DOMAIN more : more[i].type = "OutboundErr" /\ more[i].of \in Range(q) /\ more[i] \in Notices
    <3>1. \A i \in DOMAIN more : Len(q) + 1 - i \in DOMAIN q
      BY <1>1, <2>2
    <3>2. \A i \in DOMAIN more : more[i] = Event("OutboundErr", q[Len(q) + 1 - i])
      BY Zenon
    <3>3. \A i \in DOMAIN more : more[i] \in Notices
      BY <1>1, <3>1, <3>2, NoticeTypes
    <3> QED BY Zenon, <3>1, <3>2, <3>3 DEF Range, Event
  <2>4. more \in Seq(Notices)
    <3>1. more \in [1 .. Len(q) -> Notices]
      BY Zenon, <2>2, <2>3
    <3> HIDE DEF more
    <3> QED BY <2>2, <3>1
  <2> HIDE DEF more
  <2>5. \A i \in DOMAIN k.events_out :
          \/ i \in DOMAIN g.events_out /\ k.events_out[i] = g.events_out[i]
          \/ \E j \in DOMAIN more : k.events_out[i] = more[j]
    <3> DEFINE p == g.events_out
               a == p \o more
    <3>1. p \in Seq(S)
      BY Zenon
    <3> HIDE DEF p
    <3>2. \A i \in DOMAIN a : \/ i \in DOMAIN p /\ a[i] = p[i]
                              \/ i - Len(p) \in DOMAIN more /\ a[i] = more[i - Len(p)]
      BY <2>4, <3>1
    <3> QED BY Zenon, <2>1, <3>2 DEF p
  <2>6. NoChunk(k.events_out) /\ Notified(k.events_out) \subseteq Notified(g.events_out) \cup Range(q)
    <3>1. NoChunk(g.events_out)
      BY Zenon DEF Good
    <3>2. \A i \in DOMAIN more : more[i].type # "Response"
      BY Zenon, <2>3
    <3>3. NoChunk(k.events_out)
      BY Zenon, <2>5, <3>1, <3>2 DEF NoChunk
    <3>4. \A i \in DOMAIN k.events_out :
            k.events_out[i].type \in ForApplication =>
              k.events_out[i].of \in Notified(g.events_out) \cup Range(q)
      BY Zenon, <2>3, <2>5 DEF Notified
    <3> QED BY Zenon, <3>3, <3>4 DEF Notified
  <2>7. Outbound(k) = Outbound(g) /\ Open(k) = Open(g) /\ Open(g) \subseteq Outbound(g)
    BY Zenon, <1>4, <2>1 DEF Outbound, Open
  <2>8. Queued(k) = Range(goodbye) \cup g.dialing /\ Queued(g) = Range(q) \cup g.dialing
    BY Zenon, <2>1 DEF Queued, q
  <2>9. Known(k) \subseteq Known(g) \cup Range(goodbye)
    BY Zenon, <2>6, <2>7, <2>8 DEF Known
  <2>10. Range(goodbye) \cap (Queued(g) \cup Outbound(g) \cup Notified(g.events_out)) = {}
    BY Zenon DEF Known
  <2>11. IsInjective(k.dial_queue) /\ Range(k.dial_queue) \cap k.dialing = {}
    BY Zenon, <2>1, <2>8, <2>10
  <2>12. Range(q) \cap g.dialing = {} /\ Range(q) \cap Outbound(g) = {}
    BY Zenon, <2>8 DEF Good, q
  <2>13. Queued(k) \cap (Outbound(k) \cup Notified(k.events_out)) = {}
    BY Zenon, <2>6, <2>7, <2>8, <2>10, <2>12 DEF Good
  <2>14. Open(k) \cap Notified(k.events_out) = {}
    BY Zenon, <2>6, <2>7, <2>12 DEF Good
  <2>15. \A r \in Queued(k) : Untold(told[r])
    BY Zenon, <2>8 DEF Good
  <2>16. \A r \in Open(k) : MoreToCome(told[r], r, k.outbound_substreams[r].max_remaining_chunks)
    BY Zenon, <2>1, <2>7 DEF Good
  <2>17. k.dialing \subseteq OutRequests
    BY Zenon, <2>1 DEF Good
  <2>18. Good(k, told)
    BY Zenon, <2>6, <2>11, <2>13, <2>14, <2>15, <2>16, <2>17 DEF Good
  <2>19. k.events_out \in Seq(S \cup Notices)
    BY <2>1, <2>4
  <2> QED BY Zenon, <1>4, <2>1, <2>9, <2>18, <2>19
<1> QED BY Zenon, <1>2, <1>3, <1>4

\* A negotiation has failed; the request is dialed again or fails (on_dial_upgrade_error).
LEMMA UpgradeErrorGood ==
  ASSUME NEW g, NEW told, NEW r \in OutRequests, NEW ioError, Good(g, told), Books(g),
         g.events_out \in Seq(Events), r \in g.dialing
  PROVE  /\ Good(on_dial_upgrade_error(g, r, ioError), told)
         /\ Known(on_dial_upgrade_error(g, r, ioError)) \subseteq Known(g)
<1> DEFINE failed == [g EXCEPT !.dialing = @ \ {r}]
           again == [failed EXCEPT !.outbound_io_error_retries = g.outbound_io_error_retries + 1]
           over == [failed EXCEPT !.outbound_io_error_retries = 0]
<1>1. \/ on_dial_upgrade_error(g, r, ioError) = send_request(again, r)
      \/ on_dial_upgrade_error(g, r, ioError) = Push(over, Event("OutboundErr", r))
  BY Zenon DEF on_dial_upgrade_error
<1>2. DOMAIN g = Fields
  BY Zenon DEF Books
<1>3. ASSUME NEW k \in {again, over}
      PROVE  /\ Good(k, told) /\ Books(k) /\ k.events_out \in Seq(Events)
             /\ Known(k) \subseteq Known(g) /\ r \notin Known(k)
  <2>1. /\ DOMAIN k = Fields /\ k.dialing = g.dialing \ {r}
        /\ \A field \in Fields \ {"dialing", "outbound_io_error_retries"} : k[field] = g[field]
    BY Zenon, <1>2 DEF Fields
  <2> HIDE DEF again, over
  <2>2. Books(k) /\ k.events_out = g.events_out
    BY Zenon, <2>1, FieldsKept
  <2>3. /\ k.dial_queue = g.dial_queue /\ k.state = g.state
        /\ k.outbound_substreams = g.outbound_substreams
    BY Zenon, <2>1 DEF Fields
  <2>4. /\ r \notin Range(g.dial_queue) /\ r \notin Outbound(g) /\ r \notin Notified(g.events_out)
        /\ NoChunk(g.events_out)
    BY Zenon DEF Good, Queued
  <2>5. Outbound(k) = Outbound(g) /\ r \notin Open(k)
    BY Zenon, <2>3, <2>4 DEF Outbound, Open
  <2>6. /\ NoChunk(k.events_out) /\ Notified(k.events_out) \subseteq Notified(g.events_out) \cup {r}
        /\ \A x \in OutRequests \ {r} : k.outbound_substreams[x] = g.outbound_substreams[x]
    BY Zenon, <2>2, <2>3, <2>4
  <2>7. Good(k, told) /\ Known(k) \subseteq Known(g) \cup {r}
    BY Zenon, <2>1, <2>3, <2>4, <2>5, <2>6, MovedGood
  <2>8. r \notin Known(k)
    BY Zenon, <2>1, <2>2, <2>3, <2>4, <2>5 DEF Known, Queued
  <2> QED BY Zenon, <2>2, <2>7, <2>8
<1> HIDE DEF again, over
<1>4. r \in Known(g) /\ Untold(told[r])
  BY Zenon DEF Known, Queued, Good
<1>5. Good(send_request(again, r), told) /\ Known(send_request(again, r)) \subseteq Known(g)
  <2>1. /\ Good(send_request(again, r), told)
        /\ Known(send_request(again, r)) \subseteq Known(again) \cup {r}
    BY Zenon, <1>3, <1>4, SendRequestGood
  <2> QED BY Zenon, <1>3, <1>4, <2>1
<1>6. /\ Good(Push(over, Event("OutboundErr", r)), told)
      /\ Known(Push(over, Event("OutboundErr", r))) \subseteq Known(g)
  <2>1. r \notin Queued(over) \cup Outbound(over)
    BY Zenon, <1>3 DEF Known
  <2>2. /\ Good(Push(over, Event("OutboundErr", r)), told)
        /\ Known(Push(over, Event("OutboundErr", r))) \subseteq Known(over) \cup {r}
    BY Zenon, <1>3, <2>1, FailedGood
  <2> QED BY Zenon, <1>3, <1>4, <2>2
<1> QED BY Zenon, <1>1, <1>5, <1>6

\* A substream for a request has been negotiated (on_fully_negotiated_outbound).
LEMMA NegotiatedGood ==
  ASSUME NEW g, NEW told \in Results, NEW r \in OutRequests, Good(g, told), Books(g),
         g.events_out \in Seq(Events), r \in g.dialing
  PROVE  /\ Good(on_fully_negotiated_outbound(g, r), told)
         /\ Known(on_fully_negotiated_outbound(g, r)) \subseteq Known(g)
<1> DEFINE reported == IF g.state = "Deactivated" THEN Push(g, Event("OutboundErr", r)) ELSE g
           b == [reported EXCEPT !.dialing = @ \ {r}, !.outbound_io_error_retries = 0]
           info == [state |-> "Pending", max_remaining_chunks |-> max_responses(KindOf[r])]
           k == [b EXCEPT !.outbound_substreams[r] = info,
                          !.outbound_substreams_delay = @ \cup {r}]
           n == on_fully_negotiated_outbound(g, r)
<1>1. \/ n = b
      \/ n = k /\ max_responses(KindOf[r]) # 0
  BY Zenon DEF on_fully_negotiated_outbound
<1>2. DOMAIN g = Fields /\ DOMAIN g.outbound_substreams = OutRequests
  BY Zenon DEF Books, OutBooks
<1>3. /\ r \notin Range(g.dial_queue) /\ r \notin Outbound(g) /\ r \notin Notified(g.events_out)
      /\ NoChunk(g.events_out) /\ r \in Known(g) /\ Untold(told[r])
  BY Zenon DEF Good, Queued, Known
<1>4. /\ DOMAIN reported = Fields
      /\ \A field \in Fields \ {"events_out"} : reported[field] = g[field]
  BY Zenon, <1>2 DEF Push, Fields
<1>5. /\ NoChunk(reported.events_out)
      /\ Notified(reported.events_out) \subseteq Notified(g.events_out) \cup {r}
      /\ g.state # "Deactivated" => r \notin Notified(reported.events_out)
  <2>1. CASE g.state # "Deactivated"
    BY Zenon, <1>3, <2>1
  <2>2. CASE g.state = "Deactivated"
    <3> DEFINE e == Event("OutboundErr", r)
    <3>1. reported.events_out = Append(g.events_out, e)
      BY Zenon, <1>2, <2>2 DEF Push, Fields
    <3>2. e.type # "Response" /\ e.of = r
      BY Zenon DEF Event
    <3> HIDE DEF e, reported
    <3>3. /\ NoChunk(Append(g.events_out, e))
          /\ Notified(Append(g.events_out, e)) \subseteq Notified(g.events_out) \cup {e.of}
      BY <1>3, <3>2, EventQueued
    <3> QED BY Zenon, <2>2, <3>1, <3>2, <3>3
  <2> QED BY Zenon, <2>1, <2>2
<1> HIDE DEF reported
<1>6. /\ DOMAIN b = Fields /\ b.dialing = g.dialing \ {r} /\ b.dial_queue = g.dial_queue
      /\ b.state = g.state /\ b.events_out = reported.events_out
      /\ b.outbound_substreams = g.outbound_substreams
  BY Zenon, <1>4 DEF Fields
<1> HIDE DEF b
<1>7. /\ k.dialing = g.dialing \ {r} /\ k.dial_queue = g.dial_queue
      /\ k.state = g.state /\ k.events_out = reported.events_out
      /\ \A x \in OutRequests \ {r} : k.outbound_substreams[x] = g.outbound_substreams[x]
      /\ k.outbound_substreams[r].max_remaining_chunks = max_responses(KindOf[r])
  BY Zenon, <1>2, <1>6 DEF Fields
<1> HIDE DEF k
<1>8. Good(b, told) /\ Known(b) \subseteq Known(g) \cup {r}
  <2>1. r \notin Open(b)
    BY Zenon, <1>3, <1>6 DEF Open, Outbound
  <2>2. /\ NoChunk(b.events_out) /\ Notified(b.events_out) \subseteq Notified(g.events_out) \cup {r}
        /\ \A x \in OutRequests \ {r} : b.outbound_substreams[x] = g.outbound_substreams[x]
    BY Zenon, <1>5, <1>6
  <2> QED BY Zenon, <1>3, <1>6, <2>1, <2>2, MovedGood
<1>9. ASSUME max_responses(KindOf[r]) # 0
      PROVE  Good(k, told) /\ Known(k) \subseteq Known(g) \cup {r}
  <2>1. KindOf[r] \in Kinds /\ MaxResponses \in Nat
    BY HandlerAssumption
  <2>2. max_responses(KindOf[r]) \in Nat \ {0}
    BY <1>9, <2>1 DEF Kinds, max_responses
  <2>3. MoreToCome(told[r], r, max_responses(KindOf[r]))
    BY <1>3, <2>2 DEF MoreToCome, Untold
  <2>4. /\ NoChunk(k.events_out) /\ Notified(k.events_out) \subseteq Notified(g.events_out) \cup {r}
    BY Zenon, <1>5, <1>7
  <2>5. r \in Open(k) => /\ r \notin Notified(k.events_out)
                         /\ MoreToCome(told[r], r, k.outbound_substreams[r].max_remaining_chunks)
    BY Zenon, <1>5, <1>7, <2>3 DEF Open
  <2> QED BY Zenon, <1>3, <1>7, <2>4, <2>5, MovedGood
<1> HIDE DEF n
<1>10. Good(n, told) /\ Known(n) \subseteq Known(g)
  BY Zenon, <1>1, <1>3, <1>8, <1>9
<1> QED BY Zenon, <1>10 DEF n

\* A response is queued for its substream, or dropped (send_response).
LEMMA SendResponseGood ==
  ASSUME NEW g, NEW told, NEW s, NEW response, Good(g, told), Books(g), g.events_out \in Seq(Events)
  PROVE  /\ Good(send_response(g, s, response), told)
         /\ Known(send_response(g, s, response)) \subseteq Known(g)
<1> DEFINE e == Event("InboundErr", s)
           reported == IF response.item = ERROR THEN Push(g, e) ELSE g
           k == [reported EXCEPT !.inbound_substreams[s].pending_items = Append(@, response)]
           n == send_response(g, s, response)
<1>1. n = g \/ n = reported \/ n = k
  BY Zenon DEF send_response
<1>2. DOMAIN g = Fields /\ NoChunk(g.events_out)
  BY Zenon DEF Books, Good
<1>3. e.type = "InboundErr"
  BY Zenon DEF Event
<1>4. e.type # "Response" /\ e.type \notin ForApplication
  BY Zenon, <1>3 DEF ForApplication
<1> HIDE DEF e
<1>5. NoChunk(Append(g.events_out, e)) /\ Notified(Append(g.events_out, e)) \subseteq Notified(g.events_out)
  BY <1>2, <1>4, EventQueued
<1>6. /\ DOMAIN reported = Fields
      /\ reported.dialing = g.dialing /\ reported.dial_queue = g.dial_queue
      /\ reported.state = g.state /\ reported.outbound_substreams = g.outbound_substreams
      /\ reported.events_out \in {g.events_out, Append(g.events_out, e)}
  BY Zenon, <1>2 DEF Push, Fields
<1> HIDE DEF reported
<1>7. /\ k.dialing = g.dialing /\ k.dial_queue = g.dial_queue
      /\ k.state = g.state /\ k.outbound_substreams = g.outbound_substreams
      /\ k.events_out \in {g.events_out, Append(g.events_out, e)}
  BY Zenon, <1>6 DEF Fields
<1> HIDE DEF k, n
<1>8. /\ n.dialing = g.dialing /\ n.dial_queue = g.dial_queue
      /\ n.state = g.state /\ n.outbound_substreams = g.outbound_substreams
      /\ n.events_out \in {g.events_out, Append(g.events_out, e)}
  BY Zenon, <1>1, <1>6, <1>7
<1>9. NoChunk(n.events_out) /\ Notified(n.events_out) \subseteq Notified(g.events_out)
  BY Zenon, <1>2, <1>5, <1>8
<1>10. n.state \in {g.state, "Deactivated"}
  BY Zenon, <1>8
<1>11. Good(n, told) /\ Known(n) \subseteq Known(g)
  BY Zenon, <1>8, <1>9, <1>10, SameGood
<1> QED BY Zenon, <1>11 DEF n

\* An event that is not for the application is queued.
LEMMA PushedGood ==
  ASSUME NEW g, NEW told, NEW e, NEW S, Good(g, told), DOMAIN g = Fields,
         g.events_out \in Seq(S), e.type \notin ForApplication
  PROVE  /\ Good(Push(g, e), told) /\ Known(Push(g, e)) \subseteq Known(g)
         /\ DOMAIN Push(g, e) = Fields /\ Push(g, e).dial_queue = g.dial_queue
         /\ Push(g, e).events_out \in Seq(S \cup {e})
<1> DEFINE k == Push(g, e)
<1>1. /\ DOMAIN k = Fields
      /\ k.dial_queue = g.dial_queue /\ k.dialing = g.dialing /\ k.state = g.state
      /\ k.outbound_substreams = g.outbound_substreams /\ k.events_out = Append(g.events_out, e)
  BY Zenon DEF Push, Fields
<1> HIDE DEF k
<1>2. NoChunk(g.events_out) /\ e.type # "Response"
  BY Zenon DEF Good, ForApplication
<1>3. NoChunk(Append(g.events_out, e)) /\ Notified(Append(g.events_out, e)) \subseteq Notified(g.events_out)
  BY <1>2, EventQueued
<1>4. NoChunk(k.events_out) /\ Notified(k.events_out) \subseteq Notified(g.events_out)
  BY Zenon, <1>1, <1>3
<1>5. k.state \in {g.state, "Deactivated"}
  BY Zenon, <1>1
<1>6. Good(k, told) /\ Known(k) \subseteq Known(g)
  BY Zenon, <1>1, <1>4, <1>5, SameGood
<1>7. k.events_out \in Seq(S \cup {e})
  BY <1>1
<1> QED BY Zenon, <1>1, <1>6, <1>7 DEF k

\* The handler begins to shut down without a goodbye.
LEMMA SilentShutdownGood ==
  ASSUME NEW g, NEW told, NEW S, Good(g, told), DOMAIN g = Fields,
         g.dial_queue \in Seq(OutRequests), g.events_out \in Seq(S)
  PROVE  /\ Good(shutdown(g, <<>>), told) /\ Known(shutdown(g, <<>>)) \subseteq Known(g)
         /\ shutdown(g, <<>>).events_out \in Seq(S \cup Notices)
         /\ DOMAIN shutdown(g, <<>>) = Fields
<1>1. IsInjective(<<>>) /\ Range(<<>>) = {}
  BY DEF IsInjective, Range
<1>2. Range(<<>>) \cap Known(g) = {} /\ \A r \in Range(<<>>) : Untold(told[r])
  BY Zenon, <1>1
<1>3. /\ Good(shutdown(g, <<>>), told) /\ Known(shutdown(g, <<>>)) \subseteq Known(g) \cup Range(<<>>)
      /\ shutdown(g, <<>>).events_out \in Seq(S \cup Notices)
      /\ DOMAIN shutdown(g, <<>>) = Fields
  BY Zenon, <1>1, <1>2, ShutdownGood
<1> QED BY Zenon, <1>1, <1>3

\* A request of the peer has been read (on_fully_negotiated_inbound).
LEMMA InboundGood ==
  ASSUME NEW g, NEW told, NEW kind, NEW oversized, Good(g, told), Books(g), g.events_out \in Seq(Events)
  PROVE  /\ Good(on_fully_negotiated_inbound(g, kind, oversized), told)
         /\ Known(on_fully_negotiated_inbound(g, kind, oversized)) \subseteq Known(g)
<1> DEFINE s == g.current_inbound_substream_id
           n == on_fully_negotiated_inbound(g, kind, oversized)
           e == Event("InboundErr", s)
           pushed == Push(g, e)
           rejected == shutdown(pushed, <<>>)
           info == [sending |-> None, pending_items |-> <<>>,
                    max_remaining_chunks |-> max_responses(kind)]
           kept == [g EXCEPT !.inbound_substreams[s] = info, !.inbound_substreams_delay = @ \cup {s}]
           stored == IF max_responses(kind) = 0 THEN g ELSE kept
           closing == IF kind = "goodbye" THEN shutdown(stored, <<>>) ELSE stored
           asked == Push(closing, NewRequest(g, kind))
           queued == [asked EXCEPT !.current_inbound_substream_id = @ + 1]
<1>1. n = g \/ n = rejected \/ n = queued
  BY Zenon DEF on_fully_negotiated_inbound, NewRequest
<1>2. DOMAIN g = Fields /\ g.dial_queue \in Seq(OutRequests) /\ NoChunk(g.events_out)
  BY Zenon DEF Books, Good
<1>3. Good(rejected, told) /\ Known(rejected) \subseteq Known(g)
  <2>1. e.type \notin ForApplication
    BY Zenon DEF Event, ForApplication
  <2> HIDE DEF e
  <2>2. /\ Good(pushed, told) /\ Known(pushed) \subseteq Known(g) /\ DOMAIN pushed = Fields
        /\ pushed.dial_queue = g.dial_queue /\ pushed.events_out \in Seq(Events \cup {e})
    BY Zenon, <1>2, <2>1, PushedGood
  <2> HIDE DEF pushed
  <2>3. pushed.dial_queue \in Seq(OutRequests)
    BY Zenon, <1>2, <2>2
  <2>4. Good(rejected, told) /\ Known(rejected) \subseteq Known(pushed)
    BY Zenon, <2>2, <2>3, SilentShutdownGood
  <2> QED BY Zenon, <2>2, <2>4
<1>4. Good(queued, told) /\ Known(queued) \subseteq Known(g)
  <2>1. /\ DOMAIN stored = Fields /\ stored.events_out = g.events_out
        /\ stored.dial_queue = g.dial_queue /\ stored.dialing = g.dialing
        /\ stored.state = g.state /\ stored.outbound_substreams = g.outbound_substreams
    BY Zenon, <1>2 DEF Fields
  <2> HIDE DEF stored
  <2>2. Good(stored, told) /\ Known(stored) \subseteq Known(g)
    <3>1. /\ stored.state \in {g.state, "Deactivated"} /\ NoChunk(stored.events_out)
          /\ Notified(stored.events_out) \subseteq Notified(g.events_out)
      BY Zenon, <1>2, <2>1
    <3> QED BY Zenon, <2>1, <3>1, SameGood
  <2>3. /\ Good(closing, told) /\ Known(closing) \subseteq Known(stored)
        /\ DOMAIN closing = Fields /\ \E S : closing.events_out \in Seq(S)
    <3>1. stored.dial_queue \in Seq(OutRequests) /\ stored.events_out \in Seq(Events)
      BY Zenon, <1>2, <2>1
    <3>2. /\ Good(shutdown(stored, <<>>), told) /\ Known(shutdown(stored, <<>>)) \subseteq Known(stored)
          /\ shutdown(stored, <<>>).events_out \in Seq(Events \cup Notices)
          /\ DOMAIN shutdown(stored, <<>>) = Fields
      BY Zenon, <2>1, <2>2, <3>1, SilentShutdownGood
    <3> QED BY Zenon, <2>1, <2>2, <3>1, <3>2
  <2> HIDE DEF closing
  <2>4. PICK S : closing.events_out \in Seq(S)
    BY Zenon, <2>3
  <2>5. NewRequest(g, kind).type \notin ForApplication
    BY Zenon DEF NewRequest, ForApplication
  <2>6. Good(asked, told) /\ Known(asked) \subseteq Known(closing) /\ DOMAIN asked = Fields
    BY Zenon, <2>3, <2>4, <2>5, PushedGood
  <2> HIDE DEF asked
  <2>7. /\ queued.events_out = asked.events_out
        /\ queued.dial_queue = asked.dial_queue /\ queued.dialing = asked.dialing
        /\ queued.state = asked.state /\ queued.outbound_substreams = asked.outbound_substreams
    BY Zenon, <2>6 DEF Fields
  <2> HIDE DEF queued
  <2>8. /\ queued.state \in {asked.state, "Deactivated"} /\ NoChunk(queued.events_out)
        /\ Notified(queued.events_out) \subseteq Notified(asked.events_out)
    BY Zenon, <2>6, <2>7 DEF Good
  <2>9. Good(queued, told) /\ Known(queued) \subseteq Known(asked)
    BY Zenon, <2>6, <2>7, <2>8, SameGood
  <2> QED BY Zenon, <2>2, <2>3, <2>6, <2>9
<1> HIDE DEF n, rejected, queued
<1>5. Good(n, told) /\ Known(n) \subseteq Known(g)
  BY Zenon, <1>1, <1>3, <1>4
<1> QED BY Zenon, <1>5 DEF n

-----------------------------------------------------------------------------
(* The requests that are still in the behaviour's queue of events.         *)

Asking(e) == e.send \in {"Request", "Shutdown"}
Asked(q) == {j \in DOMAIN q : Asking(q[j])}
Pending(q) == {q[i].request : i \in Asked(q)}
AskedOnce(q) == \A i, j \in Asked(q) : q[i].request = q[j].request => i = j

\* A queue whose requests are among those of another queue, in other places.
LEMMA AskedFrom ==
  ASSUME NEW q, NEW w, NEW m, AskedOnce(q),
         \A i \in Asked(w) : m[i] \in Asked(q) /\ w[i].request = q[m[i]].request,
         \A i, j \in Asked(w) : m[i] = m[j] => i = j
  PROVE  AskedOnce(w) /\ Pending(w) \subseteq Pending(q)
<1>1. ASSUME NEW i \in Asked(w), NEW j \in Asked(w), w[i].request = w[j].request PROVE i = j
  <2>1. q[m[i]].request = q[m[j]].request
    BY Zenon, <1>1
  <2>2. m[i] = m[j]
    BY Zenon, <2>1 DEF AskedOnce
  <2> QED BY Zenon, <2>2
<1>2. ASSUME NEW i \in Asked(w) PROVE w[i].request \in Pending(q)
  <2>1. m[i] \in Asked(q) /\ w[i].request = q[m[i]].request
    BY Zenon
  <2>2. q[m[i]].request \in Pending(q)
    BY Zenon, <2>1 DEF Pending
  <2> QED BY Zenon, <2>1, <2>2
<1>3. Pending(w) \subseteq Pending(q)
  BY Zenon, <1>2 DEF Pending
<1> QED BY Zenon, <1>1, <1>3 DEF AskedOnce

\* The same, with the requests in the same places.
LEMMA AskedSame ==
  ASSUME NEW q, NEW w, AskedOnce(q), \A i \in Asked(w) : i \in Asked(q) /\ w[i] = q[i]
  PROVE  AskedOnce(w) /\ Pending(w) \subseteq Pending(q)
<1> DEFINE m == [i \in Asked(w) |-> i]
<1>1. /\ \A i \in Asked(w) : m[i] \in Asked(q) /\ w[i].request = q[m[i]].request
      /\ \A i, j \in Asked(w) : m[i] = m[j] => i = j
  BY Zenon
<1> HIDE DEF m
<1> QED BY Zenon, <1>1, AskedFrom

\* Other events are queued.
LEMMA OthersAdded ==
  ASSUME NEW S, NEW q \in Seq(S), NEW T, NEW more \in Seq(T),
         \A i \in DOMAIN more : ~ Asking(more[i]), AskedOnce(q)
  PROVE  AskedOnce(q \o more) /\ Pending(q \o more) \subseteq Pending(q)
<1>1. \A i \in DOMAIN (q \o more) : \/ i \in DOMAIN q /\ (q \o more)[i] = q[i]
                                    \/ \E j \in DOMAIN more : (q \o more)[i] = more[j]
  <2>1. \A i \in DOMAIN (q \o more) :
          \/ i \in DOMAIN q /\ (q \o more)[i] = q[i]
          \/ i - Len(q) \in DOMAIN more /\ (q \o more)[i] = more[i - Len(q)]
    OBVIOUS
  <2> QED BY Zenon, <2>1
<1>2. \A i \in Asked(q \o more) : i \in Asked(q) /\ (q \o more)[i] = q[i]
  BY Zenon, <1>1 DEF Asked
<1> QED BY Zenon, <1>2, AskedSame

\* Another event is queued.
LEMMA OtherAdded ==
  ASSUME NEW S, NEW q \in Seq(S), NEW e, ~ Asking(e), AskedOnce(q)
  PROVE  AskedOnce(Append(q, e)) /\ Pending(Append(q, e)) \subseteq Pending(q)
<1>1. \A i \in DOMAIN Append(q, e) : \/ i \in DOMAIN q /\ Append(q, e)[i] = q[i]
                                     \/ Append(q, e)[i] = e
  OBVIOUS
<1>2. \A i \in Asked(Append(q, e)) : i \in Asked(q) /\ Append(q, e)[i] = q[i]
  BY Zenon, <1>1 DEF Asked
<1> QED BY Zenon, <1>2, AskedSame

\* A request that is not queued yet is queued.
LEMMA RequestQueued ==
  ASSUME NEW S, NEW q \in Seq(S), NEW e, e.request \notin Pending(q), AskedOnce(q)
  PROVE  AskedOnce(Append(q, e)) /\ Pending(Append(q, e)) \subseteq Pending(q) \cup {e.request}
<1>1. \A i \in DOMAIN Append(q, e) : \/ i \in DOMAIN q /\ Append(q, e)[i] = q[i]
                                     \/ i = Len(q) + 1 /\ Append(q, e)[i] = e
  OBVIOUS
<1>2. \A i \in Asked(Append(q, e)) : \/ i \in Asked(q) /\ Append(q, e)[i] = q[i]
                                     \/ i = Len(q) + 1 /\ Append(q, e)[i] = e
  BY Zenon, <1>1 DEF Asked
<1>3. \A i \in Asked(q) : q[i].request # e.request
  BY Zenon DEF Pending
<1> QED BY Zenon, <1>2, <1>3 DEF AskedOnce, Pending

\* The first event is taken.
LEMMA AskedTaken ==
  ASSUME NEW S, NEW q \in Seq(S), q # <<>>, AskedOnce(q)
  PROVE  /\ AskedOnce(Tail(q)) /\ Pending(Tail(q)) \subseteq Pending(q)
         /\ Asking(Head(q)) =>
              Head(q).request \in Pending(q) /\ Head(q).request \notin Pending(Tail(q))
<1>1. /\ 1 \in DOMAIN q /\ Head(q) = q[1]
      /\ \A i \in DOMAIN Tail(q) : i + 1 \in DOMAIN q /\ Tail(q)[i] = q[i + 1] /\ i + 1 # 1 /\ i \in Int
  OBVIOUS
<1>2. \A i \in Asked(Tail(q)) : i + 1 \in Asked(q) /\ Tail(q)[i] = q[i + 1] /\ i + 1 # 1 /\ i \in Int
  BY Zenon, <1>1 DEF Asked
<1>3. AskedOnce(Tail(q)) /\ Pending(Tail(q)) \subseteq Pending(q)
  <2> DEFINE w == Tail(q)
             m == [i \in Asked(w) |-> i + 1]
  <2>1. \A i \in Asked(w) : i + 1 \in Asked(q) /\ w[i].request = q[i + 1].request /\ i \in Int
    BY Zenon, <1>2
  <2> HIDE DEF w
  <2>2. \A i \in Asked(w) : m[i] \in Asked(q) /\ w[i].request = q[m[i]].request
    BY Zenon, <2>1
  <2>3. \A i, j \in Asked(w) : m[i] = m[j] => i = j
    BY <2>1
  <2> HIDE DEF m
  <2>4. AskedOnce(w) /\ Pending(w) \subseteq Pending(q)
    BY Zenon, <2>2, <2>3, AskedFrom
  <2> QED BY Zenon, <2>4 DEF w
<1>5. ASSUME Asking(Head(q))
      PROVE  Head(q).request \in Pending(q) /\ Head(q).request \notin Pending(Tail(q))
  <2>1. 1 \in Asked(q)
    BY Zenon, <1>1, <1>5 DEF Asked
  <2>2. \A i \in Asked(Tail(q)) : Tail(q)[i].request # Head(q).request
    BY Zenon, <1>1, <1>2, <2>1 DEF AskedOnce
  <2> QED BY Zenon, <1>1, <2>1, <2>2 DEF Pending
<1> QED BY Zenon, <1>3, <1>5

\* The requests are taken out, and leave the shutdowns.
LEMMA RequestsRemoved ==
  ASSUME NEW S, NEW q \in Seq(S), NEW X, AskedOnce(q),
         \A i \in DOMAIN q : q[i].send = "Request" => q[i] \in X
  PROVE  /\ AskedOnce(Without(q, X)) /\ Pending(Without(q, X)) \subseteq Pending(q)
         /\ \A i \in DOMAIN q : q[i].send = "Request" => q[i].request \notin Pending(Without(q, X))
<1> DEFINE w == Without(q, X)
<1>1. w \in Seq(S)
  BY Zenon, WithoutEmbeds
<1>2. PICK m : Embeds(m, w, q, X, Len(q))
  BY Zenon, WithoutEmbeds
<1> HIDE DEF w
<1>3. DOMAIN w = 1 .. Len(w) /\ DOMAIN q = 1 .. Len(q) /\ Len(w) \in Nat
  BY <1>1
<1>4. \A i \in Asked(w) : m[i] \in Asked(q) /\ w[i] = q[m[i]] /\ w[i] \notin X /\ i \in 1 .. Len(w)
  BY Zenon, <1>2, <1>3 DEF Embeds, Asked
<1>5. \A i, j \in 1 .. Len(w) : m[i] = m[j] => i = j
  <2>1. \A i \in 1 .. Len(w) : m[i] \in Int
    BY <1>2 DEF Embeds
  <2> QED BY <1>2, <1>3, <2>1 DEF Embeds
<1>6. AskedOnce(w) /\ Pending(w) \subseteq Pending(q)
  <2>1. /\ \A i \in Asked(w) : m[i] \in Asked(q) /\ w[i].request = q[m[i]].request
        /\ \A i, j \in Asked(w) : m[i] = m[j] => i = j
    BY Zenon, <1>4, <1>5
  <2> QED BY Zenon, <2>1, AskedFrom
<1>7. ASSUME NEW i \in DOMAIN q, q[i].send = "Request" PROVE q[i].request \notin Pending(w)
  <2>1. i \in Asked(q) /\ q[i] \in X
    BY Zenon, <1>7 DEF Asked, Asking
  <2>2. ASSUME NEW j \in Asked(w), w[j].request = q[i].request PROVE FALSE
    <3>1. m[j] \in Asked(q) /\ q[m[j]].request = q[i].request
      BY Zenon, <1>4, <2>2
    <3>2. m[j] = i
      BY Zenon, <2>1, <3>1 DEF AskedOnce
    <3> QED BY Zenon, <1>4, <2>1, <3>2
  <2> QED BY Zenon, <2>2 DEF Pending
<1> QED BY Zenon, <1>6, <1>7 DEF w
=============================================================================
