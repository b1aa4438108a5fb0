------------------------------ MODULE RPCProofs ------------------------------
(***************************************************************************)
(* The RPC behaviour and the handlers of its connections (RPC): timers and *)
(* what they are for agree, the limit on concurrent requests counts the    *)
(* unanswered requests of the present connection, and the application      *)
(* hears nothing of a request after its end, nor more chunks than the      *)
(* request asks for.                                                       *)
(*                                                                         *)
(* Two inductive invariants, each with one lemma per action: RPCInv for    *)
(* the books of the handler and the behaviour, and RequestInv, which       *)
(* builds on it, for the requests to the peer.                             *)
(***************************************************************************)
EXTENDS RPC, RPCHandlerProofs

-----------------------------------------------------------------------------
(* The inductive invariant.                                                *)

Responses == [req : Nat \X Substreams, item : Int]

SwarmEvents ==
  [send : {"Response"}, response : Responses]
    \cup [send : {"Request", "Shutdown"}, request : OutRequests]
    \cup [send : {"CloseConnection"}, request : {0}]

LimiterInv ==
  /\ events \in Seq(SwarmEvents)
  /\ delayed_responses \in [Protocols -> Seq(Responses)]
  /\ next_response \in [Protocols -> Nat]
  /\ \A proto \in Protocols : delayed_responses[proto] # <<>> => next_response[proto] > 0

\* What the behaviour knows of a request of the peer
Active == [kind : Kinds, peer_disconnected : BOOLEAN]

RequestsTyped ==
  /\ active_inbound_requests \in [RequestIds -> Active \cup {None}]
  /\ answers \in [RequestIds -> Int]

\* The application has an answer to give exactly when the behaviour keeps the request, unless it
\* is a goodbye.
Answerable ==
  \A id \in RequestIds :
    answers[id] >= 0 <=> (active_inbound_requests[id] # None /\ active_inbound_requests[id].kind # "goodbye")

\* A request that is kept is of a connection there has been, and it is marked when that is over.
OfConnection ==
  \A id \in RequestIds : active_inbound_requests[id] # None =>
    /\ id[1] \in 0 .. connection
    /\ ~ active_inbound_requests[id].peer_disconnected <=> (id[1] = connection /\ link # "down")
    /\ id[1] = connection /\ link # "down" => id[2] < h.current_inbound_substream_id

\* The requests that wait in the handler are not known to the behaviour.
QueueInv ==
  /\ h.events_out \in Seq(Events)
  /\ h.current_inbound_substream_id \in Nat
  /\ Distinct(h.events_out)
  /\ \A s \in Waiting(h.events_out) :
       /\ s < h.current_inbound_substream_id
       /\ \A id \in RequestIds : id = <<connection, s>> => active_inbound_requests[id] = None

RPCInv ==
  /\ budget \in Budgets
  /\ link \in {"down", "up", "closing"} /\ connection \in Nat
  /\ Books(h)
  /\ LimiterInv
  /\ RequestsTyped /\ Answerable /\ OfConnection
  /\ QueueInv

\* A connection starts with a new handler (RPCHandler::new).
LEMMA NewHandler ==
  /\ Books(new) /\ new.events_out = <<>> /\ new.current_inbound_substream_id = 0
  /\ <<>> \in Seq(Events) /\ Waiting(<<>>) = {} /\ Distinct(<<>>)
<1>1. /\ DOMAIN new = Fields /\ new.dial_queue = <<>>
      /\ new.inbound_substreams = [s \in Substreams |-> None]
      /\ new.inbound_substreams_delay = {}
      /\ new.outbound_substreams = [r \in OutRequests |-> None]
      /\ new.outbound_substreams_delay = {}
      /\ new.events_out = <<>> /\ new.current_inbound_substream_id = 0
  BY Zenon DEF new, Fields
<1>2. InBooks([s \in Substreams |-> None], {}) /\ OutBooks([r \in OutRequests |-> None], {})
  BY Zenon DEF InBooks, OutBooks, InboundInfo, OutboundInfo
<1>3. <<>> \in Seq(OutRequests) /\ <<>> \in Seq(Events)
  OBVIOUS
<1>4. Books(new)
  BY Zenon, <1>1, <1>2, <1>3 DEF Books
<1>5. Waiting(<<>>) = {} /\ Distinct(<<>>)
  BY DEF Waiting, Distinct
<1> QED BY Zenon, <1>1, <1>3, <1>4, <1>5

\* The first state.
LEMMA InitRPC == Init => RPCInv
<1> SUFFICES ASSUME Init PROVE RPCInv
  BY Zenon
<1>1. /\ budget \in Budgets /\ h = new /\ link = "down" /\ connection = 0 /\ events = <<>>
      /\ active_inbound_requests = [id \in RequestIds |-> None]
      /\ delayed_responses = [proto \in Protocols |-> <<>>]
      /\ next_response = [proto \in Protocols |-> 0]
      /\ answers = [id \in RequestIds |-> -1]
  BY Zenon DEF Init, DONE
<1>2. <<>> \in Seq(SwarmEvents) /\ <<>> \in Seq(Responses)
  OBVIOUS
<1>3. LimiterInv
  BY Zenon, <1>1, <1>2 DEF LimiterInv
<1>4. RequestsTyped /\ Answerable /\ OfConnection
  BY <1>1 DEF RequestsTyped, Answerable, OfConnection
<1>5. QueueInv
  BY <1>1, NewHandler DEF QueueInv
<1> QED BY Zenon, <1>1, <1>3, <1>4, <1>5, NewHandler DEF RPCInv

-----------------------------------------------------------------------------
(* The response limiter.                                                   *)

\* A kind of request has a protocol.
LEMMA ProtocolOfKind ==
  ASSUME NEW kind \in Kinds
  PROVE  protocol(kind) \in Protocols
BY DEF protocol, Kinds, Protocols

\* A response is sent or delayed.
LEMMA SendInnerKeeps ==
  ASSUME LimiterInv, NEW proto \in Protocols, NEW response \in Responses,
         send_response_inner(proto, response)
  PROVE  LimiterInv'
<1>1. SendResponse(response) \in SwarmEvents
  BY DEF SendResponse, SwarmEvents
<1>2. CASE /\ delayed_responses[proto] # <<>>
           /\ delayed_responses' = [delayed_responses EXCEPT ![proto] = Append(@, response)]
           /\ UNCHANGED <<next_response, events>>
  BY <1>2 DEF LimiterInv
<1>3. CASE events' = Append(events, SendResponse(response)) /\ UNCHANGED limiterVars
  <2>1. Append(events, SendResponse(response)) \in Seq(SwarmEvents)
    BY <1>1 DEF LimiterInv
  <2> QED BY Zenon, <1>3, <2>1 DEF LimiterInv, limiterVars
<1>4. CASE /\ delayed_responses' = [delayed_responses EXCEPT ![proto] = <<response>>]
           /\ next_response' = [next_response EXCEPT ![proto] = @ + 1]
           /\ UNCHANGED events
  <2>1. <<response>> \in Seq(Responses)
    OBVIOUS
  <2> QED BY <1>4, <2>1 DEF LimiterInv
<1> QED BY Zenon, <1>2, <1>3, <1>4 DEF send_response_inner

\* Delayed responses are sent.
LEMMA PollReadyKeeps ==
  ASSUME LimiterInv, NEW proto \in Protocols, NEW n \in 0 .. Len(delayed_responses[proto]),
         next_response[proto] > 0, poll_ready(proto, n)
  PROVE  LimiterInv'
<1> DEFINE queue == delayed_responses[proto]
           sent == [i \in 1 .. n |-> SendResponse(queue[i])]
           rest == SubSeq(queue, n + 1, Len(queue))
<1>1. queue \in Seq(Responses) /\ Len(queue) \in Nat /\ n \in Nat
  BY DEF LimiterInv
<1>2. /\ delayed_responses' = [delayed_responses EXCEPT ![proto] = rest]
      /\ next_response' = [next_response EXCEPT ![proto] = IF n < Len(queue) THEN @ ELSE @ - 1]
      /\ events' = events \o sent
  BY Zenon DEF poll_ready
<1>3. n \in 0 .. Len(queue)
  BY Zenon
<1> HIDE DEF queue
<1>4. rest \in Seq(Responses) /\ (n = Len(queue) => rest = <<>>)
  BY <1>1, <1>3
<1>5. sent \in Seq(SwarmEvents)
  <2>1. \A i \in 1 .. n : queue[i] \in Responses
    BY <1>1, <1>3
  <2>2. \A i \in 1 .. n : SendResponse(queue[i]) \in SwarmEvents
    BY Zenon, <2>1 DEF SendResponse, SwarmEvents
  <2>3. sent \in [1 .. n -> SwarmEvents]
    BY Zenon, <2>2
  <2> HIDE DEF sent
  <2> QED BY <1>1, <2>3
<1> HIDE DEF sent, rest
<1>6. events' \in Seq(SwarmEvents)
  BY <1>2, <1>5 DEF LimiterInv
<1>7. /\ delayed_responses' \in [Protocols -> Seq(Responses)]
      /\ next_response' \in [Protocols -> Nat]
  BY <1>2, <1>4 DEF LimiterInv
<1>8. ASSUME NEW k \in Protocols, delayed_responses'[k] # <<>> PROVE next_response'[k] > 0
  <2>1. CASE k = proto
    <3>1. rest # <<>>
      BY Zenon, <1>2, <1>8, <2>1 DEF LimiterInv
    <3>2. n < Len(queue)
      BY <1>1, <1>3, <1>4, <3>1
    <3> QED BY Zenon, <1>2, <2>1, <3>2 DEF LimiterInv
  <2>2. CASE k # proto
    BY Zenon, <1>2, <1>8, <2>2 DEF LimiterInv
  <2> QED BY Zenon, <2>1, <2>2
<1> QED BY Zenon, <1>6, <1>7, <1>8 DEF LimiterInv

-----------------------------------------------------------------------------
(* One lemma per action.                                                   *)

\* The behaviour's requests and the application stay as they are, and the connection is as open
\* as before.
Steady ==
  /\ UNCHANGED <<budget, connection, active_inbound_requests, answers>>
  /\ link' \in {"down", "up", "closing"} /\ (link' = "down" <=> link = "down")

\* The handler gets notices for the behaviour.
LEMMA GrowsKeeps ==
  ASSUME RPCInv, Steady, LimiterInv', Grows(h', h)
  PROVE  RPCInv'
<1>1. PICK more \in Seq(Notices) : h'.events_out = h.events_out \o more
  BY Zenon DEF Grows
<1>2. Books(h') /\ h'.current_inbound_substream_id = h.current_inbound_substream_id
  BY Zenon DEF Grows
<1>3. h.events_out \in Seq(Events) /\ Distinct(h.events_out)
  BY Zenon DEF RPCInv, QueueInv
<1>4. /\ h'.events_out \in Seq(Events) /\ Distinct(h'.events_out)
      /\ Waiting(h'.events_out) = Waiting(h.events_out)
  BY <1>1, <1>3, NoticesAdded
<1>5. QueueInv'
  BY Zenon, <1>2, <1>4 DEF RPCInv, QueueInv, Steady
<1>6. RequestsTyped' /\ Answerable'
  BY Zenon DEF RPCInv, RequestsTyped, Answerable, Steady
<1>7. OfConnection'
  BY <1>2 DEF RPCInv, OfConnection, Steady
<1> QED BY Zenon, <1>2, <1>5, <1>6, <1>7 DEF RPCInv, Steady

\* After a poll only notices wait.
LEMMA QuietKeeps ==
  ASSUME RPCInv, Steady, LimiterInv', Quiet(h', h.current_inbound_substream_id)
  PROVE  RPCInv'
<1>1. Books(h') /\ h'.current_inbound_substream_id = h.current_inbound_substream_id
  BY Zenon DEF Quiet
<1>2. /\ h'.events_out \in Seq(Events) /\ Distinct(h'.events_out)
      /\ Waiting(h'.events_out) = {}
  BY NoticesAreNone DEF Quiet
<1>3. QueueInv'
  BY Zenon, <1>1, <1>2 DEF RPCInv, QueueInv
<1>4. RequestsTyped' /\ Answerable'
  BY Zenon DEF RPCInv, RequestsTyped, Answerable, Steady
<1>5. OfConnection'
  BY <1>1 DEF RPCInv, OfConnection, Steady
<1> QED BY <1>1, <1>3, <1>4, <1>5 DEF RPCInv, Steady

\* The behaviour is told of a notice (on_connection_handler_event).
LEMMA NoticeKeeps ==
  ASSUME RPCInv, NEW e \in Notices, on_connection_handler_event(e)
  PROVE  LimiterInv' /\ UNCHANGED <<active_inbound_requests, answers>>
<1>1. e.type # "Request" /\ LimiterInv
  BY Zenon, NoticeIsNone DEF RPCInv
<1>2. CASE UNCHANGED <<behaviourVars, answers>>
  BY <1>1, <1>2 DEF behaviourVars, limiterVars, LimiterInv
<1>3. CASE /\ events' = Append(events, Send("CloseConnection", 0))
           /\ UNCHANGED <<active_inbound_requests, limiterVars, answers, results>>
  <2>1. Send("CloseConnection", 0) \in SwarmEvents
    BY Zenon DEF Send, SwarmEvents
  <2>2. events' \in Seq(SwarmEvents)
    BY <1>1, <1>3, <2>1 DEF LimiterInv
  <2> QED BY Zenon, <1>1, <1>3, <2>2 DEF limiterVars, LimiterInv
<1> QED BY <1>1, <1>2, <1>3 DEF on_connection_handler_event

\* A poll that leaves only notices (PollSubstreams, PollOutboundExpired, PollShutdownTimeout).
LEMMA ReturnedKeeps ==
  ASSUME RPCInv, NEW p, QuietReturn(p, h.current_inbound_substream_id), Returned(p), UNCHANGED budget
  PROVE  RPCInv'
<1>1. h' = p.h /\ UNCHANGED <<link, connection>>
  BY Zenon DEF Returned
<1>2. LimiterInv' /\ UNCHANGED <<active_inbound_requests, answers>>
  <2>1. CASE p.event # None /\ on_connection_handler_event(p.event)
    <3>1. p.event \in Notices
      BY Zenon, <2>1 DEF QuietReturn
    <3> QED BY Zenon, <2>1, <3>1, NoticeKeeps
  <2>2. CASE UNCHANGED <<behaviourVars, answers, results>>
    BY Zenon, <2>2 DEF behaviourVars, limiterVars, LimiterInv, RPCInv
  <2> QED BY Zenon, <2>1, <2>2 DEF Returned
<1>3. Steady
  BY Zenon, <1>1, <1>2 DEF Steady, RPCInv
<1>4. Quiet(h', h.current_inbound_substream_id)
  BY Zenon, <1>1 DEF QuietReturn
<1> QED BY Zenon, <1>2, <1>3, <1>4, QuietKeeps

\* A handler without events is quiet.
LEMMA CanPollQuiet ==
  ASSUME RPCInv, CanPoll
  PROVE  Quiet(h, h.current_inbound_substream_id)
<1>1. <<>> \in Seq(Notices)
  OBVIOUS
<1> QED BY Zenon, <1>1 DEF RPCInv, CanPoll, Quiet

\* The shutdown timer runs out.
LEMMA ShutdownTimeoutKeeps == RPCInv /\ PollShutdownTimeout /\ UNCHANGED budget => RPCInv'
BY Zenon, CanPollQuiet, DeactivateQuiet, ReturnedKeeps DEF PollShutdownTimeout

\* The timer of an outbound substream runs out.
LEMMA OutboundExpiredKeeps ==
  ASSUME RPCInv, NEW r \in OutRequests, PollOutboundExpired(r), UNCHANGED budget
  PROVE  RPCInv'
<1>1. CanPoll
  BY Zenon DEF PollOutboundExpired
<1>2. PICK X \in SUBSET h.inbound_substreams_delay :
        \E expired \in Orders(X) : Returned(PollOutboundTimeout(h, expired, r))
  BY Zenon DEF PollOutboundExpired
<1>3. PICK expired \in Orders(X) : Returned(PollOutboundTimeout(h, expired, r))
  BY <1>2
<1>4. X \subseteq Substreams
  BY Zenon DEF RPCInv, Books, InBooks
<1>5. Len(expired) \in Nat /\ \A i \in 1 .. Len(expired) : expired[i] \in Substreams
  BY Zenon, <1>4, FiniteSubstreams, OrderElements
<1>6. QuietReturn(PollOutboundTimeout(h, expired, r), h.current_inbound_substream_id)
  BY Zenon, <1>1, <1>5, PollTimeoutQuiet DEF CanPoll, RPCInv
<1> QED BY Zenon, <1>3, <1>6, ReturnedKeeps

\* The substreams are driven.
LEMMA SubstreamsKeep ==
  ASSUME RPCInv, PollSubstreams, UNCHANGED budget
  PROVE  RPCInv'
<1>1. CanPoll
  BY Zenon DEF PollSubstreams
<1>2. PICK X \in SUBSET h.inbound_substreams_delay :
      \E expired \in Orders(X), ins \in Orders(Inbound(h)), outs \in Orders(Outbound(h)) :
      \E inIo, outIo : Returned(PollStreams(h, expired, ins, inIo, outs, outIo))
  BY Zenon DEF PollSubstreams
<1>3. PICK expired \in Orders(X), ins \in Orders(Inbound(h)), outs \in Orders(Outbound(h)) :
        \E inIo, outIo : Returned(PollStreams(h, expired, ins, inIo, outs, outIo))
  BY Zenon, <1>2
<1>4. PICK inIo, outIo : Returned(PollStreams(h, expired, ins, inIo, outs, outIo))
  BY Zenon, <1>3
<1>5. X \subseteq Substreams
  BY DEF RPCInv, Books, InBooks
<1>6. Len(expired) \in Nat /\ \A i \in 1 .. Len(expired) : expired[i] \in Substreams
  BY <1>5, FiniteSubstreams, OrderElements
<1>7. Len(ins) \in Nat /\ \A i \in 1 .. Len(ins) : ins[i] \in Substreams
  BY Zenon, FiniteSubstreams, OrderElements
<1>8. Len(outs) \in Nat /\ \A i \in 1 .. Len(outs) : outs[i] \in OutRequests
  BY FiniteSubstreams, OrderElements
<1>9. QuietReturn(PollStreams(h, expired, ins, inIo, outs, outIo), h.current_inbound_substream_id)
  BY Zenon, <1>1, <1>6, <1>7, <1>8, PollStreamsQuiet DEF CanPoll, RPCInv
<1> QED BY Zenon, <1>4, <1>9, ReturnedKeeps

\* The keys of the behaviour's requests are pairs.
LEMMA PairIds == \A id \in RequestIds : id[2] \in Substreams /\ id = <<id[1], id[2]>>
BY DEF RequestIds

\* The behaviour takes a request from the handler (OnRequest).
LEMMA OnRequestKeeps ==
  ASSUME RPCInv, link # "down", NEW s \in Substreams, NEW kind \in Kinds,
         s \in Waiting(h.events_out),
         OnRequest(<<connection, s>>, kind), UNCHANGED <<budget, link, connection>>,
         Books(h'), h'.current_inbound_substream_id = h.current_inbound_substream_id,
         h'.events_out \in Seq(Events), Distinct(h'.events_out),
         Waiting(h'.events_out) \subseteq Waiting(h.events_out) \ {s}
  PROVE  RPCInv'
<1> DEFINE id == <<connection, s>>
           c == h.current_inbound_substream_id
<1>1. /\ connection \in Nat /\ c \in Nat /\ s < c
      /\ LimiterInv /\ RequestsTyped /\ Answerable /\ OfConnection
  BY Zenon DEF RPCInv, QueueInv
<1>2. /\ id \in RequestIds => active_inbound_requests[id] = None
      /\ \A t \in Waiting(h'.events_out) : \A i \in RequestIds :
           i = <<connection, t>> => active_inbound_requests[i] = None
      /\ \A t \in Waiting(h'.events_out) : t < c
  BY Zenon DEF RPCInv, QueueInv
<1>3. \A item \in Int : Response(id, item) \in Responses
  BY Zenon, <1>1 DEF Response, Responses
<1>0. protocol(kind) \in Protocols
  BY ProtocolOfKind
<1>4. CASE /\ send_response_inner(protocol(kind), Response(id, ERROR))
           /\ UNCHANGED <<active_inbound_requests, answers>>
  <2>1. LimiterInv'
    BY <1>0, <1>1, <1>3, <1>4, SendInnerKeeps DEF ERROR
  <2>2. RequestsTyped' /\ Answerable'
    BY Zenon, <1>1, <1>4 DEF RequestsTyped, Answerable
  <2>3. OfConnection'
    BY Zenon, <1>1, <1>4 DEF OfConnection
  <2>4. QueueInv'
    BY <1>1, <1>2, <1>4 DEF QueueInv
  <2> QED BY <2>1, <2>2, <2>3, <2>4 DEF RPCInv
<1>5. CASE /\ send_response_inner(protocol(kind), Response(id, 1))
           /\ answers' = [answers EXCEPT ![id] = DONE]
           /\ UNCHANGED active_inbound_requests
  <2>1. LimiterInv'
    BY <1>0, <1>1, <1>3, <1>5, SendInnerKeeps
  <2> HIDE DEF id
  <2>2. RequestsTyped'
    BY <1>1, <1>5, ExceptTyped DEF RequestsTyped, DONE
  <2> USE DEF id
  <2>3. Answerable'
    BY <1>1, <1>2, <1>5 DEF RequestsTyped, Answerable, DONE
  <2>4. OfConnection'
    BY Zenon, <1>1, <1>5 DEF OfConnection
  <2>5. QueueInv'
    BY Zenon, <1>1, <1>2, <1>5 DEF QueueInv
  <2> QED BY Zenon, <2>1, <2>2, <2>3, <2>4, <2>5 DEF RPCInv
<1>6. CASE /\ active_inbound_requests' =
                [active_inbound_requests EXCEPT ![id] = [kind |-> kind, peer_disconnected |-> FALSE]]
           /\ answers' = [answers EXCEPT ![id] = IF kind = "goodbye" THEN DONE ELSE 0]
           /\ UNCHANGED <<limiterVars, events>>
  <2> DEFINE info == [kind |-> kind, peer_disconnected |-> FALSE]
  <2>1. info \in Active /\ info # None /\ info.kind = kind /\ info.peer_disconnected = FALSE
    BY Zenon DEF Active, None
  <2> HIDE DEF info
  <2>2. active_inbound_requests' = [active_inbound_requests EXCEPT ![id] = info]
    BY Zenon, <1>6 DEF info
  <2>3. LimiterInv'
    BY Zenon, <1>1, <1>6 DEF LimiterInv, limiterVars
  <2> DEFINE first == IF kind = "goodbye" THEN -1 ELSE 0
  <2>4. first \in Int
    OBVIOUS
  <2> HIDE DEF first, id
  <2>11. RequestsTyped'
    <3>1. answers' = [answers EXCEPT ![id] = first]
      BY Zenon, <1>6 DEF first, DONE
    <3>2. [answers EXCEPT ![id] = first] \in [RequestIds -> Int]
      BY Zenon, <1>1, <2>4, ExceptTyped DEF RequestsTyped
    <3>3. [active_inbound_requests EXCEPT ![id] = info] \in [RequestIds -> Active \cup {None}]
      BY <1>1, <2>1, ExceptTyped DEF RequestsTyped
    <3> QED BY Zenon, <2>2, <3>1, <3>2, <3>3 DEF RequestsTyped
  <2> USE DEF id
  <2>5. /\ \A i \in RequestIds : i # id => /\ active_inbound_requests'[i] = active_inbound_requests[i]
                                           /\ answers'[i] = answers[i]
        /\ id \in RequestIds => /\ active_inbound_requests'[id] = info
                                /\ answers'[id] = IF kind = "goodbye" THEN -1 ELSE 0
    BY Zenon, <1>1, <1>6, <2>2 DEF RequestsTyped, DONE
  <2>6. Answerable'
    BY <1>1, <2>1, <2>5 DEF Answerable
  <2>7. id[1] = connection /\ id[2] = s
    BY Zenon
  <2> HIDE DEF id
  <2>8. OfConnection'
    BY <1>1, <2>1, <2>5, <2>7 DEF OfConnection
  <2>9. \A t \in Waiting(h'.events_out) : <<connection, t>> # id
    BY Zenon DEF id
  <2>10. QueueInv'
    BY Zenon, <1>1, <1>2, <2>5, <2>9 DEF QueueInv
  <2> QED BY Zenon, <2>3, <2>11, <2>6, <2>8, <2>10 DEF RPCInv
<1> QED BY <1>4, <1>5, <1>6, Zenon DEF OnRequest

\* The behaviour takes what waits in the handler.
LEMMA EventsOutKeep ==
  ASSUME RPCInv, PollEventsOut, UNCHANGED budget
  PROVE  RPCInv'
<1> DEFINE e == Head(h.events_out)
           k == [h EXCEPT !.events_out = Tail(@)]
<1>1. /\ h.events_out \in Seq(Events) /\ h.events_out # <<>> /\ Distinct(h.events_out)
      /\ link = "up" /\ Books(h)
  BY DEF PollEventsOut, RPCInv, QueueInv
<1>2. /\ e \in Events /\ Tail(h.events_out) \in Seq(Events)
      /\ Waiting(Tail(h.events_out)) \subseteq Waiting(h.events_out)
      /\ Distinct(Tail(h.events_out))
      /\ e.type = "Request" => e.of \in Waiting(h.events_out) \ Waiting(Tail(h.events_out))
  BY Zenon, <1>1, EventTaken
<1>3. /\ Books(k) /\ k.events_out = Tail(h.events_out)
      /\ k.current_inbound_substream_id = h.current_inbound_substream_id
  BY Zenon, <1>1 DEF Books, InBooks, OutBooks, Inbound, Outbound, Fields
<1> HIDE DEF k
<1>4. h' = k /\ UNCHANGED <<link, connection>> /\ on_connection_handler_event(e)
  <2>1. e # None
    BY Zenon, <1>2 DEF Events, Notices, PeerRequests, None
  <2>2. Returned(Return(k, e))
    BY Zenon DEF PollEventsOut, k
  <2> QED BY <2>1, <2>2 DEF Returned, Return
<1>5. CASE e \in PeerRequests
  <2>1. e.type = "Request" /\ e.of \in Substreams /\ e.kind \in Kinds
    BY Zenon, <1>5 DEF PeerRequests
  <2>2. OnRequest(<<connection, e.of>>, e.kind)
    BY Zenon, <1>4, <2>1 DEF on_connection_handler_event, ForApplication
  <2> QED BY <1>1, <1>2, <1>3, <1>4, <2>1, <2>2, OnRequestKeeps
<1>6. CASE e \in Notices
  <2>1. LimiterInv' /\ UNCHANGED <<active_inbound_requests, answers>>
    BY <1>4, <1>6, NoticeKeeps
  <2>2. RequestsTyped' /\ Answerable' /\ OfConnection'
    BY Zenon, <1>3, <1>4, <2>1 DEF RPCInv, RequestsTyped, Answerable, OfConnection
  <2>3. QueueInv'
    BY Zenon, <1>2, <1>3, <1>4, <2>1 DEF RPCInv, QueueInv
  <2> QED BY Zenon, <1>1, <1>3, <1>4, <2>1, <2>2, <2>3 DEF RPCInv
<1> QED BY Zenon, <1>2, <1>5, <1>6 DEF Events

\* The swarm passes an event of the behaviour to the handler.
LEMMA EventsKeep ==
  ASSUME RPCInv, PollEvents, UNCHANGED budget
  PROVE  RPCInv'
<1> DEFINE e == Head(events)
<1>1. /\ events \in Seq(SwarmEvents) /\ events # <<>> /\ events' = Tail(events)
      /\ UNCHANGED <<budget, connection, active_inbound_requests, limiterVars, answers>>
      /\ link \in {"down", "up", "closing"}
      /\ h.events_out \in Seq(Events) /\ Books(h)
  BY Zenon DEF PollEvents, RPCInv, LimiterInv, QueueInv
<1>2. e \in SwarmEvents /\ Tail(events) \in Seq(SwarmEvents)
  BY <1>1
<1>3. LimiterInv'
  BY <1>1, <1>2 DEF RPCInv, LimiterInv, limiterVars
<1>4. CASE link' = (IF link = "up" THEN "closing" ELSE link) /\ UNCHANGED h
  <2>1. Steady
    BY <1>1, <1>4 DEF Steady
  <2>2. Grows(h', h)
    BY <1>1, <1>4, SameGrows
  <2> QED BY Zenon, <1>3, <2>1, <2>2, GrowsKeeps
<1>5. CASE UNCHANGED <<h, link>>
  <2>1. Steady
    BY <1>1, <1>5 DEF Steady
  <2>2. Grows(h', h)
    BY <1>1, <1>5, SameGrows
  <2> QED BY Zenon, <1>3, <2>1, <2>2, GrowsKeeps
<1>6. CASE /\ e.send # "CloseConnection"
           /\ h' = CASE e.send = "Response" -> send_response(h, e.response.req[2], e.response)
                     [] e.send = "Request" -> send_request(h, e.request)
                     [] e.send = "Shutdown" -> shutdown(h, <<e.request>>)
           /\ UNCHANGED link
  <2>1. Steady
    BY <1>1, <1>6 DEF Steady
  <2>2. Grows(h', h)
    <3>1. CASE e.send = "Response"
      BY Zenon, <1>1, <1>6, <3>1, SendResponseGrows
    <3>2. CASE e.send = "Request" /\ e.request \in OutRequests
      BY <1>1, <1>6, <3>2, SendRequestGrows
    <3>3. CASE e.send = "Shutdown" /\ e.request \in OutRequests
      <4>1. <<e.request>> \in Seq(OutRequests)
        BY <3>3
      <4>2. h' = shutdown(h, <<e.request>>)
        BY <1>6, <3>3
      <4> QED BY Zenon, <1>1, <4>1, <4>2, ShutdownGrows
    <3> QED BY <1>2, <1>6, <3>1, <3>2, <3>3 DEF SwarmEvents
  <2> QED BY Zenon, <1>3, <2>1, <2>2, GrowsKeeps
<1> QED BY <1>4, <1>5, <1>6 DEF PollEvents

\* The application sends a request.
LEMMA RequestKeeps ==
  ASSUME RPCInv, NEW r \in OutRequests, Request(r), UNCHANGED budget
  PROVE  RPCInv'
<1>1. /\ UNCHANGED <<budget, h, link, connection, active_inbound_requests, limiterVars, answers>>
      /\ events' = Append(events, Send(IF KindOf[r] = "goodbye" THEN "Shutdown" ELSE "Request", r))
      /\ h.events_out \in Seq(Events) /\ Books(h) /\ events \in Seq(SwarmEvents)
      /\ link \in {"down", "up", "closing"}
  BY Zenon DEF Request, RPCInv, LimiterInv, QueueInv
<1>2. Send(IF KindOf[r] = "goodbye" THEN "Shutdown" ELSE "Request", r) \in SwarmEvents
  BY Zenon DEF Send, SwarmEvents
<1>3. events' \in Seq(SwarmEvents)
  BY <1>1, <1>2
<1>4. LimiterInv'
  BY Zenon, <1>1, <1>3 DEF RPCInv, LimiterInv, limiterVars
<1>5. Steady /\ Grows(h', h)
  BY Zenon, <1>1, SameGrows DEF Steady
<1> QED BY Zenon, <1>4, <1>5, GrowsKeeps

\* A substream of ours has been negotiated, or has not.
LEMMA NegotiatedKeeps ==
  ASSUME RPCInv, NEW r \in OutRequests, Negotiated(r), UNCHANGED budget
  PROVE  RPCInv'
<1>1. /\ UNCHANGED <<budget, link, connection, behaviourVars, answers>>
      /\ h.events_out \in Seq(Events) /\ Books(h)
      /\ link \in {"down", "up", "closing"}
  BY DEF Negotiated, RPCInv, QueueInv
<1>2. LimiterInv' /\ Steady
  BY <1>1 DEF RPCInv, LimiterInv, limiterVars, behaviourVars, Steady
<1>3. Grows(h', h)
  BY Zenon, <1>1, NegotiatedGrows, UpgradeErrorGrows DEF Negotiated
<1> QED BY Zenon, <1>2, <1>3, GrowsKeeps

\* The limiter lets delayed responses pass.
LEMMA LimiterKeeps ==
  ASSUME RPCInv, NEW proto \in Protocols, PollLimiter(proto), UNCHANGED budget
  PROVE  RPCInv'
<1>1. LimiterInv'
  BY Zenon, PollReadyKeeps DEF PollLimiter, RPCInv
<1>2. Steady /\ UNCHANGED h
  BY Zenon DEF PollLimiter, RPCInv, Steady
<1>3. Grows(h', h)
  BY <1>2, SameGrows DEF RPCInv, QueueInv
<1> QED BY <1>1, <1>2, <1>3, GrowsKeeps

\* The application answers a request.
LEMMA RespondKeeps ==
  ASSUME RPCInv, NEW id \in RequestIds, Respond(id), UNCHANGED budget
  PROVE  RPCInv'
<1> DEFINE request == active_inbound_requests[id]
<1>1. /\ UNCHANGED <<budget, h, link, connection>>
      /\ answers[id] >= 0 /\ answers[id] \in Int
      /\ LimiterInv /\ RequestsTyped /\ Answerable /\ OfConnection /\ QueueInv
  BY DEF Respond, RPCInv, RequestsTyped
<1>2. request \in Active /\ request # None /\ request.kind \in Kinds /\ request.kind # "goodbye"
  BY Zenon, <1>1 DEF RequestsTyped, Answerable, Active
<1>3. PICK item \in Items(id) :
        /\ send_response_active(id, item)
        /\ answers' = [answers EXCEPT ![id] = IF StaysActive(request.kind, item) THEN item ELSE DONE]
  BY Zenon DEF Respond
<1>4. item \in Int /\ (item \in {ERROR, END} \/ item = answers[id] + 1)
  BY <1>1 DEF Items, ERROR, END
<1>5. LimiterInv'
  <2>1. Response(id, item) \in Responses
    <3>1. id \in Nat \X Substreams
      BY <1>1, <1>2, PairIds DEF OfConnection, RPCInv
    <3> QED BY Zenon, <1>4, <3>1 DEF Response, Responses
  <2>2. CASE UNCHANGED <<limiterVars, events>>
    BY Zenon, <1>1, <2>2 DEF LimiterInv, limiterVars
  <2>3. CASE send_response_inner(protocol(request.kind), Response(id, item))
    BY Zenon, <1>1, <1>2, <2>1, <2>3, SendInnerKeeps, ProtocolOfKind
  <2> QED BY <1>3, <2>2, <2>3 DEF send_response_active
<1> DEFINE left == IF StaysActive(request.kind, item) THEN request ELSE None
           next == IF StaysActive(request.kind, item) THEN item ELSE -1
<1>6. /\ active_inbound_requests' = [active_inbound_requests EXCEPT ![id] = left]
      /\ answers' = [answers EXCEPT ![id] = next]
  BY <1>3 DEF send_response_active, DONE
<1>7. /\ left \in {request, None} /\ next \in Int
      /\ next >= 0 <=> left # None
  BY <1>1, <1>2, <1>4 DEF StaysActive, close_after
<1> HIDE DEF left, next, request
<1>8. /\ \A i \in RequestIds : i # id => /\ active_inbound_requests'[i] = active_inbound_requests[i]
                                         /\ answers'[i] = answers[i]
      /\ active_inbound_requests'[id] = left /\ answers'[id] = next
  BY Zenon, <1>1, <1>6 DEF RequestsTyped
<1>9. RequestsTyped'
  BY <1>1, <1>2, <1>6, <1>7, ExceptTyped DEF RequestsTyped
<1>10. Answerable'
  BY Zenon, <1>1, <1>2, <1>7, <1>8 DEF Answerable
<1>11. OfConnection'
  BY <1>1, <1>7, <1>8 DEF OfConnection, request
<1>12. QueueInv'
  BY Zenon, <1>1, <1>2, <1>7, <1>8 DEF QueueInv, request
<1> QED BY <1>1, <1>5, <1>9, <1>10, <1>11, <1>12 DEF RPCInv

\* The handler has read a request of the peer.
LEMMA PeerRequestKeeps ==
  ASSUME RPCInv, NEW kind \in Kinds, NEW oversized \in BOOLEAN, PeerRequest(kind, oversized),
         UNCHANGED budget
  PROVE  RPCInv'
<1> DEFINE c == h.current_inbound_substream_id
           q == h.events_out
<1>1. /\ UNCHANGED <<budget, link, connection, behaviourVars, answers>>
      /\ link = "up" /\ connection \in Nat /\ c \in Nat /\ Books(h)
      /\ q \in Seq(Events) /\ Distinct(q)
      /\ LimiterInv /\ RequestsTyped /\ Answerable /\ OfConnection /\ QueueInv
  BY Zenon DEF PeerRequest, RPCInv, QueueInv
<1>2. LimiterInv' /\ Steady
  BY Zenon, <1>1 DEF LimiterInv, limiterVars, behaviourVars, Steady
<1>3. c < budget.substreams => c \in Substreams
  <2>1. budget.substreams \in 0 .. MaxSubstreams /\ MaxSubstreams \in Nat
    BY RPCAssumption, HandlerAssumption DEF RPCInv
  <2> QED BY <1>1, <2>1 DEF Substreams
<1>4. \/ Grows(h', h)
      \/ c \in Substreams /\ Accepts(h', h, kind)
  BY Zenon, <1>1, <1>3, InboundNegotiated DEF PeerRequest
<1>5. CASE Grows(h', h)
  BY <1>2, <1>5, GrowsKeeps
<1>6. CASE c \in Substreams /\ Accepts(h', h, kind)
  <2>1. PICK more \in Seq(Notices) : h'.events_out = Append(q \o more, NewRequest(h, kind))
    BY <1>6 DEF Accepts
  <2>2. /\ q \o more \in Seq(Events) /\ Waiting(q \o more) = Waiting(q)
        /\ Distinct(q \o more)
    BY Zenon, <1>1, NoticesAdded
  <2>3. NewRequest(h, kind) \in PeerRequests /\ NewRequest(h, kind).of = c
    BY Zenon, <1>6 DEF NewRequest, PeerRequests
  <2>4. \A s \in Waiting(q) : /\ s < c
                              /\ \A id \in RequestIds : id = <<connection, s>> =>
                                   active_inbound_requests[id] = None
    BY <1>1 DEF QueueInv
  <2>5. c \notin Waiting(q)
    BY <1>1, <2>4
  <2>6. /\ h'.events_out \in Seq(Events) /\ Distinct(h'.events_out)
        /\ Waiting(h'.events_out) \subseteq Waiting(q) \cup {c}
    BY <2>1, <2>2, <2>3, <2>5, RequestAdded
  <2>7. Books(h') /\ h'.current_inbound_substream_id = c + 1
    BY Zenon, <1>6 DEF Accepts
  <2>8. RequestsTyped' /\ Answerable' /\ UNCHANGED active_inbound_requests
    BY Zenon, <1>1 DEF RequestsTyped, Answerable, behaviourVars
  <2>9. OfConnection'
    <3>1. \A id \in RequestIds : id[2] \in Int
      BY PairIds DEF Substreams
    <3> QED BY <1>1, <2>7, <2>8, <3>1 DEF OfConnection
  <2>10. \A id \in RequestIds : id = <<connection, c>> => active_inbound_requests[id] = None
    BY <1>1 DEF OfConnection
  <2>11. \A s \in Waiting(q) : s \in Int
    BY <1>1 DEF Waiting, Events, PeerRequests, Notices, Substreams
  <2>12. QueueInv'
    BY <1>1, <2>4, <2>6, <2>7, <2>8, <2>10, <2>11 DEF QueueInv
  <2> QED BY Zenon, <1>1, <1>2, <2>7, <2>8, <2>9, <2>12 DEF RPCInv
<1> QED BY Zenon, <1>4, <1>5, <1>6

\* The peer connects.
LEMMA EstablishedKeeps ==
  ASSUME RPCInv, ConnectionEstablished, UNCHANGED budget
  PROVE  RPCInv'
<1>1. /\ link = "down" /\ link' = "up" /\ connection \in Nat /\ connection' = connection + 1
      /\ h' = new /\ UNCHANGED <<budget, behaviourVars, answers>>
      /\ LimiterInv /\ RequestsTyped /\ Answerable /\ OfConnection
  BY Zenon DEF ConnectionEstablished, RPCInv
<1>2. LimiterInv' /\ RequestsTyped' /\ Answerable' /\ UNCHANGED active_inbound_requests
  BY Zenon, <1>1 DEF LimiterInv, RequestsTyped, Answerable, limiterVars, behaviourVars
<1>3. OfConnection'
  BY <1>1, <1>2 DEF OfConnection
<1>4. QueueInv' /\ Books(h')
  BY <1>1, NewHandler DEF QueueInv
<1> QED BY <1>1, <1>2, <1>3, <1>4 DEF RPCInv

\* The connection is closed.
LEMMA ClosedKeeps ==
  ASSUME RPCInv, ConnectionClosed, UNCHANGED budget
  PROVE  RPCInv'
<1>1. /\ link # "down" /\ link' = "down" /\ connection \in Nat /\ h' = new
      /\ active_inbound_requests' = MarkDisconnected
      /\ UNCHANGED <<budget, connection, next_response, answers>>
      /\ delayed_responses' = peer_disconnected
      /\ events' = Without(events, {e \in Range(events) : e.send = "Request"})
      /\ LimiterInv /\ RequestsTyped /\ Answerable /\ OfConnection
  BY Zenon DEF ConnectionClosed, RPCInv
<1>2. LimiterInv'
  <2>1. events' \in Seq(SwarmEvents)
    BY Zenon, <1>1, WithoutEmbeds DEF LimiterInv
  <2>2. <<>> \in Seq(Responses)
    OBVIOUS
  <2> QED BY <1>1, <2>1, <2>2 DEF LimiterInv, peer_disconnected
<1>3. \A id \in RequestIds :
        \/ active_inbound_requests[id] = None /\ active_inbound_requests'[id] = None
        \/ /\ active_inbound_requests[id] # None /\ active_inbound_requests'[id] \in Active
           /\ active_inbound_requests'[id].kind = active_inbound_requests[id].kind
           /\ active_inbound_requests'[id].peer_disconnected
  BY Zenon, <1>1 DEF MarkDisconnected, RequestsTyped, Active
<1>4. \A request \in Active : request # None
  BY DEF Active, None
<1>5. RequestsTyped'
  <2>1. active_inbound_requests' = [id \in RequestIds |-> active_inbound_requests'[id]]
    BY Zenon, <1>1 DEF MarkDisconnected
  <2> QED BY Zenon, <1>1, <1>3, <2>1 DEF RequestsTyped
<1>6. Answerable'
  BY <1>1, <1>3, <1>4 DEF Answerable
<1>7. OfConnection'
  BY Zenon, <1>1, <1>3, <1>4 DEF OfConnection
<1>8. QueueInv' /\ Books(h')
  BY <1>1, NewHandler DEF QueueInv
<1> QED BY Zenon, <1>1, <1>2, <1>5, <1>6, <1>7, <1>8 DEF RPCInv

-----------------------------------------------------------------------------
(* Every step keeps the invariant *)

LEMMA NextKeeps == RPCInv /\ [Next]_vars => RPCInv'
<1> SUFFICES ASSUME RPCInv, [Next]_vars PROVE RPCInv'
  BY Zenon
<1>1. CASE UNCHANGED vars
  BY <1>1 DEF RPCInv, LimiterInv, RequestsTyped, Answerable, OfConnection, QueueInv,
              vars, stateVars, behaviourVars, limiterVars
<1>2. CASE Next
  <2>1. UNCHANGED budget
    BY <1>2 DEF Next
  <2>2. budget.kinds \subseteq Kinds
    BY RPCAssumption DEF RPCInv
  <2>3. CASE PollEventsOut \/ PollShutdownTimeout \/ PollSubstreams \/ PollEvents
    BY Zenon, <2>1, <2>3, EventsOutKeep, ShutdownTimeoutKeeps, SubstreamsKeep, EventsKeep
  <2>4. CASE \E r \in OutRequests : PollOutboundExpired(r) \/ Request(r) \/ Negotiated(r)
    BY <2>1, <2>4, OutboundExpiredKeeps, RequestKeeps, NegotiatedKeeps
  <2>5. CASE \E id \in RequestIds : Respond(id)
    BY Zenon, <2>1, <2>5, RespondKeeps
  <2>6. CASE \/ \E proto \in Protocols : PollLimiter(proto)
             \/ \E kind \in budget.kinds, oversized \in BOOLEAN : PeerRequest(kind, oversized)
    BY Zenon, <2>1, <2>2, <2>6, LimiterKeeps, PeerRequestKeeps
  <2>7. CASE ConnectionEstablished \/ ConnectionClosed
    BY <2>1, <2>7, EstablishedKeeps, ClosedKeeps
  <2> QED BY <1>2, <2>3, <2>4, <2>5, <2>6, <2>7 DEF Next
<1> QED BY Zenon, <1>1, <1>2

-----------------------------------------------------------------------------
(* A request is with the behaviour or with the handler, and the            *)
(* application has heard nothing of one that is still with the behaviour.  *)

RequestInv ==
  /\ results \in Results
  /\ Good(h, results)
  /\ AskedOnce(events)
  /\ Pending(events) \cap Known(h) = {}
  /\ \A r \in Pending(events) : Untold(results[r])
  /\ \A r \in OutRequests :
       ~ results[r].sent => Untold(results[r]) /\ r \notin Pending(events) \cup Known(h)

\* What the application may be told of in a step
Allowed ==
  \A r \in OutRequests : results'[r].chunks # results[r].chunks =>
    results[r].ends = 0 /\ results'[r].chunks <= max_responses(KindOf[r])

\* The queue holds requests of ours.
LEMMA PendingTyped == LimiterInv => Pending(events) \subseteq OutRequests
<1> SUFFICES ASSUME LimiterInv, NEW i \in DOMAIN events, Asking(events[i])
             PROVE  events[i].request \in OutRequests
  BY Zenon DEF Pending, Asked
<1>1. events[i] \in SwarmEvents
  BY DEF LimiterInv
<1>2. events[i].send = "Request" \/ events[i].send = "Shutdown"
  BY Zenon DEF Asking
<1> QED BY <1>1, <1>2 DEF SwarmEvents

\* A step in which no request is new.  The requests of moved leave the behaviour; only of them,
\* and of what the handler knows, may the application be told.
LEMMA RequestKept ==
  ASSUME RPCInv, RequestInv, NEW moved, moved \subseteq Pending(events),
         results' \in Results, Good(h', results'), AskedOnce(events'),
         Pending(events') \subseteq Pending(events) \ moved, Known(h') \subseteq Known(h) \cup moved,
         \A r \in OutRequests : \/ results'[r] = results[r]
                                \/ results'[r].sent = results[r].sent /\ r \in Known(h) \cup moved
  PROVE  RequestInv'
<1>1. Pending(events) \subseteq OutRequests
  BY Zenon, PendingTyped DEF RPCInv
<1>2. Pending(events') \cap Known(h') = {}
  BY Zenon DEF RequestInv
<1>3. ASSUME NEW r \in Pending(events') PROVE Untold(results'[r])
  <2>1. r \in OutRequests /\ r \in Pending(events) /\ r \notin Known(h) /\ r \notin moved
    BY Zenon, <1>1 DEF RequestInv
  <2>2. results'[r] = results[r] /\ Untold(results[r])
    BY Zenon, <2>1 DEF RequestInv
  <2> QED BY Zenon, <2>2
<1>4. ASSUME NEW r \in OutRequests, ~ results'[r].sent
      PROVE  Untold(results'[r]) /\ r \notin Pending(events') \cup Known(h')
  <2>1. ~ results[r].sent
    BY Zenon, <1>4
  <2>2. Untold(results[r]) /\ r \notin Pending(events) \cup Known(h)
    BY Zenon, <2>1 DEF RequestInv
  <2>3. results'[r] = results[r]
    BY Zenon, <2>2
  <2> QED BY Zenon, <2>2, <2>3
<1> QED BY Zenon, <1>2, <1>3, <1>4 DEF RequestInv

\* A step in which nothing is told, and no request leaves the behaviour.
LEMMA NothingTold ==
  ASSUME RPCInv, RequestInv, UNCHANGED results, Good(h', results), Known(h') \subseteq Known(h),
         AskedOnce(events'), Pending(events') \subseteq Pending(events)
  PROVE  RequestInv' /\ Allowed
<1>1. /\ results' \in Results /\ Good(h', results')
      /\ {} \subseteq Pending(events) /\ Pending(events') \subseteq Pending(events) \ {}
      /\ Known(h') \subseteq Known(h) \cup {}
      /\ \A r \in OutRequests : results'[r] = results[r]
  BY Zenon DEF RequestInv
<1>2. RequestInv'
  BY Zenon, <1>1, RequestKept
<1> QED BY Zenon, <1>1, <1>2 DEF Allowed

\* A response joins the queue, or waits in the limiter (send_response_inner).
LEMMA InnerAsks ==
  ASSUME RPCInv, RequestInv, NEW kind, NEW response, send_response_inner(kind, response)
  PROVE  AskedOnce(events') /\ Pending(events') \subseteq Pending(events)
<1>1. AskedOnce(events) /\ events \in Seq(SwarmEvents)
  BY Zenon DEF RequestInv, RPCInv, LimiterInv
<1>2. CASE UNCHANGED events
  BY Zenon, <1>1, <1>2
<1>3. CASE events' = Append(events, SendResponse(response))
  <2>1. ~ Asking(SendResponse(response))
    BY Zenon DEF Asking, SendResponse
  <2>2. /\ AskedOnce(Append(events, SendResponse(response)))
        /\ Pending(Append(events, SendResponse(response))) \subseteq Pending(events)
    BY Zenon, <1>1, <2>1, OtherAdded
  <2> QED BY Zenon, <1>3, <2>2
<1> QED BY Zenon, <1>2, <1>3 DEF send_response_inner

\* The behaviour learns what a poll of the handler returned.
LEMMA ReturnedTells ==
  ASSUME RPCInv, RequestInv, NEW p, Tells(p, h, results), Returned(p)
  PROVE  RequestInv' /\ Allowed
<1> DEFINE e == p.event
<1>1. h' = p.h /\ Known(h') \subseteq Known(h) /\ results \in Results
  BY Zenon DEF Returned, Tells, RequestInv
<1>2. AskedOnce(events) /\ events \in Seq(SwarmEvents)
  BY Zenon DEF RequestInv, RPCInv, LimiterInv
<1>3. CASE e # None /\ e.type \in ForApplication /\ Told(e.type, e.of) /\ UNCHANGED <<behaviourVars, answers>>
  <2> DEFINE after == After(results, e.type, e.of)
  <2>1. results' = after
    BY Zenon, <1>3 DEF Told, After
  <2>2. /\ Good(h', after) /\ e.of \in Known(h)
        /\ e.type = "Response" => /\ results[e.of].ends = 0
                                  /\ results[e.of].chunks < max_responses(KindOf[e.of])
    BY Zenon, <1>1, <1>3 DEF Tells
  <2>3. /\ after \in Results
        /\ \A x \in OutRequests \ {e.of} : after[x] = results[x]
        /\ \A x \in OutRequests : after[x].sent = results[x].sent
        /\ e.type # "Response" => \A x \in OutRequests : after[x].chunks = results[x].chunks
        /\ e.type = "Response" /\ e.of \in OutRequests => after[e.of].chunks = results[e.of].chunks + 1
    BY <1>1, AfterFacts
  <2> HIDE DEF after
  <2>4. UNCHANGED events
    BY Zenon, <1>3 DEF behaviourVars
  <2>5. /\ results' \in Results /\ Good(h', results') /\ AskedOnce(events')
        /\ {} \subseteq Pending(events) /\ Pending(events') \subseteq Pending(events) \ {}
        /\ Known(h') \subseteq Known(h) \cup {}
    BY Zenon, <1>1, <1>2, <2>1, <2>2, <2>3, <2>4
  <2>6. \A r \in OutRequests : \/ results'[r] = results[r]
                               \/ results'[r].sent = results[r].sent /\ r \in Known(h) \cup {}
    BY Zenon, <2>1, <2>2, <2>3
  <2>7. RequestInv'
    BY Zenon, <2>5, <2>6, RequestKept
  <2>8. ASSUME NEW r \in OutRequests, results'[r].chunks # results[r].chunks
        PROVE  results[r].ends = 0 /\ results'[r].chunks <= max_responses(KindOf[r])
    <3>1. r = e.of /\ e.type = "Response"
      BY Zenon, <2>1, <2>3, <2>8
    <3>2. /\ results[r].ends = 0 /\ results[r].chunks < max_responses(KindOf[r])
          /\ results'[r].chunks = results[r].chunks + 1
      BY Zenon, <2>1, <2>2, <2>3, <3>1
    <3>3. results[r].chunks \in Nat /\ max_responses(KindOf[r]) \in Int
      <4>1. KindOf[r] \in Kinds /\ MaxResponses \in Nat
        BY HandlerAssumption
      <4>2. results[r].chunks \in Nat
        BY <1>1 DEF Results
      <4> QED BY <4>1, <4>2 DEF Kinds, max_responses
    <3> QED BY <3>2, <3>3
  <2> QED BY Zenon, <2>7, <2>8 DEF Allowed
<1>4. CASE (e = None \/ e.type \notin ForApplication) /\ UNCHANGED results
           /\ AskedOnce(events') /\ Pending(events') \subseteq Pending(events)
  <2>1. Good(h', results)
    BY Zenon, <1>1, <1>4 DEF Tells
  <2> QED BY Zenon, <1>1, <1>4, <2>1, NothingTold
<1>5. CASE e = None /\ UNCHANGED <<behaviourVars, answers, results>>
  <2>1. UNCHANGED results /\ AskedOnce(events') /\ Pending(events') \subseteq Pending(events)
    BY Zenon, <1>2, <1>5 DEF behaviourVars
  <2> QED BY Zenon, <1>4, <1>5, <2>1
<1>6. CASE e # None /\ e.type = "Request" /\ OnRequest(<<connection, e.of>>, e.kind)
  <2>1. UNCHANGED results
    BY Zenon, <1>6 DEF OnRequest
  <2>2. UNCHANGED events \/ \E kind, response : send_response_inner(kind, response)
    BY Zenon, <1>6 DEF OnRequest
  <2>3. AskedOnce(events') /\ Pending(events') \subseteq Pending(events)
    BY Zenon, <1>2, <2>2, InnerAsks
  <2>4. e.type \notin ForApplication
    BY Zenon, <1>6 DEF ForApplication
  <2> QED BY Zenon, <1>4, <2>1, <2>3, <2>4
<1>7. CASE e # None /\ e.type = "InboundErr" /\ UNCHANGED <<behaviourVars, answers, results>>
  <2>1. UNCHANGED results /\ AskedOnce(events') /\ Pending(events') \subseteq Pending(events)
    BY Zenon, <1>2, <1>7 DEF behaviourVars
  <2>2. e.type \notin ForApplication
    BY Zenon, <1>7 DEF ForApplication
  <2> QED BY Zenon, <1>4, <2>1, <2>2
<1>8. CASE /\ e # None /\ e.type = "Close" /\ events' = Append(events, Send("CloseConnection", 0))
           /\ UNCHANGED <<active_inbound_requests, limiterVars, answers, results>>
  <2>1. ~ Asking(Send("CloseConnection", 0))
    BY Zenon DEF Asking, Send
  <2>2. AskedOnce(events') /\ Pending(events') \subseteq Pending(events)
    BY Zenon, <1>2, <1>8, <2>1, OtherAdded
  <2>3. e.type \notin ForApplication /\ UNCHANGED results
    BY Zenon, <1>8 DEF ForApplication
  <2> QED BY Zenon, <1>4, <2>2, <2>3
<1> QED BY Zenon, <1>3, <1>5, <1>6, <1>7, <1>8 DEF Returned, on_connection_handler_event

-----------------------------------------------------------------------------
(* The actions.                                                            *)

\* The behaviour takes what waits in the handler.
LEMMA EventsOutRequests == RPCInv /\ RequestInv /\ PollEventsOut => RequestInv' /\ Allowed
<1> SUFFICES ASSUME RPCInv, RequestInv, PollEventsOut PROVE RequestInv' /\ Allowed
  BY Zenon
<1>1. Returned(Return([h EXCEPT !.events_out = Tail(@)], Head(h.events_out))) /\ h.events_out # <<>>
  BY Zenon DEF PollEventsOut
<1>2. results \in Results /\ Good(h, results) /\ Books(h) /\ h.events_out \in Seq(Events)
  BY Zenon DEF RPCInv, QueueInv, RequestInv
<1>3. Tells(Return([h EXCEPT !.events_out = Tail(@)], Head(h.events_out)), h, results)
  BY Zenon, <1>1, <1>2, TakenTells
<1> QED BY Zenon, <1>1, <1>3, ReturnedTells

\* The shutdown timer runs out.
LEMMA ShutdownTimeoutRequests == RPCInv /\ RequestInv /\ PollShutdownTimeout => RequestInv' /\ Allowed
<1> SUFFICES ASSUME RPCInv, RequestInv, PollShutdownTimeout PROVE RequestInv' /\ Allowed
  BY Zenon
<1>1. Returned(Deactivate(h))
  BY Zenon DEF PollShutdownTimeout
<1>2. Good(h, results) /\ Books(h)
  BY Zenon DEF RPCInv, RequestInv
<1>3. Tells(Deactivate(h), h, results)
  BY Zenon, <1>2, DeactivateTells
<1> QED BY Zenon, <1>1, <1>3, ReturnedTells

\* The timer of an outbound substream runs out.
LEMMA OutboundExpiredRequests ==
  ASSUME RPCInv, RequestInv, NEW r \in OutRequests, PollOutboundExpired(r)
  PROVE  RequestInv' /\ Allowed
<1>1. h.events_out = <<>> /\ r \in h.outbound_substreams_delay
  BY Zenon DEF PollOutboundExpired, CanPoll
<1>2. PICK X \in SUBSET h.inbound_substreams_delay :
        \E expired \in Orders(X) : Returned(PollOutboundTimeout(h, expired, r))
  BY Zenon DEF PollOutboundExpired
<1>3. PICK expired \in Orders(X) : Returned(PollOutboundTimeout(h, expired, r))
  BY <1>2
<1>4. /\ X \subseteq Substreams /\ r \in Outbound(h) /\ Books(h)
      /\ results \in Results /\ Good(h, results)
  BY Zenon, <1>1 DEF RPCInv, Books, InBooks, OutBooks, Outbound, RequestInv
<1>5. Len(expired) \in Nat /\ \A i \in 1 .. Len(expired) : expired[i] \in Substreams
  BY Zenon, <1>4, FiniteSubstreams, OrderElements
<1>6. Tells(PollOutboundTimeout(h, expired, r), h, results)
  BY Zenon, <1>1, <1>4, <1>5, PollTimeoutTells
<1> QED BY Zenon, <1>3, <1>6, ReturnedTells

\* The substreams are driven.
LEMMA SubstreamsRequests == RPCInv /\ RequestInv /\ PollSubstreams => RequestInv' /\ Allowed
<1> SUFFICES ASSUME RPCInv, RequestInv, PollSubstreams PROVE RequestInv' /\ Allowed
  BY Zenon
<1>1. h.events_out = <<>>
  BY Zenon DEF PollSubstreams, CanPoll
<1>2. PICK X \in SUBSET h.inbound_substreams_delay :
      \E expired \in Orders(X), ins \in Orders(Inbound(h)), outs \in Orders(Outbound(h)) :
      \E inIo, outIo : Returned(PollStreams(h, expired, ins, inIo, outs, outIo))
  BY Zenon DEF PollSubstreams
<1>3. PICK expired \in Orders(X), ins \in Orders(Inbound(h)), outs \in Orders(Outbound(h)) :
        \E inIo, outIo : Returned(PollStreams(h, expired, ins, inIo, outs, outIo))
  BY Zenon, <1>2
<1>4. PICK inIo, outIo : Returned(PollStreams(h, expired, ins, inIo, outs, outIo))
  BY Zenon, <1>3
<1>5. X \subseteq Substreams /\ Books(h) /\ results \in Results /\ Good(h, results)
  BY Zenon DEF RPCInv, Books, InBooks, RequestInv
<1>6. Len(expired) \in Nat /\ \A i \in 1 .. Len(expired) : expired[i] \in Substreams
  BY Zenon, <1>5, FiniteSubstreams, OrderElements
<1>7. Len(ins) \in Nat /\ \A i \in 1 .. Len(ins) : ins[i] \in Substreams
  BY Zenon, FiniteSubstreams, OrderElements
<1>8. /\ Len(outs) \in Nat /\ \A i \in 1 .. Len(outs) : outs[i] \in Outbound(h)
      /\ \A i, j \in 1 .. Len(outs) : outs[i] = outs[j] => i = j
  BY Zenon, FiniteSubstreams, OrderElements, OrderDistinct
<1>9. Tells(PollStreams(h, expired, ins, inIo, outs, outIo), h, results)
  BY Zenon, <1>1, <1>5, <1>6, <1>7, <1>8, PollStreamsTells
<1> QED BY Zenon, <1>4, <1>9, ReturnedTells

\* The swarm passes an event of the behaviour to the handler, or finds no handler for it.
LEMMA EventsRequests == RPCInv /\ RequestInv /\ PollEvents => RequestInv' /\ Allowed
<1> SUFFICES ASSUME RPCInv, RequestInv, PollEvents PROVE RequestInv' /\ Allowed
  BY Zenon
<1> DEFINE e == Head(events)
           r == e.request
<1>1. /\ events \in Seq(SwarmEvents) /\ events # <<>> /\ events' = Tail(events)
      /\ h.events_out \in Seq(Events) /\ Books(h) /\ LimiterInv
      /\ results \in Results /\ Good(h, results) /\ AskedOnce(events)
  BY Zenon DEF PollEvents, RPCInv, LimiterInv, QueueInv, RequestInv
<1>2. /\ AskedOnce(events') /\ Pending(events') \subseteq Pending(events)
      /\ Asking(e) => r \in Pending(events) /\ r \notin Pending(events')
  BY Zenon, <1>1, AskedTaken
<1>3. \/ UNCHANGED <<h, results>>
      \/ /\ e.send = "Response" /\ UNCHANGED results
         /\ h' = send_response(h, e.response.req[2], e.response)
      \/ e.send = "Request" /\ h' = send_request(h, r) /\ UNCHANGED results
      \/ e.send = "Shutdown" /\ h' = shutdown(h, <<r>>) /\ UNCHANGED results
      \/ Asking(e) /\ UNCHANGED h /\ results' = [results EXCEPT ![r].cut = TRUE]
  <2>1. e \in SwarmEvents
    BY <1>1
  <2>2. e.send \in {"Response", "Request", "Shutdown", "CloseConnection"}
    BY Zenon, <2>1 DEF SwarmEvents
  <2> HIDE DEF e
  <2> QED BY <2>2 DEF PollEvents, Asking, e
<1> HIDE DEF e
<1>4. CASE UNCHANGED <<h, results>>
  <2>1. Good(h', results) /\ Known(h') \subseteq Known(h) /\ UNCHANGED results
    BY Zenon, <1>1, <1>4
  <2> QED BY Zenon, <1>2, <2>1, NothingTold
<1>5. CASE h' = send_response(h, e.response.req[2], e.response) /\ UNCHANGED results
  <2>1. Good(h', results) /\ Known(h') \subseteq Known(h)
    BY Zenon, <1>1, <1>5, SendResponseGood
  <2> QED BY Zenon, <1>2, <1>5, <2>1, NothingTold
<1>6. ASSUME Asking(e)
      PROVE  /\ r \in Pending(events) /\ r \notin Known(h) /\ r \in OutRequests /\ Untold(results[r])
             /\ {r} \subseteq Pending(events) /\ Pending(events') \subseteq Pending(events) \ {r}
  BY Zenon, <1>1, <1>2, <1>6, PendingTyped DEF RequestInv
<1>7. ASSUME Asking(e), Good(h', results), Known(h') \subseteq Known(h) \cup {r}, UNCHANGED results
      PROVE  RequestInv' /\ Allowed
  <2>1. /\ results' \in Results /\ Good(h', results')
        /\ \A x \in OutRequests : results'[x] = results[x]
    BY Zenon, <1>1, <1>7
  <2>2. RequestInv'
    BY Zenon, <1>2, <1>6, <1>7, <2>1, RequestKept
  <2> QED BY Zenon, <2>1, <2>2 DEF Allowed
<1>8. CASE e.send = "Request" /\ h' = send_request(h, r) /\ UNCHANGED results
  <2>1. Asking(e)
    BY Zenon, <1>8 DEF Asking
  <2>2. Good(send_request(h, r), results) /\ Known(send_request(h, r)) \subseteq Known(h) \cup {r}
    BY Zenon, <1>1, <1>6, <2>1, SendRequestGood
  <2> QED BY Zenon, <1>7, <1>8, <2>1, <2>2
<1>9. CASE e.send = "Shutdown" /\ h' = shutdown(h, <<r>>) /\ UNCHANGED results
  <2>1. Asking(e)
    BY Zenon, <1>9 DEF Asking
  <2>2. IsInjective(<<r>>) /\ Range(<<r>>) = {r}
    BY DEF IsInjective, Range
  <2>3. Range(<<r>>) \cap Known(h) = {} /\ \A x \in Range(<<r>>) : Untold(results[x])
    BY Zenon, <1>6, <2>1, <2>2
  <2>4. DOMAIN h = Fields /\ h.dial_queue \in Seq(OutRequests)
    BY Zenon, <1>1 DEF Books
  <2>5. Good(shutdown(h, <<r>>), results) /\ Known(shutdown(h, <<r>>)) \subseteq Known(h) \cup Range(<<r>>)
    BY Zenon, <1>1, <2>2, <2>3, <2>4, ShutdownGood
  <2> QED BY Zenon, <1>7, <1>9, <2>1, <2>2, <2>5
<1>10. CASE Asking(e) /\ UNCHANGED h /\ results' = [results EXCEPT ![r].cut = TRUE]
  <2>1. /\ r \in OutRequests /\ r \notin Known(h)
        /\ {r} \subseteq Pending(events) /\ Pending(events') \subseteq Pending(events) \ {r}
    BY Zenon, <1>6, <1>10
  <2>2. /\ results' \in Results /\ results'[r].sent = results[r].sent
        /\ results'[r].chunks = results[r].chunks
        /\ \A x \in OutRequests \ {r} : results'[x] = results[x]
    <3>1. results' = [results EXCEPT ![r].cut = TRUE]
      BY Zenon, <1>10
    <3> HIDE DEF r
    <3> QED BY <1>1, <2>1, <3>1 DEF Results
  <2>3. Good(h', results')
    <3>1. Queued(h) \subseteq OutRequests /\ Open(h) \subseteq OutRequests
      <4>1. Range(h.dial_queue) \subseteq OutRequests
        BY <1>1 DEF Books, Range
      <4> QED BY Zenon, <1>1, <4>1 DEF Queued, Good, Open, Outbound
    <3>2. Queued(h) \subseteq Known(h) /\ Open(h) \subseteq Known(h)
      BY Zenon DEF Known, Open
    <3>3. \A x \in Queued(h) : results'[x] = results[x]
      BY Zenon, <2>1, <2>2, <3>1, <3>2
    <3>4. \A x \in Open(h) : results'[x] = results[x]
      BY Zenon, <2>1, <2>2, <3>1, <3>2
    <3>5. Good(h, results')
      BY Zenon, <1>1, <3>3, <3>4 DEF Good
    <3> QED BY Zenon, <1>10, <3>5
  <2>4. \A x \in OutRequests : \/ results'[x] = results[x]
                               \/ results'[x].sent = results[x].sent /\ x \in Known(h) \cup {r}
    BY Zenon, <2>2
  <2>5. Known(h') \subseteq Known(h) \cup {r}
    BY Zenon, <1>10
  <2>6. RequestInv'
    BY Zenon, <1>2, <2>1, <2>2, <2>3, <2>4, <2>5, RequestKept
  <2>7. Allowed
    BY Zenon, <2>2 DEF Allowed
  <2> QED BY Zenon, <2>6, <2>7
<1> QED BY Zenon, <1>3, <1>4, <1>5, <1>8, <1>9, <1>10

\* The application sends a request.
LEMMA RequestRequests ==
  ASSUME RPCInv, RequestInv, NEW r \in OutRequests, Request(r)
  PROVE  RequestInv' /\ Allowed
<1> DEFINE e == Send(IF KindOf[r] = "goodbye" THEN "Shutdown" ELSE "Request", r)
<1>1. /\ ~ results[r].sent /\ results' = [results EXCEPT ![r].sent = TRUE]
      /\ events' = Append(events, e) /\ UNCHANGED h
  BY Zenon DEF Request
<1>2. /\ results \in Results /\ events \in Seq(SwarmEvents) /\ AskedOnce(events)
      /\ Good(h, results) /\ Untold(results[r]) /\ r \notin Pending(events) /\ r \notin Known(h)
      /\ Books(h)
  BY Zenon, <1>1 DEF RequestInv, RPCInv, LimiterInv
<1>3. e.request = r
  BY Zenon DEF Send
<1> HIDE DEF e
<1>4. AskedOnce(Append(events, e)) /\ Pending(Append(events, e)) \subseteq Pending(events) \cup {r}
  BY Zenon, <1>2, <1>3, RequestQueued
<1>5. /\ results' \in Results /\ results'[r].sent
      /\ \A x \in OutRequests : /\ results'[x].chunks = results[x].chunks
                                /\ results'[x].ends = results[x].ends
      /\ \A x \in OutRequests \ {r} : results'[x] = results[x]
  BY <1>1, <1>2 DEF Results
<1>6. \A x \in OutRequests : Untold(results[x]) => Untold(results'[x])
  BY Zenon, <1>5 DEF Untold
<1>7. Good(h, results')
  <2>1. Queued(h) \subseteq OutRequests /\ Open(h) \subseteq OutRequests
    <3>1. Range(h.dial_queue) \subseteq OutRequests
      BY <1>2 DEF Books, Range
    <3> QED BY Zenon, <1>2, <3>1 DEF Queued, Good, Open, Outbound
  <2>2. Queued(h) \subseteq Known(h) /\ Open(h) \subseteq Known(h)
    BY Zenon DEF Known, Open
  <2>3. \A x \in Queued(h) : results'[x] = results[x]
    BY Zenon, <1>2, <1>5, <2>1, <2>2
  <2>4. \A x \in Open(h) : results'[x] = results[x]
    BY Zenon, <1>2, <1>5, <2>1, <2>2
  <2> QED BY Zenon, <1>2, <2>3, <2>4 DEF Good
<1>8. Pending(events) \subseteq OutRequests
  BY Zenon, PendingTyped DEF RPCInv
<1>9. Pending(events') \cap Known(h') = {}
  BY Zenon, <1>1, <1>2, <1>4 DEF RequestInv
<1>10. \A x \in Pending(events') : Untold(results'[x])
  <2>1. \A x \in Pending(events) : Untold(results[x])
    BY Zenon DEF RequestInv
  <2> QED BY Zenon, <1>1, <1>2, <1>4, <1>6, <1>8, <2>1
<1>11. ASSUME NEW x \in OutRequests, ~ results'[x].sent
       PROVE  Untold(results'[x]) /\ x \notin Pending(events') \cup Known(h')
  <2>1. x # r /\ ~ results[x].sent
    BY Zenon, <1>5, <1>11
  <2>2. Untold(results[x]) /\ x \notin Pending(events) \cup Known(h)
    BY Zenon, <2>1 DEF RequestInv
  <2> QED BY Zenon, <1>1, <1>4, <1>6, <2>1, <2>2
<1>12. RequestInv'
  <2>1. AskedOnce(events') /\ Good(h', results')
    BY Zenon, <1>1, <1>4, <1>7
  <2> QED BY Zenon, <1>5, <1>9, <1>10, <1>11, <2>1 DEF RequestInv
<1>13. Allowed
  BY Zenon, <1>5 DEF Allowed
<1> QED BY Zenon, <1>12, <1>13

\* A substream of ours has been negotiated, or has not.
LEMMA NegotiatedRequests ==
  ASSUME RPCInv, RequestInv, NEW r \in OutRequests, Negotiated(r)
  PROVE  RequestInv' /\ Allowed
<1>1. /\ h.events_out \in Seq(Events) /\ Books(h) /\ results \in Results /\ Good(h, results)
      /\ r \in h.dialing /\ AskedOnce(events)
  BY Zenon DEF Negotiated, RPCInv, QueueInv, RequestInv
<1>2. Good(h', results) /\ Known(h') \subseteq Known(h)
  <2>1. CASE h' = on_fully_negotiated_outbound(h, r)
    BY Zenon, <1>1, <2>1, NegotiatedGood
  <2>2. CASE \E ioError \in BOOLEAN : h' = on_dial_upgrade_error(h, r, ioError)
    BY Zenon, <1>1, <2>2, UpgradeErrorGood
  <2> QED BY Zenon, <2>1, <2>2 DEF Negotiated
<1>3. UNCHANGED <<results, events>>
  BY Zenon DEF Negotiated, behaviourVars
<1>4. UNCHANGED results /\ AskedOnce(events') /\ Pending(events') \subseteq Pending(events)
  BY Zenon, <1>1, <1>3
<1> QED BY Zenon, <1>2, <1>4, NothingTold

\* A request of the peer has been read.
LEMMA PeerRequestRequests ==
  ASSUME RPCInv, RequestInv, NEW kind, NEW oversized, PeerRequest(kind, oversized)
  PROVE  RequestInv' /\ Allowed
<1>1. /\ h.events_out \in Seq(Events) /\ Books(h) /\ Good(h, results) /\ AskedOnce(events)
  BY Zenon DEF RPCInv, QueueInv, RequestInv
<1>2. Good(h', results) /\ Known(h') \subseteq Known(h)
  BY Zenon, <1>1, InboundGood DEF PeerRequest
<1>3. UNCHANGED <<results, events>>
  BY Zenon DEF PeerRequest, behaviourVars
<1>4. UNCHANGED results /\ AskedOnce(events') /\ Pending(events') \subseteq Pending(events)
  BY Zenon, <1>1, <1>3
<1> QED BY Zenon, <1>2, <1>4, NothingTold

\* The application answers a request of the peer.
LEMMA RespondRequests ==
  ASSUME RPCInv, RequestInv, NEW id, Respond(id)
  PROVE  RequestInv' /\ Allowed
<1>1. UNCHANGED <<h, results>> /\ Good(h, results) /\ AskedOnce(events)
  BY Zenon DEF Respond, RequestInv
<1>2. UNCHANGED events \/ \E kind, response : send_response_inner(kind, response)
  BY Zenon DEF Respond, send_response_active
<1>3. AskedOnce(events') /\ Pending(events') \subseteq Pending(events)
  BY Zenon, <1>1, <1>2, InnerAsks
<1>4. UNCHANGED results /\ Good(h', results) /\ Known(h') \subseteq Known(h)
  BY Zenon, <1>1
<1> QED BY Zenon, <1>3, <1>4, NothingTold

\* The limiter lets delayed responses pass.
LEMMA LimiterRequests ==
  ASSUME RPCInv, RequestInv, NEW proto, PollLimiter(proto)
  PROVE  RequestInv' /\ Allowed
<1> DEFINE queue == delayed_responses[proto]
<1>1. /\ UNCHANGED <<h, results>> /\ Good(h, results) /\ AskedOnce(events)
      /\ events \in Seq(SwarmEvents)
  BY Zenon DEF PollLimiter, RequestInv, RPCInv, LimiterInv
<1>2. PICK n \in 0 .. Len(queue) : events' = events \o [i \in 1 .. n |-> SendResponse(queue[i])]
  BY Zenon DEF PollLimiter, poll_ready
<1> DEFINE more == [i \in 1 .. n |-> SendResponse(queue[i])]
<1>3. DOMAIN more = 1 .. n /\ \A i \in DOMAIN more : ~ Asking(more[i]) /\ more[i] \in Range(more)
  <2>1. \A response : ~ Asking(SendResponse(response))
    BY Zenon DEF Asking, SendResponse
  <2> QED BY Zenon, <2>1 DEF Range
<1>4. CASE n \in Nat
  <2>1. more \in [1 .. n -> Range(more)]
    BY Zenon, <1>3
  <2> HIDE DEF more
  <2>2. more \in Seq(Range(more))
    BY <1>4, <2>1
  <2>3. AskedOnce(events \o more) /\ Pending(events \o more) \subseteq Pending(events)
    BY Zenon, <1>1, <1>3, <2>2, OthersAdded
  <2>4. events' = events \o more
    BY Zenon, <1>2 DEF more
  <2>5. AskedOnce(events') /\ Pending(events') \subseteq Pending(events)
    BY Zenon, <2>3, <2>4
  <2>6. UNCHANGED results /\ Good(h', results) /\ Known(h') \subseteq Known(h)
    BY Zenon, <1>1
  <2> QED BY Zenon, <2>5, <2>6, NothingTold
<1>5. n \in Nat
  <2> HIDE DEF queue
  <2> QED OBVIOUS
<1> QED BY Zenon, <1>4, <1>5

\* A new handler knows of no request.
LEMMA NewKnowsNone == \A told : Good(new, told) /\ Known(new) = {}
<1>1. /\ new.dial_queue = <<>> /\ new.dialing = {} /\ new.events_out = <<>>
      /\ new.outbound_substreams = [r \in OutRequests |-> None]
  BY Zenon DEF new
<1>2. Outbound(new) = {} /\ Open(new) = {}
  BY Zenon, <1>1 DEF Outbound, Open
<1>3. IsInjective(<<>>) /\ Range(<<>>) = {} /\ NoChunk(<<>>) /\ Notified(<<>>) = {}
  BY DEF IsInjective, Range, NoChunk, Notified
<1>4. Queued(new) = {} /\ Notified(new.events_out) = {}
  BY Zenon, <1>1, <1>3 DEF Queued
<1>5. Known(new) = {}
  BY Zenon, <1>2, <1>4 DEF Known
<1> QED BY Zenon, <1>1, <1>2, <1>3, <1>4, <1>5 DEF Good

\* The peer connects.
LEMMA EstablishedRequests == RPCInv /\ RequestInv /\ ConnectionEstablished => RequestInv' /\ Allowed
<1> SUFFICES ASSUME RPCInv, RequestInv, ConnectionEstablished PROVE RequestInv' /\ Allowed
  BY Zenon
<1>1. h' = new /\ UNCHANGED <<results, events>>
  BY Zenon DEF ConnectionEstablished, behaviourVars
<1>2. Good(h', results) /\ Known(h') \subseteq Known(h)
  BY Zenon, <1>1, NewKnowsNone
<1>3. UNCHANGED results /\ AskedOnce(events') /\ Pending(events') \subseteq Pending(events)
  BY Zenon, <1>1 DEF RequestInv
<1> QED BY Zenon, <1>2, <1>3, NothingTold

\* The connection is closed: the requests that are with the behaviour fail, what the handler knows
\* is cut short.
LEMMA ClosedRequests == RPCInv /\ RequestInv /\ ConnectionClosed => RequestInv' /\ Allowed
<1> SUFFICES ASSUME RPCInv, RequestInv, ConnectionClosed PROVE RequestInv' /\ Allowed
  BY Zenon
<1> DEFINE X == {e \in Range(events) : e.send = "Request"}
           moved == {events[i].request : i \in {j \in DOMAIN events : events[j].send = "Request"}}
           failed(r) == \E i \in DOMAIN events : events[i].send = "Request" /\ events[i].request = r
           cut(r) == InHandler(r) \/ \E e \in Range(h.events_out) : e.type \in ForApplication /\ e.of = r
           R == [sent : BOOLEAN, chunks : Nat, ends : Nat, cut : BOOLEAN]
<1>1. /\ h' = new /\ events' = Without(events, X)
      /\ results' = [r \in OutRequests |-> IF failed(r) THEN [results[r] EXCEPT !.ends = @ + 1]
                                           ELSE IF cut(r) THEN [results[r] EXCEPT !.cut = TRUE]
                                           ELSE results[r]]
  BY Zenon DEF ConnectionClosed
<1>2. events \in Seq(SwarmEvents) /\ AskedOnce(events) /\ results \in [OutRequests -> R]
  BY Zenon DEF RPCInv, LimiterInv, RequestInv, Results
<1>3. /\ AskedOnce(events') /\ Pending(events') \subseteq Pending(events)
      /\ \A i \in DOMAIN events : events[i].send = "Request" => events[i].request \notin Pending(events')
  <2>1. \A i \in DOMAIN events : events[i].send = "Request" => events[i] \in X
    BY Zenon DEF Range
  <2> HIDE DEF X
  <2> QED BY Zenon, <1>1, <1>2, <2>1, RequestsRemoved
<1>4. moved \subseteq Pending(events)
  BY Zenon DEF Pending, Asked, Asking
<1>5. Pending(events') \subseteq Pending(events) \ moved
  BY Zenon, <1>3
<1>6. \A x \in R : /\ [x EXCEPT !.ends = @ + 1] \in R /\ [x EXCEPT !.cut = TRUE] \in R
                   /\ [x EXCEPT !.ends = @ + 1].sent = x.sent /\ [x EXCEPT !.cut = TRUE].sent = x.sent
                   /\ [x EXCEPT !.ends = @ + 1].chunks = x.chunks
                   /\ [x EXCEPT !.cut = TRUE].chunks = x.chunks
  <2> SUFFICES ASSUME NEW x \in R
               PROVE  /\ [x EXCEPT !.ends = @ + 1] \in R /\ [x EXCEPT !.cut = TRUE] \in R
                      /\ [x EXCEPT !.ends = @ + 1].sent = x.sent /\ [x EXCEPT !.cut = TRUE].sent = x.sent
                      /\ [x EXCEPT !.ends = @ + 1].chunks = x.chunks
                      /\ [x EXCEPT !.cut = TRUE].chunks = x.chunks
    BY Zenon
  <2>1. /\ [x EXCEPT !.ends = @ + 1] \in R /\ [x EXCEPT !.ends = @ + 1].sent = x.sent
        /\ [x EXCEPT !.ends = @ + 1].chunks = x.chunks
    OBVIOUS
  <2>2. /\ [x EXCEPT !.cut = TRUE] \in R /\ [x EXCEPT !.cut = TRUE].sent = x.sent
        /\ [x EXCEPT !.cut = TRUE].chunks = x.chunks
    OBVIOUS
  <2> QED BY Zenon, <2>1, <2>2
<1>7. \A r \in OutRequests : /\ failed(r) => r \in moved
                             /\ cut(r) => r \in Known(h)
  <2>1. \A r \in OutRequests : failed(r) => r \in moved
    BY Zenon
  <2>2. \A r \in OutRequests : cut(r) => r \in Known(h)
    BY Zenon DEF InHandler, Known, Queued, Notified, Range
  <2> QED BY Zenon, <2>1, <2>2
<1> HIDE DEF moved, failed, cut, R, X
<1>8. ASSUME NEW r \in OutRequests
      PROVE  /\ results'[r] \in R /\ results'[r].sent = results[r].sent
             /\ results'[r].chunks = results[r].chunks
             /\ results'[r] = results[r] \/ r \in Known(h) \cup moved
  <2>1. results[r] \in R
    BY Zenon, <1>2
  <2>2. \/ failed(r) /\ results'[r] = [results[r] EXCEPT !.ends = @ + 1]
        \/ cut(r) /\ results'[r] = [results[r] EXCEPT !.cut = TRUE]
        \/ results'[r] = results[r]
    BY Zenon, <1>1
  <2> QED BY Zenon, <1>6, <1>7, <2>1, <2>2
<1>9. results' \in Results
  <2>1. results' = [r \in OutRequests |-> results'[r]]
    BY Zenon, <1>1
  <2> QED BY Zenon, <1>8, <2>1 DEF Results, R
<1>10. Good(h', results') /\ Known(h') \subseteq Known(h) \cup moved
  BY Zenon, <1>1, NewKnowsNone
<1>11. \A r \in OutRequests : \/ results'[r] = results[r]
                              \/ results'[r].sent = results[r].sent /\ r \in Known(h) \cup moved
  BY Zenon, <1>8
<1>12. RequestInv'
  BY Zenon, <1>3, <1>4, <1>5, <1>9, <1>10, <1>11, RequestKept
<1>13. Allowed
  BY Zenon, <1>8 DEF Allowed
<1> QED BY Zenon, <1>12, <1>13

\* The first state.
LEMMA InitRequests == Init => RequestInv
<1> SUFFICES ASSUME Init PROVE RequestInv
  BY Zenon
<1>1. /\ h = new /\ events = <<>>
      /\ results = [r \in OutRequests |-> [sent |-> FALSE, chunks |-> 0, ends |-> 0, cut |-> FALSE]]
  BY Zenon DEF Init
<1>2. Asked(<<>>) = {}
  BY DEF Asked
<1>3. AskedOnce(events) /\ Pending(events) = {}
  BY Zenon, <1>1, <1>2 DEF AskedOnce, Pending
<1>4. results \in Results
  BY <1>1 DEF Results
<1>5. \A r \in OutRequests : Untold(results[r])
  BY Zenon, <1>1 DEF Untold
<1> QED BY Zenon, <1>1, <1>3, <1>4, <1>5, NewKnowsNone DEF RequestInv

\* Every step keeps the invariant, and tells the application only what is allowed.
LEMMA NextRequests == RPCInv /\ RequestInv /\ [Next]_vars => RequestInv' /\ [Allowed]_vars
<1> SUFFICES ASSUME RPCInv, RequestInv, [Next]_vars PROVE RequestInv' /\ [Allowed]_vars
  BY Zenon
<1>1. CASE UNCHANGED vars
  <2>1. UNCHANGED <<h, events, results>>
    BY Zenon, <1>1 DEF vars, stateVars, behaviourVars
  <2>2. RequestInv'
    BY Zenon, <2>1 DEF RequestInv
  <2> QED BY Zenon, <1>1, <2>2
<1>2. CASE Next
  <2>1. CASE PollEventsOut \/ PollShutdownTimeout \/ PollSubstreams \/ PollEvents
    BY Zenon, <2>1, EventsOutRequests, ShutdownTimeoutRequests, SubstreamsRequests, EventsRequests
  <2>2. CASE \E r \in OutRequests : PollOutboundExpired(r) \/ Request(r) \/ Negotiated(r)
    BY Zenon, <2>2, OutboundExpiredRequests, RequestRequests, NegotiatedRequests
  <2>3. CASE \E id \in RequestIds : Respond(id)
    BY Zenon, <2>3, RespondRequests
  <2>4. CASE \/ \E proto \in Protocols : PollLimiter(proto)
             \/ \E kind \in budget.kinds, oversized \in BOOLEAN : PeerRequest(kind, oversized)
    BY Zenon, <2>4, LimiterRequests, PeerRequestRequests
  <2>5. CASE ConnectionEstablished \/ ConnectionClosed
    BY Zenon, <2>5, EstablishedRequests, ClosedRequests
  <2> QED BY Zenon, <1>2, <2>1, <2>2, <2>3, <2>4, <2>5 DEF Next
<1> QED BY Zenon, <1>1, <1>2

\* Whatever the peer, the application and the transport do, the application is told of no more
\* responses than a request allows, and of none after it was told that the request has ended or
\* failed: also when timers, shutdown and a new connection cut in.
THEOREM NoResponseAfterEndCorrect == Spec => NoResponseAfterEnd
<1>1. RPCInv /\ RequestInv /\ [Next]_vars =>
        [\A r \in OutRequests : results'[r].chunks # results[r].chunks =>
           results[r].ends = 0 /\ results'[r].chunks <= max_responses(KindOf[r])]_vars
  BY Zenon, NextRequests DEF Allowed
<1> QED BY <1>1, InitRPC, InitRequests, NextKeeps, NextRequests, PTL DEF Spec, NoResponseAfterEnd

\* Whatever the peer, the application and the transport do, the timers of the handler are those of
\* its substreams, and a response that the limiter delays has a timer that releases it.
THEOREM TimersInBooksCorrect == Spec => []TimersInBooks
<1>1. RPCInv => TimersInBooks
  BY Zenon DEF RPCInv, Books, InBooks, OutBooks, Inbound, Outbound, LimiterInv, TimersInBooks
<1> QED BY <1>1, InitRPC, NextKeeps, PTL DEF Spec

\* Whatever the peer, the application and the transport do, the limit on concurrent requests
\* counts the requests of the present connection that the application has still to answer, and
\* no others: also across reconnections, where substream ids are used again.
THEOREM LimitCountsUnansweredCorrect == Spec => []LimitCountsUnanswered
<1>1. RPCInv => LimitCountsUnanswered
  <2> SUFFICES ASSUME RPCInv, NEW proto \in Protocols \ {"goodbye"}
               PROVE  \A id \in RequestIds :
                        (/\ active_inbound_requests[id] # None
                         /\ protocol(active_inbound_requests[id].kind) = proto
                         /\ ~ active_inbound_requests[id].peer_disconnected)
                        <=> (/\ answers[id] >= 0 /\ id[1] = connection /\ link # "down"
                             /\ protocol(active_inbound_requests[id].kind) = proto)
    BY Zenon DEF LimitCountsUnanswered, LiveRequests
  <2>1. \A kind : protocol(kind) = proto => kind # "goodbye"
    BY DEF protocol
  <2> QED BY Zenon, <2>1 DEF RPCInv, RequestsTyped, Active, Answerable, OfConnection
<1> QED BY <1>1, InitRPC, NextKeeps, PTL DEF Spec
=============================================================================
