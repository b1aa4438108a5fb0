--------------------------------- MODULE RPC ---------------------------------
(***************************************************************************)
(* The RPC behaviour (rpc/mod.rs) with its response limiter                *)
(* (rpc/response_limiter.rs), composed with the handler of the connection  *)
(* to one peer (RPCHandler), the swarm, the peer and the application.      *)
(*                                                                         *)
(* The requests of the peer pass from the handler to the behaviour, which  *)
(* keeps them in active_inbound_requests until the application has given   *)
(* the last response.  A response passes from the application through the  *)
(* limiter and the queue of events to the handler of the connection that   *)
(* the request came from.  The peer may reconnect: substream ids start     *)
(* again at 0, and requests of the old connection may still be unanswered. *)
(*                                                                         *)
(* Abstractions.  The rate limiter answers Ok or TooSoon (TooLarge is sent *)
(* like Ok).  Of the events for the swarm only those that reach a handler  *)
(* or close the connection are queued; what is for the application reaches *)
(* it when it is queued.  The limiter of our own requests is in            *)
(* SelfLimiter.  One connection per peer, as in service/mod.rs.            *)
(***************************************************************************)
EXTENDS RPCHandler

CONSTANTS
  MAX_CONCURRENT_REQUESTS,
  Budgets                         \* bound: the mixes of requests and connections explored

ASSUME RPCAssumption ==
  /\ MAX_CONCURRENT_REQUESTS \in Nat \ {0}
  /\ Budgets \subseteq [connections : Nat, substreams : 0 .. MaxSubstreams,
                        kinds : SUBSET Kinds, requests : SUBSET OutRequests]

MaxConnections == Max({b.connections : b \in Budgets})

\* InboundRequestId: connection and substream
RequestIds == (1 .. MaxConnections) \X Substreams

VARIABLES
  budget,                         \* what the peer and the application may do, never changes
  h,                              \* the handler of the last connection
  link,                           \* swarm: "down", "up", or "closing" for CloseConnection
  connection,                     \* swarm: the id of the last connection
  events,
  active_inbound_requests,        \* None, or [kind, peer_disconnected]
  delayed_responses,              \* by protocol, <<>> for a protocol without an entry
  next_response,                  \* number of timers by protocol
  answers,                        \* application: chunks given to a request, or DONE
  results                         \* application: what it was told of its requests

limiterVars == <<delayed_responses, next_response>>
behaviourVars == <<active_inbound_requests, limiterVars, events>>
stateVars == <<h, link, connection, behaviourVars, answers, results>>
vars == <<budget, stateVars>>

\* Nothing (more) to answer
DONE == -1

Response(id, item) == [req |-> id, item |-> item]

\* Events for the swarm
SendResponse(response) == [send |-> "Response", response |-> response]
Send(what, r) == [send |-> what, request |-> r]

-----------------------------------------------------------------------------
(* Responses: RPC::send_response and ResponseLimiter *)

\* allows, and send_response_inner
send_response_inner(proto, response) ==
  \/ /\ delayed_responses[proto] # <<>>
     /\ delayed_responses' = [delayed_responses EXCEPT ![proto] = Append(@, response)]
     /\ UNCHANGED <<next_response, events>>
  \/ /\ delayed_responses[proto] = <<>>
     /\ events' = Append(events, SendResponse(response))
     /\ UNCHANGED limiterVars
  \/ /\ delayed_responses[proto] = <<>>
     /\ delayed_responses' = [delayed_responses EXCEPT ![proto] = <<response>>]
     /\ next_response' = [next_response EXCEPT ![proto] = @ + 1]
     /\ UNCHANGED events

\* A timer expires, and the limiter lets the first n delayed responses pass.
poll_ready(proto, n) ==
  LET queue == delayed_responses[proto]
  IN /\ delayed_responses' = [delayed_responses EXCEPT ![proto] = SubSeq(queue, n + 1, Len(queue))]
     /\ next_response' = [next_response EXCEPT ![proto] = IF n < Len(queue) THEN @ ELSE @ - 1]
     /\ events' = events \o [i \in 1 .. n |-> SendResponse(queue[i])]

PollLimiter(proto) ==
  /\ next_response[proto] > 0
  /\ \E n \in 0 .. Len(delayed_responses[proto]) : poll_ready(proto, n)
  /\ UNCHANGED <<h, link, connection, active_inbound_requests, answers, results>>

\* The application gives the next chunk, an error, or the end of a response with many chunks.
Items(id) == LET kind == active_inbound_requests[id].kind
             IN {ERROR} \cup (IF answers[id] < max_responses(kind) THEN {answers[id] + 1} ELSE {})
                          \cup (IF HasTerminator(kind) THEN {END} ELSE {})

\* The request is added back after a success response of a protocol with a terminator.
StaysActive(kind, item) == HasTerminator(kind) /\ ~ close_after(item)

\* RPC::send_response, for an active request
send_response_active(id, item) ==
  LET request == active_inbound_requests[id]
  IN /\ active_inbound_requests' =
          [active_inbound_requests EXCEPT ![id] = IF StaysActive(request.kind, item) THEN @ ELSE None]
     /\ IF request.peer_disconnected
          THEN UNCHANGED <<limiterVars, events>>
          ELSE send_response_inner(protocol(request.kind), Response(id, item))

Respond(id) ==
  /\ answers[id] >= 0 /\ active_inbound_requests[id] # None
  /\ \E item \in Items(id) :
       /\ send_response_active(id, item)
       /\ answers' = [answers EXCEPT ![id] =
                        IF StaysActive(active_inbound_requests[id].kind, item) THEN item ELSE DONE]
  /\ UNCHANGED <<h, link, connection, results>>

-----------------------------------------------------------------------------
(* on_connection_handler_event *)

LiveRequests(proto) ==
  {id \in RequestIds : /\ active_inbound_requests[id] # None
                       /\ protocol(active_inbound_requests[id].kind) = proto
                       /\ ~ active_inbound_requests[id].peer_disconnected}

\* A ping is answered at once and leaves no active request.  The application answers the others,
\* except a goodbye.
OnRequest(id, kind) ==
  /\ IF Cardinality(LiveRequests(protocol(kind))) >= MAX_CONCURRENT_REQUESTS
       THEN /\ send_response_inner(protocol(kind), Response(id, ERROR))
            /\ UNCHANGED <<active_inbound_requests, answers>>
     ELSE IF kind = "ping"
       THEN /\ send_response_inner(protocol(kind), Response(id, 1))
            /\ answers' = [answers EXCEPT ![id] = DONE]
            /\ UNCHANGED active_inbound_requests
     ELSE /\ active_inbound_requests' =
               [active_inbound_requests EXCEPT ![id] = [kind |-> kind, peer_disconnected |-> FALSE]]
          /\ answers' = [answers EXCEPT ![id] = IF kind = "goodbye" THEN DONE ELSE 0]
          /\ UNCHANGED <<limiterVars, events>>
  /\ UNCHANGED results

\* What the application is told of r: a response, or that there will be no more
Told(type, r) ==
  results' = IF type = "Response" THEN [results EXCEPT ![r].chunks = @ + 1]
             ELSE [results EXCEPT ![r].ends = @ + 1]

on_connection_handler_event(e) ==
  \/ e.type = "Request" /\ OnRequest(<<connection, e.of>>, e.kind)
  \/ /\ e.type \in ForApplication
     /\ Told(e.type, e.of) /\ UNCHANGED <<behaviourVars, answers>>
  \/ /\ e.type = "InboundErr" /\ UNCHANGED <<behaviourVars, answers, results>>
  \/ /\ e.type = "Close" /\ events' = Append(events, Send("CloseConnection", 0))
     /\ UNCHANGED <<active_inbound_requests, limiterVars, answers, results>>

-----------------------------------------------------------------------------
(* The handler is polled *)

Returned(p) ==
  /\ h' = p.h
  /\ \/ p.event # None /\ on_connection_handler_event(p.event)
     \/ p.event = None /\ UNCHANGED <<behaviourVars, answers, results>>
  /\ UNCHANGED <<link, connection>>

CanPoll == link = "up" /\ h.events_out = <<>>

PollEventsOut ==
  /\ link = "up" /\ h.events_out # <<>>
  /\ Returned(Return([h EXCEPT !.events_out = Tail(@)], Head(h.events_out)))

PollShutdownTimeout ==
  /\ CanPoll /\ h.state = "ShuttingDown"
  /\ Returned(Deactivate(h))

PollOutboundExpired(r) ==
  /\ CanPoll /\ r \in h.outbound_substreams_delay
  /\ \E X \in SUBSET h.inbound_substreams_delay : \E expired \in Orders(X) :
       Returned(PollOutboundTimeout(h, expired, r))

\* What the transport may say of a substream, where it makes a difference
InIo(s) ==
  LET info == h.inbound_substreams[s]
  IN IF info.sending = None /\ info.pending_items = <<>> /\ h.state # "Deactivated"
       THEN {"pending"} ELSE {"pending", "sent", "error"}
OutIo(r) ==
  IF h.outbound_substreams[r].state = "Closing" THEN {"pending", "eof"}
  ELSE IF h.state = "Deactivated" THEN {"pending"}
  ELSE {"pending", "chunk", "error", "eof", "failed"}

PollSubstreams ==
  /\ CanPoll
  /\ \E X \in SUBSET h.inbound_substreams_delay :
     \E expired \in Orders(X), ins \in Orders(Inbound(h)), outs \in Orders(Outbound(h)) :
     \E inIo \in [Inbound(h) -> {"pending", "sent", "error"}] :
     \E outIo \in [Outbound(h) -> {"pending", "chunk", "error", "eof", "failed"}] :
       /\ \A s \in Inbound(h) : inIo[s] \in InIo(s)
       /\ \A r \in Outbound(h) : outIo[r] \in OutIo(r)
       /\ Returned(PollStreams(h, expired, ins, inIo, outs, outIo))

\* What poll can do when no timer has run out and the transport is not ready: begin to send a
\* response, give up a request, dial, or be done
IdleWork ==
  \/ \E s \in Inbound(h) : /\ h.inbound_substreams[s].sending = None
                           /\ h.inbound_substreams[s].pending_items # <<>>
  \/ \E r \in Outbound(h) : h.state = "Deactivated" /\ h.outbound_substreams[r].state = "Pending"
  \/ CanDial(h) \/ Completed(h)

PollIdle ==
  /\ CanPoll
  /\ IdleWork
  /\ Returned(PollStreams(h, <<>>, AnOrder(Inbound(h)), [s \in Inbound(h) |-> "pending"],
                          AnOrder(Outbound(h)), [r \in Outbound(h) |-> "pending"]))

-----------------------------------------------------------------------------
(* The behaviour is polled, and its event is handed to the swarm *)

\* Mutant: a response goes to whichever connection there is
ReachesAny(e) == link = "up"

\* NotifyHandler::One names the connection of the request; requests and the shutdown go to Any.
Reaches(e) == link = "up" /\ (e.send = "Response" => e.response.req[1] = connection)

PollEvents ==
  LET e == Head(events)
  IN /\ events # <<>> /\ events' = Tail(events)
     /\ IF e.send = "CloseConnection"
          THEN link' = (IF link = "up" THEN "closing" ELSE link) /\ UNCHANGED <<h, results>>
        ELSE IF Reaches(e)
          THEN /\ h' = CASE e.send = "Response" -> send_response(h, e.response.req[2], e.response)
                         [] e.send = "Request" -> send_request(h, e.request)
                         [] e.send = "Shutdown" -> shutdown(h, <<e.request>>)
               /\ UNCHANGED <<link, results>>
        ELSE /\ results' = IF e.send = "Response" THEN results
                           ELSE [results EXCEPT ![e.request].cut = TRUE]
             /\ UNCHANGED <<h, link>>
     /\ UNCHANGED <<connection, active_inbound_requests, limiterVars, answers>>

-----------------------------------------------------------------------------
(* The application sends a request; the peer manager shuts the connection down *)

Request(r) ==
  /\ r \in budget.requests /\ ~ results[r].sent /\ link # "down"
  /\ results' = [results EXCEPT ![r].sent = TRUE]
  /\ events' = Append(events, Send(IF KindOf[r] = "goodbye" THEN "Shutdown" ELSE "Request", r))
  /\ UNCHANGED <<h, link, connection, active_inbound_requests, limiterVars, answers>>

-----------------------------------------------------------------------------
(* The peer and the swarm *)

\* Bound: no new substream when the budget is used up, unless it will be rejected.
PeerRequest(kind, oversized) ==
  /\ link = "up" /\ h.state = "Active" /\ (oversized => kind = "stream")
  /\ \/ h.current_inbound_substream_id < budget.substreams
     \/ oversized \/ (max_responses(kind) > 0 /\ Cardinality(Inbound(h)) >= MAX_INBOUND_SUBSTREAMS)
  /\ h' = on_fully_negotiated_inbound(h, kind, oversized)
  /\ UNCHANGED <<link, connection, behaviourVars, answers, results>>

Negotiated(r) ==
  /\ link = "up" /\ r \in h.dialing
  /\ \/ h' = on_fully_negotiated_outbound(h, r)
     \/ \E ioError \in BOOLEAN : h' = on_dial_upgrade_error(h, r, ioError)
  /\ UNCHANGED <<link, connection, behaviourVars, answers, results>>

ConnectionEstablished ==
  /\ link = "down" /\ connection < budget.connections
  /\ link' = "up" /\ connection' = connection + 1 /\ h' = new
  /\ UNCHANGED <<behaviourVars, answers, results>>

\* ResponseLimiter::peer_disconnected.  The timers stay.
peer_disconnected == [proto \in Protocols |-> <<>>]

\* Mutant: the requests of the connection go on to count
MarkDisconnectedNot == active_inbound_requests

\* The requests of the connection can no longer be answered.
MarkDisconnected ==
  [id \in RequestIds |-> IF active_inbound_requests[id] = None THEN None
                         ELSE [active_inbound_requests[id] EXCEPT !.peer_disconnected = TRUE]]

\* The requests that the handler, and nobody else, knows of are cut short.
InHandler(r) == r \in Outbound(h) \cup h.dialing \cup Range(h.dial_queue)

\* on_swarm_event
ConnectionClosed ==
  /\ link # "down" /\ link' = "down" /\ h' = new
  /\ active_inbound_requests' = MarkDisconnected
  /\ delayed_responses' = peer_disconnected
  /\ events' = Without(events, {e \in Range(events) : e.send = "Request"})
  /\ results' = [r \in OutRequests |->
                   IF \E i \in DOMAIN events : events[i].send = "Request" /\ events[i].request = r
                     THEN [results[r] EXCEPT !.ends = @ + 1]
                   ELSE IF InHandler(r) \/ \E e \in Range(h.events_out) : e.type \in ForApplication /\ e.of = r
                     THEN [results[r] EXCEPT !.cut = TRUE]
                   ELSE results[r]]
  /\ UNCHANGED <<connection, next_response, answers>>

-----------------------------------------------------------------------------

Init ==
  /\ budget \in Budgets
  /\ h = new /\ link = "down" /\ connection = 0
  /\ events = <<>>
  /\ active_inbound_requests = [id \in RequestIds |-> None]
  /\ delayed_responses = [proto \in Protocols |-> <<>>]
  /\ next_response = [proto \in Protocols |-> 0]
  /\ answers = [id \in RequestIds |-> DONE]
  /\ results = [r \in OutRequests |-> [sent |-> FALSE, chunks |-> 0, ends |-> 0, cut |-> FALSE]]

Next ==
  /\ \/ PollEventsOut \/ PollShutdownTimeout \/ PollSubstreams \/ PollEvents
     \/ \E r \in OutRequests : PollOutboundExpired(r) \/ Request(r) \/ Negotiated(r)
     \/ \E id \in RequestIds : Respond(id)
     \/ \E proto \in Protocols : PollLimiter(proto)
     \/ \E kind \in budget.kinds, oversized \in BOOLEAN : PeerRequest(kind, oversized)
     \/ ConnectionEstablished \/ ConnectionClosed
  /\ UNCHANGED budget

Spec == Init /\ [][Next]_vars

\* The task of a connection polls its handler, that of the swarm the behaviour; the timers of the
\* handler run out; a negotiation succeeds, fails or times out; a connection that is to be closed
\* is closed.  Nothing is assumed of the peer, of the transport or of the application.
\* Each conjunct is the weak fairness of an action, written out with the condition under which the
\* action is enabled.
Fairness ==
  /\ []<>(link # "up" \/ h.events_out = <<>>) \/ []<><<PollEventsOut>>_stateVars
  /\ []<>(events = <<>>) \/ []<><<PollEvents>>_stateVars
  /\ []<>~(CanPoll /\ h.state = "ShuttingDown") \/ []<><<PollShutdownTimeout>>_stateVars
  /\ []<>~(CanPoll /\ IdleWork) \/ []<><<PollIdle>>_stateVars
  /\ \/ []<>~(CanPoll /\ h.outbound_substreams_delay # {})
     \/ []<><<\E r \in OutRequests : PollOutboundExpired(r)>>_stateVars
  /\ []<>~(link = "up" /\ h.dialing # {}) \/ []<><<\E r \in OutRequests : Negotiated(r)>>_stateVars
  /\ []<>(link # "closing") \/ []<><<ConnectionClosed>>_stateVars

FairSpec == Spec /\ Fairness

-----------------------------------------------------------------------------
(* Properties *)

\* Timers and what they are for agree.  A timer of the handler belongs to a substream, and every
\* outbound substream has one (poll logs "timed out substream not in the books" otherwise).  A
\* response that the limiter delays has a timer that will release it.
TimersInBooks ==
  /\ h.inbound_substreams_delay \subseteq Inbound(h)
  /\ h.outbound_substreams_delay = Outbound(h)
  /\ \A proto \in Protocols : delayed_responses[proto] # <<>> => next_response[proto] > 0

\* What the peer reads on a substream is the response to the request it sent there, from its
\* first chunk, without gaps, and nothing after an error: whatever was delayed by the limiter,
\* rejected for concurrency or still under way when an earlier connection closed.
ResponsesFaithful ==
  \A s \in Substreams : \A i \in DOMAIN h.wire[s] :
    LET response == h.wire[s][i]
    IN /\ response.req = <<connection, s>>
       /\ response.item = i \/ (close_after(response.item) /\ i = Len(h.wire[s]))

\* The limit on concurrent requests counts the requests of the present connection whose response
\* the application has not finished, no others.
LimitCountsUnanswered ==
  \A proto \in Protocols \ {"goodbye"} :
    LiveRequests(proto) =
      {id \in RequestIds : /\ answers[id] >= 0 /\ id[1] = connection /\ link # "down"
                           /\ protocol(active_inbound_requests[id].kind) = proto}

\* The application is told of no more responses than a request allows, and of none after it was
\* told that the request has ended or failed.
NoResponseAfterEnd ==
  [][\A r \in OutRequests : results'[r].chunks # results[r].chunks =>
       results[r].ends = 0 /\ results'[r].chunks <= max_responses(KindOf[r])]_vars

\* A request that is handed to the behaviour is answered, fails, or is cut short by the end of its
\* connection, whatever the peer does: the timeouts of the handler see to it.  A request that asks
\* for nothing (a goodbye, an "empty" one) is exempt, and must be: on_fully_negotiated_outbound drops
\* its substream together with the timer, and the application is never told that it has ended.
Ended(r) ==
  results[r].ends > 0 \/ results[r].cut \/ (expect_exactly_one_response(r) /\ results[r].chunks > 0)
RequestEnds ==
  \A r \in OutRequests : max_responses(KindOf[r]) > 0 => (results[r].sent ~> Ended(r))

\* A handler that shuts down gets its connection closed, also when the peer neither reads nor
\* answers.
ShutdownCloses == (h.state = "ShuttingDown") ~> (link = "down")
=============================================================================
