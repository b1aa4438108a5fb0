----------------------------- MODULE SelfLimiter -----------------------------
(***************************************************************************)
(* Outbound requests: the self-limiter (rpc/self_limiter.rs) inside the    *)
(* RPC behaviour (rpc/mod.rs), between the application that sends requests *)
(* and the connection handlers that carry them out.                        *)
(*                                                                         *)
(* The handler and the swarm are the environment.  A handler ends every    *)
(* request it is given unless its connection closes first: a request here  *)
(* asks for at least one response, as one that asks for none is never      *)
(* ended (module RPC).  A request to a peer without a connection is        *)
(* dropped by the swarm.                                                   *)
(*                                                                         *)
(* Abstractions.  The rate limiter answers Ok or TooSoon (a request that   *)
(* is TooLarge is sent like one that is Ok); RateLimiter says when.        *)
(* next_peer_request is the number of timers of each key, any of which may *)
(* expire at any time.  The chunks of a response before the last and the   *)
(* requests of the peer matter only where they complete a request in the   *)
(* books of the limiter.  A peer has one connection                        *)
(* (with_max_established_per_peer(Some(1)) in service/mod.rs).  What the   *)
(* behaviour reports to the application counts as reported when it is      *)
(* queued: nothing removes it from events but its delivery.                *)
(***************************************************************************)
EXTENDS Queues, Functions

CONSTANTS
  Requests,                       \* request ids, each sent at most once
  Keys, KeyOf,                    \* (peer, protocol) pairs, the key of a request
  Peers, PeerOf,                  \* the peer of a key
  ManyChunks,                     \* keys whose protocol has a terminator
  Internal,                       \* pings and metadata requests of the peer manager
  MAX_CONCURRENT_REQUESTS,
  RateLimited,                    \* an outbound rate limiter is configured
  InboundErrors                   \* requests of the peer may fail

ASSUME KeysAssumption ==
  /\ KeyOf \in [Requests -> Keys] /\ PeerOf \in [Keys -> Peers]
  /\ ManyChunks \subseteq Keys /\ Internal \subseteq Requests
ASSUME FiniteAssumption == IsFiniteSet(Requests)
ASSUME LimitAssumption ==
  /\ MAX_CONCURRENT_REQUESTS \in Nat \ {0}
  /\ RateLimited \in BOOLEAN /\ InboundErrors \in BOOLEAN

VARIABLES
  active_requests,                \* 0 for a key without an entry
  delayed_requests,               \* <<>> for a key without an entry
  next_peer_request,
  ready_requests,                 \* a stack
  events,                         \* requests on their way to a handler
  connected,                      \* swarm: the peers with a connection
  handler,                        \* the requests a handler works on
  fate                            \* application: what became of a request

limiterVars == <<active_requests, delayed_requests, next_peer_request, ready_requests>>
vars == <<limiterVars, events, connected, handler, fate>>

Peer(r) == PeerOf[KeyOf[r]]

-----------------------------------------------------------------------------
(* The self-limiter *)

\* try_send_request succeeds for the first n requests of a queue, and no more of its len
Admits(k, n, len) ==
  /\ n = 0 \/ active_requests[k] + n <= MAX_CONCURRENT_REQUESTS
  /\ n = len \/ RateLimited \/ active_requests[k] + n >= MAX_CONCURRENT_REQUESTS

\* allows, and send_request of the behaviour.  Network::send_request checks that the peer is
\* connected; the requests of the peer manager, which come from its event queue, do not.
send_request(r) ==
  LET k == KeyOf[r]
  IN /\ fate[r] = "unsent" /\ (Peer(r) \in connected \/ r \in Internal)
     /\ fate' = [fate EXCEPT ![r] = "open"]
     /\ \/ /\ delayed_requests[k] # <<>>
           /\ delayed_requests' = [delayed_requests EXCEPT ![k] = Append(@, r)]
           /\ UNCHANGED <<active_requests, next_peer_request, events>>
        \/ /\ delayed_requests[k] = <<>> /\ Admits(k, 1, 1)
           /\ active_requests' = [active_requests EXCEPT ![k] = @ + 1]
           /\ events' = Append(events, r)
           /\ UNCHANGED <<delayed_requests, next_peer_request>>
        \/ /\ delayed_requests[k] = <<>> /\ Admits(k, 0, 1)
           /\ delayed_requests' = [delayed_requests EXCEPT ![k] = <<r>>]
           /\ next_peer_request' = [next_peer_request EXCEPT ![k] = @ + 1]
           /\ UNCHANGED <<active_requests, events>>
     /\ UNCHANGED <<ready_requests, connected, handler>>

\* Mutant: no timer for the requests that stay delayed
next_peer_request_readyNoTimer(k, n) ==
  LET queue == delayed_requests[k]
  IN /\ Admits(k, n, Len(queue))
     /\ active_requests' = [active_requests EXCEPT ![k] = @ + n]
     /\ delayed_requests' = [delayed_requests EXCEPT ![k] = SubSeq(queue, n + 1, Len(queue))]
     /\ next_peer_request' = [next_peer_request EXCEPT ![k] = @ - 1]

\* A timer of k expires and the first n delayed requests become ready.
next_peer_request_ready(k, n) ==
  LET queue == delayed_requests[k]
  IN /\ Admits(k, n, Len(queue))
     /\ active_requests' = [active_requests EXCEPT ![k] = @ + n]
     /\ delayed_requests' = [delayed_requests EXCEPT ![k] = SubSeq(queue, n + 1, Len(queue))]
     /\ next_peer_request' = [next_peer_request EXCEPT ![k] = IF n < Len(queue) THEN @ ELSE @ - 1]

request_completed(k) ==
  active_requests' = [active_requests EXCEPT ![k] = IF @ > 1 THEN @ - 1 ELSE 0]

\* Mutant: the delayed requests are dropped without an error
FailedRequestsNone(p) == {}

\* The requests that peer_disconnected returns
FailedRequests(p) == UNION {Range(delayed_requests[k]) : k \in {x \in Keys : PeerOf[x] = p}}

\* Mutant: the number of active requests survives the connection
peer_disconnectedKeepsActive(p) ==
  /\ delayed_requests' = [k \in Keys |-> IF PeerOf[k] = p THEN <<>> ELSE delayed_requests[k]]
  /\ UNCHANGED active_requests

peer_disconnected(p) ==
  /\ active_requests' = [k \in Keys |-> IF PeerOf[k] = p THEN 0 ELSE active_requests[k]]
  /\ delayed_requests' = [k \in Keys |-> IF PeerOf[k] = p THEN <<>> ELSE delayed_requests[k]]

-----------------------------------------------------------------------------
(* poll: at most one timer, then one ready request, then one event *)

\* The swarm hands r to a handler of its peer.
Deliver(r) ==
  IF Peer(r) \in connected
    THEN handler' = [handler EXCEPT ![r] = "waiting"] /\ UNCHANGED fate
    ELSE fate' = [fate EXCEPT ![r] = "undelivered"] /\ UNCHANGED handler

\* The rest of poll, when ready are the ready requests after the timer.  The event it removes
\* may be another one that was queued before the requests.
Emit(ready) ==
  LET queue == IF ready = <<>> THEN events ELSE Append(events, ready[Len(ready)])
  IN /\ ready_requests' = IF ready = <<>> THEN <<>> ELSE SubSeq(ready, 1, Len(ready) - 1)
     /\ \/ events' = queue /\ UNCHANGED <<handler, fate>>
        \/ queue # <<>> /\ events' = Tail(queue) /\ Deliver(Head(queue))
     /\ UNCHANGED connected

Poll ==
  /\ ready_requests # <<>> \/ events # <<>>
  /\ Emit(ready_requests)
  /\ UNCHANGED <<active_requests, delayed_requests, next_peer_request>>

PollExpired(k) ==
  /\ next_peer_request[k] > 0
  /\ \E n \in 0 .. Len(delayed_requests[k]) :
       /\ next_peer_request_ready(k, n)
       /\ Emit(ready_requests \o SubSeq(delayed_requests[k], 1, n))

-----------------------------------------------------------------------------
(* Handlers and the swarm *)

\* Mutant: the limiter is not informed
ReportOnly(r) == fate' = [fate EXCEPT ![r] = "reported"] /\ UNCHANGED active_requests

\* Every result of a request other than a chunk of many, and every error, completes a request
\* in the books of the limiter.
Report(r) == fate' = [fate EXCEPT ![r] = "reported"] /\ request_completed(KeyOf[r])

\* What no event of a handler changes
handlerUnchanged ==
  UNCHANGED <<delayed_requests, next_peer_request, ready_requests, events, connected>>

\* The request fails or its stream ends.
Ends(r) ==
  /\ handler[r] = "waiting" /\ Report(r)
  /\ handler' = [handler EXCEPT ![r] = "none"]
  /\ handlerUnchanged

\* The stream is negotiated when the handler is deactivated: an error is reported, and the
\* stream is kept all the same.
NegotiatedLate(r) ==
  /\ handler[r] = "waiting" /\ fate[r] = "open" /\ Report(r)
  /\ UNCHANGED handler /\ handlerUnchanged

\* The last response arrives, and the stream is being closed.  Only the last of many chunks is
\* not reported as the end of the request.
LastResponse(r) ==
  /\ handler[r] = "waiting"
  /\ handler' = [handler EXCEPT ![r] = "closing"]
  /\ \/ Report(r)
     \/ KeyOf[r] \in ManyChunks /\ UNCHANGED <<active_requests, fate>>
  /\ handlerUnchanged

\* The stream is closed, which ends a request with many chunks, or times out.
StreamCloses(r) ==
  /\ handler[r] = "closing"
  /\ handler' = [handler EXCEPT ![r] = "none"]
  /\ \/ Report(r)
     \/ KeyOf[r] \notin ManyChunks /\ UNCHANGED <<active_requests, fate>>
  /\ handlerUnchanged

\* A request of the peer fails: HandlerErr::Inbound
InboundError(k) ==
  /\ InboundErrors /\ PeerOf[k] \in connected
  /\ request_completed(k)
  /\ UNCHANGED <<handler, fate>> /\ handlerUnchanged

Connected(p) ==
  /\ p \notin connected /\ connected' = connected \cup {p}
  /\ UNCHANGED <<limiterVars, events, handler, fate>>

\* on_swarm_event: delayed requests and requests among the events are reported as failed.
ConnectionClosed(p) ==
  LET Mine(r) == Peer(r) = p
      failed == FailedRequests(p) \cup {r \in Range(events) : Mine(r)}
  IN /\ p \in connected /\ connected' = connected \ {p}
     /\ peer_disconnected(p)
     /\ events' = Without(events, {r \in Requests : Mine(r)})
     /\ handler' = [r \in Requests |-> IF Mine(r) THEN "none" ELSE handler[r]]
     /\ fate' = [r \in Requests |->
                   IF r \in failed THEN "reported"
                   ELSE IF Mine(r) /\ handler[r] # "none" /\ fate[r] = "open" THEN "cut"
                   ELSE fate[r]]
     /\ UNCHANGED <<next_peer_request, ready_requests>>

-----------------------------------------------------------------------------

Init ==
  /\ active_requests = [k \in Keys |-> 0]
  /\ delayed_requests = [k \in Keys |-> <<>>]
  /\ next_peer_request = [k \in Keys |-> 0]
  /\ ready_requests = <<>> /\ events = <<>>
  /\ connected = {}
  /\ handler = [r \in Requests |-> "none"]
  /\ fate = [r \in Requests |-> "unsent"]

Next ==
  \/ \E r \in Requests : \/ send_request(r) \/ Ends(r) \/ NegotiatedLate(r)
                          \/ LastResponse(r) \/ StreamCloses(r)
  \/ Poll
  \/ \E k \in Keys : PollExpired(k) \/ InboundError(k)
  \/ \E p \in Peers : Connected(p) \/ ConnectionClosed(p)

Spec == Init /\ [][Next]_vars

(***************************************************************************)
(* The swarm polls the behaviour, handlers end what they are given         *)
(* (RESP_TIMEOUT), and timers expire.  That a timer finds the first        *)
(* request admitted, if the number of active requests permits, is what     *)
(* WaitSuffices of RateLimiter says: no other request of the key uses      *)
(* tokens in the meantime.                                                 *)
(***************************************************************************)
FairSpec ==
  /\ Spec
  /\ WF_vars(Poll)
  /\ \A k \in Keys : WF_vars(PollExpired(k) /\ delayed_requests'[k] # delayed_requests[k])
  /\ \A r \in Requests : WF_vars(Ends(r) \/ StreamCloses(r))

-----------------------------------------------------------------------------
(* Properties *)

\* The variables have their types: the limiter counts no negative number of active requests, and
\* no more than it allows.
TypeOK ==
  /\ active_requests \in [Keys -> 0 .. MAX_CONCURRENT_REQUESTS]
  /\ next_peer_request \in [Keys -> Nat]
  /\ delayed_requests \in [Keys -> Seq(Requests)] /\ ready_requests \in Seq(Requests)
  /\ events \in Seq(Requests)
  /\ connected \subseteq Peers
  /\ handler \in [Requests -> {"none", "waiting", "closing"}]
  /\ fate \in [Requests -> {"unsent", "open", "reported", "cut", "undelivered"}]

\* Delayed requests are not forgotten: a timer will look at them.  The stale timers that a
\* disconnection leaves behind never stand in for the one that is needed.
QueueHasTimer == \A k \in Keys : delayed_requests[k] # <<>> => next_peer_request[k] > 0

\* How often r is delayed, ready, on its way to a handler, or with one
Places(r) ==
  Occurrences(delayed_requests[KeyOf[r]], r) + Occurrences(ready_requests, r)
    + Occurrences(events, r) + (IF handler[r] = "none" THEN 0 ELSE 1)

\* No request is lost or sent twice: one the application waits for is in exactly one place, and
\* one that was reported is at most still with its handler.
RequestAccounted ==
  \A r \in Requests :
    Places(r) = CASE fate[r] = "open" -> 1
                  [] fate[r] = "reported" -> IF handler[r] = "none" THEN 0 ELSE 1
                  [] OTHER -> 0

(***************************************************************************)
(* The limiter does not leak active requests: each one it counts is still  *)
(* under way, or was sent by the peer manager to a peer that had already   *)
(* disconnected.  A leak would keep requests delayed for good.             *)
(***************************************************************************)
ActiveNotLeaked ==
  \A k \in Keys :
    active_requests[k] <= Cardinality({r \in Requests :
      /\ KeyOf[r] = k
      /\ \/ r \in Range(ready_requests \o events) \/ handler[r] # "none"
         \/ r \in Internal /\ fate[r] = "undelivered"})

\* A request leaves the behaviour: it is handed to a handler, reported or dropped.
RequestsLeave ==
  \A r \in Requests :
    (fate[r] = "open" /\ handler[r] = "none") ~> (handler[r] # "none" \/ fate[r] # "open")

\* What on_swarm_event says of a disconnection: pending requests are terminated with an error
\* for the application.
PendingRequestsReported == \A r \in Requests \ Internal : fate[r] # "undelivered"

\* What MAX_CONCURRENT_REQUESTS says: at most so many requests of a key await their response.
ConcurrencyLimit ==
  \A k \in Keys :
    Cardinality({r \in Requests : KeyOf[r] = k /\ handler[r] = "waiting" /\ fate[r] = "open"})
      <= MAX_CONCURRENT_REQUESTS
=============================================================================
