-------------------------- MODULE SelfLimiterProofs --------------------------
(***************************************************************************)
(* For every number of requests, peers and protocols: the self-limiter     *)
(* counts at most MAX_CONCURRENT_REQUESTS active requests of a key, and    *)
(* every queue of delayed requests has a timer.                            *)
(*                                                                         *)
(* Beyond the limiter: a request is in exactly one place, or its fate is   *)
(* known (RequestAccounted), and a request that is counted as active is    *)
(* one whose end will still be seen (ActiveNotLeaked).  Both count how     *)
(* often a request occurs in each of the queues, through every step that   *)
(* moves it from one to the next.                                          *)
(***************************************************************************)
EXTENDS SelfLimiter, QueueTheorems

\* What the limiter's counters, queues and timers range over
LimiterType ==
  /\ active_requests \in [Keys -> 0 .. MAX_CONCURRENT_REQUESTS]
  /\ next_peer_request \in [Keys -> Nat]
  /\ delayed_requests \in [Keys -> Seq(Requests)]

IInv == LimiterType /\ QueueHasTimer

\* The limiter starts with no timers and no delayed requests.
LEMMA InitLimiter == Init => IInv
  BY LimitAssumption DEF Init, IInv, LimiterType, QueueHasTimer

\* A queue without its first n requests is a queue, and is empty only when n are all of it.
LEMMA RestOfQueue ==
  ASSUME NEW q \in Seq(Requests), NEW n \in 0 .. Len(q)
  PROVE  /\ SubSeq(q, n + 1, Len(q)) \in Seq(Requests)
         /\ n = Len(q) => SubSeq(q, n + 1, Len(q)) = <<>>
  OBVIOUS

\* A request that is sent is counted or delayed, and the first delayed one sets a timer.
LEMMA SendKeeps == ASSUME IInv, NEW r \in Requests, send_request(r) PROVE IInv'
<1> DEFINE k == KeyOf[r]
<1>1. k \in Keys
  BY Zenon, KeysAssumption
<1> HIDE DEF k
<1>2. CASE /\ delayed_requests[k] # <<>>
           /\ delayed_requests' = [delayed_requests EXCEPT ![k] = Append(@, r)]
           /\ UNCHANGED <<active_requests, next_peer_request, events>>
  BY <1>1, <1>2 DEF IInv, LimiterType, QueueHasTimer
<1>3. CASE /\ delayed_requests[k] = <<>> /\ Admits(k, 1, 1)
           /\ active_requests' = [active_requests EXCEPT ![k] = @ + 1]
           /\ UNCHANGED <<delayed_requests, next_peer_request>>
  BY <1>1, <1>3, LimitAssumption DEF IInv, LimiterType, QueueHasTimer, Admits
<1>4. CASE /\ delayed_requests[k] = <<>> /\ Admits(k, 0, 1)
           /\ delayed_requests' = [delayed_requests EXCEPT ![k] = <<r>>]
           /\ next_peer_request' = [next_peer_request EXCEPT ![k] = @ + 1]
           /\ UNCHANGED <<active_requests, events>>
  BY <1>1, <1>4 DEF IInv, LimiterType, QueueHasTimer
<1> QED
  BY Zenon, <1>2, <1>3, <1>4 DEF send_request, k

\* An expired timer is set again unless it empties the queue.
LEMMA ReadyKeeps ==
  ASSUME IInv, NEW k \in Keys, next_peer_request[k] > 0,
         NEW n \in 0 .. Len(delayed_requests[k]), next_peer_request_ready(k, n)
  PROVE  IInv'
<1> DEFINE q == delayed_requests[k]
           rest == SubSeq(q, n + 1, Len(q))
<1>1. q \in Seq(Requests)
  BY Zenon DEF IInv, LimiterType
<1>2. rest \in Seq(Requests) /\ (n = Len(q) => rest = <<>>)
  BY Zenon, <1>1, RestOfQueue
<1>3. /\ delayed_requests' = [delayed_requests EXCEPT ![k] = rest]
      /\ next_peer_request' = [next_peer_request EXCEPT ![k] = IF n < Len(q) THEN @ ELSE @ - 1]
      /\ active_requests' = [active_requests EXCEPT ![k] = @ + n]
      /\ n = 0 \/ active_requests[k] + n <= MAX_CONCURRENT_REQUESTS
  BY Zenon DEF next_peer_request_ready, Admits
<1>4. n \in Nat /\ Len(q) \in Nat /\ n <= Len(q)
  BY <1>1
<1> HIDE DEF q, rest
<1>5. active_requests' \in [Keys -> 0 .. MAX_CONCURRENT_REQUESTS]
  BY <1>3, <1>4, LimitAssumption DEF IInv, LimiterType
<1>6. next_peer_request' \in [Keys -> Nat]
  BY <1>3, <1>4 DEF IInv, LimiterType
<1>7. delayed_requests' \in [Keys -> Seq(Requests)]
  BY Zenon, <1>2, <1>3 DEF IInv, LimiterType
<1>8. QueueHasTimer'
  BY <1>2, <1>3, <1>4 DEF IInv, LimiterType, QueueHasTimer
<1> QED
  BY Zenon, <1>5, <1>6, <1>7, <1>8 DEF IInv, LimiterType

\* A completed request leaves the count of its key in its range.
LEMMA CompletedKeeps ==
  ASSUME IInv, NEW k \in Keys, request_completed(k),
         UNCHANGED <<delayed_requests, next_peer_request>>
  PROVE  IInv'
  BY LimitAssumption DEF IInv, LimiterType, QueueHasTimer, request_completed

\* A disconnection removes the queues of the peer and leaves their timers.
LEMMA DisconnectedKeeps ==
  ASSUME IInv, NEW p \in Peers, peer_disconnected(p), UNCHANGED next_peer_request
  PROVE  IInv'
  BY LimitAssumption DEF IInv, LimiterType, QueueHasTimer, peer_disconnected

\* The limiter's variables decide the invariant.
LEMMA UnchangedKeeps ==
  ASSUME IInv, UNCHANGED <<active_requests, delayed_requests, next_peer_request>>
  PROVE  IInv'
  BY Zenon DEF IInv, LimiterType, QueueHasTimer

\* Every step of the behaviour, the handlers and the swarm keeps the invariant.
LEMMA NextKeeps == IInv /\ [Next]_vars => IInv'
<1> SUFFICES ASSUME IInv, [Next]_vars PROVE IInv'
  BY Zenon
<1>1. ASSUME NEW r \in Requests, send_request(r) PROVE IInv'
  BY Zenon, <1>1, SendKeeps
<1>2. ASSUME NEW r \in Requests,
             Ends(r) \/ NegotiatedLate(r) \/ LastResponse(r) \/ StreamCloses(r)
      PROVE  IInv'
  <2>1. KeyOf[r] \in Keys
    BY Zenon, KeysAssumption
  <2>2. UNCHANGED <<delayed_requests, next_peer_request>>
    BY Zenon, <1>2 DEF Ends, NegotiatedLate, LastResponse, StreamCloses, handlerUnchanged
  <2>3. request_completed(KeyOf[r]) \/ UNCHANGED active_requests
    BY Zenon, <1>2 DEF Ends, NegotiatedLate, LastResponse, StreamCloses, Report
  <2> QED
    BY Zenon, <2>1, <2>2, <2>3, CompletedKeeps, UnchangedKeeps
<1>3. CASE Poll
  BY Zenon, <1>3, UnchangedKeeps DEF Poll
<1>4. ASSUME NEW k \in Keys, PollExpired(k) PROVE IInv'
  BY Zenon, <1>4, ReadyKeeps DEF PollExpired
<1>5. ASSUME NEW k \in Keys, InboundError(k) PROVE IInv'
  BY Zenon, <1>5, CompletedKeeps DEF InboundError, handlerUnchanged
<1>6. ASSUME NEW p \in Peers, Connected(p) PROVE IInv'
  BY Zenon, <1>6, UnchangedKeeps DEF Connected, limiterVars
<1>7. ASSUME NEW p \in Peers, ConnectionClosed(p) PROVE IInv'
  BY Zenon, <1>7, DisconnectedKeeps DEF ConnectionClosed
<1>8. CASE UNCHANGED vars
  BY Zenon, <1>8, UnchangedKeeps DEF vars, limiterVars
<1> QED
  BY Zenon, <1>1, <1>2, <1>3, <1>4, <1>5, <1>6, <1>7, <1>8 DEF Next

\* next_peer_request_ready and peer_disconnected never leave delayed requests without a timer,
\* and try_send_request never counts more than MAX_CONCURRENT_REQUESTS active requests of a key.
THEOREM LimiterInvariant == Spec => []IInv
  BY InitLimiter, NextKeeps, PTL DEF Spec

\* Delayed requests always have a timer that will look at them.
THEOREM DelayedRequestsHaveTimer == Spec => []QueueHasTimer
<1>1. IInv => QueueHasTimer
  BY Zenon DEF IInv
<1> QED
  BY <1>1, LimiterInvariant, PTL

-----------------------------------------------------------------------------
(* Requests are neither lost nor sent twice                                *)

\* How often r is in each of the queues
Delayed(r) == Occurrences(delayed_requests[KeyOf[r]], r)
Ready(r) == Occurrences(ready_requests, r)
Queued(r) == Occurrences(events, r)

\* What RequestAccounted says of a request that is n times in the queues, and that one whose stream
\* is being closed was reported unless that is what will end it
Account(r, n, h, f) ==
  \/ f = "open" /\ n = 1 /\ h = "none"
  \/ f = "open" /\ n = 0 /\ h # "none" /\ (h = "closing" => KeyOf[r] \in ManyChunks)
  \/ f = "reported" /\ n = 0
  \/ f \in {"unsent", "cut", "undelivered"} /\ n = 0 /\ h = "none"

Accounted == \A r \in Requests : Account(r, Delayed(r) + Ready(r) + Queued(r), handler[r], fate[r])

\* What the queues behind the limiter, the handlers and the application range over
RestType ==
  /\ ready_requests \in Seq(Requests) /\ events \in Seq(Requests)
  /\ connected \subseteq Peers
  /\ handler \in [Requests -> {"none", "waiting", "closing"}]
  /\ fate \in [Requests -> {"unsent", "open", "reported", "cut", "undelivered"}]

\* A request is delayed only under its own key.
QueuesHold == \A k \in Keys : \A i \in 1 .. Len(delayed_requests[k]) : KeyOf[delayed_requests[k][i]] = k

AccountInv == IInv /\ RestType /\ QueuesHold /\ Accounted

\* The queues hold each request a number of times.
LEMMA CountsNatural ==
  ASSUME delayed_requests \in [Keys -> Seq(Requests)], ready_requests \in Seq(Requests),
         events \in Seq(Requests), NEW r \in Requests
  PROVE  Delayed(r) \in Nat /\ Ready(r) \in Nat /\ Queued(r) \in Nat
<1>1. KeyOf[r] \in Keys
  BY Zenon, KeysAssumption
<1> DEFINE q == delayed_requests[KeyOf[r]]
<1>2. q \in Seq(Requests)
  BY Zenon, <1>1
<1> HIDE DEF q
<1>3. Occurrences(q, r) \in Nat /\ Occurrences(ready_requests, r) \in Nat
      /\ Occurrences(events, r) \in Nat
  BY Zenon, <1>2, PositionsFinite
<1> QED BY Zenon, <1>3 DEF Delayed, Ready, Queued, q

\* The accounts are those of RequestAccounted.
LEMMA AccountsSame == AccountInv => RequestAccounted
<1> SUFFICES ASSUME AccountInv, NEW r \in Requests
             PROVE  Places(r) = CASE fate[r] = "open" -> 1
                                  [] fate[r] = "reported" -> IF handler[r] = "none" THEN 0 ELSE 1
                                  [] OTHER -> 0
  BY Zenon DEF RequestAccounted
<1>1. Delayed(r) \in Nat /\ Ready(r) \in Nat /\ Queued(r) \in Nat
  BY Zenon, CountsNatural DEF AccountInv, IInv, LimiterType, RestType
<1>2. Places(r) = Delayed(r) + Ready(r) + Queued(r) + (IF handler[r] = "none" THEN 0 ELSE 1)
  BY Zenon DEF Places, Delayed, Ready, Queued
<1>3. Account(r, Delayed(r) + Ready(r) + Queued(r), handler[r], fate[r])
  BY Zenon DEF AccountInv, Accounted
<1> QED BY <1>1, <1>2, <1>3 DEF Account

\* Before anything is sent, nothing is anywhere.
LEMMA InitAccounts == Init => AccountInv
<1> SUFFICES ASSUME Init PROVE AccountInv
  BY Zenon
<1>1. IInv
  BY Zenon, InitLimiter
<1>2. RestType
  BY DEF Init, RestType
<1>3. QueuesHold
  BY DEF Init, QueuesHold
<1>4. ASSUME NEW r \in Requests
      PROVE  Account(r, Delayed(r) + Ready(r) + Queued(r), handler[r], fate[r])
  <2>1. KeyOf[r] \in Keys
    BY Zenon, KeysAssumption
  <2>2. delayed_requests[KeyOf[r]] = <<>> /\ ready_requests = <<>> /\ events = <<>>
    BY Zenon, <2>1 DEF Init
  <2>3. Delayed(r) = 0 /\ Ready(r) = 0 /\ Queued(r) = 0
    BY Zenon, <2>2, OccursEmpty DEF Delayed, Ready, Queued
  <2> QED BY <2>3 DEF Account, Init
<1> QED BY Zenon, <1>1, <1>2, <1>3, <1>4 DEF AccountInv, Accounted

\* The queue of one key is replaced.
LEMMA DelayedReplaced ==
  ASSUME delayed_requests \in [Keys -> Seq(Requests)], NEW k \in Keys, NEW q \in Seq(Requests),
         delayed_requests' = [delayed_requests EXCEPT ![k] = q], NEW r \in Requests
  PROVE  Delayed(r)' = IF KeyOf[r] = k THEN Occurrences(q, r) ELSE Delayed(r)
<1>1. KeyOf[r] \in Keys
  BY Zenon, KeysAssumption
<1>2. delayed_requests'[KeyOf[r]] = IF KeyOf[r] = k THEN q ELSE delayed_requests[KeyOf[r]]
  BY Zenon, <1>1
<1> QED BY <1>2 DEF Delayed

\* A queue of one
LEMMA OneQueued ==
  ASSUME NEW r \in Requests
  PROVE  /\ <<r>> \in Seq(Requests) /\ Append(<<>>, r) = <<r>>
         /\ \A x : Occurrences(<<r>>, x) = IF r = x THEN 1 ELSE 0
<1> DEFINE none == <<>>
<1>1. none \in Seq(Requests)
  OBVIOUS
<1>2. Append(none, r) = <<r>> /\ <<r>> \in Seq(Requests)
  OBVIOUS
<1>3. \A x : Occurrences(none, x) = 0
  BY Zenon, OccursEmpty
<1> HIDE DEF none
<1>4. \A x : Occurrences(Append(none, r), x) = 0 + (IF r = x THEN 1 ELSE 0)
  BY <1>1, <1>3, OccursAppend
<1> QED BY <1>2, <1>4 DEF none

\* A request that is sent is put into one queue, and counted unless it is delayed.
LEMMA SendMoves ==
  ASSUME AccountInv, NEW r \in Requests, send_request(r)
  PROVE  /\ events' \in Seq(Requests) /\ QueuesHold'
         /\ \/ /\ UNCHANGED active_requests
               /\ \A x \in Requests : /\ Delayed(x)' = Delayed(x) + (IF r = x THEN 1 ELSE 0)
                                      /\ Ready(x)' = Ready(x) /\ Queued(x)' = Queued(x)
            \/ /\ active_requests' = [active_requests EXCEPT ![KeyOf[r]] = @ + 1]
               /\ \A x \in Requests : /\ Queued(x)' = Queued(x) + (IF r = x THEN 1 ELSE 0)
                                      /\ Ready(x)' = Ready(x) /\ Delayed(x)' = Delayed(x)
<1> DEFINE k == KeyOf[r]
           q == delayed_requests[k]
           One(x) == IF r = x THEN 1 ELSE 0
<1>1. k \in Keys
  BY Zenon, KeysAssumption
<1>2. /\ q \in Seq(Requests) /\ events \in Seq(Requests) /\ ready_requests \in Seq(Requests)
      /\ delayed_requests \in [Keys -> Seq(Requests)]
  BY Zenon, <1>1 DEF AccountInv, IInv, LimiterType, RestType
<1>3. UNCHANGED ready_requests
  BY Zenon DEF send_request
<1>4. \A x \in Requests : Delayed(x) \in Nat /\ Ready(x)' = Ready(x)
  BY Zenon, <1>2, <1>3, CountsNatural DEF Ready
<1>5. Append(q, r) \in Seq(Requests) /\ Append(events, r) \in Seq(Requests) /\ <<r>> \in Seq(Requests)
  BY <1>2, OneQueued
<1>6. CASE /\ events' = events /\ delayed_requests' = [delayed_requests EXCEPT ![k] = Append(q, r)]
           /\ UNCHANGED active_requests
  <2>1. QueuesHold'
    <3>1. \A i \in 1 .. Len(Append(q, r)) : KeyOf[Append(q, r)[i]] = k
      BY <1>1, <1>2 DEF AccountInv, QueuesHold
    <3> HIDE DEF q, k
    <3> QED BY Zenon, <1>1, <1>2, <1>6, <3>1 DEF AccountInv, QueuesHold
  <2>2. ASSUME NEW x \in Requests PROVE Delayed(x)' = Delayed(x) + One(x)
    <3>1. Occurrences(Append(q, r), x) = Occurrences(q, x) + One(x)
      BY <1>2, OccursAppend
    <3>2. Delayed(x)' = IF KeyOf[x] = k THEN Occurrences(Append(q, r), x) ELSE Delayed(x)
      <4> HIDE DEF q, k
      <4> QED BY Zenon, <1>1, <1>2, <1>5, <1>6, DelayedReplaced
    <3> QED BY <1>4, <3>1, <3>2 DEF Delayed
  <2>3. \A x \in Requests : Queued(x)' = Queued(x)
    BY Zenon, <1>6 DEF Queued
  <2> QED BY Zenon, <1>2, <1>4, <1>6, <2>1, <2>2, <2>3
<1>7. CASE /\ events' = Append(events, r) /\ delayed_requests' = delayed_requests
           /\ active_requests' = [active_requests EXCEPT ![k] = @ + 1]
  <2>1. \A x \in Requests : Queued(x)' = Queued(x) + One(x)
    BY <1>2, <1>7, OccursAppend DEF Queued
  <2>2. \A x \in Requests : Delayed(x)' = Delayed(x)
    BY Zenon, <1>7 DEF Delayed
  <2>3. QueuesHold'
    BY Zenon, <1>7 DEF AccountInv, QueuesHold
  <2> QED BY Zenon, <1>4, <1>5, <1>7, <2>1, <2>2, <2>3
<1>8. CASE /\ events' = events /\ q = <<>> /\ delayed_requests' = [delayed_requests EXCEPT ![k] = <<r>>]
           /\ UNCHANGED active_requests
  <2>1. QueuesHold'
    BY <1>1, <1>2, <1>8 DEF AccountInv, QueuesHold
  <2>2. ASSUME NEW x \in Requests PROVE Delayed(x)' = Delayed(x) + One(x)
    <3>1. Occurrences(<<r>>, x) = One(x) /\ Occurrences(q, x) = 0
      BY Zenon, <1>8, OneQueued, OccursEmpty
    <3>2. Delayed(x)' = IF KeyOf[x] = k THEN Occurrences(<<r>>, x) ELSE Delayed(x)
      <4> HIDE DEF q, k
      <4> QED BY Zenon, <1>1, <1>2, <1>5, <1>8, DelayedReplaced
    <3> QED BY <1>4, <3>1, <3>2 DEF Delayed
  <2>3. \A x \in Requests : Queued(x)' = Queued(x)
    BY Zenon, <1>8 DEF Queued
  <2> QED BY Zenon, <1>2, <1>4, <1>8, <2>1, <2>2, <2>3
<1> QED BY Zenon, <1>6, <1>7, <1>8 DEF send_request

\* A request that is sent is open, and in one place.
LEMMA SendAccounts == ASSUME AccountInv, NEW r \in Requests, send_request(r) PROVE AccountInv'
<1>1. /\ fate[r] = "unsent" /\ fate' = [fate EXCEPT ![r] = "open"]
      /\ UNCHANGED <<ready_requests, connected, handler>>
  BY Zenon DEF send_request
<1>2. IInv'
  BY Zenon, SendKeeps DEF AccountInv
<1>3. events' \in Seq(Requests) /\ QueuesHold'
  BY Zenon, SendMoves
<1>4. RestType'
  BY Zenon, <1>1, <1>3 DEF AccountInv, RestType
<1>5. ASSUME NEW x \in Requests
      PROVE  Account(x, Delayed(x)' + Ready(x)' + Queued(x)', handler'[x], fate'[x])
  <2> DEFINE one == IF r = x THEN 1 ELSE 0
  <2>1. Delayed(x) \in Nat /\ Ready(x) \in Nat /\ Queued(x) \in Nat /\ one \in Nat
    BY Zenon, CountsNatural DEF AccountInv, RestType, IInv, LimiterType
  <2>2. \/ Delayed(x)' = Delayed(x) + one /\ Ready(x)' = Ready(x) /\ Queued(x)' = Queued(x)
        \/ Queued(x)' = Queued(x) + one /\ Ready(x)' = Ready(x) /\ Delayed(x)' = Delayed(x)
    BY Zenon, SendMoves
  <2>3. Delayed(x)' + Ready(x)' + Queued(x)' = Delayed(x) + Ready(x) + Queued(x) + one
    <3> HIDE DEF one
    <3> QED BY <2>1, <2>2
  <2>4. Account(x, Delayed(x) + Ready(x) + Queued(x), handler[x], fate[x])
    BY Zenon DEF AccountInv, Accounted
  <2>5. fate'[x] = (IF x = r THEN "open" ELSE fate[x]) /\ handler'[x] = handler[x]
    BY Zenon, <1>1 DEF AccountInv, RestType
  <2> QED BY <1>1, <2>1, <2>3, <2>4, <2>5 DEF Account
<1> QED BY Zenon, <1>2, <1>3, <1>4, <1>5 DEF AccountInv, Accounted

\* What poll does with the ready requests and the events: one of them may leave, to a handler.
LEMMA EmitMoves ==
  ASSUME events \in Seq(Requests), NEW ready \in Seq(Requests), Emit(ready)
  PROVE  /\ ready_requests' \in Seq(Requests) /\ events' \in Seq(Requests) /\ connected' = connected
         /\ \/ /\ UNCHANGED <<handler, fate>>
               /\ \A x \in Requests : Ready(x)' + Queued(x)' = Occurrences(ready, x) + Queued(x)
            \/ \E r \in Requests :
                 /\ Deliver(r)
                 /\ \A x \in Requests : Ready(x)' + Queued(x)' + (IF r = x THEN 1 ELSE 0)
                                          = Occurrences(ready, x) + Queued(x)
<1> DEFINE queue == IF ready = <<>> THEN events ELSE Append(events, ready[Len(ready)])
           kept == IF ready = <<>> THEN <<>> ELSE SubSeq(ready, 1, Len(ready) - 1)
<1>1. /\ ready_requests' = kept /\ connected' = connected
      /\ \/ events' = queue /\ UNCHANGED <<handler, fate>>
         \/ queue # <<>> /\ events' = Tail(queue) /\ Deliver(Head(queue))
  BY Zenon DEF Emit
<1>2. /\ kept \in Seq(Requests) /\ queue \in Seq(Requests)
      /\ \A x \in Requests : Occurrences(kept, x) + Occurrences(queue, x)
                               = Occurrences(ready, x) + Occurrences(events, x)
  <2>1. CASE ready = <<>>
    <3>1. kept = <<>> /\ queue = events /\ kept = ready
      BY Zenon, <2>1
    <3> QED BY Zenon, <3>1
  <2>2. CASE ready # <<>>
    <3> DEFINE f == SubSeq(ready, 1, Len(ready) - 1)
               l == ready[Len(ready)]
    <3>1. /\ f \in Seq(Requests) /\ l \in Requests
          /\ \A x \in Requests : Occurrences(ready, x) = Occurrences(f, x) + (IF l = x THEN 1 ELSE 0)
      BY <2>2, OccursFrontLast
    <3>2. kept = f /\ queue = Append(events, l)
      BY Zenon, <2>2
    <3> HIDE DEF f, l, kept, queue
    <3>3. Append(events, l) \in Seq(Requests)
      BY <3>1
    <3>4. \A x \in Requests :
            Occurrences(Append(events, l), x) = Occurrences(events, x) + (IF l = x THEN 1 ELSE 0)
      BY <3>1, OccursAppend
    <3>5. \A x \in Requests : Occurrences(f, x) \in Nat /\ Occurrences(events, x) \in Nat
      BY Zenon, <3>1, PositionsFinite
    <3> QED BY <3>1, <3>2, <3>3, <3>4, <3>5
  <2> QED BY Zenon, <2>1, <2>2
<1> HIDE DEF queue, kept
<1>3. \A x \in Requests : Occurrences(kept, x) \in Nat /\ Occurrences(queue, x) \in Nat
  BY Zenon, <1>2, PositionsFinite
<1>4. CASE events' = queue /\ UNCHANGED <<handler, fate>>
  BY Zenon, <1>1, <1>2, <1>4 DEF Ready, Queued
<1>5. CASE queue # <<>> /\ events' = Tail(queue) /\ Deliver(Head(queue))
  <2> DEFINE r == Head(queue)
             t == Tail(queue)
  <2>1. /\ r \in Requests /\ t \in Seq(Requests)
        /\ \A x \in Requests : Occurrences(queue, x) = (IF r = x THEN 1 ELSE 0) + Occurrences(t, x)
    BY <1>2, <1>5, OccursHeadTail
  <2>2. \A x \in Requests : Occurrences(t, x) \in Nat
    BY Zenon, <2>1, PositionsFinite
  <2>3. events' = t /\ Deliver(r)
    BY Zenon, <1>5
  <2> HIDE DEF r, t
  <2>4. \A x \in Requests : Ready(x)' + Queued(x)' + (IF r = x THEN 1 ELSE 0)
                              = Occurrences(ready, x) + Queued(x)
    <3>1. \A x \in Requests : /\ Ready(x)' = Occurrences(kept, x) /\ Queued(x)' = Occurrences(t, x)
                              /\ Queued(x) = Occurrences(events, x)
      BY Zenon, <1>1, <2>3 DEF Ready, Queued
    <3> QED BY <1>2, <1>3, <2>1, <2>2, <3>1, SMTT(30)
  <2> QED BY Zenon, <1>1, <1>2, <2>1, <2>3, <2>4
<1> QED BY Zenon, <1>1, <1>4, <1>5

\* The ready requests are now ready, and those that were added to them were delayed.
BecomeReady(ready) ==
  \A x \in Requests : Delayed(x)' + Occurrences(ready, x) = Delayed(x) + Ready(x)

\* A request that leaves the queues of the behaviour goes to a handler or is dropped by the swarm.
LEMMA EmitAccounts ==
  ASSUME AccountInv, IInv', QueuesHold', NEW ready \in Seq(Requests), Emit(ready),
         BecomeReady(ready)
  PROVE  AccountInv'
<1>1. events \in Seq(Requests) /\ ready_requests \in Seq(Requests)
      /\ delayed_requests \in [Keys -> Seq(Requests)]
  BY Zenon DEF AccountInv, RestType, IInv, LimiterType
<1>2. ready_requests' \in Seq(Requests) /\ events' \in Seq(Requests) /\ connected' = connected
  BY Zenon, <1>1, EmitMoves
<1>3. delayed_requests' \in [Keys -> Seq(Requests)]
  BY Zenon DEF IInv, LimiterType
<1>4. \A x \in Requests : /\ Delayed(x) \in Nat /\ Ready(x) \in Nat /\ Queued(x) \in Nat
                          /\ Occurrences(ready, x) \in Nat
  BY Zenon, <1>1, CountsNatural, PositionsFinite
<1>5. \A x \in Requests : Delayed(x)' \in Nat /\ Ready(x)' \in Nat /\ Queued(x)' \in Nat
  BY Zenon, <1>2, <1>3, KeysAssumption, PositionsFinite DEF Delayed, Ready, Queued
<1>6. \A x \in Requests : Account(x, Delayed(x) + Ready(x) + Queued(x), handler[x], fate[x])
  BY Zenon DEF AccountInv, Accounted
<1>7. RestType' /\ Accounted'
  <2>1. CASE /\ UNCHANGED <<handler, fate>>
             /\ \A x \in Requests : Ready(x)' + Queued(x)' = Occurrences(ready, x) + Queued(x)
    <3>1. RestType'
      BY Zenon, <1>2, <2>1 DEF AccountInv, RestType
    <3>2. \A x \in Requests : Delayed(x)' + Ready(x)' + Queued(x)' = Delayed(x) + Ready(x) + Queued(x)
      <4> TAKE x \in Requests
      <4>1. /\ Delayed(x) \in Nat /\ Ready(x) \in Nat /\ Queued(x) \in Nat
            /\ Delayed(x)' \in Nat /\ Ready(x)' \in Nat /\ Queued(x)' \in Nat
            /\ Occurrences(ready, x) \in Nat
        BY Zenon, <1>4, <1>5
      <4>2. /\ Ready(x)' + Queued(x)' = Occurrences(ready, x) + Queued(x)
            /\ Delayed(x)' + Occurrences(ready, x) = Delayed(x) + Ready(x)
        BY Zenon, <2>1 DEF BecomeReady
      <4>3. PICK d \in Nat, a \in Nat, q \in Nat, d2 \in Nat, a2 \in Nat, q2 \in Nat, o \in Nat :
               /\ d = Delayed(x) /\ a = Ready(x) /\ q = Queued(x) /\ o = Occurrences(ready, x)
               /\ d2 = Delayed(x)' /\ a2 = Ready(x)' /\ q2 = Queued(x)'
        BY <4>1, Zenon
      <4>4. a2 + q2 = o + q /\ d2 + o = d + a
        BY <4>2, <4>3, Zenon
      <4>5. d2 + a2 + q2 = d + a + q
        BY <4>4
      <4> QED BY <4>3, <4>5, Zenon
    <3> QED BY Zenon, <1>6, <2>1, <3>1, <3>2 DEF Accounted
  <2>2. ASSUME NEW r \in Requests, Deliver(r),
               \A x \in Requests : Ready(x)' + Queued(x)' + (IF r = x THEN 1 ELSE 0)
                                     = Occurrences(ready, x) + Queued(x)
        PROVE  RestType' /\ Accounted'
    <3>1. \A x \in Requests : Delayed(x)' + Ready(x)' + Queued(x)' + (IF r = x THEN 1 ELSE 0)
                                = Delayed(x) + Ready(x) + Queued(x)
      <4> TAKE x \in Requests
      <4>1. /\ Delayed(x) \in Nat /\ Ready(x) \in Nat /\ Queued(x) \in Nat
            /\ Delayed(x)' \in Nat /\ Ready(x)' \in Nat /\ Queued(x)' \in Nat
            /\ Occurrences(ready, x) \in Nat
        BY Zenon, <1>4, <1>5
      <4>2. /\ Ready(x)' + Queued(x)' + (IF r = x THEN 1 ELSE 0) = Occurrences(ready, x) + Queued(x)
            /\ Delayed(x)' + Occurrences(ready, x) = Delayed(x) + Ready(x)
        BY Zenon, <2>2 DEF BecomeReady
      <4>3. PICK d \in Nat, a \in Nat, q \in Nat, d2 \in Nat, a2 \in Nat, q2 \in Nat, o \in Nat :
               /\ d = Delayed(x) /\ a = Ready(x) /\ q = Queued(x) /\ o = Occurrences(ready, x)
               /\ d2 = Delayed(x)' /\ a2 = Ready(x)' /\ q2 = Queued(x)'
        BY <4>1, Zenon
      <4> DEFINE i == IF r = x THEN 1 ELSE 0
      <4>4. i \in Nat
        BY Zenon
      <4>5. a2 + q2 + i = o + q /\ d2 + o = d + a
        BY <4>2, <4>3, Zenon
      <4>6. d2 + a2 + q2 + i = d + a + q
        <5> HIDE DEF i
        <5> QED BY <4>4, <4>5
      <4> QED BY <4>3, <4>6, Zenon
    <3>2. handler \in [Requests -> {"none", "waiting", "closing"}]
          /\ fate \in [Requests -> {"unsent", "open", "reported", "cut", "undelivered"}]
      BY Zenon DEF AccountInv, RestType
    <3>3. \/ handler' = [handler EXCEPT ![r] = "waiting"] /\ fate' = fate
          \/ fate' = [fate EXCEPT ![r] = "undelivered"] /\ handler' = handler
      BY Zenon, <2>2 DEF Deliver
    <3>4. RestType'
      BY Zenon, <1>2, <3>2, <3>3 DEF AccountInv, RestType
    <3>5. ASSUME NEW x \in Requests
          PROVE  Account(x, Delayed(x)' + Ready(x)' + Queued(x)', handler'[x], fate'[x])
      <4>1. CASE x # r
        <5>1. handler'[x] = handler[x] /\ fate'[x] = fate[x]
          BY Zenon, <3>2, <3>3, <4>1
        <5>2. Delayed(x)' + Ready(x)' + Queued(x)' = Delayed(x) + Ready(x) + Queued(x)
          BY <1>5, <3>1, <4>1
        <5> QED BY Zenon, <1>6, <5>1, <5>2
      <4>2. CASE x = r
        <5>1. Delayed(r) + Ready(r) + Queued(r) > 0
          <6>1. Delayed(r)' + Ready(r)' + Queued(r)' + 1 = Delayed(r) + Ready(r) + Queued(r)
            BY Zenon, <3>1
          <6> QED BY <1>5, <6>1
        <5>2. Delayed(r) + Ready(r) + Queued(r) = 1 /\ fate[r] = "open" /\ handler[r] = "none"
          BY <1>6, <5>1 DEF Account
        <5>3. Delayed(r)' + Ready(r)' + Queued(r)' = 0
          BY <1>5, <3>1, <5>2
        <5>4. \/ handler'[r] = "waiting" /\ fate'[r] = "open"
              \/ handler'[r] = "none" /\ fate'[r] = "undelivered"
          BY Zenon, <3>2, <3>3, <5>2
        <5> QED BY Zenon, <4>2, <5>3, <5>4 DEF Account
      <4> QED BY Zenon, <4>1, <4>2
    <3> QED BY Zenon, <3>4, <3>5 DEF Accounted
  <2> QED BY Zenon, <1>1, <2>1, <2>2, EmitMoves
<1> QED BY Zenon, <1>7 DEF AccountInv

\* poll, when no timer has expired
LEMMA PollAccounts == ASSUME AccountInv, Poll PROVE AccountInv'
<1>1. /\ Emit(ready_requests) /\ UNCHANGED <<active_requests, delayed_requests, next_peer_request>>
  BY Zenon DEF Poll
<1>2. IInv' /\ QueuesHold'
  BY Zenon, <1>1, UnchangedKeeps DEF AccountInv, QueuesHold
<1>3. \A x \in Requests : Delayed(x)' = Delayed(x)
  BY Zenon, <1>1 DEF Delayed
<1>4. BecomeReady(ready_requests)
  BY Zenon, <1>3 DEF Ready, BecomeReady
<1>5. ready_requests \in Seq(Requests)
  BY Zenon DEF AccountInv, RestType
<1> QED BY Zenon, <1>1, <1>2, <1>4, <1>5, EmitAccounts

\* A timer of k has expired: the first delayed requests of k, a, are ready and counted.
LEMMA ExpiredMoves ==
  ASSUME AccountInv, NEW k \in Keys, PollExpired(k)
  PROVE  \E n \in 0 .. Len(delayed_requests[k]), a \in Seq(Requests) :
           /\ active_requests' = [active_requests EXCEPT ![k] = @ + n]
           /\ Len(a) = n /\ \A i \in 1 .. n : a[i] = delayed_requests[k][i]
           /\ ready_requests \o a \in Seq(Requests) /\ Emit(ready_requests \o a)
           /\ \A x \in Requests : Occurrences(ready_requests \o a, x) = Ready(x) + Occurrences(a, x)
           /\ BecomeReady(ready_requests \o a) /\ IInv' /\ QueuesHold'
<1> DEFINE q == delayed_requests[k]
<1>1. /\ q \in Seq(Requests) /\ ready_requests \in Seq(Requests)
      /\ delayed_requests \in [Keys -> Seq(Requests)]
  BY Zenon DEF AccountInv, IInv, LimiterType, RestType
<1>2. PICK n \in 0 .. Len(q) : /\ next_peer_request_ready(k, n)
                               /\ Emit(ready_requests \o SubSeq(q, 1, n))
  BY Zenon DEF PollExpired
<1> DEFINE a == SubSeq(q, 1, n)
           b == SubSeq(q, n + 1, Len(q))
<1>3. IInv'
  BY Zenon, <1>2, ReadyKeeps DEF AccountInv, PollExpired
<1>4. delayed_requests' = [delayed_requests EXCEPT ![k] = b]
  BY Zenon, <1>2 DEF next_peer_request_ready
<1>5. n \in Nat /\ Len(q) \in Nat /\ n <= Len(q)
  BY <1>1, <1>2
<1>6. a \in Seq(Requests) /\ b \in Seq(Requests)
      /\ \A x \in Requests : Occurrences(q, x) = Occurrences(a, x) + Occurrences(b, x)
  <2> HIDE DEF q
  <2> QED BY Zenon, <1>1, <1>2, OccursSplit
<1>7. \A i \in 1 .. Len(q) : KeyOf[q[i]] = k /\ q[i] \in Requests
  BY <1>1 DEF AccountInv, QueuesHold
<1>8. Len(a) = n /\ \A i \in 1 .. n : a[i] = q[i]
  <2> HIDE DEF q
  <2> QED BY <1>5, <1>7, SubSeqElements
<1>9. Len(b) = Len(q) - n /\ \A i \in 1 .. Len(q) - n : b[i] = q[n + i]
  <2> HIDE DEF q
  <2> QED BY <1>5, <1>7, SubSeqElements
<1>10. Emit(ready_requests \o a)
  BY Zenon, <1>2
<1> HIDE DEF q, a, b
<1>11. ready_requests \o a \in Seq(Requests)
  BY <1>1, <1>6
<1>12. QueuesHold'
  <2>1. \A i \in 1 .. Len(b) : KeyOf[b[i]] = k
    BY <1>5, <1>7, <1>9
  <2> QED BY Zenon, <1>1, <1>4, <2>1 DEF AccountInv, QueuesHold
<1>13. ASSUME NEW x \in Requests
       PROVE  Delayed(x)' + Occurrences(ready_requests \o a, x) = Delayed(x) + Ready(x)
  <2>1. /\ Occurrences(ready_requests \o a, x) = Ready(x) + Occurrences(a, x)
        /\ Ready(x) \in Nat /\ Occurrences(a, x) \in Nat /\ Occurrences(b, x) \in Nat
        /\ Delayed(x) \in Nat
    <3>1. Ready(x) = Occurrences(ready_requests, x)
      BY Zenon DEF Ready
    <3>2. KeyOf[x] \in Keys /\ delayed_requests[KeyOf[x]] \in Seq(Requests)
      BY Zenon, <1>1, KeysAssumption
    <3>3. Delayed(x) \in Nat
      BY Zenon, <3>2, PositionsFinite DEF Delayed
    <3> QED BY <1>1, <1>6, <3>1, <3>3, OccursConcat, PositionsFinite
  <2>2. Delayed(x)' = IF KeyOf[x] = k THEN Occurrences(b, x) ELSE Delayed(x)
    BY Zenon, <1>1, <1>4, <1>6, DelayedReplaced
  <2>3. CASE KeyOf[x] = k
    <3>1. Delayed(x) = Occurrences(a, x) + Occurrences(b, x)
      BY Zenon, <1>6, <2>3 DEF Delayed, q
    <3> QED BY <2>1, <2>2, <2>3, <3>1
  <2>4. CASE KeyOf[x] # k
    <3>1. ~ \E i \in 1 .. Len(a) : a[i] = x
      BY <1>5, <1>7, <1>8, <2>4
    <3>2. Occurrences(a, x) = 0
      BY <1>6, <2>1, <3>1, OccursSomewhere
    <3> QED BY <2>1, <2>2, <2>4, <3>2
  <2> QED BY Zenon, <2>3, <2>4
<1>14. BecomeReady(ready_requests \o a)
  BY Zenon, <1>13 DEF BecomeReady
<1>15. \A x \in Requests : Occurrences(ready_requests \o a, x) = Ready(x) + Occurrences(a, x)
  BY <1>1, <1>6, OccursConcat DEF Ready
<1>16. active_requests' = [active_requests EXCEPT ![k] = @ + n]
  BY Zenon, <1>2 DEF next_peer_request_ready
<1> QED BY Zenon, <1>3, <1>6, <1>8, <1>10, <1>11, <1>12, <1>14, <1>15, <1>16 DEF q

\* poll, when a timer of k has expired
LEMMA ExpiredAccounts == ASSUME AccountInv, NEW k \in Keys, PollExpired(k) PROVE AccountInv'
  BY Zenon, ExpiredMoves, EmitAccounts

\* A handler ends a request, or reports it and keeps it: the queues do not change.
LEMMA HandlerAccounts ==
  ASSUME AccountInv, NEW r \in Requests,
         Ends(r) \/ NegotiatedLate(r) \/ LastResponse(r) \/ StreamCloses(r)
  PROVE  AccountInv'
<1>1. /\ UNCHANGED <<delayed_requests, next_peer_request, ready_requests, events, connected>>
      /\ handler[r] # "none"
      /\ \/ handler' = handler /\ fate' = [fate EXCEPT ![r] = "reported"]
         \/ /\ \E h \in {"none", "closing"} : handler' = [handler EXCEPT ![r] = h]
            /\ fate' = [fate EXCEPT ![r] = "reported"]
         \/ /\ handler' = [handler EXCEPT ![r] = "closing"] /\ fate' = fate /\ KeyOf[r] \in ManyChunks
         \/ /\ handler[r] = "closing" /\ KeyOf[r] \notin ManyChunks
            /\ handler' = [handler EXCEPT ![r] = "none"] /\ fate' = fate
  BY Zenon DEF Ends, NegotiatedLate, LastResponse, StreamCloses, Report, handlerUnchanged
<1>2. IInv' /\ QueuesHold'
  <2>1. KeyOf[r] \in Keys
    BY Zenon, KeysAssumption
  <2>2. request_completed(KeyOf[r]) \/ UNCHANGED active_requests
    BY Zenon DEF Ends, NegotiatedLate, LastResponse, StreamCloses, Report
  <2> QED BY Zenon, <1>1, <2>1, <2>2, CompletedKeeps, UnchangedKeeps DEF AccountInv, QueuesHold
<1>3. /\ handler \in [Requests -> {"none", "waiting", "closing"}]
      /\ fate \in [Requests -> {"unsent", "open", "reported", "cut", "undelivered"}]
  BY Zenon DEF AccountInv, RestType
<1>4. RestType'
  BY Zenon, <1>1, <1>3 DEF AccountInv, RestType
<1>5. ASSUME NEW x \in Requests
      PROVE  Account(x, Delayed(x)' + Ready(x)' + Queued(x)', handler'[x], fate'[x])
  <2>1. Delayed(x)' = Delayed(x) /\ Ready(x)' = Ready(x) /\ Queued(x)' = Queued(x)
    BY Zenon, <1>1 DEF Delayed, Ready, Queued
  <2>2. Account(x, Delayed(x) + Ready(x) + Queued(x), handler[x], fate[x])
    BY Zenon DEF AccountInv, Accounted
  <2> DEFINE n == Delayed(x) + Ready(x) + Queued(x)
  <2> HIDE DEF n
  <2>3. Account(x, n, handler[x], fate[x])
    BY Zenon, <2>2 DEF n
  <2>4. Account(x, n, handler'[x], fate'[x])
    BY Zenon, <1>1, <1>3, <2>3 DEF Account
  <2> QED BY Zenon, <2>1, <2>4 DEF n
<1> QED BY Zenon, <1>2, <1>4, <1>5 DEF AccountInv, Accounted

\* peer_disconnected returns the requests of the peer that were delayed.
LEMMA FailedAreDelayed ==
  ASSUME AccountInv, NEW p \in Peers, NEW r \in Requests
  PROVE  r \in FailedRequests(p) <=> Peer(r) = p /\ Delayed(r) > 0
<1>1. KeyOf[r] \in Keys /\ delayed_requests \in [Keys -> Seq(Requests)] /\ QueuesHold
  BY Zenon, KeysAssumption DEF AccountInv, IInv, LimiterType
<1>2. \A k \in Keys : r \in Range(delayed_requests[k]) <=> k = KeyOf[r] /\ Delayed(r) > 0
  <2> TAKE k \in Keys
  <2> DEFINE q == delayed_requests[k]
  <2>1. q \in Seq(Requests) /\ (\A i \in 1 .. Len(q) : KeyOf[q[i]] = k)
    BY Zenon, <1>1 DEF QueuesHold
  <2>2. KeyOf[r] = k => Delayed(r) = Occurrences(q, r)
    BY Zenon DEF Delayed
  <2> HIDE DEF q
  <2>3. r \in Range(q) <=> \E i \in 1 .. Len(q) : q[i] = r
    BY <2>1 DEF Range
  <2>4. Occurrences(q, r) > 0 <=> \E i \in 1 .. Len(q) : q[i] = r
    BY Zenon, <2>1, OccursSomewhere
  <2>5. r \in Range(q) <=> k = KeyOf[r] /\ Delayed(r) > 0
    BY Zenon, <2>1, <2>2, <2>3, <2>4
  <2> QED BY Zenon, <2>5 DEF q
<1> QED BY Zenon, <1>1, <1>2 DEF FailedRequests, Peer

\* A disconnection reports what is delayed or on its way to the handler, and cuts off what the
\* handler works on.
LEMMA ClosedMoves ==
  ASSUME AccountInv, NEW p \in Peers, ConnectionClosed(p)
  PROVE  /\ RestType' /\ QueuesHold'
         /\ \A r \in Requests :
              /\ Delayed(r)' = (IF Peer(r) = p THEN 0 ELSE Delayed(r)) /\ Ready(r)' = Ready(r)
              /\ Queued(r)' = (IF Peer(r) = p THEN 0 ELSE Queued(r))
              /\ handler'[r] = (IF Peer(r) = p THEN "none" ELSE handler[r])
              /\ fate'[r] = IF Peer(r) = p /\ (Delayed(r) > 0 \/ Queued(r) > 0) THEN "reported"
                            ELSE IF Peer(r) = p /\ handler[r] # "none" /\ fate[r] = "open" THEN "cut"
                            ELSE fate[r]
<1> DEFINE X == {r \in Requests : Peer(r) = p}
           failed == FailedRequests(p) \cup {r \in Range(events) : Peer(r) = p}
<1>1. /\ connected' = connected \ {p} /\ peer_disconnected(p)
      /\ events' = Without(events, X)
      /\ handler' = [r \in Requests |-> IF Peer(r) = p THEN "none" ELSE handler[r]]
      /\ fate' = [r \in Requests |->
                   IF r \in failed THEN "reported"
                   ELSE IF Peer(r) = p /\ handler[r] # "none" /\ fate[r] = "open" THEN "cut"
                   ELSE fate[r]]
      /\ UNCHANGED <<next_peer_request, ready_requests>>
  BY Zenon DEF ConnectionClosed
<1>3. /\ events \in Seq(Requests) /\ ready_requests \in Seq(Requests)
      /\ delayed_requests \in [Keys -> Seq(Requests)]
      /\ handler \in [Requests -> {"none", "waiting", "closing"}]
      /\ fate \in [Requests -> {"unsent", "open", "reported", "cut", "undelivered"}]
      /\ connected \subseteq Peers
  BY Zenon DEF AccountInv, RestType, IInv, LimiterType
<1>4. events' \in Seq(Requests)
  BY Zenon, <1>1, <1>3, WithoutEmbeds
<1>5. delayed_requests' = [k \in Keys |-> IF PeerOf[k] = p THEN <<>> ELSE delayed_requests[k]]
  BY Zenon, <1>1 DEF peer_disconnected
<1>6. QueuesHold'
  BY <1>3, <1>5 DEF AccountInv, QueuesHold
<1>7. \A r \in Requests : r \in failed <=> Peer(r) = p /\ (Delayed(r) > 0 \/ Queued(r) > 0)
  <2> TAKE r \in Requests
  <2>1. r \in FailedRequests(p) <=> Peer(r) = p /\ Delayed(r) > 0
    BY Zenon, FailedAreDelayed
  <2>2. r \in Range(events) <=> \E i \in 1 .. Len(events) : events[i] = r
    BY <1>3 DEF Range
  <2>3. Queued(r) > 0 <=> \E i \in 1 .. Len(events) : events[i] = r
    BY Zenon, <1>3, OccursSomewhere DEF Queued
  <2> QED BY Zenon, <2>1, <2>2, <2>3
<1> HIDE DEF failed
<1>8. RestType'
  <2>1. fate' \in [Requests -> {"unsent", "open", "reported", "cut", "undelivered"}]
    BY Zenon, <1>1, <1>3
  <2>2. handler' \in [Requests -> {"none", "waiting", "closing"}]
    BY Zenon, <1>1, <1>3
  <2> QED BY Zenon, <1>1, <1>3, <1>4, <2>1, <2>2 DEF RestType
<1>9. ASSUME NEW r \in Requests
      PROVE  /\ Delayed(r)' = (IF Peer(r) = p THEN 0 ELSE Delayed(r)) /\ Ready(r)' = Ready(r)
             /\ Queued(r)' = (IF Peer(r) = p THEN 0 ELSE Queued(r))
  <2>1. KeyOf[r] \in Keys /\ (r \in X <=> Peer(r) = p)
    BY Zenon, KeysAssumption
  <2>2. Delayed(r)' = IF Peer(r) = p THEN 0 ELSE Delayed(r)
    BY Zenon, <1>5, <2>1, OccursEmpty DEF Delayed, Peer
  <2>3. Queued(r)' = IF Peer(r) = p THEN 0 ELSE Queued(r)
    <3> HIDE DEF X
    <3> QED BY <1>1, <1>3, <2>1, OccursWithout DEF Queued
  <2>4. Ready(r)' = Ready(r)
    BY Zenon, <1>1 DEF Ready
  <2> QED BY Zenon, <2>2, <2>3, <2>4
<1>10. ASSUME NEW r \in Requests
      PROVE  /\ handler'[r] = IF Peer(r) = p THEN "none" ELSE handler[r]
             /\ fate'[r] = IF Peer(r) = p /\ (Delayed(r) > 0 \/ Queued(r) > 0) THEN "reported"
                           ELSE IF Peer(r) = p /\ handler[r] # "none" /\ fate[r] = "open" THEN "cut"
                           ELSE fate[r]
  BY Zenon, <1>1, <1>7
<1> QED BY Zenon, <1>6, <1>8, <1>9, <1>10

\* Only what was ready is still in the behaviour after a disconnection.
LEMMA ClosedAccounts == ASSUME AccountInv, NEW p \in Peers, ConnectionClosed(p) PROVE AccountInv'
<1>1. IInv'
  BY Zenon, DisconnectedKeeps DEF AccountInv, ConnectionClosed
<1>2. RestType' /\ QueuesHold'
  BY Zenon, ClosedMoves
<1>3. ASSUME NEW r \in Requests
      PROVE  Account(r, Delayed(r)' + Ready(r)' + Queued(r)', handler'[r], fate'[r])
  <2>1. /\ Delayed(r)' = (IF Peer(r) = p THEN 0 ELSE Delayed(r)) /\ Ready(r)' = Ready(r)
        /\ Queued(r)' = (IF Peer(r) = p THEN 0 ELSE Queued(r))
        /\ handler'[r] = (IF Peer(r) = p THEN "none" ELSE handler[r])
        /\ fate'[r] = IF Peer(r) = p /\ (Delayed(r) > 0 \/ Queued(r) > 0) THEN "reported"
                      ELSE IF Peer(r) = p /\ handler[r] # "none" /\ fate[r] = "open" THEN "cut"
                      ELSE fate[r]
    BY Zenon, ClosedMoves
  <2>2. Delayed(r) \in Nat /\ Ready(r) \in Nat /\ Queued(r) \in Nat
        /\ handler[r] \in {"none", "waiting", "closing"}
    BY Zenon, CountsNatural DEF AccountInv, RestType, IInv, LimiterType
  <2>3. Account(r, Delayed(r) + Ready(r) + Queued(r), handler[r], fate[r])
    BY DEF AccountInv, Accounted
  <2>4. CASE Peer(r) # p
    BY <2>1, <2>3, <2>4, SMTT(30)
  <2>5. CASE Peer(r) = p
    <3>1. Delayed(r)' + Ready(r)' + Queued(r)' = Ready(r)
      BY <2>1, <2>2, <2>5
    <3> QED BY <2>1, <2>2, <2>3, <2>5, <3>1 DEF Account
  <2> QED BY Zenon, <2>4, <2>5
<1> QED BY Zenon, <1>1, <1>2, <1>3 DEF AccountInv, Accounted

\* Every step keeps the accounts.
LEMMA NextAccounts == AccountInv /\ [Next]_vars => AccountInv'
<1> SUFFICES ASSUME AccountInv, [Next]_vars PROVE AccountInv'
  BY Zenon
<1>1. ASSUME IInv', UNCHANGED <<delayed_requests, ready_requests, events, handler, fate>>,
             connected' \subseteq Peers
      PROVE  AccountInv'
  <2>1. \A r \in Requests : /\ Delayed(r)' = Delayed(r) /\ Ready(r)' = Ready(r)
                            /\ Queued(r)' = Queued(r)
    BY Zenon, <1>1 DEF Delayed, Ready, Queued
  <2>2. Accounted'
    BY Zenon, <1>1, <2>1 DEF AccountInv, Accounted
  <2> QED BY Zenon, <1>1, <2>2 DEF AccountInv, RestType, QueuesHold
<1>2. IInv' /\ connected \subseteq Peers
  BY Zenon, NextKeeps DEF AccountInv, RestType
<1>3. ASSUME NEW k \in Keys, InboundError(k) PROVE AccountInv'
  BY Zenon, <1>1, <1>2, <1>3 DEF InboundError, handlerUnchanged
<1>4. ASSUME NEW p \in Peers, Connected(p) PROVE AccountInv'
  BY Zenon, <1>1, <1>2, <1>4 DEF Connected, limiterVars
<1>5. CASE UNCHANGED vars
  BY Zenon, <1>1, <1>2, <1>5 DEF vars, limiterVars
<1> QED
  BY Zenon, <1>3, <1>4, <1>5, SendAccounts, HandlerAccounts, PollAccounts, ExpiredAccounts,
     ClosedAccounts DEF Next

\* No request is lost or sent twice, whatever the handlers, the timers and the connections do: one
\* the application waits for is delayed, ready, on its way to a handler or with one, and only once.
THEOREM RequestAccountedCorrect == Spec => []RequestAccounted
<1>1. Spec => []AccountInv
  BY InitAccounts, NextAccounts, PTL DEF Spec
<1> QED
  BY <1>1, AccountsSame, PTL

-----------------------------------------------------------------------------
(* Active requests are not leaked                                          *)

\* The swarm will hand r to a handler, or r is of the peer manager.
Wanted(r) == Peer(r) \in connected \/ r \in Internal

\* r will complete a request in the books of the limiter, or was dropped by the swarm.
Counted(r) ==
  \/ handler[r] = "waiting"
  \/ handler[r] = "closing" /\ KeyOf[r] \in ManyChunks
  \/ Wanted(r) /\ Ready(r) + Queued(r) > 0
  \/ r \in Internal /\ fate[r] = "undelivered"

Busy(k) == {r \in Requests : KeyOf[r] = k /\ Counted(r)}

Covered == \A k \in Keys : active_requests[k] <= Cardinality(Busy(k))

\* Delayed requests of a peer that is not connected are of the peer manager.
DelayedWanted == \A r \in Requests : Delayed(r) > 0 => Wanted(r)

ActiveInv == AccountInv /\ DelayedWanted /\ Covered

\* There are finitely many busy requests.
LEMMA BusyFinite == \A k : IsFiniteSet(Busy(k)) /\ Cardinality(Busy(k)) \in Nat
<1> TAKE k
<1>1. IsFiniteSet(Busy(k))
  BY Zenon, FiniteAssumption, FS_Subset DEF Busy
<1> QED BY Zenon, <1>1, FS_CardinalityType

\* The same after a step
LEMMA BusyFiniteNext == \A k : IsFiniteSet(Busy(k)') /\ Cardinality(Busy(k)') \in Nat
<1> TAKE k
<1>1. IsFiniteSet(Busy(k)')
  BY Zenon, FiniteAssumption, FS_Subset DEF Busy
<1> QED BY Zenon, <1>1, FS_CardinalityType

\* A set that loses one element covers one less.
LEMMA LosesOne ==
  ASSUME NEW B, NEW C, IsFiniteSet(B), IsFiniteSet(C), NEW r, B \ {r} \subseteq C,
         NEW n \in Nat, n <= Cardinality(B)
  PROVE  (IF n > 1 THEN n - 1 ELSE 0) <= Cardinality(C)
<1>1. IsFiniteSet(B \ {r}) /\ Cardinality(B) \in Nat /\ Cardinality(C) \in Nat
      /\ Cardinality(B \ {r}) = IF r \in B THEN Cardinality(B) - 1 ELSE Cardinality(B)
  BY Zenon, FS_RemoveElement, FS_CardinalityType
<1>2. Cardinality(B \ {r}) <= Cardinality(C)
  BY Zenon, FS_Subset
<1> QED BY <1>1, <1>2

\* A set that gains n elements covers n more.
LEMMA GainsAll ==
  ASSUME NEW B, NEW C, IsFiniteSet(B), IsFiniteSet(C), NEW S, IsFiniteSet(S),
         B \subseteq C, S \subseteq C, B \cap S = {}, NEW n \in Nat, n <= Cardinality(B)
  PROVE  n + Cardinality(S) <= Cardinality(C)
<1>1. /\ IsFiniteSet(B \cup S) /\ Cardinality(B) \in Nat /\ Cardinality(C) \in Nat
      /\ Cardinality(S) \in Nat
      /\ Cardinality(B \cup S) = Cardinality(B) + Cardinality(S) - Cardinality({})
  BY Zenon, FS_Union, FS_CardinalityType
<1>2. Cardinality(B \cup S) <= Cardinality(C) /\ Cardinality(B \cup S) \in Nat
  BY Zenon, <1>1, FS_Subset, FS_CardinalityType
<1> QED BY <1>1, <1>2, FS_EmptySet

\* Nothing counts more than before, and what was counted still is.
LEMMA CoveredStays ==
  ASSUME ActiveInv, active_requests' \in [Keys -> Nat], NEW K \in SUBSET Keys,
         \A k \in K : active_requests'[k] <= active_requests[k],
         \A k \in K : \A r \in Requests : KeyOf[r] = k /\ Counted(r) => Counted(r)'
  PROVE  \A k \in K : active_requests'[k] <= Cardinality(Busy(k)')
<1> TAKE k \in K
<1>1. Busy(k) \subseteq Busy(k)'
  BY Zenon DEF Busy
<1>2. Cardinality(Busy(k)) <= Cardinality(Busy(k)')
  BY Zenon, <1>1, BusyFiniteNext, FS_Subset
<1>3. active_requests[k] <= Cardinality(Busy(k)) /\ active_requests[k] \in Nat
  BY LimitAssumption DEF ActiveInv, Covered, AccountInv, IInv, LimiterType
<1>4. active_requests'[k] \in Nat /\ active_requests'[k] <= active_requests[k]
  BY Zenon
<1> QED BY <1>2, <1>3, <1>4, BusyFinite, BusyFiniteNext

\* A request is completed in the books, and one at most is no longer counted.
LEMMA CoveredCompleted ==
  ASSUME ActiveInv, NEW r \in Requests, request_completed(KeyOf[r]),
         \A x \in Requests : x # r /\ Counted(x) => Counted(x)'
  PROVE  Covered'
<1> DEFINE k == KeyOf[r]
<1>1. k \in Keys /\ active_requests \in [Keys -> Nat]
  BY KeysAssumption, LimitAssumption DEF ActiveInv, AccountInv, IInv, LimiterType
<1>2. active_requests' = [active_requests EXCEPT ![k] = IF @ > 1 THEN @ - 1 ELSE 0]
  BY Zenon DEF request_completed
<1> HIDE DEF k
<1>3. active_requests' \in [Keys -> Nat]
  BY <1>1, <1>2
<1>4. \A x \in Keys \ {k} : active_requests'[x] <= Cardinality(Busy(x)')
  <2>1. \A x \in Keys \ {k} : active_requests'[x] <= active_requests[x]
    BY <1>1, <1>2
  <2>2. \A x \in Keys \ {k} : \A y \in Requests : KeyOf[y] = x /\ Counted(y) => Counted(y)'
    BY Zenon DEF k
  <2> QED BY Zenon, <1>3, <2>1, <2>2, CoveredStays
<1>5. active_requests'[k] <= Cardinality(Busy(k)')
  <2>1. Busy(k) \ {r} \subseteq Busy(k)'
    BY Zenon DEF Busy
  <2>2. active_requests[k] \in Nat /\ active_requests[k] <= Cardinality(Busy(k))
    BY Zenon, <1>1 DEF ActiveInv, Covered
  <2>3. active_requests'[k] = IF active_requests[k] > 1 THEN active_requests[k] - 1 ELSE 0
    BY Zenon, <1>1, <1>2
  <2> QED BY Zenon, <2>1, <2>2, <2>3, BusyFinite, BusyFiniteNext, LosesOne
<1> QED BY Zenon, <1>4, <1>5 DEF Covered

\* Nothing is counted before anything is sent.
LEMMA InitActive == Init => ActiveInv
<1> SUFFICES ASSUME Init PROVE ActiveInv
  BY Zenon
<1>1. AccountInv
  BY Zenon, InitAccounts
<1>2. ASSUME NEW r \in Requests PROVE ~ (Delayed(r) > 0)
  <2>1. delayed_requests[KeyOf[r]] = <<>>
    BY Zenon, KeysAssumption DEF Init
  <2> QED BY <2>1, OccursEmpty DEF Delayed
<1>3. \A k \in Keys : active_requests[k] = 0
  BY Zenon DEF Init
<1> QED BY <1>1, <1>2, <1>3, BusyFinite DEF ActiveInv, DelayedWanted, Covered

\* A request that the limiter admits is counted, and one that it delays is wanted.
LEMMA SendActive == ASSUME ActiveInv, NEW r \in Requests, send_request(r) PROVE ActiveInv'
<1>1. AccountInv /\ AccountInv'
  BY Zenon, SendAccounts DEF ActiveInv
<1>2. /\ fate[r] = "unsent" /\ fate' = [fate EXCEPT ![r] = "open"] /\ Wanted(r)
      /\ UNCHANGED <<ready_requests, connected, handler>>
  BY Zenon DEF send_request, Wanted
<1>3. \A x \in Requests : Delayed(x) \in Nat /\ Ready(x) \in Nat /\ Queued(x) \in Nat
  BY Zenon, <1>1, CountsNatural DEF AccountInv, IInv, LimiterType, RestType
<1>4. \A x : Wanted(x)' <=> Wanted(x)
  BY Zenon, <1>2 DEF Wanted
<1>5. ~ Counted(r)
  <2>1. Account(r, Delayed(r) + Ready(r) + Queued(r), handler[r], fate[r])
    BY Zenon, <1>1 DEF AccountInv, Accounted
  <2> QED BY <1>2, <1>3, <2>1 DEF Account, Counted
<1>6. \A x \in Requests : x # r => fate'[x] = fate[x]
  BY Zenon, <1>1, <1>2 DEF AccountInv, RestType
<1>7. active_requests \in [Keys -> Nat] /\ active_requests' \in [Keys -> Nat] /\ KeyOf[r] \in Keys
  BY <1>1, KeysAssumption, LimitAssumption DEF AccountInv, IInv, LimiterType
<1>8. CASE /\ UNCHANGED active_requests
           /\ \A x \in Requests : /\ Delayed(x)' = Delayed(x) + (IF r = x THEN 1 ELSE 0)
                                  /\ Ready(x)' = Ready(x) /\ Queued(x)' = Queued(x)
  <2>1. DelayedWanted'
    BY <1>2, <1>3, <1>4, <1>8 DEF ActiveInv, DelayedWanted
  <2>2. \A x \in Requests : Counted(x) => Counted(x)'
    BY Zenon, <1>2, <1>4, <1>5, <1>6, <1>8 DEF Counted
  <2>3. \A k \in Keys : active_requests'[k] <= active_requests[k]
    BY <1>7, <1>8
  <2>4. Covered'
    BY Zenon, <1>7, <2>2, <2>3, CoveredStays DEF Covered
  <2> QED BY Zenon, <1>1, <2>1, <2>4 DEF ActiveInv
<1>9. CASE /\ active_requests' = [active_requests EXCEPT ![KeyOf[r]] = @ + 1]
           /\ \A x \in Requests : /\ Queued(x)' = Queued(x) + (IF r = x THEN 1 ELSE 0)
                                  /\ Ready(x)' = Ready(x) /\ Delayed(x)' = Delayed(x)
  <2>1. DelayedWanted'
    BY Zenon, <1>4, <1>9 DEF ActiveInv, DelayedWanted
  <2>2. \A x \in Requests : Counted(x) => Counted(x)'
    <3> SUFFICES ASSUME NEW x \in Requests, Counted(x) PROVE Counted(x)'
      BY Zenon
    <3>1. x # r
      BY Zenon, <1>5
    <3>2. Queued(x)' = Queued(x) /\ Ready(x)' = Ready(x)
      BY <1>3, <1>9, <3>1
    <3> QED BY Zenon, <1>2, <1>4, <1>6, <3>1, <3>2 DEF Counted
  <2>3. Counted(r)'
    <3>1. Ready(r)' + Queued(r)' > 0
      BY <1>3, <1>9
    <3> QED BY Zenon, <1>2, <1>4, <3>1 DEF Counted
  <2> DEFINE k == KeyOf[r]
  <2>4. k \in Keys /\ active_requests' = [active_requests EXCEPT ![k] = @ + 1]
    BY Zenon, <1>7, <1>9
  <2>5. Busy(k) \subseteq Busy(k)' /\ {r} \subseteq Busy(k)' /\ Busy(k) \cap {r} = {}
    BY <1>5, <2>2, <2>3 DEF Busy
  <2>6. \A x \in Keys \ {k} : active_requests'[x] <= Cardinality(Busy(x)')
    <3>1. \A x \in Keys \ {k} : active_requests'[x] <= active_requests[x]
      BY <1>7, <2>4
    <3> QED BY Zenon, <1>7, <2>2, <3>1, CoveredStays
  <2> HIDE DEF k
  <2>7. active_requests'[k] <= Cardinality(Busy(k)')
    <3>1. IsFiniteSet({r}) /\ Cardinality({r}) = 1
      BY Zenon, FS_Singleton
    <3>2. active_requests[k] \in Nat /\ active_requests[k] <= Cardinality(Busy(k))
      BY Zenon, <1>7, <2>4 DEF ActiveInv, Covered
    <3>3. active_requests[k] + Cardinality({r}) <= Cardinality(Busy(k)')
      BY Zenon, <2>5, <3>1, <3>2, BusyFinite, BusyFiniteNext, GainsAll
    <3> QED BY Zenon, <1>7, <2>4, <3>1, <3>3
  <2>8. Covered'
    BY Zenon, <2>6, <2>7 DEF Covered
  <2> QED BY Zenon, <1>1, <2>1, <2>8 DEF ActiveInv
<1> QED BY Zenon, <1>1, <1>8, <1>9, SendMoves

\* poll loses none of the requests that are counted, and counts those that become ready.
LEMMA EmitCounts ==
  ASSUME AccountInv, AccountInv', NEW ready \in Seq(Requests), Emit(ready),
         BecomeReady(ready), NEW x \in Requests,
         \/ Counted(x) /\ Occurrences(ready, x) >= Ready(x)
         \/ Wanted(x) /\ Occurrences(ready, x) > 0
  PROVE  Counted(x)'
<1>1. events \in Seq(Requests) /\ connected' = connected
  BY Zenon DEF AccountInv, RestType, Emit
<1>2. /\ Queued(x) \in Nat /\ Ready(x) \in Nat /\ Occurrences(ready, x) \in Nat
      /\ Queued(x)' \in Nat /\ Ready(x)' \in Nat
  BY Zenon, PositionsFinite DEF Queued, Ready, AccountInv, RestType
<1>3. Wanted(x)' <=> Wanted(x)
  BY Zenon, <1>1 DEF Wanted
<1>4. \/ handler[x] = "waiting" \/ (handler[x] = "closing" /\ KeyOf[x] \in ManyChunks)
      \/ Wanted(x) /\ Occurrences(ready, x) + Queued(x) > 0
      \/ x \in Internal /\ fate[x] = "undelivered"
  BY <1>2 DEF Counted
<1>5. CASE /\ UNCHANGED <<handler, fate>>
           /\ Ready(x)' + Queued(x)' = Occurrences(ready, x) + Queued(x)
  BY Zenon, <1>3, <1>4, <1>5 DEF Counted
<1>6. ASSUME NEW r \in Requests, Deliver(r),
             Ready(x)' + Queued(x)' + (IF r = x THEN 1 ELSE 0) = Occurrences(ready, x) + Queued(x)
      PROVE  Counted(x)'
  <2>1. handler \in [Requests -> {"none", "waiting", "closing"}]
        /\ fate \in [Requests -> {"unsent", "open", "reported", "cut", "undelivered"}]
    BY Zenon DEF AccountInv, RestType
  <2>2. CASE r # x
    <3>1. handler'[x] = handler[x] /\ fate'[x] = fate[x]
      BY Zenon, <1>6, <2>1, <2>2 DEF Deliver
    <3>2. Ready(x)' + Queued(x)' = Occurrences(ready, x) + Queued(x)
      BY <1>2, <1>6, <2>2
    <3> QED BY Zenon, <1>3, <1>4, <3>1, <3>2 DEF Counted
  <2>3. CASE r = x
    <3>1. IF Peer(x) \in connected THEN handler'[x] = "waiting"
          ELSE fate'[x] = "undelivered" /\ handler' = handler
      BY Zenon, <1>6, <2>1, <2>3 DEF Deliver
    <3> QED BY Zenon, <1>4, <3>1 DEF Counted, Wanted
  <2> QED BY Zenon, <2>2, <2>3
<1> QED BY Zenon, <1>1, <1>5, <1>6, EmitMoves

\* poll, when no timer has expired
LEMMA PollActive == ASSUME ActiveInv, Poll PROVE ActiveInv'
<1>1. /\ Emit(ready_requests) /\ UNCHANGED <<active_requests, delayed_requests, connected>>
  BY Zenon DEF Poll, Emit
<1>2. AccountInv /\ AccountInv' /\ ready_requests \in Seq(Requests)
  BY Zenon, PollAccounts DEF ActiveInv, AccountInv, RestType
<1>3. \A x \in Requests : Delayed(x)' = Delayed(x) /\ (Wanted(x)' <=> Wanted(x))
  BY Zenon, <1>1 DEF Delayed, Wanted
<1>4. BecomeReady(ready_requests)
  BY <1>3 DEF Ready, BecomeReady
<1>5. \A x \in Requests : Occurrences(ready_requests, x) >= Ready(x)
  BY <1>2, PositionsFinite DEF Ready
<1>6. \A x \in Requests : Counted(x) => Counted(x)'
  BY Zenon, <1>1, <1>2, <1>4, <1>5, EmitCounts
<1>7. active_requests' \in [Keys -> Nat] /\ \A k \in Keys : active_requests'[k] <= active_requests[k]
  BY <1>1, LimitAssumption DEF ActiveInv, AccountInv, IInv, LimiterType
<1>8. Covered'
  BY Zenon, <1>6, <1>7, CoveredStays DEF Covered
<1> QED BY Zenon, <1>2, <1>3, <1>8 DEF ActiveInv, DelayedWanted

\* poll, when a timer of k has expired: the requests that become ready were not counted, and are.
LEMMA ExpiredActive == ASSUME ActiveInv, NEW k \in Keys, PollExpired(k) PROVE ActiveInv'
<1> DEFINE q == delayed_requests[k]
<1>1. AccountInv /\ AccountInv' /\ DelayedWanted /\ Covered
  BY Zenon, ExpiredAccounts DEF ActiveInv
<1>2. PICK n \in 0 .. Len(q), a \in Seq(Requests) :
           /\ active_requests' = [active_requests EXCEPT ![k] = @ + n]
           /\ Len(a) = n /\ \A i \in 1 .. n : a[i] = q[i]
           /\ ready_requests \o a \in Seq(Requests) /\ Emit(ready_requests \o a)
           /\ \A x \in Requests : Occurrences(ready_requests \o a, x) = Ready(x) + Occurrences(a, x)
           /\ BecomeReady(ready_requests \o a)
  BY Zenon, <1>1, ExpiredMoves
<1> DEFINE ready == ready_requests \o a
           S == {q[i] : i \in 1 .. n}
<1>3. /\ q \in Seq(Requests) /\ Len(q) \in Nat /\ n \in Nat /\ n <= Len(q)
      /\ \A i \in 1 .. Len(q) : KeyOf[q[i]] = k /\ q[i] \in Requests
  BY <1>1, <1>2 DEF AccountInv, IInv, LimiterType, QueuesHold
<1>4. \A x \in Requests : /\ Delayed(x) \in Nat /\ Ready(x) \in Nat /\ Queued(x) \in Nat
                          /\ Occurrences(a, x) \in Nat
  BY Zenon, <1>1, <1>2, CountsNatural, PositionsFinite DEF AccountInv, IInv, LimiterType, RestType
<1>5. \A x \in Requests : Delayed(x)' \in Nat
  BY Zenon, <1>1, KeysAssumption, PositionsFinite DEF Delayed, AccountInv, IInv, LimiterType
<1>6. /\ ready \in Seq(Requests) /\ Emit(ready) /\ BecomeReady(ready)
      /\ \A x \in Requests : Occurrences(ready, x) = Ready(x) + Occurrences(a, x)
  BY Zenon, <1>2
<1> HIDE DEF ready, q
<1>7. \A x \in Requests : Counted(x) => Counted(x)'
  <2>1. \A x \in Requests : Occurrences(ready, x) >= Ready(x)
    BY <1>4, <1>6
  <2> QED BY Zenon, <1>1, <1>6, <2>1, EmitCounts
<1>8. ASSUME NEW x \in Requests, NEW i \in 1 .. n, x = q[i]
      PROVE  KeyOf[x] = k /\ Occurrences(q, x) = 1 /\ ~ Counted(x) /\ Counted(x)'
  <2>1. KeyOf[x] = k /\ i \in 1 .. Len(q)
    BY <1>3, <1>8
  <2>2. Occurrences(q, x) > 0 /\ Delayed(x) = Occurrences(q, x)
    <3>1. Occurrences(q, x) > 0
      BY <1>3, <1>8, <2>1, OccursSomewhere
    <3> QED BY Zenon, <2>1, <3>1 DEF Delayed, q
  <2>3. Account(x, Delayed(x) + Ready(x) + Queued(x), handler[x], fate[x])
    BY Zenon, <1>1 DEF AccountInv, Accounted
  <2>4. a[i] = x /\ i \in 1 .. Len(a)
    BY Zenon, <1>2, <1>3, <1>8 DEF q
  <2>5. Delayed(x) = 1 /\ Ready(x) = 0 /\ Queued(x) = 0 /\ fate[x] = "open" /\ handler[x] = "none"
    BY <1>4, <2>2, <2>3 DEF Account
  <2>6. ~ Counted(x)
    BY <2>5 DEF Counted
  <2>7. Occurrences(a, x) > 0
    BY Zenon, <2>4, OccursSomewhere
  <2>8. Occurrences(ready, x) > 0 /\ Wanted(x)
    BY <1>1, <1>4, <1>6, <2>5, <2>7 DEF DelayedWanted
  <2>9. Counted(x)'
    BY Zenon, <1>1, <1>6, <2>8, EmitCounts
  <2> QED BY Zenon, <2>1, <2>2, <2>5, <2>6, <2>9
<1>9. IsFiniteSet(S) /\ Cardinality(S) = n
  <2> DEFINE f == [i \in 1 .. n |-> q[i]]
  <2>1. f \in [1 .. n -> S] /\ \A y \in S : \E i \in 1 .. n : f[i] = y
    BY Zenon
  <2>2. ASSUME NEW i \in 1 .. n, NEW j \in 1 .. n, f[i] = f[j] PROVE i = j
    <3>1. i \in 1 .. Len(q) /\ j \in 1 .. Len(q) /\ q[j] = q[i] /\ q[i] \in Requests
      BY <1>3, <2>2
    <3>2. Occurrences(q, q[i]) = 1
      BY Zenon, <1>8, <3>1
    <3> QED BY <1>3, <3>1, <3>2, OccursOnce
  <2>3. IsFiniteSet(1 .. n) /\ Cardinality(1 .. n) = n
    BY <1>3, FS_Interval
  <2> HIDE DEF f, S
  <2> QED BY <2>1, <2>2, <2>3, SameSize
<1>10. Busy(k) \subseteq Busy(k)' /\ S \subseteq Busy(k)' /\ Busy(k) \cap S = {}
  <2>1. \A y \in S : y \in Requests /\ KeyOf[y] = k /\ ~ Counted(y) /\ Counted(y)'
    <3> TAKE y \in S
    <3>1. PICK i \in 1 .. n : y = q[i]
      BY Zenon
    <3>2. y \in Requests
      BY <1>3, <3>1
    <3> QED BY Zenon, <1>8, <3>1, <3>2
  <2> HIDE DEF S
  <2>2. Busy(k) \subseteq Busy(k)'
    BY Zenon, <1>7 DEF Busy
  <2>3. S \subseteq Busy(k)' /\ Busy(k) \cap S = {}
    BY Zenon, <2>1 DEF Busy
  <2> QED BY Zenon, <2>2, <2>3
<1>11. active_requests \in [Keys -> Nat] /\ active_requests' \in [Keys -> Nat]
  BY <1>1, LimitAssumption DEF AccountInv, IInv, LimiterType
<1> HIDE DEF S
<1>12. active_requests'[k] <= Cardinality(Busy(k)')
  <2>1. active_requests[k] \in Nat /\ active_requests[k] <= Cardinality(Busy(k))
    BY Zenon, <1>1, <1>11 DEF Covered
  <2>2. active_requests[k] + Cardinality(S) <= Cardinality(Busy(k)')
    BY Zenon, <1>9, <1>10, <2>1, BusyFinite, BusyFiniteNext, GainsAll
  <2>3. active_requests'[k] = active_requests[k] + n
    BY <1>2, <1>11
  <2> QED BY Zenon, <1>9, <2>2, <2>3
<1>13. \A y \in Keys \ {k} : active_requests'[y] <= Cardinality(Busy(y)')
  <2>1. \A y \in Keys \ {k} : active_requests'[y] <= active_requests[y]
    BY <1>2, <1>11
  <2> QED BY Zenon, <1>7, <1>11, <2>1, CoveredStays
<1>14. Covered'
  BY Zenon, <1>12, <1>13 DEF Covered
<1>15. DelayedWanted'
  <2> SUFFICES ASSUME NEW x \in Requests, Delayed(x)' > 0 PROVE Wanted(x)'
    BY Zenon DEF DelayedWanted
  <2>1. Delayed(x)' + Occurrences(ready, x) = Delayed(x) + Ready(x)
    BY Zenon, <1>6 DEF BecomeReady
  <2>2. Occurrences(ready, x) = Ready(x) + Occurrences(a, x)
    BY Zenon, <1>6
  <2>3. Delayed(x) > 0
    BY <1>4, <1>5, <2>1, <2>2
  <2>4. Wanted(x) /\ connected' = connected
    BY Zenon, <1>1, <1>6, <2>3 DEF DelayedWanted, Emit
  <2> QED BY Zenon, <2>4 DEF Wanted
<1> QED BY Zenon, <1>1, <1>14, <1>15 DEF ActiveInv

\* A handler ends a request that is counted only when it completes one in the books.
LEMMA HandlerActive ==
  ASSUME ActiveInv, NEW r \in Requests,
         Ends(r) \/ NegotiatedLate(r) \/ LastResponse(r) \/ StreamCloses(r)
  PROVE  ActiveInv'
<1>1. AccountInv /\ AccountInv' /\ DelayedWanted
  BY Zenon, HandlerAccounts DEF ActiveInv
<1>2. UNCHANGED <<delayed_requests, ready_requests, events, connected>>
  BY Zenon DEF Ends, NegotiatedLate, LastResponse, StreamCloses, handlerUnchanged
<1>3. \A x \in Requests : /\ Delayed(x)' = Delayed(x) /\ Ready(x)' = Ready(x)
                          /\ Queued(x)' = Queued(x) /\ (Wanted(x)' <=> Wanted(x))
  BY Zenon, <1>2 DEF Delayed, Ready, Queued, Wanted
<1>4. DelayedWanted'
  BY Zenon, <1>1, <1>3 DEF DelayedWanted
<1>5. /\ handler \in [Requests -> {"none", "waiting", "closing"}]
      /\ fate \in [Requests -> {"unsent", "open", "reported", "cut", "undelivered"}]
  BY Zenon, <1>1 DEF AccountInv, RestType
<1>6. \A x \in Requests : x # r => handler'[x] = handler[x] /\ fate'[x] = fate[x]
  BY Zenon, <1>5 DEF Ends, NegotiatedLate, LastResponse, StreamCloses, Report
<1>7. \A x \in Requests : x # r /\ Counted(x) => Counted(x)'
  BY Zenon, <1>3, <1>6 DEF Counted
<1>8. CASE request_completed(KeyOf[r])
  BY Zenon, <1>1, <1>4, <1>7, <1>8, CoveredCompleted DEF ActiveInv
<1>9. CASE /\ handler[r] = "waiting" /\ handler' = [handler EXCEPT ![r] = "closing"]
           /\ KeyOf[r] \in ManyChunks /\ UNCHANGED <<active_requests, fate>>
  <2>1. Counted(r)'
    BY Zenon, <1>5, <1>9 DEF Counted
  <2>2. \A k \in Keys : active_requests'[k] <= active_requests[k] /\ active_requests'[k] \in Nat
    BY <1>1, <1>9, LimitAssumption DEF AccountInv, IInv, LimiterType
  <2>3. active_requests' \in [Keys -> Nat]
    BY <1>1, LimitAssumption DEF AccountInv, IInv, LimiterType
  <2>4. Covered'
    BY Zenon, <1>7, <2>1, <2>2, <2>3, CoveredStays DEF Covered
  <2> QED BY Zenon, <1>1, <1>4, <2>4 DEF ActiveInv
<1>10. CASE /\ handler[r] = "closing" /\ KeyOf[r] \notin ManyChunks
            /\ UNCHANGED <<active_requests, fate>>
  <2>1. ~ Counted(r)
    <3>1. Account(r, Delayed(r) + Ready(r) + Queued(r), handler[r], fate[r])
      BY Zenon, <1>1 DEF AccountInv, Accounted
    <3>2. Delayed(r) \in Nat /\ Ready(r) \in Nat /\ Queued(r) \in Nat
      BY Zenon, <1>1, CountsNatural DEF AccountInv, IInv, LimiterType, RestType
    <3> QED BY <1>10, <3>1, <3>2 DEF Account, Counted
  <2>2. \A k \in Keys : active_requests'[k] <= active_requests[k]
    BY <1>1, <1>10, LimitAssumption, SMTT(30) DEF AccountInv, IInv, LimiterType
  <2>3. active_requests' \in [Keys -> Nat]
    BY <1>1, LimitAssumption DEF AccountInv, IInv, LimiterType
  <2>4. Covered'
    BY Zenon, <1>7, <2>1, <2>2, <2>3, CoveredStays DEF Covered
  <2> QED BY Zenon, <1>1, <1>4, <2>4 DEF ActiveInv
<1> QED
  BY Zenon, <1>8, <1>9, <1>10 DEF Ends, NegotiatedLate, LastResponse, StreamCloses, Report

\* A disconnection forgets what is counted for the keys of the peer, and changes no other.
LEMMA ClosedActive == ASSUME ActiveInv, NEW p \in Peers, ConnectionClosed(p) PROVE ActiveInv'
<1>1. AccountInv /\ AccountInv' /\ DelayedWanted
  BY Zenon, ClosedAccounts DEF ActiveInv
<1>2. /\ connected' = connected \ {p}
      /\ active_requests' = [k \in Keys |-> IF PeerOf[k] = p THEN 0 ELSE active_requests[k]]
  BY Zenon DEF ConnectionClosed, peer_disconnected
<1>3. \A r \in Requests :
        /\ Delayed(r)' = (IF Peer(r) = p THEN 0 ELSE Delayed(r)) /\ Ready(r)' = Ready(r)
        /\ Peer(r) # p => /\ Queued(r)' = Queued(r) /\ handler'[r] = handler[r]
                          /\ fate'[r] = fate[r] /\ (Wanted(r)' <=> Wanted(r))
  BY Zenon, <1>1, <1>2, ClosedMoves DEF Wanted
<1>4. DelayedWanted'
  <2> SUFFICES ASSUME NEW r \in Requests, Delayed(r)' > 0 PROVE Wanted(r)'
    BY Zenon DEF DelayedWanted
  <2>1. Peer(r) # p /\ Delayed(r)' = Delayed(r)
    BY <1>3, SMTT(30)
  <2>2. Wanted(r)
    BY Zenon, <1>1, <2>1 DEF DelayedWanted
  <2> QED BY Zenon, <1>3, <2>1, <2>2
<1> DEFINE Others == {k \in Keys : PeerOf[k] # p}
<1>5. active_requests \in [Keys -> Nat] /\ active_requests' \in [Keys -> Nat]
  BY <1>1, LimitAssumption DEF AccountInv, IInv, LimiterType
<1>6. \A k \in Others : active_requests'[k] <= Cardinality(Busy(k)')
  <2>1. \A k \in Others : active_requests'[k] <= active_requests[k]
    BY <1>2, <1>5
  <2>2. \A k \in Others : \A r \in Requests : KeyOf[r] = k /\ Counted(r) => Counted(r)'
    BY Zenon, <1>3 DEF Counted, Peer
  <2> HIDE DEF Others
  <2>3. Others \in SUBSET Keys
    BY Zenon DEF Others
  <2> QED BY Zenon, <1>5, <2>1, <2>2, <2>3, CoveredStays
<1>7. \A k \in Keys \ Others : active_requests'[k] <= Cardinality(Busy(k)')
  <2>1. \A k \in Keys \ Others : active_requests'[k] = 0
    BY Zenon, <1>2
  <2> QED BY <2>1, BusyFiniteNext
<1>8. Covered'
  BY Zenon, <1>6, <1>7 DEF Covered
<1> QED BY Zenon, <1>1, <1>4, <1>8 DEF ActiveInv

\* Every step keeps the count covered.
LEMMA NextActive == ActiveInv /\ [Next]_vars => ActiveInv'
<1> SUFFICES ASSUME ActiveInv, [Next]_vars PROVE ActiveInv'
  BY Zenon
<1>1. AccountInv /\ AccountInv' /\ DelayedWanted
  BY Zenon, NextAccounts DEF ActiveInv
<1>2. active_requests \in [Keys -> Nat] /\ active_requests' \in [Keys -> Nat]
  BY <1>1, LimitAssumption DEF AccountInv, IInv, LimiterType
<1>3. ASSUME UNCHANGED <<delayed_requests, ready_requests, events, handler, fate>>,
             connected \subseteq connected',
             \A k \in Keys : active_requests'[k] <= active_requests[k]
      PROVE  ActiveInv'
  <2>1. \A r \in Requests : /\ Delayed(r)' = Delayed(r) /\ Ready(r)' = Ready(r)
                            /\ Queued(r)' = Queued(r) /\ (Wanted(r) => Wanted(r)')
    BY Zenon, <1>3 DEF Delayed, Ready, Queued, Wanted
  <2>2. DelayedWanted'
    BY Zenon, <1>1, <2>1 DEF DelayedWanted
  <2>3. \A r \in Requests : Counted(r) => Counted(r)'
    BY Zenon, <1>3, <2>1 DEF Counted
  <2>4. Covered'
    BY <1>2, <1>3, <2>3, CoveredStays DEF Covered
  <2> QED BY Zenon, <1>1, <2>2, <2>4 DEF ActiveInv
<1>4. ASSUME NEW k \in Keys, InboundError(k) PROVE ActiveInv'
  <2>1. \A x \in Keys : active_requests'[x] <= active_requests[x]
    BY <1>2, <1>4 DEF InboundError, request_completed
  <2> QED BY Zenon, <1>3, <1>4, <2>1 DEF InboundError, handlerUnchanged
<1>5. ASSUME active_requests' = active_requests
      PROVE  \A k \in Keys : active_requests'[k] <= active_requests[k]
  BY <1>2, <1>5
<1>6. ASSUME NEW p \in Peers, Connected(p) PROVE ActiveInv'
  BY Zenon, <1>3, <1>5, <1>6 DEF Connected, limiterVars
<1>7. CASE UNCHANGED vars
  BY Zenon, <1>3, <1>5, <1>7 DEF vars, limiterVars
<1> QED
  BY Zenon, <1>4, <1>6, <1>7, SendActive, HandlerActive, PollActive, ExpiredActive, ClosedActive DEF Next

\* What is counted is what ActiveNotLeaked counts.
LEMMA ActiveSame == ActiveInv => ActiveNotLeaked
<1> SUFFICES ASSUME ActiveInv, NEW k \in Keys
             PROVE  active_requests[k] <= Cardinality({r \in Requests :
                      /\ KeyOf[r] = k
                      /\ \/ r \in Range(ready_requests \o events) \/ handler[r] # "none"
                         \/ r \in Internal /\ fate[r] = "undelivered"})
  BY Zenon DEF ActiveNotLeaked
<1> DEFINE C == {r \in Requests :
                   /\ KeyOf[r] = k
                   /\ \/ r \in Range(ready_requests \o events) \/ handler[r] # "none"
                      \/ r \in Internal /\ fate[r] = "undelivered"}
<1>1. ready_requests \in Seq(Requests) /\ events \in Seq(Requests)
      /\ ready_requests \o events \in Seq(Requests)
  BY DEF ActiveInv, AccountInv, RestType
<1>2. ASSUME NEW r \in Requests, Ready(r) + Queued(r) > 0
      PROVE  r \in Range(ready_requests \o events)
  <2> DEFINE s == ready_requests \o events
  <2>1. Occurrences(s, r) = Ready(r) + Queued(r)
    BY <1>1, OccursConcat DEF Ready, Queued
  <2>2. s \in Seq(Requests)
    BY Zenon, <1>1
  <2> HIDE DEF s
  <2>3. \E i \in 1 .. Len(s) : s[i] = r
    BY Zenon, <1>2, <2>1, <2>2, OccursSomewhere
  <2>4. r \in Range(s)
    BY <2>2, <2>3 DEF Range
  <2> QED BY Zenon, <2>4 DEF s
<1>3. Busy(k) \subseteq C
  BY Zenon, <1>2 DEF Busy, Counted
<1>4. IsFiniteSet(C)
  BY Zenon, FiniteAssumption, FS_Subset
<1> HIDE DEF C
<1>5. Cardinality(Busy(k)) <= Cardinality(C) /\ Cardinality(C) \in Nat
  BY <1>3, <1>4, FS_Subset, FS_CardinalityType
<1>6. active_requests[k] <= Cardinality(Busy(k)) /\ active_requests[k] \in Nat
  BY LimitAssumption DEF ActiveInv, Covered, AccountInv, IInv, LimiterType
<1>7. active_requests[k] <= Cardinality(C)
  BY <1>5, <1>6, BusyFinite
<1> QED BY Zenon, <1>7 DEF C

\* Each request that the limiter counts as active is on its way, with a handler, or was dropped by
\* the swarm because the peer manager sent it after the disconnection: request_completed and
\* peer_disconnected leave no other behind.
THEOREM ActiveNotLeakedCorrect == Spec => []ActiveNotLeaked
<1>1. Spec => []ActiveInv
  BY InitActive, NextActive, PTL DEF Spec
<1> QED
  BY <1>1, ActiveSame, PTL
=============================================================================
