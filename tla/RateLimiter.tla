----------------------------- MODULE RateLimiter -----------------------------
(***************************************************************************)
(* RPCRateLimiter and its GCRA limiters (rpc/rate_limiter.rs): for each    *)
(* protocol, the theoretical arrival time (tat) of each peer, that is the  *)
(* time at which its bucket will be full again.  It limits both the        *)
(* requests this node sends and the responses it serves.                   *)
(*                                                                         *)
(* Time is time_since_start, in nanoseconds.  The number of tokens of a    *)
(* request comes from its size and the fork, here from a set.              *)
(***************************************************************************)
EXTENDS Integers

CONSTANTS
  Peers, Protocols,
  replenish_all_every, max_tokens,  \* the quota of each protocol
  MaxResponses,                     \* what max_responses may return
  U64_MAX,
  MaxTime                           \* bound: the time the limiter runs

Keys == Peers \X Protocols

ASSUME QuotaAssumption ==
  /\ replenish_all_every \in [Protocols -> Nat \ {0}]
  /\ max_tokens \in [Protocols -> Nat \ {0}]
  /\ MaxResponses \subseteq Nat
\* The limiter runs for less than 2^64 nanoseconds, about 500 years (comment of Nanosecs).
ASSUME TimeAssumption ==
  /\ U64_MAX \in Nat /\ MaxTime \in Nat
  /\ \A pr \in Protocols : MaxTime + replenish_all_every[pr] < U64_MAX

VARIABLES
  now,                              \* time_since_start
  tat_per_key,                      \* -1 for a key that is not in the map
  last,                             \* the last request and what became of it
  granted                           \* history: tokens granted to a key since each instant

vars == <<now, tat_per_key, last, granted>>

SatAdd(a, b) == IF a + b > U64_MAX THEN U64_MAX ELSE a + b
SatMul(a, b) == IF a * b > U64_MAX THEN U64_MAX ELSE a * b
SatSub(a, b) == IF a >= b THEN a - b ELSE 0
Larger(a, b) == IF a >= b THEN a ELSE b

-----------------------------------------------------------------------------

\* Limiter::from_quota
tau(pr) == replenish_all_every[pr]
t(pr) == tau(pr) \div max_tokens[pr]

\* The tokens of an item that may have n responses
tokens(n) == Larger(n, 1)

additional_time(pr, n) == SatMul(t(pr), tokens(n))

\* Mutant: the stored time is ignored.
TatForgotten(k) == now

\* The entry of a key, or a full bucket: or_insert(time_since_start)
tat(k) == IF tat_per_key[k] = -1 THEN now ELSE tat_per_key[k]

\* Mutant: the burst is not subtracted.
EarliestWithoutBurst(k, n) == SatAdd(tat(k), additional_time(k[2], n))

earliest_time(k, n) == SatSub(SatAdd(tat(k), additional_time(k[2], n)), tau(k[2]))

\* Limiter::allows at the given time
allows(k, n, time) ==
  IF additional_time(k[2], n) > tau(k[2]) THEN "TooLarge"
  ELSE IF time < earliest_time(k, n) THEN "TooSoon"
  ELSE "Ok"

Allows(k, n) ==
  LET outcome == allows(k, n, now)
  IN /\ last' = <<k, additional_time(k[2], n), outcome>>
     /\ tat_per_key' =
          IF outcome = "TooLarge" THEN tat_per_key
          ELSE IF outcome = "TooSoon" THEN [tat_per_key EXCEPT ![k] = tat(k)]
          ELSE [tat_per_key EXCEPT ![k] = SatAdd(Larger(now, tat(k)), additional_time(k[2], n))]
     /\ granted' =
          IF outcome = "Ok"
            THEN [granted EXCEPT ![k] = [s \in 0 .. MaxTime |-> IF s <= now THEN @[s] + tokens(n) ELSE @[s]]]
            ELSE granted
     /\ UNCHANGED now

\* Mutant: buckets that are not full yet are dropped.
PruneEarly ==
  /\ tat_per_key' = [k \in Keys |-> IF tat_per_key[k] > now + 1 THEN tat_per_key[k] ELSE -1]
  /\ UNCHANGED <<now, last, granted>>

\* RPCRateLimiter::prune drops the buckets that are full.
prune ==
  /\ tat_per_key' = [k \in Keys |-> IF tat_per_key[k] >= now THEN tat_per_key[k] ELSE -1]
  /\ UNCHANGED <<now, last, granted>>

Tick ==
  /\ now < MaxTime
  /\ now' = now + 1 /\ last' = <<>>
  /\ UNCHANGED <<tat_per_key, granted>>

Init ==
  /\ now = 0 /\ last = <<>>
  /\ tat_per_key = [k \in Keys |-> -1]
  /\ granted = [k \in Keys |-> [s \in 0 .. MaxTime |-> 0]]

Next ==
  \/ \E k \in Keys, n \in MaxResponses : Allows(k, n)
  \/ prune
  \/ Tick

Spec == Init /\ [][Next]_vars

-----------------------------------------------------------------------------
(* Properties *)

\* The variables have their types, and every bucket is full again within replenish_all_every.
TypeOK ==
  /\ now \in 0 .. MaxTime
  /\ tat_per_key \in [Keys -> Nat \cup {-1}]
  /\ \A k \in Keys : tat_per_key[k] <= now + tau(k[2])
  /\ granted \in [Keys -> [0 .. MaxTime -> Nat]]

(***************************************************************************)
(* The limit that the quota stands for: whatever the pattern of requests,  *)
(* rejections and prunings, the tokens granted since any instant s would   *)
(* take no longer to replenish than the time elapsed since s and one       *)
(* replenish_all_every.                                                    *)
(***************************************************************************)
WindowBound ==
  \A k \in Keys : \A s \in 0 .. now : t(k[2]) * granted[k][s] <= (now - s) + tau(k[2])

\* The duration of TooSoon is the time after which the same request is accepted, and no peer
\* has to wait for longer than one replenish_all_every.
WaitSuffices ==
  \A k \in Keys, n \in MaxResponses :
    allows(k, n, now) = "TooSoon" =>
      /\ allows(k, n, earliest_time(k, n)) = "Ok"
      /\ earliest_time(k, n) - now <= tau(k[2])

\* The buckets of the limiter: the level of one is how far its tat lies in the future.
Bucket ==
  INSTANCE LeakyBucket
    WITH Capacity <- [k \in Keys |-> tau(k[2])],
         Costs <- [k \in Keys |-> {additional_time(k[2], n) : n \in MaxResponses}],
         level <- [k \in Keys |-> SatSub(tat(k), now)]

\* The limiter decides as leaky buckets do, one per peer and protocol: neither pruning nor the
\* saturating arithmetic shows.
BucketSpec == Bucket!Spec
=============================================================================
