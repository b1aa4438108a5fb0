----------------------------- MODULE LeakyBucket -----------------------------
(***************************************************************************)
(* What a rate limiter promises, without the arithmetic of its code: each  *)
(* peer has a bucket per protocol that fills by the cost of every request  *)
(* granted, drains by one every unit of time, and never overflows.  A      *)
(* request is granted exactly when its cost fits.                          *)
(***************************************************************************)
EXTENDS Integers

CONSTANTS
  Keys,                           \* the pairs of a peer and a protocol
  Capacity,                       \* of the bucket of a key
  Costs                           \* the costs that a request of a key may have

VARIABLES
  level,                          \* of each bucket
  last                            \* the last request and what became of it

bucketVars == <<level, last>>

Outcome(k, cost) ==
  IF cost > Capacity[k] THEN "TooLarge"
  ELSE IF level[k] + cost > Capacity[k] THEN "TooSoon"
  ELSE "Ok"

Request(k, cost) ==
  /\ last' = <<k, cost, Outcome(k, cost)>>
  /\ level' = IF Outcome(k, cost) = "Ok" THEN [level EXCEPT ![k] = @ + cost] ELSE level

Drain ==
  /\ level' = [k \in Keys |-> IF level[k] > 0 THEN level[k] - 1 ELSE 0]
  /\ last' = <<>>

Init == level = [k \in Keys |-> 0] /\ last = <<>>
Next == Drain \/ \E k \in Keys : \E cost \in Costs[k] : Request(k, cost)
Spec == Init /\ [][Next]_bucketVars
=============================================================================
