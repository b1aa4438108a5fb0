-------------------------- MODULE RateLimiterProofs --------------------------
(***************************************************************************)
(* Proofs about RateLimiter, for any peers, protocols, quotas and requests *)
(* within the time that 64 bits hold.                                      *)
(***************************************************************************)
EXTENDS RateLimiter, TLAPS

\* The quantities of a limiter are natural numbers, and a request that is not too large costs
\* exactly t nanoseconds per token: the multiplication did not saturate.
LEMMA Quantities ==
  ASSUME NEW pr \in Protocols, NEW n \in MaxResponses
  PROVE  /\ tau(pr) \in Nat \ {0} /\ t(pr) \in Nat /\ tokens(n) \in Nat \ {0}
         /\ additional_time(pr, n) \in Nat
         /\ additional_time(pr, n) <= tau(pr) => additional_time(pr, n) = t(pr) * tokens(n)
<1>1. tau(pr) \in Nat \ {0} /\ max_tokens[pr] \in Nat \ {0}  BY QuotaAssumption DEF tau
<1>2. t(pr) \in Nat
  <2>1. \A a \in Nat, b \in Nat \ {0} : a \div b \in Nat  OBVIOUS
  <2> QED  BY <1>1, <2>1 DEF t
<1>3. tokens(n) \in Nat \ {0}
  <2>1. n \in Nat  BY QuotaAssumption
  <2> QED  BY <2>1 DEF tokens, Larger
<1>4. t(pr) * tokens(n) \in Nat
  <2>1. \A a, b \in Nat : a * b \in Nat  OBVIOUS
  <2> QED  BY <1>2, <1>3, <2>1
<1>5. U64_MAX \in Nat /\ tau(pr) < U64_MAX  BY <1>1, TimeAssumption DEF tau
<1> HIDE DEF t, tokens, tau
<1> QED  BY <1>1, <1>2, <1>3, <1>4, <1>5 DEF additional_time, SatMul

\* A request that is granted fits in the bucket, and its new tat is computed without
\* saturation.
LEMMA GrantedFits ==
  ASSUME TypeOK, NEW k \in Keys, NEW n \in MaxResponses, allows(k, n, now) = "Ok"
  PROVE  LET cost == t(k[2]) * tokens(n)
         IN /\ additional_time(k[2], n) = cost /\ cost \in Nat /\ tat(k) \in Nat
            /\ Larger(now, tat(k)) + cost <= now + tau(k[2])
            /\ SatAdd(Larger(now, tat(k)), cost) = Larger(now, tat(k)) + cost
<1>1. k[2] \in Protocols  BY DEF Keys
<1>2. additional_time(k[2], n) <= tau(k[2]) /\ ~(now < earliest_time(k, n))
  BY <1>1, Quantities DEF allows, TypeOK, earliest_time
<1> DEFINE cost == t(k[2]) * tokens(n)
<1>3. additional_time(k[2], n) = cost /\ cost \in Nat /\ cost <= tau(k[2])
  BY <1>1, <1>2, Quantities
<1>4. /\ tat(k) \in Nat /\ tau(k[2]) \in Nat /\ now \in Nat /\ now <= MaxTime
      /\ MaxTime + tau(k[2]) < U64_MAX /\ U64_MAX \in Nat /\ MaxTime \in Nat
  BY <1>1, Quantities, TimeAssumption DEF TypeOK, tat, tau
<1>5. ~(now < SatSub(SatAdd(tat(k), cost), tau(k[2])))  BY <1>2, <1>3 DEF earliest_time
<1> HIDE DEF cost
<1>6. Larger(now, tat(k)) + cost <= now + tau(k[2])
  BY <1>3, <1>4, <1>5 DEF SatSub, SatAdd, Larger
<1>7. SatAdd(Larger(now, tat(k)), cost) = Larger(now, tat(k)) + cost
  BY <1>3, <1>4, <1>6 DEF SatAdd, Larger
<1> QED  BY <1>3, <1>4, <1>6, <1>7 DEF cost

\* The type invariant holds at the start.
LEMMA TypeInit == Init => TypeOK
<1> SUFFICES ASSUME Init  PROVE TypeOK  OBVIOUS
<1>1. now \in 0 .. MaxTime  BY TimeAssumption DEF Init
<1>2. tat_per_key \in [Keys -> Nat \cup {-1}] /\ granted \in [Keys -> [0 .. MaxTime -> Nat]]  BY DEF Init
<1>3. \A k \in Keys : tat_per_key[k] <= now + tau(k[2])
  BY QuotaAssumption DEF Init, Keys, tau
<1> QED  BY <1>1, <1>2, <1>3 DEF TypeOK

\* Every step keeps it: a grant never moves a tat beyond now + tau.
LEMMA TypeNext == TypeOK /\ [Next]_vars => TypeOK'
<1> SUFFICES ASSUME TypeOK, [Next]_vars  PROVE TypeOK'  OBVIOUS
<1>0. /\ now \in Nat /\ MaxTime \in Nat /\ \A k \in Keys : k[2] \in Protocols /\ tau(k[2]) \in Nat
      /\ \A k \in Keys : tat_per_key[k] \in Nat \cup {-1}
  BY TimeAssumption, QuotaAssumption DEF TypeOK, Keys, tau
<1>1. CASE UNCHANGED vars  BY <1>1 DEF vars, TypeOK, tau
<1>2. ASSUME NEW k \in Keys, NEW n \in MaxResponses, Allows(k, n)  PROVE TypeOK'
  <2>1. now' = now  BY <1>2 DEF Allows
  <2>2. granted' \in [Keys -> [0 .. MaxTime -> Nat]]
    <3>1. tokens(n) \in Nat  BY <1>0, Quantities
    <3>2. ASSUME NEW h \in [0 .. MaxTime -> Nat]
          PROVE  [s \in 0 .. MaxTime |-> IF s <= now THEN h[s] + tokens(n) ELSE h[s]]
                   \in [0 .. MaxTime -> Nat]
      BY <3>1
    <3>3. \/ granted' = granted
          \/ granted' = [granted EXCEPT ![k] =
               [s \in 0 .. MaxTime |-> IF s <= now THEN granted[k][s] + tokens(n) ELSE granted[k][s]]]
      BY <1>2 DEF Allows
    <3>4. granted \in [Keys -> [0 .. MaxTime -> Nat]] /\ granted[k] \in [0 .. MaxTime -> Nat]
      BY DEF TypeOK
    <3> DEFINE h == [s \in 0 .. MaxTime |-> IF s <= now THEN granted[k][s] + tokens(n) ELSE granted[k][s]]
    <3>5. h \in [0 .. MaxTime -> Nat]  BY <3>2, <3>4
    <3> HIDE DEF h
    <3>6. granted' = granted \/ granted' = [granted EXCEPT ![k] = h]  BY <3>3 DEF h
    <3> QED  BY <3>4, <3>5, <3>6
  <2>3. CASE allows(k, n, now) = "Ok"
    <3>1. tat_per_key' = [tat_per_key EXCEPT ![k] = Larger(now, tat(k)) + t(k[2]) * tokens(n)]
      BY <1>2, <2>3, GrantedFits DEF Allows
    <3>2. /\ Larger(now, tat(k)) + t(k[2]) * tokens(n) \in Nat
          /\ Larger(now, tat(k)) + t(k[2]) * tokens(n) <= now + tau(k[2])
      BY <1>0, <2>3, GrantedFits DEF Larger
    <3> QED  BY <2>1, <2>2, <3>1, <3>2 DEF TypeOK, tau
  <2>4. CASE allows(k, n, now) # "Ok"
    <3>1. tat(k) \in Nat /\ tat(k) <= now + tau(k[2])  BY <1>0 DEF tat, TypeOK
    <3>2. tat_per_key' = tat_per_key \/ tat_per_key' = [tat_per_key EXCEPT ![k] = tat(k)]
      BY <1>2, <2>4 DEF Allows, allows
    <3> QED  BY <2>1, <2>2, <3>1, <3>2 DEF TypeOK, tau
  <2> QED  BY <2>3, <2>4
<1>3. CASE prune
  <2>1. now' = now /\ granted' = granted  BY <1>3 DEF prune
  <2>2. \A k \in Keys : tat_per_key'[k] \in {tat_per_key[k], -1}  BY <1>3 DEF prune
  <2>3. tat_per_key' \in [Keys -> Nat \cup {-1}]  BY <1>0, <1>3 DEF prune
  <2>4. \A k \in Keys : tat_per_key'[k] <= now + tau(k[2])
    <3>1. \A k \in Keys : tat_per_key[k] <= now + tau(k[2])  BY DEF TypeOK
    <3> HIDE DEF tau
    <3> QED  BY <1>0, <2>2, <3>1
  <2> QED  BY <2>1, <2>3, <2>4 DEF TypeOK, tau
<1>4. CASE Tick
  <2>1. /\ now' = now + 1 /\ now' \in 0 .. MaxTime
        /\ tat_per_key' = tat_per_key /\ granted' = granted
    BY <1>0, <1>4 DEF Tick
  <2>2. \A k \in Keys : tat_per_key[k] <= now + tau(k[2])  BY DEF TypeOK
  <2> HIDE DEF tau
  <2>3. \A k \in Keys : tat_per_key[k] <= (now + 1) + tau(k[2])  BY <1>0, <2>2
  <2> QED  BY <2>1, <2>3 DEF TypeOK, tau
<1> QED  BY <1>1, <1>2, <1>3, <1>4 DEF Next

\* The variables of the rate limiter keep their types, and every bucket is full again within
\* one replenish_all_every.
THEOREM TypeCorrect == Spec => []TypeOK
BY TypeInit, TypeNext, PTL DEF Spec

-----------------------------------------------------------------------------

(***************************************************************************)
(* The bound on the tokens granted since s is not inductive: what carries  *)
(* it through the prunings is that the tat accounts for every grant.       *)
(***************************************************************************)
Accounted ==
  \A k \in Keys : \A s \in 0 .. MaxTime :
    /\ s > now => granted[k][s] = 0
    /\ granted[k][s] # 0 => s + t(k[2]) * granted[k][s] <= tat(k)

\* Every step keeps the account.
LEMMA AccountedNext == TypeOK /\ Accounted /\ [Next]_vars => Accounted'
<1> SUFFICES ASSUME TypeOK, Accounted, [Next]_vars, NEW k \in Keys, NEW s \in 0 .. MaxTime
             PROVE  /\ s > now' => granted'[k][s] = 0
                    /\ granted'[k][s] # 0 => s + t(k[2]) * granted'[k][s] <= tat(k)'
  BY DEF Accounted, t, tau
<1> DEFINE g == granted[k][s]
<1>0. /\ now \in Nat /\ MaxTime \in Nat /\ s \in Nat /\ g \in Nat /\ k[2] \in Protocols
      /\ tat_per_key[k] \in Nat \cup {-1} /\ tat(k) \in Nat
  BY TimeAssumption DEF TypeOK, Keys, tat
<1>0a. t(k[2]) \in Nat
  <2>1. \A a \in Nat, b \in Nat \ {0} : a \div b \in Nat  OBVIOUS
  <2> QED  BY <1>0, <2>1, QuotaAssumption DEF t, tau
<1>0b. (s > now => g = 0) /\ (g # 0 => s + t(k[2]) * g <= tat(k))  BY DEF Accounted
<1>0c. t(k[2]) * g \in Nat
  <2>1. \A a, b \in Nat : a * b \in Nat  OBVIOUS
  <2> QED  BY <2>1, <1>0, <1>0a
<1> HIDE DEF t, tau, tokens
<1>1. ASSUME granted'[k][s] = g, now' >= now, tat(k)' >= tat(k), now' \in Nat, tat(k)' \in Nat
      PROVE  /\ s > now' => granted'[k][s] = 0
             /\ granted'[k][s] # 0 => s + t(k[2]) * granted'[k][s] <= tat(k)'
  BY <1>0, <1>0b, <1>0c, <1>1
<1>2. CASE UNCHANGED vars  BY <1>0, <1>1, <1>2 DEF vars, tat
<1>3. ASSUME NEW j \in Keys, NEW n \in MaxResponses, Allows(j, n), j # k \/ allows(j, n, now) # "Ok"
      PROVE  /\ s > now' => granted'[k][s] = 0
             /\ granted'[k][s] # 0 => s + t(k[2]) * granted'[k][s] <= tat(k)'
  <2>1. granted'[k] = granted[k] /\ now' = now  BY <1>3 DEF Allows, TypeOK
  <2>2. tat(k)' = tat(k)  BY <1>0, <1>3 DEF Allows, allows, tat, TypeOK
  <2> QED  BY <1>0, <1>1, <2>1, <2>2
<1>4. ASSUME NEW n \in MaxResponses, Allows(k, n), allows(k, n, now) = "Ok"
      PROVE  /\ s > now' => granted'[k][s] = 0
             /\ granted'[k][s] # 0 => s + t(k[2]) * granted'[k][s] <= tat(k)'
  <2> DEFINE cost == t(k[2]) * tokens(n)
  <2>1. cost \in Nat /\ tokens(n) \in Nat  BY <1>0, <1>4, GrantedFits, Quantities
  <2>2. now' = now /\ tat_per_key'[k] = Larger(now, tat(k)) + cost
    BY <1>4, GrantedFits DEF Allows, TypeOK
  <2>3. granted'[k][s] = IF s <= now THEN g + tokens(n) ELSE g
    BY <1>4 DEF Allows, TypeOK
  <2>4. t(k[2]) * (g + tokens(n)) = t(k[2]) * g + cost
    <3>1. \A a, b, c \in Nat : a * (b + c) = a * b + a * c  OBVIOUS
    <3> QED  BY <3>1, <1>0, <1>0a, <2>1
  <2>5. g = 0 => t(k[2]) * g = 0
    <3>1. \A a \in Nat : a * 0 = 0  OBVIOUS
    <3> QED  BY <3>1, <1>0a
  <2> HIDE DEF cost, g
  <2>6. tat(k)' = Larger(now, tat(k)) + cost
    BY <1>0, <2>1, <2>2 DEF tat, Larger
  <2>7. CASE s <= now
    <3>1. granted'[k][s] = g + tokens(n)  BY <2>3, <2>7
    <3>2. s + (t(k[2]) * g + cost) <= Larger(now, tat(k)) + cost
      BY <1>0, <1>0b, <1>0c, <2>1, <2>5, <2>7 DEF Larger
    <3> QED  BY <3>1, <3>2, <2>2, <2>4, <2>6, <2>7, <1>0
  <2>8. CASE s > now
    BY <2>8, <2>3, <2>2, <1>0, <1>0b
  <2> QED  BY <2>7, <2>8, <1>0
<1>5. CASE prune
  <2>1. granted' = granted /\ now' = now  BY <1>5 DEF prune
  <2>2. tat(k)' >= tat(k) /\ tat(k)' \in Nat  BY <1>0, <1>5 DEF prune, tat
  <2> QED  BY <1>0, <1>1, <2>1, <2>2
<1>6. CASE Tick
  <2>1. granted' = granted /\ now' = now + 1  BY <1>6 DEF Tick
  <2>2. tat(k)' >= tat(k) /\ tat(k)' \in Nat  BY <1>0, <1>6 DEF Tick, tat
  <2> QED  BY <1>0, <1>1, <2>1, <2>2
<1> QED  BY <1>2, <1>3, <1>4, <1>5, <1>6 DEF Next

\* An account within now + tau bounds the tokens of every window.
LEMMA AccountBounds == TypeOK /\ Accounted => WindowBound
<1> SUFFICES ASSUME TypeOK, Accounted, NEW k \in Keys, NEW s \in 0 .. now
             PROVE  t(k[2]) * granted[k][s] <= (now - s) + tau(k[2])
  BY DEF WindowBound
<1>1. /\ now \in Nat /\ s \in Nat /\ s \in 0 .. MaxTime /\ k[2] \in Protocols /\ granted[k][s] \in Nat
      /\ tau(k[2]) \in Nat /\ tat(k) \in Nat /\ tat(k) <= now + tau(k[2]) /\ s <= now
  BY TimeAssumption, QuotaAssumption DEF TypeOK, Keys, tat, tau
<1>2. t(k[2]) \in Nat
  <2>1. \A a \in Nat, b \in Nat \ {0} : a \div b \in Nat  OBVIOUS
  <2> QED  BY <1>1, <2>1, QuotaAssumption DEF t, tau
<1>3. t(k[2]) * granted[k][s] \in Nat /\ (granted[k][s] = 0 => t(k[2]) * granted[k][s] = 0)
  <2>1. \A a, b \in Nat : a * b \in Nat /\ a * 0 = 0  OBVIOUS
  <2> QED  BY <1>1, <1>2, <2>1
<1>4. granted[k][s] # 0 => s + t(k[2]) * granted[k][s] <= tat(k)  BY <1>1 DEF Accounted
<1> QED  BY <1>1, <1>3, <1>4

\* For every quota and every pattern of requests, no window of time grants more tokens than
\* its length and one burst replenish.
THEOREM WindowBoundCorrect == Spec => []WindowBound
<1>1. Init => Accounted  BY DEF Init, Accounted
<1> QED  BY <1>1, TypeInit, TypeNext, AccountedNext, AccountBounds, PTL DEF Spec

-----------------------------------------------------------------------------

\* A request that is too soon is allowed once it has waited for the time in the error, which
\* is at most one replenish_all_every.
LEMMA WaitIsExact == TypeOK => WaitSuffices
<1> SUFFICES ASSUME TypeOK, NEW k \in Keys, NEW n \in MaxResponses, allows(k, n, now) = "TooSoon"
             PROVE  /\ allows(k, n, earliest_time(k, n)) = "Ok"
                    /\ earliest_time(k, n) - now <= tau(k[2])
  BY DEF WaitSuffices
<1>1. k[2] \in Protocols  BY DEF Keys
<1>2. ~(additional_time(k[2], n) > tau(k[2]))  BY DEF allows
<1>3. /\ tat(k) \in Nat /\ tau(k[2]) \in Nat /\ now \in Nat /\ additional_time(k[2], n) \in Nat
      /\ tat(k) <= now + tau(k[2]) /\ U64_MAX \in Nat
  BY <1>1, Quantities, TimeAssumption DEF TypeOK, tat
<1>4. earliest_time(k, n) \in Nat /\ earliest_time(k, n) - now <= tau(k[2])
  BY <1>2, <1>3 DEF earliest_time, SatSub, SatAdd
<1>5. allows(k, n, earliest_time(k, n)) = "Ok"
  BY <1>2, <1>4 DEF allows
<1> QED  BY <1>4, <1>5

\* The duration of every TooSoon error is enough, and bounded.
THEOREM WaitSufficesCorrect == Spec => []WaitSuffices
BY TypeCorrect, WaitIsExact, PTL

-----------------------------------------------------------------------------

\* The level of the bucket of a key in terms of its tat
Level(k) == SatSub(tat(k), now)

\* The limiter and the bucket decide alike, although the limiter saturates.
LEMMA SameOutcome ==
  ASSUME TypeOK, NEW k \in Keys, NEW n \in MaxResponses
  PROVE  Bucket!Outcome(k, additional_time(k[2], n)) = allows(k, n, now)
<1>1. k[2] \in Protocols  BY DEF Keys
<1> DEFINE cost == additional_time(k[2], n)
<1>2. /\ tat(k) \in Nat /\ tau(k[2]) \in Nat /\ now \in Nat /\ cost \in Nat /\ now <= MaxTime
      /\ U64_MAX \in Nat /\ MaxTime \in Nat /\ MaxTime + tau(k[2]) < U64_MAX
  BY <1>1, Quantities, TimeAssumption DEF TypeOK, tat, tau
<1>3. Bucket!Outcome(k, cost) = IF cost > tau(k[2]) THEN "TooLarge"
                                ELSE IF Level(k) + cost > tau(k[2]) THEN "TooSoon" ELSE "Ok"
  BY DEF Bucket!Outcome, Level
<1>4. allows(k, n, now) = IF cost > tau(k[2]) THEN "TooLarge"
                          ELSE IF now < SatSub(SatAdd(tat(k), cost), tau(k[2])) THEN "TooSoon" ELSE "Ok"
  BY DEF allows, earliest_time
<1> HIDE DEF cost
<1>5. ASSUME ~(cost > tau(k[2]))
      PROVE  Level(k) + cost > tau(k[2]) <=> now < SatSub(SatAdd(tat(k), cost), tau(k[2]))
  BY <1>2, <1>5 DEF Level, SatSub, SatAdd
<1>6. Bucket!Outcome(k, cost) = allows(k, n, now)  BY <1>3, <1>4, <1>5
<1> QED  BY <1>6 DEF cost

\* Every step of the limiter is a step of the buckets, or does not show.
LEMMA BucketStep == TypeOK /\ [Next]_vars => [Bucket!Next]_(Bucket!bucketVars)
<1> SUFFICES ASSUME TypeOK, [Next]_vars  PROVE [Bucket!Next]_(Bucket!bucketVars)  OBVIOUS
<1>0. /\ now \in Nat /\ \A k \in Keys : tat_per_key[k] \in Nat \cup {-1} /\ tat(k) \in Nat
  BY TimeAssumption DEF TypeOK, tat
<1>1. ASSUME \A k \in Keys : Level(k)' = Level(k), UNCHANGED last
      PROVE  UNCHANGED Bucket!bucketVars
  BY <1>1 DEF Bucket!bucketVars, Level
<1>2. CASE UNCHANGED vars  BY <1>1, <1>2 DEF vars, Level, tat
<1>3. ASSUME NEW k \in Keys, NEW n \in MaxResponses, Allows(k, n)  PROVE Bucket!Next
  <2> DEFINE cost == additional_time(k[2], n)
  <2>1. \A j \in Keys \ {k} : Level(j)' = Level(j)  BY <1>3 DEF Allows, Level, tat, TypeOK
  <2>2. allows(k, n, now) = "Ok" => Level(k)' = Level(k) + cost
    <3> SUFFICES ASSUME allows(k, n, now) = "Ok"  PROVE Level(k)' = Level(k) + cost  OBVIOUS
    <3>1. cost \in Nat /\ tat_per_key'[k] = Larger(now, tat(k)) + cost /\ now' = now
      BY <1>3, GrantedFits DEF Allows, TypeOK
    <3> HIDE DEF cost
    <3> QED  BY <1>0, <3>1 DEF Level, tat, SatSub, Larger
  <2>3. allows(k, n, now) # "Ok" => Level(k)' = Level(k)
    BY <1>0, <1>3 DEF Allows, allows, Level, tat, TypeOK
  <2>4. Bucket!Request(k, cost)
    BY <1>3, <2>1, <2>2, <2>3, SameOutcome DEF Bucket!Request, Allows, Level
  <2> QED  BY <2>4 DEF Bucket!Next
<1>4. CASE prune
  <2>1. \A k \in Keys : Level(k)' = Level(k)  BY <1>0, <1>4 DEF prune, Level, tat, SatSub
  <2> QED  BY <1>1, <1>4, <2>1 DEF prune
<1>5. CASE Tick
  <2>1. \A k \in Keys : Level(k)' = IF Level(k) > 0 THEN Level(k) - 1 ELSE 0
    BY <1>0, <1>5 DEF Tick, Level, tat, SatSub
  <2>2. Bucket!Drain  BY <1>5, <2>1 DEF Bucket!Drain, Tick, Level
  <2> QED  BY <2>2 DEF Bucket!Next
<1> QED  BY <1>2, <1>3, <1>4, <1>5 DEF Next

\* The rate limiter implements the leaky buckets: it grants exactly the requests that fit.
THEOREM ImplementsBuckets == Spec => BucketSpec
<1>1. Init => Bucket!Init  BY DEF Init, Bucket!Init, SatSub, tat
<1> QED  BY <1>1, BucketStep, TypeCorrect, PTL DEF Spec, BucketSpec, Bucket!Spec
=============================================================================
