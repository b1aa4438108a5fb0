---------------------------- MODULE QueueTheorems ----------------------------
(***************************************************************************)
(* What the proofs about queues share.                                     *)
(*                                                                         *)
(* Recursive functions are reasoned about by induction over the naturals   *)
(* in the form of the least counterexample: a set of naturals that is not  *)
(* empty has a least element (LeastNat), so a property that 0 has and each *)
(* number passes on to the next belongs to all (Climb).                    *)
(***************************************************************************)
EXTENDS Queues, FiniteSetTheorems, WellFoundedInduction, TLAPS

-----------------------------------------------------------------------------
(* Induction over the naturals                                             *)

Less == {pair \in Nat \X Nat : pair[1] < pair[2]}

\* The order of the naturals is well-founded.
LEMMA LessWellFounded == IsWellFoundedOn(Less, Nat)
BY NatLessThanWellFounded DEF OpToRel, Less

\* A set of naturals that is not empty has a least element.
LEMMA LeastNat ==
  ASSUME NEW S, S \subseteq Nat, S # {}
  PROVE  \E n \in S : \A k \in S : n <= k
<1>1. PICK n \in S : \A k \in S : <<k, n>> \notin Less
  BY WFMin, LessWellFounded
<1>2. \A k \in S : ~(k < n)
  BY <1>1 DEF Less
<1> QED BY <1>2

\* A set that has 0 and with each number up to a bound the next one has them all.
LEMMA Climb ==
  ASSUME NEW n \in Nat, NEW S, 0 \in S, \A i \in 1 .. n : i - 1 \in S => i \in S
  PROVE  n \in S
<1> DEFINE T == {i \in 0 .. n : i \notin S}
<1> SUFFICES ASSUME n \notin S PROVE FALSE
  OBVIOUS
<1>1. T \subseteq Nat /\ T # {}
  OBVIOUS
<1>2. PICK k \in T : \A i \in T : k <= i
  BY <1>1, LeastNat
<1>3. k \in 1 .. n /\ k - 1 \in 0 .. n /\ k - 1 \notin T
  BY <1>2
<1> QED BY <1>2, <1>3

-----------------------------------------------------------------------------
(* Parts of a queue, and two queues in a row                               *)

\* What SubSeq returns.
LEMMA SubSeqElements ==
  ASSUME NEW S, NEW s, NEW m \in Int, NEW n \in Int, \A i \in m .. n : s[i] \in S
  PROVE  /\ SubSeq(s, m, n) \in Seq(S)
         /\ Len(SubSeq(s, m, n)) = IF m <= n THEN n - m + 1 ELSE 0
         /\ \A i \in 1 .. n - m + 1 : SubSeq(s, m, n)[i] = s[m + i - 1]
OBVIOUS

\* A part of a queue is two parts in a row.
LEMMA SubSeqAdjacent ==
  ASSUME NEW S, NEW s \in Seq(S), NEW m \in 1 .. Len(s) + 1,
         NEW k \in m - 1 .. Len(s), NEW n \in k .. Len(s)
  PROVE  SubSeq(s, m, n) = SubSeq(s, m, k) \o SubSeq(s, k + 1, n)
OBVIOUS

\* So is the whole queue.
LEMMA SubSeqParts ==
  ASSUME NEW S, NEW s \in Seq(S), NEW k \in 0 .. Len(s)
  PROVE  SubSeq(s, 1, k) \o SubSeq(s, k + 1, Len(s)) = s
<1>1. 1 \in 1 .. Len(s) + 1 /\ k \in 1 - 1 .. Len(s) /\ Len(s) \in k .. Len(s)
  OBVIOUS
<1>2. SubSeq(s, 1, Len(s)) = SubSeq(s, 1, k) \o SubSeq(s, k + 1, Len(s))
  BY <1>1, SubSeqAdjacent
<1>3. SubSeq(s, 1, Len(s)) = s
  OBVIOUS
<1> QED BY <1>2, <1>3

\* The elements of one queue are followed by those of the other.
LEMMA ConcatElements ==
  ASSUME NEW S, NEW s \in Seq(S), NEW t \in Seq(S)
  PROVE  /\ s \o t \in Seq(S) /\ Len(s \o t) = Len(s) + Len(t)
         /\ \A i \in 1 .. Len(s) + Len(t) :
              (s \o t)[i] = IF i <= Len(s) THEN s[i] ELSE t[i - Len(s)]
OBVIOUS

\* Queues with the same elements are the same.
LEMMA SameElements ==
  ASSUME NEW S, NEW s \in Seq(S), NEW t \in Seq(S),
         Len(s) = Len(t), \A i \in 1 .. Len(s) : s[i] = t[i]
  PROVE  s = t
OBVIOUS

-----------------------------------------------------------------------------
(* Without                                                                 *)

\* One element of s more
Left(w, x, X) == IF x \in X THEN w ELSE Append(w, x)

\* left is the recursive function of Without, up to m
LeftUpTo(left, s, X, m) ==
  left = [i \in 0 .. m |-> IF i = 0 THEN <<>> ELSE Left(left[i - 1], s[i], X)]

\* The recursive definition in Without has a solution.
LEMMA LeftUpToExists ==
  ASSUME NEW s, NEW X, NEW n \in Nat
  PROVE  \E f : LeftUpTo(f, s, X, n)
<1> DEFINE S == {m \in 0 .. n : \E f : LeftUpTo(f, s, X, m)}
<1>1. 0 \in S
  <2>1. LeftUpTo([i \in 0 .. 0 |-> <<>>], s, X, 0)
    BY DEF LeftUpTo
  <2> QED BY <2>1
<1>2. ASSUME NEW m \in 1 .. n, m - 1 \in S PROVE m \in S
  <2>1. PICK f : LeftUpTo(f, s, X, m - 1)
    BY <1>2
  <2> DEFINE g == [i \in 0 .. m |-> IF i = m THEN Left(f[m - 1], s[m], X) ELSE f[i]]
  <2>2. \A i \in 0 .. m : g[i] = IF i = 0 THEN <<>> ELSE Left(g[i - 1], s[i], X)
    BY <2>1 DEF LeftUpTo
  <2>3. LeftUpTo(g, s, X, m)
    BY <2>2 DEF LeftUpTo
  <2> HIDE DEF g
  <2> QED BY <2>3
<1>3. n \in S
  BY <1>1, <1>2, Climb
<1> QED BY <1>3

\* w has the elements of the first n of s that are not in X, in their order: m says where they were.
Embeds(m, w, s, X, n) ==
  /\ m \in [1 .. Len(w) -> 1 .. n]
  /\ \A i, j \in 1 .. Len(w) : i < j => m[i] < m[j]
  /\ \A i \in 1 .. Len(w) : w[i] = s[m[i]] /\ w[i] \notin X
  /\ \A j \in 1 .. n : s[j] \notin X => \E i \in 1 .. Len(w) : m[i] = j

\* The next element is passed over, or comes after those that are left.
LEMMA EmbedsNext ==
  ASSUME NEW T, NEW s \in Seq(T), NEW X, NEW n \in 1 .. Len(s), NEW w \in Seq(T), NEW m,
         Embeds(m, w, s, X, n - 1)
  PROVE  Left(w, s[n], X) \in Seq(T) /\ \E k : Embeds(k, Left(w, s[n], X), s, X, n)
<1>1. s[n] \in T /\ Len(w) \in Nat /\ Len(s) \in Nat /\ n \in Nat
  OBVIOUS
<1>2. CASE s[n] \in X
  <2>1. Embeds(m, w, s, X, n)
    BY <1>1, <1>2 DEF Embeds
  <2> QED BY <1>2, <2>1 DEF Left
<1>3. CASE s[n] \notin X
  <2> DEFINE v == Append(w, s[n])
             k == [i \in 1 .. Len(w) + 1 |-> IF i = Len(w) + 1 THEN n ELSE m[i]]
  <2>1. /\ v \in Seq(T) /\ Len(v) = Len(w) + 1 /\ v[Len(w) + 1] = s[n]
        /\ \A i \in 1 .. Len(w) : v[i] = w[i]
    BY <1>1
  <2> HIDE DEF v
  <2>2. Embeds(k, v, s, X, n)
    <3>1. k \in [1 .. Len(v) -> 1 .. n]
      BY <1>1, <2>1 DEF Embeds
    <3>2. ASSUME NEW i \in 1 .. Len(v), NEW j \in 1 .. Len(v), i < j PROVE k[i] < k[j]
      <4>1. i \in 1 .. Len(w) /\ k[i] = m[i] /\ m[i] \in 1 .. n - 1
        BY <1>1, <2>1, <3>2 DEF Embeds
      <4>2. CASE j = Len(w) + 1
        BY <1>1, <4>1, <4>2
      <4>3. CASE j \in 1 .. Len(w)
        <5>1. k[j] = m[j]
          BY <1>1, <4>3
        <5> QED BY <3>2, <4>1, <4>3, <5>1 DEF Embeds
      <4> QED BY <1>1, <2>1, <4>2, <4>3
    <3>3. \A i \in 1 .. Len(v) : v[i] = s[k[i]] /\ v[i] \notin X
      BY <1>1, <1>3, <2>1 DEF Embeds
    <3>4. ASSUME NEW j \in 1 .. n, s[j] \notin X PROVE \E i \in 1 .. Len(v) : k[i] = j
      <4>1. CASE j = n
        BY <1>1, <2>1, <4>1
      <4>2. CASE j # n
        <5>1. PICK i \in 1 .. Len(w) : m[i] = j
          BY <1>1, <3>4, <4>2 DEF Embeds
        <5> QED BY <1>1, <2>1, <5>1
      <4> QED BY <4>1, <4>2
    <3> QED BY <3>1, <3>2, <3>3, <3>4 DEF Embeds
  <2>3. Left(w, s[n], X) = v
    BY <1>3 DEF Left, v
  <2> HIDE DEF k
  <2> QED BY <2>1, <2>2, <2>3
<1> QED BY <1>2, <1>3

\* Without removes the elements of X and keeps the others in their order.
LEMMA WithoutEmbeds ==
  ASSUME NEW T, NEW s \in Seq(T), NEW X
  PROVE  /\ Without(s, X) \in Seq(T)
         /\ \E m : Embeds(m, Without(s, X), s, X, Len(s))
<1> DEFINE n == Len(s)
           f == CHOOSE f : LeftUpTo(f, s, X, n)
           S == {i \in 0 .. n : f[i] \in Seq(T) /\ \E m : Embeds(m, f[i], s, X, i)}
<1>1. \E k : LeftUpTo(k, s, X, n)
  <2>1. n \in Nat
    OBVIOUS
  <2> HIDE DEF n
  <2> QED BY <2>1, LeftUpToExists
<1>2. LeftUpTo(f, s, X, n)
  BY <1>1
<1>3. Without(s, X) = f[n]
  BY DEF Without, LeftUpTo, Left
<1> HIDE DEF f
<1>4. f[0] = <<>> /\ \A i \in 1 .. n : f[i] = Left(f[i - 1], s[i], X)
  BY <1>2 DEF LeftUpTo
<1>5. 0 \in S
  <2>1. <<>> \in Seq(T)
    OBVIOUS
  <2>2. Embeds([i \in 1 .. 0 |-> 0], <<>>, s, X, 0)
    BY DEF Embeds
  <2>3. f[0] \in Seq(T)
    BY <1>4, <2>1, Zenon
  <2>4. \E m : Embeds(m, f[0], s, X, 0)
    BY <1>4, <2>2, Zenon
  <2> QED BY <2>3, <2>4
<1>6. ASSUME NEW i \in 1 .. n, i - 1 \in S PROVE i \in S
  <2>1. PICK m : Embeds(m, f[i - 1], s, X, i - 1)
    BY <1>6
  <2>2. Left(f[i - 1], s[i], X) \in Seq(T) /\ \E k : Embeds(k, Left(f[i - 1], s[i], X), s, X, i)
    BY <1>6, <2>1, EmbedsNext
  <2> QED BY <1>4, <2>2
<1>7. n \in S
  <2> HIDE DEF S
  <2> QED BY <1>5, <1>6, Climb
<1> QED BY <1>3, <1>7

-----------------------------------------------------------------------------
(* Occurrences                                                             *)

\* Sets that a function maps one to one have the same size.
LEMMA SameSize ==
  ASSUME NEW S, NEW U, IsFiniteSet(S), NEW f \in [S -> U],
         \A a, b \in S : f[a] = f[b] => a = b, \A u \in U : \E a \in S : f[a] = u
  PROVE  IsFiniteSet(U) /\ Cardinality(U) = Cardinality(S)
<1>1. f \in Bijection(S, U)
  BY DEF Bijection, Injection, Surjection, IsInjective
<1>2. ExistsBijection(S, U)
  BY <1>1 DEF ExistsBijection
<1> QED BY <1>2, FS_Bijection

Positions(s, x) == {i \in DOMAIN s : s[i] = x}

\* A queue has finitely many positions.
LEMMA PositionsFinite ==
  ASSUME NEW T, NEW s \in Seq(T), NEW x
  PROVE  /\ IsFiniteSet(Positions(s, x)) /\ Occurrences(s, x) = Cardinality(Positions(s, x))
         /\ Occurrences(s, x) \in Nat
<1>1. Positions(s, x) \in SUBSET (1 .. Len(s)) /\ Len(s) \in Nat
  BY DEF Positions
<1>2. IsFiniteSet(1 .. Len(s))
  BY <1>1, FS_Interval
<1>3. IsFiniteSet(Positions(s, x))
  BY <1>1, <1>2, FS_Subset
<1>4. Occurrences(s, x) = Cardinality(Positions(s, x))
  BY DEF Occurrences, Positions
<1> QED BY <1>3, <1>4, FS_CardinalityType

\* x occurs when it is somewhere in the queue.
LEMMA OccursSomewhere ==
  ASSUME NEW T, NEW s \in Seq(T), NEW x
  PROVE  Occurrences(s, x) > 0 <=> \E i \in 1 .. Len(s) : s[i] = x
<1>1. IsFiniteSet(Positions(s, x)) /\ Occurrences(s, x) = Cardinality(Positions(s, x))
      /\ Occurrences(s, x) \in Nat
  BY PositionsFinite
<1>2. Positions(s, x) # {} <=> \E i \in 1 .. Len(s) : s[i] = x
  BY DEF Positions
<1> QED BY <1>1, <1>2, FS_EmptySet

\* Nothing occurs in the empty queue.
LEMMA OccursEmpty == \A x : Occurrences(<<>>, x) = 0
<1>1. \A x : {i \in DOMAIN <<>> : <<>>[i] = x} = {}
  OBVIOUS
<1> QED BY <1>1, FS_EmptySet DEF Occurrences

\* An element that is appended occurs once more.
LEMMA OccursAppend ==
  ASSUME NEW T, NEW s \in Seq(T), NEW e \in T, NEW x
  PROVE  Occurrences(Append(s, e), x) = Occurrences(s, x) + (IF e = x THEN 1 ELSE 0)
<1> DEFINE n == Len(s) + 1
           q == Append(s, e)
<1>1. /\ q \in Seq(T) /\ DOMAIN q = 1 .. n /\ q[n] = e /\ n \notin DOMAIN s
      /\ DOMAIN q = DOMAIN s \cup {n} /\ \A i \in DOMAIN s : q[i] = s[i]
  OBVIOUS
<1>2. /\ IsFiniteSet(Positions(s, x)) /\ Occurrences(s, x) = Cardinality(Positions(s, x))
      /\ Occurrences(q, x) = Cardinality(Positions(q, x)) /\ Occurrences(s, x) \in Nat
  BY <1>1, PositionsFinite
<1> HIDE DEF q, n
<1>3. CASE e = x
  <2>1. Positions(q, x) = Positions(s, x) \cup {n} /\ n \notin Positions(s, x)
    BY <1>1, <1>3 DEF Positions
  <2> QED BY <1>2, <1>3, <2>1, FS_AddElement DEF q
<1>4. CASE e # x
  <2>1. Positions(q, x) = Positions(s, x)
    BY <1>1, <1>4 DEF Positions
  <2> QED BY <1>2, <1>4, <2>1 DEF q
<1> QED BY <1>3, <1>4

\* In two queues one after the other x occurs as often as in both.
LEMMA OccursConcat ==
  ASSUME NEW T, NEW s \in Seq(T), NEW t \in Seq(T), NEW x
  PROVE  Occurrences(s \o t, x) = Occurrences(s, x) + Occurrences(t, x)
<1> DEFINE n == Len(s)
           q == s \o t
           shifted == {i \in DOMAIN q : i > n /\ q[i] = x}
           f == [i \in Positions(t, x) |-> i + n]
<1>1. /\ n \in Nat /\ Len(t) \in Nat /\ q \in Seq(T) /\ DOMAIN q = 1 .. n + Len(t)
      /\ DOMAIN s = 1 .. n /\ DOMAIN t = 1 .. Len(t)
      /\ \A i \in 1 .. n : q[i] = s[i]
      /\ \A i \in 1 .. Len(t) : q[i + n] = t[i]
  OBVIOUS
<1>2. /\ IsFiniteSet(Positions(s, x)) /\ Occurrences(s, x) = Cardinality(Positions(s, x))
      /\ IsFiniteSet(Positions(t, x)) /\ Occurrences(t, x) = Cardinality(Positions(t, x))
      /\ Occurrences(q, x) = Cardinality(Positions(q, x))
      /\ Occurrences(s, x) \in Nat /\ Occurrences(t, x) \in Nat
  BY <1>1, PositionsFinite
<1> HIDE DEF q, n
<1>3. Positions(q, x) = Positions(s, x) \cup shifted /\ Positions(s, x) \cap shifted = {}
  BY <1>1 DEF Positions
<1>4. /\ f \in [Positions(t, x) -> shifted] /\ \A a, b \in Positions(t, x) : f[a] = f[b] => a = b
  BY <1>1 DEF Positions
<1>5. ASSUME NEW u \in shifted PROVE \E a \in Positions(t, x) : f[a] = u
  <2>1. u - n \in Positions(t, x) /\ f[u - n] = u
    BY <1>1 DEF Positions
  <2> QED BY <2>1
<1> HIDE DEF f, shifted
<1>6. IsFiniteSet(shifted) /\ Cardinality(shifted) = Cardinality(Positions(t, x))
  BY <1>2, <1>4, <1>5, SameSize
<1>7. Cardinality(Positions(q, x)) = Cardinality(Positions(s, x)) + Cardinality(shifted) - Cardinality({})
  BY <1>2, <1>3, <1>6, FS_Union
<1> QED BY <1>2, <1>6, <1>7, FS_EmptySet DEF q

\* An element that is removed does not occur, and the others occur as often as before.
LEMMA OccursWithout ==
  ASSUME NEW T, NEW s \in Seq(T), NEW X, NEW x
  PROVE  Occurrences(Without(s, X), x) = IF x \in X THEN 0 ELSE Occurrences(s, x)
<1> DEFINE w == Without(s, X)
<1>1. w \in Seq(T)
  BY WithoutEmbeds
<1>2. PICK m : Embeds(m, w, s, X, Len(s))
  BY WithoutEmbeds
<1>3. /\ IsFiniteSet(Positions(s, x)) /\ Occurrences(s, x) = Cardinality(Positions(s, x))
      /\ IsFiniteSet(Positions(w, x)) /\ Occurrences(w, x) = Cardinality(Positions(w, x))
  BY <1>1, PositionsFinite
<1> HIDE DEF w
<1>4. DOMAIN w = 1 .. Len(w) /\ DOMAIN s = 1 .. Len(s) /\ Len(w) \in Nat /\ Len(s) \in Nat
  BY <1>1
<1>5. CASE x \in X
  <2>1. Positions(w, x) = {}
    BY <1>2, <1>4, <1>5 DEF Positions, Embeds
  <2> QED BY <1>3, <1>5, <2>1, FS_EmptySet DEF w
<1>6. CASE x \notin X
  <2> DEFINE f == [i \in Positions(w, x) |-> m[i]]
  <2>1. f \in [Positions(w, x) -> Positions(s, x)]
    BY <1>2, <1>4 DEF Positions, Embeds
  <2>2. \A a, b \in Positions(w, x) : f[a] = f[b] => a = b
    <3>1. \A a \in Positions(w, x) : a \in 1 .. Len(w) /\ m[a] \in Int /\ a \in Int
      BY <1>2, <1>4 DEF Positions, Embeds
    <3>2. \A a, b \in Positions(w, x) : a < b => m[a] < m[b]
      BY <1>2, <3>1 DEF Embeds
    <3> QED BY <3>1, <3>2
  <2>3. ASSUME NEW u \in Positions(s, x) PROVE \E a \in Positions(w, x) : f[a] = u
    <3>1. u \in 1 .. Len(s) /\ s[u] \notin X /\ s[u] = x
      BY <1>4, <1>6 DEF Positions
    <3>2. PICK a \in 1 .. Len(w) : m[a] = u
      BY <1>2, <3>1 DEF Embeds
    <3>3. a \in Positions(w, x)
      BY <1>2, <1>4, <3>1, <3>2 DEF Positions, Embeds
    <3> QED BY <3>2, <3>3
  <2> HIDE DEF f
  <2>4. Cardinality(Positions(s, x)) = Cardinality(Positions(w, x))
    BY <1>3, <2>1, <2>2, <2>3, SameSize
  <2> QED BY <1>3, <1>6, <2>4 DEF w
<1> QED BY <1>5, <1>6

\* An element that occurs at most once is at one position.
LEMMA OccursOnce ==
  ASSUME NEW T, NEW s \in Seq(T), NEW x, Occurrences(s, x) <= 1,
         NEW i \in 1 .. Len(s), NEW j \in 1 .. Len(s), s[i] = x, s[j] = x
  PROVE  i = j
<1>1. IsFiniteSet(Positions(s, x)) /\ Occurrences(s, x) = Cardinality(Positions(s, x))
      /\ Occurrences(s, x) \in Nat
  BY PositionsFinite
<1>2. i \in Positions(s, x) /\ j \in Positions(s, x)
  BY DEF Positions
<1>3. Cardinality(Positions(s, x)) = 1
  BY <1>1, <1>2, FS_EmptySet
<1>4. PICK k : Positions(s, x) = {k}
  BY <1>1, <1>3, FS_Singleton
<1> QED BY <1>2, <1>4

\* The first n elements and the rest make up the queue.
LEMMA OccursSplit ==
  ASSUME NEW T, NEW s \in Seq(T), NEW n \in 0 .. Len(s), NEW x
  PROVE  /\ SubSeq(s, 1, n) \in Seq(T) /\ SubSeq(s, n + 1, Len(s)) \in Seq(T)
         /\ Occurrences(s, x) = Occurrences(SubSeq(s, 1, n), x)
                                  + Occurrences(SubSeq(s, n + 1, Len(s)), x)
<1> DEFINE a == SubSeq(s, 1, n)
           b == SubSeq(s, n + 1, Len(s))
<1>1. /\ Len(s) \in Nat /\ n \in Nat /\ n <= Len(s)
  OBVIOUS
<1>2. a \in Seq(T) /\ b \in Seq(T)
  BY <1>1
<1>4. a \o b = s
  BY SubSeqParts
<1> HIDE DEF a, b
<1>5. Occurrences(a \o b, x) = Occurrences(a, x) + Occurrences(b, x)
  BY <1>2, OccursConcat
<1> QED BY <1>2, <1>4, <1>5 DEF a, b

\* The first element and the tail make up the queue.
LEMMA OccursHeadTail ==
  ASSUME NEW T, NEW s \in Seq(T), s # <<>>, NEW x
  PROVE  /\ Head(s) \in T /\ Tail(s) \in Seq(T)
         /\ Occurrences(s, x) = (IF Head(s) = x THEN 1 ELSE 0) + Occurrences(Tail(s), x)
<1> DEFINE h == Head(s)
           t == Tail(s)
           none == <<>>
           one == Append(none, h)
<1>1. h \in T /\ t \in Seq(T)
  OBVIOUS
<1>2. none \in Seq(T)
  OBVIOUS
<1>3. s = one \o t
  OBVIOUS
<1> HIDE DEF h, t, none
<1>4. one \in Seq(T)
  BY <1>1, <1>2
<1>5. Occurrences(one, x) = Occurrences(none, x) + (IF h = x THEN 1 ELSE 0)
  BY <1>1, <1>2, OccursAppend
<1> HIDE DEF one
<1>6. Occurrences(one \o t, x) = Occurrences(one, x) + Occurrences(t, x)
  BY <1>1, <1>4, OccursConcat
<1>7. Occurrences(none, x) = 0 /\ Occurrences(t, x) \in Nat
  BY <1>1, OccursEmpty, PositionsFinite DEF none
<1>8. Occurrences(s, x) = (IF h = x THEN 1 ELSE 0) + Occurrences(t, x)
  BY <1>3, <1>5, <1>6, <1>7
<1> QED BY <1>1, <1>8 DEF h, t

\* All but the last element and the last one make up the queue.
LEMMA OccursFrontLast ==
  ASSUME NEW T, NEW s \in Seq(T), s # <<>>, NEW x
  PROVE  LET front == SubSeq(s, 1, Len(s) - 1)
             last == s[Len(s)]
         IN /\ last \in T /\ front \in Seq(T)
            /\ Occurrences(s, x) = Occurrences(front, x) + (IF last = x THEN 1 ELSE 0)
<1> DEFINE front == SubSeq(s, 1, Len(s) - 1)
           last == s[Len(s)]
<1>1. Len(s) \in Nat /\ Len(s) > 0
  OBVIOUS
<1>2. last \in T /\ front \in Seq(T)
  BY <1>1
<1>3. Len(front) = Len(s) - 1 /\ \A i \in 1 .. Len(s) - 1 : front[i] = s[i]
  <2> DEFINE n == Len(s) - 1
  <2>1. n \in Nat /\ n <= Len(s) /\ front = SubSeq(s, 1, n)
    BY <1>1
  <2>2. \A i \in 1 .. n : s[i] \in T
    BY <1>1
  <2> HIDE DEF n, front
  <2>3. Len(front) = n /\ \A i \in 1 .. n : front[i] = s[i]
    BY <2>1, <2>2, SubSeqElements
  <2> QED BY <2>3 DEF n
<1>4. s = Append(front, last)
  <2> HIDE DEF front
  <2>1. Append(front, last) \in Seq(T) /\ Len(Append(front, last)) = Len(s)
    BY <1>1, <1>2, <1>3
  <2>2. \A i \in 1 .. Len(s) : Append(front, last)[i] = s[i]
    BY <1>1, <1>2, <1>3
  <2> QED BY <2>1, <2>2
<1> HIDE DEF front, last
<1>5. Occurrences(Append(front, last), x) = Occurrences(front, x) + (IF last = x THEN 1 ELSE 0)
  BY <1>2, OccursAppend
<1> QED BY <1>2, <1>4, <1>5 DEF front, last

-----------------------------------------------------------------------------
(* Orders                                                                  *)

\* An order of a finite set is a sequence of its elements.
LEMMA OrderElements ==
  ASSUME NEW S, IsFiniteSet(S), NEW xs \in Orders(S)
  PROVE  Len(xs) \in Nat /\ \A i \in 1 .. Len(xs) : xs[i] \in S
<1>1. Cardinality(S) \in Nat
  BY FS_CardinalityType
<1>2. xs \in [1 .. Cardinality(S) -> S]
  BY DEF Orders
<1> QED BY <1>1, <1>2

\* A finite set has an order.
LEMMA AnOrderExists ==
  ASSUME NEW S, IsFiniteSet(S)
  PROVE  AnOrder(S) \in Orders(S)
<1>1. PICK f \in Bijection(1 .. Cardinality(S), S) : TRUE
  BY FS_CardinalityType, Zenon DEF ExistsBijection
<1>2. f \in Orders(S)
  BY <1>1 DEF Bijection, Surjection, Orders
<1> QED BY <1>2, Zenon DEF AnOrder

-----------------------------------------------------------------------------
(* The length of what is left                                              *)

\* Positions that increase are at least their number.
LEMMA IncreasingBound ==
  ASSUME NEW k \in Nat, NEW n \in Nat, NEW m \in [1 .. k -> 1 .. n],
         \A i, j \in 1 .. k : i < j => m[i] < m[j]
  PROVE  k <= n
<1> DEFINE S == {i \in 0 .. k : i = 0 \/ i <= m[i]}
<1>1. 0 \in S
  OBVIOUS
<1>2. ASSUME NEW i \in 1 .. k, i - 1 \in S PROVE i \in S
  <2>1. CASE i = 1
    BY <2>1
  <2>2. CASE i > 1
    <3>1. i - 1 \in 1 .. k /\ m[i - 1] < m[i] /\ m[i - 1] \in 1 .. n /\ m[i] \in 1 .. n
      BY <2>2
    <3> QED BY <1>2, <3>1
  <2> QED BY <2>1, <2>2
<1>3. k \in S
  <2> HIDE DEF S
  <2> QED BY <1>1, <1>2, Climb
<1> QED BY <1>3

\* Without makes a queue no longer.
LEMMA WithoutShorter ==
  ASSUME NEW T, NEW s \in Seq(T), NEW X
  PROVE  Len(Without(s, X)) <= Len(s)
<1>1. PICK m : Embeds(m, Without(s, X), s, X, Len(s))
  BY WithoutEmbeds, Zenon
<1>2. Len(Without(s, X)) \in Nat /\ Len(s) \in Nat
  BY WithoutEmbeds
<1> QED BY <1>1, <1>2, IncreasingBound DEF Embeds
=============================================================================
