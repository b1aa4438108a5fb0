-------------------------- MODULE DiscoveryProofs --------------------------
(***************************************************************************)
(* The searches of Discovery, within the network service: their limits     *)
(* hold in every reachable state, and no step drops a subnet from the      *)
(* search but for the reasons the code knows.                              *)
(*                                                                         *)
(* The queue is worked off in rounds (process_queue) and completed queries *)
(* in a loop (PollQueries), both recursive functions.  What they keep is   *)
(* proved by induction over the naturals, in two halves: the types and     *)
(* limits (SearchInv), then the subnets that are still looked for.         *)
(***************************************************************************)
EXTENDS Network, QueueTheorems

-----------------------------------------------------------------------------
(* The types of the searches, and the subnets they are for.                *)

SubnetQueries == [subnet : Subnets, min_ttl : {NoTtl} \cup 0 .. MaxTime,
                  retries : 0 .. MAX_DISCOVERY_RETRY]

\* A query for at most MAX_SUBNETS_IN_QUERY subnets, a search for peers for none
Fits(query) == /\ Len(query.queries) <= MAX_SUBNETS_IN_QUERY
               /\ query.type = "FindPeers" => query.queries = <<>>
Types == {"FindPeers", "Subnet"}
Running == {query \in [type : Types, queries : Seq(SubnetQueries)] : Fits(query)}
Done == {query \in [type : Types, queries : Seq(SubnetQueries),
                    result : [ok : BOOLEAN, nodes : SUBSET Nodes]] : Fits(query)}
AnyQuery == Running \cup Done

SubnetsIn(queue) == {queue[i].subnet : i \in DOMAIN queue}
SearchedIn(queries) == UNION {SubnetsIn(queries[i].queries) : i \in DOMAIN queries}

\* A queue with one entry for a subnet
Queue(queue) ==
  /\ queue \in Seq(SubnetQueries)
  /\ \A i, j \in DOMAIN queue : queue[i].subnet = queue[j].subnet => i = j

\* A cache within its capacity
BoundedCache(cache) == cache \in Seq(Nodes) /\ Len(cache) <= ENR_CACHE_CAPACITY

-----------------------------------------------------------------------------
(* The cache.                                                              *)

\* Less of a cache is a cache.
LEMMA CachePopBounded ==
  ASSUME NEW cache, BoundedCache(cache), NEW nodes
  PROVE  BoundedCache(CachePop(cache, nodes))
<1>1. cache \in Seq(Nodes) /\ Len(cache) <= ENR_CACHE_CAPACITY
  BY Zenon DEF BoundedCache
<1>2. Without(cache, nodes) \in Seq(Nodes) /\ Len(Without(cache, nodes)) <= Len(cache)
  BY Zenon, <1>1, WithoutEmbeds, WithoutShorter
<1> QED BY <1>1, <1>2, DiscoveryAssumption DEF BoundedCache, CachePop

\* A node that is put into a full cache takes the place of the oldest.
LEMMA CachePutBounded ==
  ASSUME NEW cache, BoundedCache(cache), NEW node \in Nodes
  PROVE  BoundedCache(CachePut(cache, node))
<1> DEFINE other == Without(cache, {node})
<1>1. other \in Seq(Nodes) /\ Len(other) <= ENR_CACHE_CAPACITY
  BY Zenon, CachePopBounded DEF BoundedCache, CachePop
<1>2. CachePut(cache, node)
        = Append(IF Len(other) < ENR_CACHE_CAPACITY THEN other ELSE Tail(other), node)
  BY Zenon DEF CachePut
<1> HIDE DEF other
<1>3. CASE Len(other) < ENR_CACHE_CAPACITY
  BY <1>1, <1>2, <1>3, DiscoveryAssumption DEF BoundedCache
<1>4. CASE ~(Len(other) < ENR_CACHE_CAPACITY)
  <2>1. Len(other) = ENR_CACHE_CAPACITY /\ other # <<>>
    BY <1>1, <1>4, DiscoveryAssumption
  <2>2. Tail(other) \in Seq(Nodes) /\ Len(Tail(other)) = ENR_CACHE_CAPACITY - 1
    BY <1>1, <2>1
  <2> QED BY <1>2, <1>4, <2>2, DiscoveryAssumption DEF BoundedCache
<1> QED BY Zenon, <1>3, <1>4

\* f has the caches after the first m nodes.
Puts(f, cache, order, m) ==
  f = [i \in 0 .. m |-> IF i = 0 THEN cache ELSE CachePut(f[i - 1], order[i])]

\* The recursive definition in CachePutAll has a solution.
LEMMA PutsExists ==
  ASSUME NEW cache, NEW order, NEW n \in Nat
  PROVE  \E f : Puts(f, cache, order, n)
<1> DEFINE S == {m \in 0 .. n : \E f : Puts(f, cache, order, m)}
<1>1. 0 \in S
  <2>1. Puts([i \in 0 .. 0 |-> cache], cache, order, 0)
    BY DEF Puts
  <2> QED BY <2>1
<1>2. ASSUME NEW m \in 1 .. n, m - 1 \in S PROVE m \in S
  <2>1. PICK f : Puts(f, cache, order, m - 1)
    BY Zenon, <1>2
  <2> DEFINE g == [i \in 0 .. m |-> IF i = m THEN CachePut(f[m - 1], order[m]) ELSE f[i]]
  <2>2. \A i \in 0 .. m : g[i] = IF i = 0 THEN cache ELSE CachePut(g[i - 1], order[i])
    BY <2>1 DEF Puts
  <2>3. Puts(g, cache, order, m)
    BY Zenon, <2>2 DEF Puts
  <2> HIDE DEF g
  <2> QED BY <2>3
<1>3. n \in S
  BY Zenon, <1>1, <1>2, Climb
<1> QED BY Zenon, <1>3

\* The cache stays within its capacity whatever a query finds.
LEMMA CachePutAllBounded ==
  ASSUME NEW cache, BoundedCache(cache), NEW nodes \in SUBSET Nodes
  PROVE  BoundedCache(CachePutAll(cache, nodes))
<1> DEFINE order == AnOrder(nodes)
           n == Len(order)
           f == CHOOSE f : Puts(f, cache, order, n)
           S == {i \in 0 .. n : BoundedCache(f[i])}
<1>1. n \in Nat /\ \A i \in 1 .. n : order[i] \in nodes
  <2>1. IsFiniteSet(nodes)
    BY Zenon, DiscoveryAssumption, FS_Subset
  <2>2. order \in Orders(nodes)
    BY Zenon, <2>1, AnOrderExists
  <2> HIDE DEF order
  <2> QED BY Zenon, <2>1, <2>2, OrderElements
<1>2. CachePutAll(cache, nodes) = f[n]
  BY Zenon DEF CachePutAll, Puts
<1> HIDE DEF order, n
<1>3. Puts(f, cache, order, n)
  BY <1>1, PutsExists, Zenon
<1> HIDE DEF f
<1>4. f[0] = cache /\ \A i \in 1 .. n : f[i] = CachePut(f[i - 1], order[i])
  BY <1>1, <1>3 DEF Puts
<1>5. 0 \in S
  BY <1>1, <1>4
<1>6. ASSUME NEW i \in 1 .. n, i - 1 \in S PROVE i \in S
  <2>1. BoundedCache(f[i - 1]) /\ order[i] \in Nodes
    BY Zenon, <1>1, <1>6
  <2> QED BY <1>4, <2>1, CachePutBounded
<1>7. n \in S
  <2> HIDE DEF S
  <2> QED BY Zenon, <1>1, <1>5, <1>6, Climb
<1> QED BY Zenon, <1>2, <1>7

-----------------------------------------------------------------------------
(* The queue.                                                              *)

\* add_subnet_query keeps one entry for a subnet, forgets none, and adds the
\* subnet unless it was retried too often.
LEMMA AddQuery ==
  ASSUME NEW queue, Queue(queue), NEW subnet \in Subnets,
         NEW min_ttl \in {NoTtl} \cup 0 .. MaxTime, NEW retries \in Nat
  PROVE  LET after == add_subnet_query(queue, subnet, min_ttl, retries)
         IN  /\ Queue(after)
             /\ SubnetsIn(queue) \subseteq SubnetsIn(after)
             /\ retries <= MAX_DISCOVERY_RETRY => subnet \in SubnetsIn(after)
<1> DEFINE after == add_subnet_query(queue, subnet, min_ttl, retries)
<1>1. queue \in Seq(SubnetQueries) /\ Len(queue) \in Nat /\ DOMAIN queue = 1 .. Len(queue)
      /\ \A i, j \in DOMAIN queue : queue[i].subnet = queue[j].subnet => i = j
  BY DEF Queue
<1>2. CASE retries > MAX_DISCOVERY_RETRY
  <2>1. after = queue
    BY Zenon, <1>2 DEF add_subnet_query
  <2> QED BY <1>2, <2>1, DiscoveryAssumption
<1>3. CASE ~(retries > MAX_DISCOVERY_RETRY) /\ \E i \in DOMAIN queue : queue[i].subnet = subnet
  <2> DEFINE moved(i) == SubnetQuery(subnet,
                IF queue[i].min_ttl < min_ttl THEN min_ttl ELSE queue[i].min_ttl, retries)
  <2>1. after = [i \in DOMAIN queue |->
                   IF queue[i].subnet # subnet THEN queue[i] ELSE moved(i)]
    BY Zenon, <1>3 DEF add_subnet_query
  <2>2. ASSUME NEW i \in DOMAIN queue
        PROVE  moved(i) \in SubnetQueries /\ moved(i).subnet = subnet
               /\ queue[i] \in SubnetQueries
    <3>1. queue[i] \in SubnetQueries
      BY <1>1
    <3>2. queue[i].min_ttl \in {NoTtl} \cup 0 .. MaxTime
      BY Zenon, <3>1 DEF SubnetQueries
    <3>3. retries \in 0 .. MAX_DISCOVERY_RETRY
      BY <1>3, DiscoveryAssumption
    <3> QED BY Zenon, <3>1, <3>2, <3>3 DEF SubnetQueries, SubnetQuery
  <2> HIDE DEF moved
  <2>3. DOMAIN after = 1 .. Len(queue)
        /\ \A i \in 1 .. Len(queue) : after[i] \in SubnetQueries
                                      /\ after[i].subnet = queue[i].subnet
    BY <1>1, <2>1, <2>2
  <2>4. after \in Seq(SubnetQueries)
    <3>1. after \in [1 .. Len(queue) -> SubnetQueries]
      BY Zenon, <1>1, <2>1, <2>3
    <3> HIDE DEF after
    <3> QED BY <1>1, <3>1
  <2> HIDE DEF after
  <2>5. SubnetsIn(after) = SubnetsIn(queue)
    BY <1>1, <2>3 DEF SubnetsIn
  <2>6. subnet \in SubnetsIn(queue)
    BY Zenon, <1>3 DEF SubnetsIn
  <2>7. Queue(after)
    BY Zenon, <1>1, <2>3, <2>4 DEF Queue
  <2> QED BY Zenon, <2>5, <2>6, <2>7 DEF after
<1>4. CASE ~(retries > MAX_DISCOVERY_RETRY) /\ ~\E i \in DOMAIN queue : queue[i].subnet = subnet
  <2> DEFINE new == SubnetQuery(subnet, min_ttl, retries)
  <2>1. after = Append(queue, new)
    BY Zenon, <1>4 DEF add_subnet_query
  <2>2. new \in SubnetQueries /\ new.subnet = subnet
    BY <1>4, DiscoveryAssumption DEF SubnetQuery, SubnetQueries
  <2> HIDE DEF new, after
  <2>3. after \in Seq(SubnetQueries) /\ Len(after) = Len(queue) + 1
        /\ DOMAIN after = 1 .. Len(queue) + 1
        /\ after[Len(queue) + 1] = new /\ \A i \in 1 .. Len(queue) : after[i] = queue[i]
    BY <1>1, <2>1, <2>2
  <2>4. Queue(after)
    BY <1>1, <1>4, <2>2, <2>3 DEF Queue
  <2>5. subnet \in SubnetsIn(after) /\ SubnetsIn(queue) \subseteq SubnetsIn(after)
    BY <1>1, <2>2, <2>3 DEF SubnetsIn
  <2> QED BY Zenon, <2>4, <2>5 DEF after
<1> QED BY Zenon, <1>2, <1>3, <1>4

\* A query that comes back is added to the queue with one retry more.
Again(queue, query) == add_subnet_query(queue, query.subnet, query.min_ttl, query.retries + 1)

\* f has the queues after the first m queries.
Agains(f, queue, queries, m) ==
  f = [i \in 0 .. m |-> IF i = 0 THEN queue ELSE Again(f[i - 1], queries[i])]

\* The recursive definition in Requeue has a solution.
LEMMA AgainsExists ==
  ASSUME NEW queue, NEW queries, NEW n \in Nat
  PROVE  \E f : Agains(f, queue, queries, n)
<1> DEFINE S == {m \in 0 .. n : \E f : Agains(f, queue, queries, m)}
<1>1. 0 \in S
  <2>1. Agains([i \in 0 .. 0 |-> queue], queue, queries, 0)
    BY DEF Agains
  <2> QED BY <2>1
<1>2. ASSUME NEW m \in 1 .. n, m - 1 \in S PROVE m \in S
  <2>1. PICK f : Agains(f, queue, queries, m - 1)
    BY Zenon, <1>2
  <2> DEFINE g == [i \in 0 .. m |-> IF i = m THEN Again(f[m - 1], queries[m]) ELSE f[i]]
  <2>2. \A i \in 0 .. m : g[i] = IF i = 0 THEN queue ELSE Again(g[i - 1], queries[i])
    BY <2>1 DEF Agains
  <2>3. Agains(g, queue, queries, m)
    BY Zenon, <2>2 DEF Agains
  <2> HIDE DEF g
  <2> QED BY <2>3
<1>3. n \in S
  BY Zenon, <1>1, <1>2, Climb
<1> QED BY Zenon, <1>3

\* What comes back into the queue: all but what was retried often enough.
ReturnsFrom(queries, i) ==
  {queries[j].subnet : j \in {k \in 1 .. i : queries[k].retries # MAX_DISCOVERY_RETRY}}

\* Requeue forgets no subnet of the queue, and of the query only what was
\* retried MAX_DISCOVERY_RETRY times.
LEMMA RequeueKeeps ==
  ASSUME NEW queue, Queue(queue), NEW queries \in Seq(SubnetQueries)
  PROVE  /\ Queue(Requeue(queue, queries))
         /\ SubnetsIn(queue) \cup ReturnsFrom(queries, Len(queries))
              \subseteq SubnetsIn(Requeue(queue, queries))
<1> DEFINE n == Len(queries)
           f == CHOOSE f : Agains(f, queue, queries, n)
           Kept(i) == SubnetsIn(queue) \cup ReturnsFrom(queries, i) \subseteq SubnetsIn(f[i])
           S == {i \in 0 .. n : Queue(f[i]) /\ Kept(i)}
<1>1. n \in Nat
  OBVIOUS
<1>2. Requeue(queue, queries) = f[n]
  BY Zenon DEF Requeue, Agains, Again
<1> HIDE DEF n
<1>3. Agains(f, queue, queries, n)
  BY <1>1, AgainsExists, Zenon
<1> HIDE DEF f
<1>4. f[0] = queue /\ \A i \in 1 .. n : f[i] = Again(f[i - 1], queries[i])
  BY <1>1, <1>3 DEF Agains
<1>5. 0 \in S
  BY <1>1, <1>4 DEF ReturnsFrom
<1>6. ASSUME NEW i \in 1 .. n, i - 1 \in S PROVE i \in S
  <2>1. queries[i] \in SubnetQueries
    BY DEF n
  <2>2. queries[i].subnet \in Subnets /\ queries[i].min_ttl \in {NoTtl} \cup 0 .. MaxTime
        /\ queries[i].retries \in 0 .. MAX_DISCOVERY_RETRY
    BY Zenon, <2>1 DEF SubnetQueries
  <2>3. queries[i].retries + 1 \in Nat
        /\ (queries[i].retries # MAX_DISCOVERY_RETRY
              => queries[i].retries + 1 <= MAX_DISCOVERY_RETRY)
    BY <2>2, DiscoveryAssumption
  <2>4. Queue(f[i - 1]) /\ Kept(i - 1)
    BY Zenon, <1>6
  <2>5. Queue(f[i]) /\ SubnetsIn(f[i - 1]) \subseteq SubnetsIn(f[i])
        /\ (queries[i].retries # MAX_DISCOVERY_RETRY => queries[i].subnet \in SubnetsIn(f[i]))
    BY Zenon, <1>4, <2>2, <2>3, <2>4, AddQuery DEF Again
  <2>6. ReturnsFrom(queries, i) \subseteq ReturnsFrom(queries, i - 1) \cup
          {x \in {queries[i].subnet} : queries[i].retries # MAX_DISCOVERY_RETRY}
    BY DEF ReturnsFrom
  <2> QED BY <2>4, <2>5, <2>6
<1>7. n \in S
  <2> HIDE DEF S
  <2> QED BY Zenon, <1>1, <1>5, <1>6, Climb
<1> QED BY Zenon, <1>2, <1>7 DEF n

-----------------------------------------------------------------------------
(* Counting queries by their type.                                         *)

TypesOf(queries) == [i \in DOMAIN queries |-> queries[i].type]
Count(queries, type) == Occurrences(TypesOf(queries), type)

\* Queries have a type each.
LEMMA TypesOfSeq ==
  ASSUME NEW s \in Seq(AnyQuery)
  PROVE  /\ TypesOf(s) \in Seq(Types) /\ Len(TypesOf(s)) = Len(s)
         /\ \A i \in 1 .. Len(s) : TypesOf(s)[i] = s[i].type /\ s[i] \in AnyQuery
<1>1. DOMAIN s = 1 .. Len(s) /\ Len(s) \in Nat /\ \A i \in 1 .. Len(s) : s[i] \in AnyQuery
  OBVIOUS
<1>2. \A i \in 1 .. Len(s) : s[i].type \in Types
  BY Zenon, <1>1 DEF AnyQuery, Running, Done
<1>3. TypesOf(s) = [i \in 1 .. Len(s) |-> s[i].type]
  BY Zenon, <1>1 DEF TypesOf
<1>4. TypesOf(s) \in [1 .. Len(s) -> Types]
  BY Zenon, <1>2, <1>3
<1> QED BY <1>1, <1>3, <1>4

\* Running and completed queries are queries.
LEMMA AnyQueries ==
  ASSUME NEW s, s \in Seq(Running) \/ s \in Seq(Done)
  PROVE  s \in Seq(AnyQuery)
<1>1. CASE s \in Seq(Running)
  BY <1>1 DEF AnyQuery
<1>2. CASE s \in Seq(Done)
  BY <1>2 DEF AnyQuery
<1> QED BY Zenon, <1>1, <1>2

\* The counts are numbers, and the queries of both types are all.
LEMMA CountAll ==
  ASSUME NEW s \in Seq(AnyQuery)
  PROVE  /\ \A type : Count(s, type) \in Nat
         /\ Len(s) = Count(s, "Subnet") + Count(s, "FindPeers")
<1> DEFINE ts == TypesOf(s)
           A == Positions(ts, "Subnet")
           B == Positions(ts, "FindPeers")
<1>1. ts \in Seq(Types) /\ Len(ts) = Len(s) /\ Len(s) \in Nat /\ DOMAIN ts = 1 .. Len(s)
  BY TypesOfSeq
<1>2. \A type : Count(s, type) \in Nat /\ IsFiniteSet(Positions(ts, type))
                /\ Count(s, type) = Cardinality(Positions(ts, type))
  BY Zenon, <1>1, PositionsFinite DEF Count
<1> HIDE DEF ts
<1>3. A \cup B = 1 .. Len(s) /\ A \cap B = {}
  BY <1>1 DEF Positions, Types
<1>4. Cardinality(A \cup B) = Cardinality(A) + Cardinality(B) - Cardinality(A \cap B)
  BY Zenon, <1>2, FS_Union
<1>5. Cardinality(1 .. Len(s)) = Len(s)
  <2>1. ASSUME NEW n \in Nat PROVE Cardinality(1 .. n) = n
    <3>1. Cardinality(1 .. n) = IF 1 > n THEN 0 ELSE n - 1 + 1
      BY FS_Interval
    <3> QED BY <3>1
  <2> QED BY <1>1, <2>1, Zenon
<1>6. Cardinality(A \cap B) = 0
  BY Zenon, <1>3, FS_EmptySet
<1>7. Cardinality(A) = Count(s, "Subnet") /\ Cardinality(B) = Count(s, "FindPeers")
  BY Zenon, <1>2
<1>8. Cardinality(A) \in Nat /\ Cardinality(B) \in Nat
  BY Zenon, <1>2, <1>7
<1>9. Len(s) = Cardinality(A) + Cardinality(B) - 0
  BY <1>3, <1>4, <1>5, <1>6, Zenon
<1> HIDE DEF A, B
<1> QED BY <1>2, <1>7, <1>8, <1>9

\* The counts of two sequences of queries add up.
LEMMA CountConcat ==
  ASSUME NEW s \in Seq(AnyQuery), NEW t \in Seq(AnyQuery), NEW type
  PROVE  Count(s \o t, type) = Count(s, type) + Count(t, type)
<1>1. TypesOf(s) \in Seq(Types) /\ TypesOf(t) \in Seq(Types)
      /\ Len(TypesOf(s)) = Len(s) /\ Len(TypesOf(t)) = Len(t)
  BY Zenon, TypesOfSeq
<1>2. TypesOf(s \o t) = TypesOf(s) \o TypesOf(t)
  <2>1. s \o t \in Seq(AnyQuery) /\ Len(s \o t) = Len(s) + Len(t)
        /\ \A i \in 1 .. Len(s) + Len(t) :
             (s \o t)[i] = IF i <= Len(s) THEN s[i] ELSE t[i - Len(s)]
    BY Zenon, ConcatElements
  <2> DEFINE a == TypesOf(s) \o TypesOf(t)
             b == TypesOf(s \o t)
  <2>2. a \in Seq(Types) /\ Len(a) = Len(s) + Len(t)
        /\ \A i \in 1 .. Len(s) + Len(t) :
             a[i] = IF i <= Len(s) THEN TypesOf(s)[i] ELSE TypesOf(t)[i - Len(s)]
    <3> DEFINE ss == TypesOf(s)
               tt == TypesOf(t)
    <3>1. ss \o tt \in Seq(Types) /\ Len(ss \o tt) = Len(ss) + Len(tt)
          /\ \A i \in 1 .. Len(ss) + Len(tt) :
               (ss \o tt)[i] = IF i <= Len(ss) THEN ss[i] ELSE tt[i - Len(ss)]
      <4> HIDE DEF ss, tt
      <4>1. ss \in Seq(Types) /\ tt \in Seq(Types)
        BY Zenon, <1>1 DEF ss, tt
      <4> QED BY Zenon, <4>1, ConcatElements
    <3>2. Len(ss) = Len(s) /\ Len(tt) = Len(t)
      BY Zenon, <1>1
    <3> HIDE DEF ss, tt
    <3>3. ss \o tt \in Seq(Types) /\ Len(ss \o tt) = Len(s) + Len(t)
          /\ \A i \in 1 .. Len(s) + Len(t) :
               (ss \o tt)[i] = IF i <= Len(s) THEN ss[i] ELSE tt[i - Len(s)]
      BY Zenon, <3>1, <3>2
    <3> QED BY Zenon, <3>3 DEF ss, tt
  <2>3. b \in Seq(Types) /\ Len(b) = Len(s) + Len(t)
        /\ \A i \in 1 .. Len(s) + Len(t) : b[i] = (s \o t)[i].type
    BY <2>1, TypesOfSeq, Zenon
  <2>4. \A i \in 1 .. Len(s) : TypesOf(s)[i] = s[i].type
    BY Zenon, TypesOfSeq
  <2>5. \A i \in 1 .. Len(t) : TypesOf(t)[i] = t[i].type
    BY Zenon, TypesOfSeq
  <2> HIDE DEF a, b
  <2>6. \A i \in 1 .. Len(s) + Len(t) : a[i] = b[i]
    <3> SUFFICES ASSUME NEW i \in 1 .. Len(s) + Len(t) PROVE a[i] = b[i]
      BY Zenon
    <3>1. CASE i <= Len(s)
      <4>1. i \in 1 .. Len(s)
        BY <3>1
      <4> QED BY Zenon, <2>1, <2>2, <2>3, <2>4, <3>1, <4>1
    <3>2. CASE ~(i <= Len(s))
      <4>1. i - Len(s) \in 1 .. Len(t)
        BY <3>2
      <4> QED BY Zenon, <2>1, <2>2, <2>3, <2>5, <3>2, <4>1
    <3> QED BY <3>1, <3>2
  <2>7. a = b
    BY <2>2, <2>3, <2>6, SameElements, Zenon
  <2> QED BY Zenon, <2>7 DEF a, b
<1> QED BY <1>1, <1>2, OccursConcat DEF Count

\* One query counts for its type.
LEMMA CountOne ==
  ASSUME NEW query \in AnyQuery, NEW type
  PROVE  Count(<<query>>, type) = IF query.type = type THEN 1 ELSE 0
<1>1. TypesOf(<<query>>) = Append(<<>>, query.type)
  BY DEF TypesOf
<1>2. query.type \in Types
  BY Zenon DEF AnyQuery, Running, Done
<1> DEFINE none == <<>>
<1>3. none \in Seq(Types)
  OBVIOUS
<1>4. Occurrences(none, type) = 0
  BY Zenon, OccursEmpty
<1> HIDE DEF none
<1>5. Occurrences(Append(none, query.type), type)
        = Occurrences(none, type) + (IF query.type = type THEN 1 ELSE 0)
  BY <1>2, <1>3, OccursAppend
<1>6. Count(<<query>>, type) = Occurrences(Append(none, query.type), type)
  BY Zenon, <1>1 DEF none, Count
<1> QED BY <1>4, <1>5, <1>6

\* Nothing counts for nothing.
LEMMA CountNone == \A type : Count(<<>>, type) = 0
<1>1. TypesOf(<<>>) = <<>>
  BY DEF TypesOf
<1> QED BY <1>1, OccursEmpty, Zenon DEF Count

\* The first n queries and the rest make up the queries.
LEMMA CountSplit ==
  ASSUME NEW s \in Seq(AnyQuery), NEW n \in 0 .. Len(s), NEW type
  PROVE  /\ SubSeq(s, 1, n) \in Seq(AnyQuery) /\ SubSeq(s, n + 1, Len(s)) \in Seq(AnyQuery)
         /\ Count(s, type) = Count(SubSeq(s, 1, n), type) + Count(SubSeq(s, n + 1, Len(s)), type)
<1> DEFINE a == SubSeq(s, 1, n)
           b == SubSeq(s, n + 1, Len(s))
<1>1. a \in Seq(AnyQuery) /\ b \in Seq(AnyQuery)
  OBVIOUS
<1>2. s = a \o b
  BY Zenon, SubSeqParts
<1> HIDE DEF a, b
<1>3. Count(s, type) = Count(a, type) + Count(b, type)
  BY <1>1, <1>2, CountConcat
<1> QED BY Zenon, <1>1, <1>3 DEF a, b

-----------------------------------------------------------------------------
(* Starting queries.                                                       *)

\* What is removed from a queue is all that it lacks.
LEMMA WithoutQueue ==
  ASSUME NEW queue \in Seq(SubnetQueries), NEW X
  PROVE  /\ Without(queue, X) \in Seq(SubnetQueries)
         /\ Len(Without(queue, X)) <= Len(queue)
         /\ Queue(queue) => Queue(Without(queue, X))
         /\ \A i \in DOMAIN queue : queue[i] \notin X => queue[i].subnet \in SubnetsIn(Without(queue, X))
<1> DEFINE w == Without(queue, X)
<1>1. w \in Seq(SubnetQueries) /\ Len(w) <= Len(queue)
  BY Zenon, WithoutEmbeds, WithoutShorter
<1>2. PICK m : Embeds(m, w, queue, X, Len(queue))
  BY WithoutEmbeds, Zenon
<1> HIDE DEF w
<1>3. DOMAIN w = 1 .. Len(w) /\ Len(w) \in Nat /\ DOMAIN queue = 1 .. Len(queue)
  BY <1>1
<1>4. Queue(queue) => Queue(w)
  <2> SUFFICES ASSUME Queue(queue), NEW i \in DOMAIN w, NEW j \in DOMAIN w,
                      w[i].subnet = w[j].subnet
               PROVE  i = j
    BY Zenon, <1>1 DEF Queue
  <2>1. m[i] \in DOMAIN queue /\ m[j] \in DOMAIN queue /\ w[i] = queue[m[i]] /\ w[j] = queue[m[j]]
    BY Zenon, <1>2, <1>3 DEF Embeds
  <2>2. m[i] = m[j]
    BY Zenon, <2>1 DEF Queue
  <2>3. ~(i < j) /\ ~(j < i)
    BY <1>2, <1>3, <2>1, <2>2 DEF Embeds
  <2> QED BY <1>3, <2>3
<1>5. ASSUME NEW i \in DOMAIN queue, queue[i] \notin X PROVE queue[i].subnet \in SubnetsIn(w)
  <2>1. PICK k \in 1 .. Len(w) : m[k] = i
    BY Zenon, <1>2, <1>3, <1>5 DEF Embeds
  <2>2. w[k] = queue[i]
    BY Zenon, <1>2, <2>1 DEF Embeds
  <2> QED BY Zenon, <1>3, <2>2 DEF SubnetsIn
<1> QED BY Zenon, <1>1, <1>4, <1>5 DEF w

\* The entries popped together and the rest make up the queue.
LEMMA GroupAndRest ==
  ASSUME NEW queue, Queue(queue)
  PROVE  LET group == NextGroup(queue)
             rest == SubSeq(queue, MAX_SUBNETS_IN_QUERY + 1, Len(queue))
         IN  /\ group \in Seq(SubnetQueries) /\ Len(group) <= MAX_SUBNETS_IN_QUERY
             /\ Queue(rest)
             /\ SubnetsIn(queue) \subseteq SubnetsIn(group) \cup SubnetsIn(rest)
<1> DEFINE group == NextGroup(queue)
           rest == SubSeq(queue, MAX_SUBNETS_IN_QUERY + 1, Len(queue))
           M == MAX_SUBNETS_IN_QUERY
<1>1. queue \in Seq(SubnetQueries) /\ Len(queue) \in Nat /\ DOMAIN queue = 1 .. Len(queue)
      /\ M \in Nat /\ M > 0
  BY DiscoveryAssumption DEF Queue
<1>2. CASE Len(queue) < M
  <2>1. group = queue
    BY Zenon, <1>2 DEF NextGroup
  <2>2. rest = <<>>
    BY <1>1, <1>2
  <2>3. Queue(<<>>)
    BY DEF Queue
  <2> HIDE DEF rest, group
  <2>4. Queue(rest)
    BY Zenon, <2>2, <2>3
  <2>5. group \in Seq(SubnetQueries) /\ Len(group) <= M /\ SubnetsIn(queue) = SubnetsIn(group)
    BY <1>1, <1>2, <2>1
  <2> QED BY Zenon, <2>4, <2>5 DEF rest, group
<1>3. CASE ~(Len(queue) < M)
  <2>1. group = SubSeq(queue, 1, M)
    BY Zenon, <1>3 DEF NextGroup
  <2>2. /\ group \in Seq(SubnetQueries) /\ Len(group) = M
        /\ \A i \in 1 .. M : group[i] = queue[i]
    BY <1>1, <1>3, <2>1
  <2>3. /\ rest \in Seq(SubnetQueries) /\ Len(rest) = Len(queue) - M
        /\ \A i \in 1 .. Len(queue) - M : rest[i] = queue[M + i]
    <3>1. \A i \in M + 1 .. Len(queue) : queue[i] \in SubnetQueries
      BY <1>1
    <3>2. /\ SubSeq(queue, M + 1, Len(queue)) \in Seq(SubnetQueries)
          /\ Len(SubSeq(queue, M + 1, Len(queue)))
               = IF M + 1 <= Len(queue) THEN Len(queue) - (M + 1) + 1 ELSE 0
          /\ \A i \in 1 .. Len(queue) - (M + 1) + 1 :
               SubSeq(queue, M + 1, Len(queue))[i] = queue[M + 1 + i - 1]
      BY <1>1, <3>1, SubSeqElements
    <3> HIDE DEF rest, M
    <3>3. rest = SubSeq(queue, M + 1, Len(queue))
      BY Zenon DEF rest, M
    <3>4. \A i \in 1 .. Len(queue) - M : rest[i] = queue[M + i]
      <4> SUFFICES ASSUME NEW i \in 1 .. Len(queue) - M PROVE rest[i] = queue[M + i]
        BY Zenon
      <4>1. M + 1 + i - 1 = M + i /\ i \in 1 .. Len(queue) - (M + 1) + 1
        BY <1>1
      <4> QED BY Zenon, <3>2, <3>3, <4>1
    <3>5. rest \in Seq(SubnetQueries)
      BY <3>2, <3>3, Zenon
    <3>6. Len(rest) = Len(queue) - M
      <4>1. (IF M + 1 <= Len(queue) THEN Len(queue) - (M + 1) + 1 ELSE 0) = Len(queue) - M
        <5> SUFFICES ASSUME NEW l \in Nat, NEW m \in Nat, ~(l < m)
                     PROVE  (IF m + 1 <= l THEN l - (m + 1) + 1 ELSE 0) = l - m
          BY Zenon, <1>1, <1>3
        <5> QED OBVIOUS
      <4> QED BY Zenon, <3>2, <3>3, <4>1
    <3> QED BY Zenon, <3>4, <3>5, <3>6
  <2> HIDE DEF group, rest, M
  <2>4. DOMAIN group = 1 .. M /\ DOMAIN rest = 1 .. Len(queue) - M
    BY <2>2, <2>3
  <2>5. Queue(rest)
    <3> SUFFICES ASSUME NEW i \in DOMAIN rest, NEW j \in DOMAIN rest,
                        rest[i].subnet = rest[j].subnet
                 PROVE  i = j
      BY Zenon, <2>3 DEF Queue
    <3>1. M + i \in DOMAIN queue /\ M + j \in DOMAIN queue
      BY <1>1, <2>4
    <3>2. queue[M + i].subnet = queue[M + j].subnet
      BY Zenon, <2>3, <2>4
    <3>3. M + i = M + j
      BY Zenon, <3>1, <3>2 DEF Queue
    <3> QED BY <1>1, <2>4, <3>3
  <2>6. ASSUME NEW i \in DOMAIN queue PROVE queue[i].subnet \in SubnetsIn(group) \cup SubnetsIn(rest)
    <3>1. CASE i <= M
      BY <1>1, <2>2, <2>4, <3>1 DEF SubnetsIn
    <3>2. CASE i > M
      <4>1. i - M \in 1 .. Len(queue) - M /\ M + (i - M) = i
        BY <1>1, <3>2
      <4>2. rest[i - M] = queue[i]
        BY Zenon, <2>3, <4>1
      <4> QED BY Zenon, <2>4, <4>1, <4>2 DEF SubnetsIn
    <3> QED BY <1>1, <3>1, <3>2
  <2>7. SubnetsIn(queue) \subseteq SubnetsIn(group) \cup SubnetsIn(rest)
    BY Zenon, <2>6 DEF SubnetsIn
  <2>8. Len(group) <= M
    BY <1>1, <2>2
  <2> QED BY Zenon, <2>2, <2>5, <2>7, <2>8 DEF group, rest, M
<1> QED BY Zenon, <1>2, <1>3

\* A group gives at most one query, for its subnets that still lack peers.
LEMMA StartGroup ==
  ASSUME NEW group \in Seq(SubnetQueries), Len(group) <= MAX_SUBNETS_IN_QUERY
  PROVE  LET started == start_subnet_query(group)
         IN  /\ started \in Seq(Running)
             /\ Count(started, "Subnet") \in {0, 1} /\ Count(started, "FindPeers") = 0
             /\ SubnetsIn(group) \subseteq satisfied \cup SearchedIn(started)
<1> DEFINE X == {q \in Range(group) : q.subnet \in satisfied}
           needed == Without(group, X)
           started == start_subnet_query(group)
<1>1. /\ needed \in Seq(SubnetQueries) /\ Len(needed) <= Len(group)
      /\ \A i \in DOMAIN group : group[i] \notin X => group[i].subnet \in SubnetsIn(needed)
  BY Zenon, WithoutQueue
<1>2. started = IF needed = <<>> THEN <<>> ELSE <<SubnetSearch(needed)>>
  BY Zenon DEF start_subnet_query
<1>3. \A i \in DOMAIN group : group[i].subnet \in satisfied \cup SubnetsIn(needed)
  BY Zenon, <1>1
<1> HIDE DEF needed, X, started
<1>4. CASE needed = <<>>
  <2>1. SubnetsIn(needed) = {}
    BY <1>4 DEF SubnetsIn
  <2>2. SubnetsIn(group) \subseteq satisfied
    BY Zenon, <1>3, <2>1 DEF SubnetsIn
  <2>3. started = <<>>
    BY Zenon, <1>2, <1>4
  <2> QED BY <2>2, <2>3, CountNone DEF started
<1>5. CASE needed # <<>>
  <2> DEFINE query == SubnetSearch(needed)
  <2>1. query.type = "Subnet" /\ query.queries = needed
    BY Zenon DEF SubnetSearch
  <2>2. query \in Running
    <3>1. Len(needed) <= MAX_SUBNETS_IN_QUERY
      BY <1>1, DiscoveryAssumption
    <3> QED BY Zenon, <1>1, <3>1 DEF SubnetSearch, Running, Fits, Types
  <2> HIDE DEF query
  <2>3. started = <<query>>
    BY Zenon, <1>2, <1>5 DEF query
  <2>4. started \in Seq(Running)
    BY <2>2, <2>3
  <2>5. Count(started, "Subnet") = 1 /\ Count(started, "FindPeers") = 0
    BY <2>1, <2>2, <2>3, CountOne DEF AnyQuery
  <2>6. SearchedIn(started) = SubnetsIn(needed)
    BY <2>1, <2>3 DEF SearchedIn
  <2>7. SubnetsIn(group) \subseteq satisfied \cup SubnetsIn(needed)
    BY Zenon, <1>3 DEF SubnetsIn
  <2> QED BY Zenon, <2>4, <2>5, <2>6, <2>7 DEF started
<1> QED BY Zenon, <1>4, <1>5

\* Queries one after the other are for the subnets of both.
LEMMA SearchedConcat ==
  ASSUME NEW s \in Seq(AnyQuery), NEW t \in Seq(AnyQuery)
  PROVE  SearchedIn(s \o t) = SearchedIn(s) \cup SearchedIn(t)
<1>1. /\ s \o t \in Seq(AnyQuery) /\ Len(s \o t) = Len(s) + Len(t)
      /\ \A i \in 1 .. Len(s) + Len(t) :
           (s \o t)[i] = IF i <= Len(s) THEN s[i] ELSE t[i - Len(s)]
  BY Zenon, ConcatElements
<1>2. /\ DOMAIN (s \o t) = 1 .. Len(s) + Len(t) /\ DOMAIN s = 1 .. Len(s)
      /\ DOMAIN t = 1 .. Len(t) /\ Len(s) \in Nat /\ Len(t) \in Nat
  BY <1>1
<1> DEFINE u == s \o t
<1> HIDE DEF u
<1>3. ASSUME NEW i \in DOMAIN u
      PROVE  (\E j \in DOMAIN s : u[i] = s[j]) \/ (\E j \in DOMAIN t : u[i] = t[j])
  <2>1. CASE i <= Len(s)
    BY <1>1, <1>2, <2>1 DEF u
  <2>2. CASE ~(i <= Len(s))
    <3>1. i - Len(s) \in DOMAIN t
      BY <1>2, <2>2 DEF u
    <3> QED BY Zenon, <1>1, <1>2, <2>2, <3>1 DEF u
  <2> QED BY Zenon, <2>1, <2>2
<1>4. ASSUME NEW j \in DOMAIN s PROVE \E i \in DOMAIN u : u[i] = s[j]
  BY <1>1, <1>2 DEF u
<1>5. ASSUME NEW j \in DOMAIN t PROVE \E i \in DOMAIN u : u[i] = t[j]
  <2>1. Len(s) + j \in 1 .. Len(s) + Len(t) /\ ~(Len(s) + j <= Len(s)) /\ Len(s) + j - Len(s) = j
    BY <1>2
  <2> QED BY <1>1, <1>2, <2>1 DEF u
<1>6. SearchedIn(u) = SearchedIn(s) \cup SearchedIn(t)
  BY <1>3, <1>4, <1>5 DEF SearchedIn
<1> QED BY Zenon, <1>6 DEF u

\* What holds of the queries that run and have completed: no more subnet
\* queries than allowed, and the flag says whether there is a search for peers.
Limits(active, done, find_peer) ==
  /\ Count(active, "Subnet") + Count(done, "Subnet") <= MAX_CONCURRENT_SUBNET_QUERIES
  /\ Count(active, "FindPeers") + Count(done, "FindPeers") = IF find_peer THEN 1 ELSE 0

SearchInv ==
  /\ Queue(queued_queries)
  /\ active_queries \in Seq(Running)
  /\ completed \in Seq(Done)
  /\ find_peer_active \in BOOLEAN
  /\ Limits(active_queries, completed, find_peer_active)
  /\ BoundedCache(cached_enrs)

\* A round of process_queue, as there
Round(s) ==
  IF s.queue = <<>> \/ at_capacity(Len(s.active) + Len(completed), find_peer_active)
  THEN s
  ELSE [queue |-> SubSeq(s.queue, MAX_SUBNETS_IN_QUERY + 1, Len(s.queue)),
        active |-> s.active \o start_subnet_query(NextGroup(s.queue))]

\* What the rounds keep: the limits, and every subnet that lacks peers.
Sound(s) ==
  /\ Queue(s.queue)
  /\ s.active \in Seq(Running)
  /\ Limits(s.active, completed, find_peer_active)

LooksFor(s, subnets) == subnets \subseteq satisfied \cup SubnetsIn(s.queue) \cup SearchedIn(s.active)

\* With a place free a query for a group may start.
LEMMA RoundSound ==
  ASSUME SearchInv, NEW s, Sound(s), NEW subnets, LooksFor(s, subnets)
  PROVE  Sound(Round(s)) /\ LooksFor(Round(s), subnets)
<1>1. CASE s.queue = <<>> \/ at_capacity(Len(s.active) + Len(completed), find_peer_active)
  <2>1. Round(s) = s
    BY Zenon, <1>1 DEF Round
  <2> QED BY Zenon, <2>1
<1>2. CASE ~(s.queue = <<>> \/ at_capacity(Len(s.active) + Len(completed), find_peer_active))
  <2> DEFINE group == NextGroup(s.queue)
             rest == SubSeq(s.queue, MAX_SUBNETS_IN_QUERY + 1, Len(s.queue))
             started == start_subnet_query(group)
             active == s.active \o started
  <2>1. Round(s) = [queue |-> rest, active |-> active]
    BY Zenon, <1>2 DEF Round
  <2>2. Queue(s.queue) /\ s.active \in Seq(Running)
        /\ Limits(s.active, completed, find_peer_active)
    BY Zenon DEF Sound
  <2>3. /\ group \in Seq(SubnetQueries) /\ Len(group) <= MAX_SUBNETS_IN_QUERY
        /\ Queue(rest) /\ SubnetsIn(s.queue) \subseteq SubnetsIn(group) \cup SubnetsIn(rest)
    BY Zenon, <2>2, GroupAndRest
  <2> HIDE DEF group, rest
  <2>4. /\ started \in Seq(Running)
        /\ Count(started, "Subnet") \in {0, 1} /\ Count(started, "FindPeers") = 0
        /\ SubnetsIn(group) \subseteq satisfied \cup SearchedIn(started)
    BY <2>3, StartGroup
  <2> HIDE DEF started
  <2>5. s.active \in Seq(AnyQuery) /\ started \in Seq(AnyQuery) /\ completed \in Seq(AnyQuery)
    BY Zenon, <2>2, <2>4, AnyQueries DEF SearchInv
  <2>6. active \in Seq(Running)
    BY <2>2, <2>4
  <2>7. \A type : Count(active, type) = Count(s.active, type) + Count(started, type)
    BY Zenon, <2>5, CountConcat
  <2>8. SearchedIn(active) = SearchedIn(s.active) \cup SearchedIn(started)
    BY Zenon, <2>5, SearchedConcat
  <2> HIDE DEF active
  <2>9. /\ Count(s.active, "Subnet") \in Nat /\ Count(s.active, "FindPeers") \in Nat
        /\ Len(s.active) = Count(s.active, "Subnet") + Count(s.active, "FindPeers")
    BY <2>5, CountAll
  <2>10. /\ Count(completed, "Subnet") \in Nat /\ Count(completed, "FindPeers") \in Nat
         /\ Len(completed) = Count(completed, "Subnet") + Count(completed, "FindPeers")
    BY Zenon, <2>5, CountAll
  <2>11. Count(s.active, "Subnet") + Count(completed, "Subnet") < MAX_CONCURRENT_SUBNET_QUERIES
    <3>1. Count(s.active, "FindPeers") + Count(completed, "FindPeers")
            = IF find_peer_active THEN 1 ELSE 0
      BY Zenon, <2>2 DEF Limits
    <3> DEFINE all == Len(s.active) + Len(completed)
    <3>2. ~((IF find_peer_active /\ all > 0 THEN all - 1 ELSE all)
              >= MAX_CONCURRENT_SUBNET_QUERIES)
      BY Zenon, <1>2 DEF at_capacity
    <3> QED BY <2>9, <2>10, <3>1, <3>2, DiscoveryAssumption
  <2>12. Limits(active, completed, find_peer_active)
    <3>1. Count(active, "FindPeers") = Count(s.active, "FindPeers")
      BY <2>4, <2>7, <2>9
    <3>2. Count(active, "Subnet") + Count(completed, "Subnet") <= MAX_CONCURRENT_SUBNET_QUERIES
      BY <2>4, <2>7, <2>9, <2>10, <2>11, DiscoveryAssumption
    <3> QED BY <2>2, <3>1, <3>2 DEF Limits
  <2>13. subnets \subseteq satisfied \cup SubnetsIn(rest) \cup SearchedIn(active)
    BY Zenon, <2>3, <2>4, <2>8 DEF LooksFor
  <2>14. Round(s).queue = rest /\ Round(s).active = active
    BY <2>1
  <2> QED BY Zenon, <2>3, <2>6, <2>12, <2>13, <2>14 DEF Sound, LooksFor
<1> QED BY Zenon, <1>1, <1>2

\* f has the queue and the queries after m rounds.
Rounds(f, first, m) == f = [i \in 0 .. m |-> IF i = 0 THEN first ELSE Round(f[i - 1])]

\* The recursive definition in process_queue has a solution.
LEMMA RoundsExists ==
  ASSUME NEW first, NEW n \in Nat
  PROVE  \E f : Rounds(f, first, n)
<1> DEFINE S == {m \in 0 .. n : \E f : Rounds(f, first, m)}
<1>1. 0 \in S
  <2>1. Rounds([i \in 0 .. 0 |-> first], first, 0)
    BY DEF Rounds
  <2> QED BY <2>1
<1>2. ASSUME NEW m \in 1 .. n, m - 1 \in S PROVE m \in S
  <2>1. PICK f : Rounds(f, first, m - 1)
    BY Zenon, <1>2
  <2> DEFINE g == [i \in 0 .. m |-> IF i = m THEN Round(f[m - 1]) ELSE f[i]]
  <2>2. \A i \in 0 .. m : g[i] = IF i = 0 THEN first ELSE Round(g[i - 1])
    BY <2>1 DEF Rounds
  <2>3. Rounds(g, first, m)
    BY Zenon, <2>2 DEF Rounds
  <2> HIDE DEF g
  <2> QED BY <2>3
<1>3. n \in S
  BY Zenon, <1>1, <1>2, Climb
<1> QED BY Zenon, <1>3

\* The subnets queued that have not expired
Unexpired == {queued_queries[i].subnet :
                i \in {k \in DOMAIN queued_queries : ~expired(queued_queries[k])}}

\* process_queue respects the limits, and looks on for every subnet whose entry
\* has not expired and that lacks peers.
LEMMA ProcessQueue ==
  ASSUME SearchInv
  PROVE  Sound(process_queue) /\ LooksFor(process_queue, Unexpired \cup SearchedIn(active_queries))
<1> DEFINE kept == Without(queued_queries, {q \in Range(queued_queries) : expired(q)})
           first == [queue |-> kept, active |-> active_queries]
           subnets == Unexpired \cup SearchedIn(active_queries)
           n == Len(kept)
           f == CHOOSE f : Rounds(f, first, n)
           S == {i \in 0 .. n : Sound(f[i]) /\ LooksFor(f[i], subnets)}
<1>1. process_queue = f[n]
  BY Zenon DEF process_queue, Rounds, Round
<1>2. /\ kept \in Seq(SubnetQueries) /\ Queue(kept)
      /\ \A i \in DOMAIN queued_queries :
           queued_queries[i] \notin {q \in Range(queued_queries) : expired(q)}
             => queued_queries[i].subnet \in SubnetsIn(kept)
  BY Zenon, WithoutQueue DEF SearchInv, Queue
<1>3. Unexpired \subseteq SubnetsIn(kept)
  BY Zenon, <1>2 DEF Unexpired
<1> HIDE DEF kept
<1>4. n \in Nat
  BY <1>2
<1>5. Sound(first) /\ LooksFor(first, subnets)
  BY Zenon, <1>2, <1>3 DEF SearchInv, Sound, LooksFor
<1> HIDE DEF n, first, subnets
<1>6. Rounds(f, first, n)
  BY <1>4, RoundsExists, Zenon
<1> HIDE DEF f
<1>7. f[0] = first /\ \A i \in 1 .. n : f[i] = Round(f[i - 1])
  BY <1>4, <1>6 DEF Rounds
<1>8. 0 \in S
  BY <1>4, <1>5, <1>7
<1>9. ASSUME NEW i \in 1 .. n, i - 1 \in S PROVE i \in S
  BY <1>7, <1>9, RoundSound
<1>10. n \in S
  <2> HIDE DEF S
  <2> QED BY Zenon, <1>4, <1>8, <1>9, Climb
<1> QED BY Zenon, <1>1, <1>10 DEF subnets

-----------------------------------------------------------------------------
(* A poll.                                                                 *)

\* f has what is left after the first m completed queries.
Polls(f, first, m) ==
  f = [i \in 0 .. m |-> IF i = 0 THEN first ELSE process_completed_query(f[i - 1], completed[i])]

\* The recursive definition in PollQueries has a solution.
LEMMA PollsExists ==
  ASSUME NEW first, NEW n \in Nat
  PROVE  \E f : Polls(f, first, n)
<1> DEFINE S == {m \in 0 .. n : \E f : Polls(f, first, m)}
<1>1. 0 \in S
  <2>1. Polls([i \in 0 .. 0 |-> first], first, 0)
    BY DEF Polls
  <2> QED BY <2>1
<1>2. ASSUME NEW m \in 1 .. n, m - 1 \in S PROVE m \in S
  <2>1. PICK f : Polls(f, first, m - 1)
    BY Zenon, <1>2
  <2> DEFINE g == [i \in 0 .. m |->
                     IF i = m THEN process_completed_query(f[m - 1], completed[m]) ELSE f[i]]
  <2>2. \A i \in 0 .. m :
          g[i] = IF i = 0 THEN first ELSE process_completed_query(g[i - 1], completed[i])
    BY <2>1 DEF Polls
  <2>3. Polls(g, first, m)
    BY Zenon, <2>2 DEF Polls
  <2> HIDE DEF g
  <2> QED BY <2>3
<1>3. n \in S
  BY Zenon, <1>1, <1>2, Climb
<1> QED BY Zenon, <1>3

\* A poll takes some of the completed queries, from the first on.
LEMMA TakenSome ==
  ASSUME SearchInv
  PROVE  Taken \in 0 .. Len(completed)
<1> DEFINE yielding == {i \in DOMAIN completed : mapped_results(completed[i]) # {}}
<1>1. DOMAIN completed = 1 .. Len(completed) /\ Len(completed) \in Nat
  BY DEF SearchInv
<1>2. Taken = IF yielding = {} THEN Len(completed)
              ELSE CHOOSE i \in yielding : \A j \in yielding : i <= j
  BY Zenon DEF Taken
<1>3. yielding \subseteq 1 .. Len(completed)
  BY Zenon, <1>1
<1> HIDE DEF yielding
<1>4. CASE yielding = {}
  BY <1>1, <1>2, <1>4
<1>5. CASE yielding # {}
  <2>1. \E i \in yielding : \A j \in yielding : i <= j
    <3>1. yielding \subseteq Nat
      BY <1>1, <1>3
    <3> QED BY <1>5, <3>1, LeastNat, Zenon
  <2>2. Taken \in yielding
    BY Zenon, <1>2, <1>5, <2>1
  <2> QED BY <1>1, <1>3, <2>2
<1> QED BY Zenon, <1>4, <1>5

\* The subnets that come back into the queue from the first i completed queries
BackFrom(i) ==
  UNION {ReturnsFrom(completed[j].queries, Len(completed[j].queries)) :
           j \in {k \in 1 .. i : completed[k].result.ok}}

\* What holds once the first i completed queries are processed
Polled(s, queue, i) ==
  /\ Queue(s.queue)
  /\ BoundedCache(s.cache)
  /\ s.find_peer = (find_peer_active /\ \A j \in 1 .. i : completed[j].type # "FindPeers")
  /\ SubnetsIn(queue) \cup BackFrom(i) \subseteq SubnetsIn(s.queue)

\* One completed query more
LEMMA PolledNext ==
  ASSUME SearchInv, NEW queue, NEW i \in 1 .. Len(completed), NEW s, Polled(s, queue, i - 1)
  PROVE  Polled(process_completed_query(s, completed[i]), queue, i)
<1> DEFINE query == completed[i]
           t == process_completed_query(s, query)
<1>1. query \in Done
  BY DEF SearchInv
<1>2. /\ query.type \in Types /\ query.queries \in Seq(SubnetQueries)
      /\ query.result.ok \in BOOLEAN /\ query.result.nodes \in SUBSET Nodes
      /\ query.type = "FindPeers" => query.queries = <<>>
  BY Zenon, <1>1 DEF Done, Fits
<1>3. /\ t.queue = (IF query.type = "Subnet" /\ query.result.ok
                    THEN Requeue(s.queue, query.queries) ELSE s.queue)
      /\ t.find_peer = (IF query.type = "FindPeers" THEN FALSE ELSE s.find_peer)
      /\ t.cache = CachePutAll(s.cache, query.result.nodes)
  BY Zenon DEF process_completed_query
<1> HIDE DEF t
<1>4. BoundedCache(t.cache)
  BY Zenon, <1>2, <1>3, CachePutAllBounded DEF Polled
<1>5. t.find_peer = (find_peer_active /\ \A j \in 1 .. i : completed[j].type # "FindPeers")
  <2>1. \A j \in 1 .. i : j = i \/ j \in 1 .. i - 1
    OBVIOUS
  <2>2. \A j \in 1 .. i - 1 : j \in 1 .. i
    OBVIOUS
  <2>3. i \in 1 .. i
    OBVIOUS
  <2>4. s.find_peer = (find_peer_active /\ \A j \in 1 .. i - 1 : completed[j].type # "FindPeers")
    BY DEF Polled
  <2> QED BY Zenon, <1>3, <2>1, <2>2, <2>3, <2>4
<1> DEFINE back == ReturnsFrom(query.queries, Len(query.queries))
<1>6. BackFrom(i) \subseteq BackFrom(i - 1) \cup {x \in back : query.result.ok}
  <2>1. \A j \in 1 .. i : j = i \/ j \in 1 .. i - 1
    OBVIOUS
  <2> QED BY <2>1 DEF BackFrom
<1>7. Queue(t.queue) /\ SubnetsIn(s.queue) \subseteq SubnetsIn(t.queue)
      /\ (query.result.ok => back \subseteq SubnetsIn(t.queue))
  <2>1. CASE query.type = "Subnet" /\ query.result.ok
    <3>1. t.queue = Requeue(s.queue, query.queries) /\ Queue(s.queue)
      BY Zenon, <1>3, <2>1 DEF Polled
    <3>2. /\ Queue(Requeue(s.queue, query.queries))
          /\ SubnetsIn(s.queue) \cup back \subseteq SubnetsIn(Requeue(s.queue, query.queries))
      BY Zenon, <1>2, <3>1, RequeueKeeps
    <3> QED BY <3>1, <3>2
  <2>2. CASE ~query.result.ok
    BY <1>3, <2>2 DEF Polled
  <2>3. CASE query.type = "FindPeers"
    <3>1. back = {}
      BY <1>2, <2>3 DEF ReturnsFrom
    <3>2. t.queue = s.queue
      BY Zenon, <1>3, <2>3
    <3> QED BY Zenon, <3>1, <3>2 DEF Polled
  <2> QED BY Zenon, <1>2, <2>1, <2>2, <2>3 DEF Types
<1>8. SubnetsIn(queue) \cup BackFrom(i) \subseteq SubnetsIn(t.queue)
  BY Zenon, <1>6, <1>7 DEF Polled
<1>9. Polled(t, queue, i)
  BY <1>4, <1>5, <1>7, <1>8 DEF Polled
<1> QED BY Zenon, <1>9 DEF t

\* What a poll does to the searches.
LEMMA PollResult ==
  ASSUME SearchInv, PollQueries
  PROVE  /\ Sound(process_queue)
         /\ LooksFor(process_queue, Unexpired \cup SearchedIn(active_queries))
         /\ active_queries' = process_queue.active
         /\ completed' = SubSeq(completed, Taken + 1, Len(completed))
         /\ satisfied' = satisfied
         /\ Polled([queue |-> queued_queries', find_peer |-> find_peer_active',
                    cache |-> cached_enrs'], process_queue.queue, Taken)
<1> DEFINE started == process_queue
           first == [queue |-> started.queue, find_peer |-> find_peer_active,
                     cache |-> cached_enrs]
           n == Taken
           f == CHOOSE f : Polls(f, first, n)
           S == {i \in 0 .. n : Polled(f[i], started.queue, i)}
<1>1. /\ queued_queries' = f[n].queue /\ find_peer_active' = f[n].find_peer
      /\ cached_enrs' = f[n].cache
  BY Zenon DEF PollQueries, Polls
<1>2. Sound(started) /\ LooksFor(started, Unexpired \cup SearchedIn(active_queries))
  BY Zenon, ProcessQueue
<1>3. n \in 0 .. Len(completed) /\ n \in Nat /\ Len(completed) \in Nat
  <2>1. Len(completed) \in Nat
    BY DEF SearchInv
  <2> QED BY <2>1, TakenSome
<1>4. /\ active_queries' = started.active /\ satisfied' = satisfied
      /\ completed' = SubSeq(completed, n + 1, Len(completed))
  BY Zenon DEF PollQueries
<1> HIDE DEF started, n
<1>5. Polled(first, started.queue, 0)
  <2>1. Queue(first.queue) /\ BoundedCache(first.cache)
    BY Zenon, <1>2 DEF Sound, SearchInv
  <2>2. 1 .. 0 = {}
    OBVIOUS
  <2>3. BackFrom(0) = {}
    BY Zenon, <2>2 DEF BackFrom
  <2>4. first.find_peer = (find_peer_active /\ \A j \in 1 .. 0 : completed[j].type # "FindPeers")
    <3>1. find_peer_active \in BOOLEAN
      BY Zenon DEF SearchInv
    <3> QED BY Zenon, <2>2, <3>1
  <2>5. SubnetsIn(started.queue) \cup BackFrom(0) \subseteq SubnetsIn(first.queue)
    BY Zenon, <2>3
  <2> QED BY Zenon, <2>1, <2>4, <2>5 DEF Polled
<1> HIDE DEF first
<1>6. Polls(f, first, n)
  BY <1>3, PollsExists, Zenon
<1> HIDE DEF f
<1>7. f[0] = first /\ \A i \in 1 .. n : f[i] = process_completed_query(f[i - 1], completed[i])
  BY <1>3, <1>6 DEF Polls
<1>8. 0 \in S
  BY <1>3, <1>5, <1>7
<1>9. ASSUME NEW i \in 1 .. n, i - 1 \in S PROVE i \in S
  <2>1. i \in 1 .. Len(completed) /\ Polled(f[i - 1], started.queue, i - 1)
    BY <1>3, <1>9
  <2> QED BY <1>7, <2>1, PolledNext
<1>10. n \in S
  <2> HIDE DEF S
  <2> QED BY Zenon, <1>3, <1>8, <1>9, Climb
<1>11. Polled([queue |-> queued_queries', find_peer |-> find_peer_active', cache |-> cached_enrs'],
              started.queue, n)
  BY Zenon, <1>1, <1>10 DEF Polled
<1> QED BY Zenon, <1>2, <1>4, <1>11 DEF started, n

\* A poll keeps the limits.
LEMMA PollSound ==
  ASSUME SearchInv, PollQueries
  PROVE  SearchInv'
<1> DEFINE active == process_queue.active
           taken == SubSeq(completed, 1, Taken)
           rest == SubSeq(completed, Taken + 1, Len(completed))
           found == \A j \in 1 .. Taken : completed[j].type # "FindPeers"
<1>1. /\ Queue(queued_queries') /\ BoundedCache(cached_enrs')
      /\ find_peer_active' = (find_peer_active /\ found)
  BY Zenon, PollResult DEF Polled
<1>2. /\ active \in Seq(Running) /\ Limits(active, completed, find_peer_active)
      /\ active_queries' = active /\ completed' = rest
  BY Zenon, PollResult DEF Sound
<1>3. /\ Taken \in 0 .. Len(completed) /\ completed \in Seq(Done) /\ completed \in Seq(AnyQuery)
      /\ find_peer_active \in BOOLEAN /\ active \in Seq(AnyQuery)
  BY <1>2, TakenSome, AnyQueries DEF SearchInv
<1>4. rest \in Seq(Done)
  BY <1>3
<1>5. /\ taken \in Seq(AnyQuery) /\ rest \in Seq(AnyQuery)
      /\ \A type : Count(completed, type) = Count(taken, type) + Count(rest, type)
  BY Zenon, <1>3, CountSplit
<1>6. \A type : Count(taken, type) \in Nat /\ Count(rest, type) \in Nat /\ Count(active, type) \in Nat
  BY Zenon, <1>3, <1>5, CountAll
<1>7. Len(taken) = Taken /\ \A j \in 1 .. Taken : taken[j] = completed[j]
  BY <1>3
<1>8. Count(taken, "FindPeers") > 0 <=> ~found
  <2>1. /\ TypesOf(taken) \in Seq(Types) /\ Len(TypesOf(taken)) = Taken
        /\ \A i \in 1 .. Taken : TypesOf(taken)[i] = taken[i].type
    BY Zenon, <1>5, <1>7, TypesOfSeq
  <2>2. Count(taken, "FindPeers") > 0 <=> \E i \in 1 .. Taken : TypesOf(taken)[i] = "FindPeers"
    BY <2>1, OccursSomewhere DEF Count
  <2> HIDE DEF taken
  <2> QED BY Zenon, <1>7, <2>1, <2>2
<1> HIDE DEF active, taken, rest, found
<1>9. Limits(active, rest, find_peer_active /\ found)
  <2>1. Count(active, "Subnet") + Count(rest, "Subnet") <= MAX_CONCURRENT_SUBNET_QUERIES
    BY <1>2, <1>5, <1>6, DiscoveryAssumption DEF Limits
  <2>2. Count(active, "FindPeers") + Count(taken, "FindPeers") + Count(rest, "FindPeers")
          = IF find_peer_active THEN 1 ELSE 0
    BY <1>2, <1>5, <1>6 DEF Limits
  <2>3. CASE found
    <3>1. Count(taken, "FindPeers") = 0
      BY <1>6, <1>8, <2>3
    <3> QED BY <1>6, <2>1, <2>2, <2>3, <3>1 DEF Limits
  <2>4. CASE ~found
    <3>1. Count(taken, "FindPeers") > 0
      BY <1>8, <2>4
    <3>2. Count(active, "FindPeers") + Count(rest, "FindPeers") = 0
      BY <1>6, <2>2, <3>1
    <3> QED BY Zenon, <2>1, <2>4, <3>2 DEF Limits
  <2> QED BY Zenon, <2>3, <2>4
<1>10. find_peer_active' \in BOOLEAN
  BY Zenon, <1>1
<1>11. Limits(active_queries', completed', find_peer_active')
  BY Zenon, <1>1, <1>2, <1>9
<1> QED BY <1>1, <1>2, <1>4, <1>10, <1>11 DEF SearchInv

\* A query in a sequence is for one of the subnets searched for in it.
LEMMA SearchedSomewhere ==
  ASSUME NEW s, NEW subnet
  PROVE  (\E i \in DOMAIN s : \E j \in DOMAIN s[i].queries : s[i].queries[j].subnet = subnet)
           <=> subnet \in SearchedIn(s)
BY DEF SearchedIn, SubnetsIn

\* A subnet is looked for when it is queued, or a query that runs or has completed is for it.
LEMMA SoughtWhere ==
  ASSUME SearchInv, NEW subnet
  PROVE  Sought(subnet) <=> subnet \in SubnetsIn(queued_queries) \cup SearchedIn(active_queries)
                                       \cup SearchedIn(completed)
<1>1. active_queries \in Seq(AnyQuery) /\ completed \in Seq(AnyQuery)
  BY Zenon, AnyQueries DEF SearchInv
<1>2. SearchedIn(active_queries \o completed) = SearchedIn(active_queries) \cup SearchedIn(completed)
  BY Zenon, <1>1, SearchedConcat
<1>3. Sought(subnet) <=>
        \/ \E i \in DOMAIN queued_queries : queued_queries[i].subnet = subnet
        \/ \E i \in DOMAIN (active_queries \o completed) :
             \E j \in DOMAIN (active_queries \o completed)[i].queries :
               (active_queries \o completed)[i].queries[j].subnet = subnet
  BY Zenon DEF Sought, Started
<1>4. (\E i \in DOMAIN (active_queries \o completed) :
         \E j \in DOMAIN (active_queries \o completed)[i].queries :
           (active_queries \o completed)[i].queries[j].subnet = subnet)
      <=> subnet \in SearchedIn(active_queries \o completed)
  BY SearchedSomewhere, Zenon
<1>5. (\E i \in DOMAIN queued_queries : queued_queries[i].subnet = subnet)
      <=> subnet \in SubnetsIn(queued_queries)
  BY Zenon DEF SubnetsIn
<1> QED BY <1>2, <1>3, <1>4, <1>5, Zenon

\* The same after a step
LEMMA SoughtWhereNext ==
  ASSUME SearchInv', NEW subnet
  PROVE  Sought(subnet)' <=> subnet \in SubnetsIn(queued_queries') \cup SearchedIn(active_queries')
                                        \cup SearchedIn(completed')
<1>1. active_queries' \in Seq(AnyQuery) /\ completed' \in Seq(AnyQuery)
  BY Zenon, AnyQueries DEF SearchInv
<1>2. SearchedIn(active_queries' \o completed')
        = SearchedIn(active_queries') \cup SearchedIn(completed')
  BY Zenon, <1>1, SearchedConcat
<1>3. Sought(subnet)' <=>
        \/ \E i \in DOMAIN queued_queries' : queued_queries'[i].subnet = subnet
        \/ \E i \in DOMAIN (active_queries' \o completed') :
             \E j \in DOMAIN (active_queries' \o completed')[i].queries :
               (active_queries' \o completed')[i].queries[j].subnet = subnet
  BY Zenon DEF Sought, Started
<1>4. (\E i \in DOMAIN (active_queries' \o completed') :
         \E j \in DOMAIN (active_queries' \o completed')[i].queries :
           (active_queries' \o completed')[i].queries[j].subnet = subnet)
      <=> subnet \in SearchedIn(active_queries' \o completed')
  BY SearchedSomewhere, Zenon
<1>5. (\E i \in DOMAIN queued_queries' : queued_queries'[i].subnet = subnet)
      <=> subnet \in SubnetsIn(queued_queries')
  BY DEF SubnetsIn
<1> QED BY <1>2, <1>3, <1>4, <1>5, Zenon

\* A poll gives up a subnet only for a reason.
LEMMA PollKeeps ==
  ASSUME SearchInv, PollQueries, NEW subnet, Sought(subnet), ~Sought(subnet)'
  PROVE  MayEnd(subnet)
<1>1. SearchInv'
  BY Zenon, PollSound
<1>2. /\ subnet \notin SubnetsIn(queued_queries') /\ subnet \notin SearchedIn(active_queries')
      /\ subnet \notin SearchedIn(completed')
  BY <1>1, SoughtWhereNext
<1> DEFINE started == process_queue
<1>3. /\ Unexpired \cup SearchedIn(active_queries)
           \subseteq satisfied \cup SubnetsIn(started.queue) \cup SearchedIn(started.active)
      /\ SubnetsIn(started.queue) \cup BackFrom(Taken) \subseteq SubnetsIn(queued_queries')
      /\ active_queries' = started.active
      /\ completed' = SubSeq(completed, Taken + 1, Len(completed))
  BY Zenon, PollResult DEF LooksFor, Polled
<1> HIDE DEF started
<1>4. CASE subnet \in SubnetsIn(queued_queries)
  <2>1. PICK i \in DOMAIN queued_queries : queued_queries[i].subnet = subnet
    BY <1>4 DEF SubnetsIn
  <2>2. CASE expired(queued_queries[i])
    BY Zenon, <2>1, <2>2 DEF MayEnd
  <2>3. CASE ~expired(queued_queries[i])
    <3>1. subnet \in Unexpired
      BY <2>1, <2>3 DEF Unexpired
    <3> QED BY Zenon, <1>2, <1>3, <3>1 DEF MayEnd
  <2> QED BY Zenon, <2>2, <2>3
<1>5. CASE subnet \in SearchedIn(active_queries)
  BY Zenon, <1>2, <1>3, <1>5 DEF MayEnd
<1>6. CASE subnet \in SearchedIn(completed)
  <2>1. PICK i \in DOMAIN completed :
          \E j \in DOMAIN completed[i].queries : completed[i].queries[j].subnet = subnet
    BY <1>6, SearchedSomewhere
  <2>2. PICK j \in DOMAIN completed[i].queries : completed[i].queries[j].subnet = subnet
    BY Zenon, <2>1
  <2>3. /\ completed \in Seq(Done) /\ i \in 1 .. Len(completed) /\ Len(completed) \in Nat
        /\ Taken \in 0 .. Len(completed)
    BY TakenSome DEF SearchInv
  <2>4. i <= Taken
    <3> SUFFICES ASSUME i > Taken PROVE FALSE
      BY <2>3
    <3>1. i - Taken \in DOMAIN completed' /\ completed'[i - Taken] = completed[i]
      BY <1>3, <2>3
    <3> QED BY <1>2, <2>2, <3>1 DEF SearchedIn, SubnetsIn
  <2>5. CASE ~completed[i].result.ok \/ completed[i].queries[j].retries = MAX_DISCOVERY_RETRY
    BY Zenon, <2>2, <2>5 DEF MayEnd
  <2>6. CASE completed[i].result.ok /\ completed[i].queries[j].retries # MAX_DISCOVERY_RETRY
    <3>1. completed[i].queries \in Seq(SubnetQueries)
      BY <2>3 DEF Done
    <3>2. j \in 1 .. Len(completed[i].queries)
      BY <3>1
    <3>3. subnet \in ReturnsFrom(completed[i].queries, Len(completed[i].queries))
      BY Zenon, <2>2, <2>6, <3>2 DEF ReturnsFrom
    <3>4. i \in 1 .. Taken
      BY <2>3, <2>4
    <3>5. subnet \in BackFrom(Taken)
      BY Zenon, <2>6, <3>3, <3>4 DEF BackFrom
    <3> QED BY <1>2, <1>3, <3>5
  <2> QED BY Zenon, <2>5, <2>6
<1> QED BY Zenon, <1>4, <1>5, <1>6, SoughtWhere

-----------------------------------------------------------------------------
(* The other steps of discovery.                                           *)

\* A step that gives up no subnet
Keeps == SubnetsIn(queued_queries) \cup SearchedIn(active_queries) \cup SearchedIn(completed)
           \subseteq SubnetsIn(queued_queries') \cup SearchedIn(active_queries')
                       \cup SearchedIn(completed')

\* A query that is appended counts for its type, and its subnets are looked for.
LEMMA AppendQuery ==
  ASSUME NEW s \in Seq(AnyQuery), NEW query \in AnyQuery
  PROVE  /\ \A type : Count(Append(s, query), type)
                        = Count(s, type) + (IF query.type = type THEN 1 ELSE 0)
         /\ SearchedIn(Append(s, query)) = SearchedIn(s) \cup SubnetsIn(query.queries)
<1> DEFINE one == <<query>>
<1>1. one \in Seq(AnyQuery)
  OBVIOUS
<1>2. Append(s, query) = s \o one
  OBVIOUS
<1>3. \A type : Count(one, type) = IF query.type = type THEN 1 ELSE 0
  BY Zenon, CountOne
<1>4. SearchedIn(one) = SubnetsIn(query.queries)
  BY DEF SearchedIn
<1> HIDE DEF one
<1>5. \A type : Count(s \o one, type) = Count(s, type) + Count(one, type)
  BY Zenon, <1>1, CountConcat
<1>6. SearchedIn(s \o one) = SearchedIn(s) \cup SearchedIn(one)
  BY Zenon, <1>1, SearchedConcat
<1> QED BY Zenon, <1>2, <1>3, <1>4, <1>5, <1>6

\* A query that is taken out no longer counts; the others are looked for still.
LEMMA RemoveQuery ==
  ASSUME NEW s \in Seq(AnyQuery), NEW i \in 1 .. Len(s)
  PROVE  LET left == SubSeq(s, 1, i - 1) \o SubSeq(s, i + 1, Len(s))
         IN  /\ \A type : Count(s, type) = Count(left, type) + (IF s[i].type = type THEN 1 ELSE 0)
             /\ SearchedIn(s) = SearchedIn(left) \cup SubnetsIn(s[i].queries)
<1> DEFINE a == SubSeq(s, 1, i - 1)
           b == SubSeq(s, i + 1, Len(s))
           query == s[i]
           one == <<query>>
<1>1. /\ Len(s) \in Nat /\ i \in Nat /\ query \in AnyQuery
      /\ a \in Seq(AnyQuery) /\ b \in Seq(AnyQuery) /\ one \in Seq(AnyQuery)
  OBVIOUS
<1>2. s = (a \o one) \o b
  <2>1. SubSeq(s, i, i) = one
    <3> DEFINE t == SubSeq(s, i, i)
    <3>1. t \in Seq(AnyQuery) /\ Len(t) = 1 /\ t[1] = s[i]
      OBVIOUS
    <3> HIDE DEF t
    <3>2. t = <<s[i]>>
      BY <3>1
    <3> QED BY Zenon, <3>2 DEF t
  <2>2. a \o SubSeq(s, i, i) = SubSeq(s, 1, i)
    <3>1. 1 \in 1 .. Len(s) + 1 /\ i - 1 \in 1 - 1 .. Len(s) /\ i \in i - 1 .. Len(s)
      OBVIOUS
    <3>2. SubSeq(s, 1, i - 1) \o SubSeq(s, i - 1 + 1, i) = SubSeq(s, 1, i)
      BY Zenon, <3>1, SubSeqAdjacent
    <3>3. i - 1 + 1 = i
      OBVIOUS
    <3> QED BY Zenon, <3>2, <3>3
  <2>3. SubSeq(s, 1, i) \o b = s
    BY SubSeqParts
  <2> QED BY Zenon, <2>1, <2>2, <2>3
<1>3. /\ \A type : Count(one, type) = IF query.type = type THEN 1 ELSE 0
      /\ SearchedIn(one) = SubnetsIn(query.queries)
  BY <1>1, CountOne DEF SearchedIn
<1> HIDE DEF a, b, one, query
<1>4. a \o one \in Seq(AnyQuery) /\ a \o b \in Seq(AnyQuery)
  BY <1>1
<1>5. /\ \A type : Count((a \o one) \o b, type) = Count(a \o one, type) + Count(b, type)
      /\ SearchedIn((a \o one) \o b) = SearchedIn(a \o one) \cup SearchedIn(b)
  BY Zenon, <1>1, <1>4, CountConcat, SearchedConcat
<1>6. /\ \A type : Count(a \o one, type) = Count(a, type) + Count(one, type)
      /\ SearchedIn(a \o one) = SearchedIn(a) \cup SearchedIn(one)
  BY Zenon, <1>1, CountConcat, SearchedConcat
<1>7. /\ \A type : Count(a \o b, type) = Count(a, type) + Count(b, type)
      /\ SearchedIn(a \o b) = SearchedIn(a) \cup SearchedIn(b)
  BY <1>1, CountConcat, SearchedConcat
<1>8. \A type : Count(a, type) \in Nat /\ Count(b, type) \in Nat /\ Count(one, type) \in Nat
  BY Zenon, <1>1, CountAll
<1>9. \A type : Count(s, type) = Count(a \o b, type) + Count(one, type)
  BY <1>2, <1>5, <1>6, <1>7, <1>8
<1>10. SearchedIn(s) = SearchedIn(a \o b) \cup SubnetsIn(query.queries)
  BY Zenon, <1>2, <1>3, <1>5, <1>6, <1>7
<1> QED BY Zenon, <1>3, <1>9, <1>10 DEF a, b, query

\* A search for peers starts where there is none.
LEMMA DiscoverPeersSound ==
  ASSUME SearchInv, discover_peers
  PROVE  SearchInv' /\ Keeps
<1>1. CASE find_peer_active
  BY Zenon, <1>1 DEF discover_peers, SearchInv, Keeps
<1>2. CASE ~find_peer_active
  <2>1. /\ active_queries' = Append(active_queries, FindPeers) /\ find_peer_active' = TRUE
        /\ UNCHANGED <<queued_queries, completed, cached_enrs>>
    BY Zenon, <1>2 DEF discover_peers
  <2>2. FindPeers \in Running /\ FindPeers.type = "FindPeers"
    <3> DEFINE none == <<>>
    <3>1. none \in Seq(SubnetQueries) /\ Len(none) = 0
      OBVIOUS
    <3>2. FindPeers = [type |-> "FindPeers", queries |-> none]
      BY Zenon DEF FindPeers
    <3>3. Fits(FindPeers)
      BY DiscoveryAssumption DEF Fits, FindPeers
    <3> HIDE DEF none
    <3> QED BY Zenon, <3>1, <3>2, <3>3 DEF Running, Types
  <2>3. FindPeers \in AnyQuery /\ active_queries \in Seq(AnyQuery) /\ completed \in Seq(AnyQuery)
        /\ active_queries \in Seq(Running)
    BY Zenon, <2>2, AnyQueries DEF AnyQuery, SearchInv
  <2>4. /\ \A type : Count(active_queries', type)
                       = Count(active_queries, type) + (IF "FindPeers" = type THEN 1 ELSE 0)
        /\ SearchedIn(active_queries) \subseteq SearchedIn(active_queries')
    BY <2>1, <2>2, <2>3, AppendQuery
  <2>5. /\ Count(active_queries, "Subnet") \in Nat /\ Count(active_queries, "FindPeers") \in Nat
        /\ Count(completed, "Subnet") \in Nat /\ Count(completed, "FindPeers") \in Nat
    BY Zenon, <2>3, CountAll
  <2>6. active_queries' \in Seq(Running)
    BY <2>1, <2>2, <2>3
  <2>7. Limits(active_queries', completed', find_peer_active')
    <3>1. Limits(active_queries, completed, FALSE)
      BY Zenon, <1>2 DEF SearchInv
    <3>2. Count(active_queries', "Subnet") = Count(active_queries, "Subnet")
          /\ Count(active_queries', "FindPeers") = Count(active_queries, "FindPeers") + 1
      BY <2>4, <2>5
    <3>3. completed' = completed /\ find_peer_active' = TRUE
      BY Zenon, <2>1
    <3> QED BY <2>5, <3>1, <3>2, <3>3 DEF Limits
  <2> QED BY Zenon, <2>1, <2>4, <2>6, <2>7 DEF SearchInv, Keeps
<1> QED BY <1>1, <1>2

\* A request for the peers of a subnet adds to the queue alone.
LEMMA DiscoverSubnetSound ==
  ASSUME SearchInv, NEW subnet \in Subnets, NEW min_ttl \in {NoTtl} \cup 0 .. MaxTime,
         discover_subnet_peers(subnet, min_ttl)
  PROVE  SearchInv' /\ Keeps
<1>1. CASE subnet \in satisfied
  BY Zenon, <1>1 DEF discover_subnet_peers, SearchInv, Keeps
<1>2. CASE subnet \notin satisfied
  <2> DEFINE queue == add_subnet_query(queued_queries, subnet, min_ttl, 0)
  <2>1. Queue(queue) /\ SubnetsIn(queued_queries) \subseteq SubnetsIn(queue)
    BY Zenon, AddQuery DEF SearchInv
  <2>2. BoundedCache(CachePop(cached_enrs, {n \in Nodes : subnet_predicate({subnet}, n)}))
    BY Zenon, CachePopBounded DEF SearchInv
  <2>3. /\ queued_queries' = queue
        /\ cached_enrs' = CachePop(cached_enrs, {n \in Nodes : subnet_predicate({subnet}, n)})
        /\ UNCHANGED <<active_queries, completed, find_peer_active>>
    BY Zenon, <1>2 DEF discover_subnet_peers
  <2> HIDE DEF queue
  <2> QED BY Zenon, <2>1, <2>2, <2>3 DEF SearchInv, Keeps
<1> QED BY Zenon, <1>1, <1>2

\* A query that completes is the same query.
LEMMA QueryCompletesSound ==
  ASSUME SearchInv, NEW i \in DOMAIN active_queries, QueryCompletes(i)
  PROVE  SearchInv' /\ Keeps
<1> DEFINE query == active_queries[i]
           left == SubSeq(active_queries, 1, i - 1)
                     \o SubSeq(active_queries, i + 1, Len(active_queries))
<1>1. active_queries \in Seq(Running) /\ completed \in Seq(Done) /\ i \in 1 .. Len(active_queries)
      /\ active_queries \in Seq(AnyQuery) /\ completed \in Seq(AnyQuery)
  BY AnyQueries DEF SearchInv
<1>2. PICK result \in [ok : BOOLEAN, nodes : SUBSET Nodes] :
        completed' = Append(completed, [type |-> query.type, queries |-> query.queries,
                                        result |-> result])
  BY Zenon DEF QueryCompletes, Failure, Found
<1> DEFINE done == [type |-> query.type, queries |-> query.queries, result |-> result]
<1>3. query \in Running
  BY <1>1
<1>4. done \in Done /\ done.type = query.type /\ done.queries = query.queries
  BY Zenon, <1>3 DEF Running, Done, Fits
<1>5. active_queries' = left /\ UNCHANGED <<queued_queries, find_peer_active, cached_enrs>>
  BY Zenon DEF QueryCompletes
<1>6. left \in Seq(Running)
  BY <1>1
<1>7. /\ \A type : Count(active_queries, type)
                     = Count(left, type) + (IF query.type = type THEN 1 ELSE 0)
      /\ SearchedIn(active_queries) = SearchedIn(left) \cup SubnetsIn(query.queries)
  BY Zenon, <1>1, RemoveQuery
<1> HIDE DEF left, done, query
<1>8. done \in AnyQuery /\ left \in Seq(AnyQuery)
  BY Zenon, <1>4, <1>6, AnyQueries DEF AnyQuery
<1>9. completed' = Append(completed, done)
  BY Zenon, <1>2 DEF done
<1>10. /\ \A type : Count(completed', type)
                      = Count(completed, type) + (IF query.type = type THEN 1 ELSE 0)
       /\ SearchedIn(completed') = SearchedIn(completed) \cup SubnetsIn(query.queries)
  BY <1>1, <1>4, <1>8, <1>9, AppendQuery
<1>11. \A type : Count(left, type) \in Nat /\ Count(completed, type) \in Nat
  BY Zenon, <1>1, <1>8, CountAll
<1>12. \A type : Count(left, type) + Count(completed', type)
                   = Count(active_queries, type) + Count(completed, type)
  BY <1>7, <1>10, <1>11
<1>13. Limits(left, completed', find_peer_active)
  BY Zenon, <1>12 DEF SearchInv, Limits
<1>14. completed' \in Seq(Done)
  BY <1>1, <1>4, <1>9
<1>15. SearchInv'
  BY Zenon, <1>5, <1>6, <1>13, <1>14 DEF SearchInv
<1>16. Keeps
  BY Zenon, <1>5, <1>7, <1>10 DEF Keeps
<1> QED BY Zenon, <1>15, <1>16

-----------------------------------------------------------------------------
(* The limits hold in every state, and no step gives up a subnet without a *)
(* reason.                                                                 *)

BudgetInv == "restarts" \in DOMAIN budget /\ budget.restarts \in Nat

\* A budget that is spent keeps a number of restarts, one less if that is what is spent.
LEMMA SpendRestarts ==
  ASSUME BudgetInv, NEW what, Spend(what)
  PROVE  BudgetInv' /\ (what = "restarts" => budget'.restarts # budget.restarts)
BY DEF BudgetInv, Spend

\* What a step of the network does to the searches.
LEMMA SearchStep ==
  ASSUME SearchInv, BudgetInv, Next
  PROVE  /\ SearchInv'
         /\ Keeps \/ PollQueries \/ budget'.restarts # budget.restarts
<1>1. ASSUME UNCHANGED <<queued_queries, active_queries, completed, find_peer_active>>,
             BoundedCache(cached_enrs')
      PROVE  SearchInv' /\ Keeps
  BY Zenon, <1>1 DEF SearchInv, Keeps
<1>2. ASSUME UNCHANGED discoveryVars PROVE SearchInv' /\ Keeps
  BY Zenon, <1>1, <1>2 DEF discoveryVars, queryVars, SearchInv
<1>3. CASE Restart
  <2>1. Queue(<<>>) /\ BoundedCache(<<>>) /\ <<>> \in Seq(Running) /\ <<>> \in Seq(Done)
    BY DiscoveryAssumption DEF Queue, BoundedCache
  <2>2. Limits(<<>>, <<>>, FALSE)
    BY CountNone, DiscoveryAssumption DEF Limits
  <2>3. /\ queued_queries' = <<>> /\ active_queries' = <<>> /\ completed' = <<>>
        /\ find_peer_active' = FALSE /\ cached_enrs' = <<>>
    BY Zenon, <1>3 DEF Restart
  <2>4. SearchInv'
    <3> DEFINE none == <<>>
    <3> HIDE DEF none
    <3>1. Queue(none) /\ BoundedCache(none) /\ none \in Seq(Running) /\ none \in Seq(Done)
          /\ Limits(none, none, FALSE)
      BY Zenon, <2>1, <2>2 DEF none
    <3>2. /\ queued_queries' = none /\ active_queries' = none /\ completed' = none
          /\ find_peer_active' = FALSE /\ cached_enrs' = none
      BY Zenon, <2>3 DEF none
    <3> QED BY Zenon, <3>1, <3>2 DEF SearchInv
  <2>5. budget'.restarts # budget.restarts
    BY Zenon, <1>3, SpendRestarts DEF Restart
  <2> QED BY Zenon, <2>4, <2>5
<1>4. CASE Poll
  BY Zenon, <1>4, PollSound DEF Poll
<1>5. CASE DiscoverPeers
  BY Zenon, <1>5, DiscoverPeersSound DEF DiscoverPeers
<1>6. CASE DiscoverSubnetPeers
  BY Zenon, <1>6, DiscoverSubnetSound DEF DiscoverSubnetPeers
<1>7. CASE QueryDone
  BY Zenon, <1>7, QueryCompletesSound DEF QueryDone
<1>8. CASE Cache
  <2>1. PICK node \in Nodes : add_enr(node) \/ on_dial_failure(node)
    BY Zenon, <1>8 DEF Cache
  <2>2. BoundedCache(cached_enrs')
    BY Zenon, <2>1, CachePutBounded, CachePopBounded DEF add_enr, on_dial_failure, SearchInv
  <2>3. UNCHANGED <<queued_queries, active_queries, completed, find_peer_active>>
    BY Zenon, <2>1 DEF add_enr, on_dial_failure, queryVars
  <2> QED BY Zenon, <1>1, <2>2, <2>3
<1>9. CASE PeersChange \/ Tick
  <2>1. UNCHANGED <<queued_queries, active_queries, completed, find_peer_active>>
        /\ cached_enrs' = cached_enrs
    BY Zenon, <1>9 DEF PeersChange, Tick, queryVars
  <2> QED BY Zenon, <1>1, <2>1 DEF SearchInv
<1>10. CASE NewListenAddr \/ UpdateUdpSocket \/ SocketUpdated \/ UpdateEnrSubnet \/ UpdateEnrCgc
              \/ Continue
  BY Zenon, <1>2, <1>10 DEF NewListenAddr, UpdateUdpSocket, SocketUpdated, UpdateEnrSubnet, UpdateEnrCgc,
                     Continue, NotRecords
<1>11. CASE StartTopics \/ SubscribeKind \/ UnsubscribeKind \/ NewColumns \/ SubscribeNewFork
              \/ UpdateCurrentFork \/ update_fork_version \/ update_enr_fork_id \/ update_nfd
              \/ LeaveOldTopics
  BY Zenon, <1>2, <1>11 DEF StartTopics, SubscribeKind, UnsubscribeKind, NewColumns, SubscribeNewFork,
                     UpdateCurrentFork, update_fork_version, update_enr_fork_id, update_nfd,
                     LeaveOldTopics, NotTopics
<1>12. CASE Publish \/ Subscribed \/ Unsubscribed \/ Expire
  BY Zenon, <1>2, <1>12 DEF Publish, Subscribed, Unsubscribed, Expire, NotMessages
<1>13. CASE SendPing \/ ReceivePing \/ \E i \in DOMAIN exchange : AnswerMetadata(i) \/ meta_data_response(i)
  BY <1>2, <1>13 DEF SendPing, ReceivePing, AnswerMetadata, meta_data_response, NotExchange
<1> QED BY Zenon, <1>3, <1>4, <1>5, <1>6, <1>7, <1>8, <1>9, <1>10, <1>11, <1>12, <1>13 DEF Next

\* Every step that is bounded spends a budget.
LEMMA BudgetStep == BudgetInv /\ [Next]_vars => BudgetInv'
<1> SUFFICES ASSUME BudgetInv, [Next]_vars PROVE BudgetInv'
  BY Zenon
<1>1. ASSUME budget' = budget PROVE BudgetInv'
  BY Zenon, <1>1 DEF BudgetInv
<1>2. ASSUME NEW what, Spend(what) PROVE BudgetInv'
  BY Zenon, <1>2, SpendRestarts
<1>3. CASE Restart \/ DiscoverPeers \/ DiscoverSubnetPeers \/ Cache \/ PeersChange \/ Tick
  BY Zenon, <1>2, <1>3 DEF Restart, DiscoverPeers, DiscoverSubnetPeers, Cache, PeersChange, Tick
<1>4. CASE NewListenAddr \/ UpdateUdpSocket \/ SocketUpdated \/ UpdateEnrSubnet \/ UpdateEnrCgc
  BY <1>2, <1>4 DEF NewListenAddr, UpdateUdpSocket, SocketUpdated, UpdateEnrSubnet, UpdateEnrCgc
<1>5. CASE SubscribeKind \/ UnsubscribeKind \/ NewColumns \/ SubscribeNewFork
             \/ Publish \/ Subscribed \/ Unsubscribed
  BY Zenon, <1>2, <1>5 DEF SubscribeKind, UnsubscribeKind, NewColumns, SubscribeNewFork,
                    Publish, Subscribed, Unsubscribed
<1>6. CASE Poll \/ QueryDone \/ Continue \/ StartTopics \/ UpdateCurrentFork \/ update_fork_version
             \/ update_enr_fork_id \/ update_nfd \/ LeaveOldTopics \/ Expire
  BY Zenon, <1>1, <1>6 DEF Poll, QueryDone, Continue, StartTopics, UpdateCurrentFork,
                    update_fork_version, update_enr_fork_id, update_nfd, LeaveOldTopics, Expire
<1>7. CASE SendPing \/ ReceivePing \/ \E i \in DOMAIN exchange : AnswerMetadata(i) \/ meta_data_response(i)
  BY <1>1, <1>7 DEF SendPing, ReceivePing, AnswerMetadata, meta_data_response, NotExchange
<1>8. CASE UNCHANGED vars
  BY Zenon, <1>1, <1>8 DEF vars
<1> QED BY Zenon, <1>3, <1>4, <1>5, <1>6, <1>7, <1>8 DEF Next

\* Nothing is searched for at the start.
LEMMA SearchInit == Init => SearchInv /\ BudgetInv
<1> SUFFICES ASSUME Init PROVE SearchInv /\ BudgetInv
  BY Zenon
<1> DEFINE none == <<>>
<1>1. Queue(none) /\ BoundedCache(none) /\ none \in Seq(Running) /\ none \in Seq(Done)
  BY DiscoveryAssumption DEF Queue, BoundedCache
<1>2. Limits(none, none, FALSE)
  BY CountNone, DiscoveryAssumption DEF Limits
<1>3. /\ queued_queries = none /\ active_queries = none /\ completed = none
      /\ find_peer_active = FALSE /\ cached_enrs = none /\ budget \in Budgets
  BY Zenon DEF Init
<1> HIDE DEF none
<1>4. SearchInv
  BY <1>1, <1>2, <1>3 DEF SearchInv
<1>5. BudgetInv
  BY Zenon, <1>3, NetworkAssumption DEF BudgetInv
<1> QED BY Zenon, <1>4, <1>5

\* The limits are those of QueryLimits.
LEMMA SearchLimits == SearchInv => QueryLimits
<1> SUFFICES ASSUME SearchInv PROVE QueryLimits
  OBVIOUS
<1>1. active_queries \in Seq(AnyQuery) /\ completed \in Seq(AnyQuery)
  BY Zenon, AnyQueries DEF SearchInv
<1>2. Started \in Seq(AnyQuery)
      /\ \A type : Count(Started, type) = Count(active_queries, type) + Count(completed, type)
  BY Zenon, <1>1, CountConcat, ConcatElements DEF Started
<1> HIDE DEF Started
<1>3. ASSUME NEW type PROVE Count(Started, type) = Cardinality({i \in DOMAIN Started : Started[i].type = type})
  <2>1. \A i \in DOMAIN Started : TypesOf(Started)[i] = Started[i].type
    BY Zenon DEF TypesOf
  <2>2. DOMAIN TypesOf(Started) = DOMAIN Started
    BY Zenon DEF TypesOf
  <2>3. {i \in DOMAIN TypesOf(Started) : TypesOf(Started)[i] = type}
          = {i \in DOMAIN Started : Started[i].type = type}
    BY Zenon, <2>1, <2>2
  <2> QED BY Zenon, <2>3 DEF Count, Occurrences
<1>4. ASSUME NEW i \in DOMAIN Started PROVE Len(Started[i].queries) <= MAX_SUBNETS_IN_QUERY
  <2>1. Started[i] \in AnyQuery
    BY <1>2
  <2> QED BY Zenon, <2>1 DEF AnyQuery, Running, Done, Fits
<1>5. /\ Count(Started, "Subnet") <= MAX_CONCURRENT_SUBNET_QUERIES
      /\ Count(Started, "FindPeers") = IF find_peer_active THEN 1 ELSE 0
  BY Zenon, <1>2 DEF SearchInv, Limits
<1>6. /\ \A i, j \in DOMAIN queued_queries : queued_queries[i].subnet = queued_queries[j].subnet => i = j
      /\ Len(cached_enrs) <= ENR_CACHE_CAPACITY
  BY Zenon DEF SearchInv, Queue, BoundedCache
<1> QED BY Zenon, <1>3, <1>4, <1>5, <1>6 DEF QueryLimits

\* The invariant of the searches.
LEMMA SearchInvariant == Spec => [](SearchInv /\ BudgetInv)
<1>1. SearchInv /\ BudgetInv /\ [Next]_vars => (SearchInv /\ BudgetInv)'
  <2> SUFFICES ASSUME SearchInv, BudgetInv, [Next]_vars PROVE SearchInv' /\ BudgetInv'
    BY Zenon
  <2>1. CASE Next
    BY Zenon, <2>1, SearchStep, BudgetStep
  <2>2. CASE UNCHANGED vars
    BY <2>2, BudgetStep DEF vars, discoveryVars, queryVars, SearchInv
  <2> QED BY <2>1, <2>2
<1> QED BY <1>1, SearchInit, PTL DEF Spec

\* However requests, completions and polls interleave, no more subnet queries
\* run than MAX_CONCURRENT_SUBNET_QUERIES, at most one search for peers does,
\* find_peer_active says when, groups and the cache are bounded, and no subnet
\* is queued twice: for every number of subnets and nodes, and all limits.
THEOREM QueryLimitsCorrect == Spec => []QueryLimits
BY SearchInvariant, SearchLimits, PTL

\* A subnet that is looked for stays queued, running or completed until there
\* is a reason for it to end: poll loses none between the queue, the groups,
\* the results and the retries.
THEOREM QueriesKeptCorrect == Spec => QueriesKept
<1>1. SearchInv /\ BudgetInv /\ [Next]_vars =>
        [\A subnet \in Subnets :
           Sought(subnet) /\ ~Sought(subnet)' =>
             MayEnd(subnet) \/ budget'.restarts # budget.restarts]_queryVars
  <2> SUFFICES ASSUME SearchInv, BudgetInv, Next, NEW subnet \in Subnets,
                      Sought(subnet), ~Sought(subnet)', budget'.restarts = budget.restarts
               PROVE  MayEnd(subnet)
    BY Zenon DEF vars, discoveryVars
  <2>1. SearchInv' /\ (Keeps \/ PollQueries)
    BY Zenon, SearchStep
  <2>2. ~Keeps
    BY Zenon, <2>1, SoughtWhere, SoughtWhereNext DEF Keeps
  <2> QED BY Zenon, <2>1, <2>2, PollKeeps
<1> QED BY <1>1, SearchInvariant, PTL DEF Spec, QueriesKept
=============================================================================
