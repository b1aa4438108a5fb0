----------------------------- MODULE Discovery -----------------------------
(***************************************************************************)
(* The searches of src/discovery/mod.rs: the queue of subnet queries, the  *)
(* queries running in discv5 (grouped subnet queries, and at most one      *)
(* FindPeers query), their results and retries, and the cache of the       *)
(* records found.                                                          *)
(*                                                                         *)
(* active_queries holds the queries discv5 is still working on, completed  *)
(* those with a result that poll has not taken yet, in the order in which  *)
(* they completed; the code keeps both in one collection of futures.  A    *)
(* time is a number, and a min_ttl of NoTtl is the None of a long-lived    *)
(* search.  satisfied is what the peer database answers: the subnets with  *)
(* target_subnet_peers good peers.                                         *)
(***************************************************************************)
EXTENDS Queues, Functions

CONSTANTS
  Subnets,                       \* the subnets searched for
  Nodes,                         \* the nodes that can be found
  NodeSubnets,                   \* the subnets in each node's record
  MAX_DISCOVERY_RETRY,
  MAX_CONCURRENT_SUBNET_QUERIES,
  MAX_SUBNETS_IN_QUERY,
  ENR_CACHE_CAPACITY

ASSUME DiscoveryAssumption ==
  /\ IsFiniteSet(Nodes)
  /\ NodeSubnets \in [Nodes -> SUBSET Subnets]
  /\ MAX_DISCOVERY_RETRY \in Nat
  /\ MAX_CONCURRENT_SUBNET_QUERIES \in Nat \ {0}
  /\ MAX_SUBNETS_IN_QUERY \in Nat \ {0}
  /\ ENR_CACHE_CAPACITY \in Nat \ {0}

VARIABLES
  queued_queries, active_queries, completed, find_peer_active, cached_enrs,
  satisfied, now

queryVars == <<queued_queries, active_queries, completed, find_peer_active>>
discoveryVars == <<queryVars, cached_enrs, satisfied, now>>

NoTtl == -1

SubnetQuery(subnet, min_ttl, retries) ==
  [subnet |-> subnet, min_ttl |-> min_ttl, retries |-> retries]

expired(query) == query.min_ttl # NoTtl /\ query.min_ttl < now

FindPeers == [type |-> "FindPeers", queries |-> <<>>]
SubnetSearch(queries) == [type |-> "Subnet", queries |-> queries]

\* What a query for these subnets may return.
subnet_predicate(subnets, node) == NodeSubnets[node] \cap subnets # {}

-----------------------------------------------------------------------------
(* The least recently used cache of records.                               *)

CachePut(cache, node) ==
  LET other == Without(cache, {node})
  IN  Append(IF Len(other) < ENR_CACHE_CAPACITY THEN other ELSE Tail(other), node)

CachePutAll(cache, nodes) ==
  LET order == AnOrder(nodes)
      after[i \in 0 .. Len(order)] ==
        IF i = 0 THEN cache ELSE CachePut(after[i - 1], order[i])
  IN  after[Len(order)]

\* remove_cached_enr, and disconnect_peer's part that discv5 does not play.
CachePop(cache, nodes) == Without(cache, nodes)

-----------------------------------------------------------------------------
(* The queue.                                                              *)

\* Mutant: a query that comes back keeps its number of retries.
add_subnet_querySameRetries(queue, subnet, min_ttl, retries) ==
  IF retries > MAX_DISCOVERY_RETRY + 1 \/ \E i \in DOMAIN queue : queue[i].subnet = subnet
  THEN queue
  ELSE Append(queue, SubnetQuery(subnet, min_ttl, 0))

\* One entry for each subnet: a second search moves its min_ttl (None is before
\* every instant) and sets its retries.
add_subnet_query(queue, subnet, min_ttl, retries) ==
  IF retries > MAX_DISCOVERY_RETRY THEN queue
  ELSE IF \E i \in DOMAIN queue : queue[i].subnet = subnet
  THEN [i \in DOMAIN queue |->
          IF queue[i].subnet # subnet THEN queue[i]
          ELSE SubnetQuery(subnet,
                 IF queue[i].min_ttl < min_ttl THEN min_ttl ELSE queue[i].min_ttl,
                 retries)]
  ELSE Append(queue, SubnetQuery(subnet, min_ttl, retries))

\* Mutant: the search for peers counts as a subnet query, and one too many fits.
at_capacityLate(active, find_peer) ==
  active > MAX_CONCURRENT_SUBNET_QUERIES

\* active is the number of queries, running or completed, not yet taken.
at_capacity(active, find_peer) ==
  LET subnet_queries == IF find_peer /\ active > 0 THEN active - 1 ELSE active
  IN  subnet_queries >= MAX_CONCURRENT_SUBNET_QUERIES

\* The query for the subnets of the group that still lack peers, if any does.
start_subnet_query(group) ==
  LET needed == Without(group, {q \in Range(group) : q.subnet \in satisfied})
  IN  IF needed = <<>> THEN <<>> ELSE <<SubnetSearch(needed)>>

\* Mutant: what remains of the queue after the last full group is not started.
NextGroupFullOnly(queue) ==
  IF Len(queue) < MAX_SUBNETS_IN_QUERY THEN <<>>
  ELSE SubSeq(queue, 1, MAX_SUBNETS_IN_QUERY)

\* The entries that are popped together: as many as a query takes, or all.
NextGroup(queue) ==
  IF Len(queue) < MAX_SUBNETS_IN_QUERY THEN queue
  ELSE SubSeq(queue, 1, MAX_SUBNETS_IN_QUERY)

\* What the queue and the running queries are once the groups that fit are
\* started.  Each round takes at least one entry.
process_queue ==
  LET kept == Without(queued_queries, {q \in Range(queued_queries) : expired(q)})
      round(s) ==
        IF s.queue = <<>> \/ at_capacity(Len(s.active) + Len(completed), find_peer_active)
        THEN s
        ELSE [queue |-> SubSeq(s.queue, MAX_SUBNETS_IN_QUERY + 1, Len(s.queue)),
              active |-> s.active \o start_subnet_query(NextGroup(s.queue))]
      after[i \in 0 .. Len(kept)] ==
        IF i = 0 THEN [queue |-> kept, active |-> active_queries]
                 ELSE round(after[i - 1])
  IN  after[Len(kept)]

-----------------------------------------------------------------------------
(* Results.  A result is an error, or the set of the nodes found.          *)

Failure == [ok |-> FALSE, nodes |-> {}]
Found(nodes) == [ok |-> TRUE, nodes |-> nodes]

Requeue(queue, queries) ==
  LET after[i \in 0 .. Len(queries)] ==
        IF i = 0 THEN queue
        ELSE add_subnet_query(after[i - 1], queries[i].subnet, queries[i].min_ttl,
                              queries[i].retries + 1)
  IN  after[Len(queries)]

\* A subnet query that has not failed is queued once more, whatever it found.
process_completed_query(s, query) ==
  [queue |-> IF query.type = "Subnet" /\ query.result.ok
             THEN Requeue(s.queue, query.queries) ELSE s.queue,
   find_peer |-> IF query.type = "FindPeers" THEN FALSE ELSE s.find_peer,
   cache |-> CachePutAll(s.cache, query.result.nodes)]

\* The nodes of a result that reach the peer manager: all of a FindPeers query,
\* and those on one of the subnets of a subnet query.
mapped_results(query) ==
  IF query.type = "FindPeers" THEN query.result.nodes
  ELSE {n \in query.result.nodes :
          \E i \in DOMAIN query.queries : subnet_predicate({query.queries[i].subnet}, n)}

\* How many completed queries one poll takes: up to the first with results.
Taken ==
  LET yielding == {i \in DOMAIN completed : mapped_results(completed[i]) # {}}
  IN  IF yielding = {} THEN Len(completed)
      ELSE CHOOSE i \in yielding : \A j \in yielding : i <= j

Yields == \E i \in DOMAIN completed : mapped_results(completed[i]) # {}

\* poll up to the event stream, which it only reaches when no query yields.
PollQueries ==
  LET started == process_queue
      after[i \in 0 .. Taken] ==
        IF i = 0 THEN [queue |-> started.queue, find_peer |-> find_peer_active,
                       cache |-> cached_enrs]
                 ELSE process_completed_query(after[i - 1], completed[i])
  IN  /\ queued_queries' = after[Taken].queue
      /\ active_queries' = started.active
      /\ completed' = SubSeq(completed, Taken + 1, Len(completed))
      /\ find_peer_active' = after[Taken].find_peer
      /\ cached_enrs' = after[Taken].cache
      /\ UNCHANGED <<satisfied, now>>

-----------------------------------------------------------------------------
(* Calls of the service.                                                   *)

discover_peers ==
  /\ IF find_peer_active THEN UNCHANGED <<find_peer_active, active_queries>>
     ELSE /\ find_peer_active' = TRUE
          /\ active_queries' = Append(active_queries, FindPeers)
  /\ UNCHANGED <<queued_queries, completed, cached_enrs, satisfied, now>>

\* The service's discover_subnet_peers: a subnet with enough peers is not
\* searched for, and the cached records on a subnet that is are dialed and
\* leave the cache.
discover_subnet_peers(subnet, min_ttl) ==
  /\ IF subnet \in satisfied THEN UNCHANGED <<queued_queries, cached_enrs>>
     ELSE /\ queued_queries' = add_subnet_query(queued_queries, subnet, min_ttl, 0)
          /\ cached_enrs' = CachePop(cached_enrs,
                                     {n \in Nodes : subnet_predicate({subnet}, n)})
  /\ UNCHANGED <<active_queries, completed, find_peer_active, satisfied, now>>

add_enr(node) ==
  /\ cached_enrs' = CachePut(cached_enrs, node)
  /\ UNCHANGED <<queryVars, satisfied, now>>

\* disconnect_peer, and a dial that fails, unless it is denied while the peer
\* is connected.
on_dial_failure(node) ==
  /\ cached_enrs' = CachePop(cached_enrs, {node})
  /\ UNCHANGED <<queryVars, satisfied, now>>

\* discv5 completes a query with an error or with nodes that satisfy its
\* predicate.
QueryCompletes(i) ==
  LET query == active_queries[i]
      matching == IF query.type = "FindPeers" THEN Nodes
                  ELSE {n \in Nodes : subnet_predicate(
                          {query.queries[j].subnet : j \in DOMAIN query.queries}, n)}
      Completed(result) == [type |-> query.type, queries |-> query.queries,
                            result |-> result]
  IN  /\ \E result \in {Failure} \cup {Found(nodes) : nodes \in SUBSET matching} :
           completed' = Append(completed, Completed(result))
      /\ active_queries' = SubSeq(active_queries, 1, i - 1)
                             \o SubSeq(active_queries, i + 1, Len(active_queries))
      /\ UNCHANGED <<queued_queries, find_peer_active, cached_enrs, satisfied, now>>

-----------------------------------------------------------------------------
Started == active_queries \o completed

\* A subnet is looked for while it is queued, running or not yet processed.
Sought(subnet) ==
  \/ \E i \in DOMAIN queued_queries : queued_queries[i].subnet = subnet
  \/ \E i \in DOMAIN Started : \E j \in DOMAIN Started[i].queries :
        Started[i].queries[j].subnet = subnet

\* The limits of the searches, over every order of requests, completions and
\* polls: no more subnet queries run than MAX_CONCURRENT_SUBNET_QUERIES, at most
\* one search for peers does and the flag says when, a query has at most
\* MAX_SUBNETS_IN_QUERY subnets, none queued twice, and the cache is bounded.
QueryLimits ==
  /\ Cardinality({i \in DOMAIN Started : Started[i].type = "Subnet"})
       <= MAX_CONCURRENT_SUBNET_QUERIES
  /\ Cardinality({i \in DOMAIN Started : Started[i].type = "FindPeers"})
       = (IF find_peer_active THEN 1 ELSE 0)
  /\ \A i \in DOMAIN Started : Len(Started[i].queries) <= MAX_SUBNETS_IN_QUERY
  /\ \A i, j \in DOMAIN queued_queries :
        queued_queries[i].subnet = queued_queries[j].subnet => i = j
  /\ Len(cached_enrs) <= ENR_CACHE_CAPACITY

\* A reason for which a subnet may stop being looked for at a poll.
MayEnd(subnet) ==
  \/ subnet \in satisfied
  \/ \E i \in DOMAIN queued_queries :
        queued_queries[i].subnet = subnet /\ expired(queued_queries[i])
  \/ \E i \in DOMAIN completed : \E j \in DOMAIN completed[i].queries :
        /\ completed[i].queries[j].subnet = subnet
        /\ \/ ~completed[i].result.ok
           \/ completed[i].queries[j].retries = MAX_DISCOVERY_RETRY
=============================================================================
