# eth2_libp2p in TLA+

Specifications, TLC models and TLAPS proofs for the networking crate: which peers it connects to,
bans and forgets; how requests and responses pass its limiters, its connection handlers and its
codec; and what the node says about itself in its record, its metadata and its topics, across
forks and restarts.

## The system

The crate is one libp2p swarm with several behaviours, driven by a single task, and one task per
connection. Handlers do not run in parallel; what makes the code hard is that each of them sees
only a callback or a timer and the state left behind by the others, in an order nobody chooses.

| Part | Source (`src/src/`) | State | Operations | Module |
|---|---|---|---|---|
| Peer database | `peer_manager/peerdb.rs`, `peerdb/peer_info.rs` | connection status, score, trust and addresses of each peer; counters of disconnected and banned peers, in total and per IP address | connect, dial, disconnect, report, gossipsub scores, decay, trust, required peers | `PeerDB` |
| Scores | `peerdb/score.rs` | a number per peer, read as Healthy, ForcedDisconnect or Banned | report, decay, gossipsub | abstracted in `PeerDB` |
| Peer manager | `peer_manager/mod.rs`, `network_behaviour.rs` | event queue, stack of dials, temporary bans, trusted ENRs | swarm callbacks, poll, discovery results, reports, heartbeat | `PeerManager`; pings and metadata in `Network` |
| Swarm (libp2p) | external, limits in `service/mod.rs` | connections, dials in flight | establish, close, fail | `PeerManager`, `RPC` |
| Rate limiter | `rpc/rate_limiter.rs` | theoretical arrival time per peer and protocol | allows, prune | `RateLimiter` |
| Self-limiter | `rpc/self_limiter.rs`, `rpc/mod.rs` | delayed and ready requests, timers, active requests | send, complete, disconnect, poll | `SelfLimiter` |
| RPC behaviour, response limiter | `rpc/mod.rs`, `rpc/response_limiter.rs` | active inbound requests, delayed responses, timers, events | receive, respond, disconnect, poll | `RPC` |
| RPC handler | `rpc/handler.rs`, `rpc/outbound.rs` | substreams, timers, dial queue, shutdown state | negotiate, send, read, time out, shut down | `RPCHandler` |
| Codec, protocols, methods | `rpc/codec.rs`, `rpc/protocol.rs`, `rpc/methods.rs` | read buffer, decoder state | negotiate, encode, decode | `Codec` |
| Fork context | `types/fork_context.rs` | forks of the chain, the current one | next fork, digests | `ForkContext` |
| Discovery | `discovery/mod.rs`, `discovery/subnet_predicate.rs` | queued and active queries, cached ENRs | queue, group, start, finish, retry | `Discovery` |
| Record and metadata | `discovery/mod.rs`, `discovery/enr.rs`, `service/utils.rs`, `service/mod.rs` | copies in discv5, the globals, files and the RPC behaviour | build, load, compare, update, save | `LocalRecord` |
| Topics, messages, gossip cache | `types/topics.rs`, `types/pubsub.rs`, `types/globals.rs`, `service/gossip_cache.rs`, `service/mod.rs` | subscriptions, unsent messages, expiry timers | subscribe, publish, decode, retry, expire | `Gossip` |
| Network service | `service/mod.rs` | fork digest, the parts above | start, fork transition, dispatch of events | `Network` |
| Configuration, metrics, scoring parameters, utilities | the rest | none that changes concurrently | | not modelled |

Interactions: the swarm calls the peer manager; the peer manager updates the database and emits
events that the network service turns into calls of discovery (`Banned`, `UnBanned`), of the RPC
behaviour (`DisconnectPeer`, pings, metadata requests) and messages to the application
(`PeerConnected`, `PeerDisconnected`); discovery returns peers to dial; the RPC behaviour and the
handlers of connections exchange requests, responses and errors; the application reports, trusts
and says goodbye to peers, answers requests, publishes, and takes the service from one fork to the
next.

## Modules

| Module | Role |
|---|---|
| `PeerDB` | the database: one action per call, `update_connection_state` split by its new state |
| `PeerManager` | EXTENDS `PeerDB`: the peer manager, the swarm, and what discovery and the application know |
| `LeakyBucket` | abstract specification of rate limiting |
| `RateLimiter` | the limiter with its saturating arithmetic, and the mapping to `LeakyBucket` |
| `SelfLimiter` | outbound requests: the self-limiter inside the RPC behaviour, with handlers and the swarm as environment |
| `RPCHandler` | the handler of one connection, as operators on its state |
| `RPC` | EXTENDS `RPCHandler`: the behaviour and the response limiter around it, with the swarm, the peer and the application |
| `ForkContext` | the forks of a chain configuration and their digests |
| `Codec` | EXTENDS `ForkContext`: one substream on the wire |
| `Discovery` | the searches and the cache of records |
| `LocalRecord` | the node's record and metadata and their copies |
| `Gossip` | EXTENDS `LocalRecord`, `ForkContext`: topics, subscriptions, messages, the cache |
| `Network` | EXTENDS `Discovery`, `Gossip`: the service that composes them, restarts and the metadata exchange |
| `Queues` | operators on the queues of the code (what `retain` leaves, how often an element occurs) |
| `PeerManagerProofs` (with the database), `RateLimiterProofs`, `SelfLimiterProofs`, `RPCProofs`, `DiscoveryProofs`, `NetworkProofs` | theorems |
| `RPCHandlerProofs` | lemmas on the methods of the handler, for `RPCProofs` |
| `QueueTheorems` | lemmas on queues, and induction over the naturals, for the theorems |
| `MCPeerDB`, `MCPeerManager`, `MCRateLimiter`, `MCSelfLimiter`, `MCRPC`, `MCCodec`, `MCNetwork` | constants for TLC |

`PROJECT.json` maps each definition to the lines it models.

### PeerDB

`status[p]` is the `PeerConnectionStatus`, with `"None"` for a peer that has no entry in the map;
`score`, `trusted` and `seen` are the fields of `PeerInfo` that influence transitions. Scores are
reduced to their `ScoreState`: a report never improves it, decay never worsens it, gossipsub may
do either, and a trusted peer is not scored. The `since` instants of disconnected and banned peers
are used only to find the oldest, so they are the order `older`. Peers stamped by the same
call are left unordered, so any of them may be dropped first. `RemovedWhile` are the statuses in
which the application removes a trusted peer: any in the code, fewer where a property needs it.

`inject_disconnect` includes `shrink_to_fit`, and `heartbeat` is the whole of what
`PeerManager::heartbeat` does to the database: time out dials, decay and unban, prune.
The two loops of `shrink_to_fit` are the choice of the `n` oldest peers, with the reset of the
counters that the code performs when it runs out of banned peers.

### PeerManager

`conn[p]` is `none`, `open`, or `closing` (the handler was told to shut down); `dials[p]` counts
dials in flight. Handlers are actions, the event queue is polled from the front before a dial is
popped from the stack, and a dial that the swarm refuses at once (`refused`) is reported before
anything else happens. `known` and `discv5_banned` are what the application and discovery have
been told by polled events. Which excess peers `prune_excess_peers` selects is any choice of
untrusted connected peers up to the excess. The limits are exact percentages of `TargetPeers`; the
`f32` arithmetic of the code can round up one further at some targets. The per-direction limits of
the swarm are left out: the total limit is modelled.

### RateLimiter

Time is an integer, `tat_per_key[k] = -1` stands for a missing key, and `U64_MAX` is the integer
width. `last` and `granted` record what was decided, for the properties. `LeakyBucket` fills a
bucket by the cost of each accepted request, drains one unit per tick and rejects what would
overflow; the level of a bucket is how far `tat` lies ahead of now.

### SelfLimiter

A key is a pair of a peer and a protocol. `active_requests[k]`, `delayed_requests[k]` and the
number of timers `next_peer_request[k]` are the fields of `SelfRateLimiter`, `ready_requests` its
stack, and `events` the requests in the queue of the RPC behaviour. `poll` handles at most one
timer, moves at most one ready request to the queue and returns one event, which may be another one
queued earlier. `send_request` is `allows`. Requests of the application are checked for a
connection first, pings and metadata requests (`Internal`) are not. The rate limiter may refuse any
request; `RateLimiter` says when it does.

`handler[r]` is where a request is in its connection handler, and `fate[r]` what became of it for
the application: `open`, `reported`, `cut` (its connection closed while a handler worked on it) or
`undelivered` (sent to a peer without a connection). A handler may report a request more than once:
an error is followed by an end of stream when the substream closes, and a substream negotiated after
the handler was deactivated reports an error first. Each report completes a request in the limiter.
The requests of this module ask for at least one response; one that asks for none is never ended by
the handler (see below) and would keep its place among the active requests until the disconnection.

### RPCHandler and RPC

The handler is a record `h`, and each of its methods an operator from the record before the call to
the one after it. `poll` is split by what it finds first: an event to return (`PollEventsOut`), the
shutdown timer (`PollShutdownTimeout`), the timer of an outbound substream
(`PollOutboundExpired`), or else the work on the substreams (`PollSubstreams`), in any order, with
any timers of inbound substreams expired and any answer of the transport for each. `wire` is what
the peer has been sent. A request is its kind (a stream of chunks, a single response, a ping, a
goodbye, and `empty`: one of a stream protocol that asks for nothing, such as a range of no blocks)
and a response its place in the sequence, an error or the end. `max_responses` of an empty request is
0 as it is for a goodbye: the handler registers neither on negotiation, in either direction.

In `RPC` the behaviour keeps `active_inbound_requests` and the limiter's `delayed_responses` and
`next_response` timers; `PollEvents` delivers the event at the front of the behaviour's queue to the
handler of the connection it names. `answers` and `results` are what the application has given and
has been told. The peer may open, reset and stall substreams, reconnect and exceed every limit. The
rate limiter may answer Ok or TooSoon.

### ForkContext and Codec

A digest is what it is computed from: the phase and, from Fulu on, the blob parameters. `Codec` has a
requester and a responder under one chain configuration, each of which may reach the next fork on its
own. Bytes are counted: a message is a sequence of segments (response code, context bytes, length
prefix, body), of which the decoder sees a growing number of bytes. A value is its type, the form of
its fork and its length; the length limits are those of the code. Of a chunk that is too large only
the response code goes out, since `encode` puts it into the buffer before it looks at the length, and
the substream is closed behind it. Protocol versions are negotiated in the order of
`supported_protocols`.

### Discovery, LocalRecord, Gossip and Network

`Discovery` has the queue of subnet queries, the grouped queries that run in discv5, their results and
retries (`PollQueries` is the whole of `poll` up to the event stream), `find_peer_active` and the
least-recently-used cache. discv5 is external: a query ends with any of the nodes it may find, or
fails. `satisfied` is what the peer database answers about a subnet.

`LocalRecord` keeps the record as a function of its keys, three times, and the metadata twice plus
the sequence number in the RPC behaviour. An operation on them is several statements: it changes
discv5's record, which discv5 serves from then on, and then copies the record to the globals and the
file, in an order that differs from operation to operation, and after them come the metadata, its
file, or the service's fork digest. The first statement is the action of the operation; the others wait
in `writes` and are a step each (`ExecuteNext`), so that discv5's task, which changes the record when
peers report another address, and a crash can come between any two of them. Only the service's task
writes the globals and the files, so a statement that reads the record and stores it is one step.
The other copies follow a change of discv5's own when its event is polled, one event per round of
`poll`'s loop (`next_event`); the globals then get the record that was saved, which need not be
discv5's any more.

`Gossip` has a topic as a kind and a digest and a message as its kind, form and length. `FormAt` is
the form a kind has in a phase, `ReadForm` the form `PubsubMessage::decode` reads; they are written
independently of each other. A kind whose form is the same in every fork is read under any digest,
as the code does not look at it. `expirations` counts the timers of each cached message. gossipsub is
external: one peer's subscriptions, what was published, and errors at any time.

`Network` is the service: the calls of the application, the steps of a fork transition with other
calls between them, a crash and restart at any moment, in the middle of an operation too (`Restart`:
the files survive, the memory does not), and the exchange of pings and metadata with one peer. While
an operation on the record is under way (`Ready` is false) the service's task does nothing else; discv5,
the peers and the clock go on. `seen` (every record served) and `lost` (those a crash found unsaved:
served under a higher number than the file's while an operation or an event of discv5 was
pending) are for the properties.

## Runs

| Run | Instance | Shows |
|---|---|---|
| `PeerDBCounters` | 3 peers, 1 trustable, limits 1, one address; symmetry of the untrusted peers | the counters equal what they count; a connected peer has no banned score; a pending ban survives until the disconnection; at most `MAX_BANNED_PEERS` after every disconnection |
| `PeerManagerTwoPeers` | 2 peers, target 1 | the application hears of every connection; bans reach discovery in the right order; a disconnection always has something that will end it |
| `PeerManagerOnePeer` | 1 peer, everything enabled, limits 0 | the counters err on the safe side only; a connected peer has a connection; refinement of `PeerDB`; disconnections complete |
| `PeerManagerDisconnection` | 1 peer | **violated**: the application can miss a disconnection |
| `RateLimiter` | 1 peer, 2 protocols, requests of 0, 2 and 9 tokens, width 12, 6 ticks | bound on every interval; the waiting time is exact; refinement of `LeakyBucket` |
| `SelfLimiter` | 1 peer, 3 requests of one protocol and a ping, at most 2 concurrent | delayed requests have a timer; no request is lost or in two places; active counts do not leak; every request leaves the queues |
| `SelfLimiterPending` | the same, without inbound errors | **violated**: a ready request can be lost in a disconnection |
| `SelfLimiterConcurrency` | the same | **violated**: three requests await a response |
| `RPC` | 4 requests of ours, up to 2 of the peer, 2 connections, in seven mixes | timers belong to substreams and delayed responses to timers; what the peer reads answers what it asked, in order; the concurrency limit counts unanswered requests of this connection; no response after the end; every request that asks for something ends; a shutdown closes the connection |
| `Codec` | 3 chain configurations, all protocols and forks, 2 chunks | chunks are read as they were written, in any portions; honest chunks are accepted; the decoder never stalls; the request is read as asked, in the newest common version |
| `Network` | every phase and a blob fork, 3 subnets, 2 nodes, in five occupations | limits on queries; copies agree between operations; a sequence number names one record, but for those a crash found unsaved; topics follow the fork; messages are read as published, and each cached one has one timer; a search is not lost, and ends; the peer learns the metadata |
| `NetworkPeerSubnets` | the same | **violated**: a subnet is forgotten of a peer that follows a fork |

Bounds. Limits of 0 and 1 make `shrink_to_fit` drop peers in almost every behaviour; three peers are
the fewest for which one is dropped while another is kept and a third moves. Two peers and a target of
1 make the limits, the temporary bans and the pruning take effect. `MaxEvents`, `MaxToDial` and
`MaxDials` bound what the environment adds to the queues; callbacks that end connections and dials are
not bounded, so nothing is cut off half-way. One dial in flight next to an inbound connection is
enough for the late failure of the dial of a connected peer. The `RateLimiter` instance has a protocol
whose token time does not divide its period, a request larger than any bucket and a cost that
saturates. `SelfLimiter` uses the code's limit of 2: three requests are the fewest that reach it, and
two released by one timer the fewest that leave one on the ready stack. Its state space is finite
without further bounds, with any number of reconnections.

`RPC` and `Network` choose a budget in the initial state and spend it on the calls of a behaviour. The
*mixes* of `RPC` (`MCRPC`) are: three of our requests and none of the peer's; an empty request of ours
beside a stream of the same protocol; one of each side's; a stream of chunks or an empty request of the
peer during a shutdown; more requests than the limits allow, or a goodbye; two empty requests of the
peer; a reconnection while a request is answered. The *occupations* of `Network` (`MCNetwork`) are searches, changes of the
record, the metadata exchange, topics across two forks, and messages across one fork from each phase,
the three with files also with restarts. Changes of the record come in these combinations: a change
by the service, one of discv5's and one of a subnet, with a restart; each two of these three, with a
restart under another configuration; two changes of discv5's around one of the service; and two
changes of subnets with two restarts, the fewest with which a number that a crash had lost is given
out again and then once more. Within a mix or an occupation every interleaving is explored; what is
not explored is, say, a search in the middle of a fork, which change no variable in common. In `Codec` a
body is two compressed bytes, enough for a read to end before, inside and behind it, and two chunks
are the fewest with state left over from the one before. The
responder writes its chunks before they are read, since the decoder depends on the bytes alone.

Deadlock is checked for the peer manager. The other instances may come to an end: when time, the budget
or the requests are used up, when a substream is closed, or in the database alone, which takes no step
by itself.

Fairness (`FairSpec`).
- `PeerManager`: the swarm polls the peer manager as long as it has events, each dial ends, a refused
  dial is reported, and a connection that is shut down closes. The first three are the contract of
  libp2p; the last is `ShutdownCloses` of `RPC`. Nothing is assumed of the application, of
  discovery or of remote peers.
- `SelfLimiter`: the behaviour is polled, handlers end each request (`RequestEnds` of `RPC`), and the
  timer of a queue finds its first request admitted when the number of active requests permits, which is
  `WaitSuffices` of `RateLimiter`: no request of the key overtakes the queue.
- `RPC`: the handler and the behaviour are polled while they have something to do, the handler's timers
  run out, negotiations end, and a connection that is to be closed is closed. The peer, the
  transport and the application may stall for ever.
- `Network`: an operation goes on to its end, discovery is polled (the heartbeat of the peer manager wakes the swarm), discv5's queries
  end by their timeouts, pings are sent at their interval, and on a connection that stays up requests and
  responses arrive. Nothing obliges the application to make a call.

In `RPC` and `Network` weak fairness is written out as `[]<>` of the action or of the negation of its
guard, which TLC checks faster than `WF_`.

## Disagreements between code and documentation

1. *A missed `PeerDisconnected`.* `on_dial_failure` leaves connected peers alone, not those being
   disconnected. A dial is in flight, the peer connects, is reported, and the dial then fails: the
   database marks the peer disconnected while its connection is open, and the close is not announced
   (`PeerManagerDisconnection`).
2. *Lost requests.* A disconnection clears the delayed requests and those in the event queue, with an
   error for the application, as the comment in `on_swarm_event` wants; those on the ready stack stay,
   and are sent to nobody (`SelfLimiterPending`).
3. *Too many concurrent requests.* An inbound error completes an outbound request of the same protocol,
   so the limit on concurrent requests can be exceeded (`SelfLimiterConcurrency`).
4. *Forgotten subnets.* A peer that follows a fork joins the subnet's topic of the new digest and then
   leaves that of the old one; the second event removes the subnet from the peer's record
   (`NetworkPeerSubnets`).

Met while modelling, without a run of their own:

- Database. IP bans count multiaddresses: `add_banned_peer` adds one per seen address
  (`peerdb.rs:1423`), its documentation counts peers. Temporary bans do not refuse inbound connections
  (`network_behaviour.rs:187`), as the comment on `temporary_banned_peers` says they do. With more than
  `MAX_DC_PEERS` trusted disconnected peers `disconnected_peers` falls below what it counts. Removing a
  trusted peer that is banned leaves the count of banned peers one too high until the reset in
  `shrink_to_fit`; removing one whose ban is pending forgets the ban. A banned peer that becomes
  trusted is not dialed.
- RPC. A request that asks for nothing (`max_responses` 0: a range of no blocks, a list of no roots) is
  dropped by `on_fully_negotiated_outbound` without a timer or an event: the application never hears of
  its end, and the self-limiter counts it as active until the peer disconnects. `RequestEnds` exempts
  it, as it does a goodbye. On the other side the substream is dropped as well, while
  `active_inbound_requests` counts the request until the application answers it. A ping that is sent
  just after its peer disconnected stays counted as active during the next connection, which
  `ActiveNotLeaked` exempts. `active_inbound_requests` keeps a goodbye, and any request the application
  ignores, until the process ends. The error of a chunk of a stream is followed by an end of stream. The counter of
  dial retries belongs to the handler and is shared by all its requests. The timeout of an inbound substream
  with nothing to send leaves the substream open, and an outbound substream that is negotiated after the
  deactivation is registered all the same, where the comments read otherwise. A shutdown that is still
  queued when the peer reconnects reaches the new connection.
- Codec. From Capella on, the limits of light client objects leave 32 bytes above the length of the
  Altair form, so that the objects are refused. Their context bytes come from the signature slot,
  and the form from the attested header. A full Fulu column exceeds the limits that apply once Gloas is
  current. The protocols of version 1 carry blocks of Phase0 only.
  `LightClientUpdatesByRange` has limits of 0 and is never offered.
- Discovery and records. `update_enr_quic_port` compares the new IPv6 port with the IPv4 one
  as well. A query that cannot start because the record has no `eth2` field would leave `find_peer_active` set.
  A failed grouped query is not retried, and a queued search without a deadline takes that of a
  later request. discv5 serves a changed record before the file has it: a crash in between, in the middle of an operation
  or before the next poll after a change of discv5's own, makes the next process use its
  sequence number for another record (`lost`). Metadata upgraded from version 2 to 3 keeps its number, and after a restart the custody group
  count of the metadata comes from the file while that of the record comes from the configuration.
- Gossip. The whitelist omits `ExecutionPayloadBid`, which `ForkTopics` exempts. Messages are published
  under the digest of the record whatever their fork. Kinds that change between
  `subscribe_new_fork_topics` and `update_fork_version` change for the old digest only, which `ForkTopics`
  exempts as well (`windowed`).

## Proofs

All theorems hold for every value of the constants that satisfies the named assumptions of the modules: every
finite set of peers, addresses, requests and nodes, every limit, quota, budget and chain configuration. The
assumptions ask that constants have their types, that limits which are positive in the code are positive, and that
no fork of a chain configuration lies beyond `FAR_FUTURE_EPOCH` and its blob schedule before it.

- **Database.** `TypeCorrect` is inductive as it stands. `CountersOneSidedCorrect` is inductive
  together with the types: each transition moves the counter and the set it bounds together, or only
  on the safe side. The work is in lemmas on cardinalities of `With(..)` and `AddrsOn(..)` when
  one peer or a set of peers changes state, and in `shrink_to_fit`, where the number of peers
  dropped has to be matched with the excess. `CountersExactCorrect` needs more: `Countable` (no
  trusted peer is removed while it is banned, scoring is on, and at most `MAX_DC_PEERS` peers can be
  trusted) and, in the inductive invariant `ExactInv`, that only trustable peers are trusted. Then there is
  always an untrusted disconnected peer to drop and the counter does not drift.
  `BannedPeersBoundedCorrect` follows from the one-sided counters; `ConnectedNotBannedCorrect` is
  inductive with the types. `PendingBanKeptCorrect`, an action property, needs the types only, and that no
  trusted peer is removed while its ban is pending: the code forgets such a ban (see above).
- **Peer manager.** `ImplementsDB`: every action is a step of `DBNext` or leaves the database
  unchanged. Hence the theorems on the database hold of the peer manager
  (`ManagerCounters`, `ManagerConnectedNotBanned`). The properties that tie the queue of events to the swarm,
  the application and discovery rest on `PMInv`, which has three parts for each peer. `Told`: a connection is known
  to the application, or a `PeerConnected` that no `PeerDisconnected` follows is queued. `Attached`: a peer has the
  connections and dials its status implies, which for the connected ones is `ConnectedHasConnectionCorrect`; it has to
  speak of peers being dialed too, since a failing dial ends a disconnection. `BanKept`: a
  ban is known to discovery, or queued with no `UnBanned` behind it. The queue is treated as the function it
  computes when it is drained (`InAfter`), with a lemma for each way the code changes it: append, remove the event at
  the front, `retain`, and append events of a set of peers in any order, as a heartbeat does.
  `DisconnectionInProgressCorrect` has the hypothesis `Reliable` (dial errors carry the peer id, and trusted peers
  are removed only while they have a connection or a dial), without which TLC has a counterexample.
- **Rate limiter.** `WindowBound` is not inductive: a grant is paid for by the arrival time, which it
  does not mention. `Accounted` does: for each instant, the tokens granted since then
  are covered by the distance between the instant and the arrival time. From it follow
  `WindowBoundCorrect` and, with the bound `tat <= now + tau`, that saturation never occurs
  where it would matter. `WaitSufficesCorrect` and `ImplementsBuckets` use that bound.
- **Self-limiter.** `LimiterInvariant`: the counts stay within `MAX_CONCURRENT_REQUESTS` and every queue
  has a timer (`DelayedRequestsHaveTimer`), for all requests, keys and peers. `QueueHasTimer` is inductive
  with the types of the three limiter variables it reads; the argument is one lemma per operation of the limiter.
  `RequestAccountedCorrect` counts how often a request is in each queue. To be inductive (`AccountInv`) it also has
  to say that a request is delayed under its own key only, and that a handler that is merely closing a
  stream has reported the request unless the end of the stream is what reports it. `ActiveNotLeakedCorrect` needs
  `Covered`: the active requests of a key are at most those that will still complete one, which is stronger than
  the property, as a disconnection takes requests out of the queues and clears the count at the same time.
- **RPC.** `TimersInBooksCorrect` and `LimitCountsUnansweredCorrect` share the invariant `RPCInv`. The books of the handler
  (`Books`: a timer belongs to a substream, an outbound substream has a timer) are kept by each method of
  `RPCHandler`, the folds over expired and driven substreams included. `LimitCountsUnanswered` compares what the behaviour
  counts with what the application owes. A substream id is used again on the next connection and a request waits in the
  handler before the behaviour hears of it, so the invariant adds that the events of the handler hold a request once
  (`Distinct`), that a waiting request is not yet known (`QueueInv`), and that the requests
  known are of ids the handler has given out, marked as disconnected exactly when their connection is
  over (`OfConnection`).
  `NoResponseAfterEndCorrect`, an action property, is about the requests to the peer. It needs `RequestInv`, which places each
  request: in the behaviour's queue of events, in the handler's dial queue, being negotiated, or on a substream, and in one of them
  only. Of a request that has no substream yet the application has heard nothing, and nothing that waits in the handler speaks of
  it; on a substream that may still bring chunks, those told and those it counts (`max_remaining_chunks`) are together within what
  the request allows, and its end has not been told (`Good`). A substream stops counting in the step that queues its end, so what is
  still told of it is not a response (`Open`, `Notified`). Each method of the handler keeps `Good`, the fold over the driven
  substreams included, which stops at the first event; a poll returns at most one event, and `Tells` says what may be told then.
  A connection that ends takes all this with it, but for requests that are still queued in the behaviour.
- **Discovery.** `QueryLimitsCorrect` rests on `SearchInv`, the types of the queues and the limits in the
  form in which the code keeps them. `QueriesKeptCorrect`, an action property, then follows a subnet through
  a poll: out of the queue into a group, from completed groups back into the queue, or out with one of the reasons of
  `MayEnd`. Both go through two loops, `process_queue` and that of `PollQueries`, which are recursive functions in the model;
  what a round keeps (`RoundSound`) is carried through by induction over the number of rounds.
- **Records.** `CopiesAgreeCorrect` and `SeqNamesRecordCorrect` rest on one invariant, `RecordInv`.
  `SeqNamesRecord` says nothing about the record that is served now, nor about the file a restart will build
  on; `Newest` adds that no record served and not lost has a higher number than the one served now, and that this one and the
  one in the file are each alone with their number. A restart then loses what lies between the two (`Unsaved`) and goes on from the file.
  `CopiesAgree` speaks of the time between operations only; `Underway` says of every moment which copies may differ, and that the
  statements still in `writes` are those that will bring them together: a copy that differs from discv5's has its
  statement ahead, or an event of discv5 is queued. `Typed` has the keys of records and metadata and that `writes` is what
  is left of one of the operations (`Plans`). A step of discv5's between two statements is the hard case: what is
  copied afterwards is its record, and its event makes poll store it again. `Renumbers` is what every change
  has in common: the number goes up, or nothing changes. The invariant quantifies over any number of operations, events and
  restarts.
- **Gossip.** `GossipFaithfulCorrect`: the service's digest is always one of the configuration's (`DigestInv`,
  which needs that a transition has a fork to go to, that the digest is about to change only in one, and `RecordInv` for
  restarts), the form in which a
  kind is read is the form it has in the digest's phase (`FormsAgree`), and so whatever is put into the
  cache can be read at any later time (`CacheInv`), whichever fork is current then. The timers are those of the
  entries, one each: an insertion adds one for a new message only (`TimerAdded`), and what leaves the cache takes its own along
  (`TimersRemoved`).
- **Topics.** `ForkTopicsCorrect`: `ForkTopics` speaks of the digest the service publishes with, and the next
  digest takes its place in one step, so `TopicInv` says the same of both digests that matter during a transition
  (`LiveDigests`), from `subscribe_new_fork_topics` on. The steps rest on three facts about the operators: core kinds only grow
  from one phase to the next (`CoreGrows`), no core kind is one that the application chooses
  (`CoreIsNotChosen`), and the whitelist accepts all these kinds under every digest, but `ExecutionPayloadBid` (`ChosenAccepted`,
  `CoreAccepted`, `BidRefused`). The hypothesis `SubnetsFit` names what they need of the configuration:
  `subscribe_all_subnets` is off (with it the attestation and sync subnets are core kinds that the application
  can leave all the same), Electra has no fewer blob subnets than Deneb, and custody counts are within the column subnets
  (`CustodyInv`: so are the subnets sampled). The instance of the run satisfies it.

`QueueTheorems` has the lemmas these proofs share: `Without` keeps the order of what it keeps (`WithoutEmbeds`), how
appending, taking and removing change the number of occurrences, and the induction principle.

Only model-checked: `ResponsesFaithful` of `RPC`, which needs the responses on their way
through four queues in the invariant; and the properties of `Codec`, whose
content lies in the finite tables of protocols, forks and lengths that TLC enumerates. The liveness
properties (`ShutdownCompletes`, `RequestsLeave`, `RequestEnds`, `ShutdownCloses`, `QueriesEnd`, `MetadataConverges`)
have no proof, since liveness under fairness is outside the prover's reach.

## Not modelled

- Score arithmetic and the gossipsub scoring parameters: floating point. The order of the score states is
  what the other parts use.
- The selection of excess peers (`prune_excess_peers`): a long ranking by subnets, custody and scores; the model
  lets it choose any untrusted peers, so what is checked holds for every ranking, and nothing is said of its quality.
- IP addresses inside `Banned` and `UnBanned` events, and the ban list of discv5, which only discv5 reads.
- The time cache (`common/time_cache.rs`): a map with expiry that serves the temporary bans, which expire at
  any heartbeat of the model.
- The bytes of SSZ, Snappy, ENRs and topic names: conversions of external libraries; their lengths,
  types and forks are modelled.
- The start of the swarm, the transport, the key files, UPnP itself, configuration, metrics and utilities: I/O
  and constants.
- Files are written whole: a torn write of the record makes the process start with a new one, under
  number 1. A write that fails is logged by the code and the process goes on; the model's writes succeed.
