------------------------------ MODULE RPCHandler ------------------------------
(***************************************************************************)
(* The connection handler of the RPC protocols (rpc/handler.rs): the       *)
(* substreams of one connection, in which requests of the peer are         *)
(* answered (inbound) and requests to the peer are carried out (outbound). *)
(*                                                                         *)
(* The handler is a record, and an operator named after a method maps the  *)
(* record to the one after the call.  Module RPC holds the record in a     *)
(* variable and runs it against the behaviour, the swarm and the peer.     *)
(*                                                                         *)
(* Abstractions.  A request is its kind: what matters of it is how many    *)
(* responses it may have and whether its protocol has a terminator.  A     *)
(* success response is the number of the chunk in its response, 1, 2, ...  *)
(* Errors are not told apart.  An inbound substream is Idle when sending   *)
(* is None, and Busy otherwise.  The swarm keeps the requests that are     *)
(* being negotiated, and their number is dial_negotiated.  Outbound        *)
(* substreams are named after their request.  The field wire is not part   *)
(* of the handler: it is what the peer has been sent on each inbound       *)
(* substream.                                                              *)
(***************************************************************************)
EXTENDS Queues, FiniteSetsExt

CONSTANTS
  MaxSubstreams,                  \* bound: inbound substreams of a connection
  OutRequests, KindOf,            \* requests to the peer, numbers, and their kinds
  MaxResponses,                   \* responses to a request of kind "stream"
  MAX_INBOUND_SUBSTREAMS,
  max_dial_negotiated,
  IO_ERROR_RETRIES

\* Protocol.  "stream": by range or by root.  "goodbye": no response.  "ping" and "single": one
\* response; the behaviour itself answers a ping.
Protocols == {"stream", "single", "ping", "goodbye"}

\* Requests.  "empty" is one of a stream protocol that asks for nothing: a range of no blocks, a
\* list of no roots, a range of no columns.
Kinds == Protocols \cup {"empty"}
protocol(kind) == IF kind = "empty" THEN "stream" ELSE kind

ASSUME HandlerAssumption ==
  /\ IsFiniteSet(OutRequests)
  /\ KindOf \in [OutRequests -> Kinds]
  /\ {MaxSubstreams, MaxResponses, MAX_INBOUND_SUBSTREAMS, max_dial_negotiated, IO_ERROR_RETRIES}
       \subseteq Nat \ {0}

\* Option::None
None == [none |-> TRUE]

\* Responses that are no chunk: RpcResponse::Error and RpcResponse::StreamTermination
ERROR == 0
END == -1

\* SubstreamId of an inbound substream
Substreams == 0 .. MaxSubstreams - 1

max_responses(kind) == CASE kind = "stream" -> MaxResponses
                         [] kind \in {"empty", "goodbye"} -> 0
                         [] OTHER -> 1
HasTerminator(kind) == protocol(kind) = "stream"

\* RpcResponse::close_after
close_after(response) == response \in {ERROR, END}

Event(type, of) == [type |-> type, of |-> of]

new == [state |-> "Active",
        events_out |-> <<>>,
        dial_queue |-> <<>>,
        dialing |-> {},                                 \* dial_negotiated of them
        outbound_io_error_retries |-> 0,
        inbound_substreams |-> [s \in Substreams |-> None],
        inbound_substreams_delay |-> {},
        current_inbound_substream_id |-> 0,
        outbound_substreams |-> [r \in OutRequests |-> None],
        outbound_substreams_delay |-> {},
        wire |-> [s \in Substreams |-> <<>>]]

\* Op is applied to each element of seq in turn.
Each(Op(_, _), base, seq) ==
  LET f[i \in 0 .. Len(seq)] == IF i = 0 THEN base ELSE Op(f[i - 1], seq[i]) IN f[Len(seq)]

\* The events that tell the application of a request to the peer
ForApplication == {"Response", "EndOfStream", "OutboundErr"}

Push(h, e) == [h EXCEPT !.events_out = Append(@, e)]
Inbound(h) == {s \in Substreams : h.inbound_substreams[s] # None}
Outbound(h) == {r \in OutRequests : h.outbound_substreams[r] # None}

-----------------------------------------------------------------------------
(* Commands of the behaviour *)

\* Mutant: what is queued for dialing is forgotten, not reported
shutdownSilent(h, goodbye) ==
  IF h.state = "Active"
    THEN [h EXCEPT !.dial_queue = goodbye, !.state = "ShuttingDown"]
    ELSE h

\* goodbye is <<>> or the goodbye request to queue.  The queue is emptied from its end.
shutdown(h, goodbye) ==
  IF h.state = "Active"
    THEN [h EXCEPT
            !.events_out = @ \o [i \in DOMAIN h.dial_queue |->
                                   Event("OutboundErr", h.dial_queue[Len(h.dial_queue) + 1 - i])],
            !.dial_queue = goodbye,
            !.state = "ShuttingDown"]
    ELSE h

send_request(h, r) ==
  IF h.state = "Active"
    THEN [h EXCEPT !.dial_queue = Append(@, r)]
    ELSE Push(h, Event("OutboundErr", r))

\* A response for a substream that is gone fails silently.
send_response(h, s, response) ==
  LET reported == IF response.item = ERROR THEN Push(h, Event("InboundErr", s)) ELSE h
  IN IF s \notin Inbound(h) THEN h
     ELSE IF h.state = "Deactivated" THEN reported
     ELSE [reported EXCEPT !.inbound_substreams[s].pending_items = Append(@, response)]

-----------------------------------------------------------------------------
(* poll: inbound substreams *)

ClosesLast(items) == items # <<>> /\ close_after(items[Len(items)].item)

\* The timer of the inbound substream s expires.  Only a stream with a response still to send is
\* given an error to end it.
ExpireInbound(h, s) ==
  LET items == h.inbound_substreams[s].pending_items
  IN [Push(h, Event("InboundErr", s)) EXCEPT
        !.inbound_substreams_delay = @ \ {s},
        !.inbound_substreams[s].pending_items =
          IF items = <<>> \/ ClosesLast(items) THEN items
          ELSE Append(items, [items[Len(items)] EXCEPT !.item = ERROR])]

\* The timers of xs, in the order in which they expire
PurgeInbound(h, xs) == Each(ExpireInbound, h, xs)

\* Mutant: the timer outlives the substream
RemoveInboundNotTimer(h, s) == [h EXCEPT !.inbound_substreams[s] = None]

RemoveInbound(h, s) ==
  [h EXCEPT !.inbound_substreams[s] = None, !.inbound_substreams_delay = @ \ {s}]

\* The first pending item is handed to send_message_to_inbound_substream, with last_chunk.
StartSending(h, s) ==
  LET info == h.inbound_substreams[s]
  IN [h EXCEPT !.inbound_substreams[s].pending_items = Tail(@),
               !.inbound_substreams[s].sending =
                 [message |-> Head(info.pending_items),
                  last_chunk |-> info.max_remaining_chunks <= 1]]

\* send_message_to_inbound_substream closes the substream
substream_was_closed(sending) == close_after(sending.message.item) \/ sending.last_chunk

\* The message that was being sent is sent.  The next one, if any, is started.
MessageSent(h, s) ==
  LET info == h.inbound_substreams[s]
      sent == [h EXCEPT !.wire[s] = Append(@, info.sending.message)]
      idle == [sent EXCEPT !.inbound_substreams[s].sending = None,
                           !.inbound_substreams[s].max_remaining_chunks = IF @ > 0 THEN @ - 1 ELSE 0]
  IN IF substream_was_closed(info.sending) THEN RemoveInbound(sent, s)
     ELSE IF h.state # "Deactivated" /\ info.pending_items # <<>> THEN StartSending(idle, s)
     ELSE idle

\* Deactivated, nothing being sent: the substream is closed, with or without an error.
CloseInbound(h, s, failed) ==
  LET items == h.inbound_substreams[s].pending_items
      errors == (IF failed THEN <<Event("InboundErr", s)>> ELSE <<>>)
                \o (IF items # <<>> /\ ~ ClosesLast(items) THEN <<Event("InboundErr", s)>> ELSE <<>>)
  IN [RemoveInbound(h, s) EXCEPT !.events_out = @ \o errors]

\* One substream, when what the transport says of it is io.  At most one message is completed in
\* a poll: a second one that completes at once is the work of the next poll.
DriveInbound(h, s, io) ==
  LET info == h.inbound_substreams[s]
      begun == IF info.sending = None /\ info.pending_items # <<>> THEN StartSending(h, s) ELSE h
  IN IF info.sending = None /\ h.state = "Deactivated"
       THEN IF io = "pending" THEN h ELSE CloseInbound(h, s, io = "error")
     ELSE IF begun.inbound_substreams[s].sending = None \/ io = "pending" THEN begun
     ELSE IF io = "error" THEN Push(RemoveInbound(begun, s), Event("InboundErr", s))
     ELSE MessageSent(begun, s)

DriveInbounds(h, ss, io) == Each(LAMBDA g, s : DriveInbound(g, s, io[s]), h, ss)

-----------------------------------------------------------------------------
(* poll: outbound substreams *)

RemoveOutbound(h, r) ==
  [h EXCEPT !.outbound_substreams[r] = None, !.outbound_substreams_delay = @ \ {r}]

\* What poll returns: the handler, and the event or None
Return(h, event) == [h |-> h, event |-> event]

\* expect_exactly_one_response, of a request that is waiting for one
expect_exactly_one_response(r) == ~ HasTerminator(KindOf[r])

\* Mutant: chunks are accepted as long as they come
ChunksLeftAlways(info) == 1

\* The chunks expected after one more
ChunksLeft(info) == info.max_remaining_chunks - 1

\* A response arrives on the substream of r.
Received(h, r, isError) ==
  LET info == h.outbound_substreams[r]
      left == ChunksLeft(info)
      last == expect_exactly_one_response(r) \/ isError \/ left <= 0
  IN Return([h EXCEPT !.outbound_substreams[r].state = IF last THEN "Closing" ELSE @,
                      !.outbound_substreams[r].max_remaining_chunks = IF last THEN @ ELSE left],
            Event(IF isError THEN "OutboundErr" ELSE "Response", r))

\* One substream, when what the transport says of it is io: a response ("chunk" or "error"), the
\* end of the stream ("eof"), an error ("failed"); a stream that is being closed has been closed
\* when io is "eof" or "failed".
DriveOutbound(h, r, io) ==
  LET info == h.outbound_substreams[r]
      removed == RemoveOutbound(h, r)
  IN IF info.state = "Closing"
       THEN IF io \notin {"eof", "failed"} THEN Return(h, None)
            ELSE Return(removed, IF HasTerminator(KindOf[r]) THEN Event("EndOfStream", r) ELSE None)
     ELSE IF h.state = "Deactivated"
       THEN Return([Push(h, Event("OutboundErr", r)) EXCEPT !.outbound_substreams[r].state = "Closing"],
                   None)
     ELSE IF io = "pending" THEN Return(h, None)
     ELSE IF io = "eof" /\ ~ expect_exactly_one_response(r) THEN Return(removed, Event("EndOfStream", r))
     ELSE IF io \in {"eof", "failed"} THEN Return(removed, Event("OutboundErr", r))
     ELSE Received(h, r, io = "error")

\* The first outbound substream with something to report ends the poll.
DriveOutbounds(h, rs, io) ==
  Each(LAMBDA p, r : IF p.event # None THEN p ELSE DriveOutbound(p.h, r, io[r]), Return(h, None), rs)

\* establish outbound substreams
CanDial(h) == h.dial_queue # <<>> /\ Cardinality(h.dialing) < max_dial_negotiated
Dial(h) == [h EXCEPT !.dial_queue = Tail(@), !.dialing = @ \cup {Head(h.dial_queue)}]

\* Nothing is left to do before the connection is closed.
Completed(h) ==
  /\ h.state = "ShuttingDown" /\ h.dial_queue = <<>> /\ h.dialing = {}
  /\ Outbound(h) = {} /\ Inbound(h) = {} /\ h.events_out = <<>>

\* Mutant: the behaviour is not asked to close the connection
DeactivateSilent(h) == Return([h EXCEPT !.state = "Deactivated"], None)

Deactivate(h) == Return([h EXCEPT !.state = "Deactivated"], Event("Close", 0))

\* poll, when no event is waiting and the shutdown timer has not run out.  expired are the
\* inbound timers that have, in order; inIo and outIo what the transport says of the substreams;
\* ins and outs the order in which they are driven.
PollStreams(h, expired, ins, inIo, outs, outIo) ==
  LET purged == PurgeInbound(h, expired)
      driven == DriveInbounds(purged, ins, inIo)
      p == DriveOutbounds(driven, outs, outIo)
  IN IF p.event # None THEN p
     ELSE IF CanDial(p.h) THEN Return(Dial(p.h), None)
     ELSE IF Completed(p.h) THEN Deactivate(p.h)
     ELSE p

\* poll, when the timer of the outbound substream r has run out
PollOutboundTimeout(h, expired, r) ==
  Return(RemoveOutbound(PurgeInbound(h, expired), r), Event("OutboundErr", r))

-----------------------------------------------------------------------------
(* Events of the connection *)

\* A request of the peer has been read.  oversized: a range that exceeds the limits.
on_fully_negotiated_inbound(h, kind, oversized) ==
  LET s == h.current_inbound_substream_id
      rejected == shutdown(Push(h, Event("InboundErr", s)), <<>>)
      stored == IF max_responses(kind) = 0 THEN h
                ELSE [h EXCEPT !.inbound_substreams[s] = [sending |-> None,
                                                          pending_items |-> <<>>,
                                                          max_remaining_chunks |-> max_responses(kind)],
                               !.inbound_substreams_delay = @ \cup {s}]
      closing == IF kind = "goodbye" THEN shutdown(stored, <<>>) ELSE stored
  IN IF h.state # "Active" THEN h
     ELSE IF oversized THEN rejected
     ELSE IF max_responses(kind) > 0 /\ Cardinality(Inbound(h)) >= MAX_INBOUND_SUBSTREAMS THEN rejected
     ELSE [Push(closing, [type |-> "Request", of |-> s, kind |-> kind]) EXCEPT
             !.current_inbound_substream_id = @ + 1]

\* A deactivated handler reports an error, and keeps the substream all the same.
on_fully_negotiated_outbound(h, r) ==
  LET reported == IF h.state = "Deactivated" THEN Push(h, Event("OutboundErr", r)) ELSE h
      negotiated == [reported EXCEPT !.dialing = @ \ {r}, !.outbound_io_error_retries = 0]
  IN IF max_responses(KindOf[r]) = 0 THEN negotiated
     ELSE [negotiated EXCEPT
             !.outbound_substreams[r] = [state |-> "Pending",
                                         max_remaining_chunks |-> max_responses(KindOf[r])],
             !.outbound_substreams_delay = @ \cup {r}]

\* ioError: an error of the transport, which is retried.  The counter is that of the handler,
\* not of the request.
on_dial_upgrade_error(h, r, ioError) ==
  LET failed == [h EXCEPT !.dialing = @ \ {r}]
      retries == h.outbound_io_error_retries + 1
  IN IF ioError /\ retries < IO_ERROR_RETRIES
       THEN send_request([failed EXCEPT !.outbound_io_error_retries = retries], r)
       ELSE Push([failed EXCEPT !.outbound_io_error_retries = 0], Event("OutboundErr", r))
=============================================================================
