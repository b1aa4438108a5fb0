-------------------------------- MODULE MCRPC --------------------------------
(***************************************************************************)
(* A small instance of RPC.  Request 1 asks for a stream of chunks, 2 is   *)
(* the goodbye of a shutdown, 3 asks for one response, 4 for nothing.      *)
(***************************************************************************)
EXTENDS RPC

FourRequests == <<"stream", "goodbye", "single", "empty">>

\* Three requests, and none of the peer; a request for nothing before one of the same protocol; a
\* request of the peer beside ours; the peer asks for a stream of chunks, or for nothing, while we
\* shut down; its requests exceed the limits, or it says goodbye; it asks for nothing twice;
\* it reconnects while a request is being answered.
Mixes ==
  {[connections |-> 1, substreams |-> 0, kinds |-> {}, requests |-> {1, 2, 3}],
   [connections |-> 1, substreams |-> 0, kinds |-> {}, requests |-> {1, 4}],
   [connections |-> 1, substreams |-> 1, kinds |-> {"single"}, requests |-> {1, 2}],
   [connections |-> 1, substreams |-> 1, kinds |-> {"stream", "empty"}, requests |-> {2}],
   [connections |-> 1, substreams |-> 2, kinds |-> {"single", "ping", "goodbye"}, requests |-> {}],
   [connections |-> 1, substreams |-> 2, kinds |-> {"empty"}, requests |-> {}],
   [connections |-> 2, substreams |-> 1, kinds |-> {"single"}, requests |-> {}]}
=============================================================================
