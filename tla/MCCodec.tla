------------------------------ MODULE MCCodec ------------------------------
(***************************************************************************)
(* The codec over three chain configurations: every phase an epoch after   *)
(* the one before it with a blob-parameter fork at the end, a chain that   *)
(* starts in Deneb and has not scheduled Fulu, and one whose blob          *)
(* parameters change twice.                                                *)
(***************************************************************************)
EXTENDS Codec

EveryPhase == [fork_epoch |-> [p \in Phases |-> p], blob_schedule |-> {8}]

FromDeneb ==
  [fork_epoch |-> [p \in Phases |-> CASE p <= Deneb -> 0
                                      [] p = Electra -> 1
                                      [] OTHER -> FAR_FUTURE_EPOCH],
   blob_schedule |-> {}]

TwoBlobForks ==
  [fork_epoch |-> [p \in Phases |-> CASE p <= Electra -> 0
                                      [] p = Fulu -> 1
                                      [] OTHER -> FAR_FUTURE_EPOCH],
   blob_schedule |-> {2, 3}]

ThreeConfigs == {EveryPhase, FromDeneb, TwoBlobForks}
=============================================================================
