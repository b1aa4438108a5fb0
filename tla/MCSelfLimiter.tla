---------------------------- MODULE MCSelfLimiter ----------------------------
(***************************************************************************)
(* Small instances of SelfLimiter: one peer and two protocols.  Three      *)
(* requests compete on the one whose responses have many chunks; r4 is a   *)
(* ping of the peer manager.                                               *)
(***************************************************************************)
EXTENDS SelfLimiter

CONSTANTS r1, r2, r3, r4, ping, blocks, p1

TwoKeys == [r \in Requests |-> IF r = r4 THEN ping ELSE blocks]
OnePeer == [k \in Keys |-> p1]
=============================================================================
