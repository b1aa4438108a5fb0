---------------------------- MODULE MCPeerManager ----------------------------
(* Small instances of PeerManager for TLC: one address on one IP address.  *)
EXTENDS PeerManager, TLC

CONSTANTS p1, p2, ip1

OneAddr == {<<ip1, 1>>}
FirstOf == [a \in Addrs |-> a[1]]

UntrustedSymmetry == Permutations(Peers \ Trustable)
=============================================================================
