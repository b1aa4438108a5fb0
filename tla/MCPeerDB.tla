------------------------------ MODULE MCPeerDB ------------------------------
(* Small instances of PeerDB for TLC: one multiaddress; the peers other    *)
(* than the trustable one are interchangeable.                             *)
EXTENDS PeerDB, TLC

CONSTANTS p1, p2, p3, ip1

OneAddr == {<<ip1, 1>>}
FirstOf == [a \in Addrs |-> a[1]]

\* A removal makes a ban, or a ban under way, a plain disconnection.
Unbanned == Statuses \ {"Banned", "DisconnectingToBan"}

UntrustedSymmetry == Permutations(Peers \ Trustable)
=============================================================================
