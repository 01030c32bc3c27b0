----------------------------- MODULE MCRegistry -----------------------------
(* Small instances of Registry for TLC. *)
EXTENDS Registry, TLC

CONSTANTS n1, n2, self, sp1, sp2, m1, m2

MCPeers == {n1, n2}
MCOnePeer == {n1}
MCNodes == MCPeers \cup {self}
MCOneNodes == MCOnePeer \cup {self}
MCSPs == {sp1, sp2}
MCOneSP == {sp1}
MCMetas == {m1, m2}

(* Peers and providers are interchangeable; Self and Metas are not         *)
(* (Self is distinguished and InitMeta is a CHOOSE over Metas).            *)
MCSymmetry == Permutations(MCPeers) \cup Permutations(MCSPs)
=============================================================================
