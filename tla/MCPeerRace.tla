------------------------------ MODULE MCPeerRace ------------------------------
(* Small instances of PeerRace for TLC. *)
EXTENDS PeerRace, TLC

MCSymmetry == Permutations(FromAddrs) \cup Permutations(ToAddrs)
=============================================================================
