-------------------------------- MODULE MCSystem --------------------------------
(* Small instances of System for TLC. *)
EXTENDS System

CONSTANT Hosts   \* machines, with a client each

MCFromAddrs == [ip : Hosts, port : {8100}]
HostSymmetry == Permutations(Hosts)
=============================================================================
