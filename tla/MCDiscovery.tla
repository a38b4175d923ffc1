------------------------------ MODULE MCDiscovery ------------------------------
(* Small instances of Discovery for TLC. *)
EXTENDS Discovery, TLC

\* Every program has a name of its own.
MCNameOf == [a \in Addrs |-> a]

\* Machines are interchangeable.
MachineSymmetry == Permutations(Machines)
=============================================================================
