--------------------------- MODULE MCTrackerLoop ---------------------------
(* Small instances of TrackerLoop for TLC. *)
EXTENDS TrackerLoop

CONSTANTS Hosts,      \* machines
          SendPorts   \* ports clients connect from

MCFromAddrs == [ip : Hosts, port : SendPorts]

\* Clients on different machines are interchangeable.
HostSymmetry == Permutations(Hosts)
=============================================================================
