------------------------------ MODULE MCClient ------------------------------
(* Small instances of Client for TLC. *)
EXTENDS Client

CONSTANTS Hosts,      \* machines
          SendPorts   \* ports clients connect from

MCFromAddrs == [ip : Hosts, port : SendPorts]
=============================================================================
