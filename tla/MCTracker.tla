----------------------------- MODULE MCTracker -----------------------------
(* Small instances of Tracker for TLC: two clients on one machine, which may share
   a listening address, and one on another. *)
EXTENDS Tracker

MCFromAddrs ==
    {[ip |-> "h1", port |-> 8100], [ip |-> "h1", port |-> 8101], [ip |-> "h2", port |-> 8100]}
=============================================================================
