----------------------------- MODULE MCNetConnect -----------------------------
(* Small instances of NetConnect for TLC. *)
EXTENDS NetConnect
=============================================================================
