------------------------------ MODULE MCListener ------------------------------
(* Small instances of Listener for TLC: two messages on a connection, or one of a
   length that needs both bytes; a length of 0. *)
EXTENDS Listener

MCStreams ==
    <<{Packed(<<1>>) \o Packed(<<0>>), Packed(<<1, 0>>)}, {<<0, 0, 1>>}, {Packed(<<1>>)}>>
=============================================================================
