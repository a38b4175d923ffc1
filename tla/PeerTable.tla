------------------------------ MODULE PeerTable ------------------------------
(***************************************************************************)
(* The peer table of tmcommon.c (GPeers, GNextPeerHandle), shared by the   *)
(* tracker and the client, as operators on a sequence of peer records.     *)
(* The alias and host name of a peer are display text that travels with    *)
(* toaddr; toaddr stands for all three.                                    *)
(***************************************************************************)
EXTENDS Integers, Sequences, FiniteSetsExt

\* What find_peer_fromaddr returns when no slot has the address.
NoPeer == -1

Peer(From, To) ==
    [hpeer : Nat \ {0}, fromaddr : From, toaddr : To, active : BOOLEAN]

\* A scan from index 0 stops at the least of these.
Slots(tbl, from) == {k \in 1..Len(tbl) : tbl[k].fromaddr = from}

HandleSlots(tbl, h) == {k \in 1..Len(tbl) : tbl[k].hpeer = h}

\* Mutant: the two addresses change places.
PeerNewSwapped(h, from, to) ==
    [hpeer |-> h, fromaddr |-> to, toaddr |-> from, active |-> TRUE]

PeerNew(h, from, to) ==
    [hpeer |-> h, fromaddr |-> from, toaddr |-> to, active |-> TRUE]

\* Mutant: a slot that was destroyed is not revived.
PeerReplaceInactive(peer, to) == [peer EXCEPT !.toaddr = to]

PeerReplace(peer, to) == [peer EXCEPT !.toaddr = to, !.active = TRUE]

\* Mutant: no search for an existing slot.
CreatePeerAppends(tbl, next, from, to) == Append(tbl, PeerNew(next, from, to))

CreatePeer(tbl, next, from, to) ==
    IF Slots(tbl, from) = {}
    THEN Append(tbl, PeerNew(next, from, to))
    ELSE [tbl EXCEPT ![Min(Slots(tbl, from))] = PeerReplace(@, to)]

\* GNextPeerHandle after create_peer: only Peer_new consumes a handle.
HandleAfterCreate(tbl, next, from) ==
    IF Slots(tbl, from) = {} THEN next + 1 ELSE next

\* Finds inactive slots too.
FindPeer(tbl, from) ==
    IF Slots(tbl, from) = {} THEN NoPeer ELSE tbl[Min(Slots(tbl, from))].hpeer

\* Mutant: the ArrayRemove that is commented out.
DestroyPeerRemoves(tbl, h) == SelectSeq(tbl, LAMBDA p : p.hpeer # h)

\* The slot is kept, only its flag is cleared.
DestroyPeer(tbl, h) ==
    IF HandleSlots(tbl, h) = {}
    THEN tbl
    ELSE [tbl EXCEPT ![Min(HandleSlots(tbl, h))].active = FALSE]

Active(tbl) == {k \in 1..Len(tbl) : tbl[k].active}

=============================================================================
