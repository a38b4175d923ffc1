------------------------------- MODULE PeerRace -------------------------------
(***************************************************************************)
(* The peer table of a client (GPeers, tmcommon.c) between two threads     *)
(* without a lock: the listener appends to it, moves it to a new block when *)
(* it is full, and rewrites its slots, while the main thread searches it    *)
(* and keeps a pointer into it for a while.  A step reads or writes one     *)
(* field, or one slot that nobody else writes.  Each thread sees the writes *)
(* of the other in their order; arenas free nothing, so that a block that   *)
(* was left stays what it was.                                              *)
(***************************************************************************)
EXTENDS Naturals, SequencesExt

CONSTANTS FromAddrs, ToAddrs,
          InitCap,   \* the capacity the table starts with: 64
          MaxMsgs,   \* bound: notices of the tracker
          MaxSends   \* bound: texts the user sends

ASSUME PeerRaceAssumption == InitCap \in Nat \ {0} /\ MaxMsgs \in Nat /\ MaxSends \in Nat

VARIABLES
    blocks,            \* the memory GPeers has had: a sequence of slots per block
    items, len, cap,   \* the fields of GPeers; items is the block
    lpc,               \* the listener: "idle", "move", "switch", "grow", "write", "count", "toaddr", "active", "queue"
    lpeer,             \* the peer create_peer is called with, or returns the handle of
    lslot,             \* the slot it has come to
    idle,              \* the callbacks that wait in the queue of g_idle_add
    gpc,               \* the main thread: "gtk", "check", "item", "compare", "use", "missing"
    job,               \* what it looks a peer up for
    gslot, gblock,     \* its index, and the block its pointer points into
    got,               \* history: the address get_peer_data read last, and of whom
    given,             \* history: the addresses the notices gave, in order
    msgs, sends

tableVars == <<blocks, items, len, cap>>
listenerVars == <<lpc, lpeer, lslot>>
mainVars == <<gpc, job, gslot, gblock, got>>
vars == <<tableVars, listenerVars, idle, mainVars, given, msgs, sends>>

NoPeer == [hpeer |-> 0, fromaddr |-> "none", toaddr |-> "none", active |-> FALSE]
NoJob == [fn |-> "none", hpeer |-> 0]

NewBlock(n) == [k \in 1..n |-> NoPeer]

Init ==
    /\ blocks = <<NewBlock(InitCap)>> /\ items = 1 /\ len = 0 /\ cap = InitCap
    /\ lpc = "idle" /\ lpeer = NoPeer /\ lslot = 0 /\ idle = <<>>
    /\ gpc = "gtk" /\ job = NoJob /\ gslot = 0 /\ gblock = 0 /\ got = NoPeer
    /\ given = [a \in FromAddrs |-> <<>>] /\ msgs = 0 /\ sends = 0

Slot(k) == blocks[items][k]

\* Mutant: the address is not compared.
SlotOfAny(a) == 1..len

\* Handles are given out in the order of the slots, by the listener alone.
SlotOf(a) == {k \in 1..len : Slot(k).fromaddr = a}

----------------------------------------------------------------------------
(* The listener: handle_msg *)

Takes == lpc = "idle" /\ msgs < MaxMsgs /\ msgs' = msgs + 1

\* create_peer, as far as its search, which nobody disturbs
TakeOnline(a, to) ==
    /\ Takes
    /\ given' = [given EXCEPT ![a] = Append(@, to)]
    /\ IF SlotOf(a) # {}
       THEN /\ lslot' = Min(SlotOf(a)) /\ lpc' = "toaddr"
            /\ lpeer' = [Slot(lslot') EXCEPT !.toaddr = to]
       ELSE /\ lpc' = IF len = cap THEN "move" ELSE "write"
            /\ lslot' = len + 1
            /\ lpeer' = [hpeer |-> len + 1, fromaddr |-> a, toaddr |-> to, active |-> TRUE]
    /\ UNCHANGED <<tableVars, idle, mainVars, sends>>

\* find_peer_fromaddr, and the callback that calls destroy_peer
TakeOffline(a) ==
    /\ Takes /\ len > 0
    /\ idle' = IF SlotOf(a) = {} THEN idle
               ELSE Append(idle, [fn |-> "IDLE_peer_offline", hpeer |-> Slot(Min(SlotOf(a))).hpeer])
    /\ UNCHANGED <<tableVars, listenerVars, mainVars, given, sends>>

Goes(from, to) == lpc = from /\ lpc' = to

listenerOnly == <<idle, mainVars, given, msgs, sends>>

\* Peer_replace writes through its pointer.
ReplaceToaddr ==
    /\ Goes("toaddr", "active")
    /\ blocks' = [blocks EXCEPT ![items][lslot].toaddr = lpeer.toaddr]
    /\ UNCHANGED <<items, len, cap, lpeer, lslot, listenerOnly>>

ReplaceActive ==
    /\ Goes("active", "queue")
    /\ blocks' = [blocks EXCEPT ![items][lslot].active = TRUE]
    /\ UNCHANGED <<items, len, cap, lpeer, lslot, listenerOnly>>

\* ArenaRealloc: a block of twice the size, and the copy of what was there, slot by slot
MoveBegins ==
    /\ Goes("move", "switch") /\ lslot' = 0
    /\ blocks' = Append(blocks, NewBlock(2 * cap))
    /\ UNCHANGED <<items, len, cap, lpeer, listenerOnly>>

MoveSlot ==
    /\ lpc = "switch" /\ lslot < cap /\ lslot' = lslot + 1
    /\ blocks' = [blocks EXCEPT ![Len(blocks)][lslot'] = Slot(lslot')]
    /\ UNCHANGED <<items, len, cap, lpc, lpeer, listenerOnly>>

\* Mutant: the items change before they are copied.
MoveIsDoneAtOnce == lpc = "switch"

MoveIsDone == lpc = "switch" /\ lslot = cap

Switch ==
    /\ MoveIsDone
    /\ lpc' = "grow" /\ items' = Len(blocks)
    /\ UNCHANGED <<blocks, len, cap, lpeer, lslot, listenerOnly>>

Grow ==
    /\ Goes("grow", "write") /\ cap' = 2 * cap /\ lslot' = len + 1
    /\ UNCHANGED <<blocks, items, len, lpeer, listenerOnly>>

\* Mutant: the slot is counted, and left for the next append to write.
WriteItemNowhere == UNCHANGED blocks

WriteItem == blocks' = [blocks EXCEPT ![items][lslot] = lpeer]

Write ==
    /\ Goes("write", "count") /\ WriteItem
    /\ UNCHANGED <<items, len, cap, lpeer, lslot, listenerOnly>>

Count ==
    /\ Goes("count", "queue") /\ len' = len + 1
    /\ UNCHANGED <<blocks, items, cap, lpeer, lslot, listenerOnly>>

Queue ==
    /\ Goes("queue", "idle")
    /\ idle' = Append(idle, [fn |-> "IDLE_peer_online", hpeer |-> lpeer.hpeer])
    /\ lpeer' = NoPeer /\ lslot' = 0
    /\ UNCHANGED <<tableVars, mainVars, given, msgs, sends>>

Listener ==
    \/ \E a \in FromAddrs : TakeOffline(a) \/ \E to \in ToAddrs : TakeOnline(a, to)
    \/ ReplaceToaddr \/ ReplaceActive
    \/ MoveBegins \/ MoveSlot \/ Switch \/ Grow \/ Write \/ Count \/ Queue

----------------------------------------------------------------------------
(* The main thread: get_peer_data and destroy_peer *)

mainOnly == <<blocks, items, len, cap, listenerVars, given, msgs>>

RunIdle ==
    /\ gpc = "gtk" /\ idle # <<>>
    /\ job' = Head(idle) /\ idle' = Tail(idle)
    /\ gpc' = "check" /\ gslot' = 1
    /\ UNCHANGED <<mainOnly, gblock, got, sends>>

\* CB_chatwin_send, to a peer that is or was in the list
Send(h) ==
    /\ gpc = "gtk" /\ sends < MaxSends /\ sends' = sends + 1
    /\ got.hpeer >= h
    /\ job' = [fn |-> "CB_chatwin_send", hpeer |-> h]
    /\ gpc' = "check" /\ gslot' = 1
    /\ UNCHANGED <<mainOnly, idle, gblock, got>>

\* i < GPeers.len
Check ==
    /\ gpc = "check"
    /\ gpc' = IF gslot <= len THEN "item" ELSE "missing"
    /\ UNCHANGED <<mainOnly, idle, job, gslot, gblock, got, sends>>

\* ArrayItem: the pointer stays on this block.
Item ==
    /\ gpc = "item" /\ gpc' = "compare" /\ gblock' = items
    /\ UNCHANGED <<mainOnly, idle, job, gslot, got, sends>>

Compare ==
    /\ gpc = "compare"
    /\ IF blocks[gblock][gslot].hpeer = job.hpeer
       THEN gpc' = "use" /\ UNCHANGED gslot
       ELSE gpc' = "check" /\ gslot' = gslot + 1
    /\ UNCHANGED <<mainOnly, idle, job, gblock, got, sends>>

Back == gpc' = "gtk" /\ job' = NoJob /\ gslot' = 0 /\ gblock' = 0

\* get_peer_data; a callback of PEER_OFFLINE goes on to destroy_peer, which searches again.
UseData ==
    /\ gpc = "use" /\ job.fn # "destroy_peer"
    /\ got' = blocks[gblock][gslot]
    /\ IF job.fn = "IDLE_peer_offline"
       THEN job' = [job EXCEPT !.fn = "destroy_peer"] /\ gpc' = "check" /\ gslot' = 1 /\ gblock' = 0
       ELSE Back
    /\ UNCHANGED <<mainOnly, idle, sends>>

Destroy ==
    /\ gpc = "use" /\ job.fn = "destroy_peer"
    /\ blocks' = [blocks EXCEPT ![gblock][gslot].active = FALSE]
    /\ Back
    /\ UNCHANGED <<items, len, cap, listenerVars, idle, given, msgs, got, sends>>

Main ==
    \/ RunIdle \/ Check \/ Item \/ Compare \/ UseData \/ Destroy
    \/ \E h \in 1..len : Send(h)

Next == Listener \/ Main

Spec == Init /\ [][Next]_vars

----------------------------------------------------------------------------
(* Properties *)

\* The callbacks of notices assert that get_peer_data finds their peer: it does, while the
\* listener moves the table and adds to it.
PeerIsFound == gpc # "missing"

\* What get_peer_data reads is the slot of the peer it was asked for, never a part of
\* another one, with an address that some notice gave for it: perhaps an older one.
DataIsOfThePeer ==
    got # NoPeer =>
        /\ got.hpeer = Min({k \in 1..len : Slot(k).fromaddr = got.fromaddr})
        /\ got.toaddr \in ToSet(given[got.fromaddr])

\* Between two messages the table says of each peer what its last notice said, however
\* often it moved; only what destroy_peer writes can be lost with an old block.
AddressesAreLatest ==
    lpc = "idle" =>
        /\ \A k \in 1..len : Slot(k).hpeer = k /\ Slot(k).toaddr = Last(given[Slot(k).fromaddr])
        /\ \A a \in FromAddrs : given[a] # <<>> <=> SlotOf(a) # {}
=============================================================================
