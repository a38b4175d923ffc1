--------------------------- MODULE TrackerHandler ---------------------------
(***************************************************************************)
(* handle_msg of the tracker (tmtracker.c), one step per destination it    *)
(* writes to: each is a blocking connect(), during which clients and the   *)
(* network move on.  How a notice is transported is left to the modules    *)
(* that extend this one.                                                   *)
(***************************************************************************)
EXTENDS PeerTable, Messages

VARIABLES
    peers,       \* GPeers
    nextHandle,  \* GNextPeerHandle
    pc,          \* "idle" outside handle_msg, else the loop of handle_msg it is in
    cur,         \* the message handle_msg was called with
    i,           \* the index of that loop over the peers
    told         \* history: the notices this call has tried to send

handlerVars == <<peers, nextHandle, pc, cur, i, told>>

HandlerInit ==
    /\ peers = <<>>
    /\ nextHandle = 1
    /\ pc = "idle"
    /\ cur = NoMsg
    /\ i = 1
    /\ told = {}

\* A new process: the peer table is in memory only.
HandlerReset ==
    /\ peers' = <<>>
    /\ nextHandle' = 1
    /\ pc' = "idle"
    /\ cur' = NoMsg
    /\ i' = 1
    /\ told' = {}

Call(m) == pc = "idle" /\ cur' = m /\ i' = 1 /\ UNCHANGED <<nextHandle, told>>

CallKnock(m) == Call(m) /\ pc' = "announce" /\ UNCHANGED peers

\* destroy_peer, then print_peers, which asserts that the table was allocated:
\* create_peer allocates it, with the first peer.
CallBye(m) ==
    /\ Call(m)
    /\ LET h == FindPeer(peers, m.from)
       IN peers' = IF h # NoPeer THEN DestroyPeer(peers, h) ELSE peers
    /\ pc' = IF peers' = <<>> THEN "aborted" ELSE "farewell"

HandleMsg(m) == (m \in Knock /\ CallKnock(m)) \/ (m \in Bye /\ CallBye(m))

InLoop == pc \in {"announce", "introduce", "farewell"}

\* What the loop sends in the round of peers[i]: the newcomer to the peer, the
\* peer to the newcomer, the leaver to the peer.
Due ==
    CASE pc = "announce"  -> PeerOnline(peers[i].toaddr, cur.from, ListenAddr(cur))
      [] pc = "introduce" -> PeerOnline(ListenAddr(cur), peers[i].fromaddr, peers[i].toaddr)
      [] pc = "farewell"  -> PeerOffline(peers[i].toaddr, cur.from)

\* Mutant: the round of an inactive peer does not advance the loop.
SkipInactiveStays == InLoop /\ i <= Len(peers) /\ ~peers[i].active /\ UNCHANGED handlerVars

SkipInactive ==
    /\ InLoop
    /\ i <= Len(peers) /\ ~peers[i].active
    /\ i' = i + 1
    /\ UNCHANGED <<peers, nextHandle, pc, cur, told>>

TrySend ==
    /\ InLoop
    /\ i <= Len(peers) /\ peers[i].active
    /\ i' = i + 1
    /\ told' = told \cup {Due}
    /\ UNCHANGED <<peers, nextHandle, pc, cur>>

\* Mutant: the loop leaves out the last peer.
LoopDoneEarly == i >= Len(peers) /\ i' = 1

LoopDone == i > Len(peers) /\ i' = 1

AnnounceDone ==
    /\ pc = "announce"
    /\ LoopDone
    /\ pc' = "introduce"
    /\ UNCHANGED <<peers, nextHandle, cur, told>>

Return == pc' = "idle" /\ cur' = NoMsg /\ told' = {}

IntroduceDone ==
    /\ pc = "introduce"
    /\ LoopDone
    /\ peers' = CreatePeer(peers, nextHandle, cur.from, ListenAddr(cur))
    /\ nextHandle' = HandleAfterCreate(peers, nextHandle, cur.from)
    /\ Return

FarewellDone ==
    /\ pc = "farewell"
    /\ LoopDone
    /\ UNCHANGED <<peers, nextHandle>>
    /\ Return

HandlerTypeOK ==
    /\ peers \in Seq(Peer(FromAddrs, ToAddrs))
    /\ nextHandle \in Nat \ {0}
    /\ pc \in {"idle", "announce", "introduce", "farewell", "aborted"}
    /\ cur \in ClientMsg \cup {NoMsg}
    /\ i \in Nat \ {0}
    /\ told \subseteq Notice

\* One slot per client address, and handles name slots for good: the k-th slot
\* to be added has handle k, whatever the history of KNOCKs and BYEs
\* (create_peer, destroy_peer, GNextPeerHandle).
OneSlotPerPeer ==
    /\ nextHandle = Len(peers) + 1
    /\ \A k \in 1..Len(peers) : peers[k].hpeer = k
    /\ \A j, k \in 1..Len(peers) : peers[j].fromaddr = peers[k].fromaddr => j = k

\* The notices a KNOCK calls for: the newcomer to every active peer, every
\* active peer to the newcomer; and a BYE: the leaver to everybody else.
KnockNotices(m) ==
    {PeerOnline(peers[k].toaddr, m.from, ListenAddr(m)) : k \in Active(peers)}
      \cup {PeerOnline(ListenAddr(m), peers[k].fromaddr, peers[k].toaddr) : k \in Active(peers)}

ByeNotices(m) ==
    {PeerOffline(peers[k].toaddr, m.from) :
        k \in {j \in Active(peers) : peers[j].fromaddr # m.from}}
=============================================================================
