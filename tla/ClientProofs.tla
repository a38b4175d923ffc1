---------------------------- MODULE ClientProofs ----------------------------
(***************************************************************************)
(* Proofs about the client, for any sets of addresses, ports and sources   *)
(* of messages and any number of messages and texts: the handles that are  *)
(* handed between its two threads stay good, the list of peers follows the *)
(* notices of the tracker, and no text that arrived is lost on the way to  *)
(* the window of the peer it came from.                                    *)
(***************************************************************************)
EXTENDS Client, FiniteSetTheorems, SequenceTheorems, WellFoundedInduction, TLAPS

Windows == [hpeer : Nat \ {0}, enabled : BOOLEAN, visible : BOOLEAN, texts : Seq(ChatTexts)]

\* The places of GChatTexts.
Places == 1..(MaxMsgs + MaxSends)

TableType == Seq(Peer(FromAddrs, ToAddrs))

\* What create_peer alone makes of the table.
TableOK(tbl, next) ==
    /\ tbl \in TableType
    /\ next = Len(tbl) + 1
    /\ \A k \in 1..Len(tbl) : tbl[k].hpeer = k
    /\ \A j, k \in 1..Len(tbl) : tbl[j].fromaddr = tbl[k].fromaddr => j = k

\* An append that a thread has begun and not counted yet.
ListenerOwes == IF lpc \in {"store", "load", "bump"} THEN 1 ELSE 0
MainOwes == IF gpc \in {"sending", "load", "bump"} THEN 1 ELSE 0

\* However the appends of the two threads overlap, len is at most the number of
\* messages and texts, so that no append is past the last place.
CountsOK ==
    /\ msgs \in 0..MaxMsgs /\ sent \in 0..MaxSends
    /\ chatLen \in Nat /\ llen \in Nat /\ glen \in Nat
    /\ chatLen + ListenerOwes + MainOwes <= msgs + sent
    /\ lpc = "bump" => llen + ListenerOwes + MainOwes <= msgs + sent
    /\ gpc = "bump" => glen + ListenerOwes + MainOwes <= msgs + sent
    /\ lpc = "queue" => chatLen > 0

TextsOK ==
    /\ items \in [Places -> ChatTexts]
    /\ received \in Seq(ChatTexts) /\ gtext \in ChatTexts
    /\ lpc = "store" => received # <<>>

ListenerOK ==
    /\ lpc \in {"start", "select", "announce", "store", "load", "bump", "queue",
                "ended", "aborted"}
    /\ lhpeer \in {NoPeer} \cup 1..Len(peers)
    /\ lpc \in {"announce", "store", "load", "bump", "queue"} => lhpeer # NoPeer

\* While CB_chatwin_send runs, its window stays.
MainOK ==
    /\ gpc \in {"start", "gtk", "sending", "load", "bump", "unblock", "bye", "join",
                "done", "exited", "aborted"}
    /\ ghpeer \in {NoPeer} \cup 1..Len(peers)
    /\ gpc \in {"sending", "load", "bump"} => WinOf(ghpeer) # {}
    /\ pipe \in {"none", "open", "written"} /\ stdinWritable \in BOOLEAN

\* A callback comes with the handle of a slot and, for a text, the place of one.
IdleOK ==
    /\ idle \in Seq(Callbacks)
    /\ \A k \in 1..Len(idle) :
          /\ idle[k].hpeer \in 1..Len(peers)
          /\ idle[k].fn = "IDLE_open_chatwin" => idle[k].ct \in Places

RowsOK == rows \in Seq(1..Len(peers))

WinsOK ==
    /\ wins \in Seq(Windows)
    /\ \A w \in 1..Len(wins) : wins[w].hpeer \in 1..Len(peers)

HandlesInv ==
    /\ TableOK(peers, nextHandle)
    /\ CountsOK
    /\ TextsOK
    /\ ListenerOK
    /\ MainOK
    /\ IdleOK
    /\ RowsOK
    /\ WinsOK

----------------------------------------------------------------------------
(* What the list of peers relies on besides *)

\* The callbacks for notices about h, and the last of them.
NoticesFor(h) == {j \in 1..Len(idle) : idle[j].hpeer = h /\ idle[j].fn # "IDLE_open_chatwin"}
IsLast(j, h) == j \in NoticesFor(h) /\ \A i \in NoticesFor(h) : i <= j

Announced(h) == lpc = "announce" /\ lhpeer = h

HeardOnline(h) == heard[peers[h].fromaddr] = "online"

HeardOK == heard \in [FromAddrs -> {"nothing", "online", "offline"}]

RowsOnce == \A j, k \in 1..Len(rows) : rows[j] = rows[k] => j = k

\* What a peer will be once its callbacks have run is what was heard of it.
LastCounts(h) ==
    /\ Announced(h) => HeardOnline(h)
    /\ ~Announced(h) => \A j \in 1..Len(idle) :
          IsLast(j, h) => (idle[j].fn = "IDLE_peer_online" <=> HeardOnline(h))
    /\ ~Announced(h) /\ NoticesFor(h) = {} => (RowOf(h) # {} <=> HeardOnline(h))

\* The windows of those on the list can send, waiting callbacks or not.
ListedCanSend == \A w \in 1..Len(wins) : RowOf(wins[w].hpeer) # {} => wins[w].enabled

\* A slot is active only if its row is there or on its way.
ActiveIsListed(h) ==
    peers[h].active => RowOf(h) # {} \/ NoticesFor(h) # {} \/ Announced(h)

ListOK ==
    /\ HeardOK
    /\ RowsOnce
    /\ ListedCanSend
    /\ \A h \in 1..Len(peers) : LastCounts(h) /\ ActiveIsListed(h)

ListInv == HandlesInv /\ ListOK

----------------------------------------------------------------------------
(* The peer table *)

\* A scan finds the only slot there is.
LEMMA MinOfOne ==
    ASSUME NEW S, NEW k \in S, k \in Nat, \A j \in S : j = k
    PROVE  Min(S) = k
<1>1. \E x \in S : \A j \in S : x <= j
  <2>1. \A j \in S : k <= j
    OBVIOUS
  <2> QED BY <2>1
<1>2. Min(S) \in S
  BY <1>1 DEF Min
<1> QED BY <1>2

\* A set of numbers that is not empty has a least one.
LEMMA HasLeast ==
    ASSUME NEW S \in SUBSET Nat, S # {} PROVE \E x \in S : \A y \in S : x <= y
<1> DEFINE R == {ss \in Nat \X Nat : ss[1] < ss[2]}
<1>1. IsWellFoundedOn(R, Nat)
  BY NatLessThanWellFounded DEF OpToRel
<1>2. PICK x \in S : \A y \in S : ~ (<<y, x>> \in R)
  <2> HIDE DEF R
  <2> QED BY <1>1, WFMin, Zenon
<1>3. \A y \in S : x <= y
  <2> TAKE y \in S
  <2>1. x \in Nat /\ y \in Nat /\ ~ (<<y, x>> \in R)
    BY <1>2
  <2> QED BY <2>1
<1> QED BY <1>3

LEMMA LeastOf ==
    ASSUME NEW S \in SUBSET Nat, S # {} PROVE Min(S) \in S
<1>1. \E x \in S : \A y \in S : x <= y
  BY HasLeast
<1> QED BY <1>1 DEF Min

\* create_peer revives the one slot of the address in place, or appends a slot;
\* either way the table stays well formed, and find_peer_fromaddr finds the slot.
LEMMA CreatePeerOK ==
    ASSUME NEW tbl, NEW next, TableOK(tbl, next), NEW from \in FromAddrs, NEW to \in ToAddrs,
           NEW new, new = CreatePeer(tbl, next, from, to)
    PROVE  /\ TableOK(new, HandleAfterCreate(tbl, next, from))
           /\ Len(tbl) <= Len(new)
           /\ \A k \in 1..Len(tbl) : new[k].fromaddr = tbl[k].fromaddr
           /\ FindPeer(new, from) \in 1..Len(new)
           /\ new[FindPeer(new, from)].fromaddr = from
           /\ \A k \in 1..Len(new) : k # FindPeer(new, from) =>
                 /\ k \in 1..Len(tbl) /\ new[k] = tbl[k]
                 /\ new[k].fromaddr # from
<1> USE DEF TableType
<1>0. tbl \in Seq(Peer(FromAddrs, ToAddrs)) /\ Len(tbl) \in Nat /\ next = Len(tbl) + 1
  BY DEF TableOK
<1>1. ASSUME new \in TableType,
             TableOK(new, HandleAfterCreate(tbl, next, from)),
             NEW s \in 1..Len(new), new[s].fromaddr = from
      PROVE  FindPeer(new, from) = s
  <2>1. s \in Slots(new, from) /\ (\A j \in Slots(new, from) : j = s) /\ s \in Nat
    BY <1>1 DEF Slots, TableOK
  <2>2. Min(Slots(new, from)) = s
    BY <2>1, MinOfOne
  <2>3. new[s].hpeer = s
    BY <1>1 DEF TableOK
  <2> QED BY <2>1, <2>2, <2>3 DEF FindPeer
<1>2. CASE Slots(tbl, from) = {}
  <2>1. /\ \A k \in 1..Len(tbl) : tbl[k].fromaddr # from
        /\ new = Append(tbl, PeerNew(next, from, to))
        /\ HandleAfterCreate(tbl, next, from) = next + 1
    BY <1>2 DEF Slots, CreatePeer, HandleAfterCreate
  <2>2. /\ PeerNew(next, from, to) \in Peer(FromAddrs, ToAddrs)
        /\ PeerNew(next, from, to).hpeer = next
        /\ PeerNew(next, from, to).fromaddr = from
    BY <1>0 DEF PeerNew, Peer
  <2>3. /\ new \in TableType
        /\ Len(new) = Len(tbl) + 1
        /\ \A k \in 1..Len(tbl) : new[k] = tbl[k]
        /\ new[Len(tbl) + 1] = PeerNew(next, from, to)
    BY <1>0, <2>1, <2>2
  <2>4. \A k \in 1..Len(new) : k \in 1..Len(tbl) \/ k = Len(tbl) + 1
    BY <1>0, <2>3
  <2>5. TableOK(new, next + 1)
    <3>1. \A k \in 1..Len(new) : new[k].hpeer = k
      BY <1>0, <2>2, <2>3, <2>4 DEF TableOK
    <3>2. \A j, k \in 1..Len(new) : new[j].fromaddr = new[k].fromaddr => j = k
      BY <2>1, <2>2, <2>3, <2>4 DEF TableOK
    <3> QED BY <1>0, <2>3, <3>1, <3>2 DEF TableOK
  <2>6. Len(tbl) + 1 \in 1..Len(new) /\ new[Len(tbl) + 1].fromaddr = from
    BY <1>0, <2>2, <2>3
  <2>7. FindPeer(new, from) = Len(tbl) + 1
    BY <1>1, <2>1, <2>3, <2>5, <2>6
  <2> QED BY <1>0, <2>1, <2>3, <2>4, <2>5, <2>6, <2>7
<1>3. CASE Slots(tbl, from) # {}
  <2>1. PICK s \in 1..Len(tbl) : tbl[s].fromaddr = from
    BY <1>3 DEF Slots
  <2>2. s \in Slots(tbl, from) /\ (\A j \in Slots(tbl, from) : j = s) /\ s \in Nat
    BY <2>1 DEF Slots, TableOK
  <2>3. /\ new = [tbl EXCEPT ![s] = PeerReplace(tbl[s], to)]
        /\ HandleAfterCreate(tbl, next, from) = next
    BY <1>3, <2>2, MinOfOne DEF CreatePeer, HandleAfterCreate
  <2>4. tbl[s] \in Peer(FromAddrs, ToAddrs)
    BY <1>0
  <2>5. /\ PeerReplace(tbl[s], to) \in Peer(FromAddrs, ToAddrs)
        /\ PeerReplace(tbl[s], to).hpeer = tbl[s].hpeer
        /\ PeerReplace(tbl[s], to).fromaddr = tbl[s].fromaddr
    BY <2>4 DEF PeerReplace, Peer
  <2>6. /\ new \in TableType
        /\ Len(new) = Len(tbl)
        /\ \A k \in 1..Len(tbl) : new[k] = IF k = s THEN PeerReplace(tbl[s], to) ELSE tbl[k]
    BY <1>0, <2>3, <2>5
  <2>7. \A k \in 1..Len(tbl) : /\ new[k].hpeer = tbl[k].hpeer
                               /\ new[k].fromaddr = tbl[k].fromaddr
    BY <2>5, <2>6
  <2>8. TableOK(new, next)
    <3>1. \A k \in 1..Len(new) : new[k].hpeer = k
      BY <2>6, <2>7 DEF TableOK
    <3>2. ASSUME NEW j \in 1..Len(tbl), NEW k \in 1..Len(tbl),
                 new[j].fromaddr = new[k].fromaddr
          PROVE  j = k
      <4>1. tbl[j].fromaddr = tbl[k].fromaddr
        BY <2>7, <3>2
      <4> QED BY <4>1 DEF TableOK
    <3> QED BY <1>0, <2>6, <3>1, <3>2 DEF TableOK
  <2>9. FindPeer(new, from) = s
    BY <1>1, <2>1, <2>3, <2>6, <2>7, <2>8
  <2>10. \A k \in 1..Len(new) : new[k].fromaddr = from => k = s
    BY <2>1, <2>6, <2>7, <2>8 DEF TableOK
  <2>11. \A k \in 1..Len(new) : k # s =>
            k \in 1..Len(tbl) /\ new[k] = tbl[k] /\ new[k].fromaddr # from
    BY <2>6, <2>10, Zenon
  <2>12. s \in 1..Len(new) /\ new[s].fromaddr = from /\ Len(tbl) <= Len(new)
    BY <1>0, <2>1, <2>6, <2>7
  <2> HIDE DEF TableType
  <2> QED BY <2>3, <2>7, <2>8, <2>9, <2>11, <2>12, Zenon
<1> QED BY <1>2, <1>3

\* find_peer_fromaddr finds the slot of the address, if there is one.
LEMMA FindPeerOK ==
    ASSUME NEW tbl, NEW next, TableOK(tbl, next), NEW from, FindPeer(tbl, from) # NoPeer
    PROVE  /\ FindPeer(tbl, from) \in 1..Len(tbl)
           /\ tbl[FindPeer(tbl, from)].fromaddr = from
<1>1. PICK s \in 1..Len(tbl) : tbl[s].fromaddr = from
  BY DEF Slots, FindPeer
<1>2. s \in Slots(tbl, from) /\ (\A j \in Slots(tbl, from) : j = s) /\ s \in Nat
  BY <1>1 DEF Slots, TableOK
<1>3. FindPeer(tbl, from) = tbl[s].hpeer
  BY <1>2, MinOfOne DEF FindPeer
<1> QED BY <1>1, <1>3 DEF TableOK

\* Without a slot of the address there is none to be found.
LEMMA FindPeerNone ==
    ASSUME NEW tbl, NEW next, TableOK(tbl, next), NEW from, FindPeer(tbl, from) = NoPeer,
           NEW k \in 1..Len(tbl)
    PROVE  tbl[k].fromaddr # from
<1> SUFFICES ASSUME tbl[k].fromaddr = from PROVE FALSE
  OBVIOUS
<1>1. k \in Slots(tbl, from) /\ (\A j \in Slots(tbl, from) : j = k) /\ k \in Nat
  BY DEF Slots, TableOK
<1>2. FindPeer(tbl, from) = tbl[k].hpeer
  BY <1>1, MinOfOne DEF FindPeer
<1>3. Len(tbl) \in Nat /\ tbl[k].hpeer = k
  BY DEF TableOK, TableType
<1> QED BY <1>2, <1>3 DEF NoPeer

\* A handle is the number of its slot.
LEMMA HandleIsSlot ==
    ASSUME NEW tbl, NEW next, TableOK(tbl, next), NEW h \in 1..Len(tbl)
    PROVE  HandleSlots(tbl, h) # {} /\ Min(HandleSlots(tbl, h)) = h
<1>1. h \in HandleSlots(tbl, h) /\ (\A j \in HandleSlots(tbl, h) : j = h) /\ h \in Nat
  BY DEF HandleSlots, TableOK
<1> QED BY <1>1, MinOfOne

\* destroy_peer clears the flag of its slot and nothing else.
LEMMA DestroyPeerOK ==
    ASSUME NEW tbl, NEW next, TableOK(tbl, next), NEW h \in 1..Len(tbl),
           NEW new, new = DestroyPeer(tbl, h)
    PROVE  /\ TableOK(new, next)
           /\ Len(new) = Len(tbl)
           /\ \A k \in 1..Len(tbl) : new[k].fromaddr = tbl[k].fromaddr
           /\ ~new[h].active
           /\ \A k \in 1..Len(tbl) : k # h => new[k] = tbl[k]
<1> DEFINE p == [tbl[h] EXCEPT !.active = FALSE]
<1>1. tbl \in Seq(Peer(FromAddrs, ToAddrs)) /\ tbl[h] \in Peer(FromAddrs, ToAddrs)
  BY DEF TableOK, TableType
<1>2. new = [tbl EXCEPT ![h] = p]
  BY HandleIsSlot DEF DestroyPeer
<1>3. /\ p \in Peer(FromAddrs, ToAddrs) /\ ~p.active
      /\ p.hpeer = tbl[h].hpeer /\ p.fromaddr = tbl[h].fromaddr
  BY <1>1 DEF Peer
<1> HIDE DEF p
<1>4. /\ new \in Seq(Peer(FromAddrs, ToAddrs)) /\ Len(new) = Len(tbl)
      /\ \A k \in 1..Len(tbl) : new[k] = IF k = h THEN p ELSE tbl[k]
  BY <1>1, <1>2, <1>3, ExceptSeq
<1>5. \A k \in 1..Len(tbl) : new[k].hpeer = tbl[k].hpeer /\ new[k].fromaddr = tbl[k].fromaddr
  BY <1>3, <1>4
<1>6. TableOK(new, next)
  BY <1>4, <1>5 DEF TableOK, TableType
<1> QED BY <1>3, <1>4, <1>5, <1>6

----------------------------------------------------------------------------
(* GChatTexts *)

\* add_chattext shows a text or leaves it out.
LEMMA AddChatTextOK ==
    ASSUME NEW texts \in Seq(ChatTexts), NEW ct \in ChatTexts, NEW p
    PROVE  AddChatText(texts, ct, p) \in Seq(ChatTexts)
BY DEF AddChatText

\* What refresh_msghistory has shown after n items of GChatTexts.
Shows(f, n, p) ==
    f = [k \in 0..n |-> IF k = 0 THEN <<>> ELSE AddChatText(f[k - 1], items[k], p)]

\* Its loop has a result for any number of items.
LEMMA HistoryExists ==
    ASSUME items \in [Places -> ChatTexts], NEW p, NEW n \in 0..(MaxMsgs + MaxSends)
    PROVE  \E f : Shows(f, n, p)
<1> DEFINE Bad == {m \in 0..n : ~ \E f : Shows(f, m, p)}
<1>0. n \in Nat
  BY ClientAssumption
<1>1. SUFFICES ASSUME Bad # {} PROVE FALSE
  BY <1>0
<1>2. PICK m \in Bad : \A j \in Bad : m <= j
  <2>1. Bad \in SUBSET Nat
    BY <1>0
  <2> HIDE DEF Bad
  <2>2. Min(Bad) \in Bad /\ \A j \in Bad : Min(Bad) <= j
    BY <1>1, <2>1, LeastOf DEF Min
  <2> QED BY <2>2
<1>3. m \in 0..n /\ m \in Nat /\ ~ \E f : Shows(f, m, p)
  BY <1>0, <1>2
<1>4. m # 0
  <2> SUFFICES ASSUME m = 0 PROVE FALSE
    OBVIOUS
  <2> DEFINE g == [k \in 0..0 |-> <<>>]
  <2>1. Shows(g, 0, p)
    <3>1. g = [k \in 0..0 |-> IF k = 0 THEN <<>> ELSE AddChatText(g[k - 1], items[k], p)]
      OBVIOUS
    <3> QED BY <3>1 DEF Shows
  <2> QED BY <1>3, <2>1
<1>5. m - 1 \in 0..n /\ m - 1 \in Nat /\ ~(m <= m - 1)
  BY <1>0, <1>3, <1>4
<1>6. PICK f : Shows(f, m - 1, p)
  BY <1>2, <1>5
<1> DEFINE g == [k \in 0..m |-> IF k = m THEN AddChatText(f[m - 1], items[m], p) ELSE f[k]]
<1>7. ASSUME NEW k \in 0..m
      PROVE  g[k] = IF k = 0 THEN <<>> ELSE AddChatText(g[k - 1], items[k], p)
  <2>1. CASE k = m
    <3>1. m - 1 \in 0..m /\ m - 1 # m
      BY <1>3, <1>4
    <3>2. g[m - 1] = f[m - 1]
      BY <3>1
    <3>3. g[k] = AddChatText(f[m - 1], items[m], p)
      BY <2>1
    <3> QED BY <1>4, <2>1, <3>2, <3>3
  <2>2. CASE k = 0
    <3>1. k # m /\ k \in 0..m - 1
      BY <1>3, <1>4, <2>2
    <3>2. g[k] = f[k]
      BY <3>1
    <3>3. f[k] = <<>>
      BY <1>6, <2>2, <3>1 DEF Shows
    <3> QED BY <2>2, <3>2, <3>3
  <2>3. CASE k # m /\ k # 0
    <3>1. k \in 0..m - 1 /\ k - 1 \in 0..m /\ k - 1 # m
      BY <1>3, <2>3
    <3>2. g[k] = f[k] /\ g[k - 1] = f[k - 1]
      BY <2>3, <3>1
    <3>3. f[k] = AddChatText(f[k - 1], items[k], p)
      BY <1>6, <2>3, <3>1 DEF Shows
    <3> QED BY <2>3, <3>2, <3>3
  <2> QED BY <2>1, <2>2, <2>3
<1>8. g = [k \in 0..m |-> g[k]]
  OBVIOUS
<1>9. Shows(g, m, p)
  <2> HIDE DEF g
  <2> QED BY <1>7, <1>8 DEF Shows
<1> QED BY <1>3, <1>9

\* It shows texts and nothing else.
LEMMA HistoryType ==
    ASSUME items \in [Places -> ChatTexts], NEW p, chatLen \in 0..(MaxMsgs + MaxSends)
    PROVE  MsgHistory(p) \in Seq(ChatTexts)
<1> DEFINE taken == CHOOSE f : Shows(f, chatLen, p)
           Bad == {k \in 0..chatLen : taken[k] \notin Seq(ChatTexts)}
<1>0. chatLen \in Nat
  BY ClientAssumption
<1>1. Shows(taken, chatLen, p)
  BY HistoryExists
<1>2. MsgHistory(p) = taken[chatLen]
  BY DEF MsgHistory, Shows
<1> HIDE DEF taken
<1>3. ASSUME Bad # {} PROVE FALSE
  <2>1. PICK m \in Bad : \A j \in Bad : m <= j
    <3>1. Bad \in SUBSET Nat
      BY <1>0
    <3> HIDE DEF Bad
    <3>2. Min(Bad) \in Bad /\ \A j \in Bad : Min(Bad) <= j
      BY <1>3, <3>1, LeastOf DEF Min
    <3> QED BY <3>2
  <2>2. m \in 0..chatLen /\ m \in Nat /\ taken[m] \notin Seq(ChatTexts)
    BY <1>0, <2>1
  <2>3. CASE m = 0
    <3>1. taken[m] = <<>>
      BY <1>1, <2>2, <2>3 DEF Shows
    <3>2. <<>> \in Seq(ChatTexts)
      OBVIOUS
    <3> QED BY <2>2, <3>1, <3>2
  <2>4. CASE m # 0
    <3>1. m - 1 \in 0..chatLen /\ ~(m <= m - 1) /\ m \in Places
      BY <1>0, <2>2, <2>4, ClientAssumption DEF Places
    <3>2. taken[m - 1] \in Seq(ChatTexts)
      BY <2>1, <3>1
    <3>3. taken[m] = AddChatText(taken[m - 1], items[m], p)
      BY <1>1, <2>2, <2>4 DEF Shows
    <3>4. items[m] \in ChatTexts
      BY <3>1
    <3> QED BY <2>2, <3>2, <3>3, <3>4, AddChatTextOK
  <2> QED BY <2>3, <2>4
<1> QED BY <1>0, <1>2, <1>3

----------------------------------------------------------------------------
(* The handles that the threads and the widgets keep *)

LEMMA InitHandles ==
    ASSUME Init PROVE HandlesInv
<1> USE DEF Init
<1>1. TableOK(peers, nextHandle)
  BY DEF TableOK, TableType
<1>2. CountsOK
  BY ClientAssumption DEF CountsOK, ListenerOwes, MainOwes
<1>3. TextsOK
  <2>1. NoText \in ChatTexts
    BY DEF NoText, ChatText, ChatTexts
  <2>2. <<>> \in Seq(ChatTexts)
    OBVIOUS
  <2> QED BY <2>1, <2>2 DEF TextsOK, Places
<1>4. ListenerOK /\ MainOK
  BY DEF ListenerOK, MainOK
<1>5. IdleOK /\ WinsOK
  BY DEF IdleOK, WinsOK
<1>6. RowsOK
  BY DEF RowsOK
<1> QED BY <1>1, <1>2, <1>3, <1>4, <1>5, <1>6 DEF HandlesInv

\* What the steps that touch neither table nor texts nor widgets keep.
LEMMA KeepsHandles ==
    ASSUME HandlesInv, UNCHANGED <<tableVars, chatVars, idle, widgetVars, received, sent, glen>>,
           gtext' \in ChatTexts, CountsOK', ListenerOK', MainOK', lpc' # "store"
    PROVE  HandlesInv'
<1>1. TextsOK'
  BY DEF HandlesInv, TextsOK, chatVars
<1>2. IdleOK' /\ RowsOK' /\ WinsOK'
  BY DEF HandlesInv, IdleOK, RowsOK, WinsOK, tableVars, widgetVars
<1> QED BY <1>1, <1>2 DEF HandlesInv, tableVars

LEMMA HandlesListen ==
    ASSUME HandlesInv, Listen PROVE HandlesInv'
<1> USE DEF Listen, HandlesInv, mainVars, listenerVars, historyVars, chatVars, tableVars, widgetVars
<1>1. CountsOK'
  BY DEF CountsOK, ListenerOwes, MainOwes
<1>2. ListenerOK' /\ MainOK'
  BY DEF ListenerOK, MainOK, WinOf
<1> QED BY <1>1, <1>2, KeepsHandles DEF TextsOK

LEMMA HandlesStop ==
    ASSUME HandlesInv, Stop PROVE HandlesInv'
<1> USE DEF Stop, HandlesInv, mainVars, listenerVars, historyVars, chatVars, tableVars, widgetVars
<1>1. CountsOK'
  BY DEF CountsOK, ListenerOwes, MainOwes
<1>2. ListenerOK' /\ MainOK'
  BY DEF ListenerOK, MainOK, WinOf
<1> QED BY <1>1, <1>2, KeepsHandles DEF TextsOK

\* The steps of main(), the signal, and a text that was not sent.
MainAlone == SendFails \/ SendKnock \/ Quit \/ UnblockSelect \/ SendBye \/ Join \/ Interrupt

\* They leave everything alone but where the main thread is.
LEMMA MainAloneShape ==
    ASSUME HandlesInv, MainAlone
    PROVE  /\ UNCHANGED <<tableVars, chatVars, idle, widgetVars, listenerVars, historyVars,
                          stdinWritable>>
           /\ glen' \in {glen, 0}
           /\ gpc' \in {"gtk", "exited", "unblock", "bye", "aborted", "join", "done"}
           /\ ghpeer' \in {ghpeer, NoPeer}
           /\ gtext' \in {gtext, NoText}
           /\ pipe' \in {"none", "open", "written"}
<1> USE DEF HandlesInv, MainOK, mainOnly, InMainLoop, BackInMainLoop
<1>1. CASE SendFails
  BY <1>1 DEF SendFails
<1>2. CASE SendKnock
  BY <1>2 DEF SendKnock
<1>3. CASE Quit
  BY <1>3 DEF Quit
<1>4. CASE UnblockSelect
  BY <1>4 DEF UnblockSelect
<1>5. CASE SendBye
  BY <1>5 DEF SendBye
<1>6. CASE Join
  BY <1>6 DEF Join
<1>7. CASE Interrupt
  BY <1>7 DEF Interrupt
<1> QED BY <1>1, <1>2, <1>3, <1>4, <1>5, <1>6, <1>7 DEF MainAlone

LEMMA HandlesMainAlone ==
    ASSUME HandlesInv, MainAlone PROVE HandlesInv'
<1>1. CountsOK'
  BY MainAloneShape DEF HandlesInv, CountsOK, ListenerOwes, MainOwes, MainOK, chatVars,
                        listenerVars, historyVars
<1>2. ListenerOK' /\ MainOK'
  BY MainAloneShape DEF HandlesInv, ListenerOK, MainOK, tableVars, listenerVars
<1>3. NoText \in ChatTexts
  BY DEF NoText, ChatText, ChatTexts
<1>4. TextsOK'
  BY <1>3, MainAloneShape DEF HandlesInv, TextsOK, chatVars, listenerVars, historyVars
<1>5. IdleOK' /\ RowsOK' /\ WinsOK'
  BY MainAloneShape DEF HandlesInv, IdleOK, RowsOK, WinsOK, tableVars, widgetVars
<1> QED BY <1>1, <1>2, <1>4, <1>5, MainAloneShape DEF HandlesInv, tableVars

LEMMA HandlesIgnore ==
    ASSUME HandlesInv, NEW m, IgnoreNotice(m) PROVE HandlesInv'
<1> USE DEF IgnoreNotice, Receives, HandlesInv, mainVars, listenerVars, chatVars, tableVars, widgetVars
<1>1. CountsOK'
  BY ClientAssumption DEF CountsOK, ListenerOwes, MainOwes
<1>2. ListenerOK' /\ MainOK'
  BY DEF ListenerOK, MainOK, WinOf
<1> QED BY <1>1, <1>2, KeepsHandles DEF TextsOK

\* A longer table has the slots of the shorter one.
LEMMA MoreSlots ==
    ASSUME HandlesInv, NEW new, NEW next, TableOK(new, next), Len(peers) <= Len(new)
    PROVE  /\ Len(peers) \in Nat /\ Len(new) \in Nat
           /\ 1..Len(peers) \subseteq 1..Len(new)
           /\ rows \in Seq(1..Len(new))
           /\ \A k \in 1..Len(idle) : idle[k].hpeer \in 1..Len(new)
           /\ \A w \in 1..Len(wins) : wins[w].hpeer \in 1..Len(new)
<1>1. Len(peers) \in Nat /\ Len(new) \in Nat
  BY DEF HandlesInv, TableOK, TableType
<1>2. 1..Len(peers) \subseteq 1..Len(new)
  BY <1>1
<1>3. rows \in Seq(1..Len(new))
  BY <1>2 DEF HandlesInv, RowsOK
<1> QED BY <1>1, <1>2, <1>3 DEF HandlesInv, IdleOK, WinsOK

LEMMA HandlesHandleOnline ==
    ASSUME HandlesInv, NEW m \in OnlineMsg, HandleOnline(m) PROVE HandlesInv'
<1>1. m.peer \in FromAddrs /\ m.at \in ToAddrs
  BY DEF OnlineMsg, ToAddrs
<1>2. /\ TableOK(peers', nextHandle') /\ Len(peers) <= Len(peers')
      /\ FindPeer(peers', m.peer) \in 1..Len(peers')
  BY <1>1, CreatePeerOK DEF HandlesInv, HandleOnline
<1>3. /\ Len(peers) \in Nat /\ Len(peers') \in Nat
      /\ 1..Len(peers) \subseteq 1..Len(peers')
      /\ rows \in Seq(1..Len(peers'))
      /\ \A k \in 1..Len(idle) : idle[k].hpeer \in 1..Len(peers')
      /\ \A w \in 1..Len(wins) : wins[w].hpeer \in 1..Len(peers')
  BY <1>2, MoreSlots
<1> USE DEF HandleOnline, Receives, mainVars, chatVars, widgetVars
<1>4. CountsOK'
  BY ClientAssumption DEF HandlesInv, CountsOK, ListenerOwes, MainOwes
<1>5. TextsOK'
  BY DEF HandlesInv, TextsOK
<1>6. ListenerOK'
  BY <1>2, <1>3 DEF ListenerOK, NoPeer
<1>7. MainOK'
  BY <1>3 DEF HandlesInv, MainOK, WinOf
<1>8. IdleOK' /\ RowsOK' /\ WinsOK'
  BY <1>3 DEF HandlesInv, IdleOK, RowsOK, WinsOK
<1> QED BY <1>2, <1>4, <1>5, <1>6, <1>7, <1>8 DEF HandlesInv

\* One more callback.
LEMMA IdleAppend ==
    ASSUME HandlesInv, NEW fn \in {"IDLE_peer_online", "IDLE_peer_offline", "IDLE_open_chatwin"},
           NEW h \in 1..Len(peers), NEW ct \in Nat,
           fn = "IDLE_open_chatwin" => ct \in Places,
           idle' = Append(idle, Callback(fn, h, ct)), peers' = peers
    PROVE  /\ IdleOK'
           /\ Len(idle) \in Nat /\ Len(idle') = Len(idle) + 1
           /\ \A k \in 1..Len(idle) : idle'[k] = idle[k]
           /\ idle'[Len(idle) + 1].fn = fn /\ idle'[Len(idle) + 1].hpeer = h
<1>0. Len(peers) \in Nat
  BY DEF HandlesInv, TableOK, TableType
<1>1. /\ Callback(fn, h, ct) \in Callbacks /\ Callback(fn, h, ct).fn = fn
      /\ Callback(fn, h, ct).hpeer = h /\ Callback(fn, h, ct).ct = ct
  BY <1>0 DEF Callback, Callbacks
<1>2. idle \in Seq(Callbacks)
  BY DEF HandlesInv, IdleOK
<1>3. /\ idle' \in Seq(Callbacks) /\ Len(idle) \in Nat /\ Len(idle') = Len(idle) + 1
      /\ \A k \in 1..Len(idle) : idle'[k] = idle[k]
      /\ idle'[Len(idle) + 1] = Callback(fn, h, ct)
  BY <1>1, <1>2
<1>4. \A k \in 1..Len(idle') : k \in 1..Len(idle) \/ k = Len(idle) + 1
  BY <1>3
<1>5. IdleOK'
  <2> SUFFICES ASSUME NEW k \in 1..Len(idle')
               PROVE  /\ idle'[k].hpeer \in 1..Len(peers')
                      /\ idle'[k].fn = "IDLE_open_chatwin" => idle'[k].ct \in Places
    BY <1>3, Zenon DEF IdleOK
  <2>1. CASE k \in 1..Len(idle)
    BY <1>3, <2>1 DEF HandlesInv, IdleOK
  <2>2. CASE k = Len(idle) + 1
    BY <1>1, <1>3, <2>2
  <2> QED BY <1>4, <2>1, <2>2
<1> QED BY <1>1, <1>3, <1>5

LEMMA HandlesQueueOnline ==
    ASSUME HandlesInv, QueueOnline PROVE HandlesInv'
<1> USE DEF QueueOnline, Returned, mainVars, chatVars, widgetVars, tableVars, historyVars
<1>1. lhpeer \in 1..Len(peers)
  BY DEF HandlesInv, ListenerOK
<1>2. IdleOK'
  BY <1>1, IdleAppend
<1>3. CountsOK'
  BY DEF HandlesInv, CountsOK, ListenerOwes, MainOwes
<1>4. TextsOK'
  BY DEF HandlesInv, TextsOK
<1>5. ListenerOK' /\ MainOK'
  BY DEF HandlesInv, ListenerOK, MainOK, WinOf
<1>6. RowsOK' /\ WinsOK'
  BY DEF HandlesInv, RowsOK, WinsOK
<1> QED BY <1>2, <1>3, <1>4, <1>5, <1>6 DEF HandlesInv

LEMMA HandlesHandleOffline ==
    ASSUME HandlesInv, NEW m, HandleOffline(m) PROVE HandlesInv'
<1> USE DEF HandleOffline, Receives, mainVars, chatVars, widgetVars, tableVars
<1>1. IdleOK'
  <2>1. CASE FindPeer(peers, m.peer) = NoPeer
    BY <2>1 DEF HandlesInv, IdleOK
  <2>2. CASE FindPeer(peers, m.peer) # NoPeer
    <3>1. FindPeer(peers, m.peer) \in 1..Len(peers)
      BY <2>2, FindPeerOK DEF HandlesInv
    <3>2. idle' = Append(idle, Callback("IDLE_peer_offline", FindPeer(peers, m.peer), 0))
      BY <2>2
    <3>3. peers' = peers
      OBVIOUS
    <3> HIDE DEF HandleOffline
    <3> QED BY <3>1, <3>2, <3>3, IdleAppend
  <2> QED BY <2>1, <2>2
<1>2. CountsOK'
  BY ClientAssumption DEF HandlesInv, CountsOK, ListenerOwes, MainOwes
<1>3. TextsOK'
  BY DEF HandlesInv, TextsOK
<1>4. ListenerOK' /\ MainOK'
  BY DEF HandlesInv, ListenerOK, MainOK, WinOf
<1>5. RowsOK' /\ WinsOK'
  BY DEF HandlesInv, RowsOK, WinsOK
<1> QED BY <1>1, <1>2, <1>3, <1>4, <1>5 DEF HandlesInv

LEMMA HandlesHandleText ==
    ASSUME HandlesInv, NEW m \in TextMsg, HandleText(m) PROVE HandlesInv'
<1> USE DEF HandleText, Receives, mainVars, chatVars, widgetVars, tableVars
<1>1. CountsOK'
  BY ClientAssumption DEF HandlesInv, CountsOK, ListenerOwes, MainOwes
<1>2. TextsOK'
  <2>1. CASE FindPeer(peers, m.peer) = NoPeer
    BY <2>1 DEF HandlesInv, TextsOK
  <2>2. CASE FindPeer(peers, m.peer) # NoPeer
    <3>1. ChatText(m.peer, NoAddr, msgs') \in ChatTexts
      BY <1>1 DEF ChatText, ChatTexts, TextMsg, CountsOK
    <3>2. received' = Append(received, ChatText(m.peer, NoAddr, msgs'))
      BY <2>2
    <3>3. received' \in Seq(ChatTexts) /\ received' # <<>>
      BY <3>1, <3>2 DEF HandlesInv, TextsOK
    <3> QED BY <3>3 DEF HandlesInv, TextsOK
  <2> QED BY <2>1, <2>2
<1>3. ListenerOK'
  BY FindPeerOK DEF HandlesInv, ListenerOK
<1>4. MainOK'
  BY DEF HandlesInv, MainOK, WinOf
<1>5. IdleOK' /\ RowsOK' /\ WinsOK'
  BY DEF HandlesInv, IdleOK, RowsOK, WinsOK
<1> QED BY <1>1, <1>2, <1>3, <1>4, <1>5 DEF HandlesInv

\* An append that has begun has a place.
LEMMA StoreOK ==
    ASSUME HandlesInv, NEW ct \in ChatTexts, NEW other, StoreItem(ct, other),
           ListenerOwes + MainOwes > 0
    PROVE  items' \in [Places -> ChatTexts]
<1>1. chatLen + 1 \in Places
  BY ClientAssumption DEF HandlesInv, CountsOK, Places, ListenerOwes, MainOwes
<1> QED BY <1>1 DEF StoreItem, HandlesInv, TextsOK

LEMMA HandlesListenerStores ==
    ASSUME HandlesInv, ListenerStores PROVE HandlesInv'
<1>1. /\ StoreItem(Last(received), MainAppends) /\ lpc = "store" /\ lpc' = "load"
      /\ UNCHANGED <<tableVars, chatLen, idle, pipe, stdinWritable, lmsg, lhpeer, llen,
                     mainVars, widgetVars, msgs, sent, heard, received>>
  BY DEF ListenerStores
<1>2. Last(received) \in ChatTexts
  BY <1>1 DEF HandlesInv, TextsOK, Last
<1>3. ListenerOwes + MainOwes > 0
  BY <1>1 DEF ListenerOwes, MainOwes
<1>4. items' \in [Places -> ChatTexts]
  BY <1>1, <1>2, <1>3, StoreOK
<1> USE DEF mainVars, widgetVars, tableVars
<1>5. CountsOK'
  BY <1>1 DEF HandlesInv, CountsOK, ListenerOwes, MainOwes
<1>6. TextsOK'
  BY <1>1, <1>4 DEF HandlesInv, TextsOK
<1>7. ListenerOK' /\ MainOK'
  BY <1>1 DEF HandlesInv, ListenerOK, MainOK, WinOf
<1>8. IdleOK' /\ RowsOK' /\ WinsOK'
  BY <1>1 DEF HandlesInv, IdleOK, RowsOK, WinsOK
<1> QED BY <1>1, <1>5, <1>6, <1>7, <1>8 DEF HandlesInv

LEMMA HandlesMainStores ==
    ASSUME HandlesInv, MainStores PROVE HandlesInv'
<1>1. /\ StoreItem(gtext, ListenerAppends) /\ gpc = "sending" /\ gpc' = "load"
      /\ UNCHANGED <<tableVars, chatLen, idle, pipe, stdinWritable, listenerVars, ghpeer,
                     gtext, glen, widgetVars, msgs, sent, heard, received>>
  BY DEF MainStores
<1>2. gtext \in ChatTexts
  BY DEF HandlesInv, TextsOK
<1>3. ListenerOwes + MainOwes > 0
  BY <1>1 DEF ListenerOwes, MainOwes
<1>4. items' \in [Places -> ChatTexts]
  BY <1>1, <1>2, <1>3, StoreOK
<1> USE DEF listenerVars, widgetVars, tableVars
<1>5. CountsOK'
  BY <1>1 DEF HandlesInv, CountsOK, ListenerOwes, MainOwes
<1>6. TextsOK'
  BY <1>1, <1>4 DEF HandlesInv, TextsOK
<1>7. ListenerOK' /\ MainOK'
  BY <1>1 DEF HandlesInv, ListenerOK, MainOK, WinOf
<1>8. IdleOK' /\ RowsOK' /\ WinsOK'
  BY <1>1 DEF HandlesInv, IdleOK, RowsOK, WinsOK
<1> QED BY <1>1, <1>5, <1>6, <1>7, <1>8 DEF HandlesInv

LEMMA HandlesListenerCounts ==
    ASSUME HandlesInv, ListenerLoads \/ ListenerBumps PROVE HandlesInv'
<1> USE DEF ListenerLoads, ListenerBumps, BumpLen, mainVars, widgetVars, tableVars, chatVars, historyVars
<1>1. CountsOK'
  BY DEF HandlesInv, CountsOK, ListenerOwes, MainOwes
<1>2. TextsOK'
  BY DEF HandlesInv, TextsOK
<1>3. ListenerOK' /\ MainOK'
  BY DEF HandlesInv, ListenerOK, MainOK, WinOf
<1>4. IdleOK' /\ RowsOK' /\ WinsOK'
  BY DEF HandlesInv, IdleOK, RowsOK, WinsOK
<1> QED BY <1>1, <1>2, <1>3, <1>4 DEF HandlesInv

LEMMA HandlesMainLoads ==
    ASSUME HandlesInv, MainLoads PROVE HandlesInv'
<1> USE DEF MainLoads, listenerVars, widgetVars, tableVars, chatVars, historyVars
<1>1. CountsOK'
  BY DEF HandlesInv, CountsOK, ListenerOwes, MainOwes
<1>2. TextsOK'
  BY DEF HandlesInv, TextsOK
<1>3. ListenerOK' /\ MainOK'
  BY DEF HandlesInv, ListenerOK, MainOK, WinOf
<1>4. IdleOK' /\ RowsOK' /\ WinsOK'
  BY DEF HandlesInv, IdleOK, RowsOK, WinsOK
<1> QED BY <1>1, <1>2, <1>3, <1>4 DEF HandlesInv

LEMMA HandlesQueueText ==
    ASSUME HandlesInv, QueueText PROVE HandlesInv'
<1> USE DEF QueueText, Returned, mainVars, widgetVars, tableVars, chatVars, historyVars
<1>1. lhpeer \in 1..Len(peers)
  BY DEF HandlesInv, ListenerOK
<1>2. chatLen \in Places /\ chatLen \in Nat
  BY ClientAssumption DEF HandlesInv, CountsOK, Places, ListenerOwes, MainOwes
<1>3. IdleOK'
  <2>1. idle' = Append(idle, Callback("IDLE_open_chatwin", lhpeer, chatLen)) /\ peers' = peers
    OBVIOUS
  <2> HIDE DEF QueueText
  <2> QED BY <1>1, <1>2, <2>1, IdleAppend
<1>4. CountsOK'
  BY DEF HandlesInv, CountsOK, ListenerOwes, MainOwes
<1>5. TextsOK'
  BY DEF HandlesInv, TextsOK
<1>6. ListenerOK' /\ MainOK'
  BY DEF HandlesInv, ListenerOK, MainOK, WinOf
<1>7. RowsOK' /\ WinsOK'
  BY DEF HandlesInv, RowsOK, WinsOK
<1> QED BY <1>3, <1>4, <1>5, <1>6, <1>7 DEF HandlesInv

\* The window of a peer is one of the windows.
LEMMA FirstWin ==
    ASSUME HandlesInv, NEW h, WinOf(h) # {}
    PROVE  Min(WinOf(h)) \in 1..Len(wins) /\ wins[Min(WinOf(h))].hpeer = h
<1>1. WinOf(h) \in SUBSET Nat /\ DOMAIN wins = 1..Len(wins)
  BY DEF HandlesInv, WinsOK, WinOf
<1>2. Min(WinOf(h)) \in WinOf(h)
  BY <1>1, LeastOf
<1> QED BY <1>1, <1>2 DEF WinOf

\* What the callbacks and the user make of the windows: those there are stay,
\* and what is added is a window of a peer, which can send.
WinsFollow(new) ==
    /\ new \in Seq(Windows)
    /\ Len(wins) \in Nat /\ Len(new) \in Nat /\ Len(wins) <= Len(new)
    /\ \A w \in 1..Len(wins) : new[w].hpeer = wins[w].hpeer
    /\ \A w \in 1..Len(new) : w \notin 1..Len(wins) =>
          new[w].hpeer \in 1..Len(peers) /\ new[w].enabled

\* One window changes, and stays a window of its peer.
LEMMA WinsExcept ==
    ASSUME HandlesInv, NEW k \in 1..Len(wins), NEW win \in Windows, win.hpeer = wins[k].hpeer
    PROVE  /\ WinsFollow([wins EXCEPT ![k] = win])
           /\ Len([wins EXCEPT ![k] = win]) = Len(wins)
           /\ \A w \in 1..Len(wins) :
                 [wins EXCEPT ![k] = win][w] = IF w = k THEN win ELSE wins[w]
<1> DEFINE new == [wins EXCEPT ![k] = win]
<1>1. wins \in Seq(Windows) /\ Len(wins) \in Nat
  BY DEF HandlesInv, WinsOK
<1>2. /\ new \in Seq(Windows) /\ Len(new) = Len(wins)
      /\ \A w \in 1..Len(wins) : new[w] = IF w = k THEN win ELSE wins[w]
  BY <1>1, ExceptSeq
<1> HIDE DEF new
<1>3. WinsFollow(new)
  BY <1>1, <1>2 DEF WinsFollow
<1> QED BY <1>2, <1>3 DEF new

\* open_chatwin shows the window there is, or adds one.
LEMMA OpenChatwinOK ==
    ASSUME HandlesInv, NEW h \in 1..Len(peers)
    PROVE  /\ WinsFollow(OpenChatwin(wins, h))
           /\ \A w \in 1..Len(wins) : /\ OpenChatwin(wins, h)[w].enabled = wins[w].enabled
                                      /\ OpenChatwin(wins, h)[w].texts = wins[w].texts
           /\ IF WinOf(h) # {}
              THEN Len(OpenChatwin(wins, h)) = Len(wins)
              ELSE /\ Len(OpenChatwin(wins, h)) = Len(wins) + 1
                   /\ OpenChatwin(wins, h)[Len(wins) + 1].hpeer = h
                   /\ OpenChatwin(wins, h)[Len(wins) + 1].texts = MsgHistory(PeerOf(h))
<1> DEFINE new == OpenChatwin(wins, h)
<1>1. wins \in Seq(Windows) /\ Len(wins) \in Nat /\ Len(peers) \in Nat
  BY DEF HandlesInv, WinsOK, TableOK, TableType
<1>2. CASE \E k \in DOMAIN wins : wins[k].hpeer = h
  <2>1. new = [k \in 1..Len(wins) |->
                 IF wins[k].hpeer = h THEN [wins[k] EXCEPT !.visible = TRUE] ELSE wins[k]]
    <3>1. new = [k \in DOMAIN wins |->
                   IF wins[k].hpeer = h THEN [wins[k] EXCEPT !.visible = TRUE] ELSE wins[k]]
      BY <1>2, Zenon DEF OpenChatwin
    <3>2. DOMAIN wins = 1..Len(wins)
      BY <1>1
    <3> HIDE DEF new
    <3> QED BY <3>1, <3>2
  <2>2. ASSUME NEW k \in 1..Len(wins)
        PROVE  /\ new[k] \in Windows
               /\ new[k].hpeer = wins[k].hpeer /\ new[k].enabled = wins[k].enabled
               /\ new[k].texts = wins[k].texts
    <3>1. wins[k] \in Windows
      BY <1>1
    <3>2. /\ [wins[k] EXCEPT !.visible = TRUE] \in Windows
          /\ [wins[k] EXCEPT !.visible = TRUE].hpeer = wins[k].hpeer
          /\ [wins[k] EXCEPT !.visible = TRUE].enabled = wins[k].enabled
          /\ [wins[k] EXCEPT !.visible = TRUE].texts = wins[k].texts
      BY <3>1 DEF Windows
    <3>3. new[k] = IF wins[k].hpeer = h THEN [wins[k] EXCEPT !.visible = TRUE] ELSE wins[k]
      BY <2>1
    <3> QED BY <3>1, <3>2, <3>3
  <2>3. new \in Seq(Windows) /\ Len(new) = Len(wins)
    <3>1. \A k \in 1..Len(wins) : new[k] \in Windows
      BY <2>2
    <3>2. DOMAIN new = 1..Len(wins) /\ new = [k \in 1..Len(wins) |-> new[k]]
      BY <2>1
    <3> HIDE DEF new
    <3>3. new \in [1..Len(wins) -> Windows]
      BY <3>1, <3>2
    <3> QED BY <1>1, <3>3, SeqDef
  <2> HIDE DEF new
  <2>4. WinsFollow(new)
    BY <1>1, <2>2, <2>3 DEF WinsFollow
  <2>5. WinOf(h) # {}
    BY <1>2 DEF WinOf
  <2> QED BY <2>2, <2>3, <2>4, <2>5 DEF new
<1>3. CASE ~ \E k \in DOMAIN wins : wins[k].hpeer = h
  <2> DEFINE win == [hpeer |-> h, enabled |-> TRUE, visible |-> TRUE,
                     texts |-> MsgHistory(PeerOf(h))]
  <2>1. chatLen \in 0..(MaxMsgs + MaxSends)
    BY ClientAssumption DEF HandlesInv, CountsOK, ListenerOwes, MainOwes
  <2>2. MsgHistory(PeerOf(h)) \in Seq(ChatTexts)
    BY <2>1, HistoryType DEF HandlesInv, TextsOK
  <2>3. /\ win \in Windows /\ win.hpeer = h /\ win.enabled
        /\ win.texts = MsgHistory(PeerOf(h))
    BY <1>1, <2>2 DEF Windows
  <2>4. new = Append(wins, win)
    BY <1>3 DEF OpenChatwin
  <2> HIDE DEF win
  <2>5. /\ new \in Seq(Windows) /\ Len(new) = Len(wins) + 1
        /\ \A w \in 1..Len(wins) : new[w] = wins[w]
        /\ new[Len(wins) + 1] = win
    BY <1>1, <2>3, <2>4
  <2> HIDE DEF new
  <2>6. \A w \in 1..Len(new) : w \notin 1..Len(wins) => w = Len(wins) + 1
    BY <1>1, <2>5
  <2>7. WinsFollow(new)
    BY <1>1, <2>3, <2>5, <2>6 DEF WinsFollow
  <2>8. WinOf(h) = {}
    BY <1>3 DEF WinOf
  <2> QED BY <2>3, <2>5, <2>7, <2>8 DEF new
<1> QED BY <1>2, <1>3

\* Enabling or disabling the window of a peer changes nothing else.
LEMMA SetEnabledOK ==
    ASSUME HandlesInv, NEW h, NEW on \in BOOLEAN, SetEnabled(h, on)
    PROVE  /\ WinsFollow(wins') /\ Len(wins') = Len(wins)
           /\ \A w \in 1..Len(wins) :
                 /\ wins'[w].enabled = IF wins[w].hpeer = h THEN on ELSE wins[w].enabled
                 /\ wins'[w].texts = wins[w].texts
<1>1. wins \in Seq(Windows) /\ Len(wins) \in Nat /\ DOMAIN wins = 1..Len(wins)
  BY DEF HandlesInv, WinsOK
<1>2. wins' = [k \in 1..Len(wins) |->
                 IF k \in WinOf(h) THEN [wins[k] EXCEPT !.enabled = on] ELSE wins[k]]
  BY <1>1 DEF SetEnabled
<1>3. ASSUME NEW k \in 1..Len(wins)
      PROVE  /\ wins'[k] \in Windows /\ wins'[k].hpeer = wins[k].hpeer
             /\ wins'[k].enabled = IF wins[k].hpeer = h THEN on ELSE wins[k].enabled
             /\ wins'[k].texts = wins[k].texts
  <2>1. wins[k] \in Windows
    BY <1>1
  <2>2. /\ [wins[k] EXCEPT !.enabled = on] \in Windows
        /\ [wins[k] EXCEPT !.enabled = on].hpeer = wins[k].hpeer
        /\ [wins[k] EXCEPT !.enabled = on].enabled = on
        /\ [wins[k] EXCEPT !.enabled = on].texts = wins[k].texts
    BY <2>1 DEF Windows
  <2>3. wins'[k] = IF wins[k].hpeer = h THEN [wins[k] EXCEPT !.enabled = on] ELSE wins[k]
    BY <1>1, <1>2 DEF WinOf
  <2> QED BY <2>1, <2>2, <2>3
<1>4. wins' \in [1..Len(wins) -> Windows]
  <2>1. wins' = [k \in 1..Len(wins) |-> wins'[k]]
    BY <1>2
  <2> QED BY <1>3, <2>1
<1>5. wins' \in Seq(Windows) /\ Len(wins') = Len(wins)
  BY <1>1, <1>4, SeqDef
<1> QED BY <1>1, <1>3, <1>5 DEF WinsFollow

\* A row is taken out and the rest move up.
LEMMA RemoveAtOK ==
    ASSUME NEW S, NEW s \in Seq(S), NEW i \in 1..Len(s)
    PROVE  /\ RemoveAt(s, i) \in Seq(S)
           /\ Len(s) \in Nat /\ Len(RemoveAt(s, i)) = Len(s) - 1
           /\ \A j \in 1..Len(s) - 1 : RemoveAt(s, i)[j] = IF j < i THEN s[j] ELSE s[j + 1]
<1> DEFINE a == SubSeq(s, 1, i - 1)
           b == SubSeq(s, i + 1, Len(s))
<1>0. Len(s) \in Nat /\ i \in Nat /\ 1 <= i /\ i <= Len(s)
  OBVIOUS
<1>1. /\ a \in Seq(S) /\ Len(a) = i - 1
      /\ \A j \in 1..i - 1 : a[j] = s[j]
  <2>1. /\ a \in Seq(S) /\ Len(a) = (IF 1 <= i - 1 THEN i - 1 - 1 + 1 ELSE 0)
        /\ \A j \in 1..i - 1 - 1 + 1 : a[j] = s[1 + j - 1]
    <3>1. \A j \in 1..i - 1 : s[j] \in S
      BY <1>0
    <3> QED BY <1>0, <3>1, SubSeqProperties
  <2> HIDE DEF a
  <2>2. i - 1 - 1 + 1 = i - 1 /\ \A j \in 1..i - 1 : 1 + j - 1 = j
    BY <1>0
  <2> QED BY <1>0, <2>1, <2>2
<1>2. /\ b \in Seq(S) /\ Len(b) = Len(s) - i
      /\ \A j \in 1..Len(s) - i : b[j] = s[i + j]
  <2>1. /\ b \in Seq(S) /\ Len(b) = (IF i + 1 <= Len(s) THEN Len(s) - (i + 1) + 1 ELSE 0)
        /\ \A j \in 1..Len(s) - (i + 1) + 1 : b[j] = s[(i + 1) + j - 1]
    <3>1. \A j \in i + 1..Len(s) : s[j] \in S
      BY <1>0
    <3> QED BY <1>0, <3>1, SubSeqProperties
  <2> HIDE DEF b
  <2>2. Len(s) - (i + 1) + 1 = Len(s) - i /\ \A j \in 1..Len(s) - i : (i + 1) + j - 1 = i + j
    BY <1>0
  <2> QED BY <1>0, <2>1, <2>2
<1>3. RemoveAt(s, i) = a \o b
  BY DEF RemoveAt
<1> HIDE DEF a, b
<1>4. /\ a \o b \in Seq(S) /\ Len(a \o b) = Len(a) + Len(b)
      /\ \A j \in 1..Len(a) + Len(b) : (a \o b)[j] = IF j <= Len(a) THEN a[j] ELSE b[j - Len(a)]
  BY <1>1, <1>2, ConcatProperties
<1>5. Len(a) + Len(b) = Len(s) - 1
  BY <1>0, <1>1, <1>2
<1>6. ASSUME NEW j \in 1..Len(s) - 1
      PROVE  (a \o b)[j] = IF j < i THEN s[j] ELSE s[j + 1]
  <2>1. CASE j < i
    <3>1. j <= Len(a) /\ j \in 1..i - 1
      BY <1>0, <1>1, <2>1
    <3> QED BY <1>1, <1>4, <1>5, <2>1, <3>1
  <2>2. CASE ~(j < i)
    <3>1. ~(j <= Len(a)) /\ j - Len(a) \in 1..Len(s) - i /\ i + (j - Len(a)) = j + 1
      BY <1>0, <1>1, <2>2
    <3> QED BY <1>2, <1>4, <1>5, <2>2, <3>1
  <2> QED BY <2>1, <2>2
<1> QED BY <1>0, <1>3, <1>4, <1>5, <1>6

\* What a callback or the user makes of the widgets keeps every handle good.
LEMMA WidgetsKeepHandles ==
    ASSUME HandlesInv, WinsFollow(wins'), rows' \in Seq(1..Len(peers)),
           TableOK(peers', nextHandle'), Len(peers') = Len(peers), IdleOK',
           gpc' \in {gpc, "gtk"}, ghpeer' \in {ghpeer, NoPeer}, gtext' \in {gtext, NoText},
           gpc' = "gtk" \/ ghpeer' = ghpeer,
           CountsOK', UNCHANGED <<items, received, pipe, stdinWritable, lpc, lhpeer>>
    PROVE  HandlesInv'
<1>1. NoText \in ChatTexts
  BY DEF NoText, ChatText, ChatTexts
<1>2. TextsOK' /\ ListenerOK'
  BY <1>1 DEF HandlesInv, TextsOK, ListenerOK
<1>3. /\ wins \in Seq(Windows) /\ wins' \in Seq(Windows)
      /\ DOMAIN wins = 1..Len(wins) /\ DOMAIN wins' = 1..Len(wins')
      /\ 1..Len(wins) \subseteq 1..Len(wins')
  BY DEF HandlesInv, WinsOK, WinsFollow
<1>4. \A h : WinOf(h) # {} => WinOf(h)' # {}
  BY <1>3 DEF WinOf, WinsFollow
<1>5. MainOK'
  BY <1>4 DEF HandlesInv, MainOK
<1>6. RowsOK'
  BY DEF RowsOK
<1>7. WinsOK'
  <2> SUFFICES ASSUME NEW w \in 1..Len(wins') PROVE wins'[w].hpeer \in 1..Len(peers)
    BY <1>3 DEF WinsOK
  <2> QED BY DEF HandlesInv, WinsOK, WinsFollow
<1> QED BY <1>2, <1>5, <1>6, <1>7 DEF HandlesInv

\* The first callback, and those that remain.
LEMMA IdleHead ==
    ASSUME HandlesInv, idle # <<>>
    PROVE  /\ Head(idle) = idle[1] /\ Head(idle) \in Callbacks
           /\ Head(idle).hpeer \in 1..Len(peers)
           /\ Head(idle).fn = "IDLE_open_chatwin" => Head(idle).ct \in Places
           /\ Tail(idle) \in Seq(Callbacks)
           /\ Len(idle) \in Nat \ {0} /\ Len(Tail(idle)) = Len(idle) - 1
           /\ \A k \in 1..Len(idle) - 1 : Tail(idle)[k] = idle[k + 1]
<1>1. idle \in Seq(Callbacks)
  BY DEF HandlesInv, IdleOK
<1>2. Len(idle) \in Nat \ {0} /\ Head(idle) = idle[1]
  BY <1>1
<1>3. 1 \in 1..Len(idle)
  BY <1>2
<1>4. /\ Tail(idle) \in Seq(Callbacks) /\ Len(Tail(idle)) = Len(idle) - 1
      /\ \A k \in 1..Len(idle) - 1 : Tail(idle)[k] = idle[k + 1]
  BY <1>1, <1>2
<1> QED BY <1>1, <1>2, <1>3, <1>4 DEF HandlesInv, IdleOK

LEMMA IdleTailOK ==
    ASSUME HandlesInv, idle # <<>>, idle' = Tail(idle), Len(peers') = Len(peers)
    PROVE  IdleOK'
<1> SUFFICES ASSUME NEW k \in 1..Len(idle')
             PROVE  /\ idle'[k].hpeer \in 1..Len(peers)
                    /\ idle'[k].fn = "IDLE_open_chatwin" => idle'[k].ct \in Places
  BY IdleHead DEF IdleOK
<1>1. k + 1 \in 1..Len(idle) /\ idle'[k] = idle[k + 1]
  BY IdleHead
<1> QED BY <1>1 DEF HandlesInv, IdleOK

LEMMA RowsAreRows ==
    ASSUME HandlesInv
    PROVE  /\ rows \in Seq(1..Len(peers)) /\ Len(rows) \in Nat /\ DOMAIN rows = 1..Len(rows)
           /\ \A h : RowOf(h) # {} <=> \E k \in 1..Len(rows) : rows[k] = h
<1>1. rows \in Seq(1..Len(peers)) /\ Len(rows) \in Nat /\ DOMAIN rows = 1..Len(rows)
  BY DEF HandlesInv, RowsOK
<1> QED BY <1>1 DEF RowOf

\* A peer that was not on the list is put at its end.
LEMMA RowAdded ==
    ASSUME HandlesInv, NEW h \in 1..Len(peers), RowOf(h) = {}, rows' = Append(rows, h)
    PROVE  /\ rows' \in Seq(1..Len(peers))
           /\ RowOf(h)' # {}
           /\ \A g : g # h => (RowOf(g)' # {} <=> RowOf(g) # {})
           /\ RowsOnce => RowsOnce'
<1>1. /\ rows \in Seq(1..Len(peers)) /\ Len(rows) \in Nat /\ DOMAIN rows = 1..Len(rows)
      /\ \A k \in 1..Len(rows) : rows[k] # h
  BY RowsAreRows
<1>2. /\ rows' \in Seq(1..Len(peers)) /\ Len(rows') = Len(rows) + 1
      /\ DOMAIN rows' = 1..Len(rows')
      /\ \A k \in 1..Len(rows) : rows'[k] = rows[k]
      /\ rows'[Len(rows) + 1] = h
  BY <1>1
<1>3. /\ \A k \in 1..Len(rows') : k \in 1..Len(rows) \/ k = Len(rows) + 1
      /\ \A k \in 1..Len(rows) : k \in 1..Len(rows')
      /\ Len(rows) + 1 \in 1..Len(rows')
  BY <1>1, <1>2
<1>4. RowOf(h)' # {}
  BY <1>2, <1>3 DEF RowOf
<1>5. ASSUME NEW g, g # h PROVE RowOf(g)' # {} <=> RowOf(g) # {}
  <2>1. RowOf(g) # {} <=> \E k \in 1..Len(rows) : rows[k] = g
    BY RowsAreRows
  <2>2. RowOf(g)' # {} <=> \E k \in 1..Len(rows') : rows'[k] = g
    BY <1>2 DEF RowOf
  <2> QED BY <1>2, <1>3, <1>5, <2>1, <2>2
<1>6. ASSUME RowsOnce, NEW j \in 1..Len(rows'), NEW k \in 1..Len(rows'), rows'[j] = rows'[k]
      PROVE  j = k
  BY <1>1, <1>2, <1>3, <1>6 DEF RowsOnce
<1>7. RowsOnce => RowsOnce'
  BY <1>6 DEF RowsOnce
<1> QED BY <1>2, <1>4, <1>5, <1>7

\* A peer that was on the list once is gone from it.
LEMMA RowRemoved ==
    ASSUME HandlesInv, NEW h, RowOf(h) # {}, rows' = RemoveAt(rows, Min(RowOf(h)))
    PROVE  /\ rows' \in Seq(1..Len(peers))
           /\ \A g : g # h => (RowOf(g)' # {} <=> RowOf(g) # {})
           /\ RowsOnce => RowsOnce' /\ RowOf(h)' = {}
<1> DEFINE i == Min(RowOf(h))
<1>1. /\ rows \in Seq(1..Len(peers)) /\ Len(rows) \in Nat /\ DOMAIN rows = 1..Len(rows)
  BY RowsAreRows
<1>2. i \in 1..Len(rows) /\ rows[i] = h
  <2>1. RowOf(h) \in SUBSET Nat
    BY <1>1 DEF RowOf
  <2>2. i \in RowOf(h)
    BY <2>1, LeastOf
  <2> QED BY <1>1, <2>2 DEF RowOf
<1> HIDE DEF i
<1>3. rows' = RemoveAt(rows, i)
  BY DEF i
<1>4. /\ rows' \in Seq(1..Len(peers)) /\ Len(rows') = Len(rows) - 1
      /\ \A j \in 1..Len(rows) - 1 : rows'[j] = IF j < i THEN rows[j] ELSE rows[j + 1]
  BY <1>1, <1>2, <1>3, RemoveAtOK
<1>5. DOMAIN rows' = 1..Len(rows')
  BY <1>4
<1>6. ASSUME NEW j \in 1..Len(rows')
      PROVE  \E k \in 1..Len(rows) : k # i /\ rows'[j] = rows[k] /\ k = IF j < i THEN j ELSE j + 1
  <2>1. CASE j < i
    BY <1>1, <1>2, <1>4, <2>1
  <2>2. CASE ~(j < i)
    <3>1. j + 1 \in 1..Len(rows) /\ j + 1 # i
      BY <1>1, <1>2, <1>4, <2>2
    <3> QED BY <1>4, <2>2, <3>1
  <2> QED BY <2>1, <2>2
<1>7. ASSUME NEW k \in 1..Len(rows), k # i
      PROVE  \E j \in 1..Len(rows') : rows'[j] = rows[k]
  <2>1. CASE k < i
    <3>1. k \in 1..Len(rows')
      BY <1>1, <1>2, <1>4, <2>1
    <3> QED BY <1>4, <2>1, <3>1
  <2>2. CASE ~(k < i)
    <3>1. k - 1 \in 1..Len(rows') /\ ~(k - 1 < i) /\ (k - 1) + 1 = k
      BY <1>1, <1>2, <1>4, <1>7, <2>2
    <3> QED BY <1>4, <3>1
  <2> QED BY <2>1, <2>2
<1>8. \A g : RowOf(g)' # {} <=> \E j \in 1..Len(rows') : rows'[j] = g
  BY <1>5 DEF RowOf
<1>9. ASSUME NEW g, g # h PROVE RowOf(g)' # {} <=> RowOf(g) # {}
  <2>1. RowOf(g) # {} <=> \E k \in 1..Len(rows) : rows[k] = g
    BY RowsAreRows
  <2>2. ASSUME NEW k \in 1..Len(rows), rows[k] = g PROVE RowOf(g)' # {}
    BY <1>2, <1>7, <1>8, <1>9, <2>2
  <2>3. ASSUME NEW j \in 1..Len(rows'), rows'[j] = g PROVE RowOf(g) # {}
    BY <1>6, <2>1, <2>3
  <2> QED BY <1>8, <2>1, <2>2, <2>3
<1>10. ASSUME RowsOnce PROVE RowsOnce'
  <2> SUFFICES ASSUME NEW j \in 1..Len(rows'), NEW k \in 1..Len(rows'), rows'[j] = rows'[k]
               PROVE  j = k
    BY DEF RowsOnce
  <2>1. (IF j < i THEN j ELSE j + 1) = (IF k < i THEN k ELSE k + 1)
    BY <1>6, <1>10 DEF RowsOnce
  <2>2. j \in Nat /\ k \in Nat /\ i \in Nat
    BY <1>1, <1>2, <1>4
  <2> QED BY <2>1, <2>2
<1>11. ASSUME RowsOnce PROVE RowOf(h)' = {}
  <2>1. \A k \in 1..Len(rows) : k # i => rows[k] # h
    BY <1>2, <1>11 DEF RowsOnce
  <2> QED BY <1>6, <1>8, <2>1
<1> QED BY <1>4, <1>9, <1>10, <1>11

\* A text is put in the first window of its sender, or opens one.
LEMMA IdleOpenOK ==
    ASSUME HandlesInv, NEW h \in 1..Len(peers), NEW ct \in Places, IdleOpenChatwin(h, ct)
    PROVE  /\ WinsFollow(wins')
           /\ \A w \in 1..Len(wins) : wins'[w].enabled = wins[w].enabled
           /\ UNCHANGED <<peers, rows>>
<1>1. CASE WinOf(h) = {}
  <2>1. wins' = OpenChatwin(wins, h)
    BY <1>1 DEF IdleOpenChatwin
  <2>2. /\ WinsFollow(OpenChatwin(wins, h))
        /\ \A w \in 1..Len(wins) : OpenChatwin(wins, h)[w].enabled = wins[w].enabled
    BY OpenChatwinOK
  <2>3. UNCHANGED <<peers, rows>>
    BY DEF IdleOpenChatwin
  <2> QED BY <2>1, <2>2, <2>3
<1>2. CASE WinOf(h) # {}
  <2> DEFINE k == Min(WinOf(h))
             texts == AddChatText(wins[k].texts, items[ct], PeerOf(h))
             win == [wins[k] EXCEPT !.texts = texts, !.visible = TRUE]
  <2>1. k \in 1..Len(wins) /\ wins[k] \in Windows
    BY <1>2, FirstWin DEF HandlesInv, WinsOK
  <2>2. items[ct] \in ChatTexts
    BY DEF HandlesInv, TextsOK
  <2>3. wins[k].texts \in Seq(ChatTexts)
    BY <2>1 DEF Windows
  <2>4. texts \in Seq(ChatTexts)
    BY <2>2, <2>3, AddChatTextOK
  <2>5. wins' = [wins EXCEPT ![k] = win]
    <3>1. wins' = [wins EXCEPT ![k].texts = texts, ![k].visible = TRUE]
      BY <1>2, Zenon DEF IdleOpenChatwin
    <3> HIDE DEF texts, k
    <3>2. wins \in [DOMAIN wins -> Windows] /\ k \in DOMAIN wins
      BY <2>1 DEF HandlesInv, WinsOK
    <3> QED BY <3>1, <3>2
  <2> HIDE DEF texts, k
  <2>6. win \in Windows /\ win.hpeer = wins[k].hpeer /\ win.enabled = wins[k].enabled
    BY <2>1, <2>4 DEF Windows
  <2> HIDE DEF win
  <2>7. /\ WinsFollow([wins EXCEPT ![k] = win])
        /\ \A w \in 1..Len(wins) :
              [wins EXCEPT ![k] = win][w] = IF w = k THEN win ELSE wins[w]
    BY <2>1, <2>6, WinsExcept
  <2> QED BY <2>5, <2>6, <2>7 DEF IdleOpenChatwin
<1> QED BY <1>1, <1>2

LEMMA HandlesRunIdle ==
    ASSUME HandlesInv, RunIdle PROVE HandlesInv'
<1> DEFINE h == Head(idle).hpeer
<1>0. /\ idle # <<>> /\ idle' = Tail(idle) /\ h \in 1..Len(peers)
      /\ UNCHANGED <<nextHandle, chatVars, pipe, stdinWritable, listenerVars, mainVars, historyVars>>
  BY IdleHead DEF RunIdle
<1>1. CountsOK'
  BY <1>0 DEF HandlesInv, CountsOK, ListenerOwes, MainOwes, chatVars, listenerVars, mainVars,
              historyVars
<1>2. ASSUME WinsFollow(wins'), rows' \in Seq(1..Len(peers)), TableOK(peers', nextHandle'),
             Len(peers') = Len(peers)
      PROVE  HandlesInv'
  <2>1. IdleOK'
    BY <1>0, <1>2, IdleTailOK
  <2> QED BY <1>0, <1>1, <1>2, <2>1, WidgetsKeepHandles DEF chatVars, listenerVars, mainVars,
                                                             historyVars
<1>3. ASSUME UNCHANGED peers
      PROVE  TableOK(peers', nextHandle') /\ Len(peers') = Len(peers)
  BY <1>0, <1>3 DEF HandlesInv
<1>4. CASE Head(idle).fn = "IDLE_peer_online" /\ IdlePeerOnline(h)
  <2>1. rows' \in Seq(1..Len(peers))
    BY <1>0, <1>4, RowAdded, RowsAreRows DEF IdlePeerOnline
  <2> QED BY <1>2, <1>3, <1>4, <2>1, SetEnabledOK DEF IdlePeerOnline
<1>5. CASE Head(idle).fn = "IDLE_peer_offline" /\ IdlePeerOffline(h)
  <2>1. rows' \in Seq(1..Len(peers))
    BY <1>0, <1>5, RowRemoved, RowsAreRows DEF IdlePeerOffline
  <2>2. TableOK(peers', nextHandle') /\ Len(peers') = Len(peers)
    BY <1>0, <1>5, DestroyPeerOK DEF HandlesInv, IdlePeerOffline
  <2> QED BY <1>2, <1>5, <2>1, <2>2, SetEnabledOK DEF IdlePeerOffline
<1>6. CASE Head(idle).fn = "IDLE_open_chatwin" /\ IdleOpenChatwin(h, Head(idle).ct)
  <2>1. Head(idle).ct \in Places
    BY <1>0, <1>6, IdleHead
  <2>2. WinsFollow(wins') /\ UNCHANGED <<peers, rows>>
    BY <1>0, <1>6, <2>1, IdleOpenOK
  <2> QED BY <1>2, <1>3, <2>2, RowsAreRows
<1> QED BY <1>4, <1>5, <1>6 DEF RunIdle

\* Selecting a row opens or shows the window of its peer.
LEMMA SelectRowOK ==
    ASSUME HandlesInv, NEW h, SelectRow(h)
    PROVE  /\ WinsFollow(wins')
           /\ \A w \in 1..Len(wins) : wins'[w].enabled = wins[w].enabled
<1>1. h \in 1..Len(peers) /\ wins' = OpenChatwin(wins, h)
  BY RowsAreRows DEF SelectRow
<1>2. /\ WinsFollow(OpenChatwin(wins, h))
      /\ \A w \in 1..Len(wins) : OpenChatwin(wins, h)[w].enabled = wins[w].enabled
  BY <1>1, OpenChatwinOK
<1> QED BY <1>1, <1>2

LEMMA HandlesSelectRow ==
    ASSUME HandlesInv, NEW h, SelectRow(h) PROVE HandlesInv'
<1> USE DEF SelectRow, tableVars, chatVars, listenerVars, mainVars, historyVars
<1>1. CountsOK'
  BY DEF HandlesInv, CountsOK, ListenerOwes, MainOwes
<1>2. IdleOK' /\ TableOK(peers', nextHandle')
  BY DEF HandlesInv, IdleOK
<1>3. rows' \in Seq(1..Len(peers))
  BY DEF HandlesInv, RowsOK
<1>4. WinsFollow(wins')
  BY SelectRowOK
<1> QED BY <1>1, <1>2, <1>3, <1>4, WidgetsKeepHandles

\* Closing hides the window and keeps it.
LEMMA CloseWindowOK ==
    ASSUME HandlesInv, NEW k \in DOMAIN wins, CloseWindow(k)
    PROVE  /\ WinsFollow(wins') /\ Len(wins') = Len(wins)
           /\ \A w \in 1..Len(wins) : /\ wins'[w].enabled = wins[w].enabled
                                      /\ wins'[w].texts = wins[w].texts
<1> DEFINE win == [wins[k] EXCEPT !.visible = FALSE]
<1>1. k \in 1..Len(wins) /\ wins[k] \in Windows
  BY DEF HandlesInv, WinsOK
<1>2. wins' = [wins EXCEPT ![k] = win]
  BY DEF CloseWindow
<1>3. /\ win \in Windows /\ win.hpeer = wins[k].hpeer /\ win.enabled = wins[k].enabled
      /\ win.texts = wins[k].texts
  BY <1>1 DEF Windows
<1> HIDE DEF win
<1>4. /\ WinsFollow([wins EXCEPT ![k] = win])
      /\ Len([wins EXCEPT ![k] = win]) = Len(wins)
      /\ \A w \in 1..Len(wins) : [wins EXCEPT ![k] = win][w] = IF w = k THEN win ELSE wins[w]
  BY <1>1, <1>3, WinsExcept
<1> QED BY <1>2, <1>3, <1>4

LEMMA HandlesCloseWindow ==
    ASSUME HandlesInv, NEW k \in DOMAIN wins, CloseWindow(k) PROVE HandlesInv'
<1>0. WinsFollow(wins')
  BY CloseWindowOK
<1> USE DEF CloseWindow, tableVars, chatVars, listenerVars, mainVars, historyVars
<1>1. CountsOK'
  BY DEF HandlesInv, CountsOK, ListenerOwes, MainOwes
<1>2. IdleOK' /\ TableOK(peers', nextHandle')
  BY DEF HandlesInv, IdleOK
<1>3. rows' \in Seq(1..Len(peers))
  BY DEF HandlesInv, RowsOK
<1> QED BY <1>0, <1>1, <1>2, <1>3, WidgetsKeepHandles

LEMMA HandlesSend ==
    ASSUME HandlesInv, NEW k \in DOMAIN wins, Send(k) PROVE HandlesInv'
<1>1. k \in 1..Len(wins) /\ wins[k].hpeer \in 1..Len(peers)
  BY DEF HandlesInv, WinsOK
<1>2. /\ PeerOf(wins[k].hpeer) \in Peer(FromAddrs, ToAddrs)
      /\ PeerOf(wins[k].hpeer).toaddr \in ToAddrs
  <2>1. PeerOf(wins[k].hpeer) = peers[wins[k].hpeer]
    BY <1>1, HandleIsSlot DEF PeerOf, HandlesInv
  <2>2. peers[wins[k].hpeer] \in Peer(FromAddrs, ToAddrs)
    BY <1>1 DEF HandlesInv, TableOK, TableType
  <2> QED BY <2>1, <2>2 DEF Peer
<1> USE DEF Send, InMainLoop, tableVars, chatVars, listenerVars, widgetVars
<1>3. CountsOK'
  BY ClientAssumption DEF HandlesInv, CountsOK, ListenerOwes, MainOwes
<1>4. TextsOK'
  <2>1. gtext' \in ChatTexts
    BY <1>2, <1>3 DEF ChatText, ChatTexts, CountsOK
  <2> QED BY <2>1 DEF HandlesInv, TextsOK
<1>5. ListenerOK'
  BY DEF HandlesInv, ListenerOK
<1>6. MainOK'
  <2>1. WinOf(wins[k].hpeer)' # {}
    BY DEF WinOf
  <2> QED BY <1>1, <2>1 DEF HandlesInv, MainOK
<1>7. IdleOK' /\ RowsOK' /\ WinsOK'
  BY DEF HandlesInv, IdleOK, RowsOK, WinsOK
<1> QED BY <1>3, <1>4, <1>5, <1>6, <1>7 DEF HandlesInv

\* What was sent is shown in the window it was sent from.
LEMMA MainBumpsOK ==
    ASSUME HandlesInv, MainBumps
    PROVE  /\ WinsFollow(wins')
           /\ \A w \in 1..Len(wins) : wins'[w].enabled = wins[w].enabled
<1> DEFINE k == Min(WinOf(ghpeer))
           win == [wins[k] EXCEPT !.texts = Append(@, gtext)]
<1>1. WinOf(ghpeer) # {} /\ gtext \in ChatTexts
  BY DEF MainBumps, HandlesInv, MainOK, TextsOK
<1>2. k \in 1..Len(wins) /\ wins[k] \in Windows
  BY <1>1, FirstWin DEF HandlesInv, WinsOK
<1>3. wins' = [wins EXCEPT ![k] = win]
  BY DEF MainBumps
<1>4. wins[k].texts \in Seq(ChatTexts)
  BY <1>2 DEF Windows
<1>5. Append(wins[k].texts, gtext) \in Seq(ChatTexts)
  BY <1>1, <1>4
<1> HIDE DEF k
<1>6. win \in Windows /\ win.hpeer = wins[k].hpeer /\ win.enabled = wins[k].enabled
  BY <1>2, <1>5 DEF Windows
<1> HIDE DEF win
<1>7. /\ WinsFollow([wins EXCEPT ![k] = win])
      /\ \A w \in 1..Len(wins) : [wins EXCEPT ![k] = win][w] = IF w = k THEN win ELSE wins[w]
  BY <1>2, <1>6, WinsExcept
<1> QED BY <1>3, <1>6, <1>7

LEMMA HandlesMainBumps ==
    ASSUME HandlesInv, MainBumps PROVE HandlesInv'
<1>0. WinsFollow(wins')
  BY MainBumpsOK
<1> USE DEF MainBumps, BackInMainLoop, BumpLen, tableVars, listenerVars, historyVars
<1>1. CountsOK'
  BY DEF HandlesInv, CountsOK, ListenerOwes, MainOwes
<1>2. IdleOK' /\ TableOK(peers', nextHandle')
  BY DEF HandlesInv, IdleOK
<1>3. rows' \in Seq(1..Len(peers))
  BY DEF HandlesInv, RowsOK
<1> QED BY <1>0, <1>1, <1>2, <1>3, WidgetsKeepHandles

LEMMA HandlesStutter ==
    ASSUME HandlesInv, UNCHANGED vars PROVE HandlesInv'
<1> USE DEF vars, tableVars, chatVars, listenerVars, mainVars, widgetVars, historyVars
<1>1. CountsOK'
  BY DEF HandlesInv, CountsOK, ListenerOwes, MainOwes
<1>2. TextsOK' /\ ListenerOK'
  BY DEF HandlesInv, TextsOK, ListenerOK
<1>3. MainOK'
  BY DEF HandlesInv, MainOK, WinOf
<1>4. IdleOK' /\ RowsOK' /\ WinsOK'
  BY DEF HandlesInv, IdleOK, RowsOK, WinsOK
<1> QED BY <1>1, <1>2, <1>3, <1>4 DEF HandlesInv

\* A step is one of these.
LEMMA StepIsAction ==
    ASSUME Next
    PROVE  \/ \E m \in OnlineMsg : HandleOnline(m)
           \/ \E m \in OfflineMsg : HandleOffline(m)
           \/ \E m \in TextMsg : HandleText(m)
           \/ \E m \in OnlineMsg \cup OfflineMsg : IgnoreNotice(m)
           \/ Listen \/ QueueOnline \/ ListenerStores \/ ListenerLoads \/ ListenerBumps
           \/ QueueText \/ Stop
           \/ \E h \in ToSet(rows) : SelectRow(h)
           \/ \E k \in DOMAIN wins : CloseWindow(k)
           \/ \E k \in DOMAIN wins : Send(k)
           \/ RunIdle \/ MainStores \/ MainLoads \/ MainBumps \/ MainAlone
BY Zenon DEF Next, ListenerTakes, ListenerOn, User, MainOn, MainAlone

LEMMA HandlesNext ==
    ASSUME HandlesInv, [Next]_vars PROVE HandlesInv'
<1>1. ASSUME NEW m \in OnlineMsg, HandleOnline(m) PROVE HandlesInv'
  BY <1>1, HandlesHandleOnline
<1>2. ASSUME NEW m \in OfflineMsg, HandleOffline(m) PROVE HandlesInv'
  BY <1>2, HandlesHandleOffline
<1>3. ASSUME NEW m \in TextMsg, HandleText(m) PROVE HandlesInv'
  BY <1>3, HandlesHandleText
<1>4. ASSUME NEW m, IgnoreNotice(m) PROVE HandlesInv'
  BY <1>4, HandlesIgnore
<1>5. ASSUME Listen \/ Stop PROVE HandlesInv'
  BY <1>5, HandlesListen, HandlesStop
<1>6. ASSUME QueueOnline \/ QueueText PROVE HandlesInv'
  BY <1>6, HandlesQueueOnline, HandlesQueueText
<1>7. ASSUME ListenerStores \/ ListenerLoads \/ ListenerBumps PROVE HandlesInv'
  BY <1>7, HandlesListenerStores, HandlesListenerCounts
<1>8. ASSUME NEW h, SelectRow(h) PROVE HandlesInv'
  BY <1>8, HandlesSelectRow
<1>9. ASSUME NEW k \in DOMAIN wins, CloseWindow(k) \/ Send(k) PROVE HandlesInv'
  BY <1>9, HandlesCloseWindow, HandlesSend
<1>10. ASSUME RunIdle \/ MainAlone PROVE HandlesInv'
  BY <1>10, HandlesRunIdle, HandlesMainAlone
<1>11. ASSUME MainStores \/ MainLoads \/ MainBumps PROVE HandlesInv'
  BY <1>11, HandlesMainStores, HandlesMainLoads, HandlesMainBumps
<1>12. CASE UNCHANGED vars
  BY <1>12, HandlesStutter
<1>13. CASE Next
  BY <1>13, StepIsAction, <1>1, <1>2, <1>3, <1>4, <1>5, <1>6, <1>7, <1>8, <1>9, <1>10, <1>11
<1> QED BY <1>12, <1>13

LEMMA HandlesImply ==
    ASSUME HandlesInv PROVE HandlesResolve
<1>0. /\ Len(peers) \in Nat /\ Len(rows) \in Nat /\ Len(wins) \in Nat
      /\ DOMAIN idle = 1..Len(idle) /\ DOMAIN rows = 1..Len(rows) /\ DOMAIN wins = 1..Len(wins)
      /\ DOMAIN items = Places
  BY DEF HandlesInv, TableOK, TableType, IdleOK, RowsOK, WinsOK, TextsOK
<1>1. TypeOK
  <2>1. peers \in Seq(Peer(FromAddrs, ToAddrs)) /\ nextHandle \in Nat \ {0}
    BY <1>0 DEF HandlesInv, TableOK, TableType
  <2>2. ToSet(items) \subseteq ChatTexts
    BY <1>0 DEF HandlesInv, TextsOK, ToSet
  <2>3. chatLen \in 0..(MaxMsgs + MaxSends)
    BY ClientAssumption DEF HandlesInv, CountsOK, ListenerOwes, MainOwes
  <2>4. rows \in Seq(Nat \ {0})
    <3>1. 1..Len(peers) \subseteq Nat \ {0}
      BY <1>0
    <3> QED BY <3>1 DEF HandlesInv, RowsOK
  <2>5. wins \in Seq([hpeer : Nat \ {0}, enabled : BOOLEAN, visible : BOOLEAN,
                      texts : Seq(ChatTexts)])
    BY Zenon DEF HandlesInv, WinsOK, Windows
  <2> QED BY <2>1, <2>2, <2>3, <2>4, <2>5 DEF TypeOK, HandlesInv, IdleOK, ListenerOK, MainOK
<1>2. /\ \A k \in 1..Len(peers) : peers[k].hpeer = k
      /\ \A j, k \in 1..Len(peers) : peers[j].fromaddr = peers[k].fromaddr => j = k
  BY DEF HandlesInv, TableOK
<1>3. {idle[k].hpeer : k \in DOMAIN idle} \subseteq 1..Len(peers)
  BY <1>0 DEF HandlesInv, IdleOK
<1>4. ToSet(rows) \subseteq 1..Len(peers)
  BY <1>0 DEF HandlesInv, RowsOK, ToSet
<1>5. {wins[k].hpeer : k \in DOMAIN wins} \subseteq 1..Len(peers)
  BY <1>0 DEF HandlesInv, WinsOK
<1>6. {lhpeer, ghpeer} \ {NoPeer} \subseteq 1..Len(peers)
  BY DEF HandlesInv, ListenerOK, MainOK
<1> QED BY <1>1, <1>2, <1>3, <1>4, <1>5, <1>6 DEF HandlesResolve

\* Whatever the order of notices, texts and callbacks, and however the threads
\* overlap, the handles that wait in the queue, in a row, in a window or in a
\* thread name slots of the table, and no append is past the end of GChatTexts.
THEOREM HandlesAlwaysResolve == Spec => []HandlesResolve
<1>1. Init => HandlesInv
  BY InitHandles
<1>2. HandlesInv /\ [Next]_vars => HandlesInv'
  BY HandlesNext
<1>3. HandlesInv => HandlesResolve
  BY HandlesImply
<1> QED BY <1>1, <1>2, <1>3, PTL DEF Spec

----------------------------------------------------------------------------
(* The list of peers *)

\* What says nothing of a peer keeps what its callbacks will make of it.
LEMMA LastCountsKept ==
    ASSUME NEW h, LastCounts(h), HeardOnline(h)' <=> HeardOnline(h),
           Announced(h)' <=> Announced(h), RowOf(h)' # {} <=> RowOf(h) # {},
           NoticesFor(h)' = {} => NoticesFor(h) = {},
           \A j \in 1..Len(idle') : IsLast(j, h)' =>
              \E i \in 1..Len(idle) : IsLast(i, h) /\ idle'[j].fn = idle[i].fn
    PROVE  LastCounts(h)'
BY Zenon DEF LastCounts

\* Without a new notice or row, only the windows matter.
LEMMA ListKept ==
    ASSUME ListInv, UNCHANGED <<peers, rows, heard>>,
           \A h : Announced(h)' <=> Announced(h),
           \A h : NoticesFor(h)' = NoticesFor(h),
           \A j \in 1..Len(idle) : idle'[j] = idle[j],
           WinsFollow(wins'),
           \A w \in 1..Len(wins) : wins'[w].enabled = wins[w].enabled
    PROVE  ListOK'
<1>1. \A h : RowOf(h)' = RowOf(h) /\ (HeardOnline(h)' <=> HeardOnline(h))
  BY DEF RowOf, HeardOnline
<1>2. HeardOK' /\ RowsOnce'
  BY DEF ListInv, ListOK, HeardOK, RowsOnce
<1>3. ListedCanSend'
  <2> SUFFICES ASSUME NEW w \in 1..Len(wins'), RowOf(wins'[w].hpeer) # {}
               PROVE  wins'[w].enabled
    BY <1>1 DEF ListedCanSend
  <2>1. CASE w \in 1..Len(wins)
    BY <2>1 DEF ListInv, ListOK, ListedCanSend, WinsFollow
  <2>2. CASE w \notin 1..Len(wins)
    BY <2>2 DEF WinsFollow
  <2> QED BY <2>1, <2>2
<1>4. ASSUME NEW h \in 1..Len(peers')
      PROVE  LastCounts(h)' /\ ActiveIsListed(h)'
  <2>1. LastCounts(h) /\ ActiveIsListed(h)
    BY <1>4 DEF ListInv, ListOK
  <2>2. ASSUME NEW j \in 1..Len(idle'), IsLast(j, h)'
        PROVE  \E i \in 1..Len(idle) : IsLast(i, h) /\ idle'[j].fn = idle[i].fn
    <3>1. IsLast(j, h)
      BY <2>2 DEF IsLast
    <3>2. j \in 1..Len(idle)
      BY <3>1 DEF IsLast, NoticesFor
    <3> QED BY <3>1, <3>2
  <2>3. LastCounts(h)'
    BY <1>1, <2>1, <2>2, LastCountsKept
  <2>4. ActiveIsListed(h)'
    BY <1>1, <2>1 DEF ActiveIsListed
  <2> QED BY <2>3, <2>4
<1> QED BY <1>2, <1>3, <1>4 DEF ListOK

\* Windows that are left alone.
LEMMA SameWindows ==
    ASSUME HandlesInv, wins' = wins
    PROVE  WinsFollow(wins') /\ \A w \in 1..Len(wins) : wins'[w].enabled = wins[w].enabled
<1>1. wins \in Seq(Windows) /\ Len(wins) \in Nat
  BY DEF HandlesInv, WinsOK
<1> QED BY <1>1 DEF WinsFollow

\* One more callback counts for its peer alone.
LEMMA NoticesAppended ==
    ASSUME HandlesInv, NEW fn \in {"IDLE_peer_online", "IDLE_peer_offline", "IDLE_open_chatwin"},
           NEW h \in 1..Len(peers), NEW ct \in Nat,
           fn = "IDLE_open_chatwin" => ct \in Places,
           idle' = Append(idle, Callback(fn, h, ct)), peers' = peers
    PROVE  /\ \A j \in 1..Len(idle) : idle'[j] = idle[j]
           /\ \A g : g # h \/ fn = "IDLE_open_chatwin" => NoticesFor(g)' = NoticesFor(g)
           /\ \A g : g = h /\ fn # "IDLE_open_chatwin" =>
                 /\ NoticesFor(g)' # {}
                 /\ \A j \in 1..Len(idle') : IsLast(j, g)' => idle'[j].fn = fn
<1>1. /\ Len(idle) \in Nat /\ Len(idle') = Len(idle) + 1
      /\ \A k \in 1..Len(idle) : idle'[k] = idle[k]
      /\ idle'[Len(idle) + 1].fn = fn /\ idle'[Len(idle) + 1].hpeer = h
  BY IdleAppend
<1>2. /\ \A k \in 1..Len(idle') : k \in 1..Len(idle) \/ k = Len(idle) + 1
      /\ \A k \in 1..Len(idle) : k \in 1..Len(idle')
      /\ Len(idle) + 1 \in 1..Len(idle')
  BY <1>1
<1>3. ASSUME NEW g, g # h \/ fn = "IDLE_open_chatwin" PROVE NoticesFor(g)' = NoticesFor(g)
  <2>1. ASSUME NEW j, j \in NoticesFor(g)' PROVE j \in NoticesFor(g)
    <3>1. j \in 1..Len(idle') /\ idle'[j].hpeer = g /\ idle'[j].fn # "IDLE_open_chatwin"
      BY <2>1 DEF NoticesFor
    <3>2. j \in 1..Len(idle)
      BY <1>1, <1>2, <1>3, <3>1
    <3> QED BY <1>1, <3>1, <3>2 DEF NoticesFor
  <2>2. ASSUME NEW j, j \in NoticesFor(g) PROVE j \in NoticesFor(g)'
    BY <1>1, <1>2, <2>2 DEF NoticesFor
  <2> QED BY <2>1, <2>2
<1>4. ASSUME NEW g, g = h, fn # "IDLE_open_chatwin"
      PROVE  /\ NoticesFor(g)' # {}
             /\ \A j \in 1..Len(idle') : IsLast(j, g)' => idle'[j].fn = fn
  <2>1. Len(idle) + 1 \in NoticesFor(g)'
    BY <1>1, <1>2, <1>4 DEF NoticesFor
  <2>2. ASSUME NEW j \in 1..Len(idle'), IsLast(j, g)' PROVE idle'[j].fn = fn
    <3>1. Len(idle) + 1 <= j
      BY <2>1, <2>2 DEF IsLast
    <3>2. j = Len(idle) + 1
      BY <1>1, <3>1
    <3> QED BY <1>1, <3>2
  <2> QED BY <2>1, <2>2
<1> QED BY <1>1, <1>3, <1>4

\* The first callback that is taken out moves the others up.
LEMMA NoticesTaken ==
    ASSUME HandlesInv, idle # <<>>, idle' = Tail(idle), NEW h
    PROVE  /\ \A j \in 1..Len(idle') : IsLast(j, h)' =>
                 \E i \in 1..Len(idle) : IsLast(i, h) /\ idle'[j].fn = idle[i].fn
           /\ 1 \notin NoticesFor(h) => (NoticesFor(h)' = {} => NoticesFor(h) = {})
           /\ 1 \in NoticesFor(h) /\ NoticesFor(h)' = {} => IsLast(1, h)
<1>1. /\ Len(idle) \in Nat \ {0} /\ Len(idle') = Len(idle) - 1
      /\ \A k \in 1..Len(idle) - 1 : idle'[k] = idle[k + 1]
  BY IdleHead
<1>2. ASSUME NEW i \in NoticesFor(h), i # 1 PROVE i - 1 \in NoticesFor(h)'
  <2>1. i \in 1..Len(idle) /\ idle[i].hpeer = h /\ idle[i].fn # "IDLE_open_chatwin"
    BY DEF NoticesFor
  <2>2. i - 1 \in 1..Len(idle') /\ i - 1 \in 1..Len(idle) - 1 /\ (i - 1) + 1 = i
    BY <1>1, <1>2, <2>1
  <2>3. idle'[i - 1] = idle[i]
    BY <1>1, <2>2
  <2> QED BY <2>1, <2>2, <2>3 DEF NoticesFor
<1>3. ASSUME NEW j \in 1..Len(idle'), IsLast(j, h)'
      PROVE  \E i \in 1..Len(idle) : IsLast(i, h) /\ idle'[j].fn = idle[i].fn
  <2>1. /\ j \in NoticesFor(h)' /\ j \in 1..Len(idle') /\ idle'[j].hpeer = h
        /\ idle'[j].fn # "IDLE_open_chatwin"
        /\ \A i \in NoticesFor(h)' : i <= j
    BY <1>3 DEF IsLast, NoticesFor
  <2>2. j + 1 \in 1..Len(idle) /\ idle'[j] = idle[j + 1] /\ j \in Nat /\ 1 <= j
    BY <1>1, <2>1
  <2>3. j + 1 \in NoticesFor(h)
    BY <2>1, <2>2 DEF NoticesFor
  <2>4. ASSUME NEW i \in NoticesFor(h) PROVE i <= j + 1
    <3>1. i \in Nat
      BY <1>1 DEF NoticesFor
    <3>2. CASE i = 1
      BY <2>2, <3>2
    <3>3. CASE i # 1
      <4>1. i - 1 <= j
        BY <1>2, <2>1, <3>3
      <4> QED BY <2>2, <3>1, <4>1
    <3> QED BY <3>2, <3>3
  <2> QED BY <2>2, <2>3, <2>4 DEF IsLast
<1>4. ASSUME NoticesFor(h)' = {} PROVE \A i \in NoticesFor(h) : i = 1
  BY <1>2, <1>4
<1>5. ASSUME 1 \in NoticesFor(h), NoticesFor(h)' = {} PROVE IsLast(1, h)
  BY <1>4, <1>5 DEF IsLast
<1> QED BY <1>3, <1>4, <1>5

LEMMA InitList ==
    ASSUME Init PROVE ListOK
<1>1. /\ peers = <<>> /\ rows = <<>> /\ wins = <<>> /\ idle = <<>>
      /\ heard = [a \in FromAddrs |-> "nothing"]
  BY DEF Init
<1>2. HeardOK /\ RowsOnce /\ ListedCanSend
  BY <1>1 DEF HeardOK, RowsOnce, ListedCanSend
<1>3. 1..Len(peers) = {}
  BY <1>1
<1> QED BY <1>2, <1>3 DEF ListOK

\* The steps that bring no notice nearer and touch no window.
LEMMA ListAside ==
    ASSUME ListInv, UNCHANGED <<peers, rows, wins, heard, idle>>,
           lpc # "announce", lpc' # "announce" \/ lpc' = lpc
    PROVE  ListOK'
<1>1. \A h : Announced(h)' <=> Announced(h)
  BY DEF Announced
<1>2. \A h : NoticesFor(h)' = NoticesFor(h)
  BY DEF NoticesFor
<1>3. WinsFollow(wins') /\ \A w \in 1..Len(wins) : wins'[w].enabled = wins[w].enabled
  BY SameWindows DEF ListInv
<1> QED BY <1>1, <1>2, <1>3, ListKept

LEMMA ListMainAside ==
    ASSUME ListInv, UNCHANGED <<peers, rows, heard, idle, lpc, lhpeer>>,
           WinsFollow(wins'), \A w \in 1..Len(wins) : wins'[w].enabled = wins[w].enabled
    PROVE  ListOK'
<1>1. \A h : Announced(h)' <=> Announced(h)
  BY DEF Announced
<1>2. \A h : NoticesFor(h)' = NoticesFor(h)
  BY DEF NoticesFor
<1> QED BY <1>1, <1>2, ListKept

LEMMA ListMainAlone ==
    ASSUME ListInv, MainAlone \/ MainStores \/ MainLoads \/ (\E k \in DOMAIN wins : Send(k))
                      \/ UNCHANGED vars
    PROVE  ListOK'
<1>1. UNCHANGED <<peers, rows, wins, heard, idle, lpc, lhpeer>>
  <2>1. CASE MainAlone
    BY <2>1, MainAloneShape DEF ListInv, tableVars, widgetVars, listenerVars, historyVars
  <2>2. CASE MainStores \/ MainLoads
    BY <2>2 DEF MainStores, MainLoads, tableVars, widgetVars, listenerVars, historyVars
  <2>3. CASE \E k \in DOMAIN wins : Send(k)
    BY <2>3 DEF Send, tableVars, widgetVars, listenerVars
  <2>4. CASE UNCHANGED vars
    BY <2>4 DEF vars, tableVars, widgetVars, listenerVars, historyVars
  <2> QED BY <2>1, <2>2, <2>3, <2>4
<1>2. WinsFollow(wins') /\ \A w \in 1..Len(wins) : wins'[w].enabled = wins[w].enabled
  BY <1>1, SameWindows DEF ListInv
<1> QED BY <1>1, <1>2, ListMainAside

LEMMA ListUser ==
    ASSUME ListInv,
           (\E h : SelectRow(h)) \/ (\E k \in DOMAIN wins : CloseWindow(k)) \/ MainBumps
    PROVE  ListOK'
<1>1. CASE \E h : SelectRow(h)
  <2>1. PICK h : SelectRow(h)
    BY <1>1
  <2>2. UNCHANGED <<peers, rows, heard, idle, lpc, lhpeer>>
    BY <2>1 DEF SelectRow, tableVars, listenerVars, historyVars
  <2> QED BY <2>1, <2>2, SelectRowOK, ListMainAside DEF ListInv
<1>2. CASE \E k \in DOMAIN wins : CloseWindow(k)
  <2>1. PICK k \in DOMAIN wins : CloseWindow(k)
    BY <1>2
  <2>2. UNCHANGED <<peers, rows, heard, idle, lpc, lhpeer>>
    BY <2>1 DEF CloseWindow, tableVars, listenerVars, historyVars
  <2> QED BY <2>1, <2>2, CloseWindowOK, ListMainAside DEF ListInv
<1>3. CASE MainBumps
  <2>1. UNCHANGED <<peers, rows, heard, idle, lpc, lhpeer>>
    BY <1>3 DEF MainBumps, tableVars, listenerVars, historyVars
  <2> QED BY <1>3, <2>1, MainBumpsOK, ListMainAside DEF ListInv
<1> QED BY <1>1, <1>2, <1>3

LEMMA ListListenerAside ==
    ASSUME ListInv, \/ Listen \/ Stop \/ ListenerStores \/ ListenerLoads \/ ListenerBumps
                    \/ (\E m : IgnoreNotice(m)) \/ (\E m : HandleText(m))
    PROVE  ListOK'
<1> USE DEF tableVars, widgetVars, listenerVars, historyVars, Receives
<1>1. CASE Listen \/ Stop
  BY <1>1, ListAside DEF Listen, Stop
<1>2. CASE ListenerStores \/ ListenerLoads \/ ListenerBumps
  BY <1>2, ListAside DEF ListenerStores, ListenerLoads, ListenerBumps
<1>3. CASE \E m : IgnoreNotice(m)
  BY <1>3, ListAside DEF IgnoreNotice
<1>4. CASE \E m : HandleText(m)
  BY <1>4, ListAside DEF HandleText
<1> QED BY <1>1, <1>2, <1>3, <1>4

LEMMA ListQueueText ==
    ASSUME ListInv, QueueText PROVE ListOK'
<1>1. /\ idle' = Append(idle, Callback("IDLE_open_chatwin", lhpeer, chatLen))
      /\ lpc = "queue" /\ lpc' = "select" /\ UNCHANGED <<peers, rows, wins, heard>>
  BY DEF QueueText, Returned, tableVars, widgetVars, historyVars
<1>2. lhpeer \in 1..Len(peers) /\ chatLen \in Nat /\ chatLen \in Places
  BY <1>1, ClientAssumption DEF ListInv, HandlesInv, ListenerOK, CountsOK, Places,
                                ListenerOwes, MainOwes
<1>3. /\ \A j \in 1..Len(idle) : idle'[j] = idle[j]
      /\ \A h : NoticesFor(h)' = NoticesFor(h)
  BY <1>1, <1>2, NoticesAppended DEF ListInv
<1>4. \A h : Announced(h)' <=> Announced(h)
  BY <1>1 DEF Announced
<1>5. WinsFollow(wins') /\ \A w \in 1..Len(wins) : wins'[w].enabled = wins[w].enabled
  BY <1>1, SameWindows DEF ListInv
<1> QED BY <1>1, <1>3, <1>4, <1>5, ListKept

\* A peer that a step is not about, and the list and the windows as they were.
LEMMA OthersKept ==
    ASSUME ListInv, NEW h \in 1..Len(peers), peers'[h] = peers[h],
           heard'[peers[h].fromaddr] = heard[peers[h].fromaddr],
           rows' = rows, \A j \in 1..Len(idle) : idle'[j] = idle[j],
           NoticesFor(h)' = NoticesFor(h), ~Announced(h), ~Announced(h)'
    PROVE  LastCounts(h)' /\ ActiveIsListed(h)'
<1>1. RowOf(h)' = RowOf(h) /\ (HeardOnline(h)' <=> HeardOnline(h))
  BY DEF RowOf, HeardOnline
<1>2. LastCounts(h) /\ ActiveIsListed(h)
  BY DEF ListInv, ListOK
<1>3. ASSUME NEW j \in 1..Len(idle'), IsLast(j, h)'
      PROVE  \E i \in 1..Len(idle) : IsLast(i, h) /\ idle'[j].fn = idle[i].fn
  <2>1. IsLast(j, h)
    BY <1>3 DEF IsLast
  <2>2. j \in 1..Len(idle)
    BY <2>1 DEF IsLast, NoticesFor
  <2> QED BY <2>1, <2>2
<1>4. LastCounts(h)'
  BY <1>1, <1>2, <1>3, LastCountsKept
<1> QED BY <1>1, <1>2, <1>4 DEF ActiveIsListed

LEMMA SameListed ==
    ASSUME ListInv, UNCHANGED <<rows, wins>> PROVE RowsOnce' /\ ListedCanSend'
BY DEF ListInv, ListOK, RowsOnce, ListedCanSend, RowOf

LEMMA ListHandleOnline ==
    ASSUME ListInv, NEW m \in OnlineMsg, HandleOnline(m) PROVE ListOK'
<1> DEFINE s == FindPeer(peers', m.peer)
<1>1. m.peer \in FromAddrs /\ m.at \in ToAddrs
  BY DEF OnlineMsg, ToAddrs
<1>2. /\ s \in 1..Len(peers') /\ peers'[s].fromaddr = m.peer
      /\ \A k \in 1..Len(peers') : k # s =>
            k \in 1..Len(peers) /\ peers'[k] = peers[k] /\ peers'[k].fromaddr # m.peer
  BY <1>1, CreatePeerOK DEF ListInv, HandlesInv, HandleOnline
<1>3. /\ lpc = "select" /\ lpc' = "announce" /\ lhpeer' = s
      /\ heard' = [heard EXCEPT ![m.peer] = "online"]
      /\ UNCHANGED <<idle, rows, wins>>
  BY DEF HandleOnline, Receives, FromTracker, Hears, widgetVars
<1> HIDE DEF s
<1>4. HeardOK'
  BY <1>1, <1>3 DEF ListInv, ListOK, HeardOK
<1>5. ASSUME NEW k \in 1..Len(peers') PROVE LastCounts(k)' /\ ActiveIsListed(k)'
  <2>1. CASE k = s
    <3>1. Announced(k)'
      BY <1>3, <2>1 DEF Announced
    <3>2. HeardOnline(k)'
      BY <1>1, <1>2, <1>3, <2>1 DEF HeardOnline, ListInv, ListOK, HeardOK
    <3> QED BY <3>1, <3>2 DEF LastCounts, ActiveIsListed
  <2>2. CASE k # s
    <3>1. k \in 1..Len(peers) /\ peers'[k] = peers[k] /\ peers[k].fromaddr # m.peer
      BY <1>2, <2>2
    <3>2. heard'[peers[k].fromaddr] = heard[peers[k].fromaddr]
      <4>1. peers[k] \in Peer(FromAddrs, ToAddrs)
        BY <3>1 DEF ListInv, HandlesInv, TableOK, TableType
      <4>2. peers[k].fromaddr \in FromAddrs
        BY <4>1 DEF Peer
      <4> QED BY <1>3, <3>1, <4>2 DEF ListInv, ListOK, HeardOK
    <3>3. ~Announced(k) /\ ~Announced(k)'
      BY <1>3, <2>2 DEF Announced
    <3>4. NoticesFor(k)' = NoticesFor(k)
      BY <1>3 DEF NoticesFor
    <3> QED BY <1>3, <3>1, <3>2, <3>3, <3>4, OthersKept
  <2> QED BY <2>1, <2>2
<1> QED BY <1>3, <1>4, <1>5, SameListed DEF ListOK

LEMMA ListQueueOnline ==
    ASSUME ListInv, QueueOnline PROVE ListOK'
<1>1. /\ idle' = Append(idle, Callback("IDLE_peer_online", lhpeer, 0))
      /\ lpc = "announce" /\ lpc' = "select" /\ UNCHANGED <<peers, rows, wins, heard>>
  BY DEF QueueOnline, Returned, tableVars, widgetVars, historyVars
<1>2. lhpeer \in 1..Len(peers)
  BY <1>1 DEF ListInv, HandlesInv, ListenerOK
<1>3. /\ \A j \in 1..Len(idle) : idle'[j] = idle[j]
      /\ \A g : g # lhpeer => NoticesFor(g)' = NoticesFor(g)
      /\ \A g : g = lhpeer =>
            /\ NoticesFor(g)' # {}
            /\ \A j \in 1..Len(idle') : IsLast(j, g)' => idle'[j].fn = "IDLE_peer_online"
  BY <1>1, <1>2, NoticesAppended DEF ListInv
<1>4. HeardOK'
  BY <1>1 DEF ListInv, ListOK, HeardOK
<1>5. ASSUME NEW k \in 1..Len(peers') PROVE LastCounts(k)' /\ ActiveIsListed(k)'
  <2>1. CASE k = lhpeer
    <3>1. HeardOnline(k)
      BY <1>1, <1>2, <2>1 DEF Announced, ListInv, ListOK, LastCounts
    <3>2. HeardOnline(k)' /\ ~Announced(k)'
      BY <1>1, <3>1 DEF HeardOnline, Announced
    <3>3. NoticesFor(k)' # {}
      BY <1>3, <2>1
    <3>4. \A j \in 1..Len(idle') : IsLast(j, k)' => idle'[j].fn = "IDLE_peer_online"
      BY <1>3, <2>1
    <3> QED BY <3>2, <3>3, <3>4 DEF LastCounts, ActiveIsListed
  <2>2. CASE k # lhpeer
    <3>1. ~Announced(k) /\ ~Announced(k)'
      BY <1>1, <2>2 DEF Announced
    <3> QED BY <1>1, <1>3, <1>5, <2>2, <3>1, OthersKept
  <2> QED BY <2>1, <2>2
<1> QED BY <1>1, <1>4, <1>5, SameListed DEF ListOK

LEMMA ListHandleOffline ==
    ASSUME ListInv, NEW m \in OfflineMsg, HandleOffline(m) PROVE ListOK'
<1> DEFINE s == FindPeer(peers, m.peer)
<1>1. /\ lpc = "select" /\ lpc' # "announce" /\ UNCHANGED <<peers, rows, wins>>
      /\ heard' = [heard EXCEPT ![m.peer] = "offline"] /\ m.peer \in FromAddrs
      /\ idle' = IF s # NoPeer THEN Append(idle, Callback("IDLE_peer_offline", s, 0)) ELSE idle
  BY DEF HandleOffline, Receives, FromTracker, Hears, tableVars, widgetVars, OfflineMsg
<1> HIDE DEF s
<1>2. HeardOK'
  BY <1>1 DEF ListInv, ListOK, HeardOK
<1>3. ASSUME NEW k \in 1..Len(peers), peers[k].fromaddr # m.peer,
             \A j \in 1..Len(idle) : idle'[j] = idle[j], NoticesFor(k)' = NoticesFor(k)
      PROVE  LastCounts(k)' /\ ActiveIsListed(k)'
  <2>1. peers[k] \in Peer(FromAddrs, ToAddrs)
    BY DEF ListInv, HandlesInv, TableOK, TableType
  <2>2. peers[k].fromaddr \in FromAddrs
    BY <2>1 DEF Peer
  <2>3. heard'[peers[k].fromaddr] = heard[peers[k].fromaddr]
    BY <1>1, <1>3, <2>2 DEF ListInv, ListOK, HeardOK
  <2>4. ~Announced(k) /\ ~Announced(k)'
    BY <1>1 DEF Announced
  <2> QED BY <1>1, <1>3, <2>3, <2>4, OthersKept
<1>4. CASE s = NoPeer
  <2>1. \A k \in 1..Len(peers) : peers[k].fromaddr # m.peer
    BY <1>4, FindPeerNone DEF s, ListInv, HandlesInv
  <2>2. idle' = idle
    BY <1>1, <1>4
  <2>3. \A k : NoticesFor(k)' = NoticesFor(k)
    BY <2>2 DEF NoticesFor
  <2>4. \A k \in 1..Len(peers') : LastCounts(k)' /\ ActiveIsListed(k)'
    BY <1>1, <1>3, <2>1, <2>2, <2>3
  <2> QED BY <1>1, <1>2, <2>4, SameListed DEF ListOK
<1>5. CASE s # NoPeer
  <2>1. s \in 1..Len(peers) /\ peers[s].fromaddr = m.peer
    BY <1>5, FindPeerOK DEF s, ListInv, HandlesInv
  <2>2. /\ \A j \in 1..Len(idle) : idle'[j] = idle[j]
        /\ \A g : g # s => NoticesFor(g)' = NoticesFor(g)
        /\ \A g : g = s =>
              /\ NoticesFor(g)' # {}
              /\ \A j \in 1..Len(idle') : IsLast(j, g)' => idle'[j].fn = "IDLE_peer_offline"
    BY <1>1, <1>5, <2>1, NoticesAppended DEF ListInv
  <2>3. ASSUME NEW k \in 1..Len(peers') PROVE LastCounts(k)' /\ ActiveIsListed(k)'
    <3>1. CASE k = s
      <4>1. ~HeardOnline(k)' /\ ~Announced(k)'
        BY <1>1, <2>1, <3>1 DEF HeardOnline, Announced, ListInv, ListOK, HeardOK
      <4>2. NoticesFor(k)' # {}
        BY <2>2, <3>1
      <4>3. \A j \in 1..Len(idle') : IsLast(j, k)' => idle'[j].fn # "IDLE_peer_online"
        BY <2>2, <3>1
      <4> QED BY <4>1, <4>2, <4>3 DEF LastCounts, ActiveIsListed
    <3>2. CASE k # s
      <4>1. k \in 1..Len(peers) /\ peers[k].fromaddr # m.peer
        BY <1>1, <2>1, <2>3, <3>2 DEF ListInv, HandlesInv, TableOK
      <4> QED BY <1>3, <2>2, <3>2, <4>1
    <3> QED BY <3>1, <3>2
  <2> QED BY <1>1, <1>2, <2>3, SameListed DEF ListOK
<1> QED BY <1>4, <1>5

\* What a callback leaves of a peer it is not about.
LEMMA IdleOthers ==
    ASSUME ListInv, idle # <<>>, idle' = Tail(idle), UNCHANGED <<lpc, lhpeer, heard>>,
           NEW g \in 1..Len(peers), 1 \notin NoticesFor(g), peers'[g] = peers[g],
           RowOf(g)' # {} <=> RowOf(g) # {}
    PROVE  LastCounts(g)' /\ ActiveIsListed(g)'
<1>1. LastCounts(g) /\ ActiveIsListed(g)
  BY DEF ListInv, ListOK
<1>2. (HeardOnline(g)' <=> HeardOnline(g)) /\ (Announced(g)' <=> Announced(g))
  BY DEF HeardOnline, Announced
<1>3. /\ NoticesFor(g)' = {} => NoticesFor(g) = {}
      /\ \A j \in 1..Len(idle') : IsLast(j, g)' =>
            \E i \in 1..Len(idle) : IsLast(i, g) /\ idle'[j].fn = idle[i].fn
  BY NoticesTaken DEF ListInv
<1>4. LastCounts(g)'
  BY <1>1, <1>2, <1>3, LastCountsKept
<1> QED BY <1>1, <1>2, <1>3, <1>4 DEF ActiveIsListed

\* What a callback for a notice makes of its peer: the list and the callbacks
\* that remain say together what was heard.
LEMMA IdleItself ==
    ASSUME ListInv, idle # <<>>, idle' = Tail(idle), UNCHANGED <<lpc, lhpeer, heard>>,
           NEW g \in 1..Len(peers), 1 \in NoticesFor(g),
           peers'[g].fromaddr = peers[g].fromaddr,
           RowOf(g)' # {} <=> idle[1].fn = "IDLE_peer_online"
    PROVE  LastCounts(g)'
<1>1. LastCounts(g)
  BY DEF ListInv, ListOK
<1>2. (HeardOnline(g)' <=> HeardOnline(g)) /\ (Announced(g)' <=> Announced(g))
  BY DEF HeardOnline, Announced
<1>3. /\ NoticesFor(g)' = {} => IsLast(1, g)
      /\ \A j \in 1..Len(idle') : IsLast(j, g)' =>
            \E i \in 1..Len(idle) : IsLast(i, g) /\ idle'[j].fn = idle[i].fn
  BY NoticesTaken DEF ListInv
<1>4. 1 \in 1..Len(idle)
  BY DEF NoticesFor
<1>5. Announced(g)' => HeardOnline(g)'
  BY <1>1, <1>2 DEF LastCounts
<1>6. ASSUME ~Announced(g), NEW j \in 1..Len(idle'), IsLast(j, g)'
      PROVE  idle'[j].fn = "IDLE_peer_online" <=> HeardOnline(g)'
  BY <1>1, <1>2, <1>3, <1>6 DEF LastCounts
<1>7. ASSUME ~Announced(g), NoticesFor(g)' = {} PROVE RowOf(g)' # {} <=> HeardOnline(g)'
  BY <1>1, <1>2, <1>3, <1>4, <1>7 DEF LastCounts
<1> QED BY <1>2, <1>5, <1>6, <1>7 DEF LastCounts

LEMMA ListRunIdle ==
    ASSUME ListInv, RunIdle PROVE ListOK'
<1> DEFINE h == Head(idle).hpeer
<1>0. /\ idle # <<>> /\ idle' = Tail(idle) /\ UNCHANGED <<lpc, lhpeer, heard>>
  BY DEF RunIdle, listenerVars, historyVars
<1>1. h \in 1..Len(peers) /\ Head(idle) = idle[1] /\ 1 \in 1..Len(idle)
  BY <1>0, IdleHead DEF ListInv
<1>2. /\ h = idle[1].hpeer
      /\ \A g : 1 \in NoticesFor(g) <=> g = h /\ Head(idle).fn # "IDLE_open_chatwin"
  BY <1>1 DEF NoticesFor
<1>3. HeardOK'
  BY <1>0 DEF ListInv, ListOK, HeardOK
<1>4. CASE Head(idle).fn = "IDLE_peer_online" /\ IdlePeerOnline(h)
  <2>1. /\ UNCHANGED peers /\ SetEnabled(h, TRUE)
        /\ rows' = IF RowOf(h) = {} THEN Append(rows, h) ELSE rows
    BY <1>4 DEF IdlePeerOnline
  <2> HIDE DEF h
  <2>2. /\ \A g : g = h => RowOf(g)' # {}
        /\ \A g : g # h => (RowOf(g)' # {} <=> RowOf(g) # {})
        /\ RowsOnce'
    <3>1. CASE RowOf(h) = {}
      BY <1>1, <2>1, <3>1, RowAdded DEF ListInv, ListOK, RowOf
    <3>2. CASE RowOf(h) # {}
      BY <2>1, <3>2 DEF RowOf, RowsOnce, ListInv, ListOK
    <3> QED BY <3>1, <3>2
  <2>3. /\ WinsFollow(wins') /\ Len(wins') = Len(wins)
        /\ \A w \in 1..Len(wins) :
              wins'[w].enabled = IF wins[w].hpeer = h THEN TRUE ELSE wins[w].enabled
    BY <2>1, SetEnabledOK DEF ListInv
  <2>4. ListedCanSend'
    <3> SUFFICES ASSUME NEW w \in 1..Len(wins), NEW g, g = wins'[w].hpeer, RowOf(g)' # {}
                 PROVE  wins'[w].enabled
      BY <2>3 DEF ListedCanSend, RowOf
    <3>1. wins[w].hpeer = g
      BY <2>3 DEF WinsFollow
    <3>2. CASE g = h
      BY <2>3, <3>1, <3>2
    <3>3. CASE g # h
      <4>1. RowOf(g) # {}
        BY <2>2, <3>3
      <4>2. RowOf(wins[w].hpeer) # {}
        BY <3>1, <4>1
      <4> QED BY <2>3, <3>1, <3>3, <4>2 DEF ListInv, ListOK, ListedCanSend
    <3> QED BY <3>2, <3>3
  <2>5. ASSUME NEW g \in 1..Len(peers') PROVE LastCounts(g)' /\ ActiveIsListed(g)'
    <3>1. CASE g = h
      <4>1. RowOf(g)' # {} /\ idle[1].fn = "IDLE_peer_online" /\ 1 \in NoticesFor(g)
        BY <1>1, <1>2, <1>4, <2>2, <3>1
      <4>2. LastCounts(g)'
        BY <1>0, <2>1, <2>5, <4>1, IdleItself
      <4> QED BY <4>1, <4>2 DEF ActiveIsListed
    <3>2. CASE g # h
      <4>1. 1 \notin NoticesFor(g) /\ (RowOf(g)' # {} <=> RowOf(g) # {})
        BY <1>2, <2>2, <3>2
      <4> QED BY <1>0, <2>1, <2>5, <4>1, IdleOthers
    <3> QED BY <3>1, <3>2
  <2> QED BY <1>3, <2>2, <2>4, <2>5 DEF ListOK
<1>5. CASE Head(idle).fn = "IDLE_peer_offline" /\ IdlePeerOffline(h)
  <2>1. /\ peers' = DestroyPeer(peers, h) /\ SetEnabled(h, FALSE)
        /\ rows' = IF RowOf(h) = {} THEN rows ELSE RemoveAt(rows, Min(RowOf(h)))
    BY <1>5 DEF IdlePeerOffline
  <2>0. /\ Len(peers') = Len(peers) /\ ~peers'[h].active
        /\ \A k \in 1..Len(peers) : peers'[k].fromaddr = peers[k].fromaddr
        /\ \A k \in 1..Len(peers) : k # h => peers'[k] = peers[k]
    BY <1>1, <2>1, DestroyPeerOK DEF ListInv, HandlesInv
  <2> HIDE DEF h
  <2>2. /\ \A g : g = h => RowOf(g)' = {}
        /\ \A g : g # h => (RowOf(g)' # {} <=> RowOf(g) # {})
        /\ RowsOnce'
    <3>1. CASE RowOf(h) # {}
      <4>1. HandlesInv /\ RowsOnce
        BY DEF ListInv, ListOK
      <4>2. PICK i : i = h
        OBVIOUS
      <4>3. RowOf(i) # {} /\ rows' = RemoveAt(rows, Min(RowOf(i)))
        BY <2>1, <3>1, <4>2
      <4>4. /\ \A g : g # i => (RowOf(g)' # {} <=> RowOf(g) # {})
            /\ RowsOnce' /\ RowOf(i)' = {}
        BY <4>1, <4>3, RowRemoved, Zenon
      <4> QED BY <4>2, <4>4
    <3>2. CASE RowOf(h) = {}
      BY <2>1, <3>2 DEF RowOf, RowsOnce, ListInv, ListOK
    <3> QED BY <3>1, <3>2
  <2>3. /\ WinsFollow(wins') /\ Len(wins') = Len(wins)
        /\ \A w \in 1..Len(wins) :
              wins'[w].enabled = IF wins[w].hpeer = h THEN FALSE ELSE wins[w].enabled
    BY <2>1, SetEnabledOK DEF ListInv
  <2>4. ListedCanSend'
    <3> SUFFICES ASSUME NEW w \in 1..Len(wins), NEW g, g = wins'[w].hpeer, RowOf(g)' # {}
                 PROVE  wins'[w].enabled
      BY <2>3 DEF ListedCanSend, RowOf
    <3>1. wins[w].hpeer = g
      BY <2>3 DEF WinsFollow
    <3>2. g # h
      BY <2>2
    <3>3. RowOf(g) # {}
      BY <2>2, <3>2
    <3>4. RowOf(wins[w].hpeer) # {}
      BY <3>1, <3>3
    <3> QED BY <2>3, <3>1, <3>2, <3>4 DEF ListInv, ListOK, ListedCanSend
  <2>5. ASSUME NEW g \in 1..Len(peers') PROVE LastCounts(g)' /\ ActiveIsListed(g)'
    <3>1. CASE g = h
      <4>1. /\ RowOf(g)' = {} /\ idle[1].fn # "IDLE_peer_online" /\ 1 \in NoticesFor(g)
            /\ peers'[g].fromaddr = peers[g].fromaddr /\ ~peers'[g].active
        BY <1>1, <1>2, <1>5, <2>0, <2>2, <3>1
      <4>2. LastCounts(g)'
        BY <1>0, <2>0, <2>5, <4>1, IdleItself
      <4> QED BY <4>1, <4>2 DEF ActiveIsListed
    <3>2. CASE g # h
      <4>1. 1 \notin NoticesFor(g) /\ (RowOf(g)' # {} <=> RowOf(g) # {})
        BY <1>2, <2>2, <3>2
      <4> QED BY <1>0, <2>0, <2>5, <3>2, <4>1, IdleOthers
    <3> QED BY <3>1, <3>2
  <2> QED BY <1>3, <2>2, <2>4, <2>5 DEF ListOK
<1>6. CASE Head(idle).fn = "IDLE_open_chatwin" /\ IdleOpenChatwin(h, Head(idle).ct)
  <2>1. Head(idle).ct \in Places
    BY <1>0, <1>6, IdleHead DEF ListInv
  <2>2. /\ WinsFollow(wins') /\ UNCHANGED <<peers, rows>>
        /\ \A w \in 1..Len(wins) : wins'[w].enabled = wins[w].enabled
    BY <1>1, <1>6, <2>1, IdleOpenOK DEF ListInv
  <2>3. RowsOnce' /\ \A g : RowOf(g)' = RowOf(g)
    BY <2>2 DEF RowsOnce, RowOf, ListInv, ListOK
  <2>4. ListedCanSend'
    <3> SUFFICES ASSUME NEW w \in 1..Len(wins'), RowOf(wins'[w].hpeer) # {}
                 PROVE  wins'[w].enabled
      BY <2>3 DEF ListedCanSend
    <3>1. CASE w \in 1..Len(wins)
      BY <2>2, <3>1 DEF ListInv, ListOK, ListedCanSend, WinsFollow
    <3>2. CASE w \notin 1..Len(wins)
      BY <2>2, <3>2 DEF WinsFollow
    <3> QED BY <3>1, <3>2
  <2>5. ASSUME NEW g \in 1..Len(peers') PROVE LastCounts(g)' /\ ActiveIsListed(g)'
    <3>1. 1 \notin NoticesFor(g) /\ (RowOf(g)' # {} <=> RowOf(g) # {})
      BY <1>2, <1>6, <2>3
    <3> QED BY <1>0, <2>2, <2>5, <3>1, IdleOthers
  <2> QED BY <1>3, <2>3, <2>4, <2>5 DEF ListOK
<1> QED BY <1>4, <1>5, <1>6 DEF RunIdle

LEMMA ListNext ==
    ASSUME ListInv, [Next]_vars PROVE ListInv'
<1>1. HandlesInv'
  BY HandlesNext DEF ListInv
<1>2. ASSUME NEW m \in OnlineMsg, HandleOnline(m) PROVE ListOK'
  BY <1>2, ListHandleOnline
<1>3. ASSUME NEW m \in OfflineMsg, HandleOffline(m) PROVE ListOK'
  BY <1>3, ListHandleOffline
<1>4. ASSUME NEW m, HandleText(m) \/ IgnoreNotice(m) PROVE ListOK'
  BY <1>4, ListListenerAside
<1>5. ASSUME Listen \/ Stop \/ ListenerStores \/ ListenerLoads \/ ListenerBumps PROVE ListOK'
  BY <1>5, ListListenerAside
<1>6. ASSUME QueueOnline \/ QueueText PROVE ListOK'
  BY <1>6, ListQueueOnline, ListQueueText
<1>7. ASSUME NEW h, SelectRow(h) PROVE ListOK'
  BY <1>7, ListUser
<1>8. ASSUME NEW k \in DOMAIN wins, CloseWindow(k) PROVE ListOK'
  BY <1>8, ListUser
<1>9. ASSUME NEW k \in DOMAIN wins, Send(k) PROVE ListOK'
  BY <1>9, ListMainAlone
<1>10. ASSUME RunIdle PROVE ListOK'
  BY <1>10, ListRunIdle
<1>11. ASSUME MainAlone \/ MainStores \/ MainLoads \/ MainBumps PROVE ListOK'
  BY <1>11, ListMainAlone, ListUser
<1>12. CASE UNCHANGED vars
  BY <1>12, ListMainAlone, <1>1 DEF ListInv
<1>13. CASE Next
  BY <1>13, StepIsAction, <1>1, <1>2, <1>3, <1>4, <1>5, <1>6, <1>7, <1>8, <1>9, <1>10, <1>11
  DEF ListInv
<1> QED BY <1>12, <1>13

LEMMA ListImplies ==
    ASSUME ListInv PROVE ListFollowsNotices
<1>0. /\ DOMAIN idle = 1..Len(idle) /\ DOMAIN wins = 1..Len(wins)
  BY DEF ListInv, HandlesInv, IdleOK, WinsOK
<1> SUFFICES ASSUME NEW k \in 1..Len(peers), ~NoticesWait(k)
             PROVE  /\ RowOf(k) # {} <=> heard[peers[k].fromaddr] = "online"
                    /\ RowOf(k) # {} => \A w \in WinOf(k) : wins[w].enabled
                    /\ peers[k].active => RowOf(k) # {}
  BY DEF ListFollowsNotices
<1>1. ~Announced(k) /\ NoticesFor(k) = {}
  BY <1>0 DEF NoticesWait, Announced, NoticesFor
<1>2. LastCounts(k) /\ ActiveIsListed(k) /\ ListedCanSend
  BY DEF ListInv, ListOK
<1>3. \A w \in WinOf(k) : w \in 1..Len(wins) /\ wins[w].hpeer = k
  BY <1>0 DEF WinOf
<1> QED BY <1>1, <1>2, <1>3 DEF LastCounts, ActiveIsListed, HeardOnline, ListedCanSend

\* However the notices of the tracker, the texts, the callbacks and the user
\* interleave, once the callbacks about a peer have run the list shows it
\* exactly if the last notice about it was PEER_ONLINE.
THEOREM ListAlwaysFollowsNotices == Spec => []ListFollowsNotices
<1>1. Init => ListInv
  BY InitHandles, InitList DEF ListInv
<1>2. ListInv /\ [Next]_vars => ListInv'
  BY ListNext
<1>3. ListInv => ListFollowsNotices
  BY ListImplies
<1> QED BY <1>1, <1>2, <1>3, PTL DEF Spec

----------------------------------------------------------------------------
(* No text is lost as long as no two appends to GChatTexts overlap. *)

\* The listener has a text that it has yet to hand to the main thread; and how
\* many texts it has counted in GChatTexts.
InHand == lpc \in {"store", "load", "bump", "queue"}
Counted == IF lpc \in {"store", "load", "bump"} THEN Len(received) - 1 ELSE Len(received)

\* Either thread finds at the len what it stored there.
AppendsOK ==
    /\ ~(ListenerAppends /\ MainAppends)
    /\ lpc \in {"load", "bump"} => items[chatLen + 1] = Last(received)
    /\ lpc = "bump" => llen = chatLen
    /\ lpc = "queue" => items[chatLen] = Last(received)
    /\ gpc \in {"load", "bump"} => items[chatLen + 1] = gtext
    /\ gpc = "bump" => glen = chatLen
    /\ gtext.fromaddr = NoAddr

\* The texts received are from peers in the table and numbered as they came.
ReceivedOK ==
    /\ \A k \in 1..Len(received) :
          /\ received[k].text <= msgs
          /\ \E h \in 1..Len(peers) : peers[h].fromaddr = received[k].fromaddr
    /\ \A k \in 1..Len(received) : received[k].toaddr = NoAddr
    /\ \A j, k \in 1..Len(received) : j < k => received[j].text < received[k].text

\* Apart from the user's own, GChatTexts holds the texts received, each once
\* and in their order.
LogOK ==
    /\ \A i \in 1..chatLen : items[i].fromaddr # NoAddr =>
          \E k \in 1..Counted : items[i] = received[k]
    /\ \A k \in 1..Counted : \E i \in 1..chatLen : items[i] = received[k]
    /\ \A i, j \in 1..chatLen :
          i < j /\ items[i].fromaddr # NoAddr /\ items[j].fromaddr # NoAddr =>
             items[i].text < items[j].text

\* What the listener has in hand is the last text, and goes to its peer.
HandOK ==
    /\ InHand <=> lmsg \in TextMsg
    /\ InHand => /\ received # <<>> /\ lhpeer \in 1..Len(peers)
                 /\ Last(received).fromaddr = peers[lhpeer].fromaddr

IsText(j) == idle[j].fn = "IDLE_open_chatwin"
TextAt(j) == items[idle[j].ct]

\* The callbacks bring texts of their peers in the order of receipt.
PendingOK ==
    /\ \A j \in 1..Len(idle) : IsText(j) =>
          /\ idle[j].ct \in 1..chatLen
          /\ TextAt(j).fromaddr = peers[idle[j].hpeer].fromaddr
          /\ InHand => TextAt(j).text < Last(received).text
    /\ \A j, k \in 1..Len(idle) :
          j < k /\ IsText(j) /\ IsText(k) => TextAt(j).text < TextAt(k).text

\* What a window with these texts shows is from address a and has been received,
\* or is the user's, ...
ShownReceived(texts, a, recv) ==
    \A k \in 1..Len(texts) :
       /\ texts[k].fromaddr \in {a, NoAddr}
       /\ texts[k].fromaddr = a => \E n \in 1..Len(recv) : texts[k] = recv[n]

\* ... and what it lacks is on the way.
NoneMissing(texts, a, recv, wait) ==
    \A n \in 1..Len(recv) : recv[n].fromaddr = a =>
       recv[n] \in wait \/ \E k \in 1..Len(texts) : texts[k] = recv[n]

InOrder(texts, a) ==
    \A j, k \in 1..Len(texts) :
       /\ texts[j].fromaddr = a /\ texts[k].fromaddr = a
       /\ j < k /\ texts[j].text >= texts[k].text
       => \E i \in 1..j : texts[i] = texts[k]

AtMostTwice(texts, a) ==
    \A i, j, k \in 1..Len(texts) :
       ~(i < j /\ j < k /\ texts[i].fromaddr = a /\ texts[i] = texts[j] /\ texts[j] = texts[k])

\* The window can be shown t once more: it shows t once if it opened meanwhile,
\* before anything that came after t, and otherwise nothing that came after t.
Fits(t, texts, a) ==
    /\ \A j \in 1..Len(texts) : texts[j].fromaddr = a /\ texts[j].text >= t.text =>
          \E i \in 1..j : texts[i] = t
    /\ \A j, k \in 1..Len(texts) : texts[j] = t /\ texts[k] = t => j = k

\* A window, when recv has been received and the texts in wait are on the way.
ShowsWell(texts, a, recv, wait) ==
    /\ ShownReceived(texts, a, recv)
    /\ NoneMissing(texts, a, recv, wait)
    /\ InOrder(texts, a)
    /\ AtMostTwice(texts, a)
    /\ \A t \in wait : t.fromaddr = a /\ Fits(t, texts, a)

WindowOK(h) == ShowsWell(TextsOf(h), peers[h].fromaddr, received, TextsWait(h))

TextsInOrder ==
    /\ AppendsOK
    /\ ReceivedOK
    /\ LogOK
    /\ HandOK
    /\ PendingOK
    /\ \A h \in 1..Len(peers) : WindowOK(h)

TextInv == HandlesInv /\ (~overlap => TextsInOrder)

----------------------------------------------------------------------------
(* What becomes of a window *)

\* One more text at the end.
LEMMA AtTheEnd ==
    ASSUME NEW texts \in Seq(ChatTexts), NEW t \in ChatTexts
    PROVE  /\ Len(texts) \in Nat /\ Len(Append(texts, t)) = Len(texts) + 1
           /\ Append(texts, t)[Len(texts) + 1] = t
           /\ \A k \in 1..Len(texts) : Append(texts, t)[k] = texts[k]
           /\ \A k \in 1..Len(texts) : k \in 1..(Len(texts) + 1)
           /\ Len(texts) + 1 \in 1..(Len(texts) + 1)
           /\ \A k \in 1..(Len(texts) + 1) : k \in 1..Len(texts) \/ k = Len(texts) + 1
OBVIOUS

\* A text is received that is later than all the others.
LEMMA Arrives ==
    ASSUME NEW texts \in Seq(ChatTexts), NEW recv \in Seq(ChatTexts), NEW t \in ChatTexts,
           NEW a, NEW wait, ShowsWell(texts, a, recv, wait),
           \A n \in 1..Len(recv) : recv[n].text < t.text
    PROVE  ShowsWell(texts, a, Append(recv, t), IF t.fromaddr = a THEN wait \cup {t} ELSE wait)
<1> DEFINE recv1 == Append(recv, t)
           wait1 == IF t.fromaddr = a THEN wait \cup {t} ELSE wait
<1>1. /\ Len(recv) \in Nat /\ Len(recv1) = Len(recv) + 1 /\ recv1[Len(recv) + 1] = t
      /\ \A n \in 1..Len(recv) : recv1[n] = recv[n] /\ n \in 1..Len(recv1)
      /\ \A n \in 1..Len(recv1) : n \in 1..Len(recv) \/ n = Len(recv) + 1
  BY AtTheEnd
<1>2. wait \subseteq wait1 /\ (t.fromaddr = a => t \in wait1)
      /\ \A u \in wait1 : u \in wait \/ (u = t /\ t.fromaddr = a)
  OBVIOUS
<1> HIDE DEF recv1, wait1
<1>3. ShownReceived(texts, a, recv1)
  <2> SUFFICES ASSUME NEW k \in 1..Len(texts), texts[k].fromaddr = a
               PROVE  \E n \in 1..Len(recv1) : texts[k] = recv1[n]
    BY DEF ShowsWell, ShownReceived
  <2>1. PICK n \in 1..Len(recv) : texts[k] = recv[n]
    BY DEF ShowsWell, ShownReceived
  <2> QED BY <1>1, <2>1
<1>4. NoneMissing(texts, a, recv1, wait1)
  <2> SUFFICES ASSUME NEW n \in 1..Len(recv1), recv1[n].fromaddr = a
               PROVE  recv1[n] \in wait1 \/ \E k \in 1..Len(texts) : texts[k] = recv1[n]
    BY DEF NoneMissing
  <2>1. CASE n \in 1..Len(recv)
    BY <1>1, <1>2, <2>1 DEF ShowsWell, NoneMissing
  <2>2. CASE n = Len(recv) + 1
    BY <1>1, <1>2, <2>2
  <2> QED BY <1>1, <2>1, <2>2
<1>5. ASSUME t.fromaddr = a PROVE Fits(t, texts, a)
  <2>1. ASSUME NEW j \in 1..Len(texts), texts[j].fromaddr = a
        PROVE  ~(texts[j].text >= t.text)
    <3>1. PICK n \in 1..Len(recv) : texts[j] = recv[n]
      BY <2>1 DEF ShowsWell, ShownReceived
    <3>2. recv[n] \in ChatTexts /\ recv[n].text < t.text
      OBVIOUS
    <3>3. recv[n].text \in Nat /\ t.text \in Nat
      BY <3>2 DEF ChatTexts
    <3> QED BY <3>1, <3>2, <3>3
  <2>2. t.text >= t.text
    BY DEF ChatTexts
  <2> QED BY <1>5, <2>1, <2>2 DEF Fits
<1>6. \A u \in wait1 : u.fromaddr = a /\ Fits(u, texts, a)
  BY <1>2, <1>5, Zenon DEF ShowsWell
<1>7. ShowsWell(texts, a, recv1, wait1)
  BY <1>3, <1>4, <1>6 DEF ShowsWell
<1> QED BY <1>7 DEF recv1, wait1

\* The window shows the first of the texts on the way.
LEMMA IsShown ==
    ASSUME NEW texts \in Seq(ChatTexts), NEW recv \in Seq(ChatTexts), NEW t \in ChatTexts,
           NEW a, NEW wait \in SUBSET ChatTexts, NEW wait1 \in SUBSET wait,
           ShowsWell(texts, a, recv, wait), t \in wait, wait \subseteq wait1 \cup {t},
           \E n \in 1..Len(recv) : t = recv[n],
           \A u \in wait1 : t.text < u.text
    PROVE  ShowsWell(Append(texts, t), a, recv, wait1)
<1> DEFINE texts1 == Append(texts, t)
<1>1. /\ Len(texts) \in Nat /\ Len(texts1) = Len(texts) + 1 /\ texts1[Len(texts) + 1] = t
      /\ \A k \in 1..Len(texts) : texts1[k] = texts[k]
      /\ \A k \in 1..Len(texts) : k \in 1..Len(texts1)
      /\ Len(texts) + 1 \in 1..Len(texts1)
      /\ \A k \in 1..Len(texts1) : k \in 1..Len(texts) \/ k = Len(texts) + 1
  BY AtTheEnd
<1> HIDE DEF texts1
<1>2. t.fromaddr = a /\ Fits(t, texts, a)
  BY DEF ShowsWell
<1>3. ShownReceived(texts1, a, recv)
  BY <1>1, <1>2 DEF ShowsWell, ShownReceived
<1>4. NoneMissing(texts1, a, recv, wait1)
  <2> SUFFICES ASSUME NEW n \in 1..Len(recv), recv[n].fromaddr = a
               PROVE  recv[n] \in wait1 \/ \E k \in 1..Len(texts1) : texts1[k] = recv[n]
    BY DEF NoneMissing
  <2>1. recv[n] \in wait \/ \E k \in 1..Len(texts) : texts[k] = recv[n]
    BY DEF ShowsWell, NoneMissing
  <2> QED BY <1>1, <2>1
<1>5. InOrder(texts1, a)
  <2> SUFFICES ASSUME NEW j \in 1..Len(texts1), NEW k \in 1..Len(texts1),
                      texts1[j].fromaddr = a, texts1[k].fromaddr = a,
                      j < k, texts1[j].text >= texts1[k].text
               PROVE  \E i \in 1..j : texts1[i] = texts1[k]
    BY DEF InOrder
  <2>1. j \in 1..Len(texts) /\ \A i \in 1..j : i \in 1..Len(texts)
    BY <1>1
  <2>2. CASE k \in 1..Len(texts)
    <3>1. \E i \in 1..j : texts[i] = texts[k]
      BY <1>1, <2>1, <2>2 DEF ShowsWell, InOrder
    <3> QED BY <1>1, <2>1, <2>2, <3>1
  <2>3. CASE k = Len(texts) + 1
    <3>1. \E i \in 1..j : texts[i] = t
      BY <1>1, <1>2, <2>1, <2>3 DEF Fits
    <3> QED BY <1>1, <2>1, <2>3, <3>1
  <2> QED BY <1>1, <2>2, <2>3
<1>6. AtMostTwice(texts1, a)
  <2> SUFFICES ASSUME NEW i \in 1..Len(texts1), NEW j \in 1..Len(texts1), NEW k \in 1..Len(texts1),
                      i < j, j < k, texts1[i].fromaddr = a,
                      texts1[i] = texts1[j], texts1[j] = texts1[k]
               PROVE  FALSE
    BY DEF AtMostTwice
  <2>1. i \in 1..Len(texts) /\ j \in 1..Len(texts)
    BY <1>1
  <2>2. CASE k \in 1..Len(texts)
    BY <1>1, <2>1, <2>2 DEF ShowsWell, AtMostTwice
  <2>3. CASE k = Len(texts) + 1
    <3>1. texts[i] = t /\ texts[j] = t
      BY <1>1, <2>1, <2>3
    <3>2. i = j
      BY <1>2, <2>1, <3>1 DEF Fits
    <3> QED BY <2>1, <3>2
  <2> QED BY <1>1, <2>2, <2>3
<1>7. ASSUME NEW u \in wait1 PROVE u.fromaddr = a /\ Fits(u, texts1, a)
  <2>1. u \in wait /\ u.fromaddr = a /\ Fits(u, texts, a)
    BY DEF ShowsWell
  <2>2. t.text < u.text /\ t # u /\ ~(t.text >= u.text)
    BY <2>1 DEF ChatTexts
  <2>3. ASSUME NEW j \in 1..Len(texts1), texts1[j].fromaddr = a, texts1[j].text >= u.text
        PROVE  \E i \in 1..j : texts1[i] = u
    <3>1. j \in 1..Len(texts) /\ \A i \in 1..j : i \in 1..Len(texts)
      BY <1>1, <2>2, <2>3
    <3>2. \E i \in 1..j : texts[i] = u
      BY <1>1, <2>1, <2>3, <3>1 DEF Fits
    <3> QED BY <1>1, <3>1, <3>2
  <2>4. ASSUME NEW j \in 1..Len(texts1), NEW k \in 1..Len(texts1), texts1[j] = u, texts1[k] = u
        PROVE  j = k
    <3>1. j \in 1..Len(texts) /\ k \in 1..Len(texts)
      BY <1>1, <2>2, <2>4
    <3> QED BY <1>1, <2>1, <2>4, <3>1 DEF Fits
  <2> QED BY <2>1, <2>3, <2>4 DEF Fits
<1>8. ShowsWell(texts1, a, recv, wait1)
  BY <1>3, <1>4, <1>5, <1>6, <1>7 DEF ShowsWell
<1> QED BY <1>8 DEF texts1

\* The window shows a text that is not from a.
LEMMA OtherIsShown ==
    ASSUME NEW texts \in Seq(ChatTexts), NEW recv \in Seq(ChatTexts), NEW t \in ChatTexts,
           NEW a, NEW wait, ShowsWell(texts, a, recv, wait), t.fromaddr # a,
           t.fromaddr = NoAddr
    PROVE  ShowsWell(Append(texts, t), a, recv, wait)
<1> DEFINE texts1 == Append(texts, t)
<1>1. /\ Len(texts) \in Nat /\ Len(texts1) = Len(texts) + 1 /\ texts1[Len(texts) + 1] = t
      /\ \A k \in 1..Len(texts) : texts1[k] = texts[k]
      /\ \A k \in 1..Len(texts) : k \in 1..Len(texts1)
      /\ \A k \in 1..Len(texts1) : k \in 1..Len(texts) \/ k = Len(texts) + 1
  BY AtTheEnd
<1> HIDE DEF texts1
<1>2. \A k \in 1..Len(texts1) : texts1[k].fromaddr = a => k \in 1..Len(texts)
  BY <1>1
<1>3. \A k \in 1..Len(texts) : \A i \in 1..k : i \in 1..Len(texts)
  BY <1>1
<1>4. ShownReceived(texts1, a, recv)
  BY <1>1, <1>2 DEF ShowsWell, ShownReceived
<1>5. NoneMissing(texts1, a, recv, wait)
  BY <1>1 DEF ShowsWell, NoneMissing
<1>6. InOrder(texts1, a)
  <2> SUFFICES ASSUME NEW j \in 1..Len(texts1), NEW k \in 1..Len(texts1),
                      texts1[j].fromaddr = a, texts1[k].fromaddr = a,
                      j < k, texts1[j].text >= texts1[k].text
               PROVE  \E i \in 1..j : texts1[i] = texts1[k]
    BY DEF InOrder
  <2>1. j \in 1..Len(texts) /\ k \in 1..Len(texts)
    BY <1>2
  <2>2. \E i \in 1..j : texts[i] = texts[k]
    BY <1>1, <2>1 DEF ShowsWell, InOrder
  <2> QED BY <1>1, <1>3, <2>1, <2>2
<1>7. AtMostTwice(texts1, a)
  <2> SUFFICES ASSUME NEW i \in 1..Len(texts1), NEW j \in 1..Len(texts1), NEW k \in 1..Len(texts1),
                      i < j, j < k, texts1[i].fromaddr = a,
                      texts1[i] = texts1[j], texts1[j] = texts1[k]
               PROVE  FALSE
    BY DEF AtMostTwice
  <2>1. i \in 1..Len(texts) /\ j \in 1..Len(texts) /\ k \in 1..Len(texts)
    BY <1>2
  <2> QED BY <1>1, <2>1 DEF ShowsWell, AtMostTwice
<1>8. ASSUME NEW u \in wait PROVE u.fromaddr = a /\ Fits(u, texts1, a)
  <2>1. u.fromaddr = a /\ Fits(u, texts, a)
    BY DEF ShowsWell
  <2>2. ASSUME NEW j \in 1..Len(texts1), texts1[j].fromaddr = a, texts1[j].text >= u.text
        PROVE  \E i \in 1..j : texts1[i] = u
    <3>1. j \in 1..Len(texts)
      BY <1>2, <2>2
    <3>2. \E i \in 1..j : texts[i] = u
      BY <1>1, <2>1, <2>2, <3>1 DEF Fits
    <3> QED BY <1>1, <1>3, <3>1, <3>2
  <2>3. ASSUME NEW j \in 1..Len(texts1), NEW k \in 1..Len(texts1), texts1[j] = u, texts1[k] = u
        PROVE  j = k
    <3>1. j \in 1..Len(texts) /\ k \in 1..Len(texts)
      BY <1>2, <2>1, <2>3
    <3> QED BY <1>1, <2>1, <2>3, <3>1 DEF Fits
  <2> QED BY <2>1, <2>2, <2>3 DEF Fits
<1>9. ShowsWell(texts1, a, recv, wait)
  BY <1>4, <1>5, <1>6, <1>7, <1>8 DEF ShowsWell
<1> QED BY <1>9 DEF texts1

\* There is no window, and nothing came from a or all that did is on the way.
LEMMA NothingShown ==
    ASSUME NEW recv, NEW a, NEW wait, \A t \in wait : t.fromaddr = a,
           \A n \in 1..Len(recv) : recv[n].fromaddr = a => recv[n] \in wait
    PROVE  ShowsWell(<<>>, a, recv, wait)
<1>1. \A k \in 1..Len(<<>>) : FALSE
  OBVIOUS
<1> QED BY <1>1 DEF ShowsWell, ShownReceived, NoneMissing, InOrder, AtMostTwice, Fits

----------------------------------------------------------------------------
(* What refresh_msghistory shows *)

\* The window shows what is from a among the first n of GChatTexts, in order, and
\* beside it only texts of the user's.
HistoryOf(texts, n, a) ==
    /\ texts \in Seq(ChatTexts)
    /\ \A k \in 1..Len(texts) : texts[k].fromaddr \in {a, NoAddr}
    /\ \A k \in 1..Len(texts) : \E i \in 1..n : texts[k] = items[i]
    /\ \A i \in 1..n : items[i].fromaddr = a => \E k \in 1..Len(texts) : texts[k] = items[i]
    /\ \A j, k \in 1..Len(texts) :
          j < k /\ texts[j].fromaddr = a /\ texts[k].fromaddr = a => texts[j].text < texts[k].text

\* One round of its loop.
LEMMA HistoryGoesOn ==
    ASSUME items \in [Places -> ChatTexts], NEW p, NEW n \in Places, NEW texts,
           HistoryOf(texts, n - 1, p.fromaddr),
           items[n].toaddr = p.toaddr => items[n].fromaddr = NoAddr,
           \A i \in 1..(n - 1) : items[i].fromaddr = p.fromaddr /\ items[n].fromaddr = p.fromaddr =>
              items[i].text < items[n].text
    PROVE  HistoryOf(AddChatText(texts, items[n], p), n, p.fromaddr)
<1> DEFINE a == p.fromaddr
<1>0. n \in Nat \ {0} /\ \A i \in 1..(n - 1) : i \in 1..n
  BY ClientAssumption DEF Places
<1>1. texts \in Seq(ChatTexts) /\ items[n] \in ChatTexts /\ n \in 1..n
  BY <1>0 DEF HistoryOf
<1>2. CASE AddChatText(texts, items[n], p) = texts /\ items[n].fromaddr # a
  <2>1. \A i \in 1..n : i \in 1..(n - 1) \/ i = n
    BY <1>0
  <2>2. HistoryOf(texts, n, a)
    BY <1>0, <1>1, <1>2, <2>1 DEF HistoryOf
  <2> QED BY <1>2, <2>2
<1>3. CASE /\ AddChatText(texts, items[n], p) = Append(texts, items[n])
           /\ items[n].fromaddr \in {a, NoAddr}
  <2> DEFINE texts1 == Append(texts, items[n])
  <2>1. /\ Len(texts) \in Nat /\ Len(texts1) = Len(texts) + 1 /\ texts1[Len(texts) + 1] = items[n]
        /\ \A k \in 1..Len(texts) : texts1[k] = texts[k]
        /\ \A k \in 1..Len(texts) : k \in 1..Len(texts1)
        /\ Len(texts) + 1 \in 1..Len(texts1)
        /\ \A k \in 1..Len(texts1) : k \in 1..Len(texts) \/ k = Len(texts) + 1
        /\ texts1 \in Seq(ChatTexts)
    BY <1>1, AtTheEnd
  <2> HIDE DEF texts1
  <2>2. ASSUME NEW k \in 1..Len(texts1) PROVE \E i \in 1..n : texts1[k] = items[i]
    <3>1. CASE k \in 1..Len(texts)
      BY <1>0, <2>1, <3>1 DEF HistoryOf
    <3>2. CASE k = Len(texts) + 1
      BY <1>1, <2>1, <3>2
    <3> QED BY <2>1, <3>1, <3>2
  <2>3. ASSUME NEW i \in 1..n, items[i].fromaddr = a
        PROVE  \E k \in 1..Len(texts1) : texts1[k] = items[i]
    <3>1. CASE i \in 1..(n - 1)
      BY <2>1, <2>3, <3>1 DEF HistoryOf
    <3>2. CASE i = n
      BY <2>1, <3>2
    <3> QED BY <1>0, <3>1, <3>2
  <2>4. ASSUME NEW j \in 1..Len(texts1), NEW k \in 1..Len(texts1),
               j < k, texts1[j].fromaddr = a, texts1[k].fromaddr = a
        PROVE  texts1[j].text < texts1[k].text
    <3>1. j \in 1..Len(texts)
      BY <2>1, <2>4
    <3>2. CASE k \in 1..Len(texts)
      BY <2>1, <2>4, <3>1, <3>2 DEF HistoryOf
    <3>3. CASE k = Len(texts) + 1
      <4>1. PICK i \in 1..(n - 1) : texts[j] = items[i]
        BY <3>1 DEF HistoryOf
      <4> QED BY <2>1, <2>4, <3>1, <3>3, <4>1
    <3> QED BY <2>1, <3>2, <3>3
  <2>5. HistoryOf(texts1, n, a)
    <3>1. \A k \in 1..Len(texts1) : texts1[k].fromaddr \in {a, NoAddr}
      BY <1>3, <2>1 DEF HistoryOf
    <3> QED BY <2>1, <2>2, <2>3, <2>4, <3>1 DEF HistoryOf
  <2> QED BY <1>3, <2>5 DEF texts1
<1> QED BY <1>2, <1>3 DEF AddChatText

\* All its rounds.
LEMMA HistoryIsOf ==
    ASSUME items \in [Places -> ChatTexts], NEW p, chatLen \in 0..(MaxMsgs + MaxSends),
           \A i \in 1..chatLen : items[i].toaddr = p.toaddr => items[i].fromaddr = NoAddr,
           \A i, j \in 1..chatLen :
              i < j /\ items[i].fromaddr = p.fromaddr /\ items[j].fromaddr = p.fromaddr =>
                 items[i].text < items[j].text
    PROVE  HistoryOf(MsgHistory(p), chatLen, p.fromaddr)
<1> DEFINE taken == CHOOSE f : Shows(f, chatLen, p)
           Bad == {k \in 0..chatLen : ~HistoryOf(taken[k], k, p.fromaddr)}
<1>0. chatLen \in Nat
  BY ClientAssumption
<1>1. Shows(taken, chatLen, p)
  BY HistoryExists
<1>2. MsgHistory(p) = taken[chatLen]
  BY DEF MsgHistory, Shows
<1> HIDE DEF taken
<1>3. ASSUME Bad # {} PROVE FALSE
  <2>1. PICK m \in Bad : \A j \in Bad : m <= j
    <3>1. Bad \in SUBSET Nat
      BY <1>0
    <3> HIDE DEF Bad
    <3>2. Min(Bad) \in Bad /\ \A j \in Bad : Min(Bad) <= j
      BY <1>3, <3>1, LeastOf DEF Min
    <3> QED BY <3>2
  <2>2. m \in 0..chatLen /\ m \in Nat /\ ~HistoryOf(taken[m], m, p.fromaddr)
    BY <1>0, <2>1
  <2>3. CASE m = 0
    <3>1. taken[m] = <<>>
      BY <1>1, <2>2, <2>3 DEF Shows
    <3>2. <<>> \in Seq(ChatTexts) /\ \A k \in 1..Len(<<>>) : FALSE
      OBVIOUS
    <3>3. \A i \in 1..0 : FALSE
      OBVIOUS
    <3> QED BY <2>2, <2>3, <3>1, <3>2, <3>3 DEF HistoryOf
  <2>4. CASE m # 0
    <3>1. m - 1 \in 0..chatLen /\ ~(m <= m - 1) /\ m \in Places
      BY <1>0, <2>2, <2>4, ClientAssumption DEF Places
    <3>2. HistoryOf(taken[m - 1], m - 1, p.fromaddr)
      BY <2>1, <3>1
    <3>3. taken[m] = AddChatText(taken[m - 1], items[m], p)
      BY <1>1, <2>2, <2>4 DEF Shows
    <3>4. \A i \in 1..(m - 1) : /\ i \in 1..chatLen /\ m \in 1..chatLen /\ i < m
      BY <1>0, <2>2, <2>4
    <3>5. \A i \in 1..(m - 1) : items[i].fromaddr = p.fromaddr /\ items[m].fromaddr = p.fromaddr =>
             items[i].text < items[m].text
      BY <3>4
    <3>6. HistoryOf(AddChatText(taken[m - 1], items[m], p), m, p.fromaddr)
      <4>1. items[m].toaddr = p.toaddr => items[m].fromaddr = NoAddr
        BY <1>0, <2>2, <2>4
      <4> QED BY <3>1, <3>2, <3>5, <4>1, HistoryGoesOn
    <3> QED BY <2>2, <3>3, <3>6
  <2> QED BY <2>3, <2>4
<1> QED BY <1>0, <1>2, <1>3

\* A window that opens now shows well, whatever waits for its callback.
LEMMA OpensWell ==
    ASSUME HandlesInv, LogOK, ReceivedOK, NEW a \in FromAddrs, NEW p, p.fromaddr = a,
           p.toaddr # NoAddr,
           NEW wait, \A t \in wait : t.fromaddr = a,
           \A n \in 1..Len(received) : n \notin 1..Counted /\ received[n].fromaddr = a =>
              received[n] \in wait,
           \A t \in wait : \/ \E i \in 1..chatLen : t = items[i]
                           \/ \E n \in 1..Len(received) : n \notin 1..Counted /\ t = received[n]
    PROVE  ShowsWell(MsgHistory(p), a, received, wait)
<1> DEFINE texts == MsgHistory(p)
<1>1. a # NoAddr
  BY ClientAssumption
<1>2. /\ chatLen \in 0..(MaxMsgs + MaxSends) /\ chatLen \in Nat
      /\ items \in [Places -> ChatTexts] /\ \A i \in 1..chatLen : i \in Places
      /\ received \in Seq(ChatTexts) /\ Len(received) \in Nat
      /\ \A n \in 1..Counted : n \in 1..Len(received)
  BY ClientAssumption DEF HandlesInv, CountsOK, TextsOK, Places, ListenerOwes, MainOwes, Counted
<1>3. HistoryOf(texts, chatLen, a)
  <2>1. \A i, j \in 1..chatLen : i < j /\ items[i].fromaddr = a /\ items[j].fromaddr = a =>
           items[i].text < items[j].text
    BY <1>1 DEF LogOK
  <2>2. ASSUME NEW i \in 1..chatLen, items[i].toaddr = p.toaddr
        PROVE  items[i].fromaddr = NoAddr
    <3>1. items[i].toaddr # NoAddr
      BY <2>2
    <3>2. \A k \in 1..Counted : items[i] # received[k]
      BY <1>2, <3>1 DEF ReceivedOK
    <3> QED BY <3>2 DEF LogOK
  <2> QED BY <1>2, <2>1, <2>2, HistoryIsOf
<1> HIDE DEF texts
<1>4. /\ texts \in Seq(ChatTexts) /\ Len(texts) \in Nat
      /\ \A k \in 1..Len(texts) : texts[k].text \in Nat
  <2>1. texts \in Seq(ChatTexts) /\ Len(texts) \in Nat
    BY <1>3 DEF HistoryOf
  <2>2. \A k \in 1..Len(texts) : texts[k] \in ChatTexts
    BY <2>1
  <2>3. \A ct \in ChatTexts : ct.text \in Nat
    BY DEF ChatTexts
  <2> QED BY <2>1, <2>2, <2>3, Zenon
<1>5. \A k \in 1..Len(texts) : texts[k].fromaddr = a =>
         \E n \in 1..Counted : texts[k] = received[n]
  <2> TAKE k \in 1..Len(texts)
  <2> HAVE texts[k].fromaddr = a
  <2>1. PICK i \in 1..chatLen : texts[k] = items[i]
    BY <1>3 DEF HistoryOf
  <2> QED BY <1>1, <2>1 DEF LogOK
<1>6. \A j, k \in 1..Len(texts) : texts[j].fromaddr = a /\ texts[k].fromaddr = a =>
         /\ j < k => texts[j].text < texts[k].text
         /\ k < j => texts[k].text < texts[j].text
  BY <1>3 DEF HistoryOf
<1>7. ShownReceived(texts, a, received)
  <2>1. \A k \in 1..Len(texts) : texts[k].fromaddr \in {a, NoAddr}
    BY <1>3 DEF HistoryOf
  <2> QED BY <1>2, <1>5, <2>1 DEF ShownReceived
<1>8. NoneMissing(texts, a, received, wait)
  <2> SUFFICES ASSUME NEW n \in 1..Len(received), received[n].fromaddr = a, n \in 1..Counted
               PROVE  \E k \in 1..Len(texts) : texts[k] = received[n]
    BY DEF NoneMissing
  <2>1. PICK i \in 1..chatLen : items[i] = received[n]
    BY DEF LogOK
  <2> QED BY <1>3, <2>1 DEF HistoryOf
<1>9. InOrder(texts, a)
  <2> SUFFICES ASSUME NEW j \in 1..Len(texts), NEW k \in 1..Len(texts),
                      texts[j].fromaddr = a, texts[k].fromaddr = a, j < k
               PROVE  ~(texts[j].text >= texts[k].text)
    BY DEF InOrder
  <2> QED BY <1>4, <1>6
<1>10. ASSUME NEW j \in 1..Len(texts), NEW k \in 1..Len(texts),
              texts[j].fromaddr = a, texts[j] = texts[k]
       PROVE  j = k
  <2>1. ~(texts[j].text < texts[k].text) /\ ~(texts[k].text < texts[j].text)
    BY <1>4, <1>10
  <2> QED BY <1>4, <1>6, <1>10, <2>1
<1>11. AtMostTwice(texts, a)
  <2> SUFFICES ASSUME NEW i \in 1..Len(texts), NEW j \in 1..Len(texts),
                      i < j, texts[i].fromaddr = a, texts[i] = texts[j]
               PROVE  FALSE
    BY DEF AtMostTwice
  <2> QED BY <1>10
<1>12. ASSUME NEW t \in wait PROVE Fits(t, texts, a)
  <2>1. t.fromaddr = a
    OBVIOUS
  <2>2. \A j, k \in 1..Len(texts) : texts[j] = t /\ texts[k] = t => j = k
    BY <1>10, <2>1
  <2>3. ASSUME NEW j \in 1..Len(texts), texts[j].fromaddr = a, texts[j].text >= t.text
        PROVE  \E i \in 1..j : texts[i] = t
    <3>1. CASE \E i \in 1..chatLen : t = items[i]
      <4>1. PICK k \in 1..Len(texts) : texts[k] = t
        BY <1>3, <2>1, <3>1 DEF HistoryOf
      <4>2. ~(j < k)
        BY <1>4, <1>6, <2>1, <2>3, <4>1
      <4>3. k \in 1..j
        BY <1>4, <4>2
      <4> QED BY <4>1, <4>3
    <3>2. CASE \E n \in 1..Len(received) : n \notin 1..Counted /\ t = received[n]
      <4>1. PICK n \in 1..Len(received) : n \notin 1..Counted /\ t = received[n]
        BY <3>2
      <4>2. PICK m \in 1..Counted : texts[j] = received[m]
        BY <1>5, <2>3
      <4>3. m \in 1..Len(received) /\ m < n
        BY <1>2, <4>1 DEF Counted
      <4>4. received[m].text < received[n].text
        BY <4>1, <4>3 DEF ReceivedOK
      <4>5. received[m] \in ChatTexts /\ received[n] \in ChatTexts
        BY <1>2, <4>3
      <4>6. ~(received[m].text >= received[n].text)
        BY <4>4, <4>5 DEF ChatTexts
      <4> QED BY <2>3, <4>1, <4>2, <4>6
    <3> QED BY <3>1, <3>2
  <2> QED BY <2>2, <2>3 DEF Fits
<1>13. ShowsWell(texts, a, received, wait)
  BY <1>7, <1>8, <1>9, <1>11, <1>12 DEF ShowsWell
<1> QED BY <1>13 DEF texts

----------------------------------------------------------------------------
(* The texts on the way, and the windows they are for *)

\* What a callback brings to h, and what the listener has in hand for h.
Brought(t, h) == \E j \in 1..Len(idle) : idle[j].hpeer = h /\ IsText(j) /\ t = TextAt(j)
Handed(t, h) == lhpeer = h /\ lmsg \in TextMsg /\ t = Last(received)

\* Before a step and after it nothing else is on the way.
LEMMA WaitsAre ==
    ASSUME HandlesInv, HandlesInv'
    PROVE  \A h, t : /\ t \in TextsWait(h) <=> Brought(t, h) \/ Handed(t, h)
                     /\ t \in TextsWait(h)' <=> Brought(t, h)' \/ Handed(t, h)'
<1>1. DOMAIN idle = 1..Len(idle) /\ DOMAIN idle' = 1..Len(idle')
  BY DEF HandlesInv, IdleOK
<1> SUFFICES ASSUME NEW h, NEW t
             PROVE  /\ t \in TextsWait(h) <=> Brought(t, h) \/ Handed(t, h)
                    /\ t \in TextsWait(h)' <=> Brought(t, h)' \/ Handed(t, h)'
  OBVIOUS
<1>2. t \in TextsWait(h) <=> Brought(t, h) \/ Handed(t, h)
  BY <1>1 DEF TextsWait, Brought, Handed, IsText, TextAt
<1>3. t \in TextsWait(h)' <=> Brought(t, h)' \/ Handed(t, h)'
  BY <1>1 DEF TextsWait, Brought, Handed, IsText, TextAt
<1> QED BY <1>2, <1>3

\* A step after which the same texts are on the way.
LEMMA SameWait ==
    ASSUME HandlesInv, HandlesInv', \A t, h : Brought(t, h)' <=> Brought(t, h),
           \A t, h : Handed(t, h)' <=> Handed(t, h)
    PROVE  \A h : TextsWait(h)' = TextsWait(h)
<1> TAKE h
<1>1. \A t : t \in TextsWait(h)' <=> t \in TextsWait(h)
  BY WaitsAre, Zenon
<1> QED BY <1>1

\* A window shows texts.
LEMMA TextsOfType ==
    ASSUME HandlesInv, NEW h PROVE TextsOf(h) \in Seq(ChatTexts)
<1>1. CASE WinOf(h) = {}
  BY <1>1 DEF TextsOf
<1>2. CASE WinOf(h) # {}
  <2>1. Min(WinOf(h)) \in 1..Len(wins)
    BY <1>2, FirstWin
  <2>2. wins[Min(WinOf(h))] \in Windows
    BY <2>1 DEF HandlesInv, WinsOK
  <2> QED BY <1>2, <2>2 DEF TextsOf, Windows
<1> QED BY <1>1, <1>2

\* The windows there are keep their texts.
LEMMA SameTexts ==
    ASSUME HandlesInv, WinsFollow(wins'), Len(wins') = Len(wins),
           \A w \in 1..Len(wins) : wins'[w].texts = wins[w].texts
    PROVE  \A h : TextsOf(h)' = TextsOf(h)
<1>1. DOMAIN wins = 1..Len(wins) /\ DOMAIN wins' = 1..Len(wins)
  BY DEF HandlesInv, WinsOK, WinsFollow
<1> SUFFICES ASSUME NEW h PROVE TextsOf(h)' = TextsOf(h)
  OBVIOUS
<1>2. WinOf(h)' = WinOf(h)
  BY <1>1 DEF WinOf, WinsFollow
<1>3. CASE WinOf(h) = {}
  BY <1>2, <1>3 DEF TextsOf
<1>4. CASE WinOf(h) # {}
  <2>1. Min(WinOf(h)) \in 1..Len(wins)
    BY <1>4, FirstWin
  <2>2. wins'[Min(WinOf(h))].texts = wins[Min(WinOf(h))].texts
    BY <2>1
  <2> QED BY <1>2, <1>4, <2>2 DEF TextsOf
<1> QED BY <1>3, <1>4

\* The window of h changes; the others are as they were.
LEMMA OneChanges ==
    ASSUME HandlesInv, NEW h, WinOf(h) # {}, NEW win \in Windows, win.hpeer = h,
           wins' = [wins EXCEPT ![Min(WinOf(h))] = win]
    PROVE  TextsOf(h)' = win.texts /\ \A g : g # h => TextsOf(g)' = TextsOf(g)
<1>1. Min(WinOf(h)) \in 1..Len(wins) /\ wins[Min(WinOf(h))].hpeer = h
  BY FirstWin
<1>2. PICK k \in 1..Len(wins) : k = Min(WinOf(h))
  BY <1>1
<1>3. /\ WinsFollow(wins') /\ Len(wins') = Len(wins)
      /\ \A w \in 1..Len(wins) : wins'[w] = IF w = k THEN win ELSE wins[w]
  <2>1. wins' = [wins EXCEPT ![k] = win] /\ win.hpeer = wins[k].hpeer
    BY <1>1, <1>2
  <2>2. /\ WinsFollow([wins EXCEPT ![k] = win]) /\ Len([wins EXCEPT ![k] = win]) = Len(wins)
        /\ \A w \in 1..Len(wins) : [wins EXCEPT ![k] = win][w] = IF w = k THEN win ELSE wins[w]
    BY <2>1, WinsExcept
  <2>3. PICK new : new = [wins EXCEPT ![k] = win]
    OBVIOUS
  <2>4. wins' = new
    BY <2>1, <2>3
  <2> QED BY <2>2, <2>3, <2>4
<1>4. DOMAIN wins = 1..Len(wins) /\ DOMAIN wins' = 1..Len(wins)
  BY <1>3 DEF HandlesInv, WinsOK, WinsFollow
<1>5. \A g : WinOf(g)' = WinOf(g)
  BY <1>3, <1>4 DEF WinOf, WinsFollow
<1>6. TextsOf(h)' = win.texts
  BY <1>2, <1>3, <1>5 DEF TextsOf
<1>7. ASSUME NEW g, g # h PROVE TextsOf(g)' = TextsOf(g)
  <2>1. CASE WinOf(g) = {}
    BY <1>5, <2>1 DEF TextsOf
  <2>2. CASE WinOf(g) # {}
    <3>1. Min(WinOf(g)) \in 1..Len(wins) /\ wins[Min(WinOf(g))].hpeer = g
      BY <2>2, FirstWin
    <3>2. wins'[Min(WinOf(g))] = wins[Min(WinOf(g))]
      BY <1>1, <1>2, <1>3, <1>7, <3>1
    <3> QED BY <1>5, <2>2, <3>2 DEF TextsOf
  <2> QED BY <2>1, <2>2
<1> QED BY <1>6, <1>7

\* A window is shown or, where there is none, opens with what has been received.
LEMMA OneOpens ==
    ASSUME HandlesInv, NEW h \in 1..Len(peers), wins' = OpenChatwin(wins, h)
    PROVE  /\ TextsOf(h)' = IF WinOf(h) = {} THEN MsgHistory(PeerOf(h)) ELSE TextsOf(h)
           /\ \A g : g # h => TextsOf(g)' = TextsOf(g)
<1>1. /\ WinsFollow(wins')
      /\ \A w \in 1..Len(wins) : wins'[w].texts = wins[w].texts
      /\ IF WinOf(h) # {}
         THEN Len(wins') = Len(wins)
         ELSE /\ Len(wins') = Len(wins) + 1
              /\ wins'[Len(wins) + 1].hpeer = h
              /\ wins'[Len(wins) + 1].texts = MsgHistory(PeerOf(h))
  BY OpenChatwinOK
<1>2. CASE WinOf(h) # {}
  BY <1>1, <1>2, SameTexts
<1>3. CASE WinOf(h) = {}
  <2>0. /\ Len(wins') = Len(wins) + 1 /\ wins'[Len(wins) + 1].hpeer = h
        /\ wins'[Len(wins) + 1].texts = MsgHistory(PeerOf(h))
    BY <1>1, <1>3
  <2>1. /\ DOMAIN wins = 1..Len(wins) /\ DOMAIN wins' = 1..(Len(wins) + 1) /\ Len(wins) \in Nat
        /\ \A w \in 1..(Len(wins) + 1) : w \in 1..Len(wins) \/ w = Len(wins) + 1
        /\ \A w \in 1..Len(wins) : w \in 1..(Len(wins) + 1) /\ w # Len(wins) + 1
        /\ Len(wins) + 1 \in 1..(Len(wins) + 1)
    BY <1>1, <2>0 DEF HandlesInv, WinsOK, WinsFollow
  <2>2. \A w \in 1..Len(wins) : wins'[w].hpeer = wins[w].hpeer /\ wins[w].hpeer # h
    <3>1. \A w \in 1..Len(wins) : wins'[w].hpeer = wins[w].hpeer
      BY <1>1 DEF WinsFollow
    <3>2. \A w \in 1..Len(wins) : wins[w].hpeer # h
      BY <1>3, <2>1 DEF WinOf
    <3> QED BY <3>1, <3>2
  <2>3. TextsOf(h)' = MsgHistory(PeerOf(h))
    <3>1. WinOf(h)' = {Len(wins) + 1}
      BY <2>0, <2>1, <2>2 DEF WinOf
    <3>2. Min({Len(wins) + 1}) = Len(wins) + 1
      BY <2>1, MinOfOne
    <3> QED BY <2>0, <3>1, <3>2 DEF TextsOf
  <2>4. ASSUME NEW g, g # h PROVE TextsOf(g)' = TextsOf(g)
    <3>1. WinOf(g)' = WinOf(g)
      BY <2>0, <2>1, <2>2, <2>4 DEF WinOf
    <3>2. CASE WinOf(g) = {}
      BY <3>1, <3>2 DEF TextsOf
    <3>3. CASE WinOf(g) # {}
      <4>1. Min(WinOf(g)) \in 1..Len(wins)
        BY <3>3, FirstWin
      <4>2. wins'[Min(WinOf(g))].texts = wins[Min(WinOf(g))].texts
        BY <1>1, <4>1
      <4> QED BY <3>1, <3>3, <4>2 DEF TextsOf
    <3> QED BY <3>2, <3>3
  <2> QED BY <1>3, <2>3, <2>4
<1> QED BY <1>2, <1>3

----------------------------------------------------------------------------
(* What a step leaves as it was *)

LEMMA TextTypes ==
    ASSUME HandlesInv
    PROVE  /\ received \in Seq(ChatTexts) /\ Len(received) \in Nat
           /\ chatLen \in Nat /\ Len(idle) \in Nat /\ Len(peers) \in Nat /\ msgs \in Nat
           /\ \A k \in 1..Len(received) : received[k] \in ChatTexts
           /\ \A i \in 1..chatLen : i \in Places /\ items[i] \in ChatTexts
           /\ \A n \in 1..Counted : n \in 1..Len(received)
           /\ \A ct \in ChatTexts : ct.text \in Nat
           /\ \A h \in 1..Len(peers) : peers[h].fromaddr \in FromAddrs /\ peers[h].fromaddr # NoAddr
<1>1. received \in Seq(ChatTexts) /\ Len(received) \in Nat
  BY DEF HandlesInv, TextsOK
<1>2. chatLen \in 0..(MaxMsgs + MaxSends) /\ chatLen \in Nat /\ msgs \in Nat
  BY ClientAssumption DEF HandlesInv, CountsOK, ListenerOwes, MainOwes
<1>3. Len(idle) \in Nat /\ Len(peers) \in Nat
  BY DEF HandlesInv, IdleOK, TableOK, TableType
<1>4. \A i \in 1..chatLen : i \in Places /\ items[i] \in ChatTexts
  <2>1. \A i \in 1..chatLen : i \in Places
    BY <1>2, ClientAssumption DEF Places
  <2>2. \A i \in Places : items[i] \in ChatTexts
    BY DEF HandlesInv, TextsOK
  <2> QED BY <2>1, <2>2
<1>5. \A n \in 1..Counted : n \in 1..Len(received)
  BY <1>1 DEF Counted
<1>6. \A ct \in ChatTexts : ct.text \in Nat
  BY DEF ChatTexts
<1>7. ASSUME NEW h \in 1..Len(peers)
      PROVE  peers[h].fromaddr \in FromAddrs /\ peers[h].fromaddr # NoAddr
  <2>1. peers[h] \in Peer(FromAddrs, ToAddrs)
    BY DEF HandlesInv, TableOK, TableType
  <2> QED BY <2>1, ClientAssumption DEF Peer
<1>8. \A k \in 1..Len(received) : received[k] \in ChatTexts
  BY <1>1
<1> QED BY <1>1, <1>2, <1>3, <1>4, <1>5, <1>6, <1>7, <1>8

\* A slot keeps the address that it was made for.
SlotsStay ==
    /\ Len(peers) <= Len(peers') /\ Len(peers') \in Nat
    /\ \A k \in 1..Len(peers) : peers'[k].fromaddr = peers[k].fromaddr

\* What GChatTexts holds up to its len stays.
ItemsStay ==
    /\ chatLen <= chatLen' /\ chatLen' \in Nat
    /\ \A i \in 1..chatLen : items'[i] = items[i]

LEMMA ReceivedStays ==
    ASSUME HandlesInv, ReceivedOK, SlotsStay, received' = received, msgs' \in {msgs, msgs + 1}
    PROVE  ReceivedOK'
<1>1. ASSUME NEW k \in 1..Len(received)
      PROVE  /\ received[k].text <= msgs'
             /\ \E h \in 1..Len(peers') : peers'[h].fromaddr = received[k].fromaddr
  <2>1. received[k].text <= msgs /\ received[k].text \in Nat /\ msgs \in Nat
    BY TextTypes DEF ReceivedOK
  <2>2. PICK h \in 1..Len(peers) : peers[h].fromaddr = received[k].fromaddr
    BY DEF ReceivedOK
  <2>3. h \in 1..Len(peers') /\ peers'[h].fromaddr = peers[h].fromaddr
    BY TextTypes DEF SlotsStay
  <2> QED BY <2>1, <2>2, <2>3
<1>2. \A k \in 1..Len(received) : received[k].toaddr = NoAddr
  BY DEF ReceivedOK
<1> QED BY <1>1, <1>2 DEF ReceivedOK

LEMMA LogStays ==
    ASSUME LogOK, ItemsStay, chatLen' = chatLen, Counted' = Counted,
           \A n \in 1..Counted : received'[n] = received[n]
    PROVE  LogOK'
<1>1. \A i \in 1..chatLen : items'[i] = items[i]
  BY DEF ItemsStay
<1>2. \A i \in 1..chatLen : items[i].fromaddr # NoAddr => \E k \in 1..Counted : items[i] = received[k]
  BY DEF LogOK
<1>3. \A k \in 1..Counted : \E i \in 1..chatLen : items[i] = received[k]
  BY DEF LogOK
<1>4. \A i, j \in 1..chatLen :
          i < j /\ items[i].fromaddr # NoAddr /\ items[j].fromaddr # NoAddr =>
             items[i].text < items[j].text
  BY DEF LogOK
<1> QED BY <1>1, <1>2, <1>3, <1>4 DEF LogOK

LEMMA WindowsStay ==
    ASSUME TextsInOrder, SlotsStay, Len(peers') = Len(peers), received' = received,
           \A h : TextsOf(h)' = TextsOf(h), \A h : TextsWait(h)' = TextsWait(h)
    PROVE  \A h \in 1..Len(peers') : WindowOK(h)'
<1> SUFFICES ASSUME NEW h \in 1..Len(peers) PROVE WindowOK(h)'
  OBVIOUS
<1>1. WindowOK(h) /\ peers'[h].fromaddr = peers[h].fromaddr
  BY DEF TextsInOrder, SlotsStay
<1>2. TextsOf(h)' = TextsOf(h) /\ TextsWait(h)' = TextsWait(h)
  OBVIOUS
<1> QED BY <1>1, <1>2 DEF WindowOK

\* The queue stays as it is.
LEMMA IdleStays ==
    ASSUME HandlesInv, PendingOK, SlotsStay, ItemsStay, idle' = idle,
           InHand' => \A j \in 1..Len(idle) : IsText(j) => TextAt(j).text < Last(received').text
    PROVE  PendingOK' /\ \A t, h : Brought(t, h)' <=> Brought(t, h)
<1>1. ASSUME NEW j \in 1..Len(idle)
      PROVE  /\ IsText(j)' <=> IsText(j)
             /\ IsText(j) => /\ TextAt(j)' = TextAt(j) /\ idle'[j].ct \in 1..chatLen'
                             /\ peers'[idle'[j].hpeer].fromaddr = peers[idle[j].hpeer].fromaddr
  <2>1. IsText(j)' <=> IsText(j)
    BY DEF IsText
  <2>2. ASSUME IsText(j) PROVE TextAt(j)' = TextAt(j) /\ idle'[j].ct \in 1..chatLen'
    <3>1. idle[j].ct \in 1..chatLen
      BY <2>2 DEF PendingOK
    <3>2. items'[idle[j].ct] = items[idle[j].ct] /\ idle[j].ct \in 1..chatLen'
      BY <3>1, TextTypes DEF ItemsStay
    <3> QED BY <3>2 DEF TextAt
  <2>3. idle[j].hpeer \in 1..Len(peers)
    BY DEF HandlesInv, IdleOK
  <2>4. peers'[idle'[j].hpeer].fromaddr = peers[idle[j].hpeer].fromaddr
    BY <2>3 DEF SlotsStay
  <2> QED BY <2>1, <2>2, <2>4
<1>2. PendingOK'
  <2>1. ASSUME NEW j \in 1..Len(idle), IsText(j)
        PROVE  /\ idle'[j].ct \in 1..chatLen'
               /\ TextAt(j)'.fromaddr = peers'[idle'[j].hpeer].fromaddr
               /\ InHand' => TextAt(j)'.text < Last(received').text
    BY <1>1, <2>1 DEF PendingOK
  <2>2. ASSUME NEW j \in 1..Len(idle), NEW k \in 1..Len(idle), j < k, IsText(j), IsText(k)
        PROVE  TextAt(j)'.text < TextAt(k)'.text
    BY <1>1, <2>2 DEF PendingOK
  <2> QED BY <1>1, <2>1, <2>2 DEF PendingOK
<1>3. ASSUME NEW t, NEW h PROVE Brought(t, h)' <=> Brought(t, h)
  BY <1>1 DEF Brought
<1> QED BY <1>2, <1>3

\* A notice is put in the queue.
LEMMA IdleGrows ==
    ASSUME HandlesInv, PendingOK, NEW fn \in {"IDLE_peer_online", "IDLE_peer_offline"},
           NEW h \in 1..Len(peers), idle' = Append(idle, Callback(fn, h, 0)),
           UNCHANGED <<peers, items, chatLen, received>>, InHand' => InHand
    PROVE  PendingOK' /\ \A t, g : Brought(t, g)' <=> Brought(t, g)
<1>1. /\ Len(idle) \in Nat /\ Len(idle') = Len(idle) + 1
      /\ \A k \in 1..Len(idle) : idle'[k] = idle[k]
      /\ idle'[Len(idle) + 1].fn = fn
  BY IdleAppend
<1>2. /\ \A k \in 1..Len(idle) : k \in 1..Len(idle')
      /\ \A k \in 1..Len(idle) : (IsText(k)' <=> IsText(k)) /\ TextAt(k)' = TextAt(k)
      /\ \A k \in 1..Len(idle') : IsText(k)' => k \in 1..Len(idle)
  <2>1. \A k \in 1..Len(idle') : k \in 1..Len(idle) \/ k = Len(idle) + 1
    BY <1>1
  <2> QED BY <1>1, <2>1 DEF IsText, TextAt
<1>3. PendingOK'
  <2>1. ASSUME NEW j \in 1..Len(idle'), IsText(j)'
        PROVE  /\ idle'[j].ct \in 1..chatLen'
               /\ TextAt(j)'.fromaddr = peers'[idle'[j].hpeer].fromaddr
               /\ InHand' => TextAt(j)'.text < Last(received').text
    BY <1>1, <1>2, <2>1 DEF PendingOK
  <2>2. ASSUME NEW j \in 1..Len(idle'), NEW k \in 1..Len(idle'), j < k, IsText(j)', IsText(k)'
        PROVE  TextAt(j)'.text < TextAt(k)'.text
    BY <1>2, <2>2 DEF PendingOK
  <2> QED BY <2>1, <2>2 DEF PendingOK
<1>4. ASSUME NEW t, NEW g PROVE Brought(t, g)' <=> Brought(t, g)
  BY <1>1, <1>2 DEF Brought
<1> QED BY <1>3, <1>4

\* The first callback is taken out of the queue.
LEMMA IdleShrinks ==
    ASSUME HandlesInv, PendingOK, idle # <<>>, idle' = Tail(idle), SlotsStay,
           UNCHANGED <<items, chatLen, received>>, InHand' => InHand
    PROVE  /\ PendingOK'
           /\ \A t, g : Brought(t, g) <=>
                 \/ Brought(t, g)'
                 \/ IsText(1) /\ idle[1].hpeer = g /\ t = TextAt(1)
           /\ \A t, g : IsText(1) /\ Brought(t, g)' => TextAt(1).text < t.text
<1>1. /\ Len(idle) \in Nat \ {0} /\ Len(idle') = Len(idle) - 1
      /\ \A k \in 1..Len(idle') : idle'[k] = idle[k + 1]
  BY IdleHead
<1>2. /\ \A k \in 1..Len(idle') : /\ k + 1 \in 1..Len(idle) /\ 1 < k + 1
                                  /\ IsText(k)' <=> IsText(k + 1)
                                  /\ TextAt(k)' = TextAt(k + 1)
      /\ \A k \in 1..Len(idle) : k = 1 \/ (k - 1 \in 1..Len(idle') /\ (k - 1) + 1 = k)
      /\ 1 \in 1..Len(idle)
  BY <1>1 DEF IsText, TextAt
<1>3. PendingOK'
  <2>1. ASSUME NEW j \in 1..Len(idle'), IsText(j)'
        PROVE  /\ idle'[j].ct \in 1..chatLen'
               /\ TextAt(j)'.fromaddr = peers'[idle'[j].hpeer].fromaddr
               /\ InHand' => TextAt(j)'.text < Last(received').text
    <3>1. PICK k \in 1..Len(idle) : k = j + 1
      BY <1>2
    <3>2. idle'[j] = idle[k] /\ IsText(k) /\ TextAt(j)' = TextAt(k)
      BY <1>1, <1>2, <2>1, <3>1
    <3>3. /\ idle[k].ct \in 1..chatLen
          /\ TextAt(k).fromaddr = peers[idle[k].hpeer].fromaddr
          /\ InHand => TextAt(k).text < Last(received).text
      BY <3>2 DEF PendingOK
    <3>4. idle[k].hpeer \in 1..Len(peers)
      BY DEF HandlesInv, IdleOK
    <3>5. peers'[idle[k].hpeer].fromaddr = peers[idle[k].hpeer].fromaddr
      BY <3>4 DEF SlotsStay
    <3> QED BY <3>2, <3>3, <3>5
  <2>2. ASSUME NEW j \in 1..Len(idle'), NEW k \in 1..Len(idle'), j < k, IsText(j)', IsText(k)'
        PROVE  TextAt(j)'.text < TextAt(k)'.text
    <3>1. j + 1 \in 1..Len(idle) /\ k + 1 \in 1..Len(idle) /\ j + 1 < k + 1
      BY <1>1, <2>2
    <3> QED BY <1>2, <2>2, <3>1 DEF PendingOK
  <2> QED BY <2>1, <2>2 DEF PendingOK
<1>4. ASSUME NEW t, NEW g, Brought(t, g)
      PROVE  Brought(t, g)' \/ (IsText(1) /\ idle[1].hpeer = g /\ t = TextAt(1))
  <2>1. PICK k \in 1..Len(idle) : idle[k].hpeer = g /\ IsText(k) /\ t = TextAt(k)
    BY <1>4 DEF Brought
  <2>2. CASE k = 1
    BY <2>1, <2>2
  <2>3. CASE k # 1
    <3>1. PICK j \in 1..Len(idle') : j + 1 = k
      BY <1>2, <2>3
    <3>2. idle'[j] = idle[k] /\ IsText(j)' /\ TextAt(j)' = TextAt(k)
      BY <1>1, <1>2, <2>1, <3>1
    <3> QED BY <2>1, <3>2 DEF Brought
  <2> QED BY <2>2, <2>3
<1>5. ASSUME NEW t, NEW g, Brought(t, g)'
      PROVE  Brought(t, g) /\ (IsText(1) => TextAt(1).text < t.text)
  <2>1. PICK j \in 1..Len(idle') : idle'[j].hpeer = g /\ IsText(j)' /\ t = TextAt(j)'
    BY <1>5 DEF Brought
  <2>2. PICK k \in 1..Len(idle) : k = j + 1
    BY <1>2
  <2>3. idle'[j] = idle[k] /\ IsText(k) /\ TextAt(j)' = TextAt(k) /\ 1 < k
    BY <1>1, <1>2, <2>1, <2>2
  <2>4. Brought(t, g)
    BY <2>1, <2>3 DEF Brought
  <2>5. IsText(1) => TextAt(1).text < TextAt(k).text
    BY <1>2, <2>3 DEF PendingOK
  <2> QED BY <2>1, <2>3, <2>4, <2>5
<1>6. ASSUME NEW t, NEW g, IsText(1), idle[1].hpeer = g, t = TextAt(1) PROVE Brought(t, g)
  BY <1>2, <1>6 DEF Brought
<1> QED BY <1>3, <1>4, <1>5, <1>6

\* A step that no text notices.
LEMMA TextsAside ==
    ASSUME HandlesInv, HandlesInv', TextsInOrder, SlotsStay, Len(peers') = Len(peers),
           ItemsStay, UNCHANGED <<chatLen, received>>, Counted' = Counted,
           msgs' \in {msgs, msgs + 1}, AppendsOK', HandOK',
           PendingOK' /\ (\A t, h : Brought(t, h)' <=> Brought(t, h)),
           \A t, h : Handed(t, h)' <=> Handed(t, h),
           \A h : TextsOf(h)' = TextsOf(h)
    PROVE  TextsInOrder'
<1>1. ReceivedOK'
  BY ReceivedStays DEF TextsInOrder
<1>2. LogOK'
  BY LogStays DEF TextsInOrder
<1>3. \A h : TextsWait(h)' = TextsWait(h)
  BY SameWait
<1>4. \A h \in 1..Len(peers') : WindowOK(h)'
  BY <1>3, WindowsStay
<1> QED BY <1>1, <1>2, <1>4 DEF TextsInOrder

LEMMA TextOfNobody == NoText.fromaddr = NoAddr
BY DEF NoText, ChatText

LEMMA Notices ==
    /\ NoMsg \notin TextMsg
    /\ \A m \in OnlineMsg : m \notin TextMsg
<1>1. \A m \in TextMsg : m.msgno = "CHATTEXT"
  BY DEF TextMsg
<1>2. NoMsg.msgno = "NONE" /\ \A m \in OnlineMsg : m.msgno = "PEER_ONLINE"
  BY DEF NoMsg, OnlineMsg
<1> QED BY <1>1, <1>2

\* Queue, table and windows stay, and so does what the listener has in hand.
LEMMA NothingMoves ==
    ASSUME HandlesInv, HandlesInv', TextsInOrder, ItemsStay,
           UNCHANGED <<peers, chatLen, idle, received, lmsg, lhpeer>>, InHand' <=> InHand,
           Counted' = Counted, msgs' \in {msgs, msgs + 1}, AppendsOK',
           \A h : TextsOf(h)' = TextsOf(h)
    PROVE  TextsInOrder'
<1>1. SlotsStay /\ Len(peers') = Len(peers)
  BY TextTypes DEF SlotsStay
<1>2. HandOK'
  BY DEF TextsInOrder, HandOK
<1>3. InHand' => \A j \in 1..Len(idle) : IsText(j) => TextAt(j).text < Last(received').text
  BY DEF TextsInOrder, PendingOK
<1>4. PendingOK' /\ \A t, h : Brought(t, h)' <=> Brought(t, h)
  BY <1>1, <1>3, IdleStays DEF TextsInOrder
<1>5. \A t, h : Handed(t, h)' <=> Handed(t, h)
  BY DEF Handed
<1> QED BY <1>1, <1>2, <1>4, <1>5, TextsAside

\* What the steps leave alone that touch no text.
LEMMA TextsStay ==
    ASSUME HandlesInv
    PROVE  /\ UNCHANGED <<items, chatLen>> => ItemsStay
           /\ UNCHANGED wins => \A h : TextsOf(h)' = TextsOf(h)
<1>1. ASSUME UNCHANGED <<items, chatLen>> PROVE ItemsStay
  BY <1>1, TextTypes DEF ItemsStay
<1>2. ASSUME UNCHANGED wins PROVE \A h : TextsOf(h)' = TextsOf(h)
  BY <1>2 DEF TextsOf, WinOf
<1> QED BY <1>1, <1>2

LEMMA TextsListener ==
    ASSUME HandlesInv, HandlesInv', TextsInOrder, Listen \/ Stop PROVE TextsInOrder'
<1>1. /\ lpc \in {"start", "select"} /\ lpc' \in {"select", "ended"}
      /\ UNCHANGED <<peers, items, chatLen, idle, received, lmsg, lhpeer, wins, msgs, gpc, gtext,
                     glen>>
  BY DEF Listen, Stop, tableVars, chatVars, mainVars, widgetVars, historyVars
<1>2. (InHand' <=> InHand) /\ Counted' = Counted
  BY <1>1 DEF InHand, Counted
<1>3. AppendsOK'
  BY <1>1 DEF TextsInOrder, AppendsOK, ListenerAppends, MainAppends
<1>4. ItemsStay /\ \A h : TextsOf(h)' = TextsOf(h)
  BY <1>1, TextsStay
<1> QED BY <1>1, <1>2, <1>3, <1>4, NothingMoves

LEMMA TextsIgnore ==
    ASSUME HandlesInv, HandlesInv', TextsInOrder, NEW m, IgnoreNotice(m) PROVE TextsInOrder'
<1>1. /\ lpc' = lpc /\ msgs' = msgs + 1
      /\ UNCHANGED <<peers, items, chatLen, idle, received, lmsg, lhpeer, llen, wins, gpc, gtext,
                     glen>>
  BY DEF IgnoreNotice, Receives, tableVars, chatVars, mainVars, listenerVars, widgetVars
<1>2. (InHand' <=> InHand) /\ Counted' = Counted
  BY <1>1 DEF InHand, Counted
<1>3. AppendsOK'
  BY <1>1 DEF TextsInOrder, AppendsOK, ListenerAppends, MainAppends
<1>4. ItemsStay /\ \A h : TextsOf(h)' = TextsOf(h)
  BY <1>1, TextsStay
<1> QED BY <1>1, <1>2, <1>3, <1>4, NothingMoves

LEMMA TextsMainAlone ==
    ASSUME HandlesInv, HandlesInv', TextsInOrder, MainAlone \/ UNCHANGED vars PROVE TextsInOrder'
<1>1. /\ UNCHANGED <<peers, items, chatLen, idle, received, lmsg, lhpeer, llen, lpc, wins, msgs>>
      /\ gpc' \in {"load", "bump"} => gpc' = gpc /\ glen' = glen /\ gtext' = gtext
      /\ gtext' \in {gtext, NoText}
  <2> USE DEF tableVars, chatVars, listenerVars, mainVars, widgetVars, historyVars
  <2>1. CASE MainAlone
    BY <2>1, MainAloneShape
  <2>2. CASE UNCHANGED vars
    BY <2>2 DEF vars
  <2> QED BY <2>1, <2>2
<1>2. (InHand' <=> InHand) /\ Counted' = Counted
  BY <1>1 DEF InHand, Counted
<1>3. AppendsOK'
  BY <1>1, TextOfNobody DEF TextsInOrder, AppendsOK, ListenerAppends, MainAppends
<1>4. ItemsStay /\ \A h : TextsOf(h)' = TextsOf(h)
  BY <1>1, TextsStay
<1> QED BY <1>1, <1>2, <1>3, <1>4, NothingMoves

LEMMA TextsSend ==
    ASSUME HandlesInv, HandlesInv', TextsInOrder, NEW k, Send(k) PROVE TextsInOrder'
<1>1. /\ UNCHANGED <<peers, items, chatLen, idle, received, lmsg, lhpeer, llen, lpc, wins, msgs>>
      /\ gpc' = "sending" /\ gtext'.fromaddr = NoAddr
  BY DEF Send, ChatText, tableVars, chatVars, listenerVars, widgetVars
<1>2. (InHand' <=> InHand) /\ Counted' = Counted
  BY <1>1 DEF InHand, Counted
<1>3. AppendsOK'
  BY <1>1 DEF TextsInOrder, AppendsOK, ListenerAppends, MainAppends
<1>4. ItemsStay /\ \A h : TextsOf(h)' = TextsOf(h)
  BY <1>1, TextsStay
<1> QED BY <1>1, <1>2, <1>3, <1>4, NothingMoves

LEMMA TextsCloseWindow ==
    ASSUME HandlesInv, HandlesInv', TextsInOrder, NEW k \in DOMAIN wins, CloseWindow(k)
    PROVE  TextsInOrder'
<1>1. UNCHANGED <<peers, items, chatLen, idle, received, lmsg, lhpeer, llen, lpc, msgs, gpc, gtext,
                  glen>>
  BY DEF CloseWindow, tableVars, chatVars, listenerVars, mainVars, historyVars
<1>2. (InHand' <=> InHand) /\ Counted' = Counted
  BY <1>1 DEF InHand, Counted
<1>3. AppendsOK'
  BY <1>1 DEF TextsInOrder, AppendsOK, ListenerAppends, MainAppends
<1>4. ItemsStay
  BY <1>1, TextsStay
<1>5. \A h : TextsOf(h)' = TextsOf(h)
  BY CloseWindowOK, SameTexts
<1> QED BY <1>1, <1>2, <1>3, <1>4, <1>5, NothingMoves

LEMMA TextsLoad ==
    ASSUME HandlesInv, HandlesInv', TextsInOrder, ListenerLoads \/ MainLoads PROVE TextsInOrder'
<1>1. /\ UNCHANGED <<peers, items, chatLen, idle, received, lmsg, lhpeer, wins, msgs, gtext>>
      /\ \/ lpc = "load" /\ lpc' = "bump" /\ llen' = chatLen /\ UNCHANGED <<gpc, glen>>
         \/ gpc = "load" /\ gpc' = "bump" /\ glen' = chatLen /\ UNCHANGED <<lpc, llen>>
  BY DEF ListenerLoads, MainLoads, tableVars, chatVars, listenerVars, mainVars, widgetVars,
         historyVars
<1>2. (InHand' <=> InHand) /\ Counted' = Counted
  BY <1>1 DEF InHand, Counted
<1>3. AppendsOK'
  BY <1>1 DEF TextsInOrder, AppendsOK, ListenerAppends, MainAppends
<1>4. ItemsStay /\ \A h : TextsOf(h)' = TextsOf(h)
  BY <1>1, TextsStay
<1> QED BY <1>1, <1>2, <1>3, <1>4, NothingMoves

\* An item is stored at the len, past all that is counted.
LEMMA TextsStores ==
    ASSUME HandlesInv, HandlesInv', TextsInOrder, ~overlap', ListenerStores \/ MainStores
    PROVE  TextsInOrder'
<1>1. /\ UNCHANGED <<peers, chatLen, idle, received, lmsg, lhpeer, llen, glen, wins, msgs, gtext>>
      /\ \/ /\ lpc = "store" /\ lpc' = "load" /\ gpc' = gpc /\ ~MainAppends
            /\ items' = [items EXCEPT ![chatLen + 1] = Last(received)]
         \/ /\ gpc = "sending" /\ gpc' = "load" /\ lpc' = lpc /\ ~ListenerAppends
            /\ items' = [items EXCEPT ![chatLen + 1] = gtext]
  BY DEF ListenerStores, MainStores, StoreItem, tableVars, listenerVars, mainVars, widgetVars
<1>2. chatLen \in Nat /\ \A i \in 1..chatLen : i # chatLen + 1 /\ i \in DOMAIN items
  BY TextTypes DEF HandlesInv, TextsOK
<1>3. chatLen + 1 \in DOMAIN items
  BY <1>1, ClientAssumption DEF HandlesInv, CountsOK, TextsOK, Places, ListenerOwes, MainOwes
<1>4. (InHand' <=> InHand) /\ Counted' = Counted
  BY <1>1 DEF InHand, Counted
<1>5. ItemsStay
  BY <1>1, <1>2 DEF ItemsStay
<1>6. AppendsOK'
  BY <1>1, <1>3 DEF TextsInOrder, AppendsOK, ListenerAppends, MainAppends
<1>7. \A h : TextsOf(h)' = TextsOf(h)
  BY <1>1, TextsStay
<1> QED BY <1>1, <1>4, <1>5, <1>6, <1>7, NothingMoves

\* A notice goes from the listener to the queue.
LEMMA TextsQueueNotice ==
    ASSUME HandlesInv, HandlesInv', TextsInOrder, NEW m, QueueOnline \/ HandleOffline(m)
    PROVE  TextsInOrder'
<1>1. /\ UNCHANGED <<peers, items, chatLen, received, wins, gpc, gtext, glen>>
      /\ msgs' \in {msgs, msgs + 1}
      /\ lpc \in {"announce", "select"} /\ lpc' \in {"select", "aborted"}
      /\ lmsg' \in {lmsg, NoMsg}
  BY DEF QueueOnline, HandleOffline, Returned, Receives, tableVars, chatVars, mainVars, widgetVars,
         historyVars
<1>2. ~InHand /\ ~InHand' /\ Counted' = Counted
  BY <1>1 DEF InHand, Counted
<1>3. SlotsStay /\ Len(peers') = Len(peers) /\ ItemsStay /\ \A h : TextsOf(h)' = TextsOf(h)
  BY <1>1, TextTypes, TextsStay DEF SlotsStay
<1>4. AppendsOK'
  BY <1>1 DEF TextsInOrder, AppendsOK, ListenerAppends, MainAppends
<1>5. lmsg \notin TextMsg /\ lmsg' \notin TextMsg
  BY <1>1, <1>2, Notices DEF TextsInOrder, HandOK
<1>6. HandOK' /\ \A t, h : Handed(t, h)' <=> Handed(t, h)
  BY <1>2, <1>5 DEF HandOK, Handed
<1>7. PendingOK' /\ \A t, h : Brought(t, h)' <=> Brought(t, h)
  <2>1. CASE idle' = idle
    BY <1>2, <1>3, <2>1, IdleStays DEF TextsInOrder
  <2>2. CASE idle' # idle
    <3>1. PICK fn \in {"IDLE_peer_online", "IDLE_peer_offline"}, h \in 1..Len(peers) :
             idle' = Append(idle, Callback(fn, h, 0))
      <4>1. CASE QueueOnline
        <5>1. lhpeer \in 1..Len(peers) /\ idle' = Append(idle, Callback("IDLE_peer_online", lhpeer, 0))
          BY <4>1 DEF QueueOnline, HandlesInv, ListenerOK
        <5> QED BY <5>1
      <4>2. CASE HandleOffline(m)
        <5>1. FindPeer(peers, m.peer) # NoPeer
          BY <2>2, <4>2 DEF HandleOffline
        <5>2. FindPeer(peers, m.peer) \in 1..Len(peers)
          BY <5>1, FindPeerOK DEF HandlesInv
        <5>3. idle' = Append(idle, Callback("IDLE_peer_offline", FindPeer(peers, m.peer), 0))
          BY <4>2, <5>1 DEF HandleOffline
        <5> QED BY <5>2, <5>3
      <4> QED BY <4>1, <4>2
    <3> QED BY <1>1, <1>2, <3>1, IdleGrows DEF TextsInOrder
  <2> QED BY <2>1, <2>2
<1> QED BY <1>1, <1>2, <1>3, <1>4, <1>6, <1>7, TextsAside

\* A window that opens before the texts in wait come shows well.
LEMMA OpensNow ==
    ASSUME HandlesInv, TextsInOrder, NEW h \in 1..Len(peers), NEW wait,
           \A t \in wait : Brought(t, h) \/ Handed(t, h),
           \A t : Handed(t, h) => t \in wait
    PROVE  ShowsWell(MsgHistory(PeerOf(h)), peers[h].fromaddr, received, wait)
<1>1. PeerOf(h) = peers[h] /\ peers[h].fromaddr \in FromAddrs
  BY HandleIsSlot, TextTypes DEF PeerOf, HandlesInv
<1>2. lmsg \in TextMsg => /\ InHand /\ lhpeer \in 1..Len(peers)
                          /\ Last(received) = received[Len(received)]
                          /\ Len(received) \in 1..Len(received)
                          /\ Last(received).fromaddr = peers[lhpeer].fromaddr
  <2>1. lmsg \in TextMsg => /\ InHand /\ lhpeer \in 1..Len(peers) /\ received # <<>>
                            /\ Last(received).fromaddr = peers[lhpeer].fromaddr
    BY DEF TextsInOrder, HandOK
  <2>2. received \in Seq(ChatTexts)
    BY TextTypes
  <2> QED BY <2>1, <2>2 DEF Last
<1>3. ASSUME NEW t \in wait PROVE t.fromaddr = peers[h].fromaddr
  <2>1. CASE Brought(t, h)
    <3>1. PICK j \in 1..Len(idle) : idle[j].hpeer = h /\ IsText(j) /\ t = TextAt(j)
      BY <2>1 DEF Brought
    <3> QED BY <3>1 DEF TextsInOrder, PendingOK
  <2>2. CASE Handed(t, h)
    BY <1>2, <2>2 DEF Handed
  <2> QED BY <2>1, <2>2
<1>4. ASSUME NEW n \in 1..Len(received), n \notin 1..Counted,
             received[n].fromaddr = peers[h].fromaddr
      PROVE  received[n] \in wait
  <2>0. Len(received) \in Nat
    BY TextTypes
  <2>1. InHand /\ n = Len(received)
    BY <1>4, <2>0 DEF Counted, InHand
  <2>2. lmsg \in TextMsg
    BY <2>1 DEF TextsInOrder, HandOK
  <2>3. received[n] = Last(received) /\ lhpeer \in 1..Len(peers)
        /\ peers[lhpeer].fromaddr = peers[h].fromaddr
    BY <1>2, <1>4, <2>1, <2>2
  <2>4. lhpeer = h
    BY <2>3 DEF HandlesInv, TableOK
  <2>5. Handed(received[n], h)
    BY <2>2, <2>3, <2>4 DEF Handed
  <2> QED BY <2>5
<1>5. ASSUME NEW t \in wait
      PROVE  \/ \E i \in 1..chatLen : t = items[i]
             \/ \E n \in 1..Len(received) : n \notin 1..Counted /\ t = received[n]
  <2>1. CASE Brought(t, h)
    <3>1. PICK j \in 1..Len(idle) : IsText(j) /\ t = TextAt(j)
      BY <2>1 DEF Brought
    <3>2. idle[j].ct \in 1..chatLen /\ t = items[idle[j].ct]
      BY <3>1 DEF TextsInOrder, PendingOK, TextAt
    <3> QED BY <3>2
  <2>2. CASE Handed(t, h)
    <3>1. lmsg \in TextMsg /\ InHand /\ t = received[Len(received)] /\ t = Last(received)
          /\ Len(received) \in 1..Len(received)
      BY <1>2, <2>2 DEF Handed
    <3>2. CASE lpc = "queue"
      <4>1. items[chatLen] = t /\ chatLen \in 1..chatLen
        BY <3>1, <3>2 DEF TextsInOrder, AppendsOK, HandlesInv, CountsOK
      <4> QED BY <4>1
    <3>3. CASE lpc # "queue"
      <4>1. Len(received) \notin 1..Counted
        BY <3>1, <3>3, TextTypes DEF InHand, Counted
      <4> QED BY <3>1, <4>1
    <3> QED BY <3>2, <3>3
  <2> QED BY <2>1, <2>2
<1>6. LogOK /\ ReceivedOK
  BY DEF TextsInOrder
<1>7. PeerOf(h).toaddr # NoAddr
  <2>1. peers[h] \in Peer(FromAddrs, ToAddrs)
    BY DEF HandlesInv, TableOK, TableType
  <2>2. peers[h].toaddr \in ToAddrs
    BY <2>1 DEF Peer
  <2> QED BY <1>1, <2>2, ClientAssumption
<1> QED BY <1>1, <1>3, <1>4, <1>5, <1>6, <1>7, OpensWell

\* A window keeps what it shows.
LEMMA WindowStays ==
    ASSUME NEW h, WindowOK(h), TextsOf(h)' = TextsOf(h), TextsWait(h)' = TextsWait(h),
           received' = received, peers'[h].fromaddr = peers[h].fromaddr
    PROVE  WindowOK(h)'
BY DEF WindowOK

LEMMA TextsSelectRow ==
    ASSUME HandlesInv, HandlesInv', TextsInOrder, NEW h, SelectRow(h) PROVE TextsInOrder'
<1>1. /\ UNCHANGED <<peers, items, chatLen, idle, received, lmsg, lhpeer, llen, lpc, msgs, gpc,
                     gtext, glen>>
      /\ wins' = OpenChatwin(wins, h)
      /\ h \in 1..Len(peers)
  BY RowsAreRows DEF SelectRow, tableVars, chatVars, listenerVars, mainVars, historyVars
<1>2. (InHand' <=> InHand) /\ Counted' = Counted
  BY <1>1 DEF InHand, Counted
<1>3. AppendsOK' /\ HandOK'
  BY <1>1 DEF TextsInOrder, AppendsOK, ListenerAppends, MainAppends, HandOK, InHand
<1>4. ItemsStay /\ SlotsStay
  BY <1>1, TextTypes, TextsStay DEF SlotsStay
<1>5. ReceivedOK' /\ LogOK'
  BY <1>1, <1>2, <1>4, ReceivedStays, LogStays DEF TextsInOrder
<1>6. PendingOK' /\ \A t, g : Brought(t, g)' <=> Brought(t, g)
  <2>1. InHand' => \A j \in 1..Len(idle) : IsText(j) => TextAt(j).text < Last(received').text
    BY <1>1, <1>2 DEF TextsInOrder, PendingOK
  <2> QED BY <1>1, <1>4, <2>1, IdleStays DEF TextsInOrder
<1>7. \A g : TextsWait(g)' = TextsWait(g)
  <2>1. \A t, g : Handed(t, g)' <=> Handed(t, g)
    BY <1>1 DEF Handed
  <2> QED BY <1>6, <2>1, SameWait
<1>8. /\ TextsOf(h)' = IF WinOf(h) = {} THEN MsgHistory(PeerOf(h)) ELSE TextsOf(h)
      /\ \A g : g # h => TextsOf(g)' = TextsOf(g)
  BY <1>1, OneOpens
<1>9. ASSUME NEW g \in 1..Len(peers) PROVE WindowOK(g)'
  <2>1. CASE g = h /\ WinOf(h) = {}
    <3>1. \A t : t \in TextsWait(h) <=> Brought(t, h) \/ Handed(t, h)
      BY WaitsAre
    <3>2. ShowsWell(MsgHistory(PeerOf(h)), peers[h].fromaddr, received, TextsWait(h))
      BY <1>1, <3>1, OpensNow
    <3> QED BY <1>1, <1>7, <1>8, <2>1, <3>2 DEF WindowOK
  <2>2. CASE g # h \/ WinOf(h) # {}
    <3>1. TextsOf(g)' = TextsOf(g) /\ TextsWait(g)' = TextsWait(g)
      BY <1>7, <1>8, <2>2
    <3> QED BY <1>1, <3>1, WindowStays DEF TextsInOrder
  <2> QED BY <2>1, <2>2
<1> QED BY <1>1, <1>3, <1>5, <1>6, <1>9 DEF TextsInOrder

\* A text of the user's is counted, and shown in the window it was sent from.
LEMMA TextsMainBumps ==
    ASSUME HandlesInv, HandlesInv', TextsInOrder, MainBumps PROVE TextsInOrder'
<1>1. /\ UNCHANGED <<peers, items, idle, received, lmsg, lhpeer, llen, lpc, msgs>>
      /\ gpc = "bump" /\ gpc' = "gtk" /\ chatLen' = chatLen + 1 /\ gtext' = NoText
      /\ ~ListenerAppends /\ items[chatLen + 1] = gtext /\ gtext.fromaddr = NoAddr
      /\ ghpeer \in 1..Len(peers) /\ WinOf(ghpeer) # {}
  <2>1. gpc = "bump" /\ glen = chatLen /\ ~ListenerAppends
    BY DEF MainBumps, TextsInOrder, AppendsOK, MainAppends
  <2>2. /\ UNCHANGED <<peers, items, idle, received, lmsg, lhpeer, llen, lpc, msgs>>
        /\ gpc' = "gtk" /\ chatLen' = chatLen + 1 /\ gtext' = NoText
    BY <2>1 DEF MainBumps, BumpLen, BackInMainLoop, tableVars, listenerVars, historyVars
  <2>3. WinOf(ghpeer) # {}
    BY <2>1 DEF HandlesInv, MainOK
  <2>4. ghpeer \in 1..Len(peers)
    <3>1. Min(WinOf(ghpeer)) \in 1..Len(wins) /\ wins[Min(WinOf(ghpeer))].hpeer = ghpeer
      BY <2>3, FirstWin
    <3> QED BY <3>1 DEF HandlesInv, WinsOK
  <2> QED BY <2>1, <2>2, <2>3, <2>4 DEF TextsInOrder, AppendsOK
<1>2. (InHand' <=> InHand) /\ Counted' = Counted
  BY <1>1 DEF InHand, Counted
<1>3. AppendsOK' /\ HandOK'
  BY <1>1, TextOfNobody DEF TextsInOrder, AppendsOK, ListenerAppends, MainAppends, HandOK, InHand
<1>4. ItemsStay /\ SlotsStay
  BY <1>1, TextTypes DEF ItemsStay, SlotsStay
<1>5. ReceivedOK'
  BY <1>1, <1>4, ReceivedStays DEF TextsInOrder
<1>6. LogOK'
  <2>1. \A i \in 1..chatLen' : i \in 1..chatLen \/ (i = chatLen + 1 /\ items[i].fromaddr = NoAddr)
    BY <1>1, TextTypes
  <2>2. \A i \in 1..chatLen : i \in 1..chatLen'
    BY <1>1, TextTypes
  <2>3. \A i \in 1..chatLen' : items[i].fromaddr # NoAddr => i \in 1..chatLen
    BY <2>1
  <2> QED BY <1>1, <1>2, <2>2, <2>3 DEF TextsInOrder, LogOK
<1>7. PendingOK' /\ \A t, g : Brought(t, g)' <=> Brought(t, g)
  <2>1. InHand' => \A j \in 1..Len(idle) : IsText(j) => TextAt(j).text < Last(received').text
    BY <1>1, <1>2 DEF TextsInOrder, PendingOK
  <2> QED BY <1>1, <1>4, <2>1, IdleStays DEF TextsInOrder
<1>8. \A g : TextsWait(g)' = TextsWait(g)
  <2>1. \A t, g : Handed(t, g)' <=> Handed(t, g)
    BY <1>1 DEF Handed
  <2> QED BY <1>7, <2>1, SameWait
<1>9. PICK h \in 1..Len(peers) : h = ghpeer
  BY <1>1
<1>10. /\ TextsOf(h) \in Seq(ChatTexts) /\ gtext \in ChatTexts
       /\ TextsOf(h)' = Append(TextsOf(h), gtext)
       /\ \A g : g # h => TextsOf(g)' = TextsOf(g)
  <2> DEFINE k == Min(WinOf(h))
             win == [wins[k] EXCEPT !.texts = Append(@, gtext)]
  <2>1. WinOf(h) # {} /\ gtext \in ChatTexts
    BY <1>1, <1>9 DEF HandlesInv, TextsOK
  <2>2. k \in 1..Len(wins) /\ wins[k] \in Windows /\ wins[k].hpeer = h
    BY <2>1, FirstWin DEF HandlesInv, WinsOK
  <2>3. wins' = [wins EXCEPT ![k] = win]
    BY <1>9 DEF MainBumps
  <2>4. wins[k].texts \in Seq(ChatTexts) /\ TextsOf(h) = wins[k].texts
    BY <2>1, <2>2 DEF Windows, TextsOf
  <2>5. Append(wins[k].texts, gtext) \in Seq(ChatTexts)
    BY <2>1, <2>4
  <2> HIDE DEF k
  <2>6. win \in Windows /\ win.hpeer = h /\ win.texts = Append(wins[k].texts, gtext)
    BY <2>2, <2>5 DEF Windows
  <2> HIDE DEF win
  <2>7. PICK w : w = win
    OBVIOUS
  <2>8. wins' = [wins EXCEPT ![Min(WinOf(h))] = w] /\ w \in Windows /\ w.hpeer = h
    BY <2>3, <2>6, <2>7 DEF k
  <2>9. TextsOf(h)' = w.texts /\ \A g : g # h => TextsOf(g)' = TextsOf(g)
    BY <2>1, <2>8, OneChanges
  <2> QED BY <2>1, <2>4, <2>6, <2>7, <2>9
<1>11. ASSUME NEW g \in 1..Len(peers) PROVE WindowOK(g)'
  <2>1. CASE g = h
    <3>1. /\ received \in Seq(ChatTexts) /\ gtext.fromaddr # peers[g].fromaddr
          /\ gtext.fromaddr = NoAddr
      BY <1>1, TextTypes DEF TextsInOrder, AppendsOK
    <3>2. ShowsWell(TextsOf(g), peers[g].fromaddr, received, TextsWait(g))
      BY DEF TextsInOrder, WindowOK
    <3>3. ShowsWell(Append(TextsOf(g), gtext), peers[g].fromaddr, received, TextsWait(g))
      BY <1>10, <2>1, <3>1, <3>2, OtherIsShown
    <3> QED BY <1>1, <1>8, <1>10, <2>1, <3>3 DEF WindowOK
  <2>2. CASE g # h
    <3>1. TextsOf(g)' = TextsOf(g) /\ TextsWait(g)' = TextsWait(g)
      BY <1>8, <1>10, <2>2
    <3> QED BY <1>1, <3>1, WindowStays DEF TextsInOrder
  <2> QED BY <2>1, <2>2
<1> QED BY <1>1, <1>3, <1>5, <1>6, <1>7, <1>11 DEF TextsInOrder

\* The text in hand is counted: it is the last one in GChatTexts.
LEMMA TextsListenerBumps ==
    ASSUME HandlesInv, HandlesInv', TextsInOrder, ListenerBumps PROVE TextsInOrder'
<1>1. /\ UNCHANGED <<peers, items, idle, received, lmsg, lhpeer, llen, msgs, wins, gpc, gtext, glen>>
      /\ lpc = "bump" /\ lpc' = "queue" /\ chatLen' = chatLen + 1
      /\ ~MainAppends /\ items[chatLen + 1] = Last(received)
  <2>1. lpc = "bump" /\ llen = chatLen /\ ~MainAppends
    BY DEF ListenerBumps, TextsInOrder, AppendsOK, ListenerAppends
  <2>2. /\ UNCHANGED <<peers, items, idle, received, lmsg, lhpeer, llen, msgs, wins, gpc, gtext,
                       glen>>
        /\ lpc' = "queue" /\ chatLen' = chatLen + 1
    BY <2>1 DEF ListenerBumps, BumpLen, tableVars, mainVars, widgetVars, historyVars
  <2> QED BY <2>1, <2>2 DEF TextsInOrder, AppendsOK
<1>2. InHand /\ InHand' /\ Counted = Len(received) - 1 /\ Counted' = Len(received)
  BY <1>1 DEF InHand, Counted
<1>3. Len(received) \in 1..Len(received) /\ Last(received) = received[Len(received)]
  <2>1. received # <<>> /\ received \in Seq(ChatTexts)
    BY <1>2, TextTypes DEF TextsInOrder, HandOK
  <2> QED BY <2>1 DEF Last
<1>4. AppendsOK' /\ HandOK'
  <2>1. AppendsOK'
    BY <1>1, TextTypes DEF TextsInOrder, AppendsOK, ListenerAppends, MainAppends
  <2> QED BY <1>1, <1>2, <2>1 DEF TextsInOrder, HandOK
<1>5. ItemsStay /\ SlotsStay
  BY <1>1, TextTypes DEF ItemsStay, SlotsStay
<1>6. ReceivedOK'
  BY <1>1, <1>5, ReceivedStays DEF TextsInOrder
<1>7. LogOK'
  <2>1. /\ \A i \in 1..chatLen + 1 : i \in 1..chatLen \/ (i = chatLen + 1 /\ items[i] = Last(received))
        /\ chatLen \in Nat /\ \A i \in 1..chatLen : i \in 1..chatLen + 1
        /\ chatLen + 1 \in 1..chatLen + 1
    BY <1>1, TextTypes
  <2>2. /\ \A k \in 1..Len(received) - 1 : k \in 1..Len(received) /\ k < Len(received)
        /\ \A k \in 1..Len(received) : k \in 1..Len(received) - 1 \/ k = Len(received)
    BY TextTypes
  <2>3. ASSUME NEW i \in 1..chatLen + 1, items[i].fromaddr # NoAddr
        PROVE  \E k \in 1..Len(received) : items[i] = received[k]
    <3>1. CASE i \in 1..chatLen
      <4>1. PICK k \in 1..Len(received) - 1 : items[i] = received[k]
        BY <1>2, <2>3, <3>1 DEF TextsInOrder, LogOK
      <4> QED BY <2>2, <4>1
    <3>2. CASE items[i] = Last(received)
      BY <1>3, <3>2
    <3> QED BY <2>1, <3>1, <3>2
  <2>4. ASSUME NEW k \in 1..Len(received) PROVE \E i \in 1..chatLen + 1 : items[i] = received[k]
    <3>1. CASE k \in 1..Len(received) - 1
      <4>1. PICK i \in 1..chatLen : items[i] = received[k]
        BY <1>2, <3>1 DEF TextsInOrder, LogOK
      <4> QED BY <2>1, <4>1
    <3>2. CASE k = Len(received)
      BY <1>1, <1>3, <2>1, <3>2
    <3> QED BY <2>2, <3>1, <3>2
  <2>5. ASSUME NEW i \in 1..chatLen + 1, NEW j \in 1..chatLen + 1, i < j,
               items[i].fromaddr # NoAddr, items[j].fromaddr # NoAddr
        PROVE  items[i].text < items[j].text
    <3>1. i \in 1..chatLen
      BY <2>1, <2>5
    <3>2. CASE j \in 1..chatLen
      BY <2>5, <3>1, <3>2 DEF TextsInOrder, LogOK
    <3>3. CASE items[j] = Last(received)
      <4>1. PICK k \in 1..Len(received) - 1 : items[i] = received[k]
        BY <1>2, <2>5, <3>1 DEF TextsInOrder, LogOK
      <4>2. received[k].text < received[Len(received)].text
        BY <1>3, <2>2, <4>1 DEF TextsInOrder, ReceivedOK
      <4> QED BY <1>3, <3>3, <4>1, <4>2
    <3> QED BY <2>1, <3>2, <3>3
  <2> QED BY <1>1, <1>2, <2>3, <2>4, <2>5 DEF LogOK
<1>8. PendingOK' /\ \A t, g : Brought(t, g)' <=> Brought(t, g)
  <2>1. InHand' => \A j \in 1..Len(idle) : IsText(j) => TextAt(j).text < Last(received').text
    BY <1>1, <1>2 DEF TextsInOrder, PendingOK
  <2> QED BY <1>1, <1>5, <2>1, IdleStays DEF TextsInOrder
<1>9. \A g : TextsWait(g)' = TextsWait(g)
  <2>1. \A t, g : Handed(t, g)' <=> Handed(t, g)
    BY <1>1 DEF Handed
  <2> QED BY <1>8, <2>1, SameWait
<1>10. \A h \in 1..Len(peers') : WindowOK(h)'
  <2>1. Len(peers') = Len(peers) /\ \A h : TextsOf(h)' = TextsOf(h)
    BY <1>1, TextsStay
  <2> QED BY <1>1, <1>5, <1>9, <2>1, WindowsStay
<1> QED BY <1>4, <1>6, <1>7, <1>8, <1>10 DEF TextsInOrder

\* The text in hand goes to the queue, as the last item of GChatTexts.
LEMMA TextsQueueText ==
    ASSUME HandlesInv, HandlesInv', TextsInOrder, QueueText PROVE TextsInOrder'
<1>1. /\ UNCHANGED <<peers, items, chatLen, received, msgs, wins, gpc, gtext, glen>>
      /\ lpc = "queue" /\ lpc' = "select" /\ lmsg' = NoMsg
      /\ idle' = Append(idle, Callback("IDLE_open_chatwin", lhpeer, chatLen))
  BY DEF QueueText, Returned, tableVars, chatVars, mainVars, widgetVars, historyVars
<1>2. InHand /\ ~InHand' /\ Counted' = Counted
  BY <1>1 DEF InHand, Counted
<1>3. /\ lhpeer \in 1..Len(peers) /\ items[chatLen] = Last(received)
      /\ chatLen \in 1..chatLen /\ chatLen \in Nat /\ chatLen \in Places
      /\ Last(received).fromaddr = peers[lhpeer].fromaddr /\ lmsg \in TextMsg
  BY <1>1, <1>2, TextTypes DEF TextsInOrder, HandOK, AppendsOK, HandlesInv, CountsOK
<1>4. AppendsOK'
  BY <1>1 DEF TextsInOrder, AppendsOK, ListenerAppends, MainAppends
<1>5. HandOK' /\ \A t, g : ~Handed(t, g)'
  BY <1>1, <1>2, Notices DEF HandOK, Handed
<1>6. ItemsStay /\ SlotsStay /\ Len(peers') = Len(peers) /\ \A h : TextsOf(h)' = TextsOf(h)
  BY <1>1, TextTypes, TextsStay DEF SlotsStay
<1>7. ReceivedOK' /\ LogOK'
  BY <1>1, <1>2, <1>6, ReceivedStays, LogStays DEF TextsInOrder
<1>8. /\ Len(idle) \in Nat /\ Len(idle') = Len(idle) + 1
      /\ \A j \in 1..Len(idle) : idle'[j] = idle[j]
      /\ idle'[Len(idle) + 1] = Callback("IDLE_open_chatwin", lhpeer, chatLen)
  BY <1>1 DEF HandlesInv, IdleOK
<1>9. /\ idle'[Len(idle) + 1].hpeer = lhpeer /\ idle'[Len(idle) + 1].ct = chatLen
      /\ idle'[Len(idle) + 1].fn = "IDLE_open_chatwin"
  BY <1>8 DEF Callback
<1>10. /\ \A j \in 1..Len(idle) : j \in 1..Len(idle') /\ j < Len(idle) + 1
       /\ \A j \in 1..Len(idle) : (IsText(j)' <=> IsText(j)) /\ TextAt(j)' = TextAt(j)
       /\ \A j \in 1..Len(idle') : j \in 1..Len(idle) \/ j = Len(idle) + 1
       /\ Len(idle) + 1 \in 1..Len(idle')
  BY <1>1, <1>8 DEF IsText, TextAt
<1>11. PICK n \in 1..Len(idle') : n = Len(idle) + 1
  BY <1>10
<1>12. IsText(n)' /\ TextAt(n)' = Last(received) /\ idle'[n].hpeer = lhpeer /\ idle'[n].ct = chatLen
  BY <1>1, <1>3, <1>9, <1>11 DEF TextAt, IsText
<1>13. PendingOK'
  <2>1. ASSUME NEW j \in 1..Len(idle'), IsText(j)'
        PROVE  /\ idle'[j].ct \in 1..chatLen'
               /\ TextAt(j)'.fromaddr = peers'[idle'[j].hpeer].fromaddr
    <3>1. CASE j \in 1..Len(idle)
      BY <1>1, <1>8, <1>10, <2>1, <3>1 DEF TextsInOrder, PendingOK
    <3>2. CASE j = n
      BY <1>1, <1>3, <1>12, <3>2
    <3> QED BY <1>10, <1>11, <3>1, <3>2
  <2>2. ASSUME NEW j \in 1..Len(idle'), NEW k \in 1..Len(idle'), j < k, IsText(j)', IsText(k)'
        PROVE  TextAt(j)'.text < TextAt(k)'.text
    <3>1. j \in 1..Len(idle)
      BY <1>8, <1>10, <2>2
    <3>2. CASE k \in 1..Len(idle)
      BY <1>10, <2>2, <3>1, <3>2 DEF TextsInOrder, PendingOK
    <3>3. CASE k = n
      <4>1. TextAt(j).text < Last(received).text
        BY <1>2, <1>10, <2>2, <3>1 DEF TextsInOrder, PendingOK
      <4> QED BY <1>10, <1>12, <3>1, <3>3, <4>1
    <3> QED BY <1>10, <1>11, <3>2, <3>3
  <2> QED BY <1>2, <2>1, <2>2 DEF PendingOK
<1>14. ASSUME NEW t, NEW g
       PROVE  (Brought(t, g)' \/ Handed(t, g)') <=> (Brought(t, g) \/ Handed(t, g))
  <2>1. ASSUME Brought(t, g)' PROVE Brought(t, g) \/ Handed(t, g)
    <3>1. PICK j \in 1..Len(idle') : idle'[j].hpeer = g /\ IsText(j)' /\ t = TextAt(j)'
      BY <2>1 DEF Brought
    <3>2. CASE j \in 1..Len(idle)
      BY <1>8, <1>10, <3>1, <3>2 DEF Brought
    <3>3. CASE j = n
      BY <1>3, <1>12, <3>1, <3>3 DEF Handed
    <3> QED BY <1>10, <1>11, <3>2, <3>3
  <2>2. ASSUME Brought(t, g) PROVE Brought(t, g)'
    BY <1>8, <1>10, <2>2 DEF Brought
  <2>3. ASSUME Handed(t, g) PROVE Brought(t, g)'
    BY <1>12, <2>3 DEF Brought, Handed
  <2> QED BY <1>5, <2>1, <2>2, <2>3
<1>15. ASSUME NEW g PROVE TextsWait(g)' = TextsWait(g)
  <2>1. \A t : t \in TextsWait(g)' <=> t \in TextsWait(g)
    BY <1>14, WaitsAre, Zenon
  <2> QED BY <2>1
<1>16. \A h \in 1..Len(peers') : WindowOK(h)'
  BY <1>1, <1>6, <1>15, WindowsStay
<1> QED BY <1>4, <1>5, <1>7, <1>13, <1>16 DEF TextsInOrder

\* A new slot is that of an address from which nothing was received.
LEMMA TextsHandleOnline ==
    ASSUME HandlesInv, HandlesInv', TextsInOrder, NEW m \in OnlineMsg, HandleOnline(m)
    PROVE  TextsInOrder'
<1>1. /\ UNCHANGED <<items, chatLen, idle, received, wins, gpc, gtext, glen>>
      /\ lpc = "select" /\ lpc' = "announce" /\ lmsg' = m /\ msgs' = msgs + 1
      /\ peers' = CreatePeer(peers, nextHandle, m.peer, m.at)
  BY DEF HandleOnline, Receives, chatVars, mainVars, widgetVars
<1>2. /\ Len(peers) <= Len(peers') /\ SlotsStay
      /\ \A k \in 1..Len(peers') : k \notin 1..Len(peers) => peers'[k].fromaddr = m.peer
      /\ \A j, k \in 1..Len(peers') : peers'[j].fromaddr = peers'[k].fromaddr => j = k
  <2>1. m.peer \in FromAddrs /\ m.at \in ToAddrs
    BY DEF OnlineMsg, ToAddrs
  <2>2. /\ Len(peers) <= Len(peers')
        /\ \A k \in 1..Len(peers) : peers'[k].fromaddr = peers[k].fromaddr
        /\ peers'[FindPeer(peers', m.peer)].fromaddr = m.peer
        /\ \A k \in 1..Len(peers') : k # FindPeer(peers', m.peer) => k \in 1..Len(peers)
    <3>1. TableOK(peers, nextHandle)
      BY DEF HandlesInv
    <3>2. PICK new : new = peers'
      OBVIOUS
    <3>3. new = CreatePeer(peers, nextHandle, m.peer, m.at)
      BY <1>1, <3>2
    <3>4. /\ Len(peers) <= Len(new)
          /\ \A k \in 1..Len(peers) : new[k].fromaddr = peers[k].fromaddr
          /\ new[FindPeer(new, m.peer)].fromaddr = m.peer
          /\ \A k \in 1..Len(new) : k # FindPeer(new, m.peer) => k \in 1..Len(peers)
      BY <2>1, <3>1, <3>3, CreatePeerOK
    <3> QED BY <3>2, <3>4
  <2>3. Len(peers') \in Nat
    BY DEF HandlesInv, TableOK, TableType
  <2>4. \A j, k \in 1..Len(peers') : peers'[j].fromaddr = peers'[k].fromaddr => j = k
    BY DEF HandlesInv, TableOK
  <2> QED BY <2>2, <2>3, <2>4 DEF SlotsStay
<1>3. ~InHand /\ ~InHand' /\ Counted' = Counted
  BY <1>1 DEF InHand, Counted
<1>4. AppendsOK'
  BY <1>1 DEF TextsInOrder, AppendsOK, ListenerAppends, MainAppends
<1>5. HandOK' /\ \A t, h : ~Handed(t, h) /\ ~Handed(t, h)'
  BY <1>1, <1>3, Notices DEF TextsInOrder, HandOK, Handed
<1>6. ItemsStay /\ \A h : TextsOf(h)' = TextsOf(h)
  BY <1>1, TextsStay
<1>7. ReceivedOK' /\ LogOK'
  BY <1>1, <1>2, <1>3, <1>6, ReceivedStays, LogStays DEF TextsInOrder
<1>8. PendingOK' /\ \A t, h : Brought(t, h)' <=> Brought(t, h)
  BY <1>1, <1>2, <1>3, <1>6, IdleStays DEF TextsInOrder
<1>9. \A h : TextsWait(h)' = TextsWait(h)
  BY <1>5, <1>8, SameWait
<1>10. ASSUME NEW h \in 1..Len(peers') PROVE WindowOK(h)'
  <2>1. CASE h \in 1..Len(peers)
    <3>1. TextsOf(h)' = TextsOf(h) /\ TextsWait(h)' = TextsWait(h)
      BY <1>6, <1>9
    <3>2. peers'[h].fromaddr = peers[h].fromaddr /\ WindowOK(h)
      BY <1>2, <2>1 DEF SlotsStay, TextsInOrder
    <3> QED BY <1>1, <3>1, <3>2, WindowStays
  <2>2. CASE h \notin 1..Len(peers)
    <3>1. WinOf(h) = {}
      BY <2>2 DEF WinOf, HandlesInv, WinsOK
    <3>2. TextsOf(h)' = <<>>
      BY <1>6, <3>1 DEF TextsOf
    <3>3. \A t : ~Brought(t, h)
      BY <2>2 DEF Brought, HandlesInv, IdleOK
    <3>4. \A t : t \notin TextsWait(h)'
      BY <1>5, <1>8, <3>3, WaitsAre
    <3>5. \A n \in 1..Len(received) : received[n].fromaddr # peers'[h].fromaddr
      <4> SUFFICES ASSUME NEW n \in 1..Len(received), received[n].fromaddr = peers'[h].fromaddr
                   PROVE  FALSE
        OBVIOUS
      <4>1. PICK k \in 1..Len(peers) : peers[k].fromaddr = received[n].fromaddr
        BY DEF TextsInOrder, ReceivedOK
      <4>2. peers'[k].fromaddr = peers'[h].fromaddr /\ k \in 1..Len(peers')
        BY <1>2, <4>1, TextTypes DEF SlotsStay
      <4> QED BY <1>2, <2>2, <4>1, <4>2
    <3>6. ShowsWell(<<>>, peers'[h].fromaddr, received', TextsWait(h)')
      BY <1>1, <3>4, <3>5, NothingShown
    <3> QED BY <3>2, <3>6 DEF WindowOK
  <2> QED BY <2>1, <2>2
<1> QED BY <1>4, <1>5, <1>7, <1>8, <1>10 DEF TextsInOrder

\* A text is received, and is on the way to the window of its sender.
LEMMA TextsHandleText ==
    ASSUME HandlesInv, HandlesInv', TextsInOrder, NEW m \in TextMsg, HandleText(m)
    PROVE  TextsInOrder'
<1>1. /\ UNCHANGED <<peers, items, chatLen, idle, llen, wins, gpc, gtext, glen>>
      /\ lpc = "select" /\ msgs' = msgs + 1
  BY DEF HandleText, Receives, tableVars, chatVars, mainVars, widgetVars
<1>2. ItemsStay /\ SlotsStay /\ Len(peers') = Len(peers) /\ \A h : TextsOf(h)' = TextsOf(h)
  BY <1>1, TextTypes, TextsStay DEF SlotsStay
<1>3. CASE FindPeer(peers, m.peer) = NoPeer
  <2>1. UNCHANGED <<lpc, lmsg, lhpeer, received>>
    BY <1>3 DEF HandleText
  <2>2. (InHand' <=> InHand) /\ Counted' = Counted
    BY <2>1 DEF InHand, Counted
  <2>3. AppendsOK'
    BY <1>1, <2>1 DEF TextsInOrder, AppendsOK, ListenerAppends, MainAppends
  <2> QED BY <1>1, <1>2, <2>1, <2>2, <2>3, NothingMoves
<1>4. CASE FindPeer(peers, m.peer) # NoPeer
  <2> DEFINE t == ChatText(m.peer, NoAddr, msgs + 1)
  <2>1. PICK s \in 1..Len(peers) : s = FindPeer(peers, m.peer) /\ peers[s].fromaddr = m.peer
    BY <1>4, FindPeerOK DEF HandlesInv
  <2>2. /\ lpc' = "store" /\ lmsg' = m /\ lhpeer' = s /\ received' = Append(received, t)
    BY <1>1, <1>4, <2>1 DEF HandleText
  <2>3. t \in ChatTexts /\ t.fromaddr = m.peer /\ t.toaddr = NoAddr /\ t.text = msgs + 1
    BY TextTypes DEF ChatText, ChatTexts, TextMsg
  <2>4. PICK u \in ChatTexts : u = t
    BY <2>3
  <2>5. /\ u.fromaddr = peers[s].fromaddr /\ u.toaddr = NoAddr /\ u.text = msgs + 1
        /\ received' = Append(received, u)
    BY <2>1, <2>2, <2>3, <2>4
  <2> HIDE DEF t
  <2>6. /\ Len(received) \in Nat /\ Len(received') = Len(received) + 1
        /\ \A n \in 1..Len(received) : received'[n] = received[n]
        /\ received'[Len(received')] = u /\ Last(received') = u /\ received' # <<>>
    <3>1. received \in Seq(ChatTexts)
      BY TextTypes
    <3>2. /\ Len(received) \in Nat /\ Len(received') = Len(received) + 1
          /\ \A n \in 1..Len(received) : received'[n] = received[n]
          /\ received'[Len(received) + 1] = u
      BY <2>5, <3>1, AtTheEnd
    <3>3. received' # <<>>
      BY <3>2
    <3> QED BY <3>2, <3>3 DEF Last
  <2>7. \A n \in 1..Len(received) : received[n].text \in Nat /\ received[n].text < u.text
    <3> TAKE n \in 1..Len(received)
    <3>1. received[n].text \in Nat /\ received[n].text <= msgs /\ msgs \in Nat
      BY TextTypes DEF TextsInOrder, ReceivedOK
    <3> QED BY <2>5, <3>1
  <2>8. ~InHand /\ InHand' /\ Counted = Len(received) /\ Counted' = Counted /\ lmsg \notin TextMsg
    BY <1>1, <2>2, <2>6 DEF InHand, Counted, TextsInOrder, HandOK
  <2>9. AppendsOK' /\ HandOK'
    BY <1>1, <2>1, <2>2, <2>5, <2>6, <2>8
    DEF TextsInOrder, AppendsOK, ListenerAppends, MainAppends, HandOK
  <2>10. ReceivedOK'
    <3>1. \A n \in 1..Len(received') : n \in 1..Len(received) \/ n = Len(received')
      BY <2>6
    <3>2. ASSUME NEW n \in 1..Len(received')
          PROVE  /\ received'[n].text <= msgs'
                 /\ \E h \in 1..Len(peers') : peers'[h].fromaddr = received'[n].fromaddr
      <4>1. CASE n \in 1..Len(received)
        <5>1. received[n].text <= msgs /\ received[n].text \in Nat /\ msgs \in Nat
          BY <4>1, TextTypes DEF TextsInOrder, ReceivedOK
        <5>2. \E h \in 1..Len(peers) : peers[h].fromaddr = received[n].fromaddr
          BY <4>1 DEF TextsInOrder, ReceivedOK
        <5>3. received[n].text <= msgs'
          BY <1>1, <5>1
        <5> QED BY <1>1, <2>6, <4>1, <5>2, <5>3
      <4>2. CASE n = Len(received')
        BY <1>1, <2>5, <2>6, <4>2, TextTypes
      <4> QED BY <3>1, <4>1, <4>2
    <3>3. ASSUME NEW j \in 1..Len(received'), NEW k \in 1..Len(received'), j < k
          PROVE  received'[j].text < received'[k].text
      <4>1. j \in 1..Len(received)
        BY <2>6, <3>3
      <4>2. CASE k \in 1..Len(received)
        BY <2>6, <3>3, <4>1, <4>2 DEF TextsInOrder, ReceivedOK
      <4>3. CASE k = Len(received')
        BY <2>6, <2>7, <4>1, <4>3
      <4> QED BY <3>1, <4>2, <4>3
    <3>4. ASSUME NEW n \in 1..Len(received') PROVE received'[n].toaddr = NoAddr
      <4>1. CASE n \in 1..Len(received)
        BY <2>6, <4>1 DEF TextsInOrder, ReceivedOK
      <4>2. CASE n = Len(received')
        BY <2>5, <2>6, <4>2
      <4> QED BY <3>1, <4>1, <4>2
    <3> QED BY <3>2, <3>3, <3>4 DEF ReceivedOK
  <2>11. LogOK'
    BY <1>1, <1>2, <2>6, <2>8, LogStays DEF TextsInOrder
  <2>12. PendingOK' /\ \A v, h : Brought(v, h)' <=> Brought(v, h)
    <3>1. ASSUME NEW j \in 1..Len(idle), IsText(j) PROVE TextAt(j).text < u.text
      <4>1. /\ idle[j].ct \in 1..chatLen /\ TextAt(j).fromaddr = peers[idle[j].hpeer].fromaddr
            /\ idle[j].hpeer \in 1..Len(peers)
        BY <3>1 DEF TextsInOrder, PendingOK, HandlesInv, IdleOK
      <4>2. items[idle[j].ct].fromaddr # NoAddr
        BY <4>1, TextTypes DEF TextAt
      <4>3. PICK n \in 1..Len(received) : items[idle[j].ct] = received[n]
        BY <2>8, <4>1, <4>2 DEF TextsInOrder, LogOK
      <4> QED BY <2>7, <4>3 DEF TextAt
    <3> QED BY <1>1, <1>2, <2>6, <3>1, IdleStays DEF TextsInOrder
  <2>13. ASSUME NEW h \in 1..Len(peers) PROVE WindowOK(h)'
    <3> DEFINE a == peers[h].fromaddr
    <3>1. u.fromaddr = a <=> h = s
      BY <2>5 DEF HandlesInv, TableOK
    <3>2. \A v : Handed(v, h)' <=> h = s /\ v = u
      BY <2>2, <2>6 DEF Handed
    <3>3. \A v : ~Handed(v, h)
      BY <2>8 DEF Handed
    <3>4. \A v : v \in TextsWait(h)' <=> v \in TextsWait(h) \/ (h = s /\ v = u)
      BY <2>12, <3>2, <3>3, WaitsAre
    <3>5. TextsWait(h)' = IF u.fromaddr = a THEN TextsWait(h) \cup {u} ELSE TextsWait(h)
      BY <3>1, <3>4
    <3>6. TextsOf(h) \in Seq(ChatTexts)
      BY TextsOfType
    <3>7. ShowsWell(TextsOf(h), a, received, TextsWait(h))
      BY DEF TextsInOrder, WindowOK
    <3>8. received \in Seq(ChatTexts) /\ \A n \in 1..Len(received) : received[n].text < u.text
      BY <2>7, TextTypes
    <3> HIDE DEF a
    <3>9. ShowsWell(TextsOf(h), a, Append(received, u),
                    IF u.fromaddr = a THEN TextsWait(h) \cup {u} ELSE TextsWait(h))
      BY <3>6, <3>7, <3>8, Arrives
    <3>10. ShowsWell(TextsOf(h)', a, received', TextsWait(h)')
      BY <1>2, <2>5, <3>5, <3>9
    <3> QED BY <1>1, <3>10 DEF WindowOK, a
  <2> QED BY <1>2, <2>9, <2>10, <2>11, <2>12, <2>13 DEF TextsInOrder
<1> QED BY <1>3, <1>4

\* A callback brings a notice: no window shows another text.
LEMMA TextsNotice ==
    ASSUME HandlesInv, NEW h \in 1..Len(peers), IdlePeerOnline(h) \/ IdlePeerOffline(h)
    PROVE  /\ SlotsStay /\ Len(peers') = Len(peers)
           /\ \A g : TextsOf(g)' = TextsOf(g)
<1>1. SlotsStay /\ Len(peers') = Len(peers)
  <2>1. CASE IdlePeerOnline(h)
    BY <2>1, TextTypes DEF IdlePeerOnline, SlotsStay
  <2>2. CASE IdlePeerOffline(h)
    <3>1. /\ Len(peers') = Len(peers)
          /\ \A k \in 1..Len(peers) : peers'[k].fromaddr = peers[k].fromaddr
      BY <2>2, DestroyPeerOK DEF IdlePeerOffline, HandlesInv
    <3> QED BY <3>1, TextTypes DEF SlotsStay
  <2> QED BY <2>1, <2>2
<1>2. PICK on \in BOOLEAN : SetEnabled(h, on)
  BY DEF IdlePeerOnline, IdlePeerOffline
<1>3. /\ WinsFollow(wins') /\ Len(wins') = Len(wins)
      /\ \A w \in 1..Len(wins) : wins'[w].texts = wins[w].texts
  BY <1>2, SetEnabledOK
<1>4. \A g : TextsOf(g)' = TextsOf(g)
  BY <1>3, SameTexts
<1> QED BY <1>1, <1>4

\* A callback brings t to the window of h, or opens it.
LEMMA TextShown ==
    ASSUME HandlesInv, NEW h \in 1..Len(peers), NEW ct \in Places, IdleOpenChatwin(h, ct),
           items[ct].fromaddr = peers[h].fromaddr
    PROVE  /\ UNCHANGED peers
           /\ TextsOf(h)' = IF WinOf(h) = {} THEN MsgHistory(PeerOf(h))
                                             ELSE Append(TextsOf(h), items[ct])
           /\ \A g : g # h => TextsOf(g)' = TextsOf(g)
<1>1. CASE WinOf(h) = {}
  <2>1. wins' = OpenChatwin(wins, h) /\ UNCHANGED peers
    BY <1>1 DEF IdleOpenChatwin
  <2> QED BY <1>1, <2>1, OneOpens
<1>2. CASE WinOf(h) # {}
  <2> DEFINE k == Min(WinOf(h))
             texts == AddChatText(wins[k].texts, items[ct], PeerOf(h))
             win == [wins[k] EXCEPT !.texts = texts, !.visible = TRUE]
  <2>1. k \in 1..Len(wins) /\ wins[k] \in Windows /\ wins[k].hpeer = h
    BY <1>2, FirstWin DEF HandlesInv, WinsOK
  <2>2. items[ct] \in ChatTexts
    BY DEF HandlesInv, TextsOK
  <2>3. wins[k].texts \in Seq(ChatTexts) /\ TextsOf(h) = wins[k].texts
    BY <1>2, <2>1 DEF Windows, TextsOf
  <2>4. PeerOf(h) = peers[h]
    BY HandleIsSlot DEF PeerOf, HandlesInv
  <2>5. texts = Append(wins[k].texts, items[ct]) /\ texts \in Seq(ChatTexts)
    BY <2>2, <2>3, <2>4, Zenon, AddChatTextOK DEF AddChatText
  <2>6. wins' = [wins EXCEPT ![k] = win]
    <3>1. wins' = [wins EXCEPT ![k].texts = texts, ![k].visible = TRUE]
      BY <1>2, Zenon DEF IdleOpenChatwin
    <3> HIDE DEF texts, k
    <3>2. wins \in [DOMAIN wins -> Windows] /\ k \in DOMAIN wins
      BY <2>1 DEF HandlesInv, WinsOK
    <3> QED BY <3>1, <3>2
  <2> HIDE DEF texts, k
  <2>7. win \in Windows /\ win.hpeer = h /\ win.texts = texts
    BY <2>1, <2>5 DEF Windows
  <2> HIDE DEF win
  <2>8. PICK w : w = win
    OBVIOUS
  <2>9. wins' = [wins EXCEPT ![Min(WinOf(h))] = w] /\ w \in Windows /\ w.hpeer = h
    BY <2>6, <2>7, <2>8 DEF k
  <2>10. TextsOf(h)' = w.texts /\ \A g : g # h => TextsOf(g)' = TextsOf(g)
    BY <1>2, <2>9, OneChanges
  <2>11. UNCHANGED peers
    BY DEF IdleOpenChatwin
  <2> QED BY <1>2, <2>3, <2>5, <2>7, <2>8, <2>10, <2>11
<1> QED BY <1>1, <1>2

LEMMA TextsRunIdle ==
    ASSUME HandlesInv, HandlesInv', TextsInOrder, RunIdle PROVE TextsInOrder'
<1>0. /\ UNCHANGED <<items, chatLen, received, lpc, lmsg, lhpeer, llen, msgs, gpc, gtext, glen>>
      /\ idle # <<>> /\ idle' = Tail(idle)
      /\ Head(idle) = idle[1] /\ 1 \in 1..Len(idle)
      /\ idle[1].hpeer \in 1..Len(peers)
  BY IdleHead DEF RunIdle, chatVars, listenerVars, mainVars, historyVars
<1>1. PICK h \in 1..Len(peers) : h = idle[1].hpeer
  BY <1>0
<1>2. (InHand' <=> InHand) /\ Counted' = Counted
  BY <1>0 DEF InHand, Counted
<1>3. AppendsOK'
  BY <1>0 DEF TextsInOrder, AppendsOK, ListenerAppends, MainAppends
<1>4. ItemsStay
  BY <1>0, TextsStay
<1>5. \A t, g : Handed(t, g)' <=> Handed(t, g)
  BY <1>0 DEF Handed
<1>6. ASSUME SlotsStay, Len(peers') = Len(peers)
      PROVE  /\ HandOK' /\ ReceivedOK' /\ LogOK' /\ PendingOK'
             /\ \A t, g : Brought(t, g) <=>
                   \/ Brought(t, g)'
                   \/ IsText(1) /\ h = g /\ t = TextAt(1)
             /\ \A t, g : IsText(1) /\ Brought(t, g)' => TextAt(1).text < t.text
  <2>1. ReceivedOK' /\ LogOK'
    BY <1>0, <1>2, <1>4, <1>6, ReceivedStays, LogStays DEF TextsInOrder
  <2>2. HandOK'
    BY <1>0, <1>2, <1>6 DEF TextsInOrder, HandOK, SlotsStay
  <2>3. /\ PendingOK'
        /\ \A t, g : Brought(t, g) <=>
              \/ Brought(t, g)'
              \/ IsText(1) /\ idle[1].hpeer = g /\ t = TextAt(1)
        /\ \A t, g : IsText(1) /\ Brought(t, g)' => TextAt(1).text < t.text
    BY <1>0, <1>2, <1>6, IdleShrinks DEF TextsInOrder
  <2> QED BY <1>1, <2>1, <2>2, <2>3
<1>7. CASE Head(idle).fn # "IDLE_open_chatwin" /\ (IdlePeerOnline(h) \/ IdlePeerOffline(h))
  <2>1. SlotsStay /\ Len(peers') = Len(peers) /\ \A g : TextsOf(g)' = TextsOf(g)
    BY <1>7, TextsNotice
  <2>2. ~IsText(1)
    BY <1>0, <1>7 DEF IsText
  <2>3. HandOK' /\ PendingOK' /\ \A t, g : Brought(t, g)' <=> Brought(t, g)
    BY <1>6, <2>1, <2>2
  <2> QED BY <1>0, <1>2, <1>3, <1>4, <1>5, <2>1, <2>3, TextsAside
<1>8. CASE Head(idle).fn = "IDLE_open_chatwin" /\ IdleOpenChatwin(h, Head(idle).ct)
  <2>1. PICK ct \in Places : ct = idle[1].ct
    BY <1>0, <1>8, IdleHead
  <2>2. PICK t \in ChatTexts : t = items[ct]
    BY <2>1 DEF HandlesInv, TextsOK
  <2>3. IsText(1) /\ t = TextAt(1) /\ ct \in 1..chatLen /\ t.fromaddr = peers[h].fromaddr
    BY <1>0, <1>1, <1>8, <2>1, <2>2 DEF TextsInOrder, PendingOK, IsText, TextAt
  <2>4. IdleOpenChatwin(h, ct)
    BY <1>0, <1>8, <2>1
  <2>5. /\ UNCHANGED peers
        /\ TextsOf(h)' = IF WinOf(h) = {} THEN MsgHistory(PeerOf(h)) ELSE Append(TextsOf(h), t)
        /\ \A g : g # h => TextsOf(g)' = TextsOf(g)
    BY <2>2, <2>3, <2>4, TextShown
  <2>6. SlotsStay /\ Len(peers') = Len(peers)
    BY <2>5, TextTypes DEF SlotsStay
  <2>7. /\ HandOK' /\ ReceivedOK' /\ LogOK' /\ PendingOK'
        /\ \A u, g : Brought(u, g) <=> Brought(u, g)' \/ (h = g /\ u = t)
        /\ \A u, g : Brought(u, g)' => t.text < u.text
    BY <1>6, <2>3, <2>6
  <2>8. \A u, g : /\ u \in TextsWait(g) <=> Brought(u, g) \/ Handed(u, g)
                  /\ u \in TextsWait(g)' <=> Brought(u, g)' \/ Handed(u, g)
    BY <1>5, WaitsAre
  <2>9. ASSUME NEW g \in 1..Len(peers), g # h PROVE WindowOK(g)'
    <3>1. \A u : u \in TextsWait(g)' <=> u \in TextsWait(g)
      BY <2>7, <2>8, <2>9
    <3>2. TextsWait(g)' = TextsWait(g) /\ TextsOf(g)' = TextsOf(g)
      BY <2>5, <2>9, <3>1
    <3> QED BY <1>0, <2>5, <3>2, WindowStays DEF TextsInOrder
  <2>10. CASE WinOf(h) = {}
    <3>1. PICK wait : wait = TextsWait(h)'
      OBVIOUS
    <3>2. /\ \A u \in wait : Brought(u, h) \/ Handed(u, h)
          /\ \A u : Handed(u, h) => u \in wait
      BY <2>7, <2>8, <3>1
    <3>3. ShowsWell(MsgHistory(PeerOf(h)), peers[h].fromaddr, received, wait)
      BY <3>2, OpensNow
    <3>4. WindowOK(h)'
      BY <1>0, <2>5, <2>10, <3>1, <3>3 DEF WindowOK
    <3> QED BY <1>3, <2>5, <2>7, <2>9, <3>4 DEF TextsInOrder
  <2>11. CASE WinOf(h) # {}
    <3>1. PICK wait : wait = TextsWait(h)
      OBVIOUS
    <3>2. PICK wait1 : wait1 = TextsWait(h)'
      OBVIOUS
    <3>3. /\ wait1 \subseteq wait /\ wait \subseteq wait1 \cup {t} /\ t \in wait
          /\ \A u \in wait1 : t.text < u.text
      <4>1. \A u : u \in wait1 => u \in wait
        BY <2>7, <2>8, <3>1, <3>2
      <4>2. \A u : u \in wait => u \in wait1 \/ u = t
        BY <2>7, <2>8, <3>1, <3>2
      <4>3. t \in wait
        BY <2>7, <2>8, <3>1
      <4>4. \A u : Handed(u, h) => t.text < u.text
        BY <1>0, <2>3 DEF Handed, TextsInOrder, HandOK, PendingOK
      <4>5. \A u \in wait1 : t.text < u.text
        BY <2>7, <2>8, <3>2, <4>4
      <4> QED BY <4>1, <4>2, <4>3, <4>5
    <3>4. wait \subseteq ChatTexts
      <4>1. ASSUME NEW u, Brought(u, h) PROVE u \in ChatTexts
        <5>1. PICK j \in 1..Len(idle) : IsText(j) /\ u = TextAt(j)
          BY <4>1 DEF Brought
        <5>2. idle[j].ct \in 1..chatLen
          BY <5>1 DEF TextsInOrder, PendingOK
        <5> QED BY <5>1, <5>2, TextTypes DEF TextAt
      <4>2. ASSUME NEW u, Handed(u, h) PROVE u \in ChatTexts
        <5>1. u = Last(received) /\ received # <<>>
          BY <4>2 DEF Handed, TextsInOrder, HandOK
        <5>2. received \in Seq(ChatTexts)
          BY TextTypes
        <5> QED BY <5>1, <5>2 DEF Last
      <4> QED BY <2>8, <3>1, <4>1, <4>2
    <3>5. \E n \in 1..Len(received) : t = received[n]
      <4>1. t.fromaddr # NoAddr
        BY <2>3, TextTypes
      <4>2. PICK n \in 1..Counted : t = received[n]
        BY <2>2, <2>3, <4>1 DEF TextsInOrder, LogOK
      <4> QED BY <4>2, TextTypes
    <3>6. PICK texts \in Seq(ChatTexts) : texts = TextsOf(h)
      BY TextsOfType
    <3>7. ShowsWell(texts, peers[h].fromaddr, received, wait)
      BY <3>1, <3>6 DEF TextsInOrder, WindowOK
    <3>8. received \in Seq(ChatTexts)
      BY TextTypes
    <3>9. ShowsWell(Append(texts, t), peers[h].fromaddr, received, wait1)
      BY <3>3, <3>4, <3>5, <3>7, <3>8, IsShown
    <3>10. WindowOK(h)'
      BY <1>0, <2>5, <2>11, <3>2, <3>6, <3>9 DEF WindowOK
    <3> QED BY <1>3, <2>5, <2>7, <2>9, <3>10 DEF TextsInOrder
  <2> QED BY <2>10, <2>11
<1> QED BY <1>1, <1>0, <1>7, <1>8 DEF RunIdle

LEMMA InitTexts ==
    ASSUME Init PROVE TextsInOrder
<1>1. /\ lpc = "start" /\ gpc = "start" /\ gtext = NoText /\ lmsg = NoMsg
      /\ chatLen = 0 /\ received = <<>> /\ idle = <<>> /\ peers = <<>>
  BY DEF Init
<1>2. /\ \A k \in 1..Len(received) : FALSE
      /\ \A k \in 1..Len(idle) : FALSE
      /\ \A k \in 1..Len(peers) : FALSE
      /\ \A k \in 1..chatLen : FALSE
      /\ ~InHand /\ Counted = 0 /\ \A k \in 1..0 : FALSE
  BY <1>1 DEF InHand, Counted
<1>3. AppendsOK
  BY <1>1, TextOfNobody DEF AppendsOK, ListenerAppends, MainAppends
<1>4. ReceivedOK /\ PendingOK
  BY <1>2 DEF ReceivedOK, PendingOK
<1>5. LogOK
  BY <1>2 DEF LogOK
<1>6. HandOK
  BY <1>1, <1>2, Notices DEF HandOK
<1> QED BY <1>2, <1>3, <1>4, <1>5, <1>6 DEF TextsInOrder

\* Once two appends have overlapped it stays so.
LEMMA OverlapStays ==
    ASSUME HandlesInv, [Next]_vars, ~overlap' PROVE ~overlap
<1> USE DEF historyVars
<1>1. ASSUME NEW m, HandleOnline(m) \/ HandleOffline(m) \/ HandleText(m) \/ IgnoreNotice(m)
      PROVE  overlap' = overlap
  BY <1>1 DEF HandleOnline, HandleOffline, HandleText, IgnoreNotice
<1>2. ASSUME Listen \/ Stop \/ QueueOnline \/ QueueText \/ ListenerLoads \/ ListenerBumps
      PROVE  overlap' = overlap
  BY <1>2 DEF Listen, Stop, QueueOnline, QueueText, ListenerLoads, ListenerBumps
<1>3. ASSUME NEW k, SelectRow(k) \/ CloseWindow(k) \/ Send(k) PROVE overlap' = overlap
  BY <1>3 DEF SelectRow, CloseWindow, Send
<1>4. ASSUME RunIdle \/ MainLoads \/ MainBumps PROVE overlap' = overlap
  BY <1>4 DEF RunIdle, MainLoads, MainBumps
<1>5. ASSUME MainAlone PROVE overlap' = overlap
  BY <1>5, MainAloneShape
<1>6. ASSUME ListenerStores \/ MainStores PROVE ~overlap
  BY <1>6 DEF ListenerStores, MainStores, StoreItem
<1>7. CASE UNCHANGED vars
  BY <1>7 DEF vars
<1>8. CASE Next
  BY <1>8, StepIsAction, <1>1, <1>2, <1>3, <1>4, <1>5, <1>6
<1> QED BY <1>7, <1>8

LEMMA TextNext ==
    ASSUME TextInv, [Next]_vars PROVE TextInv'
<1>1. HandlesInv /\ HandlesInv'
  BY HandlesNext DEF TextInv
<1> SUFFICES ASSUME ~overlap' PROVE TextsInOrder'
  BY <1>1 DEF TextInv
<1>2. TextsInOrder
  BY <1>1, OverlapStays DEF TextInv
<1>3. ASSUME NEW m \in OnlineMsg, HandleOnline(m) PROVE TextsInOrder'
  BY <1>1, <1>2, <1>3, TextsHandleOnline
<1>4. ASSUME NEW m, HandleOffline(m) PROVE TextsInOrder'
  BY <1>1, <1>2, <1>4, TextsQueueNotice
<1>5. ASSUME NEW m \in TextMsg, HandleText(m) PROVE TextsInOrder'
  BY <1>1, <1>2, <1>5, TextsHandleText
<1>6. ASSUME NEW m, IgnoreNotice(m) PROVE TextsInOrder'
  BY <1>1, <1>2, <1>6, TextsIgnore
<1>7. ASSUME Listen \/ Stop PROVE TextsInOrder'
  BY <1>1, <1>2, <1>7, TextsListener
<1>8. ASSUME QueueOnline \/ QueueText PROVE TextsInOrder'
  BY <1>1, <1>2, <1>8, TextsQueueNotice, TextsQueueText
<1>9. ASSUME ListenerStores \/ MainStores PROVE TextsInOrder'
  BY <1>1, <1>2, <1>9, TextsStores
<1>10. ASSUME ListenerLoads \/ MainLoads \/ ListenerBumps \/ MainBumps PROVE TextsInOrder'
  BY <1>1, <1>2, <1>10, TextsLoad, TextsListenerBumps, TextsMainBumps
<1>11. ASSUME NEW h, SelectRow(h) PROVE TextsInOrder'
  BY <1>1, <1>2, <1>11, TextsSelectRow
<1>12. ASSUME NEW k \in DOMAIN wins, CloseWindow(k) \/ Send(k) PROVE TextsInOrder'
  BY <1>1, <1>2, <1>12, TextsCloseWindow, TextsSend
<1>13. ASSUME RunIdle PROVE TextsInOrder'
  BY <1>1, <1>2, <1>13, TextsRunIdle
<1>14. ASSUME MainAlone \/ UNCHANGED vars PROVE TextsInOrder'
  BY <1>1, <1>2, <1>14, TextsMainAlone
<1>15. CASE Next
  BY <1>15, StepIsAction, <1>3, <1>4, <1>5, <1>6, <1>7, <1>8, <1>9, <1>10, <1>11, <1>12, <1>13,
     <1>14
<1> QED BY <1>14, <1>15

\* A set of numbers without three in a row has at most two.
LEMMA AtMostTwo ==
    ASSUME NEW S \in SUBSET Nat, \A i, j, k \in S : ~(i < j /\ j < k)
    PROVE  Cardinality(S) <= 2
<1>1. CASE S = {}
  BY <1>1, FS_EmptySet
<1>2. CASE S # {}
  <2>1. PICK x \in S : \A y \in S : x <= y
    BY <1>2, HasLeast
  <2>2. PICK T \in SUBSET Nat : T = S \ {x}
    OBVIOUS
  <2>3. S = T \cup {x} /\ x \notin T
    BY <2>1, <2>2
  <2>4. \A y \in T : y \in S /\ x < y
    BY <2>1, <2>2
  <2>5. \A y, z \in T : y = z
    <3> SUFFICES ASSUME NEW y \in T, NEW z \in T, y < z PROVE FALSE
      OBVIOUS
    <3> QED BY <2>1, <2>4
  <2>6. IsFiniteSet(T) /\ Cardinality(T) \in {0, 1}
    <3>1. CASE T = {}
      BY <3>1, FS_EmptySet
    <3>2. CASE T # {}
      <4>1. PICK y \in T : TRUE
        BY <3>2
      <4>2. T = {y}
        BY <2>5, <4>1
      <4> QED BY <4>2, FS_Singleton
    <3> QED BY <3>1, <3>2
  <2>7. Cardinality(T \cup {x}) = Cardinality(T) + 1
    BY <2>3, <2>6, FS_AddElement
  <2> QED BY <2>3, <2>6, <2>7
<1> QED BY <1>1, <1>2

LEMMA TextImplies ==
    ASSUME TextInv PROVE NoTextLost
<1> SUFFICES ASSUME ~overlap, NEW h \in 1..Len(peers)
             PROVE  LET a == peers[h].fromaddr
                        texts == TextsOf(h)
                        shown == {k \in DOMAIN texts : texts[k].fromaddr = a}
                    IN
                    /\ ReceivedFrom(a) \ TextsWait(h) \subseteq {texts[k] : k \in shown}
                    /\ {texts[k] : k \in shown} \subseteq ReceivedFrom(a)
                    /\ \A k \in DOMAIN texts : texts[k].fromaddr \in {a, NoAddr}
                    /\ \A j, k \in shown : j < k /\ texts[j].text >= texts[k].text =>
                          \E i \in shown : i <= j /\ texts[i] = texts[k]
                    /\ \A t \in ReceivedFrom(a) : Cardinality({k \in shown : texts[k] = t}) <= 2
  BY Zenon DEF NoTextLost
<1> DEFINE a == peers[h].fromaddr
           texts == TextsOf(h)
           shown == {k \in DOMAIN texts : texts[k].fromaddr = a}
<1>0. texts \in Seq(ChatTexts) /\ received \in Seq(ChatTexts)
  BY TextTypes, TextsOfType DEF TextInv
<1>1. Len(texts) \in Nat /\ \A k : k \in shown <=> k \in 1..Len(texts) /\ texts[k].fromaddr = a
  BY <1>0
<1>2. \A t : t \in ReceivedFrom(a) <=> t.fromaddr = a /\ \E n \in 1..Len(received) : t = received[n]
  BY <1>0 DEF ReceivedFrom, ToSet
<1>3. /\ ShownReceived(texts, a, received) /\ NoneMissing(texts, a, received, TextsWait(h))
      /\ InOrder(texts, a) /\ AtMostTwice(texts, a)
  BY DEF TextInv, TextsInOrder, WindowOK, ShowsWell
<1> HIDE DEF a, texts, shown
<1>4. ASSUME NEW t \in ReceivedFrom(a), t \notin TextsWait(h) PROVE t \in {texts[k] : k \in shown}
  <2>1. \E k \in 1..Len(texts) : texts[k] = t
    BY <1>2, <1>3, <1>4 DEF NoneMissing
  <2> QED BY <1>1, <1>2, <2>1
<1>5. ASSUME NEW k \in shown PROVE texts[k] \in ReceivedFrom(a)
  BY <1>1, <1>2, <1>3 DEF ShownReceived
<1>6. ASSUME NEW j \in shown, NEW k \in shown, j < k, texts[j].text >= texts[k].text
      PROVE  \E i \in shown : i <= j /\ texts[i] = texts[k]
  <2>1. PICK i \in 1..j : texts[i] = texts[k]
    BY <1>1, <1>3, <1>6 DEF InOrder
  <2> QED BY <1>1, <2>1
<1>7. ASSUME NEW t \in ReceivedFrom(a) PROVE Cardinality({k \in shown : texts[k] = t}) <= 2
  <2> DEFINE S == {k \in shown : texts[k] = t}
  <2>1. S \in SUBSET Nat
    BY <1>1
  <2>2. \A i, j, k \in S : ~(i < j /\ j < k)
    BY <1>1, <1>3 DEF AtMostTwice
  <2> HIDE DEF S
  <2>3. Cardinality(S) <= 2
    BY <2>1, <2>2, AtMostTwo
  <2> QED BY <2>3 DEF S
<1>8. /\ ReceivedFrom(a) \ TextsWait(h) \subseteq {texts[k] : k \in shown}
      /\ {texts[k] : k \in shown} \subseteq ReceivedFrom(a)
  BY <1>4, <1>5
<1>9. \A k \in DOMAIN texts : texts[k].fromaddr \in {a, NoAddr}
  BY <1>0, <1>3 DEF ShownReceived
<1> QED BY <1>6, <1>7, <1>8, <1>9, Zenon DEF a, texts, shown

\* As long as no two appends to GChatTexts overlapped, however texts, notices,
\* callbacks and the user interleave, the window of a known peer shows what
\* came from it and no other peer's texts, in order; it lacks only what is on the
\* way, and shows no text three times.
THEOREM NoTextIsLost == Spec => []NoTextLost
<1>1. Init => TextInv
  BY InitHandles, InitTexts DEF TextInv
<1>2. TextInv /\ [Next]_vars => TextInv'
  BY TextNext
<1>3. TextInv => NoTextLost
  BY TextImplies
<1> QED BY <1>1, <1>2, <1>3, PTL DEF Spec

=============================================================================
