------------------------ MODULE TrackerHandlerProofs ------------------------
(***************************************************************************)
(* Proofs about the peer table and handle_msg of the tracker, for any sets *)
(* of addresses and ports: what every module that extends TrackerHandler   *)
(* keeps, whatever its transport does.                                     *)
(***************************************************************************)
EXTENDS TrackerHandler, TLAPS

TableType == Seq(Peer(FromAddrs, ToAddrs))

TableOK(tbl, next) ==
    /\ next = Len(tbl) + 1
    /\ \A k \in 1..Len(tbl) : tbl[k].hpeer = k
    /\ \A j, k \in 1..Len(tbl) : tbl[j].fromaddr = tbl[k].fromaddr => j = k

----------------------------------------------------------------------------
(* The peer table *)

\* A message carries the address its client listens on.
LEMMA ListenAddrType ==
    ASSUME NEW m \in Knock PROVE ListenAddr(m) \in ToAddrs
BY DEF Knock, ListenAddr, ToAddrs

\* A scan finds the only slot there is.
LEMMA MinOfOne ==
    ASSUME NEW S, NEW k \in S, k \in Nat, \A j \in S : j = k
    PROVE  Min(S) = k
<1>1. \E x \in S : \A j \in S : x <= j
  <2>1. \A j \in S : k <= j
    OBVIOUS
  <2> QED BY <2>1
<1>2. Min(S) \in S
  BY <1>1 DEF Min
<1> QED BY <1>2

\* create_peer revives the one slot of the address in place, or appends a slot.
LEMMA CreatePeerShape ==
    ASSUME NEW tbl \in TableType, NEW next, TableOK(tbl, next), NEW from, NEW to
    PROVE  \/ /\ \A k \in 1..Len(tbl) : tbl[k].fromaddr # from
              /\ CreatePeer(tbl, next, from, to) = Append(tbl, PeerNew(next, from, to))
              /\ HandleAfterCreate(tbl, next, from) = next + 1
           \/ \E s \in 1..Len(tbl) :
                 /\ tbl[s].fromaddr = from
                 /\ CreatePeer(tbl, next, from, to)
                      = [tbl EXCEPT ![s] = PeerReplace(tbl[s], to)]
                 /\ HandleAfterCreate(tbl, next, from) = next
<1>1. CASE Slots(tbl, from) = {}
  BY <1>1 DEF Slots, CreatePeer, HandleAfterCreate
<1>2. CASE Slots(tbl, from) # {}
  <2>1. PICK s \in 1..Len(tbl) : tbl[s].fromaddr = from
    BY <1>2 DEF Slots
  <2>2. s \in Nat
    OBVIOUS
  <2>3. s \in Slots(tbl, from) /\ \A j \in Slots(tbl, from) : j = s
    BY <2>1 DEF Slots, TableOK
  <2>4. Min(Slots(tbl, from)) = s
    BY <2>2, <2>3, MinOfOne
  <2> QED BY <1>2, <2>1, <2>4 DEF CreatePeer, HandleAfterCreate
<1> QED BY <1>1, <1>2

\* create_peer keeps the table well formed and every slot in place.
LEMMA CreatePeerOK ==
    ASSUME NEW tbl \in TableType, NEW next \in Nat \ {0}, TableOK(tbl, next),
           NEW from \in FromAddrs, NEW to \in ToAddrs,
           NEW new, new = CreatePeer(tbl, next, from, to)
    PROVE  /\ new \in TableType
           /\ HandleAfterCreate(tbl, next, from) \in Nat \ {0}
           /\ TableOK(new, HandleAfterCreate(tbl, next, from))
           /\ Len(tbl) <= Len(new)
           /\ \A k \in 1..Len(tbl) : /\ new[k].hpeer = tbl[k].hpeer
                                     /\ new[k].fromaddr = tbl[k].fromaddr
<1> USE DEF TableType
<1>1. CASE /\ \A k \in 1..Len(tbl) : tbl[k].fromaddr # from
           /\ new = Append(tbl, PeerNew(next, from, to))
           /\ HandleAfterCreate(tbl, next, from) = next + 1
  <2>1. PeerNew(next, from, to) \in Peer(FromAddrs, ToAddrs)
    BY DEF PeerNew, Peer
  <2>2. /\ new \in TableType
        /\ Len(new) = Len(tbl) + 1
        /\ \A k \in 1..Len(tbl) : new[k] = tbl[k]
        /\ new[Len(tbl) + 1] = PeerNew(next, from, to)
    BY <1>1, <2>1
  <2>3. TableOK(new, next + 1)
    BY <1>1, <2>2 DEF TableOK, PeerNew
  <2> QED BY <1>1, <2>2, <2>3
<1>2. ASSUME NEW s \in 1..Len(tbl),
             tbl[s].fromaddr = from,
             new = [tbl EXCEPT ![s] = PeerReplace(tbl[s], to)],
             HandleAfterCreate(tbl, next, from) = next
      PROVE  /\ new \in TableType
             /\ TableOK(new, next)
             /\ Len(tbl) = Len(new)
             /\ \A k \in 1..Len(tbl) : /\ new[k].hpeer = tbl[k].hpeer
                                       /\ new[k].fromaddr = tbl[k].fromaddr
  <2>1. tbl[s] \in Peer(FromAddrs, ToAddrs)
    OBVIOUS
  <2>2. /\ PeerReplace(tbl[s], to) \in Peer(FromAddrs, ToAddrs)
        /\ PeerReplace(tbl[s], to).hpeer = tbl[s].hpeer
        /\ PeerReplace(tbl[s], to).fromaddr = tbl[s].fromaddr
    BY <2>1 DEF PeerReplace, Peer
  <2>3. /\ new \in TableType
        /\ Len(new) = Len(tbl)
        /\ \A k \in 1..Len(tbl) : new[k] = IF k = s THEN PeerReplace(tbl[s], to) ELSE tbl[k]
    BY <1>2, <2>2
  <2>4. \A k \in 1..Len(tbl) : /\ new[k].hpeer = tbl[k].hpeer
                               /\ new[k].fromaddr = tbl[k].fromaddr
    BY <2>2, <2>3
  <2>5. TableOK(new, next)
    BY <2>3, <2>4 DEF TableOK
  <2> QED BY <2>3, <2>4, <2>5
<1> QED BY <1>1, <1>2, CreatePeerShape

\* What the handler of BYE makes of the peer table.
AfterBye(tbl, from) ==
    LET h == FindPeer(tbl, from)
    IN IF h # NoPeer THEN DestroyPeer(tbl, h) ELSE tbl

\* The slot of the address is cleared; without one, nothing changes.
LEMMA AfterByeShape ==
    ASSUME NEW tbl \in TableType, NEW next, TableOK(tbl, next), NEW from
    PROVE  \/ /\ \A k \in 1..Len(tbl) : tbl[k].fromaddr # from
              /\ AfterBye(tbl, from) = tbl
           \/ \E s \in 1..Len(tbl) :
                 /\ tbl[s].fromaddr = from
                 /\ AfterBye(tbl, from) = [tbl EXCEPT ![s].active = FALSE]
<1>1. CASE Slots(tbl, from) = {}
  BY <1>1 DEF Slots, AfterBye, FindPeer
<1>2. CASE Slots(tbl, from) # {}
  <2>1. PICK s \in 1..Len(tbl) : tbl[s].fromaddr = from
    BY <1>2 DEF Slots
  <2>2. s \in Nat /\ s # NoPeer
    BY DEF NoPeer
  <2>3. s \in Slots(tbl, from) /\ \A j \in Slots(tbl, from) : j = s
    BY <2>1 DEF Slots, TableOK
  <2>4. Min(Slots(tbl, from)) = s
    BY <2>2, <2>3, MinOfOne
  <2>5. FindPeer(tbl, from) = s
    BY <1>2, <2>4 DEF FindPeer, TableOK
  <2>6. s \in HandleSlots(tbl, s) /\ \A j \in HandleSlots(tbl, s) : j = s
    BY DEF HandleSlots, TableOK
  <2>7. Min(HandleSlots(tbl, s)) = s
    BY <2>2, <2>6, MinOfOne
  <2>8. DestroyPeer(tbl, s) = [tbl EXCEPT ![s].active = FALSE]
    BY <2>6, <2>7 DEF DestroyPeer
  <2> QED BY <2>1, <2>2, <2>5, <2>8 DEF AfterBye
<1> QED BY <1>1, <1>2

\* destroy_peer keeps the table well formed and every slot in place, and
\* leaves no active slot of the address.
LEMMA AfterByeOK ==
    ASSUME NEW tbl \in TableType, NEW next, TableOK(tbl, next), NEW from,
           NEW new, new = AfterBye(tbl, from)
    PROVE  /\ new \in TableType
           /\ TableOK(new, next)
           /\ Len(new) = Len(tbl)
           /\ \A k \in 1..Len(tbl) : /\ new[k].hpeer = tbl[k].hpeer
                                     /\ new[k].fromaddr = tbl[k].fromaddr
                                     /\ new[k].fromaddr = from => ~new[k].active
<1>1. CASE (\A k \in 1..Len(tbl) : tbl[k].fromaddr # from) /\ new = tbl
  BY <1>1
<1>2. ASSUME NEW s \in 1..Len(tbl),
             tbl[s].fromaddr = from,
             new = [tbl EXCEPT ![s].active = FALSE]
      PROVE  /\ new \in TableType
             /\ TableOK(new, next)
             /\ Len(new) = Len(tbl)
             /\ \A k \in 1..Len(tbl) : /\ new[k].hpeer = tbl[k].hpeer
                                       /\ new[k].fromaddr = tbl[k].fromaddr
                                       /\ new[k].fromaddr = from => ~new[k].active
  <2> DEFINE gone == [tbl[s] EXCEPT !.active = FALSE]
  <2>1. tbl[s] \in Peer(FromAddrs, ToAddrs)
    BY DEF TableType
  <2>2. /\ gone \in Peer(FromAddrs, ToAddrs)
        /\ gone.hpeer = tbl[s].hpeer
        /\ gone.fromaddr = tbl[s].fromaddr
        /\ ~gone.active
    BY <2>1 DEF Peer
  <2>3. /\ new \in TableType
        /\ Len(new) = Len(tbl)
        /\ \A k \in 1..Len(tbl) : new[k] = IF k = s THEN gone ELSE tbl[k]
    BY <1>2, <2>2 DEF TableType
  <2> HIDE DEF gone
  <2>4. \A k \in 1..Len(tbl) : /\ new[k].hpeer = tbl[k].hpeer
                               /\ new[k].fromaddr = tbl[k].fromaddr
    BY <2>2, <2>3
  <2>5. \A k \in 1..Len(tbl) : new[k].fromaddr = from => ~new[k].active
    BY <1>2, <2>2, <2>3, <2>4 DEF TableOK
  <2>6. TableOK(new, next)
    BY <2>3, <2>4 DEF TableOK
  <2> QED BY <2>3, <2>4, <2>5, <2>6
<1> QED BY <1>1, <1>2, AfterByeShape

----------------------------------------------------------------------------
(* The inductive invariant.  TypeOK alone is not inductive: that a loop of *)
(* handle_msg sends well-formed notices rests on the message it works on   *)
(* and on its index; and TellsExactly, about the step that returns, rests  *)
(* on what each round before it has sent.                                  *)

\* Each loop of handle_msg runs for the message that leads to it.
CurMatches ==
    /\ pc \in {"announce", "introduce"} => cur \in Knock
    /\ pc \in {"farewell", "aborted"} => cur \in Bye
    /\ pc = "idle" => cur = NoMsg

\* The active peers in the first n slots.
ActiveUpTo(n) == {k \in Active(peers) : k <= n}

Announced(n) ==
    {PeerOnline(peers[k].toaddr, cur.from, ListenAddr(cur)) : k \in ActiveUpTo(n)}
Introduced(n) ==
    {PeerOnline(ListenAddr(cur), peers[k].fromaddr, peers[k].toaddr) : k \in ActiveUpTo(n)}
Farewelled(n) ==
    {PeerOffline(peers[k].toaddr, cur.from) : k \in ActiveUpTo(n)}

\* Round i has been preceded by a notice for every active slot before i.
ToldSoFar ==
    /\ InLoop => i <= Len(peers) + 1
    /\ pc \in {"idle", "aborted"} => told = {}
    /\ pc = "announce" => told = Announced(i - 1)
    /\ pc = "introduce" => told = Announced(Len(peers)) \cup Introduced(i - 1)
    /\ pc = "farewell" => told = Farewelled(i - 1)

\* The leaver is not among the active peers while the others are told.
LeaverInactive ==
    pc = "farewell" => \A k \in 1..Len(peers) :
                          peers[k].fromaddr = cur.from => ~peers[k].active

HInv == HandlerTypeOK /\ OneSlotPerPeer /\ CurMatches /\ ToldSoFar /\ LeaverInactive

\* No peers: the state the process starts in.
LEMMA HInvReset == HandlerReset => HInv'
<1> SUFFICES ASSUME HandlerReset PROVE HInv'
  OBVIOUS
<1> USE DEF HandlerReset
<1>1. HandlerTypeOK'
  BY DEF HandlerTypeOK
<1>2. OneSlotPerPeer'
  BY DEF OneSlotPerPeer
<1>3. CurMatches' /\ LeaverInactive'
  BY DEF CurMatches, LeaverInactive
<1>4. ToldSoFar'
  BY DEF ToldSoFar, InLoop
<1> QED BY <1>1, <1>2, <1>3, <1>4 DEF HInv

LEMMA HInvStutter == HInv /\ UNCHANGED handlerVars => HInv'
BY DEF HInv, handlerVars, HandlerTypeOK, OneSlotPerPeer, CurMatches, ToldSoFar,
       LeaverInactive, InLoop, Announced, Introduced, Farewelled, ActiveUpTo,
       Active, ListenAddr

LEMMA HInvKnock ==
    ASSUME HInv, NEW m \in Knock, CallKnock(m) PROVE HInv'
<1> USE DEF HInv, CallKnock, Call
<1>1. HandlerTypeOK'
  BY DEF HandlerTypeOK, ClientMsg
<1>2. OneSlotPerPeer'
  BY DEF OneSlotPerPeer
<1>3. CurMatches' /\ LeaverInactive'
  BY DEF CurMatches, LeaverInactive
<1>4. ToldSoFar'
  <2>1. Len(peers) \in Nat /\ told = {}
    BY DEF HandlerTypeOK, ToldSoFar
  <2>2. ActiveUpTo(0) = {} /\ ActiveUpTo(0)' = {}
    BY DEF ActiveUpTo, Active
  <2>3. Announced(0)' = {}
    BY <2>2 DEF Announced
  <2> QED BY <2>1, <2>3 DEF ToldSoFar
<1> QED BY <1>1, <1>2, <1>3, <1>4

LEMMA HInvBye ==
    ASSUME HInv, NEW m \in Bye, CallBye(m) PROVE HInv'
<1> USE DEF HInv, CallBye, Call
<1>0. /\ peers \in TableType
      /\ peers' = AfterBye(peers, m.from)
      /\ TableOK(peers, nextHandle)
  BY DEF HandlerTypeOK, TableType, AfterBye, OneSlotPerPeer, TableOK
<1>1. /\ peers' \in TableType
      /\ TableOK(peers', nextHandle)
      /\ \A k \in 1..Len(peers') : peers'[k].fromaddr = m.from => ~peers'[k].active
  BY <1>0, AfterByeOK
<1>2. HandlerTypeOK'
  BY <1>1 DEF HandlerTypeOK, ClientMsg, TableType
<1>3. OneSlotPerPeer'
  BY <1>1 DEF OneSlotPerPeer, TableOK
<1>4. CurMatches' /\ LeaverInactive'
  BY <1>1 DEF CurMatches, LeaverInactive
<1>5. ToldSoFar'
  <2>1. Len(peers') \in Nat /\ told = {}
    BY <1>1 DEF TableType, ToldSoFar
  <2>2. ActiveUpTo(0)' = {}
    BY DEF ActiveUpTo, Active
  <2>3. Farewelled(0)' = {}
    BY <2>2 DEF Farewelled
  <2> QED BY <2>1, <2>3 DEF ToldSoFar
<1> QED BY <1>2, <1>3, <1>4, <1>5

\* What a round of a loop sends is a notice for a peer that is listed.
LEMMA DueType ==
    ASSUME HInv, InLoop, i <= Len(peers) PROVE Due \in Notice
<1>1. i \in 1..Len(peers)
  BY DEF HInv, HandlerTypeOK
<1>2. peers[i] \in Peer(FromAddrs, ToAddrs)
  BY <1>1 DEF HInv, HandlerTypeOK
<1>3. peers[i].toaddr \in ToAddrs /\ peers[i].fromaddr \in FromAddrs
  BY <1>2 DEF Peer
<1>4. CASE pc = "announce"
  <2>1. cur.from \in FromAddrs /\ ListenAddr(cur) \in ToAddrs
    BY <1>4, ListenAddrType DEF HInv, CurMatches, Knock
  <2> QED BY <1>3, <1>4, <2>1 DEF Due, PeerOnline, Notice
<1>5. CASE pc = "introduce"
  <2>1. ListenAddr(cur) \in ToAddrs
    BY <1>5, ListenAddrType DEF HInv, CurMatches
  <2> QED BY <1>3, <1>5, <2>1 DEF Due, PeerOnline, Notice
<1>6. CASE pc = "farewell"
  <2>1. cur.from \in FromAddrs
    BY <1>6 DEF HInv, CurMatches, Bye
  <2> QED BY <1>3, <1>6, <2>1 DEF Due, PeerOffline, Notice
<1> QED BY <1>4, <1>5, <1>6 DEF InLoop

\* How the active slots seen so far grow with a round of a loop.
LEMMA ActiveGrows ==
    ASSUME HInv, i <= Len(peers)
    PROVE  ActiveUpTo(i) = IF peers[i].active THEN ActiveUpTo(i - 1) \cup {i}
                           ELSE ActiveUpTo(i - 1)
<1>1. i \in 1..Len(peers)
  BY DEF HInv, HandlerTypeOK
<1> QED BY <1>1 DEF ActiveUpTo, Active

LEMMA HInvSkip ==
    ASSUME HInv, SkipInactive PROVE HInv'
<1> USE DEF SkipInactive
<1>1. HandlerTypeOK'
  BY DEF HInv, HandlerTypeOK
<1>2. OneSlotPerPeer' /\ CurMatches' /\ LeaverInactive'
  BY DEF HInv, OneSlotPerPeer, CurMatches, LeaverInactive
<1>3. i \in Nat /\ i' - 1 = i /\ Len(peers) \in Nat /\ i' <= Len(peers') + 1
  BY DEF HInv, HandlerTypeOK
<1>4. ActiveUpTo(i - 1)' = ActiveUpTo(i - 1)
  BY <1>3, ActiveGrows DEF ActiveUpTo, Active
<1>5. /\ Announced(i - 1)' = Announced(i - 1)
      /\ Introduced(i - 1)' = Introduced(i - 1)
      /\ Farewelled(i - 1)' = Farewelled(i - 1)
      /\ Announced(Len(peers))' = Announced(Len(peers))
  BY <1>3, <1>4 DEF Announced, Introduced, Farewelled, ActiveUpTo, Active, ListenAddr
<1>6. ToldSoFar'
  BY <1>3, <1>5 DEF HInv, ToldSoFar, InLoop
<1> QED BY <1>1, <1>2, <1>6 DEF HInv

LEMMA HInvTrySend ==
    ASSUME HInv, TrySend PROVE HInv'
<1> USE DEF TrySend
<1>1. HandlerTypeOK'
  BY DueType DEF HInv, HandlerTypeOK
<1>2. OneSlotPerPeer' /\ CurMatches' /\ LeaverInactive'
  BY DEF HInv, OneSlotPerPeer, CurMatches, LeaverInactive
<1>3. i \in Nat /\ i' - 1 = i /\ Len(peers) \in Nat /\ i' <= Len(peers') + 1
  BY DEF HInv, HandlerTypeOK
<1>4. ActiveUpTo(i - 1)' = ActiveUpTo(i - 1) \cup {i}
  BY <1>3, ActiveGrows DEF ActiveUpTo, Active
<1>5. Announced(Len(peers))' = Announced(Len(peers))
  BY DEF Announced, ActiveUpTo, Active, ListenAddr
<1>6. ToldSoFar'
  <2>1. CASE pc = "announce"
    <3>1. Announced(i - 1)' = Announced(i - 1) \cup {Due}
      BY <1>3, <1>4, <2>1 DEF Announced, Due, ListenAddr
    <3> QED BY <1>3, <2>1, <3>1 DEF HInv, ToldSoFar, InLoop
  <2>2. CASE pc = "introduce"
    <3>1. Introduced(i - 1)' = Introduced(i - 1) \cup {Due}
      BY <1>3, <1>4, <2>2 DEF Introduced, Due, ListenAddr
    <3> QED BY <1>3, <1>5, <2>2, <3>1 DEF HInv, ToldSoFar, InLoop
  <2>3. CASE pc = "farewell"
    <3>1. Farewelled(i - 1)' = Farewelled(i - 1) \cup {Due}
      BY <1>3, <1>4, <2>3 DEF Farewelled, Due
    <3> QED BY <1>3, <2>3, <3>1 DEF HInv, ToldSoFar, InLoop
  <2> QED BY <2>1, <2>2, <2>3 DEF InLoop
<1> QED BY <1>1, <1>2, <1>6 DEF HInv

\* At the end of a loop every active slot has been seen.
LEMMA AllSeen ==
    ASSUME HInv, InLoop, LoopDone
    PROVE  ActiveUpTo(i - 1) = Active(peers) /\ ActiveUpTo(Len(peers)) = Active(peers)
<1>1. i \in Nat /\ Len(peers) \in Nat /\ i = Len(peers) + 1
  BY DEF HInv, HandlerTypeOK, ToldSoFar, LoopDone
<1> QED BY <1>1 DEF ActiveUpTo, Active

LEMMA HInvAnnounceDone ==
    ASSUME HInv, AnnounceDone PROVE HInv'
<1> USE DEF AnnounceDone
<1>1. HandlerTypeOK' /\ OneSlotPerPeer' /\ CurMatches' /\ LeaverInactive'
  BY DEF HInv, HandlerTypeOK, OneSlotPerPeer, CurMatches, LeaverInactive, LoopDone
<1>2. InLoop /\ i' = 1 /\ Len(peers) \in Nat
  BY DEF InLoop, LoopDone, HInv, HandlerTypeOK
<1>3. told = Announced(Len(peers))
  BY <1>2, AllSeen DEF HInv, ToldSoFar, Announced
<1>4. Announced(Len(peers))' = Announced(Len(peers))
  BY DEF Announced, ActiveUpTo, Active, ListenAddr
<1>5. ActiveUpTo(0)' = {}
  BY DEF ActiveUpTo, Active
<1>6. Introduced(0)' = {}
  BY <1>5 DEF Introduced
<1>7. ToldSoFar'
  BY <1>2, <1>3, <1>4, <1>6 DEF ToldSoFar, InLoop
<1> QED BY <1>1, <1>7 DEF HInv

LEMMA HInvIntroduceDone ==
    ASSUME HInv, IntroduceDone PROVE HInv'
<1> USE DEF IntroduceDone, Return
<1>1. /\ peers \in TableType
      /\ nextHandle \in Nat \ {0}
      /\ TableOK(peers, nextHandle)
      /\ cur.from \in FromAddrs /\ ListenAddr(cur) \in ToAddrs
  BY ListenAddrType
     DEF HInv, HandlerTypeOK, TableType, OneSlotPerPeer, TableOK, CurMatches, Knock
<1>2. /\ peers' \in TableType
      /\ nextHandle' \in Nat \ {0}
      /\ TableOK(peers', nextHandle')
  BY <1>1, CreatePeerOK
<1>3. HandlerTypeOK'
  BY <1>2 DEF HandlerTypeOK, TableType, LoopDone
<1>4. OneSlotPerPeer'
  BY <1>2 DEF OneSlotPerPeer, TableOK
<1>5. CurMatches' /\ LeaverInactive' /\ ToldSoFar'
  BY DEF CurMatches, LeaverInactive, ToldSoFar, InLoop
<1> QED BY <1>3, <1>4, <1>5 DEF HInv

LEMMA HInvFarewellDone ==
    ASSUME HInv, FarewellDone PROVE HInv'
<1> USE DEF FarewellDone, Return
<1>1. HandlerTypeOK' /\ OneSlotPerPeer'
  BY DEF HInv, HandlerTypeOK, OneSlotPerPeer, LoopDone
<1>2. CurMatches' /\ LeaverInactive' /\ ToldSoFar'
  BY DEF CurMatches, LeaverInactive, ToldSoFar, InLoop
<1> QED BY <1>1, <1>2 DEF HInv

=============================================================================
