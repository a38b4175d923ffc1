---------------------------- MODULE TrackerProofs ----------------------------
(***************************************************************************)
(* Proofs about Tracker, for any sets of addresses and ports and any       *)
(* bounds on messages and restarts.                                        *)
(***************************************************************************)
EXTENDS Tracker, TrackerHandlerProofs, FiniteSetTheorems

TransportTypeOK ==
    /\ inbox \in [ClientMsg -> Nat]
    /\ queued \in [ToAddrs -> Seq(Notice)]
    /\ net \in [Notice -> Nat]
    /\ sends \in Nat
    /\ restarts \in Nat

IInv == HInv /\ TransportTypeOK

LEMMA IInvInit == Init => IInv
<1> SUFFICES ASSUME Init PROVE IInv
  OBVIOUS
<1> USE DEF Init, HandlerInit
<1>1. HandlerTypeOK
  BY DEF HandlerTypeOK
<1>2. OneSlotPerPeer /\ CurMatches /\ LeaverInactive /\ ToldSoFar
  BY DEF OneSlotPerPeer, CurMatches, LeaverInactive, ToldSoFar, InLoop
<1>3. TransportTypeOK
  BY DEF TransportTypeOK, EmptyInbox, NothingQueued
<1> QED BY <1>1, <1>2, <1>3 DEF IInv, HInv

\* What a send does to the state of the handler is its round of the loop.
LEMMA IInvSend ==
    ASSUME IInv, SendWhole \/ SendFails \/ SendQueues PROVE IInv'
<1>1. TrySend /\ HInv /\ TransportTypeOK
  BY DEF SendWhole, SendFails, SendQueues, IInv
<1>2. HInv'
  BY <1>1, HInvTrySend
<1>3. Due \in Notice
  BY <1>1, DueType DEF TrySend
<1>4. Due.to \in ToAddrs
  BY <1>3 DEF Notice
<1>5. TransportTypeOK'
  <2>1. CASE SendWhole
    <3>1. net[Due] + 1 \in Nat
      BY <1>1, <1>3 DEF TransportTypeOK
    <3> QED BY <1>1, <2>1, <3>1 DEF SendWhole, TransportTypeOK
  <2>2. CASE SendFails
    BY <1>1, <2>2 DEF SendFails, TransportTypeOK
  <2>3. CASE SendQueues
    <3>1. Append(queued[Due.to], Due) \in Seq(Notice)
      BY <1>1, <1>3, <1>4 DEF TransportTypeOK
    <3> QED BY <1>1, <2>3, <3>1 DEF SendQueues, TransportTypeOK
  <2> QED BY <2>1, <2>2, <2>3
<1> QED BY <1>2, <1>5 DEF IInv

LEMMA IInvReceive ==
    ASSUME IInv, NEW m \in ClientMsg, Receive(m) PROVE IInv'
<1>1. HInv'
  BY HInvKnock, HInvBye DEF IInv, Receive, HandleMsg
<1>2. TransportTypeOK'
  BY DEF IInv, TransportTypeOK, Receive
<1> QED BY <1>1, <1>2 DEF IInv

LEMMA IInvHandlerStep ==
    ASSUME IInv, HandlerStep PROVE IInv'
<1>1. HInv'
  BY HInvSkip, HInvAnnounceDone, HInvIntroduceDone, HInvFarewellDone
     DEF IInv, HandlerStep
<1>2. TransportTypeOK'
  BY DEF IInv, TransportTypeOK, HandlerStep
<1> QED BY <1>1, <1>2 DEF IInv

LEMMA WrittenType ==
    ASSUME TransportTypeOK, NEW d \in ToAddrs, NEW k \in Nat, Written(d, k)
    PROVE  net' \in [Notice -> Nat]
<1>1. \A n \in Notice : Cardinality({j \in 1..k : queued[d][j] = n}) \in Nat
  <2> TAKE n \in Notice
  <2>1. IsFiniteSet(1..k)
    BY FS_Interval
  <2>2. IsFiniteSet({j \in 1..k : queued[d][j] = n})
    BY <2>1, FS_Subset
  <2> QED BY <2>2, FS_CardinalityType
<1> DEFINE count(n) == Cardinality({j \in 1..k : queued[d][j] = n})
<1>2. net' = [n \in Notice |-> net[n] + count(n)]
  BY DEF Written
<1>3. \A n \in Notice : net[n] + count(n) \in Nat
  BY <1>1 DEF TransportTypeOK
<1> HIDE DEF count
<1> QED BY <1>2, <1>3

LEMMA IInvFlush ==
    ASSUME IInv, NEW d \in ToAddrs, Flush(d) PROVE IInv'
<1>1. HInv'
  BY HInvStutter DEF IInv, Flush
<1>2. queued[d] \in Seq(Notice)
  BY DEF IInv, TransportTypeOK
<1>3. PICK k \in 1..Len(queued[d]) :
        /\ Written(d, k)
        /\ queued' = [queued EXCEPT ![d] = SubSeq(@, k + 1, Len(@))]
  BY DEF Flush
<1>4. SubSeq(queued[d], k + 1, Len(queued[d])) \in Seq(Notice)
  BY <1>2
<1>5. net' \in [Notice -> Nat]
  BY <1>3, WrittenType DEF IInv
<1>6. TransportTypeOK'
  BY <1>3, <1>4, <1>5 DEF IInv, TransportTypeOK, Flush
<1> QED BY <1>1, <1>6 DEF IInv

LEMMA IInvDiscard ==
    ASSUME IInv, NEW d \in ToAddrs, Discard(d) PROVE IInv'
<1>1. HInv'
  BY HInvStutter DEF IInv, Discard
<1>2. PICK k \in 0..Len(queued[d]) - 1 : Written(d, k)
  BY DEF Discard
<1>3. net' \in [Notice -> Nat]
  BY <1>2, WrittenType DEF IInv
<1>4. TransportTypeOK'
  BY <1>3 DEF IInv, TransportTypeOK, Discard
<1> QED BY <1>1, <1>4 DEF IInv

LEMMA IInvClient ==
    ASSUME IInv, NEW m \in ClientMsg, ClientSends(m) \/ ClientFails(m) PROVE IInv'
<1>1. HInv'
  BY HInvStutter DEF IInv, ClientSends, ClientFails
<1>2. inbox[m] \in Nat
  BY DEF IInv, TransportTypeOK
<1>3. CASE ClientSends(m)
  <2>1. inbox' \in [ClientMsg -> Nat]
    BY <1>2, <1>3 DEF IInv, TransportTypeOK, ClientSends
  <2> QED BY <1>1, <1>3, <2>1 DEF IInv, TransportTypeOK, ClientSends
<1>4. CASE ClientFails(m)
  <2>1. inbox' \in [ClientMsg -> Nat]
    BY <1>2, <1>4 DEF IInv, TransportTypeOK, ClientFails
  <2> QED BY <1>1, <1>4, <2>1 DEF IInv, TransportTypeOK, ClientFails
<1> QED BY <1>3, <1>4

LEMMA IInvRestart ==
    ASSUME IInv, Restart PROVE IInv'
<1>1. HInv'
  BY HInvReset DEF Restart
<1>2. TransportTypeOK'
  BY DEF IInv, TransportTypeOK, Restart, EmptyInbox, NothingQueued
<1> QED BY <1>1, <1>2 DEF IInv

LEMMA IInvStep == IInv /\ [Next]_vars => IInv'
<1> SUFFICES ASSUME IInv, [Next]_vars PROVE IInv'
  OBVIOUS
<1>1. CASE \E m \in ClientMsg : ClientSends(m) \/ ClientFails(m)
  BY <1>1, IInvClient
<1>2. CASE \E m \in ClientMsg : Receive(m)
  BY <1>2, IInvReceive
<1>3. CASE SendWhole \/ SendFails \/ SendQueues
  BY <1>3, IInvSend
<1>4. CASE HandlerStep
  BY <1>4, IInvHandlerStep
<1>5. CASE \E d \in ToAddrs : Flush(d) \/ Discard(d)
  BY <1>5, IInvFlush, IInvDiscard
<1>6. CASE Restart
  BY <1>6, IInvRestart
<1>7. CASE UNCHANGED vars
  BY <1>7, HInvStutter DEF IInv, TransportTypeOK, vars
<1> QED BY <1>1, <1>2, <1>3, <1>4, <1>5, <1>6, <1>7 DEF Next, Thread

LEMMA Inductive == Spec => []IInv
BY IInvInit, IInvStep, PTL DEF Spec

\* The types of all variables, in every reachable state.
THEOREM TypeCorrect == Spec => []TypeOK
<1>1. IInv => TypeOK
  BY DEF IInv, HInv, TransportTypeOK, TypeOK
<1> QED BY <1>1, Inductive, PTL

\* The peer table never holds two slots for one client, and its handles are
\* the positions of its slots.
THEOREM SlotsAreUnique == Spec => []OneSlotPerPeer
<1>1. IInv => OneSlotPerPeer
  BY DEF IInv, HInv
<1> QED BY <1>1, Inductive, PTL

----------------------------------------------------------------------------
(* Action properties: they follow from one step out of IInv. *)

LEMMA SlotsStay ==
    ASSUME IInv, [Next]_vars, restarts' = restarts
    PROVE  /\ Len(peers) <= Len(peers')
           /\ \A k \in 1..Len(peers) : /\ peers'[k].hpeer = peers[k].hpeer
                                       /\ peers'[k].fromaddr = peers[k].fromaddr
<1> USE DEF IInv, HInv
<1>1. /\ peers \in TableType
      /\ nextHandle \in Nat \ {0}
      /\ TableOK(peers, nextHandle)
  BY DEF HandlerTypeOK, TableType, OneSlotPerPeer, TableOK
<1>2. Len(peers) \in Nat
  BY <1>1 DEF TableType
<1>3. CASE UNCHANGED peers
  BY <1>2, <1>3
<1>4. CASE \E m \in ClientMsg : Receive(m)
  <2>1. PICK m \in ClientMsg : HandleMsg(m)
    BY <1>4 DEF Receive
  <2>2. CASE m \in Knock /\ CallKnock(m)
    BY <1>3, <2>2 DEF CallKnock
  <2>3. CASE m \in Bye /\ CallBye(m)
    <3>1. peers' = AfterBye(peers, m.from)
      BY <2>3 DEF CallBye, AfterBye
    <3> QED BY <1>1, <1>2, <3>1, AfterByeOK
  <2> QED BY <2>1, <2>2, <2>3 DEF HandleMsg
<1>5. CASE IntroduceDone
  <2>1. cur.from \in FromAddrs /\ ListenAddr(cur) \in ToAddrs
    BY <1>5, ListenAddrType DEF IntroduceDone, CurMatches, Knock
  <2>2. peers' = CreatePeer(peers, nextHandle, cur.from, ListenAddr(cur))
    BY <1>5 DEF IntroduceDone
  <2> QED BY <1>1, <2>1, <2>2, CreatePeerOK
<1>6. CASE Restart
  BY <1>6 DEF Restart, TransportTypeOK
<1>7. CASE HandlerStep /\ ~IntroduceDone
  BY <1>3, <1>7 DEF HandlerStep, SkipInactive, AnnounceDone, FarewellDone
<1>8. CASE SendWhole \/ SendFails \/ SendQueues
  BY <1>3, <1>8 DEF SendWhole, SendFails, SendQueues, TrySend
<1>9. CASE \/ \E m \in ClientMsg : ClientSends(m) \/ ClientFails(m)
           \/ \E d \in ToAddrs : Flush(d) \/ Discard(d)
           \/ UNCHANGED vars
  BY <1>3, <1>9 DEF ClientSends, ClientFails, Flush, Discard, vars, handlerVars
<1> QED BY <1>4, <1>5, <1>6, <1>7, <1>8, <1>9 DEF Next, Thread, HandlerStep

\* A handle that was given out stays the handle of the same client.
THEOREM SlotsNeverMove == Spec => SlotsArePermanent
<1>1. IInv /\ [Next]_vars =>
        [restarts' = restarts =>
           /\ Len(peers) <= Len(peers')
           /\ \A k \in 1..Len(peers) :
                 /\ peers'[k].hpeer = peers[k].hpeer
                 /\ peers'[k].fromaddr = peers[k].fromaddr]_vars
  BY SlotsStay
<1> QED BY <1>1, Inductive, PTL DEF Spec, SlotsArePermanent

\* No message is no message.
LEMMA NoMsgIsNone == NoMsg \notin ClientMsg /\ Knock \cap Bye = {}
BY DEF NoMsg, ClientMsg, Knock, Bye

LEMMA KnockTells ==
    ASSUME IInv, IntroduceDone PROVE cur \in Knock /\ told = KnockNotices(cur)
<1> USE DEF IInv, HInv, IntroduceDone
<1>1. InLoop /\ cur \in Knock
  BY DEF InLoop, CurMatches
<1>2. told = Announced(Len(peers)) \cup Introduced(i - 1)
  BY DEF ToldSoFar
<1>3. ActiveUpTo(i - 1) = Active(peers) /\ ActiveUpTo(Len(peers)) = Active(peers)
  BY <1>1, AllSeen
<1> QED BY <1>1, <1>2, <1>3 DEF Announced, Introduced, KnockNotices

LEMMA ByeTells ==
    ASSUME IInv, FarewellDone PROVE cur \in Bye /\ told = ByeNotices(cur)
<1> USE DEF IInv, HInv, FarewellDone
<1>1. InLoop /\ cur \in Bye
  BY DEF InLoop, CurMatches
<1>2. told = Farewelled(i - 1) /\ ActiveUpTo(i - 1) = Active(peers)
  BY <1>1, AllSeen DEF ToldSoFar
<1>3. \A k \in Active(peers) : peers[k].fromaddr # cur.from
  BY DEF LeaverInactive, Active
<1>4. Active(peers) = {j \in Active(peers) : peers[j].fromaddr # cur.from}
  BY <1>3
<1> QED BY <1>1, <1>2, <1>4 DEF Farewelled, ByeNotices

LEMMA HandlerReturns ==
    ASSUME IInv, [Next]_vars, cur # NoMsg, cur' = NoMsg, restarts' = restarts
    PROVE  IntroduceDone \/ FarewellDone
<1>1. CASE \E m \in ClientMsg : Receive(m)
  <2>1. cur' \in ClientMsg
    BY <1>1 DEF Receive, HandleMsg, CallKnock, CallBye, Call
  <2> QED BY <2>1, NoMsgIsNone
<1>2. CASE Restart
  BY <1>2 DEF IInv, TransportTypeOK, Restart
<1>3. CASE HandlerStep
  BY <1>3 DEF HandlerStep, SkipInactive, AnnounceDone
<1>4. CASE SendWhole \/ SendFails \/ SendQueues
  BY <1>4 DEF SendWhole, SendFails, SendQueues, TrySend
<1>5. CASE \/ \E m \in ClientMsg : ClientSends(m) \/ ClientFails(m)
           \/ \E d \in ToAddrs : Flush(d) \/ Discard(d)
           \/ UNCHANGED vars
  BY <1>5 DEF ClientSends, ClientFails, Flush, Discard, vars, handlerVars
<1> QED BY <1>1, <1>2, <1>3, <1>4, <1>5 DEF Next, Thread

\* Whatever the table holds, the loops of handle_msg write to exactly the
\* peers the message concerns, each notice of the call and no other.
THEOREM HandlerTellsExactly == Spec => TellsExactly
<1>1. IInv /\ [Next]_vars =>
        [cur # NoMsg /\ cur' = NoMsg /\ restarts' = restarts =>
           told = IF cur \in Knock THEN KnockNotices(cur) ELSE ByeNotices(cur)]_vars
  BY HandlerReturns, KnockTells, ByeTells, NoMsgIsNone
<1> QED BY <1>1, Inductive, PTL DEF Spec, TellsExactly
----------------------------------------------------------------------------
(* The refinement: every step of Tracker is a step of Directory under the *)
(* mapping, or changes nothing that the directory has.                     *)

OnlineOf(tbl) == [a \in {tbl[k].fromaddr : k \in Active(tbl)} |->
                     tbl[Min(Slots(tbl, a))].toaddr]

\* What a well-formed table lists: each active slot, under its address.
LEMMA OnlineShape ==
    ASSUME NEW tbl \in TableType, NEW next, TableOK(tbl, next)
    PROVE  \A k \in Active(tbl) : OnlineOf(tbl)[tbl[k].fromaddr] = tbl[k].toaddr
<1> TAKE k \in Active(tbl)
<1>1. k \in 1..Len(tbl) /\ k \in Nat
  BY DEF Active
<1>2. \A j \in Slots(tbl, tbl[k].fromaddr) : j = k
  BY <1>1 DEF Slots, TableOK
<1>3. k \in Slots(tbl, tbl[k].fromaddr)
  BY <1>1 DEF Slots
<1>4. Min(Slots(tbl, tbl[k].fromaddr)) = k
  BY <1>1, <1>2, <1>3, MinOfOne
<1> QED BY <1>4 DEF OnlineOf

\* A function that agrees with the table on every active slot, and is defined
\* for nothing else, is what the table lists.
LEMMA OnlineIs ==
    ASSUME NEW tbl \in TableType, NEW next, TableOK(tbl, next),
           NEW f, f = [a \in DOMAIN f |-> f[a]],
           DOMAIN f = {tbl[k].fromaddr : k \in Active(tbl)},
           \A k \in Active(tbl) : f[tbl[k].fromaddr] = tbl[k].toaddr
    PROVE  OnlineOf(tbl) = f
<1>1. DOMAIN OnlineOf(tbl) = DOMAIN f
  BY DEF OnlineOf
<1>2. \A a \in DOMAIN f : OnlineOf(tbl)[a] = f[a]
  BY OnlineShape
<1>3. OnlineOf(tbl) = [a \in DOMAIN OnlineOf(tbl) |-> OnlineOf(tbl)[a]]
  BY DEF OnlineOf
<1> QED BY <1>1, <1>2, <1>3

Admitted(f, from, to) ==
    [a \in DOMAIN f \cup {from} |-> IF a = from THEN to ELSE f[a]]

\* create_peer lists the newcomer, at its new address.
LEMMA OnlineAfterCreate ==
    ASSUME NEW tbl \in TableType, NEW next \in Nat \ {0}, TableOK(tbl, next),
           NEW from \in FromAddrs, NEW to \in ToAddrs
    PROVE  OnlineOf(CreatePeer(tbl, next, from, to)) = Admitted(OnlineOf(tbl), from, to)
<1> DEFINE new == CreatePeer(tbl, next, from, to)
           f == Admitted(OnlineOf(tbl), from, to)
<1>1. /\ new \in TableType
      /\ TableOK(new, HandleAfterCreate(tbl, next, from))
  BY CreatePeerOK
<1>2. /\ f = [a \in DOMAIN f |-> f[a]]
      /\ DOMAIN f = {tbl[k].fromaddr : k \in Active(tbl)} \cup {from}
      /\ f[from] = to
      /\ \A k \in Active(tbl) : tbl[k].fromaddr # from => f[tbl[k].fromaddr] = tbl[k].toaddr
  BY OnlineShape DEF Admitted, OnlineOf
<1>3. PICK s \in 1..Len(new) :
        /\ new[s].fromaddr = from /\ new[s].toaddr = to /\ new[s].active
        /\ Active(new) = Active(tbl) \cup {s}
        /\ \A k \in Active(tbl) : k # s => new[k] = tbl[k] /\ tbl[k].fromaddr # from
        /\ \A k \in Active(tbl) : k = s => tbl[k].fromaddr = from
  <2>1. CASE /\ \A k \in 1..Len(tbl) : tbl[k].fromaddr # from
             /\ new = Append(tbl, PeerNew(next, from, to))
    <3>1. /\ Len(tbl) \in Nat
          /\ Len(new) = Len(tbl) + 1
          /\ \A k \in 1..Len(tbl) : new[k] = tbl[k]
          /\ new[Len(tbl) + 1] = PeerNew(next, from, to)
      BY <2>1 DEF TableType
    <3>2. Active(new) = Active(tbl) \cup {Len(tbl) + 1}
      BY <3>1 DEF Active, PeerNew
    <3>3. Len(tbl) + 1 \in 1..Len(new)
      BY <3>1
    <3> WITNESS Len(tbl) + 1 \in 1..Len(new)
    <3> QED BY <2>1, <3>1, <3>2 DEF Active, PeerNew
  <2>2. ASSUME NEW s \in 1..Len(tbl), tbl[s].fromaddr = from,
               new = [tbl EXCEPT ![s] = PeerReplace(tbl[s], to)]
        PROVE  \E x \in 1..Len(new) :
                 /\ new[x].fromaddr = from /\ new[x].toaddr = to /\ new[x].active
                 /\ Active(new) = Active(tbl) \cup {x}
                 /\ \A k \in Active(tbl) : k # x => new[k] = tbl[k] /\ tbl[k].fromaddr # from
                 /\ \A k \in Active(tbl) : k = x => tbl[k].fromaddr = from
    <3>1. tbl[s] \in Peer(FromAddrs, ToAddrs)
      BY DEF TableType
    <3>2. /\ PeerReplace(tbl[s], to).fromaddr = from
          /\ PeerReplace(tbl[s], to).toaddr = to
          /\ PeerReplace(tbl[s], to).active
      BY <2>2, <3>1 DEF PeerReplace, Peer
    <3>3. /\ Len(new) = Len(tbl)
          /\ \A k \in 1..Len(tbl) : new[k] = IF k = s THEN PeerReplace(tbl[s], to) ELSE tbl[k]
      BY <2>2 DEF TableType
    <3>4. Active(new) = Active(tbl) \cup {s}
      BY <3>2, <3>3 DEF Active
    <3>5. \A k \in 1..Len(tbl) : k # s => tbl[k].fromaddr # from
      BY <2>2 DEF TableOK
    <3> QED BY <2>2, <3>2, <3>3, <3>4, <3>5 DEF Active
  <2> QED BY <2>1, <2>2, CreatePeerShape
<1> HIDE DEF new, f
<1>4. DOMAIN f = {new[k].fromaddr : k \in Active(new)}
  BY <1>2, <1>3
<1>5. \A k \in Active(new) : f[new[k].fromaddr] = new[k].toaddr
  BY <1>2, <1>3
<1>6. OnlineOf(new) = f
  BY <1>1, <1>2, <1>4, <1>5, OnlineIs
<1> QED BY <1>6 DEF new, f

Departed(f, from) == [a \in DOMAIN f \ {from} |-> f[a]]

\* destroy_peer takes the leaver from the list.
LEMMA OnlineAfterBye ==
    ASSUME NEW tbl \in TableType, NEW next, TableOK(tbl, next), NEW from
    PROVE  OnlineOf(AfterBye(tbl, from)) = Departed(OnlineOf(tbl), from)
<1> DEFINE new == AfterBye(tbl, from)
           f == Departed(OnlineOf(tbl), from)
<1>1. new \in TableType /\ TableOK(new, next)
  BY AfterByeOK
<1>2. /\ f = [a \in DOMAIN f |-> f[a]]
      /\ DOMAIN f = {tbl[k].fromaddr : k \in Active(tbl)} \ {from}
      /\ \A k \in Active(tbl) : tbl[k].fromaddr # from => f[tbl[k].fromaddr] = tbl[k].toaddr
  BY OnlineShape DEF Departed, OnlineOf
<1>3. /\ Active(new) = {k \in Active(tbl) : tbl[k].fromaddr # from}
      /\ \A k \in Active(new) : new[k] = tbl[k]
  <2>1. CASE (\A k \in 1..Len(tbl) : tbl[k].fromaddr # from) /\ new = tbl
    BY <2>1 DEF Active
  <2>2. ASSUME NEW s \in 1..Len(tbl), tbl[s].fromaddr = from,
               new = [tbl EXCEPT ![s].active = FALSE]
        PROVE  /\ Active(new) = {k \in Active(tbl) : tbl[k].fromaddr # from}
               /\ \A k \in Active(new) : new[k] = tbl[k]
    <3>1. tbl[s] \in Peer(FromAddrs, ToAddrs)
      BY DEF TableType
    <3>2. /\ Len(new) = Len(tbl)
          /\ ~new[s].active
          /\ \A k \in 1..Len(tbl) : k # s => new[k] = tbl[k]
      BY <2>2, <3>1 DEF TableType, Peer
    <3>3. \A k \in 1..Len(tbl) : k # s => tbl[k].fromaddr # from
      BY <2>2 DEF TableOK
    <3> QED BY <2>2, <3>2, <3>3 DEF Active
  <2> QED BY <2>1, <2>2, AfterByeShape
<1> HIDE DEF new, f
<1>4. DOMAIN f = {new[k].fromaddr : k \in Active(new)}
  BY <1>2, <1>3
<1>5. \A k \in Active(new) : f[new[k].fromaddr] = new[k].toaddr
  BY <1>2, <1>3
<1>6. OnlineOf(new) = f
  BY <1>1, <1>2, <1>4, <1>5, OnlineIs
<1> QED BY <1>6 DEF new, f

----------------------------------------------------------------------------
(* The refinement *)

LEMMA OnlineIsOnlineOf == Online = OnlineOf(peers)
BY DEF Online, OnlineOf

LEMMA OnlineStays == UNCHANGED peers => Online' = Online
BY OnlineIsOnlineOf DEF OnlineOf, Online

\* The two modules mean the same messages.
LEMMA SameMessages ==
    /\ Dir!Knock = Knock /\ Dir!Bye = Bye /\ Dir!ClientMsg = ClientMsg
    /\ Dir!NoMsg = NoMsg
    /\ \A m \in Knock : Dir!ListenAddr(m) = ListenAddr(m)
BY DEF Dir!Knock, Dir!Bye, Dir!ClientMsg, Dir!NoMsg, Dir!ListenAddr, Dir!WithPort,
       Knock, Bye, ClientMsg, NoMsg, ListenAddr, WithPort

LEMMA DirInit == Init => Dir!Init
<1> SUFFICES ASSUME Init PROVE Dir!Init
  OBVIOUS
<1>1. inbox = Dir!NoMail /\ cur = Dir!NoMsg /\ restarts = 0
  BY SameMessages DEF Init, HandlerInit, EmptyInbox, Dir!NoMail
<1>2. Online = Dir!Nobody
  BY DEF Init, HandlerInit, Online, Active, Dir!Nobody
<1> QED BY <1>1, <1>2 DEF Dir!Init

LEMMA DirSends ==
    ASSUME NEW m \in ClientMsg, ClientSends(m) PROVE Dir!Post(m)
BY OnlineStays DEF ClientSends, handlerVars, Dir!Post

LEMMA DirFails ==
    ASSUME NEW m \in ClientMsg, ClientFails(m) PROVE Dir!Drop(m)
BY OnlineStays DEF ClientFails, handlerVars, Dir!Drop, Dir!Remove

LEMMA DirTakes ==
    ASSUME IInv, NEW m \in ClientMsg, Receive(m) PROVE Dir!Take(m)
<1>1. pc = "idle" /\ cur' = m
  BY DEF Receive, HandleMsg, CallKnock, CallBye, Call
<1>2. cur = Dir!NoMsg
  BY <1>1, SameMessages DEF IInv, HInv, CurMatches
<1> QED BY <1>1, <1>2 DEF Receive, Dir!Take, Dir!Remove

LEMMA DirReceiveKnock ==
    ASSUME IInv, NEW m \in Knock, Receive(m), CallKnock(m)
    PROVE  Dir!TakeKnock(m)
BY DirTakes, OnlineStays DEF Receive, ClientMsg, CallKnock, Dir!TakeKnock

LEMMA DirReceiveBye ==
    ASSUME IInv, NEW m \in Bye, Receive(m), CallBye(m)
    PROVE  Dir!TakeBye(m)
<1>1. peers' = AfterBye(peers, m.from)
  BY DEF CallBye, AfterBye
<1>2. peers \in TableType /\ TableOK(peers, nextHandle)
  BY DEF IInv, HInv, HandlerTypeOK, TableType, OneSlotPerPeer, TableOK
<1>3. Online' = Departed(Online, m.from)
  BY <1>1, <1>2, OnlineAfterBye, OnlineIsOnlineOf DEF OnlineOf, Online
<1> QED BY <1>3, DirTakes DEF Receive, ClientMsg, Dir!TakeBye, Departed

LEMMA DirIntroduceDone ==
    ASSUME IInv, HandlerStep, IntroduceDone PROVE Dir!FinishKnock
<1>1. cur \in Knock /\ cur' = NoMsg /\ UNCHANGED <<inbox, restarts>>
  BY DEF IntroduceDone, Return, HandlerStep, IInv, HInv, CurMatches
<1>2. /\ peers \in TableType
      /\ TableOK(peers, nextHandle)
      /\ nextHandle \in Nat \ {0}
      /\ cur.from \in FromAddrs
      /\ ListenAddr(cur) \in ToAddrs
  BY <1>1, ListenAddrType
     DEF IInv, HInv, HandlerTypeOK, TableType, OneSlotPerPeer, TableOK, Knock
<1>3. peers' = CreatePeer(peers, nextHandle, cur.from, ListenAddr(cur))
  BY DEF IntroduceDone
<1>4. Online' = Admitted(Online, cur.from, ListenAddr(cur))
  BY <1>2, <1>3, OnlineAfterCreate, OnlineIsOnlineOf DEF OnlineOf, Online
<1> QED BY <1>1, <1>4, SameMessages DEF Dir!FinishKnock, Admitted

LEMMA DirFarewellDone ==
    ASSUME IInv, HandlerStep, FarewellDone PROVE Dir!FinishBye
<1>1. cur \in Bye /\ cur' = NoMsg /\ UNCHANGED <<inbox, peers, restarts>>
  BY DEF FarewellDone, Return, HandlerStep, IInv, HInv, CurMatches
<1> QED BY <1>1, SameMessages, OnlineStays DEF Dir!FinishBye

LEMMA DirRestart ==
    ASSUME Restart PROVE Dir!Forget
<1>1. inbox' = Dir!NoMail /\ cur' = Dir!NoMsg
  BY SameMessages DEF Restart, HandlerReset, EmptyInbox, Dir!NoMail
<1>2. Online' = Dir!Nobody
  BY DEF Restart, HandlerReset, Online, Active, Dir!Nobody
<1> QED BY <1>1, <1>2 DEF Restart, Dir!Forget

\* What the directory does not see: the rounds of the loops, write buffers.
LEMMA DirStutter ==
    ASSUME UNCHANGED <<inbox, cur, peers, restarts>> PROVE UNCHANGED Dir!vars
BY OnlineStays DEF Dir!vars

LEMMA DirStep == IInv /\ [Next]_vars => [Dir!Next]_(Dir!vars)
<1> SUFFICES ASSUME IInv, [Next]_vars PROVE Dir!Next \/ UNCHANGED Dir!vars
  OBVIOUS
<1>1. ASSUME NEW m \in ClientMsg, ClientSends(m) \/ ClientFails(m) PROVE Dir!Next
  BY <1>1, DirSends, DirFails, SameMessages DEF Dir!Next
<1>2. ASSUME NEW m \in ClientMsg, Receive(m) PROVE Dir!Next
  BY <1>2, DirReceiveKnock, DirReceiveBye, SameMessages DEF Dir!Next, Receive, HandleMsg
<1>3. CASE SendWhole \/ SendFails \/ SendQueues
  BY <1>3, DirStutter DEF SendWhole, SendFails, SendQueues, TrySend
<1>4. CASE HandlerStep /\ (IntroduceDone \/ FarewellDone)
  BY <1>4, DirIntroduceDone, DirFarewellDone DEF Dir!Next
<1>5. CASE HandlerStep /\ (SkipInactive \/ AnnounceDone)
  BY <1>5, DirStutter DEF HandlerStep, SkipInactive, AnnounceDone
<1>6. CASE \/ \E d \in ToAddrs : Flush(d) \/ Discard(d)
           \/ UNCHANGED vars
  BY <1>6, DirStutter DEF Flush, Discard, vars, handlerVars
<1>7. CASE Restart
  BY <1>7, DirRestart DEF Dir!Next
<1> QED BY <1>1, <1>2, <1>3, <1>4, <1>5, <1>6, <1>7 DEF Next, Thread, HandlerStep

\* Across re-KNOCKs without a BYE, repeated BYEs, changed ports and restarts,
\* the peer table lists whoever's last handled message was a KNOCK.
THEOREM TrackerImplementsDirectory == Spec => ImplementsDirectory
BY Inductive, DirInit, DirStep, PTL DEF Spec, ImplementsDirectory, Dir!Spec
=============================================================================
