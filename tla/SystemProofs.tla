----------------------------- MODULE SystemProofs -----------------------------
(***************************************************************************)
(* Proofs about System, for any set of machines and any bounds: what the   *)
(* lists of the clients have to do with who is online.                     *)
(***************************************************************************)
EXTENDS System, TrackerHandlerProofs, SequenceTheorems

----------------------------------------------------------------------------
(* The inductive invariant.  Where a message was overtaken by another one  *)
(* it says no more than SysInv; all that follows is about queues that are  *)
(* taken from at their heads.                                              *)

Reach(c) == WithPort(c, ListenPort)

\* Everything that can be said to the tracker, to a client, and to its main thread.
KnockOf(c) == [msgno |-> "KNOCK", from |-> c, listenport |-> ListenPort]
ByeOf(c) == [msgno |-> "BYE", from |-> c]
Said == {KnockOf(c) : c \in FromAddrs} \cup {ByeOf(c) : c \in FromAddrs}

OnlineTo(c, d) == PeerOnline(Reach(c), d, Reach(d))
OfflineTo(c, d) == PeerOffline(Reach(c), d)
NoticesTo(c) == {OnlineTo(c, d) : d \in FromAddrs} \cup {OfflineTo(c, d) : d \in FromAddrs}

OnlineCall(h) == [fn |-> "IDLE_peer_online", hpeer |-> h]
OfflineCall(h) == [fn |-> "IDLE_peer_offline", hpeer |-> h]
Calls == {OnlineCall(h) : h \in Nat} \cup {OfflineCall(h) : h \in Nat}

\* Everybody can be reached at the same port, as far as a table says.
ReachOK(tbl) == \A k \in 1..Len(tbl) : tbl[k].toaddr = Reach(tbl[k].fromaddr)

\* Of a client: its table and what refers to it; a client that does not listen has
\* heard nothing.
MemoryOK(c) ==
    /\ TableOK(table[c], handle[c]) /\ ReachOK(table[c])
    /\ \A k \in 1..Len(idle[c]) : idle[c][k].hpeer \in 1..Len(table[c])
    /\ rows[c] \subseteq 1..Len(table[c])
    /\ arriving[c] \in Seq(NoticesTo(c))
    /\ c \in listening => Running(c)
    /\ c \notin listening => arriving[c] = <<>> /\ table[c] = <<>>
    /\ c \in prompt => phase[c] # "up"
    /\ c \in prompt /\ phase[c] = "on" => c \in listening

SysTypes ==
    /\ inbox \in Seq(Said) /\ cur \in Said \cup {NoMsg}
    /\ phase \in [FromAddrs -> {"off", "up", "on", "aborted"}]
    /\ listening \subseteq FromAddrs
    /\ table \in [FromAddrs -> TableType] /\ handle \in [FromAddrs -> Nat \ {0}]
    /\ idle \in [FromAddrs -> Seq(Calls)]
    /\ rows \in [FromAddrs -> SUBSET Nat]
    /\ arriving \in [FromAddrs -> Seq(Notice)]
    /\ starts \in [FromAddrs -> Nat]
    /\ prompt \subseteq FromAddrs /\ silent \subseteq FromAddrs
    /\ stray \in BOOLEAN /\ overtook \in BOOLEAN

SysInv ==
    /\ HInv /\ ReachOK(peers) /\ SysTypes
    /\ \A c \in FromAddrs : MemoryOK(c)

\* x is in the sequence, and y is nowhere behind it; y is not in the sequence.
LastIs(s, x, y) == \E k \in 1..Len(s) : s[k] = x /\ \A j \in 1..Len(s) : j > k => s[j] # y
Never(s, y) == \A k \in 1..Len(s) : s[k] # y

KnockComes(d) == LastIs(inbox, KnockOf(d), ByeOf(d))
ByeComes(d) == LastIs(inbox, ByeOf(d), KnockOf(d))

\* Of the tracker: who has an active slot, and whose KNOCK it is working on.
ListedAt(d, k) == peers[k].fromaddr = d /\ peers[k].active
Listed(d) == \E k \in 1..Len(peers) : ListedAt(d, k)
HasSlot(d) == \E k \in 1..Len(peers) : peers[k].fromaddr = d
Entering(d) == pc \in {"announce", "introduce"} /\ cur = KnockOf(d)

\* Who is online is listed, or will be; who left with a BYE is not, or will not be.
OnlineListed(d) ==
    phase[d] = "on" =>
        \/ KnockComes(d)
        \/ Never(inbox, ByeOf(d)) /\ (Listed(d) \/ Entering(d))
OthersNot(d) ==
    phase[d] # "on" /\ d \notin silent =>
        \/ ByeComes(d)
        \/ Never(inbox, KnockOf(d)) /\ ~Listed(d) /\ ~Entering(d)

\* The last thing a client c was told of d, with what arrives for it, its table, the
\* callbacks that wait and the rows of its list.
SaysOnline(arr, tbl, calls, rws, c, d) ==
    \/ LastIs(arr, OnlineTo(c, d), OfflineTo(c, d))
    \/ /\ Never(arr, OfflineTo(c, d))
       /\ \E h \in 1..Len(tbl) :
             /\ tbl[h].fromaddr = d
             /\ \/ LastIs(calls, OnlineCall(h), OfflineCall(h))
                \/ Never(calls, OfflineCall(h)) /\ h \in rws
SaysNotOnline(arr, tbl, calls, rws, c, d) ==
    \/ LastIs(arr, OfflineTo(c, d), OnlineTo(c, d))
    \/ /\ Never(arr, OnlineTo(c, d))
       /\ \A h \in 1..Len(tbl) :
             tbl[h].fromaddr = d =>
                \/ LastIs(calls, OfflineCall(h), OnlineCall(h))
                \/ Never(calls, OnlineCall(h)) /\ h \notin rws

HeardOnline(c, d) == SaysOnline(arriving[c], table[c], idle[c], rows[c], c, d)
HeardNotOnline(c, d) == SaysNotOnline(arriving[c], table[c], idle[c], rows[c], c, d)

\* That c is told of d is done, or due in the call of handle_msg under way, or will be.
AnnounceDue(c, d) ==
    pc = "announce" /\ cur = KnockOf(d) /\ \E k \in 1..Len(peers) : k >= i /\ ListedAt(c, k)
IntroduceDue(c, d) ==
    /\ cur = KnockOf(c)
    /\ \/ pc = "announce"
       \/ pc = "introduce" /\ \E k \in 1..Len(peers) : k >= i /\ ListedAt(d, k)
FarewellDue(c, d) ==
    pc = "farewell" /\ cur = ByeOf(d) /\ \E k \in 1..Len(peers) : k >= i /\ ListedAt(c, k)

KnowsOnline(c, d) ==
    c # d /\ c \in prompt /\ phase[c] = "on" /\ phase[d] = "on" =>
        \/ KnockComes(c) \/ KnockComes(d)
        \/ AnnounceDue(c, d) \/ IntroduceDue(c, d) \/ HeardOnline(c, d)

\* The first process at its address.
First(c) == starts[c] = 1 /\ phase[c] = "on"
IsNew(c) == starts[c] = 1 /\ phase[c] = "up"

KnowsNobodyElse(c, d) ==
    c # d /\ First(c) /\ phase[d] # "on" /\ d \notin silent =>
        ByeComes(d) \/ FarewellDue(c, d) \/ HeardNotOnline(c, d)

\* How far the tracker is with the first process at an address.
Unknown(c) == ~HasSlot(c) /\ cur # KnockOf(c)
Unborn(c) ==
    /\ Unknown(c) /\ cur # ByeOf(c)
    /\ Never(inbox, KnockOf(c)) /\ Never(inbox, ByeOf(c))
Once(s, x) == \A j, k \in 1..Len(s) : s[j] = x /\ s[k] = x => j = k
Staged(c) ==
    /\ starts[c] = 0 => phase[c] = "off"
    /\ starts[c] = 0 \/ IsNew(c) => Unborn(c)
    /\ First(c) =>
          /\ Never(inbox, ByeOf(c)) /\ cur # ByeOf(c)
          /\ \/ Unknown(c) /\ Once(inbox, KnockOf(c))
             \/ Never(inbox, KnockOf(c)) /\ cur = KnockOf(c) /\ ~HasSlot(c)
             \/ Never(inbox, KnockOf(c)) /\ cur # KnockOf(c) /\ Listed(c)
    /\ First(c) \/ IsNew(c) =>
          /\ ~HasSlot(c) /\ ~(pc = "introduce" /\ cur = KnockOf(c)) =>
                arriving[c] = <<>> /\ table[c] = <<>>
          /\ Never(arriving[c], OnlineTo(c, c))
          /\ \A h \in 1..Len(table[c]) : table[c][h].fromaddr # c

\* A BYE comes after a KNOCK.
InStep(d) ==
    ~stray =>
        \A k \in 1..Len(inbox) : inbox[k] = ByeOf(d) =>
            \/ \E j \in 1..Len(inbox) :
                  /\ j < k /\ inbox[j] = KnockOf(d)
                  /\ \A l \in 1..Len(inbox) : j < l /\ l < k => inbox[l] # ByeOf(d)
            \/ /\ Listed(d) \/ Entering(d)
               /\ \A l \in 1..Len(inbox) : l < k => inbox[l] # ByeOf(d)

HeardSome(c) == table[c] # <<>> \/ arriving[c] # <<>>

\* What the first process at an address is told before anybody's leaving.
FirstHears(c) ==
    starts[c] = 1 /\ c \in prompt /\ ~stray =>
        /\ phase[c] # "aborted"
        /\ First(c) =>
              /\ table[c] = <<>> /\ arriving[c] # <<>> =>
                    \E d \in FromAddrs : arriving[c][1] = OnlineTo(c, d)
              /\ Listed(c) /\ (\E d \in FromAddrs : d # c /\ Listed(d)) => HeardSome(c)
              /\ \A k \in 1..Len(peers) :
                    /\ ListedAt(c, k)
                    /\ pc = "announce" => k < i
                    /\ pc \in {"announce", "introduce", "farewell"}
                    => HeardSome(c)
              /\ pc = "introduce" /\ cur = KnockOf(c)
                   /\ (\E k \in 1..Len(peers) : k < i /\ peers[k].active) => HeardSome(c)

QueueInv ==
    /\ \A d \in FromAddrs : OnlineListed(d) /\ OthersNot(d) /\ InStep(d)
    /\ \A c \in FromAddrs : Staged(c) /\ FirstHears(c)
    /\ \A c, d \in FromAddrs : KnowsOnline(c, d) /\ KnowsNobodyElse(c, d)

IInv == SysInv /\ (~overtook => QueueInv)
----------------------------------------------------------------------------
(* What is said to whom can be told apart *)

LEMMA KnocksAndByes ==
    ASSUME NEW c \in FromAddrs, NEW d \in FromAddrs
    PROVE  /\ KnockOf(c) \in Knock /\ KnockOf(c) \notin Bye /\ KnockOf(c) \in Said
           /\ ByeOf(c) \in Bye /\ ByeOf(c) \notin Knock /\ ByeOf(c) \in Said
           /\ KnockOf(c).from = c /\ ByeOf(c).from = c /\ ListenAddr(KnockOf(c)) = Reach(c)
           /\ KnockOf(c) # ByeOf(d) /\ KnockOf(c) # NoMsg /\ ByeOf(c) # NoMsg
           /\ KnockOf(c) = KnockOf(d) => c = d
           /\ ByeOf(c) = ByeOf(d) => c = d
<1>1. ListenPort \in Ports
  BY SystemAssumption
<1>2. KnockOf(c).from = c /\ KnockOf(d).from = d /\ ByeOf(c).from = c /\ ByeOf(d).from = d
  BY DEF KnockOf, ByeOf
<1>3. KnockOf(c).msgno = "KNOCK" /\ ByeOf(c).msgno = "BYE" /\ ByeOf(d).msgno = "BYE"
  BY DEF KnockOf, ByeOf
<1>4. KnockOf(c) \in Knock /\ ByeOf(c) \in Bye
  BY <1>1 DEF KnockOf, ByeOf, Knock, Bye
<1>5. KnockOf(c) \notin Bye /\ ByeOf(c) \notin Knock
  BY <1>3 DEF Knock, Bye
<1>6. KnockOf(c) # NoMsg /\ ByeOf(c) # NoMsg
  BY <1>3 DEF NoMsg
<1>7. ListenAddr(KnockOf(c)) = Reach(c)
  BY DEF ListenAddr, Reach, KnockOf
<1>8. KnockOf(c) \in Said /\ ByeOf(c) \in Said
  BY DEF Said
<1> QED BY <1>2, <1>3, <1>4, <1>5, <1>6, <1>7, <1>8

\* Two machines are not reached at one address.
LEMMA ReachIsOfOne ==
    ASSUME NEW c \in FromAddrs, NEW d \in FromAddrs, Reach(c) = Reach(d) PROVE c = d
<1>1. Reach(c).ip = c.ip /\ Reach(d).ip = d.ip
  BY DEF Reach, WithPort
<1> QED BY <1>1, SystemAssumption

LEMMA ReachType ==
    ASSUME NEW c \in FromAddrs PROVE Reach(c) \in ToAddrs
BY SystemAssumption DEF Reach, ToAddrs

LEMMA NoticesDiffer ==
    ASSUME NEW c \in FromAddrs, NEW d \in FromAddrs, NEW e \in FromAddrs
    PROVE  /\ OnlineTo(c, d) \in Notice /\ OfflineTo(c, d) \in Notice
           /\ OnlineTo(c, d) \in NoticesTo(c) /\ OfflineTo(c, d) \in NoticesTo(c)
           /\ OnlineTo(c, d).msgno = "PEER_ONLINE" /\ OfflineTo(c, d).msgno = "PEER_OFFLINE"
           /\ OnlineTo(c, d).peer = d /\ OfflineTo(c, d).peer = d
           /\ OnlineTo(c, d).at = Reach(d)
           /\ OnlineTo(c, d).to = Reach(c) /\ OfflineTo(c, d).to = Reach(c)
           /\ OnlineTo(c, d) # OfflineTo(c, e)
           /\ OnlineTo(c, d) = OnlineTo(c, e) => d = e
           /\ OfflineTo(c, d) = OfflineTo(c, e) => d = e
<1>1. /\ OnlineTo(c, d).msgno = "PEER_ONLINE" /\ OfflineTo(c, e).msgno = "PEER_OFFLINE"
      /\ OfflineTo(c, d).msgno = "PEER_OFFLINE"
      /\ OnlineTo(c, d).peer = d /\ OfflineTo(c, d).peer = d
      /\ OnlineTo(c, e).peer = e /\ OfflineTo(c, e).peer = e
      /\ OnlineTo(c, d).at = Reach(d)
      /\ OnlineTo(c, d).to = Reach(c) /\ OfflineTo(c, d).to = Reach(c)
  BY DEF OnlineTo, OfflineTo, PeerOnline, PeerOffline
<1>2. OnlineTo(c, d) \in Notice /\ OfflineTo(c, d) \in Notice
  BY ReachType DEF OnlineTo, OfflineTo, PeerOnline, PeerOffline, Notice
<1>3. OnlineTo(c, d) \in NoticesTo(c) /\ OfflineTo(c, d) \in NoticesTo(c)
  BY DEF NoticesTo
<1> QED BY <1>1, <1>2, <1>3

LEMMA CallsDiffer ==
    ASSUME NEW g, NEW h
    PROVE  /\ OnlineCall(h).fn = "IDLE_peer_online" /\ OfflineCall(h).fn = "IDLE_peer_offline"
           /\ OnlineCall(h).hpeer = h /\ OfflineCall(h).hpeer = h
           /\ OnlineCall(g) # OfflineCall(h)
           /\ OnlineCall(g) = OnlineCall(h) => g = h
           /\ OfflineCall(g) = OfflineCall(h) => g = h
<1>1. /\ OnlineCall(g).fn = "IDLE_peer_online" /\ OfflineCall(h).fn = "IDLE_peer_offline"
      /\ OnlineCall(h).fn = "IDLE_peer_online"
      /\ OnlineCall(h).hpeer = h /\ OfflineCall(h).hpeer = h
      /\ OnlineCall(g).hpeer = g /\ OfflineCall(g).hpeer = g
  BY DEF OnlineCall, OfflineCall
<1> QED BY <1>1

----------------------------------------------------------------------------
(* Queues *)

\* What joins a queue is its last word.
LEMMA LastAppend ==
    ASSUME NEW S, NEW s \in Seq(S), NEW z, NEW x, NEW y
    PROVE  /\ z = x /\ x # y => LastIs(Append(s, z), x, y)
           /\ LastIs(s, x, y) /\ z # y => LastIs(Append(s, z), x, y)
           /\ Never(s, y) /\ z # y => Never(Append(s, z), y)
<1> DEFINE t == Append(s, z)
<1>1. /\ Len(s) \in Nat /\ Len(t) = Len(s) + 1 /\ t[Len(s) + 1] = z
      /\ \A k \in 1..Len(s) : t[k] = s[k]
  OBVIOUS
<1> HIDE DEF t
<1>2. Never(s, y) /\ z # y => Never(t, y)
  BY <1>1 DEF Never
<1>3. z = x /\ x # y => LastIs(t, x, y)
  BY <1>1 DEF LastIs
<1>4. LastIs(s, x, y) /\ z # y => LastIs(t, x, y)
  <2> SUFFICES ASSUME LastIs(s, x, y), z # y PROVE LastIs(t, x, y)
    OBVIOUS
  <2>1. PICK k \in 1..Len(s) : s[k] = x /\ \A j \in 1..Len(s) : j > k => s[j] # y
    BY DEF LastIs
  <2>2. k \in 1..Len(t) /\ t[k] = x /\ \A j \in 1..Len(t) : j > k => t[j] # y
    BY <1>1, <2>1
  <2> QED BY <2>2 DEF LastIs
<1> QED BY <1>2, <1>3, <1>4 DEF t

\* When the head of a queue is taken, it may have been the last word.
LEMMA LastTail ==
    ASSUME NEW S, NEW s \in Seq(S), s # <<>>, NEW x, NEW y
    PROVE  /\ LastIs(s, x, y) => \/ LastIs(Tail(s), x, y)
                                 \/ Head(s) = x /\ Never(Tail(s), y)
           /\ Never(s, y) => Never(Tail(s), y) /\ Head(s) # y
<1> DEFINE t == Tail(s)
<1>1. /\ Len(s) \in Nat \ {0} /\ Len(t) = Len(s) - 1 /\ Head(s) = s[1]
      /\ \A k \in 1..Len(t) : t[k] = s[k + 1]
  OBVIOUS
<1> HIDE DEF t
<1>2. Never(s, y) => Never(t, y) /\ Head(s) # y
  BY <1>1 DEF Never
<1>3. ASSUME LastIs(s, x, y), ~LastIs(t, x, y) PROVE Head(s) = x /\ Never(t, y)
  <2>1. PICK k \in 1..Len(s) : s[k] = x /\ \A j \in 1..Len(s) : j > k => s[j] # y
    BY <1>3 DEF LastIs
  <2>2. CASE k = 1
    BY <1>1, <2>1, <2>2 DEF Never
  <2>3. CASE k # 1
    <3>1. k - 1 \in 1..Len(t) /\ t[k - 1] = x /\ \A j \in 1..Len(t) : j > k - 1 => t[j] # y
      BY <1>1, <2>1, <2>3
    <3> QED BY <1>3, <3>1 DEF LastIs
  <2> QED BY <2>2, <2>3
<1> QED BY <1>2, <1>3 DEF t

LEMMA LastEmpty == \A x, y : ~LastIs(<<>>, x, y) /\ Never(<<>>, y)
BY DEF LastIs, Never

LEMMA TakenType ==
    ASSUME NEW S, NEW s \in Seq(S), NEW k \in DOMAIN s
    PROVE  RemoveAt(s, k) \in Seq(S) /\ s[k] \in S /\ s # <<>>
<1>1. k \in 1..Len(s) /\ Len(s) \in Nat
  OBVIOUS
<1>2. SubSeq(s, 1, k - 1) \in Seq(S) /\ SubSeq(s, k + 1, Len(s)) \in Seq(S)
  BY <1>1
<1> QED BY <1>1, <1>2 DEF RemoveAt

\* What is taken in order is taken at the head.
LEMMA TakenFirst ==
    ASSUME NEW S, NEW s \in Seq(S), s # <<>>
    PROVE  RemoveAt(s, 1) = Tail(s) /\ s[1] = Head(s)
<1>1. Len(s) \in Nat
  OBVIOUS
<1>2. SubSeq(s, 1, 0) = <<>>
  BY <1>1, SubSeqEmpty
<1>3. Tail(s) = SubSeq(s, 2, Len(s))
  BY TailIsSubSeq
<1>4. <<>> \o Tail(s) = Tail(s)
  BY ConcatEmptySeq
<1> QED BY <1>2, <1>3, <1>4 DEF RemoveAt

----------------------------------------------------------------------------
(* Tables: in which slot they change *)

LEMMA CreatedSlot ==
    ASSUME NEW tbl \in TableType, NEW next \in Nat \ {0}, TableOK(tbl, next),
           NEW from \in FromAddrs, NEW to \in ToAddrs,
           NEW new, new = CreatePeer(tbl, next, from, to)
    PROVE  /\ new \in TableType /\ TableOK(new, HandleAfterCreate(tbl, next, from))
           /\ HandleAfterCreate(tbl, next, from) \in Nat \ {0}
           /\ Len(tbl) <= Len(new) /\ Len(tbl) \in Nat /\ Len(new) \in Nat
           /\ \A k \in 1..Len(tbl) : new[k].fromaddr = tbl[k].fromaddr
           /\ \E s \in 1..Len(new) :
                 /\ new[s].fromaddr = from /\ new[s].toaddr = to /\ new[s].active
                 /\ \A k \in 1..Len(new) : k # s => k \in 1..Len(tbl) /\ new[k] = tbl[k]
<1>1. /\ new \in TableType /\ TableOK(new, HandleAfterCreate(tbl, next, from))
      /\ HandleAfterCreate(tbl, next, from) \in Nat \ {0}
      /\ Len(tbl) <= Len(new)
      /\ \A k \in 1..Len(tbl) : new[k].fromaddr = tbl[k].fromaddr
  BY CreatePeerOK
<1>2. Len(tbl) \in Nat /\ Len(new) \in Nat
  BY <1>1 DEF TableType
<1>3. CASE new = Append(tbl, PeerNew(next, from, to))
  <2>1. /\ Len(new) = Len(tbl) + 1 /\ new[Len(tbl) + 1] = PeerNew(next, from, to)
        /\ \A k \in 1..Len(tbl) : new[k] = tbl[k]
    BY <1>3 DEF TableType
  <2>2. PeerNew(next, from, to).fromaddr = from /\ PeerNew(next, from, to).toaddr = to
        /\ PeerNew(next, from, to).active
    BY DEF PeerNew
  <2>3. /\ Len(tbl) + 1 \in 1..Len(new)
        /\ \A k \in 1..Len(new) : k # Len(tbl) + 1 => k \in 1..Len(tbl)
    BY <1>2, <2>1
  <2> QED BY <1>1, <1>2, <2>1, <2>2, <2>3
<1>4. ASSUME NEW s \in 1..Len(tbl), tbl[s].fromaddr = from,
             new = [tbl EXCEPT ![s] = PeerReplace(tbl[s], to)]
      PROVE  /\ s \in 1..Len(new)
             /\ new[s].fromaddr = from /\ new[s].toaddr = to /\ new[s].active
             /\ \A k \in 1..Len(new) : k # s => k \in 1..Len(tbl) /\ new[k] = tbl[k]
  <2>1. tbl[s] \in Peer(FromAddrs, ToAddrs)
    BY DEF TableType
  <2>2. /\ PeerReplace(tbl[s], to).fromaddr = from /\ PeerReplace(tbl[s], to).toaddr = to
        /\ PeerReplace(tbl[s], to).active
    BY <1>4, <2>1 DEF PeerReplace, Peer
  <2>3. Len(new) = Len(tbl) /\ new[s] = PeerReplace(tbl[s], to)
        /\ \A k \in 1..Len(tbl) : k # s => new[k] = tbl[k]
    BY <1>4 DEF TableType
  <2> QED BY <2>2, <2>3
<1> QED BY <1>1, <1>2, <1>3, <1>4, CreatePeerShape

\* The slot that create_peer is about.
CreatedAt(tbl, new, from, to, s) ==
    /\ new[s].fromaddr = from /\ new[s].toaddr = to /\ new[s].active
    /\ \A k \in 1..Len(new) : k # s => k \in 1..Len(tbl) /\ new[k] = tbl[k]

LEMMA CreatedSomewhere ==
    ASSUME NEW tbl \in TableType, NEW next \in Nat \ {0}, TableOK(tbl, next),
           NEW from \in FromAddrs, NEW to \in ToAddrs
    PROVE  \E s \in 1..Len(CreatePeer(tbl, next, from, to)) :
              CreatedAt(tbl, CreatePeer(tbl, next, from, to), from, to, s)
BY CreatedSlot DEF CreatedAt

LEMMA FoundSlot ==
    ASSUME NEW tbl \in TableType, NEW next, TableOK(tbl, next), NEW from
    PROVE  /\ \A k \in 1..Len(tbl) : tbl[k].fromaddr = from => FindPeer(tbl, from) = k
           /\ (\A k \in 1..Len(tbl) : tbl[k].fromaddr # from) => FindPeer(tbl, from) = NoPeer
           /\ \A k \in 1..Len(tbl) : k # NoPeer
<1>1. ASSUME NEW k \in 1..Len(tbl), tbl[k].fromaddr = from PROVE FindPeer(tbl, from) = k
  <2>1. k \in Slots(tbl, from) /\ \A j \in Slots(tbl, from) : j = k
    BY <1>1 DEF Slots, TableOK
  <2>2. k \in Nat
    OBVIOUS
  <2>3. Min(Slots(tbl, from)) = k
    BY <2>1, <2>2, MinOfOne
  <2> QED BY <2>1, <2>3 DEF FindPeer, TableOK
<1>2. (\A k \in 1..Len(tbl) : tbl[k].fromaddr # from) => FindPeer(tbl, from) = NoPeer
  BY DEF FindPeer, Slots
<1>3. \A k \in 1..Len(tbl) : k # NoPeer
  BY DEF NoPeer
<1> QED BY <1>1, <1>2, <1>3

LEMMA DestroyedSlot ==
    ASSUME NEW tbl \in TableType, NEW next, TableOK(tbl, next), NEW h \in 1..Len(tbl),
           NEW new, new = DestroyPeer(tbl, h)
    PROVE  /\ new \in TableType /\ TableOK(new, next) /\ Len(new) = Len(tbl)
           /\ \A k \in 1..Len(tbl) : /\ new[k].fromaddr = tbl[k].fromaddr
                                     /\ new[k].toaddr = tbl[k].toaddr
<1> DEFINE gone == [tbl[h] EXCEPT !.active = FALSE]
<1>1. h \in HandleSlots(tbl, h) /\ \A j \in HandleSlots(tbl, h) : j = h
  BY DEF HandleSlots, TableOK
<1>2. Min(HandleSlots(tbl, h)) = h
  <2>1. h \in Nat
    OBVIOUS
  <2> QED BY <1>1, <2>1, MinOfOne
<1>3. new = [tbl EXCEPT ![h] = gone]
  BY <1>1, <1>2 DEF DestroyPeer
<1>4. tbl[h] \in Peer(FromAddrs, ToAddrs)
  BY DEF TableType
<1>5. /\ gone \in Peer(FromAddrs, ToAddrs) /\ gone.hpeer = tbl[h].hpeer
      /\ gone.fromaddr = tbl[h].fromaddr /\ gone.toaddr = tbl[h].toaddr
  BY <1>4 DEF Peer
<1> HIDE DEF gone
<1>6. /\ new \in TableType /\ Len(new) = Len(tbl)
      /\ \A k \in 1..Len(tbl) : new[k] = IF k = h THEN gone ELSE tbl[k]
  BY <1>3, <1>5 DEF TableType
<1>7. TableOK(new, next)
  BY <1>5, <1>6 DEF TableOK
<1> QED BY <1>5, <1>6, <1>7

LEMMA ByeSlots ==
    ASSUME NEW tbl \in TableType, NEW next, TableOK(tbl, next), NEW from,
           NEW new, new = AfterBye(tbl, from)
    PROVE  /\ new \in TableType /\ TableOK(new, next) /\ Len(new) = Len(tbl) /\ Len(tbl) \in Nat
           /\ \A k \in 1..Len(tbl) :
                 /\ new[k].fromaddr = tbl[k].fromaddr /\ new[k].toaddr = tbl[k].toaddr
                 /\ tbl[k].fromaddr = from => ~new[k].active
                 /\ tbl[k].fromaddr # from => new[k] = tbl[k]
<1>1. /\ new \in TableType /\ TableOK(new, next) /\ Len(new) = Len(tbl) /\ Len(tbl) \in Nat
      /\ \A k \in 1..Len(tbl) : /\ new[k].fromaddr = tbl[k].fromaddr
                                /\ tbl[k].fromaddr = from => ~new[k].active
  BY AfterByeOK DEF TableType
<1>2. ASSUME NEW s \in 1..Len(tbl), tbl[s].fromaddr = from,
             new = [tbl EXCEPT ![s].active = FALSE]
      PROVE  \A k \in 1..Len(tbl) : /\ new[k].toaddr = tbl[k].toaddr
                                    /\ tbl[k].fromaddr # from => new[k] = tbl[k]
  <2> DEFINE gone == [tbl[s] EXCEPT !.active = FALSE]
  <2>1. tbl[s] \in Peer(FromAddrs, ToAddrs)
    BY DEF TableType
  <2>2. gone.toaddr = tbl[s].toaddr
    BY <2>1 DEF Peer
  <2>3. new = [tbl EXCEPT ![s] = gone]
    BY <1>2
  <2> HIDE DEF gone
  <2>4. \A k \in 1..Len(tbl) : new[k] = IF k = s THEN gone ELSE tbl[k]
    BY <2>3 DEF TableType
  <2> QED BY <1>2, <2>2, <2>4
<1>3. CASE new = tbl /\ \A k \in 1..Len(tbl) : tbl[k].fromaddr # from
  BY <1>1, <1>3
<1> QED BY <1>1, <1>2, <1>3, AfterByeShape

----------------------------------------------------------------------------
(* SysInv is inductive *)

\* Nothing that is of e changes, but for its listening; nothing at all.
Alike(e) ==
    /\ phase'[e] = phase[e] /\ starts'[e] = starts[e]
    /\ e \in prompt' <=> e \in prompt
    /\ e \in silent' <=> e \in silent
    /\ table'[e] = table[e] /\ handle'[e] = handle[e]
    /\ idle'[e] = idle[e] /\ rows'[e] = rows[e] /\ arriving'[e] = arriving[e]
Same(e) == Alike(e) /\ (e \in listening' <=> e \in listening)

LEMMA MemorySame ==
    ASSUME NEW e \in FromAddrs, MemoryOK(e), Same(e) PROVE MemoryOK(e)'
<1>1. TableOK(table[e], handle[e])' /\ ReachOK(table[e])'
  <2>1. TableOK(table'[e], handle'[e]) /\ ReachOK(table'[e])
    BY DEF Alike, Same, MemoryOK
  <2> QED BY <2>1 DEF TableOK, ReachOK
<1>2. /\ \A k \in 1..Len(idle'[e]) : idle'[e][k].hpeer \in 1..Len(table'[e])
      /\ rows'[e] \subseteq 1..Len(table'[e])
      /\ arriving'[e] \in Seq(NoticesTo(e))
  BY DEF Alike, Same, MemoryOK
<1>3. /\ e \in listening' => Running(e)'
      /\ e \notin listening' => arriving'[e] = <<>> /\ table'[e] = <<>>
      /\ e \in prompt' => phase'[e] # "up"
      /\ e \in prompt' /\ phase'[e] = "on" => e \in listening'
  BY DEF Alike, Same, MemoryOK, Running
<1> QED BY <1>1, <1>2, <1>3 DEF MemoryOK, NoticesTo, OnlineTo, OfflineTo, Reach

\* Of a process with nothing in its memory.
LEMMA MemoryBare ==
    ASSUME NEW e \in FromAddrs, table'[e] = <<>>, handle'[e] = 1, arriving'[e] = <<>>,
           idle'[e] = <<>>, rows'[e] = {}, e \notin listening',
           phase'[e] \in {"off", "aborted"}
    PROVE  MemoryOK(e)'
<1>1. TableOK(<<>>, 1) /\ ReachOK(<<>>)
  BY DEF TableOK, ReachOK
<1>2. TableOK(table[e], handle[e])' /\ ReachOK(table[e])'
  <2>1. TableOK(table'[e], handle'[e]) /\ ReachOK(table'[e])
    BY <1>1
  <2> QED BY <2>1 DEF TableOK, ReachOK
<1>3. <<>> \in Seq(NoticesTo(e))
  OBVIOUS
<1> QED BY <1>2, <1>3 DEF MemoryOK, Running, NoticesTo, OnlineTo, OfflineTo, Reach

LEMMA SeqGrows ==
    ASSUME NEW S, NEW T, NEW s \in Seq(S), \A x \in S : x \in T PROVE s \in Seq(T)
OBVIOUS

LEMMA SysInvInit == Init => SysInv
<1> SUFFICES ASSUME Init PROVE SysInv
  OBVIOUS
<1> USE DEF Init
<1>1. HInv
  BY DEF HInv, HandlerInit, HandlerTypeOK, OneSlotPerPeer, CurMatches, LeaverInactive,
         ToldSoFar, InLoop
<1>2. ReachOK(peers)
  BY DEF ReachOK, HandlerInit
<1>3. SysTypes
  <2>1. /\ inbox \in Seq(Said) /\ cur \in Said \cup {NoMsg}
        /\ phase \in [FromAddrs -> {"off", "up", "on", "aborted"}]
        /\ handle \in [FromAddrs -> Nat \ {0}] /\ rows \in [FromAddrs -> SUBSET Nat]
        /\ starts \in [FromAddrs -> Nat]
    BY DEF HandlerInit
  <2>2. /\ table \in [FromAddrs -> TableType] /\ idle \in [FromAddrs -> Seq(Calls)]
        /\ arriving \in [FromAddrs -> Seq(Notice)]
    BY DEF TableType
  <2> QED BY <2>1, <2>2 DEF SysTypes
<1>4. ASSUME NEW c \in FromAddrs PROVE MemoryOK(c)
  <2>1. table[c] = <<>> /\ handle[c] = 1 /\ TableOK(<<>>, 1) /\ ReachOK(<<>>)
    BY DEF TableOK, ReachOK
  <2>2. arriving[c] = <<>> /\ idle[c] = <<>> /\ rows[c] = {} /\ phase[c] = "off"
    OBVIOUS
  <2>3. <<>> \in Seq(NoticesTo(c))
    OBVIOUS
  <2> QED BY <2>1, <2>2, <2>3 DEF MemoryOK, Running
<1> QED BY <1>1, <1>2, <1>3, <1>4 DEF SysInv

\* What a step of a client leaves to be shown: its part of the handler is to do nothing.
LEMMA SysInvOfClient ==
    ASSUME SysInv, UNCHANGED handlerVars, SysTypes', NEW c \in FromAddrs, MemoryOK(c)',
           \A e \in FromAddrs : e # c => Same(e)
    PROVE  SysInv'
<1>1. HInv' /\ ReachOK(peers)'
  BY HInvStutter DEF SysInv, handlerVars, ReachOK
<1>2. \A e \in FromAddrs : MemoryOK(e)'
  BY MemorySame DEF SysInv
<1> QED BY <1>1, <1>2 DEF SysInv

\* Start without the bound on starts.
Starts(c) ==
    /\ ~Running(c)
    /\ phase' = [phase EXCEPT ![c] = "up"] /\ starts' = [starts EXCEPT ![c] = @ + 1]
    /\ prompt' = prompt \ {c}
    /\ UNCHANGED <<handlerVars, inbox, listening, tableVars, arriving, kills, silent, stray, overtook>>

LEMMA StartDoes == \A c \in FromAddrs : Start(c) => Starts(c)
BY Zenon DEF Start, Starts

\* The memory of a process, when only its state changes.
LEMMA MemoryKept ==
    ASSUME NEW e \in FromAddrs, MemoryOK(e), UNCHANGED <<table, handle, idle, rows, arriving>>,
           e \in listening' => phase'[e] \in {"up", "on"},
           e \notin listening' => e \notin listening,
           e \in prompt' => phase'[e] # "up",
           e \in prompt' /\ phase'[e] = "on" => e \in listening'
    PROVE  MemoryOK(e)'
<1>1. /\ TableOK(table[e], handle[e])' /\ ReachOK(table[e])'
      /\ (\A k \in 1..Len(idle[e]) : idle[e][k].hpeer \in 1..Len(table[e]))'
      /\ (rows[e] \subseteq 1..Len(table[e]))'
      /\ (arriving[e] \in Seq(NoticesTo(e)))'
  BY DEF MemoryOK, TableOK, ReachOK, NoticesTo, OnlineTo, OfflineTo, Reach
<1>2. /\ e \in listening' => Running(e)'
      /\ e \notin listening' => arriving'[e] = <<>> /\ table'[e] = <<>>
  BY DEF MemoryOK, Running
<1> QED BY <1>1, <1>2 DEF MemoryOK

LEMMA SysInvStart ==
    ASSUME SysInv, NEW c \in FromAddrs, Starts(c)
    PROVE  SysInv' /\ \A e \in FromAddrs : e # c => Same(e)
<1> USE DEF Starts, tableVars
<1>1. \A e \in FromAddrs : e # c => Same(e)
  BY DEF SysInv, SysTypes, Alike, Same
<1>2. SysTypes'
  BY DEF SysInv, SysTypes, handlerVars
<1>3. MemoryOK(c)'
  <2>1. /\ MemoryOK(c) /\ phase'[c] = "up" /\ c \notin listening /\ c \notin prompt'
    BY DEF SysInv, SysTypes, MemoryOK
  <2> QED BY <2>1, MemoryKept
<1> QED BY <1>1, <1>2, <1>3, SysInvOfClient

LEMMA SysInvListen ==
    ASSUME SysInv, NEW c \in FromAddrs, Listen(c)
    PROVE  SysInv' /\ \A e \in FromAddrs : e # c => Same(e)
<1> USE DEF Listen, tableVars, historyVars
<1>1. \A e \in FromAddrs : e # c => Same(e)
  BY DEF SysInv, SysTypes, Alike, Same
<1>2. SysTypes'
  BY DEF SysInv, SysTypes, handlerVars
<1>3. MemoryOK(c)'
  BY DEF SysInv, SysTypes, MemoryOK, Running, ReachOK, TableOK
<1> QED BY <1>1, <1>2, <1>3, SysInvOfClient

LEMMA SysInvSendKnock ==
    ASSUME SysInv, NEW c \in FromAddrs, SendKnock(c)
    PROVE  /\ SysInv' /\ \A e \in FromAddrs : e # c => Same(e)
           /\ inbox' = Append(inbox, KnockOf(c))
<1> USE DEF SendKnock, tableVars
<1>1. \A e \in FromAddrs : e # c => Same(e)
  BY DEF SysInv, SysTypes, Alike, Same
<1>2. inbox' = Append(inbox, KnockOf(c))
  BY DEF KnockOf
<1>3. SysTypes'
  BY <1>2, KnocksAndByes DEF SysInv, SysTypes, handlerVars
<1>4. MemoryOK(c)'
  BY DEF SysInv, SysTypes, MemoryOK, Running, ReachOK, TableOK
<1> QED BY <1>1, <1>2, <1>3, <1>4, SysInvOfClient

\* Nothing is left of a process that ended.
Bare(c) ==
    /\ c \notin listening' /\ table'[c] = <<>> /\ arriving'[c] = <<>>
    /\ idle'[c] = <<>> /\ rows'[c] = {}

LEMMA SysInvQuit ==
    ASSUME SysInv, NEW c \in FromAddrs, Quit(c)
    PROVE  /\ SysInv' /\ \A e \in FromAddrs : e # c => Same(e)
           /\ inbox' = Append(inbox, ByeOf(c))
           /\ Bare(c) /\ phase'[c] = "off"
<1> USE DEF Quit, Ends
<1>1. \A e \in FromAddrs : e # c => Same(e)
  BY DEF SysInv, SysTypes, Alike, Same
<1>2. inbox' = Append(inbox, ByeOf(c))
  BY DEF ByeOf, SaidAtEnd
<1>3. SysTypes'
  BY <1>2, KnocksAndByes DEF SysInv, SysTypes, handlerVars, TableType
<1>4. Bare(c) /\ phase'[c] = "off" /\ handle'[c] = 1
  BY DEF SysInv, SysTypes, Bare
<1>5. MemoryOK(c)'
  BY <1>4, MemoryBare DEF Bare
<1> QED BY <1>1, <1>2, <1>3, <1>4, <1>5, SysInvOfClient

LEMMA SysInvKill ==
    ASSUME SysInv, NEW c \in FromAddrs, Kill(c)
    PROVE  /\ SysInv' /\ \A e \in FromAddrs : e # c => Same(e)
           /\ Bare(c) /\ phase'[c] = "off"
<1> USE DEF Kill, Ends
<1>1. \A e \in FromAddrs : e # c => Same(e)
  BY DEF SysInv, SysTypes, Alike, Same
<1>2. SysTypes'
  BY DEF SysInv, SysTypes, handlerVars, TableType
<1>3. Bare(c) /\ phase'[c] = "off" /\ handle'[c] = 1
  BY DEF SysInv, SysTypes, Bare
<1>4. MemoryOK(c)'
  BY <1>3, MemoryBare DEF Bare
<1> QED BY <1>1, <1>2, <1>3, <1>4, SysInvOfClient

\* The three ways to take a notice, which is of the client d.
TookOnline(c, k, d) ==
    /\ arriving[c][k] = OnlineTo(c, d)
    /\ arriving' = [arriving EXCEPT ![c] = RemoveAt(@, k)]
    /\ table' = [table EXCEPT ![c] = CreatePeer(@, handle[c], d, Reach(d))]
    /\ handle' = [handle EXCEPT ![c] = HandleAfterCreate(table[c], @, d)]
    /\ idle' = [idle EXCEPT ![c] = Append(@, OnlineCall(FindPeer((table')[c], d)))]
    /\ UNCHANGED <<phase, listening, silent, rows>>

TookOffline(c, k, d) ==
    /\ arriving[c][k] = OfflineTo(c, d) /\ table[c] # <<>>
    /\ arriving' = [arriving EXCEPT ![c] = RemoveAt(@, k)]
    /\ \/ /\ FindPeer(table[c], d) # NoPeer
          /\ idle' = [idle EXCEPT ![c] = Append(@, OfflineCall(FindPeer(table[c], d)))]
       \/ FindPeer(table[c], d) = NoPeer /\ UNCHANGED idle
    /\ UNCHANGED <<phase, listening, silent, table, handle, rows>>

TookAborting(c, k, d) ==
    /\ arriving[c][k] = OfflineTo(c, d) /\ table[c] = <<>>
    /\ arriving' = [arriving EXCEPT ![c] = <<>>]
    /\ phase' = [phase EXCEPT ![c] = "aborted"] /\ listening' = listening \ {c}
    /\ silent' = silent \cup {c} /\ UNCHANGED tableVars

TookRest(c, k) ==
    /\ c \in listening /\ k \in Takeable(arriving[c]) /\ Overtakes(k)
    /\ UNCHANGED <<handlerVars, inbox, starts, kills, prompt, stray>>

LEMMA TakeNoticeDoes ==
    ASSUME SysInv, NEW c \in FromAddrs, TakeNotice(c)
    PROVE  \E k \in Takeable(arriving[c]), d \in FromAddrs :
              /\ TookRest(c, k)
              /\ TookOnline(c, k, d) \/ TookOffline(c, k, d) \/ TookAborting(c, k, d)
<1>1. c \in listening /\ UNCHANGED <<handlerVars, inbox, starts, kills, prompt, stray>>
  BY DEF TakeNotice
<1>2. PICK k \in Takeable(arriving[c]) :
        /\ Overtakes(k)
        /\ \/ arriving[c][k].msgno = "PEER_ONLINE" /\ TakeOnline(c, arriving[c][k])
           \/ /\ arriving[c][k].msgno = "PEER_OFFLINE"
              /\ TakeOffline(c, arriving[c][k]) \/ TakeOfflineAborts(c)
        /\ arriving' = [arriving EXCEPT ![c] = IF (phase')[c] = "aborted" THEN <<>> ELSE RemoveAt(@, k)]
  BY Zenon DEF TakeNotice
<1> DEFINE n == arriving[c][k]
<1>3. arriving[c] \in Seq(NoticesTo(c)) /\ k \in DOMAIN arriving[c]
  BY DEF SysInv, MemoryOK, Takeable
<1>4. n \in NoticesTo(c)
  BY <1>3
<1>5. /\ phase \in [FromAddrs -> {"off", "up", "on", "aborted"}] /\ phase[c] # "aborted"
      /\ table \in [FromAddrs -> TableType] /\ idle \in [FromAddrs -> Seq(Calls)]
  BY <1>1 DEF SysInv, SysTypes, MemoryOK, Running
<1>6. TookRest(c, k)
  BY <1>1, <1>2 DEF TookRest
<1>7. CASE n.msgno = "PEER_ONLINE" /\ TakeOnline(c, n)
  <2>1. PICK d \in FromAddrs : n = OnlineTo(c, d)
    BY <1>4, <1>7, NoticesDiffer DEF NoticesTo
  <2>2. n.peer = d /\ n.at = Reach(d)
    BY <2>1, NoticesDiffer
  <2>3. phase'[c] # "aborted"
    BY <1>5, <1>7 DEF TakeOnline
  <2>4. TookOnline(c, k, d)
    BY <1>2, <1>7, <2>1, <2>2, <2>3 DEF TakeOnline, TookOnline, IdleAdd, OnlineCall
  <2> QED BY <1>6, <2>4
<1>8. CASE n.msgno = "PEER_OFFLINE" /\ TakeOffline(c, n)
  <2>1. PICK d \in FromAddrs : n = OfflineTo(c, d)
    BY <1>4, <1>8, NoticesDiffer DEF NoticesTo
  <2>2. n.peer = d
    BY <2>1, NoticesDiffer
  <2>3. phase'[c] # "aborted"
    BY <1>5, <1>8 DEF TakeOffline
  <2>4. TookOffline(c, k, d)
    BY <1>2, <1>8, <2>1, <2>2, <2>3 DEF TakeOffline, TookOffline, IdleAdd, OfflineCall
  <2> QED BY <1>6, <2>4
<1>9. CASE n.msgno = "PEER_OFFLINE" /\ TakeOfflineAborts(c)
  <2>1. PICK d \in FromAddrs : n = OfflineTo(c, d)
    BY <1>4, <1>9, NoticesDiffer DEF NoticesTo
  <2>2. phase'[c] = "aborted"
    BY <1>5, <1>9 DEF TakeOfflineAborts
  <2>3. TookAborting(c, k, d)
    BY <1>2, <1>9, <2>1, <2>2 DEF TakeOfflineAborts, TookAborting
  <2> QED BY <1>6, <2>3
<1> QED BY <1>2, <1>7, <1>8, <1>9

\* What it does to the memory of c: slot s is that of d, in the old table and in the new.
OnlineDone(c, d, s) ==
    /\ s \in 1..Len(table'[c]) /\ table'[c][s].fromaddr = d /\ table'[c] # <<>>
    /\ \A h \in 1..Len(table[c]) : h \in 1..Len(table'[c]) /\ table'[c][h].fromaddr = table[c][h].fromaddr
    /\ \A h \in 1..Len(table'[c]) : h # s =>
          h \in 1..Len(table[c]) /\ table'[c][h] = table[c][h] /\ table'[c][h].fromaddr # d
    /\ idle'[c] = Append(idle[c], OnlineCall(s)) /\ rows'[c] = rows[c]
    /\ phase' = phase /\ listening' = listening /\ silent' = silent

LEMMA SysInvTookOnline ==
    ASSUME SysInv, NEW c \in FromAddrs, NEW d \in FromAddrs, NEW k,
           TookRest(c, k), TookOnline(c, k, d)
    PROVE  /\ SysInv' /\ \A e \in FromAddrs : e # c => Same(e)
           /\ arriving'[c] = RemoveAt(arriving[c], k)
           /\ \E s \in 1..Len(table'[c]) : OnlineDone(c, d, s)
<1> DEFINE old == table[c]
           new == CreatePeer(table[c], handle[c], d, Reach(d))
<1>1. /\ UNCHANGED <<handlerVars, inbox, starts, kills, prompt, stray>>
      /\ UNCHANGED <<phase, listening, silent, rows>> /\ overtook' \in BOOLEAN
  BY DEF TookRest, TookOnline, Overtakes, SysInv, SysTypes
<1>2. /\ MemoryOK(c) /\ old \in TableType /\ handle[c] \in Nat \ {0} /\ TableOK(old, handle[c])
      /\ ReachOK(old) /\ c \in listening
      /\ arriving[c] \in Seq(NoticesTo(c)) /\ arriving[c] \in Seq(Notice) /\ idle[c] \in Seq(Calls)
      /\ rows[c] \subseteq 1..Len(old)
      /\ k \in DOMAIN arriving[c]
  BY DEF SysInv, SysTypes, MemoryOK, TookRest, Takeable
<1>3. /\ table' = [table EXCEPT ![c] = new] /\ table'[c] = new
      /\ handle' = [handle EXCEPT ![c] = HandleAfterCreate(old, @, d)]
      /\ handle'[c] = HandleAfterCreate(old, handle[c], d)
      /\ arriving' = [arriving EXCEPT ![c] = RemoveAt(@, k)]
      /\ arriving'[c] = RemoveAt(arriving[c], k)
      /\ idle' = [idle EXCEPT ![c] = Append(@, OnlineCall(FindPeer(new, d)))]
      /\ idle'[c] = Append(idle[c], OnlineCall(FindPeer(new, d)))
  BY DEF TookOnline, SysInv, SysTypes
<1>4. Reach(d) \in ToAddrs
  BY ReachType
<1> HIDE DEF new, old
<1>5. new = CreatePeer(old, handle[c], d, Reach(d))
  BY DEF new, old
<1>6. /\ new \in TableType /\ TableOK(new, handle'[c]) /\ handle'[c] \in Nat \ {0}
      /\ Len(old) <= Len(new) /\ Len(old) \in Nat /\ Len(new) \in Nat
      /\ \A h \in 1..Len(old) : new[h].fromaddr = old[h].fromaddr
  <2>1. /\ TableOK(new, HandleAfterCreate(old, handle[c], d))
        /\ HandleAfterCreate(old, handle[c], d) \in Nat \ {0}
        /\ new \in TableType /\ Len(old) <= Len(new) /\ Len(old) \in Nat /\ Len(new) \in Nat
        /\ \A h \in 1..Len(old) : new[h].fromaddr = old[h].fromaddr
    BY <1>2, <1>4, <1>5, CreatedSlot
  <2> QED BY <1>3, <2>1
<1>7. PICK s \in 1..Len(new) :
         /\ new[s].fromaddr = d /\ new[s].toaddr = Reach(d)
         /\ \A h \in 1..Len(new) : h # s => h \in 1..Len(old) /\ new[h] = old[h]
  <2>1. \E s \in 1..Len(new) : CreatedAt(old, new, d, Reach(d), s)
    BY <1>2, <1>4, <1>5, CreatedSomewhere
  <2> QED BY <2>1 DEF CreatedAt
<1>8. FindPeer(new, d) = s
  BY <1>6, <1>7, FoundSlot
<1>9. RemoveAt(arriving[c], k) \in Seq(NoticesTo(c)) /\ RemoveAt(arriving[c], k) \in Seq(Notice)
  BY <1>2, TakenType
<1>10. s \in Nat /\ OnlineCall(s) \in Calls /\ OnlineCall(s).hpeer = s
  <2>1. s \in Nat
    OBVIOUS
  <2> QED BY <2>1, CallsDiffer DEF Calls
<1>11. \A e \in FromAddrs : e # c => Same(e)
  BY <1>1, <1>3 DEF SysInv, SysTypes, Alike, Same
<1>12. idle'[c] \in Seq(Calls)
  BY <1>2, <1>3, <1>8, <1>10
<1>13. SysTypes'
  BY <1>1, <1>3, <1>6, <1>8, <1>9, <1>12 DEF SysInv, SysTypes, handlerVars
<1>14. ReachOK(new)
  BY <1>2, <1>7 DEF ReachOK
<1>15. \A j \in 1..Len(idle'[c]) : idle'[c][j].hpeer \in 1..Len(new)
  <2>1. \A j \in 1..Len(idle[c]) : idle[c][j].hpeer \in 1..Len(new)
    BY <1>2, <1>6 DEF MemoryOK, old
  <2> QED BY <1>2, <1>3, <1>7, <1>8, <1>10, <2>1
<1>16. rows'[c] \subseteq 1..Len(new)
  BY <1>1, <1>2, <1>6
<1>17. MemoryOK(c)'
  <2>1. /\ TableOK(table'[c], handle'[c]) /\ ReachOK(table'[c])
        /\ \A j \in 1..Len(idle'[c]) : idle'[c][j].hpeer \in 1..Len(table'[c])
        /\ rows'[c] \subseteq 1..Len(table'[c])
        /\ arriving'[c] \in Seq(NoticesTo(c))
    BY <1>3, <1>6, <1>9, <1>14, <1>15, <1>16
  <2>2. /\ c \in listening' /\ Running(c)'
        /\ c \in prompt' => phase'[c] # "up"
    BY <1>1, <1>2 DEF MemoryOK, Running
  <2> QED BY <2>1, <2>2 DEF MemoryOK, TableOK, ReachOK, NoticesTo, OnlineTo, OfflineTo, Reach
<1>18. OnlineDone(c, d, s)
  <2>1. \A h \in 1..Len(new) : h # s => new[h].fromaddr # d
    BY <1>6, <1>7 DEF TableOK
  <2>2. new # <<>> /\ \A h \in 1..Len(old) : h \in 1..Len(new)
    BY <1>6, <1>7
  <2> QED BY <1>1, <1>3, <1>6, <1>7, <1>8, <2>1, <2>2 DEF OnlineDone, old
<1>19. SysInv'
  BY <1>1, <1>11, <1>13, <1>17, SysInvOfClient
<1> QED BY <1>3, <1>7, <1>11, <1>18, <1>19

\* The same for a notice of somebody who left, if there is a slot of d.
OfflineDone(c, d) ==
    /\ table' = table /\ rows' = rows /\ table[c] # <<>>
    /\ \/ \E s \in 1..Len(table[c]) :
             table[c][s].fromaddr = d /\ idle'[c] = Append(idle[c], OfflineCall(s))
       \/ (\A h \in 1..Len(table[c]) : table[c][h].fromaddr # d) /\ idle'[c] = idle[c]
    /\ phase' = phase /\ listening' = listening /\ silent' = silent

LEMMA SysInvTookOffline ==
    ASSUME SysInv, NEW c \in FromAddrs, NEW d \in FromAddrs, NEW k,
           TookRest(c, k), TookOffline(c, k, d)
    PROVE  /\ SysInv' /\ \A e \in FromAddrs : e # c => Same(e)
           /\ arriving'[c] = RemoveAt(arriving[c], k)
           /\ OfflineDone(c, d)
<1>1. /\ UNCHANGED <<handlerVars, inbox, starts, kills, prompt, stray>>
      /\ UNCHANGED <<phase, listening, silent, table, handle, rows>> /\ overtook' \in BOOLEAN
  BY DEF TookRest, TookOffline, Overtakes, SysInv, SysTypes
<1>2. /\ MemoryOK(c) /\ table[c] \in TableType /\ TableOK(table[c], handle[c])
      /\ c \in listening
      /\ arriving[c] \in Seq(NoticesTo(c)) /\ arriving[c] \in Seq(Notice) /\ idle[c] \in Seq(Calls)
      /\ k \in DOMAIN arriving[c]
  BY DEF SysInv, SysTypes, MemoryOK, TookRest, Takeable
<1>3. /\ arriving' = [arriving EXCEPT ![c] = RemoveAt(@, k)]
      /\ arriving'[c] = RemoveAt(arriving[c], k)
  BY DEF TookOffline, SysInv, SysTypes
<1>4. RemoveAt(arriving[c], k) \in Seq(NoticesTo(c)) /\ RemoveAt(arriving[c], k) \in Seq(Notice)
  BY <1>2, TakenType
<1>5. \/ \E s \in 1..Len(table[c]) :
            /\ table[c][s].fromaddr = d
            /\ idle' = [idle EXCEPT ![c] = Append(@, OfflineCall(s))]
      \/ (\A h \in 1..Len(table[c]) : table[c][h].fromaddr # d) /\ idle' = idle
  <2>1. CASE \E s \in 1..Len(table[c]) : table[c][s].fromaddr = d
    <3>1. PICK s \in 1..Len(table[c]) : table[c][s].fromaddr = d
      BY <2>1
    <3>2. FindPeer(table[c], d) = s /\ s # NoPeer
      BY <1>2, <3>1, FoundSlot
    <3> QED BY <3>1, <3>2 DEF TookOffline
  <2>2. CASE \A h \in 1..Len(table[c]) : table[c][h].fromaddr # d
    <3>1. FindPeer(table[c], d) = NoPeer
      BY <1>2, <2>2, FoundSlot
    <3> QED BY <2>2, <3>1 DEF TookOffline
  <2> QED BY <2>1, <2>2
<1>6. /\ OfflineDone(c, d) /\ idle' \in [FromAddrs -> Seq(Calls)]
      /\ \A e \in FromAddrs : e # c => idle'[e] = idle[e]
      /\ \A j \in 1..Len(idle'[c]) : idle'[c][j].hpeer \in 1..Len(table[c])
  <2>1. idle \in [FromAddrs -> Seq(Calls)] /\ table[c] # <<>>
    BY DEF SysInv, SysTypes, TookOffline
  <2>2. \A j \in 1..Len(idle[c]) : idle[c][j].hpeer \in 1..Len(table[c])
    BY <1>2 DEF MemoryOK
  <2>3. ASSUME NEW s \in 1..Len(table[c]), table[c][s].fromaddr = d,
               idle' = [idle EXCEPT ![c] = Append(@, OfflineCall(s))]
        PROVE  /\ OfflineDone(c, d) /\ idle' \in [FromAddrs -> Seq(Calls)]
               /\ \A e \in FromAddrs : e # c => idle'[e] = idle[e]
               /\ \A j \in 1..Len(idle'[c]) : idle'[c][j].hpeer \in 1..Len(table[c])
    <3>1. s \in Nat /\ OfflineCall(s) \in Calls /\ OfflineCall(s).hpeer = s
      <4>1. s \in Nat
        OBVIOUS
      <4> QED BY <4>1, CallsDiffer DEF Calls
    <3>2. idle'[c] = Append(idle[c], OfflineCall(s)) /\ Append(idle[c], OfflineCall(s)) \in Seq(Calls)
      BY <1>2, <2>1, <2>3, <3>1
    <3>3. \A j \in 1..Len(idle'[c]) : idle'[c][j].hpeer \in 1..Len(table[c])
      BY <1>2, <2>2, <3>1, <3>2
    <3>4. OfflineDone(c, d)
      BY <1>1, <2>1, <2>3, <3>2 DEF OfflineDone
    <3> QED BY <2>1, <2>3, <3>2, <3>3, <3>4
  <2>4. CASE (\A h \in 1..Len(table[c]) : table[c][h].fromaddr # d) /\ idle' = idle
    BY <1>1, <2>1, <2>2, <2>4 DEF OfflineDone
  <2> QED BY <1>5, <2>3, <2>4
<1>7. \A e \in FromAddrs : e # c => Same(e)
  BY <1>1, <1>3, <1>6 DEF SysInv, SysTypes, Alike, Same
<1>8. SysTypes'
  BY <1>1, <1>3, <1>4, <1>6 DEF SysInv, SysTypes, handlerVars
<1>9. MemoryOK(c)'
  <2>1. /\ TableOK(table'[c], handle'[c]) /\ ReachOK(table'[c])
        /\ \A j \in 1..Len(idle'[c]) : idle'[c][j].hpeer \in 1..Len(table'[c])
        /\ rows'[c] \subseteq 1..Len(table'[c])
        /\ arriving'[c] \in Seq(NoticesTo(c))
    BY <1>1, <1>2, <1>3, <1>4, <1>6 DEF MemoryOK
  <2>2. /\ c \in listening' /\ Running(c)'
        /\ c \in prompt' => phase'[c] # "up"
    BY <1>1, <1>2 DEF MemoryOK, Running
  <2> QED BY <2>1, <2>2 DEF MemoryOK, TableOK, ReachOK, NoticesTo, OnlineTo, OfflineTo, Reach
<1>10. SysInv'
  BY <1>1, <1>7, <1>8, <1>9, SysInvOfClient
<1> QED BY <1>3, <1>6, <1>7, <1>10

LEMMA SysInvTookAborting ==
    ASSUME SysInv, NEW c \in FromAddrs, NEW d \in FromAddrs, NEW k,
           TookRest(c, k), TookAborting(c, k, d)
    PROVE  /\ SysInv' /\ \A e \in FromAddrs : e # c => Same(e)
           /\ Bare(c) /\ phase'[c] = "aborted" /\ c \in silent'
<1>1. /\ UNCHANGED <<handlerVars, inbox, starts, kills, prompt, stray>> /\ UNCHANGED tableVars
      /\ overtook' \in BOOLEAN
  BY DEF TookRest, TookAborting, Overtakes, SysInv, SysTypes
<1>2. /\ MemoryOK(c) /\ table[c] = <<>> /\ handle[c] = 1 /\ rows[c] = {}
      /\ idle[c] \in Seq(Calls) /\ \A j \in 1..Len(idle[c]) : FALSE
  <2>1. MemoryOK(c) /\ table[c] = <<>> /\ idle[c] \in Seq(Calls)
    BY DEF SysInv, SysTypes, TookAborting
  <2>2. handle[c] = 0 + 1 /\ rows[c] \subseteq 1..0
        /\ \A j \in 1..Len(idle[c]) : idle[c][j].hpeer \in 1..0
    BY <2>1 DEF MemoryOK, TableOK
  <2> QED BY <2>1, <2>2
<1>3. idle[c] = <<>>
  BY <1>2
<1>4. Bare(c) /\ phase'[c] = "aborted" /\ c \in silent' /\ handle'[c] = 1
  BY <1>1, <1>2, <1>3 DEF TookAborting, Bare, SysInv, SysTypes, tableVars
<1>5. \A e \in FromAddrs : e # c => Same(e)
  BY <1>1 DEF SysInv, SysTypes, Alike, Same, TookAborting, tableVars
<1>6. SysTypes'
  BY <1>1 DEF SysInv, SysTypes, handlerVars, TookAborting, tableVars
<1>7. MemoryOK(c)'
  BY <1>4, MemoryBare DEF Bare
<1>8. SysInv'
  BY <1>1, <1>5, <1>6, <1>7, SysInvOfClient
<1> QED BY <1>4, <1>5, <1>8

\* What a callback for slot h does to the memory of c.
CallDone(c, h) ==
    /\ h \in 1..Len(table[c]) /\ idle[c] # <<>> /\ idle'[c] = Tail(idle[c])
    /\ table[c] # <<>> /\ table'[c] # <<>>
    /\ Len(table'[c]) = Len(table[c])
    /\ \A k \in 1..Len(table[c]) : table'[c][k].fromaddr = table[c][k].fromaddr
    /\ \/ Head(idle[c]) = OnlineCall(h) /\ rows'[c] = rows[c] \cup {h}
       \/ Head(idle[c]) = OfflineCall(h) /\ rows'[c] = rows[c] \ {h}

LEMMA SysInvRunIdle ==
    ASSUME SysInv, NEW c \in FromAddrs, RunIdle(c)
    PROVE  /\ SysInv' /\ \A e \in FromAddrs : e # c => Same(e)
           /\ \E h \in 1..Len(table[c]) : CallDone(c, h)
<1> DEFINE cb == Head(idle[c])
           h == cb.hpeer
<1>1. UNCHANGED <<handlerVars, inbox, phase, listening, handle, arriving, historyVars>>
  BY DEF RunIdle
<1>2. /\ MemoryOK(c) /\ table[c] \in TableType /\ TableOK(table[c], handle[c]) /\ ReachOK(table[c])
      /\ idle[c] \in Seq(Calls) /\ idle[c] # <<>> /\ rows[c] \subseteq 1..Len(table[c])
      /\ rows \in [FromAddrs -> SUBSET Nat] /\ table \in [FromAddrs -> TableType]
      /\ idle \in [FromAddrs -> Seq(Calls)] /\ Len(table[c]) \in Nat
  BY DEF SysInv, SysTypes, MemoryOK, RunIdle, TableType
<1>3. /\ cb \in Calls /\ h \in 1..Len(table[c]) /\ h \in Nat
      /\ Tail(idle[c]) \in Seq(Calls)
      /\ \A j \in 1..Len(Tail(idle[c])) : Tail(idle[c])[j].hpeer \in 1..Len(table[c])
  <2>1. /\ 1 \in 1..Len(idle[c]) /\ cb = idle[c][1]
        /\ Tail(idle[c]) \in Seq(Calls) /\ Len(Tail(idle[c])) = Len(idle[c]) - 1
        /\ \A j \in 1..Len(Tail(idle[c])) : Tail(idle[c])[j] = idle[c][j + 1]
    BY <1>2
  <2>2. \A j \in 1..Len(idle[c]) : idle[c][j].hpeer \in 1..Len(table[c]) /\ idle[c][j] \in Calls
    BY <1>2 DEF MemoryOK
  <2> QED BY <1>2, <2>1, <2>2
<1>4. PICK g \in Nat : cb = OnlineCall(g) \/ cb = OfflineCall(g)
  BY <1>3 DEF Calls
<1>5. h = g
  BY <1>4, CallsDiffer
<1>6. idle' = [idle EXCEPT ![c] = Tail(@)]
  BY DEF RunIdle
<1> DEFINE Rest == /\ rows' \in [FromAddrs -> SUBSET Nat] /\ rows'[c] \subseteq 1..Len(table[c])
                   /\ table' \in [FromAddrs -> TableType] /\ TableOK(table'[c], handle[c])
                   /\ ReachOK(table'[c]) /\ Len(table'[c]) = Len(table[c])
                   /\ \A k \in 1..Len(table[c]) : table'[c][k].fromaddr = table[c][k].fromaddr
                   /\ \A e \in FromAddrs : e # c => table'[e] = table[e] /\ rows'[e] = rows[e]
                   /\ \/ cb = OnlineCall(h) /\ rows'[c] = rows[c] \cup {h}
                      \/ cb = OfflineCall(h) /\ rows'[c] = rows[c] \ {h}
<1>7. Rest
  <2>1. CASE cb.fn = "IDLE_peer_online" /\ IdlePeerOnline(c, h)
    <3>1. cb = OnlineCall(h)
      BY <1>4, <1>5, <2>1, CallsDiffer
    <3>2. rows'[c] = rows[c] \cup {h} /\ table' = table
      BY <1>2, <2>1 DEF IdlePeerOnline
    <3> QED BY <1>2, <1>3, <2>1, <3>1, <3>2 DEF IdlePeerOnline
  <2>2. CASE cb.fn = "IDLE_peer_offline" /\ IdlePeerOffline(c, h)
    <3>1. cb = OfflineCall(h)
      BY <1>4, <1>5, <2>2, CallsDiffer
    <3>2. rows'[c] = rows[c] \ {h} /\ table'[c] = DestroyPeer(table[c], h)
          /\ \A e \in FromAddrs : e # c => table'[e] = table[e] /\ rows'[e] = rows[e]
      BY <1>2, <2>2 DEF IdlePeerOffline
    <3>3. /\ table'[c] \in TableType /\ TableOK(table'[c], handle[c])
          /\ Len(table'[c]) = Len(table[c])
          /\ \A k \in 1..Len(table[c]) : /\ table'[c][k].fromaddr = table[c][k].fromaddr
                                         /\ table'[c][k].toaddr = table[c][k].toaddr
      BY <1>2, <1>3, <3>2, DestroyedSlot
    <3>4. ReachOK(table'[c])
      BY <1>2, <3>3 DEF ReachOK
    <3>5. table' \in [FromAddrs -> TableType] /\ rows' \in [FromAddrs -> SUBSET Nat]
      BY <1>2, <2>2, <3>2, <3>3 DEF IdlePeerOffline
    <3> QED BY <1>2, <3>1, <3>2, <3>3, <3>4, <3>5
  <2>3. \/ cb.fn = "IDLE_peer_online" /\ IdlePeerOnline(c, h)
        \/ cb.fn = "IDLE_peer_offline" /\ IdlePeerOffline(c, h)
    BY DEF RunIdle
  <2> QED BY <2>1, <2>2, <2>3
<1>8. /\ idle' \in [FromAddrs -> Seq(Calls)] /\ idle'[c] = Tail(idle[c])
      /\ \A e \in FromAddrs : e # c => idle'[e] = idle[e]
  BY <1>2, <1>3, <1>6
<1> HIDE DEF cb, h
<1>9. \A e \in FromAddrs : e # c => Same(e)
  BY <1>1, <1>7, <1>8 DEF historyVars, Alike, Same
<1>10. SysTypes'
  BY <1>1, <1>7, <1>8 DEF historyVars, SysInv, SysTypes, handlerVars
<1>11. MemoryOK(c)'
  <2>1. /\ TableOK(table'[c], handle'[c]) /\ ReachOK(table'[c])
        /\ \A j \in 1..Len(idle'[c]) : idle'[c][j].hpeer \in 1..Len(table'[c])
        /\ rows'[c] \subseteq 1..Len(table'[c])
        /\ arriving'[c] \in Seq(NoticesTo(c))
    BY <1>1, <1>2, <1>3, <1>7, <1>8 DEF MemoryOK
  <2>2. table[c] # <<>> /\ c \in listening
    BY <1>2, <1>3 DEF MemoryOK
  <2>3. /\ c \in listening' /\ Running(c)'
        /\ c \in prompt' => phase'[c] # "up"
    BY <1>1, <1>2, <2>2 DEF MemoryOK, Running, historyVars
  <2> QED BY <2>1, <2>3 DEF MemoryOK, TableOK, ReachOK, NoticesTo, OnlineTo, OfflineTo, Reach
<1>12. SysInv'
  BY <1>1, <1>9, <1>10, <1>11, SysInvOfClient
<1>13. CallDone(c, h)
  <2>1. table[c] # <<>> /\ table'[c] # <<>>
    BY <1>2, <1>3, <1>7
  <2> QED BY <1>2, <1>3, <1>7, <1>8, <2>1 DEF CallDone, cb
<1> QED BY <1>3, <1>9, <1>12, <1>13

----------------------------------------------------------------------------
(* The tracker *)

\* What a step of the tracker leaves to be shown, if it changes nothing of a client.
LEMMA SysInvOfTracker ==
    ASSUME SysInv, HInv', ReachOK(peers)', UNCHANGED clientVars,
           UNCHANGED <<starts, kills, prompt, silent, stray>>,
           overtook' \in BOOLEAN, inbox' \in Seq(Said), cur' \in Said \cup {NoMsg}
    PROVE  SysInv' /\ \A e \in FromAddrs : Same(e)
<1> USE DEF clientVars, tableVars
<1>1. \A e \in FromAddrs : Same(e)
  BY DEF Alike, Same
<1>2. SysTypes'
  BY DEF SysInv, SysTypes
<1>3. \A e \in FromAddrs : MemoryOK(e)'
  BY <1>1, MemorySame DEF SysInv
<1> QED BY <1>1, <1>2, <1>3 DEF SysInv

\* A KNOCK begins to be announced, a BYE makes its slot inactive.
GotKnock(d) ==
    /\ cur' = KnockOf(d) /\ pc' = "announce" /\ peers' = peers
GotBye(d) ==
    /\ cur' = ByeOf(d) /\ pc' \in {"farewell", "aborted"}
    /\ pc' = "aborted" => peers' = <<>>
    /\ Len(peers') = Len(peers) /\ Len(peers) \in Nat
    /\ \A k \in 1..Len(peers) :
          /\ peers'[k].fromaddr = peers[k].fromaddr
          /\ peers[k].fromaddr = d => ~peers'[k].active
          /\ peers[k].fromaddr # d => peers'[k] = peers[k]

LEMMA SysInvReceive ==
    ASSUME SysInv, Receive
    PROVE  /\ SysInv' /\ \A e \in FromAddrs : Same(e)
           /\ stray' = stray /\ pc = "idle" /\ i' = 1
           /\ \E k \in Takeable(inbox), d \in FromAddrs :
                 /\ overtook' = (overtook \/ k # 1) /\ inbox' = RemoveAt(inbox, k)
                 /\ k \in DOMAIN inbox
                 /\ \/ inbox[k] = KnockOf(d) /\ GotKnock(d)
                    \/ inbox[k] = ByeOf(d) /\ GotBye(d)
<1>1. PICK k \in Takeable(inbox) :
        HandleMsg(inbox[k]) /\ Overtakes(k) /\ inbox' = RemoveAt(inbox, k)
  BY DEF Receive
<1>2. /\ UNCHANGED clientVars /\ UNCHANGED <<starts, kills, prompt, silent, stray>>
      /\ overtook' = (overtook \/ k # 1) /\ overtook' \in BOOLEAN
  BY <1>1 DEF Receive, Overtakes, SysInv, SysTypes
<1>3. k \in DOMAIN inbox /\ inbox \in Seq(Said) /\ inbox' \in Seq(Said) /\ inbox[k] \in Said
  BY <1>1, TakenType DEF Takeable, SysInv, SysTypes
<1>4. HInv'
  BY <1>1, HInvKnock, HInvBye DEF SysInv, HandleMsg
<1>5. PICK d \in FromAddrs : inbox[k] = KnockOf(d) \/ inbox[k] = ByeOf(d)
  BY <1>3 DEF Said
<1>6. CASE inbox[k] = KnockOf(d)
  <2>1. CallKnock(KnockOf(d))
    BY <1>1, <1>6, KnocksAndByes DEF HandleMsg
  <2>2. GotKnock(d) /\ pc = "idle" /\ i' = 1
    BY <2>1 DEF CallKnock, Call, GotKnock
  <2>3. ReachOK(peers)' /\ cur' \in Said \cup {NoMsg}
    BY <2>2, KnocksAndByes DEF GotKnock, SysInv, ReachOK
  <2> QED BY <1>1, <1>2, <1>3, <1>4, <1>6, <2>2, <2>3, SysInvOfTracker
<1>7. CASE inbox[k] = ByeOf(d)
  <2>1. CallBye(ByeOf(d)) /\ ByeOf(d).from = d
    BY <1>1, <1>7, KnocksAndByes DEF HandleMsg
  <2>2. /\ pc = "idle" /\ i' = 1 /\ cur' = ByeOf(d) /\ peers' = AfterBye(peers, d)
        /\ pc' \in {"farewell", "aborted"} /\ (pc' = "aborted" => peers' = <<>>)
    BY <2>1 DEF CallBye, Call, AfterBye
  <2>3. peers \in TableType /\ TableOK(peers, nextHandle) /\ ReachOK(peers)
    BY DEF SysInv, HInv, HandlerTypeOK, TableType, OneSlotPerPeer, TableOK
  <2>4. /\ Len(peers') = Len(peers) /\ Len(peers) \in Nat
        /\ \A j \in 1..Len(peers) :
              /\ peers'[j].fromaddr = peers[j].fromaddr /\ peers'[j].toaddr = peers[j].toaddr
              /\ peers[j].fromaddr = d => ~peers'[j].active
              /\ peers[j].fromaddr # d => peers'[j] = peers[j]
    BY <2>2, <2>3, ByeSlots
  <2>5. GotBye(d)
    BY <2>2, <2>4 DEF GotBye
  <2>6. ReachOK(peers)' /\ cur' \in Said \cup {NoMsg}
    BY <2>2, <2>3, <2>4, KnocksAndByes DEF ReachOK
  <2> QED BY <1>1, <1>2, <1>3, <1>4, <1>7, <2>2, <2>5, <2>6, SysInvOfTracker
<1> QED BY <1>5, <1>6, <1>7

\* Whom a loop writes to in a round, and of whom.
RoundFor(c, d) ==
    \/ pc = "announce" /\ cur = KnockOf(d) /\ peers[i].fromaddr = c /\ Due = OnlineTo(c, d)
    \/ pc = "introduce" /\ cur = KnockOf(c) /\ peers[i].fromaddr = d /\ Due = OnlineTo(c, d)
    \/ pc = "farewell" /\ cur = ByeOf(d) /\ peers[i].fromaddr = c /\ Due = OfflineTo(c, d)

LEMMA RoundIsFor ==
    ASSUME SysInv, TrySend
    PROVE  i \in 1..Len(peers) /\ \E c, d \in FromAddrs : RoundFor(c, d)
<1>1. /\ i \in 1..Len(peers) /\ InLoop /\ HInv
      /\ peers[i] \in Peer(FromAddrs, ToAddrs) /\ peers[i].toaddr = Reach(peers[i].fromaddr)
  BY DEF TrySend, SysInv, HInv, HandlerTypeOK, ReachOK
<1>2. peers[i].fromaddr \in FromAddrs
  BY <1>1 DEF Peer
<1>3. cur \in Said \cup {NoMsg}
  BY DEF SysInv, SysTypes
<1>4. CASE pc \in {"announce", "introduce"}
  <2>1. cur \in Knock
    BY <1>1, <1>4 DEF HInv, CurMatches
  <2>2. PICK e \in FromAddrs : cur = KnockOf(e)
    <3>1. cur # NoMsg
      BY <2>1 DEF Knock, NoMsg
    <3> QED BY <1>3, <2>1, <3>1, KnocksAndByes DEF Said
  <2>3. cur.from = e /\ ListenAddr(cur) = Reach(e)
    BY <2>2, KnocksAndByes
  <2>4. CASE pc = "announce"
    <3>1. Due = OnlineTo(peers[i].fromaddr, e)
      BY <1>1, <2>3, <2>4 DEF Due, OnlineTo
    <3> QED BY <1>1, <1>2, <2>2, <2>4, <3>1 DEF RoundFor
  <2>5. CASE pc = "introduce"
    <3>1. Due = OnlineTo(e, peers[i].fromaddr)
      BY <1>1, <2>3, <2>5 DEF Due, OnlineTo
    <3> QED BY <1>1, <1>2, <2>2, <2>5, <3>1 DEF RoundFor
  <2> QED BY <1>4, <2>4, <2>5
<1>5. CASE pc = "farewell"
  <2>1. cur \in Bye
    BY <1>1, <1>5 DEF HInv, CurMatches
  <2>2. PICK e \in FromAddrs : cur = ByeOf(e)
    <3>1. cur # NoMsg
      BY <2>1 DEF Bye, NoMsg
    <3> QED BY <1>3, <2>1, <3>1, KnocksAndByes DEF Said
  <2>3. cur.from = e
    BY <2>2, KnocksAndByes
  <2>4. Due = OfflineTo(peers[i].fromaddr, e)
    BY <1>1, <1>5, <2>3 DEF Due, OfflineTo
  <2> QED BY <1>1, <1>2, <1>5, <2>2, <2>4 DEF RoundFor
<1> QED BY <1>1, <1>4, <1>5 DEF InLoop

\* The notice goes to the one client that is reached there, if it listens.
SentTo(c, d) ==
    /\ RoundFor(c, d)
    /\ \A e \in FromAddrs : e # c => arriving'[e] = arriving[e]
    /\ c \in listening => arriving'[c] = Append(arriving[c], Due)
    /\ c \notin listening => arriving'[c] = arriving[c]

LEMMA SysInvSendNotice ==
    ASSUME SysInv, SendNotice
    PROVE  /\ SysInv' /\ i \in 1..Len(peers) /\ i' = i + 1
           /\ UNCHANGED <<inbox, phase, listening, tableVars, historyVars>>
           /\ UNCHANGED <<peers, pc, cur>>
           /\ \E c, d \in FromAddrs : SentTo(c, d)
<1>1. /\ TrySend /\ UNCHANGED <<inbox, phase, listening, tableVars, historyVars>>
      /\ UNCHANGED <<peers, pc, cur>> /\ i' = i + 1
  BY DEF SendNotice, TrySend
<1>2. PICK c \in FromAddrs, d \in FromAddrs : RoundFor(c, d)
  BY <1>1, RoundIsFor
<1>3. i \in 1..Len(peers)
  BY <1>1, RoundIsFor
<1>4. /\ Due \in Notice /\ Due \in NoticesTo(c) /\ Due.to = Reach(c)
  BY <1>2, NoticesDiffer DEF RoundFor
<1>5. At(Due.to) = IF c \in listening THEN {c} ELSE {}
  BY <1>4, ReachIsOfOne DEF At, Reach, SysInv, SysTypes
<1>6. /\ arriving \in [FromAddrs -> Seq(Notice)] /\ arriving[c] \in Seq(NoticesTo(c))
      /\ \A e \in FromAddrs : MemoryOK(e)
  BY DEF SysInv, SysTypes, MemoryOK
<1>7. arriving' = [e \in FromAddrs |-> IF e \in At(Due.to) THEN Append(arriving[e], Due) ELSE arriving[e]]
  BY DEF SendNotice
<1> DEFINE due == Due
<1> HIDE DEF due
<1>8. due \in Notice /\ due \in NoticesTo(c)
      /\ arriving' = [e \in FromAddrs |-> IF e = c /\ c \in listening THEN Append(arriving[e], due) ELSE arriving[e]]
  BY <1>4, <1>5, <1>7 DEF due
<1>9. /\ \A e \in FromAddrs : e # c => arriving'[e] = arriving[e]
      /\ c \in listening => arriving'[c] = Append(arriving[c], due)
      /\ c \notin listening => arriving'[c] = arriving[c]
  BY <1>8
<1>10. arriving'[c] \in Seq(NoticesTo(c)) /\ arriving' \in [FromAddrs -> Seq(Notice)]
  <2>1. Append(arriving[c], due) \in Seq(NoticesTo(c)) /\ Append(arriving[c], due) \in Seq(Notice)
    BY <1>6, <1>8
  <2> QED BY <1>6, <1>8, <1>9, <2>1
<1>11. SentTo(c, d)
  BY <1>2, <1>9 DEF SentTo, due
<1>12. HInv'
  BY <1>1, HInvTrySend DEF SysInv
<1>13. SysTypes' /\ ReachOK(peers)'
  BY <1>1, <1>10 DEF SysInv, SysTypes, ReachOK, tableVars, historyVars
<1>14. ASSUME NEW e \in FromAddrs PROVE MemoryOK(e)'
  <2>1. CASE e # c
    <3>1. Same(e)
      BY <1>1, <1>9, <2>1 DEF Alike, Same, tableVars, historyVars
    <3> QED BY <1>6, <3>1, MemorySame
  <2>2. CASE e = c
    <3>1. /\ TableOK(table'[c], handle'[c]) /\ ReachOK(table'[c])
          /\ \A j \in 1..Len(idle'[c]) : idle'[c][j].hpeer \in 1..Len(table'[c])
          /\ rows'[c] \subseteq 1..Len(table'[c])
          /\ arriving'[c] \in Seq(NoticesTo(c))
      BY <1>1, <1>6, <1>10 DEF MemoryOK, tableVars
    <3>2. /\ c \in listening' => Running(c)'
          /\ c \notin listening' => arriving'[c] = <<>> /\ table'[c] = <<>>
          /\ c \in prompt' => phase'[c] # "up"
          /\ c \in prompt' /\ phase'[c] = "on" => c \in listening'
      BY <1>1, <1>6, <1>9 DEF MemoryOK, Running, tableVars, historyVars
    <3>3. MemoryOK(c)'
      BY <3>1, <3>2 DEF MemoryOK, TableOK, ReachOK, NoticesTo, OnlineTo, OfflineTo, Reach
    <3> QED BY <2>2, <3>3
  <2> QED BY <2>1, <2>2
<1> QED BY <1>1, <1>3, <1>11, <1>12, <1>13, <1>14 DEF SysInv

\* create_peer at the end of a KNOCK, in slot s.
GotPeer(d, s) ==
    /\ cur = KnockOf(d) /\ pc = "introduce" /\ i > Len(peers)
    /\ pc' = "idle" /\ cur' = NoMsg
    /\ Len(peers) \in Nat /\ Len(peers') \in Nat /\ Len(peers) <= Len(peers')
    /\ s \in 1..Len(peers') /\ peers'[s].fromaddr = d /\ peers'[s].active
    /\ \A k \in 1..Len(peers') : k # s => k \in 1..Len(peers) /\ peers'[k] = peers[k]
    /\ \A k \in 1..Len(peers) : peers'[k].fromaddr = peers[k].fromaddr

LEMMA SysInvIntroduceDone ==
    ASSUME SysInv, IntroduceDone, UNCHANGED <<inbox, clientVars, historyVars>>
    PROVE  /\ SysInv' /\ \A e \in FromAddrs : Same(e)
           /\ \E d \in FromAddrs : \E s \in 1..Len(peers') : GotPeer(d, s)
<1>1. /\ peers \in TableType /\ nextHandle \in Nat \ {0} /\ TableOK(peers, nextHandle)
      /\ ReachOK(peers) /\ HInv /\ pc = "introduce" /\ i > Len(peers)
      /\ pc' = "idle" /\ cur' = NoMsg
  BY DEF SysInv, HInv, HandlerTypeOK, TableType, OneSlotPerPeer, TableOK, IntroduceDone, Return,
         LoopDone
<1>2. PICK d \in FromAddrs : cur = KnockOf(d)
  <2>1. cur \in Knock /\ cur \in Said \cup {NoMsg} /\ cur # NoMsg
    BY <1>1 DEF HInv, CurMatches, SysInv, SysTypes, Knock, NoMsg
  <2> QED BY <2>1, KnocksAndByes DEF Said
<1>3. peers' = CreatePeer(peers, nextHandle, d, Reach(d)) /\ Reach(d) \in ToAddrs
  BY <1>2, KnocksAndByes, ReachType DEF IntroduceDone
<1>4. PICK s \in 1..Len(peers') : CreatedAt(peers, peers', d, Reach(d), s)
  BY <1>1, <1>3, CreatedSomewhere
<1>5. /\ Len(peers) \in Nat /\ Len(peers') \in Nat /\ Len(peers) <= Len(peers')
      /\ \A k \in 1..Len(peers) : peers'[k].fromaddr = peers[k].fromaddr
  BY <1>1, <1>3, CreatedSlot
<1>6. ReachOK(peers)'
  BY <1>1, <1>4 DEF ReachOK, CreatedAt
<1>7. HInv'
  BY <1>1, HInvIntroduceDone
<1>8. GotPeer(d, s)
  BY <1>1, <1>2, <1>4, <1>5 DEF GotPeer, CreatedAt
<1>9. SysInv' /\ \A e \in FromAddrs : Same(e)
  BY <1>1, <1>6, <1>7, SysInvOfTracker DEF SysInv, SysTypes, historyVars
<1> QED BY <1>8, <1>9

LEMMA SysInvOtherSteps ==
    ASSUME SysInv, SkipInactive \/ AnnounceDone \/ FarewellDone,
           UNCHANGED <<inbox, clientVars, historyVars>>
    PROVE  SysInv' /\ peers' = peers /\ \A e \in FromAddrs : Same(e)
<1>1. HInv' /\ peers' = peers /\ cur' \in {cur, NoMsg}
  BY HInvSkip, HInvAnnounceDone, HInvFarewellDone
     DEF SysInv, SkipInactive, AnnounceDone, FarewellDone, Return
<1>2. ReachOK(peers)' /\ cur' \in Said \cup {NoMsg}
  BY <1>1 DEF SysInv, SysTypes, ReachOK
<1> QED BY <1>1, <1>2, SysInvOfTracker DEF SysInv, SysTypes, historyVars

LEMMA SysInvStutter ==
    ASSUME SysInv, UNCHANGED vars
    PROVE  SysInv' /\ UNCHANGED <<handlerVars, inbox>> /\ \A e \in FromAddrs : Same(e)
<1> USE DEF vars
<1>1. HInv' /\ ReachOK(peers)'
  BY HInvStutter DEF SysInv, ReachOK, handlerVars
<1> QED BY <1>1, SysInvOfTracker DEF SysInv, SysTypes, historyVars, handlerVars

LEMMA SysInvStep == SysInv /\ [Next]_vars => SysInv'
<1> SUFFICES ASSUME SysInv, [Next]_vars PROVE SysInv'
  OBVIOUS
<1>1. ASSUME NEW c \in FromAddrs, Start(c) \/ Listen(c) \/ SendKnock(c) \/ Quit(c) \/ Kill(c) PROVE SysInv'
  BY <1>1, StartDoes, SysInvStart, SysInvListen, SysInvSendKnock, SysInvQuit, SysInvKill
<1>2. ASSUME NEW c \in FromAddrs, TakeNotice(c) PROVE SysInv'
  BY <1>2, TakeNoticeDoes, SysInvTookOnline, SysInvTookOffline, SysInvTookAborting
<1>3. ASSUME NEW c \in FromAddrs, RunIdle(c) PROVE SysInv'
  BY <1>3, SysInvRunIdle
<1>4. CASE Receive \/ SendNotice
  BY <1>4, SysInvReceive, SysInvSendNotice
<1>5. CASE HandlerStep
  BY <1>5, SysInvIntroduceDone, SysInvOtherSteps DEF HandlerStep
<1>6. CASE UNCHANGED vars
  BY <1>6, SysInvStutter
<1>7. ASSUME Next PROVE \/ \E c \in FromAddrs : \/ Start(c) \/ Listen(c) \/ SendKnock(c) \/ Quit(c) \/ Kill(c)
                                                \/ TakeNotice(c) \/ RunIdle(c)
                        \/ Receive \/ SendNotice \/ HandlerStep
  BY <1>7, Zenon DEF Next
<1> QED BY <1>1, <1>2, <1>3, <1>4, <1>5, <1>6, <1>7

LEMMA SysInvHolds == Spec => []SysInv
BY SysInvInit, SysInvStep, PTL DEF Spec

LEMMA SysInvImpliesTypes == SysInv => TypeOK
<1> SUFFICES ASSUME SysInv PROVE TypeOK
  OBVIOUS
<1>1. HandlerTypeOK
  BY DEF SysInv, HInv
<1>2. inbox \in Seq(ClientMsg)
  <2>1. \A m \in Said : m \in ClientMsg
    BY KnocksAndByes DEF Said, ClientMsg
  <2> QED BY <2>1, SeqGrows DEF SysInv, SysTypes
<1>3. ASSUME NEW c \in FromAddrs
      PROVE  /\ phase[c] \in {"off", "up", "on", "aborted"}
             /\ table[c] \in Seq(Peer(FromAddrs, ToAddrs)) /\ handle[c] = Len(table[c]) + 1
             /\ rows[c] \cup {idle[c][k].hpeer : k \in DOMAIN idle[c]} \subseteq 1..Len(table[c])
             /\ arriving[c] \in Seq(Notice) /\ (arriving[c] # <<>> => c \in listening)
  <2>1. MemoryOK(c) /\ table[c] \in TableType /\ idle[c] \in Seq(Calls)
    BY DEF SysInv, SysTypes
  <2>2. DOMAIN idle[c] = 1..Len(idle[c])
    BY <2>1
  <2>3. rows[c] \cup {idle[c][k].hpeer : k \in DOMAIN idle[c]} \subseteq 1..Len(table[c])
    BY <2>1, <2>2 DEF MemoryOK
  <2> QED BY <2>1, <2>3 DEF MemoryOK, TableType, TableOK, SysInv, SysTypes
<1>4. \A c \in listening : Running(c)
  BY DEF SysInv, SysTypes, MemoryOK
<1> QED BY <1>1, <1>2, <1>3, <1>4 DEF TypeOK

\* The types of all variables, in every reachable state, whatever overtakes what: handles
\* in queues and rows name slots of the table of their client.
THEOREM SystemTypeCorrect == Spec => []TypeOK
BY SysInvHolds, SysInvImpliesTypes, PTL

----------------------------------------------------------------------------
(* QueueInv is inductive while nothing is overtaken: steps of a client that *)
(* send nothing                                                             *)

\* What is known of the tracker stays as it is.
TrackerStays(c, d) ==
    /\ KnockComes(d)' <=> KnockComes(d)
    /\ ByeComes(d)' <=> ByeComes(d)
    /\ Never(inbox, KnockOf(d))' <=> Never(inbox, KnockOf(d))
    /\ Never(inbox, ByeOf(d))' <=> Never(inbox, ByeOf(d))
    /\ Listed(d)' <=> Listed(d)
    /\ HasSlot(d)' <=> HasSlot(d)
    /\ Entering(d)' <=> Entering(d)
    /\ AnnounceDue(c, d)' <=> AnnounceDue(c, d)
    /\ IntroduceDue(c, d)' <=> IntroduceDue(c, d)
    /\ FarewellDue(c, d)' <=> FarewellDue(c, d)

LEMMA TrackerIdle ==
    ASSUME UNCHANGED <<handlerVars, inbox>>, NEW c, NEW d PROVE TrackerStays(c, d)
BY DEF handlerVars, TrackerStays, KnockComes, ByeComes, Listed, ListedAt, HasSlot, Entering,
       AnnounceDue, IntroduceDue, FarewellDue, KnockOf, ByeOf

LEMMA HeardSame ==
    ASSUME NEW c, NEW d, Alike(c)
    PROVE  /\ HeardOnline(c, d)' <=> HeardOnline(c, d)
           /\ HeardNotOnline(c, d)' <=> HeardNotOnline(c, d)
BY DEF Alike, HeardOnline, HeardNotOnline, OnlineTo, OfflineTo, Reach

LEMMA AloneSame ==
    ASSUME UNCHANGED <<handlerVars, inbox>>, NEW e, Alike(e)
    PROVE  /\ OnlineListed(e) => OnlineListed(e)'
           /\ OthersNot(e) => OthersNot(e)'
           /\ Staged(e) => Staged(e)'
<1>1. TrackerStays(e, e)
  BY TrackerIdle
<1>2. /\ cur' = cur /\ pc' = pc
      /\ Unknown(e)' <=> Unknown(e)
      /\ Unborn(e)' <=> Unborn(e)
      /\ Once(inbox, KnockOf(e))' <=> Once(inbox, KnockOf(e))
      /\ First(e)' <=> First(e)
      /\ IsNew(e)' <=> IsNew(e)
  BY <1>1 DEF handlerVars, Unknown, Unborn, TrackerStays, Alike, First, IsNew, KnockOf, ByeOf
<1>3. (OnlineListed(e) => OnlineListed(e)') /\ (OthersNot(e) => OthersNot(e)')
  BY <1>1 DEF TrackerStays, Alike, OnlineListed, OthersNot
<1>4. Never(arriving[e], OnlineTo(e, e))' <=> Never(arriving[e], OnlineTo(e, e))
  BY DEF Alike, OnlineTo, Reach
<1>5. Staged(e) => Staged(e)'
  BY <1>1, <1>2, <1>4 DEF TrackerStays, Alike, Staged, KnockOf, ByeOf
<1> QED BY <1>3, <1>5

LEMMA FirstSame ==
    ASSUME UNCHANGED <<handlerVars, inbox, stray>>, NEW e, Alike(e)
    PROVE  /\ FirstHears(e) => FirstHears(e)'
           /\ InStep(e) => InStep(e)'
<1>1. TrackerStays(e, e) /\ \A d : TrackerStays(e, d)
  BY TrackerIdle
<1>2. /\ HeardSome(e)' <=> HeardSome(e)
      /\ First(e)' <=> First(e)
      /\ \A d : OnlineTo(e, d)' = OnlineTo(e, d)
  BY DEF Alike, HeardSome, First, OnlineTo, Reach
<1>3. FirstHears(e) => FirstHears(e)'
  BY <1>1, <1>2 DEF handlerVars, TrackerStays, Alike, FirstHears, ListedAt, KnockOf, OnlineTo
<1>4. InStep(e) => InStep(e)'
  BY <1>1 DEF TrackerStays, InStep, KnockOf, ByeOf
<1> QED BY <1>3, <1>4

LEMMA PairSame ==
    ASSUME UNCHANGED <<handlerVars, inbox>>, NEW c, NEW d, Alike(c),
           phase'[d] = phase[d], d \in silent' <=> d \in silent
    PROVE  /\ KnowsOnline(c, d) => KnowsOnline(c, d)'
           /\ KnowsNobodyElse(c, d) => KnowsNobodyElse(c, d)'
<1>1. TrackerStays(c, d) /\ TrackerStays(d, c)
  BY TrackerIdle
<1> QED BY <1>1, HeardSame DEF TrackerStays, Alike, KnowsOnline, KnowsNobodyElse, First

\* What a step of the client c that leaves the tracker alone leaves to be shown.
LEMMA QueueOfClient ==
    ASSUME QueueInv, UNCHANGED <<handlerVars, inbox, stray>>, NEW c \in FromAddrs,
           \A e \in FromAddrs : e # c => Same(e),
           OnlineListed(c)', OthersNot(c)', Staged(c)', FirstHears(c)',
           \A d \in FromAddrs : d # c => /\ KnowsOnline(c, d)' /\ KnowsOnline(d, c)'
                                         /\ KnowsNobodyElse(c, d)' /\ KnowsNobodyElse(d, c)'
    PROVE  QueueInv'
<1>1. \A e \in FromAddrs : OnlineListed(e)' /\ OthersNot(e)' /\ Staged(e)'
  BY AloneSame DEF Same, QueueInv
<1>2. \A e \in FromAddrs : FirstHears(e)'
  BY FirstSame DEF Same, QueueInv
<1>3. \A e \in FromAddrs : InStep(e)'
  <2> TAKE e \in FromAddrs
  <2>1. TrackerStays(e, e)
    BY TrackerIdle
  <2> QED BY <2>1 DEF QueueInv, InStep, TrackerStays, KnockOf, ByeOf
<1>4. \A e, d \in FromAddrs : KnowsOnline(e, d)' /\ KnowsNobodyElse(e, d)'
  <2> TAKE e, d \in FromAddrs
  <2>1. CASE e # c /\ d # c
    BY <2>1, PairSame DEF Alike, Same, QueueInv
  <2>2. CASE e = d
    BY <2>2 DEF KnowsOnline, KnowsNobodyElse
  <2> QED BY <2>1, <2>2
<1> QED BY <1>1, <1>2, <1>3, <1>4 DEF QueueInv

LEMMA QueueStarts ==
    ASSUME SysInv, QueueInv, NEW c \in FromAddrs, Starts(c) PROVE QueueInv'
<1>1. /\ UNCHANGED <<handlerVars, inbox, stray, silent>>
      /\ phase[c] # "up" /\ phase[c] # "on" /\ phase'[c] = "up" /\ c \notin prompt'
      /\ starts[c] \in Nat /\ starts'[c] = starts[c] + 1
      /\ table'[c] = <<>> /\ arriving'[c] = <<>>
  BY DEF Starts, Running, SysInv, SysTypes, MemoryOK, tableVars
<1>2. \A e \in FromAddrs : e # c => Same(e)
  BY SysInvStart
<1>3. /\ OnlineListed(c)' /\ FirstHears(c)' /\ OthersNot(c)'
  <2>1. TrackerStays(c, c)
    BY <1>1, TrackerIdle
  <2> QED BY <1>1, <2>1 DEF OnlineListed, FirstHears, OthersNot, QueueInv, TrackerStays
<1>4. Staged(c)'
  <2>1. TrackerStays(c, c) /\ cur' = cur
    BY <1>1, TrackerIdle DEF handlerVars
  <2>2. ~First(c)' /\ starts'[c] # 0 /\ (IsNew(c)' => starts[c] = 0)
    BY <1>1 DEF First, IsNew
  <2>3. starts[c] = 0 => Unborn(c)'
    BY <2>1 DEF QueueInv, Staged, Unborn, Unknown, TrackerStays, KnockOf, ByeOf
  <2>4. Never(arriving[c], OnlineTo(c, c))' /\ \A h \in 1..Len(table'[c]) : FALSE
    BY <1>1, LastEmpty
  <2> QED BY <1>1, <2>2, <2>3, <2>4 DEF Staged
<1>5. ASSUME NEW d \in FromAddrs, d # c
      PROVE  KnowsOnline(c, d)' /\ KnowsOnline(d, c)' /\ KnowsNobodyElse(c, d)' /\ KnowsNobodyElse(d, c)'
  <2>1. TrackerStays(d, c)
    BY <1>1, TrackerIdle
  <2>2. /\ HeardNotOnline(d, c)' <=> HeardNotOnline(d, c)
        /\ First(d)' <=> First(d)
    BY <1>2, <1>5, HeardSame DEF Same, Alike, First
  <2> QED BY <1>1, <2>1, <2>2 DEF KnowsOnline, KnowsNobodyElse, First, TrackerStays, QueueInv
<1> QED BY <1>1, <1>2, <1>3, <1>4, <1>5, QueueOfClient

LEMMA QueueListen ==
    ASSUME SysInv, QueueInv, NEW c \in FromAddrs, Listen(c) PROVE QueueInv'
<1>1. UNCHANGED <<handlerVars, inbox, stray, phase, silent>> /\ \A e \in FromAddrs : Alike(e)
  BY DEF Listen, tableVars, historyVars, Alike
<1>2. \A e \in FromAddrs : e # c => Same(e)
  BY SysInvListen
<1>3. OnlineListed(c)' /\ OthersNot(c)' /\ Staged(c)' /\ FirstHears(c)'
  BY <1>1, AloneSame, FirstSame DEF QueueInv
<1>4. ASSUME NEW d \in FromAddrs, d # c
      PROVE  KnowsOnline(c, d)' /\ KnowsOnline(d, c)' /\ KnowsNobodyElse(c, d)' /\ KnowsNobodyElse(d, c)'
  BY <1>1, PairSame DEF QueueInv
<1> QED BY <1>1, <1>2, <1>3, <1>4, QueueOfClient

\* A process that ends without a BYE: of its client nothing more is promised.
LEMMA QueueEnds ==
    ASSUME QueueInv, UNCHANGED <<handlerVars, inbox, stray, starts>>, NEW c \in FromAddrs,
           \A e \in FromAddrs : e # c => Same(e),
           phase[c] \in {"up", "on"}, phase'[c] \in {"off", "aborted"}, c \in silent',
           FirstHears(c)'
    PROVE  QueueInv'
<1>1. OnlineListed(c)' /\ OthersNot(c)'
  BY DEF OnlineListed, OthersNot
<1>2. Staged(c)'
  <2>1. starts'[c] # 0
    BY DEF QueueInv, Staged
  <2>2. ~First(c)' /\ ~IsNew(c)'
    BY DEF First, IsNew
  <2> QED BY <2>1, <2>2 DEF Staged
<1>3. ASSUME NEW d \in FromAddrs, d # c
      PROVE  KnowsOnline(c, d)' /\ KnowsOnline(d, c)' /\ KnowsNobodyElse(c, d)' /\ KnowsNobodyElse(d, c)'
  BY DEF KnowsOnline, KnowsNobodyElse, First
<1> QED BY <1>1, <1>2, <1>3, QueueOfClient

LEMMA QueueKill ==
    ASSUME SysInv, QueueInv, NEW c \in FromAddrs, Kill(c) PROVE QueueInv'
<1>1. /\ UNCHANGED <<handlerVars, inbox, stray, starts>>
      /\ phase[c] \in {"up", "on"} /\ phase'[c] = "off" /\ c \in silent'
  BY SysInvKill DEF Kill, Ends, Running
<1>2. FirstHears(c)'
  BY <1>1 DEF FirstHears, First
<1> QED BY <1>1, <1>2, SysInvKill, QueueEnds

\* It was told of somebody before: the first notice a first process takes, if it listened
\* in time and nobody said BYE without a KNOCK, is not of one who leaves.
LEMMA QueueTookAborting ==
    ASSUME SysInv, QueueInv, NEW c \in FromAddrs, NEW d \in FromAddrs,
           TookRest(c, 1), TookAborting(c, 1, d)
    PROVE  QueueInv'
<1>1. /\ UNCHANGED <<handlerVars, inbox, stray, starts, prompt>>
      /\ c \in listening /\ phase[c] \in {"up", "on"} /\ MemoryOK(c)
      /\ arriving[c] # <<>> /\ arriving[c][1] = OfflineTo(c, d) /\ table[c] = <<>>
  BY DEF TookRest, TookAborting, Takeable, SysInv, MemoryOK, Running
<1>2. ASSUME starts[c] = 1, c \in prompt, ~stray PROVE FALSE
  <2>1. First(c)
    BY <1>1, <1>2 DEF First, MemoryOK
  <2>2. PICK e \in FromAddrs : arriving[c][1] = OnlineTo(c, e)
    BY <1>1, <1>2, <2>1 DEF QueueInv, FirstHears
  <2>3. OnlineTo(c, e) # OfflineTo(c, d)
    BY NoticesDiffer
  <2> QED BY <1>1, <2>2, <2>3
<1>3. FirstHears(c)'
  BY <1>1, <1>2 DEF FirstHears
<1> QED BY <1>1, <1>3, SysInvTookAborting, QueueEnds
----------------------------------------------------------------------------
(* What a client heard last, when it takes a notice or runs a callback *)

LEMMA SaysTookOnline ==
    ASSUME NEW c \in FromAddrs, NEW d \in FromAddrs, NEW e \in FromAddrs,
           NEW arr \in Seq(NoticesTo(c)), arr # <<>>, Head(arr) = OnlineTo(c, d),
           NEW tbl, NEW new, NEW calls \in Seq(Calls), NEW rws,
           NEW s \in 1..Len(new), new[s].fromaddr = d,
           \A h \in 1..Len(tbl) : h \in 1..Len(new) /\ new[h].fromaddr = tbl[h].fromaddr,
           \A h \in 1..Len(new) : h # s => h \in 1..Len(tbl) /\ new[h].fromaddr # d
    PROVE  /\ SaysOnline(arr, tbl, calls, rws, c, e)
                => SaysOnline(Tail(arr), new, Append(calls, OnlineCall(s)), rws, c, e)
           /\ SaysNotOnline(arr, tbl, calls, rws, c, e)
                => SaysNotOnline(Tail(arr), new, Append(calls, OnlineCall(s)), rws, c, e)
<1> DEFINE on == OnlineTo(c, e)
           off == OfflineTo(c, e)
           calls2 == Append(calls, OnlineCall(s))
<1>1. /\ Head(arr) # off /\ (e # d => Head(arr) # on) /\ (e = d => Head(arr) = on)
  BY NoticesDiffer
<1>2. /\ LastIs(arr, on, off) => LastIs(Tail(arr), on, off) \/ (Head(arr) = on /\ Never(Tail(arr), off))
      /\ LastIs(arr, off, on) => LastIs(Tail(arr), off, on)
      /\ Never(arr, off) => Never(Tail(arr), off)
      /\ Never(arr, on) => Never(Tail(arr), on) /\ Head(arr) # on
  BY <1>1, LastTail
<1>3. LastIs(calls2, OnlineCall(s), OfflineCall(s))
  BY CallsDiffer, LastAppend
<1>4. ASSUME NEW h, h # s
      PROVE  /\ LastIs(calls, OfflineCall(h), OnlineCall(h)) => LastIs(calls2, OfflineCall(h), OnlineCall(h))
             /\ Never(calls, OnlineCall(h)) => Never(calls2, OnlineCall(h))
             /\ LastIs(calls, OnlineCall(h), OfflineCall(h)) => LastIs(calls2, OnlineCall(h), OfflineCall(h))
             /\ Never(calls, OfflineCall(h)) => Never(calls2, OfflineCall(h))
  <2>1. OnlineCall(s) # OnlineCall(h) /\ OnlineCall(s) # OfflineCall(h)
    BY <1>4, CallsDiffer
  <2> QED BY <2>1, LastAppend
<1> HIDE DEF on, off, calls2
<1>5. CASE e = d
  <2>1. ASSUME LastIs(Tail(arr), on, off) \/ Never(Tail(arr), off)
        PROVE  SaysOnline(Tail(arr), new, calls2, rws, c, e)
    BY <1>3, <1>5, <2>1 DEF SaysOnline, on, off
  <2>2. SaysOnline(arr, tbl, calls, rws, c, e) => LastIs(Tail(arr), on, off) \/ Never(Tail(arr), off)
    BY <1>2 DEF SaysOnline, on, off
  <2>3. SaysNotOnline(arr, tbl, calls, rws, c, e) => LastIs(Tail(arr), off, on)
    BY <1>1, <1>2, <1>5 DEF SaysNotOnline, on, off
  <2> QED BY <2>1, <2>2, <2>3 DEF SaysNotOnline, on, off, calls2
<1>6. CASE e # d
  <2>1. SaysOnline(arr, tbl, calls, rws, c, e) => SaysOnline(Tail(arr), new, calls2, rws, c, e)
    <3>1. ASSUME Never(arr, off), NEW h \in 1..Len(tbl), tbl[h].fromaddr = e,
                 \/ LastIs(calls, OnlineCall(h), OfflineCall(h))
                 \/ Never(calls, OfflineCall(h)) /\ h \in rws
          PROVE  SaysOnline(Tail(arr), new, calls2, rws, c, e)
      <4>1. h \in 1..Len(new) /\ new[h].fromaddr = e /\ h # s
        BY <1>6, <3>1
      <4> QED BY <1>2, <1>4, <3>1, <4>1 DEF SaysOnline, on, off
    <3>2. ASSUME LastIs(arr, on, off) PROVE SaysOnline(Tail(arr), new, calls2, rws, c, e)
      BY <1>1, <1>2, <1>6, <3>2 DEF SaysOnline, on, off
    <3> QED BY <3>1, <3>2 DEF SaysOnline, on, off
  <2>2. SaysNotOnline(arr, tbl, calls, rws, c, e) => SaysNotOnline(Tail(arr), new, calls2, rws, c, e)
    <3>1. ASSUME Never(arr, on),
                 \A h \in 1..Len(tbl) : tbl[h].fromaddr = e =>
                    \/ LastIs(calls, OfflineCall(h), OnlineCall(h))
                    \/ Never(calls, OnlineCall(h)) /\ h \notin rws
          PROVE  SaysNotOnline(Tail(arr), new, calls2, rws, c, e)
      <4>1. ASSUME NEW h \in 1..Len(new), new[h].fromaddr = e
            PROVE  \/ LastIs(calls2, OfflineCall(h), OnlineCall(h))
                   \/ Never(calls2, OnlineCall(h)) /\ h \notin rws
        <5>1. h # s /\ h \in 1..Len(tbl) /\ tbl[h].fromaddr = e
          BY <1>6, <4>1
        <5> QED BY <1>4, <3>1, <5>1
      <4> QED BY <1>2, <3>1, <4>1 DEF SaysNotOnline, on, off
    <3>2. ASSUME LastIs(arr, off, on) PROVE SaysNotOnline(Tail(arr), new, calls2, rws, c, e)
      BY <1>2, <3>2 DEF SaysNotOnline, on, off
    <3> QED BY <3>1, <3>2 DEF SaysNotOnline, on, off
  <2> QED BY <2>1, <2>2 DEF calls2
<1> QED BY <1>5, <1>6

\* calls and after are the callbacks that wait, before and after.
LEMMA SaysTookOffline ==
    ASSUME NEW c \in FromAddrs, NEW d \in FromAddrs, NEW e \in FromAddrs,
           NEW arr \in Seq(NoticesTo(c)), arr # <<>>, Head(arr) = OfflineTo(c, d),
           NEW tbl, NEW calls \in Seq(Calls), NEW after, NEW rws,
           \A h, g \in 1..Len(tbl) : tbl[h].fromaddr = tbl[g].fromaddr => h = g,
           \/ \E s \in 1..Len(tbl) : tbl[s].fromaddr = d /\ after = Append(calls, OfflineCall(s))
           \/ (\A h \in 1..Len(tbl) : tbl[h].fromaddr # d) /\ after = calls
    PROVE  /\ SaysOnline(arr, tbl, calls, rws, c, e) => SaysOnline(Tail(arr), tbl, after, rws, c, e)
           /\ SaysNotOnline(arr, tbl, calls, rws, c, e) => SaysNotOnline(Tail(arr), tbl, after, rws, c, e)
<1> DEFINE on == OnlineTo(c, e)
           off == OfflineTo(c, e)
<1>1. /\ Head(arr) # on /\ (e # d => Head(arr) # off) /\ (e = d => Head(arr) = off)
  BY NoticesDiffer
<1>2. /\ LastIs(arr, on, off) => LastIs(Tail(arr), on, off)
      /\ LastIs(arr, off, on) => LastIs(Tail(arr), off, on) \/ (Head(arr) = off /\ Never(Tail(arr), on))
      /\ Never(arr, off) => Never(Tail(arr), off) /\ Head(arr) # off
      /\ Never(arr, on) => Never(Tail(arr), on)
  BY <1>1, LastTail
<1>3. ASSUME NEW h \in 1..Len(tbl), tbl[h].fromaddr # d
      PROVE  /\ LastIs(calls, OfflineCall(h), OnlineCall(h)) => LastIs(after, OfflineCall(h), OnlineCall(h))
             /\ Never(calls, OnlineCall(h)) => Never(after, OnlineCall(h))
             /\ LastIs(calls, OnlineCall(h), OfflineCall(h)) => LastIs(after, OnlineCall(h), OfflineCall(h))
             /\ Never(calls, OfflineCall(h)) => Never(after, OfflineCall(h))
  <2>1. CASE after = calls
    BY <2>1
  <2>2. ASSUME NEW s \in 1..Len(tbl), tbl[s].fromaddr = d, after = Append(calls, OfflineCall(s))
        PROVE  /\ LastIs(calls, OfflineCall(h), OnlineCall(h)) => LastIs(after, OfflineCall(h), OnlineCall(h))
               /\ Never(calls, OnlineCall(h)) => Never(after, OnlineCall(h))
               /\ LastIs(calls, OnlineCall(h), OfflineCall(h)) => LastIs(after, OnlineCall(h), OfflineCall(h))
               /\ Never(calls, OfflineCall(h)) => Never(after, OfflineCall(h))
    <3>1. OfflineCall(s) # OnlineCall(h) /\ OfflineCall(s) # OfflineCall(h)
      BY <1>3, <2>2, CallsDiffer
    <3> QED BY <2>2, <3>1, LastAppend
  <2> QED BY <2>1, <2>2
<1>4. ASSUME NEW h \in 1..Len(tbl), tbl[h].fromaddr = d
      PROVE  LastIs(after, OfflineCall(h), OnlineCall(h))
  <2>1. after = Append(calls, OfflineCall(h))
    BY <1>4
  <2> QED BY <2>1, CallsDiffer, LastAppend
<1> HIDE DEF on, off
<1>5. CASE e = d
  <2>1. SaysOnline(arr, tbl, calls, rws, c, e) => LastIs(Tail(arr), on, off)
    BY <1>1, <1>2, <1>5 DEF SaysOnline, on, off
  <2>2. SaysNotOnline(arr, tbl, calls, rws, c, e) => LastIs(Tail(arr), off, on) \/ Never(Tail(arr), on)
    BY <1>2 DEF SaysNotOnline, on, off
  <2>3. ASSUME LastIs(Tail(arr), off, on) \/ Never(Tail(arr), on)
        PROVE  SaysNotOnline(Tail(arr), tbl, after, rws, c, e)
    BY <1>4, <1>5, <2>3 DEF SaysNotOnline, on, off
  <2> QED BY <2>1, <2>2, <2>3 DEF SaysOnline, on, off
<1>6. CASE e # d
  <2>1. SaysOnline(arr, tbl, calls, rws, c, e) => SaysOnline(Tail(arr), tbl, after, rws, c, e)
    BY <1>2, <1>3, <1>6 DEF SaysOnline, on, off
  <2>2. SaysNotOnline(arr, tbl, calls, rws, c, e) => SaysNotOnline(Tail(arr), tbl, after, rws, c, e)
    BY <1>1, <1>2, <1>3, <1>6 DEF SaysNotOnline, on, off
  <2> QED BY <2>1, <2>2
<1> QED BY <1>5, <1>6

LEMMA SaysRan ==
    ASSUME NEW c \in FromAddrs, NEW e \in FromAddrs, NEW arr, NEW tbl, NEW new,
           NEW calls \in Seq(Calls), calls # <<>>, NEW rws, NEW rws2, NEW h,
           Len(new) = Len(tbl), \A k \in 1..Len(tbl) : new[k].fromaddr = tbl[k].fromaddr,
           \/ Head(calls) = OnlineCall(h) /\ rws2 = rws \cup {h}
           \/ Head(calls) = OfflineCall(h) /\ rws2 = rws \ {h}
    PROVE  /\ SaysOnline(arr, tbl, calls, rws, c, e) => SaysOnline(arr, new, Tail(calls), rws2, c, e)
           /\ SaysNotOnline(arr, tbl, calls, rws, c, e) => SaysNotOnline(arr, new, Tail(calls), rws2, c, e)
<1> DEFINE OnIn(q, r, g) == LastIs(q, OnlineCall(g), OfflineCall(g)) \/ (Never(q, OfflineCall(g)) /\ g \in r)
           OffIn(q, r, g) == LastIs(q, OfflineCall(g), OnlineCall(g)) \/ (Never(q, OnlineCall(g)) /\ g \notin r)
<1>1. ASSUME NEW g
      PROVE  /\ OnIn(calls, rws, g) => OnIn(Tail(calls), rws2, g)
             /\ OffIn(calls, rws, g) => OffIn(Tail(calls), rws2, g)
  <2>1. /\ LastIs(calls, OnlineCall(g), OfflineCall(g)) =>
              \/ LastIs(Tail(calls), OnlineCall(g), OfflineCall(g))
              \/ Head(calls) = OnlineCall(g) /\ Never(Tail(calls), OfflineCall(g))
        /\ LastIs(calls, OfflineCall(g), OnlineCall(g)) =>
              \/ LastIs(Tail(calls), OfflineCall(g), OnlineCall(g))
              \/ Head(calls) = OfflineCall(g) /\ Never(Tail(calls), OnlineCall(g))
        /\ Never(calls, OnlineCall(g)) => Never(Tail(calls), OnlineCall(g)) /\ Head(calls) # OnlineCall(g)
        /\ Never(calls, OfflineCall(g)) => Never(Tail(calls), OfflineCall(g)) /\ Head(calls) # OfflineCall(g)
    BY LastTail
  <2>2. /\ Head(calls) = OnlineCall(g) => g \in rws2
        /\ Head(calls) = OfflineCall(g) => g \notin rws2
        /\ Head(calls) # OfflineCall(g) /\ g \in rws => g \in rws2
        /\ Head(calls) # OnlineCall(g) /\ g \notin rws => g \notin rws2
    <3>1. /\ OnlineCall(g) = OnlineCall(h) => g = h
          /\ OfflineCall(g) = OfflineCall(h) => g = h
          /\ OnlineCall(g) # OfflineCall(h) /\ OnlineCall(h) # OfflineCall(g)
      BY CallsDiffer
    <3> QED BY <3>1
  <2> QED BY <2>1, <2>2
<1>2. SaysOnline(arr, tbl, calls, rws, c, e) => SaysOnline(arr, new, Tail(calls), rws2, c, e)
  BY <1>1 DEF SaysOnline
<1>3. SaysNotOnline(arr, tbl, calls, rws, c, e) => SaysNotOnline(arr, new, Tail(calls), rws2, c, e)
  BY <1>1 DEF SaysNotOnline
<1> QED BY <1>2, <1>3
\* A client takes a notice or runs a callback: what it heard last stays what it was.
LEMMA QueueOfMemory ==
    ASSUME QueueInv,
           UNCHANGED <<handlerVars, inbox, stray, starts, prompt, phase, silent>>,
           NEW c \in FromAddrs, \A e \in FromAddrs : e # c => Same(e),
           phase[c] # "aborted", arriving[c] # <<>> \/ table[c] # <<>>, table'[c] # <<>>,
           First(c) \/ IsNew(c) =>
              Never(arriving'[c], OnlineTo(c, c)) /\ \A h \in 1..Len(table'[c]) : table'[c][h].fromaddr # c,
           \A e \in FromAddrs : /\ HeardOnline(c, e) => HeardOnline(c, e)'
                                /\ HeardNotOnline(c, e) => HeardNotOnline(c, e)'
    PROVE  QueueInv'
<1>1. /\ \A d : TrackerStays(c, d) /\ TrackerStays(d, c)
      /\ cur' = cur /\ pc' = pc /\ i' = i /\ peers' = peers
  BY TrackerIdle DEF handlerVars
<1>2. /\ First(c)' <=> First(c)
      /\ IsNew(c)' <=> IsNew(c)
      /\ Unknown(c)' <=> Unknown(c)
      /\ Unborn(c)' <=> Unborn(c)
      /\ Once(inbox, KnockOf(c))' <=> Once(inbox, KnockOf(c))
  BY <1>1 DEF Unknown, Unborn, TrackerStays, First, IsNew, KnockOf, ByeOf
<1>3. OnlineListed(c)' /\ OthersNot(c)'
  BY <1>1 DEF QueueInv, OnlineListed, OthersNot, TrackerStays
<1>4. Staged(c)'
  <2>1. Staged(c)
    BY DEF QueueInv
  <2>2. /\ starts'[c] = 0 => phase'[c] = "off"
        /\ starts'[c] = 0 \/ IsNew(c)' => Unborn(c)'
    BY <1>2, <2>1 DEF Staged
  <2>3. First(c)' =>
          /\ Never(inbox, ByeOf(c))' /\ cur' # ByeOf(c)
          /\ \/ Unknown(c)' /\ Once(inbox, KnockOf(c))'
             \/ Never(inbox, KnockOf(c))' /\ cur' = KnockOf(c) /\ ~HasSlot(c)'
             \/ Never(inbox, KnockOf(c))' /\ cur' # KnockOf(c) /\ Listed(c)'
    BY <1>1, <1>2, <2>1 DEF Staged, TrackerStays
  <2>4. First(c)' \/ IsNew(c)' => HasSlot(c)' \/ (pc' = "introduce" /\ cur' = KnockOf(c))
    BY <1>1, <1>2, <2>1 DEF Staged, TrackerStays
  <2>5. First(c)' \/ IsNew(c)' =>
          /\ Never(arriving[c], OnlineTo(c, c))'
          /\ \A h \in 1..Len(table'[c]) : table'[c][h].fromaddr # c
    BY <1>2
  <2> QED BY <2>2, <2>3, <2>4, <2>5 DEF Staged, KnockOf, ByeOf
<1>5. FirstHears(c)'
  <2>1. HeardSome(c)' /\ phase'[c] # "aborted"
    BY DEF HeardSome
  <2> QED BY <2>1 DEF FirstHears
<1>6. ASSUME NEW d \in FromAddrs, d # c
      PROVE  KnowsOnline(c, d)' /\ KnowsOnline(d, c)' /\ KnowsNobodyElse(c, d)' /\ KnowsNobodyElse(d, c)'
  <2>1. KnowsOnline(d, c)' /\ KnowsNobodyElse(d, c)'
    BY <1>6, PairSame DEF Same, QueueInv
  <2>2. KnowsOnline(c, d)' /\ KnowsNobodyElse(c, d)'
    BY <1>1, <1>2 DEF QueueInv, TrackerStays, KnowsOnline, KnowsNobodyElse
  <2> QED BY <2>1, <2>2
<1> QED BY <1>3, <1>4, <1>5, <1>6, QueueOfClient

LEMMA QueueTookOnline ==
    ASSUME SysInv, QueueInv, NEW c \in FromAddrs, NEW d \in FromAddrs,
           TookRest(c, 1), TookOnline(c, 1, d)
    PROVE  QueueInv'
<1>1. /\ UNCHANGED <<handlerVars, inbox, stray, starts, prompt, phase, silent>>
      /\ c \in listening /\ phase[c] # "aborted" /\ MemoryOK(c)
      /\ arriving[c] # <<>> /\ arriving[c][1] = OnlineTo(c, d)
      /\ arriving[c] \in Seq(NoticesTo(c)) /\ idle[c] \in Seq(Calls)
  BY DEF TookRest, TookOnline, Takeable, SysInv, SysTypes, MemoryOK, Running
<1>2. /\ Head(arriving[c]) = OnlineTo(c, d) /\ arriving'[c] = Tail(arriving[c])
      /\ \A e \in FromAddrs : e # c => Same(e)
  BY <1>1, SysInvTookOnline, TakenFirst
<1>3. PICK s \in 1..Len(table'[c]) : OnlineDone(c, d, s)
  BY SysInvTookOnline
<1>4. /\ table'[c] # <<>> /\ table'[c][s].fromaddr = d
      /\ \A h \in 1..Len(table[c]) : h \in 1..Len(table'[c]) /\ table'[c][h].fromaddr = table[c][h].fromaddr
      /\ \A h \in 1..Len(table'[c]) : h # s =>
            h \in 1..Len(table[c]) /\ table'[c][h] = table[c][h] /\ table'[c][h].fromaddr # d
      /\ idle'[c] = Append(idle[c], OnlineCall(s)) /\ rows'[c] = rows[c]
  BY <1>3 DEF OnlineDone
<1>5. ASSUME First(c) \/ IsNew(c)
      PROVE  Never(arriving'[c], OnlineTo(c, c)) /\ \A h \in 1..Len(table'[c]) : table'[c][h].fromaddr # c
  <2>1. Never(arriving[c], OnlineTo(c, c)) /\ \A h \in 1..Len(table[c]) : table[c][h].fromaddr # c
    BY <1>5 DEF QueueInv, Staged
  <2>2. Never(Tail(arriving[c]), OnlineTo(c, c)) /\ Head(arriving[c]) # OnlineTo(c, c)
    BY <1>1, <2>1, LastTail
  <2>3. Never(arriving'[c], OnlineTo(c, c)) /\ d # c
    BY <1>2, <2>2
  <2> QED BY <1>4, <2>1, <2>2, <2>3
<1>6. ASSUME NEW e \in FromAddrs
      PROVE  /\ HeardOnline(c, e) => HeardOnline(c, e)'
             /\ HeardNotOnline(c, e) => HeardNotOnline(c, e)'
  <2>1. /\ SaysOnline(arriving[c], table[c], idle[c], rows[c], c, e)
             => SaysOnline(Tail(arriving[c]), table'[c], Append(idle[c], OnlineCall(s)), rows[c], c, e)
        /\ SaysNotOnline(arriving[c], table[c], idle[c], rows[c], c, e)
             => SaysNotOnline(Tail(arriving[c]), table'[c], Append(idle[c], OnlineCall(s)), rows[c], c, e)
    BY <1>1, <1>2, <1>4, SaysTookOnline
  <2> QED BY <1>2, <1>4, <2>1 DEF HeardOnline, HeardNotOnline
<1> QED BY <1>1, <1>2, <1>4, <1>5, <1>6, QueueOfMemory

LEMMA QueueTookOffline ==
    ASSUME SysInv, QueueInv, NEW c \in FromAddrs, NEW d \in FromAddrs,
           TookRest(c, 1), TookOffline(c, 1, d)
    PROVE  QueueInv'
<1>1. /\ UNCHANGED <<handlerVars, inbox, stray, starts, prompt, phase, silent>>
      /\ c \in listening /\ phase[c] # "aborted" /\ MemoryOK(c)
      /\ arriving[c] # <<>> /\ arriving[c][1] = OfflineTo(c, d)
      /\ arriving[c] \in Seq(NoticesTo(c)) /\ idle[c] \in Seq(Calls)
  BY DEF TookRest, TookOffline, Takeable, SysInv, SysTypes, MemoryOK, Running
<1>2. /\ Head(arriving[c]) = OfflineTo(c, d) /\ arriving'[c] = Tail(arriving[c])
      /\ OfflineDone(c, d) /\ \A e \in FromAddrs : e # c => Same(e)
  BY <1>1, SysInvTookOffline, TakenFirst
<1>3. /\ table'[c] = table[c] /\ rows'[c] = rows[c] /\ table[c] # <<>>
      /\ \/ \E s \in 1..Len(table[c]) :
               table[c][s].fromaddr = d /\ idle'[c] = Append(idle[c], OfflineCall(s))
         \/ (\A h \in 1..Len(table[c]) : table[c][h].fromaddr # d) /\ idle'[c] = idle[c]
      /\ \A h, g \in 1..Len(table[c]) : table[c][h].fromaddr = table[c][g].fromaddr => h = g
  BY <1>1, <1>2 DEF OfflineDone, MemoryOK, TableOK
<1>4. ASSUME First(c) \/ IsNew(c)
      PROVE  Never(arriving'[c], OnlineTo(c, c)) /\ \A h \in 1..Len(table'[c]) : table'[c][h].fromaddr # c
  <2>1. Never(arriving[c], OnlineTo(c, c)) /\ \A h \in 1..Len(table[c]) : table[c][h].fromaddr # c
    BY <1>4 DEF QueueInv, Staged
  <2>2. Never(Tail(arriving[c]), OnlineTo(c, c))
    BY <1>1, <2>1, LastTail
  <2> QED BY <1>2, <1>3, <2>1, <2>2
<1>5. ASSUME NEW e \in FromAddrs
      PROVE  /\ HeardOnline(c, e) => HeardOnline(c, e)'
             /\ HeardNotOnline(c, e) => HeardNotOnline(c, e)'
  <2>1. /\ SaysOnline(arriving[c], table[c], idle[c], rows[c], c, e)
             => SaysOnline(Tail(arriving[c]), table[c], idle'[c], rows[c], c, e)
        /\ SaysNotOnline(arriving[c], table[c], idle[c], rows[c], c, e)
             => SaysNotOnline(Tail(arriving[c]), table[c], idle'[c], rows[c], c, e)
    BY <1>1, <1>2, <1>3, SaysTookOffline
  <2> QED BY <1>2, <1>3, <2>1 DEF HeardOnline, HeardNotOnline
<1> QED BY <1>1, <1>2, <1>3, <1>4, <1>5, QueueOfMemory

LEMMA QueueRunIdle ==
    ASSUME SysInv, QueueInv, NEW c \in FromAddrs, RunIdle(c) PROVE QueueInv'
<1>1. /\ UNCHANGED <<handlerVars, inbox, stray, starts, prompt, phase, silent>>
      /\ arriving'[c] = arriving[c] /\ phase[c] # "aborted" /\ idle[c] \in Seq(Calls)
  BY DEF RunIdle, Running, historyVars, SysInv, SysTypes
<1>2. PICK h \in 1..Len(table[c]) : CallDone(c, h)
  BY SysInvRunIdle
<1>3. /\ idle[c] # <<>> /\ idle'[c] = Tail(idle[c]) /\ table[c] # <<>> /\ table'[c] # <<>>
      /\ Len(table'[c]) = Len(table[c])
      /\ \A k \in 1..Len(table[c]) : table'[c][k].fromaddr = table[c][k].fromaddr
      /\ \/ Head(idle[c]) = OnlineCall(h) /\ rows'[c] = rows[c] \cup {h}
         \/ Head(idle[c]) = OfflineCall(h) /\ rows'[c] = rows[c] \ {h}
  BY <1>2 DEF CallDone
<1>4. ASSUME First(c) \/ IsNew(c)
      PROVE  Never(arriving'[c], OnlineTo(c, c)) /\ \A k \in 1..Len(table'[c]) : table'[c][k].fromaddr # c
  BY <1>1, <1>3, <1>4 DEF QueueInv, Staged
<1>5. ASSUME NEW e \in FromAddrs
      PROVE  /\ HeardOnline(c, e) => HeardOnline(c, e)'
             /\ HeardNotOnline(c, e) => HeardNotOnline(c, e)'
  <2>1. /\ SaysOnline(arriving[c], table[c], idle[c], rows[c], c, e)
             => SaysOnline(arriving[c], table'[c], Tail(idle[c]), rows'[c], c, e)
        /\ SaysNotOnline(arriving[c], table[c], idle[c], rows[c], c, e)
             => SaysNotOnline(arriving[c], table'[c], Tail(idle[c]), rows'[c], c, e)
    BY <1>1, <1>3, SaysRan
  <2> QED BY <1>1, <1>3, <2>1 DEF HeardOnline, HeardNotOnline
<1>6. \A e \in FromAddrs : e # c => Same(e)
  BY SysInvRunIdle
<1> QED BY <1>1, <1>3, <1>4, <1>5, <1>6, QueueOfMemory
----------------------------------------------------------------------------
(* Steps of the tracker that change nothing of a client *)

LEMMA HearingKept ==
    ASSUME NEW c, Same(c), cur \in Said \cup {NoMsg}
    PROVE  /\ phase'[c] = phase[c] /\ starts'[c] = starts[c]
           /\ table'[c] = table[c] /\ arriving'[c] = arriving[c]
           /\ c \in prompt' <=> c \in prompt
           /\ c \in silent' <=> c \in silent
           /\ First(c)' <=> First(c)
           /\ IsNew(c)' <=> IsNew(c)
           /\ HeardSome(c)' <=> HeardSome(c)
           /\ \A d : HeardOnline(c, d)' <=> HeardOnline(c, d)
           /\ \A d : HeardNotOnline(c, d)' <=> HeardNotOnline(c, d)
BY HeardSame DEF Same, Alike, First, IsNew, HeardSome

\* The parts of QueueInv, of which a lemma about a step shows one after the other.
Parts ==
    /\ \A d \in FromAddrs : OnlineListed(d) /\ OthersNot(d)
    /\ \A d \in FromAddrs : InStep(d)
    /\ \A c \in FromAddrs : Staged(c)
    /\ \A c \in FromAddrs : FirstHears(c)
    /\ \A c, d \in FromAddrs : c # d => KnowsOnline(c, d)
    /\ \A c, d \in FromAddrs : c # d => KnowsNobodyElse(c, d)

LEMMA PartsOfQueueInv == (Parts <=> QueueInv) /\ (Parts' <=> QueueInv')
BY DEF Parts, QueueInv, KnowsOnline, KnowsNobodyElse

LEMMA QueueSkip ==
    ASSUME QueueInv, SysInv, SkipInactive, UNCHANGED <<inbox, stray>>, \A e \in FromAddrs : Same(e)
    PROVE  QueueInv'
<1> USE HearingKept
<1>1. /\ peers' = peers /\ pc' = pc /\ cur' = cur /\ i' = i + 1 /\ inbox' = inbox /\ stray' = stray
      /\ ~peers[i].active /\ i \in Nat /\ cur \in Said \cup {NoMsg}
      /\ \A k \in 1..Len(peers) : k >= i /\ peers[k].active => k >= i + 1
      /\ \A k \in 1..Len(peers) : k < i + 1 /\ peers[k].active => k < i
  BY DEF SkipInactive, SysInv, HInv, HandlerTypeOK, SysTypes
<1>2. ASSUME NEW e \in FromAddrs
      PROVE  /\ KnockComes(e)' <=> KnockComes(e)
             /\ ByeComes(e)' <=> ByeComes(e)
             /\ Never(inbox, KnockOf(e))' <=> Never(inbox, KnockOf(e))
             /\ Never(inbox, ByeOf(e))' <=> Never(inbox, ByeOf(e))
             /\ Once(inbox, KnockOf(e))' <=> Once(inbox, KnockOf(e))
             /\ Listed(e)' <=> Listed(e)
             /\ HasSlot(e)' <=> HasSlot(e)
             /\ Entering(e)' <=> Entering(e)
             /\ Unknown(e)' <=> Unknown(e)
             /\ Unborn(e)' <=> Unborn(e)
             /\ \A k : ListedAt(e, k)' <=> ListedAt(e, k)
  BY <1>1 DEF KnockComes, ByeComes, Listed, ListedAt, HasSlot, Entering, Unknown, Unborn, KnockOf, ByeOf
<1>3. ASSUME NEW c \in FromAddrs, NEW d \in FromAddrs
      PROVE  /\ AnnounceDue(c, d) => AnnounceDue(c, d)'
             /\ IntroduceDue(c, d) => IntroduceDue(c, d)'
             /\ FarewellDue(c, d) => FarewellDue(c, d)'
  BY <1>1 DEF AnnounceDue, IntroduceDue, FarewellDue, ListedAt, KnockOf, ByeOf
<1>4. \A e \in FromAddrs : OnlineListed(e)' /\ OthersNot(e)'
  BY <1>1, <1>2 DEF QueueInv, OnlineListed, OthersNot
<1>5. \A e \in FromAddrs : InStep(e)'
  BY <1>1, <1>2 DEF QueueInv, InStep
<1>6. \A e \in FromAddrs : Staged(e)'
  BY <1>1, <1>2 DEF QueueInv, Staged
<1>7. ASSUME NEW e \in FromAddrs PROVE FirstHears(e)'
  <2>1. FirstHears(e)
    BY DEF QueueInv
  <2>2. ASSUME NEW k \in 1..Len(peers), ListedAt(e, k), pc = "announce" => k < i + 1
        PROVE  pc = "announce" => k < i
    BY <1>1, <2>2 DEF ListedAt
  <2> QED BY <1>1, <1>2, <2>1, <2>2 DEF FirstHears, KnockOf, OnlineTo, Reach
<1>8. \A c, d \in FromAddrs : KnowsOnline(c, d)'
  BY <1>1, <1>2, <1>3 DEF QueueInv, KnowsOnline
<1>9. \A c, d \in FromAddrs : KnowsNobodyElse(c, d)'
  BY <1>1, <1>2, <1>3 DEF QueueInv, KnowsNobodyElse
<1> QED BY <1>4, <1>5, <1>6, <1>7, <1>8, <1>9, PartsOfQueueInv DEF Parts
LEMMA QueueAnnounceDone ==
    ASSUME QueueInv, SysInv, AnnounceDone, UNCHANGED <<inbox, stray>>, \A e \in FromAddrs : Same(e)
    PROVE  QueueInv'
<1> USE HearingKept
<1>1. /\ peers' = peers /\ pc = "announce" /\ pc' = "introduce" /\ cur' = cur /\ i' = 1
      /\ inbox' = inbox /\ stray' = stray /\ cur \in Said \cup {NoMsg}
      /\ \A k \in 1..Len(peers) : ~(k >= i) /\ k < i /\ k >= 1 /\ ~(k < 1)
  BY DEF AnnounceDone, LoopDone, SysInv, HInv, HandlerTypeOK, SysTypes
<1>2. ASSUME NEW e \in FromAddrs
      PROVE  /\ KnockComes(e)' <=> KnockComes(e)
             /\ ByeComes(e)' <=> ByeComes(e)
             /\ Never(inbox, KnockOf(e))' <=> Never(inbox, KnockOf(e))
             /\ Never(inbox, ByeOf(e))' <=> Never(inbox, ByeOf(e))
             /\ Once(inbox, KnockOf(e))' <=> Once(inbox, KnockOf(e))
             /\ Listed(e)' <=> Listed(e)
             /\ HasSlot(e)' <=> HasSlot(e)
             /\ Entering(e)' <=> Entering(e)
             /\ Unknown(e)' <=> Unknown(e)
             /\ Unborn(e)' <=> Unborn(e)
             /\ \A k : ListedAt(e, k)' <=> ListedAt(e, k)
  BY <1>1 DEF KnockComes, ByeComes, Listed, ListedAt, HasSlot, Entering, Unknown, Unborn
<1>3. \A e \in FromAddrs : OnlineListed(e)' /\ OthersNot(e)'
  BY <1>1, <1>2 DEF QueueInv, OnlineListed, OthersNot
<1>4. \A e \in FromAddrs : InStep(e)'
  BY <1>1, <1>2 DEF QueueInv, InStep
<1>5. \A e \in FromAddrs : Staged(e)'
  BY <1>1, <1>2 DEF QueueInv, Staged
<1>6. ASSUME NEW e \in FromAddrs PROVE FirstHears(e)'
  <2>1. FirstHears(e)
    BY DEF QueueInv
  <2> QED BY <1>1, <1>2, <2>1 DEF FirstHears
<1>7. ASSUME NEW c \in FromAddrs, NEW d \in FromAddrs, c # d PROVE KnowsOnline(c, d)'
  <2> SUFFICES ASSUME c \in prompt, phase[c] = "on", phase[d] = "on"
               PROVE  \/ KnockComes(c)' \/ KnockComes(d)'
                      \/ AnnounceDue(c, d)' \/ IntroduceDue(c, d)' \/ HeardOnline(c, d)'
    BY <1>1 DEF KnowsOnline
  <2>1. KnockComes(c) \/ KnockComes(d) \/ IntroduceDue(c, d) \/ HeardOnline(c, d)
    <3>1. ~AnnounceDue(c, d)
      BY <1>1 DEF AnnounceDue
    <3> QED BY <1>7, <3>1 DEF QueueInv, KnowsOnline
  <2>2. CASE IntroduceDue(c, d)
    <3>1. cur = KnockOf(c) /\ ~Entering(d)
      BY <1>7, <2>2, KnocksAndByes DEF IntroduceDue, Entering
    <3>2. KnockComes(d) \/ Listed(d)
      BY <3>1 DEF QueueInv, OnlineListed
    <3>3. Listed(d) => IntroduceDue(c, d)'
      BY <1>1, <1>2, <3>1 DEF Listed, ListedAt, IntroduceDue
    <3> QED BY <1>2, <3>2, <3>3
  <2> QED BY <1>1, <1>2, <2>1, <2>2
<1>8. ASSUME NEW c \in FromAddrs, NEW d \in FromAddrs, c # d PROVE KnowsNobodyElse(c, d)'
  <2>1. ~FarewellDue(c, d)
    BY <1>1 DEF FarewellDue
  <2> QED BY <1>1, <1>2, <1>8, <2>1 DEF QueueInv, KnowsNobodyElse
<1> QED BY <1>3, <1>4, <1>5, <1>6, <1>7, <1>8, PartsOfQueueInv DEF Parts

LEMMA QueueFarewellDone ==
    ASSUME QueueInv, SysInv, FarewellDone, UNCHANGED <<inbox, stray>>, \A e \in FromAddrs : Same(e)
    PROVE  QueueInv'
<1> USE HearingKept
<1>1. /\ peers' = peers /\ pc = "farewell" /\ pc' = "idle" /\ cur' = NoMsg
      /\ inbox' = inbox /\ stray' = stray /\ cur \in Said \cup {NoMsg}
      /\ cur \in Bye /\ \A e \in FromAddrs : cur # KnockOf(e) /\ cur' # KnockOf(e) /\ cur' # ByeOf(e)
      /\ \A k \in 1..Len(peers) : ~(k >= i)
  BY KnocksAndByes
     DEF FarewellDone, Return, LoopDone, SysInv, HInv, HandlerTypeOK, CurMatches, SysTypes
<1>2. ASSUME NEW e \in FromAddrs
      PROVE  /\ KnockComes(e)' <=> KnockComes(e)
             /\ ByeComes(e)' <=> ByeComes(e)
             /\ Never(inbox, KnockOf(e))' <=> Never(inbox, KnockOf(e))
             /\ Never(inbox, ByeOf(e))' <=> Never(inbox, ByeOf(e))
             /\ Once(inbox, KnockOf(e))' <=> Once(inbox, KnockOf(e))
             /\ Listed(e)' <=> Listed(e)
             /\ HasSlot(e)' <=> HasSlot(e)
             /\ ~Entering(e) /\ ~Entering(e)'
             /\ Unknown(e)' <=> Unknown(e)
             /\ Unborn(e) => Unborn(e)'
  BY <1>1 DEF KnockComes, ByeComes, Listed, ListedAt, HasSlot, Entering, Unknown, Unborn
<1>3. \A e \in FromAddrs : OnlineListed(e)' /\ OthersNot(e)'
  BY <1>1, <1>2 DEF QueueInv, OnlineListed, OthersNot
<1>4. \A e \in FromAddrs : InStep(e)'
  BY <1>1, <1>2 DEF QueueInv, InStep
<1>5. \A e \in FromAddrs : Staged(e)'
  BY <1>1, <1>2 DEF QueueInv, Staged
<1>6. \A e \in FromAddrs : FirstHears(e)'
  BY <1>1, <1>2 DEF QueueInv, FirstHears
<1>7. ASSUME NEW c \in FromAddrs, NEW d \in FromAddrs, c # d PROVE KnowsOnline(c, d)'
  <2>1. ~AnnounceDue(c, d) /\ ~IntroduceDue(c, d)
    BY <1>1 DEF AnnounceDue, IntroduceDue
  <2> QED BY <1>1, <1>2, <1>7, <2>1 DEF QueueInv, KnowsOnline
<1>8. ASSUME NEW c \in FromAddrs, NEW d \in FromAddrs, c # d PROVE KnowsNobodyElse(c, d)'
  <2>1. ~FarewellDue(c, d)
    BY <1>1 DEF FarewellDue
  <2> QED BY <1>1, <1>2, <1>8, <2>1 DEF QueueInv, KnowsNobodyElse
<1> QED BY <1>3, <1>4, <1>5, <1>6, <1>7, <1>8, PartsOfQueueInv DEF Parts

\* From now on the newcomer d is listed; it was told of everybody that is.
LEMMA QueueIntroduceDone ==
    ASSUME QueueInv, SysInv, NEW d \in FromAddrs, NEW s \in 1..Len(peers'), GotPeer(d, s),
           UNCHANGED <<inbox, stray>>, \A e \in FromAddrs : Same(e)
    PROVE  QueueInv'
<1> USE HearingKept
<1>1. /\ cur = KnockOf(d) /\ pc = "introduce" /\ pc' = "idle" /\ cur' = NoMsg
      /\ inbox' = inbox /\ stray' = stray /\ cur \in Said \cup {NoMsg}
      /\ \A e \in FromAddrs : /\ cur = KnockOf(e) <=> e = d
                              /\ cur # ByeOf(e) /\ cur' # KnockOf(e) /\ cur' # ByeOf(e)
      /\ \A k \in 1..Len(peers) : ~(k >= i) /\ k < i
  BY KnocksAndByes DEF GotPeer, SysInv, SysTypes, HInv, HandlerTypeOK
<1>2. /\ Listed(d)' /\ HasSlot(d)'
      /\ \A e \in FromAddrs : e # d => (Listed(e)' <=> Listed(e)) /\ (HasSlot(e)' <=> HasSlot(e))
  <2>1. /\ peers'[s].fromaddr = d /\ peers'[s].active
        /\ \A k \in 1..Len(peers') : k # s => k \in 1..Len(peers) /\ peers'[k] = peers[k]
        /\ \A k \in 1..Len(peers) : k \in 1..Len(peers') /\ peers'[k].fromaddr = peers[k].fromaddr
    BY DEF GotPeer
  <2> QED BY <2>1 DEF Listed, ListedAt, HasSlot
<1>3. ASSUME NEW e \in FromAddrs
      PROVE  /\ KnockComes(e)' <=> KnockComes(e)
             /\ ByeComes(e)' <=> ByeComes(e)
             /\ Never(inbox, KnockOf(e))' <=> Never(inbox, KnockOf(e))
             /\ Never(inbox, ByeOf(e))' <=> Never(inbox, ByeOf(e))
             /\ Once(inbox, KnockOf(e))' <=> Once(inbox, KnockOf(e))
             /\ Entering(e) <=> e = d
             /\ ~Entering(e)'
             /\ Unknown(e) <=> e # d /\ ~HasSlot(e)
             /\ Unknown(e)' <=> ~HasSlot(e)'
             /\ Unborn(e) => e # d /\ Unborn(e)'
  BY <1>1, <1>2 DEF KnockComes, ByeComes, Entering, Unknown, Unborn
<1>4. \A e \in FromAddrs : OnlineListed(e)' /\ OthersNot(e)'
  BY <1>1, <1>2, <1>3 DEF QueueInv, OnlineListed, OthersNot
<1>5. \A e \in FromAddrs : InStep(e)'
  BY <1>1, <1>2, <1>3 DEF QueueInv, InStep
<1>6. \A e \in FromAddrs : Staged(e)'
  BY <1>1, <1>2, <1>3 DEF QueueInv, Staged
<1>7. ASSUME NEW e \in FromAddrs PROVE FirstHears(e)'
  <2>1. FirstHears(e)
    BY DEF QueueInv
  <2>2. ASSUME starts[e] = 1, e \in prompt, ~stray, First(e), Listed(e)',
               NEW f \in FromAddrs, f # e, Listed(f)'
        PROVE  HeardSome(e)
    <3>1. CASE e = d
      <4>1. Listed(f)
        BY <1>2, <2>2, <3>1
      <4>2. \E k \in 1..Len(peers) : k < i /\ peers[k].active
        BY <1>1, <4>1 DEF Listed, ListedAt
      <4> QED BY <1>1, <2>1, <2>2, <3>1, <4>2 DEF FirstHears
    <3>2. CASE e # d
      <4>1. \E k \in 1..Len(peers) : ListedAt(e, k)
        BY <1>2, <2>2, <3>2 DEF Listed
      <4> QED BY <1>1, <2>1, <2>2, <4>1 DEF FirstHears
    <3> QED BY <3>1, <3>2
  <2> QED BY <1>1, <2>1, <2>2 DEF FirstHears
<1>8. ASSUME NEW c \in FromAddrs, NEW e \in FromAddrs, c # e PROVE KnowsOnline(c, e)'
  <2>1. ~AnnounceDue(c, e) /\ ~IntroduceDue(c, e)
    BY <1>1 DEF AnnounceDue, IntroduceDue
  <2> QED BY <1>1, <1>3, <1>8, <2>1 DEF QueueInv, KnowsOnline
<1>9. ASSUME NEW c \in FromAddrs, NEW e \in FromAddrs, c # e PROVE KnowsNobodyElse(c, e)'
  <2>1. ~FarewellDue(c, e)
    BY <1>1 DEF FarewellDue
  <2> QED BY <1>1, <1>3, <1>9, <2>1 DEF QueueInv, KnowsNobodyElse
<1> QED BY <1>4, <1>5, <1>6, <1>7, <1>8, <1>9, PartsOfQueueInv DEF Parts
----------------------------------------------------------------------------
(* The tracker takes the message at the head of its queue *)

LEMMA InboxTail ==
    ASSUME inbox \in Seq(Said), inbox # <<>>, inbox' = Tail(inbox), NEW e \in FromAddrs
    PROVE  /\ KnockComes(e) => KnockComes(e)' \/ (Head(inbox) = KnockOf(e) /\ Never(inbox, ByeOf(e))')
           /\ ByeComes(e) => ByeComes(e)' \/ (Head(inbox) = ByeOf(e) /\ Never(inbox, KnockOf(e))')
           /\ Never(inbox, KnockOf(e)) => Never(inbox, KnockOf(e))' /\ Head(inbox) # KnockOf(e)
           /\ Never(inbox, ByeOf(e)) => Never(inbox, ByeOf(e))' /\ Head(inbox) # ByeOf(e)
           /\ Once(inbox, KnockOf(e)) => /\ Once(inbox, KnockOf(e))'
                                         /\ Head(inbox) = KnockOf(e) => Never(inbox, KnockOf(e))'
<1>1. /\ Len(inbox) \in Nat \ {0} /\ Len(inbox') = Len(inbox) - 1 /\ Head(inbox) = inbox[1]
      /\ \A k \in 1..Len(inbox') : k + 1 \in 1..Len(inbox) /\ inbox'[k] = inbox[k + 1]
  OBVIOUS
<1>2. /\ KnockComes(e) => KnockComes(e)' \/ (Head(inbox) = KnockOf(e) /\ Never(inbox', ByeOf(e)))
      /\ ByeComes(e) => ByeComes(e)' \/ (Head(inbox) = ByeOf(e) /\ Never(inbox', KnockOf(e)))
      /\ Never(inbox, KnockOf(e)) => Never(inbox', KnockOf(e)) /\ Head(inbox) # KnockOf(e)
      /\ Never(inbox, ByeOf(e)) => Never(inbox', ByeOf(e)) /\ Head(inbox) # ByeOf(e)
  BY LastTail DEF KnockComes, ByeComes
<1>3. ASSUME Once(inbox, KnockOf(e)) PROVE Once(inbox', KnockOf(e))
  <2> SUFFICES ASSUME NEW j \in 1..Len(inbox'), NEW k \in 1..Len(inbox'),
                      inbox'[j] = KnockOf(e), inbox'[k] = KnockOf(e)
               PROVE  j = k
    BY DEF Once
  <2>1. j + 1 = k + 1
    BY <1>1, <1>3 DEF Once
  <2> QED BY <2>1
<1>4. ASSUME Once(inbox, KnockOf(e)), Head(inbox) = KnockOf(e) PROVE Never(inbox', KnockOf(e))
  <2> SUFFICES ASSUME NEW k \in 1..Len(inbox'), inbox'[k] = KnockOf(e) PROVE FALSE
    BY DEF Never
  <2>1. 1 = k + 1
    BY <1>1, <1>4 DEF Once
  <2> QED BY <2>1
<1> QED BY <1>2, <1>3, <1>4

\* A BYE that waits keeps its KNOCK before it, or the tracker knows the client by then.
LEMMA InStepTail ==
    ASSUME inbox \in Seq(Said), inbox # <<>>, inbox' = Tail(inbox), stray' = stray,
           NEW e \in FromAddrs, InStep(e),
           Head(inbox) = KnockOf(e) => Entering(e)',
           Head(inbox) # ByeOf(e) /\ (Listed(e) \/ Entering(e)) => Listed(e)' \/ Entering(e)'
    PROVE  InStep(e)'
<1>1. /\ Len(inbox) \in Nat \ {0} /\ Len(inbox') = Len(inbox) - 1 /\ Head(inbox) = inbox[1]
      /\ \A k \in 1..Len(inbox') : k + 1 \in 1..Len(inbox) /\ inbox'[k] = inbox[k + 1]
  OBVIOUS
<1>2. KnockOf(e) # ByeOf(e)
  BY KnocksAndByes
<1> SUFFICES ASSUME ~stray, NEW k \in 1..Len(inbox'), inbox'[k] = ByeOf(e)
             PROVE  \/ \E j \in 1..Len(inbox') :
                          /\ j < k /\ inbox'[j] = KnockOf(e)
                          /\ \A l \in 1..Len(inbox') : j < l /\ l < k => inbox'[l] # ByeOf(e)
                    \/ /\ Listed(e)' \/ Entering(e)'
                       /\ \A l \in 1..Len(inbox') : l < k => inbox'[l] # ByeOf(e)
  BY DEF InStep
<1>3. k + 1 \in 1..Len(inbox) /\ inbox[k + 1] = ByeOf(e)
  BY <1>1
<1>4. CASE \E j \in 1..Len(inbox) :
              /\ j < k + 1 /\ inbox[j] = KnockOf(e)
              /\ \A l \in 1..Len(inbox) : j < l /\ l < k + 1 => inbox[l] # ByeOf(e)
  <2>1. PICK j \in 1..Len(inbox) :
              /\ j < k + 1 /\ inbox[j] = KnockOf(e)
              /\ \A l \in 1..Len(inbox) : j < l /\ l < k + 1 => inbox[l] # ByeOf(e)
    BY <1>4
  <2>2. \A l \in 1..Len(inbox') : j < l + 1 /\ l < k => inbox'[l] # ByeOf(e)
    BY <1>1, <2>1
  <2>3. CASE j = 1
    <3>1. \A l \in 1..Len(inbox') : l < k => inbox'[l] # ByeOf(e)
      BY <2>2, <2>3
    <3> QED BY <1>1, <2>1, <2>3, <3>1
  <2>4. CASE j # 1
    <3>1. j - 1 \in 1..Len(inbox') /\ j - 1 < k /\ inbox'[j - 1] = KnockOf(e)
      BY <1>1, <2>1, <2>4
    <3> QED BY <2>2, <3>1
  <2> QED BY <2>3, <2>4
<1>5. CASE /\ Listed(e) \/ Entering(e)
           /\ \A l \in 1..Len(inbox) : l < k + 1 => inbox[l] # ByeOf(e)
  <2>1. Head(inbox) # ByeOf(e)
    BY <1>1, <1>5
  <2>2. \A l \in 1..Len(inbox') : l < k => inbox'[l] # ByeOf(e)
    BY <1>1, <1>5
  <2> QED BY <1>5, <2>1, <2>2
<1> QED BY <1>3, <1>4, <1>5 DEF InStep

LEMMA QueueKnock ==
    ASSUME QueueInv, SysInv, NEW d \in FromAddrs, GotKnock(d), pc = "idle", i' = 1,
           inbox # <<>>, Head(inbox) = KnockOf(d), inbox' = Tail(inbox), stray' = stray,
           \A e \in FromAddrs : Same(e)
    PROVE  QueueInv'
<1> USE HearingKept
<1>1. /\ cur = NoMsg /\ cur' = KnockOf(d) /\ pc' = "announce" /\ peers' = peers
      /\ cur \in Said \cup {NoMsg} /\ inbox \in Seq(Said)
      /\ \A e \in FromAddrs : /\ cur # KnockOf(e) /\ cur # ByeOf(e) /\ cur' # ByeOf(e)
                              /\ cur' = KnockOf(e) <=> e = d
                              /\ Head(inbox) = KnockOf(e) <=> e = d
                              /\ Head(inbox) # ByeOf(e)
      /\ \A k \in 1..Len(peers) : k >= 1 /\ ~(k < 1)
  BY KnocksAndByes DEF GotKnock, SysInv, SysTypes, HInv, CurMatches
<1>2. ASSUME NEW e \in FromAddrs
      PROVE  /\ KnockComes(e) => KnockComes(e)' \/ (e = d /\ Never(inbox, ByeOf(e))')
             /\ ByeComes(e) => ByeComes(e)'
             /\ Never(inbox, KnockOf(e)) => Never(inbox, KnockOf(e))' /\ e # d
             /\ Never(inbox, ByeOf(e)) => Never(inbox, ByeOf(e))'
             /\ Once(inbox, KnockOf(e)) => /\ Once(inbox, KnockOf(e))'
                                           /\ e = d => Never(inbox, KnockOf(e))'
             /\ Listed(e)' <=> Listed(e)
             /\ HasSlot(e)' <=> HasSlot(e)
             /\ ~Entering(e) /\ (Entering(e)' <=> e = d)
             /\ Unknown(e)' <=> Unknown(e) /\ e # d
             /\ Unborn(e) => Unborn(e)' /\ e # d
             /\ \A k : ListedAt(e, k)' <=> ListedAt(e, k)
  <2>1. /\ KnockComes(e) => KnockComes(e)' \/ (e = d /\ Never(inbox, ByeOf(e))')
        /\ ByeComes(e) => ByeComes(e)'
        /\ Never(inbox, KnockOf(e)) => Never(inbox, KnockOf(e))' /\ e # d
        /\ Never(inbox, ByeOf(e)) => Never(inbox, ByeOf(e))'
        /\ Once(inbox, KnockOf(e)) => /\ Once(inbox, KnockOf(e))'
                                      /\ e = d => Never(inbox, KnockOf(e))'
    BY <1>1, InboxTail
  <2> QED BY <1>1, <2>1 DEF Listed, ListedAt, HasSlot, Entering, Unknown, Unborn
<1>3. \A e \in FromAddrs : OnlineListed(e)' /\ OthersNot(e)'
  BY <1>1, <1>2 DEF QueueInv, OnlineListed, OthersNot
<1>4. \A e \in FromAddrs : InStep(e)'
  BY <1>1, <1>2, InStepTail DEF QueueInv
<1>5. ASSUME NEW e \in FromAddrs PROVE Staged(e)'
  <2>1. Staged(e)
    BY DEF QueueInv
  <2>2. /\ starts'[e] = 0 => phase'[e] = "off"
        /\ starts'[e] = 0 \/ IsNew(e)' => Unborn(e)'
    BY <1>1, <1>2, <2>1 DEF Staged
  <2>3. First(e)' =>
          /\ Never(inbox, ByeOf(e))' /\ cur' # ByeOf(e)
          /\ \/ Unknown(e)' /\ Once(inbox, KnockOf(e))'
             \/ Never(inbox, KnockOf(e))' /\ cur' = KnockOf(e) /\ ~HasSlot(e)'
             \/ Never(inbox, KnockOf(e))' /\ cur' # KnockOf(e) /\ Listed(e)'
    <3> SUFFICES ASSUME First(e)
                 PROVE  /\ Never(inbox, ByeOf(e))' /\ cur' # ByeOf(e)
                        /\ \/ Unknown(e)' /\ Once(inbox, KnockOf(e))'
                           \/ Never(inbox, KnockOf(e))' /\ cur' = KnockOf(e) /\ ~HasSlot(e)'
                           \/ Never(inbox, KnockOf(e))' /\ cur' # KnockOf(e) /\ Listed(e)'
      BY <1>1
    <3>1. /\ Never(inbox, ByeOf(e))
          /\ \/ Unknown(e) /\ Once(inbox, KnockOf(e))
             \/ Never(inbox, KnockOf(e)) /\ Listed(e)
      BY <1>1, <2>1 DEF Staged
    <3>2. Unknown(e) => ~HasSlot(e)
      BY DEF Unknown
    <3> QED BY <1>1, <1>2, <3>1, <3>2
  <2>4. First(e)' \/ IsNew(e)' =>
          /\ ~HasSlot(e)' => arriving'[e] = <<>> /\ table'[e] = <<>>
          /\ Never(arriving'[e], OnlineTo(e, e))
          /\ \A h \in 1..Len(table'[e]) : table'[e][h].fromaddr # e
    BY <1>1, <1>2, <2>1 DEF Staged
  <2> QED BY <1>1, <2>2, <2>3, <2>4 DEF Staged
<1>6. \A e \in FromAddrs : FirstHears(e)'
  BY <1>1, <1>2 DEF QueueInv, FirstHears
<1>7. ASSUME NEW c \in FromAddrs, NEW e \in FromAddrs, c # e PROVE KnowsOnline(c, e)'
  <2> SUFFICES ASSUME c \in prompt, phase[c] = "on", phase[e] = "on"
               PROVE  \/ KnockComes(c)' \/ KnockComes(e)'
                      \/ AnnounceDue(c, e)' \/ IntroduceDue(c, e)' \/ HeardOnline(c, e)'
    BY <1>1 DEF KnowsOnline
  <2>1. KnockComes(c) \/ KnockComes(e) \/ HeardOnline(c, e)
    <3>1. ~AnnounceDue(c, e) /\ ~IntroduceDue(c, e)
      BY DEF AnnounceDue, IntroduceDue
    <3> QED BY <1>7, <3>1 DEF QueueInv, KnowsOnline
  <2>2. CASE c = d
    BY <1>1, <2>2 DEF IntroduceDue
  <2>3. CASE e = d
    <3>1. KnockComes(c)' \/ Listed(c)
      BY <1>2, <1>7, <2>3 DEF QueueInv, OnlineListed
    <3>2. Listed(c) => AnnounceDue(c, e)'
      BY <1>1, <1>2, <2>3 DEF Listed, ListedAt, AnnounceDue
    <3> QED BY <3>1, <3>2
  <2>4. CASE c # d /\ e # d
    BY <1>1, <1>2, <2>1, <2>4
  <2> QED BY <2>2, <2>3, <2>4
<1>8. ASSUME NEW c \in FromAddrs, NEW e \in FromAddrs, c # e PROVE KnowsNobodyElse(c, e)'
  <2>1. ~FarewellDue(c, e)
    BY DEF FarewellDue
  <2> QED BY <1>1, <1>2, <1>8, <2>1 DEF QueueInv, KnowsNobodyElse
<1> QED BY <1>3, <1>4, <1>5, <1>6, <1>7, <1>8, PartsOfQueueInv DEF Parts

LEMMA QueueBye ==
    ASSUME QueueInv, SysInv, NEW d \in FromAddrs, GotBye(d), pc = "idle", i' = 1,
           inbox # <<>>, Head(inbox) = ByeOf(d), inbox' = Tail(inbox), stray' = stray,
           \A e \in FromAddrs : Same(e)
    PROVE  QueueInv'
<1> USE HearingKept
<1>1. /\ cur = NoMsg /\ cur' = ByeOf(d) /\ pc' \in {"farewell", "aborted"}
      /\ cur \in Said \cup {NoMsg} /\ inbox \in Seq(Said)
      /\ \A e \in FromAddrs : /\ cur # KnockOf(e) /\ cur # ByeOf(e) /\ cur' # KnockOf(e)
                              /\ cur' = ByeOf(e) <=> e = d
                              /\ Head(inbox) = ByeOf(e) <=> e = d
                              /\ Head(inbox) # KnockOf(e)
  BY KnocksAndByes DEF GotBye, SysInv, SysTypes, HInv, CurMatches
<1>2. /\ ~Listed(d)' /\ (\A e \in FromAddrs : e # d => (Listed(e)' <=> Listed(e)))
      /\ \A e \in FromAddrs : HasSlot(e)' <=> HasSlot(e)
      /\ \A e \in FromAddrs : e # d => \A k \in 1..Len(peers') : ListedAt(e, k)' => ListedAt(e, k)
      /\ \A e \in FromAddrs : Listed(e) /\ e # d =>
            pc' = "farewell" /\ \E k \in 1..Len(peers') : k >= i' /\ ListedAt(e, k)'
  <2>1. /\ Len(peers') = Len(peers) /\ Len(peers) \in Nat
        /\ \A k \in 1..Len(peers) :
              /\ peers'[k].fromaddr = peers[k].fromaddr
              /\ peers[k].fromaddr = d => ~peers'[k].active
              /\ peers[k].fromaddr # d => peers'[k] = peers[k]
        /\ pc' = "aborted" => Len(peers') = 0
    BY DEF GotBye
  <2>2. /\ ~Listed(d)' /\ (\A e \in FromAddrs : e # d => (Listed(e)' <=> Listed(e)))
        /\ \A e \in FromAddrs : HasSlot(e)' <=> HasSlot(e)
    BY <2>1 DEF Listed, ListedAt, HasSlot
  <2>3. ASSUME NEW e \in FromAddrs, e # d, Listed(e)
        PROVE  pc' = "farewell" /\ \E k \in 1..Len(peers') : k >= i' /\ ListedAt(e, k)'
    <3>1. PICK k \in 1..Len(peers) : ListedAt(e, k)
      BY <2>3 DEF Listed
    <3>2. k \in 1..Len(peers') /\ k >= i' /\ ListedAt(e, k)'
      BY <2>1, <2>3, <3>1 DEF ListedAt
    <3>3. pc' # "aborted"
      BY <2>1, <3>1
    <3> QED BY <1>1, <3>2, <3>3
  <2>4. \A e \in FromAddrs : e # d => \A k \in 1..Len(peers') : ListedAt(e, k)' => ListedAt(e, k)
    BY <2>1 DEF ListedAt
  <2> QED BY <2>2, <2>3, <2>4
<1>3. ASSUME NEW e \in FromAddrs
      PROVE  /\ KnockComes(e) => KnockComes(e)'
             /\ ByeComes(e) => ByeComes(e)' \/ (e = d /\ Never(inbox, KnockOf(e))')
             /\ Never(inbox, KnockOf(e)) => Never(inbox, KnockOf(e))'
             /\ Never(inbox, ByeOf(e)) => Never(inbox, ByeOf(e))' /\ e # d
             /\ Once(inbox, KnockOf(e)) => Once(inbox, KnockOf(e))'
             /\ ~Entering(e) /\ ~Entering(e)'
             /\ Unknown(e)' <=> Unknown(e)
             /\ Unborn(e) => Unborn(e)'
  <2>1. /\ KnockComes(e) => KnockComes(e)'
        /\ ByeComes(e) => ByeComes(e)' \/ (e = d /\ Never(inbox, KnockOf(e))')
        /\ Never(inbox, KnockOf(e)) => Never(inbox, KnockOf(e))'
        /\ Never(inbox, ByeOf(e)) => Never(inbox, ByeOf(e))' /\ e # d
        /\ Once(inbox, KnockOf(e)) => Once(inbox, KnockOf(e))'
    BY <1>1, InboxTail
  <2> QED BY <1>1, <1>2, <2>1 DEF Entering, Unknown, Unborn
<1>4. \A e \in FromAddrs : OnlineListed(e)' /\ OthersNot(e)'
  BY <1>1, <1>2, <1>3 DEF QueueInv, OnlineListed, OthersNot
<1>5. \A e \in FromAddrs : InStep(e)'
  BY <1>1, <1>2, <1>3, InStepTail DEF QueueInv
<1>6. \A e \in FromAddrs : Staged(e)'
  BY <1>1, <1>2, <1>3 DEF QueueInv, Staged
<1>7. ASSUME NEW e \in FromAddrs PROVE FirstHears(e)'
  <2>1. FirstHears(e)
    BY DEF QueueInv
  <2>2. ASSUME ~stray PROVE Listed(d)
    <3>1. 1 \in 1..Len(inbox) /\ inbox[1] = ByeOf(d) /\ \A j \in 1..Len(inbox) : ~(j < 1)
      BY <1>1
    <3> QED BY <1>3, <2>2, <3>1 DEF QueueInv, InStep
  <2>3. ASSUME starts[e] = 1, e \in prompt, ~stray, First(e),
               NEW k \in 1..Len(peers'), ListedAt(e, k)'
        PROVE  HeardSome(e)
    <3>1. e # d
      BY <1>2, <2>3 DEF Listed
    <3>2. Listed(e)
      BY <1>2, <2>3, <3>1 DEF Listed
    <3> QED BY <2>1, <2>2, <2>3, <3>1, <3>2 DEF FirstHears
  <2>4. Listed(e)' /\ (\E f \in FromAddrs : f # e /\ Listed(f)') =>
           Listed(e) /\ (\E f \in FromAddrs : f # e /\ Listed(f))
    BY <1>2
  <2> QED BY <1>1, <2>1, <2>3, <2>4 DEF FirstHears
<1>8. ASSUME NEW c \in FromAddrs, NEW e \in FromAddrs, c # e PROVE KnowsOnline(c, e)'
  <2>1. ~AnnounceDue(c, e) /\ ~IntroduceDue(c, e)
    BY DEF AnnounceDue, IntroduceDue
  <2> QED BY <1>1, <1>3, <1>8, <2>1 DEF QueueInv, KnowsOnline
<1>9. ASSUME NEW c \in FromAddrs, NEW e \in FromAddrs, c # e PROVE KnowsNobodyElse(c, e)'
  <2> SUFFICES ASSUME First(c), phase[e] # "on", e \notin silent
               PROVE  ByeComes(e)' \/ FarewellDue(c, e)' \/ HeardNotOnline(c, e)'
    BY <1>1 DEF KnowsNobodyElse
  <2>1. ByeComes(e) \/ HeardNotOnline(c, e)
    <3>1. ~FarewellDue(c, e)
      BY DEF FarewellDue
    <3> QED BY <1>9, <3>1 DEF QueueInv, KnowsNobodyElse
  <2>2. CASE ByeComes(e) /\ e = d
    <3>1. CASE Listed(c)
      BY <1>1, <1>2, <1>9, <2>2, <3>1 DEF FarewellDue
    <3>2. CASE ~Listed(c)
      <4>1. ~HasSlot(c)
        BY <1>1, <3>2 DEF QueueInv, Staged, Unknown
      <4>2. arriving[c] = <<>> /\ table[c] = <<>>
        BY <4>1 DEF QueueInv, Staged
      <4>3. HeardNotOnline(c, e)
        BY <4>2, LastEmpty DEF HeardNotOnline, SaysNotOnline
      <4> QED BY <1>1, <4>3
    <3> QED BY <3>1, <3>2
  <2> QED BY <1>1, <1>3, <2>1, <2>2
<1> QED BY <1>4, <1>5, <1>6, <1>7, <1>8, <1>9, PartsOfQueueInv DEF Parts
----------------------------------------------------------------------------
(* A client says KNOCK or BYE *)

LEMMA InboxAppend ==
    ASSUME inbox \in Seq(Said), NEW m, inbox' = Append(inbox, m), NEW e \in FromAddrs
    PROVE  /\ m = KnockOf(e) => KnockComes(e)'
           /\ m = ByeOf(e) => ByeComes(e)'
           /\ m # ByeOf(e) /\ KnockComes(e) => KnockComes(e)'
           /\ m # KnockOf(e) /\ ByeComes(e) => ByeComes(e)'
           /\ m # KnockOf(e) /\ Never(inbox, KnockOf(e)) => Never(inbox, KnockOf(e))'
           /\ m # ByeOf(e) /\ Never(inbox, ByeOf(e)) => Never(inbox, ByeOf(e))'
           /\ m # KnockOf(e) /\ Once(inbox, KnockOf(e)) => Once(inbox, KnockOf(e))'
           /\ Never(inbox, KnockOf(e)) => Once(inbox, KnockOf(e))'
<1>1. /\ m = KnockOf(e) => KnockComes(e)'
      /\ m = ByeOf(e) => ByeComes(e)'
      /\ m # ByeOf(e) /\ KnockComes(e) => KnockComes(e)'
      /\ m # KnockOf(e) /\ ByeComes(e) => ByeComes(e)'
  BY LastAppend, KnocksAndByes DEF KnockComes, ByeComes
<1>2. /\ m # KnockOf(e) /\ Never(inbox, KnockOf(e)) => Never(inbox, KnockOf(e))'
      /\ m # ByeOf(e) /\ Never(inbox, ByeOf(e)) => Never(inbox, ByeOf(e))'
  BY LastAppend
<1>3. /\ Len(inbox) \in Nat /\ Len(inbox') = Len(inbox) + 1 /\ inbox'[Len(inbox) + 1] = m
      /\ \A k \in 1..Len(inbox) : inbox'[k] = inbox[k]
  OBVIOUS
<1>4. m # KnockOf(e) /\ Once(inbox, KnockOf(e)) => Once(inbox', KnockOf(e))
  BY <1>3 DEF Once
<1>5. Never(inbox, KnockOf(e)) => Once(inbox', KnockOf(e))
  BY <1>3 DEF Once, Never
<1> QED BY <1>1, <1>2, <1>4, <1>5

\* What is said last changes nothing for a BYE before it; a BYE has a KNOCK before it.
LEMMA InStepAppend ==
    ASSUME inbox \in Seq(Said), NEW m, inbox' = Append(inbox, m), UNCHANGED handlerVars,
           stray' \in BOOLEAN, stray => stray', NEW e \in FromAddrs, InStep(e),
           m = ByeOf(e) /\ ~stray' =>
              KnockComes(e) \/ (Never(inbox, ByeOf(e)) /\ (Listed(e) \/ Entering(e)))
    PROVE  InStep(e)'
<1>1. /\ Len(inbox) \in Nat /\ Len(inbox') = Len(inbox) + 1 /\ inbox'[Len(inbox) + 1] = m
      /\ \A k \in 1..Len(inbox) : inbox'[k] = inbox[k]
  OBVIOUS
<1>2. /\ Listed(e)' <=> Listed(e)
      /\ Entering(e)' <=> Entering(e)
  BY DEF Listed, ListedAt, Entering, handlerVars
<1> SUFFICES ASSUME ~stray', NEW k \in 1..Len(inbox'), inbox'[k] = ByeOf(e)
             PROVE  \/ \E j \in 1..Len(inbox') :
                          /\ j < k /\ inbox'[j] = KnockOf(e)
                          /\ \A l \in 1..Len(inbox') : j < l /\ l < k => inbox'[l] # ByeOf(e)
                    \/ /\ Listed(e) \/ Entering(e)
                       /\ \A l \in 1..Len(inbox') : l < k => inbox'[l] # ByeOf(e)
  BY <1>2 DEF InStep
<1>3. CASE k = Len(inbox) + 1
  <2>1. \A l \in 1..Len(inbox') : l < k => l \in 1..Len(inbox) /\ inbox'[l] = inbox[l]
    BY <1>1, <1>3
  <2>2. CASE KnockComes(e)
    <3>1. PICK j \in 1..Len(inbox) : inbox[j] = KnockOf(e) /\ \A l \in 1..Len(inbox) : l > j => inbox[l] # ByeOf(e)
      BY <2>2 DEF KnockComes, LastIs
    <3>2. j \in 1..Len(inbox') /\ j < k /\ inbox'[j] = KnockOf(e)
      BY <1>1, <1>3, <3>1
    <3>3. \A l \in 1..Len(inbox') : j < l /\ l < k => inbox'[l] # ByeOf(e)
      BY <2>1, <3>1
    <3> QED BY <3>2, <3>3
  <2>3. CASE Never(inbox, ByeOf(e)) /\ (Listed(e) \/ Entering(e))
    BY <2>1, <2>3 DEF Never
  <2> QED BY <1>1, <1>3, <2>2, <2>3
<1>4. CASE k # Len(inbox) + 1
  <2>1. /\ k \in 1..Len(inbox) /\ inbox[k] = ByeOf(e) /\ ~stray
        /\ \A l \in 1..Len(inbox') : l < k => l \in 1..Len(inbox) /\ inbox'[l] = inbox[l]
    BY <1>1, <1>4
  <2>2. CASE \E j \in 1..Len(inbox) :
                /\ j < k /\ inbox[j] = KnockOf(e)
                /\ \A l \in 1..Len(inbox) : j < l /\ l < k => inbox[l] # ByeOf(e)
    BY <1>1, <2>1, <2>2
  <2>3. CASE /\ Listed(e) \/ Entering(e)
             /\ \A l \in 1..Len(inbox) : l < k => inbox[l] # ByeOf(e)
    BY <2>1, <2>3
  <2> QED BY <2>1, <2>2, <2>3 DEF InStep
<1> QED BY <1>3, <1>4

LEMMA QueueSendKnock ==
    ASSUME SysInv, QueueInv, NEW c \in FromAddrs, SendKnock(c) PROVE QueueInv'
<1>1. /\ UNCHANGED <<handlerVars, stray, silent>>
      /\ phase[c] = "up" /\ phase'[c] = "on" /\ starts'[c] = starts[c]
      /\ table'[c] = table[c] /\ arriving'[c] = arriving[c]
      /\ inbox \in Seq(Said) /\ inbox' = Append(inbox, KnockOf(c)) /\ stray' \in BOOLEAN
      /\ \A e \in FromAddrs : e # c => Same(e)
      /\ cur' = cur /\ pc' = pc /\ i' = i /\ peers' = peers
  <2>1. inbox' = Append(inbox, KnockOf(c)) /\ \A e \in FromAddrs : e # c => Same(e)
    BY SysInvSendKnock
  <2> QED BY <2>1 DEF SendKnock, tableVars, SysInv, SysTypes, handlerVars
<1>2. ASSUME NEW e \in FromAddrs
      PROVE  /\ KnockComes(c)' /\ (KnockComes(e) => KnockComes(e)')
             /\ Never(inbox, ByeOf(e)) => Never(inbox, ByeOf(e))'
             /\ e # c => /\ ByeComes(e) => ByeComes(e)'
                         /\ Never(inbox, KnockOf(e)) => Never(inbox, KnockOf(e))'
                         /\ Once(inbox, KnockOf(e)) => Once(inbox, KnockOf(e))'
             /\ Never(inbox, KnockOf(e)) => Once(inbox, KnockOf(e))'
  <2>1. KnockOf(c) # ByeOf(e) /\ (e # c => KnockOf(c) # KnockOf(e))
    BY KnocksAndByes
  <2>2. KnockComes(c)'
    BY <1>1, InboxAppend
  <2> QED BY <1>1, <2>1, <2>2, InboxAppend
<1>3. ASSUME NEW e \in FromAddrs
      PROVE  /\ Listed(e)' <=> Listed(e)
             /\ HasSlot(e)' <=> HasSlot(e)
             /\ Entering(e)' <=> Entering(e)
             /\ Unknown(e)' <=> Unknown(e)
             /\ \A k : ListedAt(e, k)' <=> ListedAt(e, k)
             /\ \A d : /\ AnnounceDue(e, d)' <=> AnnounceDue(e, d)
                       /\ IntroduceDue(e, d)' <=> IntroduceDue(e, d)
                       /\ FarewellDue(e, d)' <=> FarewellDue(e, d)
  BY <1>1 DEF Listed, ListedAt, HasSlot, Entering, Unknown, AnnounceDue, IntroduceDue, FarewellDue
<1>4. ASSUME NEW e \in FromAddrs, e # c
      PROVE  /\ phase'[e] = phase[e] /\ starts'[e] = starts[e]
             /\ table'[e] = table[e] /\ arriving'[e] = arriving[e]
             /\ e \in prompt' <=> e \in prompt
             /\ First(e)' <=> First(e)
             /\ IsNew(e)' <=> IsNew(e)
             /\ HeardSome(e)' <=> HeardSome(e)
             /\ \A d : HeardOnline(e, d)' <=> HeardOnline(e, d)
             /\ \A d : HeardNotOnline(e, d)' <=> HeardNotOnline(e, d)
  <2>1. cur \in Said \cup {NoMsg}
    BY DEF SysInv, SysTypes
  <2> QED BY <1>1, <1>4, <2>1, HearingKept
<1>5. Staged(c)
  BY DEF QueueInv
<1>6. ASSUME starts[c] = 1
      PROVE  /\ IsNew(c) /\ Unborn(c) /\ Unknown(c) /\ ~HasSlot(c) /\ ~Listed(c) /\ cur # KnockOf(c)
             /\ arriving[c] = <<>> /\ table[c] = <<>>
  <2>1. IsNew(c) /\ Unborn(c)
    BY <1>1, <1>5, <1>6 DEF IsNew, Staged
  <2>2. Unknown(c) /\ ~HasSlot(c) /\ ~Listed(c) /\ cur # KnockOf(c)
    BY <2>1 DEF Unborn, Unknown, HasSlot, Listed, ListedAt
  <2> QED BY <1>5, <2>1, <2>2 DEF Staged
<1>7. \A e \in FromAddrs : OnlineListed(e)' /\ OthersNot(e)'
  BY <1>1, <1>2, <1>3, <1>4 DEF QueueInv, OnlineListed, OthersNot
<1>8. ASSUME NEW e \in FromAddrs PROVE InStep(e)'
  <2>1. KnockOf(c) # ByeOf(e)
    BY KnocksAndByes
  <2> QED BY <1>1, <2>1, InStepAppend DEF QueueInv
<1>9. ASSUME NEW e \in FromAddrs PROVE Staged(e)'
  <2>1. CASE e = c
    <3>1. starts[c] # 0 /\ ~IsNew(c)' /\ (First(c)' => starts[c] = 1)
      BY <1>1, <1>5 DEF Staged, IsNew, First
    <3>2. ASSUME starts[c] = 1
          PROVE  /\ Never(inbox, ByeOf(c))' /\ cur' # ByeOf(c)
                 /\ Unknown(c)' /\ Once(inbox, KnockOf(c))'
                 /\ Never(arriving'[c], OnlineTo(c, c))
                 /\ \A h \in 1..Len(table'[c]) : table'[c][h].fromaddr # c
      BY <1>1, <1>2, <1>3, <1>5, <1>6, <3>2 DEF Unborn, Staged
    <3> QED BY <1>1, <1>6, <2>1, <3>1, <3>2 DEF Staged
  <2>2. CASE e # c
    <3>1. Staged(e)
      BY DEF QueueInv
    <3>2. Unborn(e) => Unborn(e)'
      BY <1>1, <1>2, <1>3, <2>2 DEF Unborn
    <3> QED BY <1>1, <1>2, <1>3, <1>4, <2>2, <3>1, <3>2 DEF Staged
  <2> QED BY <2>1, <2>2
<1>10. ASSUME NEW e \in FromAddrs PROVE FirstHears(e)'
  <2>1. CASE e = c
    <3>1. ASSUME starts[c] = 1 PROVE \A k \in 1..Len(peers) : ~ListedAt(c, k)
      BY <1>6, <3>1 DEF Listed
    <3> QED BY <1>1, <1>3, <1>6, <2>1, <3>1 DEF FirstHears
  <2>2. CASE e # c
    BY <1>1, <1>3, <1>4, <2>2 DEF QueueInv, FirstHears
  <2> QED BY <2>1, <2>2
<1>11. \A a, b \in FromAddrs : a # b => KnowsOnline(a, b)'
  BY <1>1, <1>2, <1>3, <1>4 DEF QueueInv, KnowsOnline
<1>12. ASSUME NEW a \in FromAddrs, NEW b \in FromAddrs, a # b PROVE KnowsNobodyElse(a, b)'
  <2>1. CASE a = c
    <3>1. First(c)' => starts[c] = 1
      BY <1>1 DEF First
    <3>2. starts[c] = 1 => HeardNotOnline(c, b)'
      BY <1>1, <1>6, LastEmpty DEF HeardNotOnline, SaysNotOnline
    <3> QED BY <2>1, <3>1, <3>2 DEF KnowsNobodyElse
  <2>2. CASE a # c /\ b # c
    BY <1>1, <1>2, <1>3, <1>4, <2>2 DEF QueueInv, KnowsNobodyElse
  <2>3. CASE b = c
    BY <1>1, <2>3 DEF KnowsNobodyElse
  <2> QED BY <2>1, <2>2, <2>3
<1> QED BY <1>7, <1>8, <1>9, <1>10, <1>11, <1>12, PartsOfQueueInv DEF Parts

LEMMA QueueQuit ==
    ASSUME SysInv, QueueInv, NEW c \in FromAddrs, Quit(c) PROVE QueueInv'
<1>1. /\ UNCHANGED <<handlerVars, silent, starts>>
      /\ phase[c] \in {"up", "on"} /\ phase'[c] = "off"
      /\ inbox \in Seq(Said) /\ inbox' = Append(inbox, ByeOf(c))
      /\ stray' \in BOOLEAN /\ (stray => stray') /\ (phase[c] = "up" => stray')
      /\ \A e \in FromAddrs : e # c => Same(e)
      /\ cur' = cur /\ pc' = pc /\ i' = i /\ peers' = peers
  <2>1. inbox' = Append(inbox, ByeOf(c)) /\ phase'[c] = "off" /\ \A e \in FromAddrs : e # c => Same(e)
    BY SysInvQuit
  <2> QED BY <2>1 DEF Quit, Ends, Running, SysInv, SysTypes, handlerVars
<1>2. ASSUME NEW e \in FromAddrs
      PROVE  /\ ByeComes(c)' /\ (ByeComes(e) => ByeComes(e)')
             /\ Never(inbox, KnockOf(e)) => Never(inbox, KnockOf(e))'
             /\ e # c => /\ KnockComes(e) => KnockComes(e)'
                         /\ Never(inbox, ByeOf(e)) => Never(inbox, ByeOf(e))'
             /\ Once(inbox, KnockOf(e)) => Once(inbox, KnockOf(e))'
  <2>1. ByeOf(c) # KnockOf(e) /\ (e # c => ByeOf(c) # ByeOf(e))
    BY KnocksAndByes
  <2>2. ByeComes(c)'
    BY <1>1, InboxAppend
  <2> QED BY <1>1, <2>1, <2>2, InboxAppend
<1>3. ASSUME NEW e \in FromAddrs
      PROVE  /\ Listed(e)' <=> Listed(e)
             /\ HasSlot(e)' <=> HasSlot(e)
             /\ Entering(e)' <=> Entering(e)
             /\ Unknown(e)' <=> Unknown(e)
             /\ \A k : ListedAt(e, k)' <=> ListedAt(e, k)
             /\ \A d : /\ AnnounceDue(e, d)' <=> AnnounceDue(e, d)
                       /\ IntroduceDue(e, d)' <=> IntroduceDue(e, d)
                       /\ FarewellDue(e, d)' <=> FarewellDue(e, d)
  BY <1>1 DEF Listed, ListedAt, HasSlot, Entering, Unknown, AnnounceDue, IntroduceDue, FarewellDue
<1>4. ASSUME NEW e \in FromAddrs, e # c
      PROVE  /\ phase'[e] = phase[e] /\ starts'[e] = starts[e]
             /\ table'[e] = table[e] /\ arriving'[e] = arriving[e]
             /\ e \in prompt' <=> e \in prompt
             /\ First(e)' <=> First(e)
             /\ IsNew(e)' <=> IsNew(e)
             /\ HeardSome(e)' <=> HeardSome(e)
             /\ \A d : HeardOnline(e, d)' <=> HeardOnline(e, d)
             /\ \A d : HeardNotOnline(e, d)' <=> HeardNotOnline(e, d)
  <2>1. cur \in Said \cup {NoMsg}
    BY DEF SysInv, SysTypes
  <2> QED BY <1>1, <1>4, <2>1, HearingKept
<1>5. starts'[c] # 0 /\ ~First(c)' /\ ~IsNew(c)'
  BY <1>1 DEF QueueInv, Staged, First, IsNew
<1>6. \A e \in FromAddrs : OnlineListed(e)' /\ OthersNot(e)'
  BY <1>1, <1>2, <1>3, <1>4 DEF QueueInv, OnlineListed, OthersNot
<1>7. ASSUME NEW e \in FromAddrs PROVE InStep(e)'
  <2>1. ByeOf(c) = ByeOf(e) => e = c
    BY KnocksAndByes
  <2>2. ~stray' => KnockComes(c) \/ (Never(inbox, ByeOf(c)) /\ (Listed(c) \/ Entering(c)))
    BY <1>1 DEF QueueInv, OnlineListed
  <2> QED BY <1>1, <2>1, <2>2, InStepAppend DEF QueueInv
<1>8. ASSUME NEW e \in FromAddrs PROVE Staged(e)'
  <2>1. CASE e = c
    BY <1>5, <2>1 DEF Staged
  <2>2. CASE e # c
    <3>1. Staged(e)
      BY DEF QueueInv
    <3>2. Unborn(e) => Unborn(e)'
      BY <1>1, <1>2, <1>3, <2>2 DEF Unborn
    <3> QED BY <1>1, <1>2, <1>3, <1>4, <2>2, <3>1, <3>2 DEF Staged
  <2> QED BY <2>1, <2>2
<1>9. \A e \in FromAddrs : FirstHears(e)'
  BY <1>1, <1>3, <1>4, <1>5 DEF QueueInv, FirstHears
<1>10. \A a, b \in FromAddrs : a # b => KnowsOnline(a, b)'
  BY <1>1, <1>2, <1>3, <1>4 DEF QueueInv, KnowsOnline
<1>11. \A a, b \in FromAddrs : a # b => KnowsNobodyElse(a, b)'
  BY <1>1, <1>2, <1>3, <1>4, <1>5 DEF QueueInv, KnowsNobodyElse
<1> QED BY <1>6, <1>7, <1>8, <1>9, <1>10, <1>11, PartsOfQueueInv DEF Parts
----------------------------------------------------------------------------
(* The tracker sends a notice *)

LEMMA SaysSent ==
    ASSUME NEW c \in FromAddrs, NEW e \in FromAddrs, NEW arr \in Seq(NoticesTo(c)), NEW n,
           NEW tbl, NEW calls, NEW rws
    PROVE  /\ n = OnlineTo(c, e) => SaysOnline(Append(arr, n), tbl, calls, rws, c, e)
           /\ n = OfflineTo(c, e) => SaysNotOnline(Append(arr, n), tbl, calls, rws, c, e)
           /\ n # OfflineTo(c, e) /\ SaysOnline(arr, tbl, calls, rws, c, e)
                => SaysOnline(Append(arr, n), tbl, calls, rws, c, e)
           /\ n # OnlineTo(c, e) /\ SaysNotOnline(arr, tbl, calls, rws, c, e)
                => SaysNotOnline(Append(arr, n), tbl, calls, rws, c, e)
<1> DEFINE on == OnlineTo(c, e)
           off == OfflineTo(c, e)
           arr2 == Append(arr, n)
<1>1. on # off
  BY NoticesDiffer
<1>2. /\ n = on => LastIs(arr2, on, off)
      /\ n = off => LastIs(arr2, off, on)
      /\ n # off => /\ LastIs(arr, on, off) => LastIs(arr2, on, off)
                    /\ Never(arr, off) => Never(arr2, off)
      /\ n # on => /\ LastIs(arr, off, on) => LastIs(arr2, off, on)
                   /\ Never(arr, on) => Never(arr2, on)
  BY <1>1, LastAppend
<1> HIDE DEF on, off, arr2
<1> QED BY <1>2 DEF SaysOnline, SaysNotOnline, on, off, arr2

LEMMA QueueSendNotice ==
    ASSUME SysInv, QueueInv, NEW c \in FromAddrs, NEW d \in FromAddrs, SentTo(c, d),
           i \in 1..Len(peers), i' = i + 1, peers[i].active, InLoop,
           UNCHANGED <<inbox, phase, listening, tableVars, historyVars>>, UNCHANGED <<peers, pc, cur>>
    PROVE  QueueInv'
<1>1. /\ inbox' = inbox /\ phase' = phase /\ listening' = listening /\ starts' = starts
      /\ table' = table /\ idle' = idle /\ rows' = rows
      /\ prompt' = prompt /\ silent' = silent /\ stray' = stray
      /\ peers' = peers /\ pc' = pc /\ cur' = cur /\ i' = i + 1
      /\ \A e \in FromAddrs : e # c => arriving'[e] = arriving[e]
      /\ RoundFor(c, d) /\ MemoryOK(c) /\ arriving[c] \in Seq(NoticesTo(c))
      /\ c \in listening => arriving'[c] = Append(arriving[c], Due)
      /\ c \notin listening => arriving'[c] = arriving[c]
  BY DEF SentTo, tableVars, historyVars, SysInv, MemoryOK
<1>2. /\ pc \in {"announce", "introduce", "farewell"} /\ peers[i].active
      /\ pc = "announce" => cur = KnockOf(d) /\ peers[i].fromaddr = c /\ Due = OnlineTo(c, d)
      /\ pc = "introduce" => cur = KnockOf(c) /\ peers[i].fromaddr = d /\ Due = OnlineTo(c, d)
      /\ pc = "farewell" => cur = ByeOf(d) /\ peers[i].fromaddr = c /\ Due = OfflineTo(c, d)
  BY <1>1 DEF RoundFor, InLoop
<1>3. /\ \A e \in FromAddrs : /\ KnockOf(e) = KnockOf(d) => e = d
                              /\ KnockOf(e) = KnockOf(c) => e = c
                              /\ ByeOf(e) = ByeOf(d) => e = d
                              /\ ByeOf(d) # KnockOf(e)
      /\ \A e \in FromAddrs : OnlineTo(c, d) # OfflineTo(c, e) /\ OnlineTo(c, e) # OfflineTo(c, d)
      /\ \A e \in FromAddrs : OnlineTo(c, d) = OnlineTo(c, e) => d = e
      /\ \A e \in FromAddrs : OfflineTo(c, d) = OfflineTo(c, e) => d = e
  BY KnocksAndByes, NoticesDiffer
<1>4. /\ pc \in {"announce", "farewell"} => Listed(c) /\ HasSlot(c)
      /\ pc = "introduce" => Listed(d) /\ HasSlot(d)
  BY <1>2 DEF Listed, ListedAt, HasSlot
<1>5. ASSUME NEW e \in FromAddrs
      PROVE  /\ KnockComes(e)' <=> KnockComes(e)
             /\ ByeComes(e)' <=> ByeComes(e)
             /\ Never(inbox, KnockOf(e))' <=> Never(inbox, KnockOf(e))
             /\ Never(inbox, ByeOf(e))' <=> Never(inbox, ByeOf(e))
             /\ Once(inbox, KnockOf(e))' <=> Once(inbox, KnockOf(e))
             /\ Listed(e)' <=> Listed(e)
             /\ HasSlot(e)' <=> HasSlot(e)
             /\ Entering(e)' <=> Entering(e)
             /\ Unknown(e)' <=> Unknown(e)
             /\ Unborn(e)' <=> Unborn(e)
             /\ \A k : ListedAt(e, k)' <=> ListedAt(e, k)
             /\ First(e)' <=> First(e)
             /\ IsNew(e)' <=> IsNew(e)
  BY <1>1 DEF KnockComes, ByeComes, Listed, ListedAt, HasSlot, Entering, Unknown, Unborn, First, IsNew
<1>6. ASSUME First(c) \/ IsNew(c), pc # "farewell" PROVE d # c
  <2>1. Staged(c)
    BY DEF QueueInv
  <2>2. ~(cur = KnockOf(c) /\ HasSlot(c))
    BY <1>6, <2>1 DEF Staged, Unborn, Unknown
  <2> QED BY <1>2, <1>4, <1>6, <2>2
<1>7. \A e \in FromAddrs : OnlineListed(e)' /\ OthersNot(e)'
  BY <1>1, <1>5 DEF QueueInv, OnlineListed, OthersNot
<1>8. \A e \in FromAddrs : InStep(e)'
  BY <1>1, <1>5 DEF QueueInv, InStep
<1>9. ASSUME NEW e \in FromAddrs PROVE Staged(e)'
  <2>1. Staged(e)
    BY DEF QueueInv
  <2>2. CASE e # c
    BY <1>1, <1>5, <2>1, <2>2 DEF Staged
  <2>3. CASE e = c
    <3>1. HasSlot(c) \/ (pc = "introduce" /\ cur = KnockOf(c))
      BY <1>2, <1>4
    <3>2. ASSUME First(c) \/ IsNew(c) PROVE Never(arriving'[c], OnlineTo(c, c))
      <4>1. Due # OnlineTo(c, c)
        BY <1>2, <1>3, <1>6, <3>2
      <4>2. Never(arriving[c], OnlineTo(c, c))
        BY <2>1, <2>3, <3>2 DEF Staged
      <4>3. Never(Append(arriving[c], Due), OnlineTo(c, c))
        BY <1>1, <4>1, <4>2, LastAppend
      <4> QED BY <1>1, <4>2, <4>3
    <3> QED BY <1>1, <1>5, <2>1, <2>3, <3>1, <3>2 DEF Staged
  <2> QED BY <2>2, <2>3
<1>10. ASSUME NEW e \in FromAddrs PROVE FirstHears(e)'
  <2>1. FirstHears(e)
    BY DEF QueueInv
  <2>2. i \in Nat
    OBVIOUS
  <2>3. CASE e # c
    <3>1. HeardSome(e)' <=> HeardSome(e)
      BY <1>1, <2>3 DEF HeardSome
    <3>2. \A k \in 1..Len(peers) : ListedAt(e, k) /\ (pc = "announce" => k < i + 1) => (pc = "announce" => k < i)
      BY <1>2, <2>2, <2>3 DEF ListedAt
    <3>3. ~(pc = "introduce" /\ cur = KnockOf(e))
      BY <1>2, <1>3, <2>3
    <3> QED BY <1>1, <1>5, <2>1, <2>3, <3>1, <3>2, <3>3 DEF FirstHears
  <2>4. CASE e = c
    <3> SUFFICES ASSUME starts[c] = 1, c \in prompt, ~stray, First(c)
                 PROVE  /\ HeardSome(c)'
                        /\ table[c] = <<>> => \E f \in FromAddrs : arriving'[c][1] = OnlineTo(c, f)
      BY <1>1, <1>5, <2>1, <2>4 DEF FirstHears
    <3>1. c \in listening /\ arriving'[c] = Append(arriving[c], Due)
      BY <1>1 DEF MemoryOK, First
    <3>2. HeardSome(c)'
      BY <1>1, <3>1 DEF HeardSome
    <3>3. ASSUME table[c] = <<>> PROVE \E f \in FromAddrs : arriving'[c][1] = OnlineTo(c, f)
      <4>1. CASE arriving[c] = <<>>
        <5>1. pc # "farewell"
          <6>1. pc = "farewell" => ListedAt(c, i)
            BY <1>2 DEF ListedAt
          <6>2. ~HeardSome(c)
            BY <3>3, <4>1 DEF HeardSome
          <6> QED BY <2>1, <2>4, <6>1, <6>2 DEF FirstHears
        <5>2. arriving'[c][1] = Due
          BY <3>1, <4>1
        <5> QED BY <1>2, <5>1, <5>2
      <4>2. CASE arriving[c] # <<>>
        <5>1. arriving'[c][1] = arriving[c][1]
          BY <1>1, <3>1, <4>2
        <5> QED BY <2>1, <2>4, <3>3, <4>2, <5>1 DEF FirstHears
      <4> QED BY <4>1, <4>2
    <3> QED BY <3>2, <3>3
  <2> QED BY <2>3, <2>4
<1>11. ASSUME NEW e \in FromAddrs
       PROVE  /\ c \in listening =>
                   /\ Due = OnlineTo(c, e) => HeardOnline(c, e)'
                   /\ Due = OfflineTo(c, e) => HeardNotOnline(c, e)'
              /\ Due # OfflineTo(c, e) /\ HeardOnline(c, e) => HeardOnline(c, e)'
              /\ Due # OnlineTo(c, e) /\ HeardNotOnline(c, e) => HeardNotOnline(c, e)'
  <2>1. CASE c \in listening
    <3>1. /\ Due = OnlineTo(c, e) => SaysOnline(Append(arriving[c], Due), table[c], idle[c], rows[c], c, e)
          /\ Due = OfflineTo(c, e) => SaysNotOnline(Append(arriving[c], Due), table[c], idle[c], rows[c], c, e)
          /\ Due # OfflineTo(c, e) /\ HeardOnline(c, e)
               => SaysOnline(Append(arriving[c], Due), table[c], idle[c], rows[c], c, e)
          /\ Due # OnlineTo(c, e) /\ HeardNotOnline(c, e)
               => SaysNotOnline(Append(arriving[c], Due), table[c], idle[c], rows[c], c, e)
      BY <1>1, SaysSent DEF HeardOnline, HeardNotOnline
    <3> QED BY <1>1, <2>1, <3>1 DEF HeardOnline, HeardNotOnline
  <2>2. CASE c \notin listening
    BY <1>1, <2>2 DEF HeardOnline, HeardNotOnline
  <2> QED BY <2>1, <2>2
<1>12. ASSUME NEW a \in FromAddrs, a # c, NEW b \in FromAddrs
       PROVE  /\ HeardOnline(a, b)' <=> HeardOnline(a, b)
              /\ HeardNotOnline(a, b)' <=> HeardNotOnline(a, b)
  BY <1>1, <1>12 DEF HeardOnline, HeardNotOnline
<1>13. ASSUME NEW a \in FromAddrs, NEW b \in FromAddrs, a # c \/ b # d
       PROVE  /\ AnnounceDue(a, b) => AnnounceDue(a, b)'
              /\ IntroduceDue(a, b) => IntroduceDue(a, b)'
              /\ FarewellDue(a, b) => FarewellDue(a, b)'
  <2>1. AnnounceDue(a, b) => AnnounceDue(a, b)'
    <3> SUFFICES ASSUME pc = "announce", cur = KnockOf(b), NEW k \in 1..Len(peers), k >= i, ListedAt(a, k)
                 PROVE  k >= i + 1
      BY <1>1, <1>5 DEF AnnounceDue
    <3>1. b = d /\ a # c /\ peers[i].fromaddr = c /\ peers[k].fromaddr = a
      BY <1>2, <1>3, <1>13 DEF ListedAt
    <3> QED BY <3>1
  <2>2. IntroduceDue(a, b) => IntroduceDue(a, b)'
    <3>1. CASE pc = "announce"
      BY <1>1, <3>1 DEF IntroduceDue
    <3>2. ASSUME pc = "introduce", cur = KnockOf(a), NEW k \in 1..Len(peers), k >= i, ListedAt(b, k)
          PROVE  k >= i + 1
      <4>1. a = c /\ b # d /\ peers[i].fromaddr = d /\ peers[k].fromaddr = b
        BY <1>2, <1>3, <1>13, <3>2 DEF ListedAt
      <4> QED BY <3>2, <4>1
    <3> QED BY <1>1, <1>5, <3>1, <3>2 DEF IntroduceDue
  <2>3. FarewellDue(a, b) => FarewellDue(a, b)'
    <3> SUFFICES ASSUME pc = "farewell", cur = ByeOf(b), NEW k \in 1..Len(peers), k >= i, ListedAt(a, k)
                 PROVE  k >= i + 1
      BY <1>1, <1>5 DEF FarewellDue
    <3>1. b = d /\ a # c /\ peers[i].fromaddr = c /\ peers[k].fromaddr = a
      BY <1>2, <1>3, <1>13 DEF ListedAt
    <3> QED BY <3>1
  <2> QED BY <2>1, <2>2, <2>3
<1>14. ASSUME NEW a \in FromAddrs, NEW b \in FromAddrs, a # b PROVE KnowsOnline(a, b)'
  <2> SUFFICES ASSUME a \in prompt, phase[a] = "on", phase[b] = "on"
               PROVE  \/ KnockComes(a)' \/ KnockComes(b)'
                      \/ AnnounceDue(a, b)' \/ IntroduceDue(a, b)' \/ HeardOnline(a, b)'
    BY <1>1 DEF KnowsOnline
  <2>1. KnockComes(a) \/ KnockComes(b) \/ AnnounceDue(a, b) \/ IntroduceDue(a, b) \/ HeardOnline(a, b)
    BY <1>14 DEF QueueInv, KnowsOnline
  <2>2. CASE a # c
    BY <1>5, <1>12, <1>13, <2>1, <2>2
  <2>3. CASE a = c /\ b # d
    <3>1. Due # OfflineTo(c, b)
      BY <1>2, <1>3, <2>3
    <3> QED BY <1>5, <1>11, <1>13, <2>1, <2>3, <3>1
  <2>4. CASE a = c /\ b = d
    <3>1. CASE pc # "farewell"
      <4>1. c \in listening /\ Due = OnlineTo(c, d)
        BY <1>1, <1>2, <2>4, <3>1 DEF MemoryOK
      <4> QED BY <1>11, <2>4, <4>1
    <3>2. CASE pc = "farewell"
      <4>1. ~Entering(d)
        BY <3>2 DEF Entering
      <4>2. ~Listed(d)
        <5>1. cur.from = d
          BY <1>2, <3>2, KnocksAndByes
        <5> QED BY <3>2, <5>1 DEF SysInv, HInv, LeaverInactive, Listed, ListedAt
      <4>3. KnockComes(d)
        BY <2>4, <4>1, <4>2 DEF QueueInv, OnlineListed
      <4> QED BY <1>5, <2>4, <4>3
    <3> QED BY <3>1, <3>2
  <2> QED BY <2>2, <2>3, <2>4
<1>15. ASSUME NEW a \in FromAddrs, NEW b \in FromAddrs, a # b PROVE KnowsNobodyElse(a, b)'
  <2> SUFFICES ASSUME First(a), phase[b] # "on", b \notin silent
               PROVE  ByeComes(b)' \/ FarewellDue(a, b)' \/ HeardNotOnline(a, b)'
    BY <1>1, <1>5 DEF KnowsNobodyElse
  <2>1. ByeComes(b) \/ FarewellDue(a, b) \/ HeardNotOnline(a, b)
    BY <1>15 DEF QueueInv, KnowsNobodyElse
  <2>2. CASE a # c
    BY <1>5, <1>12, <1>13, <2>1, <2>2
  <2>3. CASE a = c /\ b # d
    <3>1. Due # OnlineTo(c, b)
      BY <1>2, <1>3, <2>3
    <3> QED BY <1>5, <1>11, <1>13, <2>1, <2>3, <3>1
  <2>4. CASE a = c /\ b = d
    <3>1. CASE pc # "farewell"
      <4>1. Listed(d) \/ Entering(d)
        BY <1>2, <1>4, <3>1 DEF Entering
      <4>2. ByeComes(d)
        BY <2>4, <4>1 DEF QueueInv, OthersNot
      <4> QED BY <1>5, <2>4, <4>2
    <3>2. CASE pc = "farewell"
      <4>1. c \in listening => HeardNotOnline(c, d)'
        BY <1>2, <1>11, <3>2
      <4>2. c \notin listening => arriving'[c] = <<>> /\ table'[c] = <<>>
        BY <1>1 DEF MemoryOK
      <4>3. c \notin listening => HeardNotOnline(c, d)'
        BY <4>2, LastEmpty DEF HeardNotOnline, SaysNotOnline
      <4> QED BY <2>4, <4>1, <4>3
    <3> QED BY <3>1, <3>2
  <2> QED BY <2>2, <2>3, <2>4
<1> QED BY <1>7, <1>8, <1>9, <1>10, <1>14, <1>15, PartsOfQueueInv DEF Parts

----------------------------------------------------------------------------
(* IInv is inductive, and what follows from it *)

LEMMA QueueInit == Init => QueueInv
<1> SUFFICES ASSUME Init PROVE QueueInv
  OBVIOUS
<1>1. /\ inbox = <<>> /\ Len(inbox) = 0 /\ Len(peers) = 0 /\ pc = "idle" /\ cur = NoMsg /\ silent = {}
      /\ \A c \in FromAddrs : /\ phase[c] = "off" /\ starts[c] = 0
                              /\ cur # KnockOf(c) /\ cur # ByeOf(c)
                              /\ ~First(c) /\ ~IsNew(c)
  BY KnocksAndByes DEF Init, HandlerInit, First, IsNew
<1>2. \A c \in FromAddrs : /\ ~Listed(c) /\ ~HasSlot(c) /\ ~Entering(c)
                           /\ Never(inbox, KnockOf(c)) /\ Never(inbox, ByeOf(c))
  BY <1>1, LastEmpty DEF Listed, HasSlot, Entering
<1>3. \A c \in FromAddrs : OnlineListed(c) /\ OthersNot(c)
  BY <1>1, <1>2 DEF OnlineListed, OthersNot
<1>4. \A c \in FromAddrs : InStep(c)
  BY <1>1 DEF InStep
<1>5. \A c \in FromAddrs : Staged(c)
  BY <1>1, <1>2 DEF Staged, Unborn, Unknown
<1>6. \A c \in FromAddrs : FirstHears(c)
  BY <1>1 DEF FirstHears
<1>7. \A c, d \in FromAddrs : KnowsOnline(c, d) /\ KnowsNobodyElse(c, d)
  BY <1>1 DEF KnowsOnline, KnowsNobodyElse
<1> QED BY <1>3, <1>4, <1>5, <1>6, <1>7 DEF QueueInv

LEMMA QueueTakeNotice ==
    ASSUME SysInv, QueueInv, NEW c \in FromAddrs, TakeNotice(c), ~overtook' PROVE QueueInv'
<1>1. PICK k \in Takeable(arriving[c]), d \in FromAddrs :
        /\ TookRest(c, k)
        /\ TookOnline(c, k, d) \/ TookOffline(c, k, d) \/ TookAborting(c, k, d)
  BY TakeNoticeDoes
<1>2. k = 1
  BY <1>1 DEF TookRest, Overtakes
<1> QED BY <1>1, <1>2, QueueTookOnline, QueueTookOffline, QueueTookAborting

LEMMA QueueReceive ==
    ASSUME SysInv, QueueInv, Receive, ~overtook' PROVE QueueInv'
<1>1. /\ \A e \in FromAddrs : Same(e)
      /\ stray' = stray /\ pc = "idle" /\ i' = 1 /\ inbox \in Seq(Said)
  BY SysInvReceive DEF SysInv, SysTypes
<1>2. PICK k \in Takeable(inbox), d \in FromAddrs :
        /\ overtook' = (overtook \/ k # 1) /\ inbox' = RemoveAt(inbox, k) /\ k \in DOMAIN inbox
        /\ \/ inbox[k] = KnockOf(d) /\ GotKnock(d)
           \/ inbox[k] = ByeOf(d) /\ GotBye(d)
  BY SysInvReceive
<1>3. k = 1 /\ inbox # <<>>
  <2>1. k = 1
    BY <1>2
  <2> QED BY <1>1, <1>2, <2>1, TakenType
<1>4. inbox' = Tail(inbox) /\ Head(inbox) = inbox[1]
  BY <1>1, <1>2, <1>3, TakenFirst
<1>5. CASE inbox[k] = KnockOf(d) /\ GotKnock(d)
  BY <1>1, <1>3, <1>4, <1>5, QueueKnock
<1>6. CASE inbox[k] = ByeOf(d) /\ GotBye(d)
  BY <1>1, <1>3, <1>4, <1>6, QueueBye
<1> QED BY <1>2, <1>5, <1>6

LEMMA QueueNotice ==
    ASSUME SysInv, QueueInv, SendNotice PROVE QueueInv'
<1>1. /\ i \in 1..Len(peers) /\ i' = i + 1
      /\ UNCHANGED <<inbox, phase, listening, tableVars, historyVars>>
      /\ UNCHANGED <<peers, pc, cur>>
      /\ \E c, d \in FromAddrs : SentTo(c, d)
  BY SysInvSendNotice
<1>2. peers[i].active /\ InLoop
  BY DEF SendNotice, TrySend
<1> QED BY <1>1, <1>2, QueueSendNotice

LEMMA QueueHandlerStep ==
    ASSUME SysInv, QueueInv, HandlerStep PROVE QueueInv'
<1>1. UNCHANGED <<inbox, clientVars, historyVars>> /\ inbox' = inbox /\ stray' = stray
  BY DEF HandlerStep, historyVars
<1>2. CASE SkipInactive
  BY <1>1, <1>2, SysInvOtherSteps, QueueSkip
<1>3. CASE AnnounceDone
  BY <1>1, <1>3, SysInvOtherSteps, QueueAnnounceDone
<1>4. CASE IntroduceDone
  BY <1>1, <1>4, SysInvIntroduceDone, QueueIntroduceDone
<1>5. CASE FarewellDone
  BY <1>1, <1>5, SysInvOtherSteps, QueueFarewellDone
<1> QED BY <1>2, <1>3, <1>4, <1>5 DEF HandlerStep

LEMMA QueueStutter ==
    ASSUME SysInv, QueueInv, UNCHANGED vars PROVE QueueInv'
<1>1. /\ UNCHANGED <<handlerVars, inbox>> /\ stray' = stray
      /\ \A e \in FromAddrs : Same(e)
  BY SysInvStutter DEF vars, historyVars
<1>2. /\ UNCHANGED <<handlerVars, inbox, stray>>
      /\ \A e \in FromAddrs : /\ Alike(e) /\ phase'[e] = phase[e]
                              /\ e \in silent' <=> e \in silent
  BY <1>1 DEF Same, Alike
<1>3. \A e \in FromAddrs : OnlineListed(e)' /\ OthersNot(e)' /\ Staged(e)' /\ FirstHears(e)' /\ InStep(e)'
  BY <1>2, AloneSame, FirstSame DEF QueueInv
<1>4. \A c, d \in FromAddrs : KnowsOnline(c, d)' /\ KnowsNobodyElse(c, d)'
  BY <1>2, PairSame DEF QueueInv
<1> QED BY <1>3, <1>4 DEF QueueInv

LEMMA IInvStep == IInv /\ [Next]_vars => IInv'
<1> SUFFICES ASSUME SysInv, ~overtook => QueueInv, [Next]_vars, ~overtook' PROVE QueueInv'
  BY SysInvStep DEF IInv
<1>1. ASSUME NEW c \in FromAddrs, Start(c) \/ Listen(c) \/ SendKnock(c) \/ Quit(c) \/ Kill(c) PROVE QueueInv'
  <2>1. CASE Start(c)
    <3>1. Starts(c) /\ overtook' = overtook
      BY <2>1, StartDoes DEF Starts
    <3> QED BY <3>1, QueueStarts
  <2>2. CASE Listen(c)
    BY <2>2, QueueListen DEF Listen, historyVars
  <2>3. CASE SendKnock(c)
    BY <2>3, QueueSendKnock DEF SendKnock
  <2>4. CASE Quit(c)
    BY <2>4, QueueQuit DEF Quit
  <2>5. CASE Kill(c)
    BY <2>5, QueueKill DEF Kill
  <2> QED BY <1>1, <2>1, <2>2, <2>3, <2>4, <2>5
<1>2. ASSUME NEW c \in FromAddrs, TakeNotice(c) PROVE QueueInv'
  <2>1. ~overtook
    BY <1>2 DEF TakeNotice, Overtakes
  <2> QED BY <1>2, <2>1, QueueTakeNotice
<1>3. ASSUME NEW c \in FromAddrs, RunIdle(c) PROVE QueueInv'
  BY <1>3, QueueRunIdle DEF RunIdle, historyVars
<1>4. CASE Receive
  <2>1. ~overtook
    BY <1>4 DEF Receive, Overtakes
  <2> QED BY <1>4, <2>1, QueueReceive
<1>5. CASE SendNotice
  BY <1>5, QueueNotice DEF SendNotice, historyVars
<1>6. CASE HandlerStep
  BY <1>6, QueueHandlerStep DEF HandlerStep, historyVars
<1>7. CASE UNCHANGED vars
  BY <1>7, QueueStutter DEF vars, historyVars
<1>8. ASSUME Next PROVE \/ \E c \in FromAddrs : \/ Start(c) \/ Listen(c) \/ SendKnock(c) \/ Quit(c) \/ Kill(c)
                                                \/ TakeNotice(c) \/ RunIdle(c)
                        \/ Receive \/ SendNotice \/ HandlerStep
  BY <1>8, Zenon DEF Next
<1> QED BY <1>1, <1>2, <1>3, <1>4, <1>5, <1>6, <1>7, <1>8

LEMMA IInvHolds == Spec => []IInv
<1>1. Init => IInv
  BY SysInvInit, QueueInit DEF IInv
<1> QED BY <1>1, IInvStep, PTL DEF Spec

\* A queue that is empty says nothing.
LEMMA QuietMeans ==
    ASSUME Quiet, NEW c \in FromAddrs, NEW d \in FromAddrs
    PROVE  /\ ~KnockComes(d) /\ ~ByeComes(d)
           /\ ~AnnounceDue(c, d) /\ ~IntroduceDue(c, d) /\ ~FarewellDue(c, d)
           /\ HeardOnline(c, d) =>
                \E h \in 1..Len(table[c]) : table[c][h].fromaddr = d /\ h \in rows[c]
           /\ HeardNotOnline(c, d) =>
                \A h \in 1..Len(table[c]) : table[c][h].fromaddr = d => h \notin rows[c]
<1>1. pc = "idle" /\ inbox = <<>> /\ arriving[c] = <<>> /\ idle[c] = <<>>
  BY DEF Quiet
<1>2. ~KnockComes(d) /\ ~ByeComes(d)
  BY <1>1, LastEmpty DEF KnockComes, ByeComes
<1>3. ~AnnounceDue(c, d) /\ ~IntroduceDue(c, d) /\ ~FarewellDue(c, d)
  BY <1>1 DEF AnnounceDue, IntroduceDue, FarewellDue
<1>4. HeardOnline(c, d) =>
        \E h \in 1..Len(table[c]) : table[c][h].fromaddr = d /\ h \in rows[c]
  BY <1>1, LastEmpty DEF HeardOnline, SaysOnline
<1>5. HeardNotOnline(c, d) =>
        \A h \in 1..Len(table[c]) : table[c][h].fromaddr = d => h \notin rows[c]
  BY <1>1, LastEmpty DEF HeardNotOnline, SaysNotOnline
<1> QED BY <1>2, <1>3, <1>4, <1>5

\* When all is quiet and nothing was overtaken, a client that listened before its KNOCK
\* has a row for every other client online, at the address where that one listens:
\* handle_msg of the tracker and of the clients, through restarts, kills and late listeners.
THEOREM EachKnowsTheOthersHolds == Spec => []EachKnowsTheOthers
<1>1. IInv => EachKnowsTheOthers
  <2> SUFFICES ASSUME IInv, Quiet, ~overtook, NEW c \in prompt, NEW d \in FromAddrs,
                      c # d, phase[c] = "on", phase[d] = "on"
               PROVE  \E h \in rows[c] :
                         table[c][h].fromaddr = d /\ table[c][h].toaddr = WithPort(d, ListenPort)
    BY DEF EachKnowsTheOthers
  <2>1. c \in FromAddrs /\ MemoryOK(c) /\ QueueInv
    BY DEF IInv, SysInv, SysTypes
  <2>2. HeardOnline(c, d)
    BY <2>1, QuietMeans DEF QueueInv, KnowsOnline
  <2>3. PICK h \in 1..Len(table[c]) : table[c][h].fromaddr = d /\ h \in rows[c]
    BY <2>1, <2>2, QuietMeans
  <2>4. table[c][h].toaddr = WithPort(d, ListenPort)
    BY <2>1, <2>3 DEF MemoryOK, ReachOK, Reach
  <2> QED BY <2>3, <2>4
<1> QED BY <1>1, IInvHolds, PTL

\* When all is quiet and nothing was overtaken, the first client at an address has no row
\* for one that said BYE after its KNOCK, and none for itself.
THEOREM NobodyElseListedHolds == Spec => []NobodyElseListed
<1>1. IInv => NobodyElseListed
  <2> SUFFICES ASSUME IInv, Quiet, ~overtook, NEW c \in FromAddrs, phase[c] = "on", starts[c] = 1,
                      NEW h \in rows[c]
               PROVE  table[c][h].fromaddr \in ({d \in FromAddrs : phase[d] = "on"} \cup silent) \ {c}
    BY DEF NobodyElseListed, Lists
  <2>1. MemoryOK(c) /\ QueueInv /\ First(c) /\ table[c] \in TableType
    BY DEF IInv, SysInv, SysTypes, First
  <2>2. h \in 1..Len(table[c])
    BY <2>1 DEF MemoryOK
  <2> DEFINE d == table[c][h].fromaddr
  <2>3. d \in FromAddrs
    <3>1. table[c][h] \in Peer(FromAddrs, ToAddrs)
      BY <2>1, <2>2 DEF TableType
    <3> QED BY <3>1 DEF Peer
  <2>4. d # c
    BY <2>1, <2>2 DEF QueueInv, Staged
  <2>5. ~HeardNotOnline(c, d)
    BY <2>2, <2>3, QuietMeans
  <2>6. phase[d] = "on" \/ d \in silent
    BY <2>1, <2>3, <2>4, <2>5, QuietMeans DEF QueueInv, KnowsNobodyElse
  <2> QED BY <2>3, <2>4, <2>6
<1> QED BY <1>1, IInvHolds, PTL

\* print_peers of a client finds its table allocated, unless the client was started again
\* at its address, or listened too late, or a BYE came without a KNOCK, or a message
\* overtook another.
THEOREM AbortsAreExplainedHolds == Spec => []AbortsAreExplained
<1>1. IInv => AbortsAreExplained
  <2> SUFFICES ASSUME IInv, NEW c \in FromAddrs, phase[c] = "aborted", c \in prompt, ~stray, ~overtook
               PROVE  starts[c] > 1
    BY DEF AbortsAreExplained
  <2>1. starts[c] \in Nat /\ QueueInv
    BY DEF IInv, SysInv, SysTypes
  <2>2. starts[c] # 0 /\ starts[c] # 1
    BY <2>1 DEF QueueInv, Staged, FirstHears
  <2> QED BY <2>1, <2>2
<1> QED BY <1>1, IInvHolds, PTL
=============================================================================
