--------------------------- MODULE PeerRaceProofs ---------------------------
(***************************************************************************)
(* Proofs about PeerRace, for any addresses, capacity and numbers of       *)
(* notices and texts.                                                      *)
(***************************************************************************)
EXTENDS PeerRace, TLAPS, WellFoundedInduction

Peers == [hpeer : Nat, fromaddr : FromAddrs \cup {"none"}, toaddr : ToAddrs \cup {"none"}, active : BOOLEAN]

\* A slot that is counted holds the peer whose handle is its index.
TableOK ==
    /\ blocks \in Seq(Seq(Peers)) /\ items \in 1..Len(blocks)
    /\ len \in Nat /\ cap \in Nat \ {0}
    /\ len <= cap /\ cap <= Len(blocks[items])
    /\ \A k \in 1..len : Slot(k).hpeer = k

Adds == {"move", "switch", "grow", "write", "count"}

\* How far the listener has come with the peer it adds or rewrites.
ListenerOK ==
    /\ lpc \in Adds \cup {"idle", "toaddr", "active", "queue"}
    /\ lpeer \in Peers /\ lslot \in Nat
    /\ lpc \in Adds => lpeer.hpeer = len + 1
    /\ lpc \in {"toaddr", "active", "queue"} => lpeer.hpeer \in 1..len
    /\ lpc \in {"toaddr", "active"} => lslot = lpeer.hpeer
    /\ lpc \in {"move", "switch", "grow"} => len = cap
    /\ lpc = "switch" => /\ items < Len(blocks) /\ Len(blocks[Len(blocks)]) = 2 * cap
                         /\ lslot <= cap
                         /\ \A k \in 1..lslot : blocks[Len(blocks)][k].hpeer = k
    /\ lpc = "grow" => Len(blocks[items]) = 2 * cap
    /\ lpc \in {"write", "count"} => lslot = len + 1 /\ lslot <= cap
    /\ lpc = "count" => Slot(lslot).hpeer = lslot

Jobs ==
    [fn : {"none", "IDLE_peer_online", "IDLE_peer_offline", "CB_chatwin_send", "destroy_peer"},
     hpeer : Nat]

\* The main thread looks for a handle that the table has, and has not passed its slot.
MainOK ==
    /\ idle \in Seq(Jobs) /\ \A k \in 1..Len(idle) : idle[k].hpeer \in 1..len
    /\ job \in Jobs /\ got \in Peers /\ got.hpeer <= len
    /\ gpc \in {"gtk", "check", "item", "compare", "use"}
    /\ gpc # "gtk" => job.hpeer \in 1..len /\ gslot \in 1..job.hpeer
    /\ gpc \in {"compare", "use"} =>
          /\ gblock \in 1..Len(blocks) /\ gslot \in 1..Len(blocks[gblock])
          /\ blocks[gblock][gslot].hpeer = gslot
    /\ gpc = "use" => gslot = job.hpeer

IInv == TableOK /\ ListenerOK /\ MainOK

----------------------------------------------------------------------------
(* Sets, sequences and blocks *)

\* A set of numbers that is not empty has a least one.
LEMMA MinIn ==
    ASSUME NEW S, S \subseteq Nat, S # {}
    PROVE  Min(S) \in S /\ \A y \in S : Min(S) <= y
<1> DEFINE R == {ss \in Nat \X Nat : ss[1] < ss[2]}
<1>1. IsWellFoundedOn(R, Nat)
  BY NatLessThanWellFounded DEF OpToRel
<1>2. PICK x \in S : \A y \in S : ~ (<<y, x>> \in R)
  <2> HIDE DEF R
  <2> QED BY <1>1, WFMin, Zenon
<1>3. \A y \in S : x <= y
  <2> TAKE y \in S
  <2>1. x \in Nat /\ y \in Nat /\ ~ (<<y, x>> \in R)
    BY <1>2
  <2> QED BY <2>1
<1> QED BY <1>3 DEF Min

LEMMA NewBlockShape ==
    ASSUME NEW n \in Nat
    PROVE  /\ NewBlock(n) \in Seq(Peers) /\ Len(NewBlock(n)) = n
           /\ \A k \in 1..n : NewBlock(n)[k].hpeer = 0
<1>1. NoPeer \in Peers /\ NoPeer.hpeer = 0
  BY DEF NoPeer, Peers
<1> QED BY <1>1 DEF NewBlock

\* What no step takes away: blocks, their sizes, and the handles that were written.
Stays ==
    /\ blocks' \in Seq(Seq(Peers)) /\ Len(blocks) <= Len(blocks')
    /\ \A b \in 1..Len(blocks) :
          /\ Len(blocks'[b]) = Len(blocks[b])
          /\ \A k \in 1..Len(blocks[b]) : blocks[b][k].hpeer = k => blocks'[b][k].hpeer = k

\* A slot is written, by whom its handle allows.
Writes(b, k, p) ==
    /\ blocks' = [blocks EXCEPT ![b][k] = p]
    /\ b \in 1..Len(blocks) /\ k \in 1..Len(blocks[b])
    /\ p \in Peers /\ p.hpeer = k

LEMMA WritesStays ==
    ASSUME blocks \in Seq(Seq(Peers)), NEW b, NEW k, NEW p, Writes(b, k, p)
    PROVE  /\ Stays /\ Len(blocks') = Len(blocks) /\ blocks'[b][k] = p
           /\ \A c \in 1..Len(blocks) : \A j \in 1..Len(blocks[c]) :
                 c # b \/ j # k => blocks'[c][j] = blocks[c][j]
<1> DEFINE new == [blocks[b] EXCEPT ![k] = p]
<1>1. new \in Seq(Peers) /\ Len(new) = Len(blocks[b]) /\ new[k] = p
      /\ \A j \in 1..Len(blocks[b]) : j # k => new[j] = blocks[b][j]
  <2>1. blocks[b] \in Seq(Peers)
    BY DEF Writes
  <2> QED BY <2>1 DEF Writes
<1>2. blocks' = [blocks EXCEPT ![b] = new]
  BY DEF Writes
<1> HIDE DEF new
<1>3. /\ blocks' \in Seq(Seq(Peers)) /\ Len(blocks') = Len(blocks)
      /\ blocks'[b] = new
      /\ \A c \in 1..Len(blocks) : c # b => blocks'[c] = blocks[c]
  BY <1>1, <1>2 DEF Writes
<1> QED BY <1>1, <1>3 DEF Stays, Writes

LEMMA SameStays ==
    ASSUME blocks \in Seq(Seq(Peers)), UNCHANGED blocks PROVE Stays
BY DEF Stays

LEMMA InitOK == Init => IInv
<1> SUFFICES ASSUME Init PROVE IInv
  OBVIOUS
<1>1. /\ NewBlock(InitCap) \in Seq(Peers) /\ Len(NewBlock(InitCap)) = InitCap
      /\ InitCap \in Nat \ {0}
  BY NewBlockShape, PeerRaceAssumption
<1>2. TableOK
  BY <1>1 DEF Init, TableOK
<1>3. ListenerOK
  BY DEF Init, ListenerOK, Adds, NoPeer, Peers
<1>4. MainOK
  <2>1. NoJob \in Jobs /\ NoPeer \in Peers
    BY DEF Jobs, NoJob, NoPeer, Peers
  <2>2. NoPeer.hpeer <= 0
    BY DEF NoPeer
  <2> QED BY <2>1, <2>2 DEF Init, MainOK
<1> QED BY <1>2, <1>3, <1>4 DEF IInv

----------------------------------------------------------------------------
(* What one thread keeps of the other *)

LEMMA MainStays ==
    ASSUME IInv, Stays, UNCHANGED mainVars, len' \in Nat, len <= len',
           idle' \in Seq(Jobs), \A k \in 1..Len(idle') : idle'[k].hpeer \in 1..len'
    PROVE  MainOK'
<1>1. gpc \in {"compare", "use"} =>
          /\ gblock \in 1..Len(blocks') /\ gslot \in 1..Len(blocks'[gblock])
          /\ blocks'[gblock][gslot].hpeer = gslot
  <2> SUFFICES ASSUME gpc \in {"compare", "use"}
               PROVE  /\ gblock \in 1..Len(blocks') /\ gslot \in 1..Len(blocks'[gblock])
                      /\ blocks'[gblock][gslot].hpeer = gslot
    OBVIOUS
  <2>1. /\ gblock \in 1..Len(blocks) /\ gslot \in 1..Len(blocks[gblock])
        /\ blocks[gblock][gslot].hpeer = gslot
    BY DEF IInv, MainOK
  <2>2. Len(blocks) \in Nat /\ Len(blocks') \in Nat /\ Len(blocks) <= Len(blocks')
    BY DEF IInv, TableOK, Stays
  <2> QED BY <2>1, <2>2 DEF Stays
<1>2. gpc # "gtk" => job.hpeer \in 1..len' /\ gslot \in 1..job.hpeer
  BY DEF IInv, MainOK, TableOK, Stays
<1>3. got.hpeer <= len'
  <2>1. got.hpeer \in Nat /\ got.hpeer <= len /\ len \in Nat
    BY DEF IInv, MainOK, TableOK, Peers
  <2> QED BY <2>1
<1> QED BY <1>1, <1>2, <1>3 DEF IInv, MainOK, mainVars

LEMMA ListenerStays ==
    ASSUME IInv, Stays, Len(blocks') = Len(blocks), UNCHANGED <<items, len, cap, listenerVars>>
    PROVE  TableOK' /\ ListenerOK'
<1> USE DEF IInv, TableOK, Slot
<1>1. TableOK'
  BY DEF Stays
<1>2. ListenerOK'
  <2>1. lpc = "switch" => /\ items < Len(blocks) /\ Len(blocks'[Len(blocks)]) = 2 * cap
                          /\ lslot <= cap
                          /\ \A k \in 1..lslot : blocks'[Len(blocks)][k].hpeer = k
    <3> SUFFICES ASSUME lpc = "switch"
                 PROVE  /\ items < Len(blocks) /\ Len(blocks'[Len(blocks)]) = 2 * cap
                        /\ lslot <= cap
                        /\ \A k \in 1..lslot : blocks'[Len(blocks)][k].hpeer = k
      OBVIOUS
    <3>1. /\ items < Len(blocks) /\ Len(blocks[Len(blocks)]) = 2 * cap
          /\ lslot \in Nat /\ lslot <= cap
          /\ \A k \in 1..lslot : blocks[Len(blocks)][k].hpeer = k
      BY DEF ListenerOK
    <3>2. Len(blocks) \in 1..Len(blocks)
      BY <3>1
    <3>3. \A k \in 1..lslot : k \in 1..Len(blocks[Len(blocks)])
      BY <3>1
    <3> QED BY <3>1, <3>2, <3>3 DEF Stays
  <2>2. /\ lpc = "grow" => Len(blocks'[items]) = 2 * cap
        /\ lpc = "count" => blocks'[items][lslot].hpeer = lslot
    BY DEF Stays, ListenerOK
  <2> QED BY <2>1, <2>2 DEF ListenerOK, listenerVars
<1> QED BY <1>1, <1>2

\* A step of the listener that writes nothing to the table
LEMMA IdleStays ==
    ASSUME IInv, Stays, UNCHANGED <<mainVars, idle>>, len' \in Nat, len <= len'
    PROVE  MainOK'
BY MainStays DEF IInv, MainOK, TableOK

LEMMA AppendIdle ==
    ASSUME IInv, NEW j \in Jobs, j.hpeer \in 1..len, idle' = Append(idle, j)
    PROVE  idle' \in Seq(Jobs) /\ \A k \in 1..Len(idle') : idle'[k].hpeer \in 1..len
BY DEF IInv, MainOK

----------------------------------------------------------------------------
(* The listener *)

LEMMA SlotOfIn ==
    ASSUME IInv, NEW a, SlotOf(a) # {}
    PROVE  Min(SlotOf(a)) \in 1..len /\ Slot(Min(SlotOf(a))).hpeer = Min(SlotOf(a))
<1>1. SlotOf(a) \subseteq 1..len /\ 1..len \subseteq Nat
  BY DEF SlotOf, IInv, TableOK
<1>2. Min(SlotOf(a)) \in 1..len
  BY <1>1, MinIn
<1> QED BY <1>2 DEF IInv, TableOK

LEMMA SlotType ==
    ASSUME TableOK, NEW k \in 1..Len(blocks[items])
    PROVE  Slot(k) \in Peers
<1>1. blocks[items] \in Seq(Peers)
  BY DEF TableOK
<1> QED BY <1>1 DEF Slot

LEMMA StepTakeOffline ==
    ASSUME IInv, NEW a \in FromAddrs, TakeOffline(a) PROVE IInv'
<1>1. /\ Stays /\ Len(blocks') = Len(blocks) /\ UNCHANGED <<items, len, cap, listenerVars, mainVars>>
      /\ len \in Nat
  BY SameStays DEF TakeOffline, tableVars, listenerVars, IInv, TableOK
<1>2. TableOK' /\ ListenerOK'
  BY <1>1, ListenerStays
<1>3. idle' \in Seq(Jobs) /\ \A k \in 1..Len(idle') : idle'[k].hpeer \in 1..len
  <2>1. CASE SlotOf(a) = {}
    BY <2>1 DEF TakeOffline, IInv, MainOK
  <2>2. CASE SlotOf(a) # {}
    <3> DEFINE h == Slot(Min(SlotOf(a))).hpeer
               j == [fn |-> "IDLE_peer_offline", hpeer |-> h]
    <3>1. h \in 1..len
      BY <2>2, SlotOfIn
    <3>2. j \in Jobs /\ j.hpeer \in 1..len
      BY <1>1, <3>1 DEF Jobs
    <3>3. idle' = Append(idle, j)
      BY <2>2 DEF TakeOffline
    <3> QED BY <3>2, <3>3, AppendIdle
  <2> QED BY <2>1, <2>2
<1>4. MainOK'
  BY <1>1, <1>3, MainStays
<1> QED BY <1>2, <1>4 DEF IInv

LEMMA StepTakeOnline ==
    ASSUME IInv, NEW a \in FromAddrs, NEW to \in ToAddrs, TakeOnline(a, to) PROVE IInv'
<1>1. /\ UNCHANGED <<blocks, items, len, cap, mainVars, idle>> /\ len \in Nat /\ Stays
  BY SameStays DEF TakeOnline, tableVars, IInv, TableOK
<1>2. TableOK'
  BY <1>1 DEF IInv, TableOK, Slot
<1>3. MainOK'
  BY <1>1, IdleStays
<1>4. CASE SlotOf(a) # {}
  <2>1. /\ lslot' = Min(SlotOf(a)) /\ lpc' = "toaddr"
        /\ lpeer' = [Slot(lslot') EXCEPT !.toaddr = to]
    BY <1>4 DEF TakeOnline
  <2>2. lslot' \in 1..len /\ Slot(lslot').hpeer = lslot'
    BY <1>4, <2>1, SlotOfIn
  <2>3. Slot(lslot') \in Peers
    BY <2>2, SlotType DEF IInv, TableOK
  <2>4. lpeer' \in Peers /\ lpeer'.hpeer = lslot'
    BY <2>1, <2>2, <2>3 DEF Peers
  <2>5. ListenerOK'
    BY <1>1, <2>1, <2>2, <2>4 DEF ListenerOK, Adds
  <2> QED BY <1>2, <1>3, <2>5 DEF IInv
<1>5. CASE SlotOf(a) = {}
  <2>1. /\ lslot' = len + 1 /\ lpc' = IF len = cap THEN "move" ELSE "write"
        /\ lpeer' = [hpeer |-> len + 1, fromaddr |-> a, toaddr |-> to, active |-> TRUE]
    BY <1>5 DEF TakeOnline
  <2>2. lpeer' \in Peers /\ lpeer'.hpeer = len + 1
    BY <1>1, <2>1 DEF Peers
  <2>3. ListenerOK'
    BY <1>1, <2>1, <2>2 DEF ListenerOK, Adds, IInv, TableOK
  <2> QED BY <1>2, <1>3, <2>3 DEF IInv
<1> QED BY <1>4, <1>5

LEMMA TableStays ==
    ASSUME IInv, Stays, UNCHANGED <<items, len, cap>>
    PROVE  TableOK'
BY DEF IInv, TableOK, Slot, Stays

\* Peer_replace writes to the slot of the peer.
LEMMA ReplaceWrites ==
    ASSUME IInv, NEW p, p \in {[Slot(lslot) EXCEPT !.toaddr = lpeer.toaddr],
                               [Slot(lslot) EXCEPT !.active = TRUE]},
           lpc \in {"toaddr", "active"}, blocks' = [blocks EXCEPT ![items][lslot] = p]
    PROVE  Writes(items, lslot, p)
<1>1. /\ items \in 1..Len(blocks) /\ lslot \in 1..len /\ lslot \in 1..Len(blocks[items])
      /\ Slot(lslot).hpeer = lslot
  BY DEF IInv, TableOK, ListenerOK
<1>2. Slot(lslot) \in Peers /\ lpeer \in Peers
  BY <1>1, SlotType DEF IInv, ListenerOK
<1>3. p \in Peers /\ p.hpeer = lslot
  BY <1>1, <1>2 DEF Peers
<1> QED BY <1>1, <1>3 DEF Writes

LEMMA StepReplace ==
    ASSUME IInv, ReplaceToaddr \/ ReplaceActive PROVE IInv'
<1>1. PICK p \in {[Slot(lslot) EXCEPT !.toaddr = lpeer.toaddr], [Slot(lslot) EXCEPT !.active = TRUE]} :
         blocks' = [blocks EXCEPT ![items][lslot] = p]
  BY DEF ReplaceToaddr, ReplaceActive, Slot
<1>2. lpc \in {"toaddr", "active"} /\ lpc' \in {"active", "queue"}
      /\ UNCHANGED <<items, len, cap, lpeer, lslot, idle, mainVars>> /\ len \in Nat
  BY DEF ReplaceToaddr, ReplaceActive, Goes, listenerOnly, IInv, TableOK
<1>3. Writes(items, lslot, p)
  BY <1>1, <1>2, ReplaceWrites
<1>4. Stays
  BY <1>3, WritesStays DEF IInv, TableOK
<1>5. TableOK' /\ MainOK'
  BY <1>2, <1>4, TableStays, IdleStays
<1>6. ListenerOK'
  BY <1>2 DEF IInv, ListenerOK, Adds
<1> QED BY <1>5, <1>6 DEF IInv

LEMMA StepMoveBegins ==
    ASSUME IInv, MoveBegins PROVE IInv'
<1>1. /\ lpc = "move" /\ lpc' = "switch" /\ lslot' = 0
      /\ blocks' = Append(blocks, NewBlock(2 * cap))
      /\ UNCHANGED <<items, len, cap, lpeer, idle, mainVars>> /\ len \in Nat
  BY DEF MoveBegins, Goes, listenerOnly, IInv, TableOK
<1>2. /\ NewBlock(2 * cap) \in Seq(Peers) /\ Len(NewBlock(2 * cap)) = 2 * cap
  BY NewBlockShape DEF IInv, TableOK
<1>3. /\ blocks' \in Seq(Seq(Peers)) /\ Len(blocks') = Len(blocks) + 1
      /\ \A b \in 1..Len(blocks) : blocks'[b] = blocks[b]
      /\ blocks'[Len(blocks')] = NewBlock(2 * cap)
      /\ Len(blocks) \in Nat
  BY <1>1, <1>2 DEF IInv, TableOK
<1>4. Stays
  <2>1. \A b \in 1..Len(blocks) : Len(blocks'[b]) = Len(blocks[b])
    BY <1>3
  <2>2. \A b \in 1..Len(blocks) : \A k \in 1..Len(blocks[b]) : blocks'[b][k] = blocks[b][k]
    BY <1>3
  <2> QED BY <1>3, <2>1, <2>2 DEF Stays
<1>5. TableOK' /\ MainOK'
  BY <1>1, <1>4, TableStays, IdleStays
<1>6. /\ lpeer \in Peers /\ lpeer.hpeer = len + 1 /\ len = cap /\ cap \in Nat
      /\ items < Len(blocks')
  BY <1>1, <1>3 DEF IInv, TableOK, ListenerOK, Adds
<1>7. ListenerOK'
  BY <1>1, <1>2, <1>3, <1>6 DEF ListenerOK, Adds
<1> QED BY <1>5, <1>7 DEF IInv

LEMMA StepMoveSlot ==
    ASSUME IInv, MoveSlot PROVE IInv'
<1> DEFINE b == Len(blocks)
           k == lslot + 1
<1>1. /\ lpc = "switch" /\ lslot < cap /\ lslot' = k
      /\ blocks' = [blocks EXCEPT ![b][k] = Slot(k)]
      /\ UNCHANGED <<items, len, cap, lpc, lpeer, idle, mainVars>> /\ len \in Nat
  BY DEF MoveSlot, listenerOnly, IInv, TableOK
<1>2. /\ items < b /\ Len(blocks[b]) = 2 * cap /\ len = cap /\ lslot \in Nat
      /\ cap \in Nat \ {0} /\ b \in 1..Len(blocks)
      /\ \A j \in 1..lslot : blocks[b][j].hpeer = j
  BY <1>1 DEF IInv, TableOK, ListenerOK
<1>3. k \in 1..len /\ k \in 1..Len(blocks[b]) /\ k \in 1..Len(blocks[items])
  BY <1>1, <1>2 DEF IInv, TableOK
<1>4. Slot(k) \in Peers /\ Slot(k).hpeer = k
  BY <1>3, SlotType DEF IInv, TableOK
<1>5. Writes(b, k, Slot(k))
  BY <1>1, <1>2, <1>3, <1>4 DEF Writes
<1>6. Stays /\ Len(blocks') = b /\ blocks'[b][k] = Slot(k)
  BY <1>5, WritesStays DEF IInv, TableOK
<1>7. TableOK' /\ MainOK'
  BY <1>1, <1>6, TableStays, IdleStays
<1>8. \A j \in 1..k : blocks'[b][j].hpeer = j
  <2> TAKE j \in 1..k
  <2>1. CASE j = k
    BY <2>1, <1>4, <1>6
  <2>2. CASE j # k
    <3>1. j \in 1..lslot /\ j \in 1..Len(blocks[b])
      BY <2>2, <1>1, <1>2
    <3> QED BY <3>1, <1>2, <1>6 DEF Stays
  <2> QED BY <2>1, <2>2
<1>9. Len(blocks'[b]) = 2 * cap
  BY <1>2, <1>6 DEF Stays
<1> HIDE DEF b
<1>10. ListenerOK'
  BY <1>1, <1>2, <1>3, <1>6, <1>8, <1>9 DEF IInv, ListenerOK, Adds
<1> QED BY <1>7, <1>10 DEF IInv

LEMMA StepSwitch ==
    ASSUME IInv, Switch PROVE IInv'
<1>1. /\ lpc = "switch" /\ lslot = cap /\ lpc' = "grow" /\ items' = Len(blocks)
      /\ UNCHANGED <<blocks, len, cap, lpeer, lslot, idle, mainVars>> /\ len \in Nat
  BY DEF Switch, MoveIsDone, listenerOnly, IInv, TableOK
<1>2. Stays
  BY <1>1, SameStays DEF IInv, TableOK
<1>3. MainOK'
  BY <1>1, <1>2, IdleStays
<1>4. TableOK'
  BY <1>1 DEF IInv, TableOK, ListenerOK, Slot
<1>5. ListenerOK'
  BY <1>1 DEF IInv, ListenerOK, Adds
<1> QED BY <1>3, <1>4, <1>5 DEF IInv

LEMMA StepGrow ==
    ASSUME IInv, Grow PROVE IInv'
<1>1. /\ lpc = "grow" /\ lpc' = "write" /\ cap' = 2 * cap /\ lslot' = len + 1
      /\ UNCHANGED <<blocks, items, len, lpeer, idle, mainVars>> /\ len \in Nat
  BY DEF Grow, Goes, listenerOnly, IInv, TableOK
<1>2. Stays
  BY <1>1, SameStays DEF IInv, TableOK
<1>3. MainOK'
  BY <1>1, <1>2, IdleStays
<1>4. TableOK'
  BY <1>1 DEF IInv, TableOK, ListenerOK, Slot
<1>5. ListenerOK'
  BY <1>1 DEF IInv, TableOK, ListenerOK, Adds
<1> QED BY <1>3, <1>4, <1>5 DEF IInv

LEMMA StepWrite ==
    ASSUME IInv, Write PROVE IInv'
<1>1. /\ lpc = "write" /\ lpc' = "count" /\ blocks' = [blocks EXCEPT ![items][lslot] = lpeer]
      /\ UNCHANGED <<items, len, cap, lpeer, lslot, idle, mainVars>> /\ len \in Nat
  BY DEF Write, WriteItem, Goes, listenerOnly, IInv, TableOK
<1>2. /\ lslot = len + 1 /\ lslot <= cap /\ lpeer \in Peers /\ lpeer.hpeer = lslot
      /\ lslot \in 1..Len(blocks[items])
  BY <1>1 DEF IInv, TableOK, ListenerOK, Adds
<1>3. Writes(items, lslot, lpeer)
  BY <1>1, <1>2 DEF Writes, IInv, TableOK
<1>4. Stays /\ blocks'[items][lslot] = lpeer
  BY <1>3, WritesStays DEF IInv, TableOK
<1>5. TableOK' /\ MainOK'
  BY <1>1, <1>4, TableStays, IdleStays
<1>6. ListenerOK'
  BY <1>1, <1>2, <1>4 DEF IInv, ListenerOK, Adds, Slot
<1> QED BY <1>5, <1>6 DEF IInv

LEMMA StepCount ==
    ASSUME IInv, Count PROVE IInv'
<1>1. /\ lpc = "count" /\ lpc' = "queue" /\ len' = len + 1
      /\ UNCHANGED <<blocks, items, cap, lpeer, lslot, idle, mainVars>> /\ len \in Nat
  BY DEF Count, Goes, listenerOnly, IInv, TableOK
<1>2. Stays
  BY <1>1, SameStays DEF IInv, TableOK
<1>3. \A k \in 1..Len(idle) : idle[k].hpeer \in 1..len'
  BY <1>1 DEF IInv, MainOK
<1>4. MainOK'
  BY <1>1, <1>2, <1>3, MainStays DEF IInv, MainOK
<1>5. TableOK'
  BY <1>1 DEF IInv, TableOK, ListenerOK, Slot
<1>6. ListenerOK'
  BY <1>1 DEF IInv, ListenerOK, Adds
<1> QED BY <1>4, <1>5, <1>6 DEF IInv

LEMMA StepQueue ==
    ASSUME IInv, Queue PROVE IInv'
<1> DEFINE j == [fn |-> "IDLE_peer_online", hpeer |-> lpeer.hpeer]
<1>1. /\ lpc = "queue" /\ lpc' = "idle" /\ idle' = Append(idle, j)
      /\ lpeer' = NoPeer /\ lslot' = 0
      /\ UNCHANGED <<blocks, items, len, cap, mainVars>> /\ len \in Nat
  BY DEF Queue, Goes, tableVars, IInv, TableOK
<1>2. j \in Jobs /\ j.hpeer \in 1..len
  BY <1>1 DEF Jobs, IInv, ListenerOK
<1>3. idle' \in Seq(Jobs) /\ \A k \in 1..Len(idle') : idle'[k].hpeer \in 1..len
  <2> HIDE DEF j
  <2> QED BY <1>1, <1>2, AppendIdle
<1>4. Stays
  BY <1>1, SameStays DEF IInv, TableOK
<1>5. TableOK' /\ MainOK'
  BY <1>1, <1>3, <1>4, TableStays, MainStays
<1>6. ListenerOK'
  BY <1>1 DEF ListenerOK, Adds, NoPeer, Peers
<1> QED BY <1>5, <1>6 DEF IInv

LEMMA StepListener ==
    ASSUME IInv, Listener PROVE IInv'
BY StepTakeOffline, StepTakeOnline, StepReplace, StepMoveBegins, StepMoveSlot, StepSwitch,
   StepGrow, StepWrite, StepCount, StepQueue DEF Listener

----------------------------------------------------------------------------
(* The main thread *)

LEMMA StepRunIdle ==
    ASSUME IInv, RunIdle PROVE IInv'
<1>1. /\ idle # <<>> /\ job' = Head(idle) /\ idle' = Tail(idle) /\ gpc' = "check" /\ gslot' = 1
      /\ UNCHANGED <<blocks, items, len, cap, listenerVars, got>>
  BY DEF RunIdle, mainOnly
<1>2. Stays
  BY <1>1, SameStays DEF IInv, TableOK
<1>3. TableOK' /\ ListenerOK'
  BY <1>1, <1>2, ListenerStays
<1>4. job' \in Jobs /\ job'.hpeer \in 1..len
  BY <1>1 DEF IInv, MainOK
<1>5. idle' \in Seq(Jobs) /\ \A k \in 1..Len(idle') : idle'[k].hpeer \in 1..len
  BY <1>1 DEF IInv, MainOK
<1>6. MainOK'
  BY <1>1, <1>4, <1>5 DEF IInv, MainOK, TableOK
<1> QED BY <1>3, <1>6 DEF IInv

LEMMA StepSend ==
    ASSUME IInv, NEW h \in 1..len, Send(h) PROVE IInv'
<1>1. /\ job' = [fn |-> "CB_chatwin_send", hpeer |-> h] /\ gpc' = "check" /\ gslot' = 1
      /\ UNCHANGED <<blocks, items, len, cap, listenerVars, idle, got>> /\ len \in Nat
  BY DEF Send, mainOnly, IInv, TableOK
<1>2. Stays
  BY <1>1, SameStays DEF IInv, TableOK
<1>3. TableOK' /\ ListenerOK'
  BY <1>1, <1>2, ListenerStays
<1>4. job' \in Jobs /\ job'.hpeer \in 1..len
  BY <1>1 DEF Jobs
<1>5. MainOK'
  BY <1>1, <1>4 DEF IInv, MainOK
<1> QED BY <1>3, <1>5 DEF IInv

\* The loop ends at the slot of the handle, at the latest.
LEMMA StepSearch ==
    ASSUME IInv, Check \/ Item \/ Compare PROVE IInv'
<1>1. UNCHANGED <<blocks, items, len, cap, listenerVars, idle, job, got>>
  BY DEF Check, Item, Compare, mainOnly
<1>2. Stays
  BY <1>1, SameStays DEF IInv, TableOK
<1>3. TableOK' /\ ListenerOK'
  BY <1>1, <1>2, ListenerStays
<1>4. /\ job.hpeer \in 1..len /\ gslot \in 1..job.hpeer /\ len \in Nat /\ len <= cap
      /\ cap \in Nat /\ cap <= Len(blocks[items]) /\ items \in 1..Len(blocks)
  BY DEF IInv, MainOK, TableOK, Check, Item, Compare
<1>5. /\ idle' \in Seq(Jobs) /\ \A k \in 1..Len(idle') : idle'[k].hpeer \in 1..len'
      /\ job' \in Jobs /\ got' \in Peers /\ got'.hpeer <= len'
  BY <1>1 DEF IInv, MainOK
<1>6. CASE Check
  <2>1. gpc' = "item" /\ gslot' = gslot
    BY <1>4, <1>6 DEF Check
  <2> QED BY <1>1, <1>3, <1>4, <1>5, <2>1 DEF IInv, MainOK
<1>7. CASE Item
  <2>1. /\ gslot \in 1..len /\ gslot \in 1..Len(blocks[items])
        /\ blocks[items][gslot].hpeer = gslot
    BY <1>4 DEF IInv, TableOK, Slot
  <2>2. gpc' = "compare" /\ gblock' = items /\ gslot' = gslot
    BY <1>7 DEF Item
  <2> QED BY <1>1, <1>3, <1>4, <1>5, <2>1, <2>2 DEF IInv, MainOK
<1>8. CASE Compare
  <2>1. /\ gblock \in 1..Len(blocks) /\ gslot \in 1..Len(blocks[gblock])
        /\ blocks[gblock][gslot].hpeer = gslot /\ gblock' = gblock
    BY <1>8 DEF Compare, IInv, MainOK
  <2>2. CASE gslot = job.hpeer
    <3>1. gpc' = "use" /\ gslot' = gslot
      BY <1>8, <2>1, <2>2 DEF Compare
    <3> QED BY <1>1, <1>3, <1>4, <1>5, <2>1, <2>2, <3>1 DEF IInv, MainOK
  <2>3. CASE gslot # job.hpeer
    <3>1. gpc' = "check" /\ gslot' = gslot + 1
      BY <1>8, <2>1, <2>3 DEF Compare
    <3> QED BY <1>1, <1>3, <1>4, <1>5, <2>3, <3>1 DEF IInv, MainOK
  <2> QED BY <2>2, <2>3
<1> QED BY <1>6, <1>7, <1>8

\* What the pointer of the main thread points at
LEMMA UseSlot ==
    ASSUME IInv, gpc = "use"
    PROVE  /\ gblock \in 1..Len(blocks) /\ gslot \in 1..Len(blocks[gblock])
           /\ blocks[gblock][gslot] \in Peers /\ blocks[gblock][gslot].hpeer = gslot
           /\ gslot = job.hpeer /\ job.hpeer \in 1..len
<1>1. /\ gblock \in 1..Len(blocks) /\ gslot \in 1..Len(blocks[gblock])
      /\ blocks[gblock][gslot].hpeer = gslot
      /\ gslot = job.hpeer /\ job.hpeer \in 1..len
  BY DEF IInv, MainOK
<1>2. blocks[gblock] \in Seq(Peers)
  BY <1>1 DEF IInv, TableOK
<1> QED BY <1>1, <1>2

LEMMA StepUseData ==
    ASSUME IInv, UseData PROVE IInv'
<1>1. /\ gpc = "use" /\ got' = blocks[gblock][gslot]
      /\ UNCHANGED <<blocks, items, len, cap, listenerVars, idle>>
  BY DEF UseData, mainOnly
<1>2. Stays
  BY <1>1, SameStays DEF IInv, TableOK
<1>3. TableOK' /\ ListenerOK'
  BY <1>1, <1>2, ListenerStays
<1>4. /\ got' \in Peers /\ got'.hpeer = job.hpeer /\ got'.hpeer <= len
      /\ job.hpeer \in 1..len /\ len \in Nat
  BY <1>1, UseSlot DEF IInv, TableOK
<1>5. CASE job.fn = "IDLE_peer_offline"
  <2>1. job' = [job EXCEPT !.fn = "destroy_peer"] /\ gpc' = "check" /\ gslot' = 1
    BY <1>5 DEF UseData
  <2>2. job' \in Jobs /\ job'.hpeer = job.hpeer
    BY <2>1 DEF Jobs, IInv, MainOK
  <2> QED BY <1>1, <1>3, <1>4, <2>1, <2>2 DEF IInv, MainOK
<1>6. CASE job.fn # "IDLE_peer_offline"
  <2>1. NoJob \in Jobs
    BY DEF NoJob, Jobs
  <2> QED BY <1>1, <1>3, <1>4, <1>6, <2>1 DEF UseData, Back, IInv, MainOK
<1> QED BY <1>5, <1>6

LEMMA StepDestroy ==
    ASSUME IInv, Destroy PROVE IInv'
<1> DEFINE p == [blocks[gblock][gslot] EXCEPT !.active = FALSE]
<1>1. /\ gpc = "use" /\ blocks' = [blocks EXCEPT ![gblock][gslot] = p] /\ Back
      /\ UNCHANGED <<items, len, cap, listenerVars, idle, got>>
  BY DEF Destroy
<1>2. Writes(gblock, gslot, p)
  <2>1. p \in Peers /\ p.hpeer = gslot
    BY <1>1, UseSlot DEF Peers
  <2> QED BY <1>1, <2>1, UseSlot DEF Writes
<1>3. Stays /\ Len(blocks') = Len(blocks)
  BY <1>2, WritesStays DEF IInv, TableOK
<1>4. TableOK' /\ ListenerOK'
  BY <1>1, <1>3, ListenerStays
<1>5. MainOK'
  <2>1. NoJob \in Jobs
    BY DEF NoJob, Jobs
  <2> QED BY <1>1, <2>1 DEF Back, IInv, MainOK
<1> QED BY <1>4, <1>5 DEF IInv

LEMMA StepStutter ==
    ASSUME IInv, UNCHANGED vars PROVE IInv'
<1>1. Stays /\ UNCHANGED <<blocks, items, len, cap, listenerVars, idle, mainVars>> /\ len \in Nat
  BY SameStays DEF vars, tableVars, IInv, TableOK
<1>2. TableOK' /\ ListenerOK' /\ MainOK'
  BY <1>1, ListenerStays, IdleStays
<1> QED BY <1>2 DEF IInv

LEMMA StepOK == IInv /\ [Next]_vars => IInv'
BY StepListener, StepRunIdle, StepSend, StepSearch, StepUseData, StepDestroy, StepStutter
   DEF Next, Main

LEMMA AlwaysOK == Spec => []IInv
BY InitOK, StepOK, PTL DEF Spec

\* get_peer_data of the main thread finds every peer that a notice was queued for or that
\* the user writes to, wherever the listener has come with ArrayAppend (tmcommon.c, clib.c).
THEOREM PeersAreFound == Spec => []PeerIsFound
<1>1. IInv => PeerIsFound
  BY DEF IInv, MainOK, PeerIsFound
<1> QED BY <1>1, AlwaysOK, PTL

----------------------------------------------------------------------------
(* What the threads have of a peer *)

\* Every copy of a peer there is
Records ==
    {lpeer, got} \cup UNION {{blocks[b][k] : k \in 1..Len(blocks[b])} : b \in 1..Len(blocks)}

\* The handles that are given out: a peer that is being added has one.
Handles == IF lpc \in Adds THEN len + 1 ELSE len

\* A handle belongs to one address, and an address to one handle, in all of them.
RecordsOK ==
    /\ given \in [FromAddrs -> Seq(ToAddrs)]
    /\ got # NoPeer => got.hpeer # 0
    /\ \A p \in Records :
          p.hpeer # 0 => /\ p.fromaddr \in FromAddrs /\ p.toaddr \in ToSet(given[p.fromaddr])
                         /\ p.hpeer <= Handles
    /\ \A p, q \in Records :
          p.hpeer # 0 /\ q.hpeer # 0 => (p.hpeer = q.hpeer <=> p.fromaddr = q.fromaddr)

RInv == IInv /\ RecordsOK

\* A record after a step is as one before it, but for its address to send to.
Derived(p) ==
    p.hpeer # 0 =>
       /\ \E q \in Records : q.hpeer = p.hpeer /\ q.fromaddr = p.fromaddr
       /\ p.toaddr \in ToSet(given'[p.fromaddr])

LEMMA RecordIn ==
    ASSUME NEW b \in 1..Len(blocks), NEW k \in 1..Len(blocks[b])
    PROVE  blocks[b][k] \in Records
BY DEF Records

LEMMA RecordType ==
    ASSUME IInv, NEW p \in Records PROVE p \in Peers
<1>1. CASE p \in {lpeer, got}
  BY <1>1 DEF IInv, ListenerOK, MainOK
<1>2. ASSUME NEW b \in 1..Len(blocks), NEW k \in 1..Len(blocks[b]), p = blocks[b][k]
      PROVE  p \in Peers
  <2>1. blocks[b] \in Seq(Peers)
    BY DEF IInv, TableOK
  <2> QED BY <1>2, <2>1
<1> QED BY <1>1, <1>2 DEF Records

LEMMA DerivedOK ==
    ASSUME RInv, given' \in [FromAddrs -> Seq(ToAddrs)], got' # NoPeer => got'.hpeer # 0,
           \A p \in Records' : Derived(p), Handles' \in Nat, Handles <= Handles'
    PROVE  RecordsOK'
<1> USE DEF RInv
<1>1. ASSUME NEW p \in Records', p.hpeer # 0
      PROVE  /\ p.fromaddr \in FromAddrs /\ p.toaddr \in ToSet(given'[p.fromaddr])
             /\ p.hpeer <= Handles'
  <2>1. PICK q \in Records : q.hpeer = p.hpeer /\ q.fromaddr = p.fromaddr
    BY <1>1 DEF Derived
  <2>2. p.fromaddr \in FromAddrs /\ p.hpeer <= Handles
    BY <1>1, <2>1 DEF RecordsOK
  <2>3. p.hpeer \in Nat
    BY <2>1, RecordType DEF Peers
  <2>4. Handles \in Nat
    BY DEF Handles, IInv, TableOK
  <2>5. p.hpeer <= Handles'
    BY <2>2, <2>3, <2>4
  <2> QED BY <1>1, <2>2, <2>5 DEF Derived
<1>2. ASSUME NEW p \in Records', NEW q \in Records', p.hpeer # 0, q.hpeer # 0
      PROVE  p.hpeer = q.hpeer <=> p.fromaddr = q.fromaddr
  <2>1. PICK r \in Records : r.hpeer = p.hpeer /\ r.fromaddr = p.fromaddr
    BY <1>2 DEF Derived
  <2>2. PICK s \in Records : s.hpeer = q.hpeer /\ s.fromaddr = q.fromaddr
    BY <1>2 DEF Derived
  <2> QED BY <1>2, <2>1, <2>2 DEF RecordsOK
<1> QED BY <1>1, <1>2 DEF RecordsOK

\* Steps that give no address
LEMMA QuietOK ==
    ASSUME RInv, UNCHANGED given, Handles' = Handles,
           got' # NoPeer => got'.hpeer # 0,
           \A p \in Records' : p \in Records \/ Derived(p)
    PROVE  RecordsOK'
<1>1. \A p \in Records : Derived(p)
  BY DEF RInv, RecordsOK, Derived
<1>2. Handles' \in Nat /\ Handles <= Handles'
  BY DEF RInv, IInv, TableOK, Handles
<1>3. given' \in [FromAddrs -> Seq(ToAddrs)]
  BY DEF RInv, RecordsOK
<1> QED BY <1>1, <1>2, <1>3, DerivedOK

\* The records of a step that writes one slot, or no slot
LEMMA WritesRecords ==
    ASSUME IInv, NEW b, NEW k, NEW p, Writes(b, k, p)
    PROVE  Records' \subseteq Records \cup {lpeer', got', p}
<1>1. /\ Len(blocks') = Len(blocks) /\ blocks'[b][k] = p
      /\ \A c \in 1..Len(blocks) : \A j \in 1..Len(blocks[c]) :
            c # b \/ j # k => blocks'[c][j] = blocks[c][j]
      /\ \A c \in 1..Len(blocks) : Len(blocks'[c]) = Len(blocks[c])
  BY WritesStays DEF IInv, TableOK, Stays
<1>2. ASSUME NEW c \in 1..Len(blocks'), NEW j \in 1..Len(blocks'[c])
      PROVE  blocks'[c][j] \in Records \cup {p}
  <2>1. c \in 1..Len(blocks) /\ j \in 1..Len(blocks[c])
    BY <1>1
  <2>2. CASE c = b /\ j = k
    BY <1>1, <2>2
  <2>3. CASE c # b \/ j # k
    BY <1>1, <2>1, <2>3, RecordIn
  <2> QED BY <2>2, <2>3
<1> QED BY <1>2 DEF Records

LEMMA SameRecords ==
    ASSUME UNCHANGED blocks
    PROVE  Records' \subseteq Records \cup {lpeer', got'}
BY DEF Records

LEMMA RecordsInit == Init => RecordsOK
<1> SUFFICES ASSUME Init PROVE RecordsOK
  OBVIOUS
<1>1. NoPeer.hpeer = 0
  BY DEF NoPeer
<1>2. ASSUME NEW b \in 1..Len(blocks), NEW k \in 1..Len(blocks[b]) PROVE blocks[b][k].hpeer = 0
  <2>1. blocks[b] = NewBlock(InitCap)
    BY DEF Init
  <2> QED BY <2>1, NewBlockShape, PeerRaceAssumption
<1>3. \A p \in Records : p.hpeer = 0
  BY <1>1, <1>2 DEF Records, Init
<1>4. given \in [FromAddrs -> Seq(ToAddrs)] /\ got = NoPeer
  BY DEF Init
<1> QED BY <1>3, <1>4 DEF RecordsOK

\* Two records with one handle have one address.
LEMMA OneAddr ==
    ASSUME RInv, NEW p \in Records, NEW q \in Records, p.hpeer = q.hpeer, p.hpeer # 0
    PROVE  p.fromaddr = q.fromaddr
BY DEF RInv, RecordsOK

LEMMA RecordsReplace ==
    ASSUME RInv, ReplaceToaddr \/ ReplaceActive PROVE RecordsOK'
<1>1. PICK p \in {[Slot(lslot) EXCEPT !.toaddr = lpeer.toaddr], [Slot(lslot) EXCEPT !.active = TRUE]} :
         blocks' = [blocks EXCEPT ![items][lslot] = p]
  BY DEF ReplaceToaddr, ReplaceActive, Slot
<1>2. lpc \in {"toaddr", "active"} /\ lpc' \in {"active", "queue"}
      /\ UNCHANGED <<items, len, cap, lpeer, lslot, got, given>>
  BY DEF ReplaceToaddr, ReplaceActive, Goes, listenerOnly, mainVars
<1>3. Writes(items, lslot, p)
  BY <1>1, <1>2, ReplaceWrites DEF RInv
<1>4. Slot(lslot) \in Records /\ lpeer \in Records
  BY <1>3, RecordIn DEF Writes, Slot, Records
<1>5. Slot(lslot).hpeer = lpeer.hpeer /\ lpeer.hpeer # 0
      /\ Slot(lslot) \in Peers
  <2>1. lslot = lpeer.hpeer /\ lslot \in 1..len /\ Slot(lslot).hpeer = lslot /\ len \in Nat
    BY <1>2 DEF RInv, IInv, ListenerOK, TableOK
  <2> QED BY <1>4, <2>1, RecordType DEF RInv
<1>6. Slot(lslot).fromaddr = lpeer.fromaddr
  BY <1>4, <1>5, OneAddr
<1>7. /\ p.hpeer = Slot(lslot).hpeer /\ p.fromaddr = Slot(lslot).fromaddr
      /\ p.toaddr \in {Slot(lslot).toaddr, lpeer.toaddr}
  BY <1>5 DEF Peers
<1>8. p.toaddr \in ToSet(given[p.fromaddr])
  BY <1>4, <1>5, <1>6, <1>7 DEF RInv, RecordsOK
<1>9. Derived(p)
  BY <1>2, <1>4, <1>7, <1>8 DEF Derived
<1>10. Records' \subseteq Records \cup {p}
  BY <1>2, <1>3, WritesRecords DEF RInv, Records
<1>11. Handles' = Handles
  BY <1>2 DEF Handles, Adds
<1> QED BY <1>2, <1>9, <1>10, <1>11, QuietOK DEF RInv, RecordsOK

LEMMA RecordsMoveBegins ==
    ASSUME RInv, MoveBegins PROVE RecordsOK'
<1>1. /\ lpc = "move" /\ lpc' = "switch"
      /\ blocks' = Append(blocks, NewBlock(2 * cap))
      /\ UNCHANGED <<len, lpeer, got, given>>
  BY DEF MoveBegins, Goes, listenerOnly, mainVars
<1>2. /\ Len(NewBlock(2 * cap)) = 2 * cap
      /\ \A k \in 1..2 * cap : NewBlock(2 * cap)[k].hpeer = 0
  BY NewBlockShape DEF RInv, IInv, TableOK
<1>3. ASSUME NEW b \in 1..Len(blocks'), NEW k \in 1..Len(blocks'[b])
      PROVE  blocks'[b][k] \in Records \/ blocks'[b][k].hpeer = 0
  <2>1. CASE b \in 1..Len(blocks)
    <3>1. blocks'[b] = blocks[b]
      BY <1>1, <2>1 DEF RInv, IInv, TableOK
    <3> QED BY <2>1, <3>1, RecordIn
  <2>2. CASE b \notin 1..Len(blocks)
    <3>1. blocks \in Seq(Seq(Peers)) /\ NewBlock(2 * cap) \in Seq(Peers)
      BY NewBlockShape DEF RInv, IInv, TableOK
    <3>2. Len(blocks') = Len(blocks) + 1 /\ blocks'[Len(blocks) + 1] = NewBlock(2 * cap)
      BY <1>1, <3>1
    <3>3. b = Len(blocks) + 1
      BY <2>2, <3>1, <3>2
    <3> QED BY <1>2, <3>2, <3>3
  <2> QED BY <2>1, <2>2
<1>4. \A p \in Records' : p \in Records \/ Derived(p)
  BY <1>1, <1>3 DEF Records, Derived
<1>5. Handles' = Handles
  BY <1>1 DEF Handles, Adds
<1> QED BY <1>1, <1>4, <1>5, QuietOK DEF RInv, RecordsOK

\* The listener copies a slot, or writes the peer it adds.
LEMMA RecordsCopy ==
    ASSUME RInv, MoveSlot \/ Write PROVE RecordsOK'
<1>1. PICK p \in Records : \E b, k : Writes(b, k, p)
  <2>1. CASE MoveSlot
    <3> DEFINE b == Len(blocks)
               k == lslot + 1
    <3>1. /\ items < b /\ Len(blocks[b]) = 2 * cap /\ lslot \in Nat /\ b \in 1..Len(blocks)
          /\ lslot < cap /\ len = cap /\ cap \in Nat
          /\ blocks' = [blocks EXCEPT ![b][k] = Slot(k)]
      BY <2>1 DEF MoveSlot, RInv, IInv, TableOK, ListenerOK
    <3>2. k \in 1..len /\ k \in 1..Len(blocks[b]) /\ k \in 1..Len(blocks[items])
      BY <3>1 DEF RInv, IInv, TableOK
    <3>3. Slot(k) \in Peers /\ Slot(k).hpeer = k /\ Slot(k) \in Records
      BY <3>2, SlotType, RecordIn DEF RInv, IInv, TableOK, Slot
    <3> QED BY <3>1, <3>2, <3>3 DEF Writes
  <2>2. CASE Write
    <3>1. /\ lslot = len + 1 /\ lslot <= cap /\ lpeer \in Peers /\ lpeer.hpeer = lslot
          /\ lslot \in 1..Len(blocks[items]) /\ items \in 1..Len(blocks)
          /\ blocks' = [blocks EXCEPT ![items][lslot] = lpeer]
      BY <2>2 DEF Write, WriteItem, Goes, RInv, IInv, TableOK, ListenerOK, Adds
    <3>2. lpeer \in Records
      BY DEF Records
    <3> QED BY <3>1, <3>2 DEF Writes
  <2> QED BY <2>1, <2>2
<1>2. lpc \in Adds /\ lpc' \in Adds /\ UNCHANGED <<len, lpeer, got, given>>
  BY DEF MoveSlot, Write, Goes, listenerOnly, mainVars, Adds
<1>3. Records' \subseteq Records
  BY <1>1, <1>2, WritesRecords DEF RInv, Records
<1>4. Handles' = Handles
  BY <1>2 DEF Handles
<1> QED BY <1>2, <1>3, <1>4, QuietOK DEF RInv, RecordsOK

\* Steps that write no slot
LEMMA RecordsElse ==
    ASSUME RInv, UNCHANGED <<blocks, given>>, lpeer' \in {lpeer, NoPeer},
           Handles' = Handles, got' \in Records, got' # NoPeer => got'.hpeer # 0
    PROVE  RecordsOK'
<1>1. NoPeer.hpeer = 0
  BY DEF NoPeer
<1>2. lpeer \in Records
  BY DEF Records
<1>3. \A p \in Records' : p \in Records \/ Derived(p)
  BY <1>1, <1>2, SameRecords DEF Derived
<1> QED BY <1>3, QuietOK

LEMMA AppendToSet ==
    ASSUME NEW S, NEW f \in Seq(S), NEW x \in S
    PROVE  /\ Append(f, x) \in Seq(S) /\ x \in ToSet(Append(f, x))
           /\ ToSet(f) \subseteq ToSet(Append(f, x))
           /\ Last(Append(f, x)) = x
<1>1. /\ Append(f, x) \in Seq(S) /\ Len(Append(f, x)) = Len(f) + 1 /\ Len(f) \in Nat
      /\ Append(f, x)[Len(f) + 1] = x
      /\ \A k \in 1..Len(f) : Append(f, x)[k] = f[k]
  OBVIOUS
<1>2. /\ x \in ToSet(Append(f, x))
      /\ ToSet(f) \subseteq ToSet(Append(f, x))
  BY <1>1 DEF ToSet
<1> QED BY <1>1, <1>2 DEF Last

\* A notice gives an address, and takes none back.
LEMMA GivenOnline ==
    ASSUME RInv, NEW a \in FromAddrs, NEW to \in ToAddrs, TakeOnline(a, to)
    PROVE  /\ given' \in [FromAddrs -> Seq(ToAddrs)]
           /\ to \in ToSet(given'[a]) /\ Last(given'[a]) = to
           /\ \A b \in FromAddrs : ToSet(given[b]) \subseteq ToSet(given'[b])
           /\ \A b \in FromAddrs : b # a => given'[b] = given[b]
<1>1. given \in [FromAddrs -> Seq(ToAddrs)] /\ given' = [given EXCEPT ![a] = Append(@, to)]
  BY DEF TakeOnline, RInv, RecordsOK
<1>2. given[a] \in Seq(ToAddrs)
  BY <1>1
<1>3. /\ Append(given[a], to) \in Seq(ToAddrs) /\ to \in ToSet(Append(given[a], to))
      /\ ToSet(given[a]) \subseteq ToSet(Append(given[a], to)) /\ Last(Append(given[a], to)) = to
  BY <1>2, AppendToSet
<1>4. given'[a] = Append(given[a], to) /\ \A b \in FromAddrs : b # a => given'[b] = given[b]
  BY <1>1
<1>5. \A b \in FromAddrs : ToSet(given[b]) \subseteq ToSet(given'[b])
  BY <1>3, <1>4
<1> QED BY <1>1, <1>3, <1>4, <1>5

LEMMA RecordsOnlineKnown ==
    ASSUME RInv, NEW a \in FromAddrs, NEW to \in ToAddrs, TakeOnline(a, to), SlotOf(a) # {}
    PROVE  RecordsOK'
<1>1. /\ lslot' = Min(SlotOf(a)) /\ lpeer' = [Slot(lslot') EXCEPT !.toaddr = to]
      /\ lpc = "idle" /\ lpc' = "toaddr"
      /\ UNCHANGED <<blocks, len, got>>
  BY DEF TakeOnline, Takes, tableVars, mainVars
<1>2. /\ lslot' \in 1..len /\ Slot(lslot').fromaddr = a
  <2>1. lslot' \in SlotOf(a)
    <3>1. SlotOf(a) \subseteq Nat
      BY DEF SlotOf, RInv, IInv, TableOK
    <3> QED BY <1>1, <3>1, MinIn
  <2> QED BY <2>1 DEF SlotOf
<1>3. Slot(lslot') \in Records /\ Slot(lslot') \in Peers
  <2>1. lslot' \in 1..Len(blocks[items]) /\ items \in 1..Len(blocks)
    BY <1>2 DEF RInv, IInv, TableOK
  <2> QED BY <2>1, RecordIn, RecordType DEF Slot, RInv
<1>4. lpeer'.hpeer = Slot(lslot').hpeer /\ lpeer'.fromaddr = a /\ lpeer'.toaddr = to
  BY <1>1, <1>2, <1>3 DEF Peers
<1>5. Derived(lpeer')
  BY <1>2, <1>3, <1>4, GivenOnline DEF Derived
<1>6. \A p \in Records : Derived(p)
  <2> SUFFICES ASSUME NEW p \in Records, p.hpeer # 0 PROVE Derived(p)
    BY DEF Derived
  <2>1. p.fromaddr \in FromAddrs /\ p.toaddr \in ToSet(given[p.fromaddr])
    BY DEF RInv, RecordsOK
  <2> QED BY <2>1, GivenOnline DEF Derived
<1>7. \A p \in Records' : Derived(p)
  BY <1>1, <1>5, <1>6, SameRecords DEF Records
<1>8. Handles' = Handles /\ Handles' \in Nat /\ Handles \in Nat
  BY <1>1 DEF Handles, Adds, RInv, IInv, TableOK
<1>9. got' # NoPeer => got'.hpeer # 0
  BY <1>1 DEF RInv, RecordsOK
<1>10. Handles <= Handles'
  BY <1>8
<1> QED BY <1>7, <1>8, <1>9, <1>10, GivenOnline, DerivedOK

\* A peer that no slot has gets a handle that no record has.
LEMMA RecordsOnlineNew ==
    ASSUME RInv, NEW a \in FromAddrs, NEW to \in ToAddrs, TakeOnline(a, to), SlotOf(a) = {}
    PROVE  RecordsOK'
<1> DEFINE new == [hpeer |-> len + 1, fromaddr |-> a, toaddr |-> to, active |-> TRUE]
<1>1. /\ lpeer' = new /\ lpc = "idle" /\ lpc' \in Adds
      /\ UNCHANGED <<blocks, len, got>> /\ len \in Nat
  BY DEF TakeOnline, Takes, tableVars, mainVars, Adds, RInv, IInv, TableOK
<1>2. new.hpeer = len + 1 /\ new.fromaddr = a /\ new.toaddr = to
  OBVIOUS
<1> HIDE DEF new
<1>3. Records' \subseteq Records \cup {new}
  BY <1>1, SameRecords DEF Records
<1>4. \A p \in Records : p.hpeer # 0 => p.hpeer \in 1..len /\ p.fromaddr # a
  <2> SUFFICES ASSUME NEW p \in Records, p.hpeer # 0 PROVE p.hpeer \in 1..len /\ p.fromaddr # a
    OBVIOUS
  <2>1. p.hpeer \in Nat
    BY RecordType DEF RInv, Peers
  <2>2. p.hpeer <= len
    BY <1>1 DEF RInv, RecordsOK, Handles, Adds
  <2>3. p.hpeer \in 1..len
    BY <1>1, <2>1, <2>2
  <2>4. Slot(p.hpeer) \in Records /\ Slot(p.hpeer).hpeer = p.hpeer
    <3>1. p.hpeer \in 1..Len(blocks[items]) /\ items \in 1..Len(blocks)
      BY <2>3 DEF RInv, IInv, TableOK
    <3> QED BY <2>3, <3>1, RecordIn DEF Slot, RInv, IInv, TableOK
  <2>5. Slot(p.hpeer).fromaddr # a
    BY <2>3 DEF SlotOf
  <2>6. Slot(p.hpeer).fromaddr = p.fromaddr
    BY <2>4, OneAddr
  <2> QED BY <2>3, <2>5, <2>6
<1>5. Handles' = len + 1 /\ Handles = len
  BY <1>1 DEF Handles, Adds
<1>6. ASSUME NEW p \in Records', p.hpeer # 0
      PROVE  /\ p.fromaddr \in FromAddrs /\ p.toaddr \in ToSet(given'[p.fromaddr])
             /\ p.hpeer <= Handles'
  <2>1. CASE p = new
    BY <1>2, <1>5, <1>1, <2>1, GivenOnline
  <2>2. CASE p \in Records
    <3>1. p.fromaddr \in FromAddrs /\ p.toaddr \in ToSet(given[p.fromaddr]) /\ p.hpeer <= len
      BY <1>5, <1>6, <2>2 DEF RInv, RecordsOK
    <3> QED BY <1>1, <1>4, <1>5, <1>6, <2>2, <3>1, GivenOnline
  <2> QED BY <1>3, <2>1, <2>2
<1>7. ASSUME NEW p \in Records', NEW q \in Records', p.hpeer # 0, q.hpeer # 0
      PROVE  p.hpeer = q.hpeer <=> p.fromaddr = q.fromaddr
  <2>1. CASE p \in Records /\ q \in Records
    BY <1>7, <2>1 DEF RInv, RecordsOK
  <2>2. CASE p = new /\ q = new
    BY <2>2
  <2>3. CASE p = new /\ q \in Records
    BY <1>1, <1>2, <1>4, <1>7, <2>3
  <2>4. CASE p \in Records /\ q = new
    BY <1>1, <1>2, <1>4, <1>7, <2>4
  <2> QED BY <1>3, <2>1, <2>2, <2>3, <2>4
<1>8. given' \in [FromAddrs -> Seq(ToAddrs)] /\ (got' # NoPeer => got'.hpeer # 0)
  BY <1>1, GivenOnline DEF RInv, RecordsOK
<1> QED BY <1>6, <1>7, <1>8 DEF RecordsOK

LEMMA RecordsDestroy ==
    ASSUME RInv, Destroy PROVE RecordsOK'
<1> DEFINE q == blocks[gblock][gslot]
           p == [q EXCEPT !.active = FALSE]
<1>1. /\ gpc = "use" /\ blocks' = [blocks EXCEPT ![gblock][gslot] = p]
      /\ UNCHANGED <<len, lpc, lpeer, got, given>>
  BY DEF Destroy, listenerVars
<1>2. /\ gblock \in 1..Len(blocks) /\ gslot \in 1..Len(blocks[gblock])
      /\ q \in Peers /\ q.hpeer = gslot /\ q \in Records
  BY <1>1, UseSlot, RecordIn DEF RInv
<1> HIDE DEF q
<1>3. /\ p \in Peers /\ p.hpeer = gslot /\ p.fromaddr = q.fromaddr /\ p.toaddr = q.toaddr
  BY <1>2 DEF Peers
<1>4. Writes(gblock, gslot, p)
  BY <1>1, <1>2, <1>3 DEF Writes
<1>5. Derived(p)
  BY <1>1, <1>2, <1>3 DEF Derived, RInv, RecordsOK
<1> HIDE DEF p
<1>6. Records' \subseteq Records \cup {p}
  BY <1>1, <1>4, WritesRecords DEF RInv, Records
<1>7. Handles' = Handles
  BY <1>1 DEF Handles
<1> QED BY <1>1, <1>5, <1>6, <1>7, QuietOK DEF RInv, RecordsOK

LEMMA RecordsStep == RInv /\ [Next]_vars => RInv'
<1> SUFFICES ASSUME RInv, [Next]_vars PROVE RecordsOK'
  BY StepOK DEF RInv
<1>1. got \in Records /\ (got # NoPeer => got.hpeer # 0)
  BY DEF Records, RInv, RecordsOK
<1>2. CASE \E a \in FromAddrs : TakeOffline(a)
  BY <1>1, <1>2, RecordsElse DEF TakeOffline, tableVars, listenerVars, mainVars, Handles
<1>3. CASE \E a \in FromAddrs, to \in ToAddrs : TakeOnline(a, to)
  BY <1>3, RecordsOnlineKnown, RecordsOnlineNew
<1>4. CASE ReplaceToaddr \/ ReplaceActive
  BY <1>4, RecordsReplace
<1>5. CASE MoveBegins
  BY <1>5, RecordsMoveBegins
<1>6. CASE MoveSlot \/ Write
  BY <1>6, RecordsCopy
<1>7. CASE Switch \/ Grow
  BY <1>1, <1>7, RecordsElse
     DEF Switch, MoveIsDone, Grow, Goes, listenerOnly, mainVars, Handles, Adds
<1>8. CASE Count
  <2>1. Handles' = Handles
    BY <1>8 DEF Count, Goes, Handles, Adds
  <2> QED BY <1>1, <1>8, <2>1, RecordsElse DEF Count, listenerOnly, mainVars
<1>9. CASE Queue
  <2>1. Handles' = Handles
    BY <1>9 DEF Queue, Goes, Handles, Adds, tableVars
  <2> QED BY <1>1, <1>9, <2>1, RecordsElse DEF Queue, tableVars, mainVars
<1>10. CASE RunIdle \/ Check \/ Item \/ Compare \/ \E h \in 1..len : Send(h)
  BY <1>1, <1>10, RecordsElse
     DEF RunIdle, Check, Item, Compare, Send, mainOnly, listenerVars, Handles
<1>11. CASE UseData
  <2>1. /\ got' = blocks[gblock][gslot] /\ gpc = "use"
        /\ UNCHANGED <<blocks, given, lpeer, lpc, len>>
    BY <1>11 DEF UseData, mainOnly, listenerVars
  <2>2. got' \in Records /\ got'.hpeer # 0
    BY <2>1, UseSlot, RecordIn DEF RInv
  <2>3. Handles' = Handles
    BY <2>1 DEF Handles
  <2> QED BY <2>1, <2>2, <2>3, RecordsElse
<1>12. CASE Destroy
  BY <1>12, RecordsDestroy
<1>13. CASE UNCHANGED vars
  BY <1>1, <1>13, RecordsElse DEF vars, tableVars, listenerVars, mainVars, Handles
<1> QED BY <1>2, <1>3, <1>4, <1>5, <1>6, <1>7, <1>8, <1>9, <1>10, <1>11, <1>12, <1>13
       DEF Next, Listener, Main

LEMMA RecordsAlwaysOK == Spec => []RInv
<1>1. Init => RInv
  BY InitOK, RecordsInit DEF RInv
<1> QED BY <1>1, RecordsStep, PTL DEF Spec

LEMMA MinOfOne ==
    ASSUME NEW S, NEW k \in S, k \in Nat, \A j \in S : j = k
    PROVE  Min(S) = k
<1>1. S \subseteq Nat
  OBVIOUS
<1> QED BY <1>1, MinIn

\* get_peer_data of the main thread copies the slot of the peer it was asked for, whatever
\* block it reads it from, with an address that was given for that peer (tmcommon.c).
THEOREM DataIsTrue == Spec => []DataIsOfThePeer
<1>1. RInv => DataIsOfThePeer
  <2> SUFFICES ASSUME RInv, got # NoPeer
               PROVE  /\ got.hpeer = Min({k \in 1..len : Slot(k).fromaddr = got.fromaddr})
                      /\ got.toaddr \in ToSet(given[got.fromaddr])
    BY DEF DataIsOfThePeer
  <2>1. got \in Records /\ got.hpeer # 0 /\ got \in Peers
    BY DEF RInv, RecordsOK, Records, IInv, MainOK
  <2>2. got.hpeer \in 1..len
    <3>1. got.hpeer \in Nat /\ got.hpeer <= len /\ len \in Nat
      BY <2>1 DEF Peers, RInv, IInv, TableOK, MainOK
    <3> QED BY <2>1, <3>1
  <2>3. ASSUME NEW k \in 1..len
        PROVE  Slot(k) \in Records /\ Slot(k).hpeer = k /\ k # 0
    <3>1. k \in 1..Len(blocks[items]) /\ items \in 1..Len(blocks)
      BY DEF RInv, IInv, TableOK
    <3> QED BY <3>1, RecordIn DEF Slot, RInv, IInv, TableOK
  <2> DEFINE S == {k \in 1..len : Slot(k).fromaddr = got.fromaddr}
  <2>4. got.hpeer \in S
    BY <2>1, <2>2, <2>3, OneAddr
  <2>5. \A k \in S : k = got.hpeer
    BY <2>1, <2>3 DEF RInv, RecordsOK
  <2>6. Min(S) = got.hpeer
    BY <2>2, <2>4, <2>5, MinOfOne
  <2> QED BY <2>1, <2>6 DEF RInv, RecordsOK
<1> QED BY <1>1, RecordsAlwaysOK, PTL

----------------------------------------------------------------------------
(* The addresses of the table *)

\* The slots have the latest addresses, but for what the listener has not written yet.
LatestOK ==
    /\ \A k \in 1..len : \/ Slot(k).toaddr = Last(given[Slot(k).fromaddr])
                         \/ lpc = "toaddr" /\ k = lslot
    /\ lpc # "idle" => lpeer.toaddr = Last(given[lpeer.fromaddr])
    /\ lpc = "switch" => \A k \in 1..lslot : blocks[Len(blocks)][k].toaddr = Slot(k).toaddr
    /\ lpc = "count" => /\ Slot(lslot).toaddr = lpeer.toaddr
                        /\ Slot(lslot).fromaddr = lpeer.fromaddr
    /\ \A a \in FromAddrs :
          given[a] # <<>> => \/ \E k \in 1..len : Slot(k).fromaddr = a
                             \/ lpc \in Adds /\ lpeer.fromaddr = a

LInv == RInv /\ LatestOK

LEMMA SlotIs ==
    ASSUME RInv, NEW k \in 1..len
    PROVE  /\ k \in Nat /\ k # 0 /\ items \in 1..Len(blocks) /\ k \in 1..Len(blocks[items])
           /\ Slot(k) \in Records /\ Slot(k) \in Peers /\ Slot(k).hpeer = k
           /\ Slot(k).fromaddr \in FromAddrs
           /\ Slot(k).toaddr \in ToSet(given[Slot(k).fromaddr])
<1>1. /\ k \in Nat /\ k # 0 /\ items \in 1..Len(blocks) /\ k \in 1..Len(blocks[items])
      /\ Slot(k).hpeer = k
  BY DEF RInv, IInv, TableOK
<1>2. Slot(k) \in Records
  BY <1>1, RecordIn DEF Slot
<1> QED BY <1>1, <1>2, RecordType DEF RInv, RecordsOK

\* One slot of the table per address
LEMMA OneSlot ==
    ASSUME RInv, NEW j \in 1..len, NEW k \in 1..len, Slot(j).fromaddr = Slot(k).fromaddr
    PROVE  j = k
<1>1. /\ Slot(j) \in Records /\ Slot(j).hpeer = j /\ j # 0
      /\ Slot(k) \in Records /\ Slot(k).hpeer = k /\ k # 0
  BY SlotIs
<1> QED BY <1>1 DEF RInv, RecordsOK

LEMMA LatestInit == Init => LatestOK
BY DEF Init, LatestOK

\* Steps that write no slot of the table and no copy of it
LEMMA LatestElse ==
    ASSUME LInv, UNCHANGED <<blocks, items, len, lpc, lpeer, lslot, given>>
    PROVE  LatestOK'
BY DEF LInv, LatestOK, Slot

LEMMA LatestOnline ==
    ASSUME LInv, NEW a \in FromAddrs, NEW to \in ToAddrs, TakeOnline(a, to)
    PROVE  LatestOK'
<1>1. lpc = "idle" /\ UNCHANGED <<blocks, items, len>> /\ \A k : Slot(k)' = Slot(k)
  BY DEF TakeOnline, Takes, tableVars, Slot
<1>2. /\ Last(given'[a]) = to
      /\ \A b \in FromAddrs : b # a => given'[b] = given[b]
  BY GivenOnline DEF LInv
<1>3. \A k \in 1..len : Slot(k).fromaddr # a => Slot(k).toaddr = Last(given'[Slot(k).fromaddr])
  BY <1>1, <1>2, SlotIs DEF LInv, LatestOK
<1>4. CASE SlotOf(a) # {}
  <2>1. /\ lslot' = Min(SlotOf(a)) /\ lpeer' = [Slot(lslot') EXCEPT !.toaddr = to]
        /\ lpc' = "toaddr"
    BY <1>4 DEF TakeOnline
  <2>2. /\ lslot' \in 1..len /\ Slot(lslot').fromaddr = a
    <3>1. SlotOf(a) \subseteq Nat
      BY DEF SlotOf, LInv, RInv, IInv, TableOK
    <3>2. lslot' \in SlotOf(a)
      BY <1>4, <2>1, <3>1, MinIn
    <3> QED BY <3>2 DEF SlotOf
  <2>3. lpeer'.toaddr = to /\ lpeer'.fromaddr = a
    <3>1. Slot(lslot') \in Peers
      BY <2>2, SlotIs DEF LInv
    <3> QED BY <2>1, <2>2, <3>1 DEF Peers
  <2>4. \A k \in 1..len : Slot(k).fromaddr = a => k = lslot'
    BY <2>2, OneSlot DEF LInv
  <2>5. \A k \in 1..len' : \/ Slot(k)'.toaddr = Last(given'[Slot(k)'.fromaddr])
                           \/ lpc' = "toaddr" /\ k = lslot'
    BY <1>1, <1>3, <2>1, <2>4
  <2>6. \A b \in FromAddrs : given'[b] # <<>> => \E k \in 1..len' : Slot(k)'.fromaddr = b
    <3> SUFFICES ASSUME NEW b \in FromAddrs, given'[b] # <<>>
                 PROVE  \E k \in 1..len : Slot(k).fromaddr = b
      BY <1>1
    <3>1. CASE b = a
      BY <2>2, <3>1
    <3>2. CASE b # a
      BY <1>1, <1>2, <3>2 DEF LInv, LatestOK, Adds
    <3> QED BY <3>1, <3>2
  <2>7. lpeer'.toaddr = Last(given'[lpeer'.fromaddr])
    BY <1>2, <2>3
  <2> QED BY <1>1, <2>1, <2>5, <2>6, <2>7 DEF LatestOK, Slot
<1>5. CASE SlotOf(a) = {}
  <2>1. /\ lpeer'.fromaddr = a /\ lpeer'.toaddr = to /\ lpc' \in {"move", "write"}
    BY <1>5 DEF TakeOnline
  <2>2. \A k \in 1..len : Slot(k).fromaddr # a
    BY <1>5 DEF SlotOf
  <2>3. \A k \in 1..len' : Slot(k)'.toaddr = Last(given'[Slot(k)'.fromaddr])
    BY <1>1, <1>3, <2>2
  <2>4. \A b \in FromAddrs :
           given'[b] # <<>> => b = a \/ \E k \in 1..len' : Slot(k)'.fromaddr = b
    BY <1>1, <1>2 DEF LInv, LatestOK, Adds
  <2>5. lpeer'.toaddr = Last(given'[lpeer'.fromaddr])
    BY <1>2, <2>1
  <2> QED BY <1>1, <2>1, <2>3, <2>4, <2>5 DEF LatestOK, Slot, Adds
<1> QED BY <1>4, <1>5

\* Steps that write nothing but the flag of a slot, or no slot of the table
LEMMA LatestKeeps ==
    ASSUME LInv, UNCHANGED <<items, len, lpeer, given>>,
           \A k \in 1..len : /\ Slot(k)'.toaddr = Slot(k).toaddr
                             /\ Slot(k)'.fromaddr = Slot(k).fromaddr,
           lpc # "idle", lpc # "toaddr", lpc' \notin {"idle", "toaddr"},
           lpc' = "switch" => \A k \in 1..lslot' : blocks'[Len(blocks')][k].toaddr = Slot(k)'.toaddr,
           lpc' = "count" => /\ Slot(lslot)'.toaddr = lpeer.toaddr
                             /\ Slot(lslot)'.fromaddr = lpeer.fromaddr,
           lpc \in Adds => lpc' \in Adds
    PROVE  LatestOK'
<1>1. \A k \in 1..len' : Slot(k)'.toaddr = Last(given'[Slot(k)'.fromaddr])
  BY DEF LInv, LatestOK
<1>2. lpeer'.toaddr = Last(given'[lpeer'.fromaddr])
  BY DEF LInv, LatestOK
<1>3. \A a \in FromAddrs :
         given'[a] # <<>> => \/ \E k \in 1..len' : Slot(k)'.fromaddr = a
                             \/ lpc' \in Adds /\ lpeer'.fromaddr = a
  BY DEF LInv, LatestOK
<1> QED BY <1>1, <1>2, <1>3 DEF LatestOK

LEMMA LatestReplaceToaddr ==
    ASSUME LInv, ReplaceToaddr PROVE LatestOK'
<1> DEFINE p == [Slot(lslot) EXCEPT !.toaddr = lpeer.toaddr]
<1>1. /\ lpc = "toaddr" /\ lpc' = "active" /\ blocks' = [blocks EXCEPT ![items][lslot] = p]
      /\ UNCHANGED <<items, len, lpeer, lslot, given>>
  BY DEF ReplaceToaddr, Goes, listenerOnly, Slot
<1>2. Writes(items, lslot, p)
  BY <1>1, ReplaceWrites DEF LInv, RInv
<1>3. /\ lslot \in 1..len /\ lslot = lpeer.hpeer
  BY <1>1 DEF LInv, RInv, IInv, ListenerOK
<1>4. Slot(lslot).fromaddr = lpeer.fromaddr
  <2>1. /\ Slot(lslot) \in Records /\ Slot(lslot).hpeer = lpeer.hpeer /\ lpeer.hpeer # 0
        /\ lpeer \in Records
    BY <1>3, SlotIs DEF LInv, Records
  <2> QED BY <2>1, OneAddr DEF LInv
<1>5. p.toaddr = lpeer.toaddr /\ p.fromaddr = lpeer.fromaddr
  <2>1. Slot(lslot) \in Peers
    BY <1>3, SlotIs DEF LInv
  <2> QED BY <1>4, <2>1 DEF Peers
<1> HIDE DEF p
<1>6. Slot(lslot)' = p /\ \A k \in 1..len : k # lslot => Slot(k)' = Slot(k)
  <2>1. /\ blocks'[items][lslot] = p
        /\ \A k \in 1..Len(blocks[items]) : k # lslot => blocks'[items][k] = blocks[items][k]
        /\ items \in 1..Len(blocks)
    BY <1>2, WritesStays DEF LInv, RInv, IInv, TableOK, Writes
  <2>2. \A k \in 1..len : k \in 1..Len(blocks[items])
    BY SlotIs DEF LInv
  <2> QED BY <1>1, <2>1, <2>2 DEF Slot
<1>7. lpeer.toaddr = Last(given[lpeer.fromaddr])
  BY <1>1 DEF LInv, LatestOK
<1>8. \A k \in 1..len' : Slot(k)'.toaddr = Last(given'[Slot(k)'.fromaddr])
  <2> SUFFICES ASSUME NEW k \in 1..len PROVE Slot(k)'.toaddr = Last(given[Slot(k)'.fromaddr])
    BY <1>1
  <2>1. CASE k = lslot
    BY <1>1, <1>5, <1>6, <1>7, <2>1
  <2>2. CASE k # lslot
    BY <1>1, <1>6, <2>2 DEF LInv, LatestOK
  <2> QED BY <2>1, <2>2
<1>9. \A a \in FromAddrs : given'[a] # <<>> => \E k \in 1..len' : Slot(k)'.fromaddr = a
  <2> SUFFICES ASSUME NEW a \in FromAddrs, given[a] # <<>>
               PROVE  \E k \in 1..len : Slot(k)'.fromaddr = a
    BY <1>1
  <2>1. PICK k \in 1..len : Slot(k).fromaddr = a
    BY <1>1 DEF LInv, LatestOK, Adds
  <2>2. Slot(k)'.fromaddr = a
    BY <1>1, <1>4, <1>5, <1>6, <2>1
  <2> QED BY <2>2
<1> QED BY <1>1, <1>7, <1>8, <1>9 DEF LatestOK

\* A flag that is written leaves the addresses alone.
LEMMA FlagKeeps ==
    ASSUME LInv, NEW b, NEW k, NEW p, Writes(b, k, p), UNCHANGED items,
           p.toaddr = blocks[b][k].toaddr, p.fromaddr = blocks[b][k].fromaddr
    PROVE  /\ Len(blocks') = Len(blocks)
           /\ \A c \in 1..Len(blocks) : \A j \in 1..Len(blocks[c]) :
                 /\ blocks'[c][j].toaddr = blocks[c][j].toaddr
                 /\ blocks'[c][j].fromaddr = blocks[c][j].fromaddr
           /\ \A j \in 1..len : /\ Slot(j)'.toaddr = Slot(j).toaddr
                                /\ Slot(j)'.fromaddr = Slot(j).fromaddr
<1>1. /\ Len(blocks') = Len(blocks) /\ blocks'[b][k] = p
      /\ \A c \in 1..Len(blocks) : \A j \in 1..Len(blocks[c]) :
            c # b \/ j # k => blocks'[c][j] = blocks[c][j]
  BY WritesStays DEF LInv, RInv, IInv, TableOK
<1>2. ASSUME NEW c \in 1..Len(blocks), NEW j \in 1..Len(blocks[c])
      PROVE  /\ blocks'[c][j].toaddr = blocks[c][j].toaddr
             /\ blocks'[c][j].fromaddr = blocks[c][j].fromaddr
  <2>1. CASE c = b /\ j = k
    BY <1>1, <2>1
  <2>2. CASE c # b \/ j # k
    BY <1>1, <2>2
  <2> QED BY <2>1, <2>2
<1>3. \A j \in 1..len : items \in 1..Len(blocks) /\ j \in 1..Len(blocks[items])
  BY SlotIs DEF LInv
<1> QED BY <1>1, <1>2, <1>3 DEF Slot

LEMMA LatestReplaceActive ==
    ASSUME LInv, ReplaceActive PROVE LatestOK'
<1> DEFINE p == [Slot(lslot) EXCEPT !.active = TRUE]
<1>1. /\ lpc = "active" /\ lpc' = "queue" /\ blocks' = [blocks EXCEPT ![items][lslot] = p]
      /\ UNCHANGED <<items, len, lpeer, given>>
  BY DEF ReplaceActive, Goes, listenerOnly, Slot
<1>2. Writes(items, lslot, p)
  BY <1>1, ReplaceWrites DEF LInv, RInv
<1>3. lslot \in 1..len
  BY <1>1 DEF LInv, RInv, IInv, ListenerOK
<1>4. p.toaddr = blocks[items][lslot].toaddr /\ p.fromaddr = blocks[items][lslot].fromaddr
  <2>1. Slot(lslot) \in Peers
    BY <1>3, SlotIs DEF LInv
  <2> QED BY <2>1 DEF Peers, Slot
<1> HIDE DEF p
<1>5. \A k \in 1..len : /\ Slot(k)'.toaddr = Slot(k).toaddr
                        /\ Slot(k)'.fromaddr = Slot(k).fromaddr
  BY <1>1, <1>2, <1>4, FlagKeeps
<1> QED BY <1>1, <1>5, LatestKeeps DEF Adds

LEMMA LatestDestroy ==
    ASSUME LInv, Destroy PROVE LatestOK'
<1> DEFINE q == blocks[gblock][gslot]
           p == [q EXCEPT !.active = FALSE]
<1>1. /\ gpc = "use" /\ blocks' = [blocks EXCEPT ![gblock][gslot] = p]
      /\ UNCHANGED <<items, len, lpc, lpeer, lslot, given>>
  BY DEF Destroy, listenerVars
<1>2. /\ gblock \in 1..Len(blocks) /\ gslot \in 1..Len(blocks[gblock])
      /\ q \in Peers /\ q.hpeer = gslot
  BY <1>1, UseSlot DEF LInv, RInv
<1>3. /\ p \in Peers /\ p.hpeer = gslot /\ p.fromaddr = q.fromaddr /\ p.toaddr = q.toaddr
  BY <1>2 DEF Peers
<1>4. Writes(gblock, gslot, p)
  BY <1>1, <1>2, <1>3 DEF Writes
<1> HIDE DEF p
<1>5. /\ Len(blocks') = Len(blocks)
      /\ \A c \in 1..Len(blocks) : \A j \in 1..Len(blocks[c]) :
            /\ blocks'[c][j].toaddr = blocks[c][j].toaddr
            /\ blocks'[c][j].fromaddr = blocks[c][j].fromaddr
      /\ \A j \in 1..len : /\ Slot(j)'.toaddr = Slot(j).toaddr
                           /\ Slot(j)'.fromaddr = Slot(j).fromaddr
  BY <1>1, <1>3, <1>4, FlagKeeps
<1>6. \A k \in 1..len' : \/ Slot(k)'.toaddr = Last(given'[Slot(k)'.fromaddr])
                         \/ lpc' = "toaddr" /\ k = lslot'
  BY <1>1, <1>5 DEF LInv, LatestOK
<1>7. lpc' # "idle" => lpeer'.toaddr = Last(given'[lpeer'.fromaddr])
  BY <1>1 DEF LInv, LatestOK
<1>8. lpc = "switch" => \A k \in 1..lslot : blocks'[Len(blocks)][k].toaddr = Slot(k)'.toaddr
  <2> SUFFICES ASSUME lpc = "switch", NEW k \in 1..lslot
               PROVE  blocks'[Len(blocks)][k].toaddr = Slot(k)'.toaddr
    OBVIOUS
  <2>1. /\ Len(blocks) \in 1..Len(blocks) /\ k \in 1..Len(blocks[Len(blocks)]) /\ k \in 1..len
    BY DEF LInv, RInv, IInv, TableOK, ListenerOK
  <2> QED BY <1>5, <2>1 DEF LInv, LatestOK
<1>9. lpc = "count" => /\ blocks'[items][lslot].toaddr = lpeer.toaddr
                       /\ blocks'[items][lslot].fromaddr = lpeer.fromaddr
  <2> SUFFICES ASSUME lpc = "count"
               PROVE  /\ blocks'[items][lslot].toaddr = lpeer.toaddr
                      /\ blocks'[items][lslot].fromaddr = lpeer.fromaddr
    OBVIOUS
  <2>1. items \in 1..Len(blocks) /\ lslot \in 1..Len(blocks[items])
    BY DEF LInv, RInv, IInv, TableOK, ListenerOK
  <2> QED BY <1>5, <2>1 DEF LInv, LatestOK, Slot
<1>10. \A a \in FromAddrs :
          given'[a] # <<>> => \/ \E k \in 1..len' : Slot(k)'.fromaddr = a
                              \/ lpc' \in Adds /\ lpeer'.fromaddr = a
  BY <1>1, <1>5 DEF LInv, LatestOK
<1> QED BY <1>1, <1>5, <1>6, <1>7, <1>8, <1>9, <1>10 DEF LatestOK, Slot

LEMMA LatestMoveBegins ==
    ASSUME LInv, MoveBegins PROVE LatestOK'
<1>1. /\ lpc = "move" /\ lpc' = "switch" /\ lslot' = 0
      /\ blocks' = Append(blocks, NewBlock(2 * cap))
      /\ UNCHANGED <<items, len, lpeer, given>>
  BY DEF MoveBegins, Goes, listenerOnly
<1>2. blocks'[items] = blocks[items]
  <2>1. NewBlock(2 * cap) \in Seq(Peers) /\ blocks \in Seq(Seq(Peers)) /\ items \in 1..Len(blocks)
    BY NewBlockShape DEF LInv, RInv, IInv, TableOK
  <2> QED BY <1>1, <2>1
<1>3. \A k \in 1..len : Slot(k)' = Slot(k)
  BY <1>1, <1>2 DEF Slot
<1> QED BY <1>1, <1>3, LatestKeeps DEF Adds

LEMMA LatestMoveSlot ==
    ASSUME LInv, MoveSlot PROVE LatestOK'
<1> DEFINE b == Len(blocks)
           k == lslot + 1
<1>1. /\ lpc = "switch" /\ lpc' = "switch" /\ lslot < cap /\ lslot' = k
      /\ blocks' = [blocks EXCEPT ![b][k] = Slot(k)]
      /\ UNCHANGED <<items, len, lpeer, given>>
  BY DEF MoveSlot, listenerOnly
<1>2. /\ items < b /\ Len(blocks[b]) = 2 * cap /\ len = cap /\ lslot \in Nat
      /\ cap \in Nat \ {0} /\ b \in 1..Len(blocks) /\ items \in 1..Len(blocks)
  BY <1>1 DEF LInv, RInv, IInv, TableOK, ListenerOK
<1>3. /\ k \in 1..len /\ k \in 1..Len(blocks[b])
      /\ \A j \in 1..lslot : j \in 1..len /\ j \in 1..Len(blocks[b]) /\ j # k
      /\ \A j \in 1..k : j = k \/ j \in 1..lslot
  BY <1>1, <1>2
<1>4. Writes(b, k, Slot(k))
  BY <1>1, <1>2, <1>3, SlotIs DEF Writes, LInv
<1>5. /\ Len(blocks') = b /\ blocks'[b][k] = Slot(k)
      /\ \A c \in 1..b : \A j \in 1..Len(blocks[c]) :
            c # b \/ j # k => blocks'[c][j] = blocks[c][j]
  BY <1>4, WritesStays DEF LInv, RInv, IInv, TableOK
<1>6. \A j \in 1..len : Slot(j)' = Slot(j)
  <2> SUFFICES ASSUME NEW j \in 1..len PROVE blocks'[items][j] = blocks[items][j]
    BY <1>1 DEF Slot
  <2>1. j \in 1..Len(blocks[items]) /\ items # b
    BY <1>2, SlotIs DEF LInv
  <2> QED BY <1>2, <1>5, <2>1
<1>7. \A j \in 1..k : blocks'[b][j].toaddr = Slot(j).toaddr
  <2> SUFFICES ASSUME NEW j \in 1..k PROVE blocks'[b][j].toaddr = Slot(j).toaddr
    OBVIOUS
  <2>1. CASE j = k
    BY <1>5, <2>1
  <2>2. CASE j \in 1..lslot
    <3>1. blocks'[b][j] = blocks[b][j]
      BY <1>2, <1>3, <1>5, <2>2
    <3> QED BY <1>1, <2>2, <3>1 DEF LInv, LatestOK
  <2> QED BY <1>3, <2>1, <2>2
<1>8. \A j \in 1..lslot' : blocks'[Len(blocks')][j].toaddr = Slot(j)'.toaddr
  <2>1. \A j \in 1..k : j \in 1..len
    BY <1>3
  <2> QED BY <1>1, <1>5, <1>6, <1>7, <2>1
<1> QED BY <1>1, <1>6, <1>8, LatestKeeps DEF Adds

\* The copies have the handles, so the addresses, of what they are copies of.
LEMMA LatestSwitch ==
    ASSUME LInv, Switch PROVE LatestOK'
<1>1. /\ lpc = "switch" /\ lpc' = "grow" /\ lslot = cap /\ items' = Len(blocks)
      /\ UNCHANGED <<blocks, len, lpeer, given>>
  BY DEF Switch, MoveIsDone, listenerOnly
<1>2. ASSUME NEW k \in 1..len
      PROVE  Slot(k)'.toaddr = Slot(k).toaddr /\ Slot(k)'.fromaddr = Slot(k).fromaddr
  <2>1. /\ Len(blocks) \in 1..Len(blocks) /\ k \in 1..lslot /\ k \in 1..Len(blocks[Len(blocks)])
        /\ blocks[Len(blocks)][k].hpeer = k
    BY <1>1 DEF LInv, RInv, IInv, TableOK, ListenerOK
  <2>2. Slot(k)' = blocks[Len(blocks)][k]
    BY <1>1 DEF Slot
  <2>3. Slot(k)'.toaddr = Slot(k).toaddr
    BY <1>1, <2>1, <2>2 DEF LInv, LatestOK
  <2>4. blocks[Len(blocks)][k] \in Records
    BY <2>1, RecordIn
  <2>5. Slot(k) \in Records /\ Slot(k).hpeer = k /\ k # 0
    BY SlotIs DEF LInv
  <2> QED BY <2>1, <2>2, <2>3, <2>4, <2>5, OneAddr DEF LInv
<1>3. \A k \in 1..len' : Slot(k)'.toaddr = Last(given'[Slot(k)'.fromaddr])
  BY <1>1, <1>2 DEF LInv, LatestOK
<1>4. \A a \in FromAddrs :
         given'[a] # <<>> => \/ \E k \in 1..len' : Slot(k)'.fromaddr = a
                             \/ lpc' \in Adds /\ lpeer'.fromaddr = a
  BY <1>1, <1>2 DEF LInv, LatestOK, Adds
<1> QED BY <1>1, <1>3, <1>4 DEF LInv, LatestOK

LEMMA LatestGrow ==
    ASSUME LInv, Grow PROVE LatestOK'
<1>1. /\ lpc = "grow" /\ lpc' = "write" /\ UNCHANGED <<blocks, items, len, lpeer, given>>
  BY DEF Grow, Goes, listenerOnly
<1>2. \A k \in 1..len : Slot(k)' = Slot(k)
  BY <1>1 DEF Slot
<1> QED BY <1>1, <1>2, LatestKeeps DEF Adds

LEMMA LatestWrite ==
    ASSUME LInv, Write PROVE LatestOK'
<1>1. /\ lpc = "write" /\ lpc' = "count" /\ blocks' = [blocks EXCEPT ![items][lslot] = lpeer]
      /\ UNCHANGED <<items, len, lpeer, lslot, given>>
  BY DEF Write, WriteItem, Goes, listenerOnly
<1>2. /\ lslot = len + 1 /\ lpeer \in Peers /\ lpeer.hpeer = lslot /\ len \in Nat
      /\ lslot \in 1..Len(blocks[items]) /\ items \in 1..Len(blocks)
  BY <1>1 DEF LInv, RInv, IInv, TableOK, ListenerOK, Adds
<1>3. Writes(items, lslot, lpeer)
  BY <1>1, <1>2 DEF Writes
<1>4. /\ blocks'[items][lslot] = lpeer
      /\ \A k \in 1..Len(blocks[items]) : k # lslot => blocks'[items][k] = blocks[items][k]
  <2>1. blocks \in Seq(Seq(Peers))
    BY DEF LInv, RInv, IInv, TableOK
  <2>2. /\ blocks'[items][lslot] = lpeer
        /\ \A c \in 1..Len(blocks) : \A j \in 1..Len(blocks[c]) :
              c # items \/ j # lslot => blocks'[c][j] = blocks[c][j]
    BY <1>3, <2>1, WritesStays
  <2> QED BY <1>2, <2>2
<1>5. \A k \in 1..len : Slot(k)' = Slot(k)
  <2> SUFFICES ASSUME NEW k \in 1..len PROVE blocks'[items][k] = blocks[items][k]
    BY <1>1 DEF Slot
  <2>1. k \in 1..Len(blocks[items]) /\ k # lslot
    BY <1>2, SlotIs DEF LInv
  <2> QED BY <1>4, <2>1
<1>6. Slot(lslot)' = lpeer
  BY <1>1, <1>4 DEF Slot
<1> QED BY <1>1, <1>5, <1>6, LatestKeeps DEF Adds

LEMMA LatestCount ==
    ASSUME LInv, Count PROVE LatestOK'
<1>1. /\ lpc = "count" /\ lpc' = "queue" /\ len' = len + 1
      /\ UNCHANGED <<blocks, items, lpeer, lslot, given>>
  BY DEF Count, Goes, listenerOnly
<1>2. lslot = len + 1 /\ len \in Nat
  BY <1>1 DEF LInv, RInv, IInv, TableOK, ListenerOK
<1>3. /\ \A k : Slot(k)' = Slot(k)
      /\ \A k \in 1..len' : k \in 1..len \/ k = lslot
      /\ \A k \in 1..len : k \in 1..len'
      /\ lslot \in 1..len'
  BY <1>1, <1>2 DEF Slot
<1>4. /\ Slot(lslot).toaddr = lpeer.toaddr /\ Slot(lslot).fromaddr = lpeer.fromaddr
      /\ lpeer.toaddr = Last(given[lpeer.fromaddr])
  BY <1>1 DEF LInv, LatestOK
<1>5. \A k \in 1..len' : Slot(k)'.toaddr = Last(given'[Slot(k)'.fromaddr])
  BY <1>1, <1>3, <1>4 DEF LInv, LatestOK
<1>6. \A a \in FromAddrs : given'[a] # <<>> => \E k \in 1..len' : Slot(k)'.fromaddr = a
  <2> SUFFICES ASSUME NEW a \in FromAddrs, given[a] # <<>>
               PROVE  \E k \in 1..len' : Slot(k).fromaddr = a
    BY <1>1, <1>3
  <2>1. (\E k \in 1..len : Slot(k).fromaddr = a) \/ lpeer.fromaddr = a
    BY DEF LInv, LatestOK
  <2> QED BY <1>3, <1>4, <2>1
<1> QED BY <1>1, <1>4, <1>5, <1>6 DEF LatestOK

LEMMA LatestQueue ==
    ASSUME LInv, Queue PROVE LatestOK'
<1>1. lpc = "queue" /\ lpc' = "idle" /\ UNCHANGED <<blocks, items, len, given>>
  BY DEF Queue, Goes, tableVars
<1>2. \A k : Slot(k)' = Slot(k)
  BY <1>1 DEF Slot
<1>3. \A a \in FromAddrs : given'[a] # <<>> => \E k \in 1..len' : Slot(k)'.fromaddr = a
  BY <1>1, <1>2 DEF LInv, LatestOK, Adds
<1>4. \A k \in 1..len' : Slot(k)'.toaddr = Last(given'[Slot(k)'.fromaddr])
  BY <1>1, <1>2 DEF LInv, LatestOK
<1> QED BY <1>1, <1>3, <1>4 DEF LatestOK

LEMMA LatestStep == LInv /\ [Next]_vars => LInv'
<1> SUFFICES ASSUME LInv, [Next]_vars PROVE LatestOK'
  BY RecordsStep DEF LInv
<1>1. CASE \E a \in FromAddrs : TakeOffline(a)
  BY <1>1, LatestElse DEF TakeOffline, tableVars, listenerVars
<1>2. CASE \E a \in FromAddrs, to \in ToAddrs : TakeOnline(a, to)
  BY <1>2, LatestOnline
<1>3. CASE ReplaceToaddr \/ ReplaceActive \/ Destroy
  BY <1>3, LatestReplaceToaddr, LatestReplaceActive, LatestDestroy
<1>4. CASE MoveBegins \/ MoveSlot \/ Switch \/ Grow
  BY <1>4, LatestMoveBegins, LatestMoveSlot, LatestSwitch, LatestGrow
<1>5. CASE Write \/ Count \/ Queue
  BY <1>5, LatestWrite, LatestCount, LatestQueue
<1>6. CASE RunIdle \/ Check \/ Item \/ Compare \/ UseData \/ \E h \in 1..len : Send(h)
  BY <1>6, LatestElse
     DEF RunIdle, Check, Item, Compare, UseData, Send, mainOnly, listenerVars
<1>7. CASE UNCHANGED vars
  BY <1>7, LatestElse DEF vars, tableVars, listenerVars
<1> QED BY <1>1, <1>2, <1>3, <1>4, <1>5, <1>6, <1>7 DEF Next, Listener, Main

\* Whenever the listener is between two messages, create_peer has left each peer with the
\* address of its last notice, in the block that GPeers has (tmcommon.c, clib.c).
THEOREM TableIsUpToDate == Spec => []AddressesAreLatest
<1>1. Init => LInv
  BY InitOK, RecordsInit, LatestInit DEF LInv, RInv
<1>2. LInv => AddressesAreLatest
  <2> SUFFICES ASSUME LInv, lpc = "idle"
               PROVE  /\ \A k \in 1..len : /\ Slot(k).hpeer = k
                                           /\ Slot(k).toaddr = Last(given[Slot(k).fromaddr])
                      /\ \A a \in FromAddrs : given[a] # <<>> <=> SlotOf(a) # {}
    BY DEF AddressesAreLatest
  <2>1. \A k \in 1..len : /\ Slot(k).hpeer = k
                          /\ Slot(k).toaddr = Last(given[Slot(k).fromaddr])
    BY SlotIs DEF LInv, LatestOK
  <2>2. ASSUME NEW a \in FromAddrs, given[a] # <<>> PROVE SlotOf(a) # {}
    BY <2>2 DEF LInv, LatestOK, Adds, SlotOf
  <2>3. ASSUME NEW a \in FromAddrs, SlotOf(a) # {} PROVE given[a] # <<>>
    <3>1. PICK k \in 1..len : Slot(k).fromaddr = a
      BY <2>3 DEF SlotOf
    <3>2. Slot(k).toaddr \in ToSet(given[a])
      BY <3>1, SlotIs DEF LInv
    <3> QED BY <3>2 DEF ToSet
  <2> QED BY <2>1, <2>2, <2>3
<1> QED BY <1>1, <1>2, LatestStep, PTL DEF Spec
=============================================================================
