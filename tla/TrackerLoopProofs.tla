-------------------------- MODULE TrackerLoopProofs --------------------------
(***************************************************************************)
(* Proofs about the event loop of the tracker, for any number of           *)
(* descriptors, clients and messages.  The books of the loop (ctxs,        *)
(* readfds, writefds, maxfd) and the snapshot of select() are inductive    *)
(* only together: that a descriptor of the snapshot is still the           *)
(* connection it was rests on the books, and that the branch of a          *)
(* descriptor finds its ctx rests on the snapshot.  The second half is the *)
(* refinement of Tracker.                                                  *)
(***************************************************************************)
EXTENDS TrackerLoop, TrackerHandlerProofs, SequenceTheorems, FiniteSetTheorems,
        WellFoundedInduction

\* A ctx and its descriptor, among the sockets of s.
CtxOK(x, s) ==
    /\ ~x.shut_rd
    /\ \/ /\ s[x.fd].kind = "in" /\ x.fromaddr = s[x.fd].msg.from
          /\ x.toaddr = NoAddr /\ x.writebuf = <<>>
       \/ s[x.fd].kind = "out" /\ x.toaddr # NoAddr

SocketsOK ==
    /\ sock \in [Fds -> Inbound \cup {Free, Listening, Outgoing}]
    /\ \A fd \in Fds : sock[fd].kind = "listening" <=> fd = ListenFd
    /\ \A fd \in InFds : sock[fd].received <= sock[fd].arrived

CtxsOK ==
    /\ ctxs \in Seq(SocketCtx)
    /\ \A c, d \in 1..Len(ctxs) : ctxs[c].fd = ctxs[d].fd => c = d
    /\ \A c \in 1..Len(ctxs) : CtxOK(ctxs[c], sock)
    /\ \A fd \in InFds \cup OutFds : \E c \in 1..Len(ctxs) : ctxs[c].fd = fd

WatchedOK ==
    /\ readfds = {ListenFd} \cup InFds
    /\ writefds \subseteq OutFds
    /\ \A c \in 1..Len(ctxs) : ctxs[c].fd \in writefds => ctxs[c].writebuf # <<>>
    /\ maxfd \in Fds /\ \A fd \in readfds \cup writefds : fd <= maxfd

\* Between recv() and the end of its branch the loop is still at the descriptor it
\* read; a connection found to have ended brings no more.
SnapshotOK ==
    /\ tmpr \subseteq readfds /\ tmpw \subseteq writefds
    /\ rd \in {"no", "open", "eof"}
    /\ rd = "no" => \A fd \in tmpr : Readable(fd)
    /\ rd # "no" => /\ Scan \in tmpr \ {ListenFd}
                    /\ \A fd \in tmpr \ {Scan} : Readable(fd)
    /\ rd = "eof" => sock[Scan].end # "no" /\ sock[Scan].received = sock[Scan].arrived

LoopInv ==
    /\ HInv
    /\ backlog \in Seq(ClientMsg) /\ restarts \in Nat
    /\ SocketsOK /\ CtxsOK /\ WatchedOK /\ SnapshotOK

----------------------------------------------------------------------------
(* Descriptors and ctxs *)

LEMMA FdsAre == ListenFd \in Fds /\ Fds \subseteq Nat /\ MaxFd \in Nat
BY TrackerLoopAssumption DEF Fds, ListenFd

LEMMA Kinds ==
    /\ Free.kind = "free" /\ Listening.kind = "listening" /\ Outgoing.kind = "out"
    /\ \A s \in Inbound : s.kind = "in" /\ s.msg \in ClientMsg
    /\ \A s \in Inbound \cup {Free, Listening, Outgoing} :
          /\ s.kind = "in" => s \in Inbound
          /\ s.kind = "free" => s = Free
          /\ s.kind = "out" => s = Outgoing
          /\ s.kind \in {"in", "free", "out", "listening"}
BY DEF Free, Listening, Outgoing, Inbound

\* A set of numbers that is not empty has a least one.
LEMMA LeastOf ==
    ASSUME NEW S \in SUBSET Nat, S # {} PROVE Min(S) \in S
<1> DEFINE R == {ss \in Nat \X Nat : ss[1] < ss[2]}
<1>1. IsWellFoundedOn(R, Nat)
  BY NatLessThanWellFounded DEF OpToRel
<1>2. PICK x \in S : \A y \in S : ~ (<<y, x>> \in R)
  <2> HIDE DEF R
  <2> QED BY <1>1, WFMin, Zenon
<1>3. \A y \in S : x <= y
  <2> TAKE y \in S
  <2>1. x \in Nat /\ y \in Nat /\ ~ (<<y, x>> \in R)
    BY <1>2
  <2> QED BY <2>1
<1> QED BY <1>3 DEF Min

\* The for loop is at a descriptor of the snapshot that is open.
LEMMA ScanShape ==
    ASSUME LoopInv, tmpr \cup tmpw # {}
    PROVE  /\ Scan \in Fds /\ Scan \in tmpr \cup tmpw
           /\ Scan \in tmpr => Scan \in readfds
           /\ Scan \in tmpw => Scan \in OutFds
           /\ Scan \in tmpr \ {ListenFd} => Scan \in InFds /\ sock[Scan] \in Inbound
<1>1. tmpr \cup tmpw \subseteq Fds
  BY FdsAre DEF LoopInv, SnapshotOK, WatchedOK, InFds, OutFds
<1>2. Scan \in tmpr \cup tmpw
  BY <1>1, FdsAre, LeastOf DEF Scan
<1>3. Scan \in tmpr => Scan \in readfds
  BY DEF LoopInv, SnapshotOK
<1>4. Scan \in tmpw => Scan \in OutFds
  BY DEF LoopInv, SnapshotOK, WatchedOK
<1>5. Scan \in tmpr \ {ListenFd} => Scan \in InFds
  BY <1>3 DEF LoopInv, WatchedOK
<1>6. Scan \in InFds => sock[Scan] \in Inbound
  BY Kinds DEF LoopInv, SocketsOK, InFds
<1> QED BY <1>1, <1>2, <1>3, <1>4, <1>5, <1>6

\* The number that accept() and socket() hand out.
LEMMA LowestFreeShape ==
    ASSUME LoopInv, FreeFds # {}
    PROVE  /\ LowestFree \in Fds /\ LowestFree # ListenFd
           /\ sock[LowestFree].kind = "free"
           /\ LowestFree \notin readfds \cup writefds \cup tmpr \cup tmpw
<1>1. LowestFree \in FreeFds
  BY FdsAre, LeastOf DEF FreeFds, LowestFree
<1>2. LowestFree \in Fds /\ sock[LowestFree].kind = "free"
  BY <1>1, Kinds DEF FreeFds
<1>3. LowestFree # ListenFd
  BY <1>2 DEF LoopInv, SocketsOK
<1>4. LowestFree \notin InFds \cup OutFds
  BY <1>2 DEF InFds, OutFds
<1> QED BY <1>2, <1>3, <1>4 DEF LoopInv, WatchedOK, SnapshotOK

\* SocketCtx_find_by_fd finds the one ctx of a connection.
LEMMA CtxOfFd ==
    ASSUME LoopInv, NEW fd \in InFds \cup OutFds, NEW c, c = Min(ByFd(fd))
    PROVE  /\ c \in 1..Len(ctxs) /\ ctxs[c].fd = fd
           /\ ctxs[c] \in SocketCtx /\ CtxOK(ctxs[c], sock)
<1>1. PICK d \in 1..Len(ctxs) : ctxs[d].fd = fd
  BY DEF LoopInv, CtxsOK
<1>2. d \in ByFd(fd) /\ \A x \in ByFd(fd) : x = d
  BY <1>1 DEF LoopInv, CtxsOK, ByFd
<1>3. c = d
  <2>1. d \in Nat
    OBVIOUS
  <2> QED BY <1>2, <2>1, MinOfOne
<1> QED BY <1>1, <1>3 DEF LoopInv, CtxsOK

\* SocketCtx_find_by_toaddr finds a connection that the tracker made.
LEMMA CtxOfToaddr ==
    ASSUME LoopInv, NEW to \in ToAddrs, ByToaddr(to) # {}, NEW c, c = Min(ByToaddr(to))
    PROVE  /\ c \in 1..Len(ctxs) /\ ctxs[c].toaddr = to
           /\ ctxs[c] \in SocketCtx /\ sock[ctxs[c].fd].kind = "out"
<1>0. ctxs \in Seq(SocketCtx) /\ \A d \in 1..Len(ctxs) : CtxOK(ctxs[d], sock)
  BY DEF LoopInv, CtxsOK
<1>1. ByToaddr(to) \subseteq Nat
  BY <1>0 DEF ByToaddr
<1>2. c \in ByToaddr(to)
  BY <1>1, LeastOf
<1>3. c \in 1..Len(ctxs) /\ ctxs[c].toaddr = to
  BY <1>0, <1>2 DEF ByToaddr
<1>4. CtxOK(ctxs[c], sock) /\ to # NoAddr
  BY <1>0, <1>3, TrackerLoopAssumption
<1> QED BY <1>0, <1>3, <1>4 DEF CtxOK

----------------------------------------------------------------------------
(* What a step can do to the books *)

BooksOK == SocketsOK /\ CtxsOK /\ WatchedOK

\* Parts arrive, are received, and end, on a connection that stays what it is.
LEMMA BooksOfInbound ==
    ASSUME LoopInv, NEW fd \in InFds, NEW x \in Inbound, x.msg = sock[fd].msg,
           x.received <= x.arrived, sock' = [sock EXCEPT ![fd] = x],
           UNCHANGED <<ctxs, readfds, writefds, maxfd>>
    PROVE  BooksOK'
<1> USE DEF LoopInv
<1>1. fd \in Fds /\ sock[fd].kind = "in" /\ x.kind = "in"
  BY Kinds DEF InFds
<1>2. /\ sock' \in [Fds -> Inbound \cup {Free, Listening, Outgoing}]
      /\ \A d \in Fds : d # fd => sock'[d] = sock[d]
      /\ sock'[fd] = x
  BY <1>1 DEF SocketsOK
<1>3. \A d \in Fds : sock'[d].kind = sock[d].kind
                    /\ (sock[d].kind = "in" => sock'[d].msg = sock[d].msg)
  BY <1>1, <1>2
<1>4. InFds' = InFds /\ OutFds' = OutFds
  BY <1>3 DEF InFds, OutFds
<1>5. SocketsOK'
  BY <1>2, <1>3, <1>4 DEF SocketsOK, InFds
<1>6. CtxsOK'
  <2>1. \A c \in 1..Len(ctxs) : ctxs[c] \in SocketCtx
    BY DEF CtxsOK
  <2>2. \A c \in 1..Len(ctxs) : ctxs[c].fd \in Fds
    BY <2>1 DEF SocketCtx
  <2>3. \A c \in 1..Len(ctxs) : CtxOK(ctxs[c], sock')
    BY <1>3, <2>2 DEF CtxsOK, CtxOK
  <2> QED BY <1>4, <2>3 DEF CtxsOK
<1>7. WatchedOK'
  BY <1>4 DEF WatchedOK
<1> QED BY <1>5, <1>6, <1>7 DEF BooksOK

\* accept(), or a connection of the tracker's own that is kept: a new entry in each
\* book, under a number that none of them has.
LEMMA BooksOfOpened ==
    ASSUME LoopInv, FreeFds # {}, NEW x \in Inbound \cup {Outgoing},
           x \in Inbound => x.received <= x.arrived,
           NEW ctx \in SocketCtx, ctx.fd = LowestFree,
           sock' = [sock EXCEPT ![LowestFree] = x], CtxOK(ctx, sock'),
           ctxs' = Append(ctxs, ctx), maxfd' = MaxOf(LowestFree, maxfd),
           \/ /\ x \in Inbound /\ readfds' = readfds \cup {LowestFree}
              /\ UNCHANGED writefds
           \/ /\ x = Outgoing /\ writefds' = writefds \cup {LowestFree}
              /\ UNCHANGED readfds /\ ctx.writebuf # <<>>
    PROVE  BooksOK'
<1> DEFINE fd == LowestFree
<1> USE DEF LoopInv
<1>1. /\ fd \in Fds /\ fd # ListenFd /\ sock[fd].kind = "free"
      /\ fd \notin readfds \cup writefds
  BY LowestFreeShape
<1> HIDE DEF fd
<1>2. /\ sock' \in [Fds -> Inbound \cup {Free, Listening, Outgoing}]
      /\ \A d \in Fds \ {fd} : sock'[d] = sock[d]
      /\ sock'[fd] = x
      /\ x.kind = "in" <=> x \in Inbound /\ x # Outgoing
      /\ x.kind = "out" <=> x = Outgoing
      /\ x.kind # "listening"
  BY <1>1, Kinds DEF SocketsOK, fd
<1>3. /\ InFds' = IF x.kind = "in" THEN InFds \cup {fd} ELSE InFds
      /\ OutFds' = IF x.kind = "out" THEN OutFds \cup {fd} ELSE OutFds
  BY <1>1, <1>2 DEF InFds, OutFds
<1>4. SocketsOK'
  <2>1. \A d \in InFds' : sock'[d].received <= sock'[d].arrived
    BY <1>1, <1>2, <1>3 DEF SocketsOK, InFds
  <2> QED BY <1>1, <1>2, <2>1 DEF SocketsOK
<1>5. /\ ctxs \in Seq(SocketCtx) /\ ctxs' \in Seq(SocketCtx)
      /\ Len(ctxs) \in Nat /\ Len(ctxs') = Len(ctxs) + 1
      /\ \A c \in 1..Len(ctxs) : ctxs'[c] = ctxs[c]
      /\ ctxs'[Len(ctxs) + 1] = ctx
  BY DEF CtxsOK
<1>6. \A c \in 1..Len(ctxs) : /\ ctxs[c].fd \in Fds /\ ctxs[c].fd # fd
                              /\ CtxOK(ctxs[c], sock')
  <2> TAKE c \in 1..Len(ctxs)
  <2>1. ctxs[c] \in SocketCtx /\ CtxOK(ctxs[c], sock)
    BY DEF CtxsOK
  <2>2. ctxs[c].fd \in Fds /\ ctxs[c].fd # fd
    BY <1>1, <2>1 DEF SocketCtx, CtxOK
  <2> QED BY <1>2, <2>1, <2>2 DEF CtxOK
<1>7. CtxsOK'
  <2>1. \A c, d \in 1..Len(ctxs') : ctxs'[c].fd = ctxs'[d].fd => c = d
    BY <1>5, <1>6 DEF CtxsOK, fd
  <2>2. \A c \in 1..Len(ctxs') : CtxOK(ctxs'[c], sock')
    <3> TAKE c \in 1..Len(ctxs')
    <3>1. CASE c \in 1..Len(ctxs)
      BY <1>5, <1>6, <3>1
    <3>2. CASE c = Len(ctxs) + 1
      BY <1>5, <3>2
    <3> QED BY <1>5, <3>1, <3>2
  <2>3. \A d \in InFds' \cup OutFds' : \E c \in 1..Len(ctxs') : ctxs'[c].fd = d
    <3> TAKE d \in InFds' \cup OutFds'
    <3>1. CASE d = fd
      BY <1>5, <3>1 DEF fd
    <3>2. CASE d # fd
      <4>1. PICK c \in 1..Len(ctxs) : ctxs[c].fd = d
        BY <1>3, <3>2 DEF CtxsOK
      <4> QED BY <1>5, <4>1
    <3> QED BY <3>1, <3>2
  <2> QED BY <1>5, <2>1, <2>2, <2>3 DEF CtxsOK
<1>8. WatchedOK'
  <2>1. readfds' = {ListenFd} \cup InFds' /\ writefds' \subseteq OutFds'
    BY <1>2, <1>3, Kinds DEF WatchedOK, fd
  <2>2. \A c \in 1..Len(ctxs') : ctxs'[c].fd \in writefds' => ctxs'[c].writebuf # <<>>
    <3> TAKE c \in 1..Len(ctxs')
    <3>1. CASE c \in 1..Len(ctxs)
      BY <1>5, <1>6, <3>1 DEF WatchedOK, fd
    <3>2. CASE c = Len(ctxs) + 1
      BY <1>1, <1>5, <3>2 DEF fd
    <3> QED BY <1>5, <3>1, <3>2
  <2>3. maxfd' \in Fds /\ fd <= maxfd' /\ maxfd <= maxfd'
    BY <1>1, FdsAre DEF WatchedOK, MaxOf, fd
  <2>4. \A d \in readfds' \cup writefds' : d <= maxfd'
    <3> TAKE d \in readfds' \cup writefds'
    <3>1. d \in Fds /\ (d = fd \/ d \in readfds \cup writefds)
      BY <1>1, <2>1, FdsAre DEF fd, InFds, OutFds
    <3> QED BY <2>3, <3>1, FdsAre DEF WatchedOK
  <2> QED BY <2>1, <2>2, <2>3, <2>4 DEF WatchedOK
<1> QED BY <1>4, <1>7, <1>8 DEF BooksOK

\* A write buffer grows, shrinks, or is emptied; an empty one is not watched.
LEMMA BooksOfWritebuf ==
    ASSUME LoopInv, NEW c \in 1..Len(ctxs), sock[ctxs[c].fd].kind = "out",
           NEW buf \in Seq(Notice), ctxs' = [ctxs EXCEPT ![c].writebuf = buf],
           \/ UNCHANGED writefds /\ buf # <<>>
           \/ writefds' = writefds \ {ctxs[c].fd},
           UNCHANGED <<sock, readfds, maxfd>>
    PROVE  BooksOK'
<1> USE DEF LoopInv
<1>1. /\ ctxs \in Seq(SocketCtx) /\ ctxs[c] \in SocketCtx
      /\ CtxOK(ctxs[c], sock)
  BY DEF CtxsOK
<1> DEFINE x == [ctxs[c] EXCEPT !.writebuf = buf]
<1>2. /\ x \in SocketCtx /\ x.fd = ctxs[c].fd /\ x.writebuf = buf
      /\ CtxOK(x, sock)
  BY <1>1 DEF SocketCtx, CtxOK
<1>3. /\ ctxs' \in Seq(SocketCtx) /\ Len(ctxs') = Len(ctxs)
      /\ ctxs'[c] = x
      /\ \A d \in 1..Len(ctxs) : d # c => ctxs'[d] = ctxs[d]
  <2>1. ctxs' = [ctxs EXCEPT ![c] = x]
    OBVIOUS
  <2> HIDE DEF x
  <2>2. x \in SocketCtx
    BY <1>2
  <2>3. /\ [ctxs EXCEPT ![c] = x] \in Seq(SocketCtx)
        /\ Len([ctxs EXCEPT ![c] = x]) = Len(ctxs)
        /\ [ctxs EXCEPT ![c] = x][c] = x
        /\ \A d \in 1..Len(ctxs) : d # c => [ctxs EXCEPT ![c] = x][d] = ctxs[d]
    BY <1>1, <2>2, ExceptSeq
  <2> QED BY <2>1, <2>3
<1> HIDE DEF x
<1>4. \A d \in 1..Len(ctxs) : ctxs'[d].fd = ctxs[d].fd
  BY <1>2, <1>3
<1>5. SocketsOK' /\ InFds' = InFds /\ OutFds' = OutFds
  BY DEF SocketsOK, InFds, OutFds
<1>6. CtxsOK'
  <2>1. \A d \in 1..Len(ctxs') : CtxOK(ctxs'[d], sock')
    <3> TAKE d \in 1..Len(ctxs')
    <3>1. CtxOK(ctxs'[d], sock)
      BY <1>2, <1>3 DEF CtxsOK
    <3> QED BY <3>1
  <2>2. \A d, e \in 1..Len(ctxs') : ctxs'[d].fd = ctxs'[e].fd => d = e
    BY <1>3, <1>4 DEF CtxsOK
  <2>3. \A fd \in InFds' \cup OutFds' : \E d \in 1..Len(ctxs') : ctxs'[d].fd = fd
    BY <1>3, <1>4, <1>5 DEF CtxsOK
  <2> QED BY <1>3, <2>1, <2>2, <2>3 DEF CtxsOK
<1>7. WatchedOK'
  <2>1. \A d \in 1..Len(ctxs') : ctxs'[d].fd \in writefds' => ctxs'[d].writebuf # <<>>
    BY <1>2, <1>3, <1>4 DEF WatchedOK
  <2> QED BY <1>5, <2>1 DEF WatchedOK
<1> QED BY <1>5, <1>6, <1>7 DEF BooksOK

LEMMA RemoveAtShape ==
    ASSUME NEW S, NEW seq \in Seq(S), NEW c \in 1..Len(seq)
    PROVE  /\ RemoveAt(seq, c) \in Seq(S)
           /\ Len(RemoveAt(seq, c)) = Len(seq) - 1
           /\ \A k \in 1..(Len(seq) - 1) :
                 RemoveAt(seq, c)[k] = IF k < c THEN seq[k] ELSE seq[k + 1]
<1> DEFINE p == SubSeq(seq, 1, c - 1)
           q == SubSeq(seq, c + 1, Len(seq))
<1>1. /\ p \in Seq(S) /\ q \in Seq(S)
      /\ Len(p) = c - 1 /\ Len(q) = Len(seq) - c
      /\ \A k \in 1..(c - 1) : p[k] = seq[k]
      /\ \A k \in 1..(Len(seq) - c) : q[k] = seq[c + k]
  OBVIOUS
<1>2. RemoveAt(seq, c) = p \o q
  BY DEF RemoveAt
<1> HIDE DEF p, q
<1>3. /\ p \o q \in Seq(S) /\ Len(p \o q) = Len(seq) - 1 /\ Len(seq) \in Nat
      /\ \A k \in 1..(Len(seq) - 1) : (p \o q)[k] = IF k < c THEN p[k] ELSE q[k - (c - 1)]
  <2>1. Len(seq) \in Nat /\ c \in Nat /\ Len(p) \in Nat /\ Len(q) \in Nat
    BY <1>1
  <2>2. /\ p \o q \in Seq(S) /\ Len(p \o q) = Len(p) + Len(q)
        /\ \A k \in 1..(Len(p) + Len(q)) :
              (p \o q)[k] = IF k <= Len(p) THEN p[k] ELSE q[k - Len(p)]
    BY <1>1, ConcatProperties
  <2> QED BY <1>1, <2>1, <2>2
<1>4. \A k \in 1..(Len(seq) - 1) : (p \o q)[k] = IF k < c THEN seq[k] ELSE seq[k + 1]
  <2> TAKE k \in 1..(Len(seq) - 1)
  <2>1. CASE k < c
    BY <1>1, <1>3, <2>1
  <2>2. CASE ~(k < c)
    <3>1. k - (c - 1) \in 1..(Len(seq) - c) /\ c + (k - (c - 1)) = k + 1
      BY <1>3, <2>2
    <3>2. q[k - (c - 1)] = seq[c + (k - (c - 1))]
      BY <1>1, <3>1
    <3> QED BY <1>3, <2>2, <3>1, <3>2
  <2> QED BY <2>1, <2>2
<1> QED BY <1>2, <1>3, <1>4

\* Both directions are done with: the entry leaves every book, and the descriptor
\* is closed.
LEMMA BooksOfClosed ==
    ASSUME LoopInv, NEW fd \in InFds, NEW c, c = Min(ByFd(fd)),
           CloseIfDone([ctxs EXCEPT ![c].shut_rd = TRUE], c),
           readfds' = readfds \ {fd}, UNCHANGED <<writefds, maxfd>>
    PROVE  BooksOK' /\ sock' = [sock EXCEPT ![fd] = Free]
<1> USE DEF LoopInv
<1>1. /\ c \in 1..Len(ctxs) /\ ctxs[c].fd = fd /\ ctxs[c] \in SocketCtx
      /\ CtxOK(ctxs[c], sock) /\ ctxs \in Seq(SocketCtx)
      /\ fd \in Fds /\ sock[fd].kind = "in" /\ fd # ListenFd
  BY CtxOfFd DEF InFds, CtxsOK, SocketsOK
<1> DEFINE x == [ctxs[c] EXCEPT !.shut_rd = TRUE]
           cs == [ctxs EXCEPT ![c].shut_rd = TRUE]
<1>2. x \in SocketCtx /\ x.fd = fd /\ x.writebuf = <<>> /\ x.shut_rd
  BY <1>1 DEF SocketCtx, CtxOK
<1>3. /\ cs \in Seq(SocketCtx) /\ Len(cs) = Len(ctxs) /\ cs[c] = x
      /\ \A d \in 1..Len(ctxs) : d # c => cs[d] = ctxs[d]
  <2>1. cs = [ctxs EXCEPT ![c] = x]
    OBVIOUS
  <2> HIDE DEF x, cs
  <2> QED BY <1>1, <1>2, <2>1
<1>4. CloseIfDone(cs, c)
  OBVIOUS
<1> HIDE DEF x, cs
<1>5. ctxs' = RemoveAt(cs, c) /\ sock' = [sock EXCEPT ![fd] = Free]
  BY <1>2, <1>3, <1>4 DEF CloseIfDone
<1> DEFINE from(k) == IF k < c THEN k ELSE k + 1
<1>6. /\ ctxs' \in Seq(SocketCtx) /\ Len(ctxs') = Len(ctxs) - 1 /\ Len(ctxs) \in Nat
      /\ \A k \in 1..Len(ctxs') : /\ from(k) \in 1..Len(ctxs) /\ from(k) # c
                                  /\ ctxs'[k] = ctxs[from(k)]
  <2>1. /\ RemoveAt(cs, c) \in Seq(SocketCtx)
        /\ Len(RemoveAt(cs, c)) = Len(cs) - 1
        /\ \A k \in 1..(Len(cs) - 1) : RemoveAt(cs, c)[k] = cs[from(k)]
    BY <1>1, <1>3, RemoveAtShape
  <2>2. \A k \in 1..(Len(ctxs) - 1) : from(k) \in 1..Len(ctxs) /\ from(k) # c
    BY <1>1
  <2> QED BY <1>1, <1>3, <1>5, <2>1, <2>2
<1>7. \A d \in 1..Len(ctxs) : d # c => \E k \in 1..Len(ctxs') : from(k) = d
  <2> TAKE d \in 1..Len(ctxs)
  <2>1. CASE d < c
    BY <1>1, <1>6, <2>1
  <2>2. CASE d > c
    <3>1. d - 1 \in 1..Len(ctxs') /\ from(d - 1) = d
      BY <1>1, <1>6, <2>2
    <3> QED BY <3>1
  <2> QED BY <1>1, <2>1, <2>2
<1>8. \A k, j \in 1..Len(ctxs') : from(k) = from(j) => k = j
  BY <1>1, <1>6
<1> HIDE DEF from
<1>9. /\ sock' \in [Fds -> Inbound \cup {Free, Listening, Outgoing}]
      /\ \A d \in Fds \ {fd} : sock'[d] = sock[d]
      /\ sock'[fd].kind = "free"
  BY <1>1, <1>5, Kinds DEF SocketsOK
<1>10. SocketsOK' /\ InFds' = InFds \ {fd} /\ OutFds' = OutFds
  BY <1>1, <1>9 DEF SocketsOK, InFds, OutFds
<1>11. \A d \in 1..Len(ctxs) : d # c => /\ ctxs[d].fd \in Fds \ {fd}
                                       /\ CtxOK(ctxs[d], sock')
  <2> TAKE d \in 1..Len(ctxs)
  <2>1. ctxs[d] \in SocketCtx /\ CtxOK(ctxs[d], sock)
    BY DEF CtxsOK
  <2>2. d # c => ctxs[d].fd \in Fds \ {fd}
    BY <1>1, <2>1 DEF SocketCtx, CtxsOK
  <2> QED BY <1>9, <2>1, <2>2 DEF CtxOK
<1>12. CtxsOK'
  <2>1. \A k, j \in 1..Len(ctxs') : ctxs'[k].fd = ctxs'[j].fd => k = j
    BY <1>6, <1>8 DEF CtxsOK
  <2>2. \A k \in 1..Len(ctxs') : CtxOK(ctxs'[k], sock')
    BY <1>6, <1>11
  <2>3. \A d \in InFds' \cup OutFds' : \E k \in 1..Len(ctxs') : ctxs'[k].fd = d
    <3> TAKE d \in InFds' \cup OutFds'
    <3>1. d \in InFds \cup OutFds /\ d # fd
      BY <1>1, <1>10 DEF OutFds
    <3>2. PICK e \in 1..Len(ctxs) : ctxs[e].fd = d
      BY <3>1 DEF CtxsOK
    <3> QED BY <1>1, <1>6, <1>7, <3>1, <3>2
  <2> QED BY <1>6, <2>1, <2>2, <2>3 DEF CtxsOK
<1>13. WatchedOK'
  <2>1. readfds' = {ListenFd} \cup InFds'
    BY <1>1, <1>10 DEF WatchedOK
  <2>2. \A k \in 1..Len(ctxs') : ctxs'[k].fd \in writefds' => ctxs'[k].writebuf # <<>>
    BY <1>6 DEF WatchedOK
  <2> QED BY <1>10, <2>1, <2>2 DEF WatchedOK
<1> QED BY <1>5, <1>10, <1>12, <1>13 DEF BooksOK

LEMMA BooksUnchanged ==
    ASSUME LoopInv, UNCHANGED <<sock, ctxs, readfds, writefds, maxfd>> PROVE BooksOK'
BY DEF LoopInv, BooksOK, SocketsOK, CtxsOK, WatchedOK, InFds, OutFds

\* The snapshot outlives whatever takes nothing away from the descriptors in it.
LEMMA SnapshotKept ==
    ASSUME LoopInv, UNCHANGED <<tmpr, tmpw, rd>>,
           readfds \subseteq readfds', writefds \subseteq writefds',
           \A fd \in tmpr : Readable(fd) => Readable(fd)',
           rd = "eof" => sock'[Scan] = sock[Scan]
    PROVE  SnapshotOK'
<1>1. Scan' = Scan
  BY DEF Scan
<1> QED BY <1>1 DEF LoopInv, SnapshotOK

----------------------------------------------------------------------------
(* Each action preserves the invariant. *)

LEMMA LoopInvInit == Init => LoopInv
<1> SUFFICES ASSUME Init PROVE LoopInv
  OBVIOUS
<1>1. HInv
  BY DEF Init, HandlerInit, HInv, HandlerTypeOK, OneSlotPerPeer, CurMatches, ToldSoFar,
         LeaverInactive, InLoop
<1>2. /\ sock \in [Fds -> Inbound \cup {Free, Listening, Outgoing}]
      /\ \A fd \in Fds : sock[fd].kind = IF fd = ListenFd THEN "listening" ELSE "free"
  BY Kinds DEF Init
<1>3. SocketsOK /\ InFds = {} /\ OutFds = {}
  BY <1>2 DEF SocketsOK, InFds, OutFds
<1>4. ctxs \in Seq(SocketCtx) /\ Len(ctxs) = 0 /\ backlog \in Seq(ClientMsg)
  BY DEF Init
<1>5. CtxsOK
  BY <1>3, <1>4 DEF CtxsOK
<1>6. WatchedOK
  BY <1>3, <1>4, FdsAre DEF Init, WatchedOK
<1>7. SnapshotOK
  BY DEF Init, SnapshotOK
<1> QED BY <1>1, <1>3, <1>4, <1>5, <1>6, <1>7 DEF LoopInv, Init

LEMMA LoopInvRestart == ASSUME LoopInv, Restart PROVE LoopInv'
<1> USE DEF Restart
<1>1. HInv'
  BY HInvReset
<1>2. /\ sock' \in [Fds -> Inbound \cup {Free, Listening, Outgoing}]
      /\ \A fd \in Fds : sock'[fd].kind = IF fd = ListenFd THEN "listening" ELSE "free"
  BY Kinds
<1>3. SocketsOK' /\ InFds' = {} /\ OutFds' = {}
  BY <1>2 DEF SocketsOK, InFds, OutFds
<1>4. ctxs' \in Seq(SocketCtx) /\ Len(ctxs') = 0 /\ backlog' \in Seq(ClientMsg)
  OBVIOUS
<1>5. CtxsOK'
  BY <1>3, <1>4 DEF CtxsOK
<1>6. WatchedOK'
  BY <1>3, <1>4, FdsAre DEF WatchedOK
<1>7. SnapshotOK'
  BY DEF SnapshotOK
<1>8. restarts' \in Nat
  BY DEF LoopInv
<1> QED BY <1>1, <1>3, <1>4, <1>5, <1>6, <1>7, <1>8 DEF LoopInv

LEMMA LoopInvConnect ==
    ASSUME LoopInv, NEW m \in ClientMsg, Connect(m) PROVE LoopInv'
<1> USE DEF Connect
<1>1. HInv'
  BY HInvStutter DEF LoopInv
<1>2. backlog' \in Seq(ClientMsg) /\ backlog' # <<>>
  BY DEF LoopInv
<1>3. BooksOK'
  BY BooksUnchanged DEF loopVars
<1>4. \A fd \in tmpr : Readable(fd) => Readable(fd)'
  BY <1>2 DEF Readable
<1>5. SnapshotOK'
  BY <1>4, SnapshotKept DEF loopVars
<1> QED BY <1>1, <1>2, <1>3, <1>5 DEF LoopInv, BooksOK

LEMMA LoopInvArrive ==
    ASSUME LoopInv, NEW fd \in Fds, Arrive(fd) PROVE LoopInv'
<1> DEFINE x == [sock[fd] EXCEPT !.arrived = @ + 1]
<1> USE DEF Arrive
<1>1. fd \in InFds /\ sock[fd] \in Inbound
  BY Kinds DEF LoopInv, SocketsOK, InFds
<1>2. /\ x \in Inbound /\ x.msg = sock[fd].msg /\ x.arrived = sock[fd].arrived + 1
      /\ x.received = sock[fd].received /\ x.end = sock[fd].end /\ x.kind = "in"
      /\ sock[fd].received \in 0..2 /\ sock[fd].arrived \in 0..2
      /\ sock[fd].received <= sock[fd].arrived
  BY <1>1 DEF Inbound, Parts, LoopInv, SocketsOK
<1>3. sock' = [sock EXCEPT ![fd] = x]
  OBVIOUS
<1> HIDE DEF x
<1>4. BooksOK'
  <2>1. x.received <= x.arrived
    BY <1>2
  <2> QED BY <1>1, <1>2, <1>3, <2>1, BooksOfInbound DEF loopVars
<1>5. sock'[fd] = x /\ \A d \in Fds : d # fd => sock'[d] = sock[d]
  BY <1>3 DEF LoopInv, SocketsOK
<1>6. tmpr \subseteq Fds /\ (rd = "eof" => Scan \in Fds /\ sock[Scan].end # "no")
  BY FdsAre DEF LoopInv, SnapshotOK, WatchedOK, InFds
<1>7. \A d \in tmpr : Readable(d) => Readable(d)'
  BY <1>2, <1>5, <1>6 DEF Readable
<1>8. SnapshotOK'
  BY <1>5, <1>6, <1>7, SnapshotKept DEF loopVars
<1>9. HInv'
  BY HInvStutter DEF LoopInv
<1> QED BY <1>4, <1>8, <1>9 DEF LoopInv, BooksOK

LEMMA LoopInvEnd ==
    ASSUME LoopInv, NEW fd \in Fds, NEW how \in {"eof", "reset"}, End(fd, how)
    PROVE  LoopInv'
<1> DEFINE x == [sock[fd] EXCEPT !.end = how]
<1> USE DEF End
<1>1. fd \in InFds /\ sock[fd] \in Inbound
  BY Kinds DEF LoopInv, SocketsOK, InFds
<1>2. /\ x \in Inbound /\ x.msg = sock[fd].msg /\ x.end # "no" /\ x.kind = "in"
      /\ x.received <= x.arrived
  BY <1>1 DEF Inbound, LoopInv, SocketsOK
<1>3. sock' = [sock EXCEPT ![fd] = x]
  OBVIOUS
<1> HIDE DEF x
<1>4. BooksOK'
  BY <1>1, <1>2, <1>3, BooksOfInbound DEF loopVars
<1>5. sock'[fd] = x /\ \A d \in Fds : d # fd => sock'[d] = sock[d]
  BY <1>3 DEF LoopInv, SocketsOK
<1>6. tmpr \subseteq Fds /\ (rd = "eof" => Scan \in Fds /\ sock[Scan].end # "no")
  BY FdsAre DEF LoopInv, SnapshotOK, WatchedOK, InFds
<1>7. \A d \in tmpr : Readable(d) => Readable(d)'
  BY <1>2, <1>5, <1>6 DEF Readable
<1>8. SnapshotOK'
  BY <1>5, <1>6, <1>7, SnapshotKept DEF loopVars
<1>9. HInv'
  BY HInvStutter DEF LoopInv
<1> QED BY <1>4, <1>8, <1>9 DEF LoopInv, BooksOK

LEMMA LoopInvSelect == ASSUME LoopInv, Select PROVE LoopInv'
<1> USE DEF Select
<1>1. HInv' /\ BooksOK'
  BY HInvStutter, BooksUnchanged DEF LoopInv
<1>2. rd' = "no"
  BY DEF AtFd
<1>3. tmpr' \subseteq readfds' /\ tmpw' \subseteq writefds'
  OBVIOUS
<1>4. \A fd \in tmpr' : Readable(fd)'
  BY DEF Readable
<1>5. SnapshotOK'
  BY <1>2, <1>3, <1>4 DEF SnapshotOK
<1> QED BY <1>1, <1>5 DEF LoopInv, BooksOK

LEMMA LoopInvAccept == ASSUME LoopInv, Accept PROVE LoopInv'
<1> DEFINE m == Head(backlog)
           x == NewInbound(m)
           ctx == SocketCtxNew(LowestFree, m.from, NoAddr, <<>>)
<1> USE DEF Accept, AtRead, AtFd
<1>1. ListenFd \in tmpr /\ Readable(ListenFd) /\ sock[ListenFd].kind = "listening"
  BY FdsAre DEF LoopInv, SnapshotOK, SocketsOK
<1>2. backlog # <<>> /\ backlog \in Seq(ClientMsg)
  BY <1>1 DEF Readable, LoopInv
<1>3. m \in ClientMsg /\ backlog' \in Seq(ClientMsg)
  BY <1>2
<1>4. m.from \in FromAddrs
  BY <1>3 DEF ClientMsg, Knock, Bye
<1>5. LowestFree \in Fds /\ LowestFree \notin tmpr
  BY LowestFreeShape
<1> HIDE DEF m
<1>6. x \in Inbound /\ x.kind = "in" /\ x.msg = m /\ x.received <= x.arrived
  BY <1>3 DEF NewInbound, Inbound, Parts
<1>7. /\ ctx \in SocketCtx /\ ctx.fd = LowestFree /\ ctx.fromaddr = m.from
      /\ ctx.toaddr = NoAddr /\ ctx.writebuf = <<>> /\ ~ctx.shut_rd
  BY <1>4, <1>5 DEF SocketCtxNew, SocketCtx
<1>8. /\ sock' = [sock EXCEPT ![LowestFree] = x]
      /\ ctxs' = Append(ctxs, ctx) /\ readfds' = readfds \cup {LowestFree}
      /\ maxfd' = MaxOf(LowestFree, maxfd)
  BY DEF m
<1> HIDE DEF x, ctx
<1>9. sock'[LowestFree] = x /\ \A fd \in Fds : fd # LowestFree => sock'[fd] = sock[fd]
  BY <1>5, <1>8 DEF LoopInv, SocketsOK
<1>10. CtxOK(ctx, sock')
  BY <1>6, <1>7, <1>9 DEF CtxOK
<1>11. BooksOK'
  BY <1>6, <1>7, <1>8, <1>10, BooksOfOpened
<1>12. SnapshotOK'
  <2>1. tmpr' \subseteq readfds' /\ tmpw' \subseteq writefds' /\ rd' = "no"
    BY <1>8 DEF LoopInv, SnapshotOK
  <2>2. \A fd \in tmpr' : Readable(fd)'
    <3> TAKE fd \in tmpr'
    <3>1. fd \in InFds /\ Readable(fd) /\ fd # LowestFree
      BY <1>5 DEF LoopInv, SnapshotOK, WatchedOK
    <3>2. sock'[fd] = sock[fd] /\ sock[fd].kind = "in"
      BY <1>9, <3>1 DEF InFds
    <3> QED BY <3>1, <3>2 DEF Readable
  <2> QED BY <2>1, <2>2 DEF SnapshotOK
<1>13. HInv'
  BY HInvStutter DEF LoopInv
<1> QED BY <1>3, <1>11, <1>12, <1>13 DEF LoopInv, BooksOK

LEMMA LoopInvAcceptFails == ASSUME LoopInv, AcceptFails PROVE LoopInv'
<1> USE DEF AcceptFails, AtRead, AtFd
<1>1. HInv' /\ BooksOK'
  BY HInvStutter, BooksUnchanged DEF LoopInv
<1>2. SnapshotOK'
  BY DEF LoopInv, SnapshotOK, Readable
<1> QED BY <1>1, <1>2 DEF LoopInv, BooksOK

\* The connection the read branch is at, and the message that its ctx gives the
\* address of.
LEMMA RecvShape ==
    ASSUME LoopInv, AtRead, Scan # ListenFd
    PROVE  /\ Scan \in InFds /\ sock[Scan] \in Inbound
           /\ sock[Scan].msg \in ClientMsg
           /\ [sock[Scan].msg EXCEPT !.from = ctxs[Min(ByFd(Scan))].fromaddr]
                 = sock[Scan].msg
<1> DEFINE ctx == ctxs[Min(ByFd(Scan))]
           m == sock[Scan].msg
<1>1. Scan \in InFds /\ sock[Scan] \in Inbound
  BY ScanShape DEF AtRead
<1>2. m \in ClientMsg
  BY <1>1, Kinds
<1>3. CtxOK(ctx, sock) /\ ctx.fd = Scan
  BY <1>1, CtxOfFd
<1>4. sock[Scan].kind = "in"
  BY <1>1 DEF InFds
<1> HIDE DEF ctx
<1>5. ctx.fromaddr = m.from
  BY <1>3, <1>4 DEF CtxOK
<1>6. [m EXCEPT !.from = m.from] = m
  <2> HIDE DEF m
  <2>1. CASE m \in Knock
    BY <2>1 DEF Knock
  <2>2. CASE m \in Bye
    BY <2>2 DEF Bye
  <2> QED BY <1>2, <2>1, <2>2 DEF ClientMsg
<1> QED BY <1>1, <1>2, <1>5, <1>6 DEF ctx

LEMMA HInvHandleMsg ==
    ASSUME HInv, NEW m, HandleMsg(m) PROVE HInv'
BY HInvKnock, HInvBye DEF HandleMsg

LEMMA LoopInvRecv == ASSUME LoopInv, Recv PROVE LoopInv'
<1> DEFINE x == Received(sock[Scan])
<1> USE DEF Recv, AtRead
<1>1. /\ Scan \in InFds /\ sock[Scan] \in Inbound /\ Scan \in Fds
      /\ rd = "no" /\ Scan \in tmpr
  BY RecvShape DEF InFds, AtFd
<1>2. /\ x \in Inbound /\ x.msg = sock[Scan].msg /\ x.received = x.arrived
      /\ sock[Scan].end = "eof" => x.end = "eof"
  BY <1>1 DEF Received, Inbound, Parts
<1>3. sock' = [sock EXCEPT ![Scan] = x]
  OBVIOUS
<1> HIDE DEF x
<1>4. BooksOK'
  <2>1. x.received <= x.arrived
    BY <1>2 DEF Inbound, Parts
  <2> QED BY <1>1, <1>2, <1>3, <2>1, BooksOfInbound
<1>5. HInv'
  <2>1. CASE Completes(sock[Scan])
    BY <2>1, HInvHandleMsg DEF LoopInv
  <2>2. CASE ~Completes(sock[Scan])
    BY <2>2, HInvStutter DEF LoopInv
  <2> QED BY <2>1, <2>2
<1>6. sock'[Scan] = x /\ \A fd \in Fds : fd # Scan => sock'[fd] = sock[fd]
  BY <1>1, <1>3 DEF LoopInv, SocketsOK
<1>7. SnapshotOK'
  <2>1. Scan' = Scan /\ tmpr' = tmpr /\ tmpw' = tmpw
    BY DEF Scan
  <2>2. \A fd \in tmpr \ {Scan} : Readable(fd)'
    <3> TAKE fd \in tmpr \ {Scan}
    <3>1. Readable(fd) /\ fd \in Fds
      BY <1>1, FdsAre DEF LoopInv, SnapshotOK, WatchedOK, InFds
    <3> QED BY <1>6, <3>1 DEF Readable
  <2>3. rd' = "eof" \/ rd' = "open"
    OBVIOUS
  <2>4. rd' = "eof" => sock'[Scan].end # "no" /\ sock'[Scan].received = sock'[Scan].arrived
    BY <1>2, <1>6
  <2> QED BY <1>1, <2>1, <2>2, <2>3, <2>4 DEF LoopInv, SnapshotOK
<1> QED BY <1>4, <1>5, <1>7 DEF LoopInv, BooksOK

LEMMA LoopInvReadMore == ASSUME LoopInv, ReadMore PROVE LoopInv'
<1> USE DEF ReadMore
<1>1. HInv' /\ BooksOK'
  BY HInvStutter, BooksUnchanged DEF LoopInv
<1>2. SnapshotOK'
  BY DEF LoopInv, SnapshotOK, Readable
<1> QED BY <1>1, <1>2 DEF LoopInv, BooksOK

LEMMA LoopInvReadEof == ASSUME LoopInv, ReadEof PROVE LoopInv'
<1> USE DEF ReadEof
<1>1. Scan \in tmpr \ {ListenFd} /\ \A fd \in tmpr \ {Scan} : Readable(fd)
  BY DEF LoopInv, SnapshotOK
<1>2. Scan \in InFds
  BY <1>1, ScanShape
<1>3. BooksOK' /\ sock' = [sock EXCEPT ![Scan] = Free]
  <2> DEFINE c == Min(ByFd(Scan))
  <2>1. CloseIfDone([ctxs EXCEPT ![c].shut_rd = TRUE], c)
    OBVIOUS
  <2> HIDE DEF c
  <2>2. c = Min(ByFd(Scan))
    BY DEF c
  <2> QED BY <1>2, <2>1, <2>2, BooksOfClosed
<1>4. SnapshotOK'
  <2>1. tmpr' \subseteq readfds' /\ tmpw' \subseteq writefds' /\ rd' = "no"
    BY DEF LoopInv, SnapshotOK
  <2>2. \A fd \in tmpr' : Readable(fd)'
    <3> TAKE fd \in tmpr'
    <3>1. Readable(fd) /\ fd \in Fds /\ fd # Scan
      BY <1>1, FdsAre DEF LoopInv, SnapshotOK, WatchedOK, InFds
    <3>2. sock'[fd] = sock[fd]
      BY <1>3, <3>1 DEF LoopInv, SocketsOK
    <3> QED BY <3>1, <3>2 DEF Readable
  <2> QED BY <2>1, <2>2 DEF SnapshotOK
<1>5. HInv'
  BY HInvStutter DEF LoopInv
<1> QED BY <1>3, <1>4, <1>5 DEF LoopInv, BooksOK

\* The tracker never shuts a connection down for reading before it ends, so the
\* write branch closes none.
LEMMA LoopInvWriteLeaves ==
    ASSUME LoopInv, AtWrite, NEW left \in Seq(Notice), NEW after,
           WriteLeaves(left, after),
           \/ after = writefds /\ left # <<>>
           \/ after = writefds \ {Scan}
    PROVE  LoopInv'
<1> DEFINE c == Min(ByFd(Scan))
           cs == [ctxs EXCEPT ![c].writebuf = left]
<1> USE DEF AtWrite, AtFd
<1>0. /\ CloseIfDone(cs, c) /\ tmpw' = tmpw \ {Scan} /\ writefds' = after
      /\ UNCHANGED <<handlerVars, backlog, readfds, maxfd, tmpr, rd, restarts>>
  BY DEF WriteLeaves
<1>1. Scan \in OutFds /\ sock[Scan].kind = "out"
  BY ScanShape DEF OutFds
<1>2. /\ c \in 1..Len(ctxs) /\ ctxs[c].fd = Scan /\ ctxs[c] \in SocketCtx
      /\ CtxOK(ctxs[c], sock) /\ ctxs \in Seq(SocketCtx)
  BY <1>1, CtxOfFd DEF LoopInv, CtxsOK
<1> HIDE DEF c
<1>3. ~cs[c].shut_rd
  BY <1>2 DEF CtxOK, SocketCtx
<1>4. ctxs' = cs /\ UNCHANGED sock
  BY <1>0, <1>3 DEF CloseIfDone
<1>5. BooksOK'
  BY <1>0, <1>1, <1>2, <1>4, BooksOfWritebuf
<1>6. SnapshotOK'
  <2>1. \A fd \in tmpr : Readable(fd) => Readable(fd)'
    BY <1>0, <1>4 DEF Readable
  <2> QED BY <1>0, <2>1 DEF LoopInv, SnapshotOK
<1>7. HInv'
  BY <1>0, HInvStutter DEF LoopInv
<1> QED BY <1>0, <1>5, <1>6, <1>7 DEF LoopInv, BooksOK

LEMMA LoopInvWriteAll == ASSUME LoopInv, WriteAll PROVE LoopInv'
<1>1. AtWrite /\ WriteLeaves(<<>>, writefds \ {Scan})
  BY DEF WriteAll
<1>2. <<>> \in Seq(Notice)
  OBVIOUS
<1> QED BY <1>1, <1>2, LoopInvWriteLeaves

LEMMA LoopInvWriteError == ASSUME LoopInv, WriteError PROVE LoopInv'
<1>1. AtWrite /\ WriteLeaves(<<>>, writefds \ {Scan})
  BY DEF WriteError
<1>2. <<>> \in Seq(Notice)
  OBVIOUS
<1> QED BY <1>1, <1>2, LoopInvWriteLeaves

LEMMA LoopInvWriteSome == ASSUME LoopInv, WriteSome PROVE LoopInv'
<1>1. AtWrite /\ WriteBuf \in Seq(Notice)
  <2>1. AtWrite /\ Scan \in OutFds
    BY ScanShape DEF WriteSome, AtWrite
  <2>2. ctxs[Min(ByFd(Scan))] \in SocketCtx
    BY <2>1, CtxOfFd
  <2> QED BY <2>1, <2>2 DEF WriteBuf, SocketCtx
<1>2. PICK k \in 0..Len(WriteBuf) - 1 : WriteLeaves(Unsent(WriteBuf, k), writefds)
  BY DEF WriteSome
<1>3. Unsent(WriteBuf, k) \in Seq(Notice) /\ Unsent(WriteBuf, k) # <<>>
  <2> DEFINE b == WriteBuf
  <2>1. b \in Seq(Notice) /\ k \in 0..Len(b) - 1
    BY <1>1, <1>2
  <2> HIDE DEF b
  <2>2. /\ SubSeq(b, k + 1, Len(b)) \in Seq(Notice)
        /\ Len(SubSeq(b, k + 1, Len(b))) = Len(b) - k /\ Len(b) - k # 0
    BY <2>1
  <2>3. Unsent(b, k) \in Seq(Notice) /\ Unsent(b, k) # <<>>
    BY <2>2 DEF Unsent
  <2> QED BY <2>3 DEF b
<1> QED BY <1>1, <1>2, <1>3, LoopInvWriteLeaves

\* What TrySend is about to send goes to a client.
LEMMA DueShape ==
    ASSUME HInv, TrySend PROVE Due \in Notice /\ Due.to \in ToAddrs
<1>1. Due \in Notice
  BY DueType DEF TrySend
<1> QED BY <1>1 DEF Notice

LEMMA LoopInvSendAppends == ASSUME LoopInv, SendAppends PROVE LoopInv'
<1> DEFINE c == Min(ByToaddr(Due.to))
           d == Due
           buf == Append(ctxs[c].writebuf, d)
<1> USE DEF SendAppends
<1>1. HInv' /\ Due \in Notice /\ Due.to \in ToAddrs
  BY HInvTrySend, DueShape DEF LoopInv
<1>2. /\ c \in 1..Len(ctxs) /\ ctxs[c] \in SocketCtx
      /\ sock[ctxs[c].fd].kind = "out"
  BY <1>1, CtxOfToaddr
<1>3. ctxs' = [ctxs EXCEPT ![c].writebuf = buf]
  OBVIOUS
<1>4. d \in Notice
  BY <1>1
<1> HIDE DEF c, d
<1>5. buf \in Seq(Notice) /\ buf # <<>>
  BY <1>2, <1>4 DEF SocketCtx
<1> HIDE DEF buf
<1>6. BooksOK'
  BY <1>2, <1>3, <1>5, BooksOfWritebuf
<1>7. \A fd \in tmpr : Readable(fd) => Readable(fd)'
  BY DEF Readable
<1>8. SnapshotOK'
  BY <1>7, SnapshotKept
<1> QED BY <1>1, <1>6, <1>8 DEF LoopInv, BooksOK

LEMMA LoopInvSendWhole == ASSUME LoopInv, SendWhole PROVE LoopInv'
<1> USE DEF SendWhole
<1>1. HInv'
  BY HInvTrySend DEF LoopInv
<1>2. writefds' = writefds
  BY LowestFreeShape
<1>3. BooksOK'
  BY <1>2, BooksUnchanged
<1>4. \A fd \in tmpr : Readable(fd) => Readable(fd)'
  BY DEF Readable
<1>5. SnapshotOK'
  BY <1>2, <1>4, SnapshotKept
<1> QED BY <1>1, <1>3, <1>5 DEF LoopInv, BooksOK

LEMMA LoopInvSendFails == ASSUME LoopInv, SendFails PROVE LoopInv'
<1> USE DEF SendFails, loopVars
<1>1. HInv' /\ BooksOK'
  BY HInvTrySend, BooksUnchanged DEF LoopInv
<1>2. \A fd \in tmpr : Readable(fd) => Readable(fd)'
  BY DEF Readable
<1>3. SnapshotOK'
  BY <1>2, SnapshotKept
<1> QED BY <1>1, <1>3 DEF LoopInv, BooksOK

LEMMA LoopInvSendPart == ASSUME LoopInv, SendPart PROVE LoopInv'
<1> DEFINE d == Due
           ctx == SocketCtxNew(LowestFree, NoAddr, d.to, <<d>>)
<1> USE DEF SendPart
<1>1. HInv' /\ d \in Notice /\ d.to \in ToAddrs
  BY HInvTrySend, DueShape DEF LoopInv
<1>2. /\ LowestFree \in Fds
      /\ LowestFree \notin readfds \cup writefds \cup tmpr \cup tmpw
  BY LowestFreeShape
<1>3. /\ sock' = [sock EXCEPT ![LowestFree] = Outgoing]
      /\ ctxs' = Append(ctxs, ctx) /\ writefds' = writefds \cup {LowestFree}
      /\ maxfd' = MaxOf(LowestFree, maxfd)
  OBVIOUS
<1> HIDE DEF d
<1>4. d.to # NoAddr /\ <<d>> \in Seq(Notice) /\ <<d>> # <<>>
  BY <1>1, TrackerLoopAssumption
<1>5. /\ ctx \in SocketCtx /\ ctx.fd = LowestFree /\ ctx.toaddr # NoAddr
      /\ ctx.writebuf # <<>> /\ ~ctx.shut_rd
  BY <1>1, <1>2, <1>4 DEF SocketCtxNew, SocketCtx
<1> HIDE DEF ctx
<1>6. sock'[LowestFree] = Outgoing /\ \A fd \in Fds : fd # LowestFree => sock'[fd] = sock[fd]
  BY <1>2, <1>3 DEF LoopInv, SocketsOK
<1>7. CtxOK(ctx, sock')
  BY <1>5, <1>6, Kinds DEF CtxOK
<1>8. BooksOK'
  <2>1. Outgoing \notin Inbound
    BY Kinds
  <2> QED BY <1>3, <1>5, <1>7, <2>1, BooksOfOpened
<1>9. tmpr \subseteq Fds \ {LowestFree} /\ (rd # "no" => Scan \in tmpr)
  BY <1>2, FdsAre DEF LoopInv, SnapshotOK, WatchedOK, InFds
<1>10. \A fd \in tmpr : Readable(fd) => Readable(fd)'
  BY <1>6, <1>9 DEF Readable
<1>11. SnapshotOK'
  BY <1>3, <1>6, <1>9, <1>10, SnapshotKept
<1> QED BY <1>1, <1>8, <1>11 DEF LoopInv, BooksOK

LEMMA LoopInvHandlerStep == ASSUME LoopInv, HandlerStep PROVE LoopInv'
<1> USE DEF HandlerStep, loopVars
<1>1. HInv'
  BY HInvSkip, HInvAnnounceDone, HInvIntroduceDone, HInvFarewellDone DEF LoopInv
<1>2. BooksOK'
  BY BooksUnchanged
<1>3. \A fd \in tmpr : Readable(fd) => Readable(fd)'
  BY DEF Readable
<1>4. SnapshotOK'
  BY <1>3, SnapshotKept
<1> QED BY <1>1, <1>2, <1>4 DEF LoopInv, BooksOK

LEMMA LoopInvStutter == ASSUME LoopInv, UNCHANGED vars PROVE LoopInv'
<1> USE DEF vars, loopVars
<1>1. HInv' /\ BooksOK'
  BY HInvStutter, BooksUnchanged DEF LoopInv
<1>2. \A fd \in tmpr : Readable(fd) => Readable(fd)'
  BY DEF Readable
<1>3. SnapshotOK'
  BY <1>2, SnapshotKept
<1> QED BY <1>1, <1>3 DEF LoopInv, BooksOK

LEMMA LoopInvNext == LoopInv /\ [Next]_vars => LoopInv'
<1> SUFFICES ASSUME LoopInv, [Next]_vars PROVE LoopInv'
  OBVIOUS
<1>1. ASSUME NEW m \in ClientMsg, Connect(m) PROVE LoopInv'
  BY <1>1, LoopInvConnect
<1>2. ASSUME NEW fd \in Fds, Arrive(fd) \/ ClientEnds(fd) PROVE LoopInv'
  BY <1>2, LoopInvArrive, LoopInvEnd DEF ClientEnds
<1>3. CASE Loop
  BY <1>3, LoopInvSelect, LoopInvAccept, LoopInvAcceptFails, LoopInvRecv,
     LoopInvReadMore, LoopInvReadEof, LoopInvWriteAll, LoopInvWriteSome,
     LoopInvWriteError, LoopInvSendAppends, LoopInvSendWhole, LoopInvSendFails,
     LoopInvSendPart, LoopInvHandlerStep DEF Loop
<1>4. CASE Restart
  BY <1>4, LoopInvRestart
<1>5. CASE UNCHANGED vars
  BY <1>5, LoopInvStutter
<1> QED BY <1>1, <1>2, <1>3, <1>4, <1>5 DEF Next

----------------------------------------------------------------------------
(* The theorems *)

LEMMA LoopInvAlways == Spec => []LoopInv
BY LoopInvInit, LoopInvNext, PTL DEF Spec

\* The ctxs, the sets that select() is given and the kernel's sockets agree at every
\* step, for any number of descriptors, clients, notices and restarts, wherever reads
\* and writes are cut and whenever descriptors run out: socketctxs, readfds, writefds
\* and maxfd of THREAD_wait_for_tcp_messages neither leak a descriptor nor keep one
\* that was closed.
THEOREM LoopTracksItsDescriptors == Spec => []FdsTracked
<1>1. ASSUME LoopInv PROVE FdsTracked
  <2> USE <1>1
  <2>1. ctxs \in Seq(SocketCtx) /\ DOMAIN ctxs = 1..Len(ctxs)
    BY DEF LoopInv, CtxsOK
  <2>2. readfds \cup writefds \cup tmpr \cup tmpw \cup {maxfd} \subseteq Fds
    BY FdsAre DEF LoopInv, WatchedOK, SnapshotOK, InFds, OutFds
  <2>3. TypeOK
    <3>1. HandlerTypeOK /\ backlog \in Seq(ClientMsg) /\ rd \in {"no", "open", "eof"}
      BY DEF LoopInv, HInv, SnapshotOK
    <3>2. \A fd \in Fds : sock[fd] \in Inbound \cup {Free, Listening, Outgoing}
      BY DEF LoopInv, SocketsOK
    <3> QED BY <2>1, <2>2, <3>1, <3>2 DEF TypeOK
  <2>4. \A c \in 1..Len(ctxs) : ctxs[c].fd \in InFds \cup OutFds
    <3> TAKE c \in 1..Len(ctxs)
    <3>1. ctxs[c] \in SocketCtx /\ CtxOK(ctxs[c], sock)
      BY DEF LoopInv, CtxsOK
    <3> QED BY <3>1 DEF SocketCtx, CtxOK, InFds, OutFds
  <2>5. CtxFds = InFds \cup OutFds
    BY <2>1, <2>4 DEF LoopInv, CtxsOK, CtxFds
  <2>6. \A c, d \in DOMAIN ctxs : ctxs[c].fd = ctxs[d].fd => c = d
    BY <2>1 DEF LoopInv, CtxsOK
  <2>7. writefds \subseteq {ctxs[c].fd : c \in {d \in DOMAIN ctxs : ctxs[d].writebuf # <<>>}}
    <3> SUFFICES ASSUME NEW fd \in writefds
                 PROVE  \E c \in DOMAIN ctxs : ctxs[c].writebuf # <<>> /\ ctxs[c].fd = fd
      OBVIOUS
    <3>1. fd \in OutFds
      BY DEF LoopInv, WatchedOK
    <3>2. PICK c \in 1..Len(ctxs) : ctxs[c].fd = fd
      BY <3>1 DEF LoopInv, CtxsOK
    <3> QED BY <2>1, <3>2 DEF LoopInv, WatchedOK
  <2> QED BY <2>3, <2>5, <2>6, <2>7 DEF FdsTracked, LoopInv, WatchedOK
<1> QED BY <1>1, LoopInvAlways, PTL

\* Whatever happens between select() and the branch for a descriptor, among it the
\* closing of others and the reuse of their numbers, the descriptor is open, is the
\* connection that select() saw, and has what it saw: accept() and recv() of
\* THREAD_wait_for_tcp_messages do not block, and find_by_fd finds a ctx.
THEOREM SelectSnapshotHolds == Spec => []SnapshotFresh
<1>1. LoopInv => SnapshotFresh
  BY DEF LoopInv, SnapshotOK, SnapshotFresh
<1> QED BY <1>1, LoopInvAlways, PTL

\* The connections that keep the parts of their message, and so do not hand it over.
KeepsParts(fd) ==
    sock[fd].kind = "in" => /\ sock'[fd].kind = "in"
                            /\ sock'[fd].received = sock[fd].received

\* Reading completes the message only for the descriptor the loop is at, and hands it
\* over; a connection is closed only when all that had arrived was received.
LEMMA WholeIsHandled ==
    ASSUME LoopInv, [Next]_vars, NEW fd \in InFds,
           sock[fd].received < Parts, sock[fd].arrived = Parts,
           ~(sock'[fd].kind = "in" /\ sock'[fd].received < Parts)
    PROVE  cur' = sock[fd].msg \/ restarts' # restarts
<1>0. fd \in Fds /\ sock[fd].kind = "in" /\ sock[fd] \in Inbound /\ ~KeepsParts(fd)
  BY Kinds DEF LoopInv, SocketsOK, InFds, KeepsParts
<1>1. \A x : sock' = [sock EXCEPT ![fd] = x] => sock'[fd] = x
  BY <1>0 DEF LoopInv, SocketsOK
<1>2. \A d, x : d # fd /\ sock' = [sock EXCEPT ![d] = x] => KeepsParts(fd)
  BY <1>0 DEF LoopInv, SocketsOK, KeepsParts
<1>3. UNCHANGED sock => KeepsParts(fd)
  BY DEF KeepsParts
<1>4. ASSUME NEW m \in ClientMsg, Connect(m) PROVE FALSE
  BY <1>0, <1>3, <1>4 DEF Connect
<1>5. ASSUME NEW d \in Fds, Arrive(d) \/ ClientEnds(d) PROVE FALSE
  <2>1. \E x : /\ sock' = [sock EXCEPT ![d] = x]
               /\ d = fd => x.kind = "in" /\ x.received = sock[fd].received
    <3>1. CASE Arrive(d)
      <4>1. sock' = [sock EXCEPT ![d] = [sock[d] EXCEPT !.arrived = @ + 1]]
        BY <3>1 DEF Arrive
      <4>2. d = fd => LET x == [sock[d] EXCEPT !.arrived = @ + 1]
                      IN x.kind = "in" /\ x.received = sock[fd].received
        BY <1>0 DEF Inbound
      <4> QED BY <4>1, <4>2
    <3>2. ASSUME NEW how \in {"eof", "reset"}, End(d, how)
          PROVE  \E x : /\ sock' = [sock EXCEPT ![d] = x]
                        /\ d = fd => x.kind = "in" /\ x.received = sock[fd].received
      <4>1. sock' = [sock EXCEPT ![d] = [sock[d] EXCEPT !.end = how]]
        BY <3>2 DEF End
      <4> QED BY <1>0, <4>1 DEF Inbound
    <3> QED BY <1>5, <3>1, <3>2 DEF ClientEnds
  <2>2. PICK x : /\ sock' = [sock EXCEPT ![d] = x]
                 /\ d = fd => x.kind = "in" /\ x.received = sock[fd].received
    BY <2>1
  <2>3. KeepsParts(fd)
    BY <1>0, <1>1, <1>2, <2>2 DEF KeepsParts
  <2> QED BY <1>0, <2>3
<1>6. ASSUME Accept \/ SendPart PROVE FALSE
  <2>1. LowestFree # fd
    BY <1>0, <1>6, LowestFreeShape DEF Accept, SendPart
  <2>2. \E x : sock' = [sock EXCEPT ![LowestFree] = x]
    BY <1>6 DEF Accept, SendPart
  <2> QED BY <1>0, <1>2, <2>1, <2>2
<1>7. CASE Recv
  <2> DEFINE s == sock[Scan]
  <2>1. sock' = [sock EXCEPT ![Scan] = Received(s)]
    BY <1>7 DEF Recv
  <2>2. fd = Scan
    BY <1>0, <1>2, <2>1
  <2>3. Completes(sock[Scan])
    BY <2>2 DEF Completes
  <2>4. HandleMsg([sock[Scan].msg EXCEPT !.from = ctxs[Min(ByFd(Scan))].fromaddr])
    BY <1>7, <2>3 DEF Recv
  <2>5. HandleMsg(sock[Scan].msg)
    BY <1>7, <2>4, RecvShape DEF Recv
  <2> QED BY <2>2, <2>5 DEF HandleMsg, CallKnock, CallBye, Call
<1>8. ASSUME ReadEof PROVE FALSE
  <2>1. Scan \in tmpr \ {ListenFd} /\ sock[Scan].received = sock[Scan].arrived
    BY <1>8 DEF ReadEof, LoopInv, SnapshotOK
  <2>2. Scan \in InFds /\ Scan # fd
    BY <2>1, <1>0, ScanShape DEF Inbound, Parts
  <2>3. sock' = [sock EXCEPT ![Scan] = Free]
    <3> DEFINE c == Min(ByFd(Scan))
    <3>1. /\ CloseIfDone([ctxs EXCEPT ![c].shut_rd = TRUE], c)
          /\ readfds' = readfds \ {Scan} /\ UNCHANGED <<writefds, maxfd>>
      BY <1>8 DEF ReadEof
    <3> HIDE DEF c
    <3>2. c = Min(ByFd(Scan))
      BY DEF c
    <3> QED BY <2>2, <3>1, <3>2, BooksOfClosed
  <2> QED BY <1>0, <1>2, <2>2, <2>3
<1>9. ASSUME NEW left, NEW after, AtWrite, WriteLeaves(left, after) PROVE FALSE
  <2> DEFINE c == Min(ByFd(Scan))
             cs == [ctxs EXCEPT ![c].writebuf = left]
  <2>1. Scan \in OutFds
    BY <1>9, ScanShape DEF AtWrite
  <2>2. /\ c \in 1..Len(ctxs) /\ ctxs[c] \in SocketCtx /\ CtxOK(ctxs[c], sock)
        /\ ctxs \in Seq(SocketCtx)
    BY <2>1, CtxOfFd DEF LoopInv, CtxsOK
  <2>3. CloseIfDone(cs, c)
    BY <1>9 DEF WriteLeaves
  <2> HIDE DEF c
  <2>4. ~cs[c].shut_rd
    BY <2>2 DEF CtxOK, SocketCtx
  <2> QED BY <1>0, <1>3, <2>3, <2>4 DEF CloseIfDone
<1>10. ASSUME \/ Select \/ AcceptFails \/ ReadMore \/ SendAppends \/ SendWhole
              \/ SendFails \/ HandlerStep \/ UNCHANGED vars
       PROVE  FALSE
  BY <1>0, <1>3, <1>10 DEF Select, AcceptFails, ReadMore, SendAppends, SendWhole,
     SendFails, HandlerStep, vars
<1>11. CASE Restart
  BY <1>11 DEF Restart, LoopInv
<1>12. ASSUME WriteAll \/ WriteSome \/ WriteError PROVE FALSE
  BY <1>9, <1>12 DEF WriteAll, WriteSome, WriteError
<1> QED BY <1>4, <1>5, <1>6, <1>7, <1>8, <1>10, <1>11, <1>12 DEF Next, Loop

\* A message that has arrived as a whole is handed to handle_msg, with the address it
\* came from, before its connection is forgotten: however its two parts were read,
\* and though its client may have closed or died meanwhile.  Only the end of the
\* process loses it.
THEOREM WholeMessagesReachTheHandler == Spec => CompleteMessagesHandled
<1> DEFINE A == \A fd \in InFds :
                   /\ sock[fd].received < Parts /\ sock[fd].arrived = Parts
                   /\ ~(sock'[fd].kind = "in" /\ sock'[fd].received < Parts)
                   => \/ cur' = sock[fd].msg
                      \/ restarts' # restarts
<1>1. LoopInv /\ [Next]_vars => A
  BY WholeIsHandled
<1>2. LoopInv /\ [Next]_vars => [A]_vars
  BY <1>1
<1> QED BY <1>2, LoopInvAlways, PTL DEF Spec, CompleteMessagesHandled

----------------------------------------------------------------------------
(* The event loop implements the tracker at the level of messages. *)

(* The two modules share handle_msg. *)

LEMMA SameMessages ==
    /\ Core!ToAddrs = ToAddrs /\ Core!Knock = Knock /\ Core!Bye = Bye
    /\ Core!ClientMsg = ClientMsg /\ Core!NoMsg = NoMsg /\ Core!Notice = Notice
    /\ \A m : Core!ListenAddr(m) = ListenAddr(m)
    /\ \A to, p, at : Core!PeerOnline(to, p, at) = PeerOnline(to, p, at)
    /\ \A to, p : Core!PeerOffline(to, p) = PeerOffline(to, p)
BY DEF Core!ToAddrs, ToAddrs, Core!Knock, Knock, Core!Bye, Bye, Core!ClientMsg, ClientMsg,
       Core!NoMsg, NoMsg, Core!Notice, Notice, Core!ListenAddr, ListenAddr,
       Core!WithPort, WithPort, Core!PeerOnline, PeerOnline, Core!PeerOffline, PeerOffline

LEMMA SameMin == \A S : Core!Min(S) = Min(S)
BY DEF Core!Min, Min

LEMMA SameCardinality == \A S : Core!Cardinality(S) = Cardinality(S)
BY DEF Core!Cardinality, Cardinality

LEMMA SameTable ==
    ASSUME NEW tbl
    PROVE  /\ \A from : Core!Slots(tbl, from) = Slots(tbl, from)
           /\ \A h : Core!HandleSlots(tbl, h) = HandleSlots(tbl, h)
           /\ \A next, from, to : Core!CreatePeer(tbl, next, from, to)
                                    = CreatePeer(tbl, next, from, to)
           /\ \A next, from : Core!HandleAfterCreate(tbl, next, from)
                                = HandleAfterCreate(tbl, next, from)
           /\ \A from : Core!FindPeer(tbl, from) = FindPeer(tbl, from)
           /\ \A h : Core!DestroyPeer(tbl, h) = DestroyPeer(tbl, h)
<1>1. /\ \A from : Core!Slots(tbl, from) = Slots(tbl, from)
      /\ \A h : Core!HandleSlots(tbl, h) = HandleSlots(tbl, h)
  BY DEF Core!Slots, Slots, Core!HandleSlots, HandleSlots
<1>2. \A from : Core!FindPeer(tbl, from) = FindPeer(tbl, from)
  BY <1>1, SameMin DEF Core!FindPeer, FindPeer, Core!NoPeer, NoPeer
<1>3. \A next, from : Core!HandleAfterCreate(tbl, next, from) = HandleAfterCreate(tbl, next, from)
  BY <1>1 DEF Core!HandleAfterCreate, HandleAfterCreate
<1>4. \A h : Core!DestroyPeer(tbl, h) = DestroyPeer(tbl, h)
  <2> TAKE h
  <2> DEFINE Cleared(k) == [tbl EXCEPT ![k].active = FALSE]
  <2>1. Core!HandleSlots(tbl, h) = HandleSlots(tbl, h)
    BY <1>1
  <2>2. Core!Min(Core!HandleSlots(tbl, h)) = Min(HandleSlots(tbl, h))
    BY <2>1, SameMin
  <2>3. /\ Core!DestroyPeer(tbl, h) = IF Core!HandleSlots(tbl, h) = {} THEN tbl
                                      ELSE Cleared(Core!Min(Core!HandleSlots(tbl, h)))
        /\ DestroyPeer(tbl, h) = IF HandleSlots(tbl, h) = {} THEN tbl
                                 ELSE Cleared(Min(HandleSlots(tbl, h)))
    BY DEF Core!DestroyPeer, DestroyPeer
  <2> HIDE DEF Cleared
  <2> QED BY <2>1, <2>2, <2>3
<1>5. \A next, from, to : Core!CreatePeer(tbl, next, from, to) = CreatePeer(tbl, next, from, to)
  <2> TAKE next, from, to
  <2>1. /\ Core!Min(Slots(tbl, from)) = Min(Slots(tbl, from))
        /\ Core!Slots(tbl, from) = Slots(tbl, from)
        /\ Core!PeerNew(next, from, to) = PeerNew(next, from, to)
    BY <1>1, SameMin DEF Core!PeerNew, PeerNew
  <2>2. \A p : Core!PeerReplace(p, to) = PeerReplace(p, to)
    BY DEF Core!PeerReplace, PeerReplace
  <2> QED BY <2>1, <2>2 DEF Core!CreatePeer, CreatePeer
<1> QED BY <1>1, <1>2, <1>3, <1>4, <1>5

LEMMA SameDue == Core!Due = Due
<1>1. \A m : Core!ListenAddr(m) = ListenAddr(m)
  BY SameMessages
<1>2. /\ \A to, p, at : Core!PeerOnline(to, p, at) = PeerOnline(to, p, at)
      /\ \A to, p : Core!PeerOffline(to, p) = PeerOffline(to, p)
  BY SameMessages
<1> QED BY <1>1, <1>2, Zenon DEF Core!Due, Due

LEMMA SameCalls == ASSUME NEW m, HandleMsg(m) PROVE Core!HandleMsg(m)
<1>1. CASE m \in Knock /\ CallKnock(m)
  BY <1>1, SameMessages
     DEF Core!HandleMsg, Core!CallKnock, CallKnock, Core!Call, Call
<1>2. CASE m \in Bye /\ CallBye(m)
  <2> DEFINE h == FindPeer(peers, m.from)
             new == IF h # NoPeer THEN DestroyPeer(peers, h) ELSE peers
  <2>1. Core!Call(m) /\ m \in Core!Bye
    BY <1>2, SameMessages DEF CallBye, Core!Call, Call
  <2>2. peers' = new /\ pc' = IF peers' = <<>> THEN "aborted" ELSE "farewell"
    BY <1>2 DEF CallBye
  <2>3. Core!FindPeer(peers, m.from) = h /\ Core!NoPeer = NoPeer
        /\ Core!DestroyPeer(peers, h) = DestroyPeer(peers, h)
    BY SameTable DEF Core!NoPeer, NoPeer
  <2>4. Core!CallBye(m)
    BY <2>1, <2>2, <2>3 DEF Core!CallBye
  <2> QED BY <2>1, <2>4 DEF Core!HandleMsg
<1> QED BY <1>1, <1>2 DEF HandleMsg

LEMMA SameTrySend == TrySend => Core!TrySend
BY SameDue DEF Core!TrySend, TrySend, Core!InLoop, InLoop

LEMMA SameSteps ==
    ASSUME SkipInactive \/ AnnounceDone \/ IntroduceDone \/ FarewellDone
    PROVE  \/ Core!SkipInactive \/ Core!AnnounceDone \/ Core!IntroduceDone
           \/ Core!FarewellDone
<1> USE DEF Core!LoopDone, LoopDone, Core!Return, Return
<1>1. CASE SkipInactive
  BY <1>1 DEF Core!SkipInactive, SkipInactive, Core!InLoop, InLoop
<1>2. CASE AnnounceDone
  BY <1>2 DEF Core!AnnounceDone, AnnounceDone
<1>3. CASE FarewellDone
  BY <1>3, SameMessages DEF Core!FarewellDone, FarewellDone
<1>4. CASE IntroduceDone
  <2>1. /\ Core!CreatePeer(peers, nextHandle, cur.from, ListenAddr(cur))
             = CreatePeer(peers, nextHandle, cur.from, ListenAddr(cur))
        /\ Core!HandleAfterCreate(peers, nextHandle, cur.from)
             = HandleAfterCreate(peers, nextHandle, cur.from)
        /\ Core!ListenAddr(cur) = ListenAddr(cur) /\ Core!NoMsg = NoMsg
    BY SameTable, SameMessages
  <2> QED BY <1>4, <2>1 DEF Core!IntroduceDone, IntroduceDone
<1> QED BY <1>1, <1>2, <1>3, <1>4

LEMMA SameBounds ==
    /\ HandlerInit => Core!HandlerInit
    /\ HandlerReset => Core!HandlerReset
BY SameMessages DEF Core!HandlerInit, HandlerInit, Core!HandlerReset, HandlerReset

----------------------------------------------------------------------------
(* Counting messages *)

\* The messages m that wait to be accepted, and the open connections that can still
\* bring one.
Waiting(b, m) == {k \in 1..Len(b) : b[k] = m}
Brings(x, m) == x.kind = "in" /\ x.msg = m /\ Pending(x)
Coming(s, m) == {fd \in Fds : Brings(s[fd], m)}

One(holds) == IF holds THEN 1 ELSE 0

LEMMA CountsAreFinite ==
    /\ \A s, m : IsFiniteSet(Coming(s, m)) /\ Cardinality(Coming(s, m)) \in Nat
    /\ \A b, m : Len(b) \in Nat => /\ IsFiniteSet(Waiting(b, m))
                                   /\ Cardinality(Waiting(b, m)) \in Nat
<1>1. \A n \in Nat : \A S \in SUBSET (1..n) : IsFiniteSet(S) /\ Cardinality(S) \in Nat
  <2> TAKE n \in Nat
  <2> TAKE S \in SUBSET (1..n)
  <2>1. IsFiniteSet(1..n)
    BY FS_Interval
  <2>2. IsFiniteSet(S)
    BY <2>1, FS_Subset
  <2> QED BY <2>2, FS_CardinalityType
<1>2. \A s, m : Coming(s, m) \in SUBSET (1..MaxFd)
  BY DEF Coming, Fds
<1>3. \A b, m : Waiting(b, m) \in SUBSET (1..Len(b))
  BY DEF Waiting
<1> QED BY <1>1, <1>2, <1>3, FdsAre

LEMMA CountRemoved ==
    ASSUME NEW S, IsFiniteSet(S), NEW x
    PROVE  Cardinality(S \ {x}) = Cardinality(S) - One(x \in S)
<1>1. Cardinality(S \ {x}) = IF x \in S THEN Cardinality(S) - 1 ELSE Cardinality(S)
  BY FS_RemoveElement
<1>2. Cardinality(S) \in Nat
  BY FS_CardinalityType
<1>3. CASE x \in S
  BY <1>1, <1>3 DEF One
<1>4. CASE x \notin S
  BY <1>1, <1>2, <1>4 DEF One
<1> QED BY <1>3, <1>4

\* Sets that differ in one element at most.
LEMMA CountDiffers ==
    ASSUME NEW A, IsFiniteSet(A), NEW B, NEW x, A \ {x} = B \ {x}
    PROVE  /\ IsFiniteSet(B)
           /\ Cardinality(B) = Cardinality(A) - One(x \in A) + One(x \in B)
<1>1. IsFiniteSet(A \ {x}) /\ IsFiniteSet((A \ {x}) \cup {x})
  BY FS_RemoveElement, FS_AddElement
<1>2. B \in SUBSET ((A \ {x}) \cup {x})
  BY DEF One
<1>3. IsFiniteSet(B)
  BY <1>1, <1>2, FS_Subset
<1>4. Cardinality(A) \in Nat /\ Cardinality(B) \in Nat
  BY <1>3, FS_CardinalityType
<1>5. /\ Cardinality(A \ {x}) = Cardinality(A) - One(x \in A)
      /\ Cardinality(B \ {x}) = Cardinality(B) - One(x \in B)
  BY <1>3, CountRemoved
<1>6. One(x \in A) \in {0, 1} /\ One(x \in B) \in {0, 1}
  BY DEF One
<1>7. Cardinality(A \ {x}) = Cardinality(B \ {x})
  OBVIOUS
<1>8. Cardinality(A) - One(x \in A) = Cardinality(B) - One(x \in B)
  BY <1>5, <1>7
<1> QED BY <1>3, <1>4, <1>6, <1>8

LEMMA WaitingAppended ==
    ASSUME NEW b \in Seq(ClientMsg), NEW x \in ClientMsg, NEW m
    PROVE  Cardinality(Waiting(Append(b, x), m)) = Cardinality(Waiting(b, m)) + One(x = m)
<1> DEFINE n == Len(b) + 1
           A == Waiting(b, m)
           B == Waiting(Append(b, x), m)
<1>1. /\ Len(b) \in Nat /\ Len(Append(b, x)) = n /\ Append(b, x)[n] = x
      /\ \A k \in 1..Len(b) : Append(b, x)[k] = b[k]
  OBVIOUS
<1>2. n \notin A /\ (n \in B <=> x = m)
  BY <1>1 DEF Waiting
<1>3. A \ {n} = B \ {n}
  BY <1>1 DEF Waiting
<1>4. IsFiniteSet(A) /\ Cardinality(A) \in Nat
  BY <1>1, CountsAreFinite
<1> HIDE DEF n, A, B
<1>5. Cardinality(B) = Cardinality(A) - One(n \in A) + One(n \in B)
  BY <1>3, <1>4, CountDiffers
<1>6. One(n \in A) = 0 /\ One(n \in B) = One(x = m) /\ One(x = m) \in {0, 1}
  BY <1>2 DEF One
<1>7. Cardinality(B) = Cardinality(A) + One(x = m)
  BY <1>4, <1>5, <1>6
<1> QED BY <1>7 DEF A, B

LEMMA WaitingTail ==
    ASSUME NEW b \in Seq(ClientMsg), b # <<>>, NEW m
    PROVE  Cardinality(Waiting(Tail(b), m)) = Cardinality(Waiting(b, m)) - One(Head(b) = m)
<1> DEFINE A == Waiting(b, m)
           T == Waiting(Tail(b), m)
           f == [k \in T |-> k + 1]
<1>1. /\ Len(b) \in Nat /\ Len(b) # 0 /\ Len(Tail(b)) = Len(b) - 1 /\ b[1] = Head(b)
      /\ \A k \in 1..(Len(b) - 1) : Tail(b)[k] = b[k + 1]
  OBVIOUS
<1>2. T \subseteq Nat /\ \A k \in T : k + 1 \in A \ {1}
  BY <1>1 DEF Waiting
<1>3. \A j \in A \ {1} : j - 1 \in T /\ j = (j - 1) + 1
  BY <1>1 DEF Waiting
<1>4. 1 \in A <=> Head(b) = m
  BY <1>1 DEF Waiting
<1>5. /\ IsFiniteSet(A) /\ Cardinality(A) \in Nat
      /\ IsFiniteSet(T) /\ Cardinality(T) \in Nat
  BY <1>1, CountsAreFinite
<1> HIDE DEF A, T
<1>6. f \in Bijection(T, A \ {1})
  <2>1. f \in [T -> A \ {1}]
    BY <1>2
  <2>2. \A j, k \in T : f[j] = f[k] => j = k
    BY <1>2
  <2>3. \A j \in A \ {1} : \E k \in T : f[k] = j
    BY <1>3
  <2> QED BY <2>1, <2>2, <2>3 DEF Bijection, Injection, Surjection, IsInjective
<1>7. Cardinality(A \ {1}) = Cardinality(T)
  BY <1>5, <1>6, FS_Bijection DEF ExistsBijection
<1>8. Cardinality(A \ {1}) = Cardinality(A) - One(1 \in A)
  BY <1>5, CountRemoved
<1>9. One(1 \in A) = One(Head(b) = m)
  BY <1>4 DEF One
<1> QED BY <1>7, <1>8, <1>9 DEF A, T

LEMMA ComingChanged ==
    ASSUME LoopInv, NEW fd \in Fds, NEW x, sock' = [sock EXCEPT ![fd] = x], NEW m
    PROVE  Cardinality(Coming(sock', m))
             = Cardinality(Coming(sock, m)) - One(Brings(sock[fd], m)) + One(Brings(x, m))
<1> DEFINE A == Coming(sock, m)
           B == Coming(sock', m)
<1>1. sock'[fd] = x /\ \A d \in Fds : d # fd => sock'[d] = sock[d]
  BY DEF LoopInv, SocketsOK
<1>2. (fd \in A <=> Brings(sock[fd], m)) /\ (fd \in B <=> Brings(x, m))
  BY <1>1 DEF Coming
<1>3. A \ {fd} = B \ {fd}
  BY <1>1 DEF Coming
<1>4. IsFiniteSet(A)
  BY CountsAreFinite
<1> HIDE DEF A, B
<1>5. Cardinality(B) = Cardinality(A) - One(fd \in A) + One(fd \in B)
  BY <1>3, <1>4, CountDiffers
<1>6. One(fd \in A) = One(Brings(sock[fd], m)) /\ One(fd \in B) = One(Brings(x, m))
  BY <1>2 DEF One
<1> QED BY <1>5, <1>6 DEF A, B

----------------------------------------------------------------------------
(* The refinement mapping: what each step does to Inbox ... *)

Count(b, s, m) == Cardinality(Waiting(b, m)) + Cardinality(Coming(s, m))
InboxOf(b, s) == [m \in ClientMsg |-> Count(b, s, m)]

LEMMA InboxIs ==
    /\ backlog \in Seq(ClientMsg) => Inbox = InboxOf(backlog, sock)
    /\ backlog' \in Seq(ClientMsg) => Inbox' = InboxOf(backlog', sock')
<1>1. ASSUME backlog \in Seq(ClientMsg), NEW m \in ClientMsg
      PROVE  /\ {k \in DOMAIN backlog : backlog[k] = m} = Waiting(backlog, m)
             /\ {fd \in InFds : sock[fd].msg = m /\ Pending(sock[fd])} = Coming(sock, m)
  BY <1>1 DEF Waiting, Coming, Brings, InFds
<1>2. ASSUME backlog' \in Seq(ClientMsg), NEW m \in ClientMsg
      PROVE  /\ {k \in DOMAIN backlog' : backlog'[k] = m} = Waiting(backlog', m)
             /\ {fd \in InFds' : sock'[fd].msg = m /\ Pending(sock'[fd])} = Coming(sock', m)
  BY <1>2 DEF Waiting, Coming, Brings, InFds
<1> QED BY <1>1, <1>2 DEF Inbox, InboxOf, Count

LEMMA InboxChanges ==
    ASSUME LoopInv, LoopInv', NEW m \in ClientMsg
    PROVE  /\ (\A n \in ClientMsg : Count(backlog', sock', n) = Count(backlog, sock, n))
                => Inbox' = Inbox
           /\ (\A n \in ClientMsg :
                  Count(backlog', sock', n) = Count(backlog, sock, n) + One(n = m))
                => Inbox' = [Inbox EXCEPT ![m] = @ + 1]
           /\ (\A n \in ClientMsg :
                  Count(backlog', sock', n) = Count(backlog, sock, n) - One(n = m))
                => Inbox[m] > 0 /\ Inbox' = [Inbox EXCEPT ![m] = @ - 1]
<1>1. /\ Inbox = InboxOf(backlog, sock) /\ Inbox' = InboxOf(backlog', sock')
      /\ Len(backlog) \in Nat /\ Len(backlog') \in Nat
  BY InboxIs DEF LoopInv
<1>2. \A n \in ClientMsg : /\ Count(backlog, sock, n) \in Nat
                          /\ Count(backlog', sock', n) \in Nat
  BY <1>1, CountsAreFinite DEF Count
<1>3. One(m = m) = 1 /\ \A n : n # m => One(n = m) = 0
  BY DEF One
<1>4. /\ Inbox = [n \in ClientMsg |-> Inbox[n]] /\ Inbox' = [n \in ClientMsg |-> Inbox'[n]]
      /\ \A n \in ClientMsg : /\ Inbox[n] = Count(backlog, sock, n)
                              /\ Inbox'[n] = Count(backlog', sock', n)
  BY <1>1 DEF InboxOf
<1>5. ASSUME \A n \in ClientMsg : Count(backlog', sock', n) = Count(backlog, sock, n)
      PROVE  Inbox' = Inbox
  <2>1. \A n \in ClientMsg : Inbox'[n] = Inbox[n]
    BY <1>4, <1>5
  <2> QED BY <1>4, <2>1
<1>6. ASSUME \A n \in ClientMsg :
                Count(backlog', sock', n) = Count(backlog, sock, n) + One(n = m)
      PROVE  Inbox' = [Inbox EXCEPT ![m] = @ + 1]
  <2>1. Inbox'[m] = Inbox[m] + 1 /\ \A n \in ClientMsg : n # m => Inbox'[n] = Inbox[n]
    BY <1>2, <1>3, <1>4, <1>6
  <2> QED BY <1>4, <2>1
<1>7. ASSUME \A n \in ClientMsg :
                Count(backlog', sock', n) = Count(backlog, sock, n) - One(n = m)
      PROVE  Inbox[m] > 0 /\ Inbox' = [Inbox EXCEPT ![m] = @ - 1]
  <2>1. Inbox'[m] = Inbox[m] - 1 /\ Inbox'[m] \in Nat /\ Inbox[m] \in Nat
    BY <1>2, <1>3, <1>4, <1>7
  <2>2. Inbox[m] > 0
    BY <2>1
  <2>3. \A n \in ClientMsg : n # m => Inbox'[n] = Inbox[n]
    <3> TAKE n \in ClientMsg
    <3>1. n # m => Count(backlog', sock', n) = Count(backlog, sock, n) - 0
      BY <1>3, <1>7
    <3> QED BY <1>2, <1>4, <3>1
  <2> QED BY <1>4, <2>1, <2>2, <2>3
<1> QED BY <1>5, <1>6, <1>7

\* A change of one connection, the backlog staying as it is.
LEMMA InboxOfSocket ==
    ASSUME LoopInv, LoopInv', NEW fd \in Fds, NEW x, sock' = [sock EXCEPT ![fd] = x],
           UNCHANGED backlog
    PROVE  /\ (\A n \in ClientMsg : Brings(x, n) <=> Brings(sock[fd], n)) => Inbox' = Inbox
           /\ \A m \in ClientMsg :
                 /\ Brings(sock[fd], m)
                 /\ \A n \in ClientMsg : Brings(sock[fd], n) => n = m
                 /\ \A n \in ClientMsg : ~Brings(x, n)
                 => Inbox[m] > 0 /\ Inbox' = [Inbox EXCEPT ![m] = @ - 1]
<1>1. \A n \in ClientMsg :
         Count(backlog', sock', n)
           = Count(backlog, sock, n) - One(Brings(sock[fd], n)) + One(Brings(x, n))
  <2> TAKE n \in ClientMsg
  <2>1. Cardinality(Coming(sock', n))
          = Cardinality(Coming(sock, n)) - One(Brings(sock[fd], n)) + One(Brings(x, n))
    BY ComingChanged
  <2>2. Cardinality(Coming(sock, n)) \in Nat /\ Cardinality(Waiting(backlog, n)) \in Nat
    BY CountsAreFinite DEF LoopInv
  <2>3. One(Brings(sock[fd], n)) \in {0, 1} /\ One(Brings(x, n)) \in {0, 1}
    BY DEF One
  <2> QED BY <2>1, <2>2, <2>3 DEF Count
<1>2. \A n \in ClientMsg : Count(backlog, sock, n) \in Nat
  BY CountsAreFinite DEF Count, LoopInv
<1>3. ASSUME \A n \in ClientMsg : Brings(x, n) <=> Brings(sock[fd], n)
      PROVE  Inbox' = Inbox
  <2>1. \A n \in ClientMsg : Count(backlog', sock', n) = Count(backlog, sock, n)
    <3> TAKE n \in ClientMsg
    <3>1. One(Brings(x, n)) = One(Brings(sock[fd], n)) /\ One(Brings(x, n)) \in {0, 1}
      BY <1>3 DEF One
    <3> DEFINE was == Count(backlog, sock, n)
               one == One(Brings(x, n))
    <3>2. Count(backlog', sock', n) = was - one + one /\ was \in Nat /\ one \in {0, 1}
      BY <1>1, <1>2, <3>1
    <3> HIDE DEF was, one
    <3>3. Count(backlog', sock', n) = was
      BY <3>2
    <3> QED BY <3>3 DEF was
  <2>2. CASE ClientMsg = {}
    BY <2>2 DEF Inbox
  <2> QED BY <2>1, <2>2, InboxChanges
<1>4. ASSUME NEW m \in ClientMsg, Brings(sock[fd], m),
             \A n \in ClientMsg : Brings(sock[fd], n) => n = m,
             \A n \in ClientMsg : ~Brings(x, n)
      PROVE  Inbox[m] > 0 /\ Inbox' = [Inbox EXCEPT ![m] = @ - 1]
  <2>1. \A n \in ClientMsg :
           One(Brings(sock[fd], n)) = One(n = m) /\ One(Brings(x, n)) = 0
    BY <1>4 DEF One
  <2>2. \A n \in ClientMsg : One(n = m) \in {0, 1}
    BY DEF One
  <2>3. \A n \in ClientMsg :
           Count(backlog', sock', n) = Count(backlog, sock, n) - One(n = m)
    <3> TAKE n \in ClientMsg
    <3>1. /\ Count(backlog, sock, n) \in Nat /\ One(n = m) \in {0, 1}
          /\ Count(backlog', sock', n) = Count(backlog, sock, n) - One(n = m) + 0
      BY <1>1, <1>2, <2>1, <2>2
    <3> QED BY <3>1
  <2> QED BY <2>3, InboxChanges
<1> QED BY <1>3, <1>4

\* No connection and no backlog changes but by sockets that bring nothing.
LEMMA InboxSame ==
    ASSUME UNCHANGED <<backlog, sock>> PROVE Inbox' = Inbox
BY DEF Inbox, InFds

----------------------------------------------------------------------------
(* ... and to Queued. *)

\* send_msg_to_hostaddr makes a connection only where find_by_toaddr finds none.
OneCtxPerDest(cs) ==
    \A c, d \in 1..Len(cs) : cs[c].toaddr = cs[d].toaddr /\ cs[c].toaddr # NoAddr => c = d

CtxsTo(cs, d) == {c \in DOMAIN cs : cs[c].toaddr = d}
QueuedOf(cs) ==
    [d \in ToAddrs |-> IF CtxsTo(cs, d) = {} THEN <<>> ELSE cs[Min(CtxsTo(cs, d))].writebuf]

LEMMA QueuedIs == Queued = QueuedOf(ctxs) /\ Queued' = QueuedOf(ctxs')
BY DEF Queued, QueuedOf, CtxsTo, ByToaddr

LEMMA QueuedShape ==
    ASSUME NEW cs \in Seq(SocketCtx), OneCtxPerDest(cs), NEW d \in ToAddrs
    PROVE  /\ \A c \in 1..Len(cs) : cs[c].toaddr = d => QueuedOf(cs)[d] = cs[c].writebuf
           /\ (\A c \in 1..Len(cs) : cs[c].toaddr # d) => QueuedOf(cs)[d] = <<>>
<1>1. DOMAIN cs = 1..Len(cs) /\ d # NoAddr
  BY TrackerLoopAssumption
<1>2. ASSUME NEW c \in 1..Len(cs), cs[c].toaddr = d
      PROVE  QueuedOf(cs)[d] = cs[c].writebuf
  <2>1. c \in CtxsTo(cs, d) /\ c \in Nat /\ \A e \in CtxsTo(cs, d) : e = c
    BY <1>1, <1>2 DEF CtxsTo, OneCtxPerDest
  <2>2. Min(CtxsTo(cs, d)) = c
    BY <2>1, MinOfOne
  <2> QED BY <2>1, <2>2 DEF QueuedOf
<1>3. ASSUME \A c \in 1..Len(cs) : cs[c].toaddr # d
      PROVE  QueuedOf(cs)[d] = <<>>
  BY <1>1, <1>3 DEF QueuedOf, CtxsTo
<1> QED BY <1>2, <1>3

LEMMA QueuedType ==
    ASSUME NEW cs \in Seq(SocketCtx), OneCtxPerDest(cs)
    PROVE  QueuedOf(cs) \in [ToAddrs -> Seq(Notice)]
<1>1. ASSUME NEW d \in ToAddrs PROVE QueuedOf(cs)[d] \in Seq(Notice)
  <2>1. CASE \A c \in 1..Len(cs) : cs[c].toaddr # d
    <3>1. QueuedOf(cs)[d] = <<>>
      BY <2>1, QueuedShape
    <3>2. <<>> \in Seq(Notice)
      OBVIOUS
    <3> QED BY <3>1, <3>2
  <2>2. ASSUME NEW c \in 1..Len(cs), cs[c].toaddr = d PROVE QueuedOf(cs)[d] \in Seq(Notice)
    <3>1. cs[c] \in SocketCtx
      OBVIOUS
    <3>2. cs[c].writebuf \in Seq(Notice)
      BY <3>1 DEF SocketCtx
    <3> QED BY <2>2, <3>2, QueuedShape
  <2> QED BY <2>1, <2>2
<1>2. QueuedOf(cs) = [d \in ToAddrs |-> QueuedOf(cs)[d]]
  BY DEF QueuedOf
<1> QED BY <1>1, <1>2

\* What the write buffers hold is a function of destinations that agrees with each.
LEMMA QueuedAgrees ==
    ASSUME NEW cs \in Seq(SocketCtx), OneCtxPerDest(cs),
           NEW f \in [ToAddrs -> Seq(Notice)],
           \A c \in 1..Len(cs) : cs[c].toaddr # NoAddr => f[cs[c].toaddr] = cs[c].writebuf,
           \A d \in ToAddrs : (\A c \in 1..Len(cs) : cs[c].toaddr # d) => f[d] = <<>>
    PROVE  QueuedOf(cs) = f
<1>1. \A d \in ToAddrs : QueuedOf(cs)[d] = f[d]
  <2> TAKE d \in ToAddrs
  <2>1. CASE \A c \in 1..Len(cs) : cs[c].toaddr # d
    BY <2>1, QueuedShape
  <2>2. ASSUME NEW c \in 1..Len(cs), cs[c].toaddr = d PROVE QueuedOf(cs)[d] = f[d]
    BY <2>2, QueuedShape, TrackerLoopAssumption
  <2> QED BY <2>1, <2>2
<1>2. QueuedOf(cs) \in [ToAddrs -> Seq(Notice)]
  BY QueuedType
<1> QED BY <1>1, <1>2

LEMMA QueuedWritten ==
    ASSUME LoopInv, OneCtxPerDest(ctxs), NEW c \in 1..Len(ctxs),
           ctxs[c].toaddr \in ToAddrs, NEW buf \in Seq(Notice),
           ctxs' = [ctxs EXCEPT ![c].writebuf = buf]
    PROVE  /\ OneCtxPerDest(ctxs')
           /\ Queued[ctxs[c].toaddr] = ctxs[c].writebuf
           /\ Queued' = [Queued EXCEPT ![ctxs[c].toaddr] = buf]
<1> DEFINE x == [ctxs[c] EXCEPT !.writebuf = buf]
           to == ctxs[c].toaddr
           f == [Queued EXCEPT ![to] = buf]
<1>1. ctxs \in Seq(SocketCtx) /\ ctxs[c] \in SocketCtx
  BY DEF LoopInv, CtxsOK
<1>2. x \in SocketCtx /\ x.toaddr = to /\ x.writebuf = buf
  BY <1>1 DEF SocketCtx
<1>3. ctxs' = [ctxs EXCEPT ![c] = x]
  OBVIOUS
<1> HIDE DEF x
<1>4. /\ ctxs' \in Seq(SocketCtx) /\ Len(ctxs') = Len(ctxs) /\ ctxs'[c] = x
      /\ \A d \in 1..Len(ctxs) : d # c => ctxs'[d] = ctxs[d]
  <2>1. /\ [ctxs EXCEPT ![c] = x] \in Seq(SocketCtx)
        /\ Len([ctxs EXCEPT ![c] = x]) = Len(ctxs)
        /\ \A d \in 1..Len(ctxs) : [ctxs EXCEPT ![c] = x][d] = IF d = c THEN x ELSE ctxs[d]
    BY <1>1, <1>2, ExceptSeq
  <2> QED BY <1>3, <2>1
<1>5. \A d \in 1..Len(ctxs) : ctxs'[d].toaddr = ctxs[d].toaddr
  BY <1>2, <1>4
<1>6. OneCtxPerDest(ctxs')
  BY <1>4, <1>5 DEF OneCtxPerDest
<1>7. /\ \A d \in 1..Len(ctxs) : ctxs[d].toaddr \in ToAddrs =>
                                    Queued[ctxs[d].toaddr] = ctxs[d].writebuf
      /\ \A d \in ToAddrs : (\A e \in 1..Len(ctxs) : ctxs[e].toaddr # d) => Queued[d] = <<>>
  BY <1>1, QueuedShape, QueuedIs
<1>8. Queued \in [ToAddrs -> Seq(Notice)]
  BY <1>1, QueuedType, QueuedIs
<1>9. to \in ToAddrs /\ to # NoAddr
  BY TrackerLoopAssumption
<1> HIDE DEF to
<1>10. f \in [ToAddrs -> Seq(Notice)] /\ f[to] = buf /\ \A d \in ToAddrs : d # to => f[d] = Queued[d]
  BY <1>8, <1>9
<1> HIDE DEF f
<1>11. QueuedOf(ctxs') = f
  <2>1. \A d \in 1..Len(ctxs') : ctxs'[d].toaddr # NoAddr => f[ctxs'[d].toaddr] = ctxs'[d].writebuf
    <3> SUFFICES ASSUME NEW d \in 1..Len(ctxs), ctxs[d].toaddr # NoAddr
                 PROVE  f[ctxs[d].toaddr] = ctxs'[d].writebuf
      BY <1>4, <1>5
    <3>1. CASE d = c
      BY <1>2, <1>4, <1>10, <3>1 DEF to
    <3>2. CASE d # c
      <4>1. ctxs[d].toaddr # to /\ ctxs[d].toaddr \in ToAddrs
        <5>1. ctxs[d] \in SocketCtx
          BY <1>1
        <5> QED BY <3>2, <5>1 DEF OneCtxPerDest, to, SocketCtx
      <4> QED BY <1>4, <1>7, <1>10, <3>2, <4>1
    <3> QED BY <3>1, <3>2
  <2>2. \A d \in ToAddrs : (\A e \in 1..Len(ctxs') : ctxs'[e].toaddr # d) => f[d] = <<>>
    <3> SUFFICES ASSUME NEW d \in ToAddrs, \A e \in 1..Len(ctxs) : ctxs[e].toaddr # d
                 PROVE  f[d] = <<>>
      BY <1>4, <1>5
    <3>1. d # to
      BY DEF to
    <3> QED BY <1>7, <1>10, <3>1
  <2> QED BY <1>4, <1>6, <1>10, <2>1, <2>2, QueuedAgrees
<1> QED BY <1>6, <1>7, <1>9, <1>11, QueuedIs DEF to, f

\* What is said of ctxs, of each of its entries and each destination.
LEMMA QueuedNow ==
    ASSUME LoopInv, OneCtxPerDest(ctxs)
    PROVE  /\ Queued \in [ToAddrs -> Seq(Notice)]
           /\ \A c \in 1..Len(ctxs) :
                 /\ ctxs[c].toaddr \in ToAddrs \cup {NoAddr}
                 /\ ctxs[c].toaddr \in ToAddrs => Queued[ctxs[c].toaddr] = ctxs[c].writebuf
           /\ \A d \in ToAddrs :
                 (\A c \in 1..Len(ctxs) : ctxs[c].toaddr # d) => Queued[d] = <<>>
<1>1. ctxs \in Seq(SocketCtx) /\ \A c \in 1..Len(ctxs) : ctxs[c] \in SocketCtx
  BY DEF LoopInv, CtxsOK
<1>2. \A c \in 1..Len(ctxs) : ctxs[c].toaddr \in ToAddrs \cup {NoAddr}
  BY <1>1 DEF SocketCtx
<1> QED BY <1>1, <1>2, QueuedShape, QueuedType, QueuedIs

\* A connection from a client is not a destination.
LEMMA QueuedAccepted ==
    ASSUME LoopInv, OneCtxPerDest(ctxs), NEW ctx \in SocketCtx, ctx.toaddr = NoAddr,
           ctxs' = Append(ctxs, ctx)
    PROVE  OneCtxPerDest(ctxs') /\ Queued' = Queued
<1>1. /\ ctxs' \in Seq(SocketCtx) /\ Len(ctxs) \in Nat /\ Len(ctxs') = Len(ctxs) + 1
      /\ ctxs'[Len(ctxs) + 1] = ctx /\ \A c \in 1..Len(ctxs) : ctxs'[c] = ctxs[c]
  BY DEF LoopInv, CtxsOK
<1>2. OneCtxPerDest(ctxs')
  BY <1>1 DEF OneCtxPerDest
<1>3. \A c \in 1..Len(ctxs') : ctxs'[c].toaddr # NoAddr =>
                                  Queued[ctxs'[c].toaddr] = ctxs'[c].writebuf
  <2> SUFFICES ASSUME NEW c \in 1..Len(ctxs'), ctxs'[c].toaddr # NoAddr
               PROVE  Queued[ctxs'[c].toaddr] = ctxs'[c].writebuf
    OBVIOUS
  <2>1. c \in 1..Len(ctxs) /\ ctxs'[c] = ctxs[c]
    BY <1>1
  <2> QED BY <2>1, QueuedNow
<1>4. \A d \in ToAddrs : (\A c \in 1..Len(ctxs') : ctxs'[c].toaddr # d) => Queued[d] = <<>>
  BY <1>1, QueuedNow
<1>5. QueuedOf(ctxs') = Queued
  BY <1>1, <1>2, <1>3, <1>4, QueuedNow, QueuedAgrees
<1> QED BY <1>2, <1>5, QueuedIs

\* The connection to a destination that had none.
LEMMA QueuedOpened ==
    ASSUME LoopInv, OneCtxPerDest(ctxs), NEW ctx \in SocketCtx, ctx.toaddr \in ToAddrs,
           ByToaddr(ctx.toaddr) = {}, ctxs' = Append(ctxs, ctx)
    PROVE  /\ OneCtxPerDest(ctxs')
           /\ Queued' = [Queued EXCEPT ![ctx.toaddr] = ctx.writebuf]
<1> DEFINE f == [Queued EXCEPT ![ctx.toaddr] = ctx.writebuf]
<1>1. /\ ctxs' \in Seq(SocketCtx) /\ Len(ctxs) \in Nat /\ Len(ctxs') = Len(ctxs) + 1
      /\ ctxs'[Len(ctxs) + 1] = ctx /\ \A c \in 1..Len(ctxs) : ctxs'[c] = ctxs[c]
  BY DEF LoopInv, CtxsOK
<1>2. \A c \in 1..Len(ctxs) : ctxs[c].toaddr # ctx.toaddr
  <2>1. DOMAIN ctxs = 1..Len(ctxs)
    BY DEF LoopInv, CtxsOK
  <2> QED BY <2>1 DEF ByToaddr
<1>3. OneCtxPerDest(ctxs')
  <2> SUFFICES ASSUME NEW c \in 1..Len(ctxs'), NEW d \in 1..Len(ctxs'),
                      ctxs'[c].toaddr = ctxs'[d].toaddr, ctxs'[c].toaddr # NoAddr
               PROVE  c = d
    BY DEF OneCtxPerDest
  <2>1. CASE c \in 1..Len(ctxs) /\ d \in 1..Len(ctxs)
    BY <1>1, <2>1 DEF OneCtxPerDest
  <2>2. CASE c = Len(ctxs) + 1 \/ d = Len(ctxs) + 1
    BY <1>1, <1>2, <2>2
  <2> QED BY <1>1, <2>1, <2>2
<1>4. ctx.writebuf \in Seq(Notice)
  BY DEF SocketCtx
<1>5. /\ f \in [ToAddrs -> Seq(Notice)] /\ f[ctx.toaddr] = ctx.writebuf
      /\ \A d \in ToAddrs : d # ctx.toaddr => f[d] = Queued[d]
  BY <1>4, QueuedNow
<1> HIDE DEF f
<1>6. \A c \in 1..Len(ctxs') : ctxs'[c].toaddr # NoAddr =>
                                  f[ctxs'[c].toaddr] = ctxs'[c].writebuf
  <2> SUFFICES ASSUME NEW c \in 1..Len(ctxs'), ctxs'[c].toaddr # NoAddr
               PROVE  f[ctxs'[c].toaddr] = ctxs'[c].writebuf
    OBVIOUS
  <2>1. CASE c \in 1..Len(ctxs)
    BY <1>1, <1>2, <1>5, <2>1, QueuedNow
  <2>2. CASE c = Len(ctxs) + 1
    BY <1>1, <1>5, <2>2
  <2> QED BY <1>1, <2>1, <2>2
<1>7. \A d \in ToAddrs : (\A c \in 1..Len(ctxs') : ctxs'[c].toaddr # d) => f[d] = <<>>
  <2> SUFFICES ASSUME NEW d \in ToAddrs, \A c \in 1..Len(ctxs') : ctxs'[c].toaddr # d
               PROVE  f[d] = <<>>
    OBVIOUS
  <2>1. Len(ctxs) + 1 \in 1..Len(ctxs') /\ d # ctx.toaddr
    BY <1>1
  <2>2. \A c \in 1..Len(ctxs) : ctxs[c].toaddr # d
    BY <1>1
  <2> QED BY <1>5, <2>1, <2>2, QueuedNow
<1>8. QueuedOf(ctxs') = f
  BY <1>1, <1>3, <1>5, <1>6, <1>7, QueuedAgrees
<1> QED BY <1>3, <1>8, QueuedIs DEF f

\* The ctxs move up when one that is not a destination leaves.
LEMMA QueuedClosed ==
    ASSUME LoopInv, LoopInv', OneCtxPerDest(ctxs), NEW c \in 1..Len(ctxs),
           ctxs[c].toaddr = NoAddr,
           ctxs' = RemoveAt([ctxs EXCEPT ![c].shut_rd = TRUE], c)
    PROVE  OneCtxPerDest(ctxs') /\ Queued' = Queued
<1> DEFINE x == [ctxs[c] EXCEPT !.shut_rd = TRUE]
           cs == [ctxs EXCEPT ![c].shut_rd = TRUE]
           from(k) == IF k < c THEN k ELSE k + 1
<1>1. ctxs \in Seq(SocketCtx) /\ ctxs[c] \in SocketCtx /\ Len(ctxs) \in Nat /\ c \in Nat
  BY DEF LoopInv, CtxsOK
<1>2. x \in SocketCtx
  BY <1>1 DEF SocketCtx
<1>3. /\ cs \in Seq(SocketCtx) /\ Len(cs) = Len(ctxs)
      /\ \A d \in 1..Len(ctxs) : d # c => cs[d] = ctxs[d]
  <2>1. cs = [ctxs EXCEPT ![c] = x]
    OBVIOUS
  <2> HIDE DEF x, cs
  <2>2. /\ [ctxs EXCEPT ![c] = x] \in Seq(SocketCtx)
        /\ Len([ctxs EXCEPT ![c] = x]) = Len(ctxs)
        /\ \A d \in 1..Len(ctxs) : [ctxs EXCEPT ![c] = x][d] = IF d = c THEN x ELSE ctxs[d]
    BY <1>1, <1>2, ExceptSeq
  <2> QED BY <2>1, <2>2
<1>4. ctxs' = RemoveAt(cs, c)
  OBVIOUS
<1> HIDE DEF cs
<1>5. /\ ctxs' \in Seq(SocketCtx) /\ Len(ctxs') = Len(ctxs) - 1
      /\ \A k \in 1..(Len(cs) - 1) : ctxs'[k] = cs[from(k)]
  <2>1. c \in 1..Len(cs)
    BY <1>3
  <2>2. /\ RemoveAt(cs, c) \in Seq(SocketCtx) /\ Len(RemoveAt(cs, c)) = Len(cs) - 1
        /\ \A k \in 1..(Len(cs) - 1) :
              RemoveAt(cs, c)[k] = IF k < c THEN cs[k] ELSE cs[k + 1]
    BY <1>3, <2>1, RemoveAtShape
  <2>3. \A k \in 1..(Len(cs) - 1) :
           cs[from(k)] = IF k < c THEN cs[k] ELSE cs[k + 1]
    OBVIOUS
  <2> QED BY <1>3, <1>4, <2>2, <2>3
<1>6. \A k \in 1..Len(ctxs') : from(k) \in 1..Len(ctxs) /\ from(k) # c
  BY <1>1, <1>5
<1>7. \A j, k \in 1..Len(ctxs') : from(j) = from(k) => j = k
  BY <1>1, <1>5
<1>8. \A d \in 1..Len(ctxs) : d # c => \E k \in 1..Len(ctxs') : from(k) = d
  <2> TAKE d \in 1..Len(ctxs)
  <2>1. CASE d < c
    BY <1>1, <1>5, <2>1
  <2>2. CASE d > c
    <3>1. d - 1 \in 1..Len(ctxs') /\ from(d - 1) = d
      BY <1>1, <1>5, <2>2
    <3> QED BY <3>1
  <2>3. d < c \/ d > c \/ d = c
    BY <1>1
  <2> QED BY <2>1, <2>2, <2>3
<1> HIDE DEF from
<1>9. \A k \in 1..Len(ctxs') : ctxs'[k] = ctxs[from(k)]
  BY <1>1, <1>3, <1>5, <1>6
<1>10. OneCtxPerDest(ctxs')
  <2> SUFFICES ASSUME NEW j \in 1..Len(ctxs'), NEW k \in 1..Len(ctxs'),
                      ctxs'[j].toaddr = ctxs'[k].toaddr, ctxs'[j].toaddr # NoAddr
               PROVE  j = k
    BY DEF OneCtxPerDest
  <2>1. from(j) = from(k)
    BY <1>6, <1>9 DEF OneCtxPerDest
  <2> QED BY <1>7, <2>1
<1>11. \A k \in 1..Len(ctxs') : ctxs'[k].toaddr # NoAddr =>
                                   Queued[ctxs'[k].toaddr] = ctxs'[k].writebuf
  BY <1>6, <1>9, QueuedNow
<1>12. \A d \in ToAddrs : (\A k \in 1..Len(ctxs') : ctxs'[k].toaddr # d) => Queued[d] = <<>>
  <2> SUFFICES ASSUME NEW d \in ToAddrs, \A k \in 1..Len(ctxs') : ctxs'[k].toaddr # d
               PROVE  Queued[d] = <<>>
    OBVIOUS
  <2>1. \A e \in 1..Len(ctxs) : ctxs[e].toaddr # d
    <3> TAKE e \in 1..Len(ctxs)
    <3>1. CASE e = c
      BY <3>1, TrackerLoopAssumption
    <3>2. CASE e # c
      <4>1. PICK k \in 1..Len(ctxs') : from(k) = e
        BY <1>8, <3>2
      <4> QED BY <1>9, <4>1
    <3> QED BY <3>1, <3>2
  <2> QED BY <2>1, QueuedNow
<1>13. QueuedOf(ctxs') = Queued
  BY <1>5, <1>10, <1>11, <1>12, QueuedNow, QueuedAgrees
<1> QED BY <1>10, <1>13, QueuedIs

LEMMA QueuedSame ==
    ASSUME UNCHANGED ctxs, OneCtxPerDest(ctxs)
    PROVE  OneCtxPerDest(ctxs') /\ Queued' = Queued
BY DEF OneCtxPerDest, Queued, ByToaddr

----------------------------------------------------------------------------
(* Each step of the loop is a step of the tracker, or none. *)

\* The mapping needs one ctx for each destination beside the invariant of the loop.
RefInv == LoopInv /\ OneCtxPerDest(ctxs) /\ net \in [Notice -> Nat]

\* After the step the mapping is defined again, and the tracker has made a step.
Follows == RefInv' /\ (Core!Next \/ UNCHANGED Core!vars)

LEMMA CoreVars ==
    UNCHANGED <<handlerVars, Inbox, Queued, net, sends, restarts>> => UNCHANGED Core!vars
BY DEF Core!vars, Core!handlerVars, handlerVars

\* Steps that touch neither handle_msg nor what is counted.
LEMMA FollowsUnseen ==
    ASSUME RefInv, LoopInv', OneCtxPerDest(ctxs'), Inbox' = Inbox, Queued' = Queued,
           UNCHANGED <<handlerVars, net, sends, restarts>>
    PROVE  Follows
BY CoreVars DEF Follows, RefInv

LEMMA FollowsConnect ==
    ASSUME RefInv, LoopInv', NEW m \in ClientMsg, Connect(m) PROVE Follows
<1> USE DEF RefInv, Connect
<1>1. OneCtxPerDest(ctxs') /\ Queued' = Queued
  BY QueuedSame DEF loopVars
<1>2. Inbox' = [Inbox EXCEPT ![m] = @ + 1]
  <2>1. \A n \in ClientMsg :
           Count(backlog', sock', n) = Count(backlog, sock, n) + One(n = m)
    <3> TAKE n \in ClientMsg
    <3>1. Cardinality(Waiting(backlog', n)) = Cardinality(Waiting(backlog, n)) + One(m = n)
      BY WaitingAppended DEF LoopInv
    <3>2. Cardinality(Coming(sock, n)) \in Nat /\ Cardinality(Waiting(backlog, n)) \in Nat
      BY CountsAreFinite DEF LoopInv
    <3>3. One(m = n) = One(n = m) /\ One(n = m) \in {0, 1}
      BY DEF One
    <3>4. Cardinality(Coming(sock', n)) = Cardinality(Coming(sock, n))
      OBVIOUS
    <3> QED BY <3>1, <3>2, <3>3, <3>4 DEF Count
  <2> QED BY <2>1, InboxChanges
<1>3. Core!ClientSends(m)
  BY <1>1, <1>2 DEF Core!ClientSends, Core!handlerVars, handlerVars
<1>4. net' = net
  OBVIOUS
<1> QED BY <1>1, <1>3, <1>4, SameMessages DEF Core!Next, Follows

LEMMA FollowsArrive ==
    ASSUME RefInv, LoopInv', NEW fd \in Fds, Arrive(fd) PROVE Follows
<1> DEFINE x == [sock[fd] EXCEPT !.arrived = @ + 1]
<1> USE DEF RefInv, Arrive
<1>1. OneCtxPerDest(ctxs') /\ Queued' = Queued
  BY QueuedSame DEF loopVars
<1>2. sock[fd] \in Inbound
  BY Kinds DEF LoopInv, SocketsOK
<1>3. /\ x.kind = sock[fd].kind /\ x.msg = sock[fd].msg /\ x.received = sock[fd].received
      /\ x.end = "no" /\ sock[fd].end = "no"
  BY <1>2 DEF Inbound
<1>4. sock' = [sock EXCEPT ![fd] = x]
  OBVIOUS
<1> HIDE DEF x
<1>5. \A n \in ClientMsg : Brings(x, n) <=> Brings(sock[fd], n)
  BY <1>3 DEF Brings, Pending
<1>6. Inbox' = Inbox
  BY <1>4, <1>5, InboxOfSocket
<1> QED BY <1>1, <1>6, FollowsUnseen

\* The end of a connection loses the message only if parts of it are missing.
LEMMA FollowsEnd ==
    ASSUME RefInv, LoopInv', NEW fd \in Fds, NEW how \in {"eof", "reset"}, End(fd, how)
    PROVE  Follows
<1> DEFINE x == [sock[fd] EXCEPT !.end = how]
           m == sock[fd].msg
<1> USE DEF RefInv, End
<1>1. OneCtxPerDest(ctxs') /\ Queued' = Queued
  BY QueuedSame DEF loopVars
<1>2. sock[fd] \in Inbound /\ m \in ClientMsg
  BY Kinds DEF LoopInv, SocketsOK
<1>3. /\ x.kind = sock[fd].kind /\ x.msg = m /\ x.received = sock[fd].received
      /\ x.arrived = sock[fd].arrived /\ x.end = how /\ sock[fd].end = "no"
      /\ sock[fd].kind = "in"
  BY <1>2 DEF Inbound
<1>4. sock' = [sock EXCEPT ![fd] = x]
  OBVIOUS
<1> HIDE DEF x
<1>5. CASE sock[fd].received < Parts /\ sock[fd].arrived # Parts
  <2>1. /\ \A n \in ClientMsg : Brings(sock[fd], n) <=> n = m
        /\ \A n \in ClientMsg : ~Brings(x, n)
    BY <1>3, <1>5 DEF Brings, Pending
  <2>2. Inbox[m] > 0 /\ Inbox' = [Inbox EXCEPT ![m] = @ - 1]
    BY <1>2, <1>4, <2>1, InboxOfSocket
  <2>3. Core!ClientFails(m)
    BY <1>1, <2>2 DEF Core!ClientFails, Core!handlerVars, handlerVars
  <2>4. net' = net
    OBVIOUS
  <2> QED BY <1>1, <1>2, <2>3, <2>4, SameMessages DEF Core!Next, Follows
<1>6. CASE ~(sock[fd].received < Parts /\ sock[fd].arrived # Parts)
  <2>1. \A n \in ClientMsg : Brings(x, n) <=> Brings(sock[fd], n)
    BY <1>3, <1>6 DEF Brings, Pending
  <2>2. Inbox' = Inbox
    BY <1>4, <2>1, InboxOfSocket
  <2> QED BY <1>1, <2>2, FollowsUnseen
<1> QED BY <1>5, <1>6

\* accept() moves a message from the backlog to a connection that brings it.
LEMMA FollowsAccept == ASSUME RefInv, LoopInv', Accept PROVE Follows
<1> DEFINE m == Head(backlog)
           x == NewInbound(m)
           ctx == SocketCtxNew(LowestFree, m.from, NoAddr, <<>>)
<1> USE DEF RefInv, Accept
<1>1. backlog # <<>> /\ backlog \in Seq(ClientMsg)
  <2>1. ListenFd \in tmpr /\ rd = "no"
    BY DEF AtRead, AtFd
  <2>2. Readable(ListenFd) /\ sock[ListenFd].kind = "listening"
    BY <2>1, FdsAre DEF LoopInv, SnapshotOK, SocketsOK
  <2> QED BY <2>2 DEF Readable, LoopInv
<1>2. m \in ClientMsg
  BY <1>1
<1>3. m.from \in FromAddrs
  BY <1>2 DEF ClientMsg, Knock, Bye
<1>4. LowestFree \in Fds /\ sock[LowestFree].kind = "free"
  BY LowestFreeShape
<1>5. /\ sock' = [sock EXCEPT ![LowestFree] = x] /\ ctxs' = Append(ctxs, ctx)
      /\ backlog' = Tail(backlog)
  OBVIOUS
<1> HIDE DEF m
<1>6. ctx \in SocketCtx /\ ctx.toaddr = NoAddr
  BY <1>3, <1>4 DEF SocketCtxNew, SocketCtx
<1> HIDE DEF ctx
<1>7. OneCtxPerDest(ctxs') /\ Queued' = Queued
  BY <1>5, <1>6, QueuedAccepted
<1>8. \A n : Brings(x, n) <=> m = n
  BY DEF NewInbound, Brings, Pending, Parts
<1> HIDE DEF x
<1>9. \A n \in ClientMsg : Count(backlog', sock', n) = Count(backlog, sock, n)
  <2> TAKE n \in ClientMsg
  <2>1. Cardinality(Waiting(backlog', n)) = Cardinality(Waiting(backlog, n)) - One(m = n)
    BY <1>1, <1>5, WaitingTail DEF m
  <2>2. Cardinality(Coming(sock', n))
          = Cardinality(Coming(sock, n)) - One(Brings(sock[LowestFree], n)) + One(Brings(x, n))
    BY <1>4, <1>5, ComingChanged
  <2>3. One(Brings(sock[LowestFree], n)) = 0 /\ One(Brings(x, n)) = One(m = n)
    BY <1>4, <1>8 DEF One, Brings
  <2>4. Cardinality(Coming(sock, n)) \in Nat /\ Cardinality(Waiting(backlog, n)) \in Nat
    BY <1>1, CountsAreFinite
  <2>5. One(m = n) \in {0, 1}
    BY DEF One
  <2>6. Cardinality(Coming(sock', n)) = Cardinality(Coming(sock, n)) - 0 + One(m = n)
    BY <2>2, <2>3
  <2> QED BY <2>1, <2>4, <2>5, <2>6 DEF Count
<1>10. Inbox' = Inbox
  BY <1>2, <1>9, InboxChanges
<1> QED BY <1>7, <1>10, FollowsUnseen

\* recv() of the last part is the moment the tracker takes the message.
LEMMA FollowsRecv == ASSUME RefInv, LoopInv', Recv PROVE Follows
<1> DEFINE s == sock[Scan]
           x == Received(s)
           m == s.msg
<1> USE DEF RefInv, Recv
<1>1. /\ Scan \in Fds /\ s \in Inbound /\ m \in ClientMsg /\ s.kind = "in"
      /\ [m EXCEPT !.from = ctxs[Min(ByFd(Scan))].fromaddr] = m
  BY RecvShape DEF InFds
<1>2. OneCtxPerDest(ctxs') /\ Queued' = Queued
  BY QueuedSame
<1>3. /\ x.kind = "in" /\ x.msg = m /\ x.received = s.arrived /\ x.arrived = s.arrived
      /\ x.end = "no" <=> s.end = "no"
      /\ s.arrived \in 0..2 /\ s.received \in 0..2 /\ s.received <= s.arrived
  BY <1>1 DEF Received, Inbound, Parts, LoopInv, SocketsOK, InFds
<1>4. sock' = [sock EXCEPT ![Scan] = x]
  OBVIOUS
<1> HIDE DEF x
<1>5. CASE Completes(s)
  <2>1. /\ \A n \in ClientMsg : Brings(s, n) <=> n = m
        /\ \A n \in ClientMsg : ~Brings(x, n)
    BY <1>1, <1>3, <1>5 DEF Brings, Pending, Completes, Parts
  <2>2. Inbox[m] > 0 /\ Inbox' = [Inbox EXCEPT ![m] = @ - 1]
    BY <1>1, <1>4, <2>1, InboxOfSocket
  <2>3. HandleMsg(m)
    BY <1>1, <1>5
  <2>4. Core!Receive(m)
    BY <1>2, <2>2, <2>3, SameCalls DEF Core!Receive
  <2>5. net' = net
    OBVIOUS
  <2> QED BY <1>1, <1>2, <2>4, <2>5, SameMessages DEF Core!Next, Core!Thread, Follows
<1>6. CASE ~Completes(s)
  <2>1. \A n \in ClientMsg : Brings(x, n) <=> Brings(s, n)
    BY <1>1, <1>3, <1>6 DEF Brings, Pending, Completes, Parts
  <2>2. Inbox' = Inbox
    BY <1>1, <1>4, <2>1, InboxOfSocket
  <2>3. UNCHANGED handlerVars
    BY <1>6
  <2> QED BY <1>2, <2>2, <2>3, FollowsUnseen
<1> QED BY <1>5, <1>6

\* A connection is closed when it can bring nothing any more.
LEMMA FollowsReadEof == ASSUME RefInv, LoopInv', ReadEof PROVE Follows
<1> DEFINE c == Min(ByFd(Scan))
<1> USE DEF RefInv, ReadEof
<1>1. /\ Scan \in tmpr \ {ListenFd} /\ sock[Scan].end # "no"
      /\ sock[Scan].received = sock[Scan].arrived
  BY DEF LoopInv, SnapshotOK
<1>2. Scan \in InFds /\ Scan \in Fds /\ sock[Scan].kind = "in"
  BY <1>1, ScanShape DEF InFds
<1>3. CloseIfDone([ctxs EXCEPT ![c].shut_rd = TRUE], c)
  OBVIOUS
<1>4. /\ c \in 1..Len(ctxs) /\ ctxs[c] \in SocketCtx /\ CtxOK(ctxs[c], sock)
      /\ ctxs[c].fd = Scan /\ ctxs \in Seq(SocketCtx)
  BY <1>2, CtxOfFd DEF LoopInv, CtxsOK
<1> HIDE DEF c
<1>5. ctxs[c].toaddr = NoAddr /\ ctxs[c].writebuf = <<>>
  BY <1>2, <1>4 DEF CtxOK
<1> DEFINE cs == [ctxs EXCEPT ![c].shut_rd = TRUE]
<1>6. cs[c].shut_rd /\ cs[c].writebuf = <<>> /\ cs[c].fd = Scan
  BY <1>4, <1>5 DEF SocketCtx
<1>7. ctxs' = RemoveAt(cs, c) /\ sock' = [sock EXCEPT ![Scan] = Free]
  BY <1>3, <1>6 DEF CloseIfDone
<1>8. OneCtxPerDest(ctxs') /\ Queued' = Queued
  BY <1>4, <1>5, <1>7, QueuedClosed
<1>9. \A n \in ClientMsg : ~Brings(Free, n) /\ ~Brings(sock[Scan], n)
  <2>1. ~Pending(sock[Scan])
    BY <1>1 DEF Pending, Parts
  <2>2. Free.kind # "in"
    BY DEF Free
  <2> QED BY <2>1, <2>2 DEF Brings
<1>10. Inbox' = Inbox
  BY <1>2, <1>7, <1>9, InboxOfSocket
<1> QED BY <1>8, <1>10, FollowsUnseen

LEMMA FollowsBookkeeping ==
    ASSUME RefInv, LoopInv', Select \/ AcceptFails \/ ReadMore PROVE Follows
<1>1. UNCHANGED <<handlerVars, backlog, sock, ctxs, net, sends, restarts>>
  BY DEF Select, AcceptFails, ReadMore
<1> QED BY <1>1, InboxSame, QueuedSame, FollowsUnseen DEF RefInv

LEMMA WrittenType ==
    ASSUME net \in [Notice -> Nat], NEW buf, NEW k \in Nat, Written(buf, k)
    PROVE  /\ net' \in [Notice -> Nat]
           /\ k = 0 => net' = net
<1>1. \A S \in SUBSET (1..k) : Cardinality(S) \in Nat
  <2> TAKE S \in SUBSET (1..k)
  <2>1. IsFiniteSet(1..k)
    BY FS_Interval
  <2>2. IsFiniteSet(S)
    BY <2>1, FS_Subset
  <2> QED BY <2>2, FS_CardinalityType
<1>2. \A n : Cardinality({j \in 1..k : buf[j] = n}) \in Nat
  BY <1>1
<1>3. net' \in [Notice -> Nat]
  BY <1>2 DEF Written
<1>4. k = 0 => \A n : {j \in 1..k : buf[j] = n} = {}
  OBVIOUS
<1>5. k = 0 => \A n : Cardinality({j \in 1..k : buf[j] = n}) = 0
  BY <1>4, FS_EmptySet
<1>6. k = 0 => \A n \in Notice : net'[n] = net[n]
  BY <1>5 DEF Written
<1> QED BY <1>3, <1>6

\* The write branch is at a connection to a destination, and changes its queue.
LEMMA WriteShape ==
    ASSUME RefInv, AtWrite, NEW left \in Seq(Notice), NEW after, WriteLeaves(left, after)
    PROVE  \E d \in ToAddrs :
              /\ Queued[d] = WriteBuf /\ WriteBuf \in Seq(Notice) /\ WriteBuf # <<>>
              /\ OneCtxPerDest(ctxs') /\ Queued' = [Queued EXCEPT ![d] = left]
              /\ Inbox' = Inbox /\ pc = "idle"
              /\ UNCHANGED <<handlerVars, sends, restarts>>
<1> DEFINE c == Min(ByFd(Scan))
           cs == [ctxs EXCEPT ![c].writebuf = left]
           d == ctxs[c].toaddr
<1> USE DEF RefInv, AtWrite, AtFd
<1>0. /\ CloseIfDone(cs, c)
      /\ UNCHANGED <<handlerVars, backlog, sends, restarts>>
  BY DEF WriteLeaves
<1>1. Scan \in OutFds /\ sock[Scan].kind = "out"
  BY ScanShape DEF OutFds
<1>2. /\ c \in 1..Len(ctxs) /\ ctxs[c].fd = Scan /\ ctxs[c] \in SocketCtx
      /\ CtxOK(ctxs[c], sock) /\ ctxs \in Seq(SocketCtx)
  BY <1>1, CtxOfFd DEF LoopInv, CtxsOK
<1>3. WriteBuf = ctxs[c].writebuf
  BY DEF WriteBuf
<1> HIDE DEF c
<1>4. ~cs[c].shut_rd
  BY <1>2 DEF CtxOK, SocketCtx
<1>5. ctxs' = cs /\ UNCHANGED sock
  BY <1>0, <1>4 DEF CloseIfDone
<1>6. d \in ToAddrs /\ WriteBuf \in Seq(Notice)
  BY <1>1, <1>2, <1>3 DEF CtxOK, SocketCtx
<1>7. WriteBuf # <<>>
  <2>1. Scan \in writefds
    BY DEF LoopInv, SnapshotOK
  <2> QED BY <1>2, <1>3, <2>1 DEF LoopInv, WatchedOK
<1>8. /\ OneCtxPerDest(ctxs') /\ Queued[d] = WriteBuf
      /\ Queued' = [Queued EXCEPT ![d] = left]
  BY <1>2, <1>3, <1>5, <1>6, QueuedWritten
<1>9. Inbox' = Inbox
  BY <1>0, <1>5, InboxSame
<1>10. pc = "idle"
  OBVIOUS
<1> HIDE DEF d
<1> QED BY <1>0, <1>6, <1>7, <1>8, <1>9, <1>10

\* Some, or all, of what waits for a destination is written.
LEMMA FollowsFlush ==
    ASSUME RefInv, LoopInv', AtWrite, NEW k \in 0..Len(WriteBuf), NEW after,
           Written(WriteBuf, k), NEW left \in Seq(Notice),
           left = SubSeq(WriteBuf, k + 1, Len(WriteBuf)), WriteLeaves(left, after)
    PROVE  Follows
<1>1. PICK d \in ToAddrs :
         /\ Queued[d] = WriteBuf /\ WriteBuf \in Seq(Notice) /\ WriteBuf # <<>>
         /\ OneCtxPerDest(ctxs') /\ Queued' = [Queued EXCEPT ![d] = left]
         /\ Inbox' = Inbox /\ pc = "idle" /\ UNCHANGED <<handlerVars, sends, restarts>>
  BY WriteShape
<1>2. k \in Nat /\ Len(WriteBuf) \in Nat /\ k <= Len(WriteBuf)
  BY <1>1
<1>3. net' \in [Notice -> Nat] /\ (k = 0 => net' = net)
  BY <1>2, WrittenType DEF RefInv
<1>4. CASE k = 0
  <2>1. left = Queued[d]
    BY <1>1, <1>4
  <2>2. Queued' = Queued
    BY <1>1, <2>1, QueuedNow DEF RefInv
  <2> QED BY <1>1, <1>3, <1>4, <2>2, FollowsUnseen
<1>5. CASE k # 0
  <2>1. k \in 1..Len(Queued[d])
    BY <1>1, <1>2, <1>5
  <2>2. Core!Written(d, k)
    BY <1>1, SameMessages, SameCardinality DEF Written, Core!Written
  <2>3. Queued' = [Queued EXCEPT ![d] = SubSeq(@, k + 1, Len(@))]
    BY <1>1
  <2>4. Core!Flush(d)
    BY <1>1, <2>1, <2>2, <2>3 DEF Core!Flush, Core!handlerVars, handlerVars
  <2> QED BY <1>1, <1>3, <2>4, SameMessages DEF Core!Next, Core!Thread, Follows, RefInv
<1> QED BY <1>4, <1>5

LEMMA FollowsWriteAll == ASSUME RefInv, LoopInv', WriteAll PROVE Follows
<1>1. /\ AtWrite /\ Written(WriteBuf, Len(WriteBuf))
      /\ WriteLeaves(<<>>, writefds \ {Scan}) /\ <<>> \in Seq(Notice)
  BY DEF WriteAll
<1>2. WriteBuf \in Seq(Notice)
  BY <1>1, WriteShape
<1>3. Len(WriteBuf) \in 0..Len(WriteBuf) /\ SubSeq(WriteBuf, Len(WriteBuf) + 1, Len(WriteBuf)) = <<>>
  BY <1>2
<1> QED BY <1>1, <1>3, FollowsFlush

LEMMA FollowsWriteSome == ASSUME RefInv, LoopInv', WriteSome PROVE Follows
<1>1. PICK k \in 0..Len(WriteBuf) - 1 :
         Written(WriteBuf, k) /\ WriteLeaves(Unsent(WriteBuf, k), writefds)
  BY DEF WriteSome
<1>2. AtWrite
  BY DEF WriteSome
<1>3. WriteBuf \in Seq(Notice)
  <2>1. Scan \in OutFds
    BY <1>2, ScanShape DEF AtWrite, RefInv
  <2>2. ctxs[Min(ByFd(Scan))] \in SocketCtx
    BY <2>1, CtxOfFd DEF RefInv
  <2> QED BY <2>2 DEF WriteBuf, SocketCtx
<1>4. k \in 0..Len(WriteBuf) /\ SubSeq(WriteBuf, k + 1, Len(WriteBuf)) \in Seq(Notice)
  BY <1>1, <1>3
<1> QED BY <1>1, <1>2, <1>4, FollowsFlush DEF Unsent

LEMMA FollowsWriteError == ASSUME RefInv, LoopInv', WriteError PROVE Follows
<1>1. /\ AtWrite /\ WriteLeaves(<<>>, writefds \ {Scan}) /\ <<>> \in Seq(Notice)
  BY DEF WriteError
<1>2. PICK k \in 0..MaxOf(Len(WriteBuf) - 1, 0) : Written(WriteBuf, k)
  BY DEF WriteError
<1>3. PICK d \in ToAddrs :
         /\ Queued[d] = WriteBuf /\ WriteBuf \in Seq(Notice) /\ WriteBuf # <<>>
         /\ OneCtxPerDest(ctxs') /\ Queued' = [Queued EXCEPT ![d] = <<>>]
         /\ Inbox' = Inbox /\ pc = "idle" /\ UNCHANGED <<handlerVars, sends, restarts>>
  BY <1>1, WriteShape
<1>4. k \in 0..Len(Queued[d]) - 1 /\ k \in Nat
  BY <1>2, <1>3 DEF MaxOf
<1>5. net' \in [Notice -> Nat]
  BY <1>2, <1>4, WrittenType DEF RefInv
<1>6. Core!Written(d, k)
  BY <1>2, <1>3, SameMessages, SameCardinality DEF Written, Core!Written
<1>7. Core!Discard(d)
  BY <1>3, <1>4, <1>6 DEF Core!Discard, Core!handlerVars, handlerVars
<1> QED BY <1>3, <1>5, <1>7, SameMessages DEF Core!Next, Core!Thread, Follows, RefInv

LEMMA FollowsSendAppends == ASSUME RefInv, LoopInv', SendAppends PROVE Follows
<1> DEFINE c == Min(ByToaddr(Due.to))
           to == Due.to
           buf == Append(ctxs[c].writebuf, Due)
<1> USE DEF RefInv
<1>1. Due \in Notice /\ to \in ToAddrs
  BY DueShape DEF LoopInv, SendAppends
<1>2. c \in 1..Len(ctxs) /\ ctxs[c].toaddr = to /\ ctxs[c] \in SocketCtx
  BY <1>1, CtxOfToaddr DEF SendAppends
<1>3. ctxs' = [ctxs EXCEPT ![c].writebuf = buf]
  BY DEF SendAppends
<1>4. buf \in Seq(Notice)
  BY <1>1, <1>2 DEF SocketCtx
<1>5. buf = Append(ctxs[c].writebuf, Due) /\ to = Due.to
  OBVIOUS
<1> HIDE DEF c, buf, to
<1>6. ctxs[c].toaddr \in ToAddrs
  BY <1>1, <1>2
<1>7. /\ OneCtxPerDest(ctxs')
      /\ Queued[ctxs[c].toaddr] = ctxs[c].writebuf
      /\ Queued' = [Queued EXCEPT ![ctxs[c].toaddr] = buf]
  BY <1>2, <1>3, <1>4, <1>6, QueuedWritten
<1>8. TrySend /\ Inbox' = Inbox /\ UNCHANGED <<net, sends, restarts>>
  BY InboxSame DEF SendAppends
<1>9. Queued' = [Queued EXCEPT ![Core!Due.to] = Append(@, Core!Due)]
  <2>1. Queued' = [Queued EXCEPT ![to] = buf] /\ Queued[to] = ctxs[c].writebuf
    BY <1>2, <1>7
  <2>2. Core!Due = Due
    BY SameDue
  <2> QED BY <1>5, <2>1, <2>2
<1>10. Core!SendQueues
  BY <1>8, <1>9, SameTrySend DEF Core!SendQueues
<1> QED BY <1>7, <1>8, <1>10 DEF Core!Next, Core!Thread, Follows

LEMMA FollowsSendPart == ASSUME RefInv, LoopInv', SendPart PROVE Follows
<1> DEFINE d == Due
           ctx == SocketCtxNew(LowestFree, NoAddr, d.to, <<d>>)
<1> USE DEF RefInv, SendPart
<1>1. d \in Notice /\ d.to \in ToAddrs
  BY DueShape DEF LoopInv
<1>2. LowestFree \in Fds /\ sock[LowestFree].kind = "free"
  BY LowestFreeShape
<1>3. /\ sock' = [sock EXCEPT ![LowestFree] = Outgoing] /\ ctxs' = Append(ctxs, ctx)
      /\ ByToaddr(d.to) = {} /\ d = Due
  OBVIOUS
<1> HIDE DEF d
<1>4. <<d>> \in Seq(Notice) /\ <<d>> = Append(<<>>, d)
  BY <1>1
<1>5. ctx \in SocketCtx /\ ctx.toaddr = d.to /\ ctx.writebuf = Append(<<>>, d)
  BY <1>1, <1>2, <1>4 DEF SocketCtxNew, SocketCtx
<1> HIDE DEF ctx
<1>6. /\ OneCtxPerDest(ctxs')
      /\ Queued' = [Queued EXCEPT ![d.to] = Append(<<>>, d)]
  BY <1>1, <1>3, <1>5, QueuedOpened
<1>7. Queued[d.to] = <<>>
  BY <1>1, <1>3 DEF Queued
<1>8. \A n \in ClientMsg : ~Brings(Outgoing, n) /\ ~Brings(sock[LowestFree], n)
  <2>1. Outgoing.kind # "in" /\ sock[LowestFree].kind # "in"
    BY <1>2, Kinds
  <2> QED BY <2>1 DEF Brings
<1>9. Inbox' = Inbox
  BY <1>2, <1>3, <1>8, InboxOfSocket
<1>10. Queued' = [Queued EXCEPT ![Core!Due.to] = Append(@, Core!Due)]
  <2>1. Core!Due = d
    BY <1>3, SameDue
  <2> QED BY <1>6, <1>7, <2>1
<1>11. UNCHANGED <<net, sends, restarts>>
  OBVIOUS
<1>12. Core!SendQueues
  BY <1>9, <1>10, <1>11, SameTrySend DEF Core!SendQueues
<1> QED BY <1>6, <1>11, <1>12 DEF Core!Next, Core!Thread, Follows

LEMMA FollowsSendWhole == ASSUME RefInv, LoopInv', SendWhole PROVE Follows
<1> USE DEF RefInv, SendWhole
<1>1. Due \in Notice /\ Due.to \in ToAddrs
  BY DueShape DEF LoopInv
<1>2. OneCtxPerDest(ctxs') /\ Queued' = Queued /\ Inbox' = Inbox
  BY QueuedSame, InboxSame
<1>3. Queued[Due.to] = <<>>
  BY <1>1 DEF Queued
<1>4. net' \in [Notice -> Nat]
  BY <1>1
<1>5. Core!SendWhole
  BY <1>2, <1>3, SameDue, SameTrySend DEF Core!SendWhole
<1> QED BY <1>2, <1>4, <1>5 DEF Core!Next, Core!Thread, Follows

LEMMA FollowsSendFails == ASSUME RefInv, LoopInv', SendFails PROVE Follows
<1> USE DEF RefInv, SendFails, loopVars
<1>1. Due \in Notice /\ Due.to \in ToAddrs
  BY DueShape DEF LoopInv
<1>2. OneCtxPerDest(ctxs') /\ Queued' = Queued /\ Inbox' = Inbox
  BY QueuedSame, InboxSame
<1>3. Queued[Due.to] = <<>>
  BY <1>1 DEF Queued
<1>4. Core!SendFails
  BY <1>2, <1>3, SameDue, SameTrySend DEF Core!SendFails
<1> QED BY <1>2, <1>4 DEF Core!Next, Core!Thread, Follows

LEMMA FollowsHandlerStep == ASSUME RefInv, LoopInv', HandlerStep PROVE Follows
<1> USE DEF RefInv, HandlerStep, loopVars
<1>1. OneCtxPerDest(ctxs') /\ Queued' = Queued /\ Inbox' = Inbox
  BY QueuedSame, InboxSame
<1>2. Core!HandlerStep
  BY <1>1, SameSteps DEF Core!HandlerStep
<1> QED BY <1>1, <1>2 DEF Core!Next, Core!Thread, Follows

LEMMA NothingComes ==
    ASSUME NEW s, \A fd \in Fds : s[fd] \in {Free, Listening}
    PROVE  InboxOf(<<>>, s) = Core!EmptyInbox
<1>1. \A m : Coming(s, m) = {}
  BY DEF Coming, Brings, Free, Listening
<1>2. \A m : Waiting(<<>>, m) = {}
  BY DEF Waiting
<1>3. \A m : Count(<<>>, s, m) = 0
  <2> TAKE m
  <2>1. Cardinality(Waiting(<<>>, m)) = 0 /\ Cardinality(Coming(s, m)) = 0
    BY <1>1, <1>2, FS_EmptySet
  <2> QED BY <2>1 DEF Count
<1> QED BY <1>3, SameMessages DEF InboxOf, Core!EmptyInbox

LEMMA NothingWaits == QueuedOf(<<>>) = Core!NothingQueued /\ OneCtxPerDest(<<>>)
BY SameMessages DEF QueuedOf, CtxsTo, Core!NothingQueued, OneCtxPerDest

LEMMA FollowsRestart == ASSUME RefInv, LoopInv', Restart PROVE Follows
<1> USE DEF RefInv, Restart
<1>1. Inbox' = Core!EmptyInbox
  <2>1. \A fd \in Fds : sock'[fd] \in {Free, Listening}
    OBVIOUS
  <2>2. backlog' = <<>> /\ Inbox' = InboxOf(backlog', sock')
    BY InboxIs DEF LoopInv
  <2> QED BY <2>1, <2>2, NothingComes
<1>2. OneCtxPerDest(ctxs') /\ Queued' = Core!NothingQueued
  BY NothingWaits, QueuedIs
<1>3. Core!Restart
  BY <1>1, <1>2, SameBounds DEF Core!Restart
<1> QED BY <1>2, <1>3 DEF Core!Next, Follows

LEMMA FollowsStutter == ASSUME RefInv, LoopInv', UNCHANGED vars PROVE Follows
BY InboxSame, QueuedSame, FollowsUnseen DEF RefInv, vars, loopVars

LEMMA FollowsNext == RefInv /\ [Next]_vars => Follows
<1> SUFFICES ASSUME RefInv, [Next]_vars PROVE Follows
  OBVIOUS
<1>0. LoopInv'
  BY LoopInvNext DEF RefInv
<1>1. ASSUME NEW m \in ClientMsg, Connect(m) PROVE Follows
  BY <1>0, <1>1, FollowsConnect
<1>2. ASSUME NEW fd \in Fds, Arrive(fd) \/ ClientEnds(fd) PROVE Follows
  BY <1>0, <1>2, FollowsArrive, FollowsEnd DEF ClientEnds
<1>3. CASE Loop
  BY <1>0, <1>3, FollowsBookkeeping, FollowsAccept, FollowsRecv, FollowsReadEof,
     FollowsWriteAll, FollowsWriteSome, FollowsWriteError, FollowsSendAppends,
     FollowsSendWhole, FollowsSendFails, FollowsSendPart, FollowsHandlerStep DEF Loop
<1>4. CASE Restart
  BY <1>0, <1>4, FollowsRestart
<1>5. CASE UNCHANGED vars
  BY <1>0, <1>5, FollowsStutter
<1> QED BY <1>1, <1>2, <1>3, <1>4, <1>5 DEF Next

LEMMA RefInvInit == Init => RefInv /\ Core!Init
<1> SUFFICES ASSUME Init PROVE RefInv /\ Core!Init
  OBVIOUS
<1>1. LoopInv
  BY LoopInvInit
<1>2. OneCtxPerDest(ctxs) /\ Queued = Core!NothingQueued
  BY NothingWaits, QueuedIs DEF Init
<1>3. Inbox = Core!EmptyInbox
  <2>1. \A fd \in Fds : sock[fd] \in {Free, Listening}
    BY DEF Init
  <2>2. backlog = <<>> /\ Inbox = InboxOf(backlog, sock)
    BY InboxIs DEF Init, LoopInv
  <2> QED BY <2>1, <2>2, NothingComes
<1>4. net \in [Notice -> Nat]
  BY DEF Init
<1>5. Core!Init
  BY <1>2, <1>3, SameBounds, SameMessages DEF Init, Core!Init
<1> QED BY <1>1, <1>2, <1>4, <1>5 DEF RefInv

\* For any number of descriptors and however reads, writes, resets, failures and the
\* reuse of descriptors interleave, THREAD_wait_for_tcp_messages does to handle_msg
\* and to the network only what the tracker does at the level of messages: each
\* message is taken once, and each notice written once.
THEOREM LoopImplementsTracker == Spec => ImplementsTracker
<1>1. RefInv /\ [Next]_vars => RefInv' /\ [Core!Next]_(Core!vars)
  BY FollowsNext DEF Follows
<1> QED BY <1>1, RefInvInit, PTL DEF Spec, ImplementsTracker, Core!Spec
=============================================================================
