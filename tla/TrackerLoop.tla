----------------------------- MODULE TrackerLoop -----------------------------
(***************************************************************************)
(* THREAD_wait_for_tcp_messages of the tracker: a select() loop over the   *)
(* listening socket, the connections clients send their message over, and  *)
(* the connections to clients that could not take a whole notice at once.  *)
(* Each connection of a client carries one KNOCK or one BYE, in two parts  *)
(* that may arrive separately; the client may die in between.              *)
(***************************************************************************)
EXTENDS TrackerHandler, FiniteSets, SequencesExt

CONSTANTS MaxFd,        \* the process can have the descriptors 1..MaxFd
          MaxMsgs,      \* bound: messages clients send
          MaxRestarts,  \* bound: times the tracker process is started again
          NoAddr        \* the HostAddr 0

\* No client connects from, or listens at, the address 0.
ASSUME TrackerLoopAssumption ==
    MaxFd \in Nat \ {0} /\ NoAddr \notin ToAddrs

VARIABLES
    backlog,   \* clients whose connection waits to be accepted, by their message
    sock,      \* the kernel's sockets, by descriptor
    ctxs,      \* socketctxs
    readfds, writefds, maxfd,
    tmpr,      \* tmp_readfds from the fd on that the for loop is at
    tmpw,      \* tmp_writefds from the fd on that the for loop is at
    rd,        \* within the read branch: "open" or "eof", what NetRecv found; else "no"
    net,       \* notices written to a connection, with multiplicity
    sends,     \* how many messages clients have sent
    restarts   \* how many times the tracker was restarted

loopVars == <<ctxs, readfds, writefds, maxfd, tmpr, tmpw, rd>>
vars == <<handlerVars, backlog, sock, loopVars, net, sends, restarts>>

ListenFd == 1
Fds == 1..MaxFd
Parts == 2

Free == [kind |-> "free"]
Listening == [kind |-> "listening"]

\* To a client
Outgoing == [kind |-> "out"]

\* From a client: how many parts of its message arrived and were received, and
\* whether the connection has ended since.
Inbound == [kind : {"in"}, msg : ClientMsg, arrived : 0..Parts, received : 0..Parts,
            end : {"no", "eof", "reset"}]
NewInbound(m) ==
    [kind |-> "in", msg |-> m, arrived |-> 0, received |-> 0, end |-> "no"]

FreeFds == {fd \in Fds : sock[fd] = Free}
LowestFree == Min(FreeFds)
MaxOf(a, b) == IF a > b THEN a ELSE b

SocketCtx == [fd : Fds, fromaddr : FromAddrs \cup {NoAddr}, toaddr : ToAddrs \cup {NoAddr},
              writebuf : Seq(Notice), shut_rd : BOOLEAN]

SocketCtxNew(fd, from, to, buf) ==
    [fd |-> fd, fromaddr |-> from, toaddr |-> to, writebuf |-> buf, shut_rd |-> FALSE]

CtxFds == {ctxs[c].fd : c \in DOMAIN ctxs}

\* The indices of the ctxs that SocketCtx_find_by_fd and _by_toaddr look for;
\* they return the first.
ByFd(fd) == {c \in DOMAIN ctxs : ctxs[c].fd = fd}
ByToaddr(to) == {c \in DOMAIN ctxs : ctxs[c].toaddr = to}

Init ==
    /\ HandlerInit
    /\ backlog = <<>>
    /\ sock = [fd \in Fds |-> IF fd = ListenFd THEN Listening ELSE Free]
    /\ ctxs = <<>>
    /\ readfds = {ListenFd} /\ writefds = {} /\ maxfd = ListenFd
    /\ tmpr = {} /\ tmpw = {} /\ rd = "no"
    /\ net = [n \in Notice |-> 0]
    /\ sends = 0 /\ restarts = 0

----------------------------------------------------------------------------
(* Clients and the network *)

Connect(m) ==
    /\ pc # "aborted"
    /\ sends < MaxMsgs
    /\ sends' = sends + 1
    /\ backlog' = Append(backlog, m)
    /\ UNCHANGED <<handlerVars, sock, loopVars, net, restarts>>

\* What arrives before accept() is read in the same pass as what arrives after.
Arrive(fd) ==
    /\ sock[fd].kind = "in" /\ sock[fd].end = "no" /\ sock[fd].arrived < Parts
    /\ sock' = [sock EXCEPT ![fd].arrived = @ + 1]
    /\ UNCHANGED <<handlerVars, backlog, loopVars, net, sends, restarts>>

\* The client closes its connection after the message; or dies before.
End(fd, how) ==
    /\ sock[fd].kind = "in" /\ sock[fd].end = "no"
    /\ sock' = [sock EXCEPT ![fd].end = how]
    /\ UNCHANGED <<handlerVars, backlog, loopVars, net, sends, restarts>>

----------------------------------------------------------------------------
(* The event loop *)

Readable(fd) ==
    \/ sock[fd].kind = "listening" /\ backlog # <<>>
    \/ sock[fd].kind = "in" /\ (sock[fd].received < sock[fd].arrived \/ sock[fd].end # "no")

\* No handler runs and no branch of the for loop is under way.
AtFd == pc = "idle" /\ rd = "no"

\* The fd the for loop is at.
Scan == Min(tmpr \cup tmpw)

\* A peer may or may not have made room for more bytes, or closed.
Select ==
    /\ AtFd
    /\ tmpr \cup tmpw = {}
    /\ tmpr' = {fd \in readfds : Readable(fd)}
    /\ \E ready \in SUBSET writefds :
          /\ tmpw' = ready
          /\ tmpr' \cup ready # {}
    /\ UNCHANGED <<handlerVars, backlog, sock, ctxs, readfds, writefds, maxfd, rd,
                   net, sends, restarts>>

AtRead == AtFd /\ tmpr # {} /\ Scan \in tmpr

AtWrite == AtFd /\ tmpw # {} /\ Scan \in tmpw \ tmpr

Accept ==
    /\ AtRead /\ Scan = ListenFd
    /\ FreeFds # {}
    /\ LET fd == LowestFree
       IN /\ sock' = [sock EXCEPT ![fd] = NewInbound(Head(backlog))]
          /\ ctxs' = Append(ctxs, SocketCtxNew(fd, Head(backlog).from, NoAddr, <<>>))
          /\ readfds' = readfds \cup {fd}
          /\ maxfd' = MaxOf(fd, maxfd)
    /\ backlog' = Tail(backlog)
    /\ tmpr' = tmpr \ {ListenFd}
    /\ UNCHANGED <<handlerVars, writefds, tmpw, rd, net, sends, restarts>>

\* accept() fails for want of a descriptor; the connection stays in the backlog.
AcceptFails ==
    /\ AtRead /\ Scan = ListenFd
    /\ FreeFds = {}
    /\ tmpr' = tmpr \ {ListenFd}
    /\ UNCHANGED <<handlerVars, backlog, sock, ctxs, readfds, writefds, maxfd, tmpw, rd,
                   net, sends, restarts>>

\* NetRecv takes all that has arrived.  A reset makes it return -1 once, which
\* is not taken for the end of the connection; the next call returns 0.
Received(s) ==
    [s EXCEPT !.received = s.arrived, !.end = IF @ = "reset" THEN "eof" ELSE @]

\* Mutant: a message is left unread when the client has already closed.
CompletesUnlessEnded(s) == s.received < Parts /\ s.arrived = Parts /\ s.end = "no"

\* The read buffer holds the whole message, for the first time.
Completes(s) == s.received < Parts /\ s.arrived = Parts

\* The last part of a message completes it: handle_msg, then on with the loop.
Recv ==
    /\ AtRead /\ Scan # ListenFd
    /\ LET s == sock[Scan]
           ctx == ctxs[Min(ByFd(Scan))]
       IN /\ sock' = [sock EXCEPT ![Scan] = Received(s)]
          /\ rd' = IF s.end = "eof" THEN "eof" ELSE "open"
          /\ IF Completes(s)
             THEN HandleMsg([s.msg EXCEPT !.from = ctx.fromaddr])
             ELSE UNCHANGED handlerVars
    /\ UNCHANGED <<backlog, ctxs, readfds, writefds, maxfd, tmpr, tmpw, net, sends, restarts>>

\* Mutant: the descriptor is not closed.
CloseIfDoneLeaks(cs, c) ==
    /\ ctxs' = IF cs[c].shut_rd /\ cs[c].writebuf = <<>> THEN RemoveAt(cs, c) ELSE cs
    /\ UNCHANGED sock

\* Mutant: the wrong index.
CloseIfDoneFirst(cs, c) ==
    IF cs[c].shut_rd /\ cs[c].writebuf = <<>>
    THEN /\ ctxs' = Tail(cs)
         /\ sock' = [sock EXCEPT ![cs[1].fd] = Free]
    ELSE /\ ctxs' = cs
         /\ UNCHANGED sock

\* SocketCtx_close_and_remove, once both directions are done with.
CloseIfDone(cs, c) ==
    IF cs[c].shut_rd /\ cs[c].writebuf = <<>>
    THEN /\ ctxs' = RemoveAt(cs, c)
         /\ sock' = [sock EXCEPT ![cs[c].fd] = Free]
    ELSE /\ ctxs' = cs
         /\ UNCHANGED sock

\* The rest of the read branch: wait for more ...
ReadMore ==
    /\ pc = "idle" /\ rd = "open"
    /\ rd' = "no"
    /\ tmpr' = tmpr \ {Scan}
    /\ UNCHANGED <<handlerVars, backlog, sock, ctxs, readfds, writefds, maxfd, tmpw,
                   net, sends, restarts>>

\* ... or close.
ReadEof ==
    /\ pc = "idle" /\ rd = "eof"
    /\ rd' = "no"
    /\ tmpr' = tmpr \ {Scan}
    /\ readfds' = readfds \ {Scan}
    /\ LET c == Min(ByFd(Scan))
       IN CloseIfDone([ctxs EXCEPT ![c].shut_rd = TRUE], c)
    /\ UNCHANGED <<handlerVars, backlog, writefds, maxfd, tmpw, net, sends, restarts>>

\* The first k notices of a write buffer are written.
Written(buf, k) ==
    net' = [n \in Notice |-> net[n] + Cardinality({j \in 1..k : buf[j] = n})]

\* The write branch, with what NetSend2 leaves of the write buffer.
WriteLeaves(left, writefdsAfter) ==
    /\ LET c == Min(ByFd(Scan))
       IN CloseIfDone([ctxs EXCEPT ![c].writebuf = left], c)
    /\ tmpw' = tmpw \ {Scan}
    /\ writefds' = writefdsAfter
    /\ UNCHANGED <<handlerVars, backlog, readfds, maxfd, tmpr, rd, sends, restarts>>

WriteBuf == ctxs[Min(ByFd(Scan))].writebuf

\* All bytes sent, and the connection shut down for writing.
WriteAll ==
    /\ AtWrite
    /\ Written(WriteBuf, Len(WriteBuf))
    /\ WriteLeaves(<<>>, writefds \ {Scan})

\* Mutant: BufferShift is left out.
UnsentAll(buf, k) == buf

\* What BufferShift leaves when the first k notices are sent.
Unsent(buf, k) == SubSeq(buf, k + 1, Len(buf))

\* k whole notices sent, and perhaps some bytes of the next.
WriteSome ==
    /\ AtWrite
    /\ \E k \in 0..Len(WriteBuf) - 1 :
          /\ Written(WriteBuf, k)
          /\ WriteLeaves(Unsent(WriteBuf, k), writefds)

\* An error, after k notices: what is left is thrown away.
WriteError ==
    /\ AtWrite
    /\ \E k \in 0..MaxOf(Len(WriteBuf) - 1, 0) : Written(WriteBuf, k)
    /\ WriteLeaves(<<>>, writefds \ {Scan})

----------------------------------------------------------------------------
(* send_msg_to_hostaddr, in a round of a loop of handle_msg *)

\* There is a ctx for the destination: the notice joins its write buffer.
SendAppends ==
    /\ TrySend
    /\ ByToaddr(Due.to) # {}
    /\ ctxs' = [ctxs EXCEPT ![Min(ByToaddr(Due.to))].writebuf = Append(@, Due)]
    /\ UNCHANGED <<backlog, sock, readfds, writefds, maxfd, tmpr, tmpw, rd,
                   net, sends, restarts>>

\* A connection of its own takes all of it; the socket is closed again.
SendWhole ==
    /\ TrySend
    /\ ByToaddr(Due.to) = {}
    /\ FreeFds # {}
    /\ net' = [net EXCEPT ![Due] = @ + 1]
    /\ writefds' = writefds \ {LowestFree}
    /\ UNCHANGED <<backlog, sock, ctxs, readfds, maxfd, tmpr, tmpw, rd, sends, restarts>>

\* No descriptor, no connection, or an error; the socket is closed again.
SendFails ==
    /\ TrySend
    /\ ByToaddr(Due.to) = {}
    /\ UNCHANGED <<backlog, sock, loopVars, net, sends, restarts>>

\* A part of it: the rest waits for select() to find the socket writable.
SendPart ==
    /\ TrySend
    /\ ByToaddr(Due.to) = {}
    /\ FreeFds # {}
    /\ LET fd == LowestFree
       IN /\ sock' = [sock EXCEPT ![fd] = Outgoing]
          /\ ctxs' = Append(ctxs, SocketCtxNew(fd, NoAddr, Due.to, <<Due>>))
          /\ writefds' = writefds \cup {fd}
          /\ maxfd' = MaxOf(fd, maxfd)
    /\ UNCHANGED <<backlog, readfds, tmpr, tmpw, rd, net, sends, restarts>>

HandlerStep ==
    /\ SkipInactive \/ AnnounceDone \/ IntroduceDone \/ FarewellDone
    /\ UNCHANGED <<backlog, sock, loopVars, net, sends, restarts>>

\* The process ends and is started again; the kernel closes its sockets.
Restart ==
    /\ restarts < MaxRestarts
    /\ restarts' = restarts + 1
    /\ HandlerReset
    /\ backlog' = <<>>
    /\ sock' = [fd \in Fds |-> IF fd = ListenFd THEN Listening ELSE Free]
    /\ ctxs' = <<>>
    /\ readfds' = {ListenFd} /\ writefds' = {} /\ maxfd' = ListenFd
    /\ tmpr' = {} /\ tmpw' = {} /\ rd' = "no"
    /\ UNCHANGED <<net, sends>>

Loop ==
    \/ Select \/ Accept \/ AcceptFails
    \/ Recv \/ ReadMore \/ ReadEof
    \/ WriteAll \/ WriteSome \/ WriteError
    \/ SendAppends \/ SendWhole \/ SendFails \/ SendPart \/ HandlerStep

ClientEnds(fd) == End(fd, "eof") \/ End(fd, "reset")

Next ==
    \/ \E m \in ClientMsg : Connect(m)
    \/ \E fd \in Fds : Arrive(fd) \/ ClientEnds(fd)
    \/ Loop
    \/ Restart

Spec == Init /\ [][Next]_vars

\* The thread runs; a client closes its connection when it has sent its
\* message, when that takes longer than its timeout, and when it dies.
FairSpec ==
    /\ Spec
    /\ WF_vars(Loop)
    /\ \A fd \in Fds : WF_vars(ClientEnds(fd))

----------------------------------------------------------------------------
(* Properties *)

InFds == {fd \in Fds : sock[fd].kind = "in"}
OutFds == {fd \in Fds : sock[fd].kind = "out"}

TypeOK ==
    /\ HandlerTypeOK
    /\ backlog \in Seq(ClientMsg)
    /\ \A fd \in Fds : sock[fd] \in Inbound \cup {Free, Listening, Outgoing}
    /\ ctxs \in Seq(SocketCtx)
    /\ readfds \cup writefds \cup tmpr \cup tmpw \cup {maxfd} \subseteq Fds
    /\ rd \in {"no", "open", "eof"}

\* The three books the loop keeps of its sockets agree with the kernel: one
\* ctx per open connection, clients' ctxs watched for reading, the others
\* watched for writing at most while there is something to write, and select()
\* looks at all of them.  No descriptor leaks out of the books, and none is
\* watched after it was closed, though numbers are used again within a pass.
FdsTracked ==
    /\ TypeOK
    /\ CtxFds = InFds \cup OutFds
    /\ \A c, d \in DOMAIN ctxs : ctxs[c].fd = ctxs[d].fd => c = d
    /\ readfds = {ListenFd} \cup InFds
    /\ writefds \subseteq {ctxs[c].fd : c \in {d \in DOMAIN ctxs : ctxs[d].writebuf # <<>>}}
    /\ writefds \subseteq OutFds
    /\ \A fd \in readfds \cup writefds : fd <= maxfd

\* What is left of the snapshot of select() still holds: the fds the for loop
\* is yet to reach are open, are the connections they were, and have what
\* select() saw; so accept() does not block and no ctx is missing.
SnapshotFresh ==
    /\ tmpr \subseteq readfds
    /\ rd = "no" => \A fd \in tmpr : Readable(fd)
    /\ tmpw \subseteq writefds

\* A message that has arrived as a whole is handled, even if its connection
\* has ended since; only the end of the process loses it.
CompleteMessagesHandled ==
    [][\A fd \in InFds :
         /\ sock[fd].received < Parts /\ sock[fd].arrived = Parts
         /\ ~(sock'[fd].kind = "in" /\ sock'[fd].received < Parts)
         => \/ cur' = sock[fd].msg
            \/ restarts' # restarts]_vars

\* With a descriptor to spare for one client beside those that each destination
\* can keep, whoever connects is accepted.
BacklogServed == (backlog # <<>>) ~> (backlog = <<>> \/ pc = "aborted")

\* "If peer socket has a write in progress, add send bytes to write queue":
\* notices wait only where select() will find that they can be written.
QueueIsWatched ==
    \A c \in DOMAIN ctxs : ctxs[c].writebuf # <<>> => ctxs[c].fd \in writefds

----------------------------------------------------------------------------
(* The loop implements Tracker. *)

\* The connection can still bring its message.
Pending(s) == s.received < Parts /\ (s.end = "no" \/ s.arrived = Parts)

Inbox == [m \in ClientMsg |->
             Cardinality({k \in DOMAIN backlog : backlog[k] = m})
               + Cardinality({fd \in InFds : sock[fd].msg = m /\ Pending(sock[fd])})]

Queued == [d \in ToAddrs |->
              IF ByToaddr(d) = {} THEN <<>> ELSE ctxs[Min(ByToaddr(d))].writebuf]

Core == INSTANCE Tracker WITH inbox <- Inbox, queued <- Queued

\* Through partial reads and writes, resets, reuse of descriptors and running
\* out of them, the loop calls handle_msg once for each message, with the
\* address it came from, and writes each notice once.
ImplementsTracker == Core!Spec
=============================================================================
