------------------------------- MODULE Listener -------------------------------
(***************************************************************************)
(* The select() loop of a client's listener thread (tm.c), down to the     *)
(* bytes that peers and tracker send: accept, read, split into messages,   *)
(* close, and the end through the pipe.  What handle_msg does with a       *)
(* message is in Client; here it is appended to the list of those handled. *)
(***************************************************************************)
EXTENDS Framing, FiniteSets

CONSTANTS MaxFd,      \* the highest descriptor the process can open
          Streams     \* bound: the bytes that may come on each connection, one after the other

MaxConns == Len(Streams)

\* Descriptors 0 to 2 are inherited; the thread opens its socket, then the pipe.
ListenFd == 3
PipeFd == 4
PipeWriteFd == 5
ConnFds == (PipeWriteFd + 1)..MaxFd

\* The process got its pipe.
ASSUME ListenerAssumption ==
    /\ MaxFd \in Nat /\ MaxFd >= PipeWriteFd
    /\ Streams \in Seq(SUBSET Seq(Byte))

VARIABLES
    lpc,            \* "start", "select", "parse", "ended"
    sock,           \* the kernel: what each descriptor for a connection is
    backlog,        \* connections to accept
    pipe,           \* "none", "empty", "written"
    ctxs,           \* socketctxs
    readfds, maxfd, \* what select() is to watch
    tmpr,           \* tmp_readfds: those the pass has yet to reach
    eof,            \* read_eof
    conns,          \* history: number of connections so far
    handled         \* history: what handle_msg got, per connection

loopVars == <<ctxs, readfds, maxfd, tmpr, eof>>
vars == <<lpc, sock, backlog, pipe, loopVars, conns, handled>>

\* A connection: its bytes, how many have arrived and been received, its end.
Conn(id, stream) ==
    [id |-> id, stream |-> stream, arrived |-> 0, received |-> 0, end |-> "no"]
NoConn == Conn(0, <<>>)

Init ==
    /\ lpc = "start"
    /\ sock = [fd \in ConnFds |-> NoConn]
    /\ backlog = <<>> /\ pipe = "none"
    /\ ctxs = <<>> /\ readfds = {} /\ maxfd = 0 /\ tmpr = {} /\ eof = FALSE
    /\ conns = 0 /\ handled = [id \in 1..MaxConns |-> <<>>]

\* SocketCtx_find_by_fd returns the first of these.
ByFd(cs, fd) == {c \in DOMAIN cs : cs[c].fd = fd}

\* The descriptor the for loop is at, and its ctx.
Scan == Min(tmpr)
Ctx == Min(ByFd(ctxs, Scan))

----------------------------------------------------------------------------
(* Start of the thread; its failures are in Client *)

Listen ==
    /\ lpc = "start"
    /\ lpc' = "select" /\ pipe' = "empty"
    /\ readfds' = {ListenFd, PipeFd} /\ maxfd' = PipeFd
    /\ UNCHANGED <<sock, backlog, ctxs, tmpr, eof, conns, handled>>

Readable(fd) ==
    CASE fd = ListenFd -> backlog # <<>>
      [] fd = PipeFd -> pipe = "written"
      [] OTHER -> sock[fd].received < sock[fd].arrived \/ sock[fd].end # "no"

\* Mutant: select(maxfd, ...).
WatchedBelow == {fd \in readfds : fd < maxfd}

\* select(maxfd+1, ...).
Watched == {fd \in readfds : fd <= maxfd}

Select ==
    /\ lpc = "select" /\ tmpr = {}
    /\ tmpr' = {fd \in Watched : Readable(fd)} /\ tmpr' # {}
    /\ UNCHANGED <<lpc, sock, backlog, pipe, ctxs, readfds, maxfd, eof, conns, handled>>

AtFd == lpc = "select" /\ tmpr # {}

\* is_running = 0, and the end of the thread: only the listening socket is closed.
Unblocked ==
    /\ AtFd /\ Scan = PipeFd
    /\ lpc' = "ended" /\ tmpr' = {}
    /\ UNCHANGED <<sock, backlog, pipe, ctxs, readfds, maxfd, eof, conns, handled>>

Accept ==
    /\ AtFd /\ Scan = ListenFd
    /\ LET free == {fd \in ConnFds : sock[fd] = NoConn}
       IN IF free = {}
          THEN UNCHANGED <<sock, backlog, ctxs, readfds, maxfd>>    \* EMFILE
          ELSE /\ sock' = [sock EXCEPT ![Min(free)] = Head(backlog)]
               /\ backlog' = Tail(backlog)
               /\ ctxs' = Append(ctxs, [fd |-> Min(free), id |-> Head(backlog).id,
                                        readbuf |-> <<>>, msglen |-> 0])
               /\ readfds' = readfds \cup {Min(free)}
               /\ maxfd' = IF Min(free) > maxfd THEN Min(free) ELSE maxfd
    /\ tmpr' = tmpr \ {ListenFd}
    /\ UNCHANGED <<lpc, pipe, eof, conns, handled>>

----------------------------------------------------------------------------
(* Received bytes *)

\* NetRecv takes all that has arrived; an error is reported once, and is not
\* taken for the end of the connection.
Recv ==
    /\ AtFd /\ Scan \in ConnFds
    /\ LET s == sock[Scan]
       IN /\ ctxs' = [ctxs EXCEPT ![Ctx].readbuf =
                        @ \o SubSeq(s.stream, s.received + 1, s.arrived)]
          /\ sock' = [sock EXCEPT ![Scan] =
                        [s EXCEPT !.received = s.arrived,
                                  !.end = IF s.end = "reset" THEN "eof" ELSE s.end]]
          /\ eof' = (s.end = "eof")
    /\ lpc' = "parse"
    /\ UNCHANGED <<backlog, pipe, readfds, maxfd, tmpr, conns, handled>>

Parsing == lpc = "parse"

ReadLength ==
    /\ Parsing /\ LengthIsThere(ctxs[Ctx].msglen, ctxs[Ctx].readbuf)
    /\ ~LengthIsZero(ctxs[Ctx].msglen, ctxs[Ctx].readbuf)
    /\ LET c == ctxs[Ctx]
       IN ctxs' = [ctxs EXCEPT ![Ctx] = [c EXCEPT !.msglen = U16(c.readbuf),
                                                  !.readbuf = BufferShift(c.readbuf, 2)]]
    /\ UNCHANGED <<lpc, sock, backlog, pipe, readfds, maxfd, tmpr, eof, conns, handled>>

\* handle_msg, then the message leaves the buffer.
ReadBody ==
    /\ Parsing /\ BodyIsThere(ctxs[Ctx].msglen, ctxs[Ctx].readbuf)
    /\ LET c == ctxs[Ctx]
       IN /\ handled' = [handled EXCEPT ![c.id] = Append(@, SubSeq(c.readbuf, 1, c.msglen))]
          /\ ctxs' = [ctxs EXCEPT ![Ctx] = [c EXCEPT !.readbuf = BufferShift(c.readbuf, c.msglen),
                                                     !.msglen = 0]]
    /\ UNCHANGED <<lpc, sock, backlog, pipe, readfds, maxfd, tmpr, eof, conns>>

\* Mutant: the end of the connection comes before what is left in the buffer.
ReachedEndFirst == LengthIsZero(ctxs[Ctx].msglen, ctxs[Ctx].readbuf) \/ eof

\* Mutant: the end of the connection is not looked at.
ReachedEndNever == LengthIsZero(ctxs[Ctx].msglen, ctxs[Ctx].readbuf)

ReachedEnd ==
    \/ LengthIsZero(ctxs[Ctx].msglen, ctxs[Ctx].readbuf)
    \/ eof /\ WaitsForMore(ctxs[Ctx].msglen, ctxs[Ctx].readbuf)

NextFd == lpc' = "select" /\ tmpr' = tmpr \ {Scan} /\ eof' = FALSE

ReadMore ==
    /\ Parsing /\ WaitsForMore(ctxs[Ctx].msglen, ctxs[Ctx].readbuf) /\ ~eof
    /\ NextFd
    /\ UNCHANGED <<sock, backlog, pipe, ctxs, readfds, maxfd, conns, handled>>

\* Mutant: the descriptor stays in readfds.
UnwatchNot(fd) == readfds

\* FD_CLR.
Unwatch(fd) == readfds \ {fd}

\* FD_CLR, ShutdownSocket, ArrayRemove; a length of 0 ends a connection too.
ReadEof ==
    /\ Parsing /\ ReachedEnd
    /\ readfds' = Unwatch(Scan)
    /\ sock' = [sock EXCEPT ![Scan] = NoConn]
    /\ ctxs' = RemoveAt(ctxs, Ctx)
    /\ NextFd
    /\ UNCHANGED <<backlog, pipe, maxfd, conns, handled>>

----------------------------------------------------------------------------
(* The other side, and the main thread *)

ConnectTo(stream) ==
    /\ lpc \in {"select", "parse"}
    /\ conns' = conns + 1
    /\ backlog' = Append(backlog, Conn(conns + 1, stream))
    /\ UNCHANGED <<lpc, sock, pipe, loopVars, handled>>

Arrive(fd) ==
    /\ sock[fd] # NoConn /\ sock[fd].end = "no"
    /\ \E k \in (sock[fd].arrived + 1)..Len(sock[fd].stream) :
          sock' = [sock EXCEPT ![fd].arrived = k]
    /\ UNCHANGED <<lpc, backlog, pipe, loopVars, conns, handled>>

\* The other side closes, or dies; not all of its bytes need have arrived.
End(fd, how) ==
    /\ sock[fd] # NoConn /\ sock[fd].end = "no"
    /\ sock' = [sock EXCEPT ![fd].end = how]
    /\ UNCHANGED <<lpc, backlog, pipe, loopVars, conns, handled>>

\* main() after gtk_main().
Unblock ==
    /\ pipe = "empty" /\ pipe' = "written"
    /\ UNCHANGED <<lpc, sock, backlog, loopVars, conns, handled>>

----------------------------------------------------------------------------
Thread == Listen \/ Select \/ Unblocked \/ Accept \/ Recv \/ ReadLength \/ ReadBody
            \/ ReadMore \/ ReadEof
Outside == \/ conns < MaxConns /\ \E s \in Streams[conns + 1] : ConnectTo(s)
           \/ \E fd \in ConnFds : Arrive(fd) \/ End(fd, "eof") \/ End(fd, "reset")
           \/ Unblock

Next == Thread \/ Outside

Spec == Init /\ [][Next]_vars

\* select() returns when a descriptor is ready, and nothing else in the loop blocks.
FairSpec == Spec /\ WF_vars(Thread)

----------------------------------------------------------------------------
(* Properties *)

\* The variables have their types.
TypeOK ==
    /\ lpc \in {"start", "select", "parse", "ended"}
    /\ pipe \in {"none", "empty", "written"}
    /\ ctxs \in Seq([fd : ConnFds, id : 1..MaxConns, readbuf : Seq(Byte), msglen : Nat])
    /\ readfds \subseteq {ListenFd, PipeFd} \cup ConnFds /\ tmpr \subseteq readfds
    /\ maxfd \in 0..MaxFd /\ eof \in BOOLEAN
    /\ handled \in [1..MaxConns -> Seq(Seq(Byte))]

\* However the bytes of a connection are cut into reads, handle_msg gets the messages
\* they hold, each once and in order, as soon as their last byte was received; and
\* before the connection is closed, also if its end came with that byte.
HandledAsSent ==
    \A c \in DOMAIN ctxs :
        LET s == sock[ctxs[c].fd]
            whole == Bodies(SubSeq(s.stream, 1, s.received))
        IN /\ IsPrefix(handled[s.id], whole)
           /\ ~(Parsing /\ c = Ctx) \/ ReachedEnd => handled[s.id] = whole

\* Every open connection has exactly one ctx, of its own bytes, and is watched;
\* select() watches nothing else but the listening socket and the pipe.
ConnsTracked ==
    LET open == {fd \in ConnFds : sock[fd] # NoConn}
    IN /\ TypeOK
       /\ \A fd \in ConnFds : Cardinality(ByFd(ctxs, fd)) = (IF fd \in open THEN 1 ELSE 0)
       /\ \A c \in DOMAIN ctxs : sock[ctxs[c].fd].id = ctxs[c].id
       /\ lpc # "start" => readfds = {ListenFd, PipeFd} \cup open
       /\ \A fd \in readfds : fd <= maxfd

\* The byte of the main thread ends the loop, whatever comes in at the same time.
EndsWhenUnblocked == (pipe = "written") ~> (lpc = "ended")

\* Bytes that arrived are received, and a connection that ended is closed, unless
\* the thread ends.
ConnectionsServed ==
    \A fd \in ConnFds :
        (sock[fd].end # "no") ~> (sock[fd] = NoConn \/ sock[fd].end = "no" \/ lpc = "ended")
=============================================================================
