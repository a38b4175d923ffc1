------------------------------ MODULE NetConnect ------------------------------
(***************************************************************************)
(* The calls of ConnectAndSendMsg (tm.c, cnet.c) that the main thread of a *)
(* client makes: the KNOCK, a text at a time, the BYE, and the BYE of the  *)
(* SIGINT handler, which runs on top of whatever the thread was doing.     *)
(* A step is a system call, or the end of a blocking one.  The kernel and  *)
(* the other side are the environment.                                     *)
(***************************************************************************)
EXTENDS Integers, FiniteSets, SequencesExt

CONSTANTS Fds,        \* numbers of the descriptors the process can still open
          Tracker,    \* where KNOCK and BYE go
          Peers,      \* where texts go
          Parts,      \* the length of a message, in parts that send() can tell apart
          Timeout,    \* what each timeval is set to, in ticks
          MaxTexts    \* bound: texts the user sends

ASSUME NetConnectAssumption ==
    /\ Fds \subseteq Nat /\ IsFiniteSet(Fds)
    /\ Tracker \notin Peers
    /\ Parts \in Nat \ {0} /\ Timeout \in Nat /\ MaxTexts \in Nat

VARIABLES mpc,      \* main(): "knock", "gtk", "bye", "join", "ended"
          stack,    \* the calls the thread is in; the handler's is on top
          timeval,  \* the timevals of main(), of CB_chatwin_send and of sigint()
          sock,     \* the descriptors: state, peer, parts taken, room for more
          \* History: texts so far, what each timeval was waited on, sockets whose
          \* setup failed, and how each call ended.
          texts, waited, badBinds, results

historyVars == <<texts, waited, badBinds, results>>
vars == <<mpc, stack, timeval, sock, historyVars>>

NoFd == -1
Timers == {"main", "text", "sigint"}

Free == [state |-> "free", to |-> Tracker, put |-> 0, room |-> TRUE]
Socket == [Free EXCEPT !.state = "open"]

Frame(msg, to, timer) ==
    [msg |-> msg, to |-> to, timer |-> timer, at |-> "socket", fd |-> NoFd,
     left |-> Parts, z |-> -1]

Init ==
    /\ mpc = "knock" /\ stack = <<Frame("KNOCK", Tracker, "main")>>
    /\ timeval = [t \in Timers |-> Timeout]
    /\ sock = [fd \in Fds |-> Free]
    /\ texts = 0 /\ waited = [t \in Timers |-> 0] /\ badBinds = 0 /\ results = <<>>

Top == stack[Len(stack)]
InSigint == stack # <<>> /\ Top.timer = "sigint"

\* The thread is inside the call on top, and the call has come to pc.
At(pc) == mpc # "ended" /\ stack # <<>> /\ Top.at = pc
Goto(pc) == stack' = [stack EXCEPT ![Len(stack)].at = pc]

----------------------------------------------------------------------------
(* Calls and their return *)

\* What main() does with the result: without a KNOCK it ends; exit() ends it.
ReturnTo(z) ==
    IF InSigint \/ (Top.msg = "KNOCK" /\ z = -1) THEN "ended"
    ELSE CASE Top.msg = "KNOCK" -> "gtk"
           [] Top.msg = "CHATTEXT" -> "gtk"
           [] Top.msg = "BYE" -> "join"

\* ConnectAndSendMsg returns z; socks is what its descriptors are by then.
\* under: the connection of the call that the handler interrupted.
Return(z, socks) ==
    /\ mpc' = ReturnTo(z)
    /\ stack' = IF mpc' = "ended" THEN <<>> ELSE Front(stack)
    /\ sock' = IF mpc' = "ended" THEN [fd \in Fds |-> Free] ELSE socks
    /\ results' = Append(results,
          [msg |-> Top.msg, z |-> z,
           put |-> IF Top.fd = NoFd THEN 0 ELSE sock[Top.fd].put,
           under |-> IF Len(stack) = 2 /\ stack[1].fd # NoFd
                     THEN sock[stack[1].fd] ELSE Free])

\* ShutdownSocket: shutdown() and close().
Closed == [sock EXCEPT ![Top.fd] = Free]

\* CB_chatwin_send, with a timeval of its own.
SendText(p) ==
    /\ mpc = "gtk" /\ stack = <<>> /\ texts < MaxTexts
    /\ stack' = <<Frame("CHATTEXT", p, "text")>>
    /\ timeval' = [timeval EXCEPT !["text"] = Timeout]
    /\ waited' = [waited EXCEPT !["text"] = 0]
    /\ texts' = texts + 1
    /\ UNCHANGED <<mpc, sock, badBinds, results>>

\* The window is closed: the BYE uses the timeval of the KNOCK.
Quit ==
    /\ mpc = "gtk" /\ stack = <<>>
    /\ mpc' = "bye" /\ stack' = <<Frame("BYE", Tracker, "main")>>
    /\ UNCHANGED <<timeval, sock, historyVars>>

\* SIGINT, at any point; it is blocked while its handler runs.
Sigint ==
    /\ mpc # "ended" /\ ~InSigint
    /\ stack' = Append(stack, Frame("BYE", Tracker, "sigint"))
    /\ UNCHANGED <<mpc, timeval, sock, historyVars>>

----------------------------------------------------------------------------
(* OpenTcpConnectSocket *)

OpenSocket ==
    /\ At("socket")
    /\ LET free == {fd \in Fds : sock[fd].state = "free"}
       IN \/ /\ free # {}
             /\ stack' = [stack EXCEPT ![Len(stack)].at = "bind",
                                       ![Len(stack)].fd = Min(free)]
             /\ sock' = [sock EXCEPT ![Min(free)] = Socket]
             /\ UNCHANGED <<mpc, results>>
          \/ Return(-1, sock)
    /\ UNCHANGED <<timeval, texts, waited, badBinds>>

\* setsockopt() or bind() fails, say because another process has the send port:
\* returns without closing the socket.
BindFails ==
    /\ badBinds' = badBinds + 1
    /\ Return(-1, sock)

BindSendPort ==
    /\ At("bind")
    /\ \/ Goto("connect") /\ UNCHANGED <<mpc, sock, badBinds, results>>
       \/ BindFails
    /\ UNCHANGED <<timeval, texts, waited>>

\* Mutant: every socket has a port of its own.
NeverTaken == FALSE

\* All sockets share the send port, so that the kernel takes one connection to
\* a destination at a time (EADDRNOTAVAIL).
TupleTaken ==
    \E fd \in Fds \ {Top.fd} : /\ sock[fd].state \in {"connecting", "up"}
                               /\ sock[fd].to = Top.to

\* Mutant: the descriptor stays open.
GiveUpOpen == Return(-1, sock)

GiveUp == Return(-1, Closed)

\* Also fails while the kernel remembers a connection closed before (TIME_WAIT),
\* when there is no route, ...
Connect ==
    /\ At("connect")
    /\ \/ /\ ~TupleTaken
          /\ \E s \in {"connecting", "up"} :
                /\ sock' = [sock EXCEPT ![Top.fd] = [@ EXCEPT !.state = s, !.to = Top.to]]
                /\ Goto(IF s = "up" THEN "send" ELSE "select")
          /\ UNCHANGED <<mpc, results>>
       \/ GiveUp
    /\ UNCHANGED <<timeval, texts, waited, badBinds>>

\* select() finds the descriptor writable; getsockopt() tells the error.  After
\* EINTR it is called again with what is left of the timeval: no step.
ConnectEnds ==
    /\ At("select")
    /\ \/ sock[Top.fd].state = "up" /\ Goto("send") /\ UNCHANGED <<mpc, sock, results>>
       \/ sock[Top.fd].state = "failed" /\ GiveUp
    /\ UNCHANGED <<timeval, texts, waited, badBinds>>

----------------------------------------------------------------------------
(* NetSend_wait_until_complete, and the end of ConnectAndSendMsg *)

\* Mutant: sent bytes stay in the buffer.
LeftAfterKeeps(left, k) == left

\* BufferShift by k.
LeftAfter(left, k) == left - k

Writable(fd) == sock[fd].state = "failed" \/ sock[fd].room

\* NetSend: all that is left, less than that until EAGAIN, or an error.
Send ==
    /\ \/ At("send")
       \/ At("wait") /\ Writable(Top.fd)
    /\ \/ /\ sock[Top.fd].state = "failed"
          /\ stack' = [stack EXCEPT ![Len(stack)].at = "close", ![Len(stack)].z = -1]
          /\ UNCHANGED sock
       \/ \E k \in 0..Top.left :
             /\ sock[Top.fd].state = "up" /\ (At("wait") => k > 0)
             /\ LET all == k = Top.left
                IN /\ stack' = [stack EXCEPT
                         ![Len(stack)] = [@ EXCEPT !.left = LeftAfter(Top.left, k),
                                                   !.at = IF all THEN "close" ELSE "wait",
                                                   !.z = IF all THEN 0 ELSE -1]]
                   /\ sock' = [sock EXCEPT ![Top.fd].put = @ + k, ![Top.fd].room = all]
    /\ UNCHANGED <<mpc, timeval, historyVars>>

Shutdown ==
    /\ At("close") /\ Return(Top.z, Closed)
    /\ UNCHANGED <<timeval, texts, waited, badBinds>>

----------------------------------------------------------------------------
(* Time in select() *)

Ready == CASE At("select") -> sock[Top.fd].state # "connecting"
           [] At("wait") -> Writable(Top.fd)

Waiting == (At("select") \/ At("wait")) /\ ~Ready

\* Mutant: a select() that leaves its timeval alone.
TimeKept(t) == t

\* select() counts the timeval down in place.
TimeLeft(t) == t - 1

Tick ==
    /\ Waiting /\ timeval[Top.timer] > 0
    /\ timeval' = [timeval EXCEPT ![Top.timer] = TimeLeft(@)]
    /\ waited' = [waited EXCEPT ![Top.timer] = @ + 1]
    /\ UNCHANGED <<mpc, stack, sock, texts, badBinds, results>>

\* Mutant: waits again when select() returns 0.
WaitAgain == UNCHANGED <<mpc, stack, sock, results>>

\* select() returned 0.
TimedOut ==
    IF At("select")
    THEN GiveUp
    ELSE Goto("close") /\ UNCHANGED <<mpc, sock, results>>

TimeOut ==
    /\ Waiting /\ timeval[Top.timer] = 0
    /\ TimedOut
    /\ UNCHANGED <<timeval, texts, waited, badBinds>>

----------------------------------------------------------------------------
(* The kernel and the other side *)

Established(fd) ==
    /\ sock[fd].state = "connecting"
    /\ \E s \in {"up", "failed"} : sock' = [sock EXCEPT ![fd].state = s]
    /\ UNCHANGED <<mpc, stack, timeval, historyVars>>

Drained(fd) ==
    /\ sock[fd].state = "up" /\ ~sock[fd].room
    /\ sock' = [sock EXCEPT ![fd].room = TRUE]
    /\ UNCHANGED <<mpc, stack, timeval, historyVars>>

Reset(fd) ==
    /\ sock[fd].state = "up"
    /\ sock' = [sock EXCEPT ![fd].state = "failed"]
    /\ UNCHANGED <<mpc, stack, timeval, historyVars>>

----------------------------------------------------------------------------
Thread == OpenSocket \/ BindSendPort \/ Connect \/ ConnectEnds \/ Send \/ Shutdown
            \/ Tick \/ TimeOut
User == (\E p \in Peers : SendText(p)) \/ Quit \/ Sigint
Kernel == \E fd \in Fds : Established(fd) \/ Drained(fd) \/ Reset(fd)

Next == Thread \/ User \/ Kernel

Spec == Init /\ [][Next]_vars

\* System calls return, and time passes in those that wait.
FairSpec == Spec /\ WF_vars(Thread)

----------------------------------------------------------------------------
(* Properties *)

\* The variables have their types.
TypeOK ==
    /\ mpc \in {"knock", "gtk", "bye", "join", "ended"}
    /\ stack \in Seq([msg : {"KNOCK", "CHATTEXT", "BYE"}, to : Peers \cup {Tracker},
                      timer : Timers, fd : Fds \cup {NoFd}, left : 0..Parts, z : {0, -1},
                      at : {"socket", "bind", "connect", "select", "send", "wait", "close"}])
    /\ Len(stack) <= 2
    /\ timeval \in [Timers -> 0..Timeout]
    /\ sock \in [Fds -> [state : {"free", "open", "connecting", "up", "failed"},
                         to : Peers \cup {Tracker}, put : Nat, room : BOOLEAN]]

\* Every open descriptor belongs to a call in progress, except for one per socket
\* whose setup failed: every other way out of OpenTcpConnectSocket and
\* ConnectAndSendMsg closes it, and closes it once.
DescriptorsAccounted ==
    LET open == {fd \in Fds : sock[fd].state # "free"}
        held == {stack[k].fd : k \in 1..Len(stack)} \ {NoFd}
    IN /\ TypeOK
       /\ mpc # "ended" => held \subseteq open /\ Cardinality(open \ held) = badBinds

\* A call succeeds exactly when its connection took the whole message, no part of
\* it twice, however many sends that needed.
SuccessIsWholeMessage ==
    \A k \in 1..Len(results) : /\ results[k].put <= Parts
                               /\ results[k].z = 0 <=> results[k].put = Parts

\* KNOCK and BYE of main() together wait no longer than one timeout, and neither do
\* a text or the handler: what the KNOCK used up is missing to the BYE.
OneTimeoutEach == \A t \in Timers : waited[t] <= Timeout

\* The tracker never gets a BYE of the handler while a message of main() to it is
\* under way: the connection that SIGINT interrupts has the send port, so that the
\* BYE fails, and the tracker keeps the client.
ByeNeverBesideKnock ==
    \A k \in 1..Len(results) :
        results[k].z = 0 =>
            ~ /\ results[k].under.to = Tracker
              /\ results[k].under.state \in {"connecting", "up"}

\* A call returns, however the other side behaves: it refuses, accepts and stops
\* reading, or never answers.
CallsReturn == (stack # <<>>) ~> (stack = <<>>)
=============================================================================
