-------------------------- MODULE NetConnectProofs --------------------------
(***************************************************************************)
(* Proofs about NetConnect, for any descriptors, peers, length of messages *)
(* and timeout.                                                            *)
(***************************************************************************)
EXTENDS NetConnect, FiniteSetTheorems, WellFoundedInduction, TLAPS

\* What was waited on a timeval is what select() has taken off it.
Counted ==
    /\ timeval \in [Timers -> Nat]
    /\ waited \in [Timers -> Nat]
    /\ \A t \in Timers : waited[t] + timeval[t] = Timeout

LEMMA CountedInit == Init => Counted
BY NetConnectAssumption DEF Init, Counted

LEMMA CountedSendText ==
    ASSUME Counted, NEW p \in Peers, SendText(p) PROVE Counted'
<1>1. /\ timeval' = [timeval EXCEPT !["text"] = Timeout]
      /\ waited' = [waited EXCEPT !["text"] = 0]
  BY DEF SendText
<1>2. Timeout \in Nat
  BY NetConnectAssumption
<1>3. /\ timeval' \in [Timers -> Nat] /\ waited' \in [Timers -> Nat]
      /\ timeval'["text"] = Timeout /\ waited'["text"] = 0
  BY <1>1, <1>2 DEF Counted, Timers
<1>4. \A t \in Timers : waited'[t] + timeval'[t] = Timeout
  <2> TAKE t \in Timers
  <2>1. CASE t = "text"
    BY <1>2, <1>3, <2>1
  <2>2. CASE t # "text"
    BY <1>1, <2>2 DEF Counted
  <2> QED BY <2>1, <2>2
<1> QED BY <1>3, <1>4 DEF Counted

\* A tick moves one unit from the timeval of the call on top to what was waited on it.
LEMMA CountedTick ==
    ASSUME Counted, Tick PROVE Counted'
<1> DEFINE t == Top.timer
<1>1. /\ timeval[t] > 0
      /\ timeval' = [timeval EXCEPT ![t] = @ - 1]
      /\ waited' = [waited EXCEPT ![t] = @ + 1]
  BY DEF Tick, TimeLeft
<1> HIDE DEF t
<1>2. CASE t \in Timers
  <2>1. timeval[t] - 1 \in Nat /\ waited[t] + 1 \in Nat
    BY <1>1, <1>2 DEF Counted
  <2> QED BY <1>1, <1>2, <2>1 DEF Counted
<1>3. CASE t \notin Timers
  BY <1>1, <1>3 DEF Counted
<1> QED BY <1>2, <1>3

\* Nothing else touches a timeval.
LEMMA CountedElse ==
    ASSUME Counted, UNCHANGED <<timeval, waited>> PROVE Counted'
BY DEF Counted

LEMMA CountedStep == Counted /\ [Next]_vars => Counted'
<1> SUFFICES ASSUME Counted, [Next]_vars PROVE Counted'
  OBVIOUS
<1>1. CASE \E p \in Peers : SendText(p)
  BY <1>1, CountedSendText
<1>2. CASE Tick
  BY <1>2, CountedTick
<1>3. CASE Quit \/ Sigint
  BY <1>3, CountedElse DEF Quit, Sigint, historyVars
<1>4. CASE OpenSocket \/ BindSendPort \/ Connect \/ ConnectEnds \/ Send \/ Shutdown \/ TimeOut
  BY <1>4, CountedElse
     DEF OpenSocket, BindSendPort, Connect, ConnectEnds, Send, Shutdown, TimeOut, historyVars
<1>5. CASE Kernel
  BY <1>5, CountedElse DEF Kernel, Established, Drained, Reset, historyVars
<1>6. CASE UNCHANGED vars
  BY <1>6, CountedElse DEF vars, historyVars
<1> QED BY <1>1, <1>2, <1>3, <1>4, <1>5, <1>6 DEF Next, Thread, User

\* KNOCK and BYE of main() share one timeout, and a text and the handler of SIGINT
\* have one each (OpenTcpConnectSocket and NetSend_wait_until_complete, cnet.c).
THEOREM NoCallWaitsLonger == Spec => []OneTimeoutEach
<1>1. Counted => OneTimeoutEach
  <2> SUFFICES ASSUME Counted, NEW t \in Timers PROVE waited[t] <= Timeout
    BY DEF OneTimeoutEach
  <2> QED BY NetConnectAssumption DEF Counted
<1> QED BY <1>1, CountedInit, CountedStep, PTL DEF Spec

----------------------------------------------------------------------------
(* The calls, their descriptors and their results.  That a call has closed *)
(* its socket once, and what its result tells, rest on what each point of  *)
(* ConnectAndSendMsg knows of the descriptor and of the buffer; that a BYE *)
(* of the handler succeeds beside no message of main(), on what the call   *)
(* below it cannot do while it waits.                                      *)

Frames == [msg : {"KNOCK", "CHATTEXT", "BYE"}, to : Peers \cup {Tracker},
           timer : Timers, fd : Fds \cup {NoFd}, left : 0..Parts, z : {0, -1},
           at : {"socket", "bind", "connect", "select", "send", "wait", "close"}]

Sockets == [state : {"free", "open", "connecting", "up", "failed"},
            to : Peers \cup {Tracker}, put : Nat, room : BOOLEAN]

Results == [msg : {"KNOCK", "CHATTEXT", "BYE"}, z : {0, -1}, put : Nat, under : Sockets]

\* What a call in progress has done so far, over the sockets of s.
FrameOK(f, s) ==
    /\ f.timer = "sigint" => f.to = Tracker
    /\ f.fd = NoFd <=> f.at = "socket"
    /\ f.at \notin {"wait", "close"} => f.left = Parts
    /\ f.z = 0 <=> f.left = 0
    /\ f.left = 0 => f.at = "close"
    /\ f.fd # NoFd => s[f.fd].state # "free" /\ s[f.fd].put + f.left = Parts

FramesOK == \A k \in 1..Len(stack) : FrameOK(stack[k], sock)

\* The handler is on top, once, and no two calls share a descriptor.
StackOK ==
    /\ Len(stack) <= 2
    /\ Len(stack) = 2 => /\ stack[1].timer # "sigint" /\ stack[2].timer = "sigint"
                         /\ stack[1].fd = stack[2].fd => stack[1].fd = NoFd
    /\ mpc = "ended" => stack = <<>>

\* The open descriptors that no call holds.
Leaked == {fd \in Fds : /\ sock[fd].state # "free"
                       /\ \A k \in 1..Len(stack) : stack[k].fd # fd}

LeaksCounted ==
    /\ badBinds \in Nat
    /\ mpc # "ended" => Cardinality(Leaked) = badBinds

\* A connection to the tracker that is established or on its way.
ToTracker(s) == s.to = Tracker /\ s.state \in {"connecting", "up"}

\* Once the handler has its connection, the call below it has none to the tracker.
HandlerAlone ==
    Len(stack) = 2 /\ stack[2].at \in {"select", "send", "wait", "close"}
        => stack[1].fd = NoFd \/ ~ToTracker(sock[stack[1].fd])

\* What is known of a call that has ended.
ResultOK(r) ==
    /\ r.put <= Parts
    /\ r.z = 0 <=> r.put = Parts
    /\ r.z = 0 => ~ToTracker(r.under)

ResultsOK ==
    /\ results \in Seq(Results)
    /\ \A k \in 1..Len(results) : ResultOK(results[k])

CallsTyped ==
    /\ mpc \in {"knock", "gtk", "bye", "join", "ended"}
    /\ stack \in Seq(Frames)
    /\ sock \in [Fds -> Sockets]

CallsInv ==
    /\ CallsTyped /\ StackOK /\ FramesOK /\ LeaksCounted /\ HandlerAlone /\ ResultsOK

LEMMA NoFdIsNone == NoFd \notin Fds /\ Fds \subseteq Nat /\ Parts \in Nat \ {0}
BY NetConnectAssumption DEF NoFd

LEMMA CallsInit == Init => CallsInv
<1> SUFFICES ASSUME Init PROVE CallsInv
  OBVIOUS
<1> USE DEF Init
<1> DEFINE f == Frame("KNOCK", Tracker, "main")
<1>1. f \in Frames /\ FrameOK(f, sock) /\ f.timer = "main" /\ f.fd = NoFd
  BY NoFdIsNone DEF Frame, Frames, FrameOK, Timers
<1>2. stack = <<f>>
  OBVIOUS
<1> HIDE DEF f
<1>3. Len(stack) = 1 /\ stack[1] = f /\ stack \in Seq(Frames)
  BY <1>1, <1>2
<1>4. Free \in Sockets
  BY DEF Free, Sockets
<1>5. CallsTyped
  BY <1>3, <1>4 DEF CallsTyped
<1>6. StackOK /\ FramesOK /\ HandlerAlone
  BY <1>1, <1>3 DEF StackOK, FramesOK, HandlerAlone
<1>7. LeaksCounted
  <2>1. Leaked = {}
    BY DEF Leaked, Free
  <2> QED BY <2>1, FS_EmptySet DEF LeaksCounted
<1>8. ResultsOK
  BY DEF ResultsOK
<1> QED BY <1>5, <1>6, <1>7, <1>8 DEF CallsInv

\* The call on top, of one or two.
LEMMA TopShape ==
    ASSUME CallsInv, stack # <<>>
    PROVE  /\ Len(stack) \in {1, 2}
           /\ Top = stack[Len(stack)] /\ Top \in Frames /\ FrameOK(Top, sock)
           /\ InSigint <=> Top.timer = "sigint"
           /\ Len(stack) = 2 => Top.timer = "sigint" /\ stack[1] \in Frames
<1>1. stack \in Seq(Frames) /\ Len(stack) <= 2
  BY DEF CallsInv, CallsTyped, StackOK
<1>2. Len(stack) \in {1, 2}
  <2>1. Len(stack) \in Nat /\ Len(stack) # 0
    BY <1>1
  <2>2. \A n \in Nat : n # 0 /\ n <= 2 => n \in {1, 2}
    OBVIOUS
  <2> QED BY <1>1, <2>1, <2>2
<1>3. Top \in Frames /\ FrameOK(Top, sock)
  BY <1>1, <1>2 DEF Top, CallsInv, FramesOK
<1>4. InSigint <=> Top.timer = "sigint"
  BY DEF InSigint
<1>5. Len(stack) = 2 => Top.timer = "sigint" /\ stack[1] \in Frames
  BY <1>1 DEF Top, CallsInv, StackOK
<1> QED BY <1>2, <1>3, <1>4, <1>5 DEF Top

\* The call on top moves on: with the descriptor it has, or with one it opens.
LEMMA CallMoves ==
    ASSUME CallsInv, stack # <<>>, mpc # "ended",
           NEW f \in Frames, f.fd \in Fds, f.timer = Top.timer,
           f.fd = Top.fd \/ (Top.fd = NoFd /\ sock[f.fd].state = "free"),
           stack' = [stack EXCEPT ![Len(stack)] = f],
           sock' \in [Fds -> Sockets],
           \A fd \in Fds \ {f.fd} : sock'[fd] = sock[fd],
           FrameOK(f, sock'),
           \/ Top.at \in {"select", "send", "wait", "close"}
           \/ f.at \notin {"select", "send", "wait", "close"}
           \/ Len(stack) = 2 => stack[1].fd = NoFd \/ ~ToTracker(sock[stack[1].fd]),
           UNCHANGED <<mpc, badBinds, results>>
    PROVE  CallsInv'
<1> DEFINE n == Len(stack)
<1>1. /\ n \in {1, 2} /\ Top = stack[n] /\ Top \in Frames /\ FrameOK(Top, sock)
      /\ n = 2 => Top.timer = "sigint" /\ stack[1] \in Frames
  BY TopShape
<1>2. /\ stack' \in Seq(Frames) /\ Len(stack') = n
      /\ stack'[n] = f /\ (n = 2 => stack'[1] = stack[1])
  BY <1>1 DEF CallsInv, CallsTyped
<1> HIDE DEF n
<1>3. CallsTyped'
  BY <1>2 DEF CallsInv, CallsTyped
<1>4. ASSUME n = 2, stack[1].fd # NoFd
      PROVE  stack[1].fd \in Fds \ {f.fd} /\ sock'[stack[1].fd] = sock[stack[1].fd]
  <2>1. stack[1].fd \in Fds /\ FrameOK(stack[1], sock)
    BY <1>1, <1>4 DEF Frames, CallsInv, FramesOK, n
  <2>2. stack[1].fd # f.fd
    BY <1>1, <1>4, <2>1 DEF FrameOK, CallsInv, StackOK, n
  <2> QED BY <2>1, <2>2
<1>5. StackOK'
  BY <1>1, <1>2, <1>4, NoFdIsNone DEF CallsInv, StackOK, n
<1>6. FramesOK'
  <2> SUFFICES ASSUME NEW k \in 1..n PROVE FrameOK(stack'[k], sock')
    BY <1>2 DEF FramesOK
  <2>1. CASE k = n
    BY <1>2, <2>1
  <2>2. CASE k # n
    <3>1. n = 2 /\ k = 1 /\ FrameOK(stack[1], sock)
      BY <1>1, <2>2 DEF CallsInv, FramesOK, n
    <3> QED BY <1>2, <1>4, <3>1 DEF FrameOK
  <2> QED BY <2>1, <2>2
<1>7. HandlerAlone'
  BY <1>1, <1>2, <1>4 DEF CallsInv, HandlerAlone, ToTracker, n
<1>8. LeaksCounted'
  <2>1. Leaked' = Leaked
    <3>1. sock'[f.fd].state # "free"
      BY NoFdIsNone DEF FrameOK
    <3>2. ASSUME NEW fd \in Fds PROVE fd \in Leaked' <=> fd \in Leaked
      <4>1. CASE fd = f.fd
        <5>1. fd \notin Leaked'
          BY <1>1, <1>2, <4>1 DEF Leaked
        <5>2. fd \notin Leaked
          BY <1>1, <4>1 DEF Leaked, n
        <5> QED BY <5>1, <5>2
      <4>2. CASE fd # f.fd
        <5>1. sock'[fd] = sock[fd] /\ fd # Top.fd
          BY <4>2, NoFdIsNone
        <5>2. (\A k \in 1..Len(stack') : stack'[k].fd # fd)
                <=> (\A k \in 1..Len(stack) : stack[k].fd # fd)
          BY <1>1, <1>2, <4>2, <5>1 DEF n
        <5> QED BY <5>1, <5>2 DEF Leaked
      <4> QED BY <4>1, <4>2
    <3> QED BY <3>2 DEF Leaked
  <2> QED BY <2>1 DEF CallsInv, LeaksCounted
<1>9. ResultsOK'
  BY DEF CallsInv, ResultsOK
<1> QED BY <1>3, <1>5, <1>6, <1>7, <1>8, <1>9 DEF CallsInv

\* A call ends, with the whole message sent or with -1; whoever made it goes on,
\* or the process ends.
LEMMA CallReturns ==
    ASSUME CallsInv, stack # <<>>, mpc # "ended",
           NEW z \in {0, -1}, z = 0 <=> Top.left = 0,
           NEW socks \in [Fds -> Sockets], Return(z, socks)
    PROVE  /\ CallsTyped' /\ StackOK' /\ FramesOK' /\ HandlerAlone' /\ ResultsOK'
           /\ stack' = <<>>
           /\ mpc' # "ended" => Len(stack) = 1 /\ sock' = socks
<1>1. /\ Len(stack) \in {1, 2} /\ Top \in Frames /\ FrameOK(Top, sock)
      /\ Top = stack[Len(stack)]
      /\ InSigint <=> Top.timer = "sigint"
      /\ Len(stack) = 2 => Top.timer = "sigint" /\ stack[1] \in Frames
  BY TopShape
<1>2. sock \in [Fds -> Sockets] /\ stack \in Seq(Frames)
  BY DEF CallsInv, CallsTyped
<1>3. Free \in Sockets
  BY DEF Free, Sockets
<1>4. mpc' \in {"gtk", "join", "ended"} /\ (mpc' # "ended" => ~InSigint)
  BY <1>1 DEF Return, ReturnTo, Frames
<1>5. mpc' # "ended" => Len(stack) = 1 /\ sock' = socks
  BY <1>1, <1>4 DEF Return
<1>6. stack' = <<>>
  BY <1>2, <1>4, <1>5 DEF Return, Front
<1>7. CallsTyped' /\ StackOK' /\ FramesOK' /\ HandlerAlone'
  <2>1. sock' \in [Fds -> Sockets]
    <3>1. [fd \in Fds |-> Free] \in [Fds -> Sockets]
      BY <1>3
    <3> QED BY <3>1 DEF Return
  <2>2. stack' \in Seq(Frames) /\ Len(stack') = 0
    BY <1>6
  <2> QED BY <1>4, <1>6, <2>1, <2>2 DEF CallsTyped, StackOK, FramesOK, HandlerAlone
<1>8. ResultsOK'
  <2> DEFINE r == [msg |-> Top.msg, z |-> z,
                   put |-> IF Top.fd = NoFd THEN 0 ELSE sock[Top.fd].put,
                   under |-> IF Len(stack) = 2 /\ stack[1].fd # NoFd
                             THEN sock[stack[1].fd] ELSE Free]
  <2>1. Top.msg \in {"KNOCK", "CHATTEXT", "BYE"} /\ Top.left \in 0..Parts
    BY <1>1 DEF Frames
  <2>2. r.put \in Nat /\ r.put + Top.left = Parts
    <3>1. CASE Top.fd = NoFd
      <4>1. Top.left = Parts
        BY <1>1, <3>1 DEF FrameOK
      <4>2. r.put = 0
        BY <3>1
      <4> QED BY <4>1, <4>2, NoFdIsNone
    <3>2. CASE Top.fd # NoFd
      <4>1. Top.fd \in Fds
        BY <1>1, <3>2 DEF Frames
      <4>2. sock[Top.fd].put \in Nat
        BY <1>2, <4>1 DEF Sockets
      <4> QED BY <1>1, <3>2, <4>2 DEF FrameOK
    <3> QED BY <3>1, <3>2
  <2>3. r.under \in Sockets /\ (z = 0 => ~ToTracker(r.under))
    <3>1. CASE Len(stack) = 2 /\ stack[1].fd # NoFd
      <4>1. r.under = sock[stack[1].fd] /\ stack[1].fd \in Fds
        BY <1>1, <3>1 DEF Frames
      <4>2. z = 0 => stack[2].at = "close"
        BY <1>1, <3>1 DEF FrameOK
      <4> QED BY <1>2, <3>1, <4>1, <4>2 DEF CallsInv, HandlerAlone
    <3>2. CASE ~(Len(stack) = 2 /\ stack[1].fd # NoFd)
      <4>1. r.under = Free
        BY <3>2
      <4> QED BY <1>3, <4>1 DEF ToTracker, Free
    <3> QED BY <3>1, <3>2
  <2>4. results' = Append(results, r)
    BY DEF Return
  <2>5. r \in Results /\ r.z = z
    BY <2>1, <2>2, <2>3 DEF Results
  <2> HIDE DEF r
  <2>6. ResultOK(r)
    BY <2>1, <2>2, <2>3, <2>5, NoFdIsNone DEF ResultOK
  <2>7. results \in Seq(Results) /\ \A k \in 1..Len(results) : ResultOK(results[k])
    BY DEF CallsInv, ResultsOK
  <2>8. /\ results' \in Seq(Results) /\ Len(results') = Len(results) + 1
        /\ \A k \in 1..Len(results) : results'[k] = results[k]
        /\ results'[Len(results) + 1] = r
    BY <2>4, <2>5, <2>7
  <2>9. \A k \in 1..Len(results') : ResultOK(results'[k])
    BY <2>6, <2>7, <2>8
  <2> QED BY <2>8, <2>9 DEF ResultsOK, ResultOK, ToTracker
<1> QED BY <1>5, <1>6, <1>7, <1>8

LEMMA LeakedFinite == IsFiniteSet(Leaked)
<1>1. Leaked \in SUBSET Fds
  BY DEF Leaked
<1> QED BY <1>1, FS_Subset, NetConnectAssumption

LEMMA LeakedUnderOne ==
    ASSUME Len(stack) = 1
    PROVE  Leaked = {fd \in Fds : sock[fd].state # "free" /\ fd # Top.fd}
<1>1. \A fd \in Fds : (\A k \in 1..Len(stack) : stack[k].fd # fd) <=> fd # stack[1].fd
  OBVIOUS
<1> QED BY <1>1 DEF Leaked, Top

\* The ends that close the descriptor of the call, or that come before it has one.
LEMMA CallClosed ==
    ASSUME CallsInv, stack # <<>>, mpc # "ended",
           NEW z \in {0, -1}, z = 0 <=> Top.left = 0,
           \/ Top.fd \in Fds /\ Return(z, Closed)
           \/ Top.fd = NoFd /\ Return(z, sock),
           UNCHANGED badBinds
    PROVE  CallsInv'
<1> DEFINE socks == IF Top.fd \in Fds THEN Closed ELSE sock
<1>1. /\ Len(stack) \in {1, 2} /\ Top \in Frames /\ Top = stack[Len(stack)]
  BY TopShape
<1>2. sock \in [Fds -> Sockets] /\ Free \in Sockets
  BY DEF CallsInv, CallsTyped, Free, Sockets
<1>3. /\ socks \in [Fds -> Sockets] /\ Return(z, socks)
      /\ \A fd \in Fds : socks[fd] = IF fd = Top.fd THEN Free ELSE sock[fd]
  BY <1>2, NoFdIsNone DEF Closed
<1> HIDE DEF socks
<1>4. /\ CallsTyped' /\ StackOK' /\ FramesOK' /\ HandlerAlone' /\ ResultsOK'
      /\ stack' = <<>>
      /\ mpc' # "ended" => Len(stack) = 1 /\ sock' = socks
  BY <1>3, CallReturns
<1>5. ASSUME mpc' # "ended" PROVE Leaked' = Leaked
  <2>1. Leaked = {fd \in Fds : sock[fd].state # "free" /\ fd # Top.fd}
    BY <1>4, <1>5, LeakedUnderOne
  <2>2. Leaked' = {fd \in Fds : socks[fd].state # "free"}
    BY <1>4, <1>5 DEF Leaked
  <2> QED BY <1>3, <2>1, <2>2 DEF Free
<1> QED BY <1>4, <1>5 DEF CallsInv, LeaksCounted

\* The end that leaves the descriptor open.
LEMMA CallLeaks ==
    ASSUME CallsInv, stack # <<>>, mpc # "ended", At("bind"), BindFails
    PROVE  CallsInv'
<1>1. /\ Len(stack) \in {1, 2} /\ Top \in Frames /\ FrameOK(Top, sock)
      /\ Top = stack[Len(stack)]
  BY TopShape
<1>2. Top.fd \in Fds /\ Top.left = Parts /\ sock[Top.fd].state # "free"
  BY <1>1 DEF At, FrameOK, Frames
<1>3. sock \in [Fds -> Sockets] /\ -1 \in {0, -1} /\ (-1 = 0 <=> Top.left = 0)
  BY <1>2, NoFdIsNone DEF CallsInv, CallsTyped
<1>4. /\ CallsTyped' /\ StackOK' /\ FramesOK' /\ HandlerAlone' /\ ResultsOK'
      /\ stack' = <<>>
      /\ mpc' # "ended" => Len(stack) = 1 /\ sock' = sock
  BY <1>3, CallReturns DEF BindFails
<1>5. LeaksCounted'
  <2>1. Top.fd \notin Leaked
    BY <1>1 DEF Leaked
  <2>2. ASSUME mpc' # "ended" PROVE Leaked' = Leaked \cup {Top.fd}
    <3>1. Leaked = {fd \in Fds : sock[fd].state # "free" /\ fd # Top.fd}
      BY <1>4, <2>2, LeakedUnderOne
    <3>2. Leaked' = {fd \in Fds : sock[fd].state # "free"}
      BY <1>4, <2>2 DEF Leaked
    <3> QED BY <1>2, <3>1, <3>2
  <2>3. Cardinality(Leaked \cup {Top.fd}) = Cardinality(Leaked) + 1
    BY <2>1, LeakedFinite, FS_AddElement
  <2>4. badBinds' = badBinds + 1 /\ badBinds \in Nat /\ Cardinality(Leaked) = badBinds
    BY DEF CallsInv, LeaksCounted, BindFails
  <2>5. mpc' # "ended" => Cardinality(Leaked') = badBinds'
    BY <2>2, <2>3, <2>4
  <2> QED BY <2>4, <2>5 DEF LeaksCounted
<1> QED BY <1>4, <1>5 DEF CallsInv

\* A call begins, from the main loop, at the end, or in the handler.
LEMMA CallBegins ==
    ASSUME CallsInv, NEW m \in {"KNOCK", "CHATTEXT", "BYE"}, NEW to \in Peers \cup {Tracker},
           NEW timer \in Timers, timer = "sigint" => to = Tracker,
           stack' = Append(stack, Frame(m, to, timer)),
           stack = <<>> \/ (~InSigint /\ timer = "sigint"),
           mpc' \in {"knock", "gtk", "bye", "join"}, mpc # "ended",
           UNCHANGED <<sock, badBinds, results>>
    PROVE  CallsInv'
<1> DEFINE f == Frame(m, to, timer)
<1>1. /\ f \in Frames /\ FrameOK(f, sock) /\ f.fd = NoFd /\ f.timer = timer
      /\ f.at = "socket"
  BY NoFdIsNone DEF Frame, Frames, FrameOK
<1> HIDE DEF f
<1>2. stack \in Seq(Frames)
  BY DEF CallsInv, CallsTyped
<1>3. /\ stack' \in Seq(Frames) /\ Len(stack') = Len(stack) + 1
      /\ \A k \in 1..Len(stack) : stack'[k] = stack[k]
      /\ stack'[Len(stack) + 1] = f
  BY <1>1, <1>2 DEF f
<1>4. \/ Len(stack) = 0
      \/ Len(stack) = 1 /\ stack[1].timer # "sigint" /\ timer = "sigint"
  <2>1. CASE stack = <<>>
    BY <2>1
  <2>2. CASE stack # <<>>
    BY <2>2, TopShape DEF Top
  <2> QED BY <2>1, <2>2
<1>5. CallsTyped' /\ StackOK' /\ HandlerAlone'
  BY <1>1, <1>3, <1>4 DEF CallsInv, CallsTyped, StackOK, HandlerAlone
<1>6. FramesOK'
  BY <1>1, <1>2, <1>3 DEF CallsInv, FramesOK, FrameOK
<1>7. Leaked' = Leaked
  BY <1>1, <1>2, <1>3, NoFdIsNone DEF Leaked
<1>8. LeaksCounted' /\ ResultsOK'
  BY <1>7 DEF CallsInv, LeaksCounted, ResultsOK
<1> QED BY <1>5, <1>6, <1>8 DEF CallsInv

\* A set of numbers that is not empty has a least one.
LEMMA LeastOf ==
    ASSUME NEW S \in SUBSET Nat, S # {} PROVE Min(S) \in S
<1> DEFINE R == {ss \in Nat \X Nat : ss[1] < ss[2]}
<1>1. IsWellFoundedOn(R, Nat)
  BY NatLessThanWellFounded DEF OpToRel
<1>2. PICK x \in S : \A y \in S : ~ (<<y, x>> \in R)
  <2> HIDE DEF R
  <2> QED BY <1>1, WFMin, Zenon
<1>3. \A y \in S : x <= y
  <2> TAKE y \in S
  <2>1. x \in Nat /\ y \in Nat /\ ~ (<<y, x>> \in R)
    BY <1>2
  <2> QED BY <2>1
<1> QED BY <1>3 DEF Min

\* Moving the call on top to pc and no more.
LEMMA GotoShape ==
    ASSUME CallsInv, stack # <<>>, NEW pc, Goto(pc)
    PROVE  stack' = [stack EXCEPT ![Len(stack)] = [Top EXCEPT !.at = pc]]
BY TopShape DEF Goto, CallsInv, CallsTyped

LEMMA StepOpenSocket ==
    ASSUME CallsInv, OpenSocket PROVE CallsInv'
<1> DEFINE free == {fd \in Fds : sock[fd].state = "free"}
           fd == Min(free)
           f == [Top EXCEPT !.at = "bind", !.fd = fd]
<1>1. mpc # "ended" /\ stack # <<>> /\ Top.at = "socket" /\ UNCHANGED badBinds
  BY DEF OpenSocket, At
<1>2. /\ Top \in Frames /\ FrameOK(Top, sock) /\ Len(stack) \in {1, 2}
      /\ stack \in Seq(Frames) /\ sock \in [Fds -> Sockets]
  BY <1>1, TopShape DEF CallsInv, CallsTyped
<1>3. Top.fd = NoFd /\ Top.left = Parts /\ Top.z # 0
  BY <1>1, <1>2, NoFdIsNone DEF FrameOK
<1>4. CASE /\ free # {}
           /\ stack' = [stack EXCEPT ![Len(stack)].at = "bind", ![Len(stack)].fd = fd]
           /\ sock' = [sock EXCEPT ![fd] = Socket]
           /\ UNCHANGED <<mpc, results>>
  <2>1. fd \in free
    BY <1>4, LeastOf, NoFdIsNone
  <2>2. fd \in Fds /\ sock[fd].state = "free"
    BY <2>1
  <2>3. stack' = [stack EXCEPT ![Len(stack)] = f]
    BY <1>2, <1>4 DEF Top
  <2> HIDE DEF fd, free
  <2>4. f \in Frames /\ f.fd = fd /\ f.timer = Top.timer /\ f.at = "bind"
    BY <1>2, <2>2 DEF Frames
  <2>5. Socket \in Sockets
    BY DEF Socket, Free, Sockets
  <2>6. FrameOK(f, sock')
    BY <1>2, <1>3, <1>4, <2>2, NoFdIsNone DEF FrameOK, Socket, Free, Frames
  <2>7. sock' \in [Fds -> Sockets] /\ \A x \in Fds \ {fd} : sock'[x] = sock[x]
    BY <1>2, <1>4, <2>2, <2>5
  <2> HIDE DEF f
  <2> QED BY <1>1, <1>3, <1>4, <2>2, <2>3, <2>4, <2>6, <2>7, CallMoves
<1>5. CASE Return(-1, sock)
  BY <1>1, <1>3, <1>5, NoFdIsNone, CallClosed
<1> QED BY <1>4, <1>5 DEF OpenSocket

LEMMA StepBindSendPort ==
    ASSUME CallsInv, BindSendPort PROVE CallsInv'
<1> DEFINE f == [Top EXCEPT !.at = "connect"]
<1>1. mpc # "ended" /\ stack # <<>> /\ Top.at = "bind"
  BY DEF BindSendPort, At
<1>2. /\ Top \in Frames /\ FrameOK(Top, sock) /\ sock \in [Fds -> Sockets]
  BY <1>1, TopShape DEF CallsInv, CallsTyped
<1>3. CASE Goto("connect") /\ UNCHANGED <<mpc, sock, badBinds, results>>
  <2>1. /\ f \in Frames /\ f.fd = Top.fd /\ f.timer = Top.timer /\ f.at = "connect"
        /\ f.fd \in Fds /\ FrameOK(f, sock)
    BY <1>1, <1>2 DEF Frames, FrameOK
  <2>2. stack' = [stack EXCEPT ![Len(stack)] = f]
    BY <1>1, <1>3, GotoShape
  <2> HIDE DEF f
  <2> QED BY <1>1, <1>2, <1>3, <2>1, <2>2, CallMoves
<1>4. CASE BindFails
  BY <1>1, <1>4, CallLeaks DEF BindSendPort
<1> QED BY <1>3, <1>4 DEF BindSendPort

\* connect() and select() give up before anything is sent.
LEMMA StepGiveUp ==
    ASSUME CallsInv, At("connect") \/ At("select"), GiveUp, UNCHANGED badBinds
    PROVE  CallsInv'
<1>1. mpc # "ended" /\ stack # <<>> /\ Top.at \in {"connect", "select"}
  BY DEF At
<1>2. Top \in Frames /\ FrameOK(Top, sock)
  BY <1>1, TopShape
<1>3. Top.fd \in Fds /\ Top.left = Parts
  BY <1>1, <1>2 DEF Frames, FrameOK
<1> QED BY <1>1, <1>3, NoFdIsNone, CallClosed DEF GiveUp

LEMMA StepConnect ==
    ASSUME CallsInv, Connect PROVE CallsInv'
<1>1. mpc # "ended" /\ stack # <<>> /\ Top.at = "connect" /\ UNCHANGED badBinds
  BY DEF Connect, At
<1>2. /\ Top \in Frames /\ FrameOK(Top, sock) /\ Len(stack) \in {1, 2}
      /\ sock \in [Fds -> Sockets] /\ stack \in Seq(Frames)
      /\ Len(stack) = 2 => Top.timer = "sigint" /\ stack[1] \in Frames /\ Top = stack[2]
  BY <1>1, TopShape DEF CallsInv, CallsTyped
<1>3. ASSUME NEW st \in {"connecting", "up"}, ~TupleTaken,
             sock' = [sock EXCEPT ![Top.fd] = [@ EXCEPT !.state = st, !.to = Top.to]],
             Goto(IF st = "up" THEN "send" ELSE "select"),
             UNCHANGED <<mpc, results>>
      PROVE  CallsInv'
  <2> DEFINE pc == IF st = "up" THEN "send" ELSE "select"
             f == [Top EXCEPT !.at = pc]
  <2>1. pc \in {"send", "select"}
    OBVIOUS
  <2>2. stack' = [stack EXCEPT ![Len(stack)] = f]
    BY <1>1, <1>3, GotoShape
  <2> HIDE DEF pc
  <2>3. /\ f \in Frames /\ f.fd = Top.fd /\ f.timer = Top.timer /\ f.at = pc
        /\ f.fd \in Fds
    BY <1>1, <1>2, <2>1 DEF Frames, FrameOK
  <2>4. sock[Top.fd] \in Sockets /\ Top.to \in Peers \cup {Tracker}
    BY <1>2, <2>3 DEF Frames
  <2>5. sock' \in [Fds -> Sockets] /\ \A x \in Fds \ {f.fd} : sock'[x] = sock[x]
    BY <1>2, <1>3, <2>3, <2>4 DEF Sockets
  <2>6. sock'[Top.fd].state # "free" /\ sock'[Top.fd].put = sock[Top.fd].put
    BY <1>2, <1>3, <2>3, <2>4 DEF Sockets
  <2>7. FrameOK(f, sock')
    BY <1>1, <1>2, <2>1, <2>6 DEF FrameOK, Frames
  <2>8. ASSUME Len(stack) = 2, stack[1].fd # NoFd PROVE ~ToTracker(sock[stack[1].fd])
    <3>1. stack[1].fd \in Fds \ {Top.fd}
      BY <1>2, <2>3, <2>8 DEF Frames, CallsInv, StackOK
    <3>2. Top.to = Tracker
      BY <1>2, <2>8 DEF FrameOK
    <3> QED BY <1>3, <3>1, <3>2 DEF TupleTaken, ToTracker
  <2> HIDE DEF f
  <2> QED BY <1>1, <1>3, <2>2, <2>3, <2>5, <2>7, <2>8, CallMoves
<1>4. CASE GiveUp
  BY <1>1, <1>4, StepGiveUp DEF Connect
<1> QED BY <1>3, <1>4 DEF Connect

LEMMA StepConnectEnds ==
    ASSUME CallsInv, ConnectEnds PROVE CallsInv'
<1> DEFINE f == [Top EXCEPT !.at = "send"]
<1>1. mpc # "ended" /\ stack # <<>> /\ Top.at = "select" /\ UNCHANGED badBinds
  BY DEF ConnectEnds, At
<1>2. Top \in Frames /\ FrameOK(Top, sock) /\ sock \in [Fds -> Sockets]
  BY <1>1, TopShape DEF CallsInv, CallsTyped
<1>3. CASE Goto("send") /\ UNCHANGED <<mpc, sock, results>>
  <2>1. /\ f \in Frames /\ f.fd = Top.fd /\ f.timer = Top.timer
        /\ f.fd \in Fds /\ FrameOK(f, sock)
    BY <1>1, <1>2 DEF Frames, FrameOK
  <2>2. stack' = [stack EXCEPT ![Len(stack)] = f]
    BY <1>1, <1>3, GotoShape
  <2> HIDE DEF f
  <2> QED BY <1>1, <1>2, <1>3, <2>1, <2>2, CallMoves
<1>4. CASE GiveUp
  BY <1>1, <1>4, StepGiveUp DEF ConnectEnds
<1> QED BY <1>3, <1>4 DEF ConnectEnds

\* What is put into the connection is what leaves the buffer.
LEMMA StepSend ==
    ASSUME CallsInv, Send PROVE CallsInv'
<1>1. /\ mpc # "ended" /\ stack # <<>> /\ Top.at \in {"send", "wait"}
      /\ UNCHANGED <<mpc, badBinds, results>>
  BY DEF Send, At, historyVars
<1>2. /\ Top \in Frames /\ FrameOK(Top, sock) /\ Len(stack) \in {1, 2}
      /\ sock \in [Fds -> Sockets] /\ stack \in Seq(Frames)
  BY <1>1, TopShape DEF CallsInv, CallsTyped
<1>3. Top.fd \in Fds /\ Top.left \in 0..Parts /\ Top.left > 0 /\ Top.z = -1
  BY <1>1, <1>2, NoFdIsNone DEF Frames, FrameOK
<1>4. sock[Top.fd] \in Sockets /\ sock[Top.fd].put + Top.left = Parts
  BY <1>2, <1>3, NoFdIsNone DEF FrameOK
<1>5. CASE /\ stack' = [stack EXCEPT ![Len(stack)].at = "close", ![Len(stack)].z = -1]
           /\ UNCHANGED sock
  <2> DEFINE f == [Top EXCEPT !.at = "close", !.z = -1]
  <2>1. stack' = [stack EXCEPT ![Len(stack)] = f]
    BY <1>2, <1>5 DEF Top
  <2>2. /\ f \in Frames /\ f.fd = Top.fd /\ f.timer = Top.timer
        /\ FrameOK(f, sock)
    BY <1>1, <1>2, <1>3, NoFdIsNone DEF Frames, FrameOK
  <2> HIDE DEF f
  <2> QED BY <1>1, <1>2, <1>3, <1>5, <2>1, <2>2, CallMoves
<1>6. ASSUME NEW k \in 0..Top.left,
             stack' = [stack EXCEPT
                ![Len(stack)] = [@ EXCEPT !.left = LeftAfter(Top.left, k),
                                          !.at = IF k = Top.left THEN "close" ELSE "wait",
                                          !.z = IF k = Top.left THEN 0 ELSE -1]],
             sock' = [sock EXCEPT ![Top.fd].put = @ + k, ![Top.fd].room = (k = Top.left)]
      PROVE  CallsInv'
  <2> DEFINE all == k = Top.left
             f == [Top EXCEPT !.left = Top.left - k,
                              !.at = IF all THEN "close" ELSE "wait",
                              !.z = IF all THEN 0 ELSE -1]
  <2>1. stack' = [stack EXCEPT ![Len(stack)] = f]
    BY <1>2, <1>6 DEF Top, LeftAfter
  <2>2. k \in Nat /\ Top.left - k \in 0..Parts /\ (Top.left - k = 0 <=> all)
    BY <1>3, NoFdIsNone
  <2>3. /\ f \in Frames /\ f.fd = Top.fd /\ f.timer = Top.timer /\ f.left = Top.left - k
        /\ f.at = (IF all THEN "close" ELSE "wait") /\ f.z = (IF all THEN 0 ELSE -1)
        /\ f.to = Top.to
    BY <1>2, <1>3, <2>2 DEF Frames
  <2>4. all \in BOOLEAN /\ sock[Top.fd].put + k \in Nat
    BY <1>4, <2>2 DEF Sockets
  <2>5. [sock[Top.fd] EXCEPT !.put = @ + k, !.room = all] \in Sockets
    BY <1>4, <2>4 DEF Sockets
  <2>6. /\ sock' \in [Fds -> Sockets] /\ \A x \in Fds \ {Top.fd} : sock'[x] = sock[x]
        /\ sock'[Top.fd] = [sock[Top.fd] EXCEPT !.put = @ + k, !.room = all]
    BY <1>2, <1>3, <1>6, <2>5
  <2>7. sock'[Top.fd].put = sock[Top.fd].put + k /\ sock'[Top.fd].state = sock[Top.fd].state
    BY <1>4, <2>6 DEF Sockets
  <2> HIDE DEF f, all
  <2>8. f.fd # NoFd => sock'[f.fd].state # "free" /\ sock'[f.fd].put + f.left = Parts
    BY <1>2, <1>3, <1>4, <2>2, <2>3, <2>7, NoFdIsNone DEF FrameOK, Sockets
  <2>9. FrameOK(f, sock')
    BY <1>1, <1>2, <1>3, <2>2, <2>3, <2>8, NoFdIsNone DEF FrameOK
  <2> QED BY <1>1, <1>3, <2>1, <2>3, <2>6, <2>9, CallMoves
<1> QED BY <1>5, <1>6 DEF Send

LEMMA StepShutdown ==
    ASSUME CallsInv, Shutdown PROVE CallsInv'
<1>1. mpc # "ended" /\ stack # <<>> /\ Top.at = "close" /\ UNCHANGED badBinds
  BY DEF Shutdown, At
<1>2. Top \in Frames /\ FrameOK(Top, sock)
  BY <1>1, TopShape
<1>3. Top.fd \in Fds /\ Top.z \in {0, -1} /\ (Top.z = 0 <=> Top.left = 0)
  BY <1>1, <1>2 DEF Frames, FrameOK
<1> QED BY <1>1, <1>3, CallClosed DEF Shutdown

LEMMA StepTimeOut ==
    ASSUME CallsInv, TimeOut PROVE CallsInv'
<1> DEFINE f == [Top EXCEPT !.at = "close"]
<1>1. /\ mpc # "ended" /\ stack # <<>> /\ Top.at \in {"select", "wait"}
      /\ UNCHANGED badBinds
  BY DEF TimeOut, Waiting, At
<1>2. Top \in Frames /\ FrameOK(Top, sock) /\ sock \in [Fds -> Sockets]
  BY <1>1, TopShape DEF CallsInv, CallsTyped
<1>3. CASE At("select")
  BY <1>1, <1>3, StepGiveUp DEF TimeOut, TimedOut
<1>4. CASE ~At("select")
  <2>1. Top.at = "wait" /\ Goto("close") /\ UNCHANGED <<mpc, sock, results>>
    BY <1>1, <1>4 DEF TimeOut, TimedOut, At
  <2>2. /\ f \in Frames /\ f.fd = Top.fd /\ f.timer = Top.timer
        /\ f.fd \in Fds /\ FrameOK(f, sock)
    BY <1>2, <2>1 DEF Frames, FrameOK
  <2>3. stack' = [stack EXCEPT ![Len(stack)] = f]
    BY <1>1, <2>1, GotoShape
  <2> HIDE DEF f
  <2> QED BY <1>1, <1>2, <2>1, <2>2, <2>3, CallMoves
<1> QED BY <1>3, <1>4

LEMMA StepUser ==
    ASSUME CallsInv, User PROVE CallsInv'
<1>1. ASSUME NEW p \in Peers, SendText(p) PROVE CallsInv'
  <2>1. stack = <<>> /\ stack' = Append(stack, Frame("CHATTEXT", p, "text"))
    BY <1>1 DEF SendText
  <2> QED BY <1>1, <2>1, CallBegins DEF SendText, Timers
<1>2. CASE Quit
  <2>1. stack = <<>> /\ stack' = Append(stack, Frame("BYE", Tracker, "main"))
    BY <1>2 DEF Quit
  <2> QED BY <1>2, <2>1, CallBegins DEF Quit, Timers, historyVars
<1>3. CASE Sigint
  BY <1>3, CallBegins DEF Sigint, Timers, historyVars, CallsInv, CallsTyped
<1> QED BY <1>1, <1>2, <1>3 DEF User

\* The kernel does not open, close or redirect a connection.
LEMMA StepKernel ==
    ASSUME CallsInv, Kernel PROVE CallsInv'
<1>1. PICK fd \in Fds : Established(fd) \/ Drained(fd) \/ Reset(fd)
  BY DEF Kernel
<1>2. sock \in [Fds -> Sockets] /\ stack \in Seq(Frames)
  BY DEF CallsInv, CallsTyped
<1>3. UNCHANGED <<mpc, stack, badBinds, results>>
  BY <1>1 DEF Established, Drained, Reset, historyVars
<1>4. /\ sock' \in [Fds -> Sockets]
      /\ \A x \in Fds : /\ sock'[x].to = sock[x].to /\ sock'[x].put = sock[x].put
                        /\ sock'[x].state = "free" <=> sock[x].state = "free"
                        /\ sock'[x].state \in {"connecting", "up"}
                              => sock[x].state \in {"connecting", "up"}
  <2>1. sock[fd] \in Sockets
    BY <1>2
  <2>2. ASSUME NEW st \in {"up", "failed"}, sock' = [sock EXCEPT ![fd].state = st],
               sock[fd].state \in {"connecting", "up"}
        PROVE  <1>4!:
    BY <1>2, <2>1, <2>2 DEF Sockets
  <2>3. CASE Drained(fd)
    BY <1>2, <2>1, <2>3 DEF Drained, Sockets
  <2> QED BY <1>1, <2>2, <2>3 DEF Established, Reset
<1>5. CallsTyped' /\ StackOK' /\ ResultsOK'
  BY <1>3, <1>4 DEF CallsInv, CallsTyped, StackOK, ResultsOK
<1>6. ASSUME NEW k \in 1..Len(stack) PROVE stack[k].fd \in Fds \cup {NoFd}
  <2>1. stack[k] \in Frames
    BY <1>2
  <2> QED BY <2>1 DEF Frames
<1>7. FramesOK'
  BY <1>3, <1>4, <1>6 DEF CallsInv, FramesOK, FrameOK
<1>8. HandlerAlone'
  BY <1>3, <1>4, <1>6 DEF CallsInv, HandlerAlone, ToTracker
<1>9. LeaksCounted'
  <2>1. Leaked' = Leaked
    BY <1>3, <1>4 DEF Leaked
  <2> QED BY <1>3, <2>1 DEF CallsInv, LeaksCounted
<1> QED BY <1>5, <1>7, <1>8, <1>9 DEF CallsInv

LEMMA CallsStutter ==
    ASSUME CallsInv, UNCHANGED <<mpc, stack, sock, badBinds, results>> PROVE CallsInv'
BY DEF CallsInv, CallsTyped, StackOK, FramesOK, LeaksCounted, Leaked, HandlerAlone, ResultsOK

LEMMA CallsStep == CallsInv /\ [Next]_vars => CallsInv'
<1> SUFFICES ASSUME CallsInv, [Next]_vars PROVE CallsInv'
  OBVIOUS
<1>1. CASE OpenSocket \/ BindSendPort \/ Connect \/ ConnectEnds
  BY <1>1, StepOpenSocket, StepBindSendPort, StepConnect, StepConnectEnds
<1>2. CASE Send \/ Shutdown \/ TimeOut
  BY <1>2, StepSend, StepShutdown, StepTimeOut
<1>3. CASE Tick
  BY <1>3, CallsStutter DEF Tick
<1>4. CASE User \/ Kernel
  BY <1>4, StepUser, StepKernel
<1>5. CASE UNCHANGED vars
  BY <1>5, CallsStutter DEF vars, historyVars
<1> QED BY <1>1, <1>2, <1>3, <1>4, <1>5 DEF Next, Thread

----------------------------------------------------------------------------
(* What follows *)

LEMMA CallsAlways == Spec => [](CallsInv /\ Counted)
BY CallsInit, CallsStep, CountedInit, CountedStep, PTL DEF Spec

\* Whatever a call meets, a connection refused, a tuple taken, a timeout, a reset, a
\* signal in between, its descriptor is closed when it ends and no other is; only a
\* socket whose bind() failed stays open (OpenTcpConnectSocket, ShutdownSocket).
THEOREM DescriptorsAreAccounted == Spec => []DescriptorsAccounted
<1>1. CallsInv /\ Counted => TypeOK
  <2> SUFFICES ASSUME CallsInv, Counted PROVE TypeOK
    OBVIOUS
  <2>1. timeval \in [Timers -> 0..Timeout]
    <3>1. \A t \in Timers : timeval[t] \in 0..Timeout
      BY NetConnectAssumption DEF Counted
    <3> QED BY <3>1 DEF Counted
  <2> QED BY <2>1 DEF CallsInv, CallsTyped, StackOK, TypeOK, Frames, Sockets
<1>2. CallsInv /\ Counted => DescriptorsAccounted
  <2> SUFFICES ASSUME CallsInv, Counted PROVE DescriptorsAccounted
    OBVIOUS
  <2> DEFINE open == {fd \in Fds : sock[fd].state # "free"}
             held == {stack[k].fd : k \in 1..Len(stack)} \ {NoFd}
  <2>1. held \subseteq open
    <3> SUFFICES ASSUME NEW k \in 1..Len(stack), stack[k].fd # NoFd
                 PROVE  stack[k].fd \in open
      OBVIOUS
    <3>1. stack[k] \in Frames /\ FrameOK(stack[k], sock)
      BY DEF CallsInv, CallsTyped, FramesOK
    <3> QED BY <3>1 DEF Frames, FrameOK
  <2>2. Leaked = open \ held
    BY NoFdIsNone DEF Leaked
  <2> QED BY <1>1, <2>1, <2>2 DEF DescriptorsAccounted, CallsInv, LeaksCounted
<1> QED BY <1>2, CallsAlways, PTL

\* However many sends a message takes, the call succeeds exactly when all of its parts
\* went out, each once (NetSend, BufferShift, NetSend_wait_until_complete).
THEOREM SuccessMeansWhole == Spec => []SuccessIsWholeMessage
<1>1. CallsInv => SuccessIsWholeMessage
  BY DEF CallsInv, ResultsOK, ResultOK, SuccessIsWholeMessage
<1> QED BY <1>1, CallsAlways, PTL

\* A BYE of the SIGINT handler gets through only when the call it interrupted has no
\* connection to the tracker (sigint, tm.c; OpenTcpConnectSocket, cnet.c).
THEOREM HandlerBringsByeAlone == Spec => []ByeNeverBesideKnock
<1>1. CallsInv => ByeNeverBesideKnock
  BY DEF CallsInv, ResultsOK, ResultOK, ToTracker, ByeNeverBesideKnock
<1> QED BY <1>1, CallsAlways, PTL
=============================================================================
