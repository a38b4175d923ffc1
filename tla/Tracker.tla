------------------------------- MODULE Tracker -------------------------------
(***************************************************************************)
(* The tracker at the level of messages.  Its one thread takes KNOCK and   *)
(* BYE messages, each sent over a connection of its own, in whatever order *)
(* the network completes them, and answers with notices to the peers it    *)
(* knows.  Sockets and the event loop are the subject of TrackerLoop,      *)
(* which implements this module.                                           *)
(***************************************************************************)
EXTENDS TrackerHandler, FiniteSets

CONSTANTS MaxMsgs,      \* bound: messages clients send
          MaxRestarts   \* bound: times the tracker process is started again

VARIABLES
    inbox,     \* messages sent to the tracker and not yet handled, with multiplicity
    queued,    \* per destination, notices waiting in the write buffer of its socket
    net,       \* notices written to a connection, with multiplicity
    sends,     \* how many messages clients have sent
    restarts   \* how many times the tracker was restarted

vars == <<handlerVars, inbox, queued, net, sends, restarts>>

EmptyInbox == [m \in ClientMsg |-> 0]
NothingQueued == [d \in ToAddrs |-> <<>>]

Init ==
    /\ HandlerInit
    /\ inbox = EmptyInbox
    /\ queued = NothingQueued
    /\ net = [n \in Notice |-> 0]
    /\ sends = 0
    /\ restarts = 0

\* A client connects to write one message.  Any order of KNOCK and BYE can
\* come from one address: clients are killed without a BYE and started again,
\* and a Ctrl-C before the KNOCK sends a BYE alone.
ClientSends(m) ==
    /\ pc # "aborted"
    /\ sends < MaxMsgs
    /\ sends' = sends + 1
    /\ inbox' = [inbox EXCEPT ![m] = @ + 1]
    /\ UNCHANGED <<handlerVars, queued, net, restarts>>

\* The client dies before the message is complete.
ClientFails(m) ==
    /\ inbox[m] > 0
    /\ inbox' = [inbox EXCEPT ![m] = @ - 1]
    /\ UNCHANGED <<handlerVars, queued, net, sends, restarts>>

Receive(m) ==
    /\ inbox[m] > 0
    /\ inbox' = [inbox EXCEPT ![m] = @ - 1]
    /\ HandleMsg(m)
    /\ UNCHANGED <<queued, net, sends, restarts>>

\* send_msg_to_hostaddr.  A new connection takes all of the notice ...
SendWhole ==
    /\ TrySend
    /\ queued[Due.to] = <<>>
    /\ net' = [net EXCEPT ![Due] = @ + 1]
    /\ UNCHANGED <<queued, inbox, sends, restarts>>

\* ... or none of it: no socket, connection refused, send error ...
SendFails ==
    /\ TrySend
    /\ queued[Due.to] = <<>>
    /\ UNCHANGED <<queued, net, inbox, sends, restarts>>

\* ... or part of it, and the rest waits; or there is a write buffer already.
SendQueues ==
    /\ TrySend
    /\ queued' = [queued EXCEPT ![Due.to] = Append(@, Due)]
    /\ UNCHANGED <<net, inbox, sends, restarts>>

\* The rounds and exits of the loops of handle_msg that send nothing
HandlerStep ==
    /\ SkipInactive \/ AnnounceDone \/ IntroduceDone \/ FarewellDone
    /\ UNCHANGED <<inbox, queued, net, sends, restarts>>

\* The first k notices that wait for destination d are written.
Written(d, k) ==
    net' = [n \in Notice |-> net[n] + Cardinality({j \in 1..k : queued[d][j] = n})]

\* The socket of destination d takes some of the notices that wait for it.
Flush(d) ==
    /\ pc = "idle"
    /\ \E k \in 1..Len(queued[d]) :
          /\ Written(d, k)
          /\ queued' = [queued EXCEPT ![d] = SubSeq(@, k + 1, Len(@))]
    /\ UNCHANGED <<handlerVars, inbox, sends, restarts>>

\* A send error on the socket of destination d, after some of the notices,
\* clears its write buffer.
Discard(d) ==
    /\ pc = "idle"
    /\ \E k \in 0..Len(queued[d]) - 1 : Written(d, k)
    /\ queued' = [queued EXCEPT ![d] = <<>>]
    /\ UNCHANGED <<handlerVars, inbox, sends, restarts>>

\* The process ends, by abort() or from outside, and is started again.
Restart ==
    /\ restarts < MaxRestarts
    /\ restarts' = restarts + 1
    /\ HandlerReset
    /\ inbox' = EmptyInbox
    /\ queued' = NothingQueued
    /\ UNCHANGED <<net, sends>>

Thread ==
    \/ \E m \in ClientMsg : Receive(m)
    \/ SendWhole \/ SendFails \/ SendQueues
    \/ HandlerStep
    \/ \E d \in ToAddrs : Flush(d) \/ Discard(d)

Next ==
    \/ \E m \in ClientMsg : ClientSends(m) \/ ClientFails(m)
    \/ Thread
    \/ Restart

Spec == Init /\ [][Next]_vars

\* The thread runs on: select() returns when a connection is readable, and a
\* blocking connect() ends with a connection or an error.
FairSpec == Spec /\ WF_vars(Thread)

----------------------------------------------------------------------------
(* Properties *)

TypeOK ==
    /\ HandlerTypeOK
    /\ inbox \in [ClientMsg -> Nat]
    /\ queued \in [ToAddrs -> Seq(Notice)]
    /\ net \in [Notice -> Nat]
    /\ sends \in Nat
    /\ restarts \in Nat

\* Handles stay valid as long as the process lives (callers keep them): no
\* slot goes away or is given to another client.
SlotsArePermanent ==
    [][restarts' = restarts =>
         /\ Len(peers) <= Len(peers')
         /\ \A k \in 1..Len(peers) : /\ peers'[k].hpeer = peers[k].hpeer
                                     /\ peers'[k].fromaddr = peers[k].fromaddr]_vars

\* When handle_msg returns it has tried to send exactly the notices the
\* message calls for: nobody was skipped, no inactive peer and no leaver was
\* written to.  The loops of handle_msg and their order with create_peer and
\* destroy_peer.
TellsExactly ==
    [][cur # NoMsg /\ cur' = NoMsg /\ restarts' = restarts =>
         told = IF cur \in Knock THEN KnockNotices(cur) ELSE ByeNotices(cur)]_vars

\* The tracker takes the messages that reach it until none is left, unless it aborts.
EveryMessageTaken == (inbox # EmptyInbox) ~> (inbox = EmptyInbox \/ pc = "aborted")

----------------------------------------------------------------------------
(* The tracker implements the directory.  A KNOCK takes effect when        *)
(* create_peer runs, at the end of its handler, a BYE when destroy_peer    *)
(* does, at the start.                                                     *)

Online == [a \in {peers[k].fromaddr : k \in Active(peers)} |->
              peers[Min(Slots(peers, a))].toaddr]

Dir == INSTANCE Directory
    WITH mail <- inbox, taking <- cur, online <- Online, resets <- restarts

\* Whoever's last handled message was a KNOCK is listed, at the address it
\* gave, and nobody else: across re-KNOCKs without a BYE, repeated BYEs and
\* changed listen ports.
ImplementsDirectory == Dir!Spec
=============================================================================
