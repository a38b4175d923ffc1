------------------------------- MODULE Discovery -------------------------------
(***************************************************************************)
(* The generation of TinyMsg before the tracker (backup/oldtm3.c): nodes    *)
(* look for each other with a UDP broadcast, "whosthere", that is to be     *)
(* answered over TCP with "hello"; and the program it was tried with        *)
(* (backup/sender.c).  A node has a thread for datagrams, a thread for      *)
(* connections, and both want the TCP port of the node.  A message is       *)
(* received as a whole; Framing and Listener have how bytes become          *)
(* messages.                                                                *)
(***************************************************************************)
EXTENDS Naturals, SequencesExt

CONSTANTS Machines,
          NameOf,      \* the alias and host name of each program
          MaxStarts,   \* bound: nodes started, in all
          MaxSenders   \* bound: runs of sender.c, in all

\* A node has GBindPort (8002) for UDP and TCP, sender.c 8003.
Addrs == [host : Machines, prog : {"node", "sender"}]
Addr(m, p) == [host |-> m, prog |-> p]
Nowhere == [host |-> "none", prog |-> "none"]

ASSUME DiscoveryAssumption ==
    DOMAIN NameOf = Addrs /\ MaxStarts \in Nat /\ MaxSenders \in Nat

VARIABLES
    main,   \* the main thread: "off", "start", "loop"
    udp,    \* the UDP thread: "off", "start", "select", "connecting", "sending", "ended"
    tcp,    \* the TCP thread: "off", "start", "select", "ended"
    port,   \* who has TCP port GBindPort: "free", "listener", "reply", "timewait"
    asks,   \* the datagrams that wait at LISTEN_PORT, by their sender
    asker,  \* whom the UDP thread answers
    links,  \* the connections to GBindPort
    nodes,  \* GPeernodes
    sender, \* sender.c: "off", "asked", "connected"
    said,   \* the hellos it has sent
    starts, senders

threadVars == <<main, udp, tcp, port, asks, asker>>
senderVars == <<sender, said, senders>>
vars == <<threadVars, links, nodes, senderVars, starts>>

Everywhere(x) == [m \in Machines |-> x]

Init ==
    /\ main = Everywhere("off") /\ udp = Everywhere("off") /\ tcp = Everywhere("off")
    /\ port = Everywhere("free") /\ asks = Everywhere({}) /\ asker = Everywhere(Nowhere)
    /\ links = Everywhere(<<>>) /\ nodes = Everywhere(<<>>)
    /\ sender = Everywhere("off") /\ said = Everywhere(0)
    /\ starts = 0 /\ senders = 0

\* A message, with the length in front of it that the TCP thread expects, or without.
Ping(text, framed) == [text |-> text, framed |-> framed]

\* Mutant: NetPackLen.
HelloWithLength == Ping("hello", TRUE)

\* NetPack leaves the length out.
Hello == Ping("hello", FALSE)

\* A connection, and of a ctx what it has come to: "stuck" in a message of 256 bytes.
Link(from, unread) ==
    [from |-> from, unread |-> unread, closed |-> FALSE, accepted |-> FALSE, stuck |-> FALSE]

Linked(m, a) == {k \in DOMAIN links[m] : links[m][k].from = a /\ ~links[m][k].closed}

\* What a closes, or leaves open when it ends, is closed at the other side.
ClosedBy(ls, a) == [k \in DOMAIN ls |-> IF ls[k].from = a THEN [ls[k] EXCEPT !.closed = TRUE] ELSE ls[k]]

\* What a sends on its open connection to m.
Sent(a, m, ping) ==
    [links EXCEPT ![m] = [k \in DOMAIN @ |->
        IF k \in Linked(m, a) THEN [@[k] EXCEPT !.unread = Append(@, ping)] ELSE @[k]]]

\* Everyone who has the port open may get a datagram, or not.
Broadcast(a) ==
    \E R \in SUBSET {m \in Machines : udp[m] \notin {"off", "start", "ended"}} :
       asks' = [m \in Machines |-> IF m \in R THEN asks[m] \cup {a} ELSE asks[m]]

----------------------------------------------------------------------------
(* The node: its main thread *)

Start(m) ==
    /\ main[m] = "off" /\ starts < MaxStarts
    /\ starts' = starts + 1
    /\ main' = [main EXCEPT ![m] = "start"]
    /\ udp' = [udp EXCEPT ![m] = "start"] /\ tcp' = [tcp EXCEPT ![m] = "start"]
    /\ UNCHANGED <<port, asks, asker, links, nodes, senderVars>>

\* broadcast_whosthere does not wait for the threads.
BroadcastWhosthere(m) ==
    /\ main[m] = "start" /\ main' = [main EXCEPT ![m] = "loop"]
    /\ Broadcast(Addr(m, "node"))
    /\ UNCHANGED <<udp, tcp, port, asker, links, nodes, senderVars, starts>>

\* The user quits, or the process is killed: no bye either way.
Quit(m) ==
    /\ main[m] # "off"
    /\ main' = [main EXCEPT ![m] = "off"]
    /\ udp' = [udp EXCEPT ![m] = "off"] /\ tcp' = [tcp EXCEPT ![m] = "off"]
    /\ \E p \in {"free", "timewait"} : port' = [port EXCEPT ![m] = p]
    /\ asks' = [asks EXCEPT ![m] = {}] /\ asker' = [asker EXCEPT ![m] = Nowhere]
    /\ links' = [d \in Machines |-> IF d = m THEN <<>> ELSE ClosedBy(links[d], Addr(m, "node"))]
    /\ nodes' = [nodes EXCEPT ![m] = <<>>]
    /\ UNCHANGED <<senderVars, starts>>

\* A connection that the node closed first keeps the port for a while.
PortComesFree(m) ==
    /\ port[m] = "timewait" /\ port' = [port EXCEPT ![m] = "free"]
    /\ UNCHANGED <<main, udp, tcp, asks, asker, links, nodes, senderVars, starts>>

----------------------------------------------------------------------------
(* The UDP thread *)

nodeTcp == <<main, tcp, links, nodes, senderVars, starts>>

OpenUdp(m) ==
    /\ udp[m] = "start"
    /\ \E at \in {"select", "ended"} : udp' = [udp EXCEPT ![m] = at]
    /\ UNCHANGED <<port, asks, asker, nodeTcp>>

\* Mutant: the socket for the answer is not bound to GBindPort.
PortForReplyAny(m) == TRUE

\* open_tcp_socket binds GBindPort again.
PortForReply(m) == port[m] = "free"

Takes(m, a) == udp[m] = "select" /\ a \in asks[m] /\ asks' = [asks EXCEPT ![m] = @ \ {a}]

\* Its own broadcast is ignored; otherwise connect_and_send_message returns as the
\* socket could not be bound.
TakeInVain(m, a) ==
    /\ Takes(m, a)
    /\ NameOf[a] = NameOf[Addr(m, "node")] \/ ~PortForReply(m)
    /\ UNCHANGED <<udp, port, asker, nodeTcp>>

TakeWhosthere(m, a) ==
    /\ Takes(m, a)
    /\ NameOf[a] # NameOf[Addr(m, "node")] /\ PortForReply(m)
    /\ port' = [port EXCEPT ![m] = "reply"]
    /\ udp' = [udp EXCEPT ![m] = "connecting"] /\ asker' = [asker EXCEPT ![m] = a]
    /\ UNCHANGED nodeTcp

\* The thread selects again.  The socket of the answer is still open.
Returns(m) == udp' = [udp EXCEPT ![m] = "select"] /\ asker' = [asker EXCEPT ![m] = Nowhere]

\* The connection goes to the port of the asker the datagram came from.
Listens(a) == a.prog = "node" /\ tcp[a.host] = "select"

ConnectsTo(a, m, unread) == links' = [links EXCEPT ![a.host] = Append(@, Link(Addr(m, "node"), unread))]

ConnectFails(m) ==
    /\ udp[m] = "connecting" /\ Returns(m)
    /\ UNCHANGED <<port, asks, nodeTcp>>

\* All of the hello is sent at once.
ConnectAndSend(m) ==
    /\ udp[m] = "connecting" /\ Listens(asker[m])
    /\ ConnectsTo(asker[m], m, <<Hello>>) /\ Returns(m)
    /\ UNCHANGED <<main, tcp, port, asks, nodes, senderVars, starts>>

ConnectAndSendPart(m) ==
    /\ udp[m] = "connecting" /\ Listens(asker[m])
    /\ ConnectsTo(asker[m], m, <<>>) /\ udp' = [udp EXCEPT ![m] = "sending"]
    /\ UNCHANGED <<main, tcp, port, asks, asker, nodes, senderVars, starts>>

\* Only now the socket is closed.
SendRest(m) ==
    LET me == Addr(m, "node")
        to == asker[m].host
    IN /\ udp[m] = "sending" /\ Linked(to, me) # {} /\ Returns(m)
       /\ links' = [links EXCEPT ![to] = ClosedBy(Sent(me, to, Hello)[to], me)]
       /\ port' = [port EXCEPT ![m] = "timewait"]
       /\ UNCHANGED <<main, tcp, asks, nodes, senderVars, starts>>

\* The select() times out, or the send fails.
SendRestFails(m) ==
    /\ udp[m] = "sending" /\ Returns(m)
    /\ UNCHANGED <<port, asks, nodeTcp>>

UdpThread(m) ==
    \/ OpenUdp(m) \/ \E a \in Addrs : TakeInVain(m, a) \/ TakeWhosthere(m, a)
    \/ ConnectFails(m) \/ ConnectAndSend(m) \/ ConnectAndSendPart(m)
    \/ SendRest(m) \/ SendRestFails(m)

----------------------------------------------------------------------------
(* The TCP thread *)

OpenTcp(m) ==
    /\ tcp[m] = "start"
    /\ IF port[m] = "free"
       THEN tcp' = [tcp EXCEPT ![m] = "select"] /\ port' = [port EXCEPT ![m] = "listener"]
       ELSE tcp' = [tcp EXCEPT ![m] = "ended"] /\ UNCHANGED port
    /\ UNCHANGED <<main, udp, asks, asker, links, nodes, senderVars, starts>>

Accept(m, k) ==
    /\ tcp[m] = "select" /\ ~links[m][k].accepted
    /\ links' = [links EXCEPT ![m][k].accepted = TRUE]
    /\ UNCHANGED <<threadVars, nodes, senderVars, starts>>

\* add_or_replace_peernode: what would replace is commented out.
AddPeernode(ns, a) == Append(ns, a)

RemovePeernode(ns, a) == RemoveFirst(ns, a)

ProcessPeerMsg(ns, a, ping) ==
    IF ping.text = "hello" THEN AddPeernode(ns, a) ELSE RemovePeernode(ns, a)

\* The first two bytes of a message that has no length are taken for one.
Stuck(l) == l.stuck \/ \E k \in DOMAIN l.unread : ~l.unread[k].framed

\* The messages that the read makes whole
Whole(l) == IF l.stuck THEN <<>>
            ELSE SubSeq(l.unread, 1, Min({Len(l.unread)} \cup
                     {k - 1 : k \in {j \in DOMAIN l.unread : ~l.unread[j].framed}}))

\* The ctx is removed at the end of the connection.
AfterRead(l) == IF l.closed THEN <<>> ELSE <<[l EXCEPT !.unread = <<>>, !.stuck = Stuck(l)]>>

Read(m, k) ==
    LET l == links[m][k]
        ls == links[m]
        pings == Whole(l)
    IN /\ tcp[m] = "select" /\ l.accepted
       /\ l.unread # <<>> \/ l.closed
       /\ nodes' = [nodes EXCEPT ![m] = FoldLeft(LAMBDA ns, p : ProcessPeerMsg(ns, l.from, p), @, pings)]
       /\ links' = [links EXCEPT ![m] = SubSeq(ls, 1, k - 1) \o AfterRead(l) \o SubSeq(ls, k + 1, Len(ls))]
       /\ UNCHANGED <<threadVars, senderVars, starts>>

TcpThread(m) == OpenTcp(m) \/ \E k \in DOMAIN links[m] : Accept(m, k) \/ Read(m, k)

----------------------------------------------------------------------------
(* sender.c, which knows that a length belongs in front *)

Hellos == 3

nodeVars == <<main, udp, tcp, port, asker, nodes, starts>>

SenderAsks(m) ==
    /\ sender[m] = "off" /\ senders < MaxSenders /\ senders' = senders + 1
    /\ sender' = [sender EXCEPT ![m] = "asked"] /\ said' = [said EXCEPT ![m] = 0]
    /\ Broadcast(Addr(m, "sender"))
    /\ UNCHANGED <<nodeVars, links>>

\* The node of its own machine
SenderConnects(m) ==
    /\ sender[m] = "asked" /\ tcp[m] = "select"
    /\ sender' = [sender EXCEPT ![m] = "connected"]
    /\ links' = [links EXCEPT ![m] = Append(@, Link(Addr(m, "sender"), <<>>))]
    /\ UNCHANGED <<nodeVars, asks, said, senders>>

SendHello(m) ==
    /\ sender[m] = "connected" /\ said[m] < Hellos /\ Linked(m, Addr(m, "sender")) # {}
    /\ said' = [said EXCEPT ![m] = @ + 1]
    /\ links' = Sent(Addr(m, "sender"), m, Ping("hello", TRUE))
    /\ UNCHANGED <<nodeVars, asks, sender, senders>>

\* Its last act; the connection ends with the process.
SendBye(m) ==
    LET me == Addr(m, "sender")
    IN /\ sender[m] = "connected" /\ said[m] = Hellos /\ Linked(m, me) # {}
       /\ sender' = [sender EXCEPT ![m] = "off"]
       /\ links' = [links EXCEPT ![m] = ClosedBy(Sent(me, m, Ping("bye", TRUE))[m], me)]
       /\ UNCHANGED <<nodeVars, asks, said, senders>>

\* It exits on every error, is interrupted, or aborts as a send() fails.
SenderEnds(m) ==
    /\ sender[m] # "off" /\ sender' = [sender EXCEPT ![m] = "off"]
    /\ links' = [links EXCEPT ![m] = ClosedBy(@, Addr(m, "sender"))]
    /\ UNCHANGED <<nodeVars, asks, said, senders>>

Next ==
    \E m \in Machines :
       \/ Start(m) \/ BroadcastWhosthere(m) \/ Quit(m) \/ PortComesFree(m)
       \/ UdpThread(m) \/ TcpThread(m)
       \/ SenderAsks(m) \/ SenderConnects(m) \/ SendHello(m) \/ SendBye(m) \/ SenderEnds(m)

Spec == Init /\ [][Next]_vars

----------------------------------------------------------------------------
(* Properties *)

\* Whatever is broadcast and answered, no node comes to know another node: the only
\* peers in GPeernodes are runs of sender.c on its own machine.
NodesStayStrangers ==
    \A m \in Machines : ToSet(nodes[m]) \subseteq {Addr(m, "sender")}

\* A node whose TCP thread listens answers nobody: its answer would need the port that
\* thread has.  Only before that thread, or instead of it, an answer goes out.
ListenerNeverAnswers ==
    [][\A m, d \in Machines :
          tcp[m] = "select" /\ (Linked(d, Addr(m, "node")))' # {} => Linked(d, Addr(m, "node")) # {}]_vars
=============================================================================
