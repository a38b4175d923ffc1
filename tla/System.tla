-------------------------------- MODULE System --------------------------------
(***************************************************************************)
(* The tracker and its clients together: what the peer tables of clients   *)
(* have to do with who is online.  handle_msg of the tracker is that of    *)
(* TrackerHandler, the peer tables that of PeerTable.  A client is what of *)
(* Client matters to the tracker: its listener, which may come after the   *)
(* KNOCK, its KNOCK, its BYE.  A notice has a connection of its own, which *)
(* takes it whole, or is refused while nobody listens; what a connection   *)
(* takes in parts is the subject of TrackerLoop.                           *)
(***************************************************************************)
EXTENDS TrackerHandler, SequencesExt

CONSTANTS ListenPort,  \* the port of Ports that clients listen on
          MaxStarts,   \* bound: processes started, at all addresses
          MaxKills,    \* bound: clients that are killed
          Overtaking   \* whether messages can overtake each other

ASSUME SystemAssumption ==
    /\ ListenPort \in Ports /\ MaxStarts \in Nat /\ MaxKills \in Nat /\ Overtaking \in BOOLEAN
    /\ \A a, b \in FromAddrs : a.ip = b.ip => a = b

VARIABLES
    inbox,      \* the messages to the tracker, as their connections were made
    phase,      \* of a client: "off", "up", "on" after its KNOCK, "aborted"
    listening,  \* the clients whose listener thread listens
    table, handle,  \* the peer table of each client, and its GNextPeerHandle
    idle, rows, \* its callbacks that wait in the queue of g_idle_add; the handles in its listbox
    arriving,   \* the notices on the connections a client has not taken yet
    starts, kills,
    \* History: the clients that listened when they sent their KNOCK, those that left
    \* without a BYE, whether a BYE came without a KNOCK, whether a message overtook another.
    prompt, silent, stray, overtook

tableVars == <<table, handle, idle, rows>>
clientVars == <<phase, listening, tableVars, arriving>>
historyVars == <<starts, kills, prompt, silent, stray, overtook>>
vars == <<handlerVars, inbox, clientVars, historyVars>>

Init ==
    /\ HandlerInit
    /\ inbox = <<>> /\ listening = {}
    /\ phase = [c \in FromAddrs |-> "off"]
    /\ table = [c \in FromAddrs |-> <<>>] /\ handle = [c \in FromAddrs |-> 1]
    /\ idle = [c \in FromAddrs |-> <<>>] /\ rows = [c \in FromAddrs |-> {}]
    /\ arriving = [c \in FromAddrs |-> <<>>]
    /\ starts = [c \in FromAddrs |-> 0] /\ kills = 0
    /\ prompt = {} /\ silent = {} /\ stray = FALSE /\ overtook = FALSE

Running(c) == phase[c] \in {"up", "on"}

\* Where a queue may be taken from: at its head, or anywhere.
Takeable(q) == {k \in DOMAIN q : k = 1 \/ Overtaking}

Overtakes(k) == overtook' = (overtook \/ k # 1)

----------------------------------------------------------------------------
(* Clients *)

Start(c) ==
    /\ ~Running(c) /\ FoldFunction(+, 0, starts) < MaxStarts
    /\ phase' = [phase EXCEPT ![c] = "up"] /\ starts' = [starts EXCEPT ![c] = @ + 1]
    /\ prompt' = prompt \ {c}
    /\ UNCHANGED <<handlerVars, inbox, listening, tableVars, arriving, kills, silent, stray, overtook>>

\* The listener thread has bound its port and listens.
Listen(c) ==
    /\ Running(c) /\ listening' = listening \cup {c} /\ listening' # listening
    /\ UNCHANGED <<handlerVars, inbox, phase, tableVars, arriving, historyVars>>

\* main() does not wait for the listener.
SendKnock(c) ==
    /\ phase[c] = "up" /\ phase' = [phase EXCEPT ![c] = "on"]
    /\ inbox' = Append(inbox, [msgno |-> "KNOCK", from |-> c, listenport |-> ListenPort])
    /\ prompt' = IF c \in listening THEN prompt \cup {c} ELSE prompt
    /\ UNCHANGED <<handlerVars, listening, tableVars, arriving, starts, kills, silent, stray, overtook>>

\* The end of the process c, of its memory and of its connections.
Ends(c, how) ==
    /\ Running(c)
    /\ phase' = [phase EXCEPT ![c] = how] /\ listening' = listening \ {c}
    /\ table' = [table EXCEPT ![c] = <<>>] /\ handle' = [handle EXCEPT ![c] = 1]
    /\ idle' = [idle EXCEPT ![c] = <<>>] /\ rows' = [rows EXCEPT ![c] = {}]
    /\ arriving' = [arriving EXCEPT ![c] = <<>>]

\* Mutant: no BYE after the main loop.
SaidAtEndNothing(c) == inbox

SaidAtEnd(c) == Append(inbox, [msgno |-> "BYE", from |-> c])

\* The window is closed, or SIGINT comes, at any time.
Quit(c) ==
    /\ Ends(c, "off")
    /\ inbox' = SaidAtEnd(c) /\ stray' = (stray \/ phase[c] = "up")
    /\ UNCHANGED <<handlerVars, starts, kills, prompt, silent, overtook>>

Kill(c) ==
    /\ Ends(c, "off") /\ kills < MaxKills
    /\ kills' = kills + 1 /\ silent' = silent \cup {c}
    /\ UNCHANGED <<handlerVars, inbox, starts, prompt, stray, overtook>>

\* The callback fn for the peer of handle h joins those that wait.
IdleAdd(c, fn, h) == idle' = [idle EXCEPT ![c] = Append(@, [fn |-> fn, hpeer |-> h])]

\* handle_msg of a PEER_ONLINE: create_peer.
TakeOnline(c, n) ==
    /\ table' = [table EXCEPT ![c] = CreatePeer(@, handle[c], n.peer, n.at)]
    /\ handle' = [handle EXCEPT ![c] = HandleAfterCreate(table[c], @, n.peer)]
    /\ IdleAdd(c, "IDLE_peer_online", FindPeer((table')[c], n.peer))
    /\ UNCHANGED <<phase, listening, silent, rows>>

\* handle_msg of a PEER_OFFLINE
TakeOffline(c, n) ==
    /\ table[c] # <<>>
    /\ LET h == FindPeer(table[c], n.peer)
       IN IF h # NoPeer THEN IdleAdd(c, "IDLE_peer_offline", h) ELSE UNCHANGED idle
    /\ UNCHANGED <<phase, listening, silent, table, handle, rows>>

\* print_peers asserts that the table was allocated.
TakeOfflineAborts(c) ==
    /\ table[c] = <<>>
    /\ phase' = [phase EXCEPT ![c] = "aborted"] /\ listening' = listening \ {c}
    /\ silent' = silent \cup {c}
    /\ UNCHANGED tableVars

TakeNotice(c) ==
    /\ c \in listening
    /\ \E k \in Takeable(arriving[c]) :
          LET n == arriving[c][k]
          IN /\ Overtakes(k)
             /\ \/ n.msgno = "PEER_ONLINE" /\ TakeOnline(c, n)
                \/ n.msgno = "PEER_OFFLINE" /\ (TakeOffline(c, n) \/ TakeOfflineAborts(c))
             /\ arriving' = [arriving EXCEPT ![c] = IF (phase')[c] = "aborted" THEN <<>> ELSE RemoveAt(@, k)]
    /\ UNCHANGED <<handlerVars, inbox, starts, kills, prompt, stray>>

IdlePeerOnline(c, h) == rows' = [rows EXCEPT ![c] = @ \cup {h}] /\ UNCHANGED table

IdlePeerOffline(c, h) ==
    /\ rows' = [rows EXCEPT ![c] = @ \ {h}]
    /\ table' = [table EXCEPT ![c] = DestroyPeer(@, h)]

\* The GTK thread of c runs the first callback.
RunIdle(c) ==
    /\ Running(c) /\ idle[c] # <<>>
    /\ LET cb == Head(idle[c])
       IN \/ cb.fn = "IDLE_peer_online" /\ IdlePeerOnline(c, cb.hpeer)
          \/ cb.fn = "IDLE_peer_offline" /\ IdlePeerOffline(c, cb.hpeer)
    /\ idle' = [idle EXCEPT ![c] = Tail(@)]
    /\ UNCHANGED <<handlerVars, inbox, phase, listening, handle, arriving, historyVars>>

----------------------------------------------------------------------------
(* The tracker *)

Receive ==
    /\ \E k \in Takeable(inbox) :
          /\ HandleMsg(inbox[k]) /\ Overtakes(k)
          /\ inbox' = RemoveAt(inbox, k)
    /\ UNCHANGED <<clientVars, starts, kills, prompt, silent, stray>>

At(to) == {c \in listening : WithPort(c, ListenPort) = to}

\* send_msg_to_hostaddr: connected and written, or refused.
SendNotice ==
    /\ TrySend
    /\ arriving' = [c \in FromAddrs |-> IF c \in At(Due.to) THEN Append(arriving[c], Due) ELSE arriving[c]]
    /\ UNCHANGED <<inbox, phase, listening, tableVars, historyVars>>

HandlerStep ==
    /\ SkipInactive \/ AnnounceDone \/ IntroduceDone \/ FarewellDone
    /\ UNCHANGED <<inbox, clientVars, historyVars>>

Next ==
    \/ \E c \in FromAddrs : Start(c) \/ Listen(c) \/ SendKnock(c) \/ Quit(c) \/ Kill(c)
                              \/ TakeNotice(c) \/ RunIdle(c)
    \/ Receive \/ SendNotice \/ HandlerStep

Spec == Init /\ [][Next]_vars

----------------------------------------------------------------------------
(* Properties *)

TypeOK ==
    /\ HandlerTypeOK /\ inbox \in Seq(ClientMsg)
    /\ \A c \in FromAddrs :
          /\ phase[c] \in {"off", "up", "on", "aborted"}
          /\ table[c] \in Seq(Peer(FromAddrs, ToAddrs)) /\ handle[c] = Len(table[c]) + 1
          /\ rows[c] \cup {idle[c][k].hpeer : k \in DOMAIN idle[c]} \subseteq 1..Len(table[c])
          /\ arriving[c] \in Seq(Notice) /\ (arriving[c] # <<>> => c \in listening)
    /\ \A c \in listening : Running(c)

\* Every message was handled, every notice taken, and the callbacks of those who run
\* have run.
Quiet ==
    /\ pc = "idle" /\ inbox = <<>>
    /\ \A c \in FromAddrs : arriving[c] = <<>> /\ idle[c] = <<>>

\* The peers in the listbox of a client
Lists(c) == {table[c][h].fromaddr : h \in rows[c]}

\* When all is quiet and nothing was overtaken, a client that listened before its KNOCK
\* lists every other client that is online, at the address where that one listens: through
\* restarts, kills and clients that listened too late.
EachKnowsTheOthers ==
    Quiet /\ ~overtook =>
        \A c \in prompt, d \in FromAddrs : c # d /\ phase[c] = "on" /\ phase[d] = "on" =>
            \E h \in rows[c] :
               table[c][h].fromaddr = d /\ table[c][h].toaddr = WithPort(d, ListenPort)

\* When all is quiet and nothing was overtaken, the first client at an address lists
\* nobody who has left with a BYE, and never itself.
NobodyElseListed ==
    Quiet /\ ~overtook =>
        \A c \in FromAddrs : phase[c] = "on" /\ starts[c] = 1 =>
            Lists(c) \subseteq ({d \in FromAddrs : phase[d] = "on"} \cup silent) \ {c}

\* A client that aborts, because PEER_OFFLINE is the first notice it takes, was
\* started again at its address, or did not listen before its KNOCK, or some client said
\* BYE without a KNOCK, or a message had overtaken another.
AbortsAreExplained ==
    \A c \in FromAddrs :
        phase[c] = "aborted" => starts[c] > 1 \/ c \notin prompt \/ stray \/ overtook

\* No client comes to the assertion of print_peers without a table.
ClientsHaveTables == \A c \in FromAddrs : phase[c] # "aborted"
=============================================================================
