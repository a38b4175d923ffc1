-------------------------------- MODULE Client --------------------------------
(***************************************************************************)
(* A TinyMsg client (tm.c).  A listener thread handles the notices of the  *)
(* tracker and the texts of peers, one at a time; the main thread runs the *)
(* GTK loop.  They share the peer table, the array of chat texts, both     *)
(* without a lock, and the queue of g_idle_add.  A step reads or writes    *)
(* shared state once, or ends where the thread blocks.  The widgets are    *)
(* touched by the main thread alone.                                       *)
(***************************************************************************)
EXTENDS PeerTable, Messages, SequencesExt

CONSTANTS Sources,     \* ips that messages with the number of a notice come from
          GTrackerIp,  \* the one of them that is the tracker of this client
          NoAddr,      \* the HostAddr 0
          MaxMsgs,     \* bound: messages that reach the listener
          MaxSends     \* bound: texts the user sends

ASSUME ClientAssumption ==
    MaxMsgs \in Nat /\ MaxSends \in Nat /\ NoAddr \notin FromAddrs \cup ToAddrs

VARIABLES
    peers, nextHandle,   \* GPeers, GNextPeerHandle
    items, chatLen,      \* GChatTexts: what is in memory, and its len
    idle,                \* the callbacks that wait in the queue of g_idle_add
    pipe,                \* the pipe of GUnblockSelect_writefd: "none", "open", "written"
    stdinWritable,       \* whether the fd 0 that the process inherited can be written
    \* The listener thread: where it is, the message it handles, and within
    \* g_idle_add or ArrayAppend the handle, or the len, it has read.
    lpc, lmsg, lhpeer, llen,
    \* The main thread: where it is, and within CB_chatwin_send the window, the
    \* text and the len it has read.
    gpc, ghpeer, gtext, glen,
    rows,                \* the handles in the listbox of peers
    wins,                \* GChatWins
    \* History: the number of messages and texts so far, the last notice about
    \* each peer, the texts of known peers in order, whether appends overlapped.
    msgs, sent, heard, received, overlap

tableVars == <<peers, nextHandle>>
chatVars == <<items, chatLen>>
listenerVars == <<lpc, lmsg, lhpeer, llen>>
mainVars == <<gpc, ghpeer, gtext, glen>>
widgetVars == <<rows, wins>>
historyVars == <<msgs, sent, heard, received, overlap>>
vars == <<tableVars, chatVars, idle, pipe, stdinWritable, listenerVars, mainVars,
          widgetVars, historyVars>>

\* What a client receives.  A text is a number, in the order of receipt or of
\* sending.
OnlineMsg == {[msgno |-> "PEER_ONLINE", by |-> s, peer |-> a, at |-> WithPort(a, p)] :
                  s \in Sources, a \in FromAddrs, p \in Ports}
OfflineMsg == [msgno : {"PEER_OFFLINE"}, by : Sources, peer : FromAddrs]
TextMsg == [msgno : {"CHATTEXT"}, peer : FromAddrs]

ChatText(from, to, n) == [fromaddr |-> from, toaddr |-> to, text |-> n]
NoText == ChatText(NoAddr, NoAddr, 0)

Callback(fn, h, ct) == [fn |-> fn, hpeer |-> h, ct |-> ct]

Init ==
    /\ peers = <<>> /\ nextHandle = 1
    /\ items = [k \in 1..(MaxMsgs + MaxSends) |-> NoText] /\ chatLen = 0
    /\ idle = <<>>
    /\ pipe = "none" /\ stdinWritable \in BOOLEAN
    /\ lpc = "start" /\ lmsg = NoMsg /\ lhpeer = NoPeer /\ llen = 0
    /\ gpc = "start" /\ ghpeer = NoPeer /\ gtext = NoText /\ glen = 0
    /\ rows = <<>> /\ wins = <<>>
    /\ msgs = 0 /\ sent = 0
    /\ heard = [a \in FromAddrs |-> "nothing"]
    /\ received = <<>> /\ overlap = FALSE

\* The process ends with main(), with exit() and with abort().
Alive == lpc # "aborted" /\ gpc \notin {"done", "exited", "aborted"}

----------------------------------------------------------------------------
(* ArrayAppend to GChatTexts, by both threads: the item is written at the   *)
(* len, and the len is read and written once more to increment it.          *)

\* Either thread is between its ArrayAppend and the use of what it appended.
ListenerAppends == lpc \in {"load", "bump", "queue"}
MainAppends == gpc \in {"load", "bump"}

StoreItem(ct, otherAppends) ==
    /\ items' = [items EXCEPT ![chatLen + 1] = ct]
    /\ overlap' = (overlap \/ otherAppends)

\* ArrayAppend after its copy, with the len read before.
BumpLen(len) == chatLen' = len + 1

----------------------------------------------------------------------------
(* The listener thread *)

\* bind() and listen() succeed, or the listen port is taken; then the pipe.
Listen ==
    /\ Alive /\ lpc = "start"
    /\ \/ lpc' = "select" /\ pipe' = "open"
       \/ lpc' = "ended" /\ UNCHANGED pipe
    /\ UNCHANGED <<tableVars, chatVars, idle, stdinWritable, lmsg, lhpeer, llen, mainVars,
                   widgetVars, historyVars>>

\* A whole message was read, and handle_msg is called.
Receives(m) == Alive /\ lpc = "select" /\ msgs < MaxMsgs /\ msgs' = msgs + 1

\* Mutant: a notice is taken from anyone.
FromAnyone(m) == TRUE

FromTracker(m) == m.by = GTrackerIp

Hears(m, what) == heard' = [heard EXCEPT ![m.peer] = IF m.by = GTrackerIp THEN what ELSE @]

IgnoreNotice(m) ==
    /\ Receives(m) /\ ~FromTracker(m)
    /\ UNCHANGED <<tableVars, chatVars, idle, pipe, stdinWritable, listenerVars, mainVars,
                   widgetVars, sent, heard, received, overlap>>

\* create_peer; g_idle_add follows.
HandleOnline(m) ==
    /\ Receives(m) /\ FromTracker(m)
    /\ peers' = CreatePeer(peers, nextHandle, m.peer, m.at)
    /\ nextHandle' = HandleAfterCreate(peers, nextHandle, m.peer)
    /\ lpc' = "announce" /\ lmsg' = m /\ lhpeer' = FindPeer(peers', m.peer)
    /\ Hears(m, "online")
    /\ UNCHANGED <<chatVars, idle, pipe, stdinWritable, llen, mainVars, widgetVars,
                   sent, received, overlap>>

\* Back to select().
Returned == lpc' = "select" /\ lmsg' = NoMsg /\ lhpeer' = NoPeer /\ llen' = 0

QueueOnline ==
    /\ Alive /\ lpc = "announce"
    /\ idle' = Append(idle, Callback("IDLE_peer_online", lhpeer, 0))
    /\ Returned
    /\ UNCHANGED <<tableVars, chatVars, pipe, stdinWritable, mainVars, widgetVars, historyVars>>

\* print_peers asserts that the table was allocated, as it is by create_peer.
HandleOffline(m) ==
    /\ Receives(m) /\ FromTracker(m)
    /\ LET h == FindPeer(peers, m.peer)
       IN idle' = IF h # NoPeer
                  THEN Append(idle, Callback("IDLE_peer_offline", h, 0)) ELSE idle
    /\ Hears(m, "offline")
    /\ lpc' = IF peers = <<>> THEN "aborted" ELSE "select"
    /\ UNCHANGED <<tableVars, chatVars, pipe, stdinWritable, lmsg, lhpeer, llen, mainVars,
                   widgetVars, sent, received, overlap>>

\* A text from somebody who is not in the table is dropped.
HandleText(m) ==
    /\ Receives(m)
    /\ LET h == FindPeer(peers, m.peer)
       IN IF h = NoPeer
          THEN UNCHANGED <<lpc, lmsg, lhpeer, received>>
          ELSE /\ lpc' = "store" /\ lmsg' = m /\ lhpeer' = h
               /\ received' = Append(received, ChatText(m.peer, NoAddr, msgs'))
    /\ UNCHANGED <<tableVars, chatVars, idle, pipe, stdinWritable, llen, mainVars,
                   widgetVars, sent, heard, overlap>>

ListenerStores ==
    /\ Alive /\ lpc = "store"
    /\ StoreItem(Last(received), MainAppends)
    /\ lpc' = "load"
    /\ UNCHANGED <<tableVars, chatLen, idle, pipe, stdinWritable, lmsg, lhpeer, llen,
                   mainVars, widgetVars, msgs, sent, heard, received>>

ListenerLoads ==
    /\ Alive /\ lpc = "load"
    /\ llen' = chatLen /\ lpc' = "bump"
    /\ UNCHANGED <<tableVars, chatVars, idle, pipe, stdinWritable, lmsg, lhpeer,
                   mainVars, widgetVars, historyVars>>

ListenerBumps ==
    /\ Alive /\ lpc = "bump"
    /\ BumpLen(llen) /\ lpc' = "queue"
    /\ UNCHANGED <<tableVars, items, idle, pipe, stdinWritable, lmsg, lhpeer, llen,
                   mainVars, widgetVars, historyVars>>

\* The callback gets the address of what is now the last item.
QueueText ==
    /\ Alive /\ lpc = "queue"
    /\ idle' = Append(idle, Callback("IDLE_open_chatwin", lhpeer, chatLen))
    /\ Returned
    /\ UNCHANGED <<tableVars, chatVars, pipe, stdinWritable, mainVars, widgetVars, historyVars>>

\* select() finds the pipe readable.
Stop ==
    /\ Alive /\ lpc = "select" /\ pipe = "written"
    /\ lpc' = "ended"
    /\ UNCHANGED <<tableVars, chatVars, idle, pipe, stdinWritable, lmsg, lhpeer, llen,
                   mainVars, widgetVars, historyVars>>

----------------------------------------------------------------------------
(* The callbacks of the main thread *)

PeerOf(h) == peers[Min(HandleSlots(peers, h))]

WinOf(h) == {k \in DOMAIN wins : wins[k].hpeer = h}

RowOf(h) == {k \in DOMAIN rows : rows[k] = h}

\* What add_chattext appends to a window of p's.
AddChatText(texts, ct, p) ==
    IF ct.fromaddr = p.fromaddr \/ ct.toaddr = p.toaddr THEN Append(texts, ct) ELSE texts

\* Everything in GChatTexts that is from p or to p's address.
MsgHistory(p) ==
    LET taken[k \in 0..chatLen] ==
            IF k = 0 THEN <<>> ELSE AddChatText(taken[k - 1], items[k], p)
    IN taken[chatLen]

\* Mutant: a new window starts without the texts received so far.
OpenChatwinBlank(ws, h) ==
    IF \E k \in DOMAIN ws : ws[k].hpeer = h
    THEN [k \in DOMAIN ws |-> IF ws[k].hpeer = h THEN [ws[k] EXCEPT !.visible = TRUE] ELSE ws[k]]
    ELSE Append(ws, [hpeer |-> h, enabled |-> TRUE, visible |-> TRUE, texts |-> <<>>])

\* A window that exists is shown again; its texts stay as they are.
OpenChatwin(ws, h) ==
    IF \E k \in DOMAIN ws : ws[k].hpeer = h
    THEN [k \in DOMAIN ws |-> IF ws[k].hpeer = h THEN [ws[k] EXCEPT !.visible = TRUE] ELSE ws[k]]
    ELSE Append(ws, [hpeer |-> h, enabled |-> TRUE, visible |-> TRUE,
                     texts |-> MsgHistory(PeerOf(h))])

SetEnabled(h, on) ==
    wins' = [k \in DOMAIN wins |-> IF k \in WinOf(h) THEN [wins[k] EXCEPT !.enabled = on] ELSE wins[k]]

IdlePeerOnline(h) ==
    /\ rows' = IF RowOf(h) = {} THEN Append(rows, h) ELSE rows
    /\ SetEnabled(h, TRUE)
    /\ UNCHANGED peers

IdlePeerOffline(h) ==
    /\ rows' = IF RowOf(h) = {} THEN rows ELSE RemoveAt(rows, Min(RowOf(h)))
    /\ SetEnabled(h, FALSE)
    /\ peers' = DestroyPeer(peers, h)

IdleOpenChatwin(h, ct) ==
    /\ wins' = IF WinOf(h) # {}
               THEN [wins EXCEPT ![Min(WinOf(h))].texts = AddChatText(@, items[ct], PeerOf(h)),
                                 ![Min(WinOf(h))].visible = TRUE]
               ELSE OpenChatwin(wins, h)
    /\ UNCHANGED <<peers, rows>>

InMainLoop == Alive /\ gpc = "gtk"

\* The callbacks run in the order they were added.
RunIdle ==
    /\ InMainLoop /\ idle # <<>>
    /\ LET cb == Head(idle)
       IN \/ cb.fn = "IDLE_peer_online" /\ IdlePeerOnline(cb.hpeer)
          \/ cb.fn = "IDLE_peer_offline" /\ IdlePeerOffline(cb.hpeer)
          \/ cb.fn = "IDLE_open_chatwin" /\ IdleOpenChatwin(cb.hpeer, cb.ct)
    /\ idle' = Tail(idle)
    /\ UNCHANGED <<nextHandle, chatVars, pipe, stdinWritable, listenerVars, mainVars, historyVars>>

\* CB_select_peer
SelectRow(h) ==
    /\ InMainLoop /\ RowOf(h) # {}
    /\ wins' = OpenChatwin(wins, h)
    /\ UNCHANGED <<tableVars, chatVars, idle, pipe, stdinWritable, listenerVars, mainVars,
                   rows, historyVars>>

\* CB_chatwin_delete hides the window and keeps it.
CloseWindow(k) ==
    /\ InMainLoop /\ wins[k].visible
    /\ wins' = [wins EXCEPT ![k].visible = FALSE]
    /\ UNCHANGED <<tableVars, chatVars, idle, pipe, stdinWritable, listenerVars, mainVars,
                   rows, historyVars>>

\* CB_chatwin_send: the main thread blocks until the text is sent or is not.
Send(k) ==
    /\ InMainLoop /\ sent < MaxSends
    /\ wins[k].visible /\ wins[k].enabled
    /\ sent' = sent + 1
    /\ gpc' = "sending" /\ ghpeer' = wins[k].hpeer
    /\ gtext' = ChatText(NoAddr, PeerOf(wins[k].hpeer).toaddr, sent')
    /\ UNCHANGED <<tableVars, chatVars, idle, pipe, stdinWritable, listenerVars, glen,
                   widgetVars, msgs, heard, received, overlap>>

BackInMainLoop == gpc' = "gtk" /\ ghpeer' = NoPeer /\ gtext' = NoText /\ glen' = 0

SendFails ==
    /\ Alive /\ gpc = "sending"
    /\ BackInMainLoop
    /\ UNCHANGED <<tableVars, chatVars, idle, pipe, stdinWritable, listenerVars, widgetVars,
                   historyVars>>

MainStores ==
    /\ Alive /\ gpc = "sending"
    /\ StoreItem(gtext, ListenerAppends)
    /\ gpc' = "load"
    /\ UNCHANGED <<tableVars, chatLen, idle, pipe, stdinWritable, listenerVars, ghpeer, gtext,
                   glen, widgetVars, msgs, sent, heard, received>>

MainLoads ==
    /\ Alive /\ gpc = "load"
    /\ glen' = chatLen /\ gpc' = "bump"
    /\ UNCHANGED <<tableVars, chatVars, idle, pipe, stdinWritable, listenerVars, ghpeer, gtext,
                   widgetVars, historyVars>>

\* The text is shown from a copy, not from the array.
MainBumps ==
    /\ Alive /\ gpc = "bump"
    /\ BumpLen(glen)
    /\ wins' = [wins EXCEPT ![Min(WinOf(ghpeer))].texts = Append(@, gtext)]
    /\ BackInMainLoop
    /\ UNCHANGED <<tableVars, items, idle, pipe, stdinWritable, listenerVars, rows, historyVars>>

----------------------------------------------------------------------------
(* main() *)

mainOnly == <<tableVars, chatVars, idle, stdinWritable, listenerVars, ghpeer, gtext, glen,
              widgetVars, historyVars>>

\* Without an answer from the tracker the client gives up.
SendKnock ==
    /\ Alive /\ gpc = "start"
    /\ gpc' \in {"gtk", "exited"}
    /\ UNCHANGED <<mainOnly, pipe>>

\* The main window is closed.
Quit == InMainLoop /\ gpc' = "unblock" /\ UNCHANGED <<mainOnly, pipe>>

\* Mutant: nothing is written.
UnblockNothing == Alive /\ gpc = "unblock" /\ gpc' = "bye" /\ UNCHANGED <<mainOnly, pipe>>

\* GUnblockSelect_writefd is the pipe, or 0 as long as there is no pipe; a
\* write that fails is asserted not to.
UnblockSelect ==
    /\ Alive /\ gpc = "unblock"
    /\ IF pipe = "open"
       THEN pipe' = "written" /\ gpc' = "bye"
       ELSE /\ gpc' = IF stdinWritable THEN "bye" ELSE "aborted"
            /\ UNCHANGED pipe
    /\ UNCHANGED mainOnly

SendBye == Alive /\ gpc = "bye" /\ gpc' = "join" /\ UNCHANGED <<mainOnly, pipe>>

Join == Alive /\ gpc = "join" /\ lpc = "ended" /\ gpc' = "done" /\ UNCHANGED <<mainOnly, pipe>>

\* The handler of SIGINT sends a BYE and calls exit(), wherever the threads are.
Interrupt == Alive /\ gpc' = "exited" /\ UNCHANGED <<mainOnly, pipe>>

ListenerOn ==
    \/ Listen \/ QueueOnline
    \/ ListenerStores \/ ListenerLoads \/ ListenerBumps \/ QueueText
    \/ Stop

ListenerTakes ==
    \/ \E m \in OnlineMsg : HandleOnline(m)
    \/ \E m \in OfflineMsg : HandleOffline(m)
    \/ \E m \in TextMsg : HandleText(m)
    \/ \E m \in OnlineMsg \cup OfflineMsg : IgnoreNotice(m)

User ==
    \/ \E h \in ToSet(rows) : SelectRow(h)
    \/ \E k \in DOMAIN wins : CloseWindow(k) \/ Send(k)
    \/ Quit

MainOn ==
    \/ RunIdle
    \/ SendFails \/ MainStores \/ MainLoads \/ MainBumps
    \/ SendKnock \/ UnblockSelect \/ SendBye \/ Join

Next == ListenerTakes \/ ListenerOn \/ User \/ MainOn \/ Interrupt

Spec == Init /\ [][Next]_vars

\* Both threads run on; what a thread waits for, a connection or an answer, ends
\* with a timeout.  Messages, the user and signals owe us nothing.
FairSpec == Spec /\ WF_vars(ListenerOn) /\ WF_vars(MainOn)

----------------------------------------------------------------------------
(* Properties *)

ChatTexts == [fromaddr : FromAddrs \cup {NoAddr}, toaddr : ToAddrs \cup {NoAddr}, text : Nat]

Callbacks == [fn : {"IDLE_peer_online", "IDLE_peer_offline", "IDLE_open_chatwin"},
              hpeer : Nat \ {0}, ct : Nat]

TypeOK ==
    /\ peers \in Seq(Peer(FromAddrs, ToAddrs)) /\ nextHandle \in Nat \ {0}
    /\ ToSet(items) \subseteq ChatTexts /\ chatLen \in 0..(MaxMsgs + MaxSends)
    /\ idle \in Seq(Callbacks)
    /\ pipe \in {"none", "open", "written"} /\ stdinWritable \in BOOLEAN
    /\ lpc \in {"start", "select", "announce", "store", "load", "bump", "queue",
                "ended", "aborted"}
    /\ gpc \in {"start", "gtk", "sending", "load", "bump", "unblock", "bye", "join",
                "done", "exited", "aborted"}
    /\ rows \in Seq(Nat \ {0})
    /\ wins \in Seq([hpeer : Nat \ {0}, enabled : BOOLEAN, visible : BOOLEAN,
                     texts : Seq(ChatTexts)])

\* A handle that a callback, a row, a window or a thread keeps names a slot of
\* the table for good: IDLE_peer_online and IDLE_peer_offline assert it of
\* get_peer_data.  The slots are those of create_peer, one per address.
HandlesResolve ==
    /\ TypeOK
    /\ \A k \in 1..Len(peers) : peers[k].hpeer = k
    /\ \A j, k \in 1..Len(peers) : peers[j].fromaddr = peers[k].fromaddr => j = k
    /\ {idle[k].hpeer : k \in DOMAIN idle} \cup ToSet(rows) \cup {wins[k].hpeer : k \in DOMAIN wins}
          \cup ({lhpeer, ghpeer} \ {NoPeer}) \subseteq 1..Len(peers)

\* The notices about h that the main thread has yet to hear of.
NoticesWait(h) ==
    \/ \E k \in DOMAIN idle : idle[k].hpeer = h /\ idle[k].fn # "IDLE_open_chatwin"
    \/ lpc = "announce" /\ lhpeer = h

\* Once its callbacks have run, a peer is listed exactly if the last notice
\* about it was PEER_ONLINE, and its window can send exactly then, unless it was
\* opened, for a late text, while the peer was off the list.  Notices repeat,
\* and come as fast as they like.  A peer that the table calls active is listed.
ListFollowsNotices ==
    \A k \in 1..Len(peers) : ~NoticesWait(k) =>
        /\ RowOf(k) # {} <=> heard[peers[k].fromaddr] = "online"
        /\ RowOf(k) # {} => \A w \in WinOf(k) : wins[w].enabled
        /\ peers[k].active => RowOf(k) # {}

ReceivedFrom(a) == {t \in ToSet(received) : t.fromaddr = a}

\* The texts from h that IDLE_open_chatwin has yet to bring, or its queueing.
TextsWait(h) ==
    {items[idle[k].ct] : k \in {j \in DOMAIN idle : /\ idle[j].hpeer = h
                                                   /\ idle[j].fn = "IDLE_open_chatwin"}}
      \cup (IF lhpeer = h /\ lmsg \in TextMsg THEN {Last(received)} ELSE {})

\* What the window of h shows, if there is one.
TextsOf(h) == IF WinOf(h) = {} THEN <<>> ELSE wins[Min(WinOf(h))].texts

\* As long as no two appends to GChatTexts overlapped, nothing a known peer sent
\* is lost: what its window lacks is on the way.  Beside the user's own
\* texts the window shows this peer's and nobody else's, in the order they came in.  A text that waited for its
\* callback when the window opened can be shown twice, and no text three times.
NoTextLost ==
    ~overlap => \A h \in 1..Len(peers) :
        LET a == peers[h].fromaddr
            texts == TextsOf(h)
            shown == {k \in DOMAIN texts : texts[k].fromaddr = a}
        IN /\ ReceivedFrom(a) \ TextsWait(h) \subseteq {texts[k] : k \in shown}
           /\ {texts[k] : k \in shown} \subseteq ReceivedFrom(a)
           /\ \A k \in DOMAIN texts : texts[k].fromaddr \in {a, NoAddr}
           /\ \A j, k \in shown : j < k /\ texts[j].text >= texts[k].text =>
                 \E i \in shown : i <= j /\ texts[i] = texts[k]
           /\ \A t \in ReceivedFrom(a) : Cardinality({k \in shown : texts[k] = t}) <= 2

\* A text from a known peer is shown in the end, however the window of the peer
\* is opened and closed meanwhile, if the client runs on and no appends overlap.
EveryTextShown ==
    \A n \in 1..MaxMsgs :
        (\E t \in ToSet(received) : t.text = n)
          ~> \/ \E w \in DOMAIN wins, a \in FromAddrs :
                   ChatText(a, NoAddr, n) \in ToSet(wins[w].texts)
             \/ gpc \in {"unblock", "bye", "join"} \/ ~Alive
             \/ overlap

\* Closing the main window ends the process, with a BYE, whatever the threads
\* are at, once the listener thread has its pipe or has failed to listen.
QuitEnds ==
    (gpc = "unblock" /\ lpc # "start") ~> ~Alive
=============================================================================
