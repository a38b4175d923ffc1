------------------------------ MODULE Messages ------------------------------
(***************************************************************************)
(* The addresses of TinyMsg and the messages between clients and tracker   *)
(* (tmcommon.h).  A message is a record; its alias and host name are       *)
(* display text and left out.                                              *)
(***************************************************************************)
CONSTANTS FromAddrs,  \* the HostAddrs, [ip, port] records, that clients connect from
          Ports       \* the ports clients listen on

\* toaddr of a client: the ip it connects from, with the port it listens on.
WithPort(addr, port) == [ip |-> addr.ip, port |-> port]

ToAddrs == {WithPort(a, p) : a \in FromAddrs, p \in Ports}

\* From clients.  The HostAddr a message came from is that of its connection.
Knock == [msgno : {"KNOCK"}, from : FromAddrs, listenport : Ports]
Bye == [msgno : {"BYE"}, from : FromAddrs]
ClientMsg == Knock \cup Bye
NoMsg == [msgno |-> "NONE"]

\* Where the client that sent the KNOCK m can be reached.
ListenAddr(m) == WithPort(m.from, m.listenport)

\* From the tracker, addressed to the listening port of a client.
PeerOnline(to, peer, at) ==
    [msgno |-> "PEER_ONLINE", to |-> to, peer |-> peer, at |-> at]
PeerOffline(to, peer) ==
    [msgno |-> "PEER_OFFLINE", to |-> to, peer |-> peer]
Notice ==
    [msgno : {"PEER_ONLINE"}, to : ToAddrs, peer : FromAddrs, at : ToAddrs]
      \cup [msgno : {"PEER_OFFLINE"}, to : ToAddrs, peer : FromAddrs]
=============================================================================
