\* Two peers, three messages and a text of the user's, with both threads running on.
CONSTANTS
    Hosts = {h1, h2}
    SendPorts = {8100}
    FromAddrs <- MCFromAddrs
    Ports = {8200}
    GTrackerIp = tracker
    Sources = {tracker, other}
    NoAddr = NoAddr
    MaxMsgs = 3
    MaxSends = 1
SPECIFICATION FairSpec
INVARIANTS HandlesResolve  
  
CHECK_DEADLOCK FALSE
