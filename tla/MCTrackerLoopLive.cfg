\* Two clients that share a machine and a listening address.  That one
\* destination can keep one descriptor, and one is to spare.
CONSTANTS
    Hosts = {h1}
    SendPorts = {8100, 8101}
    FromAddrs <- MCFromAddrs
    Ports = {8200}
    NoAddr = NoAddr
    MaxFd = 3
    MaxMsgs = 3
    MaxRestarts = 0
SPECIFICATION FairSpec
PROPERTIES BacklogServed
CHECK_DEADLOCK FALSE
