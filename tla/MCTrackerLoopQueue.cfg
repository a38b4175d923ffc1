\* A notice for a destination whose write buffer has drained.
CONSTANTS
    Hosts = {h1, h2}
    SendPorts = {8100}
    FromAddrs <- MCFromAddrs
    Ports = {8200}
    NoAddr = NoAddr
    MaxFd = 3
    MaxMsgs = 3
    MaxRestarts = 0
SPECIFICATION Spec
INVARIANTS QueueIsWatched
CHECK_DEADLOCK FALSE
