\* Two clients and three messages.  Beside the listening socket the process has two
\* descriptors, so that they run out, and it is restarted once.
CONSTANTS
    Hosts = {h1, h2}
    SendPorts = {8100}
    FromAddrs <- MCFromAddrs
    Ports = {8200}
    NoAddr = NoAddr
    MaxFd = 3
    MaxMsgs = 3
    MaxRestarts = 1
SPECIFICATION Spec
SYMMETRY HostSymmetry
INVARIANTS FdsTracked SnapshotFresh
PROPERTIES CompleteMessagesHandled ImplementsTracker
CHECK_DEADLOCK FALSE
