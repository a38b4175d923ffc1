\* Two clients; messages stay in order.
CONSTANTS
    Hosts = {h1, h2}
    FromAddrs <- MCFromAddrs
    Ports = {8200}
    ListenPort = 8200
    MaxStarts = 2
    MaxKills = 0
    Overtaking = FALSE
SPECIFICATION Spec
SYMMETRY HostSymmetry
INVARIANTS ClientsHaveTables
CHECK_DEADLOCK FALSE
