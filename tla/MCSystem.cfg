\* Three processes, at up to three addresses, of which one may be killed; messages
\* overtake each other.
CONSTANTS
    Hosts = {h1, h2, h3}
    FromAddrs <- MCFromAddrs
    Ports = {8200}
    ListenPort = 8200
    MaxStarts = 3
    MaxKills = 1
    Overtaking = TRUE
SPECIFICATION Spec
SYMMETRY HostSymmetry
INVARIANTS TypeOK EachKnowsTheOthers NobodyElseListed AbortsAreExplained
CHECK_DEADLOCK FALSE
