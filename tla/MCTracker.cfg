\* Three clients and two listen ports: clients share a machine and even a listening
\* address, move to another port, and the fair tracker is restarted once, at any point.
CONSTANTS
    FromAddrs <- MCFromAddrs
    Ports = {8200, 8201}
    MaxMsgs = 3
    MaxRestarts = 1
SPECIFICATION FairSpec
INVARIANTS TypeOK OneSlotPerPeer
PROPERTIES SlotsArePermanent TellsExactly ImplementsDirectory EveryMessageTaken
CHECK_DEADLOCK FALSE
