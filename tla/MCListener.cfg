\* Three connections, cut into reads in every way, two descriptors for them, and a fair
\* thread.
CONSTANTS
    Base = 2
    MaxFd = 7
    Streams <- MCStreams
SPECIFICATION FairSpec
INVARIANTS HandledAsSent ConnsTracked
PROPERTIES EndsWhenUnblocked 
CHECK_DEADLOCK FALSE
