\* Three calls and an interrupt, with two descriptors, and a fair thread.
CONSTANTS
    Fds = {3, 4}
    Tracker = tracker
    Peers = {p1}
    Parts = 2
    Timeout = 2
    MaxTexts = 2
SPECIFICATION FairSpec
INVARIANTS DescriptorsAccounted SuccessIsWholeMessage OneTimeoutEach ByeNeverBesideKnock
PROPERTY CallsReturn
CHECK_DEADLOCK FALSE
