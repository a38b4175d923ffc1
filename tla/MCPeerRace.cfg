\* A table that starts with one slot and moves when the second peer comes, and the third.
CONSTANTS
    FromAddrs = {a1, a2, a3}
    ToAddrs = {t1, t2}
    InitCap = 1
    MaxMsgs = 5
    MaxSends = 1
SPECIFICATION Spec
SYMMETRY MCSymmetry
INVARIANTS PeerIsFound  AddressesAreLatest
CHECK_DEADLOCK FALSE
