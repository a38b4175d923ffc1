\* Bytes to the base 5, so that messages of 25 bytes do not fit their length; an arena in
\* which each container can grow once, and one of them twice; two strings of up to five
\* characters and a 0; two switches with their values; lines that just do not fit.
CONSTANTS
    Base = 5
    AddrSamples <- MCAddrs
    Items = {i1, i2}
    Bytes = {b1}
    Vals = {v1, v2}
    Keys = {k1, k2}
    Junk = Junk
    ArenaCap = 10
    InitCap = 1
    CapLimit = 8
    Names = {a, b}
    Cap = 6
    FieldSize = 3
    MaxBlocks = 3
    Values = {"tm", "9001", "70000"}
    Numbers <- MCNumbers
    MaxArgs = 4
    Alnum <- MCAlnum
    Punct <- MCPunct
    Lines <- MCLines
    LineSize = 7
    QuitWords <- MCQuit
    AskWords <- MCAsk
    SendWord <- MCSend
    PeerAliases <- MCAliases
    MemSize = 8
SPECIFICATION Spec
INVARIANTS ArrivesAsSent TextsAreRight LastValueCounts HandledOnce
PROPERTIES ImplementsCollections LineDoesAsTyped
CHECK_DEADLOCK FALSE
