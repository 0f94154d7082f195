CONSTANTS
    Proc = {p1, p2, p3}
    Block = {b1, b2, b3, b4, b5}
    Value = {v1}
    NoBuf = NoBuf
    Torn = Torn
    MAXOPBLOCKS = 3
    LOGSIZE = 6
    LogBlocks = 6
    OpBlocks = 1
SPECIFICATION FairSpec
INVARIANT NoPanic
PROPERTY WaitersAreWoken
