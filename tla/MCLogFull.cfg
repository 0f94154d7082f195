CONSTANTS
    Proc = {p1, p2}
    Block = {b1, b2, b3, b4}
    Value = {v1}
    NoBuf = NoBuf
    Torn = Torn
    MAXOPBLOCKS = 2
    LOGSIZE = 4
    LogBlocks = 4
    OpBlocks = 2
SPECIFICATION Spec
INVARIANT NoPanic
