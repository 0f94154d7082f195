SPECIFICATION CoreSpec
CONSTANTS
    CPU = {c1, c2}
    NoCPU = NoCPU
    Lock = {1, 2}

    Proc = {p1, p2}
    Block = {b1, b2}
    Value = {v1, v2}
    NoBuf = NoBuf
    Torn = Torn
    MAXOPBLOCKS = 4
    LOGSIZE = 8
    LogBlocks = 8
    OpBlocks = 2

    FProc = {1, 2}
    NFILE = 3
    NOFILE = 2
    NPIPE = 1

    HEAP = 11
    CORE = 4
    Requests = {2, 3, 5}

    Patterns <- MCPatterns
    Inputs <- MCInputs
    GBUF = 3

    Lexemes <- MCLexemes
    MaxLexemes = 4
    MAXARGS = 3

    DIRSIZ = 2
    PathChars = {"a", "b", "/"}
    MaxPath = 7
    Cells = 5
    WIDTH = 8
    UWIDTH = 4
    Base = 3
INVARIANTS
    MutualExclusion
    
    
    RefsAreExact
    HeapIsSound
    GrepPrintsTheMatches
    ParsesWhatIsMeant
    
PROPERTIES
    DurableOnReturn
    ImplementsJournal
