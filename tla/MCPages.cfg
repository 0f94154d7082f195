SPECIFICATION PagesSpec
CONSTANTS
    f1 = f1
    f2 = f2
    o1 = o1
    o2 = o2
    WProc = {1, 2}
    BFile = {f1, f2}
    OpenFile = {o1, o2}
    ipof <- MCipof
    NoWriter = NoWriter
    BSIZE = 2
    NDIRECT = 2
    NBLK = 6
    OPBLOCKS = 6
    WUINT = 64
    Lengths <- MCLengths
    WSizes = {7}
    RSizes = {3, 63}
    MaxWrites = 2
    MaxFsCrashes = 1

    VProc = {1, 2}
    first = 1
    NPAGES = 13
    LEVELS = 2
    FANOUT = 4
    PGSIZE = 2
    USERSTACK = 1
    Images <- MCImages
    Growths <- MCGrowths
    Stores = {1, 3}
    MaxVmCalls = 6
INVARIANTS
    BlocksAreExact
    ChunkFitsTheLog
    MemoryIsConserved
    UserMemoryIsExact
PROPERTIES
    
    Isolation
