SPECIFICATION Spec
CONSTANTS
    Proc = {p1, p2}
    Nobody = Nobody
    na = na
    nb = nb
    nd = nd
    Name = {na, nb, nd}
    Files0 = {na}
    Dirs0 = {nd}
    NINODE = 5
    ninodes = 4
    NBLOCKS = 4
    DPB = 3
    Calls <- MCCalls
    MaxCalls = 3
    MaxCrashes = 1
SYMMETRY Symm
INVARIANTS
    
    
    NoCyclicWait
PROPERTIES
    OpenFilesSurvive
