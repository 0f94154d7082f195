SPECIFICATION Spec
CONSTANTS
    NPROC = 2
    CPU = {c1}
    Nobody = Nobody
    MAXPID = 2
    KillPids = {0}
INVARIANTS
    OnlyTheNamedAreKilled
