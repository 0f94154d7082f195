SPECIFICATION Spec
CONSTANTS
    NPROC = 3
    CPU = {c1, c2}
    Nobody = Nobody
    MAXPID = 3
    KillPids = {1, 2}
SYMMETRY Symm
INVARIANTS
    SwitchesAreSafe
    WaitIsReliable
PROPERTIES
    FreedStackIsIdle
