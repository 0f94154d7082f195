SPECIFICATION FairSpec
CONSTANTS
    NPROC = 3
    CPU = {c1}
    Nobody = Nobody
    MAXPID = 3
    KillPids = {}
PROPERTIES
    ZombiesAreReaped
