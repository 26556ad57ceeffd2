SPECIFICATION FairSpec
CONSTANTS
    MaxIndex = 4
    Batches = 2
    MembershipEntry = {2}
    SpawnedBuild = FALSE
    MarkerSettings = {TRUE}
    ForceSettings = {FALSE}
    Faults = {"meta", "payload", "restore", "clear", "poison"}
    MaxMishaps = 2
    MaxFiles = 3
    None = None
INVARIANTS
    StateIsPrefix
    NeverRefused
    PoisonHasWayOut
    SnapshotCoversPurged
PROPERTIES
    RestartServes
CHECK_DEADLOCK FALSE
