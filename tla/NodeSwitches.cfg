SPECIFICATION Spec
CONSTANTS
    MaxIndex = 3
    Batches = 2
    MembershipEntry = {2}
    SpawnedBuild = FALSE
    MarkerSettings = {TRUE, FALSE}
    ForceSettings = {TRUE, FALSE}
    Faults = {"flush", "meta", "payload", "restore", "clear", "poison"}
    MaxMishaps = 2
    MaxFiles = 3
    None = None
PROPERTIES
    AppliedNeverRegresses
    PoisonEndsWhole
CHECK_DEADLOCK FALSE
