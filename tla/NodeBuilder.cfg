SPECIFICATION Spec
CONSTANTS
    MaxIndex = 3
    Batches = 2
    MembershipEntry = {2}
    SpawnedBuild = TRUE
    MarkerSettings = {TRUE}
    ForceSettings = {FALSE}
    Faults = {"meta", "payload"}
    MaxMishaps = 2
    MaxFiles = 3
    None = None
INVARIANTS
    BuiltWhole
CHECK_DEADLOCK FALSE
