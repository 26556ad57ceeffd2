SPECIFICATION Spec
CONSTANTS
    Calls = {c1, c2}
    Size <- Sizes
    ChunkBytes = 2
    ReadBytes = 2
    MaxBytes = 3
    None = None
    InFlight = 1
    MaxFaults = 1
INVARIANTS InstalledWhole AckMeansInstalled NothingPilesUp
PROPERTIES EventuallyInstalled
CHECK_DEADLOCK FALSE
