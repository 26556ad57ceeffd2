SPECIFICATION RequestsSpec
CONSTANTS
    CheckpointInterval = 3
    NotFound = NotFound
    None = None
    dev = dev
    n1 = n1
    n2 = n2
    a1 = a1
    a2 = a2
    rule = rule
    g1 = g1
    job = job
    Branch <- mcBranch
    InitBranch <- mcBranch
    NamePrefix <- mcNamePrefix
    Item <- mcItem
    GroupOf <- mcGroupOf
    Ty <- mcTy
    Value <- mcValue
    SharedKey = {}
    RequestId <- mcRequestId
    GrayRule = {rule}
    StructureInputs <- mcStructureInputs
    DraftInputs <- mcDraftInputs
    SharedInputs = {}
    Policies = {"block"}
    CascadeModes = {}
    Keep = 2
    MaxBranches = 1
    MaxVersion = 3
    MaxStructure = 2
    MaxDraftRev = 2
    Node = {n1, n2}
    Caller = {a1, a2}
    GivenId = {g1}
    JobId = job
    Inputs <- mcInputs
    PublishPolicy = "block"
    FreshPids = TRUE
    Unhealthy = TRUE
    MaxSeq = 2
    MaxMishaps = 1
INVARIANTS
    AckedTookEffect
PROPERTIES
    SavesOnSeen
    AutoRollbackEnds
CHECK_DEADLOCK FALSE
