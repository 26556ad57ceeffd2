SPECIFICATION Spec
CONSTANTS
    CheckpointInterval = 3
    NotFound = NotFound
    None = None
    dev = dev
    r1 = r1
    r2 = r2
    Branch <- mcBranch
    InitBranch <- mcBranch
    NamePrefix <- mcNamePrefix
    Item <- mcItem
    GroupOf <- mcGroupOf
    Ty <- mcTy
    Value <- mcValue
    SharedKey = {}
    RequestId <- mcRequestId
    GrayRule = {}
    StructureInputs <- mcStructureInputs
    DraftInputs <- mcDraftInputs
    SharedInputs = {}
    Policies = {"block", "warn"}
    CascadeModes = {}
    Keep = 2
    MaxBranches = 1
    MaxVersion = 6
    MaxStructure = 2
    MaxDraftRev = 3
INVARIANTS
    HistoryRebuilds
PROPERTIES
    VersionImmutable
SYMMETRY mcSymmetry
