SPECIFICATION Spec
CONSTANTS
    CheckpointInterval = 3
    NotFound = NotFound
    None = None
    dev = dev
    r1 = r1
    r2 = r2
    rule = rule
    Branch <- mcBranch
    InitBranch <- mcBranch
    NamePrefix <- mcNamePrefix
    Item <- mcItem
    GroupOf <- mcGroupOf
    Ty <- mcTy
    Value <- mcValue
    SharedKey <- mcSharedKey
    RequestId <- mcRequestId
    GrayRule <- mcGrayRule
    StructureInputs <- mcStructureInputs
    DraftInputs <- mcDraftInputs
    SharedInputs <- mcSharedInputs
    Policies = {"warn"}
    CascadeModes = {"auto", "manual"}
    Keep = 2
    MaxBranches = 1
    MaxVersion = 5
    MaxStructure = 4
    MaxDraftRev = 2
INVARIANTS
    HistoryFaithful
    GrayServable
PROPERTIES
    VersionNumbersGrow
    SecretsSurvivePublish
SYMMETRY mcSymmetry
