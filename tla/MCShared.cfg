SPECIFICATION Spec
CONSTANTS
    CheckpointInterval = 3
    NotFound = NotFound
    None = None
    dev = dev
    dev2 = dev2
    r1 = r1
    Branch <- mcBranch
    InitBranch <- mcInitBranch
    NamePrefix <- mcNestedNames
    Item <- mcItem
    GroupOf <- mcGroupOf
    Ty <- mcTy
    Value <- mcValue
    SharedKey = {1, 2}
    RequestId <- mcRequestId
    GrayRule = {}
    StructureInputs <- mcMixed
    DraftInputs <- mcMixedEdits
    SharedInputs <- mcSharedText
    Policies = {"warn"}
    CascadeModes = {"auto"}
    Keep = 9
    MaxBranches = 2
    MaxVersion = 3
    MaxStructure = 3
    MaxDraftRev = 1
INVARIANTS
    BindingsResolve
    RefItemsReadOnly
    DeletedLeavesNothing
PROPERTIES
    CascadeDelivers
