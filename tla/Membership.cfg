SPECIFICATION Spec
CONSTANTS
    Nodes = {n1, n2, n3}
    Seed = {n1, n2}
    Calls = {c1, c2}
    RetryLimit = 2
    MaxLog = 5
    MaxFaults = 1
INVARIANT JoinedWasMember
PROPERTY PromotionsLast
CHECK_DEADLOCK FALSE
