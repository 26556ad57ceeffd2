SPECIFICATION Spec
CONSTANTS
    Nodes = {n1, n2}
    Keks = {k1, k2, k3}
    First = k1
    Torn = torn
    MaxLog = 4
    MaxFaults = 1
INVARIANTS RingFollowsLog SecretsReadable
PROPERTIES RewrapKeepsReadable
CHECK_DEADLOCK FALSE
