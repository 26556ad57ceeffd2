SPECIFICATION Spec
CONSTANTS
    Clients = {c1}
    RaftCap = 1
    HubCap = 1
    MaxVersion = 2
    MaxGray = 2
 
PROPERTIES FeedImplemented EventuallyKnown
CHECK_DEADLOCK FALSE
