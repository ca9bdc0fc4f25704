SPECIFICATION Spec
CONSTANTS
    Requests = {r1, r2}
    c1 = c1
    c2 = c2
    Channels <- MCChannels
    Priority <- MCPriority
    Editable <- MCEditable
    Nobody = Nobody
    FailureThreshold = 1
    SuccessThreshold = 1
    MinRequests = 1
    WindowSize = 1
    RateNum = 3
    RateDen = 5
SYMMETRY Perms
INVARIANTS TypeOK NoLeakedPermit
PROPERTIES OnlyProviderFaultsOpen
