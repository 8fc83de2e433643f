SPECIFICATION Spec
CONSTANTS
    MaxRequests = 3
    MaxTime = 5
    MaxWait = 1
    MaxFaults = 1
    Rules <- MCRules
    Peers <- MCPeers
    TrustForwardedFor = TRUE
INVARIANTS
    WindowKept
    RefusedWithCause
PROPERTY Answered
CHECK_DEADLOCK FALSE
