SPECIFICATION Spec
CONSTANTS
    r1 = r1
    r2 = r2
    a1 = a1
    a2 = a2
    c1 = c1
    s1 = s1
    s2 = s2
    Request <- OneRequest
    Application <- OneApplication
    Credential <- OneCredential
    Server <- TwoServers
    NoRequest = NoRequest
    NoApplication = NoApplication
    NoCredential = NoCredential
    TTL = 2
    MaxTime = 3
    Faults <- AllFaults
SYMMETRY Interchangeable
CHECK_DEADLOCK FALSE
INVARIANTS
    TypeOK
    DisclosureNeedsApproval
    LiveRequestHasSession
    EarlyExpiryNeedsLoss
PROPERTIES
    DecisionsAreFinal
    SessionFailureNeedsLoss
    VerifiedWasSoundAtStart
