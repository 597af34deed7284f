SPECIFICATION Spec
CONSTANTS
    r1 = r1
    r2 = r2
    a1 = a1
    a2 = a2
    c1 = c1
    s1 = s1
    s2 = s2
    Request <- TwoRequests
    Application <- TwoApplications
    Credential <- OneCredential
    Server <- TwoServers
    NoRequest = NoRequest
    NoApplication = NoApplication
    NoCredential = NoCredential
    TTL = 1
    MaxTime = 1
    Faults <- NoFaults
SYMMETRY Interchangeable
CHECK_DEADLOCK FALSE
INVARIANTS
    DataWasVerified
PROPERTIES
    ImplementsLifecycle
    VerdictReplacedOnlyByNewRequest
