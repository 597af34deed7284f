SPECIFICATION Spec
CONSTANTS
    r1 = r1
    r2 = r2
    a1 = a1
    a2 = a2
    c1 = c1
    s1 = s1
    s2 = s2
    Request <- TwoRequests
    Application <- OneApplication
    Credential <- OneCredential
    Server <- OneServer
    NoRequest = NoRequest
    NoApplication = NoApplication
    NoCredential = NoCredential
    TTL = 1
    MaxTime = 2
    Faults <- NoFaults
SYMMETRY Interchangeable
CHECK_DEADLOCK FALSE
INVARIANTS
    FailedVerificationIsRecorded
