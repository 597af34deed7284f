SPECIFICATION Spec
CONSTANTS
    r1 = r1
    r2 = r2
    r3 = r3
    a1 = a1
    a2 = a2
    c1 = c1
    Request <- Requests
    Application <- Applications
    Credential <- Credentials
    NoRequest = NoRequest
    NoApplication = NoApplication
    NoCredential = NoCredential
SYMMETRY Interchangeable
CHECK_DEADLOCK FALSE
INVARIANTS
    DataWasVerified
