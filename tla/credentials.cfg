SPECIFICATION Spec
CONSTANTS
    a1 = a1
    c1 = c1
    c2 = c2
    i1 = i1
    p1 = p1
    p2 = p2
    p3 = p3
    Record <- OneRecord
    Credential <- OneCredential
    Issuer <- OneIssuer
    Process <- TwoProcesses
    NoRecord = NoRecord
    NoCredential = NoCredential
    NoIssuer = NoIssuer
    MaxTime = 2
    MaxHistory = 5
SYMMETRY Interchangeable
INVARIANTS
    HistoryTellsStatus
    TrustLogTellsStatus
PROPERTIES
    RevokedIsFinal
    NothingExpiredIsReactivated
