SPECIFICATION Spec
CONSTANTS
    f1 = f1
    f2 = f2
    t1 = t1
    t2 = t2
    t3 = t3
    t4 = t4
    p1 = p1
    p2 = p2
    p3 = p3
    Family <- OneFamily
    Token <- ThreeTokens
    Process <- ThreeProcesses
    NoFamily = NoFamily
    NoToken = NoToken
SYMMETRY Interchangeable
CHECK_DEADLOCK FALSE
INVARIANTS
    TypeOK
    RevokedFamilyIsDead
PROPERTIES
    ImplementsSessions
    ReplayEndsFamily
