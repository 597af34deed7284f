SPECIFICATION Spec
CONSTANTS
    h1 = h1
    h2 = h2
    k1 = k1
    k2 = k2
    c1 = c1
    c2 = c2
    p1 = p1
    p2 = p2
    Holder <- TwoHolders
    Key <- TwoKeys
    KeyOwner <- OneEach
    Challenge <- TwoChallenges
    Process <- TwoProcesses
    NoHolder = NoHolder
    NoKey = NoKey
    NoChallenge = NoChallenge
    ServerKey = ServerKey
    TTL = 1
    MaxTime = 3
SYMMETRY Interchangeable
CHECK_DEADLOCK FALSE
INVARIANTS
    TypeOK
    EnrolledKeyIsOwned
    ChallengeRedeemedOnce
PROPERTIES
    DidIsBoundOnce
    ChallengeStaysRedeemable
