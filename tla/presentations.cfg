SPECIFICATION Spec
CONSTANTS
    cgpa = cgpa
    university = university
    Blank = Blank
    Claim <- BothClaims
    University = university
    Optional <- OnlyCgpa
    MaxList = 2
    MaxEvents = 2
INVARIANTS
    BlameIsRight
    FailureHasCause
    DeliveredAsAgreed
PROPERTIES
    
    SuccessWasDue
CHECK_DEADLOCK FALSE
