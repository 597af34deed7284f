SPECIFICATION Spec
CONSTANTS
    owner = owner
    p1 = p1
    p2 = p2
    Owner <- OneOwner
    NoOwner = NoOwner
    Process <- TwoProcesses
    MaxVersion = 4
    MaxAttempts = 3
SYMMETRY Interchangeable
INVARIANTS
    OneActiveKey
    ProofNamesItsKey
    RetriesNeedChanges
    ClientCustodyKept
PROPERTIES
    KeysAreAppendOnly
    ImplementsKeyHistory
