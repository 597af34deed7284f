SPECIFICATION Spec
CONSTANTS
    Instance = {i1, i2}
    KeyId = {"v1", "v2"}
    A = A
    B = B
    C = C
    M = M
    Bytes = {A, B, C, M}
    NotHex = NotHex
    NoKey = NoKey
    Environment <- MCEnvironment
    MaxRows = 3
SYMMETRY Symmetry
INVARIANTS
    StartedCanEncrypt
    PurposesHaveOwnKeys
    RowsOutliveRotations
    DomainsAreSeparate
