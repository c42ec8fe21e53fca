SPECIFICATION Spec
CONSTANTS
    Modulus = 257
    PrimitiveRoot = 7
    PerLeafPoly = 2
    Secret = 11
    Data <- MCData
    CosetWidth <- MCCosetWidth
INVARIANTS
    ExtensionHalvesDegree
    CommitmentsAgree
    SingleProofsAgree
    SamplesVerify
    TakenAsSent
    RecoveredFromHalf
    LegacyAgrees
CHECK_DEADLOCK FALSE
