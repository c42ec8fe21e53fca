SPECIFICATION Spec
CONSTANTS
    u1 = u1
    u2 = u2
    P = 5
    Threshold = 2
    KGC = 3
    Steady = {1, 3}
    User <- MCUser
    Qid <- MCQid
INVARIANTS SameKeyForAll EncryptedIsReadable SignedIsVerified
PROPERTY GetSkEnds
CHECK_DEADLOCK FALSE
