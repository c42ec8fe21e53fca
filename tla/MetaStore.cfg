SPECIFICATION Spec
CONSTANTS
    h1 = h1
    h2 = h2
    R = R
    n1 = n1
    n2 = n2
    c1 = c1
    c2 = c2
    b1 = b1
    b2 = b2
    Batch <- MCBatch
    Requests <- MCRequests
    Hash <- MCHash
    Reciver = {R}
    Node <- MCNode
    Chip <- MCChip
    SequenceID = {1}
    Newdata <- MCNewdata
    Nil = Nil
    MaxUpdata = 1
    MaxCrashes = 1
INVARIANTS LookupSucceeds TakenIsStored RepeatedByCrashOnly StoredIsListed
PROPERTY StorageEnds
ACTION_CONSTRAINT UpdateOrCatchUp
CHECK_DEADLOCK FALSE
