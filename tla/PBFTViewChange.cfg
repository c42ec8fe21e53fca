CONSTANTS
    b1 = b1
    b2 = b2
    N = 4
    K = 2
    Batch = {b1, b2}
    Bad = {b2}
    Contact = {0}
    Started = {{0, 1, 2}}
    Resend = FALSE
    EarlyDelivery = TRUE
    MaxRounds = 2
    MaxRestarts = 1
SPECIFICATION Spec
INVARIANTS
    CommitQuorum
    
    StoredByMany
PROPERTIES
    
    LedgerSpec
ACTION_CONSTRAINTS
    Staggered
    OneRoundIfDisturbed
CHECK_DEADLOCK FALSE
