CONSTANTS
    b1 = b1
    b2 = b2
    N = 4
    K = 2
    Batch = {b1, b2}
    Bad = {b2}
    Contact = {0}
    Started = {{0, 1, 2}, {0, 1, 2, 3}}
    Resend = FALSE
    EarlyDelivery = FALSE
    MaxRounds = 1
    MaxRestarts = 0
SPECIFICATION LiveSpec
INVARIANTS
    BadNeverCommitted
    ViewChangeQuorum

    
    
    
ACTION_CONSTRAINTS
    AllForBad
CHECK_DEADLOCK FALSE
