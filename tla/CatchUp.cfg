CONSTANTS
    b1 = b1
    b2 = b2
    N = 4
    K = 1
    Batch = {b1, b2}
    Bad = {}
    Contact = {0}
    Started = {{0, 1, 2, 3}}
    Resend = FALSE
    EarlyDelivery = FALSE
    MaxRounds = 2
    MaxRestarts = 0
SPECIFICATION Spec
INVARIANTS
    TypeOK
    QuietView
    
    
ACTION_CONSTRAINTS
    RoundsApart
    InOrder
    Lagging
CHECK_DEADLOCK FALSE
