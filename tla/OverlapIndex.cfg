CONSTANTS
    b1 = b1
    b2 = b2
    N = 4
    K = 2
    Batch = {b1, b2}
    Bad = {}
    Contact = {0}
    Started = {{0, 1, 2}}
    Resend = FALSE
    EarlyDelivery = FALSE
    MaxRounds = 2
    MaxRestarts = 0
SPECIFICATION Spec
INVARIANT
    IndexFollowsProposal
CHECK_DEADLOCK FALSE
