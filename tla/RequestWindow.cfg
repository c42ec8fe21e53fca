CONSTANTS
    r1 = r1
    r2 = r2
    r3 = r3
    m1 = m1
    Request = {r1, r2, m1}
    Malformed = {m1}
    ChanCap = 2
    NoOne = NoOne
SPECIFICATION LiveSpec
INVARIANTS
    WindowReopens
    QueueBalanced
    
PROPERTIES
    HandlersEnd
CHECK_DEADLOCK FALSE
