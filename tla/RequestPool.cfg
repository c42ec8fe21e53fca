CONSTANTS
    c1 = c1
    c2 = c2
    v1 = v1
    n1 = n1
    a1 = a1
    a2 = a2
    b1 = b1
    Commit = {c1, c2}
    ViewChange = {v1}
    NewView = {n1}
    Requests <- MCRequests
    MaxSpare = 2
SPECIFICATION Spec
INVARIANT LockReleased
CHECK_DEADLOCK FALSE
