CONSTANTS
    n1 = n1
    n2 = n2
    n3 = n3
    n4 = n4
    j1 = j1
    j2 = j2
    Member = {n1, n2, n3, n4}
    Running = {n1, n2, n3, n4}
    Joiner = {j1}
    EarlyDelivery = TRUE
SPECIFICATION Spec
INVARIANTS
    AdmittedByQuorum
    ListedOnce
    JoinedIsKnown
SYMMETRY Symmetric
ACTION_CONSTRAINT OneOvertakes
CHECK_DEADLOCK FALSE
