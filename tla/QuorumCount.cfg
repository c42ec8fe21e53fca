CONSTANTS
    p1 = p1
    p2 = p2
    p3 = p3
    c1 = c1
    c2 = c2
    c3 = c3
    Preparer = {p1, p2, p3}
    Committer = {c1, c2, c3}
    specifiedCount = 2
    f = 1
SPECIFICATION Spec
INVARIANTS
    NoQuorumMissed
    ActedOnce
    ExecutedOnQuorum
SYMMETRY Symmetric
CHECK_DEADLOCK FALSE
