----------------------------- MODULE MCJoinNode -----------------------------
(***************************************************************************)
(* Four members, the running ones interchangeable, and two joiners.        *)
(***************************************************************************)
EXTENDS JoinNode, TLC

CONSTANTS n1, n2, n3, n4, j1, j2

Symmetric == Permutations(Running) \cup Permutations(Joiner)

(* One member at most is given an AddNode too early: its process ends.     *)
OneOvertakes ==
    Cardinality({n \in Running : main'[n] # "select" \/ taken'[n] # {}}) <= 1
=============================================================================
