---------------------------- MODULE MCQuorumCount ----------------------------
(***************************************************************************)
(* Three Prepares and three Commits arrive; the senders of either kind     *)
(* are interchangeable.                                                    *)
(***************************************************************************)
EXTENDS QuorumCount, TLC

CONSTANTS p1, p2, p3, c1, c2, c3

Symmetric == Permutations(Preparer) \cup Permutations(Committer)
=============================================================================
