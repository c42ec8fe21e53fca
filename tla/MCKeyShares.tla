---------------------------- MODULE MCKeyShares ----------------------------
(***************************************************************************)
(* Two users, three KGCs of which two keep answering, groups of order 5.   *)
(***************************************************************************)
EXTENDS KeyShares, TLC

CONSTANTS u1, u2

MCUser == {u1, u2}
MCQid == u1 :> 2 @@ u2 :> 3
=============================================================================
