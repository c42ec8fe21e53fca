--------------------------- MODULE MCRequestWindow ---------------------------
(***************************************************************************)
(* Requests as model values; handlers of equal requests are symmetric.     *)
(***************************************************************************)
EXTENDS RequestWindow, TLC

CONSTANTS r1, r2, r3, m1

Symmetric == Permutations(Request \ Malformed)
=============================================================================
