--------------------------- MODULE MCRequestPool ---------------------------
(* Two batches are committed while a ViewChange and a NewView delete the   *)
(* two requests of the first one.                                          *)
EXTENDS RequestPool

CONSTANTS c1, c2, v1, n1, a1, a2, b1

MCRequests == [h \in Handler |-> IF h = c2 THEN <<b1>> ELSE <<a1, a2>>]
=============================================================================
