------------------------- MODULE MCDataAvailability -------------------------
(***************************************************************************)
(* Slices of 4 and of 8 values over the field of 257 elements, whose       *)
(* domain of 16 roots of unity contains the 2 that ErasureCodeRecover      *)
(* tries first.                                                            *)
(***************************************************************************)
EXTENDS DataAvailability, TLC

(* All that is computed before the check of the samples is linear in the   *)
(* data: the unit vectors stand for every slice, and a dense one is added. *)
Inputs(n) ==
    {Slice([i \in 0 .. n - 1 |-> IF i = k THEN 1 ELSE 0]) : k \in 0 .. n - 1}
        \cup {Slice([i \in 0 .. n - 1 |-> (3 * i * i + 100 * i + 7) % Modulus])}

MCData == Inputs(4) \cup Inputs(8)
MCCosetWidth == 4 :> {1} @@ 8 :> {2, 4}
=============================================================================
