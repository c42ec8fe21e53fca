---------------------------- MODULE MCMetaStore ----------------------------
(***************************************************************************)
(* Two batches: the second moves a chip of the first one's data to another *)
(* node and adds data of its own.  A node that lags has missed both.       *)
(***************************************************************************)
EXTENDS MetaStore

CONSTANTS h1, h2, R, n1, n2, c1, c2, b1, b2

MCBatch == {b1, b2}
MCHash == {h1, h2}
MCNode == {n1, n2}
MCChip == {c1, c2}

Meta(h, n, m) == [DataHash |-> h, Reciver |-> R, StoreNode |-> (c1 :> n @@ c2 :> m)]

MCRequests == b1 :> <<Meta(h1, n1, n1)>> @@ b2 :> <<Meta(h1, n1, n2), Meta(h2, n2, n2)>>

MCNewdata == {<<b1, b2>>}

(* A node that has caught up is not asked to update NodeToHash.db, and one  *)
(* that was asked does not catch up.                                       *)
UpdateOrCatchUp == updates' = 0 \/ (isnewdata' = {} /\ SeqToGRdigest'[0] = Nil)
=============================================================================
