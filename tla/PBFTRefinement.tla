--------------------------- MODULE PBFTRefinement ---------------------------
(***************************************************************************)
(* PBFT implements Ledger: a batch is certain when 2f+1 nodes have         *)
(* broadcast a Commit for it, and stored where it is a block.              *)
(***************************************************************************)
EXTENDS PBFT

proposedBatches == {d \in Batch : Sent("PrePrepare", d) # {}}
certainBatches  == {d \in Batch : Cardinality(Senders("Commit", d)) >= 2 * f + 1}
storedBatches   == [n \in Node |-> Blocks(n)]

L == INSTANCE Ledger WITH
       Node <- Node, Batch <- Batch, Bad <- Bad,
       proposed <- proposedBatches, certain <- certainBatches,
       executed <- executed, stored <- storedBatches

(* Every behaviour of the nodes is one of the ledger: proposing, reaching  *)
(* the quorum, executing and storing a batch happen in that order, one at  *)
(* a time, and nothing of it is ever undone.                               *)
LedgerSpec == L!Spec
=============================================================================
