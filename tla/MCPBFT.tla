------------------------------- MODULE MCPBFT -------------------------------
(***************************************************************************)
(* Instances of PBFT with four nodes: batches as model values, and the     *)
(* pacing of the rounds that keeps the larger instances finite in time.    *)
(***************************************************************************)
EXTENDS PBFTRefinement, TLC

CONSTANTS b1, b2

NewRound == \E m \in msgs' \ msgs : m.type = "PrePrepare"

(* The next window closes after the previous batch has been stored: the    *)
(* windows are 55 s apart, a round usually takes less.                     *)
Paced ==
    NewRound => \A d \in Batch : Sent("PrePrepare", d) # {}
                                   => \E n \in Node : d \in Blocks(n)

(* The next window closes when the previous batch has been executed by     *)
(* some node; the rest of its round overlaps with the next one.            *)
Staggered ==
    NewRound => \A d \in Batch : Sent("PrePrepare", d) # {}
                                   => \E n \in Node : d \in executed[n]

(* A refused batch is proposed where all four nodes run, a good one where  *)
(* three do.                                                               *)
AllForBad ==
    \A m \in msgs' \ msgs :
        m.type = "PrePrepare" => (m.digest \in Bad <=> \A n \in Node : up[n])

(* Overtaking messages and restarts are left to the behaviours of one      *)
(* round.                                                                  *)
OneRoundIfDisturbed ==
    \/ Cardinality({m \in msgs' : m.type = "PrePrepare"}) <= 1
    \/ restarts' = 0 /\ \A n \in Node : taken'[n] = {} /\ main'[n] = "select"
=============================================================================
