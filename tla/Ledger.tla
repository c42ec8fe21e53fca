------------------------------- MODULE Ledger -------------------------------
(***************************************************************************)
(* What the consensus of TJ_pbft/pbft promises about a batch, without      *)
(* messages, views or quorums: it is proposed, becomes certain once and    *)
(* for all unless a client signature in it is bad, and only a certain      *)
(* batch is executed at a node, only an executed one becomes a block.      *)
(* PBFT implements this specification (PBFTRefinement).                    *)
(***************************************************************************)
CONSTANTS Node, Batch, Bad

VARIABLES
    proposed,   \* batches some node has proposed
    certain,    \* batches a quorum has committed to
    executed,   \* executed[n]: batches node n has executed
    stored      \* stored[n]: batches that are a block of node n

ledgerVars == <<proposed, certain, executed, stored>>

Init ==
    /\ proposed = {}
    /\ certain = {}
    /\ executed = [n \in Node |-> {}]
    /\ stored = [n \in Node |-> {}]

Propose(d) ==
    /\ proposed' = proposed \cup {d}
    /\ UNCHANGED <<certain, executed, stored>>

Certify(d) ==
    /\ d \in proposed \ Bad
    /\ certain' = certain \cup {d}
    /\ UNCHANGED <<proposed, executed, stored>>

Execute(n, d) ==
    /\ d \in certain
    /\ executed' = [executed EXCEPT ![n] = @ \cup {d}]
    /\ UNCHANGED <<proposed, certain, stored>>

Store(n, d) ==
    /\ d \in certain
    /\ \E q \in Node : d \in executed[q]
    /\ stored' = [stored EXCEPT ![n] = @ \cup {d}]
    /\ UNCHANGED <<proposed, certain, executed>>

Next ==
    \/ \E d \in Batch : Propose(d) \/ Certify(d)
    \/ \E n \in Node, d \in Batch : Execute(n, d) \/ Store(n, d)

Spec == Init /\ [][Next]_ledgerVars
=============================================================================
