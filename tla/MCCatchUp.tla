------------------------------ MODULE MCCatchUp ------------------------------
(***************************************************************************)
(* A node that lags behind and is told so by the checkpoints (K = 1: every *)
(* round reports one).  Nodes 0, 1, 2 run the rounds in one fixed order of *)
(* deliveries; node 3 is free to act or to lose any message whenever the   *)
(* others have come to rest.                                               *)
(***************************************************************************)
EXTENDS PBFT, TLC

CONSTANTS b1, b2

Orderly == 0 .. 2

Phase(m) ==
    CASE m.type = "PrePrepare" -> 0
      [] m.type = "Prepare"    -> 100
      [] m.type = "Commit"     -> 200
      [] m.type = "Reply"      -> 300
      [] OTHER                 -> 400

Place(n, m) == Phase(m) + 10 * m.from + n

(* n could handle m now. *)
Pending(n, m) ==
    /\ up[n] /\ m.from # n /\ m \notin rcvd[n]
    /\ m.type \in {"Reply", "NewData"} => m.to = n
    /\ m.type = "Prepare" => m.digest \in messagePool[n]
    /\ m.type = "Commit" => Prepared(n, m.digest)

AtRest == \A q \in Orderly, x \in msgs : ~Pending(q, x)

InOrder ==
    \A n \in Orderly : \A m \in rcvd'[n] \ rcvd[n] :
        \A q \in Orderly, x \in msgs : Pending(q, x) => Place(n, m) <= Place(q, x)

RoundsApart == (\E m \in msgs' \ msgs : m.type = "PrePrepare") => AtRest

(* Node 3 takes what it does not lose in the order of the sequence numbers. *)
Age(m) ==
    CASE m.type = "PrePrepare" -> 100 * m.seq
      [] m.type = "Prepare"    -> 100 * m.seq + 2
      [] m.type = "Commit"     -> 100 * m.seq + 4
      [] m.type = "CheckPoint" -> 100 * m.seq + 10
      [] m.type = "NewData"    -> 100 * m.udc.scp + 20
      [] OTHER                 -> 0

Lagging ==
    \A m \in rcvd'[3] \ rcvd[3] :
        /\ AtRest
        /\ m.type \in {"PrePrepare", "Prepare", "Commit", "CheckPoint", "NewData"}
        /\ \A x \in rcvd[3] : Age(x) <= Age(m)
=============================================================================
