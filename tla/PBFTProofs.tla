----------------------------- MODULE PBFTProofs -----------------------------
(***************************************************************************)
(* What PBFT keeps for every number of nodes, every set of batches and     *)
(* whatever is lost, overtaken, forgotten or restarted, in three parts.    *)
(*                                                                         *)
(* 1. Types, one lemma per handler, and what the arithmetic and the        *)
(*    choices of the handlers come to.                                     *)
(* 2. Safety: nothing is executed or stored without a quorum, and no batch *)
(*    with a bad signature ever is.                                        *)
(* 3. What the caches, the sequence numbers, the views and the counted     *)
(*    answers are worth, and that PBFT implements Ledger.                  *)
(***************************************************************************)
EXTENDS PBFTRefinement, FiniteSetTheorems, SequenceTheorems, TLAPS

USE NAssumption, KAssumption

-----------------------------------------------------------------------------
(* Arithmetic of nodes and slots.                                          *)

(* There are nodes 0, .., N-1, and f of them is a natural number.          *)
LEMMA NodeFacts ==
    /\ N \in Nat /\ f \in Nat
    /\ Node \subseteq Nat
    /\ \A v \in Node : (v + 1) % N \in Node
    /\ 0 \in Node
  BY DEF Node, f

(* The slot `sequenceID % K` of arrayTodigest exists.                      *)
LEMMA SlotFacts == \A s \in Nat : s % K \in 0 .. K - 1
  OBVIOUS

(* Changing one slot of one node's array, counter or set.                  *)
LEMMA SlotUpdate ==
    ASSUME NEW A, NEW B, NEW C, NEW F \in [A -> [B -> C]],
           NEW a \in A, NEW b \in B, NEW c \in C
    PROVE  [F EXCEPT ![a][b] = c] \in [A -> [B -> C]]
  OBVIOUS

(* Updating one node of a function on the nodes keeps its type.            *)
LEMMA NodeUpdate ==
    ASSUME NEW A, NEW C, NEW F \in [A -> C], NEW a \in A, NEW c \in C
    PROVE  [F EXCEPT ![a] = c] \in [A -> C]
  OBVIOUS

(* The type of a message tells its fields.                                 *)
LEMMA MessageFields ==
    ASSUME NEW m \in Message
    PROVE  /\ m.type = "PrePrepare" => m \in PrePrepares
           /\ m.type = "Prepare" => m \in Prepares
           /\ m.type = "Commit" => m \in Commits
           /\ m.type = "Reply" => m \in Replies
           /\ m.type = "CheckPoint" => m \in CheckPoints
           /\ m.type = "UpData" => m \in UpDatas
           /\ m.type = "NewData" => m \in NewDatas
           /\ m.type = "ViewChange" => m \in ViewChanges
           /\ m.type = "NewView" => m \in NewViews
  BY DEF Message, PrePrepares, Prepares, Commits, Replies, CheckPoints,
         UpDatas, NewDatas, ViewChanges, NewViews

-----------------------------------------------------------------------------
(* NewPBFT and the package variables start with their types.               *)
LEMMA InitTypeOK == Init => TypeOK
  BY NodeFacts DEF Init, TypeOK, TypeNet, TypeProc, TypeRound, TypeView,
                   TypeCkpt, TypeDb

(* Sending well-formed messages keeps the network's and the processes'     *)
(* types; the sets that refer to msgs only see it grow.                    *)
LEMMA SendType ==
    ASSUME TypeNet, NEW n \in Node, NEW S \in SUBSET Message, Send(n, S)
    PROVE  /\ msgs \subseteq msgs'
           /\ msgs' \subseteq Message
           /\ nr' \in [Node -> Nat]
  BY DEF TypeNet, Send

(* Handing a message to a handler keeps the type of the network.           *)
LEMMA DeliverType ==
    ASSUME TypeNet, NEW n \in Node, NEW m \in msgs, NEW t, Deliver(n, m, t),
           msgs \subseteq msgs', msgs' \subseteq Message, nr' \in [Node -> Nat]
    PROVE  TypeNet'
  BY DEF TypeNet, Deliver

(* The types of the process state survive a step that leaves it alone.     *)
LEMMA ProcSame ==
    ASSUME TypeProc, UNCHANGED procVars, msgs \subseteq msgs'
    PROVE  TypeProc'
  BY DEF TypeProc, procVars

(* So do those of the checkpoint state.                                    *)
LEMMA CkptSame ==
    ASSUME TypeCkpt, UNCHANGED ckptVars, msgs \subseteq msgs'
    PROVE  TypeCkpt'
  BY DEF TypeCkpt, ckptVars

(* Proposing a batch keeps the types.                                      *)
LEMMA handleRequestsType ==
    ASSUME TypeOK, NEW n \in Node, NEW d \in Batch, handleRequests(n, d)
    PROVE  TypeOK'
<1> USE DEF TypeOK, handleRequests
<1>1. Propose(n, d, sequenceID[n] + 1)
  OBVIOUS
<1>2. sequenceID[n] \in Nat /\ nr[n] \in Nat /\ M_node[n] \in Node
  BY DEF TypeRound, TypeNet, TypeView
<1>3. /\ msgs \subseteq msgs'
      /\ msgs' \subseteq Message
      /\ nr' \in [Node -> Nat]
  <2> DEFINE m == [type |-> "PrePrepare", from |-> n, nr |-> nr[n], digest |-> d,
                   seq |-> sequenceID[n] + 1, view |-> M_node[n]]
  <2>1. m \in PrePrepares
    BY <1>2 DEF PrePrepares
  <2>2. {m} \in SUBSET Message
    BY <2>1 DEF Message
  <2>3. Send(n, {m})
    BY <1>1 DEF Propose
  <2> QED BY <2>2, <2>3, SendType
<1>4. TypeNet'
  BY <1>3 DEF TypeNet
<1>5. TypeRound'
  <2>1. arrayTodigest' \in [Node -> [0 .. K - 1 -> Batch \cup {Empty}]]
    <3>1. sequenceID[n] % K \in 0 .. K - 1
      BY <1>2, SlotFacts
    <3>2. [arrayTodigest EXCEPT ![n][sequenceID[n] % K] = d]
            \in [Node -> [0 .. K - 1 -> Batch \cup {Empty}]]
      BY <3>1, SlotUpdate DEF TypeRound
    <3> QED BY <3>2
  <2> QED BY <2>1, <1>2 DEF TypeRound
<1>6. TypeProc' /\ TypeCkpt'
  BY <1>3, ProcSame, CkptSame
<1>7. TypeView' /\ TypeDb'
  BY DEF TypeView, TypeDb, viewVars, dbVars
<1> QED BY <1>4, <1>5, <1>6, <1>7

(* A catch-up request and a ViewChange are well-formed messages.           *)
LEMMA CatchUpRequestType ==
    ASSUME TypeOK, NEW n \in Node, NEW m \in PrePrepares
    PROVE  CatchUpRequest(n, m) \subseteq UpDatas
<1>1. sequenceID[n] \in Nat /\ nr[n] \in Nat /\ m.seq \in Nat
  BY DEF TypeOK, TypeRound, TypeNet, PrePrepares
<1> QED BY <1>1 DEF CatchUpRequest, UpDatas

(* handleException sends a ViewChange message.                             *)
LEMMA ViewChangeMsgType ==
    ASSUME NEW n \in Node, NEW k \in Nat, NEW d \in Batch
    PROVE  ViewChangeMsg(n, k, d) \in ViewChanges
  BY DEF ViewChangeMsg, ViewChanges

(* handleException keeps the types.                                        *)
LEMMA handleExceptionType ==
    ASSUME TypeView, NEW n \in Node, NEW d \in Batch, handleException(n, d)
    PROVE  TypeView'
<1>1. viewchangeCount[n][d] + 1 \in Nat
  BY DEF TypeView
<1>2. viewchangeCount' = [viewchangeCount EXCEPT ![n][d] = viewchangeCount[n][d] + 1]
  BY DEF handleException
<1>3. viewchangeCount' \in [Node -> [Batch -> Nat]]
  BY <1>1, <1>2, SlotUpdate DEF TypeView
<1> QED BY <1>3 DEF TypeView, handleException

(* Taking or refusing a PrePrepare, after a catch-up request or not, keeps *)
(* the types.                                                              *)
LEMMA handlePrePrepareType ==
    ASSUME TypeOK, NEW n \in Node, NEW m \in msgs, handlePrePrepare(n, m)
    PROVE  TypeOK'
<1>1. m \in PrePrepares
  BY MessageFields DEF handlePrePrepare, Deliver, TypeOK, TypeNet
<1>2. /\ m.digest \in Batch /\ m.seq \in Nat /\ m.view \in Node
      /\ nr[n] \in Nat /\ nr[n] + 1 \in Nat /\ sequenceID[n] \in Nat
  BY <1>1 DEF PrePrepares, TypeOK, TypeNet, TypeRound
<1>3. CatchUpRequest(n, m) \subseteq Message
  BY <1>1, CatchUpRequestType DEF Message
<1>4. CASE AcceptPrePrepare(n, m)
  <2> DEFINE p == [type |-> "Prepare", from |-> n, nr |-> nr[n] + 1,
                   digest |-> m.digest, seq |-> m.seq, view |-> m.view]
  <2>1. p \in Prepares
    BY <1>2 DEF Prepares
  <2>2. CatchUpRequest(n, m) \cup {p} \in SUBSET Message
    BY <1>3, <2>1 DEF Message
  <2>3. Send(n, CatchUpRequest(n, m) \cup {p})
    BY <1>4 DEF AcceptPrePrepare
  <2>4. msgs \subseteq msgs' /\ msgs' \subseteq Message /\ nr' \in [Node -> Nat]
    BY <2>2, <2>3, SendType DEF TypeOK
  <2>5. TypeNet'
    BY <2>4, DeliverType DEF handlePrePrepare, TypeOK
  <2>6. arrayTodigest' \in [Node -> [0 .. K - 1 -> Batch \cup {Empty}]]
    <3>1. sequenceID[n] % K \in 0 .. K - 1
      BY <1>2, SlotFacts
    <3>2. [arrayTodigest EXCEPT ![n][sequenceID[n] % K] = m.digest]
            \in [Node -> [0 .. K - 1 -> Batch \cup {Empty}]]
      BY <1>2, <3>1, SlotUpdate DEF TypeOK, TypeRound
    <3> QED BY <1>4, <3>2 DEF AcceptPrePrepare
  <2>7. TypeRound'
    BY <1>2, <1>4, <2>6
    DEF AcceptPrePrepare, handlePrePrepare, TypeOK, TypeRound
  <2>8. TypeProc' /\ TypeCkpt'
    BY <2>4, ProcSame, CkptSame DEF handlePrePrepare, TypeOK
  <2>9. TypeView' /\ TypeDb'
    BY <1>4 DEF AcceptPrePrepare, handlePrePrepare, TypeOK, TypeView, TypeDb,
                viewVars, dbVars
  <2> QED BY <2>5, <2>7, <2>8, <2>9 DEF TypeOK
<1>5. CASE RefusePrePrepare(n, m)
  <2> DEFINE v == ViewChangeMsg(n, nr[n] + 1, m.digest)
  <2>1. CatchUpRequest(n, m) \cup {v} \in SUBSET Message
    BY <1>2, <1>3, ViewChangeMsgType DEF Message
  <2>2. msgs \subseteq msgs' /\ msgs' \subseteq Message /\ nr' \in [Node -> Nat]
    BY <1>5, <2>1, SendType DEF RefusePrePrepare, TypeOK
  <2>3. TypeNet'
    BY <2>2, DeliverType DEF handlePrePrepare, TypeOK
  <2>4. TypeView'
    BY <1>2, <1>5, handleExceptionType DEF RefusePrePrepare, TypeOK
  <2>5. TypeRound' /\ TypeDb'
    BY <1>5 DEF RefusePrePrepare, handlePrePrepare, TypeOK, TypeRound, TypeDb,
                dbVars
  <2>6. TypeProc' /\ TypeCkpt'
    BY <2>2, ProcSame, CkptSame DEF handlePrePrepare, TypeOK
  <2> QED BY <2>3, <2>4, <2>5, <2>6 DEF TypeOK
<1> QED BY <1>4, <1>5 DEF handlePrePrepare

(* The parts of handlePrepare and handleCommit that main's select also     *)
(* runs: they leave the network's delivery record and the process alone.   *)
LEMMA WrongViewType ==
    ASSUME TypeOK, NEW n \in Node, NEW m \in msgs, m.digest \in Batch,
           WrongView(n, m)
    PROVE  /\ msgs \subseteq msgs' /\ msgs' \subseteq Message
           /\ nr' \in [Node -> Nat]
           /\ TypeRound' /\ TypeView' /\ TypeCkpt' /\ TypeDb'
<1> DEFINE S == IF m.from = M_node[n]
                THEN {ViewChangeMsg(n, nr[n], m.digest)} ELSE {}
<1>1. nr[n] \in Nat
  BY DEF TypeOK, TypeNet
<1>2. S \in SUBSET Message
  BY <1>1, ViewChangeMsgType DEF Message
<1>3. Send(n, S)
  BY DEF WrongView
<1>4. msgs \subseteq msgs' /\ msgs' \subseteq Message /\ nr' \in [Node -> Nat]
  BY <1>2, <1>3, SendType DEF TypeOK
<1>5. TypeView'
  BY handleExceptionType DEF WrongView, TypeOK
<1>6. TypeRound' /\ TypeDb'
  BY DEF WrongView, TypeOK, TypeRound, TypeDb, roundVars, dbVars
<1>7. TypeCkpt'
  BY <1>4, CkptSame DEF WrongView, TypeOK
<1> QED BY <1>4, <1>5, <1>6, <1>7

(* Counting a Prepare for a pooled batch keeps the types.                  *)
LEMMA PreparePooledType ==
    ASSUME TypeOK, NEW n \in Node, NEW m \in msgs, m.type = "Prepare",
           PreparePooled(n, m)
    PROVE  /\ msgs \subseteq msgs' /\ msgs' \subseteq Message
           /\ nr' \in [Node -> Nat]
           /\ TypeRound' /\ TypeView' /\ TypeCkpt' /\ TypeDb'
<1>1. /\ m.digest \in Batch /\ m.seq \in Nat /\ m.view \in Node /\ m.from \in Node
      /\ nr[n] \in Nat /\ sequenceID[n] \in Nat
  BY MessageFields DEF Prepares, TypeOK, TypeNet, TypeRound
<1>2. CASE CountPrepare(n, m)
  <2> DEFINE c == [type |-> "Commit", from |-> n, nr |-> nr[n],
                   digest |-> m.digest, seq |-> sequenceID[n], view |-> m.view]
  <2>1. {c} \in SUBSET Message
    BY <1>1 DEF Message, Commits
  <2>2. Send(n, {c}) \/ UNCHANGED <<msgs, nr>>
    BY <1>2 DEF CountPrepare
  <2>3. msgs \subseteq msgs' /\ msgs' \subseteq Message /\ nr' \in [Node -> Nat]
    BY <2>1, <2>2, SendType DEF TypeOK, TypeNet
  <2>4. prePareConfirmCount' \in [Node -> [Batch -> SUBSET Node]]
    <3>1. prePareConfirmCount[n][m.digest] \cup {m.from} \in SUBSET Node
      BY <1>1 DEF TypeOK, TypeRound
    <3>2. prePareConfirmCount' = [prePareConfirmCount EXCEPT ![n][m.digest] =
                                    prePareConfirmCount[n][m.digest] \cup {m.from}]
      BY <1>2 DEF CountPrepare
    <3> QED BY <1>1, <3>1, <3>2, SlotUpdate DEF TypeOK, TypeRound
  <2>5. isCommitBordcast' \in [Node -> SUBSET Batch]
    <3>1. \/ isCommitBordcast' = isCommitBordcast
          \/ isCommitBordcast' = [isCommitBordcast EXCEPT ![n] =
                                    isCommitBordcast[n] \cup {m.digest}]
      BY <1>2 DEF CountPrepare
    <3>2. isCommitBordcast[n] \cup {m.digest} \in SUBSET Batch
      BY <1>1 DEF TypeOK, TypeRound
    <3>3. isCommitBordcast \in [Node -> SUBSET Batch]
      BY DEF TypeOK, TypeRound
    <3> QED BY <3>1, <3>2, <3>3
  <2>6. TypeRound'
    BY <1>2, <2>4, <2>5 DEF CountPrepare, TypeOK, TypeRound
  <2>7. TypeCkpt'
    BY <1>2, <2>3, CkptSame DEF CountPrepare, TypeOK
  <2>8. TypeView' /\ TypeDb'
    BY <1>2 DEF CountPrepare, TypeOK, TypeView, TypeDb, viewVars, dbVars
  <2> QED BY <2>3, <2>6, <2>7, <2>8
<1>3. CASE WrongView(n, m)
  BY <1>1, <1>3, WrongViewType
<1> QED BY <1>2, <1>3 DEF PreparePooled

(* Counting a Commit, executing with it or not, keeps the types.           *)
LEMMA CommitPreparedType ==
    ASSUME TypeOK, NEW n \in Node, NEW m \in msgs, m.type = "Commit",
           CommitPrepared(n, m)
    PROVE  /\ msgs \subseteq msgs' /\ msgs' \subseteq Message
           /\ nr' \in [Node -> Nat]
           /\ TypeRound' /\ TypeView' /\ TypeCkpt' /\ TypeDb'
<1>0. m \in Commits
  BY MessageFields DEF TypeOK, TypeNet
<1>1. /\ m.digest \in Batch /\ m.seq \in Nat /\ m.view \in Node /\ m.from \in Node
      /\ nr[n] \in Nat /\ nr[n] + 1 \in Nat /\ sequenceID[n] \in Nat
      /\ M_node[n] \in Node
  <2>1. m.digest \in Batch /\ m.seq \in Nat /\ m.view \in Node /\ m.from \in Node
    BY <1>0 DEF Commits
  <2>2. nr[n] \in Nat /\ sequenceID[n] \in Nat /\ M_node[n] \in Node
    BY DEF TypeOK, TypeNet, TypeRound, TypeView
  <2> QED BY <2>1, <2>2
<1>2. CASE CountCommit(n, m)
  <2>1. commitConfirmCount' \in [Node -> [Batch -> SUBSET Node]]
    <3>1. commitConfirmCount[n][m.digest] \cup {m.from} \in SUBSET Node
      BY <1>1 DEF TypeOK, TypeRound
    <3>2. commitConfirmCount' = [commitConfirmCount EXCEPT ![n][m.digest] =
                                    commitConfirmCount[n][m.digest] \cup {m.from}]
      BY <1>2 DEF CountCommit
    <3>3. commitConfirmCount \in [Node -> [Batch -> SUBSET Node]]
      BY DEF TypeOK, TypeRound
    <3> QED BY <1>1, <3>1, <3>2, <3>3, SlotUpdate
  <2>2. CASE Execute(n, m)
    <3> DEFINE R == IF n = M_node[n] THEN {}
                    ELSE {[type |-> "Reply", from |-> n, nr |-> nr[n],
                           to |-> M_node[n], digest |-> m.digest, seq |-> m.seq]}
               C == IF sequenceID[n] % K = 0
                    THEN {[type |-> "CheckPoint", from |-> n, nr |-> nr[n] + 1,
                           seq |-> sequenceID[n]]}
                    ELSE {}
    <3>1. R \subseteq Replies /\ C \subseteq CheckPoints
      BY <1>1 DEF Replies, CheckPoints
    <3>2. R \cup C \in SUBSET Message
      BY <3>1 DEF Message
    <3>3. Send(n, R \cup C)
      BY <2>2 DEF Execute
    <3>4. msgs \subseteq msgs' /\ msgs' \subseteq Message /\ nr' \in [Node -> Nat]
      BY <3>2, <3>3, SendType DEF TypeOK
    <3>5. replyConfireCount' \in [Node -> [Batch -> Nat]]
      <4>1. replyConfireCount[n][m.digest] + 1 \in Nat
        BY <1>1 DEF TypeOK, TypeRound
      <4>2. \/ replyConfireCount' = replyConfireCount
            \/ replyConfireCount' = [replyConfireCount EXCEPT ![n][m.digest] =
                                       replyConfireCount[n][m.digest] + 1]
        BY <2>2 DEF Execute
      <4>3. replyConfireCount \in [Node -> [Batch -> Nat]]
        BY DEF TypeOK, TypeRound
      <4>4. [replyConfireCount EXCEPT ![n][m.digest] =
               replyConfireCount[n][m.digest] + 1] \in [Node -> [Batch -> Nat]]
        BY <1>1, <4>1, <4>3, SlotUpdate
      <4> QED BY <4>2, <4>3, <4>4
    <3>6. /\ isReply' \in [Node -> SUBSET Batch]
          /\ localMessagePool' \in [Node -> SUBSET Batch]
          /\ executed' \in [Node -> SUBSET Batch]
      BY <1>1, <2>2 DEF Execute, TypeOK, TypeRound
    <3>7. TypeRound'
      BY <1>2, <2>1, <3>5, <3>6 DEF CountCommit, TypeOK, TypeRound
    <3>8. TypeCkpt'
      BY <1>2, <3>4, CkptSame DEF CountCommit, TypeOK
    <3>9. TypeView' /\ TypeDb'
      BY <1>2 DEF CountCommit, TypeOK, TypeView, TypeDb, viewVars, dbVars
    <3> QED BY <3>4, <3>7, <3>8, <3>9
  <2>3. CASE UNCHANGED <<isReply, localMessagePool, executed, msgs, nr,
                         replyConfireCount>>
    <3>1. msgs \subseteq msgs' /\ msgs' \subseteq Message /\ nr' \in [Node -> Nat]
      BY <2>3 DEF TypeOK, TypeNet
    <3>2. TypeRound'
      BY <1>2, <2>1, <2>3 DEF CountCommit, TypeOK, TypeRound
    <3>3. TypeCkpt'
      BY <1>2, <3>1, CkptSame DEF CountCommit, TypeOK
    <3>4. TypeView' /\ TypeDb'
      BY <1>2 DEF CountCommit, TypeOK, TypeView, TypeDb, viewVars, dbVars
    <3> QED BY <3>1, <3>2, <3>3, <3>4
  <2> QED BY <1>2, <2>2, <2>3 DEF CountCommit
<1>3. CASE WrongView(n, m)
  BY <1>1, <1>3, WrongViewType
<1> QED BY <1>2, <1>3 DEF CommitPrepared

(* Putting a message in the channel of main keeps the types.               *)
LEMMA DeferType ==
    ASSUME TypeOK, NEW n \in Node, NEW m \in msgs,
           m.type \in {"Prepare", "Commit"}, DeferToMain(n, m)
    PROVE  /\ msgs \subseteq msgs' /\ msgs' \subseteq Message
           /\ nr' \in [Node -> Nat]
           /\ TypeProc' /\ TypeRound' /\ TypeView' /\ TypeCkpt' /\ TypeDb'
<1>1. msgs' = msgs /\ nr' = nr
  BY DEF DeferToMain
<1>2. TypeProc'
  BY <1>1 DEF DeferToMain, TypeOK, TypeProc
<1>3. TypeRound' /\ TypeView' /\ TypeDb'
  BY DEF DeferToMain, TypeOK, TypeRound, TypeView, TypeDb, roundVars, viewVars,
         dbVars
<1>4. TypeCkpt'
  BY <1>1, CkptSame DEF DeferToMain, TypeOK
<1> QED BY <1>1, <1>2, <1>3, <1>4 DEF TypeOK, TypeNet

(* handlePrepare keeps the types.                                          *)
LEMMA handlePrepareType ==
    ASSUME TypeOK, NEW n \in Node, NEW m \in msgs, handlePrepare(n, m)
    PROVE  TypeOK'
<1>1. m.type = "Prepare"
  BY DEF handlePrepare, Deliver
<1>2. CASE PreparePooled(n, m) /\ UNCHANGED procVars
  <2>1. /\ msgs \subseteq msgs' /\ msgs' \subseteq Message /\ nr' \in [Node -> Nat]
        /\ TypeRound' /\ TypeView' /\ TypeCkpt' /\ TypeDb'
    BY <1>1, <1>2, PreparePooledType
  <2>2. TypeProc'
    BY <1>2, <2>1, ProcSame DEF TypeOK
  <2>3. TypeNet'
    BY <2>1, DeliverType DEF handlePrepare, TypeOK
  <2> QED BY <2>1, <2>2, <2>3 DEF TypeOK
<1>3. CASE DeferToMain(n, m)
  <2>1. /\ msgs \subseteq msgs' /\ msgs' \subseteq Message /\ nr' \in [Node -> Nat]
        /\ TypeProc' /\ TypeRound' /\ TypeView' /\ TypeCkpt' /\ TypeDb'
    BY <1>1, <1>3, DeferType
  <2>2. TypeNet'
    BY <2>1, DeliverType DEF handlePrepare, TypeOK
  <2> QED BY <2>1, <2>2 DEF TypeOK
<1> QED BY <1>2, <1>3 DEF handlePrepare

(* handleCommit keeps the types.                                           *)
LEMMA handleCommitType ==
    ASSUME TypeOK, NEW n \in Node, NEW m \in msgs, handleCommit(n, m)
    PROVE  TypeOK'
<1>1. m.type = "Commit"
  BY DEF handleCommit, Deliver
<1>2. CASE CommitPrepared(n, m) /\ UNCHANGED procVars
  <2>1. /\ msgs \subseteq msgs' /\ msgs' \subseteq Message /\ nr' \in [Node -> Nat]
        /\ TypeRound' /\ TypeView' /\ TypeCkpt' /\ TypeDb'
    BY <1>1, <1>2, CommitPreparedType
  <2>2. TypeProc'
    BY <1>2, <2>1, ProcSame DEF TypeOK
  <2>3. TypeNet'
    BY <2>1, DeliverType DEF handleCommit, TypeOK
  <2> QED BY <2>1, <2>2, <2>3 DEF TypeOK
<1>3. CASE DeferToMain(n, m)
  <2>1. /\ msgs \subseteq msgs' /\ msgs' \subseteq Message /\ nr' \in [Node -> Nat]
        /\ TypeProc' /\ TypeRound' /\ TypeView' /\ TypeCkpt' /\ TypeDb'
    BY <1>1, <1>3, DeferType
  <2>2. TypeNet'
    BY <2>1, DeliverType DEF handleCommit, TypeOK
  <2> QED BY <2>1, <2>2 DEF TypeOK
<1> QED BY <1>2, <1>3 DEF handleCommit
(* main's select: the handlers again, on a message received earlier.       *)
LEMMA mainSelectType ==
    ASSUME TypeOK, NEW n \in Node, mainSelect(n)
    PROVE  TypeOK'
<1>1. PICK m \in taken[n] :
        \/ m.type = "Prepare" /\ PreparePooled(n, m)
        \/ m.type = "Commit" /\ CommitPrepared(n, m)
        \/ UNCHANGED <<msgs, nr, roundVars, viewVars, ckptVars, dbVars>>
  BY DEF mainSelect
<1>2. m \in msgs
  BY <1>1 DEF TypeOK, TypeProc
<1>3. /\ msgs \subseteq msgs' /\ msgs' \subseteq Message /\ nr' \in [Node -> Nat]
      /\ TypeRound' /\ TypeView' /\ TypeCkpt' /\ TypeDb'
  <2>1. CASE m.type = "Prepare" /\ PreparePooled(n, m)
    BY <1>2, <2>1, PreparePooledType
  <2>2. CASE m.type = "Commit" /\ CommitPrepared(n, m)
    BY <1>2, <2>2, CommitPreparedType
  <2>3. CASE UNCHANGED <<msgs, nr, roundVars, viewVars, ckptVars, dbVars>>
    <3>1. msgs \subseteq msgs' /\ msgs' \subseteq Message /\ nr' \in [Node -> Nat]
      BY <2>3 DEF TypeOK, TypeNet
    <3>2. TypeRound' /\ TypeView' /\ TypeDb'
      BY <2>3 DEF TypeOK, TypeRound, TypeView, TypeDb, roundVars, viewVars, dbVars
    <3> QED BY <2>3, <3>1, <3>2, CkptSame DEF TypeOK
  <2> QED BY <1>1, <2>1, <2>2, <2>3
<1>4. TypeNet'
  BY <1>3 DEF mainSelect, TypeOK, TypeNet
<1>5. TypeProc'
  BY <1>3 DEF mainSelect, TypeOK, TypeProc
<1> QED BY <1>3, <1>4, <1>5 DEF TypeOK

(* The end of the process keeps the types.                                 *)
LEMMA mainReturnType ==
    ASSUME TypeOK, NEW n \in Node, mainReturn(n)
    PROVE  TypeOK'
<1>1. TypeNet' /\ TypeProc'
  BY DEF mainReturn, TypeOK, TypeNet, TypeProc, netVars
<1>2. TypeRound' /\ TypeView' /\ TypeDb'
  BY DEF mainReturn, TypeOK, TypeRound, TypeView, TypeDb, roundVars, viewVars, dbVars
<1>3. TypeCkpt'
  BY CkptSame DEF mainReturn, TypeOK, netVars
<1> QED BY <1>1, <1>2, <1>3 DEF TypeOK

(* Writing one key of one node's table, appending to its chain.            *)
LEMMA handleBlockStorageType ==
    ASSUME TypeDb, NEW n \in Node, NEW d \in Batch, NEW s \in Nat,
           handleBlockStorage(n, d, s)
    PROVE  TypeDb'
<1>1. GRToBlock' \in [Node -> Seq(Batch)]
  <2>1. GRToBlock[n] \in Seq(Batch) /\ Append(GRToBlock[n], d) \in Seq(Batch)
    BY DEF TypeDb
  <2>2. \/ GRToBlock' = [GRToBlock EXCEPT ![n] = GRToBlock[n]]
        \/ GRToBlock' = [GRToBlock EXCEPT ![n] = Append(GRToBlock[n], d)]
    BY DEF handleBlockStorage
  <2> QED BY <2>1, <2>2 DEF TypeDb
<1>2. /\ DOMAIN SeqToGRdigest' = Node
      /\ \A q \in Node : SeqToGRdigest'[q] = IF q = n THEN Put(SeqToGRdigest[n], s, d)
                                             ELSE SeqToGRdigest[q]
  BY DEF handleBlockStorage, TypeDb
<1>3. \A k \in DOMAIN Put(SeqToGRdigest[n], s, d) :
         k \in Int /\ Put(SeqToGRdigest[n], s, d)[k] \in Batch
  BY DEF Put, TypeDb
<1>4. ASSUME NEW q \in Node, NEW k \in DOMAIN SeqToGRdigest'[q]
      PROVE  k \in Int /\ SeqToGRdigest'[q][k] \in Batch
  <2>1. CASE q = n
    BY <1>2, <1>3, <1>4, <2>1
  <2>2. CASE q # n
    BY <1>2, <1>4, <2>2 DEF TypeDb
  <2> QED BY <2>1, <2>2
<1> QED BY <1>1, <1>2, <1>4 DEF TypeDb

(* Counting an answer, storing the batch or not, keeps the types.          *)
LEMMA handleReplyType ==
    ASSUME TypeOK, NEW n \in Node, NEW m \in msgs, handleReply(n, m)
    PROVE  TypeOK'
<1>1. m \in Replies
  BY MessageFields DEF handleReply, Deliver, TypeOK, TypeNet
<1>2. m.digest \in Batch /\ m.seq \in Nat
  BY <1>1 DEF Replies
<1>3. TypeNet'
  BY DEF handleReply, Deliver, TypeOK, TypeNet
<1>4. TypeProc' /\ TypeCkpt' /\ TypeView'
  BY ProcSame, CkptSame DEF handleReply, TypeOK, TypeView, viewVars
<1>5. TypeDb'
  <2>1. CASE handleBlockStorage(n, m.digest, m.seq)
    BY <1>2, <2>1, handleBlockStorageType DEF TypeOK
  <2>2. CASE UNCHANGED dbVars
    BY <2>2 DEF TypeOK, TypeDb, dbVars
  <2> QED BY <2>1, <2>2 DEF handleReply
<1>6. replyConfireCount' \in [Node -> [Batch -> Nat]]
  <2>1. replyConfireCount[n][m.digest] + 1 \in Nat
    BY <1>2 DEF TypeOK, TypeRound
  <2>2. replyConfireCount' = [replyConfireCount EXCEPT ![n][m.digest] =
                                replyConfireCount[n][m.digest] + 1]
    BY DEF handleReply
  <2> QED BY <1>2, <2>1, <2>2, SlotUpdate DEF TypeOK, TypeRound
<1>7. isMReply' \in [Node -> SUBSET Batch]
  <2>1. \/ isMReply' = isMReply
        \/ isMReply' = [isMReply EXCEPT ![n] = isMReply[n] \cup {m.digest}]
    BY DEF handleReply
  <2>2. isMReply \in [Node -> SUBSET Batch] /\ isMReply[n] \cup {m.digest} \in SUBSET Batch
    BY <1>2 DEF TypeOK, TypeRound
  <2> QED BY <2>1, <2>2, NodeUpdate
<1>8. TypeRound'
  BY <1>6, <1>7 DEF handleReply, TypeOK, TypeRound
<1> QED BY <1>3, <1>4, <1>5, <1>8 DEF TypeOK

(* Of finitely many numbered things one has the least number, one the      *)
(* greatest (there is no induction over sets here: the strict inclusion of *)
(* the sets of smaller, of greater ones is well founded).                  *)
LEMMA LeastOf ==
    ASSUME NEW S, IsFiniteSet(S), S # {}, NEW c \in [S -> Nat]
    PROVE  \E p \in S : \A q \in S : c[p] <= c[q]
<1> DEFINE Below(p) == {q \in S : c[q] <= c[p]}
           T == {Below(p) : p \in S}
<1>1. T \subseteq FiniteSubsetsOf(S) /\ T # {}
  <2>1. FiniteSubsetsOf(S) = SUBSET S
    BY FS_FiniteSubsetsOfFinite
  <2>2. T \subseteq SUBSET S
    OBVIOUS
  <2>3. T # {}
    <3>1. PICK x \in S : TRUE
      OBVIOUS
    <3>2. Below(x) \in T
      BY <3>1
    <3> QED BY <3>2
  <2> QED BY <2>1, <2>2, <2>3
<1>2. PICK X \in T : \A Y \in T : <<Y, X>> \notin StrictSubsetOrdering(S)
  <2>1. IsWellFoundedOn(StrictSubsetOrdering(S), FiniteSubsetsOf(S))
    BY FS_StrictSubsetOrderingWellFounded
  <2> HIDE DEF T
  <2> QED BY <1>1, <2>1, WFMin
<1>3. PICK p \in S : X = Below(p)
  BY <1>2
<1>4. ASSUME NEW q \in S, ~(c[p] <= c[q])
      PROVE  FALSE
  <2>1. Below(q) \subseteq Below(p) /\ p \notin Below(q) /\ p \in Below(p)
    BY <1>4
  <2>2. <<Below(q), Below(p)>> \in StrictSubsetOrdering(S)
    BY <2>1 DEF StrictSubsetOrdering
  <2>3. Below(q) \in T
    OBVIOUS
  <2> QED BY <1>2, <1>3, <2>2, <2>3
<1> QED BY <1>4

(* A function to the naturals has a maximum on a finite set.               *)
LEMMA GreatestOf ==
    ASSUME NEW S, IsFiniteSet(S), S # {}, NEW c \in [S -> Nat]
    PROVE  \E p \in S : \A q \in S : c[q] <= c[p]
<1> DEFINE Above(p) == {q \in S : c[p] <= c[q]}
           T == {Above(p) : p \in S}
<1>1. T \subseteq FiniteSubsetsOf(S) /\ T # {}
  <2>1. FiniteSubsetsOf(S) = SUBSET S
    BY FS_FiniteSubsetsOfFinite
  <2>2. T \subseteq SUBSET S
    OBVIOUS
  <2>3. T # {}
    <3>1. PICK x \in S : TRUE
      OBVIOUS
    <3>2. Above(x) \in T
      BY <3>1
    <3> QED BY <3>2
  <2> QED BY <2>1, <2>2, <2>3
<1>2. PICK X \in T : \A Y \in T : <<Y, X>> \notin StrictSubsetOrdering(S)
  <2>1. IsWellFoundedOn(StrictSubsetOrdering(S), FiniteSubsetsOf(S))
    BY FS_StrictSubsetOrderingWellFounded
  <2> HIDE DEF T
  <2> QED BY <1>1, <2>1, WFMin
<1>3. PICK p \in S : X = Above(p)
  BY <1>2
<1>4. ASSUME NEW q \in S, ~(c[q] <= c[p])
      PROVE  FALSE
  <2>1. Above(q) \subseteq Above(p) /\ p \notin Above(q) /\ p \in Above(p)
    BY <1>4
  <2>2. <<Above(q), Above(p)>> \in StrictSubsetOrdering(S)
    BY <2>1 DEF StrictSubsetOrdering
  <2>3. Above(q) \in T
    OBVIOUS
  <2> QED BY <1>2, <1>3, <2>2, <2>3
<1> QED BY <1>4

(* The nodes are finitely many.                                            *)
LEMMA NodeFinite == IsFiniteSet(Node)
  BY FS_Interval DEF Node

(* sort.Ints and the index len-f-1: with more than f reporters there is a  *)
(* greatest number that f+1 nodes have reached, and a node reported it.    *)
LEMMA SupportedCheckpointFacts ==
    ASSUME NEW counts \in [Node -> Nat], Cardinality(Reporters(counts)) > f
    PROVE  /\ SupportedCheckpoint(counts) \in Nat
           /\ \E q \in Reporters(counts) : SupportedCheckpoint(counts) = counts[q]
<1> DEFINE R == Reporters(counts)
           Reached(v) == {q \in Node : counts[q] >= v}
           Enough == {q \in R : Cardinality(Reached(counts[q])) >= f + 1}
<1>1. R \subseteq Node /\ IsFiniteSet(R) /\ f \in Nat
  BY NodeFinite, NodeFacts, FS_Subset DEF Reporters
<1>2. R # {}
  BY <1>1, FS_EmptySet
<1>3. Enough # {}
  <2> DEFINE c == [q \in R |-> counts[q]]
  <2>1. c \in [R -> Nat]
    BY <1>1
  <2>2. PICK p \in R : \A q \in R : c[p] <= c[q]
    <3> HIDE DEF c, R
    <3> QED BY <1>1, <1>2, <2>1, LeastOf
  <2>3. R \in SUBSET Reached(counts[p])
    BY <1>1, <2>2
  <2>4. IsFiniteSet(Reached(counts[p]))
    BY NodeFinite, FS_Subset
  <2>5. Cardinality(R) <= Cardinality(Reached(counts[p]))
    BY <2>3, <2>4, FS_Subset
  <2>6. Cardinality(R) \in Nat /\ Cardinality(Reached(counts[p])) \in Nat
    BY <1>1, <2>4, FS_CardinalityType
  <2> QED BY <1>1, <2>5, <2>6
<1>4. PICK p \in Enough : \A q \in Enough : counts[q] <= counts[p]
  <2> DEFINE c == [q \in Enough |-> counts[q]]
  <2>1. c \in [Enough -> Nat] /\ IsFiniteSet(Enough)
    BY <1>1, FS_Subset
  <2>2. PICK p \in Enough : \A q \in Enough : c[q] <= c[p]
    <3> HIDE DEF c, Enough
    <3> QED BY <1>3, <2>1, GreatestOf
  <2> QED BY <2>2
<1> DEFINE Good1(v) == /\ Cardinality({q \in Node : counts[q] >= v}) >= f + 1
                       /\ \A w \in {counts[q] : q \in Reporters(counts)} :
                            Cardinality({q \in Node : counts[q] >= w}) >= f + 1 => w <= v
<1>5. \E v \in {counts[q] : q \in Reporters(counts)} : Good1(v)
  <2>1. counts[p] \in {counts[q] : q \in Reporters(counts)}
    BY <1>4
  <2>2. Good1(counts[p])
    BY <1>4
  <2> QED BY <2>1, <2>2
<1>6. SupportedCheckpoint(counts) \in {counts[q] : q \in Reporters(counts)}
  <2>1. SupportedCheckpoint(counts) =
          CHOOSE v \in {counts[q] : q \in Reporters(counts)} : Good1(v)
    BY DEF SupportedCheckpoint
  <2> HIDE DEF Good1
  <2> QED BY <1>5, <2>1
<1> QED BY <1>1, <1>6

(* deleteCacheMessage only removes things.                                 *)
LEMMA deleteCacheMessageType ==
    ASSUME TypeOK, NEW n \in Node, deleteCacheMessage(n)
    PROVE  /\ messagePool' \in [Node -> SUBSET Batch]
           /\ prePareConfirmCount' \in [Node -> [Batch -> SUBSET Node]]
           /\ commitConfirmCount' \in [Node -> [Batch -> SUBSET Node]]
           /\ replyConfireCount' \in [Node -> [Batch -> Nat]]
           /\ viewchangeCount' \in [Node -> [Batch -> Nat]]
           /\ isCommitBordcast' \in [Node -> SUBSET Batch]
           /\ isReply' \in [Node -> SUBSET Batch]
           /\ isMReply' \in [Node -> SUBSET Batch]
           /\ isViewChange' \in [Node -> SUBSET Batch]
           /\ newdataCount' \in [Node -> SUBSET {m \in msgs : m.type = "NewData"}]
           /\ isnewdata' \in [Node -> SUBSET UpDataCounts]
<1> DEFINE gone == Remembered(arrayTodigest[n])
           stale == UNION Remembered(arrayToupdata[n])
<1>1. /\ messagePool' = [messagePool EXCEPT ![n] = messagePool[n] \ gone]
      /\ isCommitBordcast' = [isCommitBordcast EXCEPT ![n] = isCommitBordcast[n] \ gone]
      /\ isReply' = [isReply EXCEPT ![n] = isReply[n] \ gone]
      /\ isMReply' = [isMReply EXCEPT ![n] = isMReply[n] \ gone]
      /\ isViewChange' = [isViewChange EXCEPT ![n] = isViewChange[n] \ gone]
      /\ newdataCount' = [newdataCount EXCEPT ![n] =
                            {m \in newdataCount[n] : m.udc \notin stale}]
      /\ isnewdata' = [isnewdata EXCEPT ![n] = isnewdata[n] \ stale]
  BY DEF deleteCacheMessage, ForgetAnswers
<1>2. /\ prePareConfirmCount' = [prePareConfirmCount EXCEPT ![n] =
           [d \in Batch |-> IF d \in gone THEN {} ELSE prePareConfirmCount[n][d]]]
      /\ commitConfirmCount' = [commitConfirmCount EXCEPT ![n] =
           [d \in Batch |-> IF d \in gone THEN {} ELSE commitConfirmCount[n][d]]]
      /\ replyConfireCount' = [replyConfireCount EXCEPT ![n] =
           [d \in Batch |-> IF d \in gone THEN 0 ELSE replyConfireCount[n][d]]]
      /\ viewchangeCount' = [viewchangeCount EXCEPT ![n] =
           [d \in Batch |-> IF d \in gone THEN 0 ELSE viewchangeCount[n][d]]]
  BY DEF deleteCacheMessage
<1> HIDE DEF gone, stale
<1>3. /\ messagePool' \in [Node -> SUBSET Batch]
      /\ isCommitBordcast' \in [Node -> SUBSET Batch]
      /\ isReply' \in [Node -> SUBSET Batch]
      /\ isMReply' \in [Node -> SUBSET Batch]
      /\ isViewChange' \in [Node -> SUBSET Batch]
  BY <1>1 DEF TypeOK, TypeRound, TypeView
<1>4. /\ newdataCount' \in [Node -> SUBSET {m \in msgs : m.type = "NewData"}]
      /\ isnewdata' \in [Node -> SUBSET UpDataCounts]
  BY <1>1 DEF TypeOK, TypeCkpt
<1>5. /\ prePareConfirmCount' \in [Node -> [Batch -> SUBSET Node]]
      /\ commitConfirmCount' \in [Node -> [Batch -> SUBSET Node]]
  BY <1>2 DEF TypeOK, TypeRound
<1>6. /\ replyConfireCount' \in [Node -> [Batch -> Nat]]
      /\ viewchangeCount' \in [Node -> [Batch -> Nat]]
  BY <1>2 DEF TypeOK, TypeRound, TypeView
<1> QED BY <1>3, <1>4, <1>5, <1>6

(* A CheckPoint ahead of the node keeps the types: the stable one it finds *)
(* is a number.                                                            *)
LEMMA AheadCheckPointType ==
    ASSUME TypeOK, NEW n \in Node, NEW m \in CheckPoints, AheadCheckPoint(n, m)
    PROVE  /\ msgs \subseteq msgs' /\ msgs' \subseteq Message
           /\ nr' \in [Node -> Nat]
           /\ TypeRound' /\ TypeView' /\ TypeCkpt'
<1> DEFINE counts == [checkpointCount[n] EXCEPT ![m.from] = m.seq]
           enough == Cardinality(Reporters(counts)) > f
           scp == SupportedCheckpoint(counts)
           S == IF enough /\ scp > sequenceID[n]
                THEN {[type |-> "UpData", from |-> n, nr |-> nr[n],
                       seq |-> sequenceID[n], scp |-> scp]}
                ELSE {}
<1>1. m.from \in Node /\ m.seq \in Nat /\ sequenceID[n] \in Nat /\ nr[n] \in Nat
  BY DEF CheckPoints, TypeOK, TypeRound, TypeNet
<1>2. counts \in [Node -> Nat]
  BY <1>1 DEF TypeOK, TypeCkpt
<1>3. /\ checkpointCount' =
           [checkpointCount EXCEPT ![n] =
              [q \in Node |-> IF enough /\ counts[q] <= sequenceID[n]
                              THEN 0 ELSE counts[q]]]
      /\ Send(n, S)
      /\ deleteCacheMessage(n)
  BY DEF AheadCheckPoint
<1>4. enough => scp \in Nat
  BY <1>2, SupportedCheckpointFacts
<1> HIDE DEF counts, enough, scp
<1>5. S \subseteq UpDatas
  BY <1>1, <1>4 DEF UpDatas
<1>6. msgs \subseteq msgs' /\ msgs' \subseteq Message /\ nr' \in [Node -> Nat]
  <2>1. S \in SUBSET Message
    BY <1>5 DEF Message
  <2> HIDE DEF S
  <2> QED BY <1>3, <2>1, SendType DEF TypeOK
<1>7. checkpointCount' \in [Node -> [Node -> Nat]]
  BY <1>2, <1>3 DEF TypeOK, TypeCkpt
<1>8. TypeCkpt'
  <2>1. /\ newdataCount' \in [Node -> SUBSET {x \in msgs : x.type = "NewData"}]
        /\ isnewdata' \in [Node -> SUBSET UpDataCounts]
    BY <1>3, deleteCacheMessageType
  <2>2. newdataCount' \in [Node -> SUBSET {x \in msgs' : x.type = "NewData"}]
    BY <1>6, <2>1
  <2>3. arrayToupdata' \in [Node -> [0 .. K - 1 -> SUBSET UpDataCounts]]
    BY DEF AheadCheckPoint, TypeOK, TypeCkpt
  <2> QED BY <1>7, <2>1, <2>2, <2>3 DEF TypeCkpt
<1>9. TypeRound' /\ TypeView'
  <2>1. /\ UNCHANGED <<sequenceID, arrayTodigest, localMessagePool, executed, M_node>>
    BY DEF AheadCheckPoint
  <2> QED BY <1>3, <2>1, deleteCacheMessageType DEF TypeOK, TypeRound, TypeView
<1> QED BY <1>6, <1>8, <1>9

(* handleCheckPoint keeps the types.                                       *)
LEMMA handleCheckPointType ==
    ASSUME TypeOK, NEW n \in Node, NEW m \in msgs, handleCheckPoint(n, m)
    PROVE  TypeOK'
<1>1. m \in CheckPoints
  BY MessageFields DEF handleCheckPoint, Deliver, TypeOK, TypeNet
<1>2. m.from \in Node /\ m.seq \in Nat
  BY <1>1 DEF CheckPoints
<1>3. /\ msgs \subseteq msgs' /\ msgs' \subseteq Message /\ nr' \in [Node -> Nat]
      /\ TypeRound' /\ TypeView' /\ TypeCkpt'
  <2>1. CASE LateCheckPoint(n, m)
    <3>1. msgs \subseteq msgs' /\ msgs' \subseteq Message /\ nr' \in [Node -> Nat]
      BY <2>1 DEF LateCheckPoint, TypeOK, TypeNet
    <3>2. TypeRound' /\ TypeView'
      BY <2>1 DEF LateCheckPoint, TypeOK, TypeRound, TypeView, roundVars, viewVars
    <3>3. checkpointCount' \in [Node -> [Node -> Nat]]
      BY <1>2, <2>1, SlotUpdate DEF LateCheckPoint, TypeOK, TypeCkpt
    <3>4. TypeCkpt'
      BY <2>1, <3>1, <3>3 DEF LateCheckPoint, TypeOK, TypeCkpt
    <3> QED BY <3>1, <3>2, <3>4
  <2>2. CASE AheadCheckPoint(n, m)
    BY <1>1, <2>2, AheadCheckPointType
  <2> QED BY <2>1, <2>2 DEF handleCheckPoint
<1>4. TypeNet'
  BY <1>3, DeliverType DEF handleCheckPoint, TypeOK
<1>5. TypeProc'
  BY <1>3, ProcSame DEF handleCheckPoint, TypeOK
<1>6. TypeDb'
  BY DEF handleCheckPoint, TypeOK, TypeDb, dbVars
<1> QED BY <1>3, <1>4, <1>5, <1>6 DEF TypeOK

(* The answer to a catch-up request is a NewData message.                  *)
LEMMA handleUpdataType ==
    ASSUME TypeOK, NEW n \in Node, NEW m \in msgs, handleUpdata(n, m)
    PROVE  TypeOK'
<1>1. m \in UpDatas
  BY MessageFields DEF handleUpdata, Deliver, TypeOK, TypeNet
<1>2. m.from \in Node /\ m.seq \in Nat /\ m.scp \in Nat /\ nr[n] \in Nat
  BY <1>1 DEF UpDatas, TypeOK, TypeNet
<1>3. msgs \subseteq msgs' /\ msgs' \subseteq Message /\ nr' \in [Node -> Nat]
  <2> DEFINE b == [i \in 1 .. m.scp - m.seq |-> SeqToGRdigest[n][m.seq + i]]
             c == [type |-> "NewData", from |-> n, nr |-> nr[n], to |-> m.from,
                   udc |-> [seq |-> m.seq, scp |-> m.scp, batches |-> b]]
  <2>1. CASE UNCHANGED <<msgs, nr>>
    BY <2>1 DEF TypeOK, TypeNet
  <2>2. CASE m.seq + 1 .. m.scp \subseteq DOMAIN SeqToGRdigest[n] /\ Send(n, {c})
    <3>1. \A i \in 1 .. m.scp - m.seq : SeqToGRdigest[n][m.seq + i] \in Batch
      <4>1. \A i \in 1 .. m.scp - m.seq : m.seq + i \in m.seq + 1 .. m.scp
        BY <1>2
      <4> QED BY <2>2, <4>1 DEF TypeOK, TypeDb
    <3>2. \E k \in Nat : 1 .. m.scp - m.seq = 1 .. k
      <4>1. CASE m.scp - m.seq \in Nat
        BY <4>1
      <4>2. CASE m.scp < m.seq
        <5>1. 1 .. m.scp - m.seq = 1 .. 0
          BY <1>2, <4>2
        <5> QED BY <5>1
      <4> QED BY <1>2, <4>1, <4>2
    <3>3. PICK k \in Nat : b \in [1 .. k -> Batch]
      BY <3>1, <3>2
    <3> HIDE DEF b
    <3>4. b \in Seq(Batch)
      BY <3>3, SeqDef
    <3>5. c \in NewDatas
      BY <1>2, <3>4 DEF NewDatas, UpDataCounts
    <3>6. {c} \in SUBSET Message
      BY <3>5 DEF Message
    <3> HIDE DEF c
    <3> QED BY <2>2, <3>6, SendType DEF TypeOK
  <2> QED BY <2>1, <2>2 DEF handleUpdata
<1>4. TypeNet'
  BY <1>3, DeliverType DEF handleUpdata, TypeOK
<1>5. TypeProc' /\ TypeCkpt'
  BY <1>3, ProcSame, CkptSame DEF handleUpdata, TypeOK
<1>6. TypeRound' /\ TypeView' /\ TypeDb'
  BY DEF handleUpdata, TypeOK, TypeRound, TypeView, TypeDb, roundVars, viewVars,
         dbVars
<1> QED BY <1>4, <1>5, <1>6 DEF TypeOK

(* Counting NewData, adopting the batches or not, keeps the types.         *)
LEMMA handleNewdataType ==
    ASSUME TypeOK, NEW n \in Node, NEW m \in msgs, handleNewdata(n, m)
    PROVE  TypeOK'
<1>1. m \in NewDatas
  BY MessageFields DEF handleNewdata, Deliver, TypeOK, TypeNet
<1>2. /\ m.udc \in UpDataCounts /\ m.udc.scp \in Nat /\ m.udc.batches \in Seq(Batch)
      /\ m.type = "NewData"
  BY <1>1 DEF NewDatas, UpDataCounts
<1>3. CountNewdata(n, m) /\ UNCHANGED <<msgs, nr>>
  BY DEF handleNewdata
<1>4. TypeNet'
  BY <1>3 DEF handleNewdata, Deliver, TypeOK, TypeNet
<1>5. TypeProc' /\ TypeView'
  BY <1>3, ProcSame DEF handleNewdata, TypeOK, TypeView, viewVars
<1>6. TypeRound'
  <2>1. \/ sequenceID' = sequenceID
        \/ sequenceID' = [sequenceID EXCEPT ![n] = m.udc.scp]
    BY <1>3 DEF CountNewdata
  <2>2. sequenceID' \in [Node -> Nat]
    BY <1>2, <2>1 DEF TypeOK, TypeRound
  <2> QED BY <2>2 DEF handleNewdata, TypeOK, TypeRound
<1>7. TypeCkpt'
  <2>1. newdataCount' \in [Node -> SUBSET {x \in msgs' : x.type = "NewData"}]
    <3>1. newdataCount' = [newdataCount EXCEPT ![n] = newdataCount[n] \cup {m}]
      BY <1>3 DEF CountNewdata
    <3> QED BY <1>2, <1>3, <3>1 DEF TypeOK, TypeCkpt
  <2>2. arrayToupdata' \in [Node -> [0 .. K - 1 -> SUBSET UpDataCounts]]
    <3>1. sequenceID[n] % K \in 0 .. K - 1
      BY SlotFacts DEF TypeOK, TypeRound
    <3>2. arrayToupdata' = [arrayToupdata EXCEPT ![n][sequenceID[n] % K] = {m.udc}]
      BY <1>3 DEF CountNewdata
    <3>3. {m.udc} \in SUBSET UpDataCounts
      BY <1>2
    <3> QED BY <3>1, <3>2, <3>3, SlotUpdate DEF TypeOK, TypeCkpt
  <2>3. isnewdata' \in [Node -> SUBSET UpDataCounts]
    <3>1. \/ isnewdata' = isnewdata
          \/ isnewdata' = [isnewdata EXCEPT ![n] = isnewdata[n] \cup {m.udc}]
      BY <1>3 DEF CountNewdata
    <3>2. /\ isnewdata \in [Node -> SUBSET UpDataCounts]
          /\ isnewdata[n] \cup {m.udc} \in SUBSET UpDataCounts
      BY <1>2 DEF TypeOK, TypeCkpt
    <3> QED BY <3>1, <3>2, NodeUpdate
  <2> QED BY <2>1, <2>2, <2>3 DEF handleNewdata, TypeOK, TypeCkpt
<1>8. TypeDb'
  <2> DEFINE len == Len(m.udc.batches)
             table == SeqToGRdigest[n]
             T == [k \in DOMAIN table \cup (1 - len .. 0) |->
                     IF k \in 1 - len .. 0 THEN m.udc.batches[k + len] ELSE table[k]]
  <2>1. \/ SeqToGRdigest' = SeqToGRdigest
        \/ SeqToGRdigest' = [SeqToGRdigest EXCEPT ![n] = T]
    BY <1>3 DEF CountNewdata
  <2>2. len \in Nat /\ \A i \in 1 .. len : m.udc.batches[i] \in Batch
    BY <1>2
  <2>3. \A k \in 1 - len .. 0 : k \in Int /\ k + len \in 1 .. len
    BY <2>2
  <2>4. \A k \in DOMAIN table : k \in Int /\ table[k] \in Batch
    BY DEF TypeOK, TypeDb
  <2> HIDE DEF len, table
  <2>5. \A k \in DOMAIN T : k \in Int /\ T[k] \in Batch
    BY <2>2, <2>3, <2>4
  <2> HIDE DEF T
  <2>6. DOMAIN SeqToGRdigest' = Node
    BY <2>1 DEF TypeOK, TypeDb
  <2>7. ASSUME NEW q \in Node, NEW k \in DOMAIN SeqToGRdigest'[q]
        PROVE  k \in Int /\ SeqToGRdigest'[q][k] \in Batch
    <3>1. SeqToGRdigest'[q] = SeqToGRdigest[q] \/ SeqToGRdigest'[q] = T
      BY <2>1 DEF TypeOK, TypeDb
    <3> QED BY <2>5, <2>7, <3>1 DEF TypeOK, TypeDb
  <2> QED BY <2>6, <2>7 DEF handleNewdata, TypeOK, TypeDb
<1> QED BY <1>4, <1>5, <1>6, <1>7, <1>8 DEF TypeOK

(* The next view is led by a node.                                         *)
LEMMA EnterViewType ==
    ASSUME TypeView, NEW n \in Node, NEW d \in Batch, EnterView(n, d)
    PROVE  /\ M_node' \in [Node -> Node]
           /\ isViewChange' \in [Node -> SUBSET Batch]
<1>1. NextPrimary(n) \in Node
  BY NodeFacts DEF NextPrimary, TypeView
<1> QED BY <1>1 DEF EnterView, TypeView

(* handleViewChange keeps the types.                                       *)
LEMMA handleViewChangeType ==
    ASSUME TypeOK, NEW n \in Node, NEW m \in msgs, handleViewChange(n, m)
    PROVE  TypeOK'
<1>1. m \in ViewChanges
  BY MessageFields DEF handleViewChange, Deliver, TypeOK, TypeNet
<1>2. m.digest \in Batch /\ nr[n] \in Nat
  BY <1>1 DEF ViewChanges, TypeOK, TypeNet
<1> DEFINE v == [type |-> "NewView", from |-> n, nr |-> nr[n], digest |-> m.digest]
<1>3. msgs \subseteq msgs' /\ msgs' \subseteq Message /\ nr' \in [Node -> Nat]
  <2>1. {v} \in SUBSET Message
    BY <1>2 DEF Message, NewViews
  <2>2. Send(n, {v}) \/ UNCHANGED <<msgs, nr>>
    BY DEF handleViewChange
  <2> QED BY <2>1, <2>2, SendType DEF TypeOK, TypeNet
<1>4. TypeNet'
  BY <1>3, DeliverType DEF handleViewChange, TypeOK
<1>5. TypeProc' /\ TypeCkpt'
  BY <1>3, ProcSame, CkptSame DEF handleViewChange, TypeOK
<1>6. TypeDb'
  BY DEF handleViewChange, TypeOK, TypeDb, dbVars
<1>7. localMessagePool' \in [Node -> SUBSET Batch]
  <2>1. \/ localMessagePool' = localMessagePool
        \/ localMessagePool' =
             [localMessagePool EXCEPT ![n] = localMessagePool[n] \ {m.digest}]
    BY DEF handleViewChange
  <2>2. /\ localMessagePool \in [Node -> SUBSET Batch]
        /\ localMessagePool[n] \ {m.digest} \in SUBSET Batch
    BY DEF TypeOK, TypeRound
  <2> QED BY <2>1, <2>2, NodeUpdate
<1>8. TypeRound'
  BY <1>7 DEF handleViewChange, TypeOK, TypeRound
<1>9. TypeView'
  <2>1. viewchangeCount' \in [Node -> [Batch -> Nat]]
    <3>1. viewchangeCount[n][m.digest] + 1 \in Nat
      BY <1>2 DEF TypeOK, TypeView
    <3>2. \/ viewchangeCount' = viewchangeCount
          \/ viewchangeCount' = [viewchangeCount EXCEPT ![n][m.digest] =
                                   viewchangeCount[n][m.digest] + 1]
      BY DEF handleViewChange, viewVars
    <3>3. viewchangeCount \in [Node -> [Batch -> Nat]]
      BY DEF TypeOK, TypeView
    <3>4. [viewchangeCount EXCEPT ![n][m.digest] = viewchangeCount[n][m.digest] + 1]
            \in [Node -> [Batch -> Nat]]
      BY <1>2, <3>1, <3>3, SlotUpdate
    <3> QED BY <3>2, <3>3, <3>4
  <2>2. EnterView(n, m.digest) \/ UNCHANGED <<isViewChange, M_node>>
    BY DEF handleViewChange, viewVars
  <2> QED BY <1>2, <2>1, <2>2, EnterViewType DEF TypeOK, TypeView
<1> QED BY <1>4, <1>5, <1>6, <1>8, <1>9 DEF TypeOK

(* handleNewView keeps the types.                                          *)
LEMMA handleNewViewType ==
    ASSUME TypeOK, NEW n \in Node, NEW m \in msgs, handleNewView(n, m)
    PROVE  TypeOK'
<1>1. m \in NewViews
  BY MessageFields DEF handleNewView, Deliver, TypeOK, TypeNet
<1>2. m.digest \in Batch
  BY <1>1 DEF NewViews
<1>3. TypeNet'
  BY DEF handleNewView, Deliver, TypeOK, TypeNet
<1>4. TypeProc' /\ TypeCkpt' /\ TypeDb'
  BY ProcSame, CkptSame DEF handleNewView, TypeOK, TypeDb, dbVars
<1>5. localMessagePool' \in [Node -> SUBSET Batch]
  <2>1. \/ localMessagePool' = localMessagePool
        \/ localMessagePool' =
             [localMessagePool EXCEPT ![n] = localMessagePool[n] \ {m.digest}]
    BY DEF handleNewView
  <2>2. /\ localMessagePool \in [Node -> SUBSET Batch]
        /\ localMessagePool[n] \ {m.digest} \in SUBSET Batch
    BY DEF TypeOK, TypeRound
  <2> QED BY <2>1, <2>2, NodeUpdate
<1>6. TypeRound'
  BY <1>5 DEF handleNewView, TypeOK, TypeRound
<1>7. TypeView'
  <2>1. EnterView(n, m.digest) \/ UNCHANGED <<isViewChange, M_node>>
    BY DEF handleNewView
  <2> QED BY <1>2, <2>1, EnterViewType DEF handleNewView, TypeOK, TypeView
<1> QED BY <1>3, <1>4, <1>6, <1>7 DEF TypeOK

(* A restarted node has the types of a fresh one.                          *)
LEMMA restartType ==
    ASSUME TypeOK, NEW n \in Node, restart(n)
    PROVE  TypeOK'
<1>1. TypeNet' /\ TypeDb'
  BY DEF restart, TypeOK, TypeNet, TypeDb, netVars, dbVars
<1>2. TypeProc'
  BY DEF restart, TypeOK, TypeProc, netVars
<1>3. TypeRound'
  BY DEF restart, TypeOK, TypeRound
<1>4. TypeView'
  BY NodeFacts DEF restart, TypeOK, TypeView
<1>5. TypeCkpt'
  BY DEF restart, TypeOK, TypeCkpt, netVars
<1> QED BY <1>1, <1>2, <1>3, <1>4, <1>5 DEF TypeOK

(* The types survive a step that changes no variable.                      *)
LEMMA StutterType ==
    ASSUME TypeOK, UNCHANGED vars
    PROVE  TypeOK'
<1>1. TypeNet' /\ TypeProc'
  BY DEF vars, TypeOK, TypeNet, TypeProc
<1>2. TypeRound' /\ TypeView'
  BY DEF vars, TypeOK, TypeRound, TypeView
<1>3. TypeCkpt' /\ TypeDb'
  BY DEF vars, TypeOK, TypeCkpt, TypeDb
<1> QED BY <1>1, <1>2, <1>3 DEF TypeOK

(* TypeOK is inductive.                                                    *)
LEMMA TypeStep == TypeOK /\ [Next]_vars => TypeOK'
<1> SUFFICES ASSUME TypeOK, [Next]_vars PROVE TypeOK'
  OBVIOUS
<1>1. CASE UNCHANGED vars
  BY <1>1, StutterType
<1>2. ASSUME NEW n \in Node, NEW d \in Batch, handleRequests(n, d) PROVE TypeOK'
  BY <1>2, handleRequestsType
<1>3. ASSUME NEW n \in Node, NEW m \in msgs, handleRequest(n, m) PROVE TypeOK'
  BY <1>3, handlePrePrepareType, handlePrepareType, handleCommitType,
     handleReplyType, handleCheckPointType, handleUpdataType, handleNewdataType,
     handleViewChangeType, handleNewViewType DEF handleRequest
<1>4. ASSUME NEW n \in Node, mainSelect(n) \/ mainReturn(n) \/ restart(n)
      PROVE  TypeOK'
  BY <1>4, mainSelectType, mainReturnType, restartType
<1> QED BY <1>1, <1>2, <1>3, <1>4 DEF Next

(* The variables of a node, its messages and its database keep their       *)
(* types: in particular a catch-up is never asked from a negative number,  *)
(* the checkpoint that f+1 nodes support exists whenever it is looked up,  *)
(* and M_node always names a node of nodeTable.                            *)
THEOREM TypeCorrect == Spec => []TypeOK
  BY InitTypeOK, TypeStep, PTL DEF Spec

-----------------------------------------------------------------------------
(***************************************************************************)
(* Part 2.  The safety theorems.                                           *)
(*                                                                         *)
(* Neither CommitQuorum nor BadNeverCommitted is inductive: a node knows   *)
(* only what it counted.  SafetyInv says what the counters and every       *)
(* message under way stand for.                                            *)
(***************************************************************************)

Certain(d) == Cardinality(Senders("Commit", d)) >= 2 * f + 1

(* What a message promises about the batches it names.                     *)
Promise(m) ==
    /\ m.type \in {"Prepare", "Commit"} =>
         m.digest \notin Bad /\ Sent("PrePrepare", m.digest) # {}
    /\ m.type = "Reply" => Certain(m.digest) /\ m.digest \in executed[m.from]
    /\ m.type = "NewData" =>
         \A i \in 1 .. Len(m.udc.batches) : Certain(m.udc.batches[i])

PromisesKept == \A m \in msgs : Promise(m)

(* A node counts Commits that were sent, never its own, and remembers      *)
(* having sent its own only if it has.                                     *)
CountsHonest ==
    \A n \in Node :
        /\ \A d \in Batch : commitConfirmCount[n][d] \subseteq Senders("Commit", d) \ {n}
        /\ \A d \in isCommitBordcast[n] : n \in Senders("Commit", d)
        /\ \A m \in taken[n] : m.from # n

(* Whatever a node has done or kept of a batch is about a certain one.     *)
Outcome(n) == executed[n] \cup isReply[n] \cup isMReply[n] \cup Blocks(n) \cup Indexed(n)

OutcomesCertain == \A n \in Node : \A d \in Outcome(n) : Certain(d)

SafetyInv == TypeOK /\ PromisesKept /\ CountsHonest /\ OutcomesCertain

-----------------------------------------------------------------------------
(* What was sent stays sent, what is certain stays certain.                *)
LEMMA NodesFinite ==
    ASSUME NEW S \in SUBSET Node
    PROVE  IsFiniteSet(S) /\ Cardinality(S) \in Nat
<1>1. IsFiniteSet(S)
  BY NodeFinite, FS_Subset
<1> QED BY <1>1, FS_CardinalityType

(* Every message names its sender.                                         *)
LEMMA MessageFrom == \A m \in Message : m.from \in Node
  BY DEF Message, PrePrepares, Prepares, Commits, Replies, CheckPoints,
         UpDatas, NewDatas, ViewChanges, NewViews

(* Hence a set of senders is a set of nodes, and finite.                   *)
LEMMA SendersAreNodes ==
    ASSUME TypeOK, NEW t, NEW d
    PROVE  Senders(t, d) \in SUBSET Node
  BY MessageFrom DEF Senders, Sent, TypeOK, TypeNet

(* What has been sent stays sent.                                          *)
LEMMA SentStays ==
    ASSUME msgs \subseteq msgs', NEW t, NEW d
    PROVE  Sent(t, d) \subseteq Sent(t, d)' /\ Senders(t, d) \subseteq Senders(t, d)'
  BY DEF Sent, Senders

(* A quorum of Commit senders is not lost when more is sent.               *)
LEMMA CertainStays ==
    ASSUME TypeOK, msgs \subseteq msgs', msgs' \subseteq Message, NEW d, Certain(d)
    PROVE  Certain(d)'
<1> DEFINE S == Senders("Commit", d)
<1>1. S \subseteq S'
  BY SentStays
<1>2. S \in SUBSET Node /\ S' \in SUBSET Node
  BY SendersAreNodes, MessageFrom DEF Senders, Sent
<1> HIDE DEF S
<1>3. Cardinality(S) \in Nat /\ IsFiniteSet(S') /\ Cardinality(S') \in Nat
  BY <1>2, NodesFinite
<1>4. Cardinality(S) <= Cardinality(S')
  BY <1>1, <1>3, FS_Subset
<1>5. Cardinality(S) >= 2 * f + 1
  BY DEF S, Certain
<1>6. Cardinality(S') >= 2 * f + 1
  BY <1>3, <1>4, <1>5, NodeFacts
<1> QED BY <1>6 DEF S, Certain

(* 2f Commits of others and one's own are 2f+1.                            *)
LEMMA OwnAndOthers ==
    ASSUME NEW S \in SUBSET Node, NEW n \in S, NEW received,
           received \subseteq S \ {n}, Cardinality(received) >= 2 * f
    PROVE  Cardinality(S) >= 2 * f + 1
<1>1. received \cup {n} \in SUBSET S /\ n \notin received
  OBVIOUS
<1>2. IsFiniteSet(S) /\ Cardinality(S) \in Nat
  BY NodesFinite
<1>3. IsFiniteSet(received) /\ Cardinality(received) \in Nat
  BY NodesFinite
<1>4. Cardinality(received \cup {n}) = Cardinality(received) + 1
  BY <1>1, <1>3, FS_AddElement
<1>5. Cardinality(received \cup {n}) <= Cardinality(S)
  BY <1>1, <1>2, FS_Subset
<1> QED BY <1>2, <1>3, <1>4, <1>5, NodeFacts

-----------------------------------------------------------------------------
(* Steps that add nothing of the kind keep a part of the invariant.        *)
LEMMA PromisesGrow ==
    ASSUME TypeOK, TypeOK', PromisesKept, msgs \subseteq msgs',
           \A q \in Node : executed[q] \subseteq executed'[q],
           \A m \in msgs' \ msgs : Promise(m)'
    PROVE  PromisesKept'
<1> SUFFICES ASSUME NEW m \in msgs PROVE Promise(m)'
  BY DEF PromisesKept
<1>1. Promise(m) /\ m.from \in Node
  BY MessageFrom DEF PromisesKept, TypeOK, TypeNet
<1>2. msgs' \subseteq Message
  BY DEF TypeOK, TypeNet
<1>3. Certain(m.digest) => Certain(m.digest)'
  BY <1>2, CertainStays
<1>4. \A i \in 1 .. Len(m.udc.batches) :
         Certain(m.udc.batches[i]) => Certain(m.udc.batches[i])'
  BY <1>2, CertainStays
<1>5. Sent("PrePrepare", m.digest) \subseteq Sent("PrePrepare", m.digest)'
  BY SentStays
<1> QED BY <1>1, <1>3, <1>4, <1>5 DEF Promise

(* Counts that only shrink are still about messages that were sent.        *)
LEMMA CountsShrink ==
    ASSUME CountsHonest, msgs \subseteq msgs',
           \A q \in Node :
              /\ \A d \in Batch : commitConfirmCount'[q][d] \subseteq commitConfirmCount[q][d]
              /\ isCommitBordcast'[q] \subseteq isCommitBordcast[q]
              /\ taken'[q] \subseteq taken[q]
    PROVE  CountsHonest'
<1> SUFFICES ASSUME NEW q \in Node
             PROVE  /\ \A d \in Batch : commitConfirmCount'[q][d]
                                            \subseteq Senders("Commit", d)' \ {q}
                    /\ \A d \in isCommitBordcast'[q] : q \in Senders("Commit", d)'
                    /\ \A m \in taken'[q] : m.from # q
  BY DEF CountsHonest
<1>1. \A d : Senders("Commit", d) \subseteq Senders("Commit", d)'
  BY SentStays
<1> QED BY <1>1 DEF CountsHonest

(* Outcomes that only shrink still have their quorum.                      *)
LEMMA OutcomesShrink ==
    ASSUME TypeOK, TypeOK', OutcomesCertain, msgs \subseteq msgs',
           \A q \in Node : \A d \in Outcome(q)' : d \in Outcome(q) \/ Certain(d)'
    PROVE  OutcomesCertain'
<1> SUFFICES ASSUME NEW q \in Node, NEW d \in Outcome(q)', d \in Outcome(q)
             PROVE  Certain(d)'
  BY DEF OutcomesCertain
<1>1. Certain(d)
  BY DEF OutcomesCertain
<1> QED BY <1>1, CertainStays DEF TypeOK, TypeNet

(* A step that counts no Commit, executes, stores and indexes nothing, and *)
(* whose messages keep their promise.                                      *)
LEMMA PlainStep ==
    ASSUME SafetyInv, TypeOK', msgs \subseteq msgs',
           UNCHANGED <<executed, GRToBlock, SeqToGRdigest>>,
           \A q \in Node :
              /\ isReply'[q] \subseteq isReply[q]
              /\ isMReply'[q] \subseteq isMReply[q]
              /\ \A d \in Batch : commitConfirmCount'[q][d] \subseteq commitConfirmCount[q][d]
              /\ isCommitBordcast'[q] \subseteq isCommitBordcast[q]
              /\ taken'[q] \subseteq taken[q],
           \A m \in msgs' \ msgs : Promise(m)'
    PROVE  SafetyInv'
<1>1. PromisesKept'
  BY PromisesGrow DEF SafetyInv
<1>2. CountsHonest'
  BY CountsShrink DEF SafetyInv
<1>3. OutcomesCertain'
  <2>1. \A q \in Node : Outcome(q)' \subseteq Outcome(q)
    BY DEF Outcome, Blocks, Indexed
  <2> QED BY <2>1, OutcomesShrink DEF SafetyInv
<1> QED BY <1>1, <1>2, <1>3 DEF SafetyInv

(* Messages of the other types promise nothing about their batches.        *)
LEMMA NoPromise ==
    ASSUME NEW m, m.type \notin {"Prepare", "Commit", "Reply", "NewData"}
    PROVE  Promise(m)'
  BY DEF Promise

(* Nothing is counted or executed at the start.                            *)
LEMMA SafetyInit == Init => SafetyInv
<1> SUFFICES ASSUME Init PROVE SafetyInv
  OBVIOUS
<1>1. PromisesKept
  BY DEF Init, PromisesKept
<1>2. CountsHonest
  BY DEF Init, CountsHonest
<1>3. OutcomesCertain
  <2>1. \A q \in Node : Outcome(q) = {}
    BY DEF Init, Outcome, Blocks, Indexed
  <2> QED BY <2>1 DEF OutcomesCertain
<1> QED BY <1>1, <1>2, <1>3, InitTypeOK DEF SafetyInv

(* A proposal disturbs neither counts nor outcomes.                        *)
LEMMA handleRequestsSafe ==
    ASSUME SafetyInv, TypeOK', NEW n \in Node, NEW d \in Batch, handleRequests(n, d)
    PROVE  SafetyInv'
<1>1. \A m \in msgs' \ msgs : m.type = "PrePrepare"
  BY DEF handleRequests, Propose, Send
<1>2. \A m \in msgs' \ msgs : Promise(m)'
  BY <1>1, NoPromise
<1>3. msgs \subseteq msgs'
  BY DEF handleRequests, Propose, Send
<1>4. UNCHANGED <<executed, GRToBlock, SeqToGRdigest, isReply, isMReply,
                  commitConfirmCount, isCommitBordcast, taken>>
  BY DEF handleRequests, procVars, dbVars
<1> QED BY <1>2, <1>3, <1>4, PlainStep

(* What a lagging node asks for is no vote.                                *)
LEMMA CatchUpIsUpData ==
    \A n, p : \A m \in CatchUpRequest(n, p) : m.type = "UpData"
  BY DEF CatchUpRequest

(* A Prepare is sent for a properly signed batch only.                     *)
LEMMA handlePrePrepareSafe ==
    ASSUME SafetyInv, TypeOK', NEW n \in Node, NEW m \in msgs, handlePrePrepare(n, m)
    PROVE  SafetyInv'
<1>1. m.type = "PrePrepare"
  BY DEF handlePrePrepare, Deliver
<1>2. UNCHANGED <<executed, GRToBlock, SeqToGRdigest, isReply, isMReply,
                  commitConfirmCount, isCommitBordcast, taken>>
  BY DEF handlePrePrepare, procVars, dbVars
<1>3. CASE AcceptPrePrepare(n, m)
  <2>0. PICK p : p = [type |-> "Prepare", from |-> n, nr |-> nr[n] + 1,
                      digest |-> m.digest, seq |-> m.seq, view |-> m.view]
    OBVIOUS
  <2>1. msgs' = msgs \cup CatchUpRequest(n, m) \cup {p}
    BY <1>3, <2>0 DEF AcceptPrePrepare, Send
  <2>2. Promise(p)'
    <3>1. m.digest \notin Bad
      BY <1>3 DEF AcceptPrePrepare, Acceptable
    <3>2. m \in Sent("PrePrepare", m.digest)'
      BY <1>1, <2>1 DEF Sent
    <3>3. p.type = "Prepare" /\ p.digest = m.digest
      BY <2>0
    <3> QED BY <3>1, <3>2, <3>3 DEF Promise
  <2>3. \A x \in msgs' \ msgs : Promise(x)'
    <3>1. \A x \in msgs' \ msgs : x \in CatchUpRequest(n, m) \/ x = p
      BY <2>1
    <3>2. \A x \in CatchUpRequest(n, m) : Promise(x)'
      BY CatchUpIsUpData, NoPromise
    <3> QED BY <2>2, <3>1, <3>2
  <2> QED BY <1>2, <2>1, <2>3, PlainStep
<1>4. CASE RefusePrePrepare(n, m)
  <2>1. msgs' = msgs \cup CatchUpRequest(n, m) \cup {ViewChangeMsg(n, nr[n] + 1, m.digest)}
    BY <1>4 DEF RefusePrePrepare, Send
  <2>2. \A x \in msgs' \ msgs : x.type \in {"UpData", "ViewChange"}
    BY <2>1, CatchUpIsUpData DEF ViewChangeMsg
  <2>3. \A x \in msgs' \ msgs : Promise(x)'
    BY <2>2, NoPromise
  <2> QED BY <1>2, <2>1, <2>3, PlainStep
<1> QED BY <1>3, <1>4 DEF handlePrePrepare

(* A vote of another view is answered with ViewChange and not counted.     *)
LEMMA WrongViewSafe ==
    ASSUME SafetyInv, TypeOK', NEW n \in Node, NEW m, WrongView(n, m),
           \A q \in Node : taken'[q] \subseteq taken[q]
    PROVE  SafetyInv'
<1>1. \A x \in msgs' \ msgs : x.type = "ViewChange"
  BY DEF WrongView, Send, ViewChangeMsg
<1>2. \A x \in msgs' \ msgs : Promise(x)'
  BY <1>1, NoPromise
<1>3. msgs \subseteq msgs'
  BY DEF WrongView, Send
<1>4. UNCHANGED <<executed, GRToBlock, SeqToGRdigest, isReply, isMReply,
                  commitConfirmCount, isCommitBordcast>>
  BY DEF WrongView, roundVars, dbVars
<1> QED BY <1>2, <1>3, <1>4, PlainStep

(* The handlers of Prepare and Commit on a message of another node.        *)
LEMMA PreparePooledSafe ==
    ASSUME SafetyInv, TypeOK', NEW n \in Node, NEW m \in msgs, m.type = "Prepare",
           PreparePooled(n, m), \A q \in Node : taken'[q] \subseteq taken[q]
    PROVE  SafetyInv'
<1>1. CASE WrongView(n, m)
  BY <1>1, WrongViewSafe
<1>2. CASE CountPrepare(n, m)
  <2>0. PICK c : c = [type |-> "Commit", from |-> n, nr |-> nr[n],
                      digest |-> m.digest, seq |-> sequenceID[n], view |-> m.view]
    OBVIOUS
  <2>1. UNCHANGED <<executed, GRToBlock, SeqToGRdigest, isReply, isMReply,
                    commitConfirmCount>>
    BY <1>2 DEF CountPrepare, dbVars
  <2>2. CASE UNCHANGED <<msgs, isCommitBordcast>>
    <3>1. \A x \in msgs' \ msgs : Promise(x)'
      BY <2>2
    <3> QED BY <2>1, <2>2, <3>1, PlainStep
  <2>3. CASE /\ msgs' = msgs \cup {c}
             /\ isCommitBordcast' =
                  [isCommitBordcast EXCEPT ![n] = isCommitBordcast[n] \cup {m.digest}]
    <3>1. Promise(c)'
      <4>1. m.digest \notin Bad /\ Sent("PrePrepare", m.digest) # {}
        BY DEF SafetyInv, PromisesKept, Promise
      <4>2. Sent("PrePrepare", m.digest)' # {}
        <5>1. Sent("PrePrepare", m.digest) \subseteq Sent("PrePrepare", m.digest)'
          BY <2>3 DEF Sent
        <5> QED BY <4>1, <5>1
      <4>3. c.type = "Commit" /\ c.digest = m.digest
        BY <2>0
      <4> QED BY <4>1, <4>2, <4>3 DEF Promise
    <3>2. n \in Senders("Commit", m.digest)'
      <4>1. c \in Sent("Commit", m.digest)' /\ c.from = n
        BY <2>0, <2>3 DEF Sent
      <4> QED BY <4>1 DEF Senders
    <3>3. PromisesKept'
      <4>1. \A x \in msgs' \ msgs : Promise(x)'
        BY <2>3, <3>1
      <4> QED BY <2>1, <2>3, <4>1, PromisesGrow DEF SafetyInv
    <3>4. CountsHonest'
      <4> SUFFICES ASSUME NEW q \in Node
                   PROVE  /\ \A d \in Batch : commitConfirmCount'[q][d]
                                                  \subseteq Senders("Commit", d)' \ {q}
                          /\ \A d \in isCommitBordcast'[q] : q \in Senders("Commit", d)'
                          /\ \A x \in taken'[q] : x.from # q
        BY DEF CountsHonest
      <4>1. \A d : Senders("Commit", d) \subseteq Senders("Commit", d)'
        BY <2>3, SentStays
      <4>2. \A d \in isCommitBordcast'[q] :
               d \in isCommitBordcast[q] \/ (q = n /\ d = m.digest)
        BY <2>3 DEF SafetyInv, TypeOK, TypeRound
      <4> QED BY <2>1, <3>2, <4>1, <4>2 DEF SafetyInv, CountsHonest
    <3>5. OutcomesCertain'
      <4>1. \A q \in Node : Outcome(q)' \subseteq Outcome(q)
        BY <2>1 DEF Outcome, Blocks, Indexed
      <4> QED BY <2>3, <4>1, OutcomesShrink DEF SafetyInv
    <3> QED BY <3>3, <3>4, <3>5 DEF SafetyInv
  <2> QED BY <1>2, <2>0, <2>2, <2>3 DEF CountPrepare, Send
<1> QED BY <1>1, <1>2 DEF PreparePooled

(* A batch is executed with the own Commit and those of 2f other nodes.    *)
LEMMA CommitPreparedSafe ==
    ASSUME SafetyInv, TypeOK', NEW n \in Node, NEW m \in msgs, m.type = "Commit",
           m.from # n, CommitPrepared(n, m),
           \A q \in Node : taken'[q] \subseteq taken[q]
    PROVE  SafetyInv'
<1>0. m.digest \in Batch /\ m.from \in Node
  <2>1. m \in Commits
    BY MessageFields DEF SafetyInv, TypeOK, TypeNet
  <2> QED BY <2>1 DEF Commits
<1>1. CASE WrongView(n, m)
  BY <1>1, WrongViewSafe
<1>2. CASE CountCommit(n, m)
  <2>1. UNCHANGED <<GRToBlock, SeqToGRdigest, isMReply, isCommitBordcast>>
    BY <1>2 DEF CountCommit, dbVars
  <2>2. msgs \subseteq msgs' /\ msgs' \subseteq Message
    <3>1. CASE Execute(n, m)
      BY <3>1 DEF Execute, Send, TypeOK, TypeNet
    <3>2. CASE UNCHANGED msgs
      BY <3>2 DEF TypeOK, TypeNet
    <3> QED BY <1>2, <3>1, <3>2 DEF CountCommit
  <2>3. CountsHonest'
    <3> SUFFICES ASSUME NEW q \in Node
                 PROVE  /\ \A d \in Batch : commitConfirmCount'[q][d]
                                                \subseteq Senders("Commit", d)' \ {q}
                        /\ \A d \in isCommitBordcast'[q] : q \in Senders("Commit", d)'
                        /\ \A x \in taken'[q] : x.from # q
      BY DEF CountsHonest
    <3>1. \A d : Senders("Commit", d) \subseteq Senders("Commit", d)'
      BY <2>2, SentStays
    <3>2. m.from \in Senders("Commit", m.digest)
      BY DEF Senders, Sent
    <3>3. \A d \in Batch : \A x \in commitConfirmCount'[q][d] :
             x \in commitConfirmCount[q][d] \/ (q = n /\ d = m.digest /\ x = m.from)
      BY <1>0, <1>2 DEF CountCommit, SafetyInv, TypeOK, TypeRound
    <3> QED BY <2>1, <3>1, <3>2, <3>3 DEF SafetyInv, CountsHonest
  <2>4. CASE UNCHANGED <<isReply, executed, msgs>>
    <3>1. PromisesKept'
      BY <2>4, PromisesGrow DEF SafetyInv
    <3>2. \A q \in Node : Outcome(q)' \subseteq Outcome(q)
      BY <2>1, <2>4 DEF Outcome, Blocks, Indexed
    <3>3. OutcomesCertain'
      BY <2>4, <3>2, OutcomesShrink DEF SafetyInv
    <3> QED BY <2>3, <3>1, <3>3 DEF SafetyInv
  <2>5. CASE /\ EnoughCommits(n, m.digest, commitConfirmCount'[n][m.digest])
             /\ Execute(n, m)
    <3>1. Certain(m.digest)'
      <4> DEFINE d == m.digest
      <4>1. /\ commitConfirmCount'[n][d] \subseteq Senders("Commit", d)' \ {n}
            /\ n \in Senders("Commit", d)'
            /\ Cardinality(commitConfirmCount'[n][d]) >= 2 * f
        BY <1>0, <2>1, <2>3, <2>5 DEF EnoughCommits, CountsHonest
      <4> DEFINE S == Senders("Commit", d)'
      <4>2. S \in SUBSET Node
        BY <2>2, MessageFrom DEF Senders, Sent
      <4> HIDE DEF S
      <4>3. Cardinality(S) >= 2 * f + 1
        BY <4>1, <4>2, OwnAndOthers DEF S
      <4> QED BY <4>3 DEF S, Certain
    <3>2. /\ isReply' = [isReply EXCEPT ![n] = isReply[n] \cup {m.digest}]
          /\ executed' = [executed EXCEPT ![n] = executed[n] \cup {m.digest}]
      BY <2>5 DEF Execute
    <3>3. /\ \A q \in Node : executed[q] \subseteq executed'[q]
          /\ m.digest \in executed'[n]
          /\ \A q \in Node : \A d \in isReply'[q] \cup executed'[q] :
                d \in isReply[q] \cup executed[q] \/ d = m.digest
      BY <3>2 DEF SafetyInv, TypeOK, TypeRound
    <3>4. \A x \in msgs' \ msgs : \/ x.type = "CheckPoint"
                                  \/ x.type = "Reply" /\ x.digest = m.digest /\ x.from = n
      BY <2>5 DEF Execute, Send
    <3>5. \A x \in msgs' \ msgs : Promise(x)'
      BY <3>1, <3>3, <3>4 DEF Promise
    <3>6. PromisesKept'
      BY <2>2, <3>3, <3>5, PromisesGrow DEF SafetyInv
    <3>7. OutcomesCertain'
      <4>1. \A q \in Node : \A d \in Outcome(q)' : d \in Outcome(q) \/ d = m.digest
        BY <2>1, <3>3 DEF Outcome, Blocks, Indexed
      <4>2. \A q \in Node : \A d \in Outcome(q)' : d \in Outcome(q) \/ Certain(d)'
        BY <3>1, <4>1
      <4> QED BY <2>2, <4>2, OutcomesShrink DEF SafetyInv
    <3> QED BY <2>3, <3>6, <3>7 DEF SafetyInv
  <2> QED BY <1>2, <2>4, <2>5 DEF CountCommit
<1> QED BY <1>1, <1>2 DEF CommitPrepared

(* A deferred message has been sent.                                       *)
LEMMA DeferSafe ==
    ASSUME SafetyInv, TypeOK', NEW n \in Node, NEW m \in msgs, m.from # n,
           DeferToMain(n, m)
    PROVE  SafetyInv'
<1>1. UNCHANGED <<msgs, executed, GRToBlock, SeqToGRdigest, isReply, isMReply,
                  commitConfirmCount, isCommitBordcast>>
  BY DEF DeferToMain, roundVars, dbVars
<1>2. PromisesKept'
  BY <1>1, PromisesGrow DEF SafetyInv
<1>3. OutcomesCertain'
  <2>1. \A q \in Node : Outcome(q)' \subseteq Outcome(q)
    BY <1>1 DEF Outcome, Blocks, Indexed
  <2> QED BY <1>1, <2>1, OutcomesShrink DEF SafetyInv
<1>4. CountsHonest'
  <2> SUFFICES ASSUME NEW q \in Node
               PROVE  /\ \A d \in Batch : commitConfirmCount'[q][d]
                                              \subseteq Senders("Commit", d)' \ {q}
                      /\ \A d \in isCommitBordcast'[q] : q \in Senders("Commit", d)'
                      /\ \A x \in taken'[q] : x.from # q
    BY DEF CountsHonest
  <2>1. \A d : Senders("Commit", d)' = Senders("Commit", d)
    BY <1>1 DEF Senders, Sent
  <2>2. \A x \in taken'[q] : x \in taken[q] \/ (q = n /\ x = m)
    BY DEF DeferToMain, SafetyInv, TypeOK, TypeProc
  <2> QED BY <1>1, <2>1, <2>2 DEF SafetyInv, CountsHonest
<1> QED BY <1>2, <1>3, <1>4 DEF SafetyInv

(* A Commit inherits what the Prepare that completes the count promises.   *)
LEMMA handlePrepareSafe ==
    ASSUME SafetyInv, TypeOK', NEW n \in Node, NEW m \in msgs, handlePrepare(n, m)
    PROVE  SafetyInv'
<1>1. m.type = "Prepare" /\ m.from # n
  BY DEF handlePrepare, Deliver
<1>2. CASE PreparePooled(n, m) /\ UNCHANGED procVars
  BY <1>1, <1>2, PreparePooledSafe DEF procVars
<1>3. CASE DeferToMain(n, m)
  BY <1>1, <1>3, DeferSafe
<1> QED BY <1>2, <1>3 DEF handlePrepare

(* handleCommit preserves the invariant.                                   *)
LEMMA handleCommitSafe ==
    ASSUME SafetyInv, TypeOK', NEW n \in Node, NEW m \in msgs, handleCommit(n, m)
    PROVE  SafetyInv'
<1>1. m.type = "Commit" /\ m.from # n
  BY DEF handleCommit, Deliver
<1>2. CASE CommitPrepared(n, m) /\ UNCHANGED procVars
  BY <1>1, <1>2, CommitPreparedSafe DEF procVars
<1>3. CASE DeferToMain(n, m)
  BY <1>1, <1>3, DeferSafe
<1> QED BY <1>2, <1>3 DEF handleCommit

(* So does the deferred message that main handles.                         *)
LEMMA mainSelectSafe ==
    ASSUME SafetyInv, TypeOK', NEW n \in Node, mainSelect(n)
    PROVE  SafetyInv'
<1>1. PICK m \in taken[n] :
        \/ m.type = "Prepare" /\ PreparePooled(n, m)
        \/ m.type = "Commit" /\ CommitPrepared(n, m)
        \/ UNCHANGED <<msgs, nr, roundVars, viewVars, ckptVars, dbVars>>
  BY DEF mainSelect
<1>2. m \in msgs /\ m.from # n
  BY <1>1 DEF SafetyInv, TypeOK, TypeProc, CountsHonest
<1>3. \A q \in Node : taken'[q] \subseteq taken[q]
  BY DEF mainSelect, SafetyInv, TypeOK, TypeProc
<1>4. CASE UNCHANGED <<msgs, nr, roundVars, viewVars, ckptVars, dbVars>>
  BY <1>3, <1>4, PlainStep DEF roundVars, dbVars
<1> QED BY <1>1, <1>2, <1>3, <1>4, PreparePooledSafe, CommitPreparedSafe

(* A primary stores what the Reply says has been executed.                 *)
LEMMA handleReplySafe ==
    ASSUME SafetyInv, TypeOK', NEW n \in Node, NEW m \in msgs, handleReply(n, m)
    PROVE  SafetyInv'
<1>1. m.type = "Reply"
  BY DEF handleReply, Deliver
<1>2. Certain(m.digest)
  BY <1>1 DEF SafetyInv, PromisesKept, Promise
<1>3. UNCHANGED <<msgs, executed, isReply, commitConfirmCount, isCommitBordcast, taken>>
  BY DEF handleReply, procVars
<1>4. PromisesKept'
  BY <1>3, PromisesGrow DEF SafetyInv
<1>5. CountsHonest'
  BY <1>3, CountsShrink DEF SafetyInv
<1>6. ASSUME NEW q \in Node, NEW d \in Outcome(q)'
      PROVE  d \in Outcome(q) \/ d = m.digest
  <2>1. CASE UNCHANGED <<isMReply, dbVars>>
    BY <1>3, <1>6, <2>1 DEF Outcome, Blocks, Indexed, dbVars
  <2>2. CASE /\ isMReply' = [isMReply EXCEPT ![n] = isMReply[n] \cup {m.digest}]
             /\ handleBlockStorage(n, m.digest, m.seq)
    <3>1. d \in isMReply'[q] => d \in isMReply[q] \/ d = m.digest
      BY <2>2 DEF SafetyInv, TypeOK, TypeRound
    <3>2. d \in Indexed(q)' => d \in Indexed(q) \/ d = m.digest
      <4>1. \/ SeqToGRdigest'[q] = SeqToGRdigest[q]
            \/ SeqToGRdigest'[q] = Put(SeqToGRdigest[q], m.seq, m.digest)
        BY <2>2 DEF handleBlockStorage, SafetyInv, TypeOK, TypeDb
      <4> QED BY <4>1 DEF Indexed, Put
    <3>3. d \in Blocks(q)' => d \in Blocks(q) \/ d = m.digest
      <4>1. \/ GRToBlock'[q] = GRToBlock[q]
            \/ GRToBlock'[q] = Append(GRToBlock[q], m.digest)
        BY <2>2 DEF handleBlockStorage, SafetyInv, TypeOK, TypeDb
      <4>2. GRToBlock[q] \in Seq(Batch)
        BY DEF SafetyInv, TypeOK, TypeDb
      <4> QED BY <4>1, <4>2 DEF Blocks
    <3> QED BY <1>3, <1>6, <3>1, <3>2, <3>3 DEF Outcome
  <2> QED BY <2>1, <2>2 DEF handleReply
<1>7. OutcomesCertain'
  <2>1. Certain(m.digest)'
    BY <1>2, <1>3, CertainStays DEF SafetyInv, TypeOK, TypeNet
  <2>2. \A q \in Node : \A d \in Outcome(q)' : d \in Outcome(q) \/ Certain(d)'
    BY <1>6, <2>1
  <2> QED BY <1>3, <2>2, OutcomesShrink DEF SafetyInv
<1> QED BY <1>4, <1>5, <1>7 DEF SafetyInv

(* A stable checkpoint makes the node forget, never count.                 *)
LEMMA handleCheckPointSafe ==
    ASSUME SafetyInv, TypeOK', NEW n \in Node, NEW m \in msgs, handleCheckPoint(n, m)
    PROVE  SafetyInv'
<1>1. CASE LateCheckPoint(n, m)
  <2>1. UNCHANGED <<msgs, executed, GRToBlock, SeqToGRdigest, isReply, isMReply,
                    commitConfirmCount, isCommitBordcast, taken>>
    BY <1>1 DEF LateCheckPoint, handleCheckPoint, roundVars, procVars, dbVars
  <2> QED BY <2>1, PlainStep
<1>2. CASE AheadCheckPoint(n, m)
  <2>1. UNCHANGED <<executed, GRToBlock, SeqToGRdigest, taken>>
    BY <1>2 DEF AheadCheckPoint, handleCheckPoint, procVars, dbVars
  <2>2. msgs \subseteq msgs' /\ \A x \in msgs' \ msgs : x.type = "UpData"
    BY <1>2 DEF AheadCheckPoint, Send
  <2>3. \A x \in msgs' \ msgs : Promise(x)'
    BY <2>2, NoPromise
  <2>4. \A q \in Node :
          /\ isReply'[q] \subseteq isReply[q]
          /\ isMReply'[q] \subseteq isMReply[q]
          /\ isCommitBordcast'[q] \subseteq isCommitBordcast[q]
          /\ \A d \in Batch : commitConfirmCount'[q][d] \subseteq commitConfirmCount[q][d]
    <3> DEFINE gone == Remembered(arrayTodigest[n])
    <3>1. /\ isReply' = [isReply EXCEPT ![n] = isReply[n] \ gone]
          /\ isMReply' = [isMReply EXCEPT ![n] = isMReply[n] \ gone]
          /\ isCommitBordcast' = [isCommitBordcast EXCEPT ![n] = isCommitBordcast[n] \ gone]
          /\ commitConfirmCount' = [commitConfirmCount EXCEPT ![n] =
               [d \in Batch |-> IF d \in gone THEN {} ELSE commitConfirmCount[n][d]]]
      BY <1>2 DEF AheadCheckPoint, deleteCacheMessage, ForgetAnswers
    <3> HIDE DEF gone
    <3> QED BY <3>1 DEF SafetyInv, TypeOK, TypeRound
  <2> QED BY <2>1, <2>2, <2>3, <2>4, PlainStep
<1> QED BY <1>1, <1>2 DEF handleCheckPoint

(* A node answers a catch-up from its index, and indexes what it is sent.  *)
LEMMA handleUpdataSafe ==
    ASSUME SafetyInv, TypeOK', NEW n \in Node, NEW m \in msgs, handleUpdata(n, m)
    PROVE  SafetyInv'
<1>1. m.seq \in Nat /\ m.scp \in Nat
  <2>1. m \in UpDatas
    BY MessageFields DEF handleUpdata, Deliver, SafetyInv, TypeOK, TypeNet
  <2> QED BY <2>1 DEF UpDatas
<1>2. UNCHANGED <<executed, GRToBlock, SeqToGRdigest, isReply, isMReply,
                  commitConfirmCount, isCommitBordcast, taken>>
  BY DEF handleUpdata, roundVars, procVars, dbVars
<1>3. CASE UNCHANGED msgs
  BY <1>2, <1>3, PlainStep
<1>4. PICK b : b = [i \in 1 .. m.scp - m.seq |-> SeqToGRdigest[n][m.seq + i]]
  OBVIOUS
<1>5. PICK c : c = [type |-> "NewData", from |-> n, nr |-> nr[n], to |-> m.from,
                    udc |-> [seq |-> m.seq, scp |-> m.scp, batches |-> b]]
  OBVIOUS
<1>6. CASE m.seq + 1 .. m.scp \subseteq DOMAIN SeqToGRdigest[n] /\ msgs' = msgs \cup {c}
  <2>1. c \in NewDatas
    <3>1. c.type = "NewData" /\ c \in Message
      BY <1>5, <1>6 DEF TypeOK, TypeNet
    <3> QED BY <3>1, MessageFields
  <2>2. b \in Seq(Batch) /\ c.udc.batches = b /\ c.type = "NewData"
    BY <1>5, <2>1 DEF NewDatas, UpDataCounts
  <2>3. \A i \in 1 .. Len(b) : b[i] \in Indexed(n)
    <3>1. \A i \in DOMAIN b : i \in 1 .. m.scp - m.seq /\ b[i] = SeqToGRdigest[n][m.seq + i]
      BY <1>4
    <3>2. \A i \in 1 .. m.scp - m.seq : m.seq + i \in DOMAIN SeqToGRdigest[n]
      BY <1>1, <1>6
    <3>3. \A i \in 1 .. Len(b) : i \in DOMAIN b
      BY <2>2
    <3> QED BY <3>1, <3>2, <3>3 DEF Indexed
  <2>4. \A i \in 1 .. Len(b) : Certain(b[i])
    BY <2>3 DEF SafetyInv, OutcomesCertain, Outcome
  <2>5. \A i \in 1 .. Len(b) : Certain(b[i])'
    BY <1>6, <2>4, CertainStays DEF SafetyInv, TypeOK, TypeNet
  <2>6. Promise(c)'
    BY <2>2, <2>5 DEF Promise
  <2> QED BY <1>2, <1>6, <2>6, PlainStep
<1> QED BY <1>3, <1>4, <1>5, <1>6 DEF handleUpdata, Send

(* The batches a lagging node adopts are certain: NewData promises it.     *)
LEMMA handleNewdataSafe ==
    ASSUME SafetyInv, TypeOK', NEW n \in Node, NEW m \in msgs, handleNewdata(n, m)
    PROVE  SafetyInv'
<1>1. m.type = "NewData"
  BY DEF handleNewdata, Deliver
<1>2. /\ \A i \in 1 .. Len(m.udc.batches) : Certain(m.udc.batches[i])
      /\ m.udc.batches \in Seq(Batch)
  <2>1. m \in NewDatas
    BY <1>1, MessageFields DEF SafetyInv, TypeOK, TypeNet
  <2> QED BY <1>1, <2>1 DEF SafetyInv, PromisesKept, Promise, NewDatas, UpDataCounts
<1>3. UNCHANGED <<msgs, executed, GRToBlock, isReply, isMReply,
                  commitConfirmCount, isCommitBordcast, taken>>
  BY DEF handleNewdata, procVars
<1>4. PromisesKept'
  BY <1>3, PromisesGrow DEF SafetyInv
<1>5. CountsHonest'
  BY <1>3, CountsShrink DEF SafetyInv
<1>6. ASSUME NEW q \in Node, NEW d \in Indexed(q)'
      PROVE  d \in Indexed(q) \/ Certain(d)
  <2> DEFINE len == Len(m.udc.batches)
             T == [k \in DOMAIN SeqToGRdigest[n] \cup (1 - len .. 0) |->
                     IF k \in 1 - len .. 0 THEN m.udc.batches[k + len]
                     ELSE SeqToGRdigest[n][k]]
  <2>1. \/ SeqToGRdigest'[q] = SeqToGRdigest[q]
        \/ q = n /\ SeqToGRdigest'[q] = T
    BY DEF handleNewdata, CountNewdata, SafetyInv, TypeOK, TypeDb
  <2>2. CASE SeqToGRdigest'[q] = SeqToGRdigest[q]
    BY <1>6, <2>2 DEF Indexed
  <2>3. CASE q = n /\ SeqToGRdigest'[q] = T
    <3>1. len \in Nat
      BY <1>2
    <3>2. \A k \in 1 - len .. 0 : k + len \in 1 .. len
      BY <3>1
    <3>3. \A k \in DOMAIN T :
             Certain(T[k]) \/ (k \in DOMAIN SeqToGRdigest[n] /\ T[k] = SeqToGRdigest[n][k])
      BY <1>2, <3>2
    <3>4. PICK k \in DOMAIN T : d = T[k]
      BY <1>6, <2>3 DEF Indexed
    <3> HIDE DEF T
    <3> QED BY <2>3, <3>3, <3>4 DEF Indexed
  <2> QED BY <2>1, <2>2, <2>3
<1>7. OutcomesCertain'
  <2>1. \A q \in Node : \A d \in Outcome(q)' : d \in Outcome(q) \/ Certain(d)
    BY <1>3, <1>6 DEF Outcome, Blocks
  <2>2. \A d : Certain(d) => Certain(d)'
    BY <1>3, CertainStays DEF SafetyInv, TypeOK, TypeNet
  <2> QED BY <1>3, <2>1, <2>2, OutcomesShrink DEF SafetyInv
<1> QED BY <1>4, <1>5, <1>7 DEF SafetyInv

(* A view change disturbs neither counts nor outcomes.                     *)
LEMMA handleViewChangeSafe ==
    ASSUME SafetyInv, TypeOK', NEW n \in Node, NEW m \in msgs, handleViewChange(n, m)
    PROVE  SafetyInv'
<1>1. UNCHANGED <<executed, GRToBlock, SeqToGRdigest, isReply, isMReply,
                  commitConfirmCount, isCommitBordcast, taken>>
  BY DEF handleViewChange, procVars, dbVars
<1>2. msgs \subseteq msgs' /\ \A x \in msgs' \ msgs : x.type = "NewView"
  BY DEF handleViewChange, Send
<1>3. \A x \in msgs' \ msgs : Promise(x)'
  BY <1>2, NoPromise
<1> QED BY <1>1, <1>2, <1>3, PlainStep

(* Nor does entering the view of another node.                             *)
LEMMA handleNewViewSafe ==
    ASSUME SafetyInv, TypeOK', NEW n \in Node, NEW m \in msgs, handleNewView(n, m)
    PROVE  SafetyInv'
<1>1. UNCHANGED <<msgs, executed, GRToBlock, SeqToGRdigest, isReply, isMReply,
                  commitConfirmCount, isCommitBordcast, taken>>
  BY DEF handleNewView, procVars, dbVars
<1> QED BY <1>1, PlainStep

(* The end of a process changes neither.                                   *)
LEMMA mainReturnSafe ==
    ASSUME SafetyInv, TypeOK', NEW n \in Node, mainReturn(n)
    PROVE  SafetyInv'
<1>1. UNCHANGED <<msgs, executed, GRToBlock, SeqToGRdigest, isReply, isMReply,
                  commitConfirmCount, isCommitBordcast, taken>>
  BY DEF mainReturn, netVars, roundVars, dbVars
<1> QED BY <1>1, PlainStep

(* A restarted node forgets what it counted; its database and what it sent *)
(* remain.                                                                 *)
LEMMA restartSafe ==
    ASSUME SafetyInv, TypeOK', NEW n \in Node, restart(n)
    PROVE  SafetyInv'
<1>1. UNCHANGED <<msgs, executed, GRToBlock, SeqToGRdigest>>
  BY DEF restart, netVars, dbVars
<1>2. \A q \in Node :
        /\ isReply'[q] \subseteq isReply[q]
        /\ isMReply'[q] \subseteq isMReply[q]
        /\ isCommitBordcast'[q] \subseteq isCommitBordcast[q]
        /\ taken'[q] \subseteq taken[q]
        /\ \A d \in Batch : commitConfirmCount'[q][d] \subseteq commitConfirmCount[q][d]
  BY DEF restart, SafetyInv, TypeOK, TypeRound, TypeProc
<1> QED BY <1>1, <1>2, PlainStep

(* SafetyInv is inductive.                                                 *)
LEMMA SafetyStep == SafetyInv /\ [Next]_vars => SafetyInv'
<1> SUFFICES ASSUME SafetyInv, [Next]_vars PROVE SafetyInv'
  OBVIOUS
<1>0. TypeOK'
  BY TypeStep DEF SafetyInv
<1>1. CASE UNCHANGED vars
  <2>1. UNCHANGED <<msgs, executed, GRToBlock, SeqToGRdigest, isReply, isMReply,
                    commitConfirmCount, isCommitBordcast, taken>>
    BY <1>1 DEF vars
  <2> QED BY <1>0, <2>1, PlainStep
<1>2. ASSUME NEW n \in Node, NEW d \in Batch, handleRequests(n, d) PROVE SafetyInv'
  BY <1>0, <1>2, handleRequestsSafe
<1>3. ASSUME NEW n \in Node, NEW m \in msgs, handleRequest(n, m) PROVE SafetyInv'
  BY <1>0, <1>3, handlePrePrepareSafe, handlePrepareSafe, handleCommitSafe,
     handleReplySafe, handleCheckPointSafe, handleUpdataSafe, handleNewdataSafe,
     handleViewChangeSafe, handleNewViewSafe DEF handleRequest
<1>4. ASSUME NEW n \in Node, mainSelect(n) \/ mainReturn(n) \/ restart(n)
      PROVE  SafetyInv'
  BY <1>0, <1>4, mainSelectSafe, mainReturnSafe, restartSafe
<1> QED BY <1>1, <1>2, <1>3, <1>4 DEF Next

(* In every reachable state every counted vote was sent and everything     *)
(* executed, answered, indexed, stored or promised has 2f+1 Commit senders,*)
(* and nothing refused is prepared.                                        *)
THEOREM SafetyInvariant == Spec => []SafetyInv
  BY SafetyInit, SafetyStep, PTL DEF Spec

(* Nobody executes, answers for, stores or indexes a batch to which fewer  *)
(* than 2f+1 nodes have committed: for every N, with any loss, reordering, *)
(* cache deletion, view change, catch-up and restart.                      *)
THEOREM CommitQuorumHolds == Spec => []CommitQuorum
<1>1. SafetyInv => CommitQuorum
  BY DEF SafetyInv, OutcomesCertain, Outcome, Certain, CommitQuorum
<1> QED BY <1>1, SafetyInvariant, PTL

(* A batch with a refused client signature is prepared, committed,         *)
(* executed and stored by nobody, although its proposer never checks it.   *)
THEOREM BadNeverCommittedHolds == Spec => []BadNeverCommitted
<1>1. SafetyInv => BadNeverCommitted
  <2> SUFFICES ASSUME SafetyInv, NEW d \in Bad
               PROVE  /\ Senders("Prepare", d) \cup Senders("Commit", d) = {}
                      /\ \A n \in Node : d \notin executed[n] \cup Blocks(n)
    BY DEF BadNeverCommitted
  <2>1. Senders("Prepare", d) \cup Senders("Commit", d) = {}
    BY DEF SafetyInv, PromisesKept, Promise, Senders, Sent
  <2>2. ~Certain(d)
    <3>1. Senders("Commit", d) = {}
      BY <2>1
    <3>2. Cardinality(Senders("Commit", d)) = 0
      BY <3>1, FS_EmptySet
    <3> QED BY <3>2, NodeFacts DEF Certain
  <2> QED BY <2>1, <2>2 DEF SafetyInv, OutcomesCertain, Outcome
<1> QED BY <1>1, SafetyInvariant, PTL

-----------------------------------------------------------------------------
(***************************************************************************)
(* Part 3.  What the caches, the sequence numbers, the views and the two   *)
(* kinds of counted answers are worth.  Each property is a conjunct of, or *)
(* follows from, an inductive invariant defined before it; the steps of    *)
(* Next are sorted once (StepCases, Origins) and each invariant is then    *)
(* taken through them.  At the end, that PBFT implements Ledger.           *)
(***************************************************************************)

(* The steps of Next, with handlePrepare, handleCommit and the select of   *)
(* main, which runs the same code on a deferred message, taken together.   *)
Idle == UNCHANGED <<msgs, nr, roundVars, viewVars, ckptVars, dbVars>>

HeardVotes ==
    \A q \in Node : \A x \in rcvd'[q] \ rcvd[q] : x.type \in {"Prepare", "Commit"}

Vote(n, m, t) == m.type = t /\ m.from # n /\ m.digest \in Batch

StepKind ==
    \/ Idle /\ HeardVotes
    \/ \E n \in Node, d \in Batch : handleRequests(n, d)
    \/ \E n \in Node, m \in msgs : handlePrePrepare(n, m)
    \/ \E n \in Node, m \in msgs :
          Vote(n, m, "Prepare") /\ PreparePooled(n, m) /\ HeardVotes
    \/ \E n \in Node, m \in msgs :
          Vote(n, m, "Commit") /\ CommitPrepared(n, m) /\ HeardVotes
    \/ \E n \in Node, m \in msgs : handleReply(n, m)
    \/ \E n \in Node, m \in msgs : handleCheckPoint(n, m)
    \/ \E n \in Node, m \in msgs : handleUpdata(n, m)
    \/ \E n \in Node, m \in msgs : handleNewdata(n, m)
    \/ \E n \in Node, m \in msgs : handleViewChange(n, m)
    \/ \E n \in Node, m \in msgs : handleNewView(n, m)
    \/ \E n \in Node : restart(n)

(* A message n is given is new to n, and nobody else is given one.         *)
LEMMA DeliverHeard ==
    ASSUME TypeNet, NEW n \in Node, NEW m, NEW t, Deliver(n, m, t)
    PROVE  \A q \in Node :
              /\ rcvd[q] \subseteq rcvd'[q]
              /\ \A x \in rcvd'[q] \ rcvd[q] : q = n /\ x = m /\ x.type = t
  BY DEF TypeNet, Deliver

(* Every digest of a vote is a batch.                                      *)
LEMMA VoteDigest ==
    ASSUME TypeOK, NEW m \in msgs, m.type \in {"PrePrepare", "Prepare", "Commit"}
    PROVE  m.digest \in Batch /\ m.view \in Node /\ m.from \in Node /\ m.seq \in Nat
<1>1. m \in PrePrepares \cup Prepares \cup Commits
  BY MessageFields DEF TypeOK, TypeNet
<1> QED BY <1>1 DEF PrePrepares, Prepares, Commits

(* Every step is of one of the kinds, and nothing heard is forgotten.      *)
LEMMA StepCases ==
    ASSUME SafetyInv, [Next]_vars
    PROVE  StepKind /\ \A q \in Node : rcvd[q] \subseteq rcvd'[q]
<1> USE DEF StepKind
<1>0. TypeNet /\ TypeOK
  BY DEF SafetyInv, TypeOK
<1>1. CASE UNCHANGED vars
  BY <1>1 DEF vars, Idle, HeardVotes, roundVars, viewVars, ckptVars, dbVars
<1>2. ASSUME NEW n \in Node, NEW d \in Batch, handleRequests(n, d)
      PROVE  StepKind /\ \A q \in Node : rcvd[q] \subseteq rcvd'[q]
  BY <1>2 DEF handleRequests
<1>3. ASSUME NEW n \in Node, NEW m \in msgs, handleRequest(n, m)
      PROVE  StepKind /\ \A q \in Node : rcvd[q] \subseteq rcvd'[q]
  <2>1. CASE handlePrepare(n, m)
    <3>1. Deliver(n, m, "Prepare") /\ Vote(n, m, "Prepare")
      BY <1>0, <2>1, VoteDigest DEF handlePrepare, Deliver, Vote
    <3>2. HeardVotes /\ \A q \in Node : rcvd[q] \subseteq rcvd'[q]
      BY <1>0, <3>1, DeliverHeard DEF HeardVotes
    <3>3. CASE PreparePooled(n, m)
      BY <3>1, <3>2, <3>3
    <3>4. CASE DeferToMain(n, m)
      BY <3>2, <3>4 DEF DeferToMain, Idle
    <3> QED BY <2>1, <3>3, <3>4 DEF handlePrepare
  <2>2. CASE handleCommit(n, m)
    <3>1. Deliver(n, m, "Commit") /\ Vote(n, m, "Commit")
      BY <1>0, <2>2, VoteDigest DEF handleCommit, Deliver, Vote
    <3>2. HeardVotes /\ \A q \in Node : rcvd[q] \subseteq rcvd'[q]
      BY <1>0, <3>1, DeliverHeard DEF HeardVotes
    <3>3. CASE CommitPrepared(n, m)
      BY <3>1, <3>2, <3>3
    <3>4. CASE DeferToMain(n, m)
      BY <3>2, <3>4 DEF DeferToMain, Idle
    <3> QED BY <2>2, <3>3, <3>4 DEF handleCommit
  <2>3. CASE handlePrePrepare(n, m)
    BY <1>0, <2>3, DeliverHeard DEF handlePrePrepare
  <2>4. CASE handleReply(n, m)
    BY <1>0, <2>4, DeliverHeard DEF handleReply
  <2>5. CASE handleCheckPoint(n, m)
    BY <1>0, <2>5, DeliverHeard DEF handleCheckPoint
  <2>6. CASE handleUpdata(n, m)
    BY <1>0, <2>6, DeliverHeard DEF handleUpdata
  <2>7. CASE handleNewdata(n, m)
    BY <1>0, <2>7, DeliverHeard DEF handleNewdata
  <2>8. CASE handleViewChange(n, m)
    BY <1>0, <2>8, DeliverHeard DEF handleViewChange
  <2>9. CASE handleNewView(n, m)
    BY <1>0, <2>9, DeliverHeard DEF handleNewView
  <2> QED BY <1>3, <2>1, <2>2, <2>3, <2>4, <2>5, <2>6, <2>7, <2>8, <2>9
          DEF handleRequest
<1>4. ASSUME NEW n \in Node, mainSelect(n) \/ mainReturn(n) \/ restart(n)
      PROVE  StepKind /\ \A q \in Node : rcvd[q] \subseteq rcvd'[q]
  <2>1. CASE mainSelect(n)
    <3>1. HeardVotes /\ \A q \in Node : rcvd[q] \subseteq rcvd'[q]
      BY <2>1 DEF mainSelect, HeardVotes
    <3>2. PICK m \in taken[n] :
            \/ m.type = "Prepare" /\ PreparePooled(n, m)
            \/ m.type = "Commit" /\ CommitPrepared(n, m)
            \/ UNCHANGED <<msgs, nr, roundVars, viewVars, ckptVars, dbVars>>
      BY <2>1 DEF mainSelect
    <3>3. m \in msgs /\ m.from # n /\ m.type \in {"Prepare", "Commit"}
      BY DEF SafetyInv, TypeOK, TypeProc, CountsHonest
    <3>4. m.digest \in Batch
      BY <1>0, <3>3, VoteDigest
    <3> QED BY <3>1, <3>2, <3>3, <3>4 DEF Vote, Idle
  <2>2. CASE mainReturn(n)
    BY <2>2 DEF mainReturn, netVars, Idle, HeardVotes
  <2>3. CASE restart(n)
    BY <2>3 DEF restart, netVars
  <2> QED BY <1>4, <2>1, <2>2, <2>3
<1> QED BY <1>1, <1>2, <1>3, <1>4 DEF Next

-----------------------------------------------------------------------------
(* Where the messages of a step come from: which handler sends one of each *)
(* type, and what it copies from the message at hand or from its state.    *)
FromProposal(x) ==
    /\ x.type = "PrePrepare"
    /\ \E n \in Node, d \in Batch :
          handleRequests(n, d) /\ x.from = n /\ x.digest = d /\ x.view = M_node[n]

FromPrePrepare(x) ==
    /\ x.type = "Prepare"
    /\ \E n \in Node, m \in msgs :
          /\ m.type = "PrePrepare" /\ m.from # n /\ Acceptable(n, m)
          /\ x.from = n /\ x.digest = m.digest /\ x.view = m.view

FromPrepares(x) ==
    /\ x.type = "Commit"
    /\ \E n \in Node, m \in msgs :
          /\ Vote(n, m, "Prepare") /\ m.digest \in messagePool[n] /\ InView(n, m)
          /\ EnoughPrepares(n, prePareConfirmCount[n][m.digest] \cup {m.from})
          /\ x.from = n /\ x.digest = m.digest /\ x.view = m.view

Executes(n, m) ==
    /\ Vote(n, m, "Commit") /\ Prepared(n, m.digest)
    /\ m.digest \notin isReply[n] /\ m.digest \in isCommitBordcast[n]
    /\ CountCommit(n, m) /\ Execute(n, m)

FromCommits(x) ==
    \E n \in Node, m \in msgs :
        /\ Executes(n, m)
        /\ \/ x.type = "Reply" /\ x.from = n /\ x.to # n /\ x.digest = m.digest
           \/ x.type = "CheckPoint" /\ x.seq = sequenceID[n]

FromGap(x) ==
    /\ x.type = "UpData"
    /\ \/ \E m \in msgs, n \in Node :
             m.type = "PrePrepare" /\ sequenceID[n] + 1 < m.seq
               /\ x.seq = sequenceID[n] /\ x.scp = m.seq - 1
       \/ \E n \in Node, m \in msgs :
             /\ m.type = "CheckPoint"
             /\ x.seq = sequenceID[n] /\ x.seq < x.scp
             /\ x.scp = m.seq \/ \E q \in Node : x.scp = checkpointCount[n][q]

FromUpData(x) ==
    /\ x.type = "NewData"
    /\ \E m \in msgs : m.type = "UpData" /\ x.udc.scp = m.scp

FromRefusal(x) ==
    /\ x.type = "ViewChange"
    /\ \E n \in Node, m \in msgs :
          /\ x.from = n /\ x.digest = m.digest
          /\ \/ Deliver(n, m, "PrePrepare") /\ RefusePrePrepare(n, m)
             \/ m.type \in {"Prepare", "Commit"} /\ m.digest \in Batch /\ WrongView(n, m)

FromViewChanges(x) ==
    /\ x.type = "NewView"
    /\ \E n \in Node, m \in msgs :
          /\ Deliver(n, m, "ViewChange") /\ x.from = n /\ x.digest = m.digest
          /\ EnoughViewChanges(n, m.digest, viewchangeCount[n][m.digest] + 1)

Origin(x) ==
    \/ FromProposal(x) \/ FromPrePrepare(x) \/ FromPrepares(x) \/ FromCommits(x)
    \/ FromGap(x) \/ FromUpData(x) \/ FromRefusal(x) \/ FromViewChanges(x)

(* A vote of another view is answered with ViewChange.                     *)
LEMMA WrongViewOrigin ==
    ASSUME NEW n \in Node, NEW m \in msgs, m.type \in {"Prepare", "Commit"},
           m.digest \in Batch, WrongView(n, m), NEW x \in msgs' \ msgs
    PROVE  Origin(x)
<1>1. x = ViewChangeMsg(n, nr[n], m.digest)
  BY DEF WrongView, Send
<1>2. x.type = "ViewChange" /\ x.from = n /\ x.digest = m.digest
  BY <1>1 DEF ViewChangeMsg
<1> QED BY <1>2 DEF Origin, FromRefusal

(* A gap in the sequence numbers makes the handler of PrePrepare ask.      *)
LEMMA CatchUpOrigin ==
    ASSUME NEW n \in Node, NEW m \in msgs, m.type = "PrePrepare",
           NEW x \in CatchUpRequest(n, m)
    PROVE  Origin(x)
<1>1. /\ x = [type |-> "UpData", from |-> n, nr |-> nr[n],
              seq |-> sequenceID[n], scp |-> m.seq - 1]
      /\ sequenceID[n] + 1 < m.seq
  BY DEF CatchUpRequest
<1>2. x.type = "UpData" /\ x.seq = sequenceID[n] /\ x.scp = m.seq - 1
  BY <1>1
<1>3. FromGap(x)
  BY <1>1, <1>2 DEF FromGap
<1> QED BY <1>3 DEF Origin

(* What the handler of a PrePrepare sends.                                 *)
LEMMA PrePrepareOrigin ==
    ASSUME NEW n \in Node, NEW m \in msgs, handlePrePrepare(n, m),
           NEW x \in msgs' \ msgs
    PROVE  Origin(x)
<1>0. Deliver(n, m, "PrePrepare") /\ m.type = "PrePrepare" /\ m.from # n
  BY DEF handlePrePrepare, Deliver
<1>1. CASE x \in CatchUpRequest(n, m)
  BY <1>0, <1>1, CatchUpOrigin
<1>2. CASE AcceptPrePrepare(n, m) /\ x \notin CatchUpRequest(n, m)
  <2>1. x = [type |-> "Prepare", from |-> n, nr |-> nr[n] + 1,
             digest |-> m.digest, seq |-> m.seq, view |-> m.view]
    BY <1>2 DEF AcceptPrePrepare, Send
  <2>2. x.type = "Prepare" /\ x.from = n /\ x.digest = m.digest /\ x.view = m.view
    BY <2>1
  <2>3. Acceptable(n, m)
    BY <1>2 DEF AcceptPrePrepare
  <2>4. FromPrePrepare(x)
    BY <1>0, <2>2, <2>3 DEF FromPrePrepare
  <2> QED BY <2>4 DEF Origin
<1>3. CASE RefusePrePrepare(n, m) /\ x \notin CatchUpRequest(n, m)
  <2>1. x = ViewChangeMsg(n, nr[n] + 1, m.digest)
    BY <1>3 DEF RefusePrePrepare, Send
  <2>2. x.type = "ViewChange" /\ x.from = n /\ x.digest = m.digest
    BY <2>1 DEF ViewChangeMsg
  <2>3. FromRefusal(x)
    BY <1>0, <1>3, <2>2 DEF FromRefusal
  <2> QED BY <2>3 DEF Origin
<1> QED BY <1>1, <1>2, <1>3 DEF handlePrePrepare

(* What counting a Prepare sends.                                          *)
LEMMA PreparePooledOrigin ==
    ASSUME SafetyInv, NEW n \in Node, NEW m \in msgs, Vote(n, m, "Prepare"),
           PreparePooled(n, m), NEW x \in msgs' \ msgs
    PROVE  Origin(x)
<1>1. CASE WrongView(n, m)
  BY <1>1, WrongViewOrigin DEF Vote
<1>2. CASE CountPrepare(n, m)
  <2>1. prePareConfirmCount'[n][m.digest] =
          prePareConfirmCount[n][m.digest] \cup {m.from}
    <3>1. prePareConfirmCount' = [prePareConfirmCount EXCEPT ![n][m.digest] =
                                    prePareConfirmCount[n][m.digest] \cup {m.from}]
      BY <1>2 DEF CountPrepare
    <3> QED BY <3>1 DEF SafetyInv, TypeOK, TypeRound, Vote
  <2>2. /\ x = [type |-> "Commit", from |-> n, nr |-> nr[n], digest |-> m.digest,
                seq |-> sequenceID[n], view |-> m.view]
        /\ EnoughPrepares(n, prePareConfirmCount'[n][m.digest])
    BY <1>2 DEF CountPrepare, Send
  <2>3. x.type = "Commit" /\ x.from = n /\ x.digest = m.digest /\ x.view = m.view
    BY <2>2
  <2>4. m.digest \in messagePool[n] /\ InView(n, m)
    BY <1>2 DEF PreparePooled, CountPrepare
  <2>5. FromPrepares(x)
    BY <2>1, <2>2, <2>3, <2>4 DEF FromPrepares
  <2> QED BY <2>5 DEF Origin
<1> QED BY <1>1, <1>2 DEF PreparePooled

(* What counting a Commit sends.                                           *)
LEMMA CommitPreparedOrigin ==
    ASSUME NEW n \in Node, NEW m \in msgs, Vote(n, m, "Commit"),
           CommitPrepared(n, m), NEW x \in msgs' \ msgs
    PROVE  Origin(x)
<1>1. CASE WrongView(n, m)
  BY <1>1, WrongViewOrigin DEF Vote
<1>2. CASE CountCommit(n, m)
  <2>1. Execute(n, m) /\ m.digest \notin isReply[n] /\ m.digest \in isCommitBordcast[n]
    BY <1>2 DEF CountCommit, EnoughCommits
  <2>2. \/ /\ x = [type |-> "Reply", from |-> n, nr |-> nr[n], to |-> M_node[n],
                   digest |-> m.digest, seq |-> m.seq]
           /\ n # M_node[n]
        \/ x = [type |-> "CheckPoint", from |-> n, nr |-> nr[n] + 1,
                seq |-> sequenceID[n]]
    BY <2>1 DEF Execute, Send
  <2>3. \/ x.type = "Reply" /\ x.from = n /\ x.to # n /\ x.digest = m.digest
        \/ x.type = "CheckPoint" /\ x.seq = sequenceID[n]
    BY <2>2
  <2>4. FromCommits(x)
    BY <1>2, <2>1, <2>3 DEF FromCommits, CommitPrepared, Executes
  <2> QED BY <2>4 DEF Origin
<1> QED BY <1>1, <1>2 DEF CommitPrepared

(* What a checkpoint ahead of the node makes it ask for was reported.      *)
LEMMA CheckPointOrigin ==
    ASSUME SafetyInv, NEW n \in Node, NEW m \in msgs, handleCheckPoint(n, m),
           NEW x \in msgs' \ msgs
    PROVE  Origin(x)
<1>0. m.type = "CheckPoint" /\ m \in CheckPoints
  BY MessageFields DEF handleCheckPoint, Deliver, SafetyInv, TypeOK, TypeNet
<1>1. AheadCheckPoint(n, m)
  BY DEF handleCheckPoint, LateCheckPoint
<1> DEFINE counts == [checkpointCount[n] EXCEPT ![m.from] = m.seq]
           scp == SupportedCheckpoint(counts)
<1>2. /\ x = [type |-> "UpData", from |-> n, nr |-> nr[n], seq |-> sequenceID[n],
              scp |-> scp]
      /\ scp > sequenceID[n] /\ Cardinality(Reporters(counts)) > f
  BY <1>1 DEF AheadCheckPoint, Send
<1>3. counts \in [Node -> Nat]
  BY <1>0 DEF SafetyInv, TypeOK, TypeCkpt, CheckPoints
<1>4. scp \in Nat /\ \E q \in Reporters(counts) : scp = counts[q]
  <2> HIDE DEF counts
  <2> QED BY <1>2, <1>3, SupportedCheckpointFacts
<1>5. scp = m.seq \/ \E q \in Node : scp = checkpointCount[n][q]
  BY <1>4 DEF Reporters, SafetyInv, TypeOK, TypeCkpt
<1>6. sequenceID[n] \in Nat
  BY DEF SafetyInv, TypeOK, TypeRound
<1> HIDE DEF counts, scp
<1>7. x.type = "UpData" /\ x.seq = sequenceID[n] /\ x.scp = scp
  BY <1>2
<1>8. FromGap(x)
  BY <1>0, <1>2, <1>4, <1>5, <1>6, <1>7 DEF FromGap
<1> QED BY <1>8 DEF Origin

(* The type of a message tells its origin.                                 *)
LEMMA OriginOfType ==
    ASSUME NEW x, Origin(x)
    PROVE  /\ x.type = "PrePrepare" => FromProposal(x)
           /\ x.type = "Prepare" => FromPrePrepare(x)
           /\ x.type = "Commit" => FromPrepares(x)
           /\ x.type \in {"Reply", "CheckPoint"} => FromCommits(x)
           /\ x.type = "UpData" => FromGap(x)
           /\ x.type = "NewData" => FromUpData(x)
           /\ x.type = "ViewChange" => FromRefusal(x)
           /\ x.type = "NewView" => FromViewChanges(x)
  BY DEF Origin, FromProposal, FromPrePrepare, FromPrepares, FromCommits,
         FromGap, FromUpData, FromRefusal, FromViewChanges

(* Every new message has one of these origins, and no message is unsent.   *)
LEMMA Origins ==
    ASSUME SafetyInv, [Next]_vars
    PROVE  msgs \subseteq msgs' /\ \A x \in msgs' \ msgs : Origin(x)
<1>1. CASE Idle \/ UNCHANGED msgs
  BY <1>1 DEF Idle
<1>2. ASSUME NEW n \in Node, NEW d \in Batch, handleRequests(n, d)
      PROVE  msgs \subseteq msgs' /\ \A x \in msgs' \ msgs : Origin(x)
  <2>1. msgs' = msgs \cup {[type |-> "PrePrepare", from |-> n, nr |-> nr[n],
                           digest |-> d, seq |-> sequenceID[n] + 1,
                           view |-> M_node[n]]}
    BY <1>2 DEF handleRequests, Propose, Send
  <2> SUFFICES ASSUME NEW x \in msgs' \ msgs PROVE Origin(x)
    BY <2>1
  <2>2. x.type = "PrePrepare" /\ x.from = n /\ x.digest = d /\ x.view = M_node[n]
    BY <2>1
  <2>3. FromProposal(x)
    BY <1>2, <2>2 DEF FromProposal
  <2> QED BY <2>3 DEF Origin
<1>3. ASSUME NEW n \in Node, NEW m \in msgs, handlePrePrepare(n, m)
      PROVE  msgs \subseteq msgs' /\ \A x \in msgs' \ msgs : Origin(x)
  <2>1. msgs \subseteq msgs'
    BY <1>3 DEF handlePrePrepare, AcceptPrePrepare, RefusePrePrepare, Send
  <2> QED BY <1>3, <2>1, PrePrepareOrigin
<1>4. ASSUME NEW n \in Node, NEW m \in msgs, Vote(n, m, "Prepare"), PreparePooled(n, m)
      PROVE  msgs \subseteq msgs' /\ \A x \in msgs' \ msgs : Origin(x)
  <2>1. msgs \subseteq msgs'
    BY <1>4 DEF PreparePooled, WrongView, CountPrepare, Send
  <2> QED BY <1>4, <2>1, PreparePooledOrigin
<1>5. ASSUME NEW n \in Node, NEW m \in msgs, Vote(n, m, "Commit"), CommitPrepared(n, m)
      PROVE  msgs \subseteq msgs' /\ \A x \in msgs' \ msgs : Origin(x)
  <2>1. msgs \subseteq msgs'
    BY <1>5 DEF CommitPrepared, WrongView, CountCommit, Execute, Send
  <2> QED BY <1>5, <2>1, CommitPreparedOrigin
<1>6. ASSUME NEW n \in Node, NEW m \in msgs, handleCheckPoint(n, m)
      PROVE  msgs \subseteq msgs' /\ \A x \in msgs' \ msgs : Origin(x)
  <2>1. msgs \subseteq msgs'
    BY <1>6 DEF handleCheckPoint, LateCheckPoint, AheadCheckPoint, Send
  <2> QED BY <1>6, <2>1, CheckPointOrigin
<1>7. ASSUME NEW n \in Node, NEW m \in msgs, handleUpdata(n, m)
      PROVE  msgs \subseteq msgs' /\ \A x \in msgs' \ msgs : Origin(x)
  <2>0. m.type = "UpData"
    BY <1>7 DEF handleUpdata, Deliver
  <2>1. PICK b : b = [i \in 1 .. m.scp - m.seq |-> SeqToGRdigest[n][m.seq + i]]
    OBVIOUS
  <2>2. \/ UNCHANGED msgs
        \/ msgs' = msgs \cup {[type |-> "NewData", from |-> n, nr |-> nr[n],
                               to |-> m.from, udc |-> [seq |-> m.seq,
                                  scp |-> m.scp, batches |-> b]]}
    BY <1>7, <2>1 DEF handleUpdata, Send
  <2>3. \A x \in msgs' \ msgs : x.type = "NewData" /\ x.udc.scp = m.scp
    BY <2>2
  <2>4. \A x \in msgs' \ msgs : FromUpData(x)
    BY <2>0, <2>3 DEF FromUpData
  <2> QED BY <2>2, <2>4 DEF Origin
<1>8. ASSUME NEW n \in Node, NEW m \in msgs, handleViewChange(n, m)
      PROVE  msgs \subseteq msgs' /\ \A x \in msgs' \ msgs : Origin(x)
  <2>1. /\ msgs \subseteq msgs'
        /\ \A x \in msgs' \ msgs :
              /\ x.type = "NewView" /\ x.from = n /\ x.digest = m.digest
              /\ EnoughViewChanges(n, m.digest, viewchangeCount[n][m.digest] + 1)
    BY <1>8 DEF handleViewChange, Send
  <2>2. Deliver(n, m, "ViewChange")
    BY <1>8 DEF handleViewChange
  <2>3. \A x \in msgs' \ msgs : FromViewChanges(x)
    BY <2>1, <2>2 DEF FromViewChanges
  <2> QED BY <2>1, <2>3 DEF Origin
<1>9. ASSUME NEW n \in Node, NEW m \in msgs,
             handleReply(n, m) \/ handleNewdata(n, m) \/ handleNewView(n, m)
      PROVE  UNCHANGED msgs
  BY <1>9 DEF handleReply, handleNewdata, handleNewView
<1>10. ASSUME NEW n \in Node, restart(n) PROVE UNCHANGED msgs
  BY <1>10 DEF restart, netVars
<1> QED BY <1>1, <1>2, <1>3, <1>4, <1>5, <1>6, <1>7, <1>8, <1>9, <1>10, StepCases
        DEF StepKind

-----------------------------------------------------------------------------
(* CachesConsistent is inductive as it stands.                             *)

(* Pooling a batch disturbs no cache.                                      *)
LEMMA PoolGrows ==
    ASSUME CachesConsistent,
           UNCHANGED <<prePareConfirmCount, commitConfirmCount, isCommitBordcast, isReply>>,
           \A q \in Node : messagePool[q] \subseteq messagePool'[q]
    PROVE  CachesConsistent'
  BY DEF CachesConsistent

(* A counted Prepare is about a pooled batch, an own Commit follows one.   *)
LEMMA PreparePooledCaches ==
    ASSUME TypeOK, CachesConsistent, NEW n \in Node, NEW m,
           Vote(n, m, "Prepare"), PreparePooled(n, m)
    PROVE  CachesConsistent'
<1>1. CASE WrongView(n, m)
  BY <1>1, PoolGrows DEF WrongView, roundVars
<1>2. CASE CountPrepare(n, m)
  <2>1. /\ UNCHANGED <<messagePool, commitConfirmCount, isReply>>
        /\ prePareConfirmCount' = [prePareConfirmCount EXCEPT ![n][m.digest] =
                                     prePareConfirmCount[n][m.digest] \cup {m.from}]
        /\ \/ UNCHANGED isCommitBordcast
           \/ isCommitBordcast' = [isCommitBordcast EXCEPT ![n] =
                                     isCommitBordcast[n] \cup {m.digest}]
    BY <1>2 DEF CountPrepare
  <2>2. m.digest \in messagePool[n] /\ m.digest \in Batch
    BY DEF PreparePooled, Vote
  <2>3. prePareConfirmCount'[n][m.digest] # {}
    BY <2>1, <2>2 DEF TypeOK, TypeRound
  <2>4. \A q \in Node, d \in Batch : q # n \/ d # m.digest =>
           prePareConfirmCount'[q][d] = prePareConfirmCount[q][d]
    BY <2>1 DEF TypeOK, TypeRound
  <2>5. \A q \in Node, d \in Batch : q # n \/ d # m.digest =>
           (d \in isCommitBordcast'[q] <=> d \in isCommitBordcast[q])
    BY <2>1 DEF TypeOK, TypeRound
  <2>6. \A q \in Node : isCommitBordcast[q] \subseteq isCommitBordcast'[q]
    <3>1. CASE UNCHANGED isCommitBordcast
      BY <3>1
    <3>2. CASE isCommitBordcast' = [isCommitBordcast EXCEPT ![n] =
                                      isCommitBordcast[n] \cup {m.digest}]
      BY <3>2 DEF TypeOK, TypeRound
    <3> QED BY <2>1, <3>1, <3>2
  <2>7. \A q \in Node, d \in Batch :
           prePareConfirmCount[q][d] # {} => prePareConfirmCount'[q][d] # {}
    BY <2>3, <2>4
  <2> SUFFICES ASSUME NEW q \in Node, NEW d \in Batch
               PROVE  /\ prePareConfirmCount'[q][d] # {} => d \in messagePool'[q]
                      /\ commitConfirmCount'[q][d] # {} => prePareConfirmCount'[q][d] # {}
                      /\ d \in isCommitBordcast'[q] => prePareConfirmCount'[q][d] # {}
                      /\ d \in isReply'[q] => d \in isCommitBordcast'[q]
    BY DEF CachesConsistent
  <2>8. CASE q = n /\ d = m.digest
    BY <2>1, <2>2, <2>3, <2>6, <2>8 DEF CachesConsistent
  <2>9. CASE q # n \/ d # m.digest
    BY <2>1, <2>4, <2>5, <2>6, <2>7, <2>9 DEF CachesConsistent
  <2> QED BY <2>8, <2>9
<1> QED BY <1>1, <1>2 DEF PreparePooled

(* A counted Commit follows a Prepare, an execution the own Commit.        *)
LEMMA CommitPreparedCaches ==
    ASSUME TypeOK, CachesConsistent, NEW n \in Node, NEW m,
           Vote(n, m, "Commit"), CommitPrepared(n, m)
    PROVE  CachesConsistent'
<1>1. CASE WrongView(n, m)
  BY <1>1, PoolGrows DEF WrongView, roundVars
<1>2. CASE CountCommit(n, m)
  <2>1. /\ UNCHANGED <<messagePool, prePareConfirmCount, isCommitBordcast>>
        /\ commitConfirmCount' = [commitConfirmCount EXCEPT ![n][m.digest] =
                                     commitConfirmCount[n][m.digest] \cup {m.from}]
        /\ \/ UNCHANGED isReply
           \/ /\ isReply' = [isReply EXCEPT ![n] = isReply[n] \cup {m.digest}]
              /\ m.digest \in isCommitBordcast[n]
    BY <1>2 DEF CountCommit, Execute, EnoughCommits
  <2>2. prePareConfirmCount[n][m.digest] # {} /\ m.digest \in Batch
    BY DEF CommitPrepared, Prepared, Vote
  <2>3. \A q \in Node, d \in Batch : q # n \/ d # m.digest =>
           commitConfirmCount'[q][d] = commitConfirmCount[q][d]
    BY <2>1 DEF TypeOK, TypeRound
  <2>4. \A q \in Node, d \in Batch : q # n \/ d # m.digest =>
           (d \in isReply'[q] <=> d \in isReply[q])
    BY <2>1 DEF TypeOK, TypeRound
  <2>5. \/ UNCHANGED isReply
        \/ m.digest \in isCommitBordcast[n]
    BY <2>1
  <2> QED BY <2>1, <2>2, <2>3, <2>4, <2>5 DEF CachesConsistent
<1> QED BY <1>1, <1>2 DEF CommitPrepared

(* deleteCacheMessage, on the caches of the rounds: what is gone is gone   *)
(* from all of them, the rest is left alone.                               *)
Deletes(n, gone) ==
    /\ messagePool' = [messagePool EXCEPT ![n] = messagePool[n] \ gone]
    /\ isCommitBordcast' = [isCommitBordcast EXCEPT ![n] = isCommitBordcast[n] \ gone]
    /\ isReply' = [isReply EXCEPT ![n] = isReply[n] \ gone]
    /\ prePareConfirmCount' = [prePareConfirmCount EXCEPT ![n] =
         [d \in Batch |-> IF d \in gone THEN {} ELSE prePareConfirmCount[n][d]]]
    /\ commitConfirmCount' = [commitConfirmCount EXCEPT ![n] =
         [d \in Batch |-> IF d \in gone THEN {} ELSE commitConfirmCount[n][d]]]
    /\ replyConfireCount' = [replyConfireCount EXCEPT ![n] =
         [d \in Batch |-> IF d \in gone THEN 0 ELSE replyConfireCount[n][d]]]
    /\ viewchangeCount' = [viewchangeCount EXCEPT ![n] =
         [d \in Batch |-> IF d \in gone THEN 0 ELSE viewchangeCount[n][d]]]

LEMMA CachesDeleted ==
    ASSUME NEW n \in Node, deleteCacheMessage(n)
    PROVE  Deletes(n, Remembered(arrayTodigest[n]))
  BY DEF deleteCacheMessage, ForgetAnswers, Deletes

(* A deleted batch is deleted everywhere.                                  *)
LEMMA deleteCacheMessageCaches ==
    ASSUME TypeOK, CachesConsistent, NEW n \in Node, deleteCacheMessage(n)
    PROVE  CachesConsistent'
<1>1. PICK gone : Deletes(n, gone)
  BY CachesDeleted
<1> SUFFICES ASSUME NEW q \in Node, NEW d \in Batch
             PROVE  /\ prePareConfirmCount'[q][d] # {} => d \in messagePool'[q]
                    /\ commitConfirmCount'[q][d] # {} => prePareConfirmCount'[q][d] # {}
                    /\ d \in isCommitBordcast'[q] => prePareConfirmCount'[q][d] # {}
                    /\ d \in isReply'[q] => d \in isCommitBordcast'[q]
  BY DEF CachesConsistent
<1>2. CASE q # n
  BY <1>1, <1>2 DEF Deletes, CachesConsistent, TypeOK, TypeRound
<1>3. CASE q = n
  BY <1>1, <1>3 DEF Deletes, CachesConsistent, TypeOK, TypeRound
<1> QED BY <1>2, <1>3

(* A node started again has empty caches.                                  *)
LEMMA restartCaches ==
    ASSUME TypeOK, CachesConsistent, NEW n \in Node, restart(n)
    PROVE  CachesConsistent'
<1> SUFFICES ASSUME NEW q \in Node, NEW d \in Batch
             PROVE  /\ prePareConfirmCount'[q][d] # {} => d \in messagePool'[q]
                    /\ commitConfirmCount'[q][d] # {} => prePareConfirmCount'[q][d] # {}
                    /\ d \in isCommitBordcast'[q] => prePareConfirmCount'[q][d] # {}
                    /\ d \in isReply'[q] => d \in isCommitBordcast'[q]
  BY DEF CachesConsistent
<1>1. CASE q # n
  BY <1>1 DEF restart, CachesConsistent, TypeOK, TypeRound
<1>2. CASE q = n
  BY <1>2 DEF restart, TypeOK, TypeRound
<1> QED BY <1>1, <1>2

(* Every step keeps the caches consistent.                                 *)
LEMMA CachesStep ==
    ASSUME SafetyInv, CachesConsistent, [Next]_vars
    PROVE  CachesConsistent'
<1>0. TypeOK
  BY DEF SafetyInv
<1>1. CASE Idle
  BY <1>1, PoolGrows DEF Idle, roundVars
<1>2. ASSUME NEW n \in Node, NEW d \in Batch, handleRequests(n, d)
      PROVE  CachesConsistent'
  <2>1. \A q \in Node : messagePool[q] \subseteq messagePool'[q]
    BY <1>0, <1>2 DEF handleRequests, TypeOK, TypeRound
  <2> QED BY <1>2, <2>1, PoolGrows DEF handleRequests
<1>3. ASSUME NEW n \in Node, NEW m \in msgs, handlePrePrepare(n, m)
      PROVE  CachesConsistent'
  <2>1. \/ UNCHANGED messagePool
        \/ messagePool' = [messagePool EXCEPT ![n] = messagePool[n] \cup {m.digest}]
    BY <1>3 DEF handlePrePrepare, AcceptPrePrepare, RefusePrePrepare
  <2>2. \A q \in Node : messagePool[q] \subseteq messagePool'[q]
    BY <1>0, <2>1 DEF TypeOK, TypeRound
  <2> QED BY <1>3, <2>2, PoolGrows DEF handlePrePrepare
<1>4. ASSUME NEW n \in Node, NEW m \in msgs, handleCheckPoint(n, m)
      PROVE  CachesConsistent'
  <2>1. CASE LateCheckPoint(n, m)
    BY <2>1, PoolGrows DEF LateCheckPoint, roundVars
  <2>2. CASE AheadCheckPoint(n, m)
    BY <1>0, <2>2, deleteCacheMessageCaches DEF AheadCheckPoint
  <2> QED BY <1>4, <2>1, <2>2 DEF handleCheckPoint
<1>5. ASSUME NEW n \in Node, NEW m \in msgs,
             handleReply(n, m) \/ handleUpdata(n, m) \/ handleNewdata(n, m)
               \/ handleViewChange(n, m) \/ handleNewView(n, m)
      PROVE  CachesConsistent'
  <2>1. UNCHANGED <<messagePool, prePareConfirmCount, commitConfirmCount,
                    isCommitBordcast, isReply>>
    BY <1>5 DEF handleReply, handleUpdata, handleNewdata, handleViewChange,
                handleNewView, roundVars
  <2> QED BY <2>1, PoolGrows
<1> QED BY <1>0, <1>1, <1>2, <1>3, <1>4, <1>5, StepCases, PreparePooledCaches,
           CommitPreparedCaches, restartCaches DEF StepKind

(* What a node has counted, committed or answered under a digest is about  *)
(* a batch in its pool, in that order, also after the caches were deleted, *)
(* a round was interrupted or the process was started again.               *)
THEOREM CachesConsistentHolds == Spec => []CachesConsistent
<1>1. Init => CachesConsistent
  BY DEF Init, CachesConsistent
<1>2. SafetyInv /\ CachesConsistent /\ [Next]_vars => CachesConsistent'
  BY CachesStep
<1> QED BY <1>1, <1>2, SafetyInvariant, PTL DEF Spec

-----------------------------------------------------------------------------
(* SequenceProposed: what the CheckPoints counted and the NewData under    *)
(* way name has been proposed as well.                                     *)
SequenceInv ==
    /\ SequenceProposed
    /\ \A n, q \in Node : checkpointCount[n][q] > 0 => Proposed(checkpointCount[n][q])
    /\ \A m \in msgs : m.type = "NewData" => Proposed(m.udc.scp)

(* Proposed(s), in the messages of a state given as a set.                 *)
ProposedIn(M, s) == \E m \in M : m.type = "PrePrepare" /\ s <= m.seq

(* A node's sequence number stands still, is 0 again, or was proposed.     *)
LEMMA SequenceMoves ==
    ASSUME SafetyInv, SequenceInv, StepKind, msgs \subseteq msgs', NEW q \in Node
    PROVE  \/ sequenceID'[q] = sequenceID[q]
           \/ sequenceID'[q] = 0
           \/ ProposedIn(msgs', sequenceID'[q])
<1>0. sequenceID \in [Node -> Nat] /\ msgs \subseteq Message
  BY DEF SafetyInv, TypeOK, TypeRound, TypeNet
<1>1. ASSUME NEW n \in Node, NEW d \in Batch, handleRequests(n, d)
      PROVE  ProposedIn(msgs', sequenceID'[n]) /\ (q # n => sequenceID'[q] = sequenceID[q])
  <2>1. PICK p : p = [type |-> "PrePrepare", from |-> n, nr |-> nr[n], digest |-> d,
                      seq |-> sequenceID[n] + 1, view |-> M_node[n]]
    OBVIOUS
  <2>2. p \in msgs' /\ p.type = "PrePrepare" /\ p.seq = sequenceID[n] + 1
    BY <1>1, <2>1 DEF handleRequests, Propose, Send
  <2>3. sequenceID' = [sequenceID EXCEPT ![n] = sequenceID[n] + 1]
    BY <1>1 DEF handleRequests
  <2> QED BY <1>0, <2>2, <2>3 DEF ProposedIn
<1>2. ASSUME NEW n \in Node, NEW m \in msgs, handlePrePrepare(n, m)
      PROVE  sequenceID'[q] = sequenceID[q] \/ ProposedIn(msgs', sequenceID'[q])
  <2>1. m.type = "PrePrepare" /\ m.seq \in Nat
    BY <1>0, <1>2, VoteDigest DEF handlePrePrepare, Deliver, SafetyInv
  <2>2. sequenceID' = sequenceID \/ sequenceID' = [sequenceID EXCEPT ![n] = m.seq]
    BY <1>2 DEF handlePrePrepare, AcceptPrePrepare, RefusePrePrepare
  <2> QED BY <1>0, <2>1, <2>2 DEF ProposedIn
<1>3. ASSUME NEW n \in Node, NEW m \in msgs, handleNewdata(n, m)
      PROVE  sequenceID'[q] = sequenceID[q] \/ ProposedIn(msgs', sequenceID'[q])
  <2>1. m.type = "NewData"
    BY <1>3 DEF handleNewdata, Deliver
  <2>2. Proposed(m.udc.scp)
    BY <2>1 DEF SequenceInv
  <2>3. sequenceID' = sequenceID \/ sequenceID' = [sequenceID EXCEPT ![n] = m.udc.scp]
    BY <1>3 DEF handleNewdata, CountNewdata
  <2> QED BY <1>0, <2>2, <2>3 DEF ProposedIn, Proposed
<1>4. ASSUME NEW n \in Node, restart(n)
      PROVE  sequenceID'[q] = sequenceID[q] \/ sequenceID'[q] = 0
  BY <1>0, <1>4 DEF restart
<1>5. ASSUME NEW n \in Node, NEW m \in msgs,
             \/ PreparePooled(n, m) \/ CommitPrepared(n, m) \/ handleReply(n, m)
             \/ handleCheckPoint(n, m) \/ handleUpdata(n, m)
             \/ handleViewChange(n, m) \/ handleNewView(n, m)
      PROVE  sequenceID'[q] = sequenceID[q]
  BY <1>5 DEF PreparePooled, CountPrepare, WrongView, CommitPrepared, CountCommit,
     handleReply, handleCheckPoint, LateCheckPoint, AheadCheckPoint, handleUpdata,
     handleViewChange, handleNewView, roundVars
<1>6. CASE Idle
  BY <1>6 DEF Idle, roundVars
<1> QED BY <1>1, <1>2, <1>3, <1>4, <1>5, <1>6 DEF StepKind

(* A counted CheckPoint stays, is dropped, or was sent.                    *)
LEMMA CheckpointCountMoves ==
    ASSUME SafetyInv, SequenceInv, StepKind, NEW p \in Node, NEW q \in Node
    PROVE  \/ checkpointCount'[p][q] \in {0, checkpointCount[p][q]}
           \/ Proposed(checkpointCount'[p][q])
<1>0. checkpointCount \in [Node -> [Node -> Nat]] /\ msgs \subseteq Message
      /\ sequenceID \in [Node -> Nat]
  BY DEF SafetyInv, TypeOK, TypeCkpt, TypeNet, TypeRound
<1>1. ASSUME NEW n \in Node, NEW m \in msgs, handleCheckPoint(n, m)
      PROVE  \/ checkpointCount'[p][q] \in {0, checkpointCount[p][q]}
             \/ Proposed(checkpointCount'[p][q])
  <2>1. m.type = "CheckPoint" /\ m.from \in Node /\ m.seq \in Nat
    BY <1>0, <1>1, MessageFields DEF handleCheckPoint, Deliver, CheckPoints
  <2>2. CASE LateCheckPoint(n, m)
    BY <1>0, <2>1, <2>2 DEF LateCheckPoint
  <2>3. CASE AheadCheckPoint(n, m)
    <3>1. m.seq > sequenceID[n]
      BY <2>3 DEF AheadCheckPoint
    <3>2. Proposed(m.seq)
      BY <1>0, <2>1, <3>1 DEF SequenceInv, SequenceProposed
    <3> DEFINE counts == [checkpointCount[n] EXCEPT ![m.from] = m.seq]
               enough == Cardinality(Reporters(counts)) > f
    <3>3. checkpointCount' = [checkpointCount EXCEPT ![n] =
             [x \in Node |-> IF enough /\ counts[x] <= sequenceID[n]
                             THEN 0 ELSE counts[x]]]
      BY <2>3 DEF AheadCheckPoint
    <3>4. counts[q] \in {m.seq, checkpointCount[n][q]}
      BY <1>0, <2>1
    <3> HIDE DEF counts, enough
    <3>5. p = n => checkpointCount'[p][q] \in {0, counts[q]}
      BY <1>0, <3>3
    <3>6. p # n => checkpointCount'[p][q] = checkpointCount[p][q]
      BY <1>0, <3>3
    <3> QED BY <3>2, <3>4, <3>5, <3>6
  <2> QED BY <1>1, <2>2, <2>3 DEF handleCheckPoint
<1>2. ASSUME NEW n \in Node, restart(n)
      PROVE  checkpointCount'[p][q] \in {0, checkpointCount[p][q]}
  BY <1>0, <1>2 DEF restart
<1>3. ASSUME NEW n \in Node, NEW m \in msgs,
             \/ PreparePooled(n, m) \/ CommitPrepared(n, m) \/ handleReply(n, m)
             \/ handlePrePrepare(n, m) \/ handleUpdata(n, m) \/ handleNewdata(n, m)
             \/ handleViewChange(n, m) \/ handleNewView(n, m)
      PROVE  UNCHANGED checkpointCount
  BY <1>3 DEF PreparePooled, CountPrepare, WrongView, CommitPrepared, CountCommit,
     handleReply, handlePrePrepare, handleUpdata, handleNewdata,
     handleViewChange, handleNewView, ckptVars
<1>4. CASE Idle \/ \E n \in Node, d \in Batch : handleRequests(n, d)
  BY <1>4 DEF Idle, handleRequests, ckptVars
<1> QED BY <1>1, <1>2, <1>3, <1>4 DEF StepKind

(* A new CheckPoint, UpData or NewData names a number that was proposed.   *)
LEMMA NumbersProposed ==
    ASSUME SafetyInv, SequenceInv, NEW x, Origin(x)
    PROVE  /\ x.type = "CheckPoint" /\ x.seq > 0 => Proposed(x.seq)
           /\ x.type = "UpData" => x.seq < x.scp /\ Proposed(x.scp)
           /\ x.type = "NewData" => Proposed(x.udc.scp)
<1>0. msgs \subseteq Message /\ sequenceID \in [Node -> Nat]
      /\ checkpointCount \in [Node -> [Node -> Nat]]
  BY DEF SafetyInv, TypeOK, TypeNet, TypeRound, TypeCkpt
<1>1. ASSUME x.type = "CheckPoint", x.seq > 0 PROVE Proposed(x.seq)
  <2>1. \E n \in Node : x.seq = sequenceID[n]
    BY <1>1, OriginOfType DEF FromCommits
  <2> QED BY <1>1, <2>1 DEF SequenceInv, SequenceProposed
<1>2. ASSUME x.type = "UpData" PROVE x.seq < x.scp /\ Proposed(x.scp)
  <2>1. FromGap(x)
    BY <1>2, OriginOfType
  <2>2. ASSUME NEW m \in msgs, NEW n \in Node,
               m.type = "PrePrepare", sequenceID[n] + 1 < m.seq,
               x.seq = sequenceID[n], x.scp = m.seq - 1
        PROVE  x.seq < x.scp /\ Proposed(x.scp)
    <3>1. m.seq \in Nat /\ sequenceID[n] \in Nat
      BY <1>0, <2>2, VoteDigest DEF SafetyInv
    <3> QED BY <2>2, <3>1 DEF Proposed
  <2>3. ASSUME NEW m \in msgs, NEW n \in Node,
               m.type = "CheckPoint", x.seq = sequenceID[n], x.seq < x.scp,
               x.scp = m.seq \/ \E q \in Node : x.scp = checkpointCount[n][q]
        PROVE  x.seq < x.scp /\ Proposed(x.scp)
    <3>1. x.scp \in Nat /\ sequenceID[n] \in Nat
      BY <1>0, <2>3, MessageFields DEF CheckPoints
    <3>2. x.scp > 0
      BY <2>3, <3>1
    <3> QED BY <2>3, <3>2 DEF SequenceInv, SequenceProposed
  <2> QED BY <2>1, <2>2, <2>3 DEF FromGap
<1>3. ASSUME x.type = "NewData" PROVE Proposed(x.udc.scp)
  <2>1. FromUpData(x)
    BY <1>3, OriginOfType
  <2> QED BY <2>1 DEF FromUpData, SequenceInv, SequenceProposed
<1> QED BY <1>1, <1>2, <1>3

(* Every step keeps SequenceInv.                                           *)
LEMMA SequenceStep ==
    ASSUME SafetyInv, SafetyInv', SequenceInv, [Next]_vars
    PROVE  SequenceInv'
<1>1. StepKind /\ msgs \subseteq msgs' /\ \A x \in msgs' \ msgs : Origin(x)
  BY StepCases, Origins
<1>2. \A s : Proposed(s) => ProposedIn(msgs', s)
  BY <1>1 DEF Proposed, ProposedIn
<1>3. \A n \in Node : sequenceID'[n] > 0 => ProposedIn(msgs', sequenceID'[n])
  BY <1>1, <1>2, SequenceMoves DEF SequenceInv, SequenceProposed
<1>4. \A n, q \in Node :
         checkpointCount'[n][q] > 0 => ProposedIn(msgs', checkpointCount'[n][q])
  BY <1>1, <1>2, CheckpointCountMoves DEF SequenceInv
<1>5. \A x \in msgs' :
         /\ x.type = "CheckPoint" /\ x.seq > 0 => ProposedIn(msgs', x.seq)
         /\ x.type = "UpData" => x.seq < x.scp /\ ProposedIn(msgs', x.scp)
         /\ x.type = "NewData" => ProposedIn(msgs', x.udc.scp)
  <2> SUFFICES ASSUME NEW x \in msgs'
               PROVE  /\ x.type = "CheckPoint" /\ x.seq > 0 => Proposed(x.seq)
                      /\ x.type = "UpData" => x.seq < x.scp /\ Proposed(x.scp)
                      /\ x.type = "NewData" => Proposed(x.udc.scp)
    BY <1>2
  <2> QED BY <1>1, NumbersProposed DEF SequenceInv, SequenceProposed
<1> QED BY <1>3, <1>4, <1>5 DEF SequenceInv, SequenceProposed, ProposedIn, Proposed

(* The sequence number of a node, of a CheckPoint and of a request for     *)
(* missing batches is one a PrePrepare has reached: gaps, checkpoints,     *)
(* catch-up and restarts never make one up.                                *)
THEOREM SequenceProposedHolds == Spec => []SequenceProposed
<1>1. Init => SequenceInv
  BY NodeFacts DEF Init, SequenceInv, SequenceProposed
<1>2. SafetyInv /\ SafetyInv' /\ SequenceInv /\ [Next]_vars => SequenceInv'
  BY SequenceStep
<1>3. SequenceInv => SequenceProposed
  BY DEF SequenceInv
<1> QED BY <1>1, <1>2, <1>3, SafetyInvariant, PTL DEF Spec

-----------------------------------------------------------------------------
(* QuietView: the view changes only by way of a NewView, ...               *)
NoNewView == \A m \in msgs : m.type # "NewView"

FirstView ==
    /\ \A n \in Node : M_node[n] = 0
    /\ \A m \in msgs : m.type \in {"PrePrepare", "Prepare", "Commit"} => m.view = 0

ViewInv == NoNewView => FirstView

(* ... and nothing calls for one when all clients talk to node 0 and sign. *)
Calm == Bad = {} /\ Contact \subseteq {0}

QuietInv ==
    Calm => \A m \in msgs : /\ m.type \notin {"ViewChange", "NewView"}
                            /\ m.type = "PrePrepare" => m.from = 0

(* Without a NewView, old or new, a node keeps its view or starts again.   *)
LEMMA ViewStays ==
    ASSUME TypeOK, StepKind, NoNewView, \A m \in msgs' : m.type # "NewView", NEW q \in Node
    PROVE  M_node'[q] \in {0, M_node[q]}
<1>0. M_node \in [Node -> Node]
  BY DEF TypeOK, TypeView
<1>1. ASSUME NEW n \in Node, NEW m \in msgs, handleViewChange(n, m)
      PROVE  UNCHANGED M_node
  <2>1. PICK v : v = [type |-> "NewView", from |-> n, nr |-> nr[n], digest |-> m.digest]
    OBVIOUS
  <2>2. v.type = "NewView"
    BY <2>1
  <2>3. UNCHANGED M_node \/ v \in msgs'
    BY <1>1, <2>1 DEF handleViewChange, viewVars, Send
  <2> QED BY <2>2, <2>3
<1>2. ASSUME NEW n \in Node, NEW m \in msgs, handleNewView(n, m) PROVE FALSE
  BY <1>2 DEF handleNewView, Deliver, NoNewView
<1>3. ASSUME NEW n \in Node, restart(n) PROVE M_node'[q] \in {0, M_node[q]}
  BY <1>0, <1>3 DEF restart
<1>4. ASSUME NEW n \in Node, NEW m \in msgs,
             \/ handlePrePrepare(n, m) \/ PreparePooled(n, m) \/ CommitPrepared(n, m)
             \/ handleReply(n, m) \/ handleCheckPoint(n, m) \/ handleUpdata(n, m)
             \/ handleNewdata(n, m)
      PROVE  UNCHANGED M_node
  BY <1>4 DEF handlePrePrepare, AcceptPrePrepare, RefusePrePrepare, handleException,
     PreparePooled, CountPrepare, WrongView, CommitPrepared, CountCommit, handleReply,
     handleCheckPoint, LateCheckPoint, AheadCheckPoint, handleUpdata, handleNewdata,
     viewVars
<1>5. CASE Idle \/ \E n \in Node, d \in Batch : handleRequests(n, d)
  BY <1>5 DEF Idle, handleRequests, viewVars
<1> QED BY <1>1, <1>2, <1>3, <1>4, <1>5 DEF StepKind

(* A proposal or vote is sent in the view of its sender.                   *)
LEMMA VoteOrigin ==
    ASSUME TypeOK, NEW x, Origin(x), x.type \in {"PrePrepare", "Prepare", "Commit"}
    PROVE  \/ \E n \in Node : x.view = M_node[n]
           \/ \E m \in msgs : m.type \in {"PrePrepare", "Prepare"} /\ x.view = m.view
<1>1. FromProposal(x) \/ FromPrePrepare(x) \/ FromPrepares(x)
  BY OriginOfType
<1> QED BY <1>1 DEF FromProposal, FromPrePrepare, FromPrepares, Vote

(* Every step keeps ViewInv.                                               *)
LEMMA ViewStep ==
    ASSUME SafetyInv, ViewInv, [Next]_vars
    PROVE  ViewInv'
<1> SUFFICES ASSUME \A m \in msgs' : m.type # "NewView" PROVE FirstView'
  BY DEF ViewInv, NoNewView
<1>1. StepKind /\ msgs \subseteq msgs' /\ TypeOK /\ \A x \in msgs' \ msgs : Origin(x)
  BY StepCases, Origins DEF SafetyInv
<1>2. NoNewView /\ FirstView
  BY <1>1 DEF NoNewView, ViewInv
<1>3. \A n \in Node : M_node'[n] = 0
  BY <1>1, <1>2, ViewStays DEF FirstView
<1>4. \A m \in msgs' : m.type \in {"PrePrepare", "Prepare", "Commit"} => m.view = 0
  BY <1>1, <1>2, VoteOrigin DEF FirstView
<1> QED BY <1>3, <1>4 DEF FirstView

(* Every step keeps QuietInv.                                              *)
LEMMA QuietStep ==
    ASSUME SafetyInv, ViewInv, QuietInv, [Next]_vars
    PROVE  QuietInv'
<1> SUFFICES ASSUME Calm, NEW x \in msgs' \ msgs
             PROVE  /\ x.type \notin {"ViewChange", "NewView"}
                    /\ x.type = "PrePrepare" => x.from = 0
  BY Origins DEF QuietInv, Calm
<1>0. Origin(x) /\ TypeOK
  BY Origins DEF SafetyInv
<1>1. FirstView /\ \A m \in msgs : /\ m.type \notin {"ViewChange", "NewView"}
                                   /\ m.type = "PrePrepare" => m.from = 0
  BY DEF QuietInv, ViewInv, NoNewView
<1>2. x.type # "ViewChange"
  <2> SUFFICES ASSUME FromRefusal(x) PROVE FALSE
    BY <1>0, OriginOfType
  <2>1. PICK n \in Node, m \in msgs :
           \/ Deliver(n, m, "PrePrepare") /\ RefusePrePrepare(n, m)
           \/ m.type \in {"Prepare", "Commit"} /\ WrongView(n, m)
    BY DEF FromRefusal
  <2>2. CASE Deliver(n, m, "PrePrepare") /\ RefusePrePrepare(n, m)
    <3>1. m.type = "PrePrepare" /\ ~Acceptable(n, m)
      BY <2>2 DEF Deliver, RefusePrePrepare
    <3> QED BY <1>1, <3>1 DEF FirstView, Acceptable, Calm
  <2>3. CASE m.type \in {"Prepare", "Commit"} /\ WrongView(n, m)
    BY <1>1, <2>3 DEF WrongView, InView, FirstView
  <2> QED BY <2>1, <2>2, <2>3
<1>3. x.type # "NewView"
  <2> SUFFICES ASSUME FromViewChanges(x) PROVE FALSE
    BY <1>0, OriginOfType
  <2> QED BY <1>1 DEF FromViewChanges, Deliver
<1>4. x.type = "PrePrepare" => x.from = 0
  <2> SUFFICES ASSUME FromProposal(x) PROVE x.from = 0
    BY <1>0, OriginOfType
  <2> QED BY DEF FromProposal, handleRequests, Calm
<1> QED BY <1>2, <1>3, <1>4

(* As long as every batch is properly signed and clients talk to node 0    *)
(* only, no loss, reordering, checkpoint or restart makes a node leave the *)
(* first view.                                                             *)
THEOREM QuietViewHolds == Spec => []QuietView
<1>1. Init => ViewInv /\ QuietInv
  BY DEF Init, ViewInv, FirstView, QuietInv
<1>2. SafetyInv /\ ViewInv /\ QuietInv /\ [Next]_vars => ViewInv' /\ QuietInv'
  BY ViewStep, QuietStep
<1>3. ViewInv /\ QuietInv => QuietView
  BY DEF ViewInv, QuietInv, QuietView, Calm, FirstView, NoNewView
<1> QED BY <1>1, <1>2, <1>3, SafetyInvariant, PTL DEF Spec

-----------------------------------------------------------------------------
(* PrepareQuorum, where a batch has one proposer: batches are proposed     *)
(* once, or all clients talk to one node.  Otherwise two proposers of a    *)
(* batch send no Prepare for it and each takes the other for a replica.    *)
OneProposer == ~Resend \/ \E c \in Node : Contact \subseteq {c}

PrepareInv ==
    /\ \A a, b \in msgs : a.type = "PrePrepare" /\ b.type = "PrePrepare"
                            /\ a.digest = b.digest => a.from = b.from
    /\ \A m \in msgs : m.type = "PrePrepare" => m.from \in Contact
    /\ \A m \in msgs : m.type = "Prepare" =>
          m.view # m.from /\ \E p \in Sent("PrePrepare", m.digest) : p.from = m.view
    /\ \A n \in Node : \A d \in messagePool[n] :
          n \in Senders("PrePrepare", d) \cup Senders("Prepare", d)
    /\ \A n \in Node, d \in Batch :
          prePareConfirmCount[n][d] \subseteq Senders("Prepare", d) \ {n}
    /\ PrepareQuorum

(* A batch enters a pool when the node proposes or accepts it.             *)
LEMMA PoolMoves ==
    ASSUME TypeOK, StepKind, NEW q \in Node, NEW d \in messagePool'[q] \ messagePool[q]
    PROVE  \/ handleRequests(q, d)
           \/ \E m \in msgs : /\ Deliver(q, m, "PrePrepare") /\ AcceptPrePrepare(q, m)
                             /\ d = m.digest
<1>0. messagePool \in [Node -> SUBSET Batch]
  BY DEF TypeOK, TypeRound
<1>1. ASSUME NEW n \in Node, NEW e \in Batch, handleRequests(n, e)
      PROVE  q = n /\ d = e
  <2>1. messagePool' = [messagePool EXCEPT ![n] = messagePool[n] \cup {e}]
    BY <1>1 DEF handleRequests
  <2> QED BY <1>0, <2>1
<1>2. ASSUME NEW n \in Node, NEW m \in msgs, handlePrePrepare(n, m)
      PROVE  Deliver(q, m, "PrePrepare") /\ AcceptPrePrepare(q, m) /\ d = m.digest
  <2>1. AcceptPrePrepare(n, m) /\ Deliver(n, m, "PrePrepare")
    BY <1>2 DEF handlePrePrepare, RefusePrePrepare
  <2>2. messagePool' = [messagePool EXCEPT ![n] = messagePool[n] \cup {m.digest}]
    BY <2>1 DEF AcceptPrePrepare
  <2>3. q = n /\ d = m.digest
    BY <1>0, <2>2
  <2> QED BY <2>1, <2>3
<1>3. ASSUME NEW n \in Node, NEW m \in msgs, handleCheckPoint(n, m) PROVE FALSE
  <2>1. CASE LateCheckPoint(n, m)
    BY <2>1 DEF LateCheckPoint, roundVars
  <2>2. CASE deleteCacheMessage(n)
    <3>1. PICK gone : Deletes(n, gone)
      BY <2>2, CachesDeleted
    <3> QED BY <1>0, <3>1 DEF Deletes
  <2> QED BY <1>3, <2>1, <2>2 DEF handleCheckPoint, AheadCheckPoint
<1>4. ASSUME NEW n \in Node, restart(n) PROVE FALSE
  BY <1>0, <1>4 DEF restart
<1>5. ASSUME NEW n \in Node, NEW m \in msgs,
             \/ PreparePooled(n, m) \/ CommitPrepared(n, m) \/ handleReply(n, m)
             \/ handleUpdata(n, m) \/ handleNewdata(n, m)
             \/ handleViewChange(n, m) \/ handleNewView(n, m)
      PROVE  UNCHANGED messagePool
  BY <1>5 DEF PreparePooled, CountPrepare, WrongView, CommitPrepared, CountCommit,
     handleReply, handleUpdata, handleNewdata, handleViewChange, handleNewView, roundVars
<1>6. CASE Idle
  BY <1>6 DEF Idle, roundVars
<1> QED BY <1>1, <1>2, <1>3, <1>4, <1>5, <1>6 DEF StepKind

(* So the node has then sent a PrePrepare or a Prepare for it.             *)
LEMMA PooledIsSent ==
    ASSUME TypeOK, StepKind, NEW q \in Node, NEW d \in messagePool'[q] \ messagePool[q]
    PROVE  q \in Senders("PrePrepare", d)' \cup Senders("Prepare", d)'
<1>1. CASE handleRequests(q, d)
  <2>1. PICK p : p = [type |-> "PrePrepare", from |-> q, nr |-> nr[q], digest |-> d,
                      seq |-> sequenceID[q] + 1, view |-> M_node[q]]
    OBVIOUS
  <2>2. p.type = "PrePrepare" /\ p.from = q /\ p.digest = d
    BY <2>1
  <2>3. p \in msgs'
    BY <1>1, <2>1 DEF handleRequests, Propose, Send
  <2> QED BY <2>2, <2>3 DEF Senders, Sent
<1>2. ASSUME NEW m \in msgs, AcceptPrePrepare(q, m), d = m.digest
      PROVE  q \in Senders("Prepare", d)'
  <2>1. PICK p : p = [type |-> "Prepare", from |-> q, nr |-> nr[q] + 1,
                      digest |-> m.digest, seq |-> m.seq, view |-> m.view]
    OBVIOUS
  <2>2. p.type = "Prepare" /\ p.from = q /\ p.digest = d
    BY <1>2, <2>1
  <2>3. p \in msgs'
    BY <1>2, <2>1 DEF AcceptPrePrepare, Send
  <2> QED BY <2>2, <2>3 DEF Senders, Sent
<1> QED BY <1>1, <1>2, PoolMoves

(* Whoever is counted for a batch, newly, sent n a Prepare for it.         *)
LEMMA PrepareCountMoves ==
    ASSUME TypeOK, StepKind, NEW q \in Node, NEW d \in Batch,
           NEW r \in prePareConfirmCount'[q][d] \ prePareConfirmCount[q][d]
    PROVE  r # q /\ r \in Senders("Prepare", d)
<1>0. prePareConfirmCount \in [Node -> [Batch -> SUBSET Node]]
  BY DEF TypeOK, TypeRound
<1>1. ASSUME NEW n \in Node, NEW m \in msgs, Vote(n, m, "Prepare"), PreparePooled(n, m)
      PROVE  r # q /\ r \in Senders("Prepare", d)
  <2>1. CountPrepare(n, m)
    BY <1>1 DEF PreparePooled, WrongView, roundVars
  <2>2. prePareConfirmCount' = [prePareConfirmCount EXCEPT ![n][m.digest] =
                                  prePareConfirmCount[n][m.digest] \cup {m.from}]
    BY <2>1 DEF CountPrepare
  <2>3. q = n /\ d = m.digest /\ r = m.from
    BY <1>0, <1>1, <2>2 DEF Vote
  <2> QED BY <1>1, <2>3 DEF Vote, Senders, Sent
<1>2. ASSUME NEW n \in Node, NEW m \in msgs, handleCheckPoint(n, m) PROVE FALSE
  <2>1. CASE LateCheckPoint(n, m)
    BY <2>1 DEF LateCheckPoint, roundVars
  <2>2. CASE deleteCacheMessage(n)
    <3>1. PICK gone : Deletes(n, gone)
      BY <2>2, CachesDeleted
    <3> QED BY <1>0, <3>1 DEF Deletes
  <2> QED BY <1>2, <2>1, <2>2 DEF handleCheckPoint, AheadCheckPoint
<1>3. ASSUME NEW n \in Node, restart(n) PROVE FALSE
  BY <1>0, <1>3 DEF restart
<1>4. ASSUME NEW n \in Node, NEW m \in msgs,
             \/ handlePrePrepare(n, m) \/ CommitPrepared(n, m) \/ handleReply(n, m)
             \/ handleUpdata(n, m) \/ handleNewdata(n, m)
             \/ handleViewChange(n, m) \/ handleNewView(n, m)
      PROVE  UNCHANGED prePareConfirmCount
  BY <1>4 DEF handlePrePrepare, WrongView, CommitPrepared, CountCommit, handleReply,
     handleUpdata, handleNewdata, handleViewChange, handleNewView, roundVars
<1>5. CASE Idle \/ \E n \in Node, e \in Batch : handleRequests(n, e)
  BY <1>5 DEF Idle, handleRequests, roundVars
<1> QED BY <1>1, <1>2, <1>3, <1>4, <1>5 DEF StepKind

(* A new PrePrepare is the only one of its batch, or of the only proposer. *)
LEMMA NewProposal ==
    ASSUME OneProposer, PrepareInv, NEW x, FromProposal(x), NEW p \in msgs,
           p.type = "PrePrepare", p.digest = x.digest
    PROVE  p.from = x.from
<1>1. PICK n \in Node, d \in Batch : handleRequests(n, d) /\ x.from = n /\ x.digest = d
  BY DEF FromProposal
<1>2. n \in Contact /\ (~Resend => p.digest # d)
  BY <1>1 DEF handleRequests
<1>3. p.from \in Contact
  BY DEF PrepareInv
<1> QED BY <1>1, <1>2, <1>3 DEF OneProposer

(* The node that sends a Commit has counted enough Prepares, whichever of  *)
(* its two thresholds it applied: a replica counts one less, and has sent  *)
(* one itself, because the primary of the batch is another node.           *)
LEMMA CommitHasQuorum ==
    ASSUME TypeOK, PrepareInv, NEW x, FromPrepares(x)
    PROVE  Cardinality(Senders("Prepare", x.digest)) >= 2 * f
<1>1. PICK n \in Node, m \in msgs :
         /\ Vote(n, m, "Prepare") /\ m.digest \in messagePool[n] /\ InView(n, m)
         /\ EnoughPrepares(n, prePareConfirmCount[n][m.digest] \cup {m.from})
         /\ x.digest = m.digest
  BY DEF FromPrepares
<1> DEFINE d == m.digest
           S == Senders("Prepare", d)
           R == prePareConfirmCount[n][d] \cup {m.from}
<1>2. d \in Batch /\ m.from # n /\ m.type = "Prepare" /\ m.view = M_node[n]
  BY <1>1 DEF Vote, InView
<1>3. m.from \in S
  BY <1>2 DEF Senders, Sent
<1>4. R \subseteq S \ {n} /\ S \in SUBSET Node
  BY <1>2, <1>3, SendersAreNodes DEF PrepareInv
<1>5. Cardinality(R) >= specifiedCount(n)
  BY <1>1 DEF EnoughPrepares
<1>6. d \in messagePool[n]
  BY <1>1
<1> HIDE DEF R
<1>7. /\ IsFiniteSet(S) /\ IsFiniteSet(R)
      /\ Cardinality(S) \in Nat /\ Cardinality(R) \in Nat
  BY <1>4, NodesFinite
<1>8. (N \div 3) * 2 >= 2 * f /\ (N \div 3) * 2 \in Nat
  BY NAssumption DEF f
<1>9. CASE n = M_node[n]
  <2>1. Cardinality(R) <= Cardinality(S)
    BY <1>4, <1>7, FS_Subset
  <2>2. Cardinality(R) >= (N \div 3) * 2
    BY <1>5, <1>9 DEF specifiedCount
  <2> QED BY <1>1, <1>7, <1>8, <2>1, <2>2, NodeFacts
<1>10. CASE n # M_node[n]
  <2>1. n \in S
    <3>1. PICK p \in Sent("PrePrepare", d) : p.from = M_node[n]
      BY <1>2 DEF PrepareInv
    <3>2. n \notin Senders("PrePrepare", d)
      BY <1>10, <3>1 DEF PrepareInv, Senders, Sent
    <3> QED BY <1>6, <3>2 DEF PrepareInv
  <2>2. R \cup {n} \in SUBSET S /\ n \notin R
    BY <1>4, <2>1
  <2>3. Cardinality(R \cup {n}) = Cardinality(R) + 1
    BY <1>7, <2>2, FS_AddElement
  <2>4. Cardinality(R \cup {n}) <= Cardinality(S)
    BY <1>7, <2>2, FS_Subset
  <2>5. Cardinality(R) >= (N \div 3) * 2 - 1
    BY <1>5, <1>10 DEF specifiedCount
  <2> QED BY <1>1, <1>7, <1>8, <2>3, <2>4, <2>5, NodeFacts
<1> QED BY <1>9, <1>10

(* Every step keeps PrepareInv.                                            *)
LEMMA PrepareStep ==
    ASSUME OneProposer, SafetyInv, SafetyInv', PrepareInv, [Next]_vars
    PROVE  PrepareInv'
<1>1. /\ StepKind /\ msgs \subseteq msgs' /\ TypeOK /\ TypeOK'
      /\ \A x \in msgs' \ msgs : Origin(x)
  BY StepCases, Origins DEF SafetyInv
<1>2. \A t, d : Sent(t, d) \subseteq Sent(t, d)' /\ Senders(t, d) \subseteq Senders(t, d)'
  BY <1>1, SentStays
<1>3. \A a, b \in msgs' : a.type = "PrePrepare" /\ b.type = "PrePrepare"
                            /\ a.digest = b.digest => a.from = b.from
  <2> SUFFICES ASSUME NEW a \in msgs', NEW b \in msgs', a.type = "PrePrepare",
                      b.type = "PrePrepare", a.digest = b.digest
               PROVE  a.from = b.from
    OBVIOUS
  <2>1. CASE a \in msgs
    BY <1>1, <2>1, OriginOfType, NewProposal DEF PrepareInv
  <2>2. CASE b \in msgs
    BY <1>1, <2>2, OriginOfType, NewProposal DEF PrepareInv
  <2>3. CASE a \notin msgs /\ b \notin msgs
    <3>1. \E n \in Node, d \in Batch : handleRequests(n, d)
      BY <1>1, <2>3, OriginOfType DEF FromProposal
    <3>2. \E p : \A x \in msgs' \ msgs : x = p
      BY <3>1 DEF handleRequests, Propose, Send
    <3> QED BY <2>3, <3>2
  <2> QED BY <2>1, <2>2, <2>3
<1>4. \A m \in msgs' : m.type = "PrePrepare" => m.from \in Contact
  <2>1. \A x : FromProposal(x) => x.from \in Contact
    BY DEF FromProposal, handleRequests
  <2> QED BY <1>1, <2>1, OriginOfType DEF PrepareInv
<1>5. \A m \in msgs' : m.type = "Prepare" =>
         m.view # m.from /\ \E p \in Sent("PrePrepare", m.digest)' : p.from = m.view
  <2> SUFFICES ASSUME NEW x \in msgs' \ msgs, x.type = "Prepare"
               PROVE  x.view # x.from /\ \E p \in Sent("PrePrepare", x.digest) : p.from = x.view
    BY <1>2 DEF PrepareInv
  <2>1. FromPrePrepare(x)
    BY <1>1, OriginOfType
  <2> QED BY <2>1 DEF FromPrePrepare, Acceptable, Sent
<1>6. \A n \in Node : \A d \in messagePool'[n] :
         n \in Senders("PrePrepare", d)' \cup Senders("Prepare", d)'
  BY <1>1, <1>2, PooledIsSent DEF PrepareInv
<1>7. \A n \in Node, d \in Batch :
         prePareConfirmCount'[n][d] \subseteq Senders("Prepare", d)' \ {n}
  BY <1>1, <1>2, PrepareCountMoves DEF PrepareInv
<1>8. \A d \in Batch :
         Senders("Commit", d)' # {} => Cardinality(Senders("Prepare", d)') >= 2 * f
  <2> SUFFICES ASSUME NEW x \in msgs', x.type = "Commit", x.digest \in Batch
               PROVE  Cardinality(Senders("Prepare", x.digest)') >= 2 * f
    BY DEF Senders, Sent
  <2> DEFINE S == Senders("Prepare", x.digest)
  <2>1. Cardinality(S) >= 2 * f
    <3>1. CASE x \in msgs
      BY <3>1 DEF PrepareInv, PrepareQuorum, Senders, Sent
    <3>2. CASE x \notin msgs
      BY <1>1, <3>2, OriginOfType, CommitHasQuorum
    <3> QED BY <3>1, <3>2
  <2>2. S \in SUBSET Node /\ S' \in SUBSET Node /\ S \subseteq S'
    <3>1. S' \in SUBSET Node
      BY <1>1, MessageFrom DEF TypeOK, TypeNet, Senders, Sent
    <3> QED BY <1>1, <1>2, <3>1, SendersAreNodes
  <2> HIDE DEF S
  <2>3. IsFiniteSet(S') /\ Cardinality(S) \in Nat /\ Cardinality(S') \in Nat
    BY <2>2, NodesFinite
  <2>4. Cardinality(S) <= Cardinality(S')
    BY <2>2, <2>3, FS_Subset
  <2>5. Cardinality(S') >= 2 * f
    BY <2>1, <2>3, <2>4, NodeFacts
  <2> QED BY <2>5 DEF S
<1> QED BY <1>3, <1>4, <1>5, <1>6, <1>7, <1>8 DEF PrepareInv, PrepareQuorum

(* Once a Commit for a batch is out, 2f nodes have broadcast a Prepare for *)
(* it, across views, deleted caches and restarts.                          *)
THEOREM PrepareQuorumHolds ==
    ASSUME OneProposer PROVE Spec => []PrepareQuorum
<1>1. Init => PrepareInv
  BY DEF Init, PrepareInv, PrepareQuorum, Senders, Sent
<1>2. SafetyInv /\ SafetyInv' /\ PrepareInv /\ [Next]_vars => PrepareInv'
  BY PrepareStep
<1>3. PrepareInv => PrepareQuorum
  BY DEF PrepareInv
<1> QED BY <1>1, <1>2, <1>3, SafetyInvariant, PTL DEF Spec

-----------------------------------------------------------------------------
(* ExecutedInItsView, where a batch is proposed once: a batch has then one *)
(* view, and every vote for it names that view.                            *)
OnceInv ==
    /\ \A a, b \in msgs : a.type = "PrePrepare" /\ b.type = "PrePrepare"
                            /\ a.digest = b.digest => a = b
    /\ \A m \in msgs : m.type \in {"Prepare", "Commit"} =>
          \E p \in Sent("PrePrepare", m.digest) : p.view = m.view

(* Only counting a Commit executes a batch.                                *)
LEMMA ExecutedMoves ==
    ASSUME TypeOK, StepKind, NEW q \in Node
    PROVE  /\ executed[q] \subseteq executed'[q]
           /\ \A d \in executed'[q] \ executed[q] :
                 \E m \in msgs : Executes(q, m) /\ d = m.digest
<1>0. executed \in [Node -> SUBSET Batch]
  BY DEF TypeOK, TypeRound
<1>1. ASSUME NEW n \in Node, NEW m \in msgs, Vote(n, m, "Commit"), CommitPrepared(n, m)
      PROVE  \/ UNCHANGED executed
             \/ /\ Executes(n, m)
                /\ executed' = [executed EXCEPT ![n] = executed[n] \cup {m.digest}]
  BY <1>1 DEF CommitPrepared, WrongView, CountCommit, Execute, roundVars,
              Executes, EnoughCommits
<1>2. ASSUME NEW n \in Node, NEW m \in msgs,
             \/ handlePrePrepare(n, m) \/ PreparePooled(n, m) \/ handleReply(n, m)
             \/ handleCheckPoint(n, m) \/ handleUpdata(n, m) \/ handleNewdata(n, m)
             \/ handleViewChange(n, m) \/ handleNewView(n, m)
      PROVE  UNCHANGED executed
  BY <1>2 DEF handlePrePrepare, PreparePooled, CountPrepare, WrongView, handleReply,
     handleCheckPoint, LateCheckPoint, AheadCheckPoint, handleUpdata, handleNewdata,
     handleViewChange, handleNewView, roundVars
<1>3. ASSUME NEW n \in Node, restart(n) PROVE UNCHANGED executed
  BY <1>3 DEF restart
<1>4. CASE Idle \/ \E n \in Node, d \in Batch : handleRequests(n, d)
  BY <1>4 DEF Idle, handleRequests, roundVars
<1>5. CASE UNCHANGED executed
  BY <1>5
<1>6. ASSUME NEW n \in Node, NEW m \in msgs, Executes(n, m),
             executed' = [executed EXCEPT ![n] = executed[n] \cup {m.digest}]
      PROVE  /\ executed[q] \subseteq executed'[q]
             /\ \A d \in executed'[q] \ executed[q] : q = n /\ d = m.digest
  BY <1>0, <1>6
<1> QED BY <1>1, <1>2, <1>3, <1>4, <1>5, <1>6 DEF StepKind

(* Every step keeps OnceInv.                                               *)
LEMMA OnceStep ==
    ASSUME ~Resend, SafetyInv, OnceInv, [Next]_vars
    PROVE  OnceInv'
<1>1. msgs \subseteq msgs' /\ \A x \in msgs' \ msgs : Origin(x)
  BY Origins
<1>2. \A a, b \in msgs' : a.type = "PrePrepare" /\ b.type = "PrePrepare"
                            /\ a.digest = b.digest => a = b
  <2> SUFFICES ASSUME NEW a \in msgs', NEW b \in msgs', a.type = "PrePrepare",
                      b.type = "PrePrepare", a.digest = b.digest
               PROVE  a = b
    OBVIOUS
  <2>1. ASSUME NEW x \in msgs' \ msgs, x.type = "PrePrepare"
        PROVE  \A p \in msgs : p.type = "PrePrepare" => p.digest # x.digest
    <3>1. FromProposal(x)
      BY <1>1, <2>1, OriginOfType
    <3> QED BY <3>1 DEF FromProposal, handleRequests
  <2>2. CASE a \notin msgs /\ b \notin msgs
    <3>1. \E n \in Node, d \in Batch : handleRequests(n, d)
      BY <1>1, <2>2, OriginOfType DEF FromProposal
    <3>2. \E p : \A x \in msgs' \ msgs : x = p
      BY <3>1 DEF handleRequests, Propose, Send
    <3> QED BY <2>2, <3>2
  <2> QED BY <2>1, <2>2 DEF OnceInv
<1>3. \A m \in msgs' : m.type \in {"Prepare", "Commit"} =>
         \E p \in Sent("PrePrepare", m.digest)' : p.view = m.view
  <2> SUFFICES ASSUME NEW x \in msgs' \ msgs, x.type \in {"Prepare", "Commit"}
               PROVE  \E p \in Sent("PrePrepare", x.digest) : p.view = x.view
    BY <1>1, SentStays DEF OnceInv
  <2>1. CASE FromPrePrepare(x)
    BY <2>1 DEF FromPrePrepare, Sent
  <2>2. CASE FromPrepares(x)
    BY <2>2 DEF FromPrepares, Vote, OnceInv
  <2> QED BY <1>1, <2>1, <2>2, OriginOfType
<1> QED BY <1>2, <1>3 DEF OnceInv

(* A node executes a batch only in the view of its PrePrepare: no Commit   *)
(* still on its way completes a quorum after the node has moved on.        *)
THEOREM ExecutedInItsViewHolds ==
    ASSUME ~Resend PROVE Spec => ExecutedInItsView
<1>1. Init => OnceInv
  BY DEF Init, OnceInv
<1>2. SafetyInv /\ OnceInv /\ [Next]_vars => OnceInv'
  BY OnceStep
<1>3. SafetyInv /\ OnceInv /\ [Next]_vars =>
        \A n \in Node : \A d \in executed'[n] \ executed[n] :
           \A m \in Sent("PrePrepare", d) : m.view = M_node[n]
  <2> SUFFICES ASSUME SafetyInv, OnceInv, [Next]_vars, NEW n \in Node,
                      NEW d \in executed'[n] \ executed[n], NEW p \in Sent("PrePrepare", d)
               PROVE  p.view = M_node[n]
    OBVIOUS
  <2>1. PICK m \in msgs : Executes(n, m) /\ d = m.digest
    BY StepCases, ExecutedMoves DEF SafetyInv
  <2>2. m.view = M_node[n] /\ m.type = "Commit"
    BY <2>1 DEF Executes, Vote, CountCommit, InView
  <2>3. PICK o \in Sent("PrePrepare", d) : o.view = m.view
    BY <2>1, <2>2 DEF OnceInv
  <2>4. o = p
    BY DEF OnceInv, Sent
  <2> QED BY <2>2, <2>3, <2>4
<1> QED BY <1>1, <1>2, <1>3, SafetyInvariant, PTL DEF Spec, ExecutedInItsView

-----------------------------------------------------------------------------
(* StoredByMany, where a batch is proposed once: the primary counts        *)
(* answers and not nodes, but a node answers only once, and the primary    *)
(* counts itself only when it executes.                                    *)
Answers(n, d) == {m \in rcvd[n] : m.type = "Reply" /\ m.digest = d}
Answerers(n, d) == {m.from : m \in Answers(n, d)} \cup {q \in {n} : d \in executed[q]}
Executors(d) == {q \in Node : d \in executed[q]}

AnswerInv ==
    /\ \A n \in Node : \A d \in messagePool[n] \cup executed[n] :
          \E p \in Sent("PrePrepare", d) : p.from = n \/ p \in rcvd[n]
    /\ \A n \in Node : executed[n] \cap messagePool[n] \subseteq isReply[n]
    /\ \A a, b \in msgs : a.type = "Reply" /\ b.type = "Reply"
                            /\ a.digest = b.digest /\ a.from = b.from => a = b
    /\ \A n \in Node, d \in Batch : replyConfireCount[n][d] <= Cardinality(Answerers(n, d))
    /\ StoredByMany

(* An answer is forgotten with the batch it is about.                      *)
LEMMA ReplyForgotten ==
    ASSUME TypeOK, StepKind, NEW q \in Node, NEW d \in isReply[q] \ isReply'[q]
    PROVE  d \notin messagePool'[q]
<1>0. isReply \in [Node -> SUBSET Batch] /\ messagePool \in [Node -> SUBSET Batch]
  BY DEF TypeOK, TypeRound
<1>1. ASSUME NEW n \in Node, NEW m \in msgs, Vote(n, m, "Commit"), CommitPrepared(n, m)
      PROVE  FALSE
  <2>1. UNCHANGED isReply \/ isReply' = [isReply EXCEPT ![n] = isReply[n] \cup {m.digest}]
    BY <1>1 DEF CommitPrepared, WrongView, CountCommit, Execute, roundVars
  <2> QED BY <1>0, <2>1
<1>2. ASSUME NEW n \in Node, NEW m \in msgs, handleCheckPoint(n, m)
      PROVE  d \notin messagePool'[q]
  <2>1. CASE LateCheckPoint(n, m)
    BY <2>1 DEF LateCheckPoint, roundVars
  <2>2. CASE deleteCacheMessage(n)
    <3>1. PICK gone : Deletes(n, gone)
      BY <2>2, CachesDeleted
    <3> QED BY <1>0, <3>1 DEF Deletes
  <2> QED BY <1>2, <2>1, <2>2 DEF handleCheckPoint, AheadCheckPoint
<1>3. ASSUME NEW n \in Node, restart(n) PROVE d \notin messagePool'[q]
  BY <1>0, <1>3 DEF restart
<1>4. ASSUME NEW n \in Node, NEW m \in msgs,
             \/ handlePrePrepare(n, m) \/ PreparePooled(n, m) \/ handleReply(n, m)
             \/ handleUpdata(n, m) \/ handleNewdata(n, m)
             \/ handleViewChange(n, m) \/ handleNewView(n, m)
      PROVE  UNCHANGED isReply
  BY <1>4 DEF handlePrePrepare, PreparePooled, CountPrepare, WrongView, handleReply,
     handleUpdata, handleNewdata, handleViewChange, handleNewView, roundVars
<1>5. CASE Idle \/ \E n \in Node, e \in Batch : handleRequests(n, e)
  BY <1>5 DEF Idle, handleRequests, roundVars
<1> QED BY <1>1, <1>2, <1>3, <1>4, <1>5 DEF StepKind

(* A node counts one more answer when one arrives or when it executes.     *)
LEMMA AnswerCountMoves ==
    ASSUME TypeOK, StepKind, NEW q \in Node, NEW d \in Batch
    PROVE  \/ replyConfireCount'[q][d] <= replyConfireCount[q][d]
           \/ /\ replyConfireCount'[q][d] = replyConfireCount[q][d] + 1
              /\ \E m \in msgs :
                    /\ m.digest = d
                    /\ handleReply(q, m) \/ (Executes(q, m) /\ q = M_node[q])
<1>0. replyConfireCount \in [Node -> [Batch -> Nat]]
  BY DEF TypeOK, TypeRound
<1> DEFINE Less == replyConfireCount'[q][d] <= replyConfireCount[q][d]
           More == replyConfireCount'[q][d] = replyConfireCount[q][d] + 1
<1>1. ASSUME NEW n \in Node, NEW b,
             replyConfireCount' = [replyConfireCount EXCEPT ![n][b] = replyConfireCount[n][b] + 1]
      PROVE  Less \/ (More /\ q = n /\ b = d)
  BY <1>0, <1>1
<1>2. ASSUME UNCHANGED replyConfireCount PROVE Less
  BY <1>0, <1>2
<1>3. ASSUME NEW n \in Node, NEW m \in msgs, Vote(n, m, "Commit"), CommitPrepared(n, m)
      PROVE  \/ Less
             \/ More /\ q = n /\ m.digest = d /\ Executes(n, m) /\ n = M_node[n]
  <2>1. \/ UNCHANGED replyConfireCount
        \/ /\ Executes(n, m) /\ n = M_node[n]
           /\ replyConfireCount' = [replyConfireCount EXCEPT ![n][m.digest] =
                                      replyConfireCount[n][m.digest] + 1]
    BY <1>3 DEF CommitPrepared, WrongView, CountCommit, Execute, roundVars,
                Executes, EnoughCommits
  <2> QED BY <1>1, <1>2, <2>1
<1>4. ASSUME NEW n \in Node, NEW m \in msgs, handleReply(n, m)
      PROVE  Less \/ (More /\ q = n /\ m.digest = d)
  <2>1. replyConfireCount' = [replyConfireCount EXCEPT ![n][m.digest] =
                                replyConfireCount[n][m.digest] + 1]
    BY <1>4 DEF handleReply
  <2> QED BY <1>1, <2>1
<1>5. ASSUME NEW n \in Node, NEW m \in msgs, handleCheckPoint(n, m) PROVE Less
  <2>1. CASE LateCheckPoint(n, m)
    BY <1>2, <2>1 DEF LateCheckPoint, roundVars
  <2>2. CASE deleteCacheMessage(n)
    <3>1. PICK gone : Deletes(n, gone)
      BY <2>2, CachesDeleted
    <3>2. replyConfireCount' = [replyConfireCount EXCEPT ![n] =
             [b \in Batch |-> IF b \in gone THEN 0 ELSE replyConfireCount[n][b]]]
      BY <3>1 DEF Deletes
    <3> QED BY <1>0, <3>2
  <2> QED BY <1>5, <2>1, <2>2 DEF handleCheckPoint, AheadCheckPoint
<1>6. ASSUME NEW n \in Node, restart(n) PROVE Less
  <2>1. replyConfireCount' = [replyConfireCount EXCEPT ![n] = [b \in Batch |-> 0]]
    BY <1>6 DEF restart
  <2> QED BY <1>0, <2>1
<1>7. ASSUME NEW n \in Node, NEW m \in msgs,
             \/ handlePrePrepare(n, m) \/ PreparePooled(n, m)
             \/ handleUpdata(n, m) \/ handleNewdata(n, m)
             \/ handleViewChange(n, m) \/ handleNewView(n, m)
      PROVE  UNCHANGED replyConfireCount
  BY <1>7 DEF handlePrePrepare, PreparePooled, CountPrepare, WrongView,
     handleUpdata, handleNewdata, handleViewChange, handleNewView, roundVars
<1>8. ASSUME Idle \/ \E n \in Node, e \in Batch : handleRequests(n, e)
      PROVE  UNCHANGED replyConfireCount
  BY <1>8 DEF Idle, handleRequests, roundVars
<1> HIDE DEF Less
<1>9. Less \/ (More /\ \E m \in msgs :
         /\ m.digest = d
         /\ handleReply(q, m) \/ (Executes(q, m) /\ q = M_node[q]))
  BY <1>2, <1>3, <1>4, <1>5, <1>6, <1>7, <1>8 DEF StepKind
<1> QED BY <1>9 DEF Less

(* A block is stored when answers are counted, and only then.              *)
LEMMA BlocksMove ==
    ASSUME TypeOK, StepKind, NEW q \in Node
    PROVE  /\ Blocks(q) \subseteq Blocks(q)'
           /\ \A d \in Blocks(q)' \ Blocks(q) :
                 \E m \in msgs :
                    /\ handleReply(q, m) /\ d = m.digest
                    /\ EnoughReplies(q, d, replyConfireCount[q][d] + 1)
<1>0. GRToBlock \in [Node -> Seq(Batch)]
  BY DEF TypeOK, TypeDb
<1>1. ASSUME NEW n \in Node, NEW m \in msgs, handleReply(n, m)
      PROVE  \/ UNCHANGED GRToBlock
             \/ /\ EnoughReplies(n, m.digest, replyConfireCount[n][m.digest] + 1)
                /\ GRToBlock' = [GRToBlock EXCEPT ![n] = Append(GRToBlock[n], m.digest)]
  BY <1>0, <1>1 DEF handleReply, handleBlockStorage, dbVars
<1>2. ASSUME NEW n \in Node, NEW e,
             GRToBlock' = [GRToBlock EXCEPT ![n] = Append(GRToBlock[n], e)]
      PROVE  /\ Blocks(q) \subseteq Blocks(q)'
             /\ \A d \in Blocks(q)' \ Blocks(q) : q = n /\ d = e
  <2>1. q # n => GRToBlock'[q] = GRToBlock[q]
    BY <1>0, <1>2
  <2>2. q = n => GRToBlock'[q] = Append(GRToBlock[q], e)
    BY <1>0, <1>2
  <2>3. GRToBlock[q] \in Seq(Batch)
    BY <1>0
  <2>4. CASE q # n
    BY <2>1, <2>4 DEF Blocks
  <2>5. CASE q = n
    <3>1. /\ Len(GRToBlock'[q]) = Len(GRToBlock[q]) + 1
          /\ \A i \in 1 .. Len(GRToBlock[q]) : GRToBlock'[q][i] = GRToBlock[q][i]
          /\ GRToBlock'[q][Len(GRToBlock[q]) + 1] = e
          /\ Len(GRToBlock[q]) \in Nat
      BY <2>2, <2>3, <2>5
    <3> QED BY <2>5, <3>1 DEF Blocks
  <2> QED BY <2>4, <2>5
<1>3. ASSUME UNCHANGED GRToBlock PROVE UNCHANGED Blocks(q)
  BY <1>3 DEF Blocks
<1>4. ASSUME NEW n \in Node, NEW m \in msgs,
             \/ handlePrePrepare(n, m) \/ PreparePooled(n, m) \/ CommitPrepared(n, m)
             \/ handleCheckPoint(n, m) \/ handleUpdata(n, m) \/ handleNewdata(n, m)
             \/ handleViewChange(n, m) \/ handleNewView(n, m)
      PROVE  UNCHANGED GRToBlock
  BY <1>4 DEF handlePrePrepare, PreparePooled, CountPrepare, WrongView, CommitPrepared,
     CountCommit, handleCheckPoint, handleUpdata, handleNewdata,
     handleViewChange, handleNewView, dbVars
<1>5. ASSUME Idle \/ (\E n \in Node, d \in Batch : handleRequests(n, d))
               \/ \E n \in Node : restart(n)
      PROVE  UNCHANGED GRToBlock
  BY <1>5 DEF Idle, handleRequests, restart, dbVars
<1>6. CASE UNCHANGED GRToBlock
  BY <1>3, <1>6
<1>7. ASSUME NEW n \in Node, NEW m \in msgs, handleReply(n, m)
      PROVE  /\ Blocks(q) \subseteq Blocks(q)'
             /\ \A d \in Blocks(q)' \ Blocks(q) :
                   /\ q = n /\ d = m.digest
                   /\ EnoughReplies(n, m.digest, replyConfireCount[n][m.digest] + 1)
  <2>1. CASE UNCHANGED GRToBlock
    BY <1>3, <2>1
  <2>2. CASE /\ EnoughReplies(n, m.digest, replyConfireCount[n][m.digest] + 1)
             /\ GRToBlock' = [GRToBlock EXCEPT ![n] = Append(GRToBlock[n], m.digest)]
    BY <1>2, <2>2
  <2> QED BY <1>1, <1>7, <2>1, <2>2
<1>8. CASE \E n \in Node, m \in msgs : handleReply(n, m)
  BY <1>7, <1>8
<1> QED BY <1>4, <1>5, <1>6, <1>8 DEF StepKind

(* A larger set of nodes has more of them.                                 *)
LEMMA MoreNodes ==
    ASSUME NEW T \in SUBSET Node, NEW S \in SUBSET T
    PROVE  /\ Cardinality(S) \in Nat /\ Cardinality(T) \in Nat
           /\ Cardinality(S) <= Cardinality(T)
           /\ \A r \in T \ S : Cardinality(S) + 1 <= Cardinality(T)
<1>1. /\ IsFiniteSet(S) /\ IsFiniteSet(T)
      /\ Cardinality(S) \in Nat /\ Cardinality(T) \in Nat
  BY NodesFinite
<1>2. Cardinality(S) <= Cardinality(T)
  BY <1>1, FS_Subset
<1>3. ASSUME NEW r \in T \ S PROVE Cardinality(S) + 1 <= Cardinality(T)
  <2>1. Cardinality(S \cup {r}) = Cardinality(S) + 1
    BY <1>1, FS_AddElement
  <2>2. S \cup {r} \in SUBSET T
    OBVIOUS
  <2> QED BY <1>1, <2>1, <2>2, FS_Subset
<1> QED BY <1>1, <1>2, <1>3

(* Whoever has answered has executed.                                      *)
LEMMA AnswerersExecuted ==
    ASSUME SafetyInv', NEW n \in Node, NEW d
    PROVE  Answerers(n, d)' \subseteq Executors(d)' /\ Executors(d)' \in SUBSET Node
<1>1. TypeNet' /\ PromisesKept'
  BY DEF SafetyInv, TypeOK
<1>2. \A m \in Answers(n, d)' : m \in msgs' /\ m.from \in Node /\ Promise(m)'
  BY <1>1, MessageFrom DEF TypeNet, Answers, PromisesKept
<1> QED BY <1>2 DEF Answerers, Answers, Executors, Promise

(* A batch is executed while it is pooled and has not been before.         *)
LEMMA ExecutesFirst ==
    ASSUME CachesConsistent, AnswerInv, NEW n \in Node, NEW m \in msgs, Executes(n, m)
    PROVE  m.digest \in messagePool[n] \ executed[n]
<1>1. m.digest \in Batch /\ m.digest \in isCommitBordcast[n] /\ m.digest \notin isReply[n]
  BY DEF Executes, Vote
<1>2. m.digest \in messagePool[n]
  BY <1>1 DEF CachesConsistent
<1> QED BY <1>1, <1>2 DEF AnswerInv

(* A step sends at most one Reply, ...                                     *)
LEMMA OneReply ==
    ASSUME SafetyInv, [Next]_vars, NEW a \in msgs' \ msgs, NEW b \in msgs' \ msgs,
           a.type = "Reply", b.type = "Reply"
    PROVE  a = b
<1>1. PICK n \in Node, m \in msgs : Executes(n, m)
  BY Origins, OriginOfType DEF FromCommits
<1>2. PICK r : r = [type |-> "Reply", from |-> n, nr |-> nr[n], to |-> M_node[n],
                    digest |-> m.digest, seq |-> m.seq]
  OBVIOUS
<1>3. PICK c : c = [type |-> "CheckPoint", from |-> n, nr |-> nr[n] + 1,
                    seq |-> sequenceID[n]]
  OBVIOUS
<1>4. msgs' \subseteq msgs \cup {r} \cup {c}
  BY <1>1, <1>2, <1>3 DEF Executes, Execute, Send
<1>5. c.type = "CheckPoint"
  BY <1>3
<1> QED BY <1>4, <1>5

(* ... and a node one Reply for a batch.                                   *)
LEMMA RepliesOnce ==
    ASSUME SafetyInv, CachesConsistent, AnswerInv, [Next]_vars,
           NEW a \in msgs', NEW b \in msgs', a.type = "Reply", b.type = "Reply",
           a.digest = b.digest, a.from = b.from
    PROVE  a = b
<1>1. ASSUME NEW x \in msgs' \ msgs, x.type = "Reply", NEW y \in msgs, y.type = "Reply",
             y.digest = x.digest, y.from = x.from
      PROVE  FALSE
  <2>1. PICK n \in Node, m \in msgs : Executes(n, m) /\ x.from = n /\ x.digest = m.digest
    BY <1>1, Origins, OriginOfType DEF FromCommits
  <2>2. x.digest \notin executed[x.from]
    BY <2>1, ExecutesFirst
  <2>3. y.digest \in executed[y.from]
    BY <1>1 DEF SafetyInv, PromisesKept, Promise
  <2> QED BY <1>1, <2>2, <2>3
<1>2. CASE a \in msgs /\ b \in msgs
  BY <1>2 DEF AnswerInv
<1> QED BY <1>1, <1>2, OneReply

(* The batches a node knows were proposed by it or to it.                  *)
LEMMA KnownBatches ==
    ASSUME SafetyInv, CachesConsistent, AnswerInv, StepKind, msgs \subseteq msgs',
           NEW n \in Node, rcvd[n] \subseteq rcvd'[n],
           NEW d \in messagePool'[n] \cup executed'[n]
    PROVE  \E p \in Sent("PrePrepare", d)' : p.from = n \/ p \in rcvd'[n]
<1>0. TypeOK
  BY DEF SafetyInv
<1>1. CASE d \in messagePool[n] \cup executed[n]
  BY <1>1, SentStays DEF AnswerInv
<1>2. CASE d \in executed'[n] \ executed[n]
  BY <1>0, <1>1, <1>2, ExecutedMoves, ExecutesFirst
<1>3. CASE handleRequests(n, d)
  <2>1. PICK p : p = [type |-> "PrePrepare", from |-> n, nr |-> nr[n], digest |-> d,
                      seq |-> sequenceID[n] + 1, view |-> M_node[n]]
    OBVIOUS
  <2>2. p.type = "PrePrepare" /\ p.from = n /\ p.digest = d
    BY <2>1
  <2>3. p \in msgs'
    BY <1>3, <2>1 DEF handleRequests, Propose, Send
  <2> QED BY <2>2, <2>3 DEF Sent
<1>4. ASSUME NEW m \in msgs, Deliver(n, m, "PrePrepare"), d = m.digest
      PROVE  \E p \in Sent("PrePrepare", d)' : p \in rcvd'[n]
  BY <1>0, <1>4 DEF Deliver, Sent, TypeOK, TypeNet
<1> QED BY <1>0, <1>1, <1>2, <1>3, <1>4, PoolMoves

(* A batch that has been executed does not enter the pool a second time.   *)
LEMMA NotPooledAgain ==
    ASSUME ~Resend, TypeOK, OnceInv, AnswerInv, StepKind,
           NEW n \in Node, NEW d \in executed[n]
    PROVE  d \notin messagePool'[n] \ messagePool[n]
<1>1. PICK p \in Sent("PrePrepare", d) : p.from = n \/ p \in rcvd[n]
  BY DEF AnswerInv
<1>2. ~handleRequests(n, d)
  BY <1>1 DEF handleRequests, Sent
<1>3. ASSUME NEW m \in msgs, Deliver(n, m, "PrePrepare"), d = m.digest PROVE FALSE
  <2>1. m = p
    BY <1>1, <1>3 DEF Deliver, Sent, OnceInv
  <2> QED BY <1>1, <1>3, <2>1 DEF Deliver
<1> QED BY <1>2, <1>3, PoolMoves

(* What a node has executed and still pools it has answered.               *)
LEMMA PooledIsAnswered ==
    ASSUME ~Resend, TypeOK, TypeOK', OnceInv, AnswerInv, StepKind,
           NEW n \in Node, NEW d \in executed'[n] \cap messagePool'[n]
    PROVE  d \in isReply'[n]
<1>1. CASE d \notin executed[n]
  <2>1. PICK m \in msgs : Executes(n, m) /\ d = m.digest
    BY <1>1, ExecutedMoves
  <2>2. isReply' = [isReply EXCEPT ![n] = isReply[n] \cup {d}]
    BY <2>1 DEF Executes, Execute
  <2> QED BY <2>2 DEF TypeOK, TypeRound
<1>2. CASE d \in executed[n]
  <2>1. d \in messagePool[n]
    BY <1>2, NotPooledAgain
  <2>2. d \in isReply[n]
    BY <1>2, <2>1 DEF AnswerInv
  <2> QED BY <2>2, ReplyForgotten
<1> QED BY <1>1, <1>2

(* The count of answers is made of the answers of different nodes.         *)
LEMMA AnswersCounted ==
    ASSUME SafetyInv, SafetyInv', CachesConsistent, AnswerInv, StepKind,
           NEW n \in Node, NEW d \in Batch,
           \A q \in Node : rcvd[q] \subseteq rcvd'[q]
    PROVE  replyConfireCount'[n][d] <= Cardinality(Answerers(n, d)')
<1> DEFINE S == Answerers(n, d)
<1>0. /\ TypeOK /\ TypeNet /\ TypeNet'
      /\ replyConfireCount[n][d] \in Nat /\ replyConfireCount'[n][d] \in Nat
  BY DEF SafetyInv, TypeOK, TypeRound
<1>1. S' \in SUBSET Node
  BY AnswerersExecuted
<1>2. S \subseteq S'
  BY <1>0, ExecutedMoves DEF Answerers, Answers
<1>3. replyConfireCount[n][d] <= Cardinality(S)
  BY DEF AnswerInv
<1>4. ASSUME NEW m \in msgs, m.digest = d, handleReply(n, m)
      PROVE  m.from \in S' \ S
  <2>1. m.type = "Reply" /\ m.from # n /\ m \notin rcvd[n] /\ m \in rcvd'[n]
    BY <1>0, <1>4 DEF handleReply, Deliver, TypeNet
  <2>2. m.from \in S'
    BY <1>4, <2>1 DEF Answerers, Answers
  <2>3. \A x \in Answers(n, d) : x.from # m.from
    BY <1>0, <1>4, <2>1 DEF AnswerInv, Answers, TypeNet
  <2> QED BY <2>1, <2>2, <2>3 DEF Answerers
<1>5. ASSUME NEW m \in msgs, m.digest = d, Executes(n, m)
      PROVE  n \in S' \ S
  <2>1. d \notin executed[n] /\ d \in Batch
    BY <1>5, ExecutesFirst
  <2>2. executed' = [executed EXCEPT ![n] = executed[n] \cup {d}]
    BY <1>5 DEF Executes, Execute
  <2>3. d \in executed'[n]
    BY <1>0, <2>2 DEF TypeOK, TypeRound
  <2>4. \A x \in Answers(n, d) : x.from # n
    <3>1. \A x \in Answers(n, d) : x \in msgs /\ x.type = "Reply" /\ x.digest = d
      BY <1>0 DEF Answers, TypeNet
    <3>2. \A x \in Answers(n, d) : d \in executed[x.from]
      BY <3>1 DEF SafetyInv, PromisesKept, Promise
    <3> QED BY <2>1, <3>2
  <2> QED BY <2>1, <2>3, <2>4 DEF Answerers
<1> HIDE DEF S
<1>6. /\ Cardinality(S) \in Nat /\ Cardinality(S') \in Nat
      /\ Cardinality(S) <= Cardinality(S')
      /\ \A r \in S' \ S : Cardinality(S) + 1 <= Cardinality(S')
  BY <1>1, <1>2, MoreNodes
<1>7. replyConfireCount'[n][d] <= Cardinality(S')
  <2>1. CASE replyConfireCount'[n][d] <= replyConfireCount[n][d]
    BY <1>0, <1>3, <1>6, <2>1
  <2>2. CASE /\ replyConfireCount'[n][d] = replyConfireCount[n][d] + 1
             /\ \E r \in Node : r \in S' \ S
    BY <1>0, <1>3, <1>6, <2>2
  <2> QED BY <1>0, <1>1, <1>4, <1>5, <2>1, <2>2, AnswerCountMoves
<1> QED BY <1>7 DEF S

(* A block is stored when f+1 nodes have answered, the primary included.   *)
LEMMA StoredIsExecuted ==
    ASSUME SafetyInv, SafetyInv', AnswerInv, StepKind, NEW n \in Node, NEW d \in Blocks(n)',
           replyConfireCount'[n][d] <= Cardinality(Answerers(n, d)')
    PROVE  Cardinality(Executors(d)') >= f + 1
<1>0. TypeOK
  BY DEF SafetyInv
<1> DEFINE E == Executors(d)
           S == Answerers(n, d)
<1>1. E' \in SUBSET Node /\ E \subseteq E' /\ E \in SUBSET Node
  BY <1>0, ExecutedMoves DEF Executors
<1>2. S' \subseteq E'
  BY AnswerersExecuted
<1>3. CASE d \in Blocks(n)
  <2>1. Cardinality(E) >= f + 1
    BY <1>3 DEF AnswerInv, StoredByMany, Executors
  <2> HIDE DEF E
  <2>2. Cardinality(E) <= Cardinality(E') /\ Cardinality(E) \in Nat /\ Cardinality(E') \in Nat
    BY <1>1, MoreNodes
  <2>3. Cardinality(E') >= f + 1
    BY <2>1, <2>2, NodeFacts
  <2> QED BY <2>3 DEF E
<1>4. CASE d \notin Blocks(n)
  <2>1. PICK m \in msgs : /\ handleReply(n, m) /\ d = m.digest
                          /\ EnoughReplies(n, d, replyConfireCount[n][d] + 1)
    BY <1>0, <1>4, BlocksMove
  <2>2. d \in Batch
    BY <1>0, <2>1, MessageFields DEF handleReply, Deliver, Replies, TypeOK, TypeNet
  <2>3. replyConfireCount' = [replyConfireCount EXCEPT ![n][d] = replyConfireCount[n][d] + 1]
    BY <2>1 DEF handleReply
  <2>4. replyConfireCount'[n][d] > f /\ replyConfireCount'[n][d] \in Nat
    BY <1>0, <2>1, <2>2, <2>3 DEF EnoughReplies, TypeOK, TypeRound
  <2> HIDE DEF E, S
  <2>5. Cardinality(S') <= Cardinality(E') /\ Cardinality(S') \in Nat /\ Cardinality(E') \in Nat
    BY <1>1, <1>2, MoreNodes
  <2>6. replyConfireCount'[n][d] <= Cardinality(S')
    BY DEF S
  <2>7. Cardinality(E') >= f + 1
    BY <2>4, <2>5, <2>6, NodeFacts
  <2> QED BY <2>7 DEF E
<1> QED BY <1>3, <1>4

(* Every step keeps AnswerInv.                                             *)
LEMMA AnswerStep ==
    ASSUME ~Resend, SafetyInv, SafetyInv', CachesConsistent, OnceInv, AnswerInv, [Next]_vars
    PROVE  AnswerInv'
<1>1. /\ StepKind /\ msgs \subseteq msgs' /\ TypeOK /\ TypeOK'
      /\ \A q \in Node : rcvd[q] \subseteq rcvd'[q]
  BY StepCases, Origins DEF SafetyInv
<1>2. \A n \in Node : \A d \in messagePool'[n] \cup executed'[n] :
         \E p \in Sent("PrePrepare", d)' : p.from = n \/ p \in rcvd'[n]
  BY <1>1, KnownBatches
<1>3. \A n \in Node : executed'[n] \cap messagePool'[n] \subseteq isReply'[n]
  BY <1>1, PooledIsAnswered
<1>4. \A a, b \in msgs' : a.type = "Reply" /\ b.type = "Reply"
                            /\ a.digest = b.digest /\ a.from = b.from => a = b
  BY RepliesOnce
<1>5. \A n \in Node, d \in Batch :
         replyConfireCount'[n][d] <= Cardinality(Answerers(n, d)')
  BY <1>1, AnswersCounted
<1>6. \A n \in Node : \A d \in Blocks(n)' : d \in Batch
  BY <1>1 DEF Blocks, TypeOK, TypeDb
<1>7. \A n \in Node : \A d \in Blocks(n)' : Cardinality(Executors(d)') >= f + 1
  BY <1>1, <1>5, <1>6, StoredIsExecuted
<1> QED BY <1>2, <1>3, <1>4, <1>5, <1>7 DEF AnswerInv, StoredByMany, Executors

(* f+1 different nodes have executed a batch by the time it is stored,     *)
(* although handleReply counts answers and not nodes.                      *)
THEOREM StoredByManyHolds ==
    ASSUME ~Resend PROVE Spec => []StoredByMany
<1>1. Init => OnceInv /\ AnswerInv
  <2> SUFFICES ASSUME Init PROVE OnceInv /\ AnswerInv
    OBVIOUS
  <2>1. \A n \in Node, d \in Batch : Answerers(n, d) = {}
    BY DEF Init, Answerers, Answers
  <2>2. \A n \in Node, d \in Batch : replyConfireCount[n][d] <= Cardinality(Answerers(n, d))
    <3>1. \A n \in Node, d \in Batch : replyConfireCount[n][d] = 0
      BY DEF Init
    <3>2. \A n \in Node, d \in Batch : Cardinality(Answerers(n, d)) = 0
      BY <2>1, FS_EmptySet
    <3> QED BY <3>1, <3>2
  <2>3. \A n \in Node : Blocks(n) = {} /\ messagePool[n] \cup executed[n] = {}
    BY DEF Init, Blocks
  <2>4. msgs = {}
    BY DEF Init
  <2> QED BY <2>2, <2>3, <2>4 DEF OnceInv, AnswerInv, StoredByMany
<1>2. Init => CachesConsistent
  BY DEF Init, CachesConsistent
<1>3. /\ SafetyInv /\ SafetyInv' /\ CachesConsistent /\ OnceInv /\ AnswerInv /\ [Next]_vars
         => CachesConsistent' /\ OnceInv' /\ AnswerInv'
  BY CachesStep, OnceStep, AnswerStep
<1>4. AnswerInv => StoredByMany
  BY DEF AnswerInv
<1> QED BY <1>1, <1>2, <1>3, <1>4, SafetyInvariant, PTL DEF Spec

-----------------------------------------------------------------------------
(* ViewChangeQuorum, where a batch is proposed once: in the first view a   *)
(* node refuses a batch at most once, and a count is of different nodes.   *)
Accusations(n, d) == {m \in rcvd[n] : m.type = "ViewChange" /\ m.digest = d}
Accusers(n, d) ==
    {m.from : m \in Accusations(n, d)} \cup {q \in {n} : q \in Senders("ViewChange", d)}

FirstBlame ==
    /\ \A a, b \in msgs : a.type = "ViewChange" /\ b.type = "ViewChange"
                            /\ a.digest = b.digest /\ a.from = b.from => a = b
    /\ \A m \in msgs : m.type = "ViewChange" =>
          \E p \in Sent("PrePrepare", m.digest) : p \in rcvd[m.from]
    /\ \A n \in Node, d \in Batch : viewchangeCount[n][d] <= Cardinality(Accusers(n, d))

Deposed == \E d \in Batch : Cardinality(Senders("ViewChange", d)) >= f + 1

BlameInv == (NoNewView => FirstBlame) /\ (NoNewView \/ Deposed)

Refuses(n, m) == Deliver(n, m, "PrePrepare") /\ RefusePrePrepare(n, m)

(* A node blames once more when it refuses, is in another view, or hears.  *)
LEMMA ViewChangeCountMoves ==
    ASSUME TypeOK, StepKind, NEW q \in Node, NEW d \in Batch
    PROVE  \/ viewchangeCount'[q][d] <= viewchangeCount[q][d]
           \/ /\ viewchangeCount'[q][d] = viewchangeCount[q][d] + 1
              /\ \E m \in msgs :
                    /\ m.digest = d
                    /\ \/ handleViewChange(q, m) \/ Refuses(q, m)
                       \/ m.type \in {"Prepare", "Commit"} /\ WrongView(q, m)
<1>0. viewchangeCount \in [Node -> [Batch -> Nat]]
  BY DEF TypeOK, TypeView
<1> DEFINE Less == viewchangeCount'[q][d] <= viewchangeCount[q][d]
           More == viewchangeCount'[q][d] = viewchangeCount[q][d] + 1
<1>1. ASSUME NEW n \in Node, NEW b,
             viewchangeCount' = [viewchangeCount EXCEPT ![n][b] = viewchangeCount[n][b] + 1]
      PROVE  Less \/ (More /\ q = n /\ b = d)
  BY <1>0, <1>1
<1>2. ASSUME UNCHANGED viewchangeCount PROVE Less
  BY <1>0, <1>2
<1>3. ASSUME NEW n \in Node, NEW m \in msgs, handlePrePrepare(n, m)
      PROVE  Less \/ (More /\ q = n /\ m.digest = d /\ Refuses(n, m))
  <2>1. CASE AcceptPrePrepare(n, m)
    BY <1>2, <2>1 DEF AcceptPrePrepare, viewVars
  <2>2. CASE RefusePrePrepare(n, m)
    <3>1. viewchangeCount' = [viewchangeCount EXCEPT ![n][m.digest] =
                                viewchangeCount[n][m.digest] + 1]
      BY <2>2 DEF RefusePrePrepare, handleException
    <3> QED BY <1>1, <1>3, <2>2, <3>1 DEF handlePrePrepare, Refuses
  <2> QED BY <1>3, <2>1, <2>2 DEF handlePrePrepare
<1>4. ASSUME NEW n \in Node, NEW m \in msgs,
             PreparePooled(n, m) \/ CommitPrepared(n, m)
      PROVE  Less \/ (More /\ q = n /\ m.digest = d /\ WrongView(n, m))
  <2>1. CASE WrongView(n, m)
    <3>1. viewchangeCount' = [viewchangeCount EXCEPT ![n][m.digest] =
                                viewchangeCount[n][m.digest] + 1]
      BY <2>1 DEF WrongView, handleException
    <3> QED BY <1>1, <2>1, <3>1
  <2>2. CASE CountPrepare(n, m) \/ CountCommit(n, m)
    BY <1>2, <2>2 DEF CountPrepare, CountCommit, viewVars
  <2> QED BY <1>4, <2>1, <2>2 DEF PreparePooled, CommitPrepared
<1>5. ASSUME NEW n \in Node, NEW m \in msgs, handleViewChange(n, m)
      PROVE  Less \/ (More /\ q = n /\ m.digest = d)
  <2>1. \/ UNCHANGED viewchangeCount
        \/ viewchangeCount' = [viewchangeCount EXCEPT ![n][m.digest] =
                                 viewchangeCount[n][m.digest] + 1]
    BY <1>5 DEF handleViewChange, viewVars
  <2> QED BY <1>1, <1>2, <2>1
<1>6. ASSUME NEW n \in Node, NEW m \in msgs, handleCheckPoint(n, m) PROVE Less
  <2>1. CASE LateCheckPoint(n, m)
    BY <1>2, <2>1 DEF LateCheckPoint, viewVars
  <2>2. CASE deleteCacheMessage(n)
    <3>1. PICK gone : Deletes(n, gone)
      BY <2>2, CachesDeleted
    <3>2. viewchangeCount' = [viewchangeCount EXCEPT ![n] =
             [b \in Batch |-> IF b \in gone THEN 0 ELSE viewchangeCount[n][b]]]
      BY <3>1 DEF Deletes
    <3> QED BY <1>0, <3>2
  <2> QED BY <1>6, <2>1, <2>2 DEF handleCheckPoint, AheadCheckPoint
<1>7. ASSUME NEW n \in Node, restart(n) PROVE Less
  <2>1. viewchangeCount' = [viewchangeCount EXCEPT ![n] = [b \in Batch |-> 0]]
    BY <1>7 DEF restart
  <2> QED BY <1>0, <2>1
<1>8. ASSUME NEW n \in Node, NEW m \in msgs,
             \/ handleReply(n, m) \/ handleUpdata(n, m)
             \/ handleNewdata(n, m) \/ handleNewView(n, m)
      PROVE  UNCHANGED viewchangeCount
  BY <1>8 DEF handleReply, handleUpdata, handleNewdata, handleNewView, viewVars
<1>9. ASSUME Idle \/ \E n \in Node, e \in Batch : handleRequests(n, e)
      PROVE  UNCHANGED viewchangeCount
  BY <1>9 DEF Idle, handleRequests, viewVars
<1> HIDE DEF Less
<1>10. Less \/ (More /\ \E m \in msgs :
          /\ m.digest = d
          /\ \/ handleViewChange(q, m) \/ Refuses(q, m)
             \/ m.type \in {"Prepare", "Commit"} /\ WrongView(q, m))
  BY <1>2, <1>3, <1>4, <1>5, <1>6, <1>7, <1>8, <1>9 DEF StepKind, Vote
<1> QED BY <1>10 DEF Less

(* In the first view no vote is of another one.                            *)
LEMMA NoWrongView ==
    ASSUME FirstView, NEW n \in Node, NEW m \in msgs, m.type \in {"Prepare", "Commit"}
    PROVE  ~WrongView(n, m)
  BY DEF FirstView, WrongView, InView

(* A node that refuses a batch has not blamed it before.                   *)
LEMMA RefusesOnce ==
    ASSUME OnceInv, FirstBlame, NEW n \in Node, NEW m \in msgs, Refuses(n, m)
    PROVE  n \notin Senders("ViewChange", m.digest)
<1> SUFFICES ASSUME NEW y \in Sent("ViewChange", m.digest), y.from = n PROVE FALSE
  BY DEF Senders
<1>1. PICK p \in Sent("PrePrepare", m.digest) : p \in rcvd[n]
  BY DEF FirstBlame, Sent
<1>2. p = m
  BY DEF OnceInv, Refuses, Deliver, Sent
<1> QED BY <1>1, <1>2 DEF Refuses, Deliver

(* The ViewChange of a step, in the first view, is one refusal.            *)
LEMMA OneViewChange ==
    ASSUME SafetyInv, FirstView, [Next]_vars, NEW x \in msgs' \ msgs, x.type = "ViewChange"
    PROVE  \E n \in Node, m \in msgs :
              /\ Refuses(n, m) /\ x.from = n /\ x.digest = m.digest
              /\ \A y \in msgs' \ msgs : y.type = "ViewChange" => y = x
<1>1. PICK n \in Node, m \in msgs : Refuses(n, m) /\ x.from = n /\ x.digest = m.digest
  BY Origins, OriginOfType, NoWrongView DEF FromRefusal, Refuses
<1>2. PICK v : v = ViewChangeMsg(n, nr[n] + 1, m.digest)
  OBVIOUS
<1>3. msgs' \subseteq msgs \cup CatchUpRequest(n, m) \cup {v}
  BY <1>1, <1>2 DEF Refuses, RefusePrePrepare, Send
<1>4. \A y \in msgs' \ msgs : y.type = "ViewChange" => y = v
  BY <1>3, CatchUpIsUpData
<1> QED BY <1>1, <1>4

(* Refusing sends a ViewChange.                                            *)
LEMMA RefusesAloud ==
    ASSUME NEW n \in Node, NEW m \in msgs, Refuses(n, m)
    PROVE  n \in Senders("ViewChange", m.digest)'
<1>1. PICK v : v = ViewChangeMsg(n, nr[n] + 1, m.digest)
  OBVIOUS
<1>2. v.type = "ViewChange" /\ v.from = n /\ v.digest = m.digest
  BY <1>1 DEF ViewChangeMsg
<1>3. v \in msgs'
  BY <1>1 DEF Refuses, RefusePrePrepare, Send
<1> QED BY <1>2, <1>3 DEF Senders, Sent

(* A ViewChange that is handed over accuses in a new name.                 *)
LEMMA NewAccuser ==
    ASSUME TypeNet, FirstBlame, NEW n \in Node, NEW m \in msgs, Deliver(n, m, "ViewChange")
    PROVE  /\ m.from \in Accusers(n, m.digest)' \ Accusers(n, m.digest)
           /\ m.from \in Senders("ViewChange", m.digest)
<1>1. m.type = "ViewChange" /\ m.from # n /\ m \notin rcvd[n] /\ m \in rcvd'[n]
  BY DEF Deliver, TypeNet
<1>2. \A x \in Accusations(n, m.digest) : x.from # m.from
  BY <1>1 DEF FirstBlame, Accusations, TypeNet
<1> QED BY <1>1, <1>2 DEF Accusers, Accusations, Senders, Sent

(* Whoever accuses has sent a ViewChange.                                  *)
LEMMA AccusersSent ==
    ASSUME TypeOK, NEW n \in Node, NEW d
    PROVE  /\ Accusers(n, d) \subseteq Senders("ViewChange", d)
           /\ Senders("ViewChange", d) \in SUBSET Node
<1>1. \A m \in Accusations(n, d) : m \in Sent("ViewChange", d)
  BY DEF TypeOK, TypeNet, Accusations, Sent
<1> QED BY <1>1, SendersAreNodes DEF Accusers, Senders

(* A count of the first view is made of different nodes.                   *)
LEMMA AccusationsCounted ==
    ASSUME SafetyInv, SafetyInv', OnceInv, FirstView, FirstBlame, StepKind,
           msgs \subseteq msgs', NEW n \in Node, NEW d \in Batch, rcvd[n] \subseteq rcvd'[n]
    PROVE  viewchangeCount'[n][d] <= Cardinality(Accusers(n, d)')
<1> DEFINE S == Accusers(n, d)
<1>0. /\ TypeOK /\ TypeOK' /\ TypeNet
      /\ viewchangeCount[n][d] \in Nat /\ viewchangeCount'[n][d] \in Nat
  BY DEF SafetyInv, TypeOK, TypeView
<1>1. S' \in SUBSET Node
  <2>1. \A m \in Accusations(n, d)' : m \in msgs' /\ m.from \in Node
    BY <1>0, MessageFrom DEF Accusations, TypeOK, TypeNet
  <2> QED BY <2>1 DEF Accusers
<1>2. S \subseteq S'
  BY SentStays DEF Accusers, Accusations
<1>3. viewchangeCount[n][d] <= Cardinality(S)
  BY DEF FirstBlame
<1>4. ASSUME NEW m \in msgs, m.digest = d, handleViewChange(n, m)
      PROVE  m.from \in S' \ S
  BY <1>0, <1>4, NewAccuser DEF handleViewChange
<1>5. ASSUME NEW m \in msgs, m.digest = d, Refuses(n, m)
      PROVE  n \in S' \ S
  <2>1. n \notin Senders("ViewChange", d) /\ n \in Senders("ViewChange", d)'
    BY <1>5, RefusesOnce, RefusesAloud
  <2> QED BY <1>0, <2>1, AccusersSent DEF Accusers
<1> HIDE DEF S
<1>6. /\ Cardinality(S) \in Nat /\ Cardinality(S') \in Nat
      /\ Cardinality(S) <= Cardinality(S')
      /\ \A r \in S' \ S : Cardinality(S) + 1 <= Cardinality(S')
  BY <1>1, <1>2, MoreNodes
<1>7. viewchangeCount'[n][d] <= Cardinality(S')
  <2>1. CASE viewchangeCount'[n][d] <= viewchangeCount[n][d]
    BY <1>0, <1>3, <1>6, <2>1
  <2>2. CASE /\ viewchangeCount'[n][d] = viewchangeCount[n][d] + 1
             /\ \E r \in Node : r \in S' \ S
    BY <1>0, <1>3, <1>6, <2>2
  <2> QED BY <1>0, <1>1, <1>4, <1>5, <2>1, <2>2, ViewChangeCountMoves, NoWrongView
<1> QED BY <1>7 DEF S

(* As long as nobody announces a view, FirstBlame is kept.                 *)
LEMMA FirstBlameStep ==
    ASSUME SafetyInv, SafetyInv', OnceInv, FirstView, FirstBlame, [Next]_vars
    PROVE  FirstBlame'
<1>1. StepKind /\ msgs \subseteq msgs' /\ \A q \in Node : rcvd[q] \subseteq rcvd'[q]
  BY StepCases, Origins
<1>2. \A a, b \in msgs' : a.type = "ViewChange" /\ b.type = "ViewChange"
                            /\ a.digest = b.digest /\ a.from = b.from => a = b
  <2>1. ASSUME NEW x \in msgs' \ msgs, x.type = "ViewChange", NEW y \in msgs,
               y.type = "ViewChange", y.digest = x.digest, y.from = x.from
        PROVE  FALSE
    <3>1. x.from \notin Senders("ViewChange", x.digest)
      BY <2>1, OneViewChange, RefusesOnce
    <3> QED BY <2>1, <3>1 DEF Senders, Sent
  <2>2. \A x, y \in msgs' \ msgs :
           x.type = "ViewChange" /\ y.type = "ViewChange" => x = y
    BY OneViewChange
  <2> QED BY <2>1, <2>2 DEF FirstBlame
<1>3. \A m \in msgs' : m.type = "ViewChange" =>
         \E p \in Sent("PrePrepare", m.digest)' : p \in rcvd'[m.from]
  <2>1. ASSUME NEW m \in msgs, m.type = "ViewChange"
        PROVE  \E p \in Sent("PrePrepare", m.digest)' : p \in rcvd'[m.from]
    <3>1. m.from \in Node
      BY MessageFrom DEF SafetyInv, TypeOK, TypeNet
    <3> QED BY <1>1, <2>1, <3>1, SentStays DEF FirstBlame
  <2>2. ASSUME NEW x \in msgs' \ msgs, x.type = "ViewChange"
        PROVE  \E p \in Sent("PrePrepare", x.digest)' : p \in rcvd'[x.from]
    <3>1. PICK n \in Node, m \in msgs : Refuses(n, m) /\ x.from = n /\ x.digest = m.digest
      BY <2>2, OneViewChange
    <3>2. m \in rcvd'[n] /\ m.type = "PrePrepare"
      BY <3>1 DEF Refuses, Deliver, SafetyInv, TypeOK, TypeNet
    <3> QED BY <1>1, <3>1, <3>2 DEF Sent
  <2> QED BY <2>1, <2>2
<1>4. \A n \in Node, d \in Batch : viewchangeCount'[n][d] <= Cardinality(Accusers(n, d)')
  BY <1>1, AccusationsCounted
<1> QED BY <1>2, <1>3, <1>4 DEF FirstBlame

(* The first NewView follows f+1 ViewChanges of different nodes.           *)
LEMMA FirstNewView ==
    ASSUME SafetyInv, FirstBlame, [Next]_vars, NEW x \in msgs' \ msgs, x.type = "NewView"
    PROVE  Deposed
<1>1. PICK n \in Node, m \in msgs :
         /\ Deliver(n, m, "ViewChange")
         /\ EnoughViewChanges(n, m.digest, viewchangeCount[n][m.digest] + 1)
  BY Origins, OriginOfType DEF FromViewChanges
<1>2. TypeOK /\ TypeNet /\ m.digest \in Batch
  BY <1>1, MessageFields DEF SafetyInv, TypeOK, TypeNet, Deliver, ViewChanges
<1> DEFINE S == Accusers(n, m.digest)
           T == Senders("ViewChange", m.digest)
<1>3. S \subseteq T /\ T \in SUBSET Node /\ m.from \in T \ S
  BY <1>1, <1>2, AccusersSent, NewAccuser
<1>4. viewchangeCount[n][m.digest] <= Cardinality(S)
  BY <1>2 DEF FirstBlame
<1>5. viewchangeCount[n][m.digest] \in Nat
  BY <1>2 DEF TypeOK, TypeView
<1> HIDE DEF S, T
<1>6. /\ Cardinality(S) \in Nat /\ Cardinality(T) \in Nat
      /\ Cardinality(S) + 1 <= Cardinality(T)
  BY <1>3, MoreNodes
<1>7. viewchangeCount[n][m.digest] + 1 > f
  BY <1>1 DEF EnoughViewChanges
<1>8. Cardinality(T) >= f + 1
  BY <1>4, <1>5, <1>6, <1>7, NodeFacts
<1> QED BY <1>2, <1>8 DEF T, Deposed

(* Once deposed, a primary remains so.                                     *)
LEMMA DeposedStays ==
    ASSUME TypeOK, TypeOK', msgs \subseteq msgs', Deposed
    PROVE  Deposed'
<1>1. PICK d \in Batch : Cardinality(Senders("ViewChange", d)) >= f + 1
  BY DEF Deposed
<1> DEFINE T == Senders("ViewChange", d)
<1>2. T \subseteq T' /\ T' \in SUBSET Node
  BY SentStays, MessageFrom DEF Senders, Sent, TypeOK, TypeNet
<1> HIDE DEF T
<1>3. Cardinality(T) <= Cardinality(T') /\ Cardinality(T) \in Nat /\ Cardinality(T') \in Nat
  BY <1>2, MoreNodes
<1>4. Cardinality(T) >= f + 1
  BY <1>1 DEF T
<1>5. Cardinality(T') >= f + 1
  BY <1>3, <1>4, NodeFacts
<1> QED BY <1>5 DEF T, Deposed

(* Every step keeps BlameInv.                                              *)
LEMMA BlameStep ==
    ASSUME SafetyInv, SafetyInv', OnceInv, ViewInv, BlameInv, [Next]_vars
    PROVE  BlameInv'
<1>1. msgs \subseteq msgs' /\ TypeOK /\ TypeOK'
  BY Origins DEF SafetyInv
<1>2. CASE ~NoNewView
  <2>1. Deposed'
    BY <1>1, <1>2, DeposedStays DEF BlameInv
  <2>2. ~NoNewView'
    BY <1>1, <1>2 DEF NoNewView
  <2> QED BY <2>1, <2>2 DEF BlameInv
<1>3. CASE NoNewView
  <2>1. FirstView /\ FirstBlame
    BY <1>3 DEF ViewInv, BlameInv
  <2>2. FirstBlame'
    BY <2>1, FirstBlameStep
  <2>3. NoNewView' \/ Deposed'
    <3> SUFFICES ASSUME NEW x \in msgs' \ msgs, x.type = "NewView" PROVE Deposed'
      BY <1>3 DEF NoNewView
    <3> QED BY <1>1, <2>1, FirstNewView, DeposedStays
  <2> QED BY <2>2, <2>3 DEF BlameInv
<1> QED BY <1>2, <1>3

(* Nobody announces a view or leaves the first one unless f+1 different    *)
(* nodes have broadcast ViewChange for one batch, although the count is of *)
(* messages and deleted caches and restarts forget a part of it.           *)
THEOREM ViewChangeQuorumHolds ==
    ASSUME ~Resend PROVE Spec => []ViewChangeQuorum
<1>1. Init => OnceInv /\ ViewInv /\ BlameInv
  <2> SUFFICES ASSUME Init PROVE OnceInv /\ ViewInv /\ BlameInv
    OBVIOUS
  <2>1. \A n \in Node, d \in Batch : Accusers(n, d) = {}
    BY DEF Init, Accusers, Accusations, Senders, Sent
  <2>2. \A n \in Node, d \in Batch : viewchangeCount[n][d] <= Cardinality(Accusers(n, d))
    <3>1. \A n \in Node, d \in Batch : viewchangeCount[n][d] = 0
      BY DEF Init
    <3>2. \A n \in Node, d \in Batch : Cardinality(Accusers(n, d)) = 0
      BY <2>1, FS_EmptySet
    <3> QED BY <3>1, <3>2
  <2>3. msgs = {} /\ M_node = [n \in Node |-> 0]
    BY DEF Init
  <2> QED BY <2>2, <2>3 DEF OnceInv, ViewInv, FirstView, BlameInv, FirstBlame, NoNewView
<1>2. SafetyInv /\ SafetyInv' /\ OnceInv /\ ViewInv /\ BlameInv /\ [Next]_vars
         => OnceInv' /\ ViewInv' /\ BlameInv'
  BY OnceStep, ViewStep, BlameStep
<1>3. ViewInv /\ BlameInv => ViewChangeQuorum
  BY DEF ViewInv, FirstView, BlameInv, Deposed, NoNewView, ViewChangeQuorum
<1> QED BY <1>1, <1>2, <1>3, SafetyInvariant, PTL DEF Spec

-----------------------------------------------------------------------------
(* The refinement of Ledger: which of its actions a step of the nodes is.  *)
ledger == <<proposedBatches, certainBatches, executed, storedBatches>>

(* A step that sends neither proposals nor Commits leaves the first two    *)
(* components of the ledger alone.                                         *)
LEMMA LedgerVotesSame ==
    ASSUME msgs \subseteq msgs',
           \A x \in msgs' \ msgs : x.type \notin {"PrePrepare", "Commit"}
    PROVE  UNCHANGED <<proposedBatches, certainBatches>>
<1>1. \A d : Sent("PrePrepare", d)' = Sent("PrePrepare", d) /\ Sent("Commit", d)' = Sent("Commit", d)
  BY DEF Sent
<1> QED BY <1>1 DEF proposedBatches, certainBatches, Senders

(* The blocks of a node are those of its file.                             *)
LEMMA LedgerBlocksSame == ASSUME UNCHANGED GRToBlock PROVE UNCHANGED storedBatches
  BY DEF storedBatches, Blocks

(* handleRequests proposes.                                                *)
LEMMA LedgerPropose ==
    ASSUME NEW n \in Node, NEW d \in Batch, handleRequests(n, d)
    PROVE  L!Propose(d)
<1>1. PICK p : p = [type |-> "PrePrepare", from |-> n, nr |-> nr[n], digest |-> d,
                    seq |-> sequenceID[n] + 1, view |-> M_node[n]]
  OBVIOUS
<1>2. p.type = "PrePrepare" /\ p.digest = d
  BY <1>1
<1>3. msgs' = msgs \cup {p}
  BY <1>1 DEF handleRequests, Propose, Send
<1>4. \A e \in Batch : Sent("PrePrepare", e)' # {} <=> Sent("PrePrepare", e) # {} \/ e = d
  BY <1>2, <1>3 DEF Sent
<1>5. \A e : Sent("Commit", e)' = Sent("Commit", e)
  BY <1>2, <1>3 DEF Sent
<1>6. proposedBatches' = proposedBatches \cup {d}
  BY <1>4 DEF proposedBatches
<1>7. UNCHANGED certainBatches
  BY <1>5 DEF certainBatches, Senders
<1>8. UNCHANGED <<executed, storedBatches>>
  BY LedgerBlocksSame DEF handleRequests, dbVars
<1> QED BY <1>6, <1>7, <1>8 DEF L!Propose

(* The Commit that completes a quorum makes the batch certain.             *)
LEMMA LedgerCertify ==
    ASSUME SafetyInv, SafetyInv', NEW n \in Node, NEW m \in msgs,
           Vote(n, m, "Prepare"), PreparePooled(n, m)
    PROVE  L!Certify(m.digest) \/ UNCHANGED ledger
<1>0. UNCHANGED <<executed, storedBatches>>
  BY LedgerBlocksSame DEF PreparePooled, CountPrepare, WrongView, roundVars, dbVars
<1>1. CASE \A x \in msgs' \ msgs : x.type \notin {"PrePrepare", "Commit"}
  <2>1. msgs \subseteq msgs'
    BY DEF PreparePooled, CountPrepare, WrongView, Send
  <2> QED BY <1>0, <1>1, <2>1, LedgerVotesSame DEF ledger
<1>2. CASE \E x \in msgs' \ msgs : x.type \in {"PrePrepare", "Commit"}
  <2>1. CountPrepare(n, m)
    BY <1>2 DEF PreparePooled, WrongView, Send, ViewChangeMsg
  <2>2. PICK c : c = [type |-> "Commit", from |-> n, nr |-> nr[n], digest |-> m.digest,
                      seq |-> sequenceID[n], view |-> m.view]
    OBVIOUS
  <2>3. c.type = "Commit" /\ c.digest = m.digest
    BY <2>2
  <2>4. msgs' = msgs \cup {c}
    BY <1>2, <2>1, <2>2 DEF CountPrepare, Send
  <2>5. \A e : Sent("PrePrepare", e)' = Sent("PrePrepare", e)
    BY <2>3, <2>4 DEF Sent
  <2>6. \A e : e # m.digest => Sent("Commit", e)' = Sent("Commit", e)
    BY <2>3, <2>4 DEF Sent
  <2>7. \A e \in Batch : e # m.digest => (Certain(e)' <=> Certain(e))
    BY <2>6 DEF Certain, Senders
  <2>8. Certain(m.digest) => Certain(m.digest)'
    BY <2>4, CertainStays DEF SafetyInv, TypeOK, TypeNet
  <2>9. UNCHANGED proposedBatches
    BY <2>5 DEF proposedBatches
  <2>10. certainBatches = {e \in Batch : Certain(e)}
         /\ certainBatches' = {e \in Batch : Certain(e)'}
    BY DEF certainBatches, Certain
  <2>11. m.digest \in proposedBatches \ Bad
    BY DEF Vote, SafetyInv, PromisesKept, Promise, proposedBatches
  <2>12. CASE Certain(m.digest)'
    <3>1. certainBatches' = certainBatches \cup {m.digest}
      BY <2>7, <2>10, <2>12 DEF Vote
    <3> QED BY <1>0, <2>9, <2>11, <3>1 DEF L!Certify
  <2>13. CASE ~Certain(m.digest)'
    <3>1. certainBatches' = certainBatches
      BY <2>7, <2>8, <2>10, <2>13
    <3> QED BY <1>0, <2>9, <3>1 DEF ledger
  <2> QED BY <2>12, <2>13
<1> QED BY <1>1, <1>2

(* Counting a Commit executes a certain batch or none.                     *)
LEMMA LedgerExecute ==
    ASSUME SafetyInv, SafetyInv', NEW n \in Node, NEW m \in msgs,
           Vote(n, m, "Commit"), CommitPrepared(n, m)
    PROVE  L!Execute(n, m.digest) \/ UNCHANGED ledger
<1>1. UNCHANGED storedBatches
  BY LedgerBlocksSame DEF CommitPrepared, CountCommit, WrongView, dbVars
<1>2. msgs \subseteq msgs'
      /\ \A x \in msgs' \ msgs : x.type \in {"ViewChange", "Reply", "CheckPoint"}
  BY DEF CommitPrepared, CountCommit, WrongView, Execute, Send, ViewChangeMsg
<1>3. UNCHANGED <<proposedBatches, certainBatches>>
  BY <1>2, LedgerVotesSame
<1>4. UNCHANGED executed \/ executed' = [executed EXCEPT ![n] = executed[n] \cup {m.digest}]
  BY DEF CommitPrepared, CountCommit, WrongView, Execute, roundVars
<1>5. ASSUME executed' = [executed EXCEPT ![n] = executed[n] \cup {m.digest}]
      PROVE  L!Execute(n, m.digest)
  <2>1. m.digest \in executed'[n]
    BY <1>5 DEF SafetyInv, TypeOK, TypeRound
  <2>2. Certain(m.digest)'
    BY <2>1 DEF SafetyInv, OutcomesCertain, Outcome
  <2>3. m.digest \in certainBatches'
    BY <2>2 DEF Certain, certainBatches, Vote
  <2> QED BY <1>1, <1>3, <1>5, <2>3 DEF L!Execute
<1> QED BY <1>1, <1>3, <1>4, <1>5 DEF ledger

(* Counting a Reply stores a certain batch that was executed, or none.     *)
LEMMA LedgerStore ==
    ASSUME SafetyInv, NEW n \in Node, NEW m \in msgs, handleReply(n, m)
    PROVE  L!Store(n, m.digest) \/ UNCHANGED ledger
<1>0. /\ TypeOK /\ m.type = "Reply"
      /\ UNCHANGED <<msgs, executed>>
  BY DEF SafetyInv, handleReply, Deliver
<1>1. UNCHANGED <<proposedBatches, certainBatches>>
  BY <1>0, LedgerVotesSame
<1>2. CASE UNCHANGED GRToBlock
  BY <1>0, <1>1, <1>2, LedgerBlocksSame DEF ledger
<1>3. CASE ~UNCHANGED GRToBlock
  <2>1. /\ GRToBlock \in [Node -> Seq(Batch)]
        /\ m.digest \in Batch /\ m.from \in Node
    BY <1>0, MessageFields DEF TypeOK, TypeNet, TypeDb, Replies
  <2>2. GRToBlock' = [GRToBlock EXCEPT ![n] = Append(GRToBlock[n], m.digest)]
    BY <1>3, <2>1 DEF handleReply, handleBlockStorage, dbVars
  <2>3. \A q \in Node : q # n => Blocks(q)' = Blocks(q)
    BY <2>1, <2>2 DEF Blocks
  <2>4. Blocks(n)' = Blocks(n) \cup {m.digest}
    <3>1. GRToBlock'[n] = Append(GRToBlock[n], m.digest) /\ GRToBlock[n] \in Seq(Batch)
      BY <2>1, <2>2
    <3>2. /\ Len(GRToBlock'[n]) = Len(GRToBlock[n]) + 1
          /\ \A i \in 1 .. Len(GRToBlock[n]) : GRToBlock'[n][i] = GRToBlock[n][i]
          /\ GRToBlock'[n][Len(GRToBlock[n]) + 1] = m.digest
          /\ Len(GRToBlock[n]) \in Nat
      BY <2>1, <3>1
    <3> QED BY <3>2 DEF Blocks
  <2>5. storedBatches' = [storedBatches EXCEPT ![n] = storedBatches[n] \cup {m.digest}]
    BY <2>3, <2>4 DEF storedBatches
  <2>6. m.digest \in certainBatches /\ m.digest \in executed[m.from]
    BY <1>0, <2>1 DEF SafetyInv, PromisesKept, Promise, Certain, certainBatches
  <2> QED BY <1>0, <1>1, <2>1, <2>5, <2>6 DEF L!Store
<1> QED BY <1>2, <1>3

(* The other steps are steps of the ledger that change nothing.            *)
LEMMA LedgerStutter ==
    ASSUME NEW n \in Node, NEW m \in msgs,
           \/ handlePrePrepare(n, m) \/ handleCheckPoint(n, m) \/ handleUpdata(n, m)
           \/ handleNewdata(n, m) \/ handleViewChange(n, m) \/ handleNewView(n, m)
    PROVE  UNCHANGED ledger
<1>1. UNCHANGED <<executed, GRToBlock>>
  BY DEF handlePrePrepare, handleCheckPoint, LateCheckPoint, AheadCheckPoint, handleUpdata,
         handleNewdata, handleViewChange, handleNewView, roundVars, dbVars
<1>2. msgs \subseteq msgs'
      /\ \A x \in msgs' \ msgs : x.type \notin {"PrePrepare", "Commit"}
  <2>1. CASE handlePrePrepare(n, m)
    <3>1. /\ msgs \subseteq msgs'
          /\ \A x \in msgs' \ msgs : x \in CatchUpRequest(n, m) \/ x.type \in {"Prepare", "ViewChange"}
      BY <2>1 DEF handlePrePrepare, AcceptPrePrepare, RefusePrePrepare, Send, ViewChangeMsg
    <3> QED BY <3>1, CatchUpIsUpData
  <2>2. CASE handleCheckPoint(n, m)
    BY <2>2 DEF handleCheckPoint, LateCheckPoint, AheadCheckPoint, Send
  <2>3. CASE handleUpdata(n, m)
    <3>1. PICK u : u = [seq |-> m.seq, scp |-> m.scp,
                        batches |-> [i \in 1 .. m.scp - m.seq |-> SeqToGRdigest[n][m.seq + i]]]
      OBVIOUS
    <3>2. \/ UNCHANGED msgs
          \/ msgs' = msgs \cup {[type |-> "NewData", from |-> n, nr |-> nr[n],
                                 to |-> m.from, udc |-> u]}
      BY <2>3, <3>1 DEF handleUpdata, Send
    <3> QED BY <3>2
  <2>4. CASE handleNewdata(n, m) \/ handleNewView(n, m)
    BY <2>4 DEF handleNewdata, handleNewView
  <2>5. CASE handleViewChange(n, m)
    BY <2>5 DEF handleViewChange, Send
  <2> QED BY <2>1, <2>2, <2>3, <2>4, <2>5
<1> QED BY <1>1, <1>2, LedgerVotesSame, LedgerBlocksSame DEF ledger

(* Every behaviour of the nodes is one of the ledger: proposing, reaching  *)
(* the quorum, executing and storing a batch happen in that order, one at  *)
(* a time, at every node, and nothing of it is ever undone.                *)
THEOREM LedgerImplemented == Spec => LedgerSpec
<1>1. Init => L!Init
  <2> SUFFICES ASSUME Init PROVE L!Init
    OBVIOUS
  <2>1. proposedBatches = {}
    BY DEF Init, proposedBatches, Sent
  <2>2. \A d : Senders("Commit", d) = {}
    BY DEF Init, Senders, Sent
  <2>3. certainBatches = {}
    <3>1. \A d : Cardinality(Senders("Commit", d)) = 0
      BY <2>2, FS_EmptySet
    <3>2. ~(0 >= 2 * f + 1)
      BY NodeFacts
    <3> QED BY <3>1, <3>2 DEF certainBatches
  <2>4. storedBatches = [n \in Node |-> {}]
    BY DEF Init, storedBatches, Blocks
  <2> QED BY <2>1, <2>3, <2>4 DEF Init, L!Init
<1>2. SafetyInv /\ SafetyInv' /\ [Next]_vars => [L!Next]_ledger
  <2> SUFFICES ASSUME SafetyInv, SafetyInv', [Next]_vars PROVE L!Next \/ UNCHANGED ledger
    OBVIOUS
  <2>1. StepKind
    BY StepCases
  <2>2. CASE Idle \/ \E n \in Node : restart(n)
    <3>1. UNCHANGED <<msgs, executed, GRToBlock>>
      BY <2>2 DEF Idle, restart, netVars, roundVars, dbVars
    <3> QED BY <3>1, LedgerVotesSame, LedgerBlocksSame DEF ledger
  <2>3. ASSUME NEW n \in Node, NEW m \in msgs,
               \/ Vote(n, m, "Prepare") /\ PreparePooled(n, m)
               \/ Vote(n, m, "Commit") /\ CommitPrepared(n, m)
               \/ handleReply(n, m)
        PROVE  L!Next \/ UNCHANGED ledger
    <3>1. m.digest \in Batch
      BY <2>3, MessageFields DEF Vote, handleReply, Deliver, Replies, SafetyInv, TypeOK, TypeNet
    <3> QED BY <2>3, <3>1, LedgerCertify, LedgerExecute, LedgerStore DEF L!Next
  <2>4. CASE \E n \in Node, d \in Batch : handleRequests(n, d)
    BY <2>4, LedgerPropose DEF L!Next
  <2> QED BY <2>1, <2>2, <2>3, <2>4, LedgerStutter DEF StepKind
<1> QED BY <1>1, <1>2, SafetyInvariant, PTL DEF Spec, LedgerSpec, L!Spec, L!ledgerVars, ledger
=============================================================================
