-------------------------------- MODULE PBFT --------------------------------
(***************************************************************************)
(* The consensus node of TJ_pbft/pbft: `type pbft struct`, the handlers    *)
(* that TCP messages reach through handleRequest, and the `select` at the  *)
(* end of main.                                                            *)
(*                                                                         *)
(* Nodes are 0 .. N-1, the keys of nodeTable.  One process is one node, so *)
(* the package variable M_node (number of the primary) is a variable of    *)
(* each node.  A handler runs to its end in one action; what the goroutines*)
(* of one process can do to each other inside a handler is the subject of  *)
(* QuorumCount and RequestWindow.                                          *)
(*                                                                         *)
(* A batch stands for a []Request and for its digest at once: GetDigest is *)
(* injective on the slices that occur.  `Bad` holds the batches with a     *)
(* client signature that SignatureVerifyClient refuses; node signatures    *)
(* verify exactly against the node that made them.                         *)
(*                                                                         *)
(* Every message is dialled by a goroutine of its own (broadcast), so the  *)
(* network reorders freely and may lose a message (a dial to a stopped     *)
(* process fails and is not retried); it never duplicates one.  `msgs` is  *)
(* everything ever sent, rcvd[n] what n's handlers have been given, and a  *)
(* message that is never put in rcvd[n] is one that n lost.                *)
(***************************************************************************)
EXTENDS Integers, FiniteSets, Sequences

CONSTANTS
    N,              \* nodeCount: number of entries of nodeTable
    K,              \* checkpoint period and length of arrayTodigest
    Batch,          \* batches of client requests
    Bad,            \* those SignatureVerifyClient refuses
    Contact,        \* nodes the clients send their requests to
    Started,        \* the sets of nodes whose processes may run at first
    Resend,         \* may a batch be submitted more than once?
    EarlyDelivery,  \* may a message overtake the one it depends on?
    MaxRounds,      \* bound: rounds of consensus started
    MaxRestarts     \* bound: times a stopped process is started again

Node == 0 .. N - 1
f == (N - 1) \div 3

ASSUME NAssumption == N \in Nat /\ N >= 4
ASSUME KAssumption == K \in Nat /\ K >= 1
ASSUME BatchAssumption == Bad \subseteq Batch
ASSUME NodeAssumption == Contact \subseteq Node /\ Started \subseteq SUBSET Node
ASSUME FlagAssumption == Resend \in BOOLEAN /\ EarlyDelivery \in BOOLEAN
ASSUME BoundAssumption == MaxRounds \in Nat /\ MaxRestarts \in Nat

VARIABLES
    (* network *)
    msgs,                 \* every message ever sent
    rcvd,                 \* rcvd[n]: messages handed to a handler of n
    nr,                   \* nr[n]: number of n's next message (tells copies apart)
    (* process *)
    up,                   \* is n's process running?
    main,                 \* n's main goroutine: parked in select or about to return
    taken,                \* the deferred message its select received, if any
    restarts,             \* restarts so far (bound only)
    (* rounds of consensus; fields of struct pbft *)
    sequenceID, messagePool, arrayTodigest, prePareConfirmCount,
    isCommitBordcast, commitConfirmCount, isReply, replyConfireCount, isMReply,
    localMessagePool,
    (* view change *)
    M_node, viewchangeCount, isViewChange,
    (* checkpoint and catch-up *)
    checkpointCount, newdataCount, isnewdata, arrayToupdata,
    (* boltdb files: survive a restart *)
    SeqToGRdigest, GRToBlock,
    (* history *)
    executed              \* executed[n]: batches n ever put in localMessagePool

netVars   == <<msgs, rcvd, nr>>
procVars  == <<up, main, taken, restarts>>
roundVars == <<sequenceID, messagePool, arrayTodigest, prePareConfirmCount,
               isCommitBordcast, commitConfirmCount, isReply,
               replyConfireCount, isMReply, localMessagePool, executed>>
viewVars  == <<M_node, viewchangeCount, isViewChange>>
ckptVars  == <<checkpointCount, newdataCount, isnewdata, arrayToupdata>>
dbVars    == <<SeqToGRdigest, GRToBlock>>
vars == <<msgs, rcvd, nr, up, main, taken, restarts, sequenceID, messagePool,
          arrayTodigest, prePareConfirmCount, isCommitBordcast,
          commitConfirmCount, isReply, replyConfireCount, isMReply,
          localMessagePool, M_node, viewchangeCount, isViewChange,
          checkpointCount, newdataCount, isnewdata, arrayToupdata,
          SeqToGRdigest, GRToBlock, executed>>

-----------------------------------------------------------------------------
(* Messages of cmd.go.  `nr` numbers the messages of a sender; the requests *)
(* a message carries are given by its digest.                              *)

Empty == "empty"            \* "", the initial content of arrayTodigest

UpDataCounts == [seq : Nat, scp : Nat, batches : Seq(Batch)]

PrePrepares == [type : {"PrePrepare"}, from : Node, nr : Nat,
                digest : Batch, seq : Nat, view : Node]
Prepares    == [type : {"Prepare"}, from : Node, nr : Nat,
                digest : Batch, seq : Nat, view : Node]
Commits     == [type : {"Commit"}, from : Node, nr : Nat,
                digest : Batch, seq : Nat, view : Node]
Replies     == [type : {"Reply"}, from : Node, nr : Nat, to : Node,
                digest : Batch, seq : Nat]
CheckPoints == [type : {"CheckPoint"}, from : Node, nr : Nat, seq : Nat]
UpDatas     == [type : {"UpData"}, from : Node, nr : Nat, seq : Nat, scp : Nat]
NewDatas    == [type : {"NewData"}, from : Node, nr : Nat, to : Node,
                udc : UpDataCounts]
ViewChanges == [type : {"ViewChange"}, from : Node, nr : Nat, digest : Batch]
NewViews    == [type : {"NewView"}, from : Node, nr : Nat, digest : Batch]

Message == PrePrepares \cup Prepares \cup Commits \cup Replies
             \cup CheckPoints \cup UpDatas \cup NewDatas
             \cup ViewChanges \cup NewViews

(* broadcast and tcpDial: a handler sends at most two messages, numbered   *)
(* nr[n] and nr[n] + 1.                                                    *)
Send(n, S) ==
    /\ msgs' = msgs \cup S
    /\ nr' = [nr EXCEPT ![n] = IF S = {} THEN @ ELSE @ + 2]

(* n's listener hands it message m of type t: a broadcast skips its sender, *)
(* a Reply or NewData has one addressee.                                   *)
Deliver(n, m, t) ==
    /\ up[n]
    /\ m.type = t
    /\ m.from # n
    /\ m \notin rcvd[n]
    /\ t \in {"Reply", "NewData"} => m.to = n
    /\ rcvd' = [rcvd EXCEPT ![n] = @ \cup {m}]

-----------------------------------------------------------------------------
(* handleException: count the batch and, when the primary is to blame,     *)
(* broadcast ViewChange.                                                   *)
ViewChangeMsg(n, k, d) ==
    [type |-> "ViewChange", from |-> n, nr |-> k, digest |-> d]

handleException(n, d) ==
    /\ viewchangeCount' = [viewchangeCount EXCEPT ![n][d] = @ + 1]
    /\ UNCHANGED <<M_node, isViewChange>>

(* handleRequests at the end of a request window: pool the batch, take the *)
(* next sequence number, broadcast PrePrepare.  Nothing checks that this   *)
(* node is the primary or that the clients' signatures hold.               *)
FaultyPropose(n, d, s) ==       \* fault: number taken before sequenceIDAdd
    Send(n, {[type |-> "PrePrepare", from |-> n, nr |-> nr[n], digest |-> d,
              seq |-> s - 1, view |-> M_node[n]]})

Propose(n, d, s) ==
    Send(n, {[type |-> "PrePrepare", from |-> n, nr |-> nr[n], digest |-> d,
              seq |-> s, view |-> M_node[n]]})

handleRequests(n, d) ==
    /\ up[n]
    /\ n \in Contact
    /\ Cardinality({m \in msgs : m.type = "PrePrepare"}) < MaxRounds
    /\ ~Resend => \A m \in msgs : m.type = "PrePrepare" => m.digest # d
    /\ messagePool' = [messagePool EXCEPT ![n] = @ \cup {d}]
    /\ arrayTodigest' = [arrayTodigest EXCEPT ![n][sequenceID[n] % K] = d]
    /\ sequenceID' = [sequenceID EXCEPT ![n] = @ + 1]
    /\ Propose(n, d, sequenceID[n] + 1)
    /\ UNCHANGED <<rcvd, procVars, prePareConfirmCount, isCommitBordcast,
                   commitConfirmCount, isReply, replyConfireCount, isMReply,
                   localMessagePool, executed, viewVars, ckptVars, dbVars>>

(* handlePrePrepare.  A gap in the sequence numbers asks the others for    *)
(* the missing batches and does not stop the handler; any sequence number  *)
(* is then adopted, also one below the current one.                        *)
FaultyCatchUpFrom(n, m) ==      \* fault: asks from one batch too early
    IF sequenceID[n] + 1 < m.seq
    THEN {[type |-> "UpData", from |-> n, nr |-> nr[n],
           seq |-> sequenceID[n] - 1, scp |-> m.seq - 1]}
    ELSE {}

FaultyCatchUpTo(n, m) ==        \* fault: asks for one batch too many
    IF sequenceID[n] + 1 < m.seq
    THEN {[type |-> "UpData", from |-> n, nr |-> nr[n],
           seq |-> sequenceID[n], scp |-> m.seq + 1]}
    ELSE {}

CatchUpRequest(n, m) ==
    IF sequenceID[n] + 1 < m.seq
    THEN {[type |-> "UpData", from |-> n, nr |-> nr[n],
           seq |-> sequenceID[n], scp |-> m.seq - 1]}
    ELSE {}

FaultyNoClientCheck(n, m) ==    \* fault: clients' signatures not verified
    m.from = M_node[n] /\ m.view = M_node[n]

FaultySeqCheck(n, m) ==         \* fault: sequence number expected unchanged
    m.from = M_node[n] /\ m.view = M_node[n] /\ m.seq = sequenceID[n]

Acceptable(n, m) ==
    /\ m.from = M_node[n]           \* signed by the primary n knows
    /\ m.digest \notin Bad          \* SignatureVerifyClient
    /\ m.view = M_node[n]

AcceptPrePrepare(n, m) ==
    /\ Acceptable(n, m)
    /\ messagePool' = [messagePool EXCEPT ![n] = @ \cup {m.digest}]
    /\ arrayTodigest' =
         [arrayTodigest EXCEPT ![n][sequenceID[n] % K] = m.digest]
    /\ sequenceID' = [sequenceID EXCEPT ![n] = m.seq]
    /\ Send(n, CatchUpRequest(n, m) \cup
               {[type |-> "Prepare", from |-> n, nr |-> nr[n] + 1,
                 digest |-> m.digest, seq |-> m.seq, view |-> m.view]})
    /\ UNCHANGED viewVars

RefusePrePrepare(n, m) ==
    /\ ~Acceptable(n, m)
    /\ handleException(n, m.digest)
    /\ Send(n, CatchUpRequest(n, m)
                 \cup {ViewChangeMsg(n, nr[n] + 1, m.digest)})
    /\ UNCHANGED <<messagePool, arrayTodigest, sequenceID>>

handlePrePrepare(n, m) ==
    /\ Deliver(n, m, "PrePrepare")
    /\ AcceptPrePrepare(n, m) \/ RefusePrePrepare(n, m)
    /\ UNCHANGED <<procVars, prePareConfirmCount, isCommitBordcast,
                   commitConfirmCount, isReply, replyConfireCount, isMReply,
                   localMessagePool, executed, ckptVars, dbVars>>

FaultyInView(n, m) == m.view \in Node      \* fault: view not compared

InView(n, m) == m.view = M_node[n]

(* A message for another view.  The handlers of Prepare and Commit blame   *)
(* the primary only when it is the sender.                                 *)
WrongView(n, m) ==
    /\ ~InView(n, m)
    /\ handleException(n, m.digest)
    /\ Send(n, IF m.from = M_node[n]
               THEN {ViewChangeMsg(n, nr[n], m.digest)} ELSE {})
    /\ UNCHANGED <<roundVars, ckptVars, dbVars>>

(* handlePrepare, batch pooled.  The primary has sent no Prepare itself    *)
(* and needs 2f of them, another node one less than that.                  *)
FaultyForgetOwn(n) == (N \div 3) * 2      \* fault: own Prepare not credited
FaultyCreditAll(n) == (N \div 3) * 2 - 1  \* fault: primary credited with one

specifiedCount(n) ==
    IF n = M_node[n] THEN (N \div 3) * 2 ELSE (N \div 3) * 2 - 1

EnoughPrepares(n, received) == Cardinality(received) >= specifiedCount(n)

CountPrepare(n, m) ==
    /\ InView(n, m)
    /\ prePareConfirmCount' =
         [prePareConfirmCount EXCEPT ![n][m.digest] = @ \cup {m.from}]
    /\ IF /\ EnoughPrepares(n, prePareConfirmCount'[n][m.digest])
          /\ m.digest \notin isCommitBordcast[n]
       THEN /\ Send(n, {[type |-> "Commit", from |-> n, nr |-> nr[n],
                         digest |-> m.digest, seq |-> sequenceID[n],
                         view |-> m.view]})
            /\ isCommitBordcast' =
                 [isCommitBordcast EXCEPT ![n] = @ \cup {m.digest}]
       ELSE UNCHANGED <<msgs, nr, isCommitBordcast>>
    /\ UNCHANGED <<sequenceID, messagePool, arrayTodigest, commitConfirmCount,
                   isReply, replyConfireCount, isMReply, localMessagePool,
                   executed, viewVars, ckptVars, dbVars>>

PreparePooled(n, m) ==
    /\ m.digest \in messagePool[n]
    /\ CountPrepare(n, m) \/ WrongView(n, m)

(* handleCommit, some Prepare of the batch already counted.  2f Commits of *)
(* others, own Commit sent, not answered yet: execute the batch and answer *)
(* the primary with the sequence number of the Commit at hand.  The test   *)
(* is made only here, on the arrival of a Commit.                          *)
Execute(n, m) ==
    /\ isReply' = [isReply EXCEPT ![n] = @ \cup {m.digest}]
    /\ localMessagePool' = [localMessagePool EXCEPT ![n] = @ \cup {m.digest}]
    /\ executed' = [executed EXCEPT ![n] = @ \cup {m.digest}]
    /\ Send(n,
         (IF n = M_node[n] THEN {}
          ELSE {[type |-> "Reply", from |-> n, nr |-> nr[n], to |-> M_node[n],
                 digest |-> m.digest, seq |-> m.seq]})
         \cup
         (IF sequenceID[n] % K = 0
          THEN {[type |-> "CheckPoint", from |-> n, nr |-> nr[n] + 1,
                 seq |-> sequenceID[n]]}
          ELSE {}))
    /\ replyConfireCount' = IF n = M_node[n]
                            THEN [replyConfireCount EXCEPT ![n][m.digest] = @ + 1]
                            ELSE replyConfireCount

FaultyEnoughCommits(n, d, received) ==     \* fault: own Commit not awaited
    Cardinality(received) >= 2 * f /\ d \notin isReply[n]

EnoughCommits(n, d, received) ==
    /\ Cardinality(received) >= 2 * f
    /\ d \notin isReply[n]
    /\ d \in isCommitBordcast[n]

CountCommit(n, m) ==
    /\ InView(n, m)
    /\ commitConfirmCount' =
         [commitConfirmCount EXCEPT ![n][m.digest] = @ \cup {m.from}]
    /\ IF EnoughCommits(n, m.digest, commitConfirmCount'[n][m.digest])
       THEN Execute(n, m)
       ELSE UNCHANGED <<isReply, localMessagePool, executed, msgs, nr,
                        replyConfireCount>>
    /\ UNCHANGED <<sequenceID, messagePool, arrayTodigest, prePareConfirmCount,
                   isCommitBordcast, isMReply, viewVars, ckptVars, dbVars>>

Prepared(n, d) == prePareConfirmCount[n][d] # {}

CommitPrepared(n, m) ==
    /\ Prepared(n, m.digest)
    /\ CountCommit(n, m) \/ WrongView(n, m)

(* preMessageChan <- content and comMessageChan <- content: main, parked   *)
(* in select, receives the first message put in any of the channels;       *)
(* nobody receives a later one.                                            *)
DeferToMain(n, m) ==
    /\ EarlyDelivery
    /\ taken' = [taken EXCEPT ![n] =
                    IF @ = {} /\ main[n] = "select" THEN {m} ELSE @]
    /\ UNCHANGED <<msgs, nr, up, main, restarts, roundVars, viewVars, ckptVars, dbVars>>

handlePrepare(n, m) ==
    /\ Deliver(n, m, "Prepare")
    /\ \/ PreparePooled(n, m) /\ UNCHANGED procVars
       \/ m.digest \notin messagePool[n] /\ DeferToMain(n, m)

handleCommit(n, m) ==
    /\ Deliver(n, m, "Commit")
    /\ \/ CommitPrepared(n, m) /\ UNCHANGED procVars
       \/ ~Prepared(n, m.digest) /\ DeferToMain(n, m)

(* The select of main: main runs the handler on the message it took; a     *)
(* message deferred again goes back to a channel nobody reads any more.    *)
mainSelect(n) ==
    /\ up[n]
    /\ main' = [main EXCEPT ![n] = "return"]
    /\ taken' = [taken EXCEPT ![n] = {}]
    /\ \E m \in taken[n] :
       \/ m.type = "Prepare" /\ PreparePooled(n, m)
       \/ m.type = "Commit" /\ CommitPrepared(n, m)
       \/ /\ \/ m.type = "Prepare" /\ m.digest \notin messagePool[n]
             \/ m.type = "Commit" /\ ~Prepared(n, m.digest)
          /\ UNCHANGED <<msgs, nr, roundVars, viewVars, ckptVars, dbVars>>
    /\ UNCHANGED <<rcvd, up, restarts>>

(* The select is not in a loop: main returns and the process ends.         *)
mainReturn(n) ==
    /\ up[n]
    /\ main[n] = "return"
    /\ up' = [up EXCEPT ![n] = FALSE]
    /\ UNCHANGED <<netVars, main, taken, restarts, roundVars, viewVars, ckptVars, dbVars>>

-----------------------------------------------------------------------------
(* handleReply, at the node the replica takes for the primary.  Replies    *)
(* are counted, not their senders; beyond f of them the batch is stored.   *)
Put(table, k, v) == [x \in DOMAIN table \cup {k} |-> IF x = k THEN v ELSE table[x]]

(* handleBlockStorage: index by the sequence number of the Reply at hand,  *)
(* append the block unless the isinfo bucket knows it.                     *)
handleBlockStorage(n, d, s) ==
    /\ SeqToGRdigest' = [SeqToGRdigest EXCEPT ![n] = Put(@, s, d)]
    /\ GRToBlock' =
         [GRToBlock EXCEPT ![n] = IF \E i \in 1 .. Len(@) : @[i] = d
                                  THEN @ ELSE Append(@, d)]

FaultyOneReply(n, d, count) ==             \* fault: >= for >
    count >= f /\ d \notin isMReply[n]
FaultyManyReplies(n, d, count) ==          \* fault: waits for 2f+1
    count > 2 * f /\ d \notin isMReply[n]

EnoughReplies(n, d, count) == count > f /\ d \notin isMReply[n]

handleReply(n, m) ==
    /\ Deliver(n, m, "Reply")
    /\ replyConfireCount' = [replyConfireCount EXCEPT ![n][m.digest] = @ + 1]
    /\ IF EnoughReplies(n, m.digest, replyConfireCount[n][m.digest] + 1)
       THEN /\ isMReply' = [isMReply EXCEPT ![n] = @ \cup {m.digest}]
            /\ handleBlockStorage(n, m.digest, m.seq)
       ELSE UNCHANGED <<isMReply, dbVars>>
    /\ UNCHANGED <<msgs, nr, procVars, sequenceID, messagePool, arrayTodigest,
                   prePareConfirmCount, isCommitBordcast, commitConfirmCount,
                   isReply, localMessagePool, executed, viewVars, ckptVars>>

-----------------------------------------------------------------------------
(* deleteCacheMessage: forget whatever arrayTodigest and arrayToupdata     *)
(* name, finished or not.                                                  *)
Remembered(array) == {array[i] : i \in DOMAIN array}

FaultyForgetAnswers(n, gone) ==            \* fault: isReply not cleared
    isMReply' = [isMReply EXCEPT ![n] = @ \ gone] /\ UNCHANGED isReply

ForgetAnswers(n, gone) ==
    /\ isReply' = [isReply EXCEPT ![n] = @ \ gone]
    /\ isMReply' = [isMReply EXCEPT ![n] = @ \ gone]

deleteCacheMessage(n) ==
    LET gone == Remembered(arrayTodigest[n])
        stale == UNION Remembered(arrayToupdata[n])
        Wiped(counts, zero) == [d \in Batch |-> IF d \in gone THEN zero ELSE counts[d]]
    IN
    /\ messagePool' = [messagePool EXCEPT ![n] = @ \ gone]
    /\ prePareConfirmCount' = [prePareConfirmCount EXCEPT ![n] = Wiped(@, {})]
    /\ commitConfirmCount' = [commitConfirmCount EXCEPT ![n] = Wiped(@, {})]
    /\ replyConfireCount' = [replyConfireCount EXCEPT ![n] = Wiped(@, 0)]
    /\ viewchangeCount' = [viewchangeCount EXCEPT ![n] = Wiped(@, 0)]
    /\ isCommitBordcast' = [isCommitBordcast EXCEPT ![n] = @ \ gone]
    /\ ForgetAnswers(n, gone)
    /\ isViewChange' = [isViewChange EXCEPT ![n] = @ \ gone]
    /\ newdataCount' = [newdataCount EXCEPT ![n] = {m \in @ : m.udc \notin stale}]
    /\ isnewdata' = [isnewdata EXCEPT ![n] = @ \ stale]

(* handleCheckPoint.  checkpointCount[n][q] = 0 says that q has no entry.  *)
Reporters(counts) == {q \in Node : counts[q] # 0}

(* chkptArray[len(chkptArray)-f-1] after sort.Ints *)
SupportedCheckpoint(counts) ==
    CHOOSE v \in {counts[q] : q \in Reporters(counts)} :
        /\ Cardinality({q \in Node : counts[q] >= v}) >= f + 1
        /\ \A w \in {counts[q] : q \in Reporters(counts)} :
              Cardinality({q \in Node : counts[q] >= w}) >= f + 1 => w <= v

LateCheckPoint(n, m) ==
    /\ m.seq <= sequenceID[n]
    /\ checkpointCount' = [checkpointCount EXCEPT ![n][m.from] = 0]
    /\ UNCHANGED <<msgs, nr, roundVars, viewVars, newdataCount, isnewdata,
                   arrayToupdata>>

AheadCheckPoint(n, m) ==
    /\ m.seq > sequenceID[n]
    /\ LET counts == [checkpointCount[n] EXCEPT ![m.from] = m.seq]
           enough == Cardinality(Reporters(counts)) > f
           scp == SupportedCheckpoint(counts)
       IN /\ checkpointCount' =
               [checkpointCount EXCEPT ![n] =
                  [q \in Node |-> IF enough /\ counts[q] <= sequenceID[n]
                                  THEN 0 ELSE counts[q]]]
          /\ Send(n, IF enough /\ scp > sequenceID[n]
                     THEN {[type |-> "UpData", from |-> n, nr |-> nr[n],
                            seq |-> sequenceID[n], scp |-> scp]}
                     ELSE {})
    /\ deleteCacheMessage(n)
    /\ UNCHANGED <<sequenceID, arrayTodigest, localMessagePool, executed,
                   M_node, arrayToupdata>>

handleCheckPoint(n, m) ==
    /\ Deliver(n, m, "CheckPoint")
    /\ LateCheckPoint(n, m) \/ AheadCheckPoint(n, m)
    /\ UNCHANGED <<procVars, dbVars>>

(* handleUpdata: answer with the batches of the range when all of them are *)
(* in the database.  A missing one makes Unmarshal panic on nil, which     *)
(* handleCecover swallows: no answer.                                      *)
handleUpdata(n, m) ==
    /\ Deliver(n, m, "UpData")
    /\ IF /\ sequenceID[n] >= m.scp
          /\ m.seq + 1 .. m.scp \subseteq DOMAIN SeqToGRdigest[n]
       THEN Send(n, {[type |-> "NewData", from |-> n, nr |-> nr[n], to |-> m.from,
                      udc |-> [seq |-> m.seq, scp |-> m.scp,
                               batches |-> [i \in 1 .. m.scp - m.seq |->
                                              SeqToGRdigest[n][m.seq + i]]]]})
       ELSE UNCHANGED <<msgs, nr>>
    /\ UNCHANGED <<procVars, roundVars, viewVars, ckptVars, dbVars>>

(* handleNewdata.  newdataCount holds the NewData messages counted, where  *)
(* the code has a number per content.  The index written is computed from  *)
(* the low watermark p.h, which is 0 for ever (moveWatermarks has no       *)
(* caller): the i-th of len batches goes to key i - len.                   *)
CountNewdata(n, m) ==
    LET counted == newdataCount[n] \cup {m}
        len == Len(m.udc.batches)
        Indexed(table) == [k \in DOMAIN table \cup (1 - len .. 0) |->
                             IF k \in 1 - len .. 0 THEN m.udc.batches[k + len]
                             ELSE table[k]]
    IN
    /\ newdataCount' = [newdataCount EXCEPT ![n] = counted]
    /\ arrayToupdata' = [arrayToupdata EXCEPT ![n][sequenceID[n] % K] = {m.udc}]
    /\ IF /\ Cardinality({x \in counted : x.udc = m.udc}) > 2 * f
          /\ m.udc \notin isnewdata[n]
       THEN /\ SeqToGRdigest' = [SeqToGRdigest EXCEPT ![n] = Indexed(@)]
            /\ isnewdata' = [isnewdata EXCEPT ![n] = @ \cup {m.udc}]
            /\ sequenceID' = [sequenceID EXCEPT ![n] = m.udc.scp]
       ELSE UNCHANGED <<SeqToGRdigest, isnewdata, sequenceID>>

handleNewdata(n, m) ==
    /\ Deliver(n, m, "NewData")
    /\ CountNewdata(n, m)
    /\ UNCHANGED <<msgs, nr, procVars, messagePool, arrayTodigest,
                   prePareConfirmCount, isCommitBordcast, commitConfirmCount,
                   isReply, replyConfireCount, isMReply, localMessagePool,
                   executed, viewVars, checkpointCount, GRToBlock>>

-----------------------------------------------------------------------------
NextPrimary(n) == (M_node[n] + 1) % N

(* handleViewChange: only the next primary listens.  More than f reports,  *)
(* its own included, make it announce the view, enter it and drop the      *)
(* batch from its pool of committed requests.                              *)
FaultyEnterView(n, d) ==                   \* fault: M_node not advanced
    /\ isViewChange' = [isViewChange EXCEPT ![n] = @ \cup {d}]
    /\ UNCHANGED M_node

EnterView(n, d) ==
    /\ isViewChange' = [isViewChange EXCEPT ![n] = @ \cup {d}]
    /\ M_node' = [M_node EXCEPT ![n] = NextPrimary(n)]

FaultyOneViewChange(n, d, count) ==        \* fault: >= for >
    count >= f /\ d \notin isViewChange[n]

EnoughViewChanges(n, d, count) == count > f /\ d \notin isViewChange[n]

handleViewChange(n, m) ==
    /\ Deliver(n, m, "ViewChange")
    /\ \/ /\ n # NextPrimary(n)
          /\ UNCHANGED <<msgs, nr, viewVars, localMessagePool>>
       \/ /\ n = NextPrimary(n)
          /\ viewchangeCount' = [viewchangeCount EXCEPT ![n][m.digest] = @ + 1]
          /\ IF EnoughViewChanges(n, m.digest, viewchangeCount[n][m.digest] + 1)
             THEN /\ EnterView(n, m.digest)
                  /\ Send(n, {[type |-> "NewView", from |-> n, nr |-> nr[n],
                               digest |-> m.digest]})
                  /\ localMessagePool' =
                       [localMessagePool EXCEPT ![n] = @ \ {m.digest}]
             ELSE UNCHANGED <<isViewChange, M_node, msgs, nr, localMessagePool>>
    /\ UNCHANGED <<procVars, sequenceID, messagePool, arrayTodigest,
                   prePareConfirmCount, isCommitBordcast, commitConfirmCount,
                   isReply, replyConfireCount, isMReply, executed, ckptVars,
                   dbVars>>

(* handleNewView: whoever sent it, whatever view it was meant for.         *)
handleNewView(n, m) ==
    /\ Deliver(n, m, "NewView")
    /\ IF m.digest \in isViewChange[n]
       THEN UNCHANGED <<isViewChange, M_node, localMessagePool>>
       ELSE /\ localMessagePool' =
                 [localMessagePool EXCEPT ![n] = @ \ {m.digest}]
            /\ IF n # NextPrimary(n)
               THEN EnterView(n, m.digest)
               ELSE UNCHANGED <<isViewChange, M_node>>
    /\ UNCHANGED <<msgs, nr, procVars, viewchangeCount, sequenceID, messagePool,
                   arrayTodigest, prePareConfirmCount, isCommitBordcast,
                   commitConfirmCount, isReply, replyConfireCount, isMReply,
                   executed, ckptVars, dbVars>>

-----------------------------------------------------------------------------
(* The process, stopped by mainReturn or from outside, is started again:   *)
(* NewPBFT and the package variables; only the boltdb files are kept.      *)
restart(n) ==
    /\ n \in UNION Started
    /\ restarts < MaxRestarts
    /\ restarts' = restarts + 1
    /\ up' = [up EXCEPT ![n] = TRUE]
    /\ main' = [main EXCEPT ![n] = "select"]
    /\ taken' = [taken EXCEPT ![n] = {}]
    /\ sequenceID' = [sequenceID EXCEPT ![n] = 0]
    /\ messagePool' = [messagePool EXCEPT ![n] = {}]
    /\ arrayTodigest' = [arrayTodigest EXCEPT ![n] = [i \in 0 .. K - 1 |-> Empty]]
    /\ prePareConfirmCount' = [prePareConfirmCount EXCEPT ![n] = [d \in Batch |-> {}]]
    /\ isCommitBordcast' = [isCommitBordcast EXCEPT ![n] = {}]
    /\ commitConfirmCount' = [commitConfirmCount EXCEPT ![n] = [d \in Batch |-> {}]]
    /\ isReply' = [isReply EXCEPT ![n] = {}]
    /\ replyConfireCount' = [replyConfireCount EXCEPT ![n] = [d \in Batch |-> 0]]
    /\ isMReply' = [isMReply EXCEPT ![n] = {}]
    /\ localMessagePool' = [localMessagePool EXCEPT ![n] = {}]
    /\ M_node' = [M_node EXCEPT ![n] = 0]
    /\ viewchangeCount' = [viewchangeCount EXCEPT ![n] = [d \in Batch |-> 0]]
    /\ isViewChange' = [isViewChange EXCEPT ![n] = {}]
    /\ checkpointCount' = [checkpointCount EXCEPT ![n] = [q \in Node |-> 0]]
    /\ newdataCount' = [newdataCount EXCEPT ![n] = {}]
    /\ isnewdata' = [isnewdata EXCEPT ![n] = {}]
    /\ arrayToupdata' = [arrayToupdata EXCEPT ![n] = [i \in 0 .. K - 1 |-> {}]]
    /\ UNCHANGED <<netVars, dbVars, executed>>

Init ==
    /\ msgs = {}
    /\ rcvd = [n \in Node |-> {}]
    /\ nr = [n \in Node |-> 0]
    /\ \E S \in Started : up = [n \in Node |-> n \in S]
    /\ main = [n \in Node |-> "select"]
    /\ taken = [n \in Node |-> {}]
    /\ restarts = 0
    /\ sequenceID = [n \in Node |-> 0]
    /\ messagePool = [n \in Node |-> {}]
    /\ arrayTodigest = [n \in Node |-> [i \in 0 .. K - 1 |-> Empty]]
    /\ prePareConfirmCount = [n \in Node |-> [d \in Batch |-> {}]]
    /\ isCommitBordcast = [n \in Node |-> {}]
    /\ commitConfirmCount = [n \in Node |-> [d \in Batch |-> {}]]
    /\ isReply = [n \in Node |-> {}]
    /\ replyConfireCount = [n \in Node |-> [d \in Batch |-> 0]]
    /\ isMReply = [n \in Node |-> {}]
    /\ localMessagePool = [n \in Node |-> {}]
    /\ M_node = [n \in Node |-> 0]
    /\ viewchangeCount = [n \in Node |-> [d \in Batch |-> 0]]
    /\ isViewChange = [n \in Node |-> {}]
    /\ checkpointCount = [n \in Node |-> [q \in Node |-> 0]]
    /\ newdataCount = [n \in Node |-> {}]
    /\ isnewdata = [n \in Node |-> {}]
    /\ arrayToupdata = [n \in Node |-> [i \in 0 .. K - 1 |-> {}]]
    /\ SeqToGRdigest = [n \in Node |-> <<>>]
    /\ GRToBlock = [n \in Node |-> <<>>]
    /\ executed = [n \in Node |-> {}]

(* handleRequest: the handler of the message's command.                    *)
handleRequest(n, m) ==
    \/ handlePrePrepare(n, m)
    \/ handlePrepare(n, m)
    \/ handleCommit(n, m)
    \/ handleReply(n, m)
    \/ handleCheckPoint(n, m)
    \/ handleUpdata(n, m)
    \/ handleNewdata(n, m)
    \/ handleViewChange(n, m)
    \/ handleNewView(n, m)

Next ==
    \/ \E n \in Node, d \in Batch : handleRequests(n, d)
    \/ \E n \in Node, m \in msgs : handleRequest(n, m)
    \/ \E n \in Node : mainSelect(n) \/ mainReturn(n) \/ restart(n)

Spec == Init /\ [][Next]_vars

-----------------------------------------------------------------------------
(* The types of the node's fields, of the messages and of the database.    *)
TypeNet ==
    /\ msgs \subseteq Message
    /\ rcvd \in [Node -> SUBSET msgs]
    /\ nr \in [Node -> Nat]

TypeProc ==
    /\ up \in [Node -> BOOLEAN]
    /\ main \in [Node -> {"select", "return"}]
    /\ taken \in [Node -> SUBSET {m \in msgs : m.type \in {"Prepare", "Commit"}}]
    /\ restarts \in Nat

TypeRound ==
    /\ sequenceID \in [Node -> Nat]
    /\ messagePool \in [Node -> SUBSET Batch]
    /\ arrayTodigest \in [Node -> [0 .. K - 1 -> Batch \cup {Empty}]]
    /\ prePareConfirmCount \in [Node -> [Batch -> SUBSET Node]]
    /\ isCommitBordcast \in [Node -> SUBSET Batch]
    /\ commitConfirmCount \in [Node -> [Batch -> SUBSET Node]]
    /\ isReply \in [Node -> SUBSET Batch]
    /\ replyConfireCount \in [Node -> [Batch -> Nat]]
    /\ isMReply \in [Node -> SUBSET Batch]
    /\ localMessagePool \in [Node -> SUBSET Batch]
    /\ executed \in [Node -> SUBSET Batch]

TypeView ==
    /\ M_node \in [Node -> Node]
    /\ viewchangeCount \in [Node -> [Batch -> Nat]]
    /\ isViewChange \in [Node -> SUBSET Batch]

TypeCkpt ==
    /\ checkpointCount \in [Node -> [Node -> Nat]]
    /\ newdataCount \in [Node -> SUBSET {m \in msgs : m.type = "NewData"}]
    /\ isnewdata \in [Node -> SUBSET UpDataCounts]
    /\ arrayToupdata \in [Node -> [0 .. K - 1 -> SUBSET UpDataCounts]]

TypeDb ==
    /\ DOMAIN SeqToGRdigest = Node
    /\ \A n \in Node : \A s \in DOMAIN SeqToGRdigest[n] :
          s \in Int /\ SeqToGRdigest[n][s] \in Batch
    /\ GRToBlock \in [Node -> Seq(Batch)]

TypeOK == TypeNet /\ TypeProc /\ TypeRound /\ TypeView /\ TypeCkpt /\ TypeDb

-----------------------------------------------------------------------------
Sent(t, d) == {m \in msgs : m.type = t /\ m.digest = d}
Senders(t, d) == {m.from : m \in Sent(t, d)}
Blocks(n) == {GRToBlock[n][i] : i \in 1 .. Len(GRToBlock[n])}
Indexed(n) == {SeqToGRdigest[n][s] : s \in DOMAIN SeqToGRdigest[n]}

(* Nobody executes, answers for, stores or indexes a batch unless 2f+1     *)
(* nodes have broadcast a Commit for it (the quorum handleCommit counts,   *)
(* its own Commit included), across cache deletion, view changes, catch-up *)
(* and restarts.                                                           *)
CommitQuorum ==
    \A n \in Node, d \in Batch :
        d \in executed[n] \cup isReply[n] \cup isMReply[n] \cup Blocks(n)
                \cup Indexed(n)
            => Cardinality(Senders("Commit", d)) >= 2 * f + 1

(* A batch with a refused client signature gets no further than the        *)
(* primary that proposed it: handleRequests never looks at the signature,  *)
(* so the quorums are what keeps it out.                                   *)
BadNeverCommitted ==
    \A d \in Bad :
        /\ Senders("Prepare", d) \cup Senders("Commit", d) = {}
        /\ \A n \in Node : d \notin executed[n] \cup Blocks(n)

(* handlePrepare's quorum: once a Commit for a batch is out, 2f nodes have *)
(* broadcast a Prepare for it, whichever of the two thresholds the         *)
(* committing node applied.                                                *)
PrepareQuorum ==
    \A d \in Batch :
        Senders("Commit", d) # {} => Cardinality(Senders("Prepare", d)) >= 2 * f

(* handleReply counts answers, not nodes; still f+1 different nodes have   *)
(* executed a batch by the time it is stored.                              *)
StoredByMany ==
    \A n \in Node : \A d \in Blocks(n) :
        Cardinality({q \in Node : d \in executed[q]}) >= f + 1

(* As long as every batch is properly signed and clients talk to node 0    *)
(* only, loss and reordering alone never make a node leave view 0.         *)
QuietView ==
    Bad = {} /\ Contact \subseteq {0} => \A n \in Node : M_node[n] = 0

(* Nobody announces a view or leaves the first one unless f+1 different    *)
(* nodes have broadcast ViewChange for one and the same batch, although    *)
(* handleViewChange counts messages and not their senders.                 *)
ViewChangeQuorum ==
    (\E m \in msgs : m.type = "NewView") \/ (\E n \in Node : M_node[n] # 0)
        => \E d \in Batch : Cardinality(Senders("ViewChange", d)) >= f + 1

(* No sequence number comes from nowhere: what a node has reached, what a  *)
(* checkpoint reports and what a lagging node asks for or adopts was       *)
(* reached by some PrePrepare.                                             *)
Proposed(s) == \E m \in msgs : m.type = "PrePrepare" /\ s <= m.seq

SequenceProposed ==
    /\ \A n \in Node : sequenceID[n] > 0 => Proposed(sequenceID[n])
    /\ \A m \in msgs : m.type = "CheckPoint" /\ m.seq > 0 => Proposed(m.seq)
    /\ \A m \in msgs : m.type = "UpData" => m.seq < m.scp /\ Proposed(m.scp)

(* The content of the caches is consistent: what has been prepared,        *)
(* committed or answered under a digest is about a pooled batch, also      *)
(* after deleteCacheMessage has forgotten a part of the batches.           *)
CachesConsistent ==
    \A n \in Node, d \in Batch :
        /\ prePareConfirmCount[n][d] # {} => d \in messagePool[n]
        /\ commitConfirmCount[n][d] # {} => prePareConfirmCount[n][d] # {}
        /\ d \in isCommitBordcast[n] => prePareConfirmCount[n][d] # {}
        /\ d \in isReply[n] => d \in isCommitBordcast[n]

(* Where every batch is proposed once, a node executes a batch only while  *)
(* it is in the view of the batch's PrePrepare: no Commit that is still on *)
(* its way completes a quorum after the node has moved on.                 *)
ExecutedInItsView ==
    [][\A n \in Node : \A d \in executed'[n] \ executed[n] :
          \A m \in Sent("PrePrepare", d) : m.view = M_node[n]]_vars

-----------------------------------------------------------------------------
(* What the repository says and the code does not keep.                    *)

(* main.go:91 "... prevents the main program from exiting": a node that    *)
(* was started keeps running.                                              *)
MainKeepsRunning == [][\A n \in Node : up[n] => up'[n]]_vars

(* readme.txt:4 "SeqToGRdigest ... (sequence->GR.digest)": the batch found *)
(* under a sequence number is the one proposed with it.                    *)
IndexFollowsProposal ==
    \A n \in Node : \A s \in DOMAIN SeqToGRdigest[n] :
        \E m \in Sent("PrePrepare", SeqToGRdigest[n][s]) : m.seq = s

(* pbft.go:49 "replyConfireCount (at least 2f+1 received and confirmed)":  *)
(* a stored batch has been executed by 2f+1 nodes.                         *)
StoredByQuorum ==
    \A n \in Node : \A d \in Blocks(n) :
        Cardinality({q \in Node : d \in executed[q]}) >= 2 * f + 1

(* pbft.go:953 "first write the digest under its sequence number into      *)
(* table 2": after a catch-up the node finds every batch it was sent.      *)
CatchUpIndexed ==
    \A n \in Node : \A u \in isnewdata[n] : \A i \in 1 .. Len(u.batches) :
        /\ u.seq + i \in DOMAIN SeqToGRdigest[n]
        /\ SeqToGRdigest[n][u.seq + i] = u.batches[i]

(* pbft.go:1265 "delete the requests without consensus from the local      *)
(* pool": a view change leaves executed batches alone.                     *)
ExecutedStayPooled ==
    \A n \in Node : executed[n] \subseteq localMessagePool[n]

(* pbft.go:1240 "the requirement of a view change is met", count > f: a    *)
(* NewView about a batch follows f+1 ViewChanges about it, in every view.  *)
NewViewBacked ==
    \A d \in Batch :
        Senders("NewView", d) # {} => Cardinality(Senders("ViewChange", d)) >= f + 1

-----------------------------------------------------------------------------
(* Fairness: a running process goes on accepting connections (tcpListen    *)
(* starts a handler for each) and the dialled messages arrive; its main    *)
(* goroutine is scheduled.  Clients and restarts are under no obligation.  *)
Fairness ==
    \A n \in Node :
        /\ WF_vars(\E m \in msgs : handleRequest(n, m))
        /\ WF_vars(mainSelect(n))
        /\ WF_vars(mainReturn(n))

LiveSpec == Spec /\ Fairness

Good(d) == d \in Batch \ Bad /\ Sent("PrePrepare", d) # {}

(* With 2f+1 nodes running and no message overtaking another, a proposed   *)
(* batch is executed by every running replica and stored by the primary.   *)
ReplicasExecute ==
    \A d \in Batch, n \in Node \ {0} : Good(d) /\ up[n] ~> d \in executed[n]

EventuallyStored ==
    \A d \in Batch : Good(d) ~> d \in Blocks(0)

(* pbft.go:603 "2f+1 Commits received, own one included, not answered yet  *)
(* and Commit broadcast: execute and answer".                              *)
CommittedIsExecuted ==
    \A n \in Node, d \in Batch :
        /\ Cardinality(commitConfirmCount[n][d]) >= 2 * f
        /\ d \in isCommitBordcast[n]
        ~> d \in executed[n]

(* A refused batch deposes its proposer: all the running nodes end up in   *)
(* the next view and stay together.                                        *)
BadBatchDeposes ==
    \A d \in Bad :
        Sent("PrePrepare", d) # {} ~> [](\A n \in Node : up[n] => M_node[n] = 1)
=============================================================================
