----------------------------- MODULE QuorumCount -----------------------------
(***************************************************************************)
(* What the goroutines of one node do to each other while they count the   *)
(* votes for one batch.  handlePrepare, handleCommit and handleAddNode     *)
(* share a shape: note the sender under the lock, unlock, count the map    *)
(* without the lock, lock again, act if the count suffices and nobody has  *)
(* acted.  PBFT takes each of them in one step; this module takes them     *)
(* apart, with the Prepare and Commit handlers of one batch side by side.  *)
(*                                                                         *)
(* Ranging over a map while another goroutine writes it may end the        *)
(* process; if it does not, an entry added meanwhile is counted or not.    *)
(***************************************************************************)
EXTENDS Integers, FiniteSets

CONSTANTS
    Preparer,        \* senders of the Prepares that arrive
    Committer,       \* senders of the Commits that arrive
    specifiedCount,  \* Prepares handlePrepare asks for
    f                \* handleCommit asks for 2f Commits

ASSUME SenderAssumption ==
    /\ IsFiniteSet(Preparer) /\ IsFiniteSet(Committer)
    /\ Preparer \cap Committer = {}
ASSUME CountAssumption == specifiedCount \in Nat /\ f \in Nat

Handler == Preparer \cup Committer

VARIABLES
    pc,                  \* pc[h]: the statement the handler of h's message is at
    seen,                \* seen[h]: number of votes when h began to count
    count,               \* count[h]: what h counted
    prePareConfirmCount, \* senders noted
    commitConfirmCount,
    isCommitBordcast,
    isReply,
    commits,             \* Commits broadcast for the batch
    executions,          \* times the batch was put in localMessagePool
    alive                \* has the runtime not stopped the process?

votes   == <<prePareConfirmCount, commitConfirmCount>>
outcome == <<isCommitBordcast, isReply, commits, executions>>
vars == <<pc, seen, count, prePareConfirmCount, commitConfirmCount,
          isCommitBordcast, isReply, commits, executions, alive>>

Label == {"idle", "note", "range", "ranging", "decide", "done", "deferred"}

Goto(h, from, to) ==
    /\ pc[h] = from
    /\ pc' = [pc EXCEPT ![h] = to]

Noted(h) == IF h \in Preparer THEN prePareConfirmCount ELSE commitConfirmCount

-----------------------------------------------------------------------------
(* The batch is pooled, the signature holds and the view is right.  A      *)
(* Commit also asks for a Prepare noted before it, or is deferred.         *)
Arrive(h) ==
    /\ Goto(h, "idle", IF h \in Preparer \/ prePareConfirmCount # {}
                       THEN "note" ELSE "deferred")
    /\ UNCHANGED <<seen, count, votes, outcome>>

(* lock; set...ConfirmMap; unlock.  Each section under the lock is a step. *)
Note(h) ==
    /\ Goto(h, "note", "range")
    /\ IF h \in Preparer
       THEN /\ prePareConfirmCount' = prePareConfirmCount \cup {h}
            /\ UNCHANGED commitConfirmCount
       ELSE /\ commitConfirmCount' = commitConfirmCount \cup {h}
            /\ UNCHANGED prePareConfirmCount
    /\ UNCHANGED <<seen, count, outcome>>

(* for range p.prePareConfirmCount[digest] { count++ } *)
BeginRange(h) ==
    /\ Goto(h, "range", "ranging")
    /\ seen' = [seen EXCEPT ![h] = Cardinality(Noted(h))]
    /\ UNCHANGED <<count, votes, outcome>>

EndRange(h) ==
    /\ Goto(h, "ranging", "decide")
    /\ count' \in {[count EXCEPT ![h] = c] :
                      c \in seen[h] .. Cardinality(Noted(h))}
    /\ UNCHANGED <<seen, votes, outcome>>

FaultyNotAsked(h) ==                        \* fault: isCommitBordcast not asked
    count[h] >= specifiedCount

FaultyExactly(h) ==                         \* fault: == for >=
    count[h] = specifiedCount /\ ~isCommitBordcast

EnoughPrepares(h) ==
    count[h] >= specifiedCount /\ ~isCommitBordcast

FaultyOwnTwice(h) ==                        \* fault: own Commit counted again
    count[h] + 1 >= 2 * f /\ ~isReply /\ isCommitBordcast

EnoughCommits(h) ==
    count[h] >= 2 * f /\ ~isReply /\ isCommitBordcast

(* lock; if count >= ... && !...; unlock *)
DecidePrepare(h) ==
    /\ h \in Preparer
    /\ Goto(h, "decide", "done")
    /\ IF EnoughPrepares(h)
       THEN isCommitBordcast' = TRUE /\ commits' = commits + 1
       ELSE UNCHANGED <<isCommitBordcast, commits>>
    /\ UNCHANGED <<seen, count, votes, isReply, executions>>

DecideCommit(h) ==
    /\ h \in Committer
    /\ Goto(h, "decide", "done")
    /\ IF EnoughCommits(h)
       THEN isReply' = TRUE /\ executions' = executions + 1
       ELSE UNCHANGED <<isReply, executions>>
    /\ UNCHANGED <<seen, count, votes, isCommitBordcast, commits>>

(* A vote is noted while another goroutine ranges over the same map. *)
ConcurrentMapAccess(g, h) ==
    /\ pc[g] = "note"
    /\ pc[h] = "ranging"
    /\ g \in Preparer <=> h \in Preparer
    /\ alive' = FALSE
    /\ UNCHANGED <<pc, seen, count, votes, outcome>>

Init ==
    /\ pc = [h \in Handler |-> "idle"]
    /\ seen = [h \in Handler |-> 0]
    /\ count = [h \in Handler |-> 0]
    /\ prePareConfirmCount = {}
    /\ commitConfirmCount = {}
    /\ isCommitBordcast = FALSE
    /\ isReply = FALSE
    /\ commits = 0
    /\ executions = 0
    /\ alive = TRUE

Step(h) ==
    \/ Arrive(h) \/ Note(h) \/ BeginRange(h) \/ EndRange(h)
    \/ DecidePrepare(h) \/ DecideCommit(h)

Next ==
    /\ alive
    /\ \/ \E h \in Handler : Step(h) /\ UNCHANGED alive
       \/ \E g, h \in Handler : ConcurrentMapAccess(g, h)

Spec == Init /\ [][Next]_vars

-----------------------------------------------------------------------------
TypeOK ==
    /\ pc \in [Handler -> Label]
    /\ seen \in [Handler -> Nat]
    /\ count \in [Handler -> Nat]
    /\ prePareConfirmCount \subseteq Preparer
    /\ commitConfirmCount \subseteq Committer
    /\ isCommitBordcast \in BOOLEAN
    /\ isReply \in BOOLEAN
    /\ commits \in Nat
    /\ executions \in Nat
    /\ alive \in BOOLEAN

Resting == \A h \in Handler : pc[h] \in {"idle", "done", "deferred"}

(* Releasing the lock between noting and counting loses no quorum: when the *)
(* handlers have come to rest, the Commit is out if enough Prepares are     *)
(* noted, and only then.                                                    *)
NoQuorumMissed ==
    Resting => (isCommitBordcast <=>
                  \E h \in Preparer : pc[h] = "done"
                     /\ Cardinality(prePareConfirmCount) >= specifiedCount)

(* Several handlers may count a full quorum; one of them sends the Commit   *)
(* and one executes the batch.                                              *)
ActedOnce ==
    /\ commits = (IF isCommitBordcast THEN 1 ELSE 0)
    /\ executions = (IF isReply THEN 1 ELSE 0)

(* No handler counts a vote that has not arrived, and its own is counted:   *)
(* a batch is executed after the own Commit and 2f noted ones.              *)
ExecutedOnQuorum ==
    isReply => isCommitBordcast /\ Cardinality(commitConfirmCount) >= 2 * f
=============================================================================
