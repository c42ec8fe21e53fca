-------------------------- MODULE QuorumCountProofs --------------------------
(***************************************************************************)
(* Theorems of QuorumCount, for any number of Prepare and Commit handlers  *)
(* and any thresholds.                                                     *)
(*                                                                         *)
(* NoQuorumMissed is about handlers at rest and is not inductive.  What is *)
(* true at every step is Covered: while a full set of Prepares is noted    *)
(* and the Commit is not out, some handler is going to count all of them;  *)
(* the one that noted the last is the first such handler.                  *)
(***************************************************************************)
EXTENDS QuorumCount, FiniteSetTheorems, TLAPS

Past == {"range", "ranging", "decide", "done"}

(* A vote is noted exactly when its handler is past Note, and no handler    *)
(* has seen or counted more votes than are noted by now.                    *)
CountsHonest ==
    \A h \in Handler :
        /\ h \in Noted(h) <=> pc[h] \in Past
        /\ pc[h] = "ranging" => seen[h] <= Cardinality(Noted(h))
        /\ pc[h] = "decide" => count[h] <= Cardinality(Noted(h))

(* h will count every Prepare noted so far.                                 *)
CountsAll(h) ==
    \/ pc[h] = "range"
    \/ pc[h] = "ranging" /\ seen[h] = Cardinality(prePareConfirmCount)
    \/ pc[h] = "decide" /\ count[h] = Cardinality(prePareConfirmCount)

Covered ==
    prePareConfirmCount # {} /\ Cardinality(prePareConfirmCount) >= specifiedCount
        => isCommitBordcast \/ \E h \in Preparer : CountsAll(h)

(* The Commit went out on a full set, by a handler that is done.            *)
SentOnQuorum ==
    isCommitBordcast =>
        /\ Cardinality(prePareConfirmCount) >= specifiedCount
        /\ \E h \in Preparer : pc[h] = "done"

CountInv ==
    TypeOK /\ CountsHonest /\ Covered /\ SentOnQuorum /\ ActedOnce /\ ExecutedOnQuorum

-----------------------------------------------------------------------------
(* The votes are finitely many.                                            *)
LEMMA VotesFinite ==
    ASSUME TypeOK
    PROVE  /\ IsFiniteSet(prePareConfirmCount) /\ IsFiniteSet(commitConfirmCount)
           /\ Cardinality(prePareConfirmCount) \in Nat
           /\ Cardinality(commitConfirmCount) \in Nat
<1>1. IsFiniteSet(prePareConfirmCount) /\ IsFiniteSet(commitConfirmCount)
  BY SenderAssumption, FS_Subset DEF TypeOK
<1> QED BY <1>1, FS_CardinalityType

(* Nothing is noted, counted or done at the start.                         *)
LEMMA CountInit == Init => CountInv
<1> SUFFICES ASSUME Init
             PROVE  CountInv
  OBVIOUS
<1>1. TypeOK
  BY DEF Init, TypeOK, Label
<1>2. CountsHonest
  BY DEF Init, CountsHonest, Noted, Past
<1>3. Covered /\ SentOnQuorum /\ ActedOnce /\ ExecutedOnQuorum
  BY DEF Init, Covered, SentOnQuorum, ActedOnce, ExecutedOnQuorum
<1> QED BY <1>1, <1>2, <1>3 DEF CountInv

(* A step of handler h leaves the other handlers where they are.           *)
LEMMA GotoAt ==
    ASSUME TypeOK, NEW h \in Handler, NEW a, NEW b \in Label, Goto(h, a, b)
    PROVE  /\ pc' \in [Handler -> Label]
           /\ pc[h] = a /\ pc'[h] = b
           /\ \A g \in Handler \ {h} : pc'[g] = pc[g]
  BY DEF TypeOK, Goto

(* Arriving, or being deferred, disturbs no vote.                          *)
LEMMA ArriveStep ==
    ASSUME CountInv, NEW h \in Handler, Arrive(h), UNCHANGED alive
    PROVE  CountInv'
<1>1. /\ pc' \in [Handler -> Label]
      /\ pc[h] = "idle" /\ pc'[h] \in {"note", "deferred"}
      /\ \A g \in Handler \ {h} : pc'[g] = pc[g]
  BY GotoAt DEF Arrive, CountInv, Label
<1>2. UNCHANGED <<seen, count, prePareConfirmCount, commitConfirmCount,
                  isCommitBordcast, isReply, commits, executions>>
  BY DEF Arrive, votes, outcome
<1>3. TypeOK'
  BY <1>1, <1>2 DEF CountInv, TypeOK
<1>4. CountsHonest'
  BY <1>1, <1>2 DEF CountInv, CountsHonest, Noted, Past
<1>5. Covered'
  <2>1. \A g \in Preparer : CountsAll(g) => CountsAll(g)'
    BY <1>1, <1>2 DEF CountsAll, Handler
  <2> QED BY <1>2, <2>1 DEF CountInv, Covered
<1>6. SentOnQuorum' /\ ActedOnce' /\ ExecutedOnQuorum'
  BY <1>1, <1>2 DEF CountInv, SentOnQuorum, ActedOnce, ExecutedOnQuorum, Handler
<1> QED BY <1>3, <1>4, <1>5, <1>6 DEF CountInv

(* The handler that notes a vote will count it and all those before.       *)
LEMMA NoteStep ==
    ASSUME CountInv, NEW h \in Handler, Note(h), UNCHANGED alive
    PROVE  CountInv'
<1>1. /\ pc' \in [Handler -> Label]
      /\ pc[h] = "note" /\ pc'[h] = "range"
      /\ \A g \in Handler \ {h} : pc'[g] = pc[g]
  BY GotoAt DEF Note, CountInv, Label
<1>2. UNCHANGED <<seen, count, isCommitBordcast, isReply, commits, executions>>
  BY DEF Note, outcome
<1>3. \/ /\ h \in Preparer
         /\ prePareConfirmCount' = prePareConfirmCount \cup {h}
         /\ UNCHANGED commitConfirmCount
      \/ /\ h \in Committer /\ h \notin Preparer
         /\ commitConfirmCount' = commitConfirmCount \cup {h}
         /\ UNCHANGED prePareConfirmCount
  BY DEF Note, Handler
<1>4. TypeOK'
  BY <1>1, <1>2, <1>3 DEF CountInv, TypeOK
<1>5. /\ Cardinality(prePareConfirmCount) <= Cardinality(prePareConfirmCount')
      /\ Cardinality(commitConfirmCount) <= Cardinality(commitConfirmCount')
      /\ Cardinality(prePareConfirmCount') \in Nat
      /\ Cardinality(commitConfirmCount') \in Nat
      /\ Cardinality(prePareConfirmCount) \in Nat
      /\ Cardinality(commitConfirmCount) \in Nat
  <2>1. /\ IsFiniteSet(prePareConfirmCount') /\ IsFiniteSet(commitConfirmCount')
    BY <1>4, SenderAssumption, FS_Subset DEF TypeOK
  <2>2. /\ prePareConfirmCount \subseteq prePareConfirmCount'
        /\ commitConfirmCount \subseteq commitConfirmCount'
    BY <1>3
  <2> QED BY <2>1, <2>2, VotesFinite, FS_Subset, FS_CardinalityType DEF CountInv
<1>6. CountsHonest'
  <2> SUFFICES ASSUME NEW g \in Handler
               PROVE  /\ g \in Noted(g)' <=> pc'[g] \in Past
                      /\ pc'[g] = "ranging" => seen'[g] <= Cardinality(Noted(g)')
                      /\ pc'[g] = "decide" => count'[g] <= Cardinality(Noted(g)')
    BY DEF CountsHonest
  <2>1. g \in Noted(g) <=> pc[g] \in Past
    BY DEF CountInv, CountsHonest
  <2>2. g \in Noted(g)' <=> pc'[g] \in Past
    <3>1. CASE g = h
      BY <1>1, <1>3, <3>1 DEF Noted, Past, Handler
    <3>2. CASE g # h
      BY <1>1, <1>3, <2>1, <3>2 DEF Noted
    <3> QED BY <3>1, <3>2
  <2>3. /\ Cardinality(Noted(g)) \in Nat /\ Cardinality(Noted(g)') \in Nat
        /\ Cardinality(Noted(g)) <= Cardinality(Noted(g)')
    BY <1>5 DEF Noted
  <2>4. seen[g] \in Nat /\ count[g] \in Nat
    BY DEF CountInv, TypeOK
  <2>5. pc'[g] \in {"ranging", "decide"} => g # h /\ pc'[g] = pc[g]
    BY <1>1
  <2>6. /\ pc[g] = "ranging" => seen[g] <= Cardinality(Noted(g))
        /\ pc[g] = "decide" => count[g] <= Cardinality(Noted(g))
    BY DEF CountInv, CountsHonest
  <2>7. seen'[g] = seen[g] /\ count'[g] = count[g]
    BY <1>2
  <2> HIDE DEF Noted
  <2> QED BY <2>2, <2>3, <2>4, <2>5, <2>6, <2>7
<1>7. Covered'
  <2>1. CASE h \in Preparer
    <3>1. CountsAll(h)'
      BY <1>1 DEF CountsAll
    <3> QED BY <2>1, <3>1 DEF Covered
  <2>2. CASE UNCHANGED prePareConfirmCount
    <3>1. \A g \in Preparer : CountsAll(g) => CountsAll(g)'
      BY <1>1, <1>2, <2>2 DEF CountsAll, Handler
    <3> QED BY <1>2, <2>2, <3>1 DEF CountInv, Covered
  <2> QED BY <1>3, <2>1, <2>2
<1>8. SentOnQuorum'
  BY <1>1, <1>2, <1>5, CountAssumption DEF CountInv, SentOnQuorum, Handler
<1>9. ActedOnce' /\ ExecutedOnQuorum'
  BY <1>2, <1>5, CountAssumption DEF CountInv, ActedOnce, ExecutedOnQuorum
<1> QED BY <1>4, <1>6, <1>7, <1>8, <1>9 DEF CountInv

(* A handler that begins to count sees what is noted by now.               *)
LEMMA BeginRangeStep ==
    ASSUME CountInv, NEW h \in Handler, BeginRange(h), UNCHANGED alive
    PROVE  CountInv'
<1>1. /\ pc' \in [Handler -> Label]
      /\ pc[h] = "range" /\ pc'[h] = "ranging"
      /\ \A g \in Handler \ {h} : pc'[g] = pc[g]
  BY GotoAt DEF BeginRange, CountInv, Label
<1>2. UNCHANGED <<count, prePareConfirmCount, commitConfirmCount,
                  isCommitBordcast, isReply, commits, executions>>
  BY DEF BeginRange, votes, outcome
<1>3. \A g \in Handler : Cardinality(Noted(g)) \in Nat
  BY VotesFinite DEF CountInv, Noted
<1>4. /\ seen' \in [Handler -> Nat] /\ seen'[h] = Cardinality(Noted(h))
      /\ \A g \in Handler \ {h} : seen'[g] = seen[g]
  BY <1>3 DEF BeginRange, CountInv, TypeOK
<1>5. TypeOK'
  BY <1>1, <1>2, <1>4 DEF CountInv, TypeOK
<1>6. CountsHonest'
  <2>1. \A g \in Handler : Noted(g)' = Noted(g)
    BY <1>2 DEF Noted
  <2>2. pc'[h] \in Past /\ pc[h] \in Past /\ pc'[h] # "decide"
    BY <1>1 DEF Past
  <2>3. seen'[h] <= Cardinality(Noted(h))
    BY <1>3, <1>4
  <2> HIDE DEF Noted
  <2> QED BY <1>1, <1>2, <1>4, <2>1, <2>2, <2>3 DEF CountInv, CountsHonest
<1>7. Covered'
  <2>1. \A g \in Preparer : CountsAll(g) => CountsAll(g)'
    BY <1>1, <1>2, <1>4 DEF CountsAll, Handler, Noted
  <2> QED BY <1>2, <2>1 DEF CountInv, Covered
<1>8. SentOnQuorum' /\ ActedOnce' /\ ExecutedOnQuorum'
  BY <1>1, <1>2 DEF CountInv, SentOnQuorum, ActedOnce, ExecutedOnQuorum, Handler
<1> QED BY <1>5, <1>6, <1>7, <1>8 DEF CountInv

(* One that ends has counted at least what it saw at the beginning.        *)
LEMMA EndRangeStep ==
    ASSUME CountInv, NEW h \in Handler, EndRange(h), UNCHANGED alive
    PROVE  CountInv'
<1>1. /\ pc' \in [Handler -> Label]
      /\ pc[h] = "ranging" /\ pc'[h] = "decide"
      /\ \A g \in Handler \ {h} : pc'[g] = pc[g]
  BY GotoAt DEF EndRange, CountInv, Label
<1>2. UNCHANGED <<seen, prePareConfirmCount, commitConfirmCount,
                  isCommitBordcast, isReply, commits, executions>>
  BY DEF EndRange, votes, outcome
<1>3. \A g \in Handler : Cardinality(Noted(g)) \in Nat /\ seen[g] \in Nat
  BY VotesFinite DEF CountInv, Noted, TypeOK
<1>4. PICK c \in seen[h] .. Cardinality(Noted(h)) : count' = [count EXCEPT ![h] = c]
  BY DEF EndRange
<1>5. /\ count' \in [Handler -> Nat] /\ count'[h] = c
      /\ \A g \in Handler \ {h} : count'[g] = count[g]
      /\ seen[h] <= c /\ c <= Cardinality(Noted(h)) /\ c \in Nat
  BY <1>3, <1>4 DEF CountInv, TypeOK
<1>6. TypeOK'
  BY <1>1, <1>2, <1>5 DEF CountInv, TypeOK
<1>7. CountsHonest'
  <2>1. \A g \in Handler : Noted(g)' = Noted(g)
    BY <1>2 DEF Noted
  <2>2. pc'[h] \in Past /\ pc[h] \in Past /\ pc'[h] # "ranging"
    BY <1>1 DEF Past
  <2> HIDE DEF Noted
  <2> QED BY <1>1, <1>2, <1>5, <2>1, <2>2 DEF CountInv, CountsHonest
<1>8. Covered'
  <2>1. ASSUME NEW g \in Preparer, CountsAll(g)
        PROVE  CountsAll(g)'
    <3>1. CASE g = h
      <4>1. seen[h] = Cardinality(prePareConfirmCount) /\ Noted(h) = prePareConfirmCount
        BY <1>1, <2>1, <3>1 DEF CountsAll, Noted
      <4>2. c = Cardinality(prePareConfirmCount)
        BY <1>3, <1>5, <4>1
      <4> QED BY <1>1, <1>2, <1>5, <3>1, <4>2 DEF CountsAll
    <3>2. CASE g # h
      BY <1>1, <1>2, <1>5, <2>1, <3>2 DEF CountsAll, Handler
    <3> QED BY <3>1, <3>2
  <2> QED BY <1>2, <2>1 DEF CountInv, Covered
<1>9. SentOnQuorum' /\ ActedOnce' /\ ExecutedOnQuorum'
  BY <1>1, <1>2 DEF CountInv, SentOnQuorum, ActedOnce, ExecutedOnQuorum, Handler
<1> QED BY <1>6, <1>7, <1>8, <1>9 DEF CountInv

(* A decision leaves the votes alone; one that counted them all and finds  *)
(* the Commit not sent sends it.                                           *)
LEMMA DecidePrepareStep ==
    ASSUME CountInv, NEW h \in Handler, DecidePrepare(h), UNCHANGED alive
    PROVE  CountInv'
<1>1. /\ pc' \in [Handler -> Label] /\ h \in Preparer
      /\ pc[h] = "decide" /\ pc'[h] = "done"
      /\ \A g \in Handler \ {h} : pc'[g] = pc[g]
  BY GotoAt DEF DecidePrepare, CountInv, Label
<1>2. UNCHANGED <<seen, count, prePareConfirmCount, commitConfirmCount,
                  isReply, executions>>
  BY DEF DecidePrepare, votes
<1>3. \/ EnoughPrepares(h) /\ isCommitBordcast' = TRUE /\ commits' = commits + 1
      \/ ~EnoughPrepares(h) /\ UNCHANGED <<isCommitBordcast, commits>>
  BY DEF DecidePrepare
<1>4. TypeOK'
  <2>1. isCommitBordcast' \in BOOLEAN
    BY <1>3 DEF CountInv, TypeOK
  <2>2. commits' \in Nat
    <3>1. commits \in Nat /\ (commits' = commits + 1 \/ commits' = commits)
      BY <1>3 DEF CountInv, TypeOK
    <3> QED BY <3>1
  <2> QED BY <1>1, <1>2, <2>1, <2>2 DEF CountInv, TypeOK
<1>5. CountsHonest'
  BY <1>1, <1>2 DEF CountInv, CountsHonest, Noted, Past
<1>6. count[h] \in Nat /\ count[h] <= Cardinality(prePareConfirmCount)
  BY <1>1 DEF CountInv, CountsHonest, Noted, TypeOK
<1>7. Covered'
  <2>1. CASE isCommitBordcast'
    BY <2>1 DEF Covered
  <2>2. CASE ~isCommitBordcast'
    <3>1. ~isCommitBordcast /\ ~(count[h] >= specifiedCount)
      BY <1>3, <2>2 DEF EnoughPrepares, CountInv, TypeOK
    <3>2. ASSUME Cardinality(prePareConfirmCount) >= specifiedCount,
                 NEW g \in Preparer, CountsAll(g)
          PROVE  CountsAll(g)'
      <4>1. g # h
        BY <1>1, <3>1, <3>2 DEF CountsAll
      <4> QED BY <1>1, <1>2, <3>2, <4>1 DEF CountsAll, Handler
    <3> QED BY <1>2, <3>1, <3>2 DEF CountInv, Covered
  <2> QED BY <2>1, <2>2
<1>8. SentOnQuorum'
  <2>1. CASE EnoughPrepares(h)
    <3>1. Cardinality(prePareConfirmCount') >= specifiedCount
      BY <1>2, <1>6, <2>1, VotesFinite, CountAssumption DEF EnoughPrepares, CountInv
    <3> QED BY <1>1, <3>1 DEF SentOnQuorum
  <2>2. CASE ~EnoughPrepares(h)
    BY <1>1, <1>2, <1>3, <2>2 DEF CountInv, SentOnQuorum, Handler
  <2> QED BY <2>1, <2>2
<1>9. ActedOnce' /\ ExecutedOnQuorum'
  BY <1>2, <1>3 DEF CountInv, ActedOnce, ExecutedOnQuorum, EnoughPrepares
<1> QED BY <1>4, <1>5, <1>7, <1>8, <1>9 DEF CountInv

(* A batch is executed by a handler that counted 2f Commits, none of which *)
(* is missing from the votes noted.                                        *)
LEMMA DecideCommitStep ==
    ASSUME CountInv, NEW h \in Handler, DecideCommit(h), UNCHANGED alive
    PROVE  CountInv'
<1>1. /\ pc' \in [Handler -> Label] /\ h \in Committer /\ h \notin Preparer
      /\ pc[h] = "decide" /\ pc'[h] = "done"
      /\ \A g \in Handler \ {h} : pc'[g] = pc[g]
  BY GotoAt, SenderAssumption DEF DecideCommit, CountInv, Label
<1>2. UNCHANGED <<seen, count, prePareConfirmCount, commitConfirmCount,
                  isCommitBordcast, commits>>
  BY DEF DecideCommit, votes
<1>3. \/ EnoughCommits(h) /\ isReply' = TRUE /\ executions' = executions + 1
      \/ ~EnoughCommits(h) /\ UNCHANGED <<isReply, executions>>
  BY DEF DecideCommit
<1>4. TypeOK'
  <2>1. isReply' \in BOOLEAN
    BY <1>3 DEF CountInv, TypeOK
  <2>2. executions' \in Nat
    <3>1. executions \in Nat /\ (executions' = executions + 1 \/ executions' = executions)
      BY <1>3 DEF CountInv, TypeOK
    <3> QED BY <3>1
  <2> QED BY <1>1, <1>2, <2>1, <2>2 DEF CountInv, TypeOK
<1>5. CountsHonest'
  BY <1>1, <1>2 DEF CountInv, CountsHonest, Noted, Past
<1>6. Covered'
  <2>1. \A g \in Preparer : CountsAll(g) => CountsAll(g)'
    BY <1>1, <1>2 DEF CountsAll, Handler
  <2> QED BY <1>2, <2>1 DEF CountInv, Covered
<1>7. SentOnQuorum'
  BY <1>1, <1>2 DEF CountInv, SentOnQuorum, Handler
<1>8. ActedOnce'
  BY <1>2, <1>3 DEF CountInv, ActedOnce, EnoughCommits
<1>9. ExecutedOnQuorum'
  <2>1. count[h] \in Nat /\ count[h] <= Cardinality(commitConfirmCount)
    BY <1>1 DEF CountInv, CountsHonest, Noted, TypeOK
  <2>2. count[h] >= 2 * f => Cardinality(commitConfirmCount) >= 2 * f
    BY <2>1, VotesFinite, CountAssumption DEF CountInv
  <2> QED BY <1>2, <1>3, <2>2 DEF CountInv, ExecutedOnQuorum, EnoughCommits
<1> QED BY <1>4, <1>5, <1>6, <1>7, <1>8, <1>9 DEF CountInv

(* CountInv is inductive.                                                  *)
LEMMA CountStep == CountInv /\ [Next]_vars => CountInv'
<1> SUFFICES ASSUME CountInv, [Next]_vars
             PROVE  CountInv'
  OBVIOUS
<1>1. ASSUME NEW h \in Handler, Step(h), UNCHANGED alive
      PROVE  CountInv'
  BY <1>1, ArriveStep, NoteStep, BeginRangeStep, EndRangeStep, DecidePrepareStep,
     DecideCommitStep DEF Step
<1>2. CASE /\ UNCHANGED <<pc, seen, count, prePareConfirmCount, commitConfirmCount,
                          isCommitBordcast, isReply, commits, executions>>
           /\ alive' \in BOOLEAN
  <2>1. TypeOK' /\ CountsHonest'
    BY <1>2 DEF CountInv, TypeOK, CountsHonest, Noted
  <2>2. Covered' /\ SentOnQuorum' /\ ActedOnce' /\ ExecutedOnQuorum'
    BY <1>2 DEF CountInv, Covered, CountsAll, SentOnQuorum, ActedOnce, ExecutedOnQuorum
  <2> QED BY <2>1, <2>2 DEF CountInv
<1>3. ASSUME NEW g \in Handler, NEW h \in Handler, ConcurrentMapAccess(g, h)
      PROVE  CountInv'
  BY <1>2, <1>3 DEF ConcurrentMapAccess, votes, outcome
<1>4. CASE UNCHANGED vars
  BY <1>2, <1>4 DEF vars, CountInv, TypeOK
<1> QED BY <1>1, <1>3, <1>4 DEF Next

(* The inductive invariant of the counting handlers.                       *)
THEOREM CountInvariant == Spec => []CountInv
<1> QED BY CountInit, CountStep, PTL DEF Spec

(* Handlers at rest have missed no quorum: the one that noted the last     *)
(* Prepare counts all of them, although it counts after the unlock         *)
(* (pbft.go:498-515).                                                      *)
THEOREM NoQuorumMissedHolds == Spec => []NoQuorumMissed
<1>1. CountInv => NoQuorumMissed
  <2> SUFFICES ASSUME CountInv, Resting
               PROVE  isCommitBordcast <=>
                        \E h \in Preparer : pc[h] = "done"
                          /\ Cardinality(prePareConfirmCount) >= specifiedCount
    BY DEF NoQuorumMissed
  <2>1. \A h \in Preparer : ~CountsAll(h)
    BY DEF Resting, CountsAll, Handler
  <2>2. ASSUME NEW h \in Preparer, pc[h] = "done"
        PROVE  prePareConfirmCount # {}
    BY <2>2 DEF CountInv, CountsHonest, Noted, Past, Handler
  <2> QED BY <2>1, <2>2 DEF CountInv, Covered, SentOnQuorum
<1> QED BY <1>1, CountInvariant, PTL

(* One handler sends the Commit and one executes the batch, however many   *)
(* of them have counted a quorum (pbft.go:513-515, 604-605).               *)
THEOREM ActedOnceHolds == Spec => []ActedOnce
<1>1. CountInv => ActedOnce
  BY DEF CountInv
<1> QED BY <1>1, CountInvariant, PTL

(* A batch is executed after the own Commit and on 2f noted ones           *)
(* (pbft.go:599-605).                                                      *)
THEOREM ExecutedOnQuorumHolds == Spec => []ExecutedOnQuorum
<1>1. CountInv => ExecutedOnQuorum
  BY DEF CountInv
<1> QED BY <1>1, CountInvariant, PTL
=============================================================================
