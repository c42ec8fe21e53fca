--------------------------- MODULE JoinNodeProofs ---------------------------
(***************************************************************************)
(* Theorems of JoinNode, for any number of members and joiners, whatever   *)
(* AddNode is deferred or lost and however the joiner's listener closes.   *)
(*                                                                         *)
(* A member knows only whom it has counted: ToldHonest says that these     *)
(* members have told of the joiner, ListedReplied ties the table to the    *)
(* replies, and RepliesKnown keeps account of a reply from the dial to the *)
(* joiner's count.                                                         *)
(***************************************************************************)
EXTENDS JoinNode, FiniteSetTheorems, TLAPS

ToldHonest ==
    /\ \A n \in Member, j \in Joiner : addNodeCount[n][j] \subseteq Told(j)
    /\ \A n \in Member : \A t \in taken[n] : t[1] \in Told(t[2])

ListedReplied == \A n \in Member : Listed(n) = isReplyToAddNode[n]

Replied(j) == {n \in Member : j \in isReplyToAddNode[n]}

RepliesKnown ==
    \A j \in Joiner :
        /\ AgreeJoinNum[j] + Cardinality(dialled[j]) + Cardinality(accepted[j])
             <= Cardinality(Replied(j))
        /\ phase[j] # "waits" => Cardinality(Replied(j)) > 2 * fOfJoiner

JoinInv ==
    TypeOK /\ ToldHonest /\ ListedReplied /\ ListedOnce /\ AdmittedByQuorum
      /\ RepliesKnown

-----------------------------------------------------------------------------
(* Sets of members are finite.                                             *)
LEMMA MembersFinite ==
    ASSUME NEW S \in SUBSET Member
    PROVE  IsFiniteSet(S) /\ Cardinality(S) \in Nat
<1>1. IsFiniteSet(S)
  BY MemberAssumption, FS_Subset
<1> QED BY <1>1, FS_CardinalityType

(* A member more is one more, or none if it was there.                     *)
LEMMA OneMore ==
    ASSUME NEW S \in SUBSET Member, NEW n \in Member
    PROVE  /\ Cardinality(S \cup {n}) <= Cardinality(S) + 1
           /\ Cardinality(S) <= Cardinality(S \cup {n})
           /\ n \notin S => Cardinality(S \cup {n}) = Cardinality(S) + 1
           /\ n \in S => Cardinality(S \ {n}) = Cardinality(S) - 1
<1>1. IsFiniteSet(S) /\ Cardinality(S) \in Nat
  BY MembersFinite
<1>2. CASE n \in S
  <2>1. S \cup {n} = S
    BY <1>2
  <2>2. Cardinality(S \ {n}) = Cardinality(S) - 1
    BY <1>1, <1>2, FS_RemoveElement
  <2>3. Cardinality(S \cup {n}) = Cardinality(S)
    BY <2>1
  <2> QED BY <1>1, <1>2, <2>2, <2>3
<1>3. CASE n \notin S
  <2>1. Cardinality(S \cup {n}) = Cardinality(S) + 1
    BY <1>1, <1>3, FS_AddElement
  <2> QED BY <1>1, <1>3, <2>1
<1> QED BY <1>2, <1>3

(* The fault tolerance of the joiner's table is a number.                  *)
LEMMA fOfJoinerType == fOfJoiner \in Nat
<1>1. Cardinality(Member) \in Nat
  BY MembersFinite
<1> QED BY <1>1 DEF fOfJoiner

(* A table that has grown tolerates at least as many faults.               *)
LEMMA fGrows ==
    ASSUME TypeOK, NEW n \in Member
    PROVE  f(n) \in Int /\ f(n) >= (Cardinality(Member) - 1) \div 3
<1>1. Cardinality(Member) \in Nat /\ Len(nodeTable[n]) \in Nat
  BY MembersFinite DEF TypeOK
<1> QED BY <1>1 DEF f, nodeCount

(* Nobody is told of and nobody is counted at the start.                   *)
LEMMA JoinInit == Init => JoinInv
<1> SUFFICES ASSUME Init
             PROVE  JoinInv
  OBVIOUS
<1>1. TypeOK
  BY DEF Init, TypeOK
<1>2. ToldHonest
  BY DEF Init, ToldHonest
<1>3. \A n \in Member : Listed(n) = {}
  BY DEF Init, Listed
<1>4. ListedReplied /\ AdmittedByQuorum
  BY <1>3 DEF Init, ListedReplied, AdmittedByQuorum
<1>5. ListedOnce
  BY DEF Init, ListedOnce
<1>6. RepliesKnown
  <2>1. \A j \in Joiner : Replied(j) = {}
    BY DEF Init, Replied
  <2>2. \A j \in Joiner : /\ dialled[j] = {} /\ accepted[j] = {}
                          /\ AgreeJoinNum[j] = 0 /\ phase[j] = "waits"
    BY DEF Init
  <2> QED BY <2>1, <2>2, FS_EmptySet DEF RepliesKnown
<1> QED BY <1>1, <1>2, <1>4, <1>5, <1>6 DEF JoinInv

(* A step that leaves the tables alone, adds to nobody's account and only  *)
(* makes more members tell keeps the invariant.                            *)
LEMMA TableSame ==
    ASSUME JoinInv, TypeOK', UNCHANGED <<nodeTable, isReplyToAddNode>>,
           \A j \in Joiner : Told(j) \subseteq Told(j)',
           ToldHonest', RepliesKnown'
    PROVE  JoinInv'
<1>1. ListedReplied' /\ ListedOnce'
  BY DEF JoinInv, ListedReplied, ListedOnce, Listed
<1>2. AdmittedByQuorum'
  <2> SUFFICES ASSUME NEW n \in Member, NEW j \in Listed(n)'
               PROVE  Cardinality(Told(j)') > 2 * ((Cardinality(Member) - 1) \div 3)
    BY DEF AdmittedByQuorum
  <2>1. j \in Listed(n) /\ j \in Joiner
    BY DEF Listed, JoinInv, TypeOK
  <2>2. Cardinality(Told(j)) > 2 * ((Cardinality(Member) - 1) \div 3)
    BY <2>1 DEF JoinInv, AdmittedByQuorum
  <2>3. Told(j) \in SUBSET Member /\ Told(j)' \in SUBSET Member
    BY DEF Told
  <2>4. Cardinality(Told(j)) <= Cardinality(Told(j)')
    BY <2>1, <2>3, MembersFinite, FS_Subset
  <2>5. /\ Cardinality(Told(j)) \in Nat /\ Cardinality(Told(j)') \in Nat
        /\ (Cardinality(Member) - 1) \div 3 \in Int
    BY <2>3, MembersFinite
  <2> QED BY <2>2, <2>4, <2>5
<1> QED BY <1>1, <1>2 DEF JoinInv

(* Telling the others counts oneself.                                      *)
LEMMA RequestAddNodeStep ==
    ASSUME JoinInv, NEW n \in Member, NEW j \in Joiner, handleRequestAddNode(n, j)
    PROVE  JoinInv'
<1>1. /\ addNodeCount' = [addNodeCount EXCEPT ![n][j] = addNodeCount[n][j] \cup {n}]
      /\ isAddNodeBordcast' = [isAddNodeBordcast EXCEPT ![n] = isAddNodeBordcast[n] \cup {j}]
      /\ UNCHANGED <<nodeTable, isReplyToAddNode, heard, main, taken, requested,
                     listener, dialled, accepted, AgreeJoinNum, phase>>
  BY DEF handleRequestAddNode, joinerVars
<1>2. TypeOK'
  BY <1>1 DEF JoinInv, TypeOK
<1>3. \A k \in Joiner : Told(k) \subseteq Told(k)'
  BY <1>1 DEF Told, JoinInv, TypeOK
<1>4. n \in Told(j)'
  BY <1>1 DEF Told, JoinInv, TypeOK
<1>5. ToldHonest'
  <2>1. \A q \in Member, k \in Joiner : addNodeCount'[q][k] \subseteq Told(k)'
    <3>1. \A q \in Member, k \in Joiner :
            \/ addNodeCount'[q][k] = addNodeCount[q][k]
            \/ k = j /\ addNodeCount'[q][k] \subseteq addNodeCount[q][k] \cup {n}
      BY <1>1 DEF JoinInv, TypeOK
    <3> QED BY <1>3, <1>4, <3>1 DEF JoinInv, ToldHonest
  <2>2. \A q \in Member : \A t \in taken'[q] : t[1] \in Told(t[2])'
    BY <1>1, <1>3 DEF JoinInv, ToldHonest, TypeOK
  <2> QED BY <2>1, <2>2 DEF ToldHonest
<1>6. RepliesKnown'
  BY <1>1 DEF JoinInv, RepliesKnown, Replied
<1> QED BY <1>1, <1>2, <1>3, <1>5, <1>6, TableSame

(* Counting an AddNode of a member that has told: the member appends the   *)
(* joiner to its table when more than 2f have, and dials one reply.        *)
LEMMA CountAddNodeStep ==
    ASSUME JoinInv, NEW n \in Member, NEW m \in Member, NEW j \in Joiner,
           m \in Told(j), CountAddNode(n, m, j), TypeOK',
           \A q \in Member : taken'[q] \subseteq taken[q]
    PROVE  JoinInv'
<1>1. /\ addNodeCount' = [addNodeCount EXCEPT ![n][j] = addNodeCount[n][j] \cup {m}]
      /\ UNCHANGED <<isAddNodeBordcast, requested, listener, accepted,
                     AgreeJoinNum, phase>>
  BY DEF CountAddNode
<1>2. \A k \in Joiner : Told(k)' = Told(k)
  BY <1>1 DEF Told
<1>3. addNodeCount'[n][j] = addNodeCount[n][j] \cup {m}
  BY <1>1 DEF JoinInv, TypeOK
<1>4. addNodeCount'[n][j] \subseteq Told(j)
  BY <1>3 DEF JoinInv, ToldHonest
<1>5. ToldHonest'
  <2>1. \A q \in Member, k \in Joiner :
          addNodeCount'[q][k] = addNodeCount[q][k] \/ (q = n /\ k = j)
    BY <1>1 DEF JoinInv, TypeOK
  <2>2. \A q \in Member, k \in Joiner : addNodeCount'[q][k] \subseteq Told(k)'
    BY <1>2, <1>4, <2>1 DEF JoinInv, ToldHonest
  <2>3. \A q \in Member : \A t \in taken'[q] : t[1] \in Told(t[2])'
    BY <1>2 DEF JoinInv, ToldHonest, TypeOK
  <2> QED BY <2>2, <2>3 DEF ToldHonest
<1>6. CASE UNCHANGED <<nodeTable, isReplyToAddNode, dialled>>
  <2>1. RepliesKnown'
    BY <1>1, <1>6 DEF JoinInv, RepliesKnown, Replied
  <2> QED BY <1>2, <1>5, <1>6, <2>1, TableSame
<1>7. CASE /\ Enough(n, j, addNodeCount'[n][j])
           /\ nodeTable' = [nodeTable EXCEPT ![n] = Append(nodeTable[n], j)]
           /\ isReplyToAddNode' = [isReplyToAddNode EXCEPT ![n] = isReplyToAddNode[n] \cup {j}]
           /\ DialReply(n, j)
  <2>1. j \notin isReplyToAddNode[n] /\ j \notin Listed(n)
    BY <1>7 DEF Enough, JoinInv, ListedReplied
  <2>2. /\ nodeTable[n] \in Seq(Joiner)
        /\ nodeTable'[n] = Append(nodeTable[n], j)
        /\ \A q \in Member \ {n} : nodeTable'[q] = nodeTable[q]
    BY <1>7 DEF JoinInv, TypeOK
  <2>3. /\ Len(nodeTable'[n]) = Len(nodeTable[n]) + 1
        /\ \A i \in 1 .. Len(nodeTable[n]) : nodeTable'[n][i] = nodeTable[n][i]
        /\ nodeTable'[n][Len(nodeTable[n]) + 1] = j
        /\ Len(nodeTable[n]) \in Nat
    BY <2>2
  <2>4. Listed(n)' = Listed(n) \cup {j}
    BY <2>3 DEF Listed
  <2>5. \A q \in Member \ {n} : Listed(q)' = Listed(q)
    BY <2>2 DEF Listed
  <2>6. ListedReplied'
    BY <1>7, <2>4, <2>5 DEF JoinInv, ListedReplied, TypeOK
  <2>7. ListedOnce'
    <3> SUFFICES ASSUME NEW q \in Member, NEW a \in 1 .. Len(nodeTable'[q]),
                        NEW b \in 1 .. Len(nodeTable'[q]),
                        nodeTable'[q][a] = nodeTable'[q][b]
                 PROVE  a = b
      BY DEF ListedOnce
    <3>1. CASE q = n
      <4>1. \A i \in 1 .. Len(nodeTable[n]) : nodeTable'[n][i] # j
        BY <2>1, <2>3 DEF Listed
      <4>2. \A i \in 1 .. Len(nodeTable'[n]) :
               i \in 1 .. Len(nodeTable[n]) \/ i = Len(nodeTable[n]) + 1
        BY <2>3
      <4>3. CASE a \in 1 .. Len(nodeTable[n]) /\ b \in 1 .. Len(nodeTable[n])
        BY <2>3, <3>1, <4>3 DEF JoinInv, ListedOnce
      <4> QED BY <2>3, <3>1, <4>1, <4>2, <4>3
    <3>2. CASE q # n
      BY <2>2, <3>2 DEF JoinInv, ListedOnce
    <3> QED BY <3>1, <3>2
  <2>8. AdmittedByQuorum'
    <3>1. Cardinality(Told(j)) > 2 * ((Cardinality(Member) - 1) \div 3)
      <4>1. Cardinality(addNodeCount'[n][j]) > 2 * f(n)
        BY <1>7 DEF Enough
      <4>2. Told(j) \in SUBSET Member
        BY DEF Told
      <4>3. /\ Cardinality(addNodeCount'[n][j]) <= Cardinality(Told(j))
            /\ Cardinality(addNodeCount'[n][j]) \in Nat
            /\ Cardinality(Told(j)) \in Nat
        BY <1>4, <4>2, MembersFinite, FS_Subset
      <4>4. f(n) \in Int /\ f(n) >= (Cardinality(Member) - 1) \div 3
        BY fGrows DEF JoinInv
      <4>5. (Cardinality(Member) - 1) \div 3 \in Int
        BY MembersFinite
      <4> QED BY <4>1, <4>3, <4>4, <4>5
    <3>2. \A q \in Member : \A k \in Listed(q)' : k = j \/ k \in Listed(q)
      BY <2>4, <2>5
    <3>3. \A q \in Member : \A k \in Listed(q) : k \in Joiner
      BY DEF Listed, JoinInv, TypeOK
    <3> QED BY <1>2, <3>1, <3>2, <3>3 DEF JoinInv, AdmittedByQuorum
  <2>9. RepliesKnown'
    <3> SUFFICES ASSUME NEW k \in Joiner
                 PROVE  /\ AgreeJoinNum'[k] + Cardinality(dialled'[k])
                             + Cardinality(accepted'[k]) <= Cardinality(Replied(k)')
                        /\ phase'[k] # "waits" => Cardinality(Replied(k)') > 2 * fOfJoiner
      BY DEF RepliesKnown
    <3>1. /\ AgreeJoinNum[k] + Cardinality(dialled[k]) + Cardinality(accepted[k])
               <= Cardinality(Replied(k))
          /\ phase[k] # "waits" => Cardinality(Replied(k)) > 2 * fOfJoiner
      BY DEF JoinInv, RepliesKnown
    <3>2. /\ dialled[k] \in SUBSET Member /\ accepted[k] \in SUBSET Member
          /\ Replied(k) \in SUBSET Member /\ AgreeJoinNum[k] \in Nat
          /\ Cardinality(dialled[k]) \in Nat /\ Cardinality(accepted[k]) \in Nat
          /\ Cardinality(Replied(k)) \in Nat
      BY MembersFinite DEF JoinInv, TypeOK, Replied
    <3>3. AgreeJoinNum'[k] = AgreeJoinNum[k] /\ accepted'[k] = accepted[k] /\ phase'[k] = phase[k]
      BY <1>1
    <3>4. CASE k = j
      <4>1. n \notin Replied(k) /\ Replied(k)' = Replied(k) \cup {n}
        BY <1>7, <2>1, <3>4 DEF Replied, JoinInv, TypeOK
      <4>2. Cardinality(Replied(k)') = Cardinality(Replied(k)) + 1
        BY <3>2, <4>1, OneMore
      <4>3. dialled'[k] = dialled[k] \/ dialled'[k] = dialled[k] \cup {n}
        BY <1>7, <3>4 DEF DialReply, JoinInv, TypeOK
      <4>4. Cardinality(dialled'[k]) <= Cardinality(dialled[k]) + 1
            /\ Cardinality(dialled'[k]) \in Nat
        <5>1. CASE dialled'[k] = dialled[k]
          BY <3>2, <5>1
        <5>2. CASE dialled'[k] = dialled[k] \cup {n}
          <6>1. dialled[k] \cup {n} \in SUBSET Member
            BY <3>2
          <6>2. Cardinality(dialled[k] \cup {n}) \in Nat
            BY <6>1, MembersFinite
          <6>3. Cardinality(dialled[k] \cup {n}) <= Cardinality(dialled[k]) + 1
            BY <3>2, OneMore
          <6> QED BY <5>2, <6>2, <6>3
        <5> QED BY <4>3, <5>1, <5>2
      <4>5. Cardinality(Replied(k)') > 2 * fOfJoiner \/ phase'[k] = "waits"
        BY <3>1, <3>2, <3>3, <4>2, fOfJoinerType
      <4>6. Cardinality(accepted'[k]) = Cardinality(accepted[k])
        BY <3>3
      <4> QED BY <3>1, <3>2, <3>3, <4>2, <4>4, <4>5, <4>6
    <3>5. CASE k # j
      <4>1. Replied(k)' = Replied(k)
        BY <1>7, <3>5 DEF Replied, JoinInv, TypeOK
      <4>2. dialled'[k] = dialled[k]
        BY <1>7, <3>5 DEF DialReply, JoinInv, TypeOK
      <4> QED BY <3>1, <3>3, <4>1, <4>2
    <3> QED BY <3>4, <3>5
  <2> QED BY <1>5, <2>6, <2>7, <2>8, <2>9 DEF JoinInv
<1> QED BY <1>6, <1>7 DEF CountAddNode

(* Counting an AddNode keeps the types of what it may change.              *)
LEMMA CountAddNodeType ==
    ASSUME TypeOK, NEW n \in Member, NEW m \in Member, NEW j \in Joiner,
           CountAddNode(n, m, j),
           heard' \in [Member -> [Joiner -> SUBSET Member]],
           main' \in [Member -> {"select", "return", "ended"}],
           taken' \in [Member -> SUBSET (Member \X Joiner)]
    PROVE  TypeOK'
<1>1. /\ addNodeCount' \in [Member -> [Joiner -> SUBSET Member]]
      /\ UNCHANGED <<isAddNodeBordcast, requested, listener, accepted,
                     AgreeJoinNum, phase>>
  BY DEF CountAddNode, TypeOK
<1>2. \/ UNCHANGED <<nodeTable, isReplyToAddNode, dialled>>
      \/ /\ nodeTable' = [nodeTable EXCEPT ![n] = Append(nodeTable[n], j)]
         /\ isReplyToAddNode' = [isReplyToAddNode EXCEPT ![n] = isReplyToAddNode[n] \cup {j}]
         /\ DialReply(n, j)
  <2> HIDE DEF DialReply, Enough
  <2>1. CASE Enough(n, j, addNodeCount'[n][j])
    BY <2>1 DEF CountAddNode
  <2>2. CASE ~Enough(n, j, addNodeCount'[n][j])
    BY <2>2 DEF CountAddNode
  <2> QED BY <2>1, <2>2
<1>3. nodeTable' \in [Member -> Seq(Joiner)]
  <2>1. nodeTable[n] \in Seq(Joiner) /\ Append(nodeTable[n], j) \in Seq(Joiner)
    BY DEF TypeOK
  <2>2. nodeTable \in [Member -> Seq(Joiner)]
    BY DEF TypeOK
  <2> QED BY <1>2, <2>1, <2>2
<1>4. isReplyToAddNode' \in [Member -> SUBSET Joiner]
  <2>1. isReplyToAddNode \in [Member -> SUBSET Joiner] /\ isReplyToAddNode[n] \cup {j} \in SUBSET Joiner
    BY DEF TypeOK
  <2>2. \/ isReplyToAddNode' = isReplyToAddNode
        \/ isReplyToAddNode' = [isReplyToAddNode EXCEPT ![n] = isReplyToAddNode[n] \cup {j}]
    BY <1>2
  <2> QED BY <2>1, <2>2
<1>5. dialled' \in [Joiner -> SUBSET Member]
  <2>1. dialled \in [Joiner -> SUBSET Member]
    BY DEF TypeOK
  <2>2. \/ dialled' = dialled
        \/ dialled' = [dialled EXCEPT ![j] = dialled[j] \cup {n}]
    BY <1>2 DEF DialReply
  <2> QED BY <2>1, <2>2
<1> QED BY <1>1, <1>3, <1>4, <1>5 DEF TypeOK

(* handleAddNode counts an AddNode that was sent, or leaves it to main.    *)
LEMMA handleAddNodeStep ==
    ASSUME JoinInv, NEW n \in Member, NEW m \in Member, NEW j \in Joiner,
           handleAddNode(n, m, j)
    PROVE  JoinInv'
<1>1. /\ m \in Told(j) /\ UNCHANGED main
      /\ heard' \in [Member -> [Joiner -> SUBSET Member]]
  BY DEF handleAddNode, Told, JoinInv, TypeOK
<1>2. CASE CountAddNode(n, m, j) /\ UNCHANGED taken
  <2>1. TypeOK'
    BY <1>1, <1>2, CountAddNodeType DEF JoinInv, TypeOK
  <2> QED BY <1>1, <1>2, <2>1, CountAddNodeStep
<1>3. CASE /\ taken' = [taken EXCEPT ![n] =
                          IF taken[n] = {} /\ main[n] = "select" THEN {<<m, j>>} ELSE taken[n]]
           /\ UNCHANGED <<nodeTable, addNodeCount, isAddNodeBordcast,
                          isReplyToAddNode, joinerVars>>
  <2>1. TypeOK'
    BY <1>1, <1>3 DEF JoinInv, TypeOK, joinerVars
  <2>2. \A k \in Joiner : Told(k)' = Told(k)
    BY <1>3 DEF Told
  <2>3. ToldHonest'
    <3>1. ASSUME NEW q \in Member, NEW t \in taken'[q]
          PROVE  t[1] \in Told(t[2])'
      <4>1. t \in taken[q] \/ t = <<m, j>>
        BY <1>3, <3>1 DEF JoinInv, TypeOK
      <4>2. CASE t \in taken[q]
        BY <2>2, <4>2 DEF JoinInv, ToldHonest, TypeOK
      <4>3. CASE t = <<m, j>>
        BY <1>1, <2>2, <4>3
      <4> QED BY <4>1, <4>2, <4>3
    <3> QED BY <1>3, <2>2, <3>1 DEF JoinInv, ToldHonest
  <2>4. RepliesKnown'
    BY <1>3 DEF JoinInv, RepliesKnown, Replied, joinerVars
  <2> QED BY <1>3, <2>1, <2>2, <2>3, <2>4, TableSame
<1> QED BY <1>2, <1>3 DEF handleAddNode

(* main handles what it took, or has come too early for it.                *)
LEMMA mainStep ==
    ASSUME JoinInv, NEW n \in Member, mainSelect(n) \/ mainReturn(n)
    PROVE  JoinInv'
<1>1. /\ main' \in [Member -> {"select", "return", "ended"}]
      /\ taken' \in [Member -> SUBSET (Member \X Joiner)]
      /\ UNCHANGED heard
      /\ \A q \in Member : taken'[q] \subseteq taken[q]
  <2>1. /\ main \in [Member -> {"select", "return", "ended"}]
        /\ taken \in [Member -> SUBSET (Member \X Joiner)]
    BY DEF JoinInv, TypeOK
  <2>2. /\ UNCHANGED heard
        /\ \/ main' = [main EXCEPT ![n] = "return"]
           \/ main' = [main EXCEPT ![n] = "ended"]
        /\ taken' = taken \/ taken' = [taken EXCEPT ![n] = {}]
    BY DEF mainSelect, mainReturn
  <2>3. \A q \in Member : taken'[q] \subseteq taken[q]
    BY <2>1, <2>2
  <2>4. taken' \in [Member -> SUBSET (Member \X Joiner)]
    BY <2>1, <2>2
  <2> QED BY <2>1, <2>2, <2>3, <2>4
<1>2. ASSUME NEW t \in taken[n], CountAddNode(n, t[1], t[2])
      PROVE  JoinInv'
  <2>1. t[1] \in Member /\ t[2] \in Joiner /\ t[1] \in Told(t[2])
    BY DEF JoinInv, ToldHonest, TypeOK
  <2>2. TypeOK'
    BY <1>1, <1>2, <2>1, CountAddNodeType DEF JoinInv, TypeOK
  <2> QED BY <1>1, <1>2, <2>1, <2>2, CountAddNodeStep
<1>3. CASE UNCHANGED <<nodeTable, addNodeCount, isAddNodeBordcast,
                       isReplyToAddNode, joinerVars>>
  <2>1. TypeOK'
    BY <1>1, <1>3 DEF JoinInv, TypeOK, joinerVars
  <2>2. \A k \in Joiner : Told(k)' = Told(k)
    BY <1>3 DEF Told
  <2>3. ToldHonest'
    BY <1>1, <1>3, <2>2 DEF JoinInv, ToldHonest, TypeOK
  <2>4. RepliesKnown'
    BY <1>3 DEF JoinInv, RepliesKnown, Replied, joinerVars
  <2> QED BY <1>3, <2>1, <2>2, <2>3, <2>4, TableSame
<1> QED BY <1>2, <1>3 DEF mainSelect, mainReturn

(* What the joiner does changes no table; a reply moves from the dial to a *)
(* handler and from there into AgreeJoinNum, or is refused.                *)
LEMMA JoinerStep ==
    ASSUME JoinInv, NEW j \in Joiner, UNCHANGED memberVars, TypeOK',
           \A k \in Joiner :
             /\ AgreeJoinNum'[k] + Cardinality(dialled'[k]) + Cardinality(accepted'[k])
                  <= AgreeJoinNum[k] + Cardinality(dialled[k]) + Cardinality(accepted[k])
             /\ phase'[k] # "waits" => phase[k] # "waits" \/ AgreeJoinNum[k] > 2 * fOfJoiner
    PROVE  JoinInv'
<1>1. \A k \in Joiner : Told(k)' = Told(k) /\ Replied(k)' = Replied(k)
  BY DEF Told, Replied, memberVars
<1>2. ToldHonest'
  BY <1>1 DEF JoinInv, ToldHonest, TypeOK, memberVars
<1>3. RepliesKnown'
  <2> SUFFICES ASSUME NEW k \in Joiner
               PROVE  /\ AgreeJoinNum'[k] + Cardinality(dialled'[k])
                           + Cardinality(accepted'[k]) <= Cardinality(Replied(k))
                      /\ phase'[k] # "waits" => Cardinality(Replied(k)) > 2 * fOfJoiner
    BY <1>1 DEF RepliesKnown
  <2>1. /\ AgreeJoinNum[k] + Cardinality(dialled[k]) + Cardinality(accepted[k])
             <= Cardinality(Replied(k))
        /\ phase[k] # "waits" => Cardinality(Replied(k)) > 2 * fOfJoiner
    BY DEF JoinInv, RepliesKnown
  <2>2. /\ Cardinality(dialled[k]) \in Nat /\ Cardinality(accepted[k]) \in Nat
        /\ Cardinality(dialled'[k]) \in Nat /\ Cardinality(accepted'[k]) \in Nat
        /\ Cardinality(Replied(k)) \in Nat
    <3>1. /\ dialled[k] \in SUBSET Member /\ accepted[k] \in SUBSET Member
          /\ dialled'[k] \in SUBSET Member /\ accepted'[k] \in SUBSET Member
          /\ Replied(k) \in SUBSET Member
      BY DEF JoinInv, TypeOK, Replied
    <3> QED BY <3>1, MembersFinite
  <2>3. AgreeJoinNum[k] \in Nat /\ AgreeJoinNum'[k] \in Nat
    BY DEF JoinInv, TypeOK
  <2> QED BY <2>1, <2>2, <2>3, fOfJoinerType
<1> QED BY <1>1, <1>2, <1>3, TableSame DEF memberVars

(* A reply is dialled, waits for Accept, is read by a handler and counted: *)
(* none of the joiner's steps makes two of one.                            *)
LEMMA JoinerActions ==
    ASSUME JoinInv, NEW j \in Joiner,
           \/ RequestJoin(j) \/ Listen(j) \/ Accept(j) \/ CheckEnough(j)
           \/ \E n \in Member : CountReply(j, n)
           \/ Join(j) \/ Serve(j)
    PROVE  JoinInv'
<1>1. /\ dialled \in [Joiner -> SUBSET Member] /\ accepted \in [Joiner -> SUBSET Member]
      /\ AgreeJoinNum \in [Joiner -> Nat]
      /\ phase \in [Joiner -> {"waits", "joined", "serves", "deaf"}]
      /\ listener \in [Joiner -> {"off", "accept", "check", "closed"}]
      /\ requested \subseteq Joiner
  BY DEF JoinInv, TypeOK
<1>2. \A k \in Joiner : /\ Cardinality(dialled[k]) \in Nat
                        /\ Cardinality(accepted[k]) \in Nat
                        /\ AgreeJoinNum[k] \in Nat
  BY <1>1, MembersFinite
<1>3. CASE RequestJoin(j)
  <2>1. TypeOK'
    BY <1>3 DEF RequestJoin, memberVars, JoinInv, TypeOK
  <2>2. UNCHANGED <<memberVars, dialled, accepted, AgreeJoinNum, phase>>
    BY <1>3 DEF RequestJoin
  <2> QED BY <1>2, <2>1, <2>2, JoinerStep
<1>4. CASE Listen(j)
  <2>1. TypeOK'
    BY <1>4 DEF Listen, memberVars, JoinInv, TypeOK
  <2>2. UNCHANGED <<memberVars, dialled, accepted, AgreeJoinNum, phase>>
    BY <1>4 DEF Listen
  <2> QED BY <1>2, <2>1, <2>2, JoinerStep
<1>5. CASE Accept(j)
  <2>1. PICK n \in dialled[j] :
          /\ dialled' = [dialled EXCEPT ![j] = dialled[j] \ {n}]
          /\ accepted' = [accepted EXCEPT ![j] = accepted[j] \cup {n}]
    BY <1>5 DEF Accept
  <2>2. /\ UNCHANGED <<memberVars, requested, AgreeJoinNum, phase>>
        /\ listener' = [listener EXCEPT ![j] = "check"]
    BY <1>5 DEF Accept
  <2>3. n \in Member
    BY <1>1
  <2>4. TypeOK'
    <3>1. dialled' \in [Joiner -> SUBSET Member] /\ accepted' \in [Joiner -> SUBSET Member]
      BY <1>1, <2>1, <2>3
    <3>2. listener' \in [Joiner -> {"off", "accept", "check", "closed"}]
      BY <1>1, <2>2
    <3> QED BY <2>2, <3>1, <3>2 DEF memberVars, JoinInv, TypeOK
  <2>5. Cardinality(dialled[j] \ {n}) = Cardinality(dialled[j]) - 1
    BY <1>1, MembersFinite, FS_RemoveElement
  <2>6. Cardinality(accepted[j] \cup {n}) <= Cardinality(accepted[j]) + 1
    BY <1>1, <2>3, OneMore
  <2>7. /\ Cardinality(dialled[j] \ {n}) \in Nat
        /\ Cardinality(accepted[j] \cup {n}) \in Nat
    <3>1. dialled[j] \ {n} \in SUBSET Member /\ accepted[j] \cup {n} \in SUBSET Member
      BY <1>1, <2>3
    <3> QED BY <3>1, MembersFinite
  <2>8. dialled'[j] = dialled[j] \ {n} /\ accepted'[j] = accepted[j] \cup {n}
    BY <1>1, <2>1
  <2>9. \A k \in Joiner : k # j => dialled'[k] = dialled[k] /\ accepted'[k] = accepted[k]
    BY <1>1, <2>1
  <2>10. \A k \in Joiner :
           AgreeJoinNum'[k] + Cardinality(dialled'[k]) + Cardinality(accepted'[k])
             <= AgreeJoinNum[k] + Cardinality(dialled[k]) + Cardinality(accepted[k])
    <3> TAKE k \in Joiner
    <3>1. CASE k = j
      <4>1. AgreeJoinNum'[j] = AgreeJoinNum[j]
        BY <2>2
      <4>2. Cardinality(dialled'[j]) = Cardinality(dialled[j]) - 1
        BY <2>5, <2>8
      <4>3. /\ Cardinality(accepted'[j]) <= Cardinality(accepted[j]) + 1
            /\ Cardinality(accepted'[j]) \in Nat
        BY <2>6, <2>7, <2>8
      <4> QED BY <1>2, <4>1, <4>2, <4>3, <3>1
    <3>2. CASE k # j
      BY <1>2, <2>2, <2>9, <3>2
    <3> QED BY <3>1, <3>2
  <2> QED BY <2>2, <2>4, <2>10, JoinerStep
<1>6. CASE CheckEnough(j)
  <2>1. /\ UNCHANGED <<memberVars, requested, accepted, AgreeJoinNum, phase>>
        /\ dialled' = dialled \/ dialled' = [dialled EXCEPT ![j] = {}]
        /\ \/ listener' = [listener EXCEPT ![j] = "closed"]
           \/ listener' = [listener EXCEPT ![j] = "accept"]
    BY <1>6 DEF CheckEnough
  <2>2. TypeOK'
    <3>1. dialled' \in [Joiner -> SUBSET Member]
      BY <1>1, <2>1
    <3>2. listener' \in [Joiner -> {"off", "accept", "check", "closed"}]
      BY <1>1, <2>1
    <3> QED BY <2>1, <3>1, <3>2 DEF memberVars, JoinInv, TypeOK
  <2>3. \A k \in Joiner : dialled'[k] = dialled[k] \/ dialled'[k] = {}
    BY <1>1, <2>1
  <2>4. \A k \in Joiner :
          AgreeJoinNum'[k] + Cardinality(dialled'[k]) + Cardinality(accepted'[k])
            <= AgreeJoinNum[k] + Cardinality(dialled[k]) + Cardinality(accepted[k])
    <3> TAKE k \in Joiner
    <3>1. CASE dialled'[k] = dialled[k]
      BY <1>2, <2>1, <3>1
    <3>2. CASE dialled'[k] = {}
      BY <1>2, <2>1, <3>2, FS_EmptySet
    <3> QED BY <2>3, <3>1, <3>2
  <2> QED BY <2>1, <2>2, <2>4, JoinerStep
<1>7. CASE \E n \in Member : CountReply(j, n)
  <2>1. PICK n \in accepted[j] :
          /\ accepted' = [accepted EXCEPT ![j] = accepted[j] \ {n}]
          /\ AgreeJoinNum' = [AgreeJoinNum EXCEPT ![j] = AgreeJoinNum[j] + 1]
          /\ UNCHANGED <<memberVars, requested, listener, dialled, phase>>
    BY <1>7 DEF CountReply, Agree
  <2>2. TypeOK'
    <3>1. accepted' \in [Joiner -> SUBSET Member]
      BY <1>1, <2>1
    <3>2. AgreeJoinNum' \in [Joiner -> Nat]
      BY <1>1, <2>1
    <3> QED BY <2>1, <3>1, <3>2 DEF memberVars, JoinInv, TypeOK
  <2>3. Cardinality(accepted[j] \ {n}) = Cardinality(accepted[j]) - 1
    BY <1>1, MembersFinite, FS_RemoveElement
  <2>4. accepted'[j] = accepted[j] \ {n} /\ AgreeJoinNum'[j] = AgreeJoinNum[j] + 1
    BY <1>1, <2>1
  <2>5. \A k \in Joiner :
          k # j => accepted'[k] = accepted[k] /\ AgreeJoinNum'[k] = AgreeJoinNum[k]
    BY <1>1, <2>1
  <2>6. \A k \in Joiner :
          AgreeJoinNum'[k] + Cardinality(dialled'[k]) + Cardinality(accepted'[k])
            <= AgreeJoinNum[k] + Cardinality(dialled[k]) + Cardinality(accepted[k])
    <3> TAKE k \in Joiner
    <3>1. CASE k = j
      <4>1. Cardinality(dialled'[j]) = Cardinality(dialled[j])
        BY <2>1
      <4>2. /\ Cardinality(accepted'[j]) = Cardinality(accepted[j]) - 1
            /\ Cardinality(accepted[j]) \in Nat
        BY <1>2, <2>3, <2>4
      <4>3. AgreeJoinNum'[j] = AgreeJoinNum[j] + 1
        BY <2>4
      <4> QED BY <1>2, <4>1, <4>2, <4>3, <3>1
    <3>2. CASE k # j
      BY <1>2, <2>1, <2>5, <3>2
    <3> QED BY <3>1, <3>2
  <2> QED BY <2>1, <2>2, <2>6, JoinerStep
<1>8. CASE Join(j)
  <2>1. /\ AgreeJoinNum[j] > 2 * fOfJoiner
        /\ phase' = [phase EXCEPT ![j] = "joined"]
        /\ UNCHANGED <<memberVars, requested, listener, dialled, accepted, AgreeJoinNum>>
    BY <1>8 DEF Join
  <2>2. TypeOK'
    <3>1. phase' \in [Joiner -> {"waits", "joined", "serves", "deaf"}]
      BY <1>1, <2>1
    <3> QED BY <2>1, <3>1 DEF memberVars, JoinInv, TypeOK
  <2>3. \A k \in Joiner :
          phase'[k] # "waits" => phase[k] # "waits" \/ AgreeJoinNum[k] > 2 * fOfJoiner
    BY <1>1, <2>1
  <2> QED BY <1>2, <2>1, <2>2, <2>3, JoinerStep
<1>9. CASE Serve(j)
  <2>1. /\ phase[j] = "joined"
        /\ \/ phase' = [phase EXCEPT ![j] = "deaf"]
           \/ phase' = [phase EXCEPT ![j] = "serves"]
        /\ UNCHANGED <<memberVars, requested, listener, dialled, accepted, AgreeJoinNum>>
    BY <1>9 DEF Serve
  <2>2. TypeOK'
    <3>1. phase' \in [Joiner -> {"waits", "joined", "serves", "deaf"}]
      BY <1>1, <2>1
    <3> QED BY <2>1, <3>1 DEF memberVars, JoinInv, TypeOK
  <2>3. \A k \in Joiner : phase'[k] # "waits" => phase[k] # "waits"
    BY <1>1, <2>1
  <2> QED BY <1>2, <2>1, <2>2, <2>3, JoinerStep
<1> QED BY <1>3, <1>4, <1>5, <1>6, <1>7, <1>8, <1>9

(* Every step of the system keeps the invariant.                           *)
LEMMA JoinStep == JoinInv /\ [Next]_vars => JoinInv'
<1> SUFFICES ASSUME JoinInv, [Next]_vars
             PROVE  JoinInv'
  OBVIOUS
<1>1. CASE UNCHANGED vars
  <2>1. TypeOK'
    BY <1>1 DEF vars, JoinInv, TypeOK
  <2>2. \A k \in Joiner : Told(k)' = Told(k)
    BY <1>1 DEF vars, Told
  <2>3. ToldHonest'
    BY <1>1, <2>2 DEF vars, JoinInv, ToldHonest, TypeOK
  <2>4. RepliesKnown'
    BY <1>1 DEF vars, JoinInv, RepliesKnown, Replied
  <2> QED BY <1>1, <2>1, <2>2, <2>3, <2>4, TableSame DEF vars
<1>2. CASE \E n \in Member, j \in Joiner : handleRequestAddNode(n, j)
  BY <1>2, RequestAddNodeStep
<1>3. CASE \E n \in Member, m \in Member, j \in Joiner : handleAddNode(n, m, j)
  BY <1>3, handleAddNodeStep
<1>4. CASE \E n \in Member : mainSelect(n) \/ mainReturn(n)
  BY <1>4, mainStep
<1>5. CASE \E j \in Joiner : \/ RequestJoin(j) \/ Listen(j) \/ Accept(j) \/ CheckEnough(j)
                             \/ \E n \in Member : CountReply(j, n)
                             \/ Join(j) \/ Serve(j)
  BY <1>5, JoinerActions
<1> QED BY <1>1, <1>2, <1>3, <1>4, <1>5 DEF Next

(* JoinInv holds in every reachable state.                                 *)
THEOREM JoinInvariant == Spec => []JoinInv
BY JoinInit, JoinStep, PTL DEF Spec

(* handleAddNode, pbft.go:200: for any number of members, a member lists a *)
(* joiner only after more than 2f members have told each other of it.      *)
THEOREM AdmittedByQuorumHolds == Spec => []AdmittedByQuorum
<1>1. JoinInv => AdmittedByQuorum
  BY DEF JoinInv
<1> QED BY <1>1, JoinInvariant, PTL

(* A joiner has one entry in a member's nodeTable, whatever comes late.    *)
THEOREM ListedOnceHolds == Spec => []ListedOnce
<1>1. JoinInv => ListedOnce
  BY DEF JoinInv
<1> QED BY <1>1, JoinInvariant, PTL

(* The joiner goes on past "for AgreeJoinNum <= 2*f {}" only when more     *)
(* than 2f members have it in their tables.                                *)
THEOREM JoinedIsKnownHolds == Spec => []JoinedIsKnown
<1>1. JoinInv => JoinedIsKnown
  <2>1. ListedReplied => \A j \in Joiner : Knowing(j) = Replied(j)
    BY DEF ListedReplied, Knowing, Replied
  <2> QED BY <2>1 DEF JoinInv, RepliesKnown, JoinedIsKnown
<1> QED BY <1>1, JoinInvariant, PTL
=============================================================================
