------------------------- MODULE RequestWindowProofs -------------------------
(***************************************************************************)
(* Theorems of RequestWindow, for every number of requests and capacity of *)
(* the channel: the window always opens again, whoever loses which race on *)
(* FlagTime and Firsttime, and the receive under the lock never starves.   *)
(***************************************************************************)
EXTENDS RequestWindow, FiniteSetTheorems, FunctionTheorems, TLAPS

(* A step of handler h leaves the other handlers where they are.           *)
LEMMA GotoAt ==
    ASSUME TypeOK, NEW h \in Request, NEW a, NEW b \in Label, Goto(h, a, b)
    PROVE  /\ pc' \in [Request -> Label]
           /\ pc[h] = a /\ pc'[h] = b
           /\ \A g \in Request \ {h} : pc'[g] = pc[g]
  BY DEF TypeOK, Goto

(* The program counters and queues start with their types.                 *)
LEMMA InitType == Init => TypeOK
  BY RequestAssumption DEF Init, TypeOK, Label

(* TypeOK is inductive.                                                    *)
LEMMA TypeStep == TypeOK /\ [Next]_vars => TypeOK'
<1> SUFFICES ASSUME TypeOK, [Next]_vars
             PROVE  TypeOK'
  OBVIOUS
<1>1. ASSUME NEW h \in Request, Arrive(h) \/ Step(h), UNCHANGED alive
      PROVE  TypeOK'
  <2>1. CASE Arrive(h)
    BY <1>1, <2>1, GotoAt DEF Arrive, TypeOK, Label
  <2>2. CASE CloseFlag(h)
    BY <1>1, <2>2, GotoAt DEF CloseFlag, TypeOK, Label
  <2>3. CASE OpenWindow(h)
    BY <1>1, <2>3, GotoAt DEF OpenWindow, TypeOK, Label
  <2>4. CASE Decode(h)
    BY <1>1, <2>4, GotoAt DEF Decode, TypeOK, Label
  <2>5. CASE Acquire(h, "send", "sending")
    BY <1>1, <2>5, GotoAt DEF Acquire, TypeOK, Label
  <2>6. CASE Send(h)
    BY <1>1, <2>6, GotoAt DEF Send, TypeOK, Label
  <2>7. CASE KeepConn(h)
    BY <1>1, <2>7, GotoAt DEF KeepConn, TypeOK, Label
  <2>8. CASE Acquire(h, "collect", "taking")
    BY <1>1, <2>8, GotoAt DEF Acquire, TypeOK, Label
  <2>9. CASE Collect(h)
    BY <1>1, <2>9, GotoAt DEF Collect, TypeOK, Label
  <2>10. CASE AskLead(h)
    BY <1>1, <2>10, GotoAt DEF AskLead, TypeOK, Label
  <2>11. CASE Lead(h)
    BY <1>1, <2>11, GotoAt DEF Lead, TypeOK, Label
  <2>12. CASE Elapse(h)
    BY <1>1, <2>12, GotoAt DEF Elapse, TypeOK, Label
  <2>13. CASE Take(h)
    BY <1>1, <2>13, GotoAt DEF Take, TypeOK, Label
  <2>14. CASE Clear(h)
    BY <1>1, <2>14, GotoAt DEF Clear, TypeOK, Label
  <2>15. CASE PoolAndNumber(h)
    BY <1>1, <2>15, GotoAt DEF PoolAndNumber, TypeOK, Label
  <2>16. CASE Announce(h)
    BY <1>1, <2>16, GotoAt DEF Announce, TypeOK, PrePrepares, Label
  <2> QED BY <1>1, <2>1, <2>2, <2>3, <2>4, <2>5, <2>6, <2>7, <2>8, <2>9, <2>10,
             <2>11, <2>12, <2>13, <2>14, <2>15, <2>16
          DEF Step, handleClientRequest, handleRequests
<1>2. ASSUME NEW g \in Request, NEW h \in Request, ConcurrentMapWrites(g, h)
      PROVE  TypeOK'
  BY <1>2 DEF ConcurrentMapWrites, TypeOK
<1>3. CASE UNCHANGED vars
  BY <1>3 DEF vars, TypeOK
<1> QED BY <1>1, <1>2, <1>3 DEF Next

(* Every variable of the window has its type in every reachable state.     *)
THEOREM TypeCorrect == Spec => []TypeOK
<1> QED BY InitType, TypeStep, PTL DEF Spec
-----------------------------------------------------------------------------
(* A closed window is about to be opened or led: the invariant survives    *)
(* every access to the two flags because the goroutine that takes the last *)
(* reason away has by then become one itself.                              *)
LEMMA ReopensStep == TypeOK /\ WindowReopens /\ [Next]_vars => WindowReopens'
<1> SUFFICES ASSUME TypeOK, WindowReopens, [Next]_vars
             PROVE  WindowReopens'
  OBVIOUS
<1> DEFINE Reason == {"first", "lead", "wait"}
<1>1. ASSUME NEW h \in Request, Arrive(h) \/ Step(h)
      PROVE  WindowReopens'
  <2>1. CASE CloseFlag(h)
    <3>1. h \in At(Reason)'
      BY <2>1, GotoAt DEF CloseFlag, At, Label
    <3> QED BY <3>1 DEF WindowReopens
  <2>2. CASE OpenWindow(h)
    BY <2>2 DEF OpenWindow, WindowReopens
  <2>3. CASE Lead(h)
    <3>1. h \in At(Reason)'
      BY <2>3, GotoAt DEF Lead, At, Label
    <3> QED BY <3>1 DEF WindowReopens
  <2>4. CASE Elapse(h)
    BY <2>4 DEF Elapse, WindowReopens
  <2>5. CASE /\ UNCHANGED <<FlagTime, Firsttime>>
             /\ \E a \in Label \ Reason, b \in Label : Goto(h, a, b)
    <3>1. \A g \in At(Reason) : g \in At(Reason)'
      BY <2>5, GotoAt DEF At
    <3> QED BY <2>5, <3>1 DEF WindowReopens
  <2>6. CASE Arrive(h)
    BY <2>5, <2>6 DEF Arrive, Label
  <2>7. CASE Decode(h)
    BY <2>5, <2>7 DEF Decode, Label
  <2>8. CASE Acquire(h, "send", "sending") \/ Acquire(h, "collect", "taking")
    BY <2>5, <2>8 DEF Acquire, Label
  <2>9. CASE Send(h) \/ KeepConn(h) \/ Collect(h) \/ AskLead(h)
    BY <2>5, <2>9 DEF Send, KeepConn, Collect, AskLead, Label
  <2>10. CASE handleRequests(h)
    BY <2>5, <2>10 DEF handleRequests, Take, Clear, PoolAndNumber, Announce, Label
  <2> QED BY <1>1, <2>1, <2>2, <2>3, <2>4, <2>6, <2>7, <2>8, <2>9, <2>10
          DEF Step, handleClientRequest
<1>2. ASSUME NEW g \in Request, NEW h \in Request, ConcurrentMapWrites(g, h)
      PROVE  WindowReopens'
  BY <1>2 DEF ConcurrentMapWrites, WindowReopens, At
<1>3. CASE UNCHANGED vars
  BY <1>3 DEF vars, WindowReopens, At
<1> QED BY <1>1, <1>2, <1>3 DEF Next

(* Whatever the order of the unlocked reads and writes of FlagTime and     *)
(* Firsttime (pbft.go:298-331), and although a malformed request ends its  *)
(* handler, a window always opens again or is being led.                   *)
THEOREM WindowReopensHolds == Spec => []WindowReopens
<1>1. Init => WindowReopens
  BY DEF Init, WindowReopens
<1> QED BY <1>1, InitType, TypeStep, ReopensStep, PTL DEF Spec

-----------------------------------------------------------------------------
(* Handlers between their send and their receive.                          *)
Owed == At({"conn", "collect", "taking"})

(* They are finitely many.                                                 *)
LEMMA OwedFinite == IsFiniteSet(Owed) /\ IsFiniteSet(Owed')
<1>1. Owed \subseteq Request /\ Owed' \subseteq Request
  BY DEF Owed, At
<1> QED BY <1>1, RequestAssumption, FS_Subset

(* A send puts one request in and makes its handler owe a receive; a       *)
(* receive undoes both.                                                    *)
LEMMA BalancedStep == TypeOK /\ QueueBalanced /\ [Next]_vars => QueueBalanced'
<1> SUFFICES ASSUME TypeOK, QueueBalanced, [Next]_vars
             PROVE  QueueBalanced'
  OBVIOUS
<1>0. Len(reqMessageChan) = Cardinality(Owed) /\ reqMessageChan \in Seq(Request)
  BY DEF QueueBalanced, Owed, TypeOK
<1> DEFINE Owes == {"conn", "collect", "taking"}
<1>1. ASSUME NEW h \in Request, Arrive(h) \/ Step(h)
      PROVE  QueueBalanced'
  <2>1. CASE Send(h)
    <3>1. Owed' = Owed \cup {h} /\ h \notin Owed
      BY <2>1, GotoAt DEF Send, Owed, At, Label
    <3>2. Cardinality(Owed') = Cardinality(Owed) + 1
      BY <3>1, OwedFinite, FS_AddElement
    <3>3. Len(reqMessageChan') = Len(reqMessageChan) + 1
      BY <1>0, <2>1 DEF Send
    <3> QED BY <1>0, <3>2, <3>3 DEF QueueBalanced, Owed
  <2>2. CASE Collect(h)
    <3>1. Owed' = Owed \ {h} /\ h \in Owed
      BY <2>2, GotoAt DEF Collect, Owed, At, Label
    <3>2. Cardinality(Owed') = Cardinality(Owed) - 1
      BY <3>1, OwedFinite, FS_RemoveElement
    <3>3. Len(reqMessageChan') = Len(reqMessageChan) - 1
      BY <1>0, <2>2 DEF Collect
    <3> QED BY <1>0, <3>2, <3>3 DEF QueueBalanced, Owed
  <2>3. CASE /\ UNCHANGED reqMessageChan
             /\ \E a, b \in Label : Goto(h, a, b) /\ (a \in Owes <=> b \in Owes)
    <3>1. Owed' = Owed
      BY <2>3, GotoAt DEF Owed, At
    <3> QED BY <2>3, <3>1 DEF QueueBalanced, Owed
  <2>4. CASE Arrive(h) \/ CloseFlag(h) \/ OpenWindow(h)
    BY <2>3, <2>4 DEF Arrive, CloseFlag, OpenWindow, Label
  <2>5. CASE Decode(h) \/ KeepConn(h)
    BY <2>3, <2>5 DEF Decode, KeepConn, Label
  <2>6. CASE Acquire(h, "send", "sending") \/ Acquire(h, "collect", "taking")
    BY <2>3, <2>6 DEF Acquire, Label
  <2>7. CASE AskLead(h) \/ Lead(h) \/ Elapse(h)
    BY <2>3, <2>7 DEF AskLead, Lead, Elapse, Label
  <2>8. CASE handleRequests(h)
    BY <2>3, <2>8 DEF handleRequests, Take, Clear, PoolAndNumber, Announce, Label
  <2> QED BY <1>1, <2>1, <2>2, <2>4, <2>5, <2>6, <2>7, <2>8
          DEF Step, handleClientRequest
<1>2. ASSUME NEW g \in Request, NEW h \in Request, ConcurrentMapWrites(g, h)
      PROVE  QueueBalanced'
  BY <1>2 DEF ConcurrentMapWrites, QueueBalanced, At
<1>3. CASE UNCHANGED vars
  BY <1>3 DEF vars, QueueBalanced, At
<1> QED BY <1>1, <1>2, <1>3 DEF Next

(* Nothing is owed at the start.                                           *)
LEMMA BalancedInit == Init => QueueBalanced
<1> SUFFICES ASSUME Init
             PROVE  QueueBalanced
  OBVIOUS
<1>1. Owed = {}
  BY DEF Init, Owed, At
<1> QED BY <1>1, FS_EmptySet DEF Init, QueueBalanced, Owed

(* reqMessageChan holds one request per handler that has sent and not yet  *)
(* received (pbft.go:316-324).                                             *)
THEOREM QueueBalancedHolds == Spec => []QueueBalanced
<1> QED BY BalancedInit, InitType, TypeStep, BalancedStep, PTL DEF Spec

(* Hence the receive of pbft.go:323, made with p.lock held, never waits    *)
(* for a sender that would need the lock.                                  *)
NeverStarved == \A h \in Request : pc[h] = "taking" => reqMessageChan # <<>>

(* It holds in every reachable state.                                      *)
THEOREM NeverStarvedHolds == Spec => []NeverStarved
<1>1. TypeOK /\ QueueBalanced => NeverStarved
  <2> SUFFICES ASSUME TypeOK, QueueBalanced, NEW h \in Request, pc[h] = "taking"
               PROVE  reqMessageChan # <<>>
    BY DEF NeverStarved
  <2>1. h \in Owed
    BY DEF Owed, At
  <2>2. Cardinality(Owed) # 0
    BY <2>1, OwedFinite, FS_EmptySet
  <2> QED BY <2>2 DEF QueueBalanced, Owed
<1> QED BY <1>1, TypeCorrect, QueueBalancedHolds, PTL
-----------------------------------------------------------------------------
(* A sequence holds a request finitely often.                              *)
LEMMA OccurrencesType ==
    ASSUME NEW s \in Seq(Request), NEW r
    PROVE  IsFiniteSet(Places(r, s)) /\ Occurrences(r, s) \in Nat
<1>1. IsFiniteSet(1 .. Len(s))
  BY FS_Interval
<1>2. IsFiniteSet(Places(r, s))
  BY <1>1, FS_Subset DEF Places
<1> QED BY <1>2, FS_CardinalityType DEF Occurrences

(* Appending adds one occurrence of the element appended.                  *)
LEMMA OccurrencesAppend ==
    ASSUME NEW s \in Seq(Request), NEW x \in Request, NEW r
    PROVE  Occurrences(r, Append(s, x))
             = Occurrences(r, s) + (IF x = r THEN 1 ELSE 0)
<1>1. /\ Len(Append(s, x)) = Len(s) + 1
      /\ \A i \in 1 .. Len(s) : Append(s, x)[i] = s[i]
      /\ Append(s, x)[Len(s) + 1] = x
  OBVIOUS
<1>2. CASE x = r
  <2>1. Places(r, Append(s, x)) = Places(r, s) \cup {Len(s) + 1}
    BY <1>1, <1>2 DEF Places
  <2>2. Len(s) + 1 \notin Places(r, s)
    BY DEF Places
  <2>3. Cardinality(Places(r, s) \cup {Len(s) + 1}) = Cardinality(Places(r, s)) + 1
    BY <2>2, OccurrencesType, FS_AddElement
  <2> QED BY <1>2, <2>1, <2>3 DEF Occurrences
<1>3. CASE x # r
  <2>1. Places(r, Append(s, x)) = Places(r, s)
    BY <1>1, <1>3 DEF Places
  <2> QED BY <1>3, <2>1, OccurrencesType DEF Occurrences
<1> QED BY <1>2, <1>3

(* Taking the head off takes off one occurrence of it.                     *)
LEMMA OccurrencesTail ==
    ASSUME NEW s \in Seq(Request), s # <<>>, NEW r
    PROVE  Occurrences(r, Tail(s)) + (IF Head(s) = r THEN 1 ELSE 0)
             <= Occurrences(r, s)
<1> DEFINE rest == Places(r, s) \ {1}
           g == [i \in Places(r, Tail(s)) |-> i + 1]
<1>1. /\ Len(Tail(s)) = Len(s) - 1 /\ Head(s) = s[1]
      /\ Len(s) \in Nat \ {0} /\ Tail(s) \in Seq(Request)
      /\ \A i \in 1 .. Len(Tail(s)) : Tail(s)[i] = s[i + 1]
  OBVIOUS
<1>2. g \in Injection(Places(r, Tail(s)), rest)
  <2>1. g \in [Places(r, Tail(s)) -> rest]
    BY <1>1 DEF Places
  <2>2. \A i, j \in Places(r, Tail(s)) : g[i] = g[j] => i = j
    BY DEF Places
  <2> QED BY <2>1, <2>2 DEF Injection, IsInjective
<1>3. IsFiniteSet(rest)
  BY OccurrencesType, FS_Subset
<1>4. Cardinality(Places(r, Tail(s))) <= Cardinality(rest)
  BY <1>2, <1>3, FS_Injection
<1>5. Cardinality(rest) + (IF Head(s) = r THEN 1 ELSE 0) <= Cardinality(Places(r, s))
  <2>1. Head(s) = r => 1 \in Places(r, s)
    BY <1>1 DEF Places
  <2>2. Cardinality(Places(r, s)) \in Nat
    BY OccurrencesType, FS_CardinalityType
  <2>3. CASE Head(s) = r
    <3>1. 1 \in Places(r, s) /\ IsFiniteSet(Places(r, s))
      BY <2>1, <2>3, OccurrencesType
    <3>2. Cardinality(rest) = Cardinality(Places(r, s)) - 1
      BY <3>1, FS_RemoveElement
    <3> QED BY <2>2, <2>3, <3>2
  <2>4. CASE Head(s) # r
    <3>1. 1 \notin Places(r, s)
      BY <1>1, <2>4 DEF Places
    <3>2. rest = Places(r, s)
      BY <3>1
    <3>3. Cardinality(rest) = Cardinality(Places(r, s))
      BY <3>2
    <3> HIDE DEF rest
    <3> QED BY <2>2, <2>4, <3>3
  <2> QED BY <2>3, <2>4
<1>6. /\ Cardinality(Places(r, Tail(s))) \in Nat
      /\ Cardinality(rest) \in Nat
      /\ Cardinality(Places(r, s)) \in Nat
  BY <1>1, <1>3, OccurrencesType, FS_CardinalityType
<1> HIDE DEF rest, g
<1> QED BY <1>4, <1>5, <1>6 DEF Occurrences

(* The empty queue holds no request.                                       *)
LEMMA OccurrencesEmpty == \A r : Occurrences(r, <<>>) = 0
<1>1. \A r : Places(r, <<>>) = {}
  BY DEF Places
<1> QED BY <1>1, FS_EmptySet DEF Occurrences

(* The handlers whose request may be in a queue.                           *)
Sent == {"conn", "collect", "taking", "leader", "lead", "wait", "take", "clear",
         "pool", "announce", "done"}

Unsent == {"idle", "open", "first", "decode", "send", "sending"}

(* CollectedOnce, said of the queues before and after a step.              *)
LEMMA CollectedBefore ==
    ASSUME TypeOK, CollectedOnce, NEW r \in Request
    PROVE  /\ pc[r] \in Unsent => Occurrences(r, reqMessageChan) + Occurrences(r, rm) <= 0
           /\ Occurrences(r, reqMessageChan) + Occurrences(r, rm) <= 1
<1>1. Occurrences(r, reqMessageChan) \in Nat /\ Occurrences(r, rm) \in Nat
  BY OccurrencesType DEF TypeOK
<1> QED BY <1>1 DEF CollectedOnce, Unsent

(* The same of the queues after it.                                        *)
LEMMA CollectedAfter ==
    ASSUME \A r \in Request :
             /\ pc'[r] \in Unsent => Occurrences(r, reqMessageChan') + Occurrences(r, rm') <= 0
             /\ Occurrences(r, reqMessageChan') + Occurrences(r, rm') <= 1
    PROVE  CollectedOnce'
  BY DEF CollectedOnce, Unsent, Occurrences, Places

(* A request enters the channel once, by the send of its handler, moves to *)
(* rm whole, and leaves it with a batch.                                   *)
LEMMA CollectedStep == TypeOK /\ CollectedOnce /\ [Next]_vars => CollectedOnce'
<1> SUFFICES ASSUME TypeOK, CollectedOnce, [Next]_vars
             PROVE  CollectedOnce'
  OBVIOUS
<1>0. /\ reqMessageChan \in Seq(Request) /\ rm \in Seq(Request)
      /\ \A r \in Request : Occurrences(r, reqMessageChan) \in Nat
                             /\ Occurrences(r, rm) \in Nat
  BY OccurrencesType DEF TypeOK
<1>1. ASSUME NEW h \in Request, Arrive(h) \/ Step(h)
      PROVE  CollectedOnce'
  <2>1. CASE Send(h)
    <3> SUFFICES ASSUME NEW r \in Request
                 PROVE  /\ pc'[r] \in Unsent
                             => Occurrences(r, reqMessageChan') + Occurrences(r, rm') <= 0
                        /\ Occurrences(r, reqMessageChan') + Occurrences(r, rm') <= 1
      BY CollectedAfter
    <3>0. /\ pc[r] \in Unsent => Occurrences(r, reqMessageChan) + Occurrences(r, rm) <= 0
          /\ Occurrences(r, reqMessageChan) + Occurrences(r, rm) <= 1
      BY CollectedBefore
    <3>1. /\ reqMessageChan' = Append(reqMessageChan, h) /\ rm' = rm
          /\ pc[h] = "sending" /\ pc'[h] = "conn"
          /\ \A g \in Request \ {h} : pc'[g] = pc[g]
      BY <2>1, GotoAt DEF Send, Label
    <3>2. \A q \in Request : Occurrences(q, reqMessageChan')
            = Occurrences(q, reqMessageChan) + (IF h = q THEN 1 ELSE 0)
      BY <1>0, <3>1, OccurrencesAppend
    <3> QED BY <1>0, <3>1, <3>2, <3>0 DEF Unsent
  <2>2. CASE Collect(h)
    <3> SUFFICES ASSUME NEW r \in Request
                 PROVE  /\ pc'[r] \in Unsent
                             => Occurrences(r, reqMessageChan') + Occurrences(r, rm') <= 0
                        /\ Occurrences(r, reqMessageChan') + Occurrences(r, rm') <= 1
      BY CollectedAfter
    <3>0. /\ pc[r] \in Unsent => Occurrences(r, reqMessageChan) + Occurrences(r, rm) <= 0
          /\ Occurrences(r, reqMessageChan) + Occurrences(r, rm) <= 1
      BY CollectedBefore
    <3>1. /\ reqMessageChan # <<>> /\ reqMessageChan' = Tail(reqMessageChan)
          /\ rm' = Append(rm, Head(reqMessageChan))
          /\ pc[h] = "taking" /\ pc'[h] = "leader"
          /\ \A g \in Request \ {h} : pc'[g] = pc[g]
      BY <2>2, GotoAt DEF Collect, Label
    <3>2. Head(reqMessageChan) \in Request /\ Tail(reqMessageChan) \in Seq(Request)
      BY <1>0, <3>1
    <3>3. \A q \in Request :
            /\ Occurrences(q, reqMessageChan')
                 + (IF Head(reqMessageChan) = q THEN 1 ELSE 0)
                 <= Occurrences(q, reqMessageChan)
            /\ Occurrences(q, rm') = Occurrences(q, rm)
                 + (IF Head(reqMessageChan) = q THEN 1 ELSE 0)
            /\ Occurrences(q, reqMessageChan') \in Nat
      BY <1>0, <3>1, <3>2, OccurrencesTail, OccurrencesAppend, OccurrencesType
    <3>4. pc'[r] \in Unsent => pc[r] \in Unsent
      BY <3>1 DEF Unsent
    <3>5. Occurrences(r, reqMessageChan') + Occurrences(r, rm')
            <= Occurrences(r, reqMessageChan) + Occurrences(r, rm)
      <4>1. /\ Occurrences(r, reqMessageChan) \in Nat /\ Occurrences(r, rm) \in Nat
            /\ Occurrences(r, reqMessageChan') \in Nat
        BY <1>0, <3>3
      <4> QED BY <3>3, <4>1
    <3>6. /\ Occurrences(r, reqMessageChan) + Occurrences(r, rm) \in Int
          /\ Occurrences(r, reqMessageChan') + Occurrences(r, rm') \in Int
      BY <1>0, <3>3
    <3> QED BY <3>0, <3>4, <3>5, <3>6
  <2>3. CASE Clear(h)
    <3> SUFFICES ASSUME NEW r \in Request
                 PROVE  /\ pc'[r] \in Unsent
                             => Occurrences(r, reqMessageChan') + Occurrences(r, rm') <= 0
                        /\ Occurrences(r, reqMessageChan') + Occurrences(r, rm') <= 1
      BY CollectedAfter
    <3>0. /\ pc[r] \in Unsent => Occurrences(r, reqMessageChan) + Occurrences(r, rm) <= 0
          /\ Occurrences(r, reqMessageChan) + Occurrences(r, rm) <= 1
      BY CollectedBefore
    <3>1. reqMessageChan' = reqMessageChan /\ rm' = <<>>
      BY <2>3 DEF Clear
    <3>2. \A q \in Request : Occurrences(q, rm') = 0
      BY <3>1, OccurrencesEmpty
    <3>3. pc[h] \in Sent /\ pc'[h] \in Sent /\ \A g \in Request \ {h} : pc'[g] = pc[g]
      BY <2>3, GotoAt DEF Clear, Label, Sent
    <3>4. pc'[r] \in Unsent => pc[r] \in Unsent
      BY <3>3 DEF Sent, Unsent
    <3> QED BY <1>0, <3>0, <3>1, <3>2, <3>4
  <2>4. CASE /\ UNCHANGED <<reqMessageChan, rm>>
             /\ \E a, b \in Label : Goto(h, a, b) /\ (a \in Sent => b \in Sent)
    <3>1. \A g \in Request : pc[g] \in Sent => pc'[g] \in Sent
      BY <2>4, GotoAt
    <3>2. \A g \in Request : pc[g] \in Label /\ pc'[g] \in Label
      BY <2>4, GotoAt DEF TypeOK
    <3> QED BY <1>0, <2>4, <3>1, <3>2, CollectedBefore, CollectedAfter DEF Sent, Unsent, Label
  <2>5. CASE Arrive(h) \/ CloseFlag(h) \/ OpenWindow(h)
    BY <2>4, <2>5 DEF Arrive, CloseFlag, OpenWindow, Label, Sent
  <2>6. CASE Decode(h) \/ KeepConn(h)
    BY <2>4, <2>6 DEF Decode, KeepConn, Label, Sent
  <2>7. CASE Acquire(h, "send", "sending") \/ Acquire(h, "collect", "taking")
    BY <2>4, <2>7 DEF Acquire, Label, Sent
  <2>8. CASE AskLead(h) \/ Lead(h) \/ Elapse(h)
    BY <2>4, <2>8 DEF AskLead, Lead, Elapse, Label, Sent
  <2>9. CASE Take(h) \/ PoolAndNumber(h) \/ Announce(h)
    BY <2>4, <2>9 DEF Take, PoolAndNumber, Announce, Label, Sent
  <2> QED BY <1>1, <2>1, <2>2, <2>3, <2>5, <2>6, <2>7, <2>8, <2>9
          DEF Step, handleClientRequest, handleRequests
<1>2. ASSUME NEW g \in Request, NEW h \in Request, ConcurrentMapWrites(g, h)
      PROVE  CollectedOnce'
  BY <1>2 DEF ConcurrentMapWrites, CollectedOnce
<1>3. CASE UNCHANGED vars
  BY <1>3 DEF vars, CollectedOnce
<1> QED BY <1>1, <1>2, <1>3 DEF Next

(* A request is in the channel or in rm at most once, and only after its   *)
(* handler has sent it (pbft.go:316-348).                                  *)
THEOREM CollectedOnceHolds == Spec => []CollectedOnce
<1>1. Init => CollectedOnce
  <2> SUFFICES ASSUME Init
               PROVE  CollectedOnce
    OBVIOUS
  <2> QED BY OccurrencesEmpty DEF Init, CollectedOnce
<1> QED BY <1>1, InitType, TypeStep, CollectedStep, PTL DEF Spec
=============================================================================
