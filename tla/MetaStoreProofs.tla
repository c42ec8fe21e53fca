--------------------------- MODULE MetaStoreProofs ---------------------------
(***************************************************************************)
(* Theorems of MetaStore, for any batches, any number of requests, nodes,  *)
(* crashes and calls of handleUpdataNodeToHash.                            *)
(*                                                                         *)
(* What a reader finds and what is listed after a return depends on how    *)
(* far handleBlockStorage has come: StoreInv says at each of its           *)
(* statements what is already stored, counting an Insert under way.        *)
(***************************************************************************)
EXTENDS MetaStore, FiniteSetTheorems, SequenceTheorems, TLAPS

Pending(S, v) == insert # Nil /\ insert[1] = S /\ insert[2] = v

Listed(S, v) == v \in Values(S) \/ Pending(S, v)

NodeListed(r, n) == n \in dropped \/ \E v \in Listings(r, n) : Listed(n, v)

RequestListed(r) ==
    /\ DataHashToGRdigest[r.DataHash] # Nil
    /\ Listed(r.Reciver, r.DataHash)
    /\ \A n \in Holders(r) : NodeListed(r, n)

(* A digest leads to a slice with the hash it was found under.             *)
HashesLead ==
    \A h \in Hash : DataHashToGRdigest[h] # Nil =>
        h \in Hashes(DataHashToGRdigest[h]) /\ Found(DataHashToGRdigest[h])

(* What a receiver's bucket lists, or is about to list, can be looked up.  *)
ListedLead ==
    \A R \in Reciver : \A v \in Entry :
        Listed(R, v) => v \in Hash /\ DataHashToGRdigest[v] # Nil

(* What is marked is there, but for buckets that were deleted; an Insert   *)
(* appends only what is not marked, and marks what it has appended.        *)
MarksHonest ==
    /\ \A S \in Bucket \ dropped : isinfo[S] \subseteq Values(S)
    /\ insert # Nil =>
          IF insert[3] = 1 THEN insert[2] \notin isinfo[insert[1]]
          ELSE insert[2] \in Values(insert[1]) \/ insert[1] \in dropped

(* handleNewdata counts its keys up to 0.                                  *)
KeysCounted ==
    /\ pc \in {"newseq", "newhash", "newgr"} =>
          number = 0 - Len(newdata) /\ \A k \in number .. 0 : k \in Keys
    /\ pc = "newseq" => index = 1

(* How far the storing of the batch has come.                              *)
Progress ==
    /\ pc \in {"seq", "block", "gr"} => index = 1
    /\ pc \in {"gr", "hash", "nodes", "rec", "end"} => Listed(Block, batch)
    /\ pc \in {"hash", "nodes", "rec", "end"} => batch \in GRdigestToGR
    /\ pc \in {"hash", "nodes", "rec"} =>
          \A i \in 1 .. index - 1 : RequestListed(Requests[batch][i])
    /\ pc = "end" => \A i \in 1 .. Len(Requests[batch]) : RequestListed(Requests[batch][i])
    /\ pc \in {"nodes", "rec"} =>
          /\ DataHashToGRdigest[Current.DataHash] # Nil
          /\ \A n \in Holders(Current) : NodeListed(Current, n) \/ (pc = "nodes" /\ n \in todo)

(* Copies beyond the crashes are marked, or about to be.                   *)
CopiesCounted ==
    \A S \in Bucket, v \in Entry :
        Cardinality(Copies(S, v)) <=
            crashes + (IF v \in isinfo[S] \/ insert = <<S, v, 2>> THEN 1 ELSE 0)

StoreInv ==
    /\ TypeOK /\ HashesLead /\ ListedLead /\ MarksHonest /\ Progress /\ CopiesCounted
    /\ KeysCounted /\ LookupSucceeds /\ StoredIsListed

-----------------------------------------------------------------------------
(* A listing is an entry: its order is a sequence of finitely many chips.  *)
LEMMA ListingTyped ==
    ASSUME NEW r \in Request, NEW n \in Node
    PROVE  Listings(r, n) \subseteq Entry
<1>1. Cardinality(ChipsAt(r, n)) \in Nat
  BY ChipAssumption, FS_Subset, FS_CardinalityType DEF ChipsAt
<1>2. SetToSeqs(ChipsAt(r, n)) \subseteq Seq(Chip)
  <2> SUFFICES ASSUME NEW s \in SetToSeqs(ChipsAt(r, n))
               PROVE  s \in Seq(Chip)
    OBVIOUS
  <2>1. s \in [1 .. Cardinality(ChipsAt(r, n)) -> Chip]
    BY DEF SetToSeqs, ChipsAt
  <2> QED BY <1>1, <2>1, SeqDef
<1> QED BY <1>2 DEF Listings, Entry, Request

LEMMA RequestTyped ==
    ASSUME NEW b \in Batch, NEW i \in 1 .. Len(Requests[b])
    PROVE  /\ Requests[b][i] \in Request
           /\ Requests[b][i].DataHash \in Hash /\ Requests[b][i].Reciver \in Reciver
           /\ Holders(Requests[b][i]) \subseteq Node
<1>1. Requests[b] \in Seq(Request)
  BY BatchAssumption
<1>2. Requests[b][i] \in Request
  BY <1>1
<1> QED BY <1>2 DEF Request, Holders

LEMMA BatchNotEmpty ==
    ASSUME NEW b \in Batch
    PROVE  Len(Requests[b]) \in Nat \ {0}
<1>1. Requests[b] \in Seq(Request) /\ Requests[b] # <<>>
  BY BatchAssumption
<1> QED BY <1>1

(* The request the loop is at.                                             *)
LEMMA CurrentTyped ==
    ASSUME TypeOK
    PROVE  /\ Current \in Request
           /\ Current.DataHash \in Hash /\ Current.Reciver \in Reciver
           /\ Holders(Current) \subseteq Node
           /\ Current.DataHash \in Hashes(batch)
<1>1. batch \in Batch /\ index \in 1 .. Len(Requests[batch])
  BY DEF TypeOK
<1> QED BY <1>1, RequestTyped DEF Current, Hashes

-----------------------------------------------------------------------------
(* What Append does to a bucket.                                           *)
LEMMA AppendedValues ==
    ASSUME NEW seq \in Seq(Entry), NEW v \in Entry
    PROVE  /\ Append(seq, v) \in Seq(Entry)
           /\ {Append(seq, v)[i] : i \in 1 .. Len(Append(seq, v))} =
                 {seq[i] : i \in 1 .. Len(seq)} \cup {v}
<1>1. Append(seq, v) \in Seq(Entry)
  OBVIOUS
<1>2. Len(seq) \in Nat /\ Len(Append(seq, v)) = Len(seq) + 1
  OBVIOUS
<1>3. \A i \in 1 .. Len(seq) : Append(seq, v)[i] = seq[i]
  OBVIOUS
<1>4. Append(seq, v)[Len(seq) + 1] = v
  OBVIOUS
<1> QED BY <1>1, <1>2, <1>3, <1>4

LEMMA AppendedCopies ==
    ASSUME NEW seq \in Seq(Entry), NEW v \in Entry, NEW w
    PROVE  {i \in 1 .. Len(Append(seq, v)) : Append(seq, v)[i] = w} =
             IF w = v THEN {i \in 1 .. Len(seq) : seq[i] = w} \cup {Len(seq) + 1}
             ELSE {i \in 1 .. Len(seq) : seq[i] = w}
<1>1. Len(seq) \in Nat /\ Len(Append(seq, v)) = Len(seq) + 1
  OBVIOUS
<1>2. \A i \in 1 .. Len(seq) : Append(seq, v)[i] = seq[i]
  OBVIOUS
<1>3. Append(seq, v)[Len(seq) + 1] = v
  OBVIOUS
<1> QED BY <1>1, <1>2, <1>3

(* A bucket has finitely many copies of a value.                           *)
LEMMA CopiesFinite ==
    ASSUME TypeOK, NEW S \in Bucket, NEW v
    PROVE  IsFiniteSet(Copies(S, v)) /\ Cardinality(Copies(S, v)) \in Nat
<1>1. Len(table[S]) \in Nat
  BY DEF TypeOK
<1>2. IsFiniteSet(1 .. Len(table[S]))
  BY <1>1, FS_Interval
<1>3. IsFiniteSet(Copies(S, v))
  BY <1>2, FS_Subset DEF Copies
<1> QED BY <1>3, FS_CardinalityType

-----------------------------------------------------------------------------
LEMMA StoreInit == Init => StoreInv
<1> SUFFICES ASSUME Init
             PROVE  StoreInv
  OBVIOUS
<1>1. index \in 1 .. Len(Requests[batch])
  BY BatchNotEmpty DEF Init
<1>2. TypeOK /\ KeysCounted
  BY <1>1, BoundAssumption DEF Init, TypeOK, Keys, KeysCounted
<1>3. \A S \in Bucket : Values(S) = {} /\ isinfo[S] = {}
  BY DEF Init, Values
<1>4. HashesLead /\ ListedLead /\ MarksHonest /\ Progress /\ LookupSucceeds /\ StoredIsListed
  BY <1>3 DEF Init, HashesLead, ListedLead, Listed, Pending, MarksHonest, Progress,
              LookupSucceeds, StoredIsListed, Bucket
<1>5. CopiesCounted
  <2> SUFFICES ASSUME NEW S \in Bucket, NEW v \in Entry
               PROVE  Cardinality(Copies(S, v)) <=
                        crashes + (IF v \in isinfo[S] \/ insert = <<S, v, 2>> THEN 1 ELSE 0)
    BY DEF CopiesCounted
  <2>1. Copies(S, v) = {}
    BY DEF Init, Copies
  <2> QED BY <2>1, FS_EmptySet DEF Init
<1> QED BY <1>2, <1>4, <1>5 DEF StoreInv

-----------------------------------------------------------------------------
(* Types, one step per action                                              *)

LEMMA SearchTyped ==
    ASSUME NEW S \in Bucket, NEW v \in Entry, Search(S, v)
    PROVE  insert' \in {Nil} \cup (Bucket \X Entry \X {1, 2})
BY DEF Search

(* The two transactions of an Insert.                                      *)
Putting(S, v) ==
    /\ insert = <<S, v, 1>> /\ insert' = <<S, v, 2>>
    /\ table' = [table EXCEPT ![S] = Append(@, v)]
    /\ isinfo' = isinfo

Marking(S, v) ==
    /\ insert = <<S, v, 2>> /\ insert' = Nil
    /\ isinfo' = [isinfo EXCEPT ![S] = @ \cup {v}]
    /\ table' = table

LEMMA InsertCases ==
    ASSUME TypeOK, Insert
    PROVE  \E S \in Bucket, v \in Entry : Putting(S, v) \/ Marking(S, v)
<1>1. insert \in Bucket \X Entry \X {1, 2}
  BY DEF TypeOK, Insert
<1>2. PICK S \in Bucket, v \in Entry, k \in {1, 2} : insert = <<S, v, k>>
  BY <1>1
<1>3. CASE k = 1
  <2>1. InsertSteps[k] = "put" /\ k < Len(InsertSteps) /\ k + 1 = 2
    BY <1>3 DEF InsertSteps
  <2>2. Putting(S, v)
    BY <1>2, <1>3, <2>1 DEF Insert, Putting
  <2> QED BY <2>2
<1>4. CASE k = 2
  <2>1. InsertSteps[k] # "put" /\ ~(k < Len(InsertSteps))
    BY <1>4 DEF InsertSteps
  <2>2. Marking(S, v)
    BY <1>2, <1>4, <2>1 DEF Insert, Marking
  <2> QED BY <2>2
<1> QED BY <1>3, <1>4

LEMMA TypeStep == StoreInv /\ Next => TypeOK'
<1> SUFFICES ASSUME StoreInv, Next
             PROVE  TypeOK'
  OBVIOUS
<1> USE DEF StoreInv
<1>1. ASSUME NEW b \in Batch, NEW s \in SequenceID, handleReply(b, s)
      PROVE  TypeOK'
  <2>1. 1 \in 1 .. Len(Requests[b])
    BY BatchNotEmpty
  <2> QED BY <1>1, <2>1 DEF handleReply, TypeOK, Keys, tables, catchup, lookups, history, Goto
<1>2. CASE UpdateSeq
  BY <1>2 DEF UpdateSeq, TypeOK, catchup, lookups, history, Goto, Follows
<1>3. CASE UpdateGR
  BY <1>3 DEF UpdateGR, TypeOK, catchup, lookups, history, Goto, Follows
<1>4. CASE UpdateHash
  <2>1. Current.DataHash \in Hash /\ Holders(Current) \subseteq Node
    BY CurrentTyped
  <2> QED BY <1>4, <2>1 DEF UpdateHash, TypeOK, catchup, lookups, history, Goto, Follows
<1>5. CASE InsertBlock
  <2>1. Block \in Bucket /\ batch \in Entry
    BY DEF TypeOK, Bucket, Entry
  <2>2. insert' \in {Nil} \cup (Bucket \X Entry \X {1, 2})
    BY <1>5, <2>1, SearchTyped DEF InsertBlock
  <2> QED BY <1>5, <2>2 DEF InsertBlock, TypeOK, tables, catchup, lookups, history, Goto, Follows
<1>6. CASE InsertNode
  <2>1. PICK n \in todo : /\ \E v \in Listings(Current, n) : Search(n, v)
                          /\ todo' = todo \ {n}
                          /\ Goto(IF todo = {n} THEN Follows("nodes") ELSE "nodes")
    BY <1>6 DEF InsertNode
  <2>2. PICK v \in Listings(Current, n) : Search(n, v)
    BY <2>1
  <2>3. n \in Node /\ n \in Bucket /\ v \in Entry
    BY <2>1, <2>2, CurrentTyped, ListingTyped DEF TypeOK, Bucket
  <2>4. insert' \in {Nil} \cup (Bucket \X Entry \X {1, 2})
    BY <2>2, <2>3, SearchTyped
  <2> QED BY <1>6, <2>1, <2>4 DEF InsertNode, TypeOK, tables, catchup, lookups, history, Goto, Follows
<1>7. CASE InsertRec
  <2>1. Current.Reciver \in Bucket /\ Current.DataHash \in Entry
    BY CurrentTyped DEF Bucket, Entry
  <2>2. insert' \in {Nil} \cup (Bucket \X Entry \X {1, 2})
    BY <1>7, <2>1, SearchTyped DEF InsertRec
  <2>3. index' \in 1 .. Len(Requests[batch]) /\ pc' \in {"hash", "end"}
    <3>1. Len(Requests[batch]) \in Nat \ {0}
      BY BatchNotEmpty DEF TypeOK
    <3>2. CASE index < Len(Requests[batch])
      BY <1>7, <3>1, <3>2 DEF InsertRec, TypeOK, Goto
    <3>3. CASE ~(index < Len(Requests[batch]))
      BY <1>7, <3>3 DEF InsertRec, TypeOK, Goto, Follows
    <3> QED BY <3>2, <3>3
  <2> QED BY <1>7, <2>2, <2>3 DEF InsertRec, TypeOK, tables, catchup, lookups, history
<1>8. CASE Insert
  <2>1. PICK S \in Bucket, v \in Entry : Putting(S, v) \/ Marking(S, v)
    BY <1>8, InsertCases
  <2>2. insert' \in {Nil} \cup (Bucket \X Entry \X {1, 2})
    BY <2>1 DEF Putting, Marking
  <2>3. Append(table[S], v) \in Seq(Entry)
    BY AppendedValues DEF TypeOK
  <2>4. table' \in [Bucket -> Seq(Entry)] /\ isinfo' \in [Bucket -> SUBSET Entry]
    <3>1. CASE Putting(S, v)
      BY <2>3, <3>1 DEF Putting, TypeOK
    <3>2. CASE Marking(S, v)
      BY <3>2 DEF Marking, TypeOK
    <3> QED BY <2>1, <3>1, <3>2
  <2> QED BY <1>8, <2>2, <2>4 DEF Insert, TypeOK, catchup, lookups, history
<1>9. CASE Return
  BY <1>9 DEF Return, TypeOK, tables, catchup, lookups, Goto
<1>10. ASSUME NEW b \in Batch, NEW i \in 1 .. Len(Requests[b]),
              handleUpdataNodeToHash(Requests[b][i])
       PROVE  TypeOK'
  <2>1. Requests[b][i] \in Request /\ Requests[b][i].DataHash \in Hash
    BY RequestTyped
  <2>2. updata' \in Request \X Batch
    BY <1>10, <2>1 DEF handleUpdataNodeToHash, TypeOK
  <2>3. updates' \in 0 .. MaxUpdata
    BY <1>10, BoundAssumption DEF handleUpdataNodeToHash, TypeOK
  <2> QED BY <1>10, <2>2, <2>3 DEF handleUpdataNodeToHash, TypeOK, tables, storing
<1>11. CASE OpenNodeToHash
  BY <1>11 DEF OpenNodeToHash, TypeOK, tables, storing, history, Left
<1>12. ASSUME NEW n \in Node, DeleteBucket(n)
       PROVE  TypeOK'
  <2>1. <<>> \in Seq(Entry)
    OBVIOUS
  <2>2. table' \in [Bucket -> Seq(Entry)]
    BY <1>12, <2>1 DEF DeleteBucket, TypeOK
  <2> QED BY <1>12, <2>2 DEF DeleteBucket, TypeOK, storing
<1>13. ASSUME NEW h \in Hash, find(h)
       PROVE  TypeOK'
  <2>1. asked' \in Hash \X (Batch \cup {Nil})
    BY <1>13 DEF find, TypeOK
  <2> QED BY <1>13, <2>1 DEF find, TypeOK, tables, storing, history
<1>14. ASSUME NEW R \in Reciver, handleSearchRecToHash(R)
       PROVE  TypeOK'
  <2>1. PICK i \in 1 .. Len(table[R]) :
           asked' = <<table[R][i], DataHashToGRdigest[table[R][i]]>>
    BY <1>14 DEF handleSearchRecToHash
  <2>2. table[R][i] \in Entry /\ Listed(R, table[R][i])
    BY <2>1 DEF TypeOK, Listed, Values, Bucket
  <2>3. table[R][i] \in Hash
    BY <2>2 DEF ListedLead
  <2>4. asked' \in Hash \X (Batch \cup {Nil})
    BY <2>1, <2>3 DEF TypeOK
  <2> QED BY <1>14, <2>4 DEF handleSearchRecToHash, TypeOK, tables, storing, history
<1>15. CASE Answer
  BY <1>15 DEF Answer, TypeOK, tables, storing, history
<1>16. CASE crash
  BY <1>16, BoundAssumption DEF crash, TypeOK, tables, Goto
<1>17. ASSUME NEW d \in Newdata, handleNewdata(d)
       PROVE  TypeOK'
  <2>1. d \in Seq(Batch) /\ Len(d) \in Nat \ {0} /\ Head(d) \in Batch /\ Tail(d) \in Seq(Batch)
    BY NewdataAssumption
  <2>2. 1 - Len(d) \in Keys
    BY <2>1 DEF Keys
  <2>3. 1 \in 1 .. Len(Requests[Head(d)])
    BY <2>1, BatchNotEmpty
  <2> QED BY <1>17, <2>1, <2>2, <2>3 DEF handleNewdata, TypeOK, tables, lookups, history, Goto
<1>18. CASE NewdataSeq
  BY <1>18 DEF NewdataSeq, TypeOK, catchup, lookups, history, Goto
<1>19. CASE NewdataHash
  <2>1. Current.DataHash \in Hash /\ Len(Requests[batch]) \in Nat
    BY CurrentTyped, BatchNotEmpty DEF TypeOK
  <2>2. index' \in 1 .. Len(Requests[batch]) /\ pc' \in {"newhash", "newgr"}
    <3>1. CASE index < Len(Requests[batch])
      BY <1>19, <2>1, <3>1 DEF NewdataHash, TypeOK, Goto
    <3>2. CASE ~(index < Len(Requests[batch]))
      BY <1>19, <3>2 DEF NewdataHash, TypeOK, Goto
    <3> QED BY <3>1, <3>2
  <2> QED BY <1>19, <2>1, <2>2 DEF NewdataHash, TypeOK, catchup, lookups, history
<1>20. CASE NewdataGR
  <2>1. CASE newdata = <<>>
    BY <1>20, <2>1 DEF NewdataGR, TypeOK, lookups, history, Goto
  <2>2. CASE newdata # <<>>
    <3>1. newdata \in Seq(Batch) /\ Len(newdata) \in Nat \ {0}
      BY <2>2 DEF TypeOK
    <3>2. Head(newdata) \in Batch /\ Tail(newdata) \in Seq(Batch)
      BY <2>2, <3>1
    <3>3. number' \in Keys
      BY <1>20, <2>2, <3>1 DEF NewdataGR, At, KeysCounted
    <3>4. 1 \in 1 .. Len(Requests[Head(newdata)])
      BY <3>2, BatchNotEmpty
    <3> QED BY <1>20, <2>2, <3>2, <3>3, <3>4 DEF NewdataGR, TypeOK, lookups, history, Goto
  <2> QED BY <2>1, <2>2
<1> QED
  BY <1>1, <1>2, <1>3, <1>4, <1>5, <1>6, <1>7, <1>8, <1>9, <1>10, <1>11, <1>12, <1>13, <1>14,
     <1>15, <1>16, <1>17, <1>18, <1>19, <1>20 DEF Next, StoreStep, UpdataStep

LEMMA KeysStep == StoreInv /\ Next => KeysCounted'
<1> SUFFICES ASSUME StoreInv, Next
             PROVE  KeysCounted'
  OBVIOUS
<1> USE DEF StoreInv
<1>1. ASSUME NEW d \in Newdata, handleNewdata(d)
      PROVE  KeysCounted'
  <2>1. d \in Seq(Batch) /\ Len(d) \in Nat \ {0} /\ Len(Tail(d)) = Len(d) - 1
    BY NewdataAssumption
  <2>2. \A k \in (1 - Len(d)) .. 0 : k \in Keys
    BY DEF Keys
  <2> QED BY <1>1, <2>1, <2>2 DEF handleNewdata, KeysCounted
<1>2. CASE NewdataGR
  <2>1. CASE newdata = <<>>
    BY <1>2, <2>1 DEF NewdataGR, Goto, KeysCounted
  <2>2. CASE newdata # <<>>
    <3>1. newdata \in Seq(Batch) /\ Len(newdata) \in Nat \ {0}
          /\ Len(Tail(newdata)) = Len(newdata) - 1
      BY <2>2 DEF TypeOK
    <3> QED BY <1>2, <2>2, <3>1 DEF NewdataGR, At, KeysCounted
  <2> QED BY <2>1, <2>2
<1>3. CASE NewdataSeq \/ NewdataHash
  BY <1>3 DEF NewdataSeq, NewdataHash, At, Goto, catchup, KeysCounted
<1>4. ASSUME pc' \in {"newseq", "newhash", "newgr"} => UNCHANGED <<pc, number, newdata, index>>
      PROVE  KeysCounted'
  BY <1>4 DEF KeysCounted
<1>5. CASE UpdateSeq \/ UpdateGR \/ UpdateHash \/ InsertBlock \/ InsertNode \/ InsertRec \/ Return
  BY <1>4, <1>5 DEF UpdateSeq, UpdateGR, UpdateHash, InsertBlock, InsertNode, InsertRec, Return,
     Goto, Follows
<1>6. CASE Insert \/ UpdataStep \/ Answer \/ crash
  BY <1>4, <1>6 DEF Insert, UpdataStep, OpenNodeToHash, DeleteBucket, Answer, crash, storing,
     catchup, Goto
<1>7. ASSUME NEW b, NEW s, handleReply(b, s) \/ handleUpdataNodeToHash(b) \/ find(b)
                           \/ handleSearchRecToHash(b)
      PROVE  KeysCounted'
  BY <1>4, <1>7 DEF handleReply, handleUpdataNodeToHash, find, handleSearchRecToHash, storing, Goto
<1> QED BY <1>1, <1>2, <1>3, <1>5, <1>6, <1>7 DEF Next, StoreStep

-----------------------------------------------------------------------------
(* What a step does to the buckets: nothing, one of the three steps of an  *)
(* Insert, the deletion of a bucket, or a crash.                           *)
Quiet == UNCHANGED <<table, isinfo, insert, dropped, crashes>>

Searching(S, v) ==
    /\ insert = Nil
    /\ insert' = IF v \in isinfo[S] THEN Nil ELSE <<S, v, 1>>
    /\ UNCHANGED <<table, isinfo, dropped, crashes>>

Leads(S, v) == S \in Reciver => v \in Hash /\ DataHashToGRdigest[v] # Nil

Inserting(S, v) ==
    /\ Putting(S, v) \/ Marking(S, v)
    /\ UNCHANGED <<dropped, crashes>>

Dropping(n) ==
    /\ table' = [table EXCEPT ![n] = <<>>]
    /\ dropped' = dropped \cup {n}
    /\ UNCHANGED <<isinfo, insert, crashes>>

Crashing ==
    /\ insert' = Nil /\ crashes' = crashes + 1
    /\ UNCHANGED <<table, isinfo, dropped, DataHashToGRdigest, GRdigestToGR, stored>>
    /\ pc' = "idle" /\ asked' = Nil

LEMMA SearchingSteps ==
    ASSUME TypeOK, Progress, InsertBlock \/ InsertNode \/ InsertRec
    PROVE  \E S \in Bucket, v \in Entry : Searching(S, v) /\ Leads(S, v)
<1>1. CASE InsertBlock
  <2>1. Block \in Bucket /\ batch \in Entry /\ Leads(Block, batch)
    BY BucketAssumption DEF TypeOK, Bucket, Entry, Leads
  <2>2. Searching(Block, batch)
    BY <1>1 DEF InsertBlock, At, Search, Marked, Searching, tables, history
  <2> QED BY <2>1, <2>2
<1>2. CASE InsertNode
  <2>1. PICK n \in todo : \E v \in Listings(Current, n) : Search(n, v)
    BY <1>2 DEF InsertNode
  <2>2. PICK v \in Listings(Current, n) : Search(n, v)
    BY <2>1
  <2>3. n \in Node /\ n \in Bucket /\ v \in Entry
    BY <2>1, <2>2, CurrentTyped, ListingTyped DEF TypeOK, Bucket
  <2>4. Leads(n, v)
    BY <2>3, BucketAssumption DEF Leads
  <2>5. Searching(n, v)
    BY <1>2, <2>2 DEF InsertNode, At, Search, Marked, Searching, tables, history
  <2> QED BY <2>3, <2>4, <2>5
<1>3. CASE InsertRec
  <2>1. Current.Reciver \in Bucket /\ Current.DataHash \in Entry
    BY CurrentTyped DEF Bucket, Entry
  <2>2. Leads(Current.Reciver, Current.DataHash)
    BY <1>3, CurrentTyped DEF InsertRec, At, Progress, Leads
  <2>3. Searching(Current.Reciver, Current.DataHash)
    BY <1>3 DEF InsertRec, At, Search, Marked, Searching, tables, history
  <2> QED BY <2>1, <2>2, <2>3
<1> QED BY <1>1, <1>2, <1>3

LEMMA StepKinds ==
    ASSUME StoreInv, Next
    PROVE  \/ Quiet
           \/ \E S \in Bucket, v \in Entry : Searching(S, v) /\ Leads(S, v)
           \/ \E S \in Bucket, v \in Entry : Inserting(S, v)
           \/ \E n \in Node : Dropping(n)
           \/ Crashing
<1>1. CASE InsertBlock \/ InsertNode \/ InsertRec
  BY <1>1, SearchingSteps DEF StoreInv
<1>2. CASE Insert
  <2>1. PICK S \in Bucket, v \in Entry : Putting(S, v) \/ Marking(S, v)
    BY <1>2, InsertCases DEF StoreInv
  <2>2. UNCHANGED <<dropped, crashes>>
    BY <1>2 DEF Insert, history
  <2> QED BY <2>1, <2>2 DEF Inserting
<1>3. ASSUME NEW n \in Node, DeleteBucket(n)
      PROVE  Dropping(n)
  BY <1>3 DEF DeleteBucket, storing, Dropping
<1>4. CASE crash
  BY <1>4 DEF crash, tables, Goto, Crashing
<1>5. CASE UpdateSeq \/ UpdateGR \/ UpdateHash \/ Return \/ NewdataSeq \/ NewdataHash \/ NewdataGR
  BY <1>5 DEF UpdateSeq, UpdateGR, UpdateHash, Return, NewdataSeq, NewdataHash, NewdataGR,
     tables, lookups, history, Quiet
<1>6. ASSUME NEW b \in Batch, NEW s \in SequenceID, handleReply(b, s)
      PROVE  Quiet
  BY <1>6 DEF handleReply, tables, history, Quiet
<1>11. ASSUME NEW d, handleNewdata(d)
       PROVE  Quiet
  BY <1>11 DEF handleNewdata, tables, history, Quiet
<1>7. ASSUME NEW r, handleUpdataNodeToHash(r)
      PROVE  Quiet
  BY <1>7 DEF handleUpdataNodeToHash, tables, storing, Quiet
<1>8. CASE OpenNodeToHash
  BY <1>8 DEF OpenNodeToHash, tables, storing, history, Quiet
<1>9. ASSUME NEW h, find(h) \/ handleSearchRecToHash(h)
      PROVE  Quiet
  BY <1>9 DEF find, handleSearchRecToHash, tables, storing, history, Quiet
<1>10. CASE Answer
  BY <1>10 DEF Answer, tables, storing, history, Quiet
<1> QED
  BY <1>1, <1>2, <1>3, <1>4, <1>5, <1>6, <1>7, <1>8, <1>9, <1>10, <1>11 DEF Next, StoreStep, UpdataStep

-----------------------------------------------------------------------------
(* The values of a bucket after a step.                                    *)
LEMMA PutValues ==
    ASSUME TypeOK, NEW S \in Bucket, NEW v \in Entry, Putting(S, v)
    PROVE  \A T \in Bucket : Values(T)' = IF T = S THEN Values(T) \cup {v} ELSE Values(T)
<1> TAKE T \in Bucket
<1>1. table[S] \in Seq(Entry) /\ table'[T] = IF T = S THEN Append(table[S], v) ELSE table[T]
  BY DEF TypeOK, Putting
<1>2. CASE T = S
  BY <1>1, <1>2, AppendedValues DEF Values
<1>3. CASE T # S
  BY <1>1, <1>3 DEF Values
<1> QED BY <1>2, <1>3

LEMMA DropValues ==
    ASSUME TypeOK, NEW n \in Node, Dropping(n)
    PROVE  \A T \in Bucket : Values(T)' = IF T = n THEN {} ELSE Values(T)
<1> TAKE T \in Bucket
<1>1. table'[T] = IF T = n THEN <<>> ELSE table[T]
  BY DEF TypeOK, Dropping
<1>2. CASE T = n
  BY <1>1, <1>2 DEF Values
<1>3. CASE T # n
  BY <1>1, <1>3 DEF Values
<1> QED BY <1>2, <1>3

LEMMA SameValues ==
    ASSUME UNCHANGED table
    PROVE  \A T : Values(T)' = Values(T)
BY DEF Values

(* The value of an Insert is listed from its Search on, when it does not   *)
(* stay as it is in a bucket that was deleted.                             *)
LEMMA SearchLists ==
    ASSUME StoreInv, NEW S \in Bucket, NEW v \in Entry, Searching(S, v)
    PROVE  Listed(S, v)' \/ S \in dropped
<1>1. CASE v \in isinfo[S]
  <2>1. v \in Values(S) \/ S \in dropped
    BY <1>1 DEF StoreInv, MarksHonest
  <2> QED BY <2>1, SameValues DEF Searching, Listed
<1>2. CASE v \notin isinfo[S]
  <2>1. insert' = <<S, v, 1>> /\ <<S, v, 1>> # Nil
    BY <1>2, NilAssumption DEF Searching
  <2>2. insert'[1] = S /\ insert'[2] = v /\ insert' # Nil
    BY <2>1
  <2> QED BY <2>2 DEF Listed, Pending
<1> QED BY <1>1, <1>2

LEMMA ListedStep ==
    ASSUME StoreInv, Next, ~Crashing
    PROVE  \A S \in Bucket, v \in Entry : Listed(S, v) => Listed(S, v)' \/ S \in dropped'
<1> SUFFICES ASSUME NEW S \in Bucket, NEW v \in Entry, Listed(S, v)
             PROVE  Listed(S, v)' \/ S \in dropped'
  OBVIOUS
<1> USE DEF StoreInv
<1>1. CASE Quiet
  BY <1>1, SameValues DEF Quiet, Listed, Pending
<1>2. ASSUME NEW T \in Bucket, NEW w \in Entry, Searching(T, w)
      PROVE  Listed(S, v)'
  BY <1>2, SameValues DEF Searching, Listed, Pending
<1>3. ASSUME NEW T \in Bucket, NEW w \in Entry, Inserting(T, w)
      PROVE  Listed(S, v)' \/ S \in dropped'
  <2>1. CASE Putting(T, w)
    <3>1. insert[1] = T /\ insert[2] = w
      BY <2>1 DEF Putting
    <3>2. v \in Values(S)'
      BY <2>1, <3>1, PutValues DEF Listed, Pending
    <3> QED BY <3>2 DEF Listed
  <2>2. CASE Marking(T, w)
    <3>1. insert = <<T, w, 2>> /\ insert # Nil
      BY <2>2, NilAssumption DEF Marking
    <3>2. w \in Values(T) \/ T \in dropped
      BY <3>1 DEF MarksHonest
    <3>3. v \in Values(S) \/ S \in dropped
      BY <3>1, <3>2 DEF Listed, Pending
    <3> QED BY <2>2, <3>3, <1>3, SameValues DEF Marking, Inserting, Listed
  <2> QED BY <1>3, <2>1, <2>2 DEF Inserting
<1>4. ASSUME NEW n \in Node, Dropping(n)
      PROVE  Listed(S, v)' \/ S \in dropped'
  <2>1. CASE S = n
    BY <1>4, <2>1 DEF Dropping
  <2>2. CASE S # n
    BY <1>4, <2>2, DropValues DEF Dropping, Listed, Pending
  <2> QED BY <2>1, <2>2
<1> QED BY <1>1, <1>2, <1>3, <1>4, StepKinds

-----------------------------------------------------------------------------
(* Digests are replaced, never removed; slices stay.                       *)
LEMMA DigestsStep ==
    ASSUME StoreInv, Next
    PROVE  /\ GRdigestToGR \subseteq GRdigestToGR'
           /\ \A h \in Hash : DataHashToGRdigest[h] # Nil => DataHashToGRdigest'[h] # Nil
<1> USE DEF StoreInv
<1>1. CASE UpdateHash \/ NewdataHash
  <2>1. batch # Nil
    BY NilAssumption DEF TypeOK
  <2>2. \A h \in Hash : DataHashToGRdigest'[h] =
                            IF h = Current.DataHash THEN batch ELSE DataHashToGRdigest[h]
    BY <1>1 DEF UpdateHash, NewdataHash, TypeOK
  <2> QED BY <1>1, <2>1, <2>2 DEF UpdateHash, NewdataHash
<1>2. CASE UpdateGR \/ NewdataGR
  BY <1>2 DEF UpdateGR, NewdataGR
<1>3. CASE UpdateSeq \/ NewdataSeq \/ Insert \/ InsertBlock \/ InsertNode \/ InsertRec \/ Return
  BY <1>3 DEF UpdateSeq, NewdataSeq, Insert, InsertBlock, InsertNode, InsertRec, Return, tables
<1>4. ASSUME NEW b, NEW s, handleReply(b, s) \/ handleUpdataNodeToHash(b) \/ handleNewdata(b)
                           \/ find(b) \/ handleSearchRecToHash(b)
      PROVE  UNCHANGED <<GRdigestToGR, DataHashToGRdigest>>
  BY <1>4 DEF handleReply, handleUpdataNodeToHash, handleNewdata, find, handleSearchRecToHash, tables
<1>5. CASE UpdataStep \/ Answer \/ crash
  BY <1>5 DEF UpdataStep, OpenNodeToHash, DeleteBucket, Answer, crash, tables
<1> QED BY <1>1, <1>2, <1>3, <1>4, <1>5 DEF Next, StoreStep

(* A batch once found is found for ever: handleNewdata stores the batch it *)
(* is at, or a crash leaves it torn.                                       *)
LEMMA FoundStep ==
    ASSUME StoreInv, Next
    PROVE  \A b \in Batch : Found(b) => Found(b)'
<1> SUFFICES ASSUME NEW b \in Batch, Found(b)
             PROVE  Found(b)'
  OBVIOUS
<1> USE DEF StoreInv
<1>1. torn \subseteq torn'
  BY DEF Next, StoreStep, UpdataStep, handleReply, handleNewdata, UpdateSeq, UpdateGR, UpdateHash,
     InsertBlock, InsertNode, InsertRec, Insert, Return, NewdataSeq, NewdataHash, NewdataGR,
     handleUpdataNodeToHash, OpenNodeToHash, DeleteBucket, find, handleSearchRecToHash, Answer,
     crash, history
<1>2. CASE b \in GRdigestToGR \cup torn
  BY <1>1, <1>2, DigestsStep DEF Found
<1>3. CASE pc \in Indexing /\ b = batch
  <2>1. ASSUME UNCHANGED <<pc, batch>>
        PROVE  Found(b)'
    BY <1>3, <2>1 DEF Found
  <2>2. CASE NewdataHash
    BY <1>3, <2>2 DEF NewdataHash, Goto, Indexing, Found
  <2>3. CASE NewdataGR
    BY <1>3, <2>3 DEF NewdataGR, Found
  <2>4. CASE crash
    BY <1>3, <2>4 DEF crash, Found
  <2>5. pc # "idle" /\ pc \notin {"seq", "block", "gr", "hash", "nodes", "rec", "end", "newseq"}
    BY <1>3 DEF Indexing
  <2>6. CASE StoreStep
    BY <2>1, <2>2, <2>3, <2>5, <2>6 DEF StoreStep, At, UpdateSeq, UpdateGR, UpdateHash, InsertBlock,
       InsertNode, InsertRec, Insert, Return, NewdataSeq
  <2>7. ASSUME NEW d, NEW s, handleReply(d, s) \/ handleNewdata(d)
        PROVE  FALSE
    BY <2>5, <2>7 DEF handleReply, handleNewdata, At
  <2>8. ASSUME NEW d, handleUpdataNodeToHash(d) \/ find(d) \/ handleSearchRecToHash(d)
        PROVE  Found(b)'
    BY <2>1, <2>8 DEF handleUpdataNodeToHash, find, handleSearchRecToHash, storing
  <2>9. CASE UpdataStep \/ Answer
    BY <2>1, <2>9 DEF UpdataStep, OpenNodeToHash, DeleteBucket, Answer, storing
  <2> QED BY <2>4, <2>6, <2>7, <2>8, <2>9 DEF Next
<1> QED BY <1>2, <1>3 DEF Found

LEMMA HashesLeadStep ==
    ASSUME StoreInv, Next
    PROVE  HashesLead'
<1> SUFFICES ASSUME NEW h \in Hash, DataHashToGRdigest'[h] # Nil
             PROVE  (h \in Hashes(DataHashToGRdigest[h]) /\ Found(DataHashToGRdigest[h]))'
  BY DEF HashesLead
<1> USE DEF StoreInv
<1>1. ASSUME DataHashToGRdigest'[h] = DataHashToGRdigest[h]
      PROVE  (h \in Hashes(DataHashToGRdigest[h]) /\ Found(DataHashToGRdigest[h]))'
  <2>1. PICK b \in Batch : DataHashToGRdigest[h] = b
    BY <1>1 DEF TypeOK
  <2>2. h \in Hashes(b) /\ Found(b)
    BY <1>1, <2>1 DEF HashesLead
  <2>3. DataHashToGRdigest'[h] = b /\ Found(b)'
    BY <1>1, <2>1, <2>2, FoundStep
  <2> QED BY <2>2, <2>3 DEF Hashes, Found
<1>2. CASE UpdateHash \/ NewdataHash
  <2>1. CASE h = Current.DataHash
    <3>1. DataHashToGRdigest'[h] = batch /\ batch' = batch
      BY <1>2, <2>1 DEF UpdateHash, NewdataHash, TypeOK
    <3>2. h \in Hashes(batch)
      BY <2>1, CurrentTyped
    <3>3. batch \in GRdigestToGR' \/ pc' \in Indexing
      BY <1>2, DigestsStep DEF UpdateHash, NewdataHash, At, Goto, Progress, Indexing
    <3> QED BY <3>1, <3>2, <3>3 DEF Hashes, Found
  <2>2. CASE h # Current.DataHash
    <3>1. DataHashToGRdigest'[h] = DataHashToGRdigest[h]
      BY <1>2, <2>2 DEF UpdateHash, NewdataHash, TypeOK
    <3> QED BY <1>1, <3>1
  <2> QED BY <2>1, <2>2
<1>3. CASE DataHashToGRdigest' = DataHashToGRdigest
  BY <1>1, <1>3
<1> QED
  BY <1>2, <1>3 DEF Next, StoreStep, UpdataStep, handleReply, handleNewdata, UpdateSeq, UpdateGR,
     InsertBlock, InsertNode, InsertRec, Insert, Return, NewdataSeq, NewdataGR,
     handleUpdataNodeToHash, OpenNodeToHash, DeleteBucket, find, handleSearchRecToHash, Answer,
     crash, tables

LEMMA ListedLeadStep ==
    ASSUME StoreInv, Next
    PROVE  ListedLead'
<1> SUFFICES ASSUME NEW R \in Reciver, NEW v \in Entry, Listed(R, v)'
             PROVE  v \in Hash /\ DataHashToGRdigest'[v] # Nil
  BY DEF ListedLead
<1> USE DEF StoreInv
<1>1. R \in Bucket
  BY DEF Bucket
<1>2. SUFFICES Listed(R, v) \/ Leads(R, v)
  BY <1>2, DigestsStep DEF ListedLead, Leads
<1>3. CASE Quiet
  BY <1>3, SameValues DEF Quiet, Listed, Pending
<1>4. ASSUME NEW T \in Bucket, NEW w \in Entry, Searching(T, w), Leads(T, w)
      PROVE  Listed(R, v) \/ Leads(R, v)
  <2>1. CASE insert' = Nil
    BY <1>4, <2>1, SameValues DEF Searching, Listed, Pending
  <2>2. CASE insert' = <<T, w, 1>>
    <3>1. insert'[1] = T /\ insert'[2] = w
      BY <2>2
    <3> QED BY <1>4, <3>1, SameValues DEF Searching, Listed, Pending
  <2> QED BY <1>4, <2>1, <2>2 DEF Searching
<1>5. ASSUME NEW T \in Bucket, NEW w \in Entry, Inserting(T, w)
      PROVE  Listed(R, v)
  <2>1. CASE Putting(T, w)
    <3>1. /\ insert[1] = T /\ insert[2] = w /\ insert # Nil
          /\ insert'[1] = T /\ insert'[2] = w
      BY <2>1, NilAssumption DEF Putting
    <3> QED BY <1>1, <2>1, <3>1, PutValues DEF Listed, Pending
  <2>2. CASE Marking(T, w)
    BY <2>2, SameValues DEF Marking, Listed, Pending
  <2> QED BY <1>5, <2>1, <2>2 DEF Inserting
<1>6. ASSUME NEW n \in Node, Dropping(n)
      PROVE  Listed(R, v)
  BY <1>1, <1>6, DropValues DEF Dropping, Listed, Pending
<1>7. CASE Crashing
  BY <1>7, SameValues DEF Crashing, Listed, Pending
<1> QED BY <1>3, <1>4, <1>5, <1>6, <1>7, StepKinds

LEMMA MarksStep ==
    ASSUME StoreInv, Next
    PROVE  MarksHonest'
<1> USE DEF StoreInv
<1>1. CASE Quiet
  BY <1>1, SameValues DEF Quiet, MarksHonest
<1>2. ASSUME NEW S \in Bucket, NEW v \in Entry, Searching(S, v)
      PROVE  MarksHonest'
  <2>1. \A T \in Bucket \ dropped' : isinfo'[T] \subseteq Values(T)'
    BY <1>2, SameValues DEF Searching, MarksHonest
  <2>2. CASE insert' = Nil
    BY <2>1, <2>2 DEF MarksHonest
  <2>3. CASE v \notin isinfo[S] /\ insert' = <<S, v, 1>>
    <3>1. insert'[1] = S /\ insert'[2] = v /\ insert'[3] = 1 /\ isinfo' = isinfo
      BY <1>2, <2>3 DEF Searching
    <3> QED BY <2>1, <2>3, <3>1 DEF MarksHonest
  <2> QED BY <1>2, <2>2, <2>3 DEF Searching
<1>3. ASSUME NEW S \in Bucket, NEW v \in Entry, Inserting(S, v)
      PROVE  MarksHonest'
  <2>1. CASE Putting(S, v)
    <3>1. insert'[1] = S /\ insert'[2] = v /\ insert'[3] = 2
      BY <2>1 DEF Putting
    <3>2. v \in Values(S)' /\ \A T \in Bucket : Values(T) \subseteq Values(T)'
      BY <2>1, PutValues
    <3> QED BY <1>3, <2>1, <3>1, <3>2 DEF Putting, Inserting, MarksHonest
  <2>2. CASE Marking(S, v)
    <3>1. insert # Nil /\ insert[1] = S /\ insert[2] = v /\ insert[3] = 2
      BY <2>2, NilAssumption DEF Marking
    <3>2. v \in Values(S) \/ S \in dropped
      BY <3>1 DEF MarksHonest
    <3>3. \A T \in Bucket : isinfo'[T] = IF T = S THEN isinfo[T] \cup {v} ELSE isinfo[T]
      BY <2>2 DEF Marking, TypeOK
    <3>4. insert' = Nil /\ dropped' = dropped /\ table' = table
      BY <1>3, <2>2 DEF Marking, Inserting
    <3> QED BY <3>2, <3>3, <3>4, SameValues DEF MarksHonest
  <2> QED BY <1>3, <2>1, <2>2 DEF Inserting
<1>4. ASSUME NEW n \in Node, Dropping(n)
      PROVE  MarksHonest'
  <2>1. \A T \in Bucket \ dropped' : T # n /\ T \notin dropped /\ Values(T)' = Values(T)
    BY <1>4, DropValues DEF Dropping
  <2>2. insert # Nil => insert[1] \in Bucket
    BY DEF TypeOK
  <2> QED BY <1>4, <2>1, <2>2, DropValues DEF Dropping, MarksHonest
<1>5. CASE Crashing
  BY <1>5, SameValues DEF Crashing, MarksHonest
<1> QED BY <1>1, <1>2, <1>3, <1>4, <1>5, StepKinds

-----------------------------------------------------------------------------
LEMMA CopiesStep ==
    ASSUME StoreInv, Next
    PROVE  CopiesCounted'
<1> SUFFICES ASSUME NEW S \in Bucket, NEW v \in Entry
             PROVE  Cardinality(Copies(S, v)') <=
                      crashes' + (IF v \in isinfo'[S] \/ insert' = <<S, v, 2>> THEN 1 ELSE 0)
  BY DEF CopiesCounted
<1> USE DEF StoreInv
<1>1. /\ IsFiniteSet(Copies(S, v)) /\ Cardinality(Copies(S, v)) \in Nat
      /\ crashes \in Nat
  BY CopiesFinite, BoundAssumption DEF TypeOK
<1>2. Cardinality(Copies(S, v)) <=
        crashes + (IF v \in isinfo[S] \/ insert = <<S, v, 2>> THEN 1 ELSE 0)
  BY DEF CopiesCounted
<1>3. UNCHANGED table => Copies(S, v)' = Copies(S, v)
  BY DEF Copies
<1>4. CASE Quiet
  BY <1>2, <1>3, <1>4 DEF Quiet
<1>5. ASSUME NEW T \in Bucket, NEW w \in Entry, Searching(T, w)
      PROVE  Cardinality(Copies(S, v)') <=
               crashes' + (IF v \in isinfo'[S] \/ insert' = <<S, v, 2>> THEN 1 ELSE 0)
  <2>1. insert # <<S, v, 2>>
    BY <1>5, NilAssumption DEF Searching
  <2>2. Cardinality(Copies(S, v)) <= crashes + (IF v \in isinfo[S] THEN 1 ELSE 0)
    BY <1>2, <2>1
  <2>3. Copies(S, v)' = Copies(S, v) /\ crashes' = crashes /\ isinfo' = isinfo
    BY <1>3, <1>5 DEF Searching
  <2>4. Cardinality(Copies(S, v)) <=
          crashes + (IF v \in isinfo[S] \/ insert' = <<S, v, 2>> THEN 1 ELSE 0)
    BY <1>1, <2>2
  <2> QED BY <2>3, <2>4
<1>6. ASSUME NEW T \in Bucket, NEW w \in Entry, Inserting(T, w)
      PROVE  Cardinality(Copies(S, v)') <=
               crashes' + (IF v \in isinfo'[S] \/ insert' = <<S, v, 2>> THEN 1 ELSE 0)
  <2>1. ASSUME Putting(T, w), T = S, w = v
        PROVE  Cardinality(Copies(S, v)') <= crashes' + 1 /\ insert' = <<S, v, 2>>
    <3>1. insert # Nil /\ insert[1] = S /\ insert[2] = v /\ insert[3] = 1
      BY <2>1, NilAssumption DEF Putting
    <3>2. v \notin isinfo[S] /\ insert # <<S, v, 2>>
      BY <2>1, <3>1 DEF MarksHonest
    <3>3. Cardinality(Copies(S, v)) <= crashes
      BY <1>1, <1>2, <3>2
    <3>4. table[S] \in Seq(Entry) /\ table'[S] = Append(table[S], v)
      BY <2>1 DEF Putting, TypeOK
    <3>5. Copies(S, v)' = Copies(S, v) \cup {Len(table[S]) + 1}
      BY <3>4, AppendedCopies DEF Copies
    <3>6. Len(table[S]) + 1 \notin Copies(S, v)
      BY <3>4 DEF Copies
    <3>7. Cardinality(Copies(S, v)') = Cardinality(Copies(S, v)) + 1
      BY <1>1, <3>5, <3>6, FS_AddElement
    <3> QED BY <1>1, <1>6, <2>1, <3>3, <3>7 DEF Putting, Inserting
  <2>2. ASSUME Putting(T, w), T # S \/ w # v
        PROVE  /\ Cardinality(Copies(S, v)') = Cardinality(Copies(S, v))
               /\ insert # <<S, v, 2>> /\ insert' # <<S, v, 2>> /\ isinfo' = isinfo
    <3>1. table[T] \in Seq(Entry) /\ table'[S] = IF T = S THEN Append(table[S], w) ELSE table[S]
      BY <2>2 DEF Putting, TypeOK
    <3>2. Copies(S, v)' = Copies(S, v)
      <4>1. CASE T = S
        <5>1. table'[S] = Append(table[S], w) /\ v # w
          BY <2>2, <3>1, <4>1
        <5> QED BY <3>1, <4>1, <5>1, AppendedCopies DEF Copies
      <4>2. CASE T # S
        BY <3>1, <4>2 DEF Copies
      <4> QED BY <4>1, <4>2
    <3>3. insert # <<S, v, 2>> /\ insert' # <<S, v, 2>> /\ isinfo' = isinfo
      BY <2>2 DEF Putting
    <3> QED BY <3>2, <3>3
  <2>3. CASE Marking(T, w)
    <3>1. insert = <<S, v, 2>> => v \in isinfo'[S]
      BY <2>3 DEF Marking, TypeOK
    <3>2. isinfo[S] \subseteq isinfo'[S]
      BY <2>3 DEF Marking, TypeOK
    <3>3. (IF v \in isinfo[S] \/ insert = <<S, v, 2>> THEN 1 ELSE 0) <=
            (IF v \in isinfo'[S] \/ insert' = <<S, v, 2>> THEN 1 ELSE 0)
      BY <3>1, <3>2
    <3>4. Copies(S, v)' = Copies(S, v) /\ crashes' = crashes
      BY <1>3, <1>6, <2>3 DEF Marking, Inserting
    <3> QED BY <1>1, <1>2, <3>3, <3>4
  <2> QED BY <1>1, <1>2, <1>6, <2>1, <2>2, <2>3 DEF Inserting
<1>7. ASSUME NEW n \in Node, Dropping(n)
      PROVE  Cardinality(Copies(S, v)') <=
               crashes' + (IF v \in isinfo'[S] \/ insert' = <<S, v, 2>> THEN 1 ELSE 0)
  <2>1. CASE S = n
    <3>1. table'[S] = <<>>
      BY <1>7, <2>1 DEF Dropping, TypeOK
    <3>2. Copies(S, v)' = {}
      BY <3>1 DEF Copies
    <3> QED BY <1>1, <1>7, <3>2, FS_EmptySet DEF Dropping
  <2>2. CASE S # n
    <3>1. table'[S] = table[S]
      BY <1>7, <2>2 DEF Dropping
    <3>2. Copies(S, v)' = Copies(S, v)
      BY <3>1 DEF Copies
    <3> QED BY <1>2, <1>7, <3>2 DEF Dropping
  <2> QED BY <2>1, <2>2
<1>8. CASE Crashing
  <2>1. Copies(S, v)' = Copies(S, v) /\ crashes' = crashes + 1 /\ isinfo' = isinfo
    BY <1>3, <1>8 DEF Crashing
  <2>2. Cardinality(Copies(S, v)) <= crashes + 1
    BY <1>1, <1>2
  <2> QED BY <1>1, <2>1, <2>2
<1> QED BY <1>4, <1>5, <1>6, <1>7, <1>8, StepKinds

-----------------------------------------------------------------------------
(* Whatever of a request was listed stays listed, or is in a node's bucket *)
(* that was deleted.                                                       *)
LEMMA RequestKept ==
    ASSUME StoreInv, Next, ~Crashing
    PROVE  \A b \in Batch : \A i \in 1 .. Len(Requests[b]) :
             /\ RequestListed(Requests[b][i]) => RequestListed(Requests[b][i])'
             /\ \A n \in Holders(Requests[b][i]) :
                   NodeListed(Requests[b][i], n) => NodeListed(Requests[b][i], n)'
<1> SUFFICES ASSUME NEW b \in Batch, NEW i \in 1 .. Len(Requests[b])
             PROVE  /\ RequestListed(Requests[b][i]) => RequestListed(Requests[b][i])'
                    /\ \A n \in Holders(Requests[b][i]) :
                          NodeListed(Requests[b][i], n) => NodeListed(Requests[b][i], n)'
  OBVIOUS
<1> DEFINE r == Requests[b][i]
<1>1. /\ r \in Request /\ r.DataHash \in Hash /\ r.Reciver \in Reciver
      /\ Holders(r) \subseteq Node
  BY RequestTyped
<1>2. r.Reciver \in Bucket /\ r.DataHash \in Entry /\ r.Reciver \notin dropped'
  BY <1>1, TypeStep, BucketAssumption DEF Bucket, Entry, TypeOK
<1>3. dropped \subseteq dropped'
  <2>1. ASSUME NEW n \in Node, Dropping(n)
        PROVE  dropped \subseteq dropped'
    BY <2>1 DEF Dropping
  <2> QED BY <2>1, StepKinds DEF Quiet, Searching, Inserting
<1>4. \A n \in Holders(r) : NodeListed(r, n) => NodeListed(r, n)'
  <2> SUFFICES ASSUME NEW n \in Holders(r), NodeListed(r, n)
               PROVE  NodeListed(r, n)'
    OBVIOUS
  <2>1. n \in Node /\ n \in Bucket /\ Listings(r, n) \subseteq Entry
    BY <1>1, ListingTyped DEF Bucket
  <2>2. CASE n \in dropped
    BY <1>3, <2>2 DEF NodeListed
  <2>3. ASSUME NEW v \in Listings(r, n), Listed(n, v)
        PROVE  NodeListed(r, n)'
    BY <2>1, <2>3, ListedStep DEF NodeListed
  <2> QED BY <2>2, <2>3 DEF NodeListed
<1>5. RequestListed(r) => RequestListed(r)'
  BY <1>1, <1>2, <1>4, DigestsStep, ListedStep DEF RequestListed
<1> QED BY <1>4, <1>5

LEMMA NotCrashing ==
    ASSUME TypeOK, crashes' = crashes
    PROVE  ~Crashing
BY BoundAssumption DEF TypeOK, Crashing

(* The steps that leave handleBlockStorage where it is.                    *)
LEMMA ProgressKept ==
    ASSUME StoreInv, Next, ~Crashing, UNCHANGED <<pc, batch, index, todo>>
    PROVE  Progress'
<1>0. PICK b \in Batch : batch = b
  BY DEF StoreInv, TypeOK
<1>1. PICK k \in 1 .. Len(Requests[b]) : batch = b /\ index = k
  BY <1>0 DEF StoreInv, TypeOK
<1>2. batch' = b /\ index' = k
  BY <1>1
<1>3. Block \in Bucket /\ b \in Entry /\ Block \notin dropped'
  BY TypeStep, BucketAssumption DEF Bucket, Entry, TypeOK
<1>4. Listed(Block, b) => Listed(Block, b)'
  BY <1>3, ListedStep
<1>5. \A i \in 1 .. Len(Requests[b]) :
        /\ RequestListed(Requests[b][i]) => RequestListed(Requests[b][i])'
        /\ \A n \in Holders(Requests[b][i]) :
              NodeListed(Requests[b][i], n) => NodeListed(Requests[b][i], n)'
  BY RequestKept
<1>6. GRdigestToGR \subseteq GRdigestToGR'
  BY DigestsStep
<1>7. Requests[b][k].DataHash \in Hash
  BY RequestTyped
<1>8. DataHashToGRdigest[Requests[b][k].DataHash] # Nil
         => DataHashToGRdigest'[Requests[b][k].DataHash] # Nil
  BY <1>7, DigestsStep
<1>9. \A i \in 1 .. k - 1 : i \in 1 .. Len(Requests[b])
  OBVIOUS
<1>10. Current = Requests[b][k] /\ Current' = Requests[b][k]
  BY <1>1, <1>2 DEF Current
<1>11. Progress
  BY DEF StoreInv
<1>12. (pc \in {"hash", "nodes", "rec"} =>
           \A i \in 1 .. index - 1 : RequestListed(Requests[batch][i]))'
  BY <1>1, <1>2, <1>5, <1>9, <1>11 DEF Progress
<1>13. (pc = "end" => \A i \in 1 .. Len(Requests[batch]) : RequestListed(Requests[batch][i]))'
  BY <1>1, <1>2, <1>5, <1>11 DEF Progress
<1>14. (pc \in {"nodes", "rec"} =>
           /\ DataHashToGRdigest[Current.DataHash] # Nil
           /\ \A n \in Holders(Current) : NodeListed(Current, n) \/ (pc = "nodes" /\ n \in todo))'
  BY <1>1, <1>5, <1>8, <1>10, <1>11 DEF Progress
<1> QED BY <1>1, <1>2, <1>4, <1>6, <1>11, <1>12, <1>13, <1>14 DEF Progress

(* What is kept of the batch b and its requests, whatever pc becomes.      *)
LEMMA BatchKept ==
    ASSUME StoreInv, Next, ~Crashing, NEW b \in Batch
    PROVE  /\ Listed(Block, b) => Listed(Block, b)'
           /\ \A i \in 1 .. Len(Requests[b]) :
                 /\ RequestListed(Requests[b][i]) => RequestListed(Requests[b][i])'
                 /\ \A n \in Holders(Requests[b][i]) :
                       NodeListed(Requests[b][i], n) => NodeListed(Requests[b][i], n)'
                 /\ DataHashToGRdigest[Requests[b][i].DataHash] # Nil
                       => DataHashToGRdigest'[Requests[b][i].DataHash] # Nil
<1>1. Block \in Bucket /\ b \in Entry /\ Block \notin dropped'
  BY TypeStep, BucketAssumption DEF Bucket, Entry, TypeOK
<1>2. Listed(Block, b) => Listed(Block, b)'
  BY <1>1, ListedStep
<1>3. \A i \in 1 .. Len(Requests[b]) : Requests[b][i].DataHash \in Hash
  BY RequestTyped
<1> QED BY <1>2, <1>3, RequestKept, DigestsStep

(* The steps that move it.                                                 *)
LEMMA ProgressInsertNode ==
    ASSUME StoreInv, Next, ~Crashing, InsertNode
    PROVE  Progress'
<1> USE DEF StoreInv
<1>1. PICK b \in Batch : batch = b
  BY DEF TypeOK
<1>2. PICK k \in 1 .. Len(Requests[b]) : index = k
  BY <1>1 DEF TypeOK
<1> DEFINE r == Requests[b][k]
<1>3. Current = r /\ Current' = r /\ batch' = b /\ index' = k
  BY <1>1, <1>2 DEF InsertNode, Current
<1>4. PICK n \in todo : /\ \E v \in Listings(Current, n) : Search(n, v)
                        /\ todo' = todo \ {n}
                        /\ Goto(IF todo = {n} THEN Follows("nodes") ELSE "nodes")
  BY DEF InsertNode
<1>5. PICK v \in Listings(r, n) : Search(n, v)
  BY <1>3, <1>4
<1>6. r \in Request /\ n \in Node /\ n \in Bucket /\ v \in Entry
  BY <1>4, <1>5, ListingTyped, RequestTyped DEF TypeOK, Bucket
<1>7. Searching(n, v)
  BY <1>5 DEF InsertNode, At, Search, Marked, Searching, tables, history
<1>8. NodeListed(r, n)'
  <2>1. Listed(n, v)' \/ n \in dropped'
    BY <1>6, <1>7, SearchLists DEF Searching
  <2> QED BY <1>5, <2>1 DEF NodeListed
<1>9. pc = "nodes" /\ pc' = IF todo = {n} THEN "rec" ELSE "nodes"
  BY <1>4 DEF InsertNode, At, Goto, Follows
<1>10. \A m \in Holders(r) : NodeListed(r, m)' \/ (pc' = "nodes" /\ m \in todo')
  <2> SUFFICES ASSUME NEW m \in Holders(r), m # n
               PROVE  NodeListed(r, m)' \/ (pc' = "nodes" /\ m \in todo')
    BY <1>8
  <2>1. NodeListed(r, m) \/ m \in todo
    BY <1>3, <1>9 DEF Progress
  <2>2. NodeListed(r, m) => NodeListed(r, m)'
    BY RequestKept
  <2> QED BY <1>4, <1>9, <2>1, <2>2
<1>11. DataHashToGRdigest'[r.DataHash] # Nil
  BY <1>3, <1>9, BatchKept DEF Progress
<1>12. Listed(Block, b)' /\ b \in GRdigestToGR'
  BY <1>1, <1>9, BatchKept, DigestsStep DEF Progress
<1>13. \A i \in 1 .. k - 1 : RequestListed(Requests[b][i])'
  BY <1>1, <1>2, <1>9, RequestKept DEF Progress
<1> QED BY <1>3, <1>9, <1>10, <1>11, <1>12, <1>13 DEF Progress

LEMMA ProgressInsertRec ==
    ASSUME StoreInv, Next, ~Crashing, InsertRec
    PROVE  Progress'
<1> USE DEF StoreInv
<1>1. PICK b \in Batch : batch = b
  BY DEF TypeOK
<1>2. PICK k \in 1 .. Len(Requests[b]) : index = k
  BY <1>1 DEF TypeOK
<1> DEFINE r == Requests[b][k]
<1>3. Current = r /\ batch' = b /\ pc = "rec"
  BY <1>1, <1>2 DEF InsertRec, Current, At
<1>4. r.Reciver \in Reciver /\ r.Reciver \in Bucket /\ r.DataHash \in Entry
  BY RequestTyped DEF Bucket, Entry
<1>5. Searching(r.Reciver, r.DataHash)
  BY <1>3 DEF InsertRec, At, Search, Marked, Searching, tables, history
<1>6. Listed(r.Reciver, r.DataHash)'
  BY <1>4, <1>5, SearchLists, BucketAssumption DEF TypeOK
<1>7. /\ DataHashToGRdigest'[r.DataHash] # Nil
      /\ \A n \in Holders(r) : NodeListed(r, n)'
  BY <1>3, BatchKept DEF Progress
<1>8. RequestListed(r)'
  BY <1>6, <1>7 DEF RequestListed
<1>9. \A i \in 1 .. k : RequestListed(Requests[b][i])'
  BY <1>1, <1>2, <1>3, <1>8, RequestKept DEF Progress
<1>10. Listed(Block, b)' /\ b \in GRdigestToGR'
  BY <1>1, <1>3, BatchKept, DigestsStep DEF Progress
<1>11. \/ pc' = "hash" /\ index' = k + 1
       \/ pc' = "end" /\ k = Len(Requests[b])
  <2>1. Len(Requests[b]) \in Nat
    BY BatchNotEmpty
  <2> QED BY <1>1, <1>2, <2>1 DEF InsertRec, Goto, Follows
<1>12. CASE pc' = "hash" /\ index' = k + 1
  <2>1. 1 .. index' - 1 = 1 .. k
    BY <1>12
  <2> QED BY <1>3, <1>9, <1>10, <1>12, <2>1 DEF Progress
<1>13. CASE pc' = "end" /\ k = Len(Requests[b])
  BY <1>3, <1>9, <1>10, <1>13 DEF Progress
<1> QED BY <1>11, <1>12, <1>13

LEMMA ProgressStep ==
    ASSUME StoreInv, Next
    PROVE  Progress'
<1> USE DEF StoreInv
<1>1. CASE crash
  BY <1>1 DEF crash, Goto, Progress
<1>2. CASE crashes' = crashes
  <2>1. ~Crashing
    BY <1>2, NotCrashing
  <2>2. ASSUME NEW b \in Batch, NEW s, handleReply(b, s)
        PROVE  Progress'
    BY <2>2 DEF handleReply, Goto, Progress
  <2>13. ASSUME NEW d, handleNewdata(d)
         PROVE  Progress'
    BY <2>13 DEF handleNewdata, Goto, Progress
  <2>14. CASE NewdataSeq \/ NewdataHash \/ NewdataGR
    BY <2>14 DEF NewdataSeq, NewdataHash, NewdataGR, Goto, Progress
  <2>3. CASE UpdateSeq
    BY <2>3 DEF UpdateSeq, At, Goto, Follows, Progress
  <2>4. CASE InsertBlock
    <3>1. Searching(Block, batch)
      BY <2>4 DEF InsertBlock, At, Search, Marked, Searching, tables, history
    <3>2. PICK b \in Batch : batch = b
      BY DEF TypeOK
    <3>3. Block \in Bucket /\ b \in Entry /\ Block \notin dropped
      BY BucketAssumption DEF Bucket, Entry, TypeOK
    <3>4. Listed(Block, b)' /\ batch' = b
      BY <2>4, <3>1, <3>2, <3>3, SearchLists DEF InsertBlock
    <3>5. index' = 1 /\ pc' = "gr"
      BY <2>4 DEF InsertBlock, At, Goto, Follows, Progress
    <3> QED BY <3>4, <3>5 DEF Progress
  <2>5. CASE UpdateGR
    <3>1. PICK b \in Batch : batch = b
      BY DEF TypeOK
    <3>2. Listed(Block, b)' /\ batch' = b
      BY <2>1, <2>5, <3>1, BatchKept DEF UpdateGR, At, Progress
    <3>3. index' = 1 /\ pc' = "hash" /\ b \in GRdigestToGR'
      BY <2>5, <3>1 DEF UpdateGR, At, Goto, Follows, Progress
    <3> QED BY <3>2, <3>3 DEF Progress
  <2>6. CASE UpdateHash
    <3>1. PICK b \in Batch : batch = b
      BY DEF TypeOK
    <3>2. PICK k \in 1 .. Len(Requests[b]) : index = k
      BY <3>1 DEF TypeOK
    <3>3. Current = Requests[b][k] /\ Current' = Requests[b][k] /\ batch' = b /\ index' = k
      BY <2>6, <3>1, <3>2 DEF UpdateHash, Current
    <3>4. pc = "hash" /\ pc' = "nodes" /\ todo' = Holders(Current)
      BY <2>6 DEF UpdateHash, At, Goto, Follows
    <3>5. Listed(Block, b)' /\ b \in GRdigestToGR'
      BY <2>1, <3>1, <3>4, BatchKept, DigestsStep DEF Progress
    <3>6. \A i \in 1 .. k - 1 : RequestListed(Requests[b][i])'
      BY <2>1, <3>1, <3>2, <3>4, RequestKept DEF Progress
    <3>7. DataHashToGRdigest'[Current.DataHash] # Nil
      BY <2>6, CurrentTyped, NilAssumption DEF UpdateHash, TypeOK
    <3> QED BY <3>3, <3>4, <3>5, <3>6, <3>7 DEF Progress
  <2>7. CASE InsertNode
    BY <2>1, <2>7, ProgressInsertNode
  <2>8. CASE InsertRec
    BY <2>1, <2>8, ProgressInsertRec
  <2>9. CASE Insert
    BY <2>1, <2>9, ProgressKept DEF Insert
  <2>10. CASE Return
    BY <2>10 DEF Return, Goto, Progress
  <2>11. ASSUME NEW r, handleUpdataNodeToHash(r) \/ find(r) \/ handleSearchRecToHash(r)
         PROVE  Progress'
    <3>1. UNCHANGED <<pc, batch, index, todo>>
      BY <2>11 DEF handleUpdataNodeToHash, find, handleSearchRecToHash, storing
    <3> QED BY <2>1, <3>1, ProgressKept
  <2>12. CASE UpdataStep \/ Answer
    <3>1. UNCHANGED <<pc, batch, index, todo>>
      BY <2>12 DEF UpdataStep, OpenNodeToHash, DeleteBucket, Answer, storing
    <3> QED BY <2>1, <3>1, ProgressKept
  <2> QED
    BY <1>1, <2>2, <2>3, <2>4, <2>5, <2>6, <2>7, <2>8, <2>9, <2>10, <2>11, <2>12, <2>13,
       <2>14 DEF Next, StoreStep
<1>3. crash \/ crashes' = crashes
  BY DEF Next, StoreStep, UpdataStep,
     handleReply, UpdateSeq, UpdateGR, UpdateHash, InsertBlock, InsertNode, InsertRec, Insert,
     Return, handleUpdataNodeToHash, OpenNodeToHash, DeleteBucket, find, handleSearchRecToHash,
     Answer, handleNewdata, NewdataSeq, NewdataHash, NewdataGR, history
<1> QED BY <1>1, <1>2, <1>3

LEMMA LookupStep ==
    ASSUME StoreInv, Next
    PROVE  LookupSucceeds'
<1> USE DEF StoreInv
<1>1. ASSUME UNCHANGED asked
      PROVE  LookupSucceeds'
  <2> SUFFICES ASSUME asked # Nil
               PROVE  (asked[1] \in Hashes(asked[2]) /\ Found(asked[2]))'
    BY <1>1 DEF LookupSucceeds
  <2>1. asked[1] \in Hashes(asked[2]) /\ Found(asked[2])
    BY DEF LookupSucceeds
  <2>2. asked[2] \in Batch
    BY <2>1, NilAssumption DEF Found, TypeOK
  <2>3. PICK b \in Batch : asked[2] = b
    BY <2>2
  <2>4. Found(b)'
    BY <2>1, <2>3, FoundStep
  <2> QED BY <1>1, <2>1, <2>3, <2>4 DEF Hashes, Found
<1>2. ASSUME NEW h \in Hash, find(h)
      PROVE  LookupSucceeds'
  <2>1. DataHashToGRdigest[h] # Nil /\ asked' = <<h, DataHashToGRdigest[h]>>
    BY <1>2 DEF find
  <2> QED BY <1>2, <2>1 DEF find, storing, tables, history, LookupSucceeds, HashesLead, Hashes, Found
<1>3. ASSUME NEW R \in Reciver, handleSearchRecToHash(R)
      PROVE  LookupSucceeds'
  <2>1. PICK i \in 1 .. Len(table[R]) :
           asked' = <<table[R][i], DataHashToGRdigest[table[R][i]]>>
    BY <1>3 DEF handleSearchRecToHash
  <2>2. table[R][i] \in Entry /\ Listed(R, table[R][i])
    BY <2>1 DEF TypeOK, Listed, Values, Bucket
  <2>3. table[R][i] \in Hash /\ DataHashToGRdigest[table[R][i]] # Nil
    BY <2>2 DEF ListedLead
  <2> QED BY <1>3, <2>1, <2>3 DEF handleSearchRecToHash, storing, tables, history, LookupSucceeds,
                HashesLead, Hashes, Found
<1>4. CASE Answer \/ crash
  BY <1>4 DEF Answer, crash, LookupSucceeds
<1>5. CASE StoreStep \/ UpdataStep
  BY <1>5, <1>1 DEF StoreStep, UpdataStep, UpdateSeq, UpdateGR, UpdateHash, InsertBlock, InsertNode,
     InsertRec, Insert, Return, NewdataSeq, NewdataHash, NewdataGR, OpenNodeToHash, DeleteBucket, lookups
<1>6. ASSUME NEW b, NEW s, handleReply(b, s) \/ handleUpdataNodeToHash(b) \/ handleNewdata(b)
      PROVE  LookupSucceeds'
  BY <1>6, <1>1 DEF handleReply, handleUpdataNodeToHash, handleNewdata, lookups
<1> QED BY <1>2, <1>3, <1>4, <1>5, <1>6 DEF Next

(* What a bucket holds it keeps, a crash included, until it is deleted.    *)
LEMMA ValuesStep ==
    ASSUME StoreInv, Next
    PROVE  /\ dropped \subseteq dropped'
           /\ \A S \in Bucket : Values(S) \subseteq Values(S)' \/ S \in dropped'
<1> USE DEF StoreInv
<1>1. CASE UNCHANGED <<table, dropped>>
  BY <1>1, SameValues
<1>2. ASSUME NEW S \in Bucket, NEW v \in Entry, Inserting(S, v)
      PROVE  /\ dropped \subseteq dropped'
             /\ \A T \in Bucket : Values(T) \subseteq Values(T)'
  <2>1. CASE Putting(S, v)
    BY <1>2, <2>1, PutValues DEF Inserting
  <2>2. CASE Marking(S, v)
    BY <1>2, <2>2, SameValues DEF Inserting, Marking
  <2> QED BY <1>2, <2>1, <2>2 DEF Inserting
<1>3. ASSUME NEW n \in Node, Dropping(n)
      PROVE  /\ dropped \subseteq dropped'
             /\ \A T \in Bucket : Values(T) \subseteq Values(T)' \/ T \in dropped'
  BY <1>3, DropValues DEF Dropping
<1> QED BY <1>1, <1>2, <1>3, StepKinds DEF Quiet, Searching, Crashing

LEMMA StoredStep ==
    ASSUME StoreInv, Next
    PROVE  StoredIsListed'
<1> USE DEF StoreInv
<1> SUFFICES ASSUME NEW b \in stored'
             PROVE  (/\ b \in Values(Block)
                     /\ \A i \in 1 .. Len(Requests[b]) :
                           LET r == Requests[b][i]
                           IN  /\ DataHashToGRdigest[r.DataHash] # Nil
                               /\ r.DataHash \in Values(r.Reciver)
                               /\ \A n \in Holders(r) \ dropped :
                                     Values(n) \cap Listings(r, n) # {})'
  BY DEF StoredIsListed
<1>1. CASE b \in stored
  <2>1. b \in Batch /\ Block \in Bucket /\ Block \notin dropped'
    BY <1>1, TypeStep, BucketAssumption DEF TypeOK, Bucket
  <2>2. b \in Values(Block)'
    BY <1>1, <2>1, ValuesStep DEF StoredIsListed
  <2>3. ASSUME NEW i \in 1 .. Len(Requests[b])
        PROVE  LET r == Requests[b][i]
               IN  (/\ DataHashToGRdigest[r.DataHash] # Nil
                    /\ r.DataHash \in Values(r.Reciver)
                    /\ \A n \in Holders(r) \ dropped : Values(n) \cap Listings(r, n) # {})'
    <3> DEFINE r == Requests[b][i]
    <3>1. r.DataHash \in Hash /\ r.Reciver \in Reciver /\ Holders(r) \subseteq Node
      BY <2>1, RequestTyped
    <3>2. /\ DataHashToGRdigest[r.DataHash] # Nil /\ r.DataHash \in Values(r.Reciver)
          /\ \A n \in Holders(r) \ dropped : Values(n) \cap Listings(r, n) # {}
      BY <1>1 DEF StoredIsListed
    <3>3. r.Reciver \in Bucket /\ r.Reciver \notin dropped' /\ Holders(r) \subseteq Bucket
      BY <3>1, TypeStep, BucketAssumption DEF TypeOK, Bucket
    <3>4. DataHashToGRdigest'[r.DataHash] # Nil
      BY <3>1, <3>2, DigestsStep
    <3>5. r.DataHash \in Values(r.Reciver)'
      BY <3>2, <3>3, ValuesStep
    <3>6. \A n \in Holders(r) \ dropped' : Values(n)' \cap Listings(r, n) # {}
      BY <3>2, <3>3, ValuesStep
    <3> QED BY <3>4, <3>5, <3>6 DEF Holders, Listings, ChipsAt
  <2> QED BY <2>2, <2>3
<1>2. CASE b \notin stored
  <2>1. Return
    BY <1>2 DEF Next, StoreStep, UpdataStep, handleReply, UpdateSeq, UpdateGR, UpdateHash,
       InsertBlock, InsertNode, InsertRec, Insert, handleUpdataNodeToHash, OpenNodeToHash,
       DeleteBucket, find, handleSearchRecToHash, Answer, crash, handleNewdata, NewdataSeq,
       NewdataHash, NewdataGR, history
  <2>2. b = batch /\ b \in Batch /\ pc = "end" /\ insert = Nil
    BY <1>2, <2>1 DEF Return, At, TypeOK
  <2>3. UNCHANGED <<table, dropped, DataHashToGRdigest>>
    BY <2>1 DEF Return, tables
  <2>4. \A S, v : Listed(S, v) <=> v \in Values(S)'
    BY <2>2, <2>3, SameValues DEF Listed, Pending
  <2>5. b \in Values(Block)'
    BY <2>2, <2>4 DEF Progress
  <2>6. ASSUME NEW i \in 1 .. Len(Requests[b])
        PROVE  LET r == Requests[b][i]
               IN  (/\ DataHashToGRdigest[r.DataHash] # Nil
                    /\ r.DataHash \in Values(r.Reciver)
                    /\ \A n \in Holders(r) \ dropped : Values(n) \cap Listings(r, n) # {})'
    <3> DEFINE r == Requests[b][i]
    <3>1. RequestListed(r)
      BY <2>2 DEF Progress
    <3>2. \A n \in Holders(r) \ dropped' : Values(n)' \cap Listings(r, n) # {}
      BY <2>3, <2>4, <3>1 DEF RequestListed, NodeListed
    <3> QED BY <2>3, <2>4, <3>1, <3>2 DEF RequestListed, Holders, Listings, ChipsAt
  <2> QED BY <2>5, <2>6
<1> QED BY <1>1, <1>2

LEMMA StoreStutters ==
    ASSUME StoreInv, UNCHANGED vars
    PROVE  StoreInv'
<1> USE DEF StoreInv, vars
<1>1. /\ \A S : Values(S)' = Values(S)
      /\ \A S, v : Listed(S, v)' <=> Listed(S, v)
      /\ \A S, v : Copies(S, v)' = Copies(S, v)
  BY DEF Values, Copies, Listed, Pending
<1>2. \A r : RequestListed(r)' <=> RequestListed(r)
  BY <1>1 DEF RequestListed, NodeListed, Listings, Holders, ChipsAt
<1>3. \A r, n : NodeListed(r, n)' <=> NodeListed(r, n)
  BY <1>1 DEF NodeListed, Listings, ChipsAt
<1>4. TypeOK' /\ KeysCounted'
  BY DEF TypeOK, KeysCounted
<1>5. HashesLead' /\ LookupSucceeds'
  BY DEF HashesLead, LookupSucceeds, Hashes, Found
<1>6. ListedLead' /\ MarksHonest'
  BY <1>1 DEF ListedLead, MarksHonest
<1>7. Progress'
  BY <1>1, <1>2, <1>3 DEF Progress, Current, Holders
<1>8. CopiesCounted'
  BY <1>1 DEF CopiesCounted
<1>9. StoredIsListed'
  <2>1. /\ stored' = stored /\ dropped' = dropped
        /\ DataHashToGRdigest' = DataHashToGRdigest
    OBVIOUS
  <2> QED BY <1>1, <2>1 DEF StoredIsListed
<1> QED BY <1>4, <1>5, <1>6, <1>7, <1>8, <1>9

-----------------------------------------------------------------------------
(* The invariant behind the others: how much of the batch under way and of *)
(* an Insert under way is already in the databases, at each statement.     *)
THEOREM StoreInvariant == Spec => []StoreInv
<1>1. Init => StoreInv
  BY StoreInit
<1>2. StoreInv /\ [Next]_vars => StoreInv'
  <2> SUFFICES ASSUME StoreInv, [Next]_vars
               PROVE  StoreInv'
    OBVIOUS
  <2>1. CASE Next
    BY <2>1, TypeStep, KeysStep, HashesLeadStep, ListedLeadStep, MarksStep, ProgressStep, CopiesStep,
       LookupStep, StoredStep DEF StoreInv
  <2>2. CASE UNCHANGED vars
    BY <2>2, StoreStutters
  <2> QED BY <2>1, <2>2
<1> QED BY <1>1, <1>2, PTL DEF Spec

(* Whoever has read a digest, or a hash in the bucket of a receiver, finds *)
(* the slice with that hash in it, however the two reads of find or of     *)
(* handleSearchRecToHash interleave with the transactions of               *)
(* handleBlockStorage, and whatever the process had stored when it stopped.*)
THEOREM LookupSucceedsHolds == Spec => []LookupSucceeds
<1>1. StoreInv => LookupSucceeds
  BY DEF StoreInv
<1> QED BY <1>1, StoreInvariant, PTL

(* When handleBlockStorage has returned, its batch is listed as a block,   *)
(* under every receiver and under every node that stores a chip and whose  *)
(* bucket was never deleted: Insert skips what is marked, and a mark is    *)
(* made only after the value is there.                                     *)
THEOREM StoredIsListedHolds == Spec => []StoredIsListed
<1>1. StoreInv => StoredIsListed
  BY DEF StoreInv
<1> QED BY <1>1, StoreInvariant, PTL

(* A bucket repeats a value at most once per crash: only a process that    *)
(* stops between the append and the mark of Insert repeats it.             *)
THEOREM RepeatedByCrashOnlyHolds == Spec => []RepeatedByCrashOnly
<1>1. StoreInv => RepeatedByCrashOnly
  <2> SUFFICES ASSUME StoreInv, NEW S \in Bucket, NEW v \in Values(S)
               PROVE  Cardinality(Copies(S, v)) <= 1 + crashes
    BY DEF RepeatedByCrashOnly
  <2>1. v \in Entry
    BY DEF StoreInv, TypeOK, Values
  <2>2. crashes \in Nat /\ Cardinality(Copies(S, v)) \in Nat
    BY CopiesFinite, BoundAssumption DEF StoreInv, TypeOK
  <2>3. Cardinality(Copies(S, v)) <=
          crashes + (IF v \in isinfo[S] \/ insert = <<S, v, 2>> THEN 1 ELSE 0)
    BY <2>1 DEF StoreInv, CopiesCounted
  <2> QED BY <2>2, <2>3
<1> QED BY <1>1, StoreInvariant, PTL

(* Every variable keeps its type: in particular what the bucket of a       *)
(* receiver lists is a hash, and not one of the other values buckets hold. *)
THEOREM TypeCorrect == Spec => []TypeOK
<1>1. StoreInv => TypeOK
  BY DEF StoreInv
<1> QED BY <1>1, StoreInvariant, PTL

-----------------------------------------------------------------------------
(* A hash of a list that is taken over leads to a stored slice, unless its *)
(* batch is still to come or the batch under way has just indexed it.      *)
Taking == {"newseq", "newhash", "newgr"}

ToCome(b) == pc \in Taking /\ (b = batch \/ \E j \in 1 .. Len(newdata) : b = newdata[j])

Led(h) ==
    \/ DataHashToGRdigest[h] \in GRdigestToGR
    \/ pc \in Indexing /\ DataHashToGRdigest[h] = batch

TakenLed ==
    \A d \in isnewdata : \A i \in 1 .. Len(d) : \A h \in Hashes(d[i]) : Led(h) \/ ToCome(d[i])

(* The hashes handleNewdata has indexed of the batch it is at.             *)
BatchIndexed ==
    /\ pc = "newhash" => \A i \in 1 .. index - 1 :
                            DataHashToGRdigest[Requests[batch][i].DataHash] = batch
    /\ pc = "newgr" => \A i \in 1 .. Len(Requests[batch]) :
                            DataHashToGRdigest[Requests[batch][i].DataHash] = batch

TakenInv == TakenLed /\ BatchIndexed

LEMMA ListTyped ==
    ASSUME TypeOK, NEW d \in Newdata, NEW i \in 1 .. Len(d)
    PROVE  d[i] \in Batch /\ Hashes(d[i]) \subseteq Hash
<1>1. d \in Seq(Batch)
  BY NewdataAssumption
<1>2. d[i] \in Batch
  BY <1>1
<1> QED BY <1>2, RequestTyped DEF Hashes

(* The steps that neither move handleNewdata nor index a hash.             *)
LEMMA TakenKept ==
    ASSUME StoreInv, TakenInv, Next, UNCHANGED <<DataHashToGRdigest, isnewdata>>,
           UNCHANGED <<pc, batch, index, newdata>> \/ (pc \notin Taking /\ pc' \notin Taking)
    PROVE  TakenInv'
<1>1. GRdigestToGR \subseteq GRdigestToGR'
  BY DigestsStep
<1>2. \A h : Led(h) => Led(h)'
  BY <1>1 DEF Led, Indexing, Taking
<1>3. \A b : ToCome(b) => ToCome(b)'
  BY DEF ToCome
<1>4. TakenLed'
  BY <1>2, <1>3 DEF TakenInv, TakenLed, Hashes
<1>5. BatchIndexed'
  BY DEF TakenInv, BatchIndexed, Taking
<1> QED BY <1>4, <1>5 DEF TakenInv

LEMMA TakenUpdateHash ==
    ASSUME StoreInv, TakenInv, Next, UpdateHash
    PROVE  TakenInv'
<1> USE DEF StoreInv
<1>1. batch \in GRdigestToGR' /\ GRdigestToGR' = GRdigestToGR
  BY DEF UpdateHash, At, Progress
<1>2. \A h \in Hash : DataHashToGRdigest'[h] \in {batch, DataHashToGRdigest[h]}
  BY DEF UpdateHash, TypeOK
<1>3. pc \notin Taking /\ pc' \notin Taking /\ isnewdata' = isnewdata
  BY DEF UpdateHash, At, Goto, Follows, Taking, catchup
<1>4. TakenLed'
  <2> SUFFICES ASSUME NEW d \in isnewdata', NEW i \in 1 .. Len(d), NEW h \in Hashes(d[i])
               PROVE  Led(h)'
    BY DEF TakenLed, Hashes
  <2>1. d \in isnewdata /\ h \in Hash
    BY <1>3, ListTyped DEF TypeOK
  <2>2. DataHashToGRdigest[h] \in GRdigestToGR
    BY <1>3, <2>1 DEF TakenInv, TakenLed, Led, ToCome, Taking, Indexing
  <2> QED BY <1>1, <1>2, <2>1, <2>2 DEF Led
<1> QED BY <1>3, <1>4 DEF TakenInv, BatchIndexed, Taking

LEMMA TakenStart ==
    ASSUME StoreInv, TakenInv, NEW d \in Newdata, handleNewdata(d)
    PROVE  TakenInv'
<1>1. d \in Seq(Batch) /\ Len(d) \in Nat \ {0}
  BY NewdataAssumption
<1>2. /\ pc = "idle" /\ pc' = "newseq"
      /\ batch' = Head(d) /\ newdata' = Tail(d) /\ isnewdata' = isnewdata \cup {d}
      /\ UNCHANGED <<DataHashToGRdigest, GRdigestToGR>>
  BY DEF handleNewdata, At, Goto, tables
<1>3. \A i \in 1 .. Len(d) : ToCome(d[i])'
  <2> SUFFICES ASSUME NEW i \in 1 .. Len(d)
               PROVE  ToCome(d[i])'
    OBVIOUS
  <2>1. CASE i = 1
    BY <1>1, <1>2, <2>1 DEF ToCome, Taking
  <2>2. CASE i # 1
    <3>1. i - 1 \in 1 .. Len(Tail(d)) /\ Tail(d)[i - 1] = d[i]
      BY <1>1, <2>2
    <3> QED BY <1>2, <3>1 DEF ToCome, Taking
  <2> QED BY <2>1, <2>2
<1>4. TakenLed'
  <2> SUFFICES ASSUME NEW e \in isnewdata', NEW i \in 1 .. Len(e), NEW h \in Hashes(e[i])
               PROVE  Led(h)' \/ ToCome(e[i])'
    BY DEF TakenLed, Hashes
  <2>1. CASE e = d
    BY <1>3, <2>1
  <2>2. CASE e \in isnewdata
    BY <1>2, <2>2 DEF TakenInv, TakenLed, Led, ToCome, Taking, Indexing
  <2> QED BY <1>2, <2>1, <2>2
<1> QED BY <1>2, <1>4 DEF TakenInv, BatchIndexed

LEMMA TakenNewdataHash ==
    ASSUME StoreInv, TakenInv, Next, NewdataHash
    PROVE  TakenInv'
<1> USE DEF StoreInv
<1>1. PICK b \in Batch : batch = b
  BY DEF TypeOK
<1>2. PICK k \in 1 .. Len(Requests[b]) : index = k
  BY <1>1 DEF TypeOK
<1>3. Len(Requests[b]) \in Nat /\ \A i \in 1 .. Len(Requests[b]) : Requests[b][i].DataHash \in Hash
  BY BatchNotEmpty, RequestTyped
<1>4. /\ pc = "newhash" /\ batch' = b /\ newdata' = newdata /\ isnewdata' = isnewdata
      /\ GRdigestToGR' = GRdigestToGR
      /\ \/ pc' = "newhash" /\ index' = k + 1
         \/ pc' = "newgr" /\ k = Len(Requests[b])
  BY <1>1, <1>2, <1>3 DEF NewdataHash, At, Goto, catchup
<1>5. \A h \in Hash : DataHashToGRdigest'[h] =
                         IF h = Requests[b][k].DataHash THEN b ELSE DataHashToGRdigest[h]
  BY <1>1, <1>2 DEF NewdataHash, Current, TypeOK
<1>6. TakenLed'
  <2> SUFFICES ASSUME NEW d \in isnewdata', NEW i \in 1 .. Len(d), NEW h \in Hashes(d[i])
               PROVE  Led(h)' \/ ToCome(d[i])'
    BY DEF TakenLed, Hashes
  <2>1. d \in isnewdata /\ h \in Hash
    BY <1>4, ListTyped DEF TypeOK
  <2>2. CASE ToCome(d[i])
    BY <1>1, <1>4, <2>2 DEF ToCome, Taking
  <2>3. CASE Led(h)
    BY <1>1, <1>4, <1>5, <2>1, <2>3 DEF Led, Indexing
  <2> QED BY <2>1, <2>2, <2>3 DEF TakenInv, TakenLed
<1>7. \A i \in 1 .. k : DataHashToGRdigest'[Requests[b][i].DataHash] = b
  <2> SUFFICES ASSUME NEW i \in 1 .. k
               PROVE  DataHashToGRdigest'[Requests[b][i].DataHash] = b
    OBVIOUS
  <2>1. i \in 1 .. Len(Requests[b]) /\ (i = k \/ i \in 1 .. k - 1)
    BY <1>3
  <2>2. i # k => DataHashToGRdigest[Requests[b][i].DataHash] = b
    BY <1>1, <1>2, <1>4, <2>1 DEF TakenInv, BatchIndexed
  <2> QED BY <1>3, <1>5, <2>1, <2>2
<1>8. BatchIndexed'
  BY <1>4, <1>7 DEF BatchIndexed
<1> QED BY <1>6, <1>8 DEF TakenInv

LEMMA TakenNewdataGR ==
    ASSUME StoreInv, TakenInv, Next, NewdataGR
    PROVE  TakenInv'
<1> USE DEF StoreInv
<1>1. PICK b \in Batch : batch = b
  BY DEF TypeOK
<1>2. /\ pc = "newgr" /\ GRdigestToGR' = GRdigestToGR \cup {b}
      /\ UNCHANGED <<DataHashToGRdigest, isnewdata>> /\ pc' \in {"idle", "newseq"}
  BY <1>1 DEF NewdataGR, At, Goto
<1>3. \A h \in Hashes(b) : DataHashToGRdigest[h] = b
  BY <1>1, <1>2 DEF TakenInv, BatchIndexed, Hashes
<1>4. TakenLed'
  <2> SUFFICES ASSUME NEW d \in isnewdata', NEW i \in 1 .. Len(d), NEW h \in Hashes(d[i])
               PROVE  Led(h)' \/ ToCome(d[i])'
    BY DEF TakenLed, Hashes
  <2>1. d \in isnewdata /\ (Led(h) \/ ToCome(d[i]))
    BY <1>2 DEF TakenInv, TakenLed
  <2>2. CASE Led(h) \/ d[i] = b
    BY <1>1, <1>2, <1>3, <2>2 DEF Led
  <2>3. ASSUME NEW j \in 1 .. Len(newdata), d[i] = newdata[j]
        PROVE  ToCome(d[i])'
    <3>1. newdata \in Seq(Batch) /\ newdata # <<>>
      BY <2>3 DEF TypeOK
    <3>2. pc' = "newseq" /\ batch' = Head(newdata) /\ newdata' = Tail(newdata)
      BY <3>1 DEF NewdataGR, Goto
    <3>3. CASE j = 1
      BY <2>3, <3>1, <3>2, <3>3 DEF ToCome, Taking
    <3>4. CASE j # 1
      <4>1. j - 1 \in 1 .. Len(Tail(newdata)) /\ Tail(newdata)[j - 1] = newdata[j]
        BY <3>1, <3>4
      <4> QED BY <2>3, <3>2, <4>1 DEF ToCome, Taking
    <3> QED BY <3>3, <3>4
  <2> QED BY <1>1, <2>1, <2>2, <2>3 DEF ToCome
<1> QED BY <1>2, <1>4 DEF TakenInv, BatchIndexed

LEMMA TakenStep ==
    ASSUME StoreInv, TakenInv, Next
    PROVE  TakenInv'
<1>1. CASE UpdateHash
  BY <1>1, TakenUpdateHash
<1>2. ASSUME NEW d \in Newdata, handleNewdata(d)
      PROVE  TakenInv'
  BY <1>2, TakenStart
<1>3. CASE NewdataSeq
  <2>1. /\ pc = "newseq" /\ pc' = "newhash" /\ index' = index
        /\ UNCHANGED <<DataHashToGRdigest, GRdigestToGR, batch, newdata, isnewdata>>
    BY <1>3 DEF NewdataSeq, At, Goto, catchup
  <2>2. index = 1
    BY <2>1 DEF StoreInv, KeysCounted
  <2> QED BY <2>1, <2>2 DEF TakenInv, TakenLed, BatchIndexed, Led, ToCome, Taking, Indexing, Hashes
<1>4. CASE NewdataHash
  BY <1>4, TakenNewdataHash
<1>5. CASE NewdataGR
  BY <1>5, TakenNewdataGR
<1>6. CASE crash
  BY <1>6 DEF crash, Goto, TakenInv, TakenLed, BatchIndexed
<1>7. CASE UpdateSeq \/ UpdateGR \/ InsertBlock \/ InsertNode \/ InsertRec \/ Return
  BY <1>7, TakenKept DEF UpdateSeq, UpdateGR, InsertBlock, InsertNode, InsertRec, Return, At, Goto,
     Follows, Taking, catchup, tables
<1>8. CASE Insert \/ UpdataStep \/ Answer
  BY <1>8, TakenKept DEF Insert, UpdataStep, OpenNodeToHash, DeleteBucket, Answer, catchup, storing,
     tables
<1>9. ASSUME NEW b, NEW s, handleReply(b, s)
      PROVE  TakenInv'
  BY <1>9, TakenKept DEF handleReply, At, Goto, Taking, catchup, tables
<1>10. ASSUME NEW r, handleUpdataNodeToHash(r) \/ find(r) \/ handleSearchRecToHash(r)
       PROVE  TakenInv'
  BY <1>10, TakenKept DEF handleUpdataNodeToHash, find, handleSearchRecToHash, storing, tables
<1> QED
  BY <1>1, <1>2, <1>3, <1>4, <1>5, <1>6, <1>7, <1>8, <1>9, <1>10 DEF Next, StoreStep

(* When handleNewdata has given the lock back, every hash of the lists it  *)
(* has taken over leads to a stored slice, whatever a crash had left.      *)
THEOREM TakenIsStoredHolds == Spec => []TakenIsStored
<1>1. Init => TakenInv
  BY DEF Init, TakenInv, TakenLed, BatchIndexed
<1>2. StoreInv /\ StoreInv' /\ TakenInv /\ [Next]_vars => TakenInv'
  <2> SUFFICES ASSUME StoreInv, TakenInv, [Next]_vars
               PROVE  TakenInv'
    OBVIOUS
  <2>1. CASE UNCHANGED vars
    BY <2>1 DEF vars, TakenInv, TakenLed, BatchIndexed, Led, ToCome, Hashes
  <2> QED BY <2>1, TakenStep
<1>3. StoreInv /\ TakenInv => TakenIsStored
  BY DEF TakenInv, TakenLed, Led, ToCome, Taking, Indexing, TakenIsStored, At
<1> QED BY <1>1, <1>2, <1>3, StoreInvariant, PTL DEF Spec
=============================================================================
