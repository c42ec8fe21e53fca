------------------------------ MODULE MetaStore ------------------------------
(***************************************************************************)
(* The databases of one node: handleReply stores a batch under p.lock,     *)
(* handleNewdata takes over batches a lagging node has missed,             *)
(* handleUpdataNodeToHash drops the buckets of nodes that no longer hold a *)
(* chip, and clients look metadata up.  Every call of db.go opens the      *)
(* file, runs one boltdb transaction and closes it: a transaction is a     *)
(* step, other handlers run between any two, and the process may stop      *)
(* there; it starts again with the files and nothing else.                 *)
(*                                                                         *)
(* A batch stands for its digest and for the marshalled slice of requests. *)
(* The key of a bucket's entry (NextSequence) is its position.             *)
(***************************************************************************)
EXTENDS Integers, Sequences, FiniteSets, SequencesExt

CONSTANTS
    Batch,          \* slices of requests that reach f+1 answers
    Requests,       \* Requests[b]: the requests of b, in order
    Hash,           \* values of Data.DataHash
    Reciver,
    Node,           \* addresses named by Data.StoreNode
    Chip,           \* keys of Data.StoreNode
    SequenceID,     \* sequence numbers answers may carry
    Newdata,        \* lists of batches 2f+1 nodes send to one that lags
    Nil,            \* a missing key
    MaxUpdata,      \* calls of handleUpdataNodeToHash
    MaxCrashes

(* Data.StoreNode gives each chip the node that stores it. *)
Request == [DataHash : Hash, Reciver : Reciver, StoreNode : [Chip -> Node]]

Block == "GRToBlock"
Bucket == {Block} \cup Reciver \cup Node     \* of ToGR.db, RecToHash.db, NodeToHash.db
Entry == Batch \cup Hash \cup (Hash \X Seq(Chip))

ASSUME BatchAssumption == Requests \in [Batch -> Seq(Request) \ {<<>>}]
ASSUME BucketAssumption == Reciver \cap Node = {} /\ Block \notin Reciver \cup Node
ASSUME ChipAssumption == IsFiniteSet(Chip) /\ Chip # {}
ASSUME NilAssumption == Nil \notin Batch /\ Nil \notin Bucket \X Entry \X {1, 2}
ASSUME NewdataAssumption == Newdata \subseteq Seq(Batch) \ {<<>>}
ASSUME BoundAssumption == MaxUpdata \in Nat /\ MaxCrashes \in Nat

VARIABLES
    SeqToGRdigest,
    DataHashToGRdigest,
    GRdigestToGR,   \* batches whose slice is stored under its digest
    table,          \* table[S]: the values of bucket S
    isinfo,         \* isinfo[S]: the values marked in bucket S+"isinfo"
    isMReply,       \* batches handleReply has stored, or begun to store
    isnewdata,      \* lists handleNewdata has taken over, or begun to
    pc,             \* the statement handleBlockStorage or handleNewdata is at
    batch, number,  \* its Reply, or the batch and key of handleNewdata
    index,          \* the request its loop is at
    newdata,        \* the batches of the list after this one
    todo,           \* nodes of mp whose bucket the loop has still to insert in
    insert,         \* the Insert under way, after its Search: bucket, value, step
    asked,          \* find or handleSearchRecToHash between its two reads
    updata,         \* the request handleUpdataNodeToHash works on
    dropping,       \* buckets it deletes, while it holds NodeToHash.db
    stored,         \* history: batches whose handleBlockStorage has returned
    dropped,        \* history: buckets ever deleted
    torn,           \* history: batches a crash left indexed by handleNewdata
    updates,        \* history: calls of handleUpdataNodeToHash
    crashes         \* history: number of crashes

tables  == <<SeqToGRdigest, DataHashToGRdigest, GRdigestToGR, table, isinfo>>
storing == <<isMReply, isnewdata, pc, batch, number, index, newdata, todo, insert>>
lookups == <<asked, updata, dropping>>
history == <<stored, dropped, torn, updates, crashes>>
catchup == <<isnewdata, newdata>>
vars == <<SeqToGRdigest, DataHashToGRdigest, GRdigestToGR, table, isinfo, isMReply,
          isnewdata, pc, batch, number, index, newdata, todo, insert, asked, updata,
          dropping, stored, dropped, torn, updates, crashes>>

(* The batches of a list of n go to the keys 1 - n to 0 (p.h is 0 for ever).*)
Keys == SequenceID \cup UNION {(1 - Len(d)) .. 0 : d \in Newdata}

Hashes(b) == {Requests[b][i].DataHash : i \in 1 .. Len(Requests[b])}
Current == Requests[batch][index]
Holders(r) == {r.StoreNode[c] : c \in Chip}
ChipsAt(r, n) == {c \in Chip : r.StoreNode[c] = n}

(* "datahash:chip:chip"; the order is the one of ranging over StoreNode. *)
Listings(r, n) == {<<r.DataHash, chips>> : chips \in SetToSeqs(ChipsAt(r, n))}

Free(S) == S \in Node => dropping = {}      \* nobody holds NodeToHash.db

-----------------------------------------------------------------------------
(* handleBlockStorage, from one statement to the next *)

FaultyFollows(l) ==        \* fault: the slice is stored after its index
    CASE l = "seq"  -> "block" [] l = "block" -> "hash" [] l = "hash" -> "nodes"
      [] l = "nodes" -> "rec"  [] l = "loop"  -> "gr"   [] l = "gr"   -> "end"

Follows(l) ==
    CASE l = "seq"  -> "block" [] l = "block" -> "gr"   [] l = "gr" -> "hash"
      [] l = "hash" -> "nodes" [] l = "nodes" -> "rec"  [] l = "loop" -> "end"

At(l) == pc = l /\ insert = Nil
Goto(l) == pc' = l

(* handleReply, the batch having f+1 answers; p.lock is held until Return. *)
handleReply(b, s) ==
    /\ At("idle")
    /\ b \notin isMReply
    /\ isMReply' = isMReply \cup {b}
    /\ batch' = b /\ number' = s /\ index' = 1
    /\ Goto("seq")
    /\ UNCHANGED <<tables, catchup, todo, insert, lookups, history>>

UpdateSeq ==
    /\ At("seq")
    /\ SeqToGRdigest' = [SeqToGRdigest EXCEPT ![number] = batch]
    /\ Goto(Follows("seq"))
    /\ UNCHANGED <<DataHashToGRdigest, GRdigestToGR, table, isinfo, isMReply, catchup,
                   batch, number, index, todo, insert, lookups, history>>

UpdateGR ==
    /\ At("gr")
    /\ GRdigestToGR' = GRdigestToGR \cup {batch}
    /\ Goto(Follows("gr"))
    /\ UNCHANGED <<SeqToGRdigest, DataHashToGRdigest, table, isinfo, isMReply, catchup,
                   batch, number, index, todo, insert, lookups, history>>

UpdateHash ==
    /\ At("hash")
    /\ DataHashToGRdigest' = [DataHashToGRdigest EXCEPT ![Current.DataHash] = batch]
    /\ todo' = Holders(Current)
    /\ Goto(Follows("hash"))
    /\ UNCHANGED <<SeqToGRdigest, GRdigestToGR, table, isinfo, isMReply, catchup, batch,
                   number, index, insert, lookups, history>>

(* Insert: the value is looked for under S+"isinfo", appended to S, and     *)
(* marked, in three transactions.                                           *)
FaultyMarked(S, v) == FALSE             \* fault: the Search is forgotten
Marked(S, v) == v \in isinfo[S]

FaultyInsertSteps == <<"mark", "put">>  \* fault: marked before it is there
InsertSteps == <<"put", "mark">>

Search(S, v) ==
    /\ Free(S)
    /\ insert' = IF Marked(S, v) THEN Nil ELSE <<S, v, 1>>

Insert ==
    /\ insert # Nil
    /\ LET S == insert[1]
           v == insert[2]
           k == insert[3]
       IN  /\ Free(S)
           /\ IF InsertSteps[k] = "put"
              THEN table' = [table EXCEPT ![S] = Append(@, v)] /\ UNCHANGED isinfo
              ELSE isinfo' = [isinfo EXCEPT ![S] = @ \cup {v}] /\ UNCHANGED table
           /\ insert' = IF k < Len(InsertSteps) THEN <<S, v, k + 1>> ELSE Nil
    /\ UNCHANGED <<SeqToGRdigest, DataHashToGRdigest, GRdigestToGR, isMReply, catchup, pc,
                   batch, number, index, todo, lookups, history>>

InsertBlock ==
    /\ At("block")
    /\ Search(Block, batch)
    /\ Goto(Follows("block"))
    /\ UNCHANGED <<tables, isMReply, catchup, batch, number, index, todo, lookups, history>>

InsertNode ==
    /\ At("nodes")
    /\ \E n \in todo :
          /\ \E v \in Listings(Current, n) : Search(n, v)
          /\ todo' = todo \ {n}
          /\ Goto(IF todo = {n} THEN Follows("nodes") ELSE "nodes")
    /\ UNCHANGED <<tables, isMReply, catchup, batch, number, index, lookups, history>>

InsertRec ==
    /\ At("rec")
    /\ Search(Current.Reciver, Current.DataHash)
    /\ IF index < Len(Requests[batch])
       THEN index' = index + 1 /\ Goto("hash")
       ELSE index' = index /\ Goto(Follows("loop"))
    /\ UNCHANGED <<tables, isMReply, catchup, batch, number, todo, lookups, history>>

Return ==
    /\ At("end")
    /\ stored' = stored \cup {batch}
    /\ Goto("idle")
    /\ UNCHANGED <<tables, isMReply, catchup, batch, number, index, todo, insert, lookups,
                   dropped, torn, updates, crashes>>

-----------------------------------------------------------------------------
(* handleNewdata, when more than 2f nodes have sent the list; p.lock is     *)
(* held.  Each batch is indexed, its hashes are, and then it is stored.     *)
handleNewdata(d) ==
    /\ At("idle")
    /\ d \notin isnewdata
    /\ isnewdata' = isnewdata \cup {d}
    /\ newdata' = Tail(d) /\ batch' = Head(d) /\ number' = 1 - Len(d) /\ index' = 1
    /\ Goto("newseq")
    /\ UNCHANGED <<tables, isMReply, todo, insert, lookups, history>>

NewdataSeq ==
    /\ At("newseq")
    /\ SeqToGRdigest' = [SeqToGRdigest EXCEPT ![number] = batch]
    /\ Goto("newhash")
    /\ UNCHANGED <<DataHashToGRdigest, GRdigestToGR, table, isinfo, isMReply, catchup,
                   batch, number, index, todo, insert, lookups, history>>

NewdataHash ==
    /\ At("newhash")
    /\ DataHashToGRdigest' = [DataHashToGRdigest EXCEPT ![Current.DataHash] = batch]
    /\ IF index < Len(Requests[batch])
       THEN index' = index + 1 /\ Goto("newhash")
       ELSE index' = index /\ Goto("newgr")
    /\ UNCHANGED <<SeqToGRdigest, GRdigestToGR, table, isinfo, isMReply, catchup, batch,
                   number, todo, insert, lookups, history>>

FaultyNewdataGR ==                  \* fault: returns after the first batch
    /\ At("newgr")
    /\ GRdigestToGR' = GRdigestToGR \cup {batch}
    /\ Goto("idle")
    /\ UNCHANGED <<SeqToGRdigest, DataHashToGRdigest, table, isinfo, isMReply, catchup,
                   batch, number, index, todo, insert, lookups, history>>

NewdataGR ==
    /\ At("newgr")
    /\ GRdigestToGR' = GRdigestToGR \cup {batch}
    /\ IF newdata = <<>>
       THEN Goto("idle") /\ UNCHANGED <<newdata, batch, number, index>>
       ELSE /\ newdata' = Tail(newdata) /\ batch' = Head(newdata)
            /\ number' = number + 1 /\ index' = 1
            /\ Goto("newseq")
    /\ UNCHANGED <<SeqToGRdigest, DataHashToGRdigest, table, isinfo, isMReply, isnewdata,
                   todo, insert, lookups, history>>

Indexing == {"newhash", "newgr"}    \* a batch may be indexed and not yet stored

-----------------------------------------------------------------------------
(* handleUpdataNodeToHash.  The request also goes to the request window: a  *)
(* batch with it is stored before, between or after these steps.            *)
handleUpdataNodeToHash(r) ==
    /\ updata = Nil /\ dropping = {}
    /\ updates < MaxUpdata
    /\ DataHashToGRdigest[r.DataHash] # Nil
    /\ updata' = <<r, DataHashToGRdigest[r.DataHash]>>
    /\ updates' = updates + 1
    /\ UNCHANGED <<tables, storing, asked, dropping, stored, dropped, torn, crashes>>

(* Nodes that held a chip of the stored slice and hold it no longer. *)
Left(r, b) ==
    {n \in Node : \E i \in 1 .. Len(Requests[b]), c \in Chip :
        /\ Requests[b][i].DataHash = r.DataHash
        /\ n = Requests[b][i].StoreNode[c]
        /\ n # r.StoreNode[c]}

OpenNodeToHash ==
    /\ updata # Nil
    /\ dropping' = IF updata[2] \in GRdigestToGR THEN Left(updata[1], updata[2]) ELSE {}
    /\ updata' = Nil
    /\ UNCHANGED <<tables, storing, asked, history>>

FaultyHandled(n) == IF table[n] = <<>> THEN {} ELSE {n}   \* fault: returns on an error

Handled(n) == {n}

(* The bucket goes; its marks stay. *)
DeleteBucket(n) ==
    /\ n \in dropping
    /\ table' = [table EXCEPT ![n] = <<>>]
    /\ dropping' = dropping \ Handled(n)
    /\ dropped' = dropped \cup {n}
    /\ UNCHANGED <<SeqToGRdigest, DataHashToGRdigest, GRdigestToGR, isinfo, storing, asked,
                   updata, stored, torn, updates, crashes>>

-----------------------------------------------------------------------------
(* find asks for a hash; handleSearchRecToHash for every hash it listed.    *)
find(h) ==
    /\ asked = Nil
    /\ DataHashToGRdigest[h] # Nil
    /\ asked' = <<h, DataHashToGRdigest[h]>>
    /\ UNCHANGED <<tables, storing, updata, dropping, history>>

handleSearchRecToHash(R) ==
    /\ asked = Nil
    /\ \E i \in 1 .. Len(table[R]) :
          asked' = <<table[R][i], DataHashToGRdigest[table[R][i]]>>
    /\ UNCHANGED <<tables, storing, updata, dropping, history>>

Answer ==
    /\ asked # Nil
    /\ asked' = Nil
    /\ UNCHANGED <<tables, storing, updata, dropping, history>>

crash ==
    /\ crashes < MaxCrashes
    /\ crashes' = crashes + 1
    /\ torn' = torn \cup (IF pc \in Indexing THEN {batch} ELSE {})
    /\ isMReply' = {} /\ isnewdata' = {} /\ newdata' = <<>> /\ todo' = {}
    /\ Goto("idle")
    /\ insert' = Nil /\ asked' = Nil /\ updata' = Nil /\ dropping' = {}
    /\ UNCHANGED <<tables, batch, number, index, stored, dropped, updates>>

Init ==
    /\ SeqToGRdigest = [k \in Keys |-> Nil]
    /\ DataHashToGRdigest = [h \in Hash |-> Nil]
    /\ GRdigestToGR = {}
    /\ table = [S \in Bucket |-> <<>>]
    /\ isinfo = [S \in Bucket |-> {}]
    /\ isMReply = {} /\ isnewdata = {} /\ newdata = <<>>
    /\ pc = "idle" /\ insert = Nil /\ todo = {}
    /\ batch \in Batch /\ number \in SequenceID /\ index = 1
    /\ asked = Nil /\ updata = Nil /\ dropping = {}
    /\ stored = {} /\ dropped = {} /\ torn = {} /\ updates = 0 /\ crashes = 0

StoreStep ==
    \/ UpdateSeq \/ UpdateGR \/ UpdateHash
    \/ InsertBlock \/ InsertNode \/ InsertRec \/ Insert \/ Return
    \/ NewdataSeq \/ NewdataHash \/ NewdataGR

UpdataStep == OpenNodeToHash \/ \E n \in Node : DeleteBucket(n)

Next ==
    \/ \E b \in Batch, s \in SequenceID : handleReply(b, s)
    \/ \E d \in Newdata : handleNewdata(d)
    \/ StoreStep
    \/ \E b \in Batch : \E i \in 1 .. Len(Requests[b]) : handleUpdataNodeToHash(Requests[b][i])
    \/ UpdataStep
    \/ \E h \in Hash : find(h)
    \/ \E R \in Reciver : handleSearchRecToHash(R)
    \/ Answer
    \/ crash

Fairness == WF_vars(StoreStep) /\ WF_vars(UpdataStep)

Spec == Init /\ [][Next]_vars /\ Fairness

-----------------------------------------------------------------------------
TypeOK ==
    /\ SeqToGRdigest \in [Keys -> Batch \cup {Nil}]
    /\ DataHashToGRdigest \in [Hash -> Batch \cup {Nil}]
    /\ GRdigestToGR \subseteq Batch
    /\ table \in [Bucket -> Seq(Entry)] /\ isinfo \in [Bucket -> SUBSET Entry]
    /\ isMReply \subseteq Batch /\ isnewdata \subseteq Newdata
    /\ pc \in {"idle", "seq", "block", "gr", "hash", "nodes", "rec", "end",
              "newseq", "newhash", "newgr"}
    /\ newdata \in Seq(Batch)
    /\ batch \in Batch /\ number \in Keys /\ index \in 1 .. Len(Requests[batch])
    /\ todo \subseteq Node
    /\ insert \in {Nil} \cup (Bucket \X Entry \X {1, 2})
    /\ asked \in {Nil} \cup (Hash \X (Batch \cup {Nil}))
    /\ updata \in {Nil} \cup (Request \X Batch)
    /\ dropping \subseteq Node
    /\ stored \subseteq Batch /\ dropped \subseteq Node /\ torn \subseteq Batch
    /\ updates \in 0 .. MaxUpdata /\ crashes \in 0 .. MaxCrashes

Values(S) == {table[S][i] : i \in 1 .. Len(table[S])}
Copies(S, v) == {i \in 1 .. Len(table[S]) : table[S][i] = v}

(* Whoever has read a digest, or a hash from a receiver's bucket, finds the *)
(* slice with that hash in it, although the two reads are transactions of   *)
(* their own and a batch may be half stored, by a process that stopped.     *)
(* What he misses is the batch handleNewdata is at, or one it was at when   *)
(* the process stopped: it alone indexes before it stores.                  *)
Found(b) ==
    \/ b \in GRdigestToGR \cup torn
    \/ pc \in Indexing /\ b = batch

LookupSucceeds == asked # Nil => asked[1] \in Hashes(asked[2]) /\ Found(asked[2])

(* When handleNewdata has given the lock back, the hashes of its batches    *)
(* lead to stored slices, those too that a crash had left leading nowhere.  *)
TakenIsStored ==
    At("idle") =>
        \A d \in isnewdata : \A i \in 1 .. Len(d) : \A h \in Hashes(d[i]) :
            DataHashToGRdigest[h] \in GRdigestToGR

(* Insert keeps a bucket free of repetitions up to one per crash: only a    *)
(* process that stops between the append and the mark repeats a value.      *)
RepeatedByCrashOnly ==
    \A S \in Bucket : \A v \in Values(S) : Cardinality(Copies(S, v)) <= 1 + crashes

(* When handleBlockStorage has returned, the block, its receivers and the   *)
(* nodes that store its chips list it, whatever crash came before; a node's *)
(* bucket that was deleted at any time is the exception.                    *)
StoredIsListed ==
    \A b \in stored :
        /\ b \in Values(Block)
        /\ \A i \in 1 .. Len(Requests[b]) :
              LET r == Requests[b][i]
              IN  /\ DataHashToGRdigest[r.DataHash] # Nil
                  /\ r.DataHash \in Values(r.Reciver)
                  /\ \A n \in Holders(r) \ dropped : Values(n) \cap Listings(r, n) # {}

(* readme.txt:10: the bucket ip+isinfo serves "to judge whether the bucket  *)
(* of the ip stores" the value: what is marked there is in the bucket.      *)
MarkedIsStored == \A S \in Bucket : isinfo[S] \subseteq Values(S)

(* A sequence number that is indexed can be served to a node that lags.     *)
NumberedIsStored ==
    At("idle") =>
        \A s \in Keys : SeqToGRdigest[s] # Nil => SeqToGRdigest[s] \in GRdigestToGR

(* handleBlockStorage returns and gives p.lock back: what it waits for, the *)
(* file NodeToHash.db, is closed again in the end.                          *)
StorageEnds == pc # "idle" ~> pc = "idle"
=============================================================================
