---------------------------- MODULE RequestPool ----------------------------
(***************************************************************************)
(* localMessagePool of one node, the slice of the requests that have been  *)
(* committed: handleCommit appends the requests of a batch under p.lock,   *)
(* handleViewChange deletes those of a deposed batch under p.lock,         *)
(* handleNewView does so without it.  PBFT takes each of these as one step *)
(* on a set of batches; here every access to the slice is a step.          *)
(*                                                                         *)
(* A slice is a header (array and length) on an array that other headers   *)
(* may share.  `range` reads the header once and the elements as they are  *)
(* when their turn comes.  An index out of range is a panic: it ends the   *)
(* handler, handleCecover keeps the process running, and nothing unlocks.  *)
(* The requests of a deposed batch may be in the slice already: clients    *)
(* send again, and Compare looks at requests, not at batches.  A header is *)
(* read and written in one piece here.                                     *)
(***************************************************************************)
EXTENDS Integers, Sequences, FiniteSets

CONSTANTS
    Commit,         \* handlers of the Commit that completes the quorum of a batch
    ViewChange,     \* handlers of the ViewChange that deposes the primary
    NewView,        \* handlers of a NewView
    Requests,       \* Requests[h]: slice of the requests of h's batch
    MaxSpare        \* bound: places append allocates beyond those it needs

Handler == Commit \cup ViewChange \cup NewView

VARIABLES
    heap,           \* the arrays, each with all its places
    localMessagePool,
    lock,           \* handler that holds p.lock, or Free
    isViewChange,   \* batches whose view change the node has made
    pc,             \* pc[h]: "start", "append", "write", "report", "range", "cut", "ended"
    header,         \* header[h]: localMessagePool as h last read it
    ranged,         \* ranged[h]: the header h ranges over
    index           \* index[h]: i of the range

vars == <<heap, localMessagePool, lock, isViewChange, pc, header, ranged, index>>

Free == "free"
Vacant == "vacant"      \* place of an array that no append has filled
NoSlice == [array |-> 1, len |-> 0]

Goto(h, label) == pc' = [pc EXCEPT ![h] = label]

(* The handler returns, or panics, at this point. *)
Return(h) == Goto(h, "ended") /\ lock' = IF lock = h THEN Free ELSE lock
Panic(h) == Goto(h, "ended") /\ UNCHANGED lock

-----------------------------------------------------------------------------
(* handleCommit, from the point where the quorum is complete *)

BeginCommit(h) ==
    /\ pc[h] = "start" /\ lock = Free
    /\ lock' = h /\ Goto(h, "append")
    /\ UNCHANGED <<heap, localMessagePool, isViewChange, header, ranged, index>>

ReadPool(h) ==
    /\ pc[h] = "append" /\ Goto(h, "write")
    /\ header' = [header EXCEPT ![h] = localMessagePool]
    /\ UNCHANGED <<heap, localMessagePool, lock, isViewChange, ranged, index>>

(* append: in the places left of the array, or in a copy with enough       *)
AppendRequests(h) ==
    LET old == header[h]
        new == old.len + Len(Requests[h])
        filled == SubSeq(heap[old.array], 1, old.len) \o Requests[h]
    IN
    /\ pc[h] = "write" /\ Goto(h, "report")
    /\ IF new <= Len(heap[old.array])
       THEN /\ heap' = [heap EXCEPT ![old.array] =
                           filled \o SubSeq(@, new + 1, Len(@))]
            /\ localMessagePool' = [array |-> old.array, len |-> new]
       ELSE \E spare \in 0 .. MaxSpare :
            /\ heap' = Append(heap, filled \o [i \in 1 .. spare |-> Vacant])
            /\ localMessagePool' = [array |-> Len(heap) + 1, len |-> new]
    /\ UNCHANGED <<lock, isViewChange, header, ranged, index>>

(* the primary writes the last request of the pool to a file               *)
Report(h) ==
    /\ pc[h] = "report"
    /\ \E primary \in BOOLEAN :
          IF primary /\ localMessagePool.len = 0 THEN Panic(h) ELSE Return(h)
    /\ UNCHANGED <<heap, localMessagePool, isViewChange, header, ranged, index>>

-----------------------------------------------------------------------------
(* handleViewChange and handleNewView *)

StartRange(h) ==
    /\ ranged' = [ranged EXCEPT ![h] = localMessagePool]
    /\ index' = [index EXCEPT ![h] = 0]
    /\ Goto(h, "range")
    /\ UNCHANGED <<heap, localMessagePool, header>>

BeginViewChange(h) ==
    /\ pc[h] = "start" /\ lock = Free
    /\ \/ /\ Requests[h] \notin isViewChange
          /\ lock' = h
          /\ isViewChange' = isViewChange \cup {Requests[h]}
          /\ StartRange(h)
       \/ /\ Requests[h] \in isViewChange
          /\ Return(h)
          /\ UNCHANGED <<heap, localMessagePool, isViewChange, header, ranged, index>>

(* A node that is next in line deletes too, and does not note the batch.   *)
BeginNewView(h) ==
    /\ pc[h] = "start" /\ UNCHANGED lock
    /\ \/ /\ Requests[h] \notin isViewChange
          /\ isViewChange' \in {isViewChange, isViewChange \cup {Requests[h]}}
          /\ StartRange(h)
       \/ /\ Requests[h] \in isViewChange
          /\ Goto(h, "ended")
          /\ UNCHANGED <<heap, localMessagePool, isViewChange, header, ranged, index>>

Matches(h, v) == \E k \in DOMAIN Requests[h] : Requests[h][k] = v     \* Compare

(* next element of the range; one to be deleted is cut out                 *)
RangeStep(h) ==
    /\ pc[h] = "range"
    /\ IF index[h] >= ranged[h].len
       THEN Return(h) /\ UNCHANGED <<header, index>>
       ELSE LET v == heap[ranged[h].array][index[h] + 1] IN
            IF ~Matches(h, v)
            THEN /\ index' = [index EXCEPT ![h] = @ + 1]
                 /\ UNCHANGED <<pc, lock, header>>
            ELSE /\ header' = [header EXCEPT ![h] = localMessagePool]
                 /\ UNCHANGED index
                 /\ IF index[h] + 1 > localMessagePool.len
                    THEN Panic(h)
                    ELSE Goto(h, "cut") /\ UNCHANGED lock
    /\ UNCHANGED <<heap, localMessagePool, isViewChange, ranged>>

(* append(localMessagePool[:i], localMessagePool[i+1:]...): the elements   *)
(* behind i move up in the shared array.                                   *)
Cut(h) ==
    LET old == header[h]
        i == index[h]
    IN
    /\ pc[h] = "cut" /\ Goto(h, "range")
    /\ heap' = [heap EXCEPT ![old.array] =
                   [p \in DOMAIN @ |-> IF p > i /\ p < old.len THEN @[p + 1] ELSE @[p]]]
    /\ localMessagePool' = [old EXCEPT !.len = @ - 1]
    /\ index' = [index EXCEPT ![h] = @ + 1]
    /\ UNCHANGED <<lock, isViewChange, header, ranged>>

-----------------------------------------------------------------------------
Init ==
    /\ heap = <<<<>>>> /\ localMessagePool = NoSlice
    /\ lock = Free /\ isViewChange = {}
    /\ pc = [h \in Handler |-> "start"]
    /\ header = [h \in Handler |-> NoSlice]
    /\ ranged = [h \in Handler |-> NoSlice]
    /\ index = [h \in Handler |-> 0]

Next ==
    \/ \E h \in Commit : BeginCommit(h) \/ ReadPool(h) \/ AppendRequests(h) \/ Report(h)
    \/ \E h \in ViewChange : BeginViewChange(h)
    \/ \E h \in NewView : BeginNewView(h)
    \/ \E h \in ViewChange \cup NewView : RangeStep(h) \/ Cut(h)

Spec == Init /\ [][Next]_vars

-----------------------------------------------------------------------------
(* A handler that has ended does not hold p.lock: pbft.go:611 warns that   *)
(* the node is stuck otherwise and cannot answer any message of the other  *)
(* nodes.  The handlers that panic between Lock and Unlock, and are kept   *)
(* from ending the process by handleCecover, leave it held.                *)
LockReleased == \A h \in Handler : pc[h] = "ended" => lock # h
=============================================================================
