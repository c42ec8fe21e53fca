---------------------------- MODULE RequestWindow ----------------------------
(***************************************************************************)
(* How one node gathers client requests into a batch: handleClientRequest, *)
(* which handler (tcp.go) starts in a goroutine of its own per request,    *)
(* and handleRequests.  The first handler of a window becomes its leader,  *)
(* waits until the window is over and proposes what has been collected.    *)
(*                                                                         *)
(* FlagTime and Firsttime are read and written without the lock, so every  *)
(* access is a step; a section under p.lock is a step too, or two where it *)
(* may block inside.  Two goroutines writing one map at the same time end  *)
(* the process (the Go runtime throws, and handleCecover cannot catch it). *)
(***************************************************************************)
EXTENDS Integers, FiniteSets, Sequences

CONSTANTS
    Request,    \* the client requests of the run, one handler each
    Malformed,  \* those that json.Unmarshal refuses
    ChanCap,    \* capacity of reqMessageChan
    NoOne       \* holder of the lock when it is free

ASSUME RequestAssumption ==
    IsFiniteSet(Request) /\ Malformed \subseteq Request /\ NoOne \notin Request
ASSUME ChanAssumption == ChanCap \in Nat \ {0}

VARIABLES
    FlagTime,        \* may the next handler open a window?
    Firsttime,       \* is the leader of the window still to be found?
    lock,            \* p.lock
    reqMessageChan,  \* requests on their way into rm
    rm,              \* requests collected for the next batch
    sequenceID,
    pc,              \* pc[h]: the statement handler h is at
    batch,           \* batch[h]: r.Requests of the leader h
    preprepares,     \* what the leaders have broadcast
    alive            \* has the runtime not stopped the process?

vars == <<FlagTime, Firsttime, lock, reqMessageChan, rm, sequenceID, pc, batch,
          preprepares, alive>>

Label == {"idle", "open", "first", "decode", "send", "sending", "conn",
          "collect", "taking", "leader", "lead", "wait", "take", "clear",
          "pool", "announce", "done"}

PrePrepares == [leader : Request, seq : Nat, requests : Seq(Request)]

Goto(h, from, to) ==
    /\ pc[h] = from
    /\ pc' = [pc EXCEPT ![h] = to]

-----------------------------------------------------------------------------
(* handleClientRequest *)

Arrive(h) ==
    /\ Goto(h, "idle", IF FlagTime THEN "open" ELSE "decode")
    /\ UNCHANGED <<FlagTime, Firsttime, lock, reqMessageChan, rm, sequenceID,
                   batch, preprepares>>

CloseFlag(h) ==
    /\ Goto(h, "open", "first")
    /\ FlagTime' = FALSE
    /\ UNCHANGED <<Firsttime, lock, reqMessageChan, rm, sequenceID, batch, preprepares>>

OpenWindow(h) ==
    /\ Goto(h, "first", "decode")
    /\ Firsttime' = TRUE
    /\ UNCHANGED <<FlagTime, lock, reqMessageChan, rm, sequenceID, batch, preprepares>>

(* The panic of a malformed request ends its handler. *)
Decode(h) ==
    /\ Goto(h, "decode", IF h \in Malformed THEN "done" ELSE "send")
    /\ UNCHANGED <<FlagTime, Firsttime, lock, reqMessageChan, rm, sequenceID,
                   batch, preprepares>>

Acquire(h, from, to) ==
    /\ Goto(h, from, to)
    /\ lock = NoOne
    /\ lock' = h
    /\ UNCHANGED <<FlagTime, Firsttime, reqMessageChan, rm, sequenceID, batch,
                   preprepares>>

(* p.reqMessageChan <- *r, under the lock: blocks while the channel is full. *)
FaultySend(h) ==                            \* fault: lock kept
    /\ Goto(h, "sending", "conn")
    /\ Len(reqMessageChan) < ChanCap
    /\ reqMessageChan' = Append(reqMessageChan, h)
    /\ UNCHANGED <<FlagTime, Firsttime, lock, rm, sequenceID, batch, preprepares>>

Send(h) ==
    /\ Goto(h, "sending", "conn")
    /\ Len(reqMessageChan) < ChanCap
    /\ reqMessageChan' = Append(reqMessageChan, h)
    /\ lock' = NoOne
    /\ UNCHANGED <<FlagTime, Firsttime, rm, sequenceID, batch, preprepares>>

(* p.conn[...] = conn; nobody reads this map. *)
KeepConn(h) ==
    /\ Goto(h, "conn", "collect")
    /\ UNCHANGED <<FlagTime, Firsttime, lock, reqMessageChan, rm, sequenceID,
                   batch, preprepares>>

(* p.rm = append(p.rm, <-p.reqMessageChan): any handler's request.         *)
FaultyCollect(h) ==                         \* fault: appends its own request
    /\ Goto(h, "taking", "leader")
    /\ rm' = Append(rm, h)
    /\ lock' = NoOne
    /\ UNCHANGED <<FlagTime, Firsttime, reqMessageChan, sequenceID, batch, preprepares>>

Collect(h) ==
    /\ Goto(h, "taking", "leader")
    /\ reqMessageChan # <<>>
    /\ rm' = Append(rm, Head(reqMessageChan))
    /\ reqMessageChan' = Tail(reqMessageChan)
    /\ lock' = NoOne
    /\ UNCHANGED <<FlagTime, Firsttime, sequenceID, batch, preprepares>>

(* if Firsttime { Firsttime = false ...                                    *)
AskLead(h) ==
    /\ Goto(h, "leader", IF Firsttime THEN "lead" ELSE "done")
    /\ UNCHANGED <<FlagTime, Firsttime, lock, reqMessageChan, rm, sequenceID,
                   batch, preprepares>>

Lead(h) ==
    /\ Goto(h, "lead", "wait")
    /\ Firsttime' = FALSE
    /\ UNCHANGED <<FlagTime, lock, reqMessageChan, rm, sequenceID, batch, preprepares>>

(* 55 s after the start of the window, whichever handler set it last.      *)
FaultyElapse(h) ==                          \* fault: FlagTime not set again
    /\ Goto(h, "wait", "take")
    /\ UNCHANGED <<FlagTime, Firsttime, lock, reqMessageChan, rm, sequenceID,
                   batch, preprepares>>

Elapse(h) ==
    /\ Goto(h, "wait", "take")
    /\ FlagTime' = TRUE
    /\ UNCHANGED <<Firsttime, lock, reqMessageChan, rm, sequenceID, batch, preprepares>>

-----------------------------------------------------------------------------
(* handleRequests *)

(* r.Requests = p.rm, without the lock. *)
Take(h) ==
    /\ Goto(h, "take", "clear")
    /\ batch' = [batch EXCEPT ![h] = rm]
    /\ UNCHANGED <<FlagTime, Firsttime, lock, reqMessageChan, rm, sequenceID, preprepares>>

(* p.rm = []Request{}, under the lock. *)
Clear(h) ==
    /\ Goto(h, "clear", "pool")
    /\ lock = NoOne
    /\ rm' = <<>>
    /\ UNCHANGED <<FlagTime, Firsttime, lock, reqMessageChan, sequenceID, batch,
                   preprepares>>

(* The batch goes into messagePool, sequenceIDAdd takes the next number. *)
PoolAndNumber(h) ==
    /\ Goto(h, "pool", "announce")
    /\ lock = NoOne
    /\ sequenceID' = sequenceID + 1
    /\ UNCHANGED <<FlagTime, Firsttime, lock, reqMessageChan, rm, batch, preprepares>>

(* PrePrepare carries the number the node has by then. *)
Announce(h) ==
    /\ Goto(h, "announce", "done")
    /\ preprepares' = preprepares \cup
         {[leader |-> h, seq |-> sequenceID, requests |-> batch[h]]}
    /\ UNCHANGED <<FlagTime, Firsttime, lock, reqMessageChan, rm, sequenceID, batch>>

(* Two handlers write p.conn, or p.messagePool, at the same time. *)
ConcurrentMapWrites(g, h) ==
    /\ g # h
    /\ pc[g] = pc[h]
    /\ pc[g] \in {"conn", "pool"}
    /\ alive' = FALSE
    /\ UNCHANGED <<FlagTime, Firsttime, lock, reqMessageChan, rm, sequenceID, pc,
                   batch, preprepares>>

Init ==
    /\ FlagTime = TRUE
    /\ Firsttime = TRUE
    /\ lock = NoOne
    /\ reqMessageChan = <<>>
    /\ rm = <<>>
    /\ sequenceID = 0
    /\ pc = [h \in Request |-> "idle"]
    /\ batch = [h \in Request |-> <<>>]
    /\ preprepares = {}
    /\ alive = TRUE

handleClientRequest(h) ==
    \/ CloseFlag(h) \/ OpenWindow(h) \/ Decode(h)
    \/ Acquire(h, "send", "sending") \/ Send(h) \/ KeepConn(h)
    \/ Acquire(h, "collect", "taking") \/ Collect(h)
    \/ AskLead(h) \/ Lead(h) \/ Elapse(h)

handleRequests(h) == Take(h) \/ Clear(h) \/ PoolAndNumber(h) \/ Announce(h)

Step(h) == handleClientRequest(h) \/ handleRequests(h)

Next ==
    /\ alive
    /\ \/ \E h \in Request : (Arrive(h) \/ Step(h)) /\ UNCHANGED alive
       \/ \E g, h \in Request : ConcurrentMapWrites(g, h)

Spec == Init /\ [][Next]_vars

(* Goroutines are scheduled and the lock is handed on (a waiter of a Go     *)
(* mutex is served after 1 ms at the latest); clients owe no request.       *)
Fairness == \A h \in Request : WF_vars(alive /\ Step(h) /\ UNCHANGED alive)

LiveSpec == Spec /\ Fairness

-----------------------------------------------------------------------------
TypeOK ==
    /\ FlagTime \in BOOLEAN
    /\ Firsttime \in BOOLEAN
    /\ lock \in Request \cup {NoOne}
    /\ reqMessageChan \in Seq(Request)
    /\ rm \in Seq(Request)
    /\ sequenceID \in Nat
    /\ pc \in [Request -> Label]
    /\ batch \in [Request -> Seq(Request)]
    /\ preprepares \subseteq PrePrepares
    /\ alive \in BOOLEAN

At(labels) == {h \in Request : pc[h] \in labels}

(* However the unlocked accesses to FlagTime and Firsttime interleave, and  *)
(* although a malformed request ends its handler after opening the window,  *)
(* the node is never left closed: either the next handler opens a window,   *)
(* or it leads one, or some handler is about to make one of the two true.   *)
WindowReopens ==
    FlagTime \/ Firsttime \/ At({"first", "lead", "wait"}) # {}

(* reqMessageChan holds exactly one request per handler that has put one in *)
(* and not taken one out, so a receive under the lock never waits for a     *)
(* sender that would need the lock.                                         *)
QueueBalanced ==
    Len(reqMessageChan) = Cardinality(At({"conn", "collect", "taking"}))

Places(r, s) == {i \in 1 .. Len(s) : s[i] = r}
Occurrences(r, s) == Cardinality(Places(r, s))

(* A request is collected once: it is never in the channel, in rm and in    *)
(* the channel again, whichever handler takes it out.                       *)
CollectedOnce ==
    \A r \in Request :
        Occurrences(r, reqMessageChan) + Occurrences(r, rm)
            <= IF pc[r] \in {"idle", "open", "first", "decode", "send", "sending"}
               THEN 0 ELSE 1

(* With at most ChanCap requests at a time no handler hangs, neither on the *)
(* channel nor on the lock: it ends, and a leader has proposed by then.     *)
HandlersEnd ==
    \A h \in Request : pc[h] # "idle" ~> pc[h] = "done" \/ ~alive

(* pbft.go:321 "gather the messages sent", pbft.go:65 "the request messages *)
(* of one round of consensus": what has been gathered is in rm until it is  *)
(* in the batch of a leader.                                                *)
GatheredIsKept ==
    \A r \in Request :
        pc[r] = "done" /\ r \notin Malformed =>
            \/ Occurrences(r, reqMessageChan) + Occurrences(r, rm) > 0
            \/ \E h \in Request : Occurrences(r, batch[h]) > 0
=============================================================================
