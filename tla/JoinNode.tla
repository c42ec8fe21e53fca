------------------------------ MODULE JoinNode ------------------------------
(***************************************************************************)
(* A node joins a running system: it dials requestAddNode to every member, *)
(* the members tell each other with AddNode, and a member that has heard   *)
(* of the joiner from more than 2f members, itself included, appends it to *)
(* its nodeTable and dials a reply.  The joiner listens for the replies on *)
(* the address it will later serve on (tcpAddNode.go) and goes on once     *)
(* more than 2f have agreed.                                               *)
(*                                                                         *)
(* An AddNode that overtakes requestAddNode goes to the select of main, as *)
(* an early Prepare does in PBFT.  A joiner that has been added does not   *)
(* take part in the admission of another one.                              *)
(***************************************************************************)
EXTENDS Integers, FiniteSets, Sequences

CONSTANTS
    Member,         \* entries of nodeTable at the start
    Running,        \* members whose process is started
    Joiner,         \* addresses of the joining nodes
    EarlyDelivery   \* may AddNode overtake requestAddNode?

ASSUME MemberAssumption == IsFiniteSet(Member) /\ Running \subseteq Member
ASSUME DeliveryAssumption == EarlyDelivery \in BOOLEAN

VARIABLES
    (* members *)
    nodeTable,          \* nodeTable[n]: the joiners n has appended to its table
    addNodeCount,       \* addNodeCount[n][j]: members that told n of j, n included
    isAddNodeBordcast,  \* joiners n has told the others of
    isReplyToAddNode,   \* joiners n has replied to
    heard,              \* heard[n][j]: members whose AddNode for j n was given
    main,               \* n's main goroutine: "select", "return", or "ended"
    taken,              \* the AddNode main took from addNodeMessageChan
    (* joiners *)
    requested,          \* joiners that have dialled requestAddNode
    listener,           \* AddJoinNodeTcpListen of j
    dialled,            \* members whose reply connection waits for Accept
    accepted,           \* members whose reply a handler of j is reading
    AgreeJoinNum,
    phase               \* j's main: waits, has joined, serves or failed to listen

memberVars == <<nodeTable, addNodeCount, isAddNodeBordcast, isReplyToAddNode,
                heard, main, taken>>
joinerVars == <<requested, listener, dialled, accepted, AgreeJoinNum, phase>>
vars == <<nodeTable, addNodeCount, isAddNodeBordcast, isReplyToAddNode, heard,
          main, taken, requested, listener, dialled, accepted, AgreeJoinNum, phase>>

nodeCount(n) == Cardinality(Member) + Len(nodeTable[n])
f(n) == (nodeCount(n) - 1) \div 3

(* The joiner's own nodeTable holds the members and itself. *)
fOfJoiner == Cardinality(Member) \div 3

-----------------------------------------------------------------------------
(* Member *)

(* handleRequestAddNode: count oneself, tell the others. *)
handleRequestAddNode(n, j) ==
    /\ main[n] # "ended"
    /\ j \in requested
    /\ j \notin isAddNodeBordcast[n]
    /\ addNodeCount' = [addNodeCount EXCEPT ![n][j] = @ \cup {n}]
    /\ isAddNodeBordcast' = [isAddNodeBordcast EXCEPT ![n] = @ \cup {j}]
    /\ UNCHANGED <<nodeTable, isReplyToAddNode, heard, main, taken, joinerVars>>

FaultyEnough(n, j, told) ==                 \* fault: >= for >
    Cardinality(told) >= 2 * f(n) /\ j \notin isReplyToAddNode[n]

FaultyAgain(n, j, told) ==                  \* fault: isReplyToAddNode not asked
    Cardinality(told) > 2 * f(n)

Enough(n, j, told) ==
    Cardinality(told) > 2 * f(n) /\ j \notin isReplyToAddNode[n]

(* tcpDial: the reply is lost when nobody listens. *)
DialReply(n, j) ==
    dialled' = IF listener[j] \in {"accept", "check"}
               THEN [dialled EXCEPT ![j] = @ \cup {n}] ELSE dialled

(* handleAddNode, j told of by m, once n has told of j itself. *)
CountAddNode(n, m, j) ==
    /\ j \in isAddNodeBordcast[n]
    /\ addNodeCount' = [addNodeCount EXCEPT ![n][j] = @ \cup {m}]
    /\ IF Enough(n, j, addNodeCount'[n][j])
       THEN /\ nodeTable' = [nodeTable EXCEPT ![n] = Append(@, j)]
            /\ isReplyToAddNode' = [isReplyToAddNode EXCEPT ![n] = @ \cup {j}]
            /\ DialReply(n, j)
       ELSE UNCHANGED <<nodeTable, isReplyToAddNode, dialled>>
    /\ UNCHANGED <<isAddNodeBordcast, requested, listener, accepted,
                   AgreeJoinNum, phase>>

handleAddNode(n, m, j) ==
    /\ main[n] # "ended"
    /\ n # m
    /\ j \in isAddNodeBordcast[m]
    /\ m \notin heard[n][j]
    /\ heard' = [heard EXCEPT ![n][j] = @ \cup {m}]
    /\ UNCHANGED main
    /\ \/ CountAddNode(n, m, j) /\ UNCHANGED taken
       \/ /\ EarlyDelivery
          /\ j \notin isAddNodeBordcast[n]
          /\ taken' = [taken EXCEPT ![n] =
                         IF @ = {} /\ main[n] = "select" THEN {<<m, j>>} ELSE @]
          /\ UNCHANGED <<nodeTable, addNodeCount, isAddNodeBordcast,
                         isReplyToAddNode, joinerVars>>

(* main takes one deferred AddNode, handles it and returns. *)
mainSelect(n) ==
    /\ main[n] = "select"
    /\ main' = [main EXCEPT ![n] = "return"]
    /\ taken' = [taken EXCEPT ![n] = {}]
    /\ UNCHANGED heard
    /\ \E t \in taken[n] :
       \/ CountAddNode(n, t[1], t[2])
       \/ /\ t[2] \notin isAddNodeBordcast[n]
          /\ UNCHANGED <<nodeTable, addNodeCount, isAddNodeBordcast,
                         isReplyToAddNode, joinerVars>>

mainReturn(n) ==
    /\ main[n] = "return"
    /\ main' = [main EXCEPT ![n] = "ended"]
    /\ UNCHANGED <<nodeTable, addNodeCount, isAddNodeBordcast, isReplyToAddNode,
                   heard, taken, joinerVars>>

-----------------------------------------------------------------------------
(* Joiner *)

RequestJoin(j) ==
    /\ j \notin requested
    /\ requested' = requested \cup {j}
    /\ UNCHANGED <<memberVars, listener, dialled, accepted, AgreeJoinNum, phase>>

(* The listener is started after the requests have been dialled. *)
Listen(j) ==
    /\ j \in requested
    /\ listener[j] = "off"
    /\ listener' = [listener EXCEPT ![j] = "accept"]
    /\ UNCHANGED <<memberVars, requested, dialled, accepted, AgreeJoinNum, phase>>

Accept(j) ==
    /\ listener[j] = "accept"
    /\ \E n \in dialled[j] :
          /\ dialled' = [dialled EXCEPT ![j] = @ \ {n}]
          /\ accepted' = [accepted EXCEPT ![j] = @ \cup {n}]
    /\ listener' = [listener EXCEPT ![j] = "check"]
    /\ UNCHANGED <<memberVars, requested, AgreeJoinNum, phase>>

(* A closed listener refuses the connections it has not accepted. *)
CheckEnough(j) ==
    /\ listener[j] = "check"
    /\ IF AgreeJoinNum[j] >= 2 * fOfJoiner
       THEN /\ listener' = [listener EXCEPT ![j] = "closed"]
            /\ dialled' = [dialled EXCEPT ![j] = {}]
       ELSE /\ listener' = [listener EXCEPT ![j] = "accept"]
            /\ UNCHANGED dialled
    /\ UNCHANGED <<memberVars, requested, accepted, AgreeJoinNum, phase>>

(* handler of tcpAddNode.go *)
FaultyAgree(j, n) == AgreeJoinNum[j] + 2    \* fault: a reply counted twice

Agree(j, n) == AgreeJoinNum[j] + 1

CountReply(j, n) ==
    /\ n \in accepted[j]
    /\ accepted' = [accepted EXCEPT ![j] = @ \ {n}]
    /\ AgreeJoinNum' = [AgreeJoinNum EXCEPT ![j] = Agree(j, n)]
    /\ UNCHANGED <<memberVars, requested, listener, dialled, phase>>

(* for AgreeJoinNum <= 2*f {} *)
Join(j) ==
    /\ phase[j] = "waits"
    /\ j \in requested
    /\ AgreeJoinNum[j] > 2 * fOfJoiner
    /\ phase' = [phase EXCEPT ![j] = "joined"]
    /\ UNCHANGED <<memberVars, requested, listener, dialled, accepted, AgreeJoinNum>>

(* tcpListen panics, and is recovered, while the address is in use. *)
Serve(j) ==
    /\ phase[j] = "joined"
    /\ phase' = [phase EXCEPT ![j] =
                   IF listener[j] \in {"accept", "check"} THEN "deaf" ELSE "serves"]
    /\ UNCHANGED <<memberVars, requested, listener, dialled, accepted, AgreeJoinNum>>

Init ==
    /\ nodeTable = [n \in Member |-> <<>>]
    /\ addNodeCount = [n \in Member |-> [j \in Joiner |-> {}]]
    /\ isAddNodeBordcast = [n \in Member |-> {}]
    /\ isReplyToAddNode = [n \in Member |-> {}]
    /\ heard = [n \in Member |-> [j \in Joiner |-> {}]]
    /\ main = [n \in Member |-> IF n \in Running THEN "select" ELSE "ended"]
    /\ taken = [n \in Member |-> {}]
    /\ requested = {}
    /\ listener = [j \in Joiner |-> "off"]
    /\ dialled = [j \in Joiner |-> {}]
    /\ accepted = [j \in Joiner |-> {}]
    /\ AgreeJoinNum = [j \in Joiner |-> 0]
    /\ phase = [j \in Joiner |-> "waits"]

Next ==
    \/ \E n \in Member :
          \/ \E j \in Joiner : handleRequestAddNode(n, j)
          \/ \E m \in Member, j \in Joiner : handleAddNode(n, m, j)
          \/ mainSelect(n) \/ mainReturn(n)
    \/ \E j \in Joiner :
          \/ RequestJoin(j) \/ Listen(j) \/ Accept(j) \/ CheckEnough(j)
          \/ \E n \in Member : CountReply(j, n)
          \/ Join(j) \/ Serve(j)

Spec == Init /\ [][Next]_vars

-----------------------------------------------------------------------------
TypeOK ==
    /\ nodeTable \in [Member -> Seq(Joiner)]
    /\ addNodeCount \in [Member -> [Joiner -> SUBSET Member]]
    /\ isAddNodeBordcast \in [Member -> SUBSET Joiner]
    /\ isReplyToAddNode \in [Member -> SUBSET Joiner]
    /\ heard \in [Member -> [Joiner -> SUBSET Member]]
    /\ main \in [Member -> {"select", "return", "ended"}]
    /\ taken \in [Member -> SUBSET (Member \X Joiner)]
    /\ requested \subseteq Joiner
    /\ listener \in [Joiner -> {"off", "accept", "check", "closed"}]
    /\ dialled \in [Joiner -> SUBSET Member]
    /\ accepted \in [Joiner -> SUBSET Member]
    /\ AgreeJoinNum \in [Joiner -> Nat]
    /\ phase \in [Joiner -> {"waits", "joined", "serves", "deaf"}]

Listed(n) == {nodeTable[n][i] : i \in 1 .. Len(nodeTable[n])}
Told(j) == {n \in Member : j \in isAddNodeBordcast[n]}
Knowing(j) == {n \in Member : j \in Listed(n)}

(* A member lists a joiner only after 2f+1 members, for the f of the        *)
(* original table, have told each other of it.                              *)
AdmittedByQuorum ==
    \A n \in Member : \A j \in Listed(n) :
        Cardinality(Told(j)) > 2 * ((Cardinality(Member) - 1) \div 3)

(* nodeTable has one entry per joiner, so nodeCount and f grow by the       *)
(* number of nodes, also when the last AddNodes and the deferred one come   *)
(* after the reply.                                                         *)
ListedOnce ==
    \A n \in Member : \A a, b \in 1 .. Len(nodeTable[n]) :
        nodeTable[n][a] = nodeTable[n][b] => a = b

(* A node that takes itself for joined is in the tables of more than 2f     *)
(* members, counting itself among the nodes.                                *)
JoinedIsKnown ==
    \A j \in Joiner :
        phase[j] # "waits" => Cardinality(Knowing(j)) > 2 * fOfJoiner

(* tcpAddNode.go:34 "leave the loop when the requirement is met": replies   *)
(* are refused only when those accepted are enough for main to go on.       *)
ClosedWhenEnough ==
    \A j \in Joiner :
        listener[j] = "closed" =>
            AgreeJoinNum[j] + Cardinality(accepted[j]) > 2 * fOfJoiner

(* pbft.go:205 "add the ip+port that goes with the node's number": a number *)
(* names the same node at every member.                                     *)
TablesAgree ==
    \A n, m \in Member :
        \A i \in (1 .. Len(nodeTable[n])) \cap (1 .. Len(nodeTable[m])) :
            nodeTable[n][i] = nodeTable[m][i]
=============================================================================
