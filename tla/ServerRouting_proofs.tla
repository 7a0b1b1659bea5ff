----------------------- MODULE ServerRouting_proofs -----------------------
(****************************************************************************)
(* Theorems about the routing core of the server, for any number of         *)
(* connections, nodes and ports and any topology: the locks are held and    *)
(* the variables have their types; the signature map and the connector      *)
(* tables are kept true, with what the threads still have to do about them; *)
(* and, on those grounds, the values which providers write reach those who  *)
(* require them.                                                            *)
(****************************************************************************)
EXTENDS ServerRouting, FiniteSetTheorems, SequenceTheorems, TLAPS

JobFields == {"node", "todo", "pair", "value", "clear", "ok"}

(* Positions and locks have the ranges that TypeOK gives them, the local   *)
(* variables of a thread are those of NoJob.                               *)
ControlTypes ==
  /\ pc \in [Conns -> PC]
  /\ globalLock \in Conns \cup {None}
  /\ nodeLock \in [Nodes -> Conns \cup {None}]
  /\ DOMAIN job = Conns
  /\ \A c \in Conns : DOMAIN job[c] = JobFields

(* The snapshot is taken when the change tables have been cleared.         *)
SnapshotAfterClear == \A c \in Conns : pc[c] = "sendSnapshot" => changes = {}

LocksInv == ControlTypes /\ LocksHeld /\ ChangesConfined /\ SnapshotAfterClear

----------------------------------------------------------------------------
LEMMA LocksInit == Init => LocksInv
<1> SUFFICES ASSUME Init PROVE LocksInv
  OBVIOUS
<1> USE TopologyAssumption DEF Init
<1>1. ControlTypes
  BY DEF ControlTypes, PC, NoJob, JobFields
<1>2. LocksHeld
  BY DEF LocksHeld, UnderGlobalLock, UnderNodeLock, Connecting
<1> QED BY <1>1, <1>2 DEF LocksInv, ChangesConfined, SnapshotAfterClear

(* A step that leaves the locks alone and moves one thread between         *)
(* positions that need the same locks, for the same node, is harmless.     *)
LEMMA SameLocks ==
  ASSUME LocksInv, UNCHANGED lockVars,
         NEW c \in Conns, NEW l \in PC, Goto(c, l),
         l \in UnderGlobalLock <=> pc[c] \in UnderGlobalLock,
         l \in UnderNodeLock <=> pc[c] \in UnderNodeLock,
         DOMAIN job' = Conns, DOMAIN job'[c] = JobFields,
         \A x \in Conns \ {c} : job'[x] = job[x],
         l \in UnderNodeLock => job'[c].node = job[c].node,
         changes' = {} \/ (changes' = changes /\ l # "sendSnapshot")
  PROVE  LocksInv'
<1> USE DEF LocksInv, lockVars
<1>1. ControlTypes'
  BY DEF ControlTypes, Goto
<1>2. LocksHeld'
  BY DEF LocksHeld, Goto, ControlTypes, UnderGlobalLock, UnderNodeLock, Connecting
<1>3. ChangesConfined' /\ SnapshotAfterClear'
  BY DEF ChangesConfined, SnapshotAfterClear, ControlTypes, Goto
<1> QED BY <1>1, <1>2, <1>3

(* No step of a thread that has begun to connect, route or detach disturbs *)
(* the invariant as long as it neither takes nor gives up a lock.          *)
LEMMA StepsUnderLocks ==
  ASSUME LocksInv, NEW c \in Conns,
         \/ InsertConnector(c) \/ ReadProvideData(c) \/ WriteRequireData(c)
         \/ TakeSnapshot(c) \/ InsertOwnConnector(c)
         \/ ForwardToNode(c) \/ ForwardToClient(c)
         \/ DetachAllNodes(c) \/ ClearConnectorTable(c) \/ RemoveConnector(c) \/ Detached(c)
  PROVE  LocksInv'
<1> USE DEF Goto, GotoWith, PC, UnderGlobalLock, UnderNodeLock, Connecting,
            tableVars, lockVars, JobFields
<1>1. DOMAIN job = Conns /\ DOMAIN job[c] = JobFields /\ pc \in [Conns -> PC]
  BY DEF LocksInv, ControlTypes
<1>2. CASE InsertConnector(c)
  BY <1>1, <1>2, SameLocks DEF InsertConnector
<1>3. CASE ReadProvideData(c)
  BY <1>1, <1>3, SameLocks DEF ReadProvideData
<1>4. CASE WriteRequireData(c)
  BY <1>1, <1>4, SameLocks DEF WriteRequireData
<1>5. CASE TakeSnapshot(c)
  BY <1>1, <1>5, SameLocks DEF TakeSnapshot
<1>6. CASE InsertOwnConnector(c)
  <2>1. /\ pc[c] = "connectProvide" /\ pc' = [pc EXCEPT ![c] = "forwardFirst"]
        /\ UNCHANGED <<changes, globalLock, nodeLock>>
    BY <1>6 DEF InsertOwnConnector
  <2>2. PICK pr : job' = [job EXCEPT ![c] = [job[c] EXCEPT !.pair = pr, !.todo = @ \ {pr},
                                                           !.value = provData[pr[1]]]]
    BY <1>6 DEF InsertOwnConnector
  <2>3. DOMAIN job'[c] = JobFields /\ job'[c].node = job[c].node
    BY <1>1, <2>2
  <2> QED BY <1>1, <2>1, <2>2, <2>3, SameLocks
<1>7. CASE ForwardToNode(c)
  <2>1. UNCHANGED <<changes, globalLock, nodeLock>>
    BY <1>7 DEF ForwardToNode
  <2>2. CASE pc[c] = "forwardFirst" /\ pc' = [pc EXCEPT ![c] = "sendFirst"] /\ UNCHANGED job
    BY <1>1, <2>1, <2>2, SameLocks
  <2>3. ASSUME pc[c] = "route", pc' = [pc EXCEPT ![c] = "send"],
               NEW pr, job' = [job EXCEPT ![c] = [job[c] EXCEPT !.pair = pr, !.todo = @ \ {pr}]]
        PROVE  LocksInv'
    BY <1>1, <2>1, <2>3, SameLocks
  <2> QED BY <1>7, <2>2, <2>3, Zenon DEF ForwardToNode
<1>8. CASE ForwardToClient(c)
  BY <1>1, <1>8, SameLocks DEF ForwardToClient
<1>9. CASE DetachAllNodes(c)
  BY <1>1, <1>9, SameLocks DEF DetachAllNodes, NoJob
<1>10. CASE ClearConnectorTable(c)
  BY <1>1, <1>10, SameLocks DEF ClearConnectorTable
<1>11. CASE RemoveConnector(c)
  BY <1>1, <1>11, SameLocks DEF RemoveConnector
<1>12. CASE Detached(c)
  BY <1>1, <1>12, SameLocks DEF Detached, NoJob
<1> QED BY <1>2, <1>3, <1>4, <1>5, <1>6, <1>7, <1>8, <1>9, <1>10, <1>11, <1>12

(* Requests that take no lock.                                             *)
LEMMA RequestsWithoutLock ==
  ASSUME LocksInv, NEW c \in Conns,
         \/ \E n \in Nodes : FirstProvideWrite(c, n)
         \/ \E p \in PPort : ProvideWrite(c, p)
         \/ DetachConnection(c)
  PROVE  LocksInv'
<1> USE DEF Goto, GotoWith, PC, UnderGlobalLock, UnderNodeLock, Connecting,
            tableVars, lockVars, NoJob, JobFields
<1>1. DOMAIN job = Conns /\ DOMAIN job[c] = JobFields /\ pc \in [Conns -> PC]
  BY DEF LocksInv, ControlTypes
<1>2. ASSUME NEW n \in Nodes, FirstProvideWrite(c, n) PROVE LocksInv'
  BY <1>1, <1>2, SameLocks DEF FirstProvideWrite
<1>3. ASSUME NEW p \in PPort, ProvideWrite(c, p) PROVE LocksInv'
  BY <1>1, <1>3, SameLocks DEF ProvideWrite
<1>4. CASE DetachConnection(c)
  BY <1>1, <1>4, SameLocks DEF DetachConnection
<1> QED BY <1>2, <1>3, <1>4

(* Taking the locks: they were free, and nobody is where they are needed.  *)
LEMMA StepsThatLock ==
  ASSUME LocksInv, NEW c \in Conns,
         \/ \E n \in Nodes : OpenRequireFile(c, n)
         \/ ConnectProvidePorts(c) \/ LockForRouting(c)
  PROVE  LocksInv'
<1> USE TopologyAssumption
        DEF Goto, GotoWith, PC, UnderGlobalLock, UnderNodeLock, Connecting,
            NoJob, JobFields, LocksInv, ControlTypes
<1>1. ASSUME NEW n \in Nodes, OpenRequireFile(c, n) PROVE LocksInv'
  <2>1. ControlTypes'
    BY <1>1 DEF OpenRequireFile
  <2>2. /\ pc[c] = "idle" /\ pc' = [pc EXCEPT ![c] = "connectRequire"]
        /\ globalLock = None /\ globalLock' = c /\ nodeLock' = nodeLock
    BY <1>1, Zenon DEF OpenRequireFile
  <2>3. \A x \in Conns \ {c} : pc'[x] = pc[x] /\ job'[x] = job[x]
    BY <1>1 DEF OpenRequireFile
  <2>4. LocksHeld'
    BY <2>2, <2>3 DEF LocksHeld
  <2>5. ChangesConfined' /\ SnapshotAfterClear'
    BY <2>2, <2>3 DEF LocksHeld, ChangesConfined, SnapshotAfterClear
  <2> QED BY <2>1, <2>4, <2>5
<1>2. CASE ConnectProvidePorts(c)
  <2>1. ControlTypes'
    BY <1>2 DEF ConnectProvidePorts
  <2>2. LocksHeld'
    BY <1>2 DEF ConnectProvidePorts, LocksHeld
  <2>3. ChangesConfined' /\ SnapshotAfterClear'
    BY <1>2 DEF ConnectProvidePorts, LocksHeld, ChangesConfined, SnapshotAfterClear
  <2> QED BY <2>1, <2>2, <2>3
<1>3. CASE LockForRouting(c)
  <2>1. ControlTypes'
    BY <1>3 DEF LockForRouting
  <2>2. LocksHeld'
    BY <1>3 DEF LockForRouting, LocksHeld
  <2>3. ChangesConfined' /\ SnapshotAfterClear'
    BY <1>3 DEF LockForRouting, ChangesConfined, SnapshotAfterClear, tableVars
  <2> QED BY <2>1, <2>2, <2>3
<1> QED BY <1>1, <1>2, <1>3

(* Giving up the locks: the change tables are empty by then.               *)
LEMMA StepsThatUnlock ==
  ASSUME LocksInv, NEW c \in Conns,
         \/ SendSnapshot(c) \/ ConnectRequireFails(c) \/ ProvideConnected(c) \/ RoutingDone(c)
  PROVE  LocksInv'
<1> USE TopologyAssumption
        DEF Goto, GotoWith, PC, UnderGlobalLock, UnderNodeLock, Connecting,
            NoJob, JobFields, LocksInv, ControlTypes
<1>1. CASE SendSnapshot(c) \/ ConnectRequireFails(c)
  <2>1. ControlTypes'
    BY <1>1 DEF SendSnapshot, ConnectRequireFails
  <2>2. LocksHeld'
    <3>1. /\ pc[c] \in {"sendSnapshot", "connectRequire"} /\ pc' = [pc EXCEPT ![c] = "idle"]
          /\ globalLock' = None /\ nodeLock' = nodeLock
      BY <1>1 DEF SendSnapshot, ConnectRequireFails
    <3>2. \A x \in Conns \ {c} : pc'[x] = pc[x] /\ job'[x] = job[x]
      BY <1>1 DEF SendSnapshot, ConnectRequireFails
    <3> QED BY <3>1, <3>2 DEF LocksHeld
  <2>3. changes' = {}
    BY <1>1 DEF SendSnapshot, ConnectRequireFails, SnapshotAfterClear, tableVars
  <2> QED BY <2>1, <2>2, <2>3 DEF ChangesConfined, SnapshotAfterClear
<1>2. CASE ProvideConnected(c)
  <2>1. ControlTypes'
    BY <1>2 DEF ProvideConnected
  <2>2. LocksHeld'
    BY <1>2 DEF ProvideConnected, LocksHeld
  <2>3. changes' = {}
    BY <1>2 DEF ProvideConnected
  <2> QED BY <2>1, <2>2, <2>3 DEF ChangesConfined, SnapshotAfterClear
<1>3. CASE RoutingDone(c)
  <2>1. ControlTypes'
    BY <1>3 DEF RoutingDone
  <2>2. LocksHeld'
    BY <1>3 DEF RoutingDone, LocksHeld
  <2>3. ChangesConfined' /\ SnapshotAfterClear'
    BY <1>3 DEF RoutingDone, ChangesConfined, SnapshotAfterClear, tableVars
  <2> QED BY <2>1, <2>2, <2>3
<1> QED BY <1>1, <1>2, <1>3

(* The workers and the cleanup thread take none of these locks.            *)
LEMMA OtherThreads ==
  ASSUME LocksInv, UNCHANGED <<pc, job, changes, globalLock, nodeLock>>
  PROVE  LocksInv'
  BY DEF LocksInv, ControlTypes, LocksHeld, ChangesConfined, SnapshotAfterClear

LEMMA LocksStep == LocksInv /\ [Next]_vars => LocksInv'
<1> SUFFICES ASSUME LocksInv, [Next]_vars PROVE LocksInv'
  OBVIOUS
<1>1. ASSUME NEW c \in Conns, Request(c) PROVE LocksInv'
  BY <1>1, RequestsWithoutLock, StepsThatLock DEF Request
<1>2. ASSUME NEW c \in Conns, Continue(c) PROVE LocksInv'
  BY <1>2, StepsUnderLocks, StepsThatLock, StepsThatUnlock DEF Continue
<1>3. ASSUME (\E c \in Conns : Transmit(c)) \/ Cleanup \/ Terminated \/ UNCHANGED vars
      PROVE  LocksInv'
  <2>1. UNCHANGED <<pc, job, changes, globalLock, nodeLock>>
    BY <1>3 DEF Transmit, Cleanup, CleanupBegin, CleanupEnd, Terminated, vars, tableVars, lockVars
  <2> QED BY <2>1, OtherThreads
<1> QED BY <1>1, <1>2, <1>3, Zenon DEF Next

(* A thread holds the locks that the place it is at calls for, and no       *)
(* others, in every reachable state (the lock and unlock calls of server.c  *)
(* and node_instance.c).                                                    *)
THEOREM LocksInvariant == Spec => []LocksInv
  BY LocksInit, LocksStep, PTL DEF Spec

----------------------------------------------------------------------------
(* Mutual exclusion: the thread that connects ports, and no other, holds   *)
(* the global lock; the thread that walks a connector table, and no other, *)
(* holds the lock of that node.                                            *)
THEOREM LocksAreHeld == Spec => []LocksHeld
  BY LocksInvariant, PTL DEF LocksInv

(* No handler, however it ends, leaves an entry in a change table for the  *)
(* next thread that takes the global lock.                                 *)
THEOREM ChangesAreConfined == Spec => []ChangesConfined
  BY LocksInvariant, PTL DEF LocksInv

----------------------------------------------------------------------------
(* Types.  A message holds values for some require ports; what a thread    *)
(* keeps in its local variables depends on where it is.                    *)
Message == [cmd : {"SEND_LOCAL_DATA", "EXIT"}, data : UNION {[R -> Version] : R \in SUBSET RPort}]

Pairs == PPort \X RPort

JobTyped(c) ==
  /\ job[c].todo \in SUBSET Pairs
  /\ pc[c] \in {"connectRequire", "readProvide", "writeRequire", "connectNode"}
       => job[c].node \in Nodes
  /\ pc[c] \in {"readProvide", "writeRequire", "forwardFirst", "sendFirst", "send"}
       => job[c].pair \in Pairs
  /\ pc[c] \in {"routeLock"} => job[c].pair[1] \in PPort
  /\ pc[c] \in {"writeRequire", "forwardFirst", "sendFirst", "routeLock", "route", "send"}
       => job[c].value \in Version
  /\ pc[c] = "sendSnapshot" => job[c].value \in Message

TypesInv ==
  /\ TypeOK /\ ControlTypes
  /\ \A c \in Conns : JobTyped(c)
  /\ queue \in [Conns -> Seq(Message)]

LEMMA TypesInit == Init => TypesInv
<1> SUFFICES ASSUME Init PROVE TypesInv
  OBVIOUS
<1> USE TopologyAssumption DEF Init
<1>1. ControlTypes
  BY LocksInit DEF LocksInv
<1>2. TypeOK
  <2>1. 0 \in Version
    BY DEF Version
  <2> QED BY <1>1, <2>1 DEF TypeOK, ControlTypes, DataState
<1>3. \A c \in Conns : JobTyped(c)
  BY DEF JobTyped, NoJob
<1>4. queue \in [Conns -> Seq(Message)]
  OBVIOUS
<1> QED BY <1>1, <1>2, <1>3, <1>4 DEF TypesInv

(* A step of one thread leaves the local variables of the others alone.    *)
LEMMA OneThreadMoves ==
  ASSUME TypesInv, NEW c \in Conns, JobTyped(c)',
         \A x \in Conns \ {c} : pc'[x] = pc[x] /\ job'[x] = job[x]
  PROVE  \A x \in Conns : JobTyped(x)'
  BY DEF TypesInv, JobTyped

(* The values of a set of require ports make a message.                    *)
LEMMA DataIsMessage ==
  ASSUME NEW R \in SUBSET RPort, NEW f, \A r \in R : f[r] \in Version
  PROVE  Data(R, f) \in Message
<1>1. [r \in R |-> f[r]] \in [R -> Version]
  OBVIOUS
<1> QED BY <1>1 DEF Data, Message

LEMMA ExitIsMessage == Exit \in Message
<1>1. [r \in {} |-> 0] \in [{} -> Version]
  OBVIOUS
<1> QED BY <1>1 DEF Exit, Message

LEMMA EnqueueKeepsType ==
  ASSUME queue \in [Conns -> Seq(Message)], NEW c, NEW m \in Message, Enqueue(c, m)
  PROVE  queue' \in [Conns -> Seq(Message)]
  BY AppendProperties DEF Enqueue

(* A port belongs to a node, and a pair found in a change table or a todo  *)
(* set is a pair of a provide port and a require port.                     *)
LEMMA PortsOfNodes ==
  /\ \A n \in Nodes : PPortsOf(n) \subseteq PPort /\ RPortsOf(n) \subseteq RPort
  /\ \A p \in PPort : ProvideNode(p) \in Nodes
  /\ \A r \in RPort : RequireNode(r) \in Nodes
  BY DEF PPort, RPort, ProvideNode, RequireNode

LEMMA RecordKeepsType ==
  ASSUME changes \subseteq PPort \X RPort \X {1, -1},
         NEW prs \in SUBSET Pairs, NEW sign \in {1, -1}
  PROVE  Record(prs, sign) \subseteq PPort \X RPort \X {1, -1}
  BY DEF Record, Pairs

LEMMA HandledKeepsType ==
  ASSUME NEW n, NEW chg, NEW sign
  PROVE  Handled(n, chg, sign) \subseteq Pairs
  BY DEF Handled, Match, Pairs

LEMMA FirstOfIsSubset ==
  ASSUME NEW todo, NEW ports, NEW side PROVE FirstOf(todo, ports, side) \subseteq todo
  BY DEF FirstOf

(* Steps keep the types; the positions and locks are known from above.     *)
LEMMA TypesConnectRequire ==
  ASSUME TypesInv, ControlTypes', NEW c \in Conns,
         \/ \E n \in Nodes : OpenRequireFile(c, n)
         \/ InsertConnector(c) \/ ReadProvideData(c) \/ WriteRequireData(c)
         \/ TakeSnapshot(c) \/ SendSnapshot(c) \/ ConnectRequireFails(c)
  PROVE  TypesInv'
<1> USE DEF TypesInv, TypeOK, ControlTypes, JobFields, JobTyped, Goto, GotoWith,
            tableVars, stateVars, dataVars, lockVars, lifeVars
<1>1. ASSUME NEW n \in Nodes, OpenRequireFile(c, n) PROVE TypesInv'
  <2> DEFINE new == PairsOfRequirePorts(n)
             chg == Record(new, 1)
  <2>1. new \in SUBSET Pairs
    BY DEF PairsOfRequirePorts, Match, Pairs
  <2>2. chg \subseteq PPort \X RPort \X {1, -1}
    BY <2>1, RecordKeepsType
  <2>3. attached' \subseteq PPort \cup RPort /\ changes' \subseteq PPort \X RPort \X {1, -1}
    BY <1>1, <2>2, PortsOfNodes, Zenon DEF OpenRequireFile
  <2>4. TypeOK' /\ queue' = queue
    BY <1>1, <2>3 DEF OpenRequireFile
  <2>5. /\ pc'[c] = "connectRequire" /\ job'[c].todo = Handled(n, chg, 1) /\ job'[c].node = n
        /\ \A x \in Conns \ {c} : pc'[x] = pc[x] /\ job'[x] = job[x]
    BY <1>1 DEF OpenRequireFile, NoJob
  <2>6. JobTyped(c)'
    BY <2>5, HandledKeepsType
  <2>7. \A x \in Conns : JobTyped(x)'
    BY <2>5, <2>6, OneThreadMoves
  <2> QED BY <2>4, <2>7
<1>2. CASE InsertConnector(c)
  <2>1. PICK pr \in FirstOf(job[c].todo, Requires[job[c].node], 2) :
          /\ pc[c] = "connectRequire"
          /\ connectors' = [connectors EXCEPT ![pr[1]] = @ \cup {pr[2]}]
          /\ GotoWith(c, "readProvide", [job[c] EXCEPT !.pair = pr, !.todo = @ \ {pr}])
    BY <1>2 DEF InsertConnector
  <2>2. pr \in Pairs
    BY <2>1, FirstOfIsSubset
  <2>3. TypeOK' /\ queue' = queue
    BY <1>2, <2>1, <2>2 DEF InsertConnector, Pairs
  <2>4. /\ JobTyped(c)'
        /\ \A x \in Conns \ {c} : pc'[x] = pc[x] /\ job'[x] = job[x]
    BY <2>1, <2>2
  <2>5. \A x \in Conns : JobTyped(x)'
    BY <2>4, OneThreadMoves
  <2> QED BY <2>3, <2>5
<1>3. CASE ReadProvideData(c)
  <2>1. TypeOK' /\ queue' = queue
    BY <1>3 DEF ReadProvideData
  <2>2. provData[job[c].pair[1]] \in Version /\ job[c].pair \in Pairs
    BY <1>3 DEF ReadProvideData, Pairs
  <2>3. /\ JobTyped(c)'
        /\ \A x \in Conns \ {c} : pc'[x] = pc[x] /\ job'[x] = job[x]
    BY <1>3, <2>2 DEF ReadProvideData
  <2>4. \A x \in Conns : JobTyped(x)'
    BY <2>3, OneThreadMoves
  <2> QED BY <2>1, <2>4
<1>4. CASE WriteRequireData(c)
  <2>1. TypeOK' /\ queue' = queue
    BY <1>4 DEF WriteRequireData, Pairs
  <2>2. /\ JobTyped(c)'
        /\ \A x \in Conns \ {c} : pc'[x] = pc[x] /\ job'[x] = job[x]
    BY <1>4 DEF WriteRequireData
  <2>3. \A x \in Conns : JobTyped(x)'
    BY <2>2, OneThreadMoves
  <2> QED BY <2>1, <2>3
<1>5. CASE TakeSnapshot(c)
  <2>1. TypeOK' /\ queue' = queue
    BY <1>5 DEF TakeSnapshot, DataState
  <2>2. Data(RPortsOf(job[c].node), reqData) \in Message
    <3>1. RPortsOf(job[c].node) \in SUBSET RPort
      BY <1>5, PortsOfNodes DEF TakeSnapshot
    <3> QED BY <3>1, DataIsMessage
  <2>3. /\ JobTyped(c)'
        /\ \A x \in Conns \ {c} : pc'[x] = pc[x] /\ job'[x] = job[x]
    BY <1>5, <2>2 DEF TakeSnapshot
  <2>4. \A x \in Conns : JobTyped(x)'
    BY <2>3, OneThreadMoves
  <2> QED BY <2>1, <2>4
<1>6. CASE SendSnapshot(c)
  <2>1. TypeOK'
    BY <1>6 DEF SendSnapshot
  <2>2. queue' \in [Conns -> Seq(Message)]
    BY <1>6, EnqueueKeepsType DEF SendSnapshot
  <2>3. /\ JobTyped(c)'
        /\ \A x \in Conns \ {c} : pc'[x] = pc[x] /\ job'[x] = job[x]
    BY <1>6 DEF SendSnapshot, NoJob
  <2>4. \A x \in Conns : JobTyped(x)'
    BY <2>3, OneThreadMoves
  <2> QED BY <2>1, <2>2, <2>4
<1>7. CASE ConnectRequireFails(c)
  <2>1. TypeOK' /\ queue' = queue
    BY <1>7 DEF ConnectRequireFails
  <2>2. /\ JobTyped(c)'
        /\ \A x \in Conns \ {c} : pc'[x] = pc[x] /\ job'[x] = job[x]
    BY <1>7 DEF ConnectRequireFails, NoJob
  <2>3. \A x \in Conns : JobTyped(x)'
    BY <2>2, OneThreadMoves
  <2> QED BY <2>1, <2>3
<1> QED BY <1>1, <1>2, <1>3, <1>4, <1>5, <1>6, <1>7

LEMMA TypesProvide ==
  ASSUME TypesInv, ControlTypes', NEW c \in Conns,
         \/ \E n \in Nodes : FirstProvideWrite(c, n)
         \/ \E p \in PPort : ProvideWrite(c, p)
         \/ ConnectProvidePorts(c) \/ InsertOwnConnector(c) \/ ProvideConnected(c)
         \/ LockForRouting(c) \/ ForwardToNode(c) \/ ForwardToClient(c) \/ RoutingDone(c)
  PROVE  TypesInv'
<1> USE DEF TypesInv, TypeOK, ControlTypes, JobFields, JobTyped, Goto, GotoWith,
            tableVars, stateVars, dataVars, lockVars, lifeVars
<1>1. ASSUME NEW n \in Nodes, FirstProvideWrite(c, n) PROVE TypesInv'
  <2>1. 1 \in Version
    BY TopologyAssumption DEF Version
  <2>2. TypeOK' /\ queue' = queue
    BY <1>1, <2>1 DEF FirstProvideWrite
  <2>3. /\ JobTyped(c)'
        /\ \A x \in Conns \ {c} : pc'[x] = pc[x] /\ job'[x] = job[x]
    BY <1>1 DEF FirstProvideWrite, NoJob
  <2>4. \A x \in Conns : JobTyped(x)'
    BY <2>3, OneThreadMoves
  <2> QED BY <2>2, <2>4
<1>2. ASSUME NEW p \in PPort, ProvideWrite(c, p) PROVE TypesInv'
  <2>1. provData[p] + 1 \in Version
    <3>1. provData[p] \in Version /\ provData[p] < MaxVersion
      BY <1>2 DEF ProvideWrite
    <3> QED BY <3>1, TopologyAssumption DEF Version
  <2>2. TypeOK' /\ queue' = queue
    BY <1>2, <2>1 DEF ProvideWrite
  <2>3. /\ JobTyped(c)'
        /\ \A x \in Conns \ {c} : pc'[x] = pc[x] /\ job'[x] = job[x]
    BY <1>2, <2>1 DEF ProvideWrite, NoJob
  <2>4. \A x \in Conns : JobTyped(x)'
    BY <2>3, OneThreadMoves
  <2> QED BY <2>2, <2>4
<1>3. CASE ConnectProvidePorts(c)
  <2> DEFINE n == job[c].node
             new == PairsOfProvidePorts(n)
             chg == Record(new, 1)
  <2>1. chg \subseteq PPort \X RPort \X {1, -1}
    BY RecordKeepsType, new \in SUBSET Pairs DEF PairsOfProvidePorts, Match, Pairs
  <2>2. attached' \subseteq PPort \cup RPort /\ changes' \subseteq PPort \X RPort \X {1, -1}
    <3>1. attached' = attached \cup PPortsOf(n) /\ changes' = chg
      BY <1>3, Zenon DEF ConnectProvidePorts
    <3>2. n \in Nodes
      BY <1>3 DEF ConnectProvidePorts
    <3> HIDE DEF n, chg
    <3> QED BY <2>1, <3>1, <3>2, PortsOfNodes
  <2>3. TypeOK' /\ queue' = queue
    BY <1>3, <2>2 DEF ConnectProvidePorts, DataState
  <2>4. /\ pc'[c] = "connectProvide"
        /\ job'[c].todo = {pr \in Match : <<pr[1], pr[2], 1>> \in chg /\ pr[1] \in PPortsOf(n)}
        /\ \A x \in Conns \ {c} : pc'[x] = pc[x] /\ job'[x] = job[x]
    BY <1>3 DEF ConnectProvidePorts
  <2>5. JobTyped(c)'
    BY <2>4 DEF Match, Pairs
  <2>6. \A x \in Conns : JobTyped(x)'
    BY <2>4, <2>5, OneThreadMoves
  <2> QED BY <2>3, <2>6
<1>4. CASE InsertOwnConnector(c)
  <2>1. PICK pr \in FirstOf(job[c].todo, Provides[job[c].node], 1) :
          /\ connectors' = [connectors EXCEPT ![pr[1]] = @ \cup {pr[2]}]
          /\ GotoWith(c, "forwardFirst", [job[c] EXCEPT !.pair = pr, !.todo = @ \ {pr},
                                                         !.value = provData[pr[1]]])
    BY <1>4 DEF InsertOwnConnector
  <2>2. pr \in Pairs /\ provData[pr[1]] \in Version
    BY <2>1, FirstOfIsSubset DEF Pairs
  <2>3. TypeOK' /\ queue' = queue
    BY <1>4, <2>1, <2>2 DEF InsertOwnConnector, Pairs
  <2>4. /\ JobTyped(c)'
        /\ \A x \in Conns \ {c} : pc'[x] = pc[x] /\ job'[x] = job[x]
    BY <2>1, <2>2
  <2>5. \A x \in Conns : JobTyped(x)'
    BY <2>4, OneThreadMoves
  <2> QED BY <2>3, <2>5
<1>5. CASE ProvideConnected(c) \/ RoutingDone(c)
  <2>1. TypeOK' /\ queue' = queue
    BY <1>5 DEF ProvideConnected, RoutingDone
  <2>2. /\ JobTyped(c)'
        /\ \A x \in Conns \ {c} : pc'[x] = pc[x] /\ job'[x] = job[x]
    BY <1>5 DEF ProvideConnected, RoutingDone, NoJob
  <2>3. \A x \in Conns : JobTyped(x)'
    BY <2>2, OneThreadMoves
  <2> QED BY <2>1, <2>3
<1>6. CASE LockForRouting(c)
  <2>1. TypeOK' /\ queue' = queue
    BY <1>6 DEF LockForRouting
  <2>2. {job[c].pair[1]} \X connectors[job[c].pair[1]] \in SUBSET Pairs
    BY <1>6 DEF LockForRouting, Pairs
  <2>3. /\ JobTyped(c)'
        /\ \A x \in Conns \ {c} : pc'[x] = pc[x] /\ job'[x] = job[x]
    BY <1>6, <2>2 DEF LockForRouting
  <2>4. \A x \in Conns : JobTyped(x)'
    BY <2>3, OneThreadMoves
  <2> QED BY <2>1, <2>4
<1>7. CASE ForwardToNode(c)
  <2>1. CASE pc[c] = "forwardFirst"
    <3>1. TypeOK' /\ queue' = queue
      BY <1>7, <2>1 DEF ForwardToNode, Pairs
    <3>2. /\ JobTyped(c)'
          /\ \A x \in Conns \ {c} : pc'[x] = pc[x] /\ job'[x] = job[x]
      BY <1>7, <2>1 DEF ForwardToNode
    <3>3. \A x \in Conns : JobTyped(x)'
      BY <3>2, OneThreadMoves
    <3> QED BY <3>1, <3>3
  <2>2. CASE pc[c] # "forwardFirst"
    <3>1. PICK pr \in job[c].todo :
            /\ reqData' = [reqData EXCEPT ![pr[2]] = job[c].value]
            /\ GotoWith(c, "send", [job[c] EXCEPT !.pair = pr, !.todo = @ \ {pr}])
      BY <1>7, <2>2 DEF ForwardToNode
    <3>2. pr \in Pairs /\ job[c].value \in Version
      BY <1>7, <2>2 DEF ForwardToNode
    <3>3. TypeOK' /\ queue' = queue
      BY <1>7, <3>1, <3>2 DEF ForwardToNode, Pairs
    <3>4. /\ JobTyped(c)'
          /\ \A x \in Conns \ {c} : pc'[x] = pc[x] /\ job'[x] = job[x]
      BY <3>1, <3>2
    <3>5. \A x \in Conns : JobTyped(x)'
      BY <3>4, OneThreadMoves
    <3> QED BY <3>3, <3>5
  <2> QED BY <2>1, <2>2
<1>8. CASE ForwardToClient(c)
  <2> DEFINE r == job[c].pair[2]
             m == Data({r}, [x \in {r} |-> job[c].value])
  <2>1. m \in Message
    <3>1. r \in RPort /\ job[c].value \in Version
      BY <1>8 DEF ForwardToClient, Pairs
    <3> HIDE DEF r
    <3> QED BY <3>1, DataIsMessage
  <2>2. queue' \in [Conns -> Seq(Message)]
    <3>1. Enqueue(Conn[RequireNode(r)], m)
      BY <1>8 DEF ForwardToClient
    <3> HIDE DEF m
    <3> QED BY <2>1, <3>1, EnqueueKeepsType
  <2>3. TypeOK'
    BY <1>8 DEF ForwardToClient
  <2>4. /\ JobTyped(c)'
        /\ \A x \in Conns \ {c} : pc'[x] = pc[x] /\ job'[x] = job[x]
    BY <1>8 DEF ForwardToClient
  <2>5. \A x \in Conns : JobTyped(x)'
    BY <2>4, OneThreadMoves
  <2> QED BY <2>2, <2>3, <2>5
<1> QED BY <1>1, <1>2, <1>3, <1>4, <1>5, <1>6, <1>7, <1>8

LEMMA TypesDetach ==
  ASSUME TypesInv, ControlTypes', NEW c \in Conns,
         \/ DetachConnection(c) \/ DetachAllNodes(c)
         \/ ClearConnectorTable(c) \/ RemoveConnector(c) \/ Detached(c)
  PROVE  TypesInv'
<1> USE DEF TypesInv, TypeOK, ControlTypes, JobFields, JobTyped, Goto, GotoWith,
            tableVars, stateVars, dataVars, lockVars, lifeVars
<1>1. CASE DetachConnection(c)
  <2>1. inactive' \in Seq(Conns)
    BY <1>1, AppendProperties DEF DetachConnection
  <2>2. TypeOK' /\ queue' = queue
    BY <1>1, <2>1 DEF DetachConnection
  <2>3. /\ JobTyped(c)'
        /\ \A x \in Conns \ {c} : pc'[x] = pc[x] /\ job'[x] = job[x]
    BY <1>1 DEF DetachConnection, NoJob
  <2>4. \A x \in Conns : JobTyped(x)'
    BY <2>3, OneThreadMoves
  <2> QED BY <2>2, <2>4
<1>2. CASE DetachAllNodes(c)
  <2>1. attached' \subseteq PPort \cup RPort /\ changes' = {}
    BY <1>2 DEF DetachAllNodes
  <2>2. provState' \in [Nodes -> DataState] /\ reqState' \in [Nodes -> DataState]
    BY <1>2 DEF DetachAllNodes, DataState
  <2>3. TypeOK' /\ queue' = queue
    BY <1>2, <2>1, <2>2 DEF DetachAllNodes
  <2>5. job'[c].todo \in SUBSET Pairs
    <3> DEFINE own == {n \in Nodes : Conn[n] = c}
               provNodes == {n \in own : provState[n] = "CONNECTED"}
               reqNodes == {n \in own : reqState[n] = "CONNECTED"}
               gone == (UNION {PPortsOf(n) : n \in provNodes}) \cup (UNION {RPortsOf(n) : n \in reqNodes})
               chg == Record(PairsWithout(gone), -1)
               clear == {n \in provNodes : \E ch \in chg : ch[1] \in PPortsOf(n)}
               changed == {n \in reqNodes : \E ch \in chg : ch[2] \in RPortsOf(n)}
    <3>1. job' = [job EXCEPT ![c] = [NoJob EXCEPT !.clear = clear,
                                       !.todo = UNION {Handled(n, chg, -1) : n \in changed}]]
      BY <1>2, Zenon DEF DetachAllNodes
    <3> HIDE DEF chg, clear, changed
    <3>2. job'[c].todo = UNION {Handled(n, chg, -1) : n \in changed}
      BY <3>1 DEF NoJob
    <3> QED BY <3>2, HandledKeepsType
  <2>6. /\ pc'[c] = "clearing"
        /\ \A x \in Conns \ {c} : pc'[x] = pc[x] /\ job'[x] = job[x]
    BY <1>2 DEF DetachAllNodes
  <2>7. JobTyped(c)'
    BY <2>5, <2>6
  <2>8. \A x \in Conns : JobTyped(x)'
    BY <2>6, <2>7, OneThreadMoves
  <2> QED BY <2>3, <2>8
<1>3. CASE ClearConnectorTable(c)
  <2>1. TypeOK' /\ queue' = queue
    BY <1>3 DEF ClearConnectorTable, DataState
  <2>2. /\ JobTyped(c)'
        /\ \A x \in Conns \ {c} : pc'[x] = pc[x] /\ job'[x] = job[x]
    BY <1>3 DEF ClearConnectorTable
  <2>3. \A x \in Conns : JobTyped(x)'
    BY <2>2, OneThreadMoves
  <2> QED BY <2>1, <2>3
<1>4. CASE RemoveConnector(c)
  <2>1. PICK pr \in job[c].todo :
          /\ connectors' = [connectors EXCEPT ![pr[1]] = @ \ {pr[2]}]
          /\ job' = [job EXCEPT ![c].todo = @ \ {pr}]
    BY <1>4 DEF RemoveConnector
  <2>2. pc' = pc /\ pc[c] = "clearing"
    BY <1>4 DEF RemoveConnector
  <2>3. TypeOK' /\ queue' = queue
    BY <1>4, <2>1 DEF RemoveConnector, Pairs
  <2>4. /\ JobTyped(c)'
        /\ \A x \in Conns \ {c} : pc'[x] = pc[x] /\ job'[x] = job[x]
    BY <2>1, <2>2
  <2>5. \A x \in Conns : JobTyped(x)'
    BY <2>4, OneThreadMoves
  <2> QED BY <2>3, <2>5
<1>5. CASE Detached(c)
  <2>1. TypeOK' /\ queue' = queue
    BY <1>5 DEF Detached, DataState
  <2>2. /\ JobTyped(c)'
        /\ \A x \in Conns \ {c} : pc'[x] = pc[x] /\ job'[x] = job[x]
    BY <1>5 DEF Detached, NoJob
  <2>3. \A x \in Conns : JobTyped(x)'
    BY <2>2, OneThreadMoves
  <2> QED BY <2>1, <2>3
<1> QED BY <1>1, <1>2, <1>3, <1>4, <1>5

(* The worker sends what a message holds; the cleanup thread handles       *)
(* connections.                                                            *)
LEMMA TypesOtherThreads ==
  ASSUME TypesInv, ControlTypes',
         (\E c \in Conns : Transmit(c)) \/ Cleanup
  PROVE  TypesInv'
<1> USE DEF TypesInv, TypeOK, ControlTypes, JobTyped,
            tableVars, stateVars, dataVars, lockVars, lifeVars
<1>1. ASSUME NEW c \in Conns, Transmit(c) PROVE TypesInv'
  <2>1. /\ Head(queue[c]) \in Message /\ Tail(queue[c]) \in Seq(Message)
    BY <1>1, HeadTailProperties DEF Transmit
  <2>2. queue' \in [Conns -> Seq(Message)]
    BY <1>1, <2>1 DEF Transmit
  <2>3. view' \in [RPort -> Version]
    <3>1. \A r \in DOMAIN Head(queue[c]).data : Head(queue[c]).data[r] \in Version
      BY <2>1 DEF Message
    <3> QED BY <1>1, <3>1 DEF Transmit
  <2>4. TypeOK' /\ \A x \in Conns : JobTyped(x)'
    BY <1>1, <2>3 DEF Transmit
  <2> QED BY <2>2, <2>4
<1>2. CASE CleanupBegin
  <2>1. Head(inactive) \in Conns /\ Tail(inactive) \in Seq(Conns)
    BY <1>2, HeadTailProperties DEF CleanupBegin
  <2>2. queue' \in [Conns -> Seq(Message)]
    BY <1>2, ExitIsMessage, EnqueueKeepsType DEF CleanupBegin
  <2>3. TypeOK' /\ \A x \in Conns : JobTyped(x)'
    BY <1>2, <2>1 DEF CleanupBegin
  <2> QED BY <2>2, <2>3
<1>3. CASE CleanupEnd
  BY <1>3 DEF CleanupEnd
<1> QED BY <1>1, <1>2, <1>3 DEF Cleanup

LEMMA TypesStep == TypesInv /\ LocksInv' /\ [Next]_vars => TypesInv'
<1> SUFFICES ASSUME TypesInv, LocksInv', [Next]_vars PROVE TypesInv'
  OBVIOUS
<1>1. ControlTypes'
  BY DEF LocksInv
<1>2. ASSUME NEW c \in Conns, Request(c) \/ Continue(c) PROVE TypesInv'
  BY <1>1, <1>2, TypesConnectRequire, TypesProvide, TypesDetach DEF Request, Continue
<1>3. CASE (\E c \in Conns : Transmit(c)) \/ Cleanup
  BY <1>1, <1>3, TypesOtherThreads
<1>4. CASE Terminated \/ UNCHANGED vars
  BY <1>4 DEF Terminated, vars, TypesInv, TypeOK, ControlTypes, JobTyped,
       tableVars, stateVars, dataVars, lockVars, lifeVars
<1> QED BY <1>2, <1>3, <1>4, Zenon DEF Next

(* Every variable of the server has its type in every state.               *)
THEOREM TypeCorrect == Spec => []TypeOK
<1>1. TypesInv => TypeOK
  BY DEF TypesInv
<1> QED BY <1>1, TypesInit, TypesStep, LocksInvariant, PTL DEF Spec

-----------------------------------------------------------------------------
(* The connections that a provide port and a require port belong to, and   *)
(* whether the ports of a connection have left the signature map.          *)
Provider(p) == Conn[ProvideNode(p)]
Requirer(r) == Conn[RequireNode(r)]
Gone(c) == pc[c] \in {"clearing", "done"}

AtWork == {"connectRequire", "readProvide", "writeRequire", "sendSnapshot", "connectNode",
           "connectProvide", "forwardFirst", "sendFirst", "routeLock", "route", "send"}
ConnectingRequire == {"connectRequire", "readProvide", "writeRequire"}
ConnectingProvide == {"connectProvide", "forwardFirst", "sendFirst"}

(* A thread works for a node of its own connection and removes ports of    *)
(* its own connection only.                                                *)
OwnNodes(c) ==
  /\ pc[c] \in AtWork => job[c].node \in Nodes /\ Conn[job[c].node] = c
  /\ pc[c] = "clearing" =>
       /\ \A n \in job[c].clear : n \in Nodes /\ Conn[n] = c /\ PPortsOf(n) # {}
       /\ \A pr \in job[c].todo : Requirer(pr[2]) = c
  /\ pc[c] = "routeLock" => job[c].pair[1] \in PPortsOf(job[c].node)

(* While require ports are connected, each pair of listed ports is still   *)
(* to be done, or has its connector, unless the loop will not come so far. *)
RequireInHand(c) ==
  pc[c] \in ConnectingRequire =>
    /\ RPortsOf(job[c].node) \subseteq attached
    /\ \A pr \in job[c].todo :
         pr \in Match /\ pr[1] \in attached /\ pr[2] \in RPortsOf(job[c].node)
    /\ pc[c] = "readProvide" => job[c].pair[1] \in attached
    /\ job[c].ok => \A pr \in Match :
         pr[1] \in attached /\ pr[2] \in RPortsOf(job[c].node)
           => pr \in job[c].todo \/ pr[2] \in connectors[pr[1]]

(* While provide ports are connected, what is still to be done is about    *)
(* listed ports.                                                           *)
ProvideInHand(c) ==
  pc[c] \in ConnectingProvide =>
    /\ PPortsOf(job[c].node) \subseteq attached
    /\ \A pr \in job[c].todo :
         pr \in Match /\ pr[1] \in PPortsOf(job[c].node) /\ pr[2] \in attached
    /\ pc[c] \in {"forwardFirst", "sendFirst"} => job[c].pair[2] \in attached

(* The signature map holds the provide ports of the connected nodes, and   *)
(* at least the require ports of the connected nodes.                      *)
ProvidersListed ==
  \A p \in PPort : p \in attached <=>
    provState[ProvideNode(p)] = "CONNECTED" /\ ~Gone(Provider(p))
RequirersListed ==
  \A r \in RPort :
    reqState[RequireNode(r)] = "CONNECTED" /\ ~Gone(Requirer(r)) => r \in attached

(* Two connected ports that match have a connector, or a thread is about   *)
(* to insert it.                                                           *)
Linked(pr) ==
  \/ pr[2] \in connectors[pr[1]]
  \/ \E c \in Conns : pc[c] \in ConnectingProvide /\ pr \in job[c].todo
AllLinked ==
  \A pr \in Match :
    /\ provState[ProvideNode(pr[1])] = "CONNECTED" /\ ~Gone(Provider(pr[1]))
    /\ reqState[RequireNode(pr[2])] = "CONNECTED" /\ ~Gone(Requirer(pr[2]))
    => Linked(pr)

FreedAreDone == \A c \in freed : pc[c] = "done"

Jobs == \A c \in Conns : OwnNodes(c) /\ RequireInHand(c) /\ ProvideInHand(c)

TablesInv == Jobs /\ ProvidersListed /\ RequirersListed /\ AllLinked /\ FreedAreDone

(* What is known already.                                                  *)
Grounds == LocksInv /\ TypesInv

----------------------------------------------------------------------------
(* Every port belongs to one node.                                         *)
LEMMA OneNode ==
  /\ \A n \in Nodes : Conn[n] \in Conns
  /\ \A n \in Nodes : \A p \in PPortsOf(n) : p \in PPort /\ ProvideNode(p) = n
  /\ \A n \in Nodes : \A r \in RPortsOf(n) : r \in RPort /\ RequireNode(r) = n
  /\ \A p \in PPort : ProvideNode(p) \in Nodes /\ p \in PPortsOf(ProvideNode(p)) /\ Provider(p) \in Conns
  /\ \A r \in RPort : RequireNode(r) \in Nodes /\ r \in RPortsOf(RequireNode(r)) /\ Requirer(r) \in Conns
<1>1. \A m, n \in Nodes : m # n => /\ PPortsOf(m) \cap PPortsOf(n) = {}
                                   /\ RPortsOf(m) \cap RPortsOf(n) = {}
  BY TopologyAssumption, Zenon
<1>2. \A n \in Nodes : Conn[n] \in Conns
  BY TopologyAssumption
<1>3. \A p \in PPort : ProvideNode(p) \in Nodes /\ p \in PPortsOf(ProvideNode(p))
  BY DEF PPort, ProvideNode
<1>4. \A r \in RPort : RequireNode(r) \in Nodes /\ r \in RPortsOf(RequireNode(r))
  BY DEF RPort, RequireNode
<1>5. ASSUME NEW n \in Nodes, NEW p \in PPortsOf(n) PROVE p \in PPort /\ ProvideNode(p) = n
  <2>1. p \in PPort
    BY DEF PPort
  <2> QED BY <1>1, <1>3, <2>1
<1>6. ASSUME NEW n \in Nodes, NEW r \in RPortsOf(n) PROVE r \in RPort /\ RequireNode(r) = n
  <2>1. r \in RPort
    BY DEF RPort
  <2> QED BY <1>1, <1>4, <2>1
<1> QED BY <1>2, <1>3, <1>4, <1>5, <1>6 DEF Provider, Requirer

LEMMA MatchesArePairs == \A pr \in Match : pr[1] \in PPort /\ pr[2] \in RPort /\ pr = <<pr[1], pr[2]>>
  BY DEF Match

(* When the global lock is free nobody connects and no change is recorded, *)
(* so that all that is found is recorded.                                  *)
LEMMA LockIsFree ==
  ASSUME Grounds, globalLock = None
  PROVE  /\ \A c \in Conns : pc[c] \notin ConnectingRequire \cup ConnectingProvide
         /\ changes = {}
<1>1. None \notin Conns
  BY TopologyAssumption
<1> QED BY <1>1 DEF Grounds, LocksInv, LocksHeld, ChangesConfined, UnderGlobalLock, Connecting,
                    ConnectingRequire, ConnectingProvide

LEMMA RecordedFromNothing ==
  ASSUME changes = {}, NEW prs, NEW sign
  PROVE  Record(prs, sign) = {<<pr[1], pr[2], sign>> : pr \in prs}
  BY DEF Record

----------------------------------------------------------------------------
LEMMA TablesInit == Init => TablesInv
<1> SUFFICES ASSUME Init PROVE TablesInv
  OBVIOUS
<1>1. \A c \in Conns : pc[c] = "idle"
  BY DEF Init
<1>2. Jobs
  BY <1>1 DEF Jobs, OwnNodes, RequireInHand, ProvideInHand, AtWork, ConnectingRequire, ConnectingProvide
<1>3. \A n \in Nodes : provState[n] # "CONNECTED" /\ reqState[n] # "CONNECTED"
  BY DEF Init
<1>4. attached = {} /\ freed = {}
  BY DEF Init
<1> QED BY <1>2, <1>3, <1>4, OneNode, MatchesArePairs
        DEF TablesInv, ProvidersListed, RequirersListed, AllLinked, FreedAreDone

(* A step of one thread keeps the facts about the jobs of the others, if   *)
(* it leaves the signature map and the connectors as far as they go.       *)
LEMMA OtherJobs ==
  ASSUME TablesInv, Grounds, NEW c \in Conns,
         \A x \in Conns \ {c} : pc'[x] = pc[x] /\ job'[x] = job[x],
         attached' = attached
           \/ \A x \in Conns : pc[x] \notin ConnectingRequire \cup ConnectingProvide,
         \A pr \in Match :
           /\ pr[1] \in attached /\ pr[2] \in connectors[pr[1]]
           /\ Requirer(pr[2]) # c \/ pc[c] # "clearing"
           => pr[2] \in connectors'[pr[1]],
         OwnNodes(c)', RequireInHand(c)', ProvideInHand(c)'
  PROVE  Jobs'
<1>1. ASSUME NEW x \in Conns \ {c}
      PROVE  OwnNodes(x)' /\ RequireInHand(x)' /\ ProvideInHand(x)'
  <2>1. /\ pc'[x] = pc[x] /\ job'[x] = job[x]
        /\ OwnNodes(x) /\ RequireInHand(x) /\ ProvideInHand(x)
    BY <1>1 DEF TablesInv, Jobs
  <2>2. OwnNodes(x)'
    BY <2>1 DEF OwnNodes
  <2>3. ProvideInHand(x)'
    BY <2>1 DEF ProvideInHand
  <2>4. RequireInHand(x)'
    <3>1. CASE pc[x] \notin ConnectingRequire
      BY <2>1, <3>1 DEF RequireInHand
    <3>2. CASE pc[x] \in ConnectingRequire
      <4>1. attached' = attached
        BY <3>2
      <4>2. job[x].node \in Nodes /\ Conn[job[x].node] = x
        BY <2>1, <3>2 DEF OwnNodes, AtWork, ConnectingRequire
      <4>3. \A r \in RPortsOf(job[x].node) : Requirer(r) = x
        BY <4>2, OneNode DEF Requirer
      <4>4. ASSUME NEW pr \in Match, job[x].ok, pr[1] \in attached, pr[2] \in RPortsOf(job[x].node)
            PROVE  pr \in job[x].todo \/ pr[2] \in connectors'[pr[1]]
        BY <2>1, <3>2, <4>3, <4>4 DEF RequireInHand
      <4> QED BY <2>1, <4>1, <4>4 DEF RequireInHand
    <3> QED BY <3>1, <3>2
  <2> QED BY <2>2, <2>3, <2>4
<1> QED BY <1>1 DEF Jobs

(* A step of a thread that touches no table.                               *)
LEMMA TablesAlone ==
  ASSUME TablesInv, Grounds, NEW c \in Conns,
         UNCHANGED <<attached, connectors, provState, reqState, freed>>,
         \A x \in Conns \ {c} : pc'[x] = pc[x] /\ job'[x] = job[x],
         ~Gone(c), ~Gone(c)',
         OwnNodes(c)', RequireInHand(c)', ProvideInHand(c)',
         pc[c] \in ConnectingProvide =>
           job[c].todo = {} \/ (pc'[c] \in ConnectingProvide /\ job'[c].todo = job[c].todo)
  PROVE  TablesInv'
<1>1. Jobs'
  BY OtherJobs
<1>2. \A x \in Conns : Gone(x)' <=> Gone(x)
  BY DEF Gone
<1>3. ProvidersListed' /\ RequirersListed'
  BY <1>2, OneNode DEF TablesInv, ProvidersListed, RequirersListed
<1>4. \A pr : Linked(pr) => Linked(pr)'
  BY DEF Linked
<1>5. AllLinked'
  BY <1>2, <1>4, OneNode, MatchesArePairs DEF TablesInv, AllLinked
<1>6. FreedAreDone'
  BY DEF TablesInv, FreedAreDone, Gone, Grounds, TypesInv, TypeOK
<1> QED BY <1>1, <1>3, <1>5, <1>6 DEF TablesInv

(* The steps of a thread that touch no table.                              *)
LEMMA QuietSteps ==
  ASSUME TablesInv, Grounds, NEW c \in Conns,
         \/ ReadProvideData(c) \/ WriteRequireData(c) \/ SendSnapshot(c) \/ ConnectRequireFails(c)
         \/ \E n \in Nodes : FirstProvideWrite(c, n)
         \/ \E p \in PPort : ProvideWrite(c, p)
         \/ ProvideConnected(c) \/ LockForRouting(c) \/ RoutingDone(c)
         \/ ForwardToNode(c) \/ ForwardToClient(c) \/ DetachConnection(c)
  PROVE  TablesInv'
<1> USE DEF Goto, GotoWith, Gone, OwnNodes, RequireInHand, ProvideInHand,
            AtWork, ConnectingRequire, ConnectingProvide,
            tableVars, stateVars, lifeVars, dataVars, lockVars, JobFields, NoJob
<1>1. /\ DOMAIN job = Conns /\ DOMAIN job[c] = JobFields /\ pc \in [Conns -> PC]
      /\ OwnNodes(c) /\ RequireInHand(c) /\ ProvideInHand(c)
  BY DEF Grounds, LocksInv, ControlTypes, TablesInv, Jobs
<1>2. CASE ReadProvideData(c)
  BY <1>1, <1>2, TablesAlone DEF ReadProvideData
<1>3. CASE WriteRequireData(c)
  BY <1>1, <1>3, TablesAlone DEF WriteRequireData
<1>4. CASE SendSnapshot(c)
  BY <1>1, <1>4, TablesAlone DEF SendSnapshot
<1>5. CASE ConnectRequireFails(c)
  BY <1>1, <1>5, TablesAlone DEF ConnectRequireFails
<1>6. ASSUME NEW n \in Nodes, FirstProvideWrite(c, n) PROVE TablesInv'
  BY <1>1, <1>6, TablesAlone DEF FirstProvideWrite
<1>7. ASSUME NEW p \in PPort, ProvideWrite(c, p) PROVE TablesInv'
  <2>1. /\ pc[c] = "idle" /\ pc' = [pc EXCEPT ![c] = "routeLock"] /\ job'[c].pair[1] = p
        /\ job'[c].node = ProvideNode(p) /\ Conn[ProvideNode(p)] = c
        /\ \A x \in Conns \ {c} : job'[x] = job[x]
        /\ UNCHANGED <<attached, connectors, provState, reqState, freed>>
    BY <1>1, <1>7 DEF ProvideWrite
  <2>2. ProvideNode(p) \in Nodes /\ p \in PPortsOf(ProvideNode(p))
    BY OneNode
  <2> QED BY <1>1, <2>1, <2>2, TablesAlone
<1>8. CASE ProvideConnected(c)
  BY <1>1, <1>8, TablesAlone DEF ProvideConnected
<1>9. CASE LockForRouting(c)
  BY <1>1, <1>9, TablesAlone DEF LockForRouting
<1>10. CASE RoutingDone(c)
  BY <1>1, <1>10, TablesAlone DEF RoutingDone
<1>11. CASE ForwardToNode(c)
  <2>1. UNCHANGED <<attached, connectors, provState, reqState, freed>>
    BY <1>11 DEF ForwardToNode
  <2>2. CASE pc[c] = "forwardFirst" /\ pc' = [pc EXCEPT ![c] = "sendFirst"] /\ UNCHANGED job
    BY <1>1, <2>1, <2>2, TablesAlone
  <2>3. ASSUME pc[c] = "route", pc' = [pc EXCEPT ![c] = "send"],
               NEW pr, job' = [job EXCEPT ![c] = [job[c] EXCEPT !.pair = pr, !.todo = @ \ {pr}]]
        PROVE  TablesInv'
    BY <1>1, <2>1, <2>3, TablesAlone
  <2> QED BY <1>11, <2>2, <2>3, Zenon DEF ForwardToNode
<1>12. CASE ForwardToClient(c)
  BY <1>1, <1>12, TablesAlone DEF ForwardToClient
<1>13. CASE DetachConnection(c)
  BY <1>1, <1>13, TablesAlone DEF DetachConnection
<1> QED BY <1>2, <1>3, <1>4, <1>5, <1>6, <1>7, <1>8, <1>9, <1>10, <1>11, <1>12, <1>13

(* Require ports: the pairs found are those of listed provide ports, and   *)
(* all of them are in hand when the loop will reach every port.            *)
LEMMA OpeningTables ==
  ASSUME TablesInv, Grounds, NEW c \in Conns, NEW n \in Nodes, OpenRequireFile(c, n)
  PROVE  TablesInv'
<1> DEFINE chg == Record(PairsOfRequirePorts(n), 1)
<1>1. /\ pc[c] = "idle" /\ Conn[n] = c
      /\ attached' = attached \cup RPortsOf(n)
      /\ globalLock = None
      /\ UNCHANGED <<connectors, provState, reqState, freed>>
  BY Zenon DEF OpenRequireFile, stateVars, lifeVars
<1>2. /\ pc' = [pc EXCEPT ![c] = "connectRequire"]
      /\ job' = [job EXCEPT ![c] = [NoJob EXCEPT !.node = n, !.todo = Handled(n, chg, 1),
                                                  !.ok = (Reached(n, chg, 1) = RPortsOf(n))]]
  BY Zenon DEF OpenRequireFile, Goto, GotoWith
<1>3. DOMAIN job = Conns /\ pc \in [Conns -> PC]
  BY DEF Grounds, LocksInv, ControlTypes
<1>4. /\ \A x \in Conns : pc[x] \notin ConnectingRequire \cup ConnectingProvide
      /\ changes = {}
  BY <1>1, LockIsFree
<1>5. chg = {<<pr[1], pr[2], 1>> : pr \in PairsOfRequirePorts(n)}
  BY <1>4, RecordedFromNothing
<1>6. \A pr \in Match : <<pr[1], pr[2], 1>> \in chg <=> pr[1] \in attached /\ pr[2] \in RPortsOf(n)
  BY <1>5, MatchesArePairs DEF PairsOfRequirePorts
<1> HIDE DEF chg
<1>7. /\ pc'[c] = "connectRequire" /\ job'[c].node = n /\ job'[c].todo = Handled(n, chg, 1)
      /\ job'[c].ok = (Reached(n, chg, 1) = RPortsOf(n))
      /\ \A x \in Conns \ {c} : pc'[x] = pc[x] /\ job'[x] = job[x]
  BY <1>2, <1>3 DEF NoJob
<1>8. OwnNodes(c)' /\ ProvideInHand(c)'
  BY <1>1, <1>7 DEF OwnNodes, ProvideInHand, ConnectingProvide, AtWork
<1>9. RequireInHand(c)'
  <2>1. ASSUME NEW pr \in Handled(n, chg, 1)
        PROVE  pr \in Match /\ pr[1] \in attached' /\ pr[2] \in RPortsOf(n)
    BY <1>1, <1>6 DEF Handled
  <2>2. ASSUME Reached(n, chg, 1) = RPortsOf(n), NEW pr \in Match, pr[1] \in attached',
               pr[2] \in RPortsOf(n)
        PROVE  pr \in Handled(n, chg, 1)
    <3>1. pr[1] \in attached
      BY <1>1, <2>2, MatchesArePairs, OneNode, TopologyAssumption
    <3> QED BY <1>6, <2>2, <3>1 DEF Handled
  <2> QED BY <1>1, <1>7, <2>1, <2>2 DEF RequireInHand
<1>10. Jobs'
  BY <1>1, <1>4, <1>7, <1>8, <1>9, OtherJobs
<1>11. \A x \in Conns : Gone(x)' <=> Gone(x)
  BY <1>1, <1>7 DEF Gone
<1>12. ProvidersListed' /\ RequirersListed'
  BY <1>1, <1>11, OneNode, TopologyAssumption DEF TablesInv, ProvidersListed, RequirersListed
<1>13. AllLinked'
  BY <1>1, <1>4, <1>11, OneNode, MatchesArePairs DEF TablesInv, AllLinked, Linked
<1>14. FreedAreDone'
  BY <1>1, <1>7 DEF TablesInv, FreedAreDone, Grounds, TypesInv, TypeOK
<1> QED BY <1>10, <1>12, <1>13, <1>14 DEF TablesInv

(* The connector of the pair in hand is inserted; at the end none is       *)
(* missing, so that the node may be called connected.                      *)
LEMMA ConnectingTables ==
  ASSUME TablesInv, Grounds, NEW c \in Conns, InsertConnector(c) \/ TakeSnapshot(c)
  PROVE  TablesInv'
<1>1. /\ DOMAIN job = Conns /\ DOMAIN job[c] = JobFields /\ pc \in [Conns -> PC]
      /\ connectors \in [PPort -> SUBSET RPort] /\ reqState \in [Nodes -> DataState]
      /\ OwnNodes(c) /\ RequireInHand(c) /\ ProvideInHand(c)
      /\ freed \subseteq Conns
  BY DEF Grounds, LocksInv, ControlTypes, TypesInv, TypeOK, TablesInv, Jobs
<1>2. CASE InsertConnector(c)
  <2>1. PICK pr \in FirstOf(job[c].todo, Requires[job[c].node], 2) :
          /\ connectors' = [connectors EXCEPT ![pr[1]] = @ \cup {pr[2]}]
          /\ job' = [job EXCEPT ![c] = [job[c] EXCEPT !.pair = pr, !.todo = @ \ {pr}]]
    BY <1>2 DEF InsertConnector, GotoWith
  <2>2. /\ pc[c] = "connectRequire" /\ pc' = [pc EXCEPT ![c] = "readProvide"]
        /\ UNCHANGED <<attached, provState, reqState, freed>>
    BY <1>2 DEF InsertConnector, Goto, GotoWith, stateVars, lifeVars
  <2>3. pr \in job[c].todo /\ pr \in Match /\ pr[1] \in PPort /\ pr[1] \in attached
    BY <1>1, <2>1, <2>2, FirstOfIsSubset, MatchesArePairs DEF RequireInHand, ConnectingRequire
  <2>4. /\ job'[c].node = job[c].node /\ job'[c].ok = job[c].ok
        /\ job'[c].pair = pr /\ job'[c].todo = job[c].todo \ {pr}
        /\ \A x \in Conns \ {c} : pc'[x] = pc[x] /\ job'[x] = job[x]
        /\ pc'[c] = "readProvide"
    BY <1>1, <2>1, <2>2 DEF JobFields
  <2>5. /\ \A q \in PPort : connectors[q] \subseteq connectors'[q]
        /\ pr[2] \in connectors'[pr[1]]
    BY <1>1, <2>1, <2>3
  <2>6. OwnNodes(c)' /\ ProvideInHand(c)'
    BY <1>1, <2>2, <2>4 DEF OwnNodes, ProvideInHand, ConnectingProvide, AtWork
  <2>7. RequireInHand(c)'
    BY <1>1, <2>2, <2>3, <2>4, <2>5, MatchesArePairs DEF RequireInHand, ConnectingRequire
  <2>8. Jobs'
    BY <2>2, <2>4, <2>5, <2>6, <2>7, MatchesArePairs, OtherJobs
  <2>9. \A x \in Conns : Gone(x)' <=> Gone(x)
    BY <2>2, <2>4 DEF Gone
  <2>10. ProvidersListed' /\ RequirersListed'
    BY <2>2, <2>9, OneNode DEF TablesInv, ProvidersListed, RequirersListed
  <2>11. \A q \in Match : Linked(q) => Linked(q)'
    BY <2>2, <2>4, <2>5, MatchesArePairs DEF Linked, ConnectingProvide
  <2>12. AllLinked'
    BY <2>2, <2>9, <2>11, OneNode, MatchesArePairs DEF TablesInv, AllLinked
  <2>13. FreedAreDone'
    BY <1>1, <2>2, <2>4 DEF TablesInv, FreedAreDone
  <2> QED BY <2>8, <2>10, <2>12, <2>13 DEF TablesInv
<1>3. CASE TakeSnapshot(c)
  <2> DEFINE n == job[c].node
  <2>1. /\ pc[c] = "connectRequire" /\ job[c].todo = {} /\ job[c].ok
        /\ reqState' = [reqState EXCEPT ![n] = "CONNECTED"]
        /\ pc' = [pc EXCEPT ![c] = "sendSnapshot"]
        /\ UNCHANGED <<attached, connectors, provState, freed>>
    BY <1>3 DEF TakeSnapshot, Goto, GotoWith, lifeVars
  <2>2. /\ job'[c].node = n /\ pc'[c] = "sendSnapshot"
        /\ \A x \in Conns \ {c} : pc'[x] = pc[x] /\ job'[x] = job[x]
    BY <1>1, <1>3 DEF TakeSnapshot, Goto, GotoWith, JobFields
  <2>3. n \in Nodes /\ Conn[n] = c
    BY <1>1, <2>1 DEF OwnNodes, AtWork
  <2> HIDE DEF n
  <2>4. OwnNodes(c)' /\ ProvideInHand(c)' /\ RequireInHand(c)'
    BY <2>2, <2>3 DEF OwnNodes, RequireInHand, ProvideInHand, ConnectingRequire, ConnectingProvide
  <2>5. Jobs'
    BY <2>1, <2>2, <2>4, OtherJobs
  <2>6. \A x \in Conns : Gone(x)' <=> Gone(x)
    BY <2>1, <2>2 DEF Gone
  <2>7. ProvidersListed'
    BY <2>1, <2>6, OneNode DEF TablesInv, ProvidersListed
  <2>8. RPortsOf(n) \subseteq attached
    BY <1>1, <2>1 DEF RequireInHand, ConnectingRequire, n
  <2>9. RequirersListed'
    BY <1>1, <2>1, <2>3, <2>6, <2>8, OneNode DEF TablesInv, RequirersListed
  <2>10. \A pr : Linked(pr) => Linked(pr)'
    BY <2>1, <2>2 DEF Linked, ConnectingProvide
  <2>11. ASSUME NEW pr \in Match, RequireNode(pr[2]) = n, pr[1] \in attached PROVE Linked(pr)'
    <3>1. pr[2] \in RPortsOf(n)
      BY <2>11, MatchesArePairs, OneNode
    <3> QED BY <1>1, <2>1, <2>11, <3>1 DEF RequireInHand, ConnectingRequire, Linked, n
  <2>12. AllLinked'
    <3> SUFFICES ASSUME NEW pr \in Match,
                        provState[ProvideNode(pr[1])] = "CONNECTED", ~Gone(Provider(pr[1])),
                        reqState'[RequireNode(pr[2])] = "CONNECTED", ~Gone(Requirer(pr[2]))
                 PROVE  Linked(pr)'
      BY <2>1, <2>6, OneNode, MatchesArePairs DEF AllLinked
    <3>1. CASE RequireNode(pr[2]) = n
      BY <2>11, <3>1, MatchesArePairs DEF TablesInv, ProvidersListed
    <3>2. CASE RequireNode(pr[2]) # n
      BY <1>1, <2>1, <2>10, <3>2, OneNode, MatchesArePairs DEF TablesInv, AllLinked
    <3> QED BY <3>1, <3>2
  <2>13. FreedAreDone'
    BY <1>1, <2>1, <2>2 DEF TablesInv, FreedAreDone
  <2> QED BY <2>5, <2>7, <2>9, <2>12, <2>13 DEF TablesInv
<1> QED BY <1>2, <1>3
(* Provide ports: with the lock free nothing was recorded, so that every    *)
(* listed requester is in hand.                                            *)
LEMMA ProvidingTables ==
  ASSUME TablesInv, Grounds, NEW c \in Conns, ConnectProvidePorts(c) \/ InsertOwnConnector(c)
  PROVE  TablesInv'
<1>1. /\ DOMAIN job = Conns /\ DOMAIN job[c] = JobFields /\ pc \in [Conns -> PC]
      /\ connectors \in [PPort -> SUBSET RPort] /\ provState \in [Nodes -> DataState]
      /\ OwnNodes(c) /\ RequireInHand(c) /\ ProvideInHand(c)
      /\ freed \subseteq Conns
  BY DEF Grounds, LocksInv, ControlTypes, TypesInv, TypeOK, TablesInv, Jobs
<1>2. CASE ConnectProvidePorts(c)
  <2> DEFINE n == job[c].node
             chg == Record(PairsOfProvidePorts(n), 1)
             new == {pr \in Match : <<pr[1], pr[2], 1>> \in chg /\ pr[1] \in PPortsOf(n)}
  <2>1. /\ pc[c] = "connectNode" /\ globalLock = None
        /\ pc' = [pc EXCEPT ![c] = "connectProvide"]
        /\ job' = [job EXCEPT ![c] = [job[c] EXCEPT !.todo = new]]
        /\ attached' = attached \cup PPortsOf(n)
        /\ provState' = [provState EXCEPT ![n] = "CONNECTED"]
        /\ UNCHANGED <<connectors, reqState, freed>>
    BY <1>2, Zenon DEF ConnectProvidePorts, Goto, GotoWith, lifeVars
  <2>2. /\ \A x \in Conns : pc[x] \notin ConnectingRequire \cup ConnectingProvide
        /\ changes = {}
    BY <2>1, LockIsFree
  <2>3. chg = {<<pr[1], pr[2], 1>> : pr \in PairsOfProvidePorts(n)}
    BY <2>2, RecordedFromNothing
  <2>4. \A pr \in Match : pr \in new <=> pr[1] \in PPortsOf(n) /\ pr[2] \in attached
    BY <2>3, MatchesArePairs DEF PairsOfProvidePorts
  <2>5. n \in Nodes /\ Conn[n] = c
    BY <1>1, <2>1 DEF OwnNodes, AtWork
  <2>6. new \subseteq Match
    OBVIOUS
  <2> HIDE DEF n, chg, new
  <2>7. /\ pc'[c] = "connectProvide" /\ job'[c].node = n /\ job'[c].todo = new
        /\ \A x \in Conns \ {c} : pc'[x] = pc[x] /\ job'[x] = job[x]
    BY <1>1, <2>1 DEF JobFields, n
  <2>8. OwnNodes(c)' /\ RequireInHand(c)'
    BY <2>5, <2>7 DEF OwnNodes, RequireInHand, ConnectingRequire
  <2>9. ProvideInHand(c)'
    BY <2>1, <2>4, <2>6, <2>7 DEF ProvideInHand
  <2>10. Jobs'
    BY <2>1, <2>2, <2>7, <2>8, <2>9, OtherJobs
  <2>11. \A x \in Conns : Gone(x)' <=> Gone(x)
    BY <2>1, <2>7 DEF Gone
  <2>12. ~Gone(c)'
    BY <2>7 DEF Gone
  <2>13. ProvidersListed'
    BY <1>1, <2>1, <2>5, <2>11, <2>12, OneNode DEF TablesInv, ProvidersListed, Provider
  <2>14. RequirersListed'
    BY <2>1, <2>11, OneNode DEF TablesInv, RequirersListed
  <2>15. AllLinked'
    <3> SUFFICES ASSUME NEW pr \in Match,
                        provState'[ProvideNode(pr[1])] = "CONNECTED", ~Gone(Provider(pr[1])),
                        reqState[RequireNode(pr[2])] = "CONNECTED", ~Gone(Requirer(pr[2]))
                 PROVE  Linked(pr)'
      BY <2>1, <2>11, OneNode, MatchesArePairs DEF AllLinked
    <3>1. pr[1] \in PPort /\ pr[2] \in RPort
      BY MatchesArePairs
    <3>2. CASE ProvideNode(pr[1]) = n
      <4>1. pr \in new
        BY <2>4, <3>1, <3>2, OneNode DEF TablesInv, RequirersListed
      <4> QED BY <2>7, <4>1 DEF Linked, ConnectingProvide
    <3>3. CASE ProvideNode(pr[1]) # n
      BY <1>1, <2>1, <2>2, <3>1, <3>3, OneNode DEF TablesInv, AllLinked, Linked
    <3> QED BY <3>2, <3>3
  <2>16. FreedAreDone'
    BY <1>1, <2>1, <2>7 DEF TablesInv, FreedAreDone
  <2> QED BY <2>10, <2>13, <2>14, <2>15, <2>16 DEF TablesInv
<1>3. CASE InsertOwnConnector(c)
  <2>1. PICK pr \in FirstOf(job[c].todo, Provides[job[c].node], 1) :
          /\ connectors' = [connectors EXCEPT ![pr[1]] = @ \cup {pr[2]}]
          /\ job' = [job EXCEPT ![c] = [job[c] EXCEPT !.pair = pr, !.todo = @ \ {pr},
                                                      !.value = provData[pr[1]]]]
    BY <1>3 DEF InsertOwnConnector, GotoWith
  <2>2. /\ pc[c] = "connectProvide" /\ pc' = [pc EXCEPT ![c] = "forwardFirst"]
        /\ UNCHANGED <<attached, provState, reqState, freed>>
    BY <1>3 DEF InsertOwnConnector, Goto, GotoWith, stateVars, lifeVars
  <2>3. pr \in job[c].todo /\ pr \in Match /\ pr[1] \in PPort /\ pr[2] \in attached
    BY <1>1, <2>1, <2>2, FirstOfIsSubset, MatchesArePairs DEF ProvideInHand, ConnectingProvide
  <2>4. /\ job'[c].node = job[c].node
        /\ job'[c].pair = pr /\ job'[c].todo = job[c].todo \ {pr}
        /\ \A x \in Conns \ {c} : pc'[x] = pc[x] /\ job'[x] = job[x]
        /\ pc'[c] = "forwardFirst"
    BY <1>1, <2>1, <2>2 DEF JobFields
  <2>5. /\ \A q \in PPort : connectors[q] \subseteq connectors'[q]
        /\ pr[2] \in connectors'[pr[1]]
    BY <1>1, <2>1, <2>3
  <2>6. OwnNodes(c)' /\ RequireInHand(c)'
    BY <1>1, <2>2, <2>4 DEF OwnNodes, RequireInHand, ConnectingRequire, AtWork
  <2>7. ProvideInHand(c)'
    BY <1>1, <2>2, <2>3, <2>4 DEF ProvideInHand, ConnectingProvide
  <2>8. Jobs'
    BY <2>2, <2>4, <2>5, <2>6, <2>7, MatchesArePairs, OtherJobs
  <2>9. \A x \in Conns : Gone(x)' <=> Gone(x)
    BY <2>2, <2>4 DEF Gone
  <2>10. ProvidersListed' /\ RequirersListed'
    BY <2>2, <2>9, OneNode DEF TablesInv, ProvidersListed, RequirersListed
  <2>11. ASSUME NEW q \in Match, Linked(q) PROVE Linked(q)'
    <3>1. CASE q = pr
      BY <2>5, <3>1 DEF Linked
    <3>2. CASE q # pr
      BY <2>2, <2>4, <2>5, <2>11, <3>2, MatchesArePairs DEF Linked, ConnectingProvide
    <3> QED BY <3>1, <3>2
  <2>12. AllLinked'
    BY <2>2, <2>9, <2>11, OneNode, MatchesArePairs DEF TablesInv, AllLinked
  <2>13. FreedAreDone'
    BY <1>1, <2>2, <2>4 DEF TablesInv, FreedAreDone
  <2> QED BY <2>8, <2>10, <2>12, <2>13 DEF TablesInv
<1> QED BY <1>2, <1>3

(* The connected ports of a connection leave the signature map; what its   *)
(* thread will remove afterwards is about its own ports.                   *)
LEMMA DetachingTables ==
  ASSUME TablesInv, Grounds, NEW c \in Conns, DetachAllNodes(c)
  PROVE  TablesInv'
<1> DEFINE own == {n \in Nodes : Conn[n] = c}
           provNodes == {n \in own : provState[n] = "CONNECTED"}
           reqNodes == {n \in own : reqState[n] = "CONNECTED"}
           gone == (UNION {PPortsOf(n) : n \in provNodes}) \cup (UNION {RPortsOf(n) : n \in reqNodes})
           chg == Record(PairsWithout(gone), -1)
           clear == {n \in provNodes : \E ch \in chg : ch[1] \in PPortsOf(n)}
           changed == {n \in reqNodes : \E ch \in chg : ch[2] \in RPortsOf(n)}
           todo == UNION {Handled(n, chg, -1) : n \in changed}
<1>1. /\ pc[c] = "detach" /\ globalLock = None
      /\ attached' = attached \ gone
      /\ provState' = [n \in Nodes |-> IF n \in provNodes \ clear THEN "DISCONNECTED" ELSE provState[n]]
      /\ reqState' = [n \in Nodes |-> IF n \in reqNodes \ changed THEN "DISCONNECTED" ELSE reqState[n]]
      /\ pc' = [pc EXCEPT ![c] = "clearing"]
      /\ job' = [job EXCEPT ![c] = [NoJob EXCEPT !.clear = clear, !.todo = todo]]
      /\ UNCHANGED <<connectors, freed>>
  BY Zenon DEF DetachAllNodes, Goto, GotoWith, lifeVars
<1>2. DOMAIN job = Conns /\ pc \in [Conns -> PC] /\ freed \subseteq Conns
  BY DEF Grounds, LocksInv, ControlTypes, TypesInv, TypeOK
<1>3. \A x \in Conns : pc[x] \notin ConnectingRequire \cup ConnectingProvide
  BY <1>1, LockIsFree
<1>4. \A n \in clear : n \in Nodes /\ Conn[n] = c /\ PPortsOf(n) # {}
  OBVIOUS
<1>5. \A pr \in todo : pr[2] \in RPort /\ Requirer(pr[2]) = c
  <2>1. \A n \in changed : n \in Nodes /\ Conn[n] = c
    OBVIOUS
  <2> HIDE DEF changed, chg
  <2>2. ASSUME NEW n \in changed, NEW pr \in Handled(n, chg, -1)
        PROVE  pr[2] \in RPort /\ Requirer(pr[2]) = c
    <3>1. pr[2] \in RPortsOf(n)
      BY <2>2 DEF Handled, Reached
    <3> QED BY <2>1, <3>1, OneNode DEF Requirer
  <2> QED BY <2>2
<1>6. \A p \in PPort : p \in gone <=> provState[ProvideNode(p)] = "CONNECTED" /\ Provider(p) = c
  BY OneNode, TopologyAssumption DEF Provider
<1>7. \A r \in RPort : r \in gone => Requirer(r) = c
  BY OneNode, TopologyAssumption DEF Requirer
<1>8. \A n \in Nodes :
         /\ provState'[n] = "CONNECTED" => provState[n] = "CONNECTED"
         /\ reqState'[n] = "CONNECTED" => reqState[n] = "CONNECTED"
         /\ Conn[n] # c /\ provState[n] = "CONNECTED" => provState'[n] = "CONNECTED"
  BY <1>1
<1> HIDE DEF clear, todo, changed, chg, gone, provNodes, reqNodes, own
<1>9. /\ pc'[c] = "clearing" /\ job'[c].clear = clear /\ job'[c].todo = todo
      /\ \A x \in Conns \ {c} : pc'[x] = pc[x] /\ job'[x] = job[x]
  BY <1>1, <1>2 DEF NoJob
<1>10. OwnNodes(c)' /\ RequireInHand(c)' /\ ProvideInHand(c)'
  BY <1>4, <1>5, <1>9 DEF OwnNodes, RequireInHand, ProvideInHand, AtWork, ConnectingRequire, ConnectingProvide
<1>11. Jobs'
  BY <1>1, <1>3, <1>9, <1>10, OtherJobs
<1>12. \A x \in Conns : Gone(x)' <=> Gone(x) \/ x = c
  BY <1>1, <1>9 DEF Gone
<1>13. ~Gone(c)
  BY <1>1 DEF Gone
<1>14. ProvidersListed'
  <2> SUFFICES ASSUME NEW p \in PPort
               PROVE  p \in attached' <=> provState'[ProvideNode(p)] = "CONNECTED" /\ ~Gone(Provider(p))'
    BY DEF ProvidersListed
  <2>1. ProvideNode(p) \in Nodes /\ Provider(p) \in Conns
    BY OneNode
  <2>2. p \in attached <=> provState[ProvideNode(p)] = "CONNECTED" /\ ~Gone(Provider(p))
    BY DEF TablesInv, ProvidersListed
  <2>3. CASE Provider(p) = c
    BY <1>1, <1>6, <1>12, <1>13, <2>2, <2>3
  <2>4. CASE Provider(p) # c
    <3>1. Conn[ProvideNode(p)] # c
      BY <2>4 DEF Provider
    <3>2. provState'[ProvideNode(p)] = "CONNECTED" <=> provState[ProvideNode(p)] = "CONNECTED"
      BY <1>8, <2>1, <3>1
    <3>3. p \notin gone
      BY <1>6, <2>4
    <3>4. Gone(Provider(p))' <=> Gone(Provider(p))
      BY <1>12, <2>1, <2>4
    <3> QED BY <1>1, <2>2, <3>2, <3>3, <3>4
  <2> QED BY <2>3, <2>4
<1>15. RequirersListed'
  BY <1>1, <1>7, <1>8, <1>12, OneNode DEF TablesInv, RequirersListed
<1>16. \A pr : Linked(pr) => Linked(pr)'
  BY <1>1, <1>3, <1>9 DEF Linked
<1>17. AllLinked'
  <2> SUFFICES ASSUME NEW pr \in Match,
                      provState'[ProvideNode(pr[1])] = "CONNECTED", ~Gone(Provider(pr[1])),
                      reqState'[RequireNode(pr[2])] = "CONNECTED", ~Gone(Requirer(pr[2]))
               PROVE  Linked(pr)'
    BY <1>12, OneNode, MatchesArePairs DEF AllLinked
  <2>1. ProvideNode(pr[1]) \in Nodes /\ RequireNode(pr[2]) \in Nodes
    BY OneNode, MatchesArePairs
  <2>2. provState[ProvideNode(pr[1])] = "CONNECTED" /\ reqState[RequireNode(pr[2])] = "CONNECTED"
    BY <1>8, <2>1
  <2>3. Linked(pr)
    BY <2>2 DEF TablesInv, AllLinked
  <2> QED BY <1>16, <2>3
<1>18. FreedAreDone'
  BY <1>1, <1>2, <1>9 DEF TablesInv, FreedAreDone
<1> QED BY <1>11, <1>14, <1>15, <1>17, <1>18 DEF TablesInv

(* What a thread that has detached its nodes takes out of the connector    *)
(* tables is of ports that are no longer connected.                        *)
LEMMA ClearingTables ==
  ASSUME TablesInv, Grounds, NEW c \in Conns,
         ClearConnectorTable(c) \/ RemoveConnector(c) \/ Detached(c)
  PROVE  TablesInv'
<1>1. /\ DOMAIN job = Conns /\ DOMAIN job[c] = JobFields /\ pc \in [Conns -> PC]
      /\ connectors \in [PPort -> SUBSET RPort] /\ OwnNodes(c)
      /\ provState \in [Nodes -> DataState] /\ reqState \in [Nodes -> DataState]
      /\ freed \subseteq Conns /\ job[c].todo \subseteq Pairs
  BY DEF Grounds, LocksInv, ControlTypes, TypesInv, TypeOK, JobTyped, TablesInv, Jobs
<1>2. pc[c] = "clearing"
  BY DEF ClearConnectorTable, RemoveConnector, Detached
<1>3. Gone(c)
  BY <1>2 DEF Gone
(* What these three steps have in common.                                  *)
<1>4. ASSUME UNCHANGED <<attached, freed>>,
             \A x \in Conns \ {c} : pc'[x] = pc[x] /\ job'[x] = job[x],
             Gone(c)', OwnNodes(c)',
             \A pr \in Match :
               pr[2] \in connectors[pr[1]] /\ ~Gone(Provider(pr[1])) /\ Requirer(pr[2]) # c
               => pr[2] \in connectors'[pr[1]],
             \A n \in Nodes : Conn[n] # c => provState'[n] = provState[n] /\ reqState'[n] = reqState[n]
      PROVE  TablesInv'
  <2>1. \A x \in Conns : Gone(x)' <=> Gone(x)
    BY <1>3, <1>4 DEF Gone
  <2>2. ProvidersListed' /\ RequirersListed'
    BY <1>3, <1>4, <2>1, OneNode DEF TablesInv, ProvidersListed, RequirersListed, Provider, Requirer
  <2>3. RequireInHand(c)' /\ ProvideInHand(c)'
    BY <1>4 DEF RequireInHand, ProvideInHand, Gone, ConnectingRequire, ConnectingProvide
  <2>4. \A pr \in Match :
          /\ pr[1] \in attached /\ pr[2] \in connectors[pr[1]]
          /\ Requirer(pr[2]) # c \/ pc[c] # "clearing"
          => pr[2] \in connectors'[pr[1]]
    BY <1>2, <1>4, MatchesArePairs DEF TablesInv, ProvidersListed
  <2>5. Jobs'
    BY <1>4, <2>3, <2>4, OtherJobs
  <2>6. AllLinked'
    <3> SUFFICES ASSUME NEW pr \in Match,
                        provState'[ProvideNode(pr[1])] = "CONNECTED", ~Gone(Provider(pr[1])),
                        reqState'[RequireNode(pr[2])] = "CONNECTED", ~Gone(Requirer(pr[2]))
                 PROVE  Linked(pr)'
      BY <2>1, OneNode, MatchesArePairs DEF AllLinked
    <3>1. Provider(pr[1]) # c /\ Requirer(pr[2]) # c
      BY <1>3
    <3>2. Linked(pr)
      BY <1>4, <3>1, OneNode, MatchesArePairs DEF TablesInv, AllLinked, Provider, Requirer
    <3> QED BY <1>2, <1>4, <3>1, <3>2 DEF Linked, ConnectingProvide
  <2>7. FreedAreDone'
    BY <1>1, <1>2, <1>4 DEF TablesInv, FreedAreDone
  <2> QED BY <2>2, <2>5, <2>6, <2>7 DEF TablesInv
<1>5. CASE ClearConnectorTable(c)
  <2>1. PICK n \in job[c].clear :
          /\ connectors' = [connectors EXCEPT ![Provides[n][1]] = {}]
          /\ provState' = [provState EXCEPT ![n] = "DISCONNECTED"]
          /\ job' = [job EXCEPT ![c].clear = @ \ {n}]
    BY <1>5 DEF ClearConnectorTable
  <2>2. UNCHANGED <<attached, freed, reqState, pc>>
    BY <1>5 DEF ClearConnectorTable, lifeVars
  <2>3. n \in Nodes /\ Conn[n] = c /\ PPortsOf(n) # {}
    BY <1>1, <1>2 DEF OwnNodes
  <2>4. Provides[n][1] \in PPortsOf(n)
    <3>1. Provides[n] \in Seq(PPort)
      BY <2>3, TopologyAssumption
    <3> QED BY <2>3, <3>1 DEF PPortsOf, Range
  <2>5. Gone(Provider(Provides[n][1]))
    BY <1>3, <2>3, <2>4, OneNode DEF Provider
  <2>6. OwnNodes(c)' /\ Gone(c)'
    BY <1>1, <1>2, <2>1, <2>2 DEF OwnNodes, Gone, AtWork, JobFields
  <2>7. \A pr \in Match : pr[2] \in connectors[pr[1]] /\ ~Gone(Provider(pr[1]))
                          => pr[2] \in connectors'[pr[1]]
    BY <1>1, <2>1, <2>5, MatchesArePairs
  <2>8. \A m \in Nodes : Conn[m] # c => provState'[m] = provState[m] /\ reqState'[m] = reqState[m]
    BY <1>1, <2>1, <2>2, <2>3
  <2> QED BY <1>4, <2>1, <2>2, <2>6, <2>7, <2>8
<1>6. CASE RemoveConnector(c)
  <2>1. PICK pr \in job[c].todo :
          /\ connectors' = [connectors EXCEPT ![pr[1]] = @ \ {pr[2]}]
          /\ job' = [job EXCEPT ![c].todo = @ \ {pr}]
    BY <1>6 DEF RemoveConnector
  <2>2. UNCHANGED <<attached, freed, provState, reqState, pc>>
    BY <1>6 DEF RemoveConnector, lifeVars, stateVars
  <2>3. OwnNodes(c)' /\ Gone(c)'
    BY <1>1, <1>2, <2>1, <2>2 DEF OwnNodes, Gone, AtWork, JobFields
  <2>4. \A q \in Match : q[2] \in connectors[q[1]] /\ Requirer(q[2]) # c
                         => q[2] \in connectors'[q[1]]
    BY <1>1, <1>2, <2>1, MatchesArePairs DEF OwnNodes
  <2> QED BY <1>4, <2>1, <2>2, <2>3, <2>4
<1>7. CASE Detached(c)
  <2>1. /\ pc' = [pc EXCEPT ![c] = "done"] /\ job' = [job EXCEPT ![c] = NoJob]
        /\ reqState' = [n \in Nodes |-> IF Conn[n] = c /\ reqState[n] = "CONNECTED"
                                        THEN "DISCONNECTED" ELSE reqState[n]]
        /\ UNCHANGED <<attached, connectors, freed, provState>>
    BY <1>7 DEF Detached, Goto, GotoWith, tableVars, lifeVars
  <2>2. pc'[c] = "done"
    BY <1>1, <2>1
  <2>3. OwnNodes(c)' /\ Gone(c)'
    BY <2>2 DEF OwnNodes, Gone, AtWork
  <2> QED BY <1>1, <1>4, <2>1, <2>2, <2>3
<1> QED BY <1>5, <1>6, <1>7

(* The workers and the cleanup thread.  What is released was detached.     *)
LEMMA TablesOtherThreads ==
  ASSUME TablesInv, (\E c \in Conns : Transmit(c)) \/ Cleanup \/ Terminated \/ UNCHANGED vars
  PROVE  TablesInv'
<1>1. UNCHANGED <<attached, connectors, provState, reqState, pc, job>>
  BY DEF Transmit, Cleanup, CleanupBegin, CleanupEnd, Terminated, vars, tableVars, stateVars
<1>2. \A c \in freed' : pc[c] = "done"
  BY DEF TablesInv, FreedAreDone, Transmit, Cleanup, CleanupBegin, CleanupEnd, Terminated, vars, lifeVars
<1> QED BY <1>1, <1>2 DEF TablesInv, Jobs, OwnNodes, RequireInHand, ProvideInHand, ProvidersListed,
           RequirersListed, AllLinked, Linked, FreedAreDone, Gone

LEMMA TablesStep == TablesInv /\ Grounds /\ [Next]_vars => TablesInv'
<1> SUFFICES ASSUME TablesInv, Grounds, [Next]_vars PROVE TablesInv'
  OBVIOUS
<1>1. ASSUME NEW c \in Conns, Request(c) PROVE TablesInv'
  BY <1>1, OpeningTables, QuietSteps DEF Request
<1>2. ASSUME NEW c \in Conns, Continue(c) PROVE TablesInv'
  BY <1>2, QuietSteps, ConnectingTables, ProvidingTables, DetachingTables, ClearingTables DEF Continue
<1> QED BY <1>1, <1>2, TablesOtherThreads, Zenon DEF Next

LEMMA GroundsInvariant == Spec => []Grounds
<1>1. Init => LocksInv /\ TypesInv
  BY LocksInit, TypesInit
<1>2. LocksInv /\ TypesInv /\ [Next]_vars => LocksInv' /\ TypesInv'
  BY LocksStep, TypesStep
<1> QED BY <1>1, <1>2, PTL DEF Spec, Grounds

(* The routing tables, the connectors and what threads are about to do with *)
(* them agree in every reachable state.                                     *)
THEOREM TablesInvariant == Spec => []TablesInv
  BY GroundsInvariant, TablesInit, TablesStep, PTL DEF Spec

----------------------------------------------------------------------------
(* No connection is lost, in whichever order and however interleaved the   *)
(* nodes arrive and the others leave: when nobody holds the global lock,   *)
(* every connected pair of ports has its connector.                        *)
THEOREM NoConnectorIsLost == Spec => []NoLostConnector
<1>1. ASSUME TablesInv, Grounds PROVE NoLostConnector
  <2>1. ASSUME globalLock = None, NEW pr \in Match,
               provState[ProvideNode(pr[1])] = "CONNECTED", reqState[RequireNode(pr[2])] = "CONNECTED",
               Attending(Conn[ProvideNode(pr[1])]), Attending(Conn[RequireNode(pr[2])])
        PROVE  pr[2] \in connectors[pr[1]]
    <3>1. ~Gone(Provider(pr[1])) /\ ~Gone(Requirer(pr[2]))
      BY <2>1 DEF Attending, Gone, Provider, Requirer
    <3>2. Linked(pr)
      BY <1>1, <2>1, <3>1 DEF TablesInv, AllLinked
    <3> QED BY <1>1, <2>1, <3>2, LockIsFree DEF Linked
  <2> QED BY <2>1 DEF NoLostConnector
<1> QED BY <1>1, GroundsInvariant, TablesInvariant, PTL
----------------------------------------------------------------------------
(* What a detached connection leaves behind.  When a require port has two  *)
(* providers to choose from, connecting fails, and the ports of the node   *)
(* stay in the signature map for ever: what follows needs a topology where *)
(* that does not happen.                                                   *)
OneProvider ==
  \A p, q \in PPort : \A r \in RPort : <<p, r>> \in Match /\ <<q, r>> \in Match => p = q

(* The require ports in the signature map belong to a connection that is   *)
(* still there and to a node that is connected, or being connected.        *)
ListedAreThere ==
  \A r \in attached \cap RPort :
    /\ ~Gone(Requirer(r))
    /\ \/ reqState[RequireNode(r)] = "CONNECTED"
       \/ pc[Requirer(r)] \in ConnectingRequire /\ job[Requirer(r)].node = RequireNode(r)

AllOk == \A c \in Conns : pc[c] \in ConnectingRequire => job[c].ok

(* A connector leads to a listed require port, or to one that its thread   *)
(* is about to take out of the connector table.                            *)
ConnectorsLive ==
  \A p \in PPort : ~Gone(Provider(p)) =>
    \A r \in connectors[p] :
      /\ <<p, r>> \in Match /\ p \in attached
      /\ \/ r \in attached
         \/ pc[Requirer(r)] = "clearing" /\ <<p, r>> \in job[Requirer(r)].todo

(* What is still to be routed is in the connector table, which is locked.  *)
RouteFollows(c) ==
  /\ pc[c] \in {"route", "send"} =>
       \A pr \in job[c].todo : pr[1] \in PPortsOf(job[c].node) /\ pr[2] \in connectors[pr[1]]
  /\ pc[c] = "send" => /\ job[c].pair[1] \in PPortsOf(job[c].node)
                       /\ job[c].pair[2] \in connectors[job[c].pair[1]]
RoutesFollow == \A c \in Conns : RouteFollows(c)

LiveInv == ListedAreThere /\ AllOk /\ ConnectorsLive /\ RoutesFollow

(* With one provider each, no require port ends the loop.                  *)
LEMMA AllReached ==
  ASSUME OneProvider, NEW n \in Nodes, NEW chg, NEW sign,
         \A p \in PPort, r \in RPort : <<p, r, sign>> \in chg => <<p, r>> \in Match
  PROVE  Reached(n, chg, sign) = RPortsOf(n)
<1>1. ASSUME NEW r \in RPort PROVE Cardinality(Providers(chg, r, sign)) <= 1
  <2>1. CASE Providers(chg, r, sign) = {}
    BY <2>1, FS_EmptySet
  <2>2. ASSUME NEW p \in Providers(chg, r, sign) PROVE Cardinality(Providers(chg, r, sign)) <= 1
    <3>1. Providers(chg, r, sign) = {p}
      BY <2>2 DEF Providers, OneProvider
    <3>2. Cardinality({p}) = 1
      BY FS_Singleton
    <3> QED BY <3>1, <3>2
  <2> QED BY <2>1, <2>2
<1>2. /\ Requires[n] \in Seq(RPort)
      /\ RPortsOf(n) = {Requires[n][i] : i \in DOMAIN Requires[n]}
  BY TopologyAssumption DEF RPortsOf, Range
<1>3. \A i \in DOMAIN Requires[n] : \A k \in 1..i : Requires[n][k] \in RPort
  BY <1>2
<1> QED BY <1>1, <1>2, <1>3 DEF Reached

LEMMA LiveInit == Init => LiveInv
<1> SUFFICES ASSUME Init PROVE LiveInv
  OBVIOUS
<1>1. \A c \in Conns : pc[c] = "idle"
  BY DEF Init
<1>2. attached = {} /\ \A p \in PPort : connectors[p] = {}
  BY DEF Init
<1> QED BY <1>1, <1>2 DEF LiveInv, ListedAreThere, AllOk, ConnectorsLive, RoutesFollow, RouteFollows,
           ConnectingRequire

(* A step of a thread that touches no table.                               *)
LEMMA LiveAlone ==
  ASSUME LiveInv, NEW c \in Conns,
         UNCHANGED <<attached, connectors, reqState>>,
         \A x \in Conns \ {c} : pc'[x] = pc[x] /\ job'[x] = job[x],
         ~Gone(c), ~Gone(c)', RouteFollows(c)',
         pc[c] \in ConnectingRequire <=> pc'[c] \in ConnectingRequire,
         pc[c] \in ConnectingRequire => job'[c].node = job[c].node /\ job'[c].ok = job[c].ok
  PROVE  LiveInv'
<1>1. ListedAreThere'
  BY OneNode DEF LiveInv, ListedAreThere, Gone
<1>2. AllOk'
  BY DEF LiveInv, AllOk
<1>3. ConnectorsLive'
  <2>1. ASSUME NEW p \in PPort, ~Gone(Provider(p))', NEW r \in connectors[p]
        PROVE  /\ <<p, r>> \in Match /\ p \in attached
               /\ \/ r \in attached
                  \/ pc'[Requirer(r)] = "clearing" /\ <<p, r>> \in job'[Requirer(r)].todo
    <3>1. ~Gone(Provider(p))
      BY <2>1, OneNode DEF Gone
    <3>2. <<p, r>> \in Match /\ Requirer(r) \in Conns
      BY <2>1, <3>1, OneNode DEF LiveInv, ConnectorsLive, Match
    <3> QED BY <2>1, <3>1, <3>2 DEF LiveInv, ConnectorsLive, Gone
  <2> QED BY <2>1 DEF ConnectorsLive
<1>4. RoutesFollow'
  BY DEF LiveInv, RoutesFollow, RouteFollows
<1> QED BY <1>1, <1>2, <1>3, <1>4 DEF LiveInv

LEMMA QuietStepsLive ==
  ASSUME LiveInv, TablesInv, Grounds, NEW c \in Conns,
         \/ ReadProvideData(c) \/ WriteRequireData(c) \/ SendSnapshot(c) \/ ConnectRequireFails(c)
         \/ \E n \in Nodes : FirstProvideWrite(c, n)
         \/ \E p \in PPort : ProvideWrite(c, p)
         \/ ProvideConnected(c) \/ LockForRouting(c) \/ RoutingDone(c)
         \/ ForwardToNode(c) \/ ForwardToClient(c) \/ DetachConnection(c)
  PROVE  LiveInv'
<1> USE DEF Goto, GotoWith, Gone, RouteFollows, ConnectingRequire,
            tableVars, stateVars, lifeVars, dataVars, lockVars, JobFields, NoJob
<1>1. /\ DOMAIN job = Conns /\ DOMAIN job[c] = JobFields /\ pc \in [Conns -> PC]
      /\ OwnNodes(c) /\ RouteFollows(c)
  BY DEF Grounds, LocksInv, ControlTypes, TablesInv, Jobs, LiveInv, RoutesFollow
<1>2. CASE ReadProvideData(c)
  BY <1>1, <1>2, LiveAlone DEF ReadProvideData
<1>3. CASE WriteRequireData(c)
  BY <1>1, <1>3, LiveAlone DEF WriteRequireData
<1>4. CASE SendSnapshot(c)
  BY <1>1, <1>4, LiveAlone DEF SendSnapshot
<1>5. CASE ConnectRequireFails(c)
  BY <1>5 DEF ConnectRequireFails, LiveInv, AllOk
<1>6. ASSUME NEW n \in Nodes, FirstProvideWrite(c, n) PROVE LiveInv'
  BY <1>1, <1>6, LiveAlone DEF FirstProvideWrite
<1>7. ASSUME NEW p \in PPort, ProvideWrite(c, p) PROVE LiveInv'
  BY <1>1, <1>7, LiveAlone DEF ProvideWrite
<1>8. CASE ProvideConnected(c)
  BY <1>1, <1>8, LiveAlone DEF ProvideConnected
<1>9. CASE LockForRouting(c)
  <2> DEFINE p == job[c].pair[1]
  <2>1. /\ pc[c] = "routeLock" /\ pc' = [pc EXCEPT ![c] = "route"]
        /\ job' = [job EXCEPT ![c] = [job[c] EXCEPT !.todo = {p} \X connectors[p]]]
        /\ UNCHANGED <<attached, connectors, reqState>>
    BY <1>9 DEF LockForRouting
  <2>2. p \in PPortsOf(job[c].node)
    BY <1>1, <2>1 DEF OwnNodes
  <2>3. RouteFollows(c)'
    <3>1. pc'[c] = "route" /\ job'[c].node = job[c].node /\ job'[c].todo = {p} \X connectors[p]
      BY <1>1, <2>1
    <3> QED BY <2>1, <2>2, <3>1
  <2> QED BY <1>1, <2>1, <2>3, LiveAlone
<1>10. CASE RoutingDone(c)
  BY <1>1, <1>10, LiveAlone DEF RoutingDone
<1>11. CASE ForwardToNode(c)
  <2>1. UNCHANGED <<attached, connectors, reqState>>
    BY <1>11 DEF ForwardToNode
  <2>2. CASE pc[c] = "forwardFirst" /\ pc' = [pc EXCEPT ![c] = "sendFirst"] /\ UNCHANGED job
    BY <1>1, <2>1, <2>2, LiveAlone
  <2>3. ASSUME pc[c] = "route", pc' = [pc EXCEPT ![c] = "send"], NEW pr \in job[c].todo,
               job' = [job EXCEPT ![c] = [job[c] EXCEPT !.pair = pr, !.todo = @ \ {pr}]]
        PROVE  LiveInv'
    BY <1>1, <2>1, <2>3, LiveAlone
  <2> QED BY <1>11, <2>2, <2>3, Zenon DEF ForwardToNode
<1>12. CASE ForwardToClient(c)
  BY <1>1, <1>12, LiveAlone DEF ForwardToClient
<1>13. CASE DetachConnection(c)
  BY <1>1, <1>13, LiveAlone DEF DetachConnection
<1> QED BY <1>2, <1>3, <1>4, <1>5, <1>6, <1>7, <1>8, <1>9, <1>10, <1>11, <1>12, <1>13

LEMMA OpeningLive ==
  ASSUME OneProvider, LiveInv, TablesInv, Grounds, NEW c \in Conns, NEW n \in Nodes, OpenRequireFile(c, n)
  PROVE  LiveInv'
<1> DEFINE chg == Record(PairsOfRequirePorts(n), 1)
<1>1. /\ pc[c] = "idle" /\ Conn[n] = c
      /\ attached' = attached \cup RPortsOf(n)
      /\ globalLock = None
      /\ UNCHANGED <<connectors, provState, reqState, freed>>
      /\ pc' = [pc EXCEPT ![c] = "connectRequire"]
      /\ job' = [job EXCEPT ![c] = [NoJob EXCEPT !.node = n, !.todo = Handled(n, chg, 1),
                                                  !.ok = (Reached(n, chg, 1) = RPortsOf(n))]]
  BY Zenon DEF OpenRequireFile, stateVars, lifeVars, Goto, GotoWith
<1>2. DOMAIN job = Conns /\ pc \in [Conns -> PC]
  BY DEF Grounds, LocksInv, ControlTypes
<1>3. /\ \A x \in Conns : pc[x] \notin ConnectingRequire \cup ConnectingProvide
      /\ changes = {}
  BY <1>1, LockIsFree
<1>4. chg = {<<pr[1], pr[2], 1>> : pr \in PairsOfRequirePorts(n)}
  BY <1>3, RecordedFromNothing
<1>5. Reached(n, chg, 1) = RPortsOf(n)
  <2>1. \A p \in PPort, r \in RPort : <<p, r, 1>> \in chg => <<p, r>> \in Match
    BY <1>4, MatchesArePairs DEF PairsOfRequirePorts
  <2> HIDE DEF chg
  <2> QED BY <2>1, AllReached
<1> HIDE DEF chg
<1>6. /\ pc'[c] = "connectRequire" /\ job'[c].node = n /\ job'[c].ok
      /\ \A x \in Conns \ {c} : pc'[x] = pc[x] /\ job'[x] = job[x]
  BY <1>1, <1>2, <1>5 DEF NoJob
<1>7. ListedAreThere'
  <2> SUFFICES ASSUME NEW r \in RPort, r \in attached'
               PROVE  /\ ~Gone(Requirer(r))'
                      /\ \/ reqState[RequireNode(r)] = "CONNECTED"
                         \/ pc'[Requirer(r)] \in ConnectingRequire /\ job'[Requirer(r)].node = RequireNode(r)
    BY <1>1 DEF ListedAreThere
  <2>1. CASE r \in RPortsOf(n)
    <3>1. RequireNode(r) = n /\ Requirer(r) = c
      BY <1>1, <2>1, OneNode DEF Requirer
    <3> QED BY <1>6, <3>1 DEF Gone, ConnectingRequire
  <2>2. CASE r \notin RPortsOf(n)
    <3>1. r \in attached /\ Requirer(r) \in Conns
      BY <1>1, <2>2, OneNode
    <3> QED BY <1>1, <1>6, <3>1 DEF LiveInv, ListedAreThere, Gone, ConnectingRequire
  <2> QED BY <2>1, <2>2
<1>8. AllOk'
  BY <1>3, <1>6 DEF AllOk
<1>9. ConnectorsLive'
  <2>1. \A r \in RPort : pc[Requirer(r)] = "clearing" =>
                pc'[Requirer(r)] = "clearing" /\ job'[Requirer(r)] = job[Requirer(r)]
    BY <1>1, <1>6, OneNode
  <2>2. \A p \in PPort : Gone(Provider(p))' <=> Gone(Provider(p))
    BY <1>1, <1>6, OneNode DEF Gone
  <2>3. \A p, r : <<p, r>> \in Match => r \in RPort
    BY DEF Match
  <2> QED BY <1>1, <2>1, <2>2, <2>3 DEF LiveInv, ConnectorsLive
<1>10. RoutesFollow'
  BY <1>1, <1>6 DEF LiveInv, RoutesFollow, RouteFollows
<1> QED BY <1>7, <1>8, <1>9, <1>10 DEF LiveInv

LEMMA ConnectingLive ==
  ASSUME LiveInv, TablesInv, Grounds, NEW c \in Conns,
         InsertConnector(c) \/ TakeSnapshot(c) \/ ConnectProvidePorts(c) \/ InsertOwnConnector(c)
  PROVE  LiveInv'
<1>1. /\ DOMAIN job = Conns /\ DOMAIN job[c] = JobFields /\ pc \in [Conns -> PC]
      /\ connectors \in [PPort -> SUBSET RPort] /\ reqState \in [Nodes -> DataState]
      /\ attached \subseteq PPort \cup RPort
      /\ OwnNodes(c) /\ RequireInHand(c) /\ ProvideInHand(c)
  BY DEF Grounds, LocksInv, ControlTypes, TypesInv, TypeOK, TablesInv, Jobs
(* What inserting a connector has in common on both sides.                 *)
<1>2. ASSUME NEW pr \in Match, pr[1] \in attached, pr[2] \in attached,
             connectors' = [connectors EXCEPT ![pr[1]] = @ \cup {pr[2]}],
             UNCHANGED <<attached, reqState>>,
             ~Gone(c), ~Gone(c)', pc'[c] \notin {"route", "send"},
             \A x \in Conns \ {c} : pc'[x] = pc[x] /\ job'[x] = job[x],
             pc[c] \in ConnectingRequire <=> pc'[c] \in ConnectingRequire,
             job'[c].node = job[c].node /\ job'[c].ok = job[c].ok
      PROVE  LiveInv'
  <2>1. \A p \in PPort : \/ connectors'[p] = connectors[p]
                         \/ p = pr[1] /\ connectors'[p] = connectors[p] \cup {pr[2]}
    BY <1>1, <1>2, MatchesArePairs
  <2>2. ListedAreThere'
    BY <1>2, OneNode DEF LiveInv, ListedAreThere, Gone
  <2>3. AllOk'
    BY <1>2 DEF LiveInv, AllOk
  <2>4. ConnectorsLive'
    <3>1. ASSUME NEW p \in PPort, ~Gone(Provider(p))', NEW r \in connectors[p]
          PROVE  /\ <<p, r>> \in Match /\ p \in attached
                 /\ \/ r \in attached
                    \/ pc'[Requirer(r)] = "clearing" /\ <<p, r>> \in job'[Requirer(r)].todo
      <4>1. ~Gone(Provider(p))
        BY <1>2, <3>1, OneNode DEF Gone
      <4>2. <<p, r>> \in Match /\ Requirer(r) \in Conns
        BY <3>1, <4>1, OneNode DEF LiveInv, ConnectorsLive, Match
      <4> QED BY <1>2, <3>1, <4>1, <4>2 DEF LiveInv, ConnectorsLive, Gone
    <3> QED BY <1>2, <2>1, <3>1, MatchesArePairs DEF ConnectorsLive
  <2>5. RoutesFollow'
    <3>1. ASSUME NEW x \in Conns, pc'[x] \in {"route", "send"} PROVE RouteFollows(x)'
      <4>1. x # c /\ pc'[x] = pc[x] /\ job'[x] = job[x] /\ RouteFollows(x)
        BY <1>2, <3>1 DEF LiveInv, RoutesFollow
      <4>2. job[x].node \in Nodes
        BY <3>1, <4>1 DEF TablesInv, Jobs, OwnNodes, AtWork
      <4>3. \A p \in PPortsOf(job[x].node) : connectors[p] \subseteq connectors'[p]
        BY <2>1, <4>2, OneNode
      <4> QED BY <4>1, <4>3 DEF RouteFollows
    <3> QED BY <3>1 DEF RoutesFollow, RouteFollows
  <2> QED BY <2>2, <2>3, <2>4, <2>5 DEF LiveInv
<1>3. CASE InsertConnector(c)
  <2>1. PICK pr \in FirstOf(job[c].todo, Requires[job[c].node], 2) :
          /\ connectors' = [connectors EXCEPT ![pr[1]] = @ \cup {pr[2]}]
          /\ job' = [job EXCEPT ![c] = [job[c] EXCEPT !.pair = pr, !.todo = @ \ {pr}]]
    BY <1>3 DEF InsertConnector, GotoWith
  <2>2. /\ pc[c] = "connectRequire" /\ pc' = [pc EXCEPT ![c] = "readProvide"]
        /\ UNCHANGED <<attached, reqState>>
    BY <1>3 DEF InsertConnector, Goto, GotoWith, stateVars
  <2>3. pr \in Match /\ pr[1] \in attached /\ pr[2] \in attached
    BY <1>1, <2>1, <2>2, FirstOfIsSubset DEF RequireInHand, ConnectingRequire
  <2>4. /\ job'[c].node = job[c].node /\ job'[c].ok = job[c].ok
        /\ \A x \in Conns \ {c} : pc'[x] = pc[x] /\ job'[x] = job[x]
        /\ pc'[c] = "readProvide"
    BY <1>1, <2>1, <2>2 DEF JobFields
  <2> QED BY <1>2, <2>1, <2>2, <2>3, <2>4 DEF Gone, ConnectingRequire
<1>4. CASE InsertOwnConnector(c)
  <2>1. PICK pr \in FirstOf(job[c].todo, Provides[job[c].node], 1) :
          /\ connectors' = [connectors EXCEPT ![pr[1]] = @ \cup {pr[2]}]
          /\ job' = [job EXCEPT ![c] = [job[c] EXCEPT !.pair = pr, !.todo = @ \ {pr},
                                                      !.value = provData[pr[1]]]]
    BY <1>4 DEF InsertOwnConnector, GotoWith
  <2>2. /\ pc[c] = "connectProvide" /\ pc' = [pc EXCEPT ![c] = "forwardFirst"]
        /\ UNCHANGED <<attached, reqState>>
    BY <1>4 DEF InsertOwnConnector, Goto, GotoWith, stateVars
  <2>3. pr \in Match /\ pr[1] \in attached /\ pr[2] \in attached
    BY <1>1, <2>1, <2>2, FirstOfIsSubset DEF ProvideInHand, ConnectingProvide
  <2>4. /\ job'[c].node = job[c].node /\ job'[c].ok = job[c].ok
        /\ \A x \in Conns \ {c} : pc'[x] = pc[x] /\ job'[x] = job[x]
        /\ pc'[c] = "forwardFirst"
    BY <1>1, <2>1, <2>2 DEF JobFields
  <2> QED BY <1>2, <2>1, <2>2, <2>3, <2>4 DEF Gone, ConnectingRequire
<1>5. CASE TakeSnapshot(c)
  <2> DEFINE n == job[c].node
  <2>1. /\ pc[c] = "connectRequire"
        /\ reqState' = [reqState EXCEPT ![n] = "CONNECTED"]
        /\ pc' = [pc EXCEPT ![c] = "sendSnapshot"]
        /\ UNCHANGED <<attached, connectors>>
    BY <1>5 DEF TakeSnapshot, Goto, GotoWith
  <2>2. /\ pc'[c] = "sendSnapshot"
        /\ \A x \in Conns \ {c} : pc'[x] = pc[x] /\ job'[x] = job[x]
    BY <1>1, <1>5 DEF TakeSnapshot, Goto, GotoWith
  <2>3. n \in Nodes /\ Conn[n] = c
    BY <1>1, <2>1 DEF OwnNodes, AtWork
  <2> HIDE DEF n
  <2>4. ListedAreThere'
    <3> SUFFICES ASSUME NEW r \in RPort, r \in attached
                 PROVE  /\ ~Gone(Requirer(r))'
                        /\ \/ reqState'[RequireNode(r)] = "CONNECTED"
                           \/ pc'[Requirer(r)] \in ConnectingRequire /\ job'[Requirer(r)].node = RequireNode(r)
      BY <2>1 DEF ListedAreThere
    <3>1. /\ RequireNode(r) \in Nodes /\ Requirer(r) \in Conns
          /\ ~Gone(Requirer(r))
          /\ \/ reqState[RequireNode(r)] = "CONNECTED"
             \/ pc[Requirer(r)] \in ConnectingRequire /\ job[Requirer(r)].node = RequireNode(r)
      BY OneNode DEF LiveInv, ListedAreThere
    <3>2. ~Gone(Requirer(r))'
      BY <2>2, <3>1 DEF Gone
    <3>3. CASE Requirer(r) = c
      BY <1>1, <2>1, <3>1, <3>2, <3>3 DEF n
    <3>4. CASE Requirer(r) # c
      BY <1>1, <2>1, <2>2, <3>1, <3>2, <3>4
    <3> QED BY <3>3, <3>4
  <2>5. AllOk'
    BY <2>2 DEF LiveInv, AllOk, ConnectingRequire
  <2>6. ConnectorsLive'
    <3>1. \A r \in RPort : pc[Requirer(r)] = "clearing" =>
                  pc'[Requirer(r)] = "clearing" /\ job'[Requirer(r)] = job[Requirer(r)]
      BY <2>1, <2>2, OneNode
    <3>2. \A p \in PPort : Gone(Provider(p))' <=> Gone(Provider(p))
      BY <2>1, <2>2, OneNode DEF Gone
    <3>3. \A p, r : <<p, r>> \in Match => r \in RPort
      BY DEF Match
    <3> QED BY <2>1, <3>1, <3>2, <3>3 DEF LiveInv, ConnectorsLive
  <2>7. RoutesFollow'
    BY <2>1, <2>2 DEF LiveInv, RoutesFollow, RouteFollows
  <2> QED BY <2>4, <2>5, <2>6, <2>7 DEF LiveInv
<1>6. CASE ConnectProvidePorts(c)
  <2>1. /\ pc[c] = "connectNode"
        /\ attached' = attached \cup PPortsOf(job[c].node)
        /\ UNCHANGED <<connectors, reqState>>
    BY <1>6, Zenon DEF ConnectProvidePorts
  <2>2. /\ pc'[c] = "connectProvide"
        /\ \A x \in Conns \ {c} : pc'[x] = pc[x] /\ job'[x] = job[x]
    BY <1>1, <1>6 DEF ConnectProvidePorts, Goto, GotoWith
  <2>3. \A r \in RPort : r \in attached' <=> r \in attached
    BY <1>1, <2>1, OneNode, TopologyAssumption DEF OwnNodes, AtWork
  <2>4. ListedAreThere'
    BY <2>1, <2>2, <2>3, OneNode DEF LiveInv, ListedAreThere, Gone, ConnectingRequire
  <2>5. AllOk'
    BY <2>2 DEF LiveInv, AllOk, ConnectingRequire
  <2>6. ConnectorsLive'
    <3>1. \A r \in RPort : pc[Requirer(r)] = "clearing" =>
                  pc'[Requirer(r)] = "clearing" /\ job'[Requirer(r)] = job[Requirer(r)]
      BY <2>1, <2>2, OneNode
    <3>2. \A p \in PPort : Gone(Provider(p))' <=> Gone(Provider(p))
      BY <2>1, <2>2, OneNode DEF Gone
    <3>3. \A p, r : <<p, r>> \in Match => r \in RPort
      BY DEF Match
    <3> QED BY <2>1, <3>1, <3>2, <3>3 DEF LiveInv, ConnectorsLive
  <2>7. RoutesFollow'
    BY <2>1, <2>2 DEF LiveInv, RoutesFollow, RouteFollows
  <2> QED BY <2>4, <2>5, <2>6, <2>7 DEF LiveInv
<1> QED BY <1>3, <1>4, <1>5, <1>6

(* All ports of the connection leave the map, and each connector that      *)
(* leads to one of them from a port that stays is put on the list.         *)
LEMMA DetachingLive ==
  ASSUME OneProvider, LiveInv, TablesInv, Grounds, NEW c \in Conns, DetachAllNodes(c)
  PROVE  LiveInv'
<1> DEFINE own == {n \in Nodes : Conn[n] = c}
           provNodes == {n \in own : provState[n] = "CONNECTED"}
           reqNodes == {n \in own : reqState[n] = "CONNECTED"}
           gone == (UNION {PPortsOf(n) : n \in provNodes}) \cup (UNION {RPortsOf(n) : n \in reqNodes})
           chg == Record(PairsWithout(gone), -1)
           clear == {n \in provNodes : \E ch \in chg : ch[1] \in PPortsOf(n)}
           changed == {n \in reqNodes : \E ch \in chg : ch[2] \in RPortsOf(n)}
           todo == UNION {Handled(n, chg, -1) : n \in changed}
<1>1. /\ pc[c] = "detach" /\ globalLock = None
      /\ attached' = attached \ gone
      /\ reqState' = [n \in Nodes |-> IF n \in reqNodes \ changed THEN "DISCONNECTED" ELSE reqState[n]]
      /\ pc' = [pc EXCEPT ![c] = "clearing"]
      /\ job' = [job EXCEPT ![c] = [NoJob EXCEPT !.clear = clear, !.todo = todo]]
      /\ UNCHANGED connectors
  BY Zenon DEF DetachAllNodes, Goto, GotoWith, lifeVars
<1>2. DOMAIN job = Conns /\ pc \in [Conns -> PC]
  BY DEF Grounds, LocksInv, ControlTypes
<1>3. changes = {}
  BY <1>1, LockIsFree
<1>4. chg = {<<pr[1], pr[2], -1>> : pr \in PairsWithout(gone)}
  BY <1>3, RecordedFromNothing
<1>5. \A p \in PPort : p \in gone => Provider(p) = c
  BY OneNode, TopologyAssumption DEF Provider
<1>6. \A r \in RPort : r \in gone <=> Requirer(r) = c /\ reqState[RequireNode(r)] = "CONNECTED"
  BY OneNode, TopologyAssumption DEF Requirer
<1>7. \A n \in Nodes : Conn[n] # c => reqState'[n] = reqState[n]
  BY <1>1
<1>8. ASSUME NEW r \in RPort, NEW p \in PPort, <<p, r>> \in Match,
             Requirer(r) = c, r \in attached, p \in attached
      PROVE  <<p, r>> \in todo
  <2>1. reqState[RequireNode(r)] = "CONNECTED"
    BY <1>1, <1>8 DEF LiveInv, ListedAreThere, ConnectingRequire
  <2>2. r \in gone
    BY <1>6, <1>8, <2>1
  <2>3. <<p, r, -1>> \in chg
    BY <1>4, <1>8, <2>2 DEF PairsWithout
  <2>4. RequireNode(r) \in changed
    BY <1>8, <2>1, <2>3, OneNode DEF Requirer
  <2>5. \A q \in PPort, x \in RPort : <<q, x, -1>> \in chg => <<q, x>> \in Match
    BY <1>4, MatchesArePairs DEF PairsWithout
  <2> HIDE DEF chg, changed
  <2>6. Reached(RequireNode(r), chg, -1) = RPortsOf(RequireNode(r))
    BY <1>8, <2>5, AllReached, OneNode
  <2>7. <<p, r>> \in Handled(RequireNode(r), chg, -1)
    BY <1>8, <2>3, <2>6, OneNode DEF Handled
  <2> QED BY <2>4, <2>7
<1> HIDE DEF clear, todo, changed, chg, gone, provNodes, reqNodes, own
<1>9. /\ pc'[c] = "clearing" /\ job'[c].todo = todo
      /\ \A x \in Conns \ {c} : pc'[x] = pc[x] /\ job'[x] = job[x]
  BY <1>1, <1>2 DEF NoJob
<1>10. ListedAreThere'
  <2> SUFFICES ASSUME NEW r \in RPort, r \in attached'
               PROVE  /\ ~Gone(Requirer(r))'
                      /\ \/ reqState'[RequireNode(r)] = "CONNECTED"
                         \/ pc'[Requirer(r)] \in ConnectingRequire /\ job'[Requirer(r)].node = RequireNode(r)
    BY DEF ListedAreThere
  <2>1. /\ r \in attached /\ r \notin gone
        /\ RequireNode(r) \in Nodes /\ Requirer(r) \in Conns
    BY <1>1, OneNode
  <2>2. /\ ~Gone(Requirer(r))
        /\ \/ reqState[RequireNode(r)] = "CONNECTED"
           \/ pc[Requirer(r)] \in ConnectingRequire /\ job[Requirer(r)].node = RequireNode(r)
    BY <2>1 DEF LiveInv, ListedAreThere
  <2>3. Requirer(r) # c
    BY <1>1, <1>6, <2>1, <2>2 DEF ConnectingRequire
  <2>4. Conn[RequireNode(r)] # c
    BY <2>3 DEF Requirer
  <2> QED BY <1>7, <1>9, <2>1, <2>2, <2>3, <2>4 DEF Gone
<1>11. AllOk'
  BY <1>9 DEF LiveInv, AllOk, ConnectingRequire
<1>12. ConnectorsLive'
  <2> SUFFICES ASSUME NEW p \in PPort, ~Gone(Provider(p))', NEW r \in connectors[p]
               PROVE  /\ <<p, r>> \in Match /\ p \in attached'
                      /\ \/ r \in attached'
                         \/ pc'[Requirer(r)] = "clearing" /\ <<p, r>> \in job'[Requirer(r)].todo
    BY <1>1 DEF ConnectorsLive
  <2>1. Provider(p) # c /\ ~Gone(Provider(p))
    BY <1>9, OneNode DEF Gone
  <2>2. /\ <<p, r>> \in Match /\ p \in attached
        /\ \/ r \in attached
           \/ pc[Requirer(r)] = "clearing" /\ <<p, r>> \in job[Requirer(r)].todo
    BY <2>1 DEF LiveInv, ConnectorsLive
  <2>3. p \in attached' /\ r \in RPort /\ Requirer(r) \in Conns
    BY <1>1, <1>5, <2>1, <2>2, OneNode DEF Match
  <2>4. CASE Requirer(r) = c
    BY <1>1, <1>8, <1>9, <2>2, <2>3, <2>4
  <2>5. CASE Requirer(r) # c
    BY <1>1, <1>6, <1>9, <2>2, <2>3, <2>5
  <2> QED BY <2>2, <2>3, <2>4, <2>5
<1>13. RoutesFollow'
  BY <1>1, <1>9 DEF LiveInv, RoutesFollow, RouteFollows
<1> QED BY <1>10, <1>11, <1>12, <1>13 DEF LiveInv

(* What is taken out of a connector table: the tables of the connection    *)
(* itself are no longer used, the others are used under the node's lock.   *)
LEMMA ClearingLive ==
  ASSUME LiveInv, TablesInv, Grounds, NEW c \in Conns,
         ClearConnectorTable(c) \/ RemoveConnector(c) \/ Detached(c)
  PROVE  LiveInv'
<1>1. /\ DOMAIN job = Conns /\ DOMAIN job[c] = JobFields /\ pc \in [Conns -> PC]
      /\ connectors \in [PPort -> SUBSET RPort] /\ OwnNodes(c)
      /\ reqState \in [Nodes -> DataState] /\ job[c].todo \subseteq Pairs
  BY DEF Grounds, LocksInv, ControlTypes, TypesInv, TypeOK, JobTyped, TablesInv, Jobs
<1>2. pc[c] = "clearing" /\ Gone(c)
  BY DEF ClearConnectorTable, RemoveConnector, Detached, Gone
<1>3. \A r \in RPort : r \in attached => Requirer(r) # c
  BY <1>2 DEF LiveInv, ListedAreThere
(* What these three steps have in common.                                  *)
<1>4. ASSUME UNCHANGED attached,
             \A x \in Conns \ {c} : pc'[x] = pc[x] /\ job'[x] = job[x],
             Gone(c)',
             \A n \in Nodes : Conn[n] # c => reqState'[n] = reqState[n],
             \A p \in PPort : connectors'[p] \subseteq connectors[p],
             \A p \in PPort, r \in RPort :
               <<p, r>> \in job[c].todo /\ r \in connectors'[p] /\ ~Gone(Provider(p))
               => pc'[c] = "clearing" /\ <<p, r>> \in job'[c].todo,
             \A x \in Conns : pc[x] \in {"route", "send"} =>
               \A p \in PPortsOf(job[x].node) : connectors'[p] = connectors[p]
      PROVE  LiveInv'
  <2>1. \A x \in Conns : Gone(x)' <=> Gone(x)
    BY <1>2, <1>4 DEF Gone
  <2>2. ListedAreThere'
    <3> SUFFICES ASSUME NEW r \in RPort, r \in attached
                 PROVE  /\ ~Gone(Requirer(r))'
                        /\ \/ reqState'[RequireNode(r)] = "CONNECTED"
                           \/ pc'[Requirer(r)] \in ConnectingRequire /\ job'[Requirer(r)].node = RequireNode(r)
      BY <1>4 DEF ListedAreThere
    <3>1. /\ RequireNode(r) \in Nodes /\ Requirer(r) \in Conns
          /\ Requirer(r) # c /\ Conn[RequireNode(r)] # c
      BY <1>3, OneNode DEF Requirer
    <3> QED BY <1>4, <2>1, <3>1 DEF LiveInv, ListedAreThere
  <2>3. AllOk'
    BY <1>4 DEF LiveInv, AllOk, Gone, ConnectingRequire
  <2>4. ConnectorsLive'
    <3> SUFFICES ASSUME NEW p \in PPort, ~Gone(Provider(p))', NEW r \in connectors'[p]
                 PROVE  /\ <<p, r>> \in Match /\ p \in attached
                        /\ \/ r \in attached
                           \/ pc'[Requirer(r)] = "clearing" /\ <<p, r>> \in job'[Requirer(r)].todo
      BY <1>4 DEF ConnectorsLive
    <3>1. ~Gone(Provider(p)) /\ r \in connectors[p]
      BY <1>4, <2>1, OneNode
    <3>2. /\ <<p, r>> \in Match /\ p \in attached
          /\ \/ r \in attached
             \/ pc[Requirer(r)] = "clearing" /\ <<p, r>> \in job[Requirer(r)].todo
      BY <3>1 DEF LiveInv, ConnectorsLive
    <3>3. r \in RPort /\ Requirer(r) \in Conns
      BY <3>2, OneNode DEF Match
    <3>4. CASE Requirer(r) = c
      BY <1>4, <3>1, <3>2, <3>3, <3>4
    <3>5. CASE Requirer(r) # c
      BY <1>4, <3>2, <3>3, <3>5
    <3> QED BY <3>4, <3>5
  <2>5. RoutesFollow'
    <3>1. ASSUME NEW x \in Conns, pc'[x] \in {"route", "send"} PROVE RouteFollows(x)'
      <4>1. x # c /\ pc'[x] = pc[x] /\ job'[x] = job[x] /\ RouteFollows(x)
        BY <1>4, <3>1 DEF LiveInv, RoutesFollow, Gone
      <4>2. \A p \in PPortsOf(job[x].node) : connectors'[p] = connectors[p]
        BY <1>4, <3>1, <4>1
      <4> QED BY <4>1, <4>2 DEF RouteFollows
    <3> QED BY <3>1 DEF RoutesFollow, RouteFollows
  <2> QED BY <2>2, <2>3, <2>4, <2>5 DEF LiveInv
<1>5. \A x \in Conns : pc[x] \in {"route", "send"} =>
        /\ x # c /\ job[x].node \in Nodes /\ Conn[job[x].node] = x
        /\ nodeLock[job[x].node] = x /\ x # None
  BY <1>2, TopologyAssumption DEF TablesInv, Jobs, OwnNodes, AtWork, Grounds, LocksInv, LocksHeld, UnderNodeLock
<1>6. CASE ClearConnectorTable(c)
  <2>1. PICK n \in job[c].clear :
          /\ connectors' = [connectors EXCEPT ![Provides[n][1]] = {}]
          /\ job' = [job EXCEPT ![c].clear = @ \ {n}]
    BY <1>6 DEF ClearConnectorTable
  <2>2. UNCHANGED <<attached, reqState, pc>>
    BY <1>6 DEF ClearConnectorTable
  <2>3. n \in Nodes /\ Conn[n] = c /\ PPortsOf(n) # {}
    BY <1>1, <1>2 DEF OwnNodes
  <2>4. Provides[n][1] \in PPortsOf(n)
    <3>1. Provides[n] \in Seq(PPort)
      BY <2>3, TopologyAssumption
    <3> QED BY <2>3, <3>1 DEF PPortsOf, Range
  <2>5. job'[c].todo = job[c].todo /\ \A x \in Conns \ {c} : job'[x] = job[x]
    BY <1>1, <2>1 DEF JobFields
  <2>6. ASSUME NEW x \in Conns, pc[x] \in {"route", "send"}, NEW p \in PPortsOf(job[x].node)
        PROVE  connectors'[p] = connectors[p]
    <3>1. p \in PPort /\ Provider(p) = x
      BY <1>5, <2>6, OneNode DEF Provider
    <3>2. Provider(Provides[n][1]) = c
      BY <2>3, <2>4, OneNode DEF Provider
    <3> QED BY <1>1, <1>5, <2>1, <2>6, <3>1, <3>2
  <2>7. \A p \in PPort : connectors'[p] \subseteq connectors[p]
    BY <1>1, <2>1
  <2> QED BY <1>2, <1>4, <2>2, <2>5, <2>6, <2>7 DEF Gone
<1>7. CASE RemoveConnector(c)
  <2>1. PICK pr \in job[c].todo :
          /\ nodeLock[ProvideNode(pr[1])] = None
          /\ connectors' = [connectors EXCEPT ![pr[1]] = @ \ {pr[2]}]
          /\ job' = [job EXCEPT ![c].todo = @ \ {pr}]
    BY <1>7 DEF RemoveConnector
  <2>2. UNCHANGED <<attached, reqState, pc>>
    BY <1>7 DEF RemoveConnector, stateVars
  <2>3. job'[c].todo = job[c].todo \ {pr} /\ \A x \in Conns \ {c} : job'[x] = job[x]
    BY <1>1, <2>1 DEF JobFields
  <2>4. ASSUME NEW x \in Conns, pc[x] \in {"route", "send"}, NEW p \in PPortsOf(job[x].node)
        PROVE  connectors'[p] = connectors[p]
    <3>1. p \in PPort /\ nodeLock[ProvideNode(p)] # None
      BY <1>5, <2>4, OneNode
    <3> QED BY <1>1, <2>1, <3>1
  <2>5. ASSUME NEW p \in PPort, NEW r \in RPort, <<p, r>> \in job[c].todo, r \in connectors'[p]
        PROVE  <<p, r>> \in job'[c].todo
    BY <1>1, <2>1, <2>3, <2>5
  <2>6. \A p \in PPort : connectors'[p] \subseteq connectors[p]
    BY <1>1, <2>1
  <2> QED BY <1>2, <1>4, <2>2, <2>3, <2>4, <2>5, <2>6 DEF Gone
<1>8. CASE Detached(c)
  <2>1. /\ job[c].todo = {}
        /\ pc' = [pc EXCEPT ![c] = "done"] /\ job' = [job EXCEPT ![c] = NoJob]
        /\ reqState' = [n \in Nodes |-> IF Conn[n] = c /\ reqState[n] = "CONNECTED"
                                        THEN "DISCONNECTED" ELSE reqState[n]]
        /\ UNCHANGED <<attached, connectors>>
    BY <1>8 DEF Detached, Goto, GotoWith, tableVars
  <2>2. /\ pc'[c] = "done"
        /\ \A x \in Conns \ {c} : pc'[x] = pc[x] /\ job'[x] = job[x]
    BY <1>1, <2>1
  <2>3. \A n \in Nodes : Conn[n] # c => reqState'[n] = reqState[n]
    BY <2>1
  <2> QED BY <1>4, <2>1, <2>2, <2>3 DEF Gone
<1> QED BY <1>6, <1>7, <1>8

LEMMA LiveOtherThreads ==
  ASSUME LiveInv, (\E c \in Conns : Transmit(c)) \/ Cleanup \/ Terminated \/ UNCHANGED vars
  PROVE  LiveInv'
<1>1. UNCHANGED <<attached, connectors, reqState, pc, job>>
  BY DEF Transmit, Cleanup, CleanupBegin, CleanupEnd, Terminated, vars, tableVars, stateVars
<1> QED BY <1>1 DEF LiveInv, ListedAreThere, AllOk, ConnectorsLive, RoutesFollow, RouteFollows, Gone

LEMMA LiveStep == OneProvider /\ LiveInv /\ TablesInv /\ Grounds /\ [Next]_vars => LiveInv'
<1> SUFFICES ASSUME OneProvider, LiveInv, TablesInv, Grounds, [Next]_vars PROVE LiveInv'
  OBVIOUS
<1>1. ASSUME NEW c \in Conns, Request(c) PROVE LiveInv'
  BY <1>1, OpeningLive, QuietStepsLive DEF Request
<1>2. ASSUME NEW c \in Conns, Continue(c) PROVE LiveInv'
  BY <1>2, QuietStepsLive, ConnectingLive, DetachingLive, ClearingLive DEF Continue
<1> QED BY <1>1, <1>2, LiveOtherThreads, Zenon DEF Next

(* With one provider for each port, no reference to a connection that was   *)
(* freed is left, in every reachable state.                                 *)
THEOREM LiveInvariant == OneProvider => (Spec => []LiveInv)
<1> SUFFICES ASSUME OneProvider PROVE Spec => []LiveInv
  OBVIOUS
<1>1. LiveInv /\ TablesInv /\ Grounds /\ [Next]_vars => LiveInv'
  BY LiveStep
<1> QED BY <1>1, LiveInit, GroundsInvariant, TablesInvariant, PTL DEF Spec

----------------------------------------------------------------------------
(* A connection whose thread has detached its nodes is mentioned nowhere   *)
(* that another thread could find it: neither in the signature map nor in  *)
(* the connector table of a provide port that is still written.            *)
THEOREM NothingIsLeftBehind == OneProvider => (Spec => []NoDanglingPort)
<1>1. ASSUME LiveInv, TablesInv, Grounds PROVE NoDanglingPort
  <2> SUFFICES ASSUME NEW c \in Conns, pc[c] = "done"
               PROVE  /\ \A x \in attached : c # Conn[IF x \in PPort THEN ProvideNode(x) ELSE RequireNode(x)]
                      /\ \A p \in PPort : Attending(Conn[ProvideNode(p)]) =>
                           \A r \in connectors[p] : Conn[RequireNode(r)] # c
    BY DEF NoDanglingPort
  <2>1. Gone(c)
    BY DEF Gone
  <2>2. \A p \in PPort : p \in attached => Provider(p) # c
    BY <1>1, <2>1 DEF TablesInv, ProvidersListed
  <2>3. \A r \in RPort : r \in attached => Requirer(r) # c
    BY <1>1, <2>1 DEF LiveInv, ListedAreThere
  <2>4. attached \subseteq PPort \cup RPort
    BY <1>1 DEF Grounds, TypesInv, TypeOK
  <2>5. \A x \in attached : c # Conn[IF x \in PPort THEN ProvideNode(x) ELSE RequireNode(x)]
    BY <2>2, <2>3, <2>4 DEF Provider, Requirer
  <2>6. ASSUME NEW p \in PPort, Attending(Conn[ProvideNode(p)]), NEW r \in connectors[p]
        PROVE  Conn[RequireNode(r)] # c
    <3>1. ~Gone(Provider(p))
      BY <2>6 DEF Attending, Gone, Provider
    <3>2. r \in attached \/ pc[Requirer(r)] = "clearing"
      BY <1>1, <3>1 DEF LiveInv, ConnectorsLive
    <3>3. r \in RPort
      BY <1>1, <3>1 DEF LiveInv, ConnectorsLive, Match
    <3>4. Requirer(r) # c
      BY <2>3, <3>2, <3>3
    <3> QED BY <3>4 DEF Requirer
  <2> QED BY <2>5, <2>6
<1> QED BY <1>1, LiveInvariant, TablesInvariant, GroundsInvariant, PTL

(* While it connects or routes, no thread touches a node that the cleanup  *)
(* thread has released: what it finds in the signature map is protected by *)
(* the global lock, what it finds in a connector table by the node's lock. *)
THEOREM RoutedNodesAreAlive == OneProvider => (Spec => []RoutedNodesAlive)
<1>1. ASSUME LiveInv, TablesInv, Grounds PROVE RoutedNodesAlive
  <2> SUFFICES ASSUME NEW c \in Conns, pc[c] # "clearing", NEW n \in Touches(c)
               PROVE  Conn[n] \notin freed
    BY DEF RoutedNodesAlive
  <2>1. \A x \in freed : pc[x] = "done"
    BY <1>1 DEF TablesInv, FreedAreDone
  <2>2. \A p \in PPort : p \in attached => Conn[ProvideNode(p)] \notin freed
    BY <1>1, <2>1 DEF TablesInv, ProvidersListed, Gone, Provider
  <2>3. \A r \in RPort : r \in attached => Conn[RequireNode(r)] \notin freed
    BY <1>1, <2>1 DEF LiveInv, ListedAreThere, Gone, Requirer
  <2>4. OwnNodes(c) /\ RequireInHand(c) /\ ProvideInHand(c) /\ RouteFollows(c) /\ JobTyped(c)
    BY <1>1 DEF TablesInv, Jobs, LiveInv, RoutesFollow, Grounds, TypesInv
  <2>5. CASE pc[c] = "readProvide"
    BY <2>2, <2>4, <2>5 DEF Touches, RequireInHand, ConnectingRequire, JobTyped, Pairs
  <2>6. CASE pc[c] \in {"forwardFirst", "sendFirst"}
    BY <2>3, <2>4, <2>6 DEF Touches, ProvideInHand, ConnectingProvide, JobTyped, Pairs
  <2>7. CASE pc[c] \in {"route", "send"}
    <3>1. PICK p \in PPortsOf(job[c].node) : \E r \in connectors[p] : n = RequireNode(r)
      BY <2>4, <2>7 DEF Touches, RouteFollows
    <3>2. PICK r \in connectors[p] : n = RequireNode(r)
      BY <3>1
    <3>3. p \in PPort /\ ~Gone(Provider(p))
      BY <2>4, <2>7, OneNode DEF OwnNodes, AtWork, Provider, Gone
    <3>4. r \in attached \/ pc[Requirer(r)] = "clearing"
      BY <1>1, <3>2, <3>3 DEF LiveInv, ConnectorsLive
    <3>5. r \in RPort
      BY <1>1, <3>2, <3>3 DEF LiveInv, ConnectorsLive, Match
    <3> QED BY <2>1, <2>3, <3>2, <3>4, <3>5 DEF Requirer
  <2>8. CASE pc[c] = "connectRequire"
    BY <2>2, <2>4, <2>8, MatchesArePairs DEF Touches, RequireInHand, ConnectingRequire
  <2>9. CASE pc[c] \notin {"readProvide", "forwardFirst", "sendFirst", "route", "send", "connectRequire"}
    BY <2>9 DEF Touches
  <2> QED BY <2>5, <2>6, <2>7, <2>8, <2>9
<1> QED BY <1>1, LiveInvariant, TablesInvariant, GroundsInvariant, PTL

----------------------------------------------------------------------------
(* What providers write is on its way to those who require it.             *)

(* A provide port of a connected node, of those that are not written while *)
(* a require file is being opened; and a require port of a connected node. *)
Feeds(p) ==
  p \notin Overlap /\ provState[ProvideNode(p)] = "CONNECTED" /\ Attending(Provider(p))
Fed(r) == reqState[RequireNode(r)] = "CONNECTED" /\ Attending(Requirer(r))

(* The messages for a client are about the ports of its own nodes.         *)
OwnQueue(c) ==
  \A i \in DOMAIN queue[c] : \A r \in RPort : r \in DOMAIN queue[c][i].data => Requirer(r) = c

(* The value a thread has in hand is the newest one.                       *)
InHand(c) ==
  /\ pc[c] \in {"readProvide", "writeRequire", "forwardFirst", "sendFirst", "send"} =>
       job[c].pair \in Match
  /\ pc[c] = "writeRequire" /\ Feeds(job[c].pair[1]) => job[c].value = provData[job[c].pair[1]]
  /\ pc[c] \in {"forwardFirst", "sendFirst", "routeLock", "route", "send"} =>
       /\ job[c].pair[1] \in PPortsOf(job[c].node)
       /\ job[c].value = provData[job[c].pair[1]]
  /\ pc[c] \in {"route", "send"} =>
       \A pr \in job[c].todo : pr \in Match /\ pr[1] = job[c].pair[1]

(* While the require ports of a node are connected, what their providers   *)
(* have written is copied, or still to be copied ...                       *)
Copying(c) ==
  pc[c] \in ConnectingRequire =>
    \A pr \in Match : pr[2] \in RPortsOf(job[c].node) /\ Feeds(pr[1]) =>
      \/ pr \in job[c].todo
      \/ pc[c] \in {"readProvide", "writeRequire"} /\ job[c].pair = pr
      \/ reqData[pr[2]] = provData[pr[1]]

(* ... and stays so until the snapshot of it is sent.                      *)
Copied(c) ==
  pc[c] = "sendSnapshot" =>
    /\ DOMAIN job[c].value.data = RPortsOf(job[c].node)
    /\ \A pr \in Match : pr[2] \in RPortsOf(job[c].node) /\ Feeds(pr[1]) =>
         job[c].value.data[pr[2]] = provData[pr[1]]

(* The provider's thread has yet to forward the value of a pair.           *)
Pending(c, pr) ==
  \/ pc[c] \in ConnectingProvide \cup {"route", "send"} /\ pr \in job[c].todo
  \/ pc[c] = "forwardFirst" /\ job[c].pair = pr
  \/ pc[c] = "routeLock" /\ job[c].pair[1] = pr[1]

(* The value seen by a client that has received the messages of q.         *)
Ends(q, r, seen, value) ==
  \/ seen = value /\ \A i \in DOMAIN q : r \notin DOMAIN q[i].data
  \/ \E i \in DOMAIN q :
       /\ r \in DOMAIN q[i].data /\ q[i].data[r] = value
       /\ \A j \in DOMAIN q : j > i => r \notin DOMAIN q[j].data

(* It is about to be queued, or in the snapshot to come, or on its way.    *)
Sent(pr) ==
  \/ pc[Provider(pr[1])] \in {"sendFirst", "send"} /\ job[Provider(pr[1])].pair = pr
  \/ pc[Requirer(pr[2])] = "sendSnapshot" /\ job[Requirer(pr[2])].node = RequireNode(pr[2])
  \/ Ends(queue[Requirer(pr[2])], pr[2], view[pr[2]], provData[pr[1]])

OnItsWay(pr) ==
  Feeds(pr[1]) /\ Fed(pr[2]) =>
    \/ Pending(Provider(pr[1]), pr)
    \/ reqData[pr[2]] = provData[pr[1]] /\ Sent(pr)

Threads(c) == OwnQueue(c) /\ InHand(c) /\ Copying(c) /\ Copied(c)

FlowInv == (\A c \in Conns : Threads(c)) /\ (\A pr \in Match : OnItsWay(pr))

(* What is known already.                                                  *)
Known == Grounds /\ TablesInv /\ LiveInv

----------------------------------------------------------------------------
LEMMA EndsTail ==
  ASSUME NEW q \in Seq(Message), q # <<>>, NEW r, NEW seen, NEW value, Ends(q, r, seen, value)
  PROVE  Ends(Tail(q), r, IF r \in DOMAIN Head(q).data THEN Head(q).data[r] ELSE seen, value)
<1>1. /\ Len(q) \in Nat /\ Len(q) > 0 /\ DOMAIN q = 1..Len(q) /\ Head(q) = q[1]
      /\ DOMAIN Tail(q) = 1..(Len(q) - 1)
      /\ \A i \in 1..(Len(q) - 1) : Tail(q)[i] = q[i + 1]
  BY EmptySeq, HeadTailProperties
<1>2. CASE seen = value /\ \A i \in DOMAIN q : r \notin DOMAIN q[i].data
  BY <1>1, <1>2 DEF Ends
<1>3. ASSUME NEW i \in DOMAIN q, r \in DOMAIN q[i].data, q[i].data[r] = value,
             \A j \in DOMAIN q : j > i => r \notin DOMAIN q[j].data
      PROVE  Ends(Tail(q), r, IF r \in DOMAIN Head(q).data THEN Head(q).data[r] ELSE seen, value)
  <2>1. CASE i = 1
    <3>1. \A j \in DOMAIN Tail(q) : r \notin DOMAIN Tail(q)[j].data
      BY <1>1, <1>3, <2>1
    <3> QED BY <1>1, <1>3, <2>1, <3>1 DEF Ends
  <2>2. CASE i # 1
    <3>1. /\ i - 1 \in DOMAIN Tail(q) /\ Tail(q)[i - 1] = q[i]
          /\ \A j \in DOMAIN Tail(q) : j > i - 1 => r \notin DOMAIN Tail(q)[j].data
      BY <1>1, <1>3, <2>2
    <3> QED BY <1>3, <3>1 DEF Ends
  <2> QED BY <2>1, <2>2
<1> QED BY <1>2, <1>3 DEF Ends

LEMMA EndsAppend ==
  ASSUME NEW q \in Seq(Message), NEW m \in Message, NEW r, NEW seen, NEW value,
         \/ r \in DOMAIN m.data /\ m.data[r] = value
         \/ r \notin DOMAIN m.data /\ Ends(q, r, seen, value)
  PROVE  Ends(Append(q, m), r, seen, value)
<1>1. /\ Len(q) \in Nat /\ DOMAIN q = 1..Len(q) /\ DOMAIN Append(q, m) = 1..(Len(q) + 1)
      /\ \A i \in 1..Len(q) : Append(q, m)[i] = q[i]
      /\ Append(q, m)[Len(q) + 1] = m
  BY AppendProperties
<1>2. CASE r \in DOMAIN m.data /\ m.data[r] = value
  <2>1. Len(q) + 1 \in DOMAIN Append(q, m) /\ \A j \in DOMAIN Append(q, m) : ~(j > Len(q) + 1)
    BY <1>1
  <2> QED BY <1>1, <1>2, <2>1 DEF Ends
<1>3. CASE r \notin DOMAIN m.data /\ seen = value /\ \A i \in DOMAIN q : r \notin DOMAIN q[i].data
  BY <1>1, <1>3 DEF Ends
<1>4. ASSUME r \notin DOMAIN m.data,
             NEW i \in DOMAIN q, r \in DOMAIN q[i].data, q[i].data[r] = value,
             \A j \in DOMAIN q : j > i => r \notin DOMAIN q[j].data
      PROVE  Ends(Append(q, m), r, seen, value)
  <2>1. /\ i \in DOMAIN Append(q, m) /\ Append(q, m)[i] = q[i]
        /\ \A j \in DOMAIN Append(q, m) : j > i => r \notin DOMAIN Append(q, m)[j].data
    BY <1>1, <1>4
  <2> QED BY <1>4, <2>1 DEF Ends
<1> QED BY <1>2, <1>3, <1>4 DEF Ends

LEMMA FlowInit == Init => FlowInv
<1> SUFFICES ASSUME Init PROVE FlowInv
  OBVIOUS
<1>1. \A c \in Conns : pc[c] = "idle" /\ queue[c] = <<>>
  BY DEF Init
<1>2. \A n \in Nodes : provState[n] # "CONNECTED"
  BY DEF Init
<1>3. \A c \in Conns : Threads(c)
  BY <1>1 DEF Threads, OwnQueue, InHand, Copying, Copied, ConnectingRequire
<1> QED BY <1>2, <1>3, OneNode, MatchesArePairs DEF FlowInv, OnItsWay, Feeds

(* A step of one thread keeps what is known of the others, unless it lets  *)
(* a provider begin, or changes what a provider has written, while others  *)
(* are connecting.                                                         *)
LEMMA OtherFlows ==
  ASSUME FlowInv, NEW c \in Conns,
         \A x \in Conns \ {c} : pc'[x] = pc[x] /\ job'[x] = job[x],
         \A p \in PPort : Provider(p) # c => provData'[p] = provData[p],
         \A x \in Conns : pc[x] \in Connecting =>
           \A p \in PPort : Feeds(p)' => Feeds(p) /\ provData'[p] = provData[p],
         \A pr \in Match : \/ reqData'[pr[2]] = reqData[pr[2]]
                           \/ Feeds(pr[1])' => reqData'[pr[2]] = provData'[pr[1]],
         \A x \in Conns : OwnQueue(x)',
         NEW x \in Conns \ {c},
         OwnNodes(x)
  PROVE  Threads(x)'
<1>1. Threads(x) /\ pc'[x] = pc[x] /\ job'[x] = job[x]
  BY DEF FlowInv
<1>2. InHand(x)'
  <2>1. pc[x] \in {"forwardFirst", "sendFirst", "routeLock", "route", "send"} =>
           job[x].pair[1] \in PPort /\ Provider(job[x].pair[1]) = x
    BY <1>1, OneNode DEF Threads, InHand, OwnNodes, AtWork, Provider
  <2>2. pc[x] = "writeRequire" => job[x].pair[1] \in PPort
    BY <1>1, MatchesArePairs DEF Threads, InHand
  <2> QED BY <1>1, <2>1, <2>2 DEF Threads, InHand, Connecting
<1>3. Copying(x)'
  <2> SUFFICES ASSUME pc[x] \in ConnectingRequire, NEW pr \in Match,
                      pr[2] \in RPortsOf(job[x].node), Feeds(pr[1])'
               PROVE  \/ pr \in job[x].todo
                      \/ pc[x] \in {"readProvide", "writeRequire"} /\ job[x].pair = pr
                      \/ reqData'[pr[2]] = provData'[pr[1]]
    BY <1>1 DEF Copying
  <2>1. Feeds(pr[1]) /\ provData'[pr[1]] = provData[pr[1]]
    BY MatchesArePairs DEF ConnectingRequire, Connecting
  <2> QED BY <1>1, <2>1 DEF Threads, Copying
<1>4. Copied(x)'
  <2> SUFFICES ASSUME pc[x] = "sendSnapshot"
               PROVE  /\ DOMAIN job[x].value.data = RPortsOf(job[x].node)
                      /\ \A pr \in Match : pr[2] \in RPortsOf(job[x].node) /\ Feeds(pr[1])' =>
                           job[x].value.data[pr[2]] = provData'[pr[1]]
    BY <1>1 DEF Copied
  <2>1. \A p \in PPort : Feeds(p)' => Feeds(p) /\ provData'[p] = provData[p]
    BY DEF Connecting
  <2> QED BY <1>1, <2>1, MatchesArePairs DEF Threads, Copied
<1> QED BY <1>2, <1>3, <1>4 DEF Threads

(* A step that changes no data, and lets no node begin.                    *)
LEMMA FlowAlone ==
  ASSUME FlowInv, TablesInv, NEW c \in Conns,
         UNCHANGED <<provData, reqData, view, queue>>,
         \A x \in Conns \ {c} : pc'[x] = pc[x] /\ job'[x] = job[x],
         \A n \in Nodes : /\ provState'[n] = "CONNECTED" => provState[n] = "CONNECTED"
                          /\ reqState'[n] = "CONNECTED" => reqState[n] = "CONNECTED",
         Attending(c)' => Attending(c),
         pc[c] \notin {"sendFirst", "send", "sendSnapshot"},
         InHand(c)', Copying(c)', Copied(c)',
         \A pr \in Match :
           Provider(pr[1]) = c /\ Feeds(pr[1]) /\ Fed(pr[2]) /\ Pending(c, pr) => Pending(c, pr)'
  PROVE  FlowInv'
<1>1. \A x \in Conns : Attending(x)' => Attending(x)
  BY DEF Attending
<1>2. /\ \A p \in PPort : Feeds(p)' => Feeds(p)
      /\ \A r \in RPort : Fed(r)' => Fed(r)
  BY <1>1, OneNode DEF Feeds, Fed
<1>3. \A x \in Conns : OwnQueue(x)'
  BY DEF FlowInv, Threads, OwnQueue
<1>4. \A x \in Conns \ {c} : Threads(x)'
  BY <1>2, <1>3, OtherFlows DEF TablesInv, Jobs
<1>5. ASSUME NEW pr \in Match, Feeds(pr[1])', Fed(pr[2])'
      PROVE  \/ Pending(Provider(pr[1]), pr)'
             \/ reqData[pr[2]] = provData[pr[1]] /\ Sent(pr)'
  <2>1. /\ Feeds(pr[1]) /\ Fed(pr[2])
        /\ Provider(pr[1]) \in Conns /\ Requirer(pr[2]) \in Conns
    BY <1>2, <1>5, OneNode, MatchesArePairs
  <2>2. CASE Pending(Provider(pr[1]), pr)
    <3>1. CASE Provider(pr[1]) = c
      BY <2>1, <2>2, <3>1
    <3>2. CASE Provider(pr[1]) # c
      BY <2>1, <2>2, <3>2 DEF Pending
    <3> QED BY <3>1, <3>2
  <2>3. CASE reqData[pr[2]] = provData[pr[1]] /\ Sent(pr)
    BY <2>1, <2>3 DEF Sent
  <2> QED BY <2>1, <2>2, <2>3 DEF FlowInv, OnItsWay
<1> QED BY <1>3, <1>4, <1>5 DEF FlowInv, Threads, OnItsWay

(* Opening a require file, and inserting its connectors.                   *)
LEMMA OpeningFlow ==
  ASSUME OneProvider, FlowInv, Known, NEW c \in Conns, NEW n \in Nodes, OpenRequireFile(c, n)
  PROVE  FlowInv'
<1> DEFINE chg == Record(PairsOfRequirePorts(n), 1)
<1>1. /\ pc[c] = "idle" /\ Conn[n] = c /\ globalLock = None
      /\ UNCHANGED <<provState, reqState, provData, reqData, view, queue>>
      /\ pc' = [pc EXCEPT ![c] = "connectRequire"]
      /\ job' = [job EXCEPT ![c] = [NoJob EXCEPT !.node = n, !.todo = Handled(n, chg, 1),
                                                  !.ok = (Reached(n, chg, 1) = RPortsOf(n))]]
  BY Zenon DEF OpenRequireFile, stateVars, dataVars, Goto, GotoWith
<1>2. DOMAIN job = Conns /\ pc \in [Conns -> PC]
  BY DEF Known, Grounds, LocksInv, ControlTypes
<1>3. changes = {}
  BY <1>1, LockIsFree DEF Known
<1>4. chg = {<<pr[1], pr[2], 1>> : pr \in PairsOfRequirePorts(n)}
  BY <1>3, RecordedFromNothing
<1>5. Reached(n, chg, 1) = RPortsOf(n)
  <2>1. \A p \in PPort, r \in RPort : <<p, r, 1>> \in chg => <<p, r>> \in Match
    BY <1>4, MatchesArePairs DEF PairsOfRequirePorts
  <2> HIDE DEF chg
  <2> QED BY <2>1, AllReached
<1>6. \A pr \in Match : pr[1] \in attached /\ pr[2] \in RPortsOf(n) => pr \in Handled(n, chg, 1)
  BY <1>4, <1>5 DEF Handled, PairsOfRequirePorts
<1> HIDE DEF chg
<1>7. /\ pc'[c] = "connectRequire" /\ job'[c].node = n /\ job'[c].todo = Handled(n, chg, 1)
      /\ \A x \in Conns \ {c} : pc'[x] = pc[x] /\ job'[x] = job[x]
  BY <1>1, <1>2 DEF NoJob
<1>8. Copying(c)'
  <2>1. \A p \in PPort : Feeds(p)' => p \in attached
    <3>1. \A p \in PPort : Attending(Provider(p))' => ~Gone(Provider(p))
      BY <1>1, <1>7, OneNode DEF Attending, Gone
    <3> QED BY <1>1, <3>1 DEF Known, TablesInv, ProvidersListed, Feeds
  <2> QED BY <1>6, <1>7, <2>1, MatchesArePairs DEF Copying
<1>9. InHand(c)' /\ Copied(c)' /\ Attending(c) /\ pc[c] \notin {"sendFirst", "send", "sendSnapshot"}
  BY <1>1, <1>7 DEF InHand, Copied, Attending
<1>10. \A pr \in Match : ~Pending(c, pr)
  BY <1>1 DEF Pending, ConnectingProvide
<1> QED BY <1>1, <1>7, <1>8, <1>9, <1>10, FlowAlone DEF Known

LEMMA QuietFlow ==
  ASSUME OneProvider, FlowInv, Known, NEW c \in Conns,
         \/ InsertConnector(c) \/ ReadProvideData(c) \/ ConnectRequireFails(c)
         \/ LockForRouting(c) \/ RoutingDone(c)
         \/ InsertOwnConnector(c) \/ ProvideConnected(c)
         \/ DetachConnection(c) \/ DetachAllNodes(c)
         \/ ClearConnectorTable(c) \/ RemoveConnector(c) \/ Detached(c)
  PROVE  FlowInv'
<1> USE DEF Goto, GotoWith, tableVars, stateVars, dataVars, lockVars, lifeVars, JobFields
<1>1. /\ DOMAIN job = Conns /\ DOMAIN job[c] = JobFields /\ pc \in [Conns -> PC]
      /\ provState \in [Nodes -> DataState] /\ reqState \in [Nodes -> DataState]
      /\ OwnNodes(c) /\ RequireInHand(c) /\ ProvideInHand(c) /\ RouteFollows(c)
      /\ Threads(c) /\ TablesInv
  BY DEF Known, Grounds, LocksInv, TypesInv, TypeOK, ControlTypes, TablesInv, Jobs,
         LiveInv, RoutesFollow, FlowInv
<1>2. CASE InsertConnector(c)
  <2>1. PICK pr \in job[c].todo :
          /\ pc[c] = "connectRequire" /\ pc' = [pc EXCEPT ![c] = "readProvide"]
          /\ job' = [job EXCEPT ![c] = [job[c] EXCEPT !.pair = pr, !.todo = @ \ {pr}]]
          /\ UNCHANGED <<provState, reqState, provData, reqData, view, queue>>
    BY <1>2, FirstOfIsSubset DEF InsertConnector
  <2>2. /\ pc'[c] = "readProvide" /\ job'[c].node = job[c].node
        /\ job'[c].pair = pr /\ job'[c].todo = job[c].todo \ {pr}
        /\ \A x \in Conns \ {c} : pc'[x] = pc[x] /\ job'[x] = job[x]
    BY <1>1, <2>1
  <2>3. pr \in Match
    BY <1>1, <2>1 DEF RequireInHand, ConnectingRequire
  <2>4. InHand(c)' /\ Copied(c)' /\ (Attending(c)' => Attending(c))
    BY <2>1, <2>2, <2>3 DEF InHand, Copied, Attending
  <2>5. Copying(c)'
    <3>1. \A p \in PPort : Feeds(p)' => Feeds(p)
      BY <2>1, <2>2, OneNode DEF Feeds, Attending
    <3> QED BY <1>1, <2>1, <2>2, <3>1, MatchesArePairs DEF Threads, Copying, ConnectingRequire
  <2>6. \A x \in Match : ~Pending(c, x)
    BY <2>1 DEF Pending, ConnectingProvide
  <2> QED BY <1>1, <2>1, <2>2, <2>4, <2>5, <2>6, FlowAlone
<1>3. CASE ReadProvideData(c)
  <2>1. /\ pc[c] = "readProvide" /\ pc' = [pc EXCEPT ![c] = "writeRequire"]
        /\ job' = [job EXCEPT ![c] = [job[c] EXCEPT !.value = provData[job[c].pair[1]]]]
        /\ UNCHANGED <<provState, reqState, provData, reqData, view, queue>>
    BY <1>3 DEF ReadProvideData
  <2>2. /\ pc'[c] = "writeRequire" /\ job'[c].node = job[c].node
        /\ job'[c].pair = job[c].pair /\ job'[c].todo = job[c].todo
        /\ job'[c].value = provData[job[c].pair[1]]
        /\ \A x \in Conns \ {c} : pc'[x] = pc[x] /\ job'[x] = job[x]
    BY <1>1, <2>1
  <2>3. InHand(c)' /\ Copied(c)' /\ (Attending(c)' => Attending(c))
    BY <1>1, <2>1, <2>2 DEF Threads, InHand, Copied, Attending
  <2>4. Copying(c)'
    <3>1. \A p \in PPort : Feeds(p)' => Feeds(p)
      BY <2>1, <2>2, OneNode DEF Feeds, Attending
    <3> QED BY <1>1, <2>1, <2>2, <3>1, MatchesArePairs DEF Threads, Copying, ConnectingRequire
  <2>5. \A x \in Match : ~Pending(c, x)
    BY <2>1 DEF Pending, ConnectingProvide
  <2> QED BY <1>1, <2>1, <2>2, <2>3, <2>4, <2>5, FlowAlone
<1>4. CASE ConnectRequireFails(c)
  BY <1>4 DEF ConnectRequireFails, Known, LiveInv, AllOk, ConnectingRequire
<1>5. CASE LockForRouting(c)
  <2> DEFINE p == job[c].pair[1]
  <2>1. /\ pc[c] = "routeLock" /\ pc' = [pc EXCEPT ![c] = "route"]
        /\ job' = [job EXCEPT ![c] = [job[c] EXCEPT !.todo = {p} \X connectors[p]]]
        /\ UNCHANGED <<provState, reqState, provData, reqData, view, queue>>
    BY <1>5 DEF LockForRouting
  <2>2. /\ pc'[c] = "route" /\ job'[c].node = job[c].node /\ job'[c].value = job[c].value
        /\ job'[c].pair = job[c].pair /\ job'[c].todo = {p} \X connectors[p]
        /\ \A x \in Conns \ {c} : pc'[x] = pc[x] /\ job'[x] = job[x]
    BY <1>1, <2>1
  <2>3. p \in PPort /\ Provider(p) = c /\ ~Gone(c)
    BY <1>1, <2>1, OneNode DEF OwnNodes, AtWork, Provider, Gone
  <2>4. \A pr \in job'[c].todo : pr \in Match /\ pr[1] = p
    BY <2>2, <2>3 DEF Known, LiveInv, ConnectorsLive
  <2>5. InHand(c)' /\ Copying(c)' /\ Copied(c)' /\ (Attending(c)' => Attending(c))
    BY <1>1, <2>1, <2>2, <2>4 DEF Threads, InHand, Copying, Copied, Attending, ConnectingRequire
  <2>6. ASSUME NEW pr \in Match, Feeds(pr[1]), Fed(pr[2]), Pending(c, pr) PROVE Pending(c, pr)'
    <3>1. pr[1] = p
      BY <2>1, <2>6 DEF Pending, ConnectingProvide
    <3>2. Linked(pr)
      <4>1. ~Gone(Provider(pr[1])) /\ ~Gone(Requirer(pr[2]))
        BY <2>6 DEF Feeds, Fed, Attending, Gone
      <4> QED BY <1>1, <2>6, <4>1 DEF TablesInv, AllLinked, Feeds, Fed
    <3>3. ASSUME NEW x \in Conns, pc[x] \in ConnectingProvide, pr \in job[x].todo PROVE FALSE
      <4>1. pr[1] \in PPortsOf(job[x].node) /\ job[x].node \in Nodes /\ Conn[job[x].node] = x
        BY <1>1, <3>3 DEF TablesInv, Jobs, ProvideInHand, OwnNodes, AtWork, ConnectingProvide
      <4>2. x = c
        BY <2>3, <3>1, <4>1, OneNode DEF Provider
      <4> QED BY <2>1, <3>3, <4>2 DEF ConnectingProvide
    <3>4. pr[2] \in connectors[p]
      BY <3>1, <3>2, <3>3 DEF Linked
    <3> QED BY <2>2, <3>1, <3>4, MatchesArePairs DEF Pending
  <2> QED BY <1>1, <2>1, <2>2, <2>5, <2>6, FlowAlone
<1>6. CASE RoutingDone(c)
  <2>1. /\ pc[c] = "route" /\ job[c].todo = {} /\ pc' = [pc EXCEPT ![c] = "idle"]
        /\ job' = [job EXCEPT ![c] = NoJob]
        /\ UNCHANGED <<provState, reqState, provData, reqData, view, queue>>
    BY <1>6 DEF RoutingDone
  <2>2. \A pr \in Match : ~Pending(c, pr)
    BY <2>1 DEF Pending
  <2>3. InHand(c)' /\ Copying(c)' /\ Copied(c)' /\ (Attending(c)' => Attending(c))
    BY <1>1, <2>1 DEF InHand, Copying, Copied, Attending, ConnectingRequire
  <2> QED BY <1>1, <2>1, <2>2, <2>3, FlowAlone
<1>7. CASE InsertOwnConnector(c)
  <2>1. PICK pr \in job[c].todo :
          /\ pc[c] = "connectProvide" /\ pc' = [pc EXCEPT ![c] = "forwardFirst"]
          /\ job' = [job EXCEPT ![c] = [job[c] EXCEPT !.pair = pr, !.todo = @ \ {pr},
                                                      !.value = provData[pr[1]]]]
          /\ UNCHANGED <<provState, reqState, provData, reqData, view, queue>>
    BY <1>7, FirstOfIsSubset DEF InsertOwnConnector
  <2>2. /\ pc'[c] = "forwardFirst" /\ job'[c].node = job[c].node /\ job'[c].value = provData[pr[1]]
        /\ job'[c].pair = pr /\ job'[c].todo = job[c].todo \ {pr}
        /\ \A x \in Conns \ {c} : pc'[x] = pc[x] /\ job'[x] = job[x]
    BY <1>1, <2>1
  <2>3. pr \in Match /\ pr[1] \in PPortsOf(job[c].node)
    BY <1>1, <2>1 DEF ProvideInHand, ConnectingProvide
  <2>4. InHand(c)' /\ Copying(c)' /\ Copied(c)' /\ (Attending(c)' => Attending(c))
    BY <2>1, <2>2, <2>3 DEF InHand, Copying, Copied, Attending, ConnectingRequire
  <2>5. \A x \in Match : Pending(c, x) => Pending(c, x)'
    BY <2>1, <2>2 DEF Pending, ConnectingProvide
  <2> QED BY <1>1, <2>1, <2>2, <2>4, <2>5, FlowAlone
<1>8. CASE ProvideConnected(c)
  <2>1. /\ pc[c] = "connectProvide" /\ job[c].todo = {} /\ pc' = [pc EXCEPT ![c] = "idle"]
        /\ job' = [job EXCEPT ![c] = NoJob]
        /\ UNCHANGED <<provState, reqState, provData, reqData, view, queue>>
    BY <1>8 DEF ProvideConnected
  <2>2. \A pr \in Match : ~Pending(c, pr)
    BY <2>1 DEF Pending
  <2>3. InHand(c)' /\ Copying(c)' /\ Copied(c)' /\ (Attending(c)' => Attending(c))
    BY <1>1, <2>1 DEF InHand, Copying, Copied, Attending, ConnectingRequire
  <2> QED BY <1>1, <2>1, <2>2, <2>3, FlowAlone
(* Detaching ends what is said of the ports of the connection.             *)
<1>9. ASSUME pc[c] \in {"idle", "detach", "clearing"}, pc'[c] \in {"detach", "clearing", "done"},
             \A x \in Conns \ {c} : pc'[x] = pc[x] /\ job'[x] = job[x],
             UNCHANGED <<provData, reqData, view, queue>>,
             \A n \in Nodes : /\ provState'[n] \in {provState[n], "DISCONNECTED"}
                              /\ reqState'[n] \in {reqState[n], "DISCONNECTED"}
      PROVE  FlowInv'
  <2>1. \A pr \in Match : ~Pending(c, pr)
    BY <1>9 DEF Pending, ConnectingProvide
  <2>2. InHand(c)' /\ Copying(c)' /\ Copied(c)' /\ (Attending(c)' => Attending(c))
    BY <1>9 DEF InHand, Copying, Copied, Attending, ConnectingRequire
  <2> QED BY <1>1, <1>9, <2>1, <2>2, FlowAlone
<1>10. CASE DetachConnection(c)
  BY <1>1, <1>9, <1>10 DEF DetachConnection
<1>11. CASE DetachAllNodes(c)
  BY <1>1, <1>9, <1>11 DEF DetachAllNodes
<1>12. CASE ClearConnectorTable(c)
  BY <1>1, <1>9, <1>12 DEF ClearConnectorTable
<1>13. CASE RemoveConnector(c)
  BY <1>1, <1>9, <1>13 DEF RemoveConnector
<1>14. CASE Detached(c)
  BY <1>1, <1>9, <1>14 DEF Detached
<1> QED BY <1>2, <1>3, <1>4, <1>5, <1>6, <1>7, <1>8, <1>10, <1>11, <1>12, <1>13, <1>14

(* What the steps that move data have in common.                           *)
LEMMA FlowTypes ==
  ASSUME FlowInv, Known, NEW c \in Conns
  PROVE  /\ DOMAIN job = Conns /\ DOMAIN job[c] = JobFields /\ pc \in [Conns -> PC]
         /\ provState \in [Nodes -> DataState] /\ reqState \in [Nodes -> DataState]
         /\ provData \in [PPort -> Version] /\ reqData \in [RPort -> Version]
         /\ queue \in [Conns -> Seq(Message)]
         /\ \A x \in Conns : Threads(x) /\ OwnNodes(x) /\ RequireInHand(x) /\ JobTyped(x)
         /\ TablesInv
  BY DEF Known, Grounds, LocksInv, TypesInv, TypeOK, ControlTypes, TablesInv, Jobs, FlowInv

(* Under OneProvider a require port tells the pair.                        *)
LEMMA SamePair ==
  ASSUME OneProvider, NEW x \in Match, NEW y \in Match, x[2] = y[2] PROVE x = y
  BY MatchesArePairs DEF OneProvider

LEMMA OwnAppend ==
  ASSUME queue \in [Conns -> Seq(Message)], \A x \in Conns : OwnQueue(x),
         NEW c \in Conns, NEW m \in Message, Enqueue(c, m),
         \A r \in RPort : r \in DOMAIN m.data => Requirer(r) = c
  PROVE  /\ \A x \in Conns : OwnQueue(x)'
         /\ queue'[c] = Append(queue[c], m)
         /\ \A x \in Conns \ {c} : queue'[x] = queue[x]
<1>1. queue'[c] = Append(queue[c], m) /\ \A x \in Conns \ {c} : queue'[x] = queue[x]
  BY DEF Enqueue
<1>2. OwnQueue(c)'
  <2>1. /\ Len(queue[c]) \in Nat /\ DOMAIN queue[c] = 1..Len(queue[c])
        /\ DOMAIN Append(queue[c], m) = 1..(Len(queue[c]) + 1)
        /\ \A i \in 1..Len(queue[c]) : Append(queue[c], m)[i] = queue[c][i]
        /\ Append(queue[c], m)[Len(queue[c]) + 1] = m
    BY AppendProperties
  <2>2. OwnQueue(c)
    OBVIOUS
  <2>3. ASSUME NEW i \in 1..(Len(queue[c]) + 1), NEW r \in RPort,
               r \in DOMAIN Append(queue[c], m)[i].data
        PROVE  Requirer(r) = c
    <3>1. CASE i = Len(queue[c]) + 1
      BY <2>1, <2>3, <3>1
    <3>2. CASE i \in 1..Len(queue[c])
      <4>1. r \in DOMAIN queue[c][i].data
        BY <2>1, <2>3, <3>2
      <4> QED BY <2>1, <2>2, <3>2, <4>1 DEF OwnQueue
    <3> QED BY <2>1, <2>3, <3>1, <3>2
  <2> QED BY <1>1, <2>1, <2>3 DEF OwnQueue
<1>3. \A x \in Conns \ {c} : OwnQueue(x)'
  BY <1>1 DEF OwnQueue
<1> QED BY <1>1, <1>2, <1>3

(* The require ports of a node are copied, and a snapshot is sent.         *)
LEMMA CopyingFlow ==
  ASSUME OneProvider, FlowInv, Known, NEW c \in Conns, WriteRequireData(c)
  PROVE  FlowInv'
<1> DEFINE pr == job[c].pair
<1>1. /\ pc[c] = "writeRequire" /\ pc' = [pc EXCEPT ![c] = "connectRequire"]
      /\ reqData' = [reqData EXCEPT ![pr[2]] = job[c].value]
      /\ UNCHANGED <<provState, reqState, provData, view, queue, job>>
  BY DEF WriteRequireData, Goto, tableVars, stateVars
<1>2. /\ pc'[c] = "connectRequire" /\ \A x \in Conns \ {c} : pc'[x] = pc[x] /\ job'[x] = job[x]
      /\ \A p \in PPort : Feeds(p)' => Feeds(p)
      /\ \A r \in RPort : Fed(r)' => Fed(r)
  BY <1>1, FlowTypes, OneNode DEF Feeds, Fed, Attending
<1>3. pr \in Match /\ (Feeds(pr[1]) => job[c].value = provData[pr[1]])
  BY <1>1, FlowTypes DEF Threads, InHand
<1>4. \A x \in Match : \/ reqData'[x[2]] = reqData[x[2]]
                       \/ x = pr /\ (Feeds(x[1]) => reqData'[x[2]] = provData[x[1]])
  BY <1>1, <1>3, FlowTypes, SamePair, MatchesArePairs
<1>5. \A x \in Conns : OwnQueue(x)'
  BY <1>1, FlowTypes DEF Threads, OwnQueue
<1>6. \A x \in Conns \ {c} : Threads(x)'
  BY <1>1, <1>2, <1>4, <1>5, FlowTypes, MatchesArePairs, OtherFlows
<1>7. InHand(c)' /\ Copied(c)'
  BY <1>2 DEF InHand, Copied
<1>8. Copying(c)'
  <2>1. reqData'[pr[2]] = job[c].value
    BY <1>1, <1>3, FlowTypes, MatchesArePairs
  <2> SUFFICES ASSUME NEW x \in Match, x[2] \in RPortsOf(job[c].node), Feeds(x[1])
               PROVE  x \in job[c].todo \/ reqData'[x[2]] = provData[x[1]]
    BY <1>1, <1>2, MatchesArePairs DEF Copying
  <2>2. x \in job[c].todo \/ pr = x \/ reqData[x[2]] = provData[x[1]]
    BY <1>1, FlowTypes DEF Threads, Copying, ConnectingRequire
  <2> QED BY <1>3, <1>4, <2>1, <2>2
<1>9. ASSUME NEW x \in Match, Feeds(x[1])', Fed(x[2])'
      PROVE  \/ Pending(Provider(x[1]), x)'
             \/ reqData'[x[2]] = provData'[x[1]] /\ Sent(x)'
  <2>1. Feeds(x[1]) /\ Fed(x[2]) /\ Provider(x[1]) \in Conns /\ Requirer(x[2]) \in Conns
    BY <1>2, <1>9, OneNode, MatchesArePairs
  <2>2. Pending(Provider(x[1]), x) => Pending(Provider(x[1]), x)'
    BY <1>1, <1>2, <2>1 DEF Pending, ConnectingProvide
  <2>3. Sent(x) => Sent(x)'
    BY <1>1, <1>2, <2>1 DEF Sent
  <2> QED BY <1>1, <1>4, <2>1, <2>2, <2>3 DEF FlowInv, OnItsWay
<1> QED BY <1>5, <1>6, <1>7, <1>8, <1>9 DEF FlowInv, Threads, OnItsWay

LEMMA SnapshotFlow ==
  ASSUME OneProvider, FlowInv, Known, NEW c \in Conns, TakeSnapshot(c)
  PROVE  FlowInv'
<1> DEFINE n == job[c].node
<1>1. /\ pc[c] = "connectRequire" /\ job[c].todo = {}
      /\ pc' = [pc EXCEPT ![c] = "sendSnapshot"]
      /\ reqState' = [reqState EXCEPT ![n] = "CONNECTED"]
      /\ job' = [job EXCEPT ![c] = [job[c] EXCEPT !.value = Data(RPortsOf(n), reqData)]]
      /\ UNCHANGED <<provState, provData, reqData, view, queue>>
  BY DEF TakeSnapshot, Goto, GotoWith, dataVars
<1>2. /\ pc'[c] = "sendSnapshot" /\ \A x \in Conns \ {c} : pc'[x] = pc[x] /\ job'[x] = job[x]
      /\ job'[c].node = n /\ job'[c].value.data = [r \in RPortsOf(n) |-> reqData[r]]
  BY <1>1, FlowTypes DEF JobFields, Data
<1>3. n \in Nodes /\ Conn[n] = c
  BY <1>1, FlowTypes DEF OwnNodes, AtWork
<1>4. /\ \A p \in PPort : Feeds(p)' => Feeds(p)
      /\ \A r \in RPort : Fed(r)' => r \in RPortsOf(n) \/ Fed(r)
  BY <1>1, <1>2, <1>3, FlowTypes, OneNode DEF Feeds, Fed, Attending
<1>5. \A pr \in Match : pr[2] \in RPortsOf(n) /\ Feeds(pr[1]) => reqData[pr[2]] = provData[pr[1]]
  BY <1>1, FlowTypes DEF Threads, Copying, ConnectingRequire
<1>6. \A x \in Conns : OwnQueue(x)'
  BY <1>1, FlowTypes DEF Threads, OwnQueue
<1>7. \A x \in Conns \ {c} : Threads(x)'
  BY <1>1, <1>2, <1>4, <1>6, FlowTypes, OtherFlows
<1>8. InHand(c)' /\ Copying(c)'
  BY <1>2 DEF InHand, Copying, ConnectingRequire
<1>9. Copied(c)'
  BY <1>1, <1>2, <1>4, <1>5, MatchesArePairs DEF Copied
<1>10. ASSUME NEW pr \in Match, Feeds(pr[1])', Fed(pr[2])'
       PROVE  \/ Pending(Provider(pr[1]), pr)'
              \/ reqData'[pr[2]] = provData'[pr[1]] /\ Sent(pr)'
  <2>1. Feeds(pr[1]) /\ Provider(pr[1]) \in Conns /\ Requirer(pr[2]) \in Conns /\ pr[2] \in RPort
    BY <1>4, <1>10, OneNode, MatchesArePairs
  <2>2. CASE pr[2] \in RPortsOf(n)
    <3>1. RequireNode(pr[2]) = n /\ Requirer(pr[2]) = c
      BY <1>3, <2>2, OneNode DEF Requirer
    <3> QED BY <1>1, <1>2, <1>5, <2>1, <2>2, <3>1 DEF Sent
  <2>3. CASE pr[2] \notin RPortsOf(n)
    <3>1. Fed(pr[2])
      BY <1>4, <1>10, <2>1, <2>3
    <3>2. Pending(Provider(pr[1]), pr) => Pending(Provider(pr[1]), pr)'
      BY <1>1, <1>2, <2>1 DEF Pending, ConnectingProvide
    <3>3. Sent(pr) => Sent(pr)'
      BY <1>1, <1>2, <2>1 DEF Sent
    <3> QED BY <1>1, <2>1, <3>1, <3>2, <3>3 DEF FlowInv, OnItsWay
  <2> QED BY <2>2, <2>3
<1> QED BY <1>6, <1>7, <1>8, <1>9, <1>10 DEF FlowInv, Threads, OnItsWay

LEMMA SendingFlow ==
  ASSUME FlowInv, Known, NEW c \in Conns, SendSnapshot(c)
  PROVE  FlowInv'
<1> DEFINE m == job[c].value
<1>1. /\ pc[c] = "sendSnapshot" /\ pc' = [pc EXCEPT ![c] = "idle"]
      /\ job' = [job EXCEPT ![c] = NoJob]
      /\ Enqueue(c, m)
      /\ UNCHANGED <<provState, reqState, provData, reqData, view>>
  BY DEF SendSnapshot, Goto, GotoWith, stateVars, dataVars
<1>2. /\ pc'[c] = "idle" /\ \A x \in Conns \ {c} : pc'[x] = pc[x] /\ job'[x] = job[x]
      /\ \A p \in PPort : Feeds(p)' => Feeds(p)
      /\ \A r \in RPort : Fed(r)' => Fed(r)
  BY <1>1, FlowTypes, OneNode DEF Feeds, Fed, Attending
<1>3. /\ m \in Message /\ DOMAIN m.data = RPortsOf(job[c].node)
      /\ \A pr \in Match : pr[2] \in RPortsOf(job[c].node) /\ Feeds(pr[1]) =>
           m.data[pr[2]] = provData[pr[1]]
  BY <1>1, FlowTypes DEF Threads, Copied, JobTyped
<1>4. \A r \in RPort : r \in DOMAIN m.data => Requirer(r) = c
  BY <1>1, <1>3, FlowTypes, OneNode DEF OwnNodes, AtWork, Requirer
<1>5. /\ \A x \in Conns : OwnQueue(x)'
      /\ queue'[c] = Append(queue[c], m) /\ \A x \in Conns \ {c} : queue'[x] = queue[x]
  BY <1>1, <1>3, <1>4, FlowTypes, OwnAppend DEF Threads
<1>6. \A x \in Conns \ {c} : Threads(x)'
  BY <1>1, <1>2, <1>5, FlowTypes, OtherFlows
<1>7. InHand(c)' /\ Copying(c)' /\ Copied(c)'
  BY <1>2 DEF InHand, Copying, Copied, ConnectingRequire
<1>8. ASSUME NEW pr \in Match, Feeds(pr[1])', Fed(pr[2])'
      PROVE  \/ Pending(Provider(pr[1]), pr)'
             \/ reqData'[pr[2]] = provData'[pr[1]] /\ Sent(pr)'
  <2>1. /\ Feeds(pr[1]) /\ Fed(pr[2]) /\ pr[2] \in RPort
        /\ Provider(pr[1]) \in Conns /\ Requirer(pr[2]) \in Conns
    BY <1>2, <1>8, OneNode, MatchesArePairs
  <2>2. Pending(Provider(pr[1]), pr) => Pending(Provider(pr[1]), pr)'
    BY <1>1, <1>2, <2>1 DEF Pending, ConnectingProvide
  <2>3. ASSUME Sent(pr) PROVE Sent(pr)'
    <3>1. CASE pc[Provider(pr[1])] \in {"sendFirst", "send"} /\ job[Provider(pr[1])].pair = pr
      BY <1>1, <1>2, <2>1, <3>1 DEF Sent
    <3>2. CASE Requirer(pr[2]) = c /\ pr[2] \in DOMAIN m.data
      <4>1. Ends(queue'[c], pr[2], view[pr[2]], provData[pr[1]])
        BY <1>3, <1>5, <2>1, <3>2, FlowTypes, EndsAppend
      <4> QED BY <1>1, <3>2, <4>1 DEF Sent
    <3>3. CASE Requirer(pr[2]) = c /\ pr[2] \notin DOMAIN m.data
               /\ Ends(queue[c], pr[2], view[pr[2]], provData[pr[1]])
      <4>1. Ends(queue'[c], pr[2], view[pr[2]], provData[pr[1]])
        BY <1>3, <1>5, <2>1, <3>3, FlowTypes, EndsAppend
      <4> QED BY <1>1, <3>3, <4>1 DEF Sent
    <3>4. CASE Requirer(pr[2]) # c
      BY <1>1, <1>2, <1>5, <2>1, <2>3, <3>4 DEF Sent
    <3>5. pc[Requirer(pr[2])] = "sendSnapshot" /\ job[Requirer(pr[2])].node = RequireNode(pr[2])
            /\ Requirer(pr[2]) = c => pr[2] \in DOMAIN m.data
      BY <1>3, <2>1, OneNode
    <3> QED BY <2>3, <3>1, <3>2, <3>3, <3>4, <3>5 DEF Sent
  <2> QED BY <1>1, <2>1, <2>2, <2>3 DEF FlowInv, OnItsWay
<1> QED BY <1>5, <1>6, <1>7, <1>8 DEF FlowInv, Threads, OnItsWay

(* A provider begins to write, and its ports are connected.                *)
LEMMA FirstWriteFlow ==
  ASSUME FlowInv, Known, NEW c \in Conns, NEW n \in Nodes, FirstProvideWrite(c, n)
  PROVE  FlowInv'
<1>1. /\ pc[c] = "idle" /\ Conn[n] = c /\ provState[n] = "WAITING_FOR_FILE_DATA"
      /\ pc' = [pc EXCEPT ![c] = "connectNode"]
      /\ job' = [job EXCEPT ![c] = [NoJob EXCEPT !.node = n]]
      /\ provData' = [p \in PPort |-> IF p \in PPortsOf(n) THEN 1 ELSE provData[p]]
      /\ UNCHANGED <<provState, reqState, reqData, view, queue>>
  BY DEF FirstProvideWrite, Goto, GotoWith, stateVars
<1>2. pc'[c] = "connectNode" /\ \A x \in Conns \ {c} : pc'[x] = pc[x] /\ job'[x] = job[x]
  BY <1>1, FlowTypes
<1>3. /\ \A p \in PPort : Feeds(p)' => Feeds(p) /\ provData'[p] = provData[p]
      /\ \A r \in RPort : Fed(r)' => Fed(r)
      /\ \A p \in PPort : Provider(p) # c => provData'[p] = provData[p]
  BY <1>1, <1>2, FlowTypes, OneNode DEF Feeds, Fed, Attending, Provider
<1>4. \A x \in Conns : OwnQueue(x)'
  BY <1>1, FlowTypes DEF Threads, OwnQueue
<1>5. \A x \in Conns \ {c} : Threads(x)'
  BY <1>1, <1>2, <1>3, <1>4, FlowTypes, OtherFlows
<1>6. InHand(c)' /\ Copying(c)' /\ Copied(c)'
  BY <1>2 DEF InHand, Copying, Copied, ConnectingRequire
<1>7. ASSUME NEW pr \in Match, Feeds(pr[1])', Fed(pr[2])'
      PROVE  \/ Pending(Provider(pr[1]), pr)'
             \/ reqData'[pr[2]] = provData'[pr[1]] /\ Sent(pr)'
  <2>1. /\ Feeds(pr[1]) /\ Fed(pr[2]) /\ provData'[pr[1]] = provData[pr[1]]
        /\ Provider(pr[1]) \in Conns /\ Requirer(pr[2]) \in Conns
    BY <1>3, <1>7, OneNode, MatchesArePairs
  <2>2. Pending(Provider(pr[1]), pr) => Pending(Provider(pr[1]), pr)'
    BY <1>1, <1>2, <2>1 DEF Pending, ConnectingProvide
  <2>3. Sent(pr) => Sent(pr)'
    BY <1>1, <1>2, <2>1 DEF Sent
  <2> QED BY <1>1, <2>1, <2>2, <2>3 DEF FlowInv, OnItsWay
<1> QED BY <1>4, <1>5, <1>6, <1>7 DEF FlowInv, Threads, OnItsWay

LEMMA ProvidingFlow ==
  ASSUME FlowInv, Known, NEW c \in Conns, ConnectProvidePorts(c)
  PROVE  FlowInv'
<1> DEFINE n == job[c].node
           chg == Record(PairsOfProvidePorts(n), 1)
           todo == {pr \in Match : <<pr[1], pr[2], 1>> \in chg /\ pr[1] \in PPortsOf(n)}
<1>1. /\ pc[c] = "connectNode" /\ globalLock = None
      /\ pc' = [pc EXCEPT ![c] = "connectProvide"]
      /\ job' = [job EXCEPT ![c] = [job[c] EXCEPT !.todo = todo]]
      /\ provState' = [provState EXCEPT ![n] = "CONNECTED"]
      /\ UNCHANGED <<reqState, provData, reqData, view, queue>>
  BY Zenon DEF ConnectProvidePorts, Goto, GotoWith, dataVars
<1>2. changes = {}
  BY <1>1, LockIsFree DEF Known
<1>3. chg = {<<pr[1], pr[2], 1>> : pr \in PairsOfProvidePorts(n)}
  BY <1>2, RecordedFromNothing
<1>4. \A pr \in Match : pr[1] \in PPortsOf(n) /\ pr[2] \in attached => pr \in todo
  BY <1>3 DEF PairsOfProvidePorts
<1> HIDE DEF todo, chg
<1>5. /\ pc'[c] = "connectProvide" /\ job'[c].todo = todo
      /\ \A x \in Conns \ {c} : pc'[x] = pc[x] /\ job'[x] = job[x]
  BY <1>1, FlowTypes DEF JobFields
<1>6. n \in Nodes /\ Conn[n] = c
  BY <1>1, FlowTypes DEF OwnNodes, AtWork
<1>7. /\ \A p \in PPort : Feeds(p)' => p \in PPortsOf(n) \/ Feeds(p)
      /\ \A r \in RPort : Fed(r)' => Fed(r)
  BY <1>1, <1>5, <1>6, FlowTypes, OneNode DEF Feeds, Fed, Attending
<1>8. \A x \in Conns : pc[x] \notin Connecting
  <2>1. None \notin Conns
    BY TopologyAssumption
  <2> QED BY <1>1, <2>1 DEF Known, Grounds, LocksInv, LocksHeld, UnderGlobalLock
<1>9. \A x \in Conns : OwnQueue(x)'
  BY <1>1, FlowTypes DEF Threads, OwnQueue
<1>10. \A x \in Conns \ {c} : Threads(x)'
  BY <1>1, <1>5, <1>8, <1>9, FlowTypes, OtherFlows
<1>11. InHand(c)' /\ Copying(c)' /\ Copied(c)'
  BY <1>5 DEF InHand, Copying, Copied, ConnectingRequire
<1>12. ASSUME NEW pr \in Match, Feeds(pr[1])', Fed(pr[2])'
       PROVE  \/ Pending(Provider(pr[1]), pr)'
              \/ reqData'[pr[2]] = provData'[pr[1]] /\ Sent(pr)'
  <2>1. /\ Fed(pr[2]) /\ pr[1] \in PPort /\ pr[2] \in RPort
        /\ Provider(pr[1]) \in Conns /\ Requirer(pr[2]) \in Conns
    BY <1>7, <1>12, OneNode, MatchesArePairs
  <2>2. CASE pr[1] \in PPortsOf(n)
    <3>1. pr[2] \in attached
      BY <2>1, FlowTypes DEF Fed, Attending, Gone, TablesInv, RequirersListed
    <3>2. Provider(pr[1]) = c
      BY <1>6, <2>2, OneNode DEF Provider
    <3> QED BY <1>4, <1>5, <2>2, <3>1, <3>2 DEF Pending, ConnectingProvide
  <2>3. CASE pr[1] \notin PPortsOf(n)
    <3>1. Feeds(pr[1])
      BY <1>7, <1>12, <2>1, <2>3
    <3>2. Pending(Provider(pr[1]), pr) => Pending(Provider(pr[1]), pr)'
      BY <1>1, <1>5, <2>1 DEF Pending, ConnectingProvide
    <3>3. Sent(pr) => Sent(pr)'
      BY <1>1, <1>5, <2>1 DEF Sent
    <3> QED BY <1>1, <2>1, <3>1, <3>2, <3>3 DEF FlowInv, OnItsWay
  <2> QED BY <2>2, <2>3
<1> QED BY <1>9, <1>10, <1>11, <1>12 DEF FlowInv, Threads, OnItsWay

(* A later write is pending for all its receivers.                         *)
LEMMA WritingFlow ==
  ASSUME FlowInv, Known, NEW c \in Conns, NEW p \in PPort, ProvideWrite(c, p)
  PROVE  FlowInv'
<1> DEFINE n == ProvideNode(p)
<1>1. /\ pc[c] = "idle" /\ Conn[n] = c /\ MayWrite(p)
      /\ pc' = [pc EXCEPT ![c] = "routeLock"]
      /\ provData' = [provData EXCEPT ![p] = @ + 1]
      /\ job' = [job EXCEPT ![c] = [NoJob EXCEPT !.node = n, !.pair = <<p>>, !.value = provData[p] + 1]]
      /\ UNCHANGED <<provState, reqState, reqData, view, queue>>
  BY DEF ProvideWrite, Goto, GotoWith, stateVars
<1>2. /\ pc'[c] = "routeLock" /\ \A x \in Conns \ {c} : pc'[x] = pc[x] /\ job'[x] = job[x]
      /\ job'[c].node = n /\ job'[c].pair = <<p>> /\ job'[c].value = provData[p] + 1
  BY <1>1, FlowTypes DEF NoJob
<1>3. provData'[p] = provData[p] + 1 /\ \A q \in PPort \ {p} : provData'[q] = provData[q]
  BY <1>1, FlowTypes
<1>4. /\ \A q \in PPort : Feeds(q)' => Feeds(q)
      /\ \A r \in RPort : Fed(r)' => Fed(r)
  BY <1>1, <1>2, OneNode DEF Feeds, Fed, Attending
<1>5. \A q \in PPort : Provider(q) # c => provData'[q] = provData[q]
  BY <1>1, <1>3 DEF Provider
<1>6. \A x \in Conns : pc[x] \in Connecting =>
        \A q \in PPort : Feeds(q)' => Feeds(q) /\ provData'[q] = provData[q]
  BY <1>1, <1>3, <1>4 DEF MayWrite, Feeds
<1>7. \A x \in Conns : OwnQueue(x)'
  BY <1>1, FlowTypes DEF Threads, OwnQueue
<1>8. \A x \in Conns \ {c} : Threads(x)'
  BY <1>1, <1>2, <1>5, <1>6, <1>7, FlowTypes, OtherFlows
<1>9. InHand(c)' /\ Copying(c)' /\ Copied(c)'
  BY <1>2, <1>3, OneNode DEF InHand, Copying, Copied, ConnectingRequire
<1>10. ASSUME NEW pr \in Match, Feeds(pr[1])', Fed(pr[2])'
       PROVE  \/ Pending(Provider(pr[1]), pr)'
              \/ reqData'[pr[2]] = provData'[pr[1]] /\ Sent(pr)'
  <2>1. /\ Feeds(pr[1]) /\ Fed(pr[2]) /\ pr[1] \in PPort
        /\ Provider(pr[1]) \in Conns /\ Requirer(pr[2]) \in Conns
    BY <1>4, <1>10, OneNode, MatchesArePairs
  <2>2. CASE pr[1] = p
    BY <1>1, <1>2, <2>2 DEF Pending, Provider
  <2>3. CASE pr[1] # p
    <3>1. provData'[pr[1]] = provData[pr[1]]
      BY <1>3, <2>1, <2>3
    <3>2. Pending(Provider(pr[1]), pr) => Pending(Provider(pr[1]), pr)'
      BY <1>1, <1>2, <2>1 DEF Pending, ConnectingProvide
    <3>3. Sent(pr) => Sent(pr)'
      BY <1>1, <1>2, <2>1, <3>1 DEF Sent
    <3> QED BY <1>1, <2>1, <3>1, <3>2, <3>3 DEF FlowInv, OnItsWay
  <2> QED BY <2>2, <2>3
<1> QED BY <1>7, <1>8, <1>9, <1>10 DEF FlowInv, Threads, OnItsWay

(* The value reaches the server's copy of a require port ...               *)
LEMMA ForwardingFlow ==
  ASSUME OneProvider, FlowInv, Known, NEW c \in Conns, ForwardToNode(c)
  PROVE  FlowInv'
<1>1. PICK pr \in Match :
        /\ reqData' = [reqData EXCEPT ![pr[2]] = job[c].value]
        /\ job[c].value = provData[pr[1]]
        /\ \/ pc[c] = "forwardFirst" /\ pc'[c] = "sendFirst"
           \/ pc[c] = "route" /\ pc'[c] = "send"
        /\ InHand(c)'
        /\ job'[c].pair = pr
        /\ \A x \in Match : x = pr \/ (Pending(c, x) => Pending(c, x)')
        /\ \A x \in Conns \ {c} : pc'[x] = pc[x] /\ job'[x] = job[x]
  <2>1. UNCHANGED <<provData, provState>>
    BY DEF ForwardToNode, stateVars
  <2>2. CASE /\ pc[c] = "forwardFirst" /\ pc' = [pc EXCEPT ![c] = "sendFirst"] /\ job' = job
             /\ reqData' = [reqData EXCEPT ![job[c].pair[2]] = job[c].value]
    <3>1. pc'[c] = "sendFirst" /\ \A x \in Conns \ {c} : pc'[x] = pc[x]
      BY <2>2, FlowTypes
    <3>2. /\ job[c].pair \in Match /\ job[c].value = provData[job[c].pair[1]]
          /\ job[c].pair[1] \in PPortsOf(job[c].node)
      BY <2>2, FlowTypes DEF Threads, InHand
    <3>3. InHand(c)'
      BY <2>1, <2>2, <3>1, <3>2 DEF InHand
    <3>4. \A x \in Match : x = job[c].pair \/ (Pending(c, x) => Pending(c, x)')
      BY <2>2, <3>1 DEF Pending, ConnectingProvide
    <3> QED BY <2>2, <3>1, <3>2, <3>3, <3>4
  <2>3. ASSUME NEW pr \in job[c].todo, pc[c] = "route", pc' = [pc EXCEPT ![c] = "send"],
               reqData' = [reqData EXCEPT ![pr[2]] = job[c].value],
               job' = [job EXCEPT ![c] = [job[c] EXCEPT !.pair = pr, !.todo = @ \ {pr}]]
        PROVE  /\ pr \in Match /\ job[c].value = provData[pr[1]]
               /\ pc'[c] = "send" /\ InHand(c)' /\ job'[c].pair = pr
               /\ \A x \in Match : x = pr \/ (Pending(c, x) => Pending(c, x)')
               /\ \A x \in Conns \ {c} : pc'[x] = pc[x] /\ job'[x] = job[x]
    <3>1. /\ pc'[c] = "send" /\ job'[c].pair = pr /\ job'[c].todo = job[c].todo \ {pr}
          /\ job'[c].node = job[c].node /\ job'[c].value = job[c].value
          /\ \A x \in Conns \ {c} : pc'[x] = pc[x] /\ job'[x] = job[x]
      BY <2>3, FlowTypes DEF JobFields
    <3>2. /\ \A x \in job[c].todo : x \in Match /\ x[1] = job[c].pair[1]
          /\ job[c].value = provData[job[c].pair[1]]
          /\ job[c].pair[1] \in PPortsOf(job[c].node)
      BY <2>3, FlowTypes DEF Threads, InHand
    <3>3. InHand(c)'
      BY <2>1, <2>3, <3>1, <3>2 DEF InHand
    <3>4. \A x \in Match : x = pr \/ (Pending(c, x) => Pending(c, x)')
      BY <2>3, <3>1 DEF Pending, ConnectingProvide
    <3> QED BY <2>3, <3>1, <3>2, <3>3, <3>4
  <2>4. CASE /\ pc[c] = "route" /\ pc' = [pc EXCEPT ![c] = "send"]
             /\ \E pr \in job[c].todo :
                  /\ reqData' = [reqData EXCEPT ![pr[2]] = job[c].value]
                  /\ job' = [job EXCEPT ![c] = [job[c] EXCEPT !.pair = pr, !.todo = @ \ {pr}]]
    BY <2>3, <2>4
  <2> QED BY <2>2, <2>4, Zenon DEF ForwardToNode, Goto, GotoWith
<1>2. UNCHANGED <<provData, view, queue, provState, reqState>>
  BY DEF ForwardToNode, stateVars
<1>3. /\ \A p \in PPort : Feeds(p)' => Feeds(p)
      /\ \A r \in RPort : Fed(r)' => Fed(r)
  BY <1>1, <1>2, OneNode DEF Feeds, Fed, Attending
<1>4. /\ reqData'[pr[2]] = provData[pr[1]]
      /\ \A x \in Match : x = pr \/ reqData'[x[2]] = reqData[x[2]]
  BY <1>1, FlowTypes, SamePair, MatchesArePairs
<1>5. \A x \in Conns : OwnQueue(x)'
  BY <1>2, FlowTypes DEF Threads, OwnQueue
<1>6. \A x \in Conns \ {c} : Threads(x)'
  BY <1>1, <1>2, <1>3, <1>4, <1>5, FlowTypes, OtherFlows
<1>7. Copying(c)' /\ Copied(c)'
  BY <1>1 DEF Copying, Copied, ConnectingRequire
<1>8. ASSUME NEW x \in Match, Feeds(x[1])', Fed(x[2])'
      PROVE  \/ Pending(Provider(x[1]), x)'
             \/ reqData'[x[2]] = provData'[x[1]] /\ Sent(x)'
  <2>1. /\ Feeds(x[1]) /\ Fed(x[2]) /\ x[1] \in PPort
        /\ Provider(x[1]) \in Conns /\ Requirer(x[2]) \in Conns
    BY <1>3, <1>8, OneNode, MatchesArePairs
  <2>2. CASE x = pr
    <3>1. Provider(pr[1]) = c
      <4>1. job'[c].pair[1] \in PPortsOf(job'[c].node) /\ job'[c].node = job[c].node
        BY <1>1, FlowTypes DEF InHand, ForwardToNode, GotoWith, JobFields
      <4> QED BY <1>1, <4>1, FlowTypes, OneNode DEF OwnNodes, AtWork, Provider
    <3> QED BY <1>1, <1>2, <1>4, <2>2, <3>1 DEF Sent
  <2>3. CASE x # pr
    <3>1. Pending(Provider(x[1]), x) => Pending(Provider(x[1]), x)'
      BY <1>1, <2>1, <2>3 DEF Pending
    <3>2. Sent(x) => Sent(x)'
      BY <1>1, <1>2, <2>1 DEF Sent
    <3> QED BY <1>2, <1>4, <2>1, <2>3, <3>1, <3>2 DEF FlowInv, OnItsWay
  <2> QED BY <2>2, <2>3
<1> QED BY <1>1, <1>5, <1>6, <1>7, <1>8 DEF FlowInv, Threads, OnItsWay

(* ... and is queued for its client.                                       *)
LEMMA QueuingFlow ==
  ASSUME OneProvider, FlowInv, Known, NEW c \in Conns, ForwardToClient(c)
  PROVE  FlowInv'
<1> DEFINE pr == job[c].pair
           d == Requirer(pr[2])
           m == Data({pr[2]}, [x \in {pr[2]} |-> job[c].value])
<1>1. /\ pc[c] \in {"sendFirst", "send"}
      /\ pc' = [pc EXCEPT ![c] = IF pc[c] = "send" THEN "route" ELSE "connectProvide"]
      /\ Enqueue(d, m)
      /\ UNCHANGED <<provState, reqState, provData, reqData, view, job>>
  BY DEF ForwardToClient, Goto, stateVars, dataVars, Requirer
<1>2. /\ pc'[c] = (IF pc[c] = "send" THEN "route" ELSE "connectProvide")
      /\ \A x \in Conns \ {c} : pc'[x] = pc[x] /\ job'[x] = job[x]
  BY <1>1, FlowTypes
<1>3. /\ pr \in Match /\ pr[2] \in RPort /\ d \in Conns
      /\ job[c].value = provData[pr[1]] /\ job[c].value \in Version
  BY <1>1, FlowTypes, OneNode, MatchesArePairs DEF Threads, InHand, JobTyped
<1>4. m \in Message /\ DOMAIN m.data = {pr[2]} /\ m.data[pr[2]] = provData[pr[1]]
  <2>1. [x \in {pr[2]} |-> [y \in {pr[2]} |-> job[c].value][x]] \in [{pr[2]} -> Version]
    BY <1>3
  <2>2. {pr[2]} \in SUBSET RPort
    BY <1>3
  <2> QED BY <1>3, <2>1, <2>2 DEF Data, Message
<1> HIDE DEF m
<1>5. /\ \A x \in Conns : OwnQueue(x)'
      /\ queue'[d] = Append(queue[d], m) /\ \A x \in Conns \ {d} : queue'[x] = queue[x]
  BY <1>1, <1>3, <1>4, FlowTypes, OwnAppend DEF Threads
<1>6. /\ \A p \in PPort : Feeds(p)' => Feeds(p)
      /\ \A r \in RPort : Fed(r)' => Fed(r)
  BY <1>1, <1>2, OneNode DEF Feeds, Fed, Attending
<1>7. \A x \in Conns \ {c} : Threads(x)'
  BY <1>1, <1>2, <1>5, <1>6, FlowTypes, OtherFlows
<1>8. InHand(c)'
  BY <1>1, <1>2, FlowTypes DEF Threads, InHand
<1>9. Copying(c)' /\ Copied(c)'
  BY <1>2 DEF Copying, Copied, ConnectingRequire
<1>10. ASSUME NEW x \in Match, Feeds(x[1])', Fed(x[2])'
       PROVE  \/ Pending(Provider(x[1]), x)'
              \/ reqData'[x[2]] = provData'[x[1]] /\ Sent(x)'
  <2>1. /\ Feeds(x[1]) /\ Fed(x[2]) /\ x[1] \in PPort /\ x[2] \in RPort
        /\ Provider(x[1]) \in Conns /\ Requirer(x[2]) \in Conns
    BY <1>6, <1>10, OneNode, MatchesArePairs
  <2>2. Pending(Provider(x[1]), x) => Pending(Provider(x[1]), x)'
    BY <1>1, <1>2, <2>1 DEF Pending, ConnectingProvide
  <2>3. CASE x = pr
    <3>1. Ends(queue'[d], pr[2], view[pr[2]], provData[pr[1]])
      BY <1>3, <1>4, <1>5, FlowTypes, EndsAppend
    <3>2. Sent(x)'
      BY <1>1, <2>3, <3>1 DEF Sent
    <3> QED BY <1>1, <2>1, <2>2, <3>2 DEF FlowInv, OnItsWay
  <2>4. CASE x # pr
    <3>1. x[2] # pr[2]
      BY <1>3, <2>4, SamePair
    <3>2. ASSUME Ends(queue[Requirer(x[2])], x[2], view[x[2]], provData[x[1]])
          PROVE  Ends(queue'[Requirer(x[2])], x[2], view[x[2]], provData[x[1]])
      <4>1. x[2] \notin DOMAIN m.data
        BY <1>4, <3>1
      <4>2. CASE Requirer(x[2]) = d
        <5>1. queue[d] \in Seq(Message) /\ Ends(queue[d], x[2], view[x[2]], provData[x[1]])
          BY <1>3, <3>2, <4>2, FlowTypes
        <5>2. Ends(Append(queue[d], m), x[2], view[x[2]], provData[x[1]])
          BY <1>4, <4>1, <5>1, EndsAppend
        <5> QED BY <1>5, <4>2, <5>2
      <4>3. CASE Requirer(x[2]) # d
        BY <1>5, <2>1, <3>2, <4>3
      <4> QED BY <4>2, <4>3
    <3>3. Sent(x) => Sent(x)'
      BY <1>1, <1>2, <2>1, <2>4, <3>2 DEF Sent
    <3> QED BY <1>1, <2>1, <2>2, <3>3 DEF FlowInv, OnItsWay
  <2> QED BY <2>3, <2>4
<1> QED BY <1>5, <1>7, <1>8, <1>9, <1>10 DEF FlowInv, Threads, OnItsWay

(* Steps that touch nothing but queues, and what clients have received.    *)
LEMMA QueueFlow ==
  ASSUME FlowInv, UNCHANGED <<provState, reqState, provData, reqData, pc, job>>,
         \A x \in Conns : OwnQueue(x)',
         \A pr \in Match : Fed(pr[2]) =>
           (Ends(queue[Requirer(pr[2])], pr[2], view[pr[2]], provData[pr[1]]) =>
            Ends(queue'[Requirer(pr[2])], pr[2], view'[pr[2]], provData[pr[1]]))
  PROVE  FlowInv'
<1>1. \A c \in Conns : Threads(c)'
  BY DEF FlowInv, Threads, InHand, Copying, Copied, Feeds, Attending
<1>2. ASSUME NEW pr \in Match PROVE OnItsWay(pr)'
  <2>1. /\ Feeds(pr[1])' <=> Feeds(pr[1])
        /\ Fed(pr[2])' <=> Fed(pr[2])
        /\ Pending(Provider(pr[1]), pr) => Pending(Provider(pr[1]), pr)'
    BY DEF Feeds, Fed, Attending, Pending
  <2>2. Fed(pr[2]) /\ Sent(pr) => Sent(pr)'
    BY DEF Sent
  <2> QED BY <2>1, <2>2 DEF FlowInv, OnItsWay
<1> QED BY <1>1, <1>2 DEF FlowInv

LEMMA TransmitFlow ==
  ASSUME FlowInv, Known, NEW c \in Conns, Transmit(c)
  PROVE  FlowInv'
<1> DEFINE m == Head(queue[c])
<1>1. /\ queue[c] # <<>> /\ queue' = [queue EXCEPT ![c] = Tail(@)]
      /\ view' = [r \in RPort |-> IF r \in DOMAIN m.data /\ Attending(c) THEN m.data[r] ELSE view[r]]
      /\ UNCHANGED <<provState, reqState, provData, reqData, pc, job>>
  BY DEF Transmit, stateVars
<1>2. /\ queue[c] \in Seq(Message) /\ OwnQueue(c) /\ queue'[c] = Tail(queue[c])
      /\ \A x \in Conns \ {c} : queue'[x] = queue[x]
  BY <1>1, FlowTypes DEF Threads
<1>3. /\ Len(queue[c]) \in Nat /\ Len(queue[c]) > 0 /\ DOMAIN queue[c] = 1..Len(queue[c])
      /\ m = queue[c][1] /\ DOMAIN Tail(queue[c]) = 1..(Len(queue[c]) - 1)
      /\ \A i \in 1..(Len(queue[c]) - 1) : Tail(queue[c])[i] = queue[c][i + 1]
  BY <1>1, <1>2, EmptySeq, HeadTailProperties
<1>4. \A r \in RPort : r \in DOMAIN m.data => Requirer(r) = c
  BY <1>2, <1>3 DEF OwnQueue
<1>5. \A x \in Conns : OwnQueue(x)'
  <2>1. OwnQueue(c)'
    BY <1>2, <1>3 DEF OwnQueue
  <2>2. \A x \in Conns \ {c} : OwnQueue(x)'
    BY <1>2, FlowTypes DEF Threads, OwnQueue
  <2> QED BY <2>1, <2>2
<1>6. ASSUME NEW pr \in Match, Fed(pr[2]),
             Ends(queue[Requirer(pr[2])], pr[2], view[pr[2]], provData[pr[1]])
      PROVE  Ends(queue'[Requirer(pr[2])], pr[2], view'[pr[2]], provData[pr[1]])
  <2>1. pr[2] \in RPort /\ Requirer(pr[2]) \in Conns
    BY OneNode, MatchesArePairs
  <2>2. CASE Requirer(pr[2]) = c
    <3>1. view'[pr[2]] = IF pr[2] \in DOMAIN m.data THEN m.data[pr[2]] ELSE view[pr[2]]
      BY <1>1, <1>6, <2>1, <2>2 DEF Fed
    <3> QED BY <1>1, <1>2, <1>6, <2>2, <3>1, EndsTail
  <2>3. CASE Requirer(pr[2]) # c
    BY <1>1, <1>2, <1>4, <1>6, <2>1, <2>3
  <2> QED BY <2>2, <2>3
<1> QED BY <1>1, <1>5, <1>6, QueueFlow

LEMMA CleanupFlow ==
  ASSUME FlowInv, Known, Cleanup \/ Terminated \/ UNCHANGED vars
  PROVE  FlowInv'
<1>1. CASE CleanupBegin
  <2> DEFINE d == Head(inactive)
  <2>1. /\ inactive # <<>> /\ Enqueue(d, Exit)
        /\ UNCHANGED <<provState, reqState, provData, reqData, view, pc, job>>
    BY <1>1 DEF CleanupBegin, stateVars, dataVars
  <2>2. d \in Conns
    BY <2>1 DEF Known, Grounds, TypesInv, TypeOK
  <2>3. Exit \in Message /\ DOMAIN Exit.data = {}
    BY ExitIsMessage DEF Exit
  <2>4. /\ \A x \in Conns : OwnQueue(x)'
        /\ queue'[d] = Append(queue[d], Exit) /\ \A x \in Conns \ {d} : queue'[x] = queue[x]
    BY <2>1, <2>2, <2>3, FlowTypes, OwnAppend DEF Threads
  <2>5. ASSUME NEW pr \in Match, Ends(queue[Requirer(pr[2])], pr[2], view[pr[2]], provData[pr[1]])
        PROVE  Ends(queue'[Requirer(pr[2])], pr[2], view[pr[2]], provData[pr[1]])
    <3>1. Requirer(pr[2]) \in Conns /\ pr[2] \notin DOMAIN Exit.data
      BY <2>3, OneNode, MatchesArePairs
    <3>2. CASE Requirer(pr[2]) = d
      <4>1. queue[d] \in Seq(Message) /\ Ends(queue[d], pr[2], view[pr[2]], provData[pr[1]])
        BY <2>2, <2>5, <3>2, FlowTypes
      <4>2. Ends(Append(queue[d], Exit), pr[2], view[pr[2]], provData[pr[1]])
        BY <2>3, <3>1, <4>1, EndsAppend
      <4> QED BY <2>4, <3>2, <4>2
    <3>3. CASE Requirer(pr[2]) # d
      BY <2>4, <2>5, <3>1, <3>3
    <3> QED BY <3>2, <3>3
  <2> QED BY <2>1, <2>4, <2>5, QueueFlow
<1>2. CASE CleanupEnd \/ Terminated \/ UNCHANGED vars
  <2>1. UNCHANGED <<provState, reqState, provData, reqData, view, queue, pc, job>>
    BY <1>2 DEF CleanupEnd, Terminated, vars, stateVars, dataVars
  <2>2. \A x \in Conns : OwnQueue(x)'
    BY <2>1 DEF FlowInv, Threads, OwnQueue
  <2> QED BY <2>1, <2>2, QueueFlow
<1> QED BY <1>1, <1>2 DEF Cleanup

LEMMA FlowStep == OneProvider /\ FlowInv /\ Known /\ [Next]_vars => FlowInv'
<1> SUFFICES ASSUME OneProvider, FlowInv, Known, [Next]_vars PROVE FlowInv'
  OBVIOUS
<1>1. ASSUME NEW c \in Conns, Request(c) PROVE FlowInv'
  BY <1>1, OpeningFlow, FirstWriteFlow, WritingFlow, QuietFlow DEF Request
<1>2. ASSUME NEW c \in Conns, Continue(c) PROVE FlowInv'
  BY <1>2, QuietFlow, CopyingFlow, SnapshotFlow, SendingFlow, ProvidingFlow, ForwardingFlow,
     QueuingFlow DEF Continue
<1> QED BY <1>1, <1>2, TransmitFlow, CleanupFlow, Zenon DEF Next

(* With one provider for each port, the port data on their way and those    *)
(* that arrived are what was written, in every reachable state.             *)
THEOREM FlowInvariant == OneProvider => (Spec => []FlowInv)
<1> SUFFICES ASSUME OneProvider PROVE Spec => []FlowInv
  OBVIOUS
<1>1. FlowInv /\ Known /\ [Next]_vars => FlowInv'
  BY FlowStep
<1>2. Spec => []LiveInv
  BY LiveInvariant
<1>3. Grounds /\ TablesInv /\ LiveInv => Known
  BY DEF Known
<1> QED BY <1>1, <1>2, <1>3, FlowInit, GroundsInvariant, TablesInvariant, PTL DEF Spec

(* When all threads rest and the queues are empty, each client has         *)
(* received the newest value of every connected provide port, of those     *)
(* that are not written while a require file is being opened.              *)
THEOREM NewestValueArrives == OneProvider => (Spec => []ConvergedWhenQuiet)
<1>1. ASSUME FlowInv PROVE ConvergedWhenQuiet
  <2> SUFFICES ASSUME Quiet, NEW pr \in Match, pr[1] \notin Overlap,
                      Live(ProvideNode(pr[1])), Live(RequireNode(pr[2])),
                      provState[ProvideNode(pr[1])] = "CONNECTED",
                      reqState[RequireNode(pr[2])] = "CONNECTED"
               PROVE  reqData[pr[2]] = provData[pr[1]] /\ view[pr[2]] = provData[pr[1]]
    BY DEF ConvergedWhenQuiet, UpToDate
  <2>1. /\ pc[Provider(pr[1])] = "idle" /\ pc[Requirer(pr[2])] = "idle"
        /\ queue[Requirer(pr[2])] = <<>>
    BY OneNode, MatchesArePairs DEF Live, Quiet, Provider, Requirer
  <2>2. Feeds(pr[1]) /\ Fed(pr[2]) /\ ~Pending(Provider(pr[1]), pr)
    BY <2>1 DEF Feeds, Fed, Attending, Pending, ConnectingProvide
  <2>3. reqData[pr[2]] = provData[pr[1]] /\ Sent(pr)
    BY <1>1, <2>2 DEF FlowInv, OnItsWay
  <2>4. Ends(<<>>, pr[2], view[pr[2]], provData[pr[1]])
    BY <2>1, <2>3 DEF Sent
  <2> QED BY <2>3, <2>4 DEF Ends
<1> QED BY <1>1, FlowInvariant, PTL
=============================================================================
