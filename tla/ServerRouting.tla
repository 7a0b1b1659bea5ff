--------------------------- MODULE ServerRouting ---------------------------
(***************************************************************************)
(* The routing core of the APX server.                                     *)
(*                                                                         *)
(* Every client connection has an I/O thread of its own.  The threads meet *)
(* in the server-wide port signature map (guarded by the global lock), in  *)
(* the connector tables of the providing nodes (guarded by the lock of     *)
(* each node), in the port data buffers and in the command queue of each   *)
(* connection's file manager.  One more thread, owned by the connection    *)
(* manager, deletes the connections that have been detached.               *)
(*                                                                         *)
(* One action is one stretch of a thread's code that no other thread can   *)
(* tell from its parts: what is done under the global lock to data guarded *)
(* by that lock is one step, while an access to port data, a push on a     *)
(* queue and an operation on a connector table are steps of their own.     *)
(***************************************************************************)
EXTENDS Integers, Sequences, FiniteSets, Functions

CONSTANTS
  Conns,        (* client connections, one I/O thread each                 *)
  Nodes,        (* node instances                                          *)
  Conn,         (* Conn[n]: the connection that node n belongs to          *)
  Provides,     (* Provides[n]: the provide ports of node n, by port id    *)
  Requires,     (* Requires[n]: the require ports of node n, by port id    *)
  Signature,    (* Signature[x]: the port signature of port x              *)
  MaxVersion,   (* bound on the number of values written to a provide port *)
  Overlap,      (* the provide ports written while a requester connects    *)
  None          (* no connection, no node, no value                        *)

PPortsOf(n) == Range(Provides[n])
RPortsOf(n) == Range(Requires[n])
PPort == UNION {PPortsOf(n) : n \in Nodes}
RPort == UNION {RPortsOf(n) : n \in Nodes}
Version == 0..MaxVersion

ASSUME TopologyAssumption ==
  /\ Conn \in [Nodes -> Conns]
  /\ Provides \in [Nodes -> Seq(PPort)] /\ Requires \in [Nodes -> Seq(RPort)]
  /\ \A m, n \in Nodes : m # n => /\ PPortsOf(m) \cap PPortsOf(n) = {}
                                  /\ RPortsOf(m) \cap RPortsOf(n) = {}
  /\ PPort \cap RPort = {}
  /\ MaxVersion \in Nat \ {0}
  /\ Overlap \subseteq PPort
  /\ None \notin Conns \cup Nodes

ProvideNode(p) == CHOOSE n \in Nodes : p \in PPortsOf(n)
RequireNode(r) == CHOOSE n \in Nodes : r \in RPortsOf(n)

(* A connection between two ports needs equal signatures.                  *)
Match == {pr \in PPort \X RPort : Signature[pr[1]] = Signature[pr[2]]}

DataState == {"INIT", "WAITING_FOR_FILE_OPEN_REQUEST", "WAITING_FOR_FILE_DATA",
              "CONNECTED", "DISCONNECTED"}

VARIABLES
  attached,     (* the ports held by the port signature map                *)
  changes,      (* the change tables: <<p, r, 1>> connect, <<p, r, -1>> not *)
  connectors,   (* connectors[p]: the require ports that p is routed to    *)
  provState,    (* provide_port_data_state of each node                    *)
  reqState,     (* require_port_data_state of each node                    *)
  provData,     (* the server's copy of the value of each provide port     *)
  reqData,      (* the server's copy of the value of each require port     *)
  queue,        (* commands pending for the worker of each file manager    *)
  view,         (* the value each client last received for a require port  *)
  globalLock,   (* the thread that holds the server's global lock          *)
  nodeLock,     (* the thread that holds the lock of a node                *)
  inactive,     (* connections waiting for the cleanup thread, in order    *)
  cleaning,     (* the connection that the cleanup thread is deleting      *)
  stopped,      (* connections whose worker thread has ended               *)
  freed,        (* connections whose memory has been released              *)
  pc,           (* what each I/O thread does next                          *)
  job           (* the local variables of each I/O thread                  *)

tableVars == <<attached, changes, connectors>>
stateVars == <<provState, reqState>>
dataVars == <<provData, reqData, view>>
lockVars == <<globalLock, nodeLock>>
lifeVars == <<inactive, cleaning, stopped, freed>>
vars == <<tableVars, stateVars, dataVars, queue, lockVars, lifeVars, pc, job>>

(* todo: the port pairs still to be handled; pair, value: the pair being   *)
(* handled and the value read for it; clear: the provider nodes whose      *)
(* connector tables are to be cleared; ok: no error so far.                *)
NoJob == [node |-> None, todo |-> {}, pair |-> <<>>, value |-> 0, clear |-> {}, ok |-> TRUE]

Init ==
  /\ attached = {} /\ changes = {}
  /\ connectors = [p \in PPort |-> {}]
  /\ provState = [n \in Nodes |-> IF PPortsOf(n) = {} THEN "INIT" ELSE "WAITING_FOR_FILE_DATA"]
  /\ reqState = [n \in Nodes |-> IF RPortsOf(n) = {} THEN "INIT" ELSE "WAITING_FOR_FILE_OPEN_REQUEST"]
  /\ provData = [p \in PPort |-> 0]
  /\ reqData = [r \in RPort |-> 0]
  /\ view = [r \in RPort |-> 0]
  /\ queue = [c \in Conns |-> <<>>]
  /\ globalLock = None
  /\ nodeLock = [n \in Nodes |-> None]
  /\ inactive = <<>> /\ cleaning = None /\ stopped = {} /\ freed = {}
  /\ pc = [c \in Conns |-> "idle"]
  /\ job = [c \in Conns |-> NoJob]

----------------------------------------------------------------------------
(* Building blocks.                                                        *)

Goto(c, l) == pc' = [pc EXCEPT ![c] = l]
GotoWith(c, l, j) == Goto(c, l) /\ job' = [job EXCEPT ![c] = j]

(* A command for the worker: the values it transmits, or EXIT.             *)
Data(rs, f) == [cmd |-> "SEND_LOCAL_DATA", data |-> [r \in rs |-> f[r]]]
Exit == [cmd |-> "EXIT", data |-> [r \in {} |-> 0]]
Enqueue(c, m) == queue' = [queue EXCEPT ![c] = Append(@, m)]

(* The change tables after the pairs prs are added with the given sign.    *)
(* An entry never mixes connects and disconnects: the later one is refused.*)
Record(prs, sign) ==
  changes \cup {<<pr[1], pr[2], sign>> : pr \in
    {x \in prs : \A ch \in changes : (ch[1] = x[1] \/ ch[2] = x[2]) => ch[3] = sign}}

(* The pairs recorded when the ports of a node are attached to the map: a  *)
(* require port with each provider of its signature that is there already, *)
(* a provide port with each requester (notify_provide_ports_about_..., and *)
(* notify_require_ports_about_...); and when the ports gone are detached.  *)
PairsOfRequirePorts(n) == {pr \in Match : pr[1] \in attached /\ pr[2] \in RPortsOf(n)}
PairsOfProvidePorts(n) == {pr \in Match : pr[1] \in PPortsOf(n) /\ pr[2] \in attached}
PairsWithout(gone) ==
  {pr \in Match : /\ pr[1] \in attached /\ pr[2] \in attached
                  /\ pr[1] \in gone \/ pr[2] \in gone}

(* The providers in the change entry of a require port, by sign.           *)
Providers(chg, r, sign) == {p \in PPort : <<p, r, sign>> \in chg}

(* Ports of a node are handled in the order of their ids; the first require*)
(* port with more than one provider in its entry ends the loop.            *)
Reached(n, chg, sign) ==
  {r \in RPortsOf(n) : \E i \in DOMAIN Requires[n] :
      /\ Requires[n][i] = r
      /\ \A k \in 1..i : Cardinality(Providers(chg, Requires[n][k], sign)) <= 1}

(* Faulty variant: connects are handled also where disconnects are meant.  *)
HandledAsConnects(n, chg, sign) ==
  {pr \in Match : pr[2] \in Reached(n, chg, sign) /\ <<pr[1], pr[2], 1>> \in chg}

Handled(n, chg, sign) ==
  {pr \in Match : pr[2] \in Reached(n, chg, sign) /\ <<pr[1], pr[2], sign>> \in chg}

(* The pairs of a todo set that the loop takes next: lowest port id first. *)
(* side: 1 for a loop over provide ports, 2 for one over require ports.    *)
FirstOf(todo, ports, side) ==
  {pr \in todo : \E i \in DOMAIN ports :
      /\ ports[i] = pr[side]
      /\ \A k \in 1..(i - 1) : \A x \in todo : ports[k] # x[side]}

(* The client of the connection is still there.                            *)
Attending(c) == pc[c] \notin {"detach", "clearing", "done"}

(* The steps of file_open_notify, with the lock that they hold.            *)
Connecting == {"connectRequire", "readProvide", "writeRequire", "sendSnapshot"}
MayWrite(p) == p \in Overlap \/ \A c \in Conns : pc[c] \notin Connecting

----------------------------------------------------------------------------
(* A client opens the require port data file of its node: file_open_notify *)
(* takes the global lock and connects the node's require ports.            *)
OpenRequireFile(c, n) ==
  LET chg == Record(PairsOfRequirePorts(n), 1)
  IN /\ pc[c] = "idle" /\ Conn[n] = c
     /\ reqState[n] = "WAITING_FOR_FILE_OPEN_REQUEST"
     /\ globalLock = None
     /\ globalLock' = c
     /\ attached' = attached \cup RPortsOf(n)
     /\ changes' = chg
     /\ GotoWith(c, "connectRequire",
                 [NoJob EXCEPT !.node = n, !.todo = Handled(n, chg, 1),
                               !.ok = (Reached(n, chg, 1) = RPortsOf(n))])
     /\ UNCHANGED <<connectors, stateVars, dataVars, queue, nodeLock, lifeVars>>

(* The connector is inserted under the lock of the providing node ...      *)
InsertConnector(c) ==
  /\ pc[c] = "connectRequire"
  /\ \E pr \in FirstOf(job[c].todo, Requires[job[c].node], 2) :
       /\ nodeLock[ProvideNode(pr[1])] = None
       /\ connectors' = [connectors EXCEPT ![pr[1]] = @ \cup {pr[2]}]
       /\ GotoWith(c, "readProvide", [job[c] EXCEPT !.pair = pr, !.todo = @ \ {pr}])
  /\ UNCHANGED <<attached, changes, stateVars, dataVars, queue, lockVars, lifeVars>>

(* ... and the present value is copied after that lock has been released.  *)
ReadProvideData(c) ==
  /\ pc[c] = "readProvide"
  /\ GotoWith(c, "writeRequire", [job[c] EXCEPT !.value = provData[job[c].pair[1]]])
  /\ UNCHANGED <<tableVars, stateVars, dataVars, queue, lockVars, lifeVars>>

WriteRequireData(c) ==
  /\ pc[c] = "writeRequire"
  /\ reqData' = [reqData EXCEPT ![job[c].pair[2]] = job[c].value]
  /\ Goto(c, "connectRequire")
  /\ UNCHANGED <<tableVars, stateVars, provData, view, queue, lockVars, lifeVars, job>>

(* All ports are connected: the tables are cleared, the node is CONNECTED  *)
(* and a snapshot of all its require port data is taken ...                *)
TakeSnapshot(c) ==
  LET n == job[c].node IN
  /\ pc[c] = "connectRequire" /\ job[c].todo = {} /\ job[c].ok
  /\ changes' = {}
  /\ reqState' = [reqState EXCEPT ![n] = "CONNECTED"]
  /\ GotoWith(c, "sendSnapshot", [job[c] EXCEPT !.value = Data(RPortsOf(n), reqData)])
  /\ UNCHANGED <<attached, connectors, provState, dataVars, queue, lockVars, lifeVars>>

(* ... and queued for the client before the global lock is released.       *)
SendSnapshot(c) ==
  /\ pc[c] = "sendSnapshot"
  /\ Enqueue(c, job[c].value)
  /\ globalLock' = None
  /\ GotoWith(c, "idle", NoJob)
  /\ UNCHANGED <<tableVars, stateVars, dataVars, nodeLock, lifeVars>>

(* Faulty variant: the node is marked CONNECTED whatever the result was.   *)
ConnectRequireFailsConnected(c) ==
  /\ pc[c] = "connectRequire" /\ job[c].todo = {} /\ ~job[c].ok
  /\ changes' = {}
  /\ reqState' = [reqState EXCEPT ![job[c].node] = "CONNECTED"]
  /\ globalLock' = None
  /\ GotoWith(c, "idle", NoJob)
  /\ UNCHANGED <<attached, connectors, provState, dataVars, queue, nodeLock, lifeVars>>

(* More than one provider: APX_NOT_IMPLEMENTED_ERROR.  The node stays in   *)
(* WAITING_FOR_FILE_OPEN_REQUEST, its ports stay in the signature map.     *)
ConnectRequireFails(c) ==
  /\ pc[c] = "connectRequire" /\ job[c].todo = {} /\ ~job[c].ok
  /\ changes' = {}
  /\ globalLock' = None
  /\ GotoWith(c, "idle", NoJob)
  /\ UNCHANGED <<attached, connectors, stateVars, dataVars, queue, nodeLock, lifeVars>>

----------------------------------------------------------------------------
(* The first write to a node's provide port data covers the whole file and *)
(* is stored before the global lock is requested.                          *)
FirstProvideWrite(c, n) ==
  /\ pc[c] = "idle" /\ Conn[n] = c
  /\ provState[n] = "WAITING_FOR_FILE_DATA"
  /\ provData' = [p \in PPort |-> IF p \in PPortsOf(n) THEN 1 ELSE provData[p]]
  /\ GotoWith(c, "connectNode", [NoJob EXCEPT !.node = n])
  /\ UNCHANGED <<tableVars, stateVars, reqData, view, queue, lockVars, lifeVars>>

(* The provide ports enter the signature map, the node becomes CONNECTED   *)
(* and its connector table is locked for the whole loop over the changes.  *)
ConnectProvidePorts(c) ==
  LET n == job[c].node
      chg == Record(PairsOfProvidePorts(n), 1)
  IN /\ pc[c] = "connectNode"
     /\ globalLock = None /\ nodeLock[n] = None
     /\ globalLock' = c
     /\ nodeLock' = [nodeLock EXCEPT ![n] = c]
     /\ attached' = attached \cup PPortsOf(n)
     /\ changes' = chg
     /\ provState' = [provState EXCEPT ![n] = "CONNECTED"]
     /\ GotoWith(c, "connectProvide",
                 [job[c] EXCEPT !.todo = {pr \in Match : <<pr[1], pr[2], 1>> \in chg /\ pr[1] \in PPortsOf(n)}])
     /\ UNCHANGED <<connectors, reqState, dataVars, queue, lifeVars>>

(* Faulty variant: a new connector replaces the list instead of joining it.*)
InsertOwnConnectorAlone(c) ==
  /\ pc[c] = "connectProvide"
  /\ \E pr \in FirstOf(job[c].todo, Provides[job[c].node], 1) :
       /\ connectors' = [connectors EXCEPT ![pr[1]] = {pr[2]}]
       /\ GotoWith(c, "forwardFirst",
                   [job[c] EXCEPT !.pair = pr, !.todo = @ \ {pr}, !.value = provData[pr[1]]])
  /\ UNCHANGED <<attached, changes, stateVars, dataVars, queue, lockVars, lifeVars>>

(* The connector is inserted and the provider's own value is read.         *)
InsertOwnConnector(c) ==
  /\ pc[c] = "connectProvide"
  /\ \E pr \in FirstOf(job[c].todo, Provides[job[c].node], 1) :
       /\ connectors' = [connectors EXCEPT ![pr[1]] = @ \cup {pr[2]}]
       /\ GotoWith(c, "forwardFirst",
                   [job[c] EXCEPT !.pair = pr, !.todo = @ \ {pr}, !.value = provData[pr[1]]])
  /\ UNCHANGED <<attached, changes, stateVars, dataVars, queue, lockVars, lifeVars>>

(* Faulty variant: the change tables of the other nodes are not cleared.   *)
ProvideConnectedKeepingChanges(c) ==
  /\ pc[c] = "connectProvide" /\ job[c].todo = {}
  /\ nodeLock' = [nodeLock EXCEPT ![job[c].node] = None]
  /\ globalLock' = None
  /\ GotoWith(c, "idle", NoJob)
  /\ UNCHANGED <<tableVars, stateVars, dataVars, queue, lifeVars>>

ProvideConnected(c) ==
  /\ pc[c] = "connectProvide" /\ job[c].todo = {}
  /\ nodeLock' = [nodeLock EXCEPT ![job[c].node] = None]
  /\ changes' = {}
  /\ globalLock' = None
  /\ GotoWith(c, "idle", NoJob)
  /\ UNCHANGED <<attached, connectors, stateVars, dataVars, queue, lifeVars>>

(* A later write changes one provide port and is routed to its receivers.  *)
ProvideWrite(c, p) ==
  LET n == ProvideNode(p) IN
  /\ pc[c] = "idle" /\ Conn[n] = c /\ MayWrite(p)
  /\ provState[n] = "CONNECTED"
  /\ provData[p] < MaxVersion
  /\ provData' = [provData EXCEPT ![p] = @ + 1]
  /\ GotoWith(c, "routeLock", [NoJob EXCEPT !.node = n, !.pair = <<p>>, !.value = provData[p] + 1])
  /\ UNCHANGED <<tableVars, stateVars, reqData, view, queue, lockVars, lifeVars>>

LockForRouting(c) ==
  LET n == job[c].node  p == job[c].pair[1] IN
  /\ pc[c] = "routeLock"
  /\ nodeLock[n] = None
  /\ nodeLock' = [nodeLock EXCEPT ![n] = c]
  /\ GotoWith(c, "route", [job[c] EXCEPT !.todo = {p} \X connectors[p]])
  /\ UNCHANGED <<tableVars, stateVars, dataVars, queue, globalLock, lifeVars>>

(* remote_route_require_port_data: the server's copy of the require port   *)
(* is written first, then the update is queued for the receiving client.   *)
ForwardToNode(c) ==
  /\ \/ /\ pc[c] = "forwardFirst"
        /\ reqData' = [reqData EXCEPT ![job[c].pair[2]] = job[c].value]
        /\ Goto(c, "sendFirst") /\ UNCHANGED job
     \/ /\ pc[c] = "route"
        /\ \E pr \in job[c].todo :
             /\ reqData' = [reqData EXCEPT ![pr[2]] = job[c].value]
             /\ GotoWith(c, "send", [job[c] EXCEPT !.pair = pr, !.todo = @ \ {pr}])
  /\ UNCHANGED <<tableVars, stateVars, provData, view, queue, lockVars, lifeVars>>

(* Faulty variant: on connect only the server's copy is written.           *)
ForwardLaterOnly(c) ==
  LET r == job[c].pair[2] IN
  /\ pc[c] \in {"sendFirst", "send"}
  /\ IF pc[c] = "send"
     THEN /\ Enqueue(Conn[RequireNode(r)], Data({r}, [x \in {r} |-> job[c].value]))
          /\ Goto(c, "route")
     ELSE Goto(c, "connectProvide") /\ UNCHANGED queue
  /\ UNCHANGED <<tableVars, stateVars, dataVars, lockVars, lifeVars, job>>

ForwardToClient(c) ==
  LET r == job[c].pair[2] IN
  /\ pc[c] \in {"sendFirst", "send"}
  /\ Enqueue(Conn[RequireNode(r)], Data({r}, [x \in {r} |-> job[c].value]))
  /\ Goto(c, IF pc[c] = "send" THEN "route" ELSE "connectProvide")
  /\ UNCHANGED <<tableVars, stateVars, dataVars, lockVars, lifeVars, job>>

(* Faulty variant: an early return leaves the connector table locked.      *)
RoutingReturnsLocked(c) ==
  /\ pc[c] = "route" /\ job[c].todo = {}
  /\ GotoWith(c, "idle", NoJob)
  /\ UNCHANGED <<tableVars, stateVars, dataVars, queue, lockVars, lifeVars>>

RoutingDone(c) ==
  /\ pc[c] = "route" /\ job[c].todo = {}
  /\ nodeLock' = [nodeLock EXCEPT ![job[c].node] = None]
  /\ GotoWith(c, "idle", NoJob)
  /\ UNCHANGED <<tableVars, stateVars, dataVars, queue, globalLock, lifeVars>>

----------------------------------------------------------------------------
(* The socket reports that the client is gone.  The connection manager     *)
(* moves the connection to its inactive list (under its own lock, which    *)
(* the cleanup thread holds while it deletes a connection) ...             *)
DetachConnection(c) ==
  /\ pc[c] = "idle"
  /\ cleaning = None
  /\ inactive' = Append(inactive, c)
  /\ GotoWith(c, "detach", NoJob)
  /\ UNCHANGED <<tableVars, stateVars, dataVars, queue, lockVars, cleaning, stopped, freed>>

(* ... and detach_all_nodes takes the connected ports of its nodes out of  *)
(* the signature map, keeps the change tables of its own nodes and clears  *)
(* all others, all under one hold of the global lock.                      *)
DetachAllNodes(c) ==
  LET own == {n \in Nodes : Conn[n] = c}
      provNodes == {n \in own : provState[n] = "CONNECTED"}
      reqNodes == {n \in own : reqState[n] = "CONNECTED"}
      gone == (UNION {PPortsOf(n) : n \in provNodes}) \cup (UNION {RPortsOf(n) : n \in reqNodes})
      chg == Record(PairsWithout(gone), -1)
      clear == {n \in provNodes : \E ch \in chg : ch[1] \in PPortsOf(n)}
      changed == {n \in reqNodes : \E ch \in chg : ch[2] \in RPortsOf(n)}
  IN /\ pc[c] = "detach"
     /\ globalLock = None
     /\ attached' = attached \ gone
     /\ changes' = {}
     /\ provState' = [n \in Nodes |-> IF n \in provNodes \ clear THEN "DISCONNECTED" ELSE provState[n]]
     /\ reqState' = [n \in Nodes |-> IF n \in reqNodes \ changed THEN "DISCONNECTED" ELSE reqState[n]]
     /\ GotoWith(c, "clearing",
                 [NoJob EXCEPT !.clear = clear,
                               !.todo = UNION {Handled(n, chg, -1) : n \in changed}])
     /\ UNCHANGED <<connectors, dataVars, queue, lockVars, lifeVars>>

(* clear_connector_table empties the connector list of port 0 only.        *)
ClearConnectorTable(c) ==
  /\ pc[c] = "clearing"
  /\ \E n \in job[c].clear :
       /\ nodeLock[n] = None
       /\ connectors' = [connectors EXCEPT ![Provides[n][1]] = {}]
       /\ provState' = [provState EXCEPT ![n] = "DISCONNECTED"]
       /\ job' = [job EXCEPT ![c].clear = @ \ {n}]
  /\ UNCHANGED <<attached, changes, reqState, dataVars, queue, lockVars, lifeVars, pc>>

(* Faulty variant: a removed pair is not taken off the list.               *)
RemoveConnectorAgain(c) ==
  /\ pc[c] = "clearing" /\ job[c].clear = {}
  /\ \E pr \in job[c].todo :
       /\ nodeLock[ProvideNode(pr[1])] = None
       /\ connectors' = [connectors EXCEPT ![pr[1]] = @ \ {pr[2]}]
  /\ UNCHANGED <<attached, changes, stateVars, dataVars, queue, lockVars, lifeVars, pc, job>>

(* Each require port is removed from the connector table of its provider,  *)
(* a node that may belong to another connection.  No global lock is held.  *)
RemoveConnector(c) ==
  /\ pc[c] = "clearing" /\ job[c].clear = {}
  /\ \E pr \in job[c].todo :
       /\ nodeLock[ProvideNode(pr[1])] = None
       /\ connectors' = [connectors EXCEPT ![pr[1]] = @ \ {pr[2]}]
       /\ job' = [job EXCEPT ![c].todo = @ \ {pr}]
  /\ UNCHANGED <<attached, changes, stateVars, dataVars, queue, lockVars, lifeVars, pc>>

Detached(c) ==
  /\ pc[c] = "clearing" /\ job[c].clear = {} /\ job[c].todo = {}
  /\ reqState' = [n \in Nodes |-> IF Conn[n] = c /\ reqState[n] = "CONNECTED"
                                  THEN "DISCONNECTED" ELSE reqState[n]]
  /\ GotoWith(c, "done", NoJob)
  /\ UNCHANGED <<tableVars, provState, dataVars, queue, lockVars, lifeVars>>

----------------------------------------------------------------------------
(* Faulty variant: EXIT stays in the queue and the worker goes on.         *)
TransmitIgnoringExit(c) ==
  LET m == Head(queue[c]) IN
  /\ queue[c] # <<>> /\ c \notin stopped
  /\ queue' = [queue EXCEPT ![c] = IF m.cmd = "EXIT" THEN @ ELSE Tail(@)]
  /\ view' = [r \in RPort |-> IF r \in DOMAIN m.data /\ Attending(c) THEN m.data[r] ELSE view[r]]
  /\ UNCHANGED <<tableVars, stateVars, provData, reqData, lockVars, lifeVars, pc, job>>

(* The worker of a file manager: commands leave in order.  What is sent to *)
(* a client that is gone reaches nobody.                                   *)
Transmit(c) ==
  LET m == Head(queue[c]) IN
  /\ queue[c] # <<>> /\ c \notin stopped
  /\ queue' = [queue EXCEPT ![c] = Tail(@)]
  /\ stopped' = IF m.cmd = "EXIT" THEN stopped \cup {c} ELSE stopped
  /\ view' = [r \in RPort |-> IF /\ r \in DOMAIN m.data
                                 /\ Attending(c)
                              THEN m.data[r] ELSE view[r]]
  /\ UNCHANGED <<tableVars, stateVars, provData, reqData, lockVars,
                 inactive, cleaning, freed, pc, job>>

(* The cleanup thread looks at the first inactive connection only, and     *)
(* skips it while commands are pending.  It tells the worker to exit ...   *)
CleanupBegin ==
  /\ cleaning = None
  /\ inactive # <<>>
  /\ queue[Head(inactive)] = <<>>
  /\ cleaning' = Head(inactive)
  /\ inactive' = Tail(inactive)
  /\ Enqueue(Head(inactive), Exit)
  /\ UNCHANGED <<tableVars, stateVars, dataVars, lockVars, stopped, freed, pc, job>>

(* Faulty variants: the worker is not joined; the I/O thread is not joined.*)
CleanupWithoutStop ==
  /\ cleaning # None
  /\ pc[cleaning] = "done"
  /\ freed' = freed \cup {cleaning}
  /\ cleaning' = None
  /\ UNCHANGED <<tableVars, stateVars, dataVars, queue, lockVars, inactive, stopped, pc, job>>

CleanupWithoutClose ==
  /\ cleaning \in stopped
  /\ freed' = freed \cup {cleaning}
  /\ cleaning' = None
  /\ UNCHANGED <<tableVars, stateVars, dataVars, queue, lockVars, inactive, stopped, pc, job>>

(* ... joins it, closes the socket (which joins the I/O thread) and frees  *)
(* the connection with its nodes, still holding the manager's lock.        *)
CleanupEnd ==
  /\ cleaning \in stopped
  /\ pc[cleaning] = "done"
  /\ freed' = freed \cup {cleaning}
  /\ cleaning' = None
  /\ UNCHANGED <<tableVars, stateVars, dataVars, queue, lockVars, inactive, stopped, pc, job>>

----------------------------------------------------------------------------
(* What a client makes its I/O thread do, and what the thread then does.   *)
Request(c) ==
  \/ \E n \in Nodes : OpenRequireFile(c, n) \/ FirstProvideWrite(c, n)
  \/ \E p \in PPort : ProvideWrite(c, p)
  \/ DetachConnection(c)

Continue(c) ==
  \/ InsertConnector(c) \/ ReadProvideData(c) \/ WriteRequireData(c)
  \/ TakeSnapshot(c) \/ SendSnapshot(c) \/ ConnectRequireFails(c)
  \/ ConnectProvidePorts(c) \/ InsertOwnConnector(c) \/ ProvideConnected(c)
  \/ LockForRouting(c) \/ RoutingDone(c)
  \/ ForwardToNode(c) \/ ForwardToClient(c)
  \/ DetachAllNodes(c) \/ ClearConnectorTable(c)
  \/ RemoveConnector(c) \/ Detached(c)

Cleanup == CleanupBegin \/ CleanupEnd

(* Every client is gone and every connection has been released.            *)
Terminated == freed = Conns /\ UNCHANGED vars

Next ==
  \/ \E c \in Conns : Request(c) \/ Continue(c) \/ Transmit(c)
  \/ Cleanup
  \/ Terminated

(* A thread that has begun to handle a request goes on with it, and the    *)
(* worker and cleanup threads run; no client is obliged to do anything.    *)
Fairness ==
  /\ \A c \in Conns : WF_vars(Continue(c)) /\ WF_vars(Transmit(c))
  /\ WF_vars(Cleanup)

Spec == Init /\ [][Next]_vars /\ Fairness

----------------------------------------------------------------------------
(* Properties.                                                             *)

PC == {"idle", "connectRequire", "readProvide", "writeRequire", "sendSnapshot",
       "connectNode", "connectProvide", "forwardFirst", "sendFirst",
       "routeLock", "route", "send",
       "detach", "clearing", "done"}

TypeOK ==
  /\ attached \subseteq PPort \cup RPort
  /\ changes \subseteq (PPort \X RPort \X {1, -1})
  /\ connectors \in [PPort -> SUBSET RPort]
  /\ provState \in [Nodes -> DataState] /\ reqState \in [Nodes -> DataState]
  /\ provData \in [PPort -> Version]
  /\ reqData \in [RPort -> Version] /\ view \in [RPort -> Version]
  /\ globalLock \in Conns \cup {None}
  /\ nodeLock \in [Nodes -> Conns \cup {None}]
  /\ inactive \in Seq(Conns) /\ cleaning \in Conns \cup {None}
  /\ stopped \subseteq Conns /\ freed \subseteq stopped
  /\ pc \in [Conns -> PC]

(* Mutual exclusion.  A thread that is connecting ports holds the global   *)
(* lock, one that walks a connector table holds that node's lock, and no   *)
(* other thread holds either (server.c: take/release_global_lock).         *)
UnderGlobalLock == Connecting \cup {"connectProvide", "forwardFirst", "sendFirst"}
UnderNodeLock == {"connectProvide", "forwardFirst", "sendFirst", "route", "send"}
LocksHeld ==
  \A c \in Conns :
    /\ pc[c] \in UnderGlobalLock <=> globalLock = c
    /\ \A n \in Nodes : nodeLock[n] = c <=> pc[c] \in UnderNodeLock /\ job[c].node = n

(* The change tables exist only inside one hold of the global lock: what   *)
(* one thread recorded is never seen (or acted on) by the next, whichever  *)
(* way the handler ended (apx_server_clear_port_connector_changes).        *)
ChangesConfined == globalLock = None => changes = {}

(* No connection is lost: whenever no thread is connecting, a require port *)
(* of a connected node is in the connector list of every connected provide *)
(* port with its signature, in whichever order the nodes arrived.          *)
NoLostConnector ==
  globalLock = None =>
    \A pr \in Match :
      /\ provState[ProvideNode(pr[1])] = "CONNECTED"
      /\ reqState[RequireNode(pr[2])] = "CONNECTED"
      /\ Attending(Conn[ProvideNode(pr[1])]) /\ Attending(Conn[RequireNode(pr[2])])
      => pr[2] \in connectors[pr[1]]

(* A connection that has been detached leaves nothing behind: no port of   *)
(* its nodes is in the signature map or in the connector list of a provide *)
(* port that can still be written, so its memory can be released.          *)
NoDanglingPort ==
  \A c \in Conns : pc[c] = "done" =>
    /\ \A x \in attached : c # Conn[IF x \in PPort THEN ProvideNode(x) ELSE RequireNode(x)]
    /\ \A p \in PPort : Attending(Conn[ProvideNode(p)]) =>
         \A r \in connectors[p] : Conn[RequireNode(r)] # c

(* The nodes an I/O thread reads or writes in its next step.               *)
Touches(c) ==
  CASE pc[c] = "readProvide" -> {ProvideNode(job[c].pair[1])}
    [] pc[c] \in {"forwardFirst", "sendFirst", "send"} -> {RequireNode(job[c].pair[2])}
    [] pc[c] = "route" -> {RequireNode(pr[2]) : pr \in job[c].todo}
    [] pc[c] \in {"connectRequire", "clearing"} -> {ProvideNode(pr[1]) : pr \in job[c].todo}
    [] OTHER -> {}

(* The locks protect what is reached through the signature map or through  *)
(* a connector table: while it connects or routes, a thread never touches  *)
(* a node that the cleanup thread has released in the meantime.            *)
RoutedNodesAlive ==
  \A c \in Conns : pc[c] # "clearing" => \A n \in Touches(c) : Conn[n] \notin freed

(* No thread uses a node of a connection that the cleanup thread has       *)
(* released, when it detaches either (server_connection.c:569-570 says     *)
(* that the processing after the release of the global lock has all the    *)
(* information it needs).                                                  *)
NoUseAfterFree == \A c \in Conns : \A n \in Touches(c) : Conn[n] \notin freed

(* The server forwards what providers write: when nothing is in progress   *)
(* or queued, the server's copy and the client's copy of each connected    *)
(* require port hold the latest value of the provide port it is fed from.  *)
Quiet == \A c \in Conns : pc[c] \in {"idle", "done"} /\ queue[c] = <<>>
Live(n) == pc[Conn[n]] = "idle"
UpToDate(p, r) ==
  LET m == ProvideNode(p)  n == RequireNode(r) IN
    Live(m) /\ Live(n) /\ provState[m] = "CONNECTED" /\ reqState[n] = "CONNECTED"
    => reqData[r] = provData[p] /\ view[r] = provData[p]
Converged == Quiet => \A pr \in Match : UpToDate(pr[1], pr[2])

(* The same for the provide ports that nobody writes while a require file  *)
(* is being opened, whatever happens to the other ports of the same nodes: *)
(* the window between the connector and the snapshot in                    *)
(* route_provide_port_data_to_require_port is the only one.                *)
ConvergedWhenQuiet ==
  Quiet => \A pr \in Match : pr[1] \notin Overlap => UpToDate(pr[1], pr[2])

(* A handler that has begun ends: no thread waits for ever for a lock.     *)
HandlersEnd == \A c \in Conns : pc[c] \notin {"idle", "done"} ~> pc[c] \in {"idle", "done"}

(* A detached connection is released in the end, although the cleanup      *)
(* thread looks at one connection at a time and skips it while commands    *)
(* for its worker are pending.                                             *)
DetachedIsReleased == \A c \in Conns : pc[c] = "detach" ~> c \in freed
=============================================================================
