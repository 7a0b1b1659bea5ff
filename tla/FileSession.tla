---------------------------- MODULE FileSession ----------------------------
(***************************************************************************)
(* The file session between one client and the server: greeting and        *)
(* acknowledge, publishing of files, open requests, the snapshot an open   *)
(* file starts with, and the writes that follow (client_connection.c,      *)
(* server_connection.c, file_manager.c, node_instance.c, node_manager.c).  *)
(*                                                                         *)
(* A node has a definition file and a provide port data file, which belong *)
(* to the client, and a require port data file, which belongs to the       *)
(* server.  A file is identified by its node and its kind; FileMap models  *)
(* how addresses identify files.  Each side has an I/O thread that handles *)
(* messages one at a time.  Threads of the application write provide       *)
(* ports on the client, routers (the I/O threads of other connections)     *)
(* write require ports on the server.                                      *)
(*                                                                         *)
(* channel[s] holds what s has queued and the other side has not yet       *)
(* handled.  That it keeps the order is what FileManagerWorker shows of    *)
(* the command queue, and what TCP promises of the connection.             *)
(***************************************************************************)
EXTENDS Integers, Sequences, FiniteSets

CONSTANTS
  Nodes,          (* the nodes the client has built                        *)
  Ports,          (* names of ports, to tell the parts of a file apart     *)
  ProvidePorts,   (* the provide ports of each node                        *)
  RequirePorts,   (* the require ports of each node                        *)
  Fragile,        (* nodes that the server may fail to build or connect    *)
  Sizes,          (* sizes a definition may have                           *)
  ReceiveBuffer,  (* size of the reception buffer, RMF_CMD_AREA_SIZE       *)
  SendBuffer,     (* size of the send buffer                               *)
  MaxDefinition,  (* APX_MAX_DEFINITION_SIZE                               *)
  Applications,   (* threads of the application, on the client             *)
  Routers,        (* threads that write require ports, on the server       *)
  MaxWrites       (* bound: writes to ports in a behaviour                 *)

Client == "client"
Server == "server"
Sides == {Client, Server}
Other(s) == IF s = Client THEN Server ELSE Client
Writers == Applications \cup Routers
Threads == Writers \cup Sides

Definition(n) == [node |-> n, kind |-> "definition"]
Provide(n)    == [node |-> n, kind |-> "provide"]
Require(n)    == [node |-> n, kind |-> "require"]
Files == [node : Nodes, kind : {"definition", "provide", "require"}]

Owner(f) == IF f.kind = "require" THEN Server ELSE Client

(* The ports whose data a file holds.                                      *)
PortsIn(f) == CASE f.kind = "provide" -> ProvidePorts[f.node]
                [] f.kind = "require" -> RequirePorts[f.node]
                [] OTHER -> {}

(* The files of a side that have something in them.                        *)
FilesOf(s) == {f \in Files : Owner(f) = s /\ (f.kind = "definition" \/ PortsIn(f) # {})}

ASSUME SessionAssumption ==
  /\ ProvidePorts \in [Nodes -> SUBSET Ports]
  /\ RequirePorts \in [Nodes -> SUBSET Ports]
  /\ Fragile \subseteq Nodes /\ IsFiniteSet(Nodes)
  /\ Sizes \subseteq Nat /\ ReceiveBuffer \in Nat /\ SendBuffer \in Nat
  /\ MaxDefinition \in Nat /\ MaxWrites \in Nat
  /\ Applications \cap Routers = {} /\ Writers \cap Sides = {}

VARIABLES
  size,       (* size[n]: size of the definition of n                      *)
  accepted,   (* is_greeting_accepted of each side                         *)
  channel,    (* messages of a side on their way to the other              *)
  remote,     (* files in the remote file map of a side                    *)
  local,      (* files in the local file map of a side                     *)
  open,       (* files, local or remote, whose is_file_open is set         *)
  known,      (* nodes the server's node manager holds                     *)
  state,      (* data state of each file on each side                      *)
  data,       (* port data of a file at its owner                          *)
  copy,       (* port data of a file at the other side                     *)
  work,       (* what a thread is in the middle of                         *)
  error,      (* last_error of a connection                                *)
  writes,     (* number of writes so far, the source of new values         *)
  overtaken   (* files in which a write has overtaken an older one         *)

vars == <<size, accepted, channel, remote, local, open, known, state, data, copy,
          work, error, writes, overtaken>>

DataStates == {"INIT", "WAITING_FILE_INFO", "WAITING_FOR_FILE_OPEN_REQUEST",
               "WAITING_FOR_FILE_DATA", "CONNECTED"}

Greeting    == [type |-> "greeting"]
Acknowledge == [type |-> "acknowledge"]
Publish(f)  == [type |-> "publish", file |-> f]
Open(f)     == [type |-> "open", file |-> f]
Write(f, v) == [type |-> "write", file |-> f, value |-> v]

Idle == [step |-> "idle"]

(* A value of some of the ports of f, as a write carries it.               *)
Values == 0..MaxWrites
PartialValues(f) == UNION {[P -> Values] : P \in SUBSET PortsIn(f)}

(* Defect: a write replaces all the data.                                  *)
WrittenOver(c, v) == v

(* Defect: a write clears the rest of the data.                            *)
WrittenAndCleared(c, v) == [p \in DOMAIN c |-> IF p \in DOMAIN v THEN v[p] ELSE 0]

(* Port data c after a write of v.                                         *)
Written(c, v) == [p \in DOMAIN c |-> IF p \in DOMAIN v THEN v[p] ELSE c[p]]

SizeOf(m) == IF m.file.kind = "definition" THEN size[m.file.node] ELSE Cardinality(DOMAIN m.value)

(* Defect: only local files have the flag set.                             *)
OpenedLocally(s, fs) == [open EXCEPT ![s] = @ \cup (fs \cap local[s])]

(* apx_file_open for the files fs of side s.                               *)
Opened(s, fs) == [open EXCEPT ![s] = @ \cup fs]

(* Before the connection is made.  Nodes are built first.                  *)
Init ==
  /\ size \in [Nodes -> Sizes]
  /\ accepted = [s \in Sides |-> FALSE]
  /\ channel = [s \in Sides |-> <<>>]
  /\ remote = [s \in Sides |-> {}]
  /\ local = [s \in Sides |-> {}]
  /\ open = [s \in Sides |-> {}]
  /\ known = {}
  /\ state = [s \in Sides |-> [f \in Files |-> "INIT"]]
  /\ data = [f \in Files |-> [p \in PortsIn(f) |-> 0]]
  /\ copy = data
  /\ work = [t \in Threads |-> Idle]
  /\ error = [s \in Sides |-> "none"]
  /\ writes = 0
  /\ overtaken = {}

-----------------------------------------------------------------------------
(* Connecting.                                                             *)

(* The client attaches its nodes to the connection, connects and sends the *)
(* greeting.                                                               *)
Connect ==
  /\ local[Client] = {}
  /\ local' = [local EXCEPT ![Client] = FilesOf(Client)]
  /\ state' = [state EXCEPT ![Client] =
                 [f \in Files |-> CASE f.kind = "definition" -> "INIT"
                                    [] PortsIn(f) = {} -> "INIT"
                                    [] f.kind = "provide" -> "WAITING_FOR_FILE_OPEN_REQUEST"
                                    [] f.kind = "require" -> "WAITING_FILE_INFO"]]
  /\ channel' = [channel EXCEPT ![Client] = <<Greeting>>]
  /\ UNCHANGED <<size, accepted, remote, open, known, data, copy, work, error, writes, overtaken>>

Incoming(s) == Head(channel[Other(s)])

(* The I/O thread of s handles the message it has received in full, which  *)
(* is of the type given.                                                   *)
Receives(s, type) ==
  /\ work[s] = Idle /\ error[s] = "none"
  /\ channel[Other(s)] # <<>> /\ Incoming(s).type = type

(* The message is taken from the channel and ms are queued in answer.      *)
Answer(s, ms) == channel' = [channel EXCEPT ![Other(s)] = Tail(@), ![s] = @ \o ms]

(* on_data_received returns -1: the socket is not read any more.           *)
Refuse(s, code) ==
  /\ error' = [error EXCEPT ![s] = code]
  /\ Answer(s, <<>>)

(* Defect: the files are published in any order.                           *)
LocalFileListsUnsorted ==
  {q \in [1..Cardinality(local[Client]) -> local[Client]] :
     \A i, j \in DOMAIN q : i < j => q[i] # q[j]}

(* The local files of the client in the order of their addresses: port     *)
(* data is below the definitions, and files of a kind are in the order in  *)
(* which their nodes were attached, that is in any order.                  *)
LocalFileLists ==
  {q \in [1..Cardinality(local[Client]) -> local[Client]] :
     \A i, j \in DOMAIN q :
       i < j => q[i] # q[j] /\ (q[i].kind = "definition" => q[j].kind = "definition")}

(* The first message must be the greeting, and the client's first message  *)
(* its acknowledge; then the client publishes its local files.             *)
Handshake(s) ==
  /\ ~accepted[s]
  /\ accepted' = [accepted EXCEPT ![s] = TRUE]
  /\ IF s = Server
     THEN Receives(s, "greeting") /\ Answer(s, <<Acknowledge>>)
     ELSE /\ Receives(s, "acknowledge")
          /\ \E q \in LocalFileLists : Answer(s, [i \in DOMAIN q |-> Publish(q[i])])
  /\ UNCHANGED <<size, remote, local, open, known, state, data, copy, work, error, writes,
                 overtaken>>

-----------------------------------------------------------------------------
(* Publishing.                                                             *)

(* The node is created, its definition file opened and asked for.  A       *)
(* definition of a node that exists is refused, and so is a provide port   *)
(* file published after its node: nothing would ever open it.              *)
ServerLearnsFile ==
  LET f == Incoming(Server).file IN
  /\ Receives(Server, "publish") /\ accepted[Server]
  /\ remote' = [remote EXCEPT ![Server] = @ \cup {f}]
  /\ IF f.node \in known
     THEN /\ Refuse(Server, IF f.kind = "definition" THEN "NODE_ALREADY_EXISTS"
                                                     ELSE "NOT_IMPLEMENTED")
          /\ UNCHANGED <<known, state, open>>
     ELSE /\ UNCHANGED error
          /\ IF f.kind = "definition"
             THEN /\ known' = known \cup {f.node}
                  /\ open' = Opened(Server, {f})
                  /\ state' = [state EXCEPT ![Server][f] = "WAITING_FOR_FILE_DATA"]
                  /\ Answer(Server, <<Open(f)>>)
             ELSE Answer(Server, <<>>) /\ UNCHANGED <<known, state, open>>
  /\ UNCHANGED <<size, accepted, local, data, copy, work, writes, overtaken>>

(* The client opens the require port file the server has published.  The   *)
(* state it must be in is an assertion.                                    *)
ClientLearnsFile ==
  LET f == Incoming(Client).file IN
  /\ Receives(Client, "publish") /\ accepted[Client]
  /\ remote' = [remote EXCEPT ![Client] = @ \cup {f}]
  /\ IF state[Client][f] = "WAITING_FILE_INFO"
     THEN /\ state' = [state EXCEPT ![Client][f] = "WAITING_FOR_FILE_DATA"]
          /\ open' = Opened(Client, {f})
          /\ Answer(Client, <<Open(f)>>)
          /\ UNCHANGED error
     ELSE Refuse(Client, "ASSERTION") /\ UNCHANGED <<state, open>>
  /\ UNCHANGED <<size, accepted, local, known, data, copy, work, writes, overtaken>>

-----------------------------------------------------------------------------
(* Opening.                                                                *)

(* The file is open to writers before its snapshot is taken.               *)
OpenRequested(s) ==
  LET f == Incoming(s).file IN
  /\ Receives(s, "open") /\ accepted[s]
  /\ IF f \in local[s]
     THEN /\ open' = Opened(s, {f})
          /\ work' = [work EXCEPT ![s] = [step |-> "opened", file |-> f]]
          /\ Answer(s, <<>>) /\ UNCHANGED error
     ELSE Refuse(s, "FILE_NOT_FOUND") /\ UNCHANGED <<open, work>>
  /\ UNCHANGED <<size, accepted, remote, local, known, state, data, copy, writes, overtaken>>

(* Defect: the snapshot is as large as apx_file_get_size says, 0 bytes.    *)
SnapshotOfNothing(f) == [step |-> "queue", file |-> f, value |-> [p \in {} |-> 0]]

(* All the data of the file, as a write.                                   *)
Snapshot(f) == [step |-> "queue", file |-> f, value |-> data[f]]

(* The open notification: the server first connects the require ports.     *)
(* When that fails the file stays open without a snapshot, and the error   *)
(* is not reported to anybody.                                             *)
TakeSnapshot(s) ==
  /\ work[s].step = "opened"
  /\ LET f == work[s].file
         snapshot == [work EXCEPT ![s] = Snapshot(f)]
     IN  \/ /\ f.kind # "require"
            /\ work' = snapshot /\ UNCHANGED state
         \/ /\ f.kind = "require"
            /\ work' = snapshot
            /\ state' = [state EXCEPT ![s][f] = "CONNECTED"]
         \/ /\ f.kind = "require" /\ f.node \in Fragile
            /\ work' = [work EXCEPT ![s] = Idle] /\ UNCHANGED state
  /\ UNCHANGED <<size, accepted, channel, remote, local, open, known, data, copy, error, writes,
                 overtaken>>

-----------------------------------------------------------------------------
(* Writing.                                                                *)

(* A thread changes the data of a file; it has the value to send in hand.  *)
(* The application does not wait for a connection; a router reaches the    *)
(* ports of a file that is being, or has been, connected.                  *)
WritePort(t) ==
  /\ work[t] = Idle /\ writes < MaxWrites
  /\ \E f \in Files, p \in Ports :
       /\ p \in PortsIn(f)
       /\ IF t \in Applications THEN f.kind = "provide"
                                ELSE f.kind = "require" /\ f \in open[Server]
       /\ data' = [data EXCEPT ![f][p] = writes + 1]
       /\ work' = [work EXCEPT ![t] = [step |-> "queue", file |-> f,
                                       value |-> [q \in {p} |-> writes + 1]]]
  /\ writes' = writes + 1
  /\ UNCHANGED <<size, accepted, channel, remote, local, open, known, state, copy, error,
                 overtaken>>

(* Thread t queues the newest value of a port while another thread still   *)
(* has an older one in hand: the older one will be the last to arrive.     *)
Overtakes(t) ==
  LET f == work[t].file
      v == work[t].value
  IN  \E u \in Threads \ {t} :
        /\ work[u].step = "queue" /\ work[u].file = f
        /\ \E p \in DOMAIN v \cap DOMAIN work[u].value :
             v[p] = data[f][p] /\ work[u].value[p] # v[p]

(* What a thread has in hand is sent if the file is open, and dropped if   *)
(* not.  A message that does not fit in the send buffer is dropped by the  *)
(* worker, which ignores the result of transmit_data_message.              *)
Queue(t) ==
  /\ work[t].step = "queue"
  /\ LET f == work[t].file
         m == Write(f, work[t].value)
         sent == f \in open[Owner(f)] /\ SizeOf(m) <= SendBuffer
     IN  /\ channel' = IF sent THEN [channel EXCEPT ![Owner(f)] = Append(@, m)] ELSE channel
         /\ overtaken' = IF Overtakes(t) THEN overtaken \cup {f} ELSE overtaken
  /\ work' = [work EXCEPT ![t] = Idle]
  /\ UNCHANGED <<size, accepted, remote, local, open, known, state, data, copy, error, writes>>

-----------------------------------------------------------------------------
(* Receiving writes.                                                       *)

(* A write has reached s.  What does not fit in the reception buffer is an *)
(* error, a write of an unknown file too; a write of a closed file is      *)
(* ignored, and any other is handed to the handler of the file.            *)
TooLarge(s) == SizeOf(Incoming(s)) > ReceiveBuffer

ReceivesWrite(s, kind) ==
  /\ Receives(s, "write") /\ accepted[s]
  /\ ~TooLarge(s) /\ Incoming(s).file \in remote[s] \cap open[s]
  /\ Incoming(s).file.kind = kind

WriteStopped(s) ==
  LET f == Incoming(s).file IN
  /\ Receives(s, "write") /\ accepted[s]
  /\ TooLarge(s) \/ f \notin remote[s] \cap open[s]
  /\ IF ~TooLarge(s) /\ f \in remote[s]
     THEN Answer(s, <<>>) /\ UNCHANGED error
     ELSE Refuse(s, IF TooLarge(s) THEN "BUFFER_FULL" ELSE "INVALID_WRITE")
  /\ UNCHANGED <<size, accepted, remote, local, open, known, state, data, copy, work, writes,
                 overtaken>>

(* Defect: the file is looked for among the local files.                   *)
PublishedProvideFileLocally(n) == {Provide(n)} \cap FilesOf(Client) \cap local[Server]

(* The provide port file of n, if the server knows it by now.              *)
PublishedProvideFile(n) == {Provide(n)} \cap FilesOf(Client) \cap remote[Server]

(* The node is built from its definition and attached: the provide port    *)
(* file is opened and asked for if it has been published, and the require  *)
(* port file is created and published.  A node that cannot be built is     *)
(* deleted, and the error ends the connection.                             *)
DefinitionWritten ==
  LET f == Incoming(Server).file
      n == f.node
      asked == PublishedProvideFile(n)
      given == {Require(n)} \cap FilesOf(Server)
  IN
  /\ ReceivesWrite(Server, "definition")
  /\ \/ /\ n \in Fragile
        /\ known' = known \ {n}
        /\ state' = [state EXCEPT ![Server][f] = "CONNECTED"]
        /\ Refuse(Server, "PARSE")
        /\ UNCHANGED <<open, local>>
     \/ /\ state' = [state EXCEPT ![Server] = [g \in Files |->
                       CASE g = f -> "CONNECTED"
                         [] g \in asked -> "WAITING_FOR_FILE_DATA"
                         [] g \in {Provide(n)} \ asked /\ PortsIn(g) # {} -> "WAITING_FILE_INFO"
                         [] g \in given -> "WAITING_FOR_FILE_OPEN_REQUEST"
                         [] OTHER -> @[g]]]
        /\ open' = Opened(Server, asked)
        /\ local' = [local EXCEPT ![Server] = @ \cup given]
        /\ Answer(Server, (IF asked = {} THEN <<>> ELSE <<Open(Provide(n))>>)
                          \o (IF given = {} THEN <<>> ELSE <<Publish(Require(n))>>))
        /\ UNCHANGED <<known, error>>
  /\ UNCHANGED <<size, accepted, remote, data, copy, work, writes, overtaken>>

(* The first write of provide port data connects the provide ports, which  *)
(* may fail; later ones are routed.                                        *)
ProvideWritten ==
  LET f == Incoming(Server).file
      v == Incoming(Server).value
  IN
  /\ ReceivesWrite(Server, "provide")
  /\ \/ IF state[Server][f] \in {"WAITING_FOR_FILE_DATA", "CONNECTED"}
        THEN /\ copy' = [copy EXCEPT ![f] = Written(@, v)]
             /\ state' = [state EXCEPT ![Server][f] = "CONNECTED"]
             /\ Answer(Server, <<>>) /\ UNCHANGED error
        ELSE Refuse(Server, "INTERNAL") /\ UNCHANGED <<copy, state>>
     \/ /\ state[Server][f] = "WAITING_FOR_FILE_DATA" /\ f.node \in Fragile
        /\ copy' = [copy EXCEPT ![f] = Written(@, v)]
        /\ Refuse(Server, "CONNECT") /\ UNCHANGED state
  /\ UNCHANGED <<size, accepted, remote, local, open, known, data, work, writes, overtaken>>

(* The client keeps the data and calls the application for each port.      *)
RequireWritten ==
  LET f == Incoming(Client).file
      v == Incoming(Client).value
  IN
  /\ ReceivesWrite(Client, "require")
  /\ copy' = [copy EXCEPT ![f] = Written(@, v)]
  /\ state' = [state EXCEPT ![Client][f] =
                 IF @ = "WAITING_FOR_FILE_DATA" THEN "CONNECTED" ELSE @]
  /\ Answer(Client, <<>>)
  /\ UNCHANGED <<size, accepted, remote, local, open, known, data, work, error, writes,
                 overtaken>>

-----------------------------------------------------------------------------
(* What the I/O thread of s does.                                          *)
InputOutput(s) ==
  \/ Handshake(s) \/ OpenRequested(s) \/ TakeSnapshot(s) \/ WriteStopped(s)
  \/ s = Server /\ (ServerLearnsFile \/ DefinitionWritten \/ ProvideWritten)
  \/ s = Client /\ (ClientLearnsFile \/ RequireWritten)

Next ==
  \/ Connect
  \/ \E s \in Sides : InputOutput(s)
  \/ \E t \in Threads : Queue(t)
  \/ \E t \in Writers : WritePort(t)

(* The I/O threads handle what they receive, and no thread stops between   *)
(* changing data and queueing it.  Nobody has to connect or to write.      *)
Spec == /\ Init /\ [][Next]_vars
        /\ \A s \in Sides : WF_vars(InputOutput(s))
        /\ \A t \in Threads : WF_vars(Queue(t))

-----------------------------------------------------------------------------
(* Properties.                                                             *)

Messages == {Greeting, Acknowledge}
            \cup [type : {"publish", "open"}, file : Files]
            \cup UNION {[type : {"write"}, file : {f}, value : PartialValues(f)] : f \in Files}

Work == {Idle} \cup [step : {"opened"}, file : Files]
        \cup UNION {[step : {"queue"}, file : {f}, value : PartialValues(f)] : f \in Files}

Errors == {"none", "PARSE", "CONNECT", "BUFFER_FULL", "INVALID_WRITE", "INTERNAL",
           "FILE_NOT_FOUND", "NODE_ALREADY_EXISTS", "NOT_IMPLEMENTED", "ASSERTION"}

(* The values the variables may have.                                      *)
TypeOK ==
  /\ size \in [Nodes -> Sizes]
  /\ accepted \in [Sides -> BOOLEAN]
  /\ channel \in [Sides -> Seq(Messages)]
  /\ remote \in [Sides -> SUBSET Files]
  /\ local \in [Sides -> SUBSET Files]
  /\ open \in [Sides -> SUBSET Files]
  /\ known \subseteq Nodes
  /\ state \in [Sides -> [Files -> DataStates]]
  /\ \A f \in Files : data[f] \in [PortsIn(f) -> Values] /\ copy[f] \in [PortsIn(f) -> Values]
  /\ DOMAIN data = Files /\ DOMAIN copy = Files
  /\ work \in [Threads -> Work]
  /\ error \in [Sides -> Errors]
  /\ writes \in Values
  /\ overtaken \subseteq Files

(* Neither side ever receives something the protocol does not let it       *)
(* expect: a connection ends with an error only because the server cannot  *)
(* build a node, cannot connect its ports, or cannot receive a definition  *)
(* (process_message and every handler below it).                           *)
NoProtocolError ==
  /\ error[Client] = "none"
  /\ \/ error[Server] = "none"
     \/ error[Server] \in {"PARSE", "CONNECT"} /\ Fragile # {}
     \/ error[Server] = "BUFFER_FULL" /\ \E n \in Nodes : size[n] > ReceiveBuffer

(* No write is ignored: process_file_write_message drops writes to a file  *)
(* that is not open without telling anybody, so whoever sends one must be  *)
(* certain that the other side has opened the file.                        *)
WritesFindOpenFile ==
  \A s \in Sides : \A i \in DOMAIN channel[s] :
    LET m == channel[s][i] IN
    m.type = "write" => Owner(m.file) = s /\ m.file \in remote[Other(s)] \cap open[Other(s)]

(* The writes of f on their way in s, applied to c in their order.         *)
Arrived(c, s, f) ==
  LET after[i \in 0..Len(channel[s])] ==
        IF i = 0 THEN c
        ELSE LET m == channel[s][i] IN
             IF m.type = "write" /\ m.file = f THEN Written(after[i - 1], m.value)
                                               ELSE after[i - 1]
  IN  after[Len(channel[s])]

(* The owner of f has sent its snapshot, and no thread is about to send    *)
(* something more.                                                         *)
Settled(f) ==
  /\ f \in open[Owner(f)] \ overtaken
  /\ f.kind = "require" => state[Server][f] = "CONNECTED"
  /\ \A t \in Threads : work[t] = Idle \/ work[t].file # f

(* Once a file is open nothing written to it is lost on the way: with what *)
(* is in the channel, the copy of the other side is the owner's data.  The *)
(* open flag is set before the snapshot is taken, data is written before   *)
(* the flag is looked at, and only a write that overtakes another one      *)
(* between changing the data and queueing it can spoil this               *)
(* (remote_route_data_to_file, send_provide_port_data_to_file_manager).    *)
NothingLost ==
  \A f \in Files :
    Settled(f) => Arrived(copy[f], Owner(f), f) = data[f]

(* The server can have the definition of every node: it fits in the        *)
(* buffers on its way.                                                     *)
Fits(n) == size[n] <= SendBuffer /\ size[n] <= ReceiveBuffer

Established(n) ==
  /\ Provide(n) \in FilesOf(Client) => state[Server][Provide(n)] = "CONNECTED"
  /\ Require(n) \in FilesOf(Server) =>
       state[Server][Require(n)] = "CONNECTED" /\ state[Client][Require(n)] = "CONNECTED"

(* After connecting, every node whose definition fits gets all its data    *)
(* files open on both sides and their first data across, unless the        *)
(* connection has ended with an error or the node could not be connected:  *)
(* nobody waits for a message that the other side will not send.           *)
EstablishedInTheEnd ==
  \A n \in Nodes :
    accepted[Server] ~> (Established(n) \/ error[Server] # "none" \/ n \in Fragile \/ ~Fits(n))

(* A definition of the size the configuration allows (cfg.h) is received.  *)
DefinitionsReceived ==
  (\A n \in Nodes : size[n] <= MaxDefinition) => error[Server] # "BUFFER_FULL"

(* When the writes have stopped, both sides of an open file come to agree. *)
AgreeInTheEnd ==
  \A f \in Files :
    <>[](\/ f \notin open[Owner(f)] \/ f \in overtaken \/ error[Server] # "none"
         \/ f.kind = "require" /\ state[Server][f] # "CONNECTED"
         \/ copy[f] = data[f])
=============================================================================
