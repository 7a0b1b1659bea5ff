# Verification of c-apx in TLA+

c-apx is a C implementation of APX: clients describe nodes with *provide ports*
(outputs) and *require ports* (inputs); a server connects ports that have the same
signature and forwards every change of a provide port to the require ports connected
to it. Clients and server exchange files at addresses (RemoteFile protocol): each node
has a definition file, a provide port data file and a require port data file.

This directory holds TLA+ models of the server and the client library, from the text of a
definition and the bytes of a message to the threads that route data, and of the variant
for small devices (APX-ES); TLC configurations that check them on small instances; and TLAPS
proofs about them for instances of any size. Paths are relative to
`src/apx/src` unless they begin with `src/`.

## 1. The system

### Components

| component | sources | state | operations | modelled in |
|---|---|---|---|---|
| Server data routing | `node_instance.c`, `server.c`, `server_connection.c`, `port_connector_change_*.c`, `port_connector_list.c` | connector table and state of each node, change tables, port data, global lock, node locks | open require file, first and later provide write, route, detach | `ServerRouting` |
| Port signature map | `port_signature_map.c`, `port_signature_map_entry.c` | ports attached to the server by signature | connect / disconnect the ports of a node, with change entries as result | `ServerRouting` |
| Connection manager | `connection_manager.c`, `connection_base.c` | active and inactive connections | attach, detach, clean up one connection after the other | `ServerRouting` (detach, clean-up) |
| File manager worker | `file_manager_worker.c`, `command.c` | command queue, semaphore, worker thread | prepare (insert and post), worker loop, stop | `FileManagerWorker`, `Wire` (what a command becomes) |
| Send buffer | `extension/socket_server_connection.c`, `socket_client_connection.c` | buffer, pending bytes, mutex | transmit_begin, transmit_data_message, transmit_end | `FileManagerWorker`, `Wire` |
| File manager and receiver | `file_manager.c`, `file_manager_receiver.c`, `file_manager_shared.c` | files, reception buffer | message received, publish, open, write | `FileSession` (threads and nodes), `Wire` (bytes and fragments) |
| File map | `file_map.c`, `file.c`, `file_info.c` | files by address, the one found last | assign address, insert, find | `FileMap` |
| RemoteFile codecs | `remotefile.c`, `numheader.c` | none | encode, decode | `RemoteFile` |
| Node manager and node data | `node_manager.c`, `node_data.c`, `port_instance.c` | nodes by name, port data buffers | create node on publish, build on definition | `FileSession`, `NodeDefinition` |
| Client | `client.c`, `client_connection.c` | connection, nodes, virtual machine | greeting, acknowledge, publish, open, write, read | `FileSession`, `Wire`, `PortVM` (without disconnecting) |
| Event loop, listeners | `event_loop.c`, `event_listener.c`, `allocator.c` | event queue, exit flag | append, exit, run | not modelled |
| Socket server | `extension/socket_server.c` and the other extensions | listening sockets | accept | not modelled |
| Parser and type model | `stream.c`, `parser.c`, `*_parser.c`, `data_*.c`, `computation.c`, `node.c`, `port.c` | lines, sections, syntax trees | parse, resolve, flatten | `Signature`, `TypeModel`, `Attributes`, `NodeDefinition` |
| Compiler, virtual machine, serializer | `compiler.c`, `program.c`, `decoder.c`, `vm.c`, `serializer.c`, `deserializer.c` | program, cursor and value stack | compile, pack, unpack | `ProgramHeader`, `PortProgram`, `Serializer`, `Deserializer`, `PortVM` |
| APX-ES | `apx-es/file_manager.c`, `apx-es/file_map.c` | message queue, transfer in progress | run, send, receive | `EsFileMap`, `EsFileManager` |
| OS scheduler | `src/autosar/os/src` | task queue, running flag | start, tick, stop | not modelled |
| Applications, test connections | `src/app`, `*_test_connection.c` | none of interest | command lines, test doubles | not modelled |

### How they interact

A server has one I/O thread for each connection. Bytes received go through the receiver
to the file manager, which calls the connection back: a published definition file creates a
node (node manager); opening the require port data file connects the node's require
ports; the first write to the provide port data file connects its provide ports, later
writes are routed. Connecting a port looks it up in the server's port signature map
under the **global lock** and records matches in the change tables of *all* the nodes
involved. Routing walks the node's connector table under the **node's lock**, writes the
receivers' port data and inserts a command in the queue of *another* connection's file
manager; its **worker thread** turns commands into messages and sends them. When a
client disappears, its I/O thread detaches the connection; the **cleanup thread** of the
connection manager stops and joins its threads and frees it.

### What is hard about it

* Four kinds of threads, four kinds of locks, and handlers that give a lock up half-way
  (`node_instance.c:957`, `server_connection.c:571`).
* Pointers to ports of other connections are kept in connector tables and change tables,
  while connections come and go.
* Errors in the middle of a loop (several providers: `APX_NOT_IMPLEMENTED_ERROR`) leave
  part of the work done.
* Two queues between a write and its reception, a batch and a buffer of fixed size.
* A shutdown that is itself a command in such a queue.

`PROJECT.json` lists each hazard with its line and the property that would catch it.

### What makes each component correct

* **Routing**: mutual exclusion of the locks; change tables empty between two holds of the
  global lock; no connection lost whatever the order of arrival; no dangling connector;
  no use of a released node; receivers converge to the latest value; every handler ends.
* **Connection manager**: every detached connection is released, none while in use.
* **Worker and send buffer**: accepted commands are sent once, in order, all of them;
  no lost wake-up; nothing discarded; stopping returns; the mutex is unlocked by its owner.
* **File session** (receiver, file managers, node manager, client): neither side receives a message that the
  protocol does not allow at that point; no write is ignored; nothing written to an open file is lost on
  the way; every node gets established, and both sides agree once writing stops.
* **File map, codecs, wire**: files do not overlap; a file is at the same address on both sides; decode inverts
  encode; however the transport cuts the stream, what was written arrives once, in order, at its place.
* **Definitions**: a text gets the verdict and the error line that it deserves, whatever was read before;
  a type reference means its type; initial data are the declared values; what is shared
  under a key, or connected by a signature, is the same thing.
* **Virtual machine**: what fits is accepted, what does not is refused, and what was accepted is read back, whatever
  the programs before left behind; sizes are those that the header says.
* **APX-ES**: no requested file is forgotten when the link is lost; fragments of a message are put together again;
  both devices agree in the end, as long as no queue overflows.

## 2. The modules

### `ServerRouting`

One action is a stretch of a thread's code that no other thread can tell from its parts.
What is done to data guarded by a lock that the thread holds is one step; every access to
port data, every insertion in a queue and every change of a connector table is a step of
its own. `pc[c]` says what the I/O thread of connection `c` does next, `job[c]` holds
its local variables (`todo` is the part of the change table that the loop has left).

| code | actions |
|---|---|
| `file_open_notify` of a require file (`node_instance.c:1163`) | `OpenRequireFile`, then `InsertConnector`, `ReadProvideData`, `WriteRequireData` for each port, then `TakeSnapshot`, `SendSnapshot`, or `ConnectRequireFails` |
| first write to the provide file (`node_instance.c:1313`) | `FirstProvideWrite`, `ConnectProvidePorts`, then `InsertOwnConnector`, `ForwardToNode`, `ForwardToClient` for each connection, then `ProvideConnected` |
| later writes (`node_instance.c:1358`) | `ProvideWrite`, `LockForRouting`, `ForwardToNode`, `ForwardToClient` for each receiver, `RoutingDone` |
| connection lost (`connection_manager.c:136`, `server_connection.c:537`) | `DetachConnection`, `DetachAllNodes`, `ClearConnectorTable`, `RemoveConnector`, `Detached` |
| worker thread | `Transmit` (the abstract view of `FileManagerWorker`: a FIFO) |
| cleanup thread (`connection_manager.c:242`) | `CleanupBegin`, `CleanupEnd` |

Abstractions and assumptions:

* A port's value is the number of the write it comes from. The first write of a provider
  covers its whole file, a later one a single port.
* The two lists of a signature map entry are a set. This is exact as long as a client opens
  its require file once; a second open would attach the ports twice.
* The bytes of one port are read and written in one step.
* The queue has no bound here; that it has one in the code is the subject of `FileManagerWorker`.
* A client that went away receives nothing (`Attending`). Closing a socket joins its
  I/O thread: the msocket library is external.
* Nodes are built before the model begins: a node exists with its files published, and is
  in the state in which `apx_nodeInstance_attach_to_file_manager` leaves it.
* `Overlap` is the set of the signals whose providers may write while a require file is being opened. `ConvergedWhenQuiet`
  speaks of the other signals; it states the condition under which `Converged` holds.

### `FileManagerWorker`, `CommandChannel`

`Prepare(p)`/`Post(p)` are the two halves of every `apx_fileManagerWorker_prepare_*` (the
insertion under the spinlock, and the post of the semaphore); `WaitSemaphore`,
`ReadLength`, `TransmitBegin`, `RemoveCommand`, `RunCommand`, `ReadLengthAgain`, `BatchDone`,
`RunExit` and `ExitDone` are the worker's loop (`file_manager_worker.c:522`);
`StopInsert`, `StopPost`, `StopJoin` are `stop_worker_thread`.
`accepted` and `wire` are histories that no guard reads.

* Every command is one message of size 1, and fits in the empty send buffer. The room
  left is computed as in the code, without a sign: `send_packet` clears the buffer, so that
  after a flush in the middle of a batch `length - pending_bytes` wraps and every
  later message of the batch "fits". The memory behind the buffer is not modelled. A message that is
  larger than the buffer is refused by `transmit_data_message` and dropped by the worker; the model
  has no such commands.
* The sources named are those of the server; `socket_client_connection.c` has the same buffer.

`CommandChannel` is what the component promises: a channel that accepts commands and
delivers, in order and once, those accepted before EXIT (`Due`), and in the end all of them.

### `FileSession`

One client and the server. `channel[s]` is everything between `s` queueing a message and the
I/O thread of the other side handling it: command queue, send buffer, socket and reception buffer. An I/O thread
handles one message at a time, and what it does is one action, except for an open request: the file is
marked open, its snapshot is taken and the snapshot is queued in three steps, because
threads of the application (on the client) and routers (on the server) write the same file at the same time.
`work[t]` is what a thread is in the middle of.

| code | actions |
|---|---|
| the client attaches its nodes, connects and greets (`client.c`, `client_connection.c:158`) | `Connect` |
| greeting, acknowledge, publishing of the local files (`file_manager.c:128`) | `Handshake` |
| a file is published: `server_connection.c:319`, `client_connection.c:315` | `ServerLearnsFile`, `ClientLearnsFile` |
| an open request and its notification (`file_manager.c:456`, `node_instance.c:1163`) | `OpenRequested`, `TakeSnapshot`, `Queue` |
| a port is written (`client.c:446`, `node_instance.c:1674`) | `WritePort`, `Queue` |
| a write that is too large, or for a file that is unknown or closed (`file_manager_receiver.c:165`, `file_manager.c:433`) | `WriteStopped` |
| a definition: the node is built and attached (`node_manager.c:156`, `node_instance.c:1416`) | `DefinitionWritten` |
| provide port data at the server (`node_instance.c:1313`) | `ProvideWritten` |
| require port data at the client (`node_instance.c:1298`) | `RequireWritten` |

Abstractions and assumptions:

* A file is a node and a kind. How addresses identify files is the subject of `FileMap`;
  what this module needs of it, the order in which files are published, is in `LocalFileLists`.
* A size matters for definitions only; port data is assumed smaller than both buffers.
* The channel keeps the order and loses nothing: the first is what `FileManagerWorker` shows of the command
  queue, the second supposes that the queue does not overflow (`StopReturns` and `worker_delivers` are
  about queues that do). Messages are whole, since the senders of the repository never split one.
* After `on_data_received` has returned -1 the socket is not read any more. This is how msocket, which
  is external, is taken to behave.
* The server may fail to parse, or to connect, the nodes in `Fragile`. Which definitions these are
  is the business of the parser and of `ServerRouting`; the choice is left open.
* What connecting writes into require port data belongs to `ServerRouting`. A router
  here writes to any file that is open, which includes those that are being connected.
* The connection is not closed and not made again.
* `overtaken` is a history, read by the properties only: the files in which a thread has queued the newest value of a
  port while another thread still had an older value in hand. The code has no lock from changing the
  data to queueing it, so the older value arrives last; the properties about data are stated of the other files.

### `ProgramHeader`, `PortProgram`, `Serializer`, `Deserializer`, `PortVM`

`PortProgram` compiles a data element to instructions, as `compiler.c` does, with the header of `ProgramHeader`;
`Serializer` and `Deserializer` are the calls that an instruction becomes, each an operator from a machine (error code,
stack, buffer with its cursors) to the machine after the call; nothing is undone when a call fails. `PortVM` is the client's one
machine with its decoder: `WritePort` and `ReadPort` load a program, `RunPack`, `RunUnpack`, `RunCheck`, `RunSelect`
and `RunNext` are the instructions, `FinishWrite`, `FinishRead` and `GiveUp` the three ends.

* A number has the range of its type for bytes of `Base` values; the code has 256. Limits and lengths keep
  the width they are encoded with.
* Declarations are what the compiler accepts. Left out are queued reads and writes, which only the tests call, and
  the empty arrays of the known defect 5 below.
* The bytes written to a port are the bytes read from it; their way is the subject of the other modules.

### `Signature`, `TypeModel`, `Attributes`, `NodeDefinition`

`Signature` parses data signatures and turns elements back into text; `TypeModel` resolves references, flattens the element of
a port and derives initial values; `Attributes` parses what follows the colon. `NodeDefinition` puts them together:
`build_node` (client) and `build_node_from_data` (server) begin a text, `NewLine` and `CloseStream` are the calls of the stream
with one line each, `FinishBuild` everything that follows the parser. `results` is the history of verdicts.

* A text is a sequence of lines of tokens. What single characters can do (names that are too long, numbers that overflow, escapes,
  real numbers) is left out.
* A text is written to the stream at once, as the node manager does.
* The properties state their exceptions by name: `IsPlain` (declarations whose meaning the program changes: limits of a byte,
  arrays of arrays, arrays of a type inside a record, types dropped without an error), `clean` (a text that follows a
  refused one finds its rest in the stream), and the verdict `undefined`.

### `RemoteFile`, `FileMap`, `Wire`

`RemoteFile` has lengths, addresses and commands as sequences of bytes, `FileMap` the list of files of one side, and `Wire` a client
and a server that exchange these bytes.

| code | actions |
|---|---|
| nodes are attached (`node_instance.c:1374`), connecting and greeting (`client_connection.c:158`) | `Attach`, `Connect` |
| bytes arrive, in pieces of any size in `Chunks` (transport) | `Arrive` |
| greeting and acknowledge (`server_connection.c:487`, `client_connection.c:370`) | `GreetingReceived`, `AcknowledgeReceived` |
| a published file, an open request (`file_manager.c:475`, `:456`) | `FilePublished`, `OpenRequested` |
| data, whole or in fragments; a complete definition (`file_manager.c:433`, `node_manager.c:260`) | `FileWritten` |
| a fragment that is not the last, and what the file manager ignores | `NothingToDo` |
| a write to an open file (`node_instance.c:1685`) | `WriteLocalFile` |

* A byte has `Base = 8` values when TLC runs, and the constants of `remotefile.h` are the same fraction of a word, so that files lie on
  both sides of the boundary between two- and four-byte addresses.
* No sender of this code splits a message. So that the receiver's half is exercised all the same, the client of the run stands for
  another implementation of the protocol that does (`FragmentSize`).
* A command is queued and sent in one step: `FileManagerWorker` shows that queue and buffer keep the order. That
  several messages share the send buffer is left out.
* The data of a file have one content at a time; `meant` and `got` are histories of the writes, compared
  by the abstract `CommandChannel`.

### `EsFileMap`, `EsFileManager`

Two devices that run `apx-es/file_manager.c`, connected by a link that may be lost with all that is on its way.

| code | actions |
|---|---|
| `attachLocalFile`, `requestRemoteFile` | `Attach` |
| `onConnected`, `onDisconnected` | `OnConnected`, `OnDisconnected` after `LinkUp`, `LinkLost` |
| `run`, a whole call with all it sends | `Run` |
| `onMsgReceived` | `OnMsgReceived` |
| a write to a file with `triggerFileUpdate` or `triggerDirectWrite` | `WriteFile` |

* Sizes count in the model as in the code (headers, thresholds, room in the link), with smaller numbers.
* The ring buffer, `apx_file_write` and the node data are external: the sources of APX-ES are written for an older version of the
  library and are not part of the build.
* Files are attached before connecting, the definition first, as the tests do (see defects 11 and 12).
* `misread` and `dropped` are histories for the properties.

### `MC…`, `…_proofs`

`MCServerRouting` holds the topologies, `MCFileManagerWorker` the model values, `MCFileSession` the ports of the nodes,
`MCNodeDefinition` the definitions, `MCPortVM` the declarations and their values, `MCWire` the sizes of the files,
`MCEsFileManager` the files of the devices and what is written to them; the `_proofs` modules hold the theorems, and `SequenceLemmas` lemmas that they share. Definitions called *faulty variant* or *defect* are not used by
the specifications: they are plausible mistakes which the properties are known to catch.

## 3. What is checked

| run | instance | question and result |
|---|---|---|
| `routing_fanout` | one provider, two requesters, 2 values, symmetry in the requesters | Clients come, open, write and go in any order. Types, locks, confined change tables, no lost connector, no dangling port, no released node met while connecting or routing: holds |
| `routing_fanin` | two providers of one signal, one requester, 2 values | Connecting fails in the middle: no connection is lost for that. Holds (the other invariants of `routing_fanout` do not hold here: defect 14) |
| `routing_live` | one sender, one receiver, two signals, one of them in `Overlap` | Handlers end, detached connections are released, and the signal that is not in `Overlap` converges: holds |
| `routing_stale` | two clients that feed each other, all signals in `Overlap` | `Converged` is violated: a write during the opening of the require file is overwritten by the older value |
| `routing_freed` | the same | `NoUseAfterFree` is violated: detaching without the global lock reaches the nodes of a connection released in between |
| `worker_delivers` | 2 producers, 5 commands, queue of 2, buffer of 2 | Implements `CommandChannel`, keeps the order, loses no wake-up, and stopping returns when EXIT was accepted: holds, with a queue that overflows and a buffer that flushes |
| `vm_roundtrip` | 2 ports, twelve declarations, 3 operations, bytes with 4 values | Writes are judged as declared, reads return what was written, sizes are those of the header: holds |
| `definition` | 3 of thirteen texts, in a client or a server, bytes with 4 values | Verdicts, error lines, elements, initial data, shared items, signatures: hold |
| `wire` | 2 nodes, 5 files, bytes with 8 values, pieces of 17 or 70 bytes, 1 write in each direction | Files disjoint, nothing refused, maps mirror each other, and the bytes implement a `CommandChannel` of writes in each direction: holds |
| `es_manager` | 2 devices, 3 files, queue of 2, link of 9 bytes, 2 writes or losses of the link | No file forgotten, no fragment dropped, both devices agree in the end: holds |
| `session_agrees` | 2 nodes (one fragile), 2 ports, 2 application threads, 1 router, 2 writes, definitions of 100, 2000 or 5000 bytes | No message out of protocol, no write ignored, nothing lost, every node whose definition fits gets established, both sides agree in the end: holds |
| `session_definition` | one node with a definition of 2000 bytes | `DefinitionsReceived` is violated: the receiver refuses it |

The bounds. Every interaction in the code is between two connections; a third one is
there for what two receivers or two providers do to each other. Two values are the least
for a stale value to exist (0 is the initial value, 1 the first, 2 a later one). Two ports on a node are the least
for which a loop stops half-way. In the worker, five commands overflow a queue
of 2 and fill a buffer of 2 in one batch in every combination with EXIT.
In a session two nodes are needed for messages of one to come between those of the other, two application
threads and two writes for one write to overtake another, and one router for a write between the opening of a require
file and its snapshot. The buffers have the sizes of the code (`RMF_CMD_AREA_SIZE` 1024, send buffer 4096), and the three sizes
of a definition are one that fits in both, one that fits in the send buffer only, and one that fits in neither.
In `vm_roundtrip` two ports share the machine, so that one program can spoil the next; three operations are a write that is given up, a
write or read of another port, and a read. The declarations have limits, arrays with one- and two-byte lengths, strings, bytes, nested
records and arrays of records. In `definition` three texts are a bad one between two good ones, or the same text twice with
another in between; two of the thirteen use every kind of declaration, the others fail each at another place.
In `wire` the files of the second node lie across the boundary of the address forms; pieces of 17 bytes cut every message
that is longer somewhere, 70 bytes hold several; one write in each direction meets fragments of the other.
In `es_manager` a file of 9 bytes needs two messages, the queue of 2 overflows, and two events, each a write or a loss of the
link, are the least for a write to be merged with another, to meet a transfer, or to follow a reconnection.
`vm_roundtrip`, `wire` and `es_manager` do not look for deadlocks either: their bounds end them.
`session_agrees` and `session_definition` do not look for deadlocks: a session comes to rest when all is sent and written.
That it does not come to rest too early is `EstablishedInTheEnd`.

### Fairness

* The I/O threads, the worker threads and the cleanup thread are scheduled:
  weak fairness of `Continue(c)`, `Transmit(c)` and `Cleanup`, and of the worker's
  and stopping thread's steps. No client is obliged to do anything: `Request(c)` is not fair, nor is `Prepare`.
* Weak fairness of a step that needs a lock does not promise that lock to a thread against endless
  competition. `HandlersEnd` holds all the same because the number of writes is bounded by `MaxVersion`, so
  that competition ends. The claim is freedom from deadlock and from a lock that is
  never given up, not fairness of the mutexes.
* In a session the I/O threads are scheduled, and a thread that has changed data goes on to queue it:
  weak fairness of `InputOutput(s)` and `Queue(t)`. Nobody has to connect (`Connect`) or to write (`WritePort`).
* On the wire the transport goes on delivering (`Arrive`), and the loop of an I/O thread parses as long as a whole
  message has arrived: weak fairness of the steps that take bytes off the inbox when it `Parses`.
* A small device goes on calling `apx_es_fileManager_run`, and takes messages that have arrived: weak fairness of `Run` and
  `OnMsgReceived`. The link need not come up; `SyncedInTheEnd` speaks of behaviours in which it does and stays up.

### Findings

1. `node_instance.c:964`: the snapshot that connecting takes of the provide data is read
   after the provider's lock has been released, and may overwrite a newer value
   (`routing_stale`). `ConvergedWhenQuiet` shows that this window is the only one.
2. `server_connection.c:575`: the rest of `detach_all_nodes` runs without the global lock and follows
   pointers to nodes of other connections (`routing_freed`). `RoutedNodesAlive` shows that
   connecting and routing do not have the problem while each required signal has one provider (with several, see defect 14).
3. `file_manager_receiver.c:173`: a definition of more than 1024 bytes ends the connection, while
   `cfg.h:19` allows definitions of 8 MB (`session_definition`). The buffer is
   `RMF_CMD_AREA_SIZE` bytes and nothing enlarges it, nor would splitting the message into fragments help.

Known defects that no run is spent on, met while the code was modelled; the model does what the code does, and where a
property could not hold for that reason it says so:

4. `file_manager_worker.c:580`: after EXIT the worker calls `transmit_end` a second time, when it does not hold the mutex.
5. `deserializer.c:1355`: an empty dynamic array, which a test declares as initial value
   (`src/apx/test/testsuite_compiler_unpack.c:283`), is written and then refused when it is read.
6. `data_element.c:186`: the limits of an element of type byte are not copied when the element is cloned.
7. `port.c:269`, `compiler.c:662`: the array length of a type reference inside a record counts for nothing.
8. `stream.c:172`: a refused line stays in the stream and is read again in front of the next definition.
9. `node_manager.c:406`: a port that cannot be compiled is noticed only if it is the last one of its direction.
10. `apx-es/file_manager.c:626`: a large write that begins inside a file is read from the file's beginning, and its
    fragments are dropped by the receiver (968). Line 735 looks for messages that can never be sent, with a length that is zero by then.
11. `apx-es/file_map.c:181`: port data, definition, port data in this order gives both port data files address 0.
12. `apx-es/file_manager.c:93`: a file that is attached while connected is never published.
13. `file.c:300`: `apx_file_get_size` drops the size and answers 0. `client_connection.c:433`: the address is compared also
    when nothing was decoded. `node_manager.c:280`: the result of attaching the files of a built node is ignored.
14. `node_instance.c:1506`: when a signal has several providers, connecting fails half-way; the node keeps waiting for its open request,
    but its require ports stay in the signature map. Detaching takes out the ports of connected nodes only
    (`server_connection.c:597`), so that a later provider finds a node that has been released. On the topology of `routing_fanin`
    TLC violates `NoDanglingPort` and `RoutedNodesAlive` in this way.

## 4. What is proved

The proofs hold for every topology, any number of connections, nodes, ports, values, threads,
producers and commands, and every capacity, under `TopologyAssumption`, `WorkerAssumption`, `SessionAssumption`,
`WidthAssumption`, `RemoteFileAssumption`, `FileMapAssumption`, `WireAssumption` and `EsFileManagerAssumption` (no port belongs to two nodes, capacities are positive, EXIT is not a data command, threads of different kinds are
different, and what is said of numbers below). Three hypotheses stand in the theorems that need them: `OneProvider` in three about routing,
`PortDataFits` in two about the session and `SizesFit` in those about the wire; all are explained where they are used.

`FileManagerWorker_proofs`. The inductive invariant is
`TypeOK /\ WorkerControl /\ OrderKept /\ NoLostWakeup`. `OrderKept` is not inductive alone: `transmit_begin`
empties the send buffer, which is harmless only because the buffer is empty whenever the worker is outside a
batch, and `RemoveCommand` takes the head of the queue, which exists only because the length was
read before; both facts are in `WorkerControl`, which ties the worker's position to
queue, mutex and buffer. With it each step moves the head of one part of
`wire \o pending \o InHand \o queue` to the part before it, or appends to both sides.
Theorems: `TypeCorrect`, `OrderIsAlwaysKept`, `NoWakeupIsLost`, `NothingIsDiscarded`, and
`ImplementsChannel`: every step is a step of `CommandChannel` or a stutter
(`CommandsInFrontAreDue` is the lemma that whatever is ahead of other commands was accepted before EXIT).

`ServerRouting_proofs`. `LocksInv` consists of the types of the control variables, `LocksHeld`,
`ChangesConfined`, and `SnapshotAfterClear` (between the snapshot and its sending the change tables
are empty already, without which `SendSnapshot` would not keep `ChangesConfined`). It is proved
inductive first, on its own; `TypesInv` adds the types of the data, which need to know what a `job` can hold at each `pc`.
Theorems: `LocksAreHeld`, `ChangesAreConfined`, `TypeCorrect`.

The second half of the module goes on from there, with three invariants, each proved with the help of those before it.

* `TablesInv` ties the signature map, the connector tables and the `todo` sets of all threads together: the map holds the provide ports of the connected nodes,
  and at least the require ports of the connected nodes; and two connected ports that match are linked, or a thread is about to link them.
  `NoLostConnector` alone says nothing of the middle of a loop over ports; that the thread which attaches second finds the other port in the map is what
  carries the argument, and it is the global lock that lets nothing come in between (`LockIsFree`). Detaching clears the connectors of its own
  ports only, so no other pair is unlinked. Theorem: `NoConnectorIsLost`, for any number of providers.
* `LiveInv` says the converse: a port in the map, or in the connector table of a provider that is still there, belongs to a connection that is still there, or its
  thread is about to take it out. It holds under `OneProvider`, that no two provide ports have the signature of one require port. The hypothesis is
  needed: with several providers connecting fails half-way and leaves ports behind (defect 14).
  Theorems: `NothingIsLeftBehind`, `RoutedNodesAreAlive`.
* `FlowInv` follows a value from the provider to the client. Between a connected provider and a connected requester the newest value is
  pending (in the `todo` set, the hand or the next step of the provider's thread), or the server's copy has it and a message with it is the last one about
  that port in the queue, or in the snapshot to come (`OnItsWay`). That a queue ends with the right value is stated by its last message about the port (`Ends`), so no
  induction over the queue is needed. While a requester connects, each value is copied or still to be copied (`Copying`, `Copied`): this fails for the
  ports in `Overlap`, which may be written in that window (finding 1), and the proof shows that it fails for no other reason. `OneProvider` is
  used because otherwise two providers write the same copy. Theorem: `NewestValueArrives` (`ConvergedWhenQuiet`).

`FileSession_proofs`. The inductive invariant is `SessionInv`: `TypeOK`, `MapsAgree` and `ChannelsWelcome`.
What is wanted is `WritesFindOpenFile`: a write finds its file open at the other side, or else it would be dropped
without notice. A write is queued when the file is open at its *owner*, which says nothing of the other side. It takes
two more facts. `MapsAgree` is about files: a file that is open at its owner is in the maps of both
sides, and open at the other side. `ChannelsWelcome` carries the same through the messages
in flight: whoever asks for a file has opened it before it asks, so that an open request on its way, and later
the writes on their way back, are *welcome* at the end. Files are only ever added to maps and to the open files, so that a
message that is welcome stays so (`DefinitionWritten` and `Handshake`, which queue several messages at once, are the long steps).
Theorems: `SessionInvariant`, `SessionTypes`, `WritesAreReceived`, `FileMapsAgree`.

The rest of the module is about the order and the content of messages, again with two invariants.

* `ProtocolInv`: everything is asked for once. For each file at most one message that publishes it, asks for it or carries a definition is on its way, and only
  as long as the receiver has not seen it; a node's port data are published before its definition. Each handler takes one such message and may send the next
  one of the file's life, so the lemmas about queues (`TailTokens`, `ConcatTokens`, `AnswerTokens`) do most of the work.
  Theorem: `NothingUnexpected` (`NoProtocolError`).
* `DeliveryInv`: the newest value of every port of an open file is in the hand of a thread that is about to send it, or in the snapshot to come, or it is the last to arrive
  and no thread has an older one in hand, or the file is not connected. `NothingLost` speaks of the fold of all writes over the
  channel; `ArrivedEnds` shows that the fold yields what the last write of each port says, with the recursive function given
  explicitly and compared at a least index of disagreement (`LeastExists`), since induction is not available. Theorem: `NothingIsLost`.
* Both theorems assume `PortDataFits`: the port data of a file fit in the send and the receive buffer. The code does not check this when a node is
  attached, and larger data would never arrive. Definitions may have any size.

`ProgramHeader_proofs`. `HeaderRoundTrip`: for every width of the integers, every element size and every queue length, the
virtual machine reads from a header what the compiler was given, although the queue length is not stored
but computed from two sizes; it needs that each size is stored in a width in which it fits, and that nine variants
are distinguished by one number (`WidthAssumption` says that the three limits grow and that the largest is at least 4).

`FileMap_proofs`. The encodings first. `AddressRoundTrip`: an address that the file map can assign, encoded with or without the *more* bit,
in two bytes or in four, is decoded to the same address, the same bit and the number of bytes that were written,
whatever follows them; for bytes of any number of values that is a multiple of four. `LengthRoundTrip` says the same of the
length in front of a message, `PublishRoundTrip` and `OpenRoundTrip` of the two commands, name and digest included. The lemmas take a number
apart into digits, and a sequence into its parts, and put them together again. Then the list of files. `CreatedFilesStayApart`: in a list of files that do not overlap,
every file that `create_file` accepts leaves such
a list, for any addresses, alignments and starts of the areas. The code compares a new file with its neighbours
only, and with the right one only if there is one; the lemma `InsertedApart` shows that order makes this enough.
`AssignedBehindItsType`: the assertion about the left neighbour holds when the address is assigned behind a file of the same type.
It need not hold for the first file of a type, when an earlier area has overflown; that no area does is part of what follows.

`Wire_proofs` is about the session of `Wire`, for any nodes, sizes, fragments, cuts of the stream and numbers of writes. The
first half of the module, up to `OtherFacts`, has the parts: a data message is read as it was written as soon as it has arrived as a whole, whatever follows it and
wherever it was cut (`MessageRead`); a *packet* is what a message means (the file, the offset, the whole data, and which piece of
them it carries), `Encoding` its bytes, and a queue of packets has bytes, files and writes (`BytesFirst`, `ContiguousConcat`, `WritesInType`); the fragments of
a write are such packets (`FragmentParts`); and what create_file makes of the files of a node (`AutoCreated`).
The second half has the inductive invariant `WireInv`, which consists of

* `Typed`: the types, and that nothing was refused;
* `Lists`: the client's files are the provide port data files and behind them the definitions, the server's are require port data files, and
  the k-th file of an area lies within the first k *shares* of it, a share being the area divided by the number of nodes.
  The order is what makes an assigned address lie behind its left neighbour, the count what keeps an area from overflowing;
* `Phase`: the session is `Attaching`, the client `Greets`, the server has `Answered`, or both are `Exchanging`. In the last there are queues `q` of packets such that what
  is in the inbox and the stream of a side is exactly their bytes, and its receiver holds the beginning of the first of them; what
  a side knows of the other's files, followed by the files in its queue, is the other's list; what was written to a side is what it got,
  followed by the writes in its queue; every write or open request on its way finds its file known and open (`AllPlaced`, `Linked`);
  and every definition is asked for, written and built once (`AskedOnce`, `WrittenOnce`, `BuiltFrom`), without which a node would publish its require port data twice.

None of the properties is inductive alone, since all of them depend on bytes that nobody has looked at yet. A step takes a whole packet from one queue and puts packets at the end of the other; `RunningStep` says
once what every such step keeps, and each handler is shown to be one (`PublishedStep`, `OpenStep`, `WriteStep`, `BuildStep`, `LocalStep`, `NothingStep`, `ArriveStep`; `GreetingStep` and
`AcknowledgeStep` begin the queues). Theorems: `WireTypes`, `WireFilesDisjoint`, `WireNeverRefused`,
`WireMirrors` (`RemoteMapMirrors`), and `WireImplementsChannels`: every step is one of the two channels of `WritesDelivered`, or a stutter. Together with `FilesDisjoint` this says that an
address names one file on both sides, although only addresses travel.

`SizesFit` is what the theorems assume of the constants: a file of a node fits in the reception buffer (finding 3 is about one that does not), a message in the send
buffer, and each file, with what alignment skips, in the share of a node in the area that `file_map.c` reserves for its type. No code checks any of it in advance; where it fails, files are refused while the session
goes on. `MCWire` asserts that the run meets it.

`EsFileManager_proofs` is about two devices with any files, sizes and queue lengths, and any number of writes and losses of the link. The inductive invariant
`EsInv` says of each manager

* `Orderly`: what is in the queue or pending is a command of one of the five types, about a local file if it is to be sent and about a remote file if it
  is to be opened; a large write and a pending message exclude each other; an open file is a local or a remote one;
* `Kept`: the requested and the remote files are together those that the application requested, each of them once; from the distinct names it follows that
  there is room in the list of requests when the remote files return to it (`KeptCount`);
* that without a connection there are neither remote nor open files;

and that messages of three types only are on their way. `NoFileForgotten` alone is not inductive: an open command waits in the queue, or in the middle of
a call of run, for a file that a loss of the link has meanwhile taken out of the remote ones, unless the queue is emptied with it. A call of run is a loop of sends, each a
transformation of the same record, so the lemmas show of one after the other that it keeps the record `Working`; the loops, and the lists
that grow file by file, are functions that are given explicitly and compared at a least index of disagreement. Theorems:
`NoFileIsForgotten` (`NoFileForgotten`) and `RunAssertionHolds`: the assertion in run (`file_manager.c:345`) cannot fail, which is the first half of `FragmentsContinue`.
`EsFileManagerAssumption` says that an application requests files of different names, and no more than there is room for; the code drops the others without an error.

`SequenceLemmas` has what several of these modules need: least and greatest numbers of a set, and what inserting into a sequence and removing from it return.

### Only model-checked

The properties of `definition` and `vm_roundtrip`: parser,
compiler, serializer and the meaning of a signature are recursive, and the modules of the virtual machine
that only TLC's runs use declare RECURSIVE operators. Of `es_manager` that no
fragment is dropped unless its file was misread, the second half of `FragmentsContinue`: it relates the buffer of one device to the write in hand at the other one and to all fragments
between them, for which the proof would need the packets of `Wire_proofs` once more. And the liveness
properties `HandlersEnd`, `DetachedIsReleased`, `StopReturns`, `EstablishedInTheEnd`, `AgreeInTheEnd`, `SyncedInTheEnd` and the liveness part of
`DeliversInOrder` and `WritesDelivered`, which are out of the prover's reach.

## 5. Not modelled, and why

Text logging, command lines and JSON handling of the applications are input and output
without state of interest. The event loop hands events to listeners that log them; the socket server accepts
sockets through msocket; the OS scheduler is a test environment that nothing of APX depends on. The libraries adt, msocket and cutil
are not part of the repository; they are modelled through their use (ring buffer, list, byte array, socket). Windows
branches differ from the POSIX ones in the join timeout only and are left out.

Within the modelled components: running out of memory; removal of files and the 16-bit form of a length, which only tests call;
the node cache, which nothing fills; files with the number of ports, which nothing creates; the bytes of several messages in one send
buffer (`socket_server_connection.c:367` computes the room left without a sign); a client that disconnects
and comes back in the same process.

## 6. What could be added

1. A composition of `FileSession` and `ServerRouting`, in which the first write of a provider covers a part of its file only
   (`node_instance.c:1327`) and queues of receivers overflow; with it `NothingIsLost` and `NewestValueArrives` would become one theorem from one
   application to the other.
2. The same for `Wire` and `FileSession`: that the messages of a session are what the packets of `Wire_proofs` mean, so that one refines the other.
3. For APX-ES that fragments continue: a queue of messages as in `Wire_proofs`, cut by losses of the link.
