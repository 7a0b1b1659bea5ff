-------------------------------- MODULE Wire --------------------------------
(***************************************************************************)
(* A client and the server talk RemoteFile over a byte stream: what one    *)
(* side writes to a file, encoded, cut into any pieces by the transport,   *)
(* parsed, reassembled and mapped back from an address to a file and an    *)
(* offset by the other (server_connection.c, client_connection.c,          *)
(* file_manager.c, file_manager_receiver.c, file_manager_worker.c,         *)
(* node_instance.c, on top of FileMap and RemoteFile).                     *)
(*                                                                         *)
(* FileSession looks at the same session without bytes, addresses and      *)
(* pieces, but with the states of the nodes and the threads of the         *)
(* application.  Here a write is queued and sent in one step, which        *)
(* FileManagerWorker justifies: queue and send buffer keep the order.      *)
(***************************************************************************)
EXTENDS FileMap

CONSTANTS
  Nodes,          (* the nodes of the client, numbers that are bytes       *)
  DefinitionSize, (* of each node: the size of its definition              *)
  ProvideSize,    (* and of its provide and require port data, 0 for none  *)
  RequireSize,
  FragmentSize,   (* of each side: messages with more data are sent in     *)
                  (* fragments; this code never does, another peer may     *)
  SendBuffer,     (* default_buffer_size of the socket connections         *)
  Chunks,         (* the numbers of bytes the transport delivers at once   *)
  MaxWrites       (* bound: writes of a side after a file was opened       *)

Client == "client"
Server == "server"
Sides == {Client, Server}
Other(s) == IF s = Client THEN Server ELSE Client

ASSUME WireAssumption ==
  /\ Nodes \subseteq Byte \ {0}
  /\ {DefinitionSize, ProvideSize, RequireSize} \subseteq [Nodes -> Nat]
  /\ FragmentSize \in [Sides -> Nat \ {0}]
  /\ SendBuffer \in Nat /\ MaxWrites \in Nat
  /\ Chunks \subseteq Nat \ {0}

VARIABLES
  connected,  (* the transport is connected and the greeting has been sent *)
  accepted,   (* is_greeting_accepted of each side                         *)
  local,      (* local_file_map and                                        *)
  remote,     (* remote_file_map of each side                              *)
  opened,     (* is_file_open: the names of the open files, of each side   *)
  known,      (* nodes the server has created, from a published definition *)
  receiver,   (* the receiver of each side: start address and data so far  *)
  stream,     (* bytes on their way to each side                           *)
  inbox,      (* bytes that have arrived at it and are not parsed          *)
  rc,         (* its last error; the connection ends with the first        *)
  meant,      (* history: the writes the other side has sent to it         *)
  got         (* history: the writes its files were given                  *)

vars == <<connected, accepted, local, remote, opened, known, receiver, stream, inbox, rc,
          meant, got>>

Reset == [start |-> INVALID_ADDRESS, data |-> <<>>]
Write(name, offset, data) == [name |-> name, offset |-> offset, data |-> data]

Init ==
  /\ connected = FALSE
  /\ accepted = [s \in Sides |-> FALSE]
  /\ local = [s \in Sides |-> EmptyMap]
  /\ remote = [s \in Sides |-> EmptyMap]
  /\ opened = [s \in Sides |-> {}]
  /\ known = {}
  /\ receiver = [s \in Sides |-> Reset]
  /\ stream = [s \in Sides |-> <<>>]
  /\ inbox = [s \in Sides |-> <<>>]
  /\ rc = [s \in Sides |-> "ok"]
  /\ meant = [s \in Sides |-> <<>>]
  /\ got = [s \in Sides |-> <<>>]

-----------------------------------------------------------------------------
(* What a side sends.                                                       *)

(* transmit_data_message: length, address and data.                         *)
DataMessage(address, more, data) ==
  LET size == rmf_needed_encoding_size(address) + Len(data)
  IN IF size > SendBuffer THEN <<>>
     ELSE numheader_encode32(size) \o rmf_address_encode(address, more) \o data

Command(data) == DataMessage(CMD_AREA_START, FALSE, data)

(* The data of a file from an address on, in fragments of side s.           *)
FileData(s, address, data) ==
  LET size  == FragmentSize[s]
      count == (Len(data) + size - 1) \div size
      Fragment(i) == DataMessage(address + (i - 1) * size, i < count,
                       SubSeq(data, (i - 1) * size + 1, Min({i * size, Len(data)})))
  IN FlattenSeq([i \in 1..count |-> Fragment(i)])

Publish(f)    == Command(rmf_encode_publish_file_cmd(f))
OpenFile(f)   == Command(rmf_encode_open_file_cmd(Start(f)))
Acknowledge   == Command(rmf_encode_acknowledge_cmd)

Sends(s, bytes) == stream' = [stream EXCEPT ![Other(s)] = @ \o bytes]

(* The greeting: lines of text, the last one empty.                         *)
NewLine == 2
Greeting == <<1, NewLine, NewLine>>

(* What a node gives to rmf_fileInfo_create: only definitions have a        *)
(* digest.                                                                  *)
FileInfo(name, size) ==
  [name |-> name, address |-> INVALID_ADDRESS, size |-> size, type |-> 0,
   digest_type |-> IF name[2] = ExtDefinition THEN 2 ELSE 0,
   digest |-> [i \in 1..DigestSize |-> IF name[2] = ExtDefinition THEN name[1] ELSE 0]]

SizeOf(name) ==
  CASE name[2] = ExtDefinition -> DefinitionSize[name[1]]
    [] name[2] = ExtProvide    -> ProvideSize[name[1]]
    [] name[2] = ExtRequire    -> RequireSize[name[1]]

(* What a file holds when it is opened: bytes that tell one position from   *)
(* the next.                                                                *)
Contents(name) == [i \in 1..SizeOf(name) |-> (i + name[1]) % Base]

-----------------------------------------------------------------------------
(* apx_nodeInstance_attach_to_file_manager_client_mode: before it connects, *)
(* the client attaches its nodes: a provide port data file, if the node has *)
(* such ports, and a definition file.                                       *)
Attach(n) ==
  /\ ~connected
  /\ FileName(n, ExtDefinition) \notin {f.name : f \in Range(local[Client].files)}
  /\ LET create(files, ext) ==
           apx_fileMap_create_file(files, FileInfo(FileName(n, ext), SizeOf(FileName(n, ext))))
         before == local[Client].files
         out == IF ProvideSize[n] = 0 THEN [result |-> "created", files |-> before]
                ELSE create(before, ExtProvide)
         apx == create(out.files, ExtDefinition)
     IN IF out.result # "created"
          THEN rc' = [rc EXCEPT ![Client] = out.result] /\ UNCHANGED local
          ELSE IF apx.result # "created"
          THEN /\ rc' = [rc EXCEPT ![Client] = apx.result]
               /\ local' = [local EXCEPT ![Client].files = out.files]
          ELSE /\ local' = [local EXCEPT ![Client].files = apx.files]
               /\ UNCHANGED rc
  /\ UNCHANGED <<connected, accepted, remote, opened, known, receiver, stream, inbox, meant, got>>

(* apx_clientConnection_connected_notification: the greeting is sent.       *)
Connect ==
  /\ ~connected /\ connected' = TRUE
  /\ Sends(Client, numheader_encode32(Len(Greeting)) \o Greeting)
  /\ UNCHANGED <<accepted, local, remote, opened, known, receiver, inbox, rc, meant, got>>

-----------------------------------------------------------------------------
(* on_data_received and parse_message: a message is parsed when all of it   *)
(* has arrived, and nothing more is read while a whole message is waiting.  *)
Length(s) == numheader_decode32(inbox[s])
Complete(s) == /\ inbox[s] # <<>> /\ Length(s).size > 0
               /\ Length(s).size + Length(s).value <= Len(inbox[s])
Payload(s) == SubSeq(inbox[s], Length(s).size + 1, Length(s).size + Length(s).value)

Parses(s) ==
  /\ rc[s] = "ok" /\ Complete(s)
  /\ inbox' = [inbox EXCEPT ![s] = From(@, Length(s).size + Length(s).value + 1)]

(* The transport delivers some of the bytes, in order.                      *)
Arrive(s) ==
  /\ rc[s] = "ok" /\ stream[s] # <<>> /\ ~Complete(s)
  /\ \E n \in Chunks :
       LET k == Min({n, Len(stream[s])})
       IN /\ inbox' = [inbox EXCEPT ![s] = @ \o SubSeq(stream[s], 1, k)]
          /\ stream' = [stream EXCEPT ![s] = From(@, k + 1)]
  /\ UNCHANGED <<connected, accepted, local, remote, opened, known, receiver, rc, meant, got>>

(* process_greeting_message: the header ends with an empty line.            *)
EndsHeader(bytes) ==
  \E i \in DOMAIN bytes : bytes[i] = NewLine /\ (i = 1 \/ bytes[i - 1] = NewLine)

(* The server accepts the greeting and acknowledges it.                     *)
GreetingReceived ==
  /\ ~accepted[Server] /\ Parses(Server)
  /\ IF EndsHeader(Payload(Server))
       THEN /\ accepted' = [accepted EXCEPT ![Server] = TRUE]
            /\ Sends(Server, Acknowledge)
            /\ UNCHANGED rc
       ELSE rc' = [rc EXCEPT ![Server] = "internal"] /\ UNCHANGED <<accepted, stream>>
  /\ UNCHANGED <<connected, local, remote, opened, known, receiver, meant, got>>

Header(s) == rmf_address_decode(Payload(s))
Body(s) == From(Payload(s), Header(s).size + 1)

(* is_greeting_accepted: the client waits for the acknowledge; then it      *)
(* publishes its files, in the order of its list.                           *)
AcknowledgeReceived ==
  /\ ~accepted[Client] /\ Parses(Client)
  /\ IF Header(Client).address = CMD_AREA_START /\ rmf_decode_cmd_type(Body(Client)) = CMD_ACK
       THEN /\ accepted' = [accepted EXCEPT ![Client] = TRUE]
            /\ Sends(Client, FlattenSeq([i \in DOMAIN local[Client].files |->
                                           Publish(local[Client].files[i])]))
            /\ UNCHANGED rc
       ELSE rc' = [rc EXCEPT ![Client] = "invalid_msg"] /\ UNCHANGED <<accepted, stream>>
  /\ UNCHANGED <<connected, local, remote, opened, known, receiver, meant, got>>

-----------------------------------------------------------------------------
(* Faulty variant: every fragment is expected at the first one's address.   *)
ReceiveAtStart(r, address, data, more) ==
  IF r.start # INVALID_ADDRESS /\ r.start # address THEN [rc |-> "invalid_address"]
  ELSE IF Len(r.data \o data) > CmdAreaSize THEN [rc |-> "buffer_full"]
  ELSE [rc |-> "ok", complete |-> ~more, address |-> address, data |-> r.data \o data,
        receiver |-> IF more THEN [start |-> address, data |-> r.data \o data] ELSE Reset]

(* apx_fileManagerReceiver_write: a fragment must continue where the last   *)
(* one ended; the one without more bit completes the message.               *)
Receive(r, address, data, more) ==
  LET start == IF r.start = INVALID_ADDRESS THEN address ELSE r.start
      all   == r.data \o data
  IN IF start + Len(r.data) # address THEN [rc |-> "invalid_address"]
     ELSE IF Len(all) > CmdAreaSize THEN [rc |-> "buffer_full"]
     ELSE [rc |-> "ok", complete |-> ~more, address |-> start, data |-> all,
           receiver |-> IF more THEN [start |-> start, data |-> all] ELSE Reset]

(* What a message asks for: process_command_message for the command area.   *)
Refuse(code) == [kind |-> "none", rc |-> code]
Ignore == [kind |-> "none", rc |-> "ok"]

CommandMessage(data) ==
  LET cmd  == rmf_decode_cmd_type(data)
      info == rmf_decode_publish_file_cmd(data)
  IN CASE cmd = CMD_PUBLISH ->
            IF info.ok THEN [kind |-> "publish", rc |-> "ok", file |-> info.info]
            ELSE Refuse("invalid_msg")
       [] cmd = CMD_REVOKE -> Ignore
       [] cmd \in {CMD_OPEN, CMD_CLOSE} ->
            IF Len(data) # 8 THEN Refuse("invalid_msg")
            ELSE IF cmd = CMD_CLOSE THEN Refuse("not_implemented")
            ELSE [kind |-> "open", rc |-> "ok", address |-> FromLE32(From(data, 5))]
       [] cmd = -1 -> Refuse("invalid_msg")
       [] OTHER -> Refuse("unsupported")

(* apx_fileManager_message_received and process_message.                    *)
Meaning(header, reception) ==
  IF header.size = 0 THEN Refuse("invalid_msg")
  ELSE IF reception.rc # "ok" THEN Refuse(reception.rc)
  ELSE IF ~reception.complete THEN Ignore
  ELSE IF reception.address = CMD_AREA_START THEN CommandMessage(reception.data)
  ELSE IF reception.address > CMD_AREA_START THEN Refuse("invalid_address")
  ELSE [kind |-> "write", rc |-> "ok", address |-> reception.address, data |-> reception.data]

Reception(s) == Receive(receiver[s], Header(s).address, Body(s), Header(s).more)
Message(s) == Meaning(Header(s), Reception(s))

(* The I/O thread of a side parses a message of that kind.                  *)
Receives(s, kind) ==
  /\ accepted[s] /\ Parses(s) /\ Message(s).kind = kind
  /\ receiver' = IF Message(s).rc = "ok"
                   THEN [receiver EXCEPT ![s] = Reception(s).receiver] ELSE receiver

(* A fragment that more will follow, a command that is ignored, or an error.*)
NothingToDo(s) ==
  /\ Receives(s, "none")
  /\ rc' = [rc EXCEPT ![s] = Message(s).rc]
  /\ UNCHANGED <<connected, accepted, local, remote, opened, known, stream, meant, got>>

(* Whether a side opens a file when it is published: the server a           *)
(* definition, the client the require port data of one of its nodes         *)
(* (process_new_definition_data_file, process_new_require_port_data_file).  *)
HasNode(s, n) ==
  IF s = Server THEN n \in known
  ELSE FileName(n, ExtDefinition) \in {f.name : f \in Range(local[Client].files)}
OpensAtOnce(s, f) ==
  IF s = Server THEN FileType(f) = ExtDefinition
  ELSE FileType(f) = ExtRequire /\ HasNode(Client, BaseName(f))

(* A second definition of a node is refused, and so is provide port data    *)
(* published after the definition of its node                               *)
(* (apx_nodeInstance_remote_file_published_notification).                   *)
PublishVerdict(s, f, created) ==
  IF created.result # "created" THEN "file_create"
  ELSE IF s = Client \/ ~HasNode(s, BaseName(f)) THEN "ok"
  ELSE IF FileType(f) = ExtDefinition THEN "node_already_exists"
  ELSE IF FileType(f) = ExtProvide THEN "not_implemented" ELSE "ok"

(* A definition that is published creates a node at the server, which asks  *)
(* for the file (init_node_instance_from_file_info).                        *)
NodesAfter(s, n) == IF s = Server THEN known \cup {n} ELSE known

(* process_remote_file_published.                                           *)
FilePublished(s) ==
  /\ Receives(s, "publish")
  /\ LET f       == Message(s).file
         created == apx_fileMap_create_file(remote[s].files, f)
         verdict == PublishVerdict(s, f, created)
     IN /\ rc' = [rc EXCEPT ![s] = verdict]
        /\ remote' = IF created.result = "created"
                       THEN [remote EXCEPT ![s].files = created.files] ELSE remote
        /\ IF verdict = "ok" /\ OpensAtOnce(s, f)
             THEN /\ opened' = [opened EXCEPT ![s] = @ \cup {f.name}]
                  /\ known' = NodesAfter(s, BaseName(f))
                  /\ Sends(s, OpenFile(created.file))
             ELSE UNCHANGED <<opened, known, stream>>
  /\ UNCHANGED <<connected, accepted, local, meant, got>>

(* process_open_file_request: the file is opened and its data are sent      *)
(* (file_open_notify).                                                      *)
OpenRequested(s) ==
  /\ Receives(s, "open")
  /\ LET search == apx_fileMap_find_by_address(local[s], Message(s).address)
     IN /\ local' = [local EXCEPT ![s] = search.map]
        /\ IF search.found = {}
             THEN /\ rc' = [rc EXCEPT ![s] = "file_not_found"]
                  /\ UNCHANGED <<opened, stream, meant>>
             ELSE LET f == CHOOSE f \in search.found : TRUE
                  IN /\ opened' = [opened EXCEPT ![s] = @ \cup {f.name}]
                     /\ Sends(s, FileData(s, Start(f), Contents(f.name)))
                     /\ meant' = [meant EXCEPT ![Other(s)] =
                                    Append(@, Write(f.name, 0, Contents(f.name)))]
                     /\ UNCHANGED rc
  /\ UNCHANGED <<connected, accepted, remote, known, got>>

(* When the whole definition has arrived, the server builds the node, opens *)
(* its provide port data if they were published, and publishes its require  *)
(* port data (apx_nodeManager_on_definition_data_written,                   *)
(* apx_nodeInstance_attach_to_file_manager_server_mode).  That a require    *)
(* port data file could not be created is not reported.                     *)
IsWholeDefinition(s, f, offset, data) ==
  s = Server /\ FileType(f) = ExtDefinition /\ offset = 0 /\ Len(data) = f.size

AttachAtServer(n, map) ==
  LET out     == IF ProvideSize[n] = 0 THEN [found |-> {}, map |-> map]
                 ELSE apx_fileMap_find_by_name(map, FileName(n, ExtProvide))
      in      == FileName(n, ExtRequire)
      created == IF RequireSize[n] = 0 THEN [result |-> "none"]
                 ELSE apx_fileMap_create_file(local[Server].files, FileInfo(in, RequireSize[n]))
      opens   == IF out.found = {} THEN <<>> ELSE OpenFile(CHOOSE f \in out.found : TRUE)
  IN /\ remote' = [remote EXCEPT ![Server] = out.map]
     /\ opened' = [opened EXCEPT ![Server] = @ \cup {f.name : f \in out.found}]
     /\ IF created.result = "created"
          THEN /\ local' = [local EXCEPT ![Server].files = created.files]
               /\ Sends(Server, opens \o Publish(created.file))
          ELSE Sends(Server, opens) /\ UNCHANGED local

(* process_file_write_message: the address tells the file and the offset;   *)
(* a write to a file that is not open is ignored.                           *)
FileWritten(s) ==
  /\ Receives(s, "write")
  /\ LET m      == Message(s)
         search == apx_fileMap_find_by_address(remote[s], m.address)
         f      == CHOOSE f \in search.found : TRUE
         offset == m.address - Start(f)
     IN IF search.found = {}
          THEN /\ rc' = [rc EXCEPT ![s] = "invalid_write"]
               /\ UNCHANGED <<local, remote, opened, stream, got>>
        ELSE IF f.name \notin opened[s]
          THEN /\ remote' = [remote EXCEPT ![s] = search.map]
               /\ UNCHANGED <<rc, local, opened, stream, got>>
        ELSE /\ got' = [got EXCEPT ![s] = Append(@, Write(f.name, offset, m.data))]
             /\ IF IsWholeDefinition(s, f, offset, m.data)
                  THEN AttachAtServer(BaseName(f), search.map)
                  ELSE /\ remote' = [remote EXCEPT ![s] = search.map]
                       /\ UNCHANGED <<local, opened, stream>>
             /\ UNCHANGED rc
  /\ UNCHANGED <<connected, accepted, known, meant>>

(* apx_fileManager_send_local_data: the application on the client, or the   *)
(* routing of the server, writes a part of an open port data file.          *)
WritesOf(s) == Len(meant[Other(s)]) - Cardinality({f \in Range(local[s].files) : f.name \in opened[s]})

WriteLocalFile(s) ==
  /\ WritesOf(s) < MaxWrites
  /\ \E f \in Range(local[s].files) : \E offset \in 0..(f.size - 1) :
       LET address == Start(f) + offset
           data    == <<Len(meant[Other(s)]) % Base>>
           search  == apx_fileMap_find_by_address(local[s], address)
           target  == CHOOSE g \in search.found : TRUE
       IN /\ FileType(f) # ExtDefinition
          /\ search.found # {} /\ target.name \in opened[s]
          /\ local' = [local EXCEPT ![s] = search.map]
          /\ Sends(s, FileData(s, address, data))
          /\ meant' = [meant EXCEPT ![Other(s)] = Append(@, Write(f.name, offset, data))]
  /\ UNCHANGED <<connected, accepted, remote, opened, known, receiver, inbox, rc, got>>

-----------------------------------------------------------------------------
(* The I/O thread of a side.                                                *)
Handle(s) ==
  \/ NothingToDo(s) \/ FilePublished(s) \/ OpenRequested(s) \/ FileWritten(s)
  \/ s = Server /\ GreetingReceived
  \/ s = Client /\ AcknowledgeReceived

Next ==
  \/ \E n \in Nodes : Attach(n)
  \/ Connect
  \/ \E s \in Sides : Arrive(s) \/ Handle(s) \/ WriteLocalFile(s)

(* The transport goes on delivering bytes, and an I/O thread parses what    *)
(* has arrived: its loop ends only when no whole message is left.  A step   *)
(* that parses is a step of Handle, which handles every message.            *)
Spec == /\ Init /\ [][Next]_vars
        /\ \A s \in Sides : WF_vars(Arrive(s)) /\ WF_inbox(Parses(s))

-----------------------------------------------------------------------------
(* What no code checks before the files are published and written: a send   *)
(* buffer holds the largest message, a receiver the whole data of every     *)
(* file, and the area of a file type the files of all nodes, aligned.       *)
SizesFit ==
  LET Fits(size, alignment, area) == Cardinality(Nodes) * (size + alignment) <= area
  IN /\ FILE_INFO_HEADER_SIZE + 3 <= CmdAreaSize /\ CmdAreaSize + 4 <= SendBuffer
     /\ \A n \in Nodes :
          /\ DefinitionSize[n] \in 1..CmdAreaSize
          /\ {ProvideSize[n], RequireSize[n]} \subseteq 0..CmdAreaSize
          /\ Fits(ProvideSize[n], PortDataAlignment, DefinitionStart)
          /\ Fits(RequireSize[n], PortDataAlignment, DefinitionStart)
          /\ Fits(DefinitionSize[n], DefinitionAlignment, CMD_AREA_START - DefinitionStart)

(* The variables have their types.                                          *)
FileInfos == [name : Nodes \X {ExtDefinition, ExtProvide, ExtRequire}, address : Nat, size : Nat,
              type : FILE_TYPES, digest_type : DIGEST_TYPES, digest : Seq(Byte)]
TypeOK ==
  /\ connected \in BOOLEAN /\ known \subseteq Nodes
  /\ \A s \in Sides :
       /\ accepted[s] \in BOOLEAN
       /\ local[s].files \in Seq(FileInfos) /\ remote[s].files \in Seq(FileInfos)
       /\ local[s].last \in Nat /\ remote[s].last \in Nat
       /\ opened[s] \subseteq {f.name : f \in Range(local[s].files) \cup Range(remote[s].files)}
       /\ receiver[s].start \in Nat /\ receiver[s].data \in Seq(Byte)
       /\ stream[s] \in Seq(Byte) /\ inbox[s] \in Seq(Byte)

(* Two files of a map never overlap and none reaches into the command area, *)
(* whatever the order in which nodes are attached and built and although    *)
(* nothing is compared when a file becomes the last of the list             *)
(* (file_map.c:367-403): an address belongs to one file at most.            *)
FilesDisjoint ==
  \A s \in Sides : \A map \in {local[s], remote[s]} :
    /\ Apart(map.files)
    /\ \A f \in Range(map.files) : End(f) <= CMD_AREA_START

(* However the transport cuts the bytes and the two directions interleave,  *)
(* neither side ever finds a message it must refuse: no length, address,    *)
(* fragment, command or publish order that the other side would not have    *)
(* meant (parse_message, apx_fileManager_message_received).                 *)
NeverRefused == \A s \in Sides : rc[s] = "ok"

(* A side knows of the other's files what the other has: names, addresses,  *)
(* sizes and digests survive publishing, and when both sides are connected  *)
(* and nothing is on its way no file of either is unknown to the other.     *)
Settled ==
  /\ accepted[Client] /\ accepted[Server]
  /\ \A s \in Sides : stream[s] = <<>> /\ inbox[s] = <<>>
RemoteMapMirrors ==
  \A s \in Sides :
    /\ Range(remote[s].files) \subseteq Range(local[Other(s)].files)
    /\ Settled => Range(remote[s].files) = Range(local[Other(s)].files)

(* What one side writes to its open files arrives at the same file and the  *)
(* same offset of the other side, once, complete, in the order in which it  *)
(* was written, and all of it in the end: bytes, fragments and addresses    *)
(* implement a channel of writes.                                           *)
Writes(names, values) ==
  UNION {{Write(name, 0, Contents(name))} \cup
         {Write(name, offset, <<v>>) : offset \in 0..(SizeOf(name) - 1), v \in values} : name \in names}

NoWrite == Write(<<>>, 0, <<>>)   (* the channels have no last command      *)
ToServer == INSTANCE CommandChannel WITH
  Commands <- Writes(Nodes \X {ExtDefinition, ExtProvide}, Byte), Exit <- NoWrite,
  accepted <- meant[Server], wire <- got[Server]
ToClient == INSTANCE CommandChannel WITH
  Commands <- Writes(Nodes \X {ExtRequire}, Byte), Exit <- NoWrite,
  accepted <- meant[Client], wire <- got[Client]

WritesDelivered == ToServer!Spec /\ ToClient!Spec
=============================================================================
