--------------------------- MODULE EsFileManager ---------------------------
(***************************************************************************)
(* APX-ES, the file manager for small devices                              *)
(* (src/apx/src/apx-es/file_manager.c): it has no threads, the main loop   *)
(* of the device calls "run", its queue and its buffers have fixed sizes,  *)
(* and it waits for room in a transmit buffer instead of blocking.  A      *)
(* large write leaves in fragments, over several calls of run.             *)
(*                                                                         *)
(* Two devices are connected to each other.  The link may be lost, with    *)
(* all that is on its way, and come back.  The link with its transmit      *)
(* buffers, the ring buffer, the files and the node data that the code     *)
(* calls are not part of the repository's sources.                         *)
(***************************************************************************)
EXTENDS EsFileMap

CONSTANTS
  Devices,            (* two devices                                       *)
  LocalFiles,         (* of each device: its files [name, type, length],   *)
                      (* in the order in which they are attached           *)
  RequestedFiles,     (* of each device: the files it wants                *)
  DirectFiles,        (* names of the files written with triggerDirectWrite *)
  Updates,            (* what the applications write: [name, offset, length] *)
  MaxRequests,        (* APX_ES_FILEMANAGER_MAX_NUM_REQUEST_FILES          *)
  QueueSize,          (* messageQueueSize                                  *)
  ReceiveBuffer,      (* receiveBufLen                                     *)
  MinBuffer,          (* APX_ES_FILEMANAGER_MIN_BUFFER_TRESHOLD            *)
  Threshold,          (* APX_ES_FILE_WRITE_FRAGMENTATION_THRESHOLD         *)
  LowAddressMax,      (* addresses up to this one take                     *)
  LowAddressSize,     (* so many bytes in a message, and                   *)
  HighAddressSize,    (* the others so many                                *)
  InfoSize,           (* sizes of the commands without the address         *)
  OpenSize,
  LinkSize,           (* bytes that fit the link's transmit buffer         *)
  LinkHeader,         (* which adds so many to each message                *)
  MaxMsgLen,          (* the largest message it takes                      *)
  MaxEvents           (* bound: writes of the applications and losses of   *)
                      (* the link, together                                *)

Peer(d) == CHOOSE e \in Devices : e # d

(* The files of an application have names of their own, and there is room   *)
(* for all those that it requests.                                          *)
FileInfo == [name : STRING, type : {"apx", "out", "in", "user"}, length : Nat]
ASSUME EsFileManagerAssumption ==
  /\ Cardinality(Devices) = 2
  /\ \A d \in Devices : LocalFiles[d] \in Seq(FileInfo) /\ RequestedFiles[d] \in Seq(FileInfo)
  /\ \A d \in Devices : \A i, j \in DOMAIN RequestedFiles[d] :
       RequestedFiles[d][i].name = RequestedFiles[d][j].name => i = j
  /\ \A d \in Devices : Len(RequestedFiles[d]) <= MaxRequests
  /\ MaxRequests <= MaxNumFiles
  /\ {MaxRequests, QueueSize, LowAddressSize, LinkHeader, LinkSize} \subseteq Nat
  /\ LowAddressSize <= HighAddressSize
  /\ Threshold > HighAddressSize /\ MinBuffer > HighAddressSize
  /\ {Threshold, MinBuffer, HighAddressSize + InfoSize, HighAddressSize + OpenSize} \subseteq 1..MaxMsgLen
  /\ MaxMsgLen + LinkHeader <= LinkSize

VARIABLES
  manager,  (* apx_es_fileManager_t of each device                         *)
  link,     (* whether the devices are linked                              *)
  channel,  (* messages on their way to each device                        *)
  content,  (* the data of each local file, by name                        *)
  copy,     (* what the device that requested a file has received of it    *)
  updates,  (* number of writes so far                                     *)
  losses,   (* number of losses of the link so far                         *)
  misread,  (* history: files of which a fragmented part was read from the *)
            (* beginning of the file                                       *)
  dropped   (* history: a message was dropped after its first fragment     *)

vars == <<manager, link, channel, content, copy, updates, losses, misread, dropped>>

-----------------------------------------------------------------------------
(* The state of a manager.                                                  *)

NoMessage   == [type |-> "none"]
NoWrite     == [file |-> "none", offset |-> 0, address |-> 0, remain |-> 0]
NoReception == [start |-> -1, file |-> "none", base |-> 0, data |-> <<>>, drop |-> FALSE]

NewManager ==
  [connected |-> FALSE, error |-> FALSE, queue |-> <<>>, notify |-> NoMessage,
   pending |-> NoMessage, write |-> NoWrite, reception |-> NoReception,
   local |-> <<>>, remote |-> <<>>, requested |-> <<>>, open |-> {}]

(* Faulty variant: a reception survives the connection.                     *)
resetAllButReception(m) ==
  [m EXCEPT !.connected = FALSE, !.error = FALSE, !.queue = <<>>, !.notify = NoMessage,
            !.pending = NoMessage, !.write = NoWrite]

(* apx_es_resetConnectionState                                              *)
resetConnectionState(m) ==
  [m EXCEPT !.connected = FALSE, !.error = FALSE, !.queue = <<>>, !.notify = NoMessage,
            !.pending = NoMessage, !.write = NoWrite, !.reception = NoReception]

(* rbfs_insert; the queue has a fixed size, and an error stays.             *)
Insert(m, msg) ==
  IF Len(m.queue) < QueueSize THEN [m EXCEPT !.queue = Append(@, msg)]
  ELSE [m EXCEPT !.error = TRUE]

(* apx_es_fileManager_requestRemoteFile: a file is requested once.          *)
requestRemoteFile(m, file) ==
  IF \/ Len(m.requested) >= MaxRequests
     \/ file.name \in {f.name : f \in Range(m.requested)}
    THEN m ELSE [m EXCEPT !.requested = Append(@, file)]

(* The same for several files, one after the other.                         *)
requestAll(m, files) ==
  LET after[i \in 0..Len(files)] == IF i = 0 THEN m ELSE requestRemoteFile(after[i - 1], files[i])
  IN after[Len(files)]

Named(files, name) == {f \in Range(files) : f.name = name}
TheFile(m, name) == CHOOSE f \in Range(m.local) : f.name = name

(* F applied n times; a step is bound to a variable, so that TLC evaluates  *)
(* it once.                                                                 *)
Iterated(F(_), x, n) ==
  LET after[i \in 0..n] ==
        IF i = 0 THEN x ELSE CHOOSE y \in {F(z) : z \in {after[i - 1]}} : TRUE
  IN after[n]

-----------------------------------------------------------------------------
(* Transmission.  A call of run works on                                    *)
(*   [m, avail, room, out, misread]: the manager, transmitBuf.avail, what   *)
(* the link really has left, the messages sent, and files misread so far.   *)

HeaderSize(address) == IF address <= LowAddressMax THEN LowAddressSize ELSE HighAddressSize

Size(msg) ==
  CASE msg.type = "info" -> HighAddressSize + InfoSize
    [] msg.type = "open" -> HighAddressSize + OpenSize
    [] msg.type = "data" -> HeaderSize(msg.address) + Len(msg.data)

(* apx_es_fileManager_calcSendAvail                                         *)
SendAvail(t) == Min({t.avail, MaxMsgLen})

(* apx_es_transmitMsg: the link refuses a message that does not fit with    *)
(* its header; the message stays pending.                                   *)
Fits(t, msg) == Size(msg) + LinkHeader <= t.room
Transmitted(t, msg) ==
  [t EXCEPT !.avail = Max({0, @ - Size(msg) - LinkHeader}), !.room = @ - Size(msg) - LinkHeader,
            !.out = Append(@, msg)]

(* apx_es_createFileWriteMsg: the next fragment, read from the file now,    *)
(* with apx_es_transmitSuccess.                                             *)
Fragment(t) ==
  LET w    == t.m.write
      n    == Min({w.remain, SendAvail(t) - HeaderSize(w.address)})
      msg  == [type |-> "data", address |-> w.address, more |-> w.remain > n,
               data |-> SubSeq(content[w.file], w.offset + 1, w.offset + n)]
      rest == [w EXCEPT !.remain = @ - n, !.offset = @ + n, !.address = @ + n]
  IN IF Fits(t, msg)
       THEN [Transmitted(t, msg) EXCEPT !.m.write = IF rest.remain = 0 THEN NoWrite ELSE rest]
       ELSE t

(* apx_es_processPendingWrite: fragments as long as there is room enough.   *)
NextFragment(t) == IF t.m.write = NoWrite \/ SendAvail(t) < MinBuffer THEN t ELSE Fragment(t)
processPendingWrite(t) == Iterated(NextFragment, t, LinkSize)

(* apx_es_initFragmentedFileWrite, called with 0 as the offset to read from *)
(* also for a write that does not begin at the start of the file.           *)
StartFragments(t, f, offset, length) ==
  [t EXCEPT !.m.pending = NoMessage,
            !.m.write = [file |-> f.name, offset |-> 0, address |-> f.address + offset,
                         remain |-> length],
            !.misread = IF offset = 0 THEN @ ELSE @ \cup {f.name}]

(* A write of a part of a file, in one message if that fits; a large one is *)
(* begun when a threshold of bytes is free, a small one waits.              *)
SendPart(t, f, offset, length) ==
  LET msg == [type |-> "data", address |-> f.address + offset, more |-> FALSE,
              data |-> SubSeq(content[f.name], offset + 1, offset + length)]
  IN IF Size(msg) <= SendAvail(t)
       THEN IF Fits(t, msg) THEN [Transmitted(t, msg) EXCEPT !.m.pending = NoMessage] ELSE t
     ELSE IF Size(msg) >= Threshold /\ Threshold <= SendAvail(t)
       THEN processPendingWrite(Fragment(StartFragments(t, f, offset, length)))
     ELSE t

SendWhole(t, msg) ==
  IF Size(msg) <= SendAvail(t) /\ Fits(t, msg)
    THEN [Transmitted(t, msg) EXCEPT !.m.pending = NoMessage] ELSE t

(* apx_es_fileManager_processPendingMessage.  A remote file is open when    *)
(* there is room for its open command, a local file when sending begins or  *)
(* is about to.                                                             *)
processPendingMessage(t) ==
  LET p       == t.m.pending
      Opened  == [t EXCEPT !.m.open = @ \cup {p.file}]
      whole   ==
        CASE p.type = "info" ->
               [type |-> "info", name |-> p.file, address |-> TheFile(t.m, p.file).address,
                length |-> TheFile(t.m, p.file).length]
          [] p.type = "open"   -> [type |-> "open", address |-> p.address]
          [] p.type = "direct" -> [type |-> "data", address |-> p.address, more |-> FALSE,
                                   data |-> p.data]
  IN IF SendAvail(t) <= 0 THEN t
     ELSE CASE p.type \in {"info", "direct"} -> SendWhole(t, whole)
            [] p.type = "open" -> IF Size(whole) <= SendAvail(t) THEN SendWhole(Opened, whole) ELSE t
            [] p.type = "send" -> SendPart(Opened, TheFile(t.m, p.file), 0, TheFile(t.m, p.file).length)
            [] p.type = "notify" -> SendPart(t, TheFile(t.m, p.file), p.offset, p.length)

(* Faulty variant: only a large write is resumed.                           *)
ResumeWrite(t) == IF t.m.write # NoWrite THEN processPendingWrite(t) ELSE t

(* What was interrupted is resumed: a large write or a message.             *)
Resume(t) ==
  IF t.m.write # NoWrite THEN processPendingWrite(t)
  ELSE IF t.m.pending # NoMessage THEN processPendingMessage(t)
  ELSE t

(* apx_es_processQueuedWriteNotify                                          *)
processQueuedWriteNotify(m) ==
  IF m.notify = NoMessage THEN m
  ELSE IF Len(m.queue) < QueueSize THEN [Insert(m, m.notify) EXCEPT !.notify = NoMessage]
  ELSE Insert(m, m.notify)

(* apx_es_fileManager_runEventLoop, until the queue is empty or something   *)
(* has to wait for room.                                                    *)
RunOne(t) ==
  IF t.m.write # NoWrite \/ t.m.pending # NoMessage \/ t.m.queue = <<>> THEN t
  ELSE processPendingMessage([t EXCEPT !.m.pending = Head(t.m.queue), !.m.queue = Tail(@)])
runEventLoop(t) == Iterated(RunOne, t, QueueSize)

-----------------------------------------------------------------------------
(* Reception.                                                               *)

(* apx_es_fileManager_processRemoteFileInfo: a requested file of that name  *)
(* and length becomes a remote file; it is opened when the open command     *)
(* has made its way through the queue.                                      *)
processRemoteFileInfo(m, info) ==
  LET wanted == {i \in DOMAIN m.requested : /\ m.requested[i].name = info.name
                                            /\ m.requested[i].length = info.length}
      first  == CHOOSE i \in wanted : \A j \in wanted : i <= j
      file   == At(m.requested[first], info.address)
  IN IF wanted = {} THEN m
     ELSE Insert([m EXCEPT !.requested = RemoveAt(@, first),
                           !.remote = apx_es_fileMap_insert(@, file)],
                 [type |-> "open", file |-> info.name, address |-> info.address])

(* apx_es_fileManager_processOpenFile                                       *)
processOpenFile(m, address) ==
  LET found == apx_es_fileMap_findByAddress(m.local, address)
  IN IF found = {} THEN m
     ELSE Insert(m, [type |-> "send", file |-> (CHOOSE f \in found : TRUE).name])

(* apx_es_fileManager_parseCmdMsg: other commands are ignored.              *)
parseCmdMsg(m, msg) ==
  CASE msg.type = "info" -> processRemoteFileInfo(m, msg)
    [] msg.type = "open" -> processOpenFile(m, msg.address)

(* apx_es_fileManager_parseDataMsg, the next fragment of a message: it must *)
(* begin in the file where the buffer ends, which the code compares with    *)
(* the offset in the file, also if the message did not begin at its start.  *)
Continued(m, msg) ==
  LET r      == m.reception
      offset == IF r.drop THEN ReceiveBuffer
                ELSE msg.address - r.base
  IN IF offset # Len(r.data) \/ offset + Len(msg.data) > ReceiveBuffer
       THEN [r EXCEPT !.drop = TRUE] ELSE [r EXCEPT !.data = @ \o msg.data]

(* What becomes of a data message: the reception that goes on, what is      *)
(* written to which file, at most one part, and the file whose message is   *)
(* dropped.                                                                 *)
Outcome(reception, writes, drops) == [reception |-> reception, writes |-> writes, drops |-> drops]

parseDataMsg(m, msg) ==
  LET r     == m.reception
      found == {f \in apx_es_fileMap_findByAddress(m.remote, msg.address) : f.name \in m.open}
      file  == CHOOSE f \in found : TRUE
      next  == Continued(m, msg)
      Writes(name, offset, data) == {[name |-> name, offset |-> offset, data |-> data]}
  IN IF r.start = -1 THEN
       IF found = {} THEN Outcome(r, {}, {})
       ELSE IF ~msg.more THEN Outcome(r, Writes(file.name, msg.address - file.address, msg.data), {})
       ELSE IF Len(msg.data) <= ReceiveBuffer
         THEN Outcome([start |-> msg.address, file |-> file.name, base |-> file.address,
                       data |-> msg.data, drop |-> FALSE], {}, {})
       ELSE Outcome([NoReception EXCEPT !.start = msg.address, !.drop = TRUE], {}, {file.name})
     ELSE IF msg.more THEN Outcome(next, {}, IF next.drop THEN {r.file} ELSE {})
     ELSE IF next.drop THEN Outcome(NoReception, {}, {r.file})
     ELSE Outcome(NoReception, Writes(r.file, r.start - r.base, next.data), {})

(* apx_file_write: nothing is written beyond the end of the file.           *)
Overwritten(old, offset, data) ==
  IF offset + Len(data) > Len(old) THEN old
  ELSE [i \in DOMAIN old |-> IF i > offset /\ i <= offset + Len(data) THEN data[i - offset] ELSE old[i]]

-----------------------------------------------------------------------------
(* Notification of writes.                                                  *)

Notice(file, offset, length) ==
  [type |-> "notify", file |-> file, offset |-> offset, length |-> length]

(* apx_es_fileManager_triggerFileUpdate: a write waits for the next run; it *)
(* is merged with the one that waits if it continues it and stays small.    *)
triggerFileUpdate(m, file, offset, length) ==
  LET q   == m.notify
      msg == Notice(file, offset, length)
  IN IF q = NoMessage THEN [m EXCEPT !.notify = msg]
     ELSE IF /\ q.file = file /\ q.offset + q.length = offset
             /\ q.length + length <= Threshold - HighAddressSize
       THEN [m EXCEPT !.notify.length = @ + length]
     ELSE IF Len(m.queue) < QueueSize THEN [Insert(m, q) EXCEPT !.notify = msg]
     ELSE Insert(m, q)

(* apx_es_fileManager_triggerDirectWrite: the data go into the queue.       *)
triggerDirectWrite(m, data, address) ==
  Insert(m, [type |-> "direct", address |-> address, data |-> data])

-----------------------------------------------------------------------------
Init ==
  /\ manager = [d \in Devices |-> NewManager]
  /\ link = FALSE
  /\ channel = [d \in Devices |-> <<>>]
  /\ content = [f \in {g.name : g \in UNION {Range(LocalFiles[d]) : d \in Devices}} |->
                   [i \in 1..(CHOOSE g \in UNION {Range(LocalFiles[d]) : d \in Devices} : g.name = f).length |-> 0]]
  /\ copy = [f \in {g.name : g \in UNION {Range(RequestedFiles[d]) : d \in Devices}} |->
                [i \in 1..(CHOOSE g \in UNION {Range(RequestedFiles[d]) : d \in Devices} : g.name = f).length |-> -1]]
  /\ updates = 0 /\ losses = 0
  /\ misread = {} /\ dropped = {}

Change(d, m) == manager' = [manager EXCEPT ![d] = m]

(* The local files of a device once they have addresses.                    *)
Attached(d) ==
  LET after[i \in 0..Len(LocalFiles[d])] ==
        IF i = 0 THEN <<>> ELSE apx_es_fileMap_autoInsert(after[i - 1], LocalFiles[d][i])
  IN after[Len(LocalFiles[d])]

(* The application attaches the files of its nodes and requests others      *)
(* (apx_es_fileManager_attachLocalFile, apx_es_fileManager_requestRemoteFile). *)
Attach(d) ==
  /\ manager[d].local = <<>> /\ manager[d].requested = <<>>
  /\ Change(d, requestAll([manager[d] EXCEPT !.local = Attached(d)], RequestedFiles[d]))
  /\ UNCHANGED <<link, channel, content, copy, updates, losses, misread, dropped>>

(* The link comes up when both devices know that there was none.            *)
LinkUp ==
  /\ ~link /\ \A d \in Devices : manager[d].local # <<>> /\ ~manager[d].connected
  /\ link' = TRUE
  /\ UNCHANGED <<manager, channel, content, copy, updates, losses, misread, dropped>>

(* apx_es_fileManager_onConnected: the local files are published, as many   *)
(* as the queue has room for.                                               *)
publishAll(m) ==
  LET infos == [i \in 1..Len(m.local) |-> [type |-> "info", file |-> m.local[i].name]]
      all   == m.queue \o infos
  IN IF Len(all) <= QueueSize THEN [m EXCEPT !.queue = all]
     ELSE [m EXCEPT !.queue = SubSeq(all, 1, QueueSize), !.error = TRUE]

OnConnected(d) ==
  /\ link /\ ~manager[d].connected
  /\ Change(d, publishAll([manager[d] EXCEPT !.connected = TRUE]))
  /\ UNCHANGED <<link, channel, content, copy, updates, losses, misread, dropped>>

(* The link is lost with everything that is on its way.                     *)
LinkLost ==
  /\ link /\ updates + losses < MaxEvents
  /\ link' = FALSE /\ losses' = losses + 1
  /\ channel' = [d \in Devices |-> <<>>]
  /\ misread' = {} /\ dropped' = {}
  /\ UNCHANGED <<manager, content, copy, updates>>

(* Faulty variant: remote files are forgotten.                              *)
CloseFiles(m) == [m EXCEPT !.remote = <<>>, !.open = {}]

(* Files are closed, and remote files are requested again.                  *)
CloseAndRequest(m) ==
  requestAll([m EXCEPT !.remote = <<>>, !.open = {}], m.remote)

(* apx_es_fileManager_onDisconnected                                        *)
OnDisconnected(d) ==
  /\ ~link /\ manager[d].connected
  /\ Change(d, CloseAndRequest(resetConnectionState(manager[d])))
  /\ UNCHANGED <<link, channel, content, copy, updates, losses, misread, dropped>>

(* apx_es_fileManager_run; after an error it does nothing until the device  *)
(* is connected again.                                                      *)
Used(d) == FoldLeft(LAMBDA n, msg : n + Size(msg) + LinkHeader, 0, channel[Peer(d)])
Run(d) ==
  /\ manager[d].connected /\ ~manager[d].error
  /\ \E room \in {LinkSize - Used(d)} :
     \E resumed \in {Resume([m |-> manager[d], avail |-> room, room |-> room, out |-> <<>>,
                             misread |-> {}])} :
     \E after \in {runEventLoop([resumed EXCEPT !.m = processQueuedWriteNotify(@)])} :
        /\ Change(d, after.m)
        /\ channel' = IF link THEN [channel EXCEPT ![Peer(d)] = @ \o after.out] ELSE channel
        /\ misread' = IF link THEN misread \cup after.misread ELSE misread
  /\ UNCHANGED <<link, content, copy, updates, losses, dropped>>

(* apx_es_fileManager_onMsgReceived                                         *)
OnMsgReceived(d) ==
  /\ manager[d].connected /\ channel[d] # <<>>
  /\ channel' = [channel EXCEPT ![d] = Tail(@)]
  /\ LET m   == manager[d]
         msg == Head(channel[d])
     IN \/ /\ msg.type # "data" /\ Change(d, parseCmdMsg(m, msg))
           /\ UNCHANGED <<copy, dropped>>
        \/ /\ msg.type = "data"
           /\ \E out \in {parseDataMsg(m, msg)} :
                /\ Change(d, [m EXCEPT !.reception = out.reception])
                /\ dropped' = dropped \cup out.drops
                /\ copy' = [f \in DOMAIN copy |->
                              IF \E w \in out.writes : w.name = f
                                THEN LET w == CHOOSE w \in out.writes : w.name = f
                                     IN Overwritten(copy[f], w.offset, w.data)
                                ELSE copy[f]]
  /\ UNCHANGED <<link, content, updates, losses, misread>>

(* The application writes a part of a file; the manager is told if the file *)
(* is open.                                                                 *)
WriteFile(d) ==
  /\ updates + losses < MaxEvents
  /\ \E u \in Updates :
       /\ Named(manager[d].local, u.name) # {}
       /\ LET f    == TheFile(manager[d], u.name)
              data == [i \in 1..u.length |-> updates + 1]
          IN /\ content' = [content EXCEPT ![f.name] = Overwritten(@, u.offset, data)]
             /\ Change(d, IF f.name \notin manager[d].open THEN manager[d]
                          ELSE IF f.name \in DirectFiles
                            THEN triggerDirectWrite(manager[d], data, f.address + u.offset)
                          ELSE triggerFileUpdate(manager[d], f.name, u.offset, u.length))
  /\ updates' = updates + 1
  /\ UNCHANGED <<link, channel, copy, losses, misread, dropped>>

Next ==
  \/ LinkUp \/ LinkLost
  \/ \E d \in Devices : \/ Attach(d) \/ OnConnected(d) \/ OnDisconnected(d)
                        \/ Run(d) \/ OnMsgReceived(d) \/ WriteFile(d)

(* The main loop of a device goes on calling run, and the link delivers.    *)
Spec == /\ Init /\ [][Next]_vars
        /\ \A d \in Devices : WF_vars(Run(d)) /\ WF_vars(OnMsgReceived(d))

-----------------------------------------------------------------------------
(* However often the link is lost, each file that the application requested *)
(* is either still requested or a remote file, once: it is never forgotten  *)
(* and never doubled between the two lists; and no file is open that the    *)
(* device does not have or has not been told of by the other one            *)
(* (apx_es_fileManager_processRemoteFileInfo,                               *)
(* apx_es_fileManager_onDisconnected).                                      *)
NoFileForgotten ==
  \A d \in Devices : manager[d].local # <<>> =>
    LET files == manager[d].requested \o manager[d].remote
    IN /\ {f.name : f \in Range(files)} = {f.name : f \in Range(RequestedFiles[d])}
       /\ Len(files) = Len(RequestedFiles[d])
       /\ manager[d].open \subseteq {f.name : f \in Range(manager[d].local \o manager[d].remote)}

(* A manager is in the middle of at most one message, as run asserts        *)
(* (file_manager.c:345).                                                    *)
OneMessageAtATime == \A d \in Devices : manager[d].write = NoWrite \/ manager[d].pending = NoMessage

(* A manager is in the middle of at most one message, and the fragments it  *)
(* sends over several runs, with other messages before and after them,      *)
(* always go on where the receiver's buffer ends: none is dropped, also     *)
(* after the link was lost in the middle of a message                       *)
(* (apx_es_fileManager_parseDataMsg).  Excepted are files of which a part   *)
(* that does not begin at the file's start was sent in fragments.           *)
FragmentsContinue == OneMessageAtATime /\ dropped \subseteq misread

(* When the link stays up and no queue has overflowed, what a device        *)
(* requested becomes and stays a copy of what the other one's application   *)
(* wrote, whatever was merged, delayed, sent in fragments or written in the *)
(* meantime.                                                                *)
Healthy == link /\ \A d \in Devices : manager[d].connected /\ ~manager[d].error
Copied == \A f \in DOMAIN copy : f \in misread \/ copy[f] = content[f]
SyncedInTheEnd == <>[]Healthy => <>[]Copied
=============================================================================
