------------------------- MODULE FileManagerWorker -------------------------
(***************************************************************************)
(* The worker of a file manager (file_manager_worker.c) and the send       *)
(* buffer it fills (socket_server_connection.c).                           *)
(*                                                                         *)
(* Any thread of the program hands a command over by inserting it in the   *)
(* queue under a spinlock and then posting a semaphore; the worker thread  *)
(* waits for the semaphore, and empties the queue into the send buffer     *)
(* between transmit_begin and transmit_end.  The thread that deletes the   *)
(* connection inserts EXIT and joins the worker.                           *)
(***************************************************************************)
EXTENDS Naturals, Sequences, FiniteSets

CONSTANTS
  Producers,    (* threads that hand commands over                         *)
  MaxCommands,  (* bound on the number of commands handed over             *)
  Capacity,     (* commands the queue holds                                *)
  BatchSize,    (* messages the send buffer holds (default_buffer_size)    *)
  Exit          (* APX_CMD_EXIT                                            *)

(* Commands in the order they are handed over; each becomes one message    *)
(* that fits in the empty send buffer.                                     *)
Commands == 1..MaxCommands

ASSUME WorkerAssumption ==
  /\ MaxCommands \in Nat /\ Capacity \in Nat \ {0} /\ BatchSize \in Nat \ {0}
  /\ Exit \notin Commands

VARIABLES
  queue,        (* the ring buffer                                         *)
  sem,          (* the semaphore                                           *)
  ppc,          (* producers: "idle", or "post" between insert and post    *)
  spc,          (* the stopping thread                                     *)
  pc,           (* the worker thread                                       *)
  cmd,          (* the command that the worker has taken out of the queue  *)
  txLocked,     (* the mutex of the connection                             *)
  pending,      (* messages in the send buffer                             *)
  bufferLength, (* length of the send buffer, in messages                  *)
  issued,       (* number of commands handed over so far                   *)
  accepted,     (* history: the commands that entered the queue            *)
  wire          (* history: the messages given to the socket               *)

vars == <<queue, sem, ppc, spc, pc, cmd, txLocked, pending, bufferLength,
          issued, accepted, wire>>

Init ==
  /\ queue = <<>> /\ sem = 0
  /\ ppc = [p \in Producers |-> "idle"] /\ spc = "idle"
  /\ pc = "wait" /\ cmd = Exit
  /\ txLocked = FALSE /\ pending = <<>> /\ bufferLength = 0
  /\ issued = 0 /\ accepted = <<>> /\ wire = <<>>

(* Faulty variant: a full queue drops its oldest command instead.          *)
InsertOverwriting(m) ==
  /\ queue' = Append(IF Len(queue) < Capacity THEN queue ELSE Tail(queue), m)
  /\ accepted' = Append(accepted, m)

(* adt_rbfh_insert refuses a command when the ring buffer is full.         *)
Insert(m) ==
  IF Len(queue) < Capacity
  THEN queue' = Append(queue, m) /\ accepted' = Append(accepted, m)
  ELSE UNCHANGED <<queue, accepted>>

----------------------------------------------------------------------------
(* apx_fileManagerWorker_prepare_*: insert, then post, whatever insert did.*)
Prepare(p) ==
  /\ ppc[p] = "idle" /\ issued < MaxCommands
  /\ issued' = issued + 1
  /\ Insert(issued + 1)
  /\ ppc' = [ppc EXCEPT ![p] = "post"]
  /\ UNCHANGED <<sem, spc, pc, cmd, txLocked, pending, bufferLength, wire>>

(* Faulty variant: no post for a queue that is not empty.                  *)
PostIfEmpty(p) ==
  /\ ppc[p] = "post"
  /\ sem' = IF queue = <<>> THEN sem + 1 ELSE sem
  /\ ppc' = [ppc EXCEPT ![p] = "idle"]
  /\ UNCHANGED <<queue, spc, pc, cmd, txLocked, pending, bufferLength, issued, accepted, wire>>

Post(p) ==
  /\ ppc[p] = "post"
  /\ sem' = sem + 1
  /\ ppc' = [ppc EXCEPT ![p] = "idle"]
  /\ UNCHANGED <<queue, spc, pc, cmd, txLocked, pending, bufferLength, issued, accepted, wire>>

(* stop_worker_thread: the result of the insertion is not looked at.       *)
StopInsert ==
  /\ spc = "idle"
  /\ Insert(Exit)
  /\ spc' = "post"
  /\ UNCHANGED <<sem, ppc, pc, cmd, txLocked, pending, bufferLength, issued, wire>>

StopPost ==
  /\ spc = "post"
  /\ sem' = sem + 1
  /\ spc' = "join"
  /\ UNCHANGED <<queue, ppc, pc, cmd, txLocked, pending, bufferLength, issued, accepted, wire>>

StopJoin ==
  /\ spc = "join" /\ pc = "ended"
  /\ spc' = "stopped"
  /\ UNCHANGED <<queue, sem, ppc, pc, cmd, txLocked, pending, bufferLength, issued, accepted, wire>>

----------------------------------------------------------------------------
(* The worker thread.                                                      *)
(* Faulty variant: the worker tries the semaphore and does not wait for it.*)
TrySemaphore ==
  /\ pc = "wait"
  /\ sem' = sem - 1
  /\ pc' = "length"
  /\ UNCHANGED <<queue, ppc, spc, cmd, txLocked, pending, bufferLength, issued, accepted, wire>>

WaitSemaphore ==
  /\ pc = "wait" /\ sem > 0
  /\ sem' = sem - 1
  /\ pc' = "length"
  /\ UNCHANGED <<queue, ppc, spc, cmd, txLocked, pending, bufferLength, issued, accepted, wire>>

(* One pass may have emptied the queue for several posts.                  *)
ReadLength ==
  /\ pc = "length"
  /\ pc' = IF queue = <<>> THEN "wait" ELSE "begin"
  /\ UNCHANGED <<queue, sem, ppc, spc, cmd, txLocked, pending, bufferLength, issued, accepted, wire>>

TransmitBegin ==
  /\ pc = "begin" /\ ~txLocked
  /\ txLocked' = TRUE
  /\ pending' = <<>>
  /\ bufferLength' = BatchSize
  /\ pc' = "remove"
  /\ UNCHANGED <<queue, sem, ppc, spc, cmd, issued, accepted, wire>>

(* Faulty variant: the command is read but stays in the queue.             *)
PeekCommand ==
  /\ pc = "remove"
  /\ cmd' = Head(queue)
  /\ pc' = "run"
  /\ UNCHANGED <<queue, sem, ppc, spc, txLocked, pending, bufferLength, issued, accepted, wire>>

RemoveCommand ==
  /\ pc = "remove"
  /\ cmd' = Head(queue)
  /\ queue' = Tail(queue)
  /\ pc' = "run"
  /\ UNCHANGED <<sem, ppc, spc, txLocked, pending, bufferLength, issued, accepted, wire>>

(* A message that does not fit sends what the buffer holds first.  That    *)
(* clears the buffer, and the room that is left, length - pending_bytes,   *)
(* is unsigned: until the next transmit_begin every later message fits.    *)
RunCommand ==
  /\ pc = "run" /\ cmd # Exit
  /\ IF Len(pending) # bufferLength
     THEN pending' = Append(pending, cmd) /\ UNCHANGED <<bufferLength, wire>>
     ELSE pending' = <<cmd>> /\ bufferLength' = 0 /\ wire' = wire \o pending
  /\ pc' = "again"
  /\ UNCHANGED <<queue, sem, ppc, spc, cmd, txLocked, issued, accepted>>

ReadLengthAgain ==
  /\ pc = "again"
  /\ pc' = IF queue = <<>> THEN "end" ELSE "remove"
  /\ UNCHANGED <<queue, sem, ppc, spc, cmd, txLocked, pending, bufferLength, issued, accepted, wire>>

(* connection_transmit_end: sends what is pending and unlocks the mutex.   *)
TransmitEnd ==
  /\ wire' = wire \o pending
  /\ pending' = <<>>
  /\ bufferLength' = IF pending = <<>> THEN bufferLength ELSE 0
  /\ txLocked' = FALSE
  /\ UNCHANGED <<queue, sem, ppc, spc, cmd, issued, accepted>>

BatchDone == pc = "end" /\ pc' = "wait" /\ TransmitEnd

(* EXIT calls transmit_end inside the loop and once more behind it, when    *)
(* the worker does not hold the mutex any more.                             *)
RunExit == pc = "run" /\ cmd = Exit /\ pc' = "exit" /\ TransmitEnd

(* Faulty variant: the break leaves the inner loop only.                   *)
ExitLoopOnly == pc = "exit" /\ pc' = "wait" /\ TransmitEnd

ExitDone == pc = "exit" /\ pc' = "ended" /\ TransmitEnd

----------------------------------------------------------------------------
WorkerStep ==
  \/ WaitSemaphore \/ ReadLength \/ TransmitBegin \/ RemoveCommand \/ RunCommand
  \/ ReadLengthAgain \/ BatchDone \/ RunExit \/ ExitDone

Stop == StopInsert \/ StopPost \/ StopJoin

(* A worker that waits for commands may do so for ever.                    *)
Resting == (spc = "stopped" \/ (pc = "wait" /\ sem = 0)) /\ UNCHANGED vars

Next == WorkerStep \/ Stop \/ Resting \/ \E p \in Producers : Prepare(p) \/ Post(p)

(* Threads run: the worker, and whoever has begun to prepare or to stop.   *)
Fairness ==
  /\ WF_vars(WorkerStep)
  /\ WF_vars(StopPost) /\ WF_vars(StopJoin)
  /\ \A p \in Producers : WF_vars(Post(p))

Spec == Init /\ [][Next]_vars /\ Fairness

----------------------------------------------------------------------------
(* Properties.                                                             *)

WorkerPC == {"wait", "length", "begin", "remove", "run", "again", "end", "exit", "ended"}

TypeOK ==
  /\ queue \in Seq(Commands \cup {Exit}) /\ sem \in Nat
  /\ ppc \in [Producers -> {"idle", "post"}]
  /\ spc \in {"idle", "post", "join", "stopped"}
  /\ pc \in WorkerPC /\ cmd \in Commands \cup {Exit}
  /\ txLocked \in BOOLEAN
  /\ bufferLength \in {0, BatchSize}
  /\ pending \in Seq(Commands) /\ wire \in Seq(Commands)
  /\ issued \in 0..MaxCommands
  /\ accepted \in Seq(Commands \cup {Exit})

(* The command between the queue and the send buffer.                      *)
InHand == CASE pc = "run" -> <<cmd>>
            [] pc \in {"exit", "ended"} -> <<Exit>>
            [] OTHER -> <<>>

(* Nothing is lost, duplicated or overtaken on its way through the queue,  *)
(* the worker and the send buffer, whatever the threads interleave.        *)
OrderKept == accepted = wire \o pending \o InHand \o queue

(* The worker never sleeps on a command: when it waits while the queue     *)
(* holds something, the semaphore is up or somebody is about to post it.   *)
(* (The semaphore counts posts, the loop counts commands: they differ.)    *)
NoLostWakeup ==
  pc \in {"wait", "end"} /\ queue # <<>> =>
    sem > 0 \/ spc = "post" \/ \E p \in Producers : ppc[p] = "post"

(* A batch is sent before the mutex is given up: when the connection is    *)
(* not locked, no message is left in its send buffer for transmit_begin to *)
(* discard.                                                                *)
NothingDiscarded == ~txLocked => pending = <<>>

Channel == INSTANCE CommandChannel
             WITH Commands <- Commands, Exit <- Exit, accepted <- accepted, wire <- wire

(* The queue, the semaphore and the worker together are a channel that     *)
(* delivers in order, once, and in the end everything it accepted before   *)
(* EXIT.                                                                   *)
DeliversInOrder == Channel!Spec

(* Stopping the worker returns, provided that the ring buffer took EXIT:   *)
(* the insertion is not checked (stop_worker_thread).                      *)
ExitAccepted == \E i \in DOMAIN accepted : accepted[i] = Exit
StopReturns == spc = "post" /\ ExitAccepted ~> spc = "stopped"
=============================================================================
