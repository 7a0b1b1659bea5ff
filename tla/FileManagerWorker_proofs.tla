---------------------- MODULE FileManagerWorker_proofs ----------------------
(***************************************************************************)
(* Theorems about the worker of a file manager, for any number of threads, *)
(* commands, and any size of the queue and of the send buffer.             *)
(***************************************************************************)
EXTENDS FileManagerWorker, Integers, SequenceLemmas, TLAPS

Item == Commands \cup {Exit}

(* Where the worker is decides who holds the mutex, whether there is a     *)
(* command to remove, and whether the send buffer is empty.                *)
WorkerControl ==
  /\ pc \in {"begin", "remove"} => queue # <<>>
  /\ txLocked <=> pc \in {"remove", "run", "again", "end"}
  /\ pc \in {"wait", "length", "begin", "exit", "ended"} => pending = <<>>

IInv == TypeOK /\ WorkerControl /\ OrderKept /\ NoLostWakeup

----------------------------------------------------------------------------
(* Sequences that are built by appending and taking apart.                 *)

(* A sequence of commands is a sequence of commands and EXITs.             *)
LEMMA CommandsAreItems == ASSUME NEW s \in Seq(Commands) PROVE s \in Seq(Item)
  BY SeqMonotonic, Commands \subseteq Item DEF Item

(* Appending to the last part of a concatenation appends to the whole.     *)
LEMMA AppendToLast ==
  ASSUME NEW s \in Seq(Item), NEW t \in Seq(Item), NEW e \in Item
  PROVE  Append(s \o t, e) = s \o Append(t, e)
<1>1. /\ Append(s \o t, e) = (s \o t) \o <<e>>
      /\ Append(t, e) = t \o <<e>>
  BY AppendIsConcat, ConcatProperties
<1>2. (s \o t) \o <<e>> = s \o (t \o <<e>>)
  BY ConcatAssociative, <<e>> \in Seq(Item)
<1> QED BY <1>1, <1>2

(* The head of the last part may be moved to the part in front of it.      *)
LEMMA HeadMoves ==
  ASSUME NEW s \in Seq(Item), NEW t \in Seq(Item), t # <<>>
  PROVE  s \o t = (s \o <<Head(t)>>) \o Tail(t)
<1>1. Head(t) \in Item /\ Tail(t) \in Seq(Item)
  BY HeadTailProperties
<1>2. <<Head(t)>> \o Tail(t) = t
  <2>1. <<Head(t)>> \in Seq(Item) /\ Len(<<Head(t)>>) = 1 /\ <<Head(t)>>[1] = Head(t)
    BY <1>1
  <2>2. Head(t) = t[1] /\ Len(t) \in Nat \ {0}
    BY EmptySeq
  <2>3. /\ Len(<<Head(t)>> \o Tail(t)) = 1 + Len(Tail(t))
        /\ <<Head(t)>> \o Tail(t) \in Seq(Item)
        /\ \A i \in 1..(1 + Len(Tail(t))) :
             (<<Head(t)>> \o Tail(t))[i] = IF i <= 1 THEN <<Head(t)>>[i] ELSE Tail(t)[i - 1]
    BY <1>1, <2>1, ConcatProperties
  <2>4. Len(Tail(t)) = Len(t) - 1 /\ \A i \in 1..Len(Tail(t)) : Tail(t)[i] = t[i + 1]
    BY HeadTailProperties
  <2>5. \A i \in 1..Len(t) : (<<Head(t)>> \o Tail(t))[i] = t[i]
    BY <2>1, <2>2, <2>3, <2>4
  <2> QED BY <2>2, <2>3, <2>4, <2>5, SeqEqual
<1>3. (s \o <<Head(t)>>) \o Tail(t) = s \o (<<Head(t)>> \o Tail(t))
  BY <1>1, ConcatAssociative, <<Head(t)>> \in Seq(Item)
<1> QED BY <1>2, <1>3

(* adt_rbfh_insert: what is inserted is the newest command of both the     *)
(* queue and the history of accepted commands, or of neither.              *)
LEMMA InsertProperties ==
  ASSUME NEW m \in Item, queue \in Seq(Item), accepted \in Seq(Item), Insert(m)
  PROVE  /\ queue' \in Seq(Item) /\ accepted' \in Seq(Item)
         /\ queue # <<>> => queue' # <<>>
         /\ \A s \in Seq(Item) : accepted = s \o queue => accepted' = s \o queue'
<1>1. CASE Len(queue) < Capacity
  <2>1. queue' = Append(queue, m) /\ accepted' = Append(accepted, m)
    BY <1>1 DEF Insert
  <2>2. /\ queue' \in Seq(Item) /\ accepted' \in Seq(Item) /\ queue' # <<>>
    BY <2>1, AppendProperties
  <2>3. ASSUME NEW s \in Seq(Item), accepted = s \o queue
        PROVE  accepted' = s \o queue'
    <3>1. Append(s \o queue, m) = s \o Append(queue, m)
      BY AppendToLast, Zenon
    <3> QED BY <2>1, <2>3, <3>1, Zenon
  <2> QED BY <2>2, <2>3
<1>2. CASE ~(Len(queue) < Capacity)
  BY <1>2 DEF Insert
<1> QED BY <1>1, <1>2

----------------------------------------------------------------------------
(* The invariant holds at the beginning.                                   *)
LEMMA InitHolds == Init => IInv
<1> SUFFICES ASSUME Init PROVE IInv
  OBVIOUS
<1>1. TypeOK
  <2>1. txLocked \in BOOLEAN
    BY DEF Init
  <2>2. /\ <<>> \in Seq(Commands) /\ <<>> \in Seq(Commands \cup {Exit})
        /\ 0 \in 0..MaxCommands
    BY WorkerAssumption
  <2> QED BY <2>1, <2>2 DEF Init, TypeOK, WorkerPC
<1>2. OrderKept
  BY DEF Init, OrderKept, InHand
<1> QED BY <1>1, <1>2 DEF Init, IInv, WorkerControl, NoLostWakeup

(* Every step keeps the types.                                             *)
LEMMA TypeKept == TypeOK /\ WorkerControl /\ [Next]_vars => TypeOK'
<1> SUFFICES ASSUME TypeOK, WorkerControl, [Next]_vars PROVE TypeOK'
  OBVIOUS
<1> USE DEF TypeOK, WorkerPC
<1>0. txLocked' \in BOOLEAN
  BY Zenon DEF Next, WorkerStep, Stop, Resting, Prepare, Post, StopInsert, StopPost, StopJoin,
       WaitSemaphore, ReadLength, TransmitBegin, RemoveCommand, RunCommand,
       ReadLengthAgain, BatchDone, RunExit, ExitDone, TransmitEnd, vars
<1>1. CASE UNCHANGED vars
  BY <1>1 DEF vars
<1>2. ASSUME NEW p \in Producers, Prepare(p) PROVE TypeOK'
  <2>1. issued + 1 \in Item /\ issued + 1 \in 0..MaxCommands
    BY <1>2, WorkerAssumption DEF Prepare, Item, Commands
  <2>2. queue' \in Seq(Item) /\ accepted' \in Seq(Item)
    BY <1>2, <2>1, InsertProperties DEF Prepare, Item
  <2> QED BY <1>2, <2>1, <2>2 DEF Prepare, Item
<1>3. ASSUME NEW p \in Producers, Post(p) PROVE TypeOK'
  BY <1>3 DEF Post
<1>4. CASE StopInsert
  <2>1. queue' \in Seq(Item) /\ accepted' \in Seq(Item)
    BY <1>4, InsertProperties DEF StopInsert, Item
  <2> QED BY <1>4, <2>1 DEF StopInsert, Item
<1>5. CASE StopPost \/ StopJoin
  BY <1>5 DEF StopPost, StopJoin
<1>6. CASE WaitSemaphore
  BY <1>6 DEF WaitSemaphore
<1>10. CASE ReadLength \/ ReadLengthAgain
  BY <1>10 DEF ReadLength, ReadLengthAgain
<1>11. CASE TransmitBegin
  BY <1>0, <1>11 DEF TransmitBegin
<1>7. CASE RemoveCommand
  <2>1. queue # <<>>
    BY <1>7 DEF RemoveCommand, WorkerControl
  <2>2. Head(queue) \in Item /\ Tail(queue) \in Seq(Item)
    BY <2>1, HeadTailProperties DEF Item
  <2> QED BY <1>7, <2>2 DEF RemoveCommand, Item
<1>8. CASE RunCommand
  <2>1. cmd \in Commands
    BY <1>8 DEF RunCommand
  <2>2. pending' \in Seq(Commands)
    <3>1. pending' = Append(pending, cmd) \/ pending' = <<cmd>>
      BY <1>8, Zenon DEF RunCommand
    <3>2. Append(pending, cmd) \in Seq(Commands)
      BY <2>1, AppendProperties
    <3>3. <<cmd>> \in Seq(Commands)
      BY <2>1
    <3> QED BY <3>1, <3>2, <3>3, Zenon
  <2>3. wire' \in Seq(Commands)
    <3>1. wire' = wire \/ wire' = wire \o pending
      BY <1>8, Zenon DEF RunCommand
    <3> QED BY <3>1, ConcatProperties
  <2> QED BY <1>8, <2>2, <2>3 DEF RunCommand
<1>9. CASE BatchDone \/ RunExit \/ ExitDone
  <2>1. TransmitEnd /\ pc' \in WorkerPC
    BY <1>9 DEF BatchDone, RunExit, ExitDone
  <2>2. wire' \in Seq(Commands)
    BY <2>1, ConcatProperties DEF TransmitEnd
  <2> QED BY <1>0, <2>1, <2>2 DEF TransmitEnd
<1> QED BY <1>1, <1>2, <1>3, <1>4, <1>5, <1>6, <1>10, <1>11, <1>7, <1>8, <1>9
        DEF Next, WorkerStep, Stop, Resting

(* Every step keeps the correspondence of position, mutex and buffer.      *)
LEMMA ControlKept == TypeOK /\ WorkerControl /\ [Next]_vars => WorkerControl'
<1> SUFFICES ASSUME TypeOK, WorkerControl, [Next]_vars PROVE WorkerControl'
  OBVIOUS
<1> USE DEF WorkerControl
<1>1. CASE UNCHANGED vars
  BY <1>1 DEF vars
<1>2. ASSUME NEW p \in Producers, Prepare(p) PROVE WorkerControl'
  <2>1. issued + 1 \in Item
    BY <1>2, WorkerAssumption DEF TypeOK, Prepare, Item, Commands
  <2>2. queue # <<>> => queue' # <<>>
    BY <1>2, <2>1, InsertProperties DEF TypeOK, Prepare, Item
  <2> QED BY <1>2, <2>2 DEF Prepare
<1>3. ASSUME NEW p \in Producers, Post(p) PROVE WorkerControl'
  BY <1>3 DEF Post
<1>4. CASE StopInsert
  <2>1. queue # <<>> => queue' # <<>>
    BY <1>4, InsertProperties DEF TypeOK, StopInsert, Item
  <2> QED BY <1>4, <2>1 DEF StopInsert
<1>5. CASE StopPost \/ StopJoin
  BY <1>5 DEF StopPost, StopJoin
<1>6. CASE WaitSemaphore
  BY <1>6, Zenon DEF WaitSemaphore
<1>10. CASE ReadLength
  BY <1>10, Zenon DEF ReadLength
<1>11. CASE TransmitBegin
  BY <1>11, Zenon DEF TransmitBegin
<1>7. CASE RemoveCommand \/ RunCommand \/ ReadLengthAgain
  BY <1>7, Zenon DEF RemoveCommand, RunCommand, ReadLengthAgain
<1>8. CASE BatchDone \/ RunExit \/ ExitDone
  BY <1>8, Zenon DEF BatchDone, RunExit, ExitDone, TransmitEnd
<1> QED BY <1>1, <1>2, <1>3, <1>4, <1>5, <1>6, <1>10, <1>11, <1>7, <1>8
        DEF Next, WorkerStep, Stop, Resting

(* The command in hand is a sequence of at most one item.                  *)
LEMMA InHandType == TypeOK => InHand \in Seq(Item)
<1> SUFFICES ASSUME TypeOK PROVE InHand \in Seq(Item)
  OBVIOUS
<1>1. <<>> \in Seq(Item) /\ <<cmd>> \in Seq(Item) /\ <<Exit>> \in Seq(Item)
  BY DEF TypeOK, Item
<1>2. InHand \in {<<>>, <<cmd>>, <<Exit>>}
  BY DEF InHand
<1> QED BY <1>1, <1>2

(* Every step keeps commands in order: it moves the head of one part of    *)
(* the line to the part in front of it, or appends to queue and history.   *)
LEMMA OrderIsKept == TypeOK /\ WorkerControl /\ OrderKept /\ [Next]_vars => OrderKept'
<1> SUFFICES ASSUME TypeOK, WorkerControl, OrderKept, [Next]_vars PROVE OrderKept'
  OBVIOUS
<1> DEFINE sent == wire \o pending
           ahead == sent \o InHand
<1>1. /\ queue \in Seq(Item) /\ accepted \in Seq(Item) /\ InHand \in Seq(Item)
      /\ wire \in Seq(Item) /\ pending \in Seq(Item)
      /\ cmd \in Item
  BY InHandType, CommandsAreItems DEF TypeOK, Item
<1>2. sent \in Seq(Item) /\ ahead \in Seq(Item)
  BY <1>1, ConcatProperties
<1>3. accepted = ahead \o queue
  BY DEF OrderKept
<1>4. ASSUME NEW m \in Item, Insert(m), UNCHANGED <<pc, cmd, pending, wire>>
      PROVE  OrderKept'
  <2>1. accepted' = ahead \o queue'
    BY <1>1, <1>2, <1>3, <1>4, InsertProperties
  <2>2. ahead' = ahead
    BY <1>4 DEF InHand
  <2> QED BY <2>1, <2>2, Zenon DEF OrderKept
<1>5. ASSUME UNCHANGED <<queue, accepted, wire, pending, InHand>>
      PROVE  OrderKept'
  BY <1>5 DEF OrderKept
<1>6. ASSUME UNCHANGED <<queue, accepted, InHand>>, sent' = sent
      PROVE  OrderKept'
  BY <1>6 DEF OrderKept
<1>7. ASSUME NEW p \in Producers, Prepare(p) PROVE OrderKept'
  <2>1. issued + 1 \in Item
    BY <1>7, WorkerAssumption DEF TypeOK, Prepare, Item, Commands
  <2> QED BY <1>4, <1>7, <2>1 DEF Prepare
<1>8. CASE StopInsert
  BY <1>4, <1>8 DEF StopInsert, Item
<1>9. ASSUME \/ \E p \in Producers : Post(p)
             \/ StopPost \/ StopJoin
             \/ WaitSemaphore \/ ReadLength \/ ReadLengthAgain
             \/ UNCHANGED vars
      PROVE  OrderKept'
  <2>1. UNCHANGED <<queue, accepted, wire, pending, InHand>>
    BY <1>9 DEF Post, StopPost, StopJoin, WaitSemaphore, ReadLength, ReadLengthAgain, vars, InHand
  <2> QED BY <1>5, <2>1
<1>10. CASE TransmitBegin
  <2>1. UNCHANGED <<queue, accepted, wire, pending, InHand>>
    BY <1>10 DEF TransmitBegin, WorkerControl, InHand
  <2> QED BY <1>5, <2>1
<1>11. CASE RemoveCommand
  <2>1. queue # <<>> /\ InHand = <<>> /\ InHand' = <<Head(queue)>> /\ queue' = Tail(queue)
    BY <1>11 DEF RemoveCommand, WorkerControl, InHand
  <2>2. accepted = sent \o queue
    BY <1>2, <1>3, <2>1, ConcatEmptySeq
  <2>3. accepted = (sent \o <<Head(queue)>>) \o Tail(queue)
    BY <1>1, <1>2, <2>1, <2>2, HeadMoves
  <2>4. sent' = sent /\ accepted' = accepted
    BY <1>11 DEF RemoveCommand
  <2> QED BY <2>1, <2>3, <2>4, Zenon DEF OrderKept
<1>12. CASE RunCommand
  <2>1. InHand = <<cmd>> /\ InHand' = <<>> /\ UNCHANGED <<queue, accepted>>
    BY <1>12 DEF RunCommand, InHand
  <2>2. sent' = sent \o <<cmd>>
    <3>1. CASE pending' = Append(pending, cmd) /\ wire' = wire
      <4>1. Append(pending, cmd) = pending \o <<cmd>>
        BY <1>1, AppendIsConcat
      <4>2. wire \o (pending \o <<cmd>>) = (wire \o pending) \o <<cmd>>
        BY <1>1, ConcatAssociative, <<cmd>> \in Seq(Item)
      <4> QED BY <3>1, <4>1, <4>2, Zenon
    <3>2. CASE pending' = <<cmd>> /\ wire' = wire \o pending
      BY <3>2, Zenon
    <3> QED BY <1>12, <3>1, <3>2, Zenon DEF RunCommand
  <2>3. ahead' = ahead
    <3>1. sent' \o <<>> = sent'
      BY <1>1, <1>2, <2>2, ConcatEmptySeq, ConcatProperties, <<cmd>> \in Seq(Item)
    <3> QED BY <2>1, <2>2, <3>1, Zenon
  <2> QED BY <1>3, <2>1, <2>3, Zenon DEF OrderKept
<1>13. CASE BatchDone \/ RunExit \/ ExitDone
  <2>1. UNCHANGED <<queue, accepted, InHand>>
    BY <1>13 DEF BatchDone, RunExit, ExitDone, TransmitEnd, InHand
  <2>2. wire' = wire \o pending /\ pending' = <<>>
    BY <1>13 DEF BatchDone, RunExit, ExitDone, TransmitEnd
  <2>3. sent' = sent
    BY <1>2, <2>2, ConcatEmptySeq
  <2> QED BY <1>6, <2>1, <2>3
<1> QED BY <1>7, <1>8, <1>9, <1>10, <1>11, <1>12, <1>13, Zenon DEF Next, WorkerStep, Stop, Resting

(* Every step keeps somebody around who will wake the worker.              *)
LEMMA WakeupKept == TypeOK /\ NoLostWakeup /\ [Next]_vars => NoLostWakeup'
<1> SUFFICES ASSUME TypeOK, NoLostWakeup, [Next]_vars PROVE NoLostWakeup'
  OBVIOUS
<1> USE DEF NoLostWakeup
<1>1. CASE UNCHANGED vars
  BY <1>1 DEF vars
<1>2. ASSUME NEW p \in Producers, Prepare(p) PROVE NoLostWakeup'
  <2>1. ppc'[p] = "post"
    BY <1>2 DEF Prepare, TypeOK
  <2> QED BY <2>1
<1>3. ASSUME NEW p \in Producers, Post(p) PROVE NoLostWakeup'
  <2>1. sem' > 0
    BY <1>3 DEF Post, TypeOK
  <2> QED BY <2>1
<1>4. CASE StopInsert
  BY <1>4 DEF StopInsert
<1>5. CASE StopPost
  <2>1. sem' > 0
    BY <1>5 DEF StopPost, TypeOK
  <2> QED BY <2>1
<1>6. CASE StopJoin
  BY <1>6 DEF StopJoin
<1>7. CASE WaitSemaphore \/ TransmitBegin \/ RemoveCommand \/ RunCommand \/ RunExit \/ ExitDone
  BY <1>7 DEF WaitSemaphore, TransmitBegin, RemoveCommand, RunCommand, RunExit, ExitDone
<1>8. CASE ReadLength \/ ReadLengthAgain
  BY <1>8 DEF ReadLength, ReadLengthAgain
<1>9. CASE BatchDone
  BY <1>9 DEF BatchDone, TransmitEnd
<1> QED BY <1>1, <1>2, <1>3, <1>4, <1>5, <1>6, <1>7, <1>8, <1>9
        DEF Next, WorkerStep, Stop, Resting

(* The invariant is inductive.                                             *)
LEMMA StepHolds == IInv /\ [Next]_vars => IInv'
  BY TypeKept, ControlKept, OrderIsKept, WakeupKept DEF IInv

(* In all reachable states of the worker and the threads that send         *)
(* (worker_main, run, file_manager_worker.c).                              *)
THEOREM Invariant == Spec => []IInv
  BY InitHolds, StepHolds, PTL DEF Spec

----------------------------------------------------------------------------
(* The variables keep their types.                                         *)
THEOREM TypeCorrect == Spec => []TypeOK
  BY Invariant, PTL DEF IInv

(* No command is lost, duplicated or overtaken between the thread that     *)
(* hands it over and the socket, for any number of threads and any sizes.  *)
THEOREM OrderIsAlwaysKept == Spec => []OrderKept
  BY Invariant, PTL DEF IInv

(* The worker never waits for a semaphore that nobody will post while      *)
(* there is a command in its queue.                                        *)
THEOREM NoWakeupIsLost == Spec => []NoLostWakeup
  BY Invariant, PTL DEF IInv

(* An unlocked connection has nothing in its send buffer.                  *)
THEOREM NothingIsDiscarded == Spec => []NothingDiscarded
<1>1. IInv => NothingDiscarded
  BY DEF IInv, TypeOK, WorkerPC, WorkerControl, NothingDiscarded
<1> QED BY <1>1, Invariant, PTL

----------------------------------------------------------------------------
(* The worker implements the command channel.                              *)

(* What was accepted begins with commands only: all of them are due.       *)
LEMMA CommandsInFrontAreDue ==
  ASSUME NEW s \in Seq(Commands), NEW t \in Seq(Item), accepted = s \o t
  PROVE  /\ Len(Channel!Due) \in Nat /\ Len(s) <= Len(Channel!Due)
         /\ SubSeq(Channel!Due, 1, Len(s)) = s
<1> DEFINE IsExit(i) == i \in DOMAIN accepted /\ accepted[i] = Exit
           First(i) == IsExit(i) /\ \A j \in 1..(i - 1) : accepted[j] # Exit
<1>1. s \in Seq(Item) /\ accepted \in Seq(Item) /\ Len(s) \in Nat /\ Len(t) \in Nat
  BY CommandsAreItems, ConcatProperties
<1>2. /\ Len(accepted) = Len(s) + Len(t) /\ DOMAIN accepted = 1..Len(accepted)
      /\ \A i \in 1..Len(s) : accepted[i] = s[i] /\ s[i] \in Commands /\ accepted[i] # Exit
  <2>1. \A i \in 1..Len(s) : s[i] \in Commands /\ s[i] # Exit
    BY ElementOfSeq, WorkerAssumption
  <2>2. /\ Len(accepted) = Len(s) + Len(t)
        /\ \A i \in 1..(Len(s) + Len(t)) :
              accepted[i] = IF i <= Len(s) THEN s[i] ELSE t[i - Len(s)]
    BY <1>1, ConcatProperties
  <2>3. DOMAIN accepted = 1..Len(accepted)
    BY <1>1, LenProperties
  <2> QED BY <1>1, <2>1, <2>2, <2>3
<1>3. \E n \in Len(s)..Len(accepted) : Channel!Due = SubSeq(accepted, 1, n)
  <2>1. CASE \E i \in DOMAIN accepted : accepted[i] = Exit
    <3> DEFINE T == {i \in DOMAIN accepted : accepted[i] = Exit}
               k == CHOOSE i \in DOMAIN accepted :
                      accepted[i] = Exit /\ \A j \in 1..(i - 1) : accepted[j] # Exit
    <3>1. PICK x \in T : \A y \in T : ~(y < x)
      <4>1. T \subseteq Nat /\ T # {}
        BY <1>1, <1>2, <2>1
      <4> HIDE DEF T
      <4> QED BY <4>1, LeastExists
    <3>2. x \in DOMAIN accepted /\ First(x)
      <4>1. x \in 1..Len(accepted) /\ Len(accepted) \in Nat
        BY <1>1, <1>2
      <4>2. ASSUME NEW j \in 1..(x - 1) PROVE accepted[j] # Exit
        <5>1. j \in DOMAIN accepted /\ j < x
          BY <1>2, <4>1
        <5> QED BY <3>1, <5>1
      <4> QED BY <4>1, <4>2
    <3>3. k \in DOMAIN accepted /\ accepted[k] = Exit
      BY <3>2
    <3>4. Channel!Due = SubSeq(accepted, 1, k - 1)
      BY <2>1 DEF Channel!Due
    <3>5. k - 1 \in Len(s)..Len(accepted)
      <4> HIDE DEF k
      <4> QED BY <1>1, <1>2, <3>3
    <3> HIDE DEF k
    <3> QED BY <3>4, <3>5
  <2>2. CASE ~ \E i \in DOMAIN accepted : accepted[i] = Exit
    <3>1. Channel!Due = accepted
      BY <2>2 DEF Channel!Due
    <3>2. accepted = SubSeq(accepted, 1, Len(accepted))
      BY <1>1, SubSeqFull
    <3> QED BY <1>1, <1>2, <3>1, <3>2
  <2> QED BY <2>1, <2>2
<1>4. PICK n \in Len(s)..Len(accepted) : Channel!Due = SubSeq(accepted, 1, n)
  BY <1>3
<1>5. /\ n \in Nat /\ Channel!Due \in Seq(Item) /\ Len(Channel!Due) = n
      /\ \A i \in 1..n : Channel!Due[i] = accepted[i]
  <2>1. \A i \in 1..n : accepted[i] \in Item
    BY <1>1, <1>2, <1>4, ElementOfSeq
  <2>2. n \in Nat
    BY <1>1, <1>4
  <2> QED BY <1>4, <2>1, <2>2, SubSeqProperties
<1>6. /\ SubSeq(Channel!Due, 1, Len(s)) \in Seq(Item)
      /\ Len(SubSeq(Channel!Due, 1, Len(s))) = Len(s)
      /\ \A i \in 1..Len(s) : SubSeq(Channel!Due, 1, Len(s))[i] = Channel!Due[i]
  <2>1. \A i \in 1..Len(s) : Channel!Due[i] \in Item
    BY <1>1, <1>4, <1>5, ElementOfSeq
  <2> QED BY <1>1, <2>1, SubSeqProperties
<1>7. SubSeq(Channel!Due, 1, Len(s)) = s
  BY <1>1, <1>2, <1>4, <1>5, <1>6, SeqEqual
<1> QED BY <1>1, <1>4, <1>5, <1>7

(* Sending what is pending is a step of the channel, or none.              *)
LEMMA SendingDelivers ==
  ASSUME TypeOK, OrderKept, UNCHANGED accepted, wire' = wire \o pending
  PROVE  Channel!Deliver \/ UNCHANGED <<accepted, wire>>
<1>1. /\ wire \in Seq(Commands) /\ pending \in Seq(Commands) /\ wire' \in Seq(Commands)
      /\ Len(wire) \in Nat /\ Len(pending) \in Nat /\ Len(wire') = Len(wire) + Len(pending)
  BY ConcatProperties DEF TypeOK
<1>2. InHand \in Seq(Item) /\ queue \in Seq(Item) /\ wire' \in Seq(Item)
  BY <1>1, InHandType, CommandsAreItems DEF TypeOK, Item
<1>3. accepted = wire' \o (InHand \o queue)
  <2>1. accepted = (wire' \o InHand) \o queue
    BY Zenon DEF OrderKept
  <2>2. ASSUME NEW s \in Seq(Item)
        PROVE  (s \o InHand) \o queue = s \o (InHand \o queue)
    <3> DEFINE h == InHand
    <3>1. h \in Seq(Item) /\ queue \in Seq(Item)
      BY <1>2
    <3> HIDE DEF h
    <3>2. (s \o h) \o queue = s \o (h \o queue)
      BY <3>1, ConcatAssociative, SMTT(30)
    <3> QED BY <3>2 DEF h
  <2> QED BY <1>2, <2>1, <2>2, Zenon
<1>4. CASE pending = <<>>
  BY <1>1, <1>4, ConcatEmptySeq
<1>5. CASE pending # <<>>
  <2>1. Len(pending) > 0
    BY <1>1, <1>5, EmptySeq
  <2>2. /\ Len(Channel!Due) \in Nat /\ Len(wire') <= Len(Channel!Due)
        /\ SubSeq(Channel!Due, 1, Len(wire')) = wire'
    <3>1. InHand \o queue \in Seq(Item)
      BY <1>2, ConcatProperties
    <3> QED BY <1>1, <1>3, <3>1, CommandsInFrontAreDue
  <2>3. Len(wire') \in (Len(wire) + 1)..Len(Channel!Due)
    BY <1>1, <2>1, <2>2
  <2> QED BY <2>2, <2>3 DEF Channel!Deliver
<1> QED BY <1>4, <1>5

(* Every step of the program is a step of the channel, or none.            *)
LEMMA StepIsChannelStep ==
  IInv /\ [Next]_vars => [Channel!Next]_<<accepted, wire>>
<1> SUFFICES ASSUME IInv, [Next]_vars PROVE [Channel!Next]_<<accepted, wire>>
  OBVIOUS
<1> USE DEF Channel!Next
<1>1. ASSUME NEW m \in Item, Insert(m), UNCHANGED wire
      PROVE  [Channel!Next]_<<accepted, wire>>
  BY <1>1, Zenon DEF Insert, Channel!Accept, Item
<1>2. ASSUME NEW p \in Producers, Prepare(p) PROVE [Channel!Next]_<<accepted, wire>>
  <2>1. issued + 1 \in Item
    BY <1>2, WorkerAssumption DEF IInv, TypeOK, Prepare, Item, Commands
  <2> QED BY <1>1, <1>2, <2>1 DEF Prepare
<1>3. CASE StopInsert
  BY <1>1, <1>3 DEF StopInsert, Item
<1>4. CASE RunCommand \/ BatchDone \/ RunExit \/ ExitDone
  <2>1. UNCHANGED <<accepted, wire>> \/ (UNCHANGED accepted /\ wire' = wire \o pending)
    BY <1>4 DEF RunCommand, BatchDone, RunExit, ExitDone, TransmitEnd
  <2> QED BY <2>1, SendingDelivers DEF IInv
<1>5. ASSUME \/ \E p \in Producers : Post(p)
             \/ StopPost \/ StopJoin
             \/ WaitSemaphore \/ ReadLength \/ TransmitBegin \/ RemoveCommand \/ ReadLengthAgain
             \/ UNCHANGED vars
      PROVE  [Channel!Next]_<<accepted, wire>>
  BY <1>5 DEF Post, StopPost, StopJoin, WaitSemaphore, ReadLength, TransmitBegin, RemoveCommand,
       ReadLengthAgain, vars
<1> QED BY <1>2, <1>3, <1>4, <1>5, Zenon DEF Next, WorkerStep, Stop, Resting

(* Whatever the threads do, the socket sees the commands that the queue    *)
(* accepted before EXIT, in their order and each of them once.             *)
THEOREM ImplementsChannel ==
  Spec => Channel!Init /\ [][Channel!Next]_<<accepted, wire>>
<1>1. Init => Channel!Init
  BY DEF Init, Channel!Init
<1> QED BY <1>1, StepIsChannelStep, Invariant, PTL DEF Spec
=============================================================================
