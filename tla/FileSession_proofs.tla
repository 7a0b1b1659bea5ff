------------------------- MODULE FileSession_proofs -------------------------
(***************************************************************************)
(* Proofs about FileSession for any nodes, ports, threads and sizes.       *)
(*                                                                         *)
(* The variables keep their types, and no write is ever sent to a side     *)
(* that has not opened the file (SessionInv).                              *)
(*                                                                         *)
(* Neither side ever receives something it does not expect, and nothing    *)
(* that is written to an open file is lost on the way.  Both rest on the   *)
(* protocol asking for everything once (ProtocolInv): a definition is      *)
(* published, asked for, read, sent and received, and a require port file  *)
(* is published, asked for and connected, each in one place at a time: a   *)
(* message on its way, or a thread that has the file in hand.              *)
(***************************************************************************)
EXTENDS FileSession, SequenceLemmas, TLAPS
(* What makes a message of s welcome at the other side: it is about a file *)
(* of the right side, which is in the map where it will be looked for and  *)
(* open where it has to be.                                                *)
Welcome(s, m) ==
  /\ m.type = "publish" => Owner(m.file) = s /\ m.file \in local[s]
  /\ m.type = "open" => /\ Owner(m.file) = Other(s)
                        /\ m.file \in local[Other(s)] \cap open[s] \cap remote[s]
  /\ m.type = "write" => Owner(m.file) = s /\ m.file \in remote[Other(s)] \cap open[Other(s)]

ChannelsWelcome == \A s \in Sides : \A i \in DOMAIN channel[s] : Welcome(s, channel[s][i])

(* The file maps mirror each other, and a file is open at its owner only   *)
(* if the other side has opened it before it asked.                        *)
MapsAgree ==
  /\ \A s \in Sides : local[s] \subseteq FilesOf(s) /\ remote[s] \subseteq local[Other(s)]
  /\ \A f \in Files : f \in open[Owner(f)] =>
                        f \in open[Other(Owner(f))] \cap remote[Other(Owner(f))]

SessionInv == TypeOK /\ ChannelsWelcome /\ MapsAgree

-----------------------------------------------------------------------------
(* The other side of a side.                                               *)
LEMMA OtherSide ==
  /\ Client \in Sides /\ Server \in Sides /\ Client # Server
  /\ \A s \in Sides : Other(s) \in Sides /\ Other(s) # s /\ Other(Other(s)) = s
  /\ \A s, r \in Sides : r = s \/ r = Other(s)
  /\ \A f \in Files : Owner(f) \in Sides
BY DEF Sides, Client, Server, Other, Owner

(* Where files only become known and open, a welcome message stays so.     *)
LEMMA WelcomeStays ==
  ASSUME NEW s \in Sides, NEW m, Welcome(s, m),
         \A r \in Sides : local[r] \subseteq local'[r],
         \A r \in Sides : remote[r] \subseteq remote'[r],
         \A r \in Sides : open[r] \subseteq open'[r]
  PROVE  Welcome(s, m)'
BY OtherSide DEF Welcome

(* What Answer does to the channels: they keep their type, and every       *)
(* message in them was there or is one of the answers.                     *)
LEMMA AnswerLemma ==
  ASSUME TypeOK, NEW s \in Sides, NEW ms \in Seq(Messages), channel[Other(s)] # <<>>,
         Answer(s, ms)
  PROVE  /\ channel' \in [Sides -> Seq(Messages)]
         /\ \A r \in Sides : \A i \in DOMAIN channel'[r] :
              \/ \E j \in DOMAIN channel[r] : channel'[r][i] = channel[r][j]
              \/ r = s /\ \E j \in DOMAIN ms : channel'[r][i] = ms[j]
<1>1. /\ channel \in [Sides -> Seq(Messages)] /\ Other(s) \in Sides /\ Other(s) # s
      /\ channel' = [channel EXCEPT ![Other(s)] = Tail(@), ![s] = @ \o ms]
  BY OtherSide DEF TypeOK, Answer
<1>2. /\ channel'[s] = channel[s] \o ms
      /\ channel'[Other(s)] = Tail(channel[Other(s)])
  BY <1>1
<1>3. channel' \in [Sides -> Seq(Messages)]
  <2>1. Tail(channel[Other(s)]) \in Seq(Messages) /\ channel[s] \o ms \in Seq(Messages)
    BY <1>1
  <2> QED BY <1>1, <2>1
<1>4. ASSUME NEW i \in DOMAIN channel'[Other(s)]
      PROVE  \E j \in DOMAIN channel[Other(s)] : channel'[Other(s)][i] = channel[Other(s)][j]
  <2>1. /\ i + 1 \in DOMAIN channel[Other(s)]
        /\ channel'[Other(s)][i] = channel[Other(s)][i + 1]
    BY <1>1, <1>2
  <2> QED BY <2>1
<1>5. ASSUME NEW i \in DOMAIN channel'[s]
      PROVE  \/ \E j \in DOMAIN channel[s] : channel'[s][i] = channel[s][j]
             \/ \E j \in DOMAIN ms : channel'[s][i] = ms[j]
  <2>1. /\ channel[s] \in Seq(Messages) /\ i \in 1..(Len(channel[s]) + Len(ms))
        /\ channel'[s] = channel[s] \o ms
    BY <1>1, <1>2
  <2>2. CASE i <= Len(channel[s])
    BY <2>1, <2>2
  <2>3. CASE i > Len(channel[s])
    <3>1. i - Len(channel[s]) \in DOMAIN ms /\ channel'[s][i] = ms[i - Len(channel[s])]
      BY <2>1, <2>3
    <3> QED BY <3>1
  <2> QED BY <2>1, <2>2, <2>3
<1> QED BY <1>3, <1>4, <1>5, OtherSide

(* After an answer of welcome messages the channels hold welcome messages. *)
LEMMA AnswerWelcome ==
  ASSUME SessionInv, NEW s \in Sides, NEW ms \in Seq(Messages), channel[Other(s)] # <<>>,
         Answer(s, ms), \A j \in DOMAIN ms : Welcome(s, ms[j])',
         \A r \in Sides : local[r] \subseteq local'[r],
         \A r \in Sides : remote[r] \subseteq remote'[r],
         \A r \in Sides : open[r] \subseteq open'[r]
  PROVE  ChannelsWelcome'
<1> SUFFICES ASSUME NEW r \in Sides, NEW i \in DOMAIN channel'[r]
             PROVE  Welcome(r, channel[r][i])'
  BY DEF ChannelsWelcome
<1>1. PICK m : m = channel'[r][i]
  OBVIOUS
<1>2. CASE \E j \in DOMAIN channel[r] : m = channel[r][j]
  <2>1. Welcome(r, m)
    BY <1>2 DEF SessionInv, ChannelsWelcome
  <2>2. Welcome(r, m)'
    BY <2>1, WelcomeStays
  <2> QED BY <1>1, <2>2
<1>3. CASE r = s /\ \E j \in DOMAIN ms : m = ms[j]
  <2>1. Welcome(r, m)'
    BY <1>3
  <2> QED BY <1>1, <2>1
<1> QED BY <1>1, <1>2, <1>3, AnswerLemma DEF SessionInv

-----------------------------------------------------------------------------
(* What messages are made of.                                              *)
LEMMA MessageLemma ==
  /\ Greeting \in Messages /\ Acknowledge \in Messages
  /\ \A f \in Files : Publish(f) \in Messages /\ Open(f) \in Messages
  /\ \A f \in Files : \A v \in PartialValues(f) : Write(f, v) \in Messages
  /\ \A m \in Messages :
       /\ m.type \in {"publish", "open", "write"} => m.file \in Files
       /\ m.type = "write" => m.value \in PartialValues(m.file)
<1>1. \A f \in Files : \A v \in PartialValues(f) :
        Write(f, v) \in [type : {"write"}, file : {f}, value : PartialValues(f)]
  BY DEF Write
<1>2. ASSUME NEW m \in Messages
      PROVE  /\ m.type \in {"publish", "open", "write"} => m.file \in Files
             /\ m.type = "write" => m.value \in PartialValues(m.file)
  <2>1. CASE m \in {Greeting, Acknowledge}
    BY <2>1 DEF Greeting, Acknowledge
  <2>2. CASE m \in [type : {"publish", "open"}, file : Files]
    BY <2>2
  <2>3. CASE \E f \in Files : m \in [type : {"write"}, file : {f}, value : PartialValues(f)]
    BY <2>3
  <2> QED BY <2>1, <2>2, <2>3 DEF Messages
<1> QED BY <1>1, <1>2 DEF Messages, Publish, Open

(* What work is made of.                                                   *)
LEMMA WorkLemma ==
  /\ Idle \in Work
  /\ \A f \in Files : [step |-> "opened", file |-> f] \in Work
  /\ \A f \in Files : \A v \in PartialValues(f) :
       [step |-> "queue", file |-> f, value |-> v] \in Work
  /\ \A w \in Work :
       /\ w.step \in {"opened", "queue"} => w.file \in Files
       /\ w.step = "queue" => w.value \in PartialValues(w.file)
<1>1. \A f \in Files : \A v \in PartialValues(f) :
        [step |-> "queue", file |-> f, value |-> v]
          \in [step : {"queue"}, file : {f}, value : PartialValues(f)]
  OBVIOUS
<1>2. ASSUME NEW w \in Work
      PROVE  /\ w.step \in {"opened", "queue"} => w.file \in Files
             /\ w.step = "queue" => w.value \in PartialValues(w.file)
  <2>1. CASE w = Idle
    BY <2>1 DEF Idle
  <2>2. CASE w \in [step : {"opened"}, file : Files]
    BY <2>2
  <2>3. CASE \E f \in Files : w \in [step : {"queue"}, file : {f}, value : PartialValues(f)]
    BY <2>3
  <2> QED BY <2>1, <2>2, <2>3 DEF Work
<1> QED BY <1>1, <1>2 DEF Work

(* Partial values: of all the ports, of one port, and what they leave when *)
(* they are written.                                                       *)
LEMMA ValueLemma ==
  ASSUME NEW f \in Files
  PROVE  /\ [PortsIn(f) -> Values] \subseteq PartialValues(f)
         /\ \A p \in PortsIn(f) : \A x \in Values : [q \in {p} |-> x] \in PartialValues(f)
         /\ \A c \in [PortsIn(f) -> Values] : \A v \in PartialValues(f) :
              Written(c, v) \in [PortsIn(f) -> Values]
<1>1. ASSUME NEW p \in PortsIn(f), NEW x \in Values
      PROVE  [q \in {p} |-> x] \in PartialValues(f)
  <2>1. {p} \in SUBSET PortsIn(f) /\ [q \in {p} |-> x] \in [{p} -> Values]
    OBVIOUS
  <2> QED BY <2>1 DEF PartialValues
<1>2. ASSUME NEW c \in [PortsIn(f) -> Values], NEW v \in PartialValues(f)
      PROVE  Written(c, v) \in [PortsIn(f) -> Values]
  <2>1. PICK P \in SUBSET PortsIn(f) : v \in [P -> Values]
    BY DEF PartialValues
  <2> QED BY <2>1 DEF Written
<1> QED BY <1>1, <1>2 DEF PartialValues

(* What is known of the message that is handled.                           *)
LEMMA IncomingLemma ==
  ASSUME SessionInv, NEW s \in Sides, NEW type, Receives(s, type)
  PROVE  /\ channel[Other(s)] # <<>>
         /\ Incoming(s) \in Messages /\ Incoming(s).type = type
         /\ Welcome(Other(s), Incoming(s))
<1>1. /\ channel[Other(s)] \in Seq(Messages) /\ channel[Other(s)] # <<>>
      /\ Other(s) \in Sides
  BY OtherSide DEF SessionInv, TypeOK, Receives
<1>2. 1 \in DOMAIN channel[Other(s)] /\ Incoming(s) = channel[Other(s)][1]
  BY <1>1 DEF Incoming
<1>3. \A i \in DOMAIN channel[Other(s)] : Welcome(Other(s), channel[Other(s)][i])
  BY <1>1 DEF SessionInv, ChannelsWelcome
<1> QED BY <1>1, <1>2, <1>3 DEF Receives
(* A handler that answers with ms keeps the channels in order.  The facts  *)
(* of AnswerLemma and AnswerWelcome, as the actions need them.             *)
LEMMA HandlerLemma ==
  ASSUME SessionInv, NEW s \in Sides, NEW ms \in Seq(Messages), channel[Other(s)] # <<>>,
         Answer(s, ms), \A j \in DOMAIN ms : Welcome(s, ms[j])',
         \A r \in Sides : local[r] \subseteq local'[r],
         \A r \in Sides : remote[r] \subseteq remote'[r],
         \A r \in Sides : open[r] \subseteq open'[r]
  PROVE  channel' \in [Sides -> Seq(Messages)] /\ ChannelsWelcome'
BY AnswerLemma, AnswerWelcome DEF SessionInv

(* A handler that does not answer.                                         *)
LEMMA SilentLemma ==
  ASSUME SessionInv, NEW s \in Sides, channel[Other(s)] # <<>>, Answer(s, <<>>),
         \A r \in Sides : local[r] \subseteq local'[r],
         \A r \in Sides : remote[r] \subseteq remote'[r],
         \A r \in Sides : open[r] \subseteq open'[r]
  PROVE  channel' \in [Sides -> Seq(Messages)] /\ ChannelsWelcome'
<1>1. PICK ms \in Seq(Messages) : ms = <<>>
  <2>1. <<>> \in Seq(Messages)
    OBVIOUS
  <2> QED BY <2>1
<1>2. Answer(s, ms) /\ \A j \in DOMAIN ms : Welcome(s, ms[j])'
  BY <1>1
<1> QED BY <1>2, HandlerLemma

(* Updates that keep the types: a file joins a set, changes its state, an  *)
(* error is kept.                                                          *)
LEMMA UpdateLemma ==
  ASSUME TypeOK, NEW s \in Sides, NEW f \in Files
  PROVE  /\ [open EXCEPT ![s] = @ \cup {f}] \in [Sides -> SUBSET Files]
         /\ [remote EXCEPT ![s] = @ \cup {f}] \in [Sides -> SUBSET Files]
         /\ \A x \in DataStates : [state EXCEPT ![s][f] = x] \in [Sides -> [Files -> DataStates]]
         /\ \A e \in Errors : [error EXCEPT ![s] = e] \in [Sides -> Errors]
<1>1. /\ open \in [Sides -> SUBSET Files] /\ remote \in [Sides -> SUBSET Files]
      /\ state \in [Sides -> [Files -> DataStates]] /\ error \in [Sides -> Errors]
  BY DEF TypeOK
<1>2. ASSUME NEW x \in DataStates
      PROVE  [state EXCEPT ![s][f] = x] \in [Sides -> [Files -> DataStates]]
  <2>1. [state[s] EXCEPT ![f] = x] \in [Files -> DataStates]
    BY <1>1
  <2> QED BY <1>1, <2>1
<1>3. open[s] \cup {f} \in SUBSET Files /\ remote[s] \cup {f} \in SUBSET Files
  BY <1>1
<1>4. /\ [open EXCEPT ![s] = @ \cup {f}] \in [Sides -> SUBSET Files]
      /\ [remote EXCEPT ![s] = @ \cup {f}] \in [Sides -> SUBSET Files]
  BY <1>1, <1>3
<1>5. \A e \in Errors : [error EXCEPT ![s] = e] \in [Sides -> Errors]
  BY <1>1
<1> QED BY <1>2, <1>4, <1>5

(* The files of a side are finitely many.                                  *)
LEMMA FilesFinite == IsFiniteSet(Files)
<1> DEFINE Kinds == {"definition", "provide", "require"}
           record == [x \in Nodes \X Kinds |-> [node |-> x[1], kind |-> x[2]]]
<1>1. IsFiniteSet(Kinds)
  <2>1. IsFiniteSet({} \cup {"definition"})
    BY FS_EmptySet, FS_AddElement
  <2>2. IsFiniteSet(({} \cup {"definition"}) \cup {"provide"})
    BY <2>1, FS_AddElement
  <2>3. IsFiniteSet((({} \cup {"definition"}) \cup {"provide"}) \cup {"require"})
    BY <2>2, FS_AddElement
  <2>4. Kinds = (({} \cup {"definition"}) \cup {"provide"}) \cup {"require"}
    OBVIOUS
  <2> QED BY <2>3, <2>4
<1>2. IsFiniteSet(Nodes \X Kinds)
  BY <1>1, FS_Product, SessionAssumption
<1>3. record \in Surjection(Nodes \X Kinds, Files)
  <2>1. record \in [Nodes \X Kinds -> Files]
    BY DEF Files
  <2>2. ASSUME NEW f \in Files
        PROVE  \E x \in Nodes \X Kinds : record[x] = f
    <3>1. <<f.node, f.kind>> \in Nodes \X Kinds /\ record[<<f.node, f.kind>>] = f
      BY DEF Files
    <3> QED BY <3>1
  <2> QED BY <2>1, <2>2 DEF Surjection
<1> QED BY <1>2, <1>3, FS_Surjection

-----------------------------------------------------------------------------
(* The invariant holds before the connection is made.                      *)
LEMMA InitSession == Init => SessionInv
<1> SUFFICES ASSUME Init PROVE SessionInv
  OBVIOUS
<1>1. TypeOK
  <2>1. /\ 0 \in Values
        /\ \A f \in Files : /\ data[f] \in [PortsIn(f) -> Values]
                           /\ copy[f] \in [PortsIn(f) -> Values]
        /\ DOMAIN data = Files /\ DOMAIN copy = Files
    BY SessionAssumption DEF Init, Values
  <2> QED BY <2>1, WorkLemma DEF Init, TypeOK, DataStates, Errors
<1>2. ChannelsWelcome
  BY DEF Init, ChannelsWelcome
<1>3. MapsAgree
  BY OtherSide DEF Init, MapsAgree
<1> QED BY <1>1, <1>2, <1>3 DEF SessionInv

(* Connecting only adds the greeting and the local files of the client.    *)
LEMMA ConnectSession == SessionInv /\ Connect => SessionInv'
<1> SUFFICES ASSUME SessionInv, Connect PROVE SessionInv'
  OBVIOUS
<1>1. FilesOf(Client) \subseteq Files
  BY DEF FilesOf
<1>2. TypeOK'
  <2>1. channel' \in [Sides -> Seq(Messages)]
    <3>1. <<Greeting>> \in Seq(Messages)
      BY MessageLemma
    <3> QED BY <3>1 DEF SessionInv, TypeOK, Connect
  <2>2. state' \in [Sides -> [Files -> DataStates]]
    BY DEF SessionInv, TypeOK, Connect, DataStates, Files
  <2> QED BY <1>1, <2>1, <2>2 DEF SessionInv, TypeOK, Connect
<1>3. \A r \in Sides : local[r] \subseteq local'[r]
  BY OtherSide DEF SessionInv, TypeOK, Connect
<1>4. ChannelsWelcome'
  <2> SUFFICES ASSUME NEW r \in Sides, NEW i \in DOMAIN channel'[r]
               PROVE  Welcome(r, channel[r][i])'
    BY DEF ChannelsWelcome
  <2>1. PICK m : m = channel'[r][i]
    OBVIOUS
  <2>2. CASE r = Client
    <3>1. m = Greeting
      BY <2>1, <2>2 DEF SessionInv, TypeOK, Connect
    <3> QED BY <2>1, <3>1 DEF Welcome, Greeting
  <2>3. CASE r # Client
    <3>1. Welcome(r, m)
      BY <2>1, <2>3 DEF SessionInv, TypeOK, ChannelsWelcome, Connect
    <3>2. Welcome(r, m)'
      BY <1>3, <3>1, WelcomeStays DEF Connect
    <3> QED BY <2>1, <3>2
  <2> QED BY <2>2, <2>3
<1>5. MapsAgree'
  <2>1. \A s \in Sides : local'[s] \subseteq FilesOf(s)
    BY DEF SessionInv, TypeOK, MapsAgree, Connect
  <2> QED BY <1>3, <2>1, OtherSide DEF SessionInv, MapsAgree, Connect
<1> QED BY <1>2, <1>4, <1>5 DEF SessionInv
(* The acknowledge, and the files the client publishes, which are local.   *)
LEMMA HandshakeSession ==
  ASSUME SessionInv, NEW s \in Sides, Handshake(s)
  PROVE  SessionInv'
<1>1. PICK ms \in Seq(Messages) :
        /\ Answer(s, ms) /\ channel[Other(s)] # <<>>
        /\ \A j \in DOMAIN ms : Welcome(s, ms[j])'
  <2>1. CASE s = Server
    <3>1. /\ Answer(s, <<Acknowledge>>) /\ <<Acknowledge>> \in Seq(Messages)
          /\ channel[Other(s)] # <<>>
      BY <2>1, MessageLemma DEF Handshake, Receives
    <3>2. PICK ms : ms = <<Acknowledge>>
      OBVIOUS
    <3>3. \A j \in DOMAIN ms : ms[j].type = "acknowledge"
      BY <3>2 DEF Acknowledge
    <3>4. \A j \in DOMAIN ms : Welcome(s, ms[j])'
      BY <3>3 DEF Welcome
    <3> QED BY <3>1, <3>2, <3>4
  <2>2. CASE s = Client
    <3>1. PICK q \in LocalFileLists : Answer(s, [i \in DOMAIN q |-> Publish(q[i])])
      BY <2>2, OtherSide DEF Handshake
    <3>2. PICK ms : ms = [i \in DOMAIN q |-> Publish(q[i])]
      OBVIOUS
    <3>3. local[Client] \subseteq FilesOf(Client) /\ FilesOf(Client) \subseteq Files
      BY OtherSide DEF SessionInv, MapsAgree, FilesOf
    <3>4. Cardinality(local[Client]) \in Nat
      BY <3>3, FilesFinite, FS_Subset, FS_CardinalityType
    <3>5. q \in [1..Cardinality(local[Client]) -> local[Client]]
      BY DEF LocalFileLists
    <3>6. /\ ms \in [1..Cardinality(local[Client]) -> Messages]
          /\ \A j \in DOMAIN ms : ms[j].type = "publish" /\ ms[j].file \in local[Client]
      BY <3>2, <3>3, <3>5, MessageLemma DEF Publish
    <3>7. ms \in Seq(Messages)
      BY <3>4, <3>6
    <3>8. \A j \in DOMAIN ms : Welcome(s, ms[j])'
      BY <2>2, <3>3, <3>6 DEF Welcome, Handshake, FilesOf
    <3> QED BY <2>2, <3>1, <3>2, <3>7, <3>8, OtherSide DEF Handshake, Receives
  <2> QED BY <2>1, <2>2 DEF Sides
<1>2. channel' \in [Sides -> Seq(Messages)] /\ ChannelsWelcome'
  BY <1>1, HandlerLemma DEF Handshake
<1>3. TypeOK'
  BY <1>2 DEF SessionInv, TypeOK, Handshake
<1>4. MapsAgree'
  BY DEF SessionInv, MapsAgree, Handshake
<1> QED BY <1>2, <1>3, <1>4 DEF SessionInv

(* The server asks for a definition only when it has opened it.            *)
LEMMA ServerLearnsSession == SessionInv /\ ServerLearnsFile => SessionInv'
<1> SUFFICES ASSUME SessionInv, ServerLearnsFile PROVE SessionInv'
  OBVIOUS
<1>1. PICK f : f = Incoming(Server).file
  OBVIOUS
<1>2. /\ channel[Other(Server)] # <<>> /\ f \in Files
      /\ Owner(f) = Client /\ f \in local[Client] /\ Other(Server) = Client
  <2>1. Welcome(Other(Server), Incoming(Server)) /\ Incoming(Server) \in Messages
        /\ Incoming(Server).type = "publish" /\ channel[Other(Server)] # <<>>
    BY IncomingLemma, OtherSide DEF ServerLearnsFile
  <2> QED BY <1>1, <2>1, MessageLemma DEF Welcome, Other, Server, Client
<1>3. /\ remote' = [remote EXCEPT ![Server] = @ \cup {f}]
      /\ \/ /\ Answer(Server, <<>>) /\ error' = [error EXCEPT ![Server] = "NODE_ALREADY_EXISTS"]
            /\ UNCHANGED <<known, state, open>>
         \/ /\ Answer(Server, <<>>) /\ error' = [error EXCEPT ![Server] = "NOT_IMPLEMENTED"]
            /\ UNCHANGED <<known, state, open>>
         \/ /\ known' = known \cup {f.node} /\ open' = [open EXCEPT ![Server] = @ \cup {f}]
            /\ state' = [state EXCEPT ![Server][f] = "WAITING_FOR_FILE_DATA"]
            /\ Answer(Server, <<Open(f)>>) /\ UNCHANGED error
         \/ Answer(Server, <<>>) /\ UNCHANGED <<error, known, state, open>>
      /\ UNCHANGED <<size, accepted, local, data, copy, work, writes, overtaken>>
  BY <1>1 DEF ServerLearnsFile, Refuse, Opened
<1>4. \A r \in Sides : /\ local[r] \subseteq local'[r] /\ remote[r] \subseteq remote'[r]
                      /\ open[r] \subseteq open'[r]
  BY <1>3 DEF SessionInv, TypeOK
<1>5. channel' \in [Sides -> Seq(Messages)] /\ ChannelsWelcome'
  <2>1. CASE Answer(Server, <<>>)
    BY <1>2, <1>4, <2>1, SilentLemma, OtherSide
  <2>2. CASE Answer(Server, <<Open(f)>>) /\ open' = [open EXCEPT ![Server] = @ \cup {f}]
    <3>1. PICK ms : ms = <<Open(f)>>
      OBVIOUS
    <3>2. ms \in Seq(Messages)
      BY <1>2, <3>1, MessageLemma
    <3>3. \A j \in DOMAIN ms : ms[j].type = "open" /\ ms[j].file = f
      BY <3>1 DEF Open
    <3>4. f \in local'[Client] \cap remote'[Server] \cap open'[Server]
      BY <1>2, <1>3, <2>2, OtherSide DEF SessionInv, TypeOK
    <3>5. \A j \in DOMAIN ms : Welcome(Server, ms[j])'
      BY <1>2, <3>3, <3>4 DEF Welcome
    <3> QED BY <1>2, <1>4, <2>2, <3>1, <3>2, <3>5, HandlerLemma, OtherSide
  <2> QED BY <1>3, <2>1, <2>2
<1>6. TypeOK'
  <2>1. \A x \in DataStates : [state EXCEPT ![Server][f] = x] \in [Sides -> [Files -> DataStates]]
    BY <1>2, UpdateLemma, OtherSide DEF SessionInv
  <2>2. state' \in [Sides -> [Files -> DataStates]]
    BY <1>3, <2>1 DEF SessionInv, TypeOK, DataStates
  <2>3. f.node \in Nodes /\ known' \subseteq Nodes
    BY <1>2, <1>3 DEF SessionInv, TypeOK, Files
  <2>4. open' \in [Sides -> SUBSET Files] /\ remote' \in [Sides -> SUBSET Files]
    <3>1. /\ [open EXCEPT ![Server] = @ \cup {f}] \in [Sides -> SUBSET Files]
          /\ [remote EXCEPT ![Server] = @ \cup {f}] \in [Sides -> SUBSET Files]
      BY <1>2, UpdateLemma, OtherSide DEF SessionInv
    <3> QED BY <1>3, <3>1 DEF SessionInv, TypeOK
  <2>5. error' \in [Sides -> Errors]
    BY <1>3 DEF SessionInv, TypeOK, Errors
  <2> QED BY <1>3, <1>5, <2>2, <2>3, <2>4, <2>5 DEF SessionInv, TypeOK
<1>7. MapsAgree'
  <2>1. open \in [Sides -> SUBSET Files]
    BY DEF SessionInv, TypeOK
  <2>2. \A g \in Files : g \in open'[Owner(g)] => g \in open[Owner(g)]
    BY <1>2, <1>3, <2>1, OtherSide
  <2>3. \A r \in Sides : remote'[r] \subseteq local'[Other(r)]
    BY <1>2, <1>3, OtherSide DEF SessionInv, TypeOK, MapsAgree
  <2> QED BY <1>3, <1>4, <2>2, <2>3, OtherSide DEF SessionInv, MapsAgree
<1> QED BY <1>5, <1>6, <1>7 DEF SessionInv
(* The client asks for require port data only when it has opened the file. *)
LEMMA ClientLearnsSession == SessionInv /\ ClientLearnsFile => SessionInv'
<1> SUFFICES ASSUME SessionInv, ClientLearnsFile PROVE SessionInv'
  OBVIOUS
<1>1. PICK f : f = Incoming(Client).file
  OBVIOUS
<1>2. /\ channel[Other(Client)] # <<>> /\ f \in Files
      /\ Owner(f) = Server /\ f \in local[Server] /\ Other(Client) = Server
  <2>1. Welcome(Other(Client), Incoming(Client)) /\ Incoming(Client) \in Messages
        /\ Incoming(Client).type = "publish" /\ channel[Other(Client)] # <<>>
    BY IncomingLemma, OtherSide DEF ClientLearnsFile
  <2> QED BY <1>1, <2>1, MessageLemma DEF Welcome, Other, Server, Client
<1>3. /\ remote' = [remote EXCEPT ![Client] = @ \cup {f}]
      /\ \/ /\ open' = [open EXCEPT ![Client] = @ \cup {f}]
            /\ state' = [state EXCEPT ![Client][f] = "WAITING_FOR_FILE_DATA"]
            /\ Answer(Client, <<Open(f)>>) /\ UNCHANGED error
         \/ /\ Answer(Client, <<>>) /\ error' = [error EXCEPT ![Client] = "ASSERTION"]
            /\ UNCHANGED <<state, open>>
      /\ UNCHANGED <<size, accepted, local, known, data, copy, work, writes, overtaken>>
  BY <1>1 DEF ClientLearnsFile, Refuse, Opened
<1>4. \A r \in Sides : /\ local[r] \subseteq local'[r] /\ remote[r] \subseteq remote'[r]
                      /\ open[r] \subseteq open'[r]
  BY <1>3 DEF SessionInv, TypeOK
<1>5. channel' \in [Sides -> Seq(Messages)] /\ ChannelsWelcome'
  <2>1. CASE Answer(Client, <<>>)
    BY <1>2, <1>4, <2>1, SilentLemma, OtherSide
  <2>2. CASE Answer(Client, <<Open(f)>>) /\ open' = [open EXCEPT ![Client] = @ \cup {f}]
    <3>1. PICK ms : ms = <<Open(f)>>
      OBVIOUS
    <3>2. ms \in Seq(Messages)
      BY <1>2, <3>1, MessageLemma
    <3>3. \A j \in DOMAIN ms : ms[j].type = "open" /\ ms[j].file = f
      BY <3>1 DEF Open
    <3>4. f \in local'[Server] \cap remote'[Client] \cap open'[Client]
      BY <1>2, <1>3, <2>2, OtherSide DEF SessionInv, TypeOK
    <3>5. \A j \in DOMAIN ms : Welcome(Client, ms[j])'
      BY <1>2, <3>3, <3>4 DEF Welcome
    <3> QED BY <1>2, <1>4, <2>2, <3>1, <3>2, <3>5, HandlerLemma, OtherSide
  <2> QED BY <1>3, <2>1, <2>2
<1>6. TypeOK'
  <2>1. /\ \A x \in DataStates : [state EXCEPT ![Client][f] = x] \in [Sides -> [Files -> DataStates]]
        /\ [open EXCEPT ![Client] = @ \cup {f}] \in [Sides -> SUBSET Files]
        /\ [remote EXCEPT ![Client] = @ \cup {f}] \in [Sides -> SUBSET Files]
        /\ \A e \in Errors : [error EXCEPT ![Client] = e] \in [Sides -> Errors]
    BY <1>2, UpdateLemma, OtherSide DEF SessionInv
  <2>2. state' \in [Sides -> [Files -> DataStates]]
    BY <1>3, <2>1 DEF SessionInv, TypeOK, DataStates
  <2>3. error' \in [Sides -> Errors]
    BY <1>3, <2>1 DEF SessionInv, TypeOK, Errors
  <2>4. open' \in [Sides -> SUBSET Files] /\ remote' \in [Sides -> SUBSET Files]
    BY <1>3, <2>1 DEF SessionInv, TypeOK
  <2> QED BY <1>3, <1>5, <2>2, <2>3, <2>4 DEF SessionInv, TypeOK
<1>7. MapsAgree'
  <2>1. open \in [Sides -> SUBSET Files]
    BY DEF SessionInv, TypeOK
  <2>2. \A g \in Files : g \in open'[Owner(g)] => g \in open[Owner(g)]
    BY <1>2, <1>3, <2>1, OtherSide
  <2>3. \A r \in Sides : remote'[r] \subseteq local'[Other(r)]
    BY <1>2, <1>3, OtherSide DEF SessionInv, TypeOK, MapsAgree
  <2> QED BY <1>3, <1>4, <2>2, <2>3, OtherSide DEF SessionInv, MapsAgree
<1> QED BY <1>5, <1>6, <1>7 DEF SessionInv

(* A file that is opened at its owner was opened by the side that asked.   *)
LEMMA OpenRequestedSession ==
  ASSUME SessionInv, NEW s \in Sides, OpenRequested(s)
  PROVE  SessionInv'
<1>1. PICK f : f = Incoming(s).file
  OBVIOUS
<1>2. /\ channel[Other(s)] # <<>> /\ f \in Files /\ Owner(f) = s
      /\ f \in open[Other(s)] \cap remote[Other(s)]
  <2>1. Welcome(Other(s), Incoming(s)) /\ Incoming(s) \in Messages
        /\ Incoming(s).type = "open" /\ channel[Other(s)] # <<>>
    BY IncomingLemma DEF OpenRequested
  <2> QED BY <1>1, <2>1, MessageLemma, OtherSide DEF Welcome
<1>3. /\ \/ /\ open' = [open EXCEPT ![s] = @ \cup {f}]
            /\ work' = [work EXCEPT ![s] = [step |-> "opened", file |-> f]]
            /\ UNCHANGED error
         \/ error' = [error EXCEPT ![s] = "FILE_NOT_FOUND"] /\ UNCHANGED <<open, work>>
      /\ Answer(s, <<>>)
      /\ UNCHANGED <<size, accepted, remote, local, known, state, data, copy, writes, overtaken>>
  BY <1>1 DEF OpenRequested, Refuse, Opened
<1>4. \A r \in Sides : /\ local[r] \subseteq local'[r] /\ remote[r] \subseteq remote'[r]
                      /\ open[r] \subseteq open'[r]
  <2>1. open \in [Sides -> SUBSET Files]
    BY DEF SessionInv, TypeOK
  <2> QED BY <1>3, <2>1
<1>5. channel' \in [Sides -> Seq(Messages)] /\ ChannelsWelcome'
  BY <1>2, <1>3, <1>4, SilentLemma
<1>6. TypeOK'
  <2>1. /\ [open EXCEPT ![s] = @ \cup {f}] \in [Sides -> SUBSET Files]
        /\ \A e \in Errors : [error EXCEPT ![s] = e] \in [Sides -> Errors]
    BY <1>2, UpdateLemma DEF SessionInv
  <2>2. open' \in [Sides -> SUBSET Files] /\ error' \in [Sides -> Errors]
    BY <1>3, <2>1 DEF SessionInv, TypeOK, Errors
  <2>3. work' \in [Threads -> Work]
    BY <1>2, <1>3, WorkLemma DEF SessionInv, TypeOK, Threads
  <2> QED BY <1>3, <1>5, <2>2, <2>3 DEF SessionInv, TypeOK
<1>7. MapsAgree'
  <2>1. open \in [Sides -> SUBSET Files]
    BY DEF SessionInv, TypeOK
  <2>2. \A g \in Files : g \in open'[Owner(g)] => g = f \/ g \in open[Owner(g)]
    BY <1>3, <2>1, OtherSide
  <2> QED BY <1>2, <1>3, <1>4, <2>2, OtherSide DEF SessionInv, MapsAgree
<1> QED BY <1>5, <1>6, <1>7 DEF SessionInv

(* Taking the snapshot leaves files and channels alone.                    *)
LEMMA TakeSnapshotSession ==
  ASSUME SessionInv, NEW s \in Sides, TakeSnapshot(s)
  PROVE  SessionInv'
<1>1. PICK f : f = work[s].file
  OBVIOUS
<1>2. f \in Files /\ s \in Threads /\ data[f] \in PartialValues(f)
  <2>1. work[s] \in Work /\ work[s].step = "opened" /\ s \in Threads
    BY DEF SessionInv, TypeOK, Threads, TakeSnapshot
  <2>2. f \in Files
    BY <1>1, <2>1, WorkLemma
  <2> QED BY <2>1, <2>2, ValueLemma DEF SessionInv, TypeOK
<1>3. /\ work' \in {[work EXCEPT ![s] = Snapshot(f)], [work EXCEPT ![s] = Idle]}
      /\ state' \in {state, [state EXCEPT ![s][f] = "CONNECTED"]}
      /\ UNCHANGED <<size, accepted, channel, remote, local, open, known, data, copy, error,
                     writes, overtaken>>
  BY <1>1 DEF TakeSnapshot
<1>4. work' \in [Threads -> Work]
  <2>1. Snapshot(f) \in Work /\ Idle \in Work
    BY <1>2, WorkLemma DEF Snapshot
  <2> QED BY <1>2, <1>3, <2>1 DEF SessionInv, TypeOK
<1>5. state' \in [Sides -> [Files -> DataStates]]
  <2>1. [state EXCEPT ![s][f] = "CONNECTED"] \in [Sides -> [Files -> DataStates]]
    BY <1>2, UpdateLemma DEF SessionInv, DataStates
  <2> QED BY <1>3, <2>1 DEF SessionInv, TypeOK
<1>6. TypeOK'
  BY <1>3, <1>4, <1>5 DEF SessionInv, TypeOK
<1>7. ChannelsWelcome' /\ MapsAgree'
  BY <1>3 DEF SessionInv, ChannelsWelcome, MapsAgree, Welcome
<1> QED BY <1>6, <1>7 DEF SessionInv
-----------------------------------------------------------------------------
(* Writing a port only changes data.                                       *)
LEMMA WritePortSession ==
  ASSUME SessionInv, NEW t \in Writers, WritePort(t)
  PROVE  SessionInv'
<1>1. PICK f \in Files, p \in Ports :
        /\ p \in PortsIn(f)
        /\ data' = [data EXCEPT ![f][p] = writes + 1]
        /\ work' = [work EXCEPT ![t] = [step |-> "queue", file |-> f,
                                        value |-> [q \in {p} |-> writes + 1]]]
  BY DEF WritePort
<1>2. /\ writes' = writes + 1 /\ writes < MaxWrites
      /\ UNCHANGED <<size, accepted, channel, remote, local, open, known, state, copy, error,
                     overtaken>>
  BY DEF WritePort
<1>3. writes + 1 \in Values
  BY <1>2, SessionAssumption DEF SessionInv, TypeOK, Values
<1>4. TypeOK'
  <2>1. work' \in [Threads -> Work]
    <3>1. [q \in {p} |-> writes + 1] \in PartialValues(f)
      BY <1>1, <1>3, ValueLemma
    <3>2. [step |-> "queue", file |-> f, value |-> [q \in {p} |-> writes + 1]] \in Work
      BY <3>1, WorkLemma
    <3> QED BY <1>1, <3>2 DEF SessionInv, TypeOK
  <2>2. DOMAIN data' = Files /\ \A g \in Files : data'[g] \in [PortsIn(g) -> Values]
    <3>1. DOMAIN data = Files /\ \A g \in Files : data[g] \in [PortsIn(g) -> Values]
      BY DEF SessionInv, TypeOK
    <3>2. [data[f] EXCEPT ![p] = writes + 1] \in [PortsIn(f) -> Values]
      BY <1>1, <1>3, <3>1
    <3> QED BY <1>1, <3>1, <3>2
  <2> QED BY <1>2, <1>3, <2>1, <2>2 DEF SessionInv, TypeOK
<1>5. ChannelsWelcome' /\ MapsAgree'
  BY <1>2 DEF SessionInv, ChannelsWelcome, MapsAgree, Welcome
<1> QED BY <1>4, <1>5 DEF SessionInv

(* What is queued is for a file that is open, and so open at the other     *)
(* side.                                                                   *)
LEMMA QueueSession ==
  ASSUME SessionInv, NEW t \in Threads, Queue(t)
  PROVE  SessionInv'
<1>1. PICK f, m : f = work[t].file /\ m = Write(f, work[t].value)
  OBVIOUS
<1>2. f \in Files /\ m \in Messages /\ m.type = "write" /\ m.file = f
  <2>1. work[t] \in Work /\ work[t].step = "queue"
    BY DEF SessionInv, TypeOK, Queue
  <2>2. f \in Files /\ work[t].value \in PartialValues(f)
    BY <1>1, <2>1, WorkLemma
  <2> QED BY <1>1, <2>2, MessageLemma DEF Write
<1>3. /\ \/ channel' = channel
         \/ f \in open[Owner(f)] /\ channel' = [channel EXCEPT ![Owner(f)] = Append(@, m)]
      /\ overtaken' \in {overtaken, overtaken \cup {f}}
      /\ work' = [work EXCEPT ![t] = Idle]
      /\ UNCHANGED <<size, accepted, remote, local, open, known, state, data, copy, error, writes>>
  BY <1>1 DEF Queue
<1>4. /\ channel' \in [Sides -> Seq(Messages)]
      /\ \A r \in Sides : \A i \in DOMAIN channel'[r] :
           \/ \E j \in DOMAIN channel[r] : channel'[r][i] = channel[r][j]
           \/ r = Owner(f) /\ f \in open[r] /\ channel'[r][i] = m
  <2>1. channel \in [Sides -> Seq(Messages)] /\ Owner(f) \in Sides
    BY <1>2, OtherSide DEF SessionInv, TypeOK
  <2>2. CASE channel' = channel
    BY <2>1, <2>2
  <2>3. CASE f \in open[Owner(f)] /\ channel' = [channel EXCEPT ![Owner(f)] = Append(@, m)]
    <3>1. PICK c \in Seq(Messages) : c = channel[Owner(f)]
      BY <2>1
    <3>2. Append(c, m) \in Seq(Messages) /\ channel'[Owner(f)] = Append(c, m)
      BY <1>2, <2>1, <2>3, <3>1
    <3>3. \A i \in DOMAIN Append(c, m) : Append(c, m)[i] = m
                                      \/ \E j \in DOMAIN c : Append(c, m)[i] = c[j]
      BY <1>2
    <3>4. \A r \in Sides : r # Owner(f) => channel'[r] = channel[r]
      BY <2>1, <2>3
    <3> QED BY <2>1, <2>3, <3>1, <3>2, <3>3, <3>4
  <2> QED BY <1>3, <2>2, <2>3
<1>5. TypeOK'
  BY <1>2, <1>3, <1>4, WorkLemma DEF SessionInv, TypeOK
<1>6. ChannelsWelcome'
  <2> SUFFICES ASSUME NEW r \in Sides, NEW i \in DOMAIN channel'[r]
               PROVE  Welcome(r, channel[r][i])'
    BY DEF ChannelsWelcome
  <2>1. PICK n : n = channel'[r][i]
    OBVIOUS
  <2>2. CASE \E j \in DOMAIN channel[r] : n = channel[r][j]
    <3>1. Welcome(r, n)
      BY <2>2 DEF SessionInv, ChannelsWelcome
    <3>2. Welcome(r, n)'
      BY <1>3, <3>1, WelcomeStays
    <3> QED BY <2>1, <3>2
  <2>3. CASE r = Owner(f) /\ f \in open[r] /\ n = m
    <3>1. Welcome(r, n)'
      BY <1>2, <1>3, <2>3, OtherSide DEF SessionInv, MapsAgree, Welcome
    <3> QED BY <2>1, <3>1
  <2> QED BY <1>4, <2>1, <2>2, <2>3
<1>7. MapsAgree'
  BY <1>3 DEF SessionInv, MapsAgree
<1> QED BY <1>5, <1>6, <1>7 DEF SessionInv
-----------------------------------------------------------------------------
(* A handler that takes a write and says nothing, and leaves files alone.  *)
LEMMA QuietLemma ==
  ASSUME SessionInv, NEW s \in Sides, channel[Other(s)] # <<>>, Answer(s, <<>>),
         UNCHANGED <<remote, local, open>>
  PROVE  channel' \in [Sides -> Seq(Messages)] /\ ChannelsWelcome' /\ MapsAgree'
<1>1. MapsAgree'
  BY DEF SessionInv, MapsAgree
<1> QED BY <1>1, SilentLemma

(* Stopping a write.                                                       *)
LEMMA WriteStoppedSession ==
  ASSUME SessionInv, NEW s \in Sides, WriteStopped(s)
  PROVE  SessionInv'
<1>1. /\ channel[Other(s)] # <<>> /\ Answer(s, <<>>)
      /\ UNCHANGED <<size, accepted, remote, local, open, known, state, data, copy, work, writes,
                     overtaken>>
  BY DEF WriteStopped, Receives, Refuse
<1>2. error' \in [Sides -> Errors]
  BY DEF SessionInv, TypeOK, Errors, WriteStopped, Refuse
<1>3. channel' \in [Sides -> Seq(Messages)] /\ ChannelsWelcome' /\ MapsAgree'
  BY <1>1, QuietLemma
<1>4. TypeOK'
  BY <1>1, <1>2, <1>3 DEF SessionInv, TypeOK
<1> QED BY <1>3, <1>4 DEF SessionInv

(* What is known of a write that is handed to the handler of its file.     *)
LEMMA ReceivesWriteLemma ==
  ASSUME SessionInv, NEW s \in Sides, NEW kind, ReceivesWrite(s, kind)
  PROVE  /\ channel[Other(s)] # <<>> /\ Incoming(s).file \in Files
         /\ Incoming(s).file.kind = kind
         /\ Incoming(s).value \in PartialValues(Incoming(s).file)
<1>1. /\ channel[Other(s)] # <<>> /\ Incoming(s) \in Messages
      /\ Incoming(s).type = "write" /\ Incoming(s).file.kind = kind
  BY IncomingLemma DEF ReceivesWrite
<1> QED BY <1>1, MessageLemma

(* Port data stays port data when a write arrives.                         *)
LEMMA CopyLemma ==
  ASSUME TypeOK, NEW f \in Files, NEW v \in PartialValues(f),
         copy' = [copy EXCEPT ![f] = Written(@, v)]
  PROVE  DOMAIN copy' = Files /\ \A g \in Files : copy'[g] \in [PortsIn(g) -> Values]
<1>1. DOMAIN copy = Files /\ \A g \in Files : copy[g] \in [PortsIn(g) -> Values]
  BY DEF TypeOK
<1>2. Written(copy[f], v) \in [PortsIn(f) -> Values]
  BY <1>1, ValueLemma
<1> QED BY <1>1, <1>2

(* Provide port data is received.                                          *)
LEMMA ProvideWrittenSession == SessionInv /\ ProvideWritten => SessionInv'
<1> SUFFICES ASSUME SessionInv, ProvideWritten PROVE SessionInv'
  OBVIOUS
<1>1. PICK f, v : f = Incoming(Server).file /\ v = Incoming(Server).value
  OBVIOUS
<1>2. channel[Other(Server)] # <<>> /\ f \in Files /\ v \in PartialValues(f)
  BY <1>1, ReceivesWriteLemma, OtherSide DEF ProvideWritten
<1>3. /\ copy' = copy \/ copy' = [copy EXCEPT ![f] = Written(@, v)]
      /\ state' \in {state, [state EXCEPT ![Server][f] = "CONNECTED"]}
      /\ error' \in {error, [error EXCEPT ![Server] = "INTERNAL"],
                     [error EXCEPT ![Server] = "CONNECT"]}
      /\ Answer(Server, <<>>)
      /\ UNCHANGED <<size, accepted, remote, local, open, known, data, work, writes, overtaken>>
  BY <1>1 DEF ProvideWritten, Refuse
<1>4. channel' \in [Sides -> Seq(Messages)] /\ ChannelsWelcome' /\ MapsAgree'
  BY <1>2, <1>3, QuietLemma, OtherSide
<1>5. TypeOK'
  <2>1. /\ [state EXCEPT ![Server][f] = "CONNECTED"] \in [Sides -> [Files -> DataStates]]
        /\ \A e \in Errors : [error EXCEPT ![Server] = e] \in [Sides -> Errors]
    BY <1>2, UpdateLemma, OtherSide DEF SessionInv, DataStates
  <2>2. state' \in [Sides -> [Files -> DataStates]]
    BY <1>3, <2>1 DEF SessionInv, TypeOK
  <2>3. error' \in [Sides -> Errors]
    BY <1>3, <2>1 DEF SessionInv, TypeOK, Errors
  <2>4. DOMAIN copy' = Files /\ \A g \in Files : copy'[g] \in [PortsIn(g) -> Values]
    BY <1>2, <1>3, CopyLemma DEF SessionInv, TypeOK
  <2> QED BY <1>3, <1>4, <2>2, <2>3, <2>4 DEF SessionInv, TypeOK
<1> QED BY <1>4, <1>5 DEF SessionInv

(* Require port data is received.                                          *)
LEMMA RequireWrittenSession == SessionInv /\ RequireWritten => SessionInv'
<1> SUFFICES ASSUME SessionInv, RequireWritten PROVE SessionInv'
  OBVIOUS
<1>1. PICK f, v : f = Incoming(Client).file /\ v = Incoming(Client).value
  OBVIOUS
<1>2. channel[Other(Client)] # <<>> /\ f \in Files /\ v \in PartialValues(f)
  BY <1>1, ReceivesWriteLemma, OtherSide DEF RequireWritten
<1>3. /\ copy' = [copy EXCEPT ![f] = Written(@, v)]
      /\ state' = [state EXCEPT ![Client][f] = IF @ = "WAITING_FOR_FILE_DATA" THEN "CONNECTED" ELSE @]
      /\ Answer(Client, <<>>)
      /\ UNCHANGED <<size, accepted, remote, local, open, known, data, work, error, writes,
                     overtaken>>
  BY <1>1 DEF RequireWritten
<1>4. channel' \in [Sides -> Seq(Messages)] /\ ChannelsWelcome' /\ MapsAgree'
  BY <1>2, <1>3, QuietLemma, OtherSide
<1>5. TypeOK'
  <2>1. \A x \in DataStates : [state EXCEPT ![Client][f] = x] \in [Sides -> [Files -> DataStates]]
    BY <1>2, UpdateLemma, OtherSide DEF SessionInv
  <2>2. state' \in [Sides -> [Files -> DataStates]]
    <3>1. PICK x : x = IF state[Client][f] = "WAITING_FOR_FILE_DATA" THEN "CONNECTED"
                                                                  ELSE state[Client][f]
      OBVIOUS
    <3>2. x \in DataStates
      BY <1>2, <3>1, OtherSide DEF SessionInv, TypeOK, DataStates
    <3>3. state' = [state EXCEPT ![Client][f] = x]
      BY <1>3, <3>1
    <3> QED BY <2>1, <3>2, <3>3
  <2>3. DOMAIN copy' = Files /\ \A g \in Files : copy'[g] \in [PortsIn(g) -> Values]
    BY <1>2, <1>3, CopyLemma DEF SessionInv
  <2> QED BY <1>3, <1>4, <2>2, <2>3 DEF SessionInv, TypeOK
<1> QED BY <1>4, <1>5 DEF SessionInv
(* A node is built: the provide port file is opened at the server before   *)
(* it is asked for, and the require port file is local before it is        *)
(* published.                                                              *)
LEMMA DefinitionWrittenSession == SessionInv /\ DefinitionWritten => SessionInv'
<1> SUFFICES ASSUME SessionInv, DefinitionWritten PROVE SessionInv'
  OBVIOUS
<1>1. PICK f, n, asked, given :
        /\ f = Incoming(Server).file /\ n = f.node
        /\ asked = PublishedProvideFile(n) /\ given = {Require(n)} \cap FilesOf(Server)
  OBVIOUS
<1>2. channel[Other(Server)] # <<>> /\ f \in Files /\ n \in Nodes
  <2>1. channel[Other(Server)] # <<>> /\ f \in Files
    BY <1>1, ReceivesWriteLemma, OtherSide DEF DefinitionWritten
  <2> QED BY <1>1, <2>1 DEF Files
<1>3. /\ Provide(n) \in Files /\ Owner(Provide(n)) = Client
      /\ Require(n) \in Files /\ Owner(Require(n)) = Server
      /\ asked \subseteq {Provide(n)} \cap remote[Server]
      /\ given \subseteq {Require(n)} \cap FilesOf(Server)
  BY <1>1, <1>2 DEF Files, Provide, Require, Owner, PublishedProvideFile
<1>4. UNCHANGED <<size, accepted, remote, data, copy, work, writes, overtaken>>
  BY DEF DefinitionWritten
<1>5. CASE /\ known' = known \ {n} /\ state' = [state EXCEPT ![Server][f] = "CONNECTED"]
           /\ Refuse(Server, "PARSE") /\ UNCHANGED <<open, local>>
  <2>1. channel' \in [Sides -> Seq(Messages)] /\ ChannelsWelcome' /\ MapsAgree'
    BY <1>2, <1>4, <1>5, QuietLemma, OtherSide DEF Refuse
  <2>2. /\ [state EXCEPT ![Server][f] = "CONNECTED"] \in [Sides -> [Files -> DataStates]]
        /\ [error EXCEPT ![Server] = "PARSE"] \in [Sides -> Errors]
    BY <1>2, UpdateLemma, OtherSide DEF SessionInv, DataStates, Errors
  <2>3. TypeOK'
    BY <1>4, <1>5, <2>1, <2>2 DEF SessionInv, TypeOK, Refuse
  <2> QED BY <2>1, <2>3 DEF SessionInv
<1> DEFINE row == [g \in Files |->
                     CASE g = f -> "CONNECTED"
                       [] g \in asked -> "WAITING_FOR_FILE_DATA"
                       [] g \in {Provide(n)} \ asked /\ PortsIn(g) # {} -> "WAITING_FILE_INFO"
                       [] g \in given -> "WAITING_FOR_FILE_OPEN_REQUEST"
                       [] OTHER -> state[Server][g]]
           answer == (IF asked = {} THEN <<>> ELSE <<Open(Provide(n))>>)
                     \o (IF given = {} THEN <<>> ELSE <<Publish(Require(n))>>)
<1>6. CASE /\ state' = [state EXCEPT ![Server] = row]
           /\ open' = [open EXCEPT ![Server] = @ \cup asked]
           /\ local' = [local EXCEPT ![Server] = @ \cup given]
           /\ Answer(Server, answer) /\ UNCHANGED <<known, error>>
  <2>1. /\ open \in [Sides -> SUBSET Files] /\ local \in [Sides -> SUBSET Files]
        /\ state \in [Sides -> [Files -> DataStates]] /\ remote[Server] \subseteq local[Client]
    BY OtherSide DEF SessionInv, TypeOK, MapsAgree, Other
  <2>2. \A r \in Sides : /\ local[r] \subseteq local'[r] /\ remote[r] \subseteq remote'[r]
                        /\ open[r] \subseteq open'[r]
    BY <1>4, <1>6, <2>1
  <2>3. channel' \in [Sides -> Seq(Messages)] /\ ChannelsWelcome'
    <3>1. PICK ms : ms = answer
      OBVIOUS
    <3>2. ms \in Seq(Messages)
      BY <1>3, <3>1, MessageLemma
    <3>3. ASSUME NEW j \in DOMAIN ms
          PROVE  Welcome(Server, ms[j])'
      <4>1. \/ ms[j] = Open(Provide(n)) /\ asked # {}
            \/ ms[j] = Publish(Require(n)) /\ given # {}
        BY <3>1
      <4>2. CASE ms[j] = Open(Provide(n)) /\ asked # {}
        <5>1. Provide(n) \in local'[Client] \cap open'[Server] \cap remote'[Server]
          BY <1>3, <1>4, <1>6, <2>1, <2>2, <4>2, OtherSide
        <5> QED BY <1>3, <4>2, <5>1 DEF Welcome, Open, Other, Server, Client
      <4>3. CASE ms[j] = Publish(Require(n)) /\ given # {}
        <5>1. Require(n) \in local'[Server]
          BY <1>3, <1>6, <2>1, <4>3, OtherSide
        <5> QED BY <1>3, <4>3, <5>1 DEF Welcome, Publish
      <4> QED BY <4>1, <4>2, <4>3
    <3> QED BY <1>2, <1>6, <2>2, <3>1, <3>2, <3>3, HandlerLemma, OtherSide
  <2>4. TypeOK'
    <3>1. row \in [Files -> DataStates]
      <4>1. state[Server] \in [Files -> DataStates]
        BY <2>1, OtherSide
      <4>2. ASSUME NEW g \in Files
            PROVE  row[g] \in DataStates
        BY <4>1 DEF DataStates
      <4> QED BY <4>2
    <3>2. state' \in [Sides -> [Files -> DataStates]]
      BY <1>6, <2>1, <3>1
    <3>3. asked \subseteq Files /\ given \subseteq Files
      BY <1>3
    <3>4. open' \in [Sides -> SUBSET Files] /\ local' \in [Sides -> SUBSET Files]
      BY <1>6, <2>1, <3>3
    <3> QED BY <1>4, <1>6, <2>3, <3>2, <3>4 DEF SessionInv, TypeOK
  <2>5. MapsAgree'
    <3>1. \A s \in Sides : local'[s] \subseteq FilesOf(s)
      BY <1>3, <1>6, <2>1 DEF SessionInv, MapsAgree
    <3>2. \A g \in Files : g \in open'[Owner(g)] => g \in open[Owner(g)]
      BY <1>3, <1>6, <2>1, OtherSide
    <3> QED BY <1>4, <2>2, <3>1, <3>2, OtherSide DEF SessionInv, MapsAgree
  <2> QED BY <2>3, <2>4, <2>5 DEF SessionInv
<1>7. \/ /\ known' = known \ {n} /\ state' = [state EXCEPT ![Server][f] = "CONNECTED"]
         /\ Refuse(Server, "PARSE") /\ UNCHANGED <<open, local>>
      \/ /\ state' = [state EXCEPT ![Server] = row]
         /\ open' = [open EXCEPT ![Server] = @ \cup asked]
         /\ local' = [local EXCEPT ![Server] = @ \cup given]
         /\ Answer(Server, answer) /\ UNCHANGED <<known, error>>
  BY <1>1 DEF DefinitionWritten, Opened
<1> QED BY <1>5, <1>6, <1>7
-----------------------------------------------------------------------------
(* Every step preserves the invariant.                                     *)
LEMMA NextSession == SessionInv /\ [Next]_vars => SessionInv'
<1> SUFFICES ASSUME SessionInv, [Next]_vars PROVE SessionInv'
  OBVIOUS
<1>1. CASE Connect
  BY <1>1, ConnectSession
<1>2. CASE \E s \in Sides : InputOutput(s)
  <2>1. PICK s \in Sides : InputOutput(s)
    BY <1>2
  <2>2. CASE Handshake(s)
    BY <2>2, HandshakeSession
  <2>3. CASE OpenRequested(s)
    BY <2>3, OpenRequestedSession
  <2>4. CASE TakeSnapshot(s)
    BY <2>4, TakeSnapshotSession
  <2>5. CASE WriteStopped(s)
    BY <2>5, WriteStoppedSession
  <2>6. CASE ServerLearnsFile
    BY <2>6, ServerLearnsSession
  <2>7. CASE DefinitionWritten
    BY <2>7, DefinitionWrittenSession
  <2>8. CASE ProvideWritten
    BY <2>8, ProvideWrittenSession
  <2>9. CASE ClientLearnsFile
    BY <2>9, ClientLearnsSession
  <2>10. CASE RequireWritten
    BY <2>10, RequireWrittenSession
  <2> QED BY <2>1, <2>2, <2>3, <2>4, <2>5, <2>6, <2>7, <2>8, <2>9, <2>10 DEF InputOutput
<1>3. CASE \E t \in Threads : Queue(t)
  BY <1>3, QueueSession
<1>4. CASE \E t \in Writers : WritePort(t)
  BY <1>4, WritePortSession
<1>5. CASE UNCHANGED vars
  BY <1>5 DEF vars, SessionInv, TypeOK, ChannelsWelcome, MapsAgree, Welcome
<1> QED BY <1>1, <1>2, <1>3, <1>4, <1>5 DEF Next

(* The invariant holds in every behaviour.                                 *)
THEOREM SessionInvariant == Spec => []SessionInv
BY InitSession, NextSession, PTL DEF Spec

(* The variables of a session keep their types.                            *)
THEOREM SessionTypes == Spec => []TypeOK
<1>1. SessionInv => TypeOK
  BY DEF SessionInv
<1> QED BY <1>1, SessionInvariant, PTL

(* No write is ever sent to a side that has not opened the file, whatever  *)
(* the application and the routers write while files are published and     *)
(* opened: process_file_write_message ignores nothing.                     *)
THEOREM WritesAreReceived == Spec => []WritesFindOpenFile
<1>1. SessionInv => WritesFindOpenFile
  BY DEF SessionInv, ChannelsWelcome, Welcome, WritesFindOpenFile
<1> QED BY <1>1, SessionInvariant, PTL

(* The two file maps of a connection mirror each other, and a file is open *)
(* at its owner only when the other side knows it and has opened it.       *)
THEOREM FileMapsAgree == Spec => []MapsAgree
<1>1. SessionInv => MapsAgree
  BY DEF SessionInv
<1> QED BY <1>1, SessionInvariant, PTL

-----------------------------------------------------------------------------
(* The port data of a node fits in the buffers it has to go through.  The  *)
(* code does not refuse a node with more, and its data would not arrive.   *)
PortDataFits ==
  \A f \in Files : /\ IsFiniteSet(PortsIn(f))
                   /\ Cardinality(PortsIn(f)) <= ReceiveBuffer
                   /\ Cardinality(PortsIn(f)) <= SendBuffer

-----------------------------------------------------------------------------
(* Messages in a queue.                                                    *)

Kinds == {"publish", "open", "write"}

Is(m, type, f) == m.type = type /\ m.file = f

Has(q, type, f) == \E i \in DOMAIN q : Is(q[i], type, f)

Once(q, type, f) == \A i, j \in DOMAIN q : Is(q[i], type, f) /\ Is(q[j], type, f) => i = j

(* Of the writes only those of a definition come once.                     *)
Counted(type, f) == type \in Kinds /\ (type = "write" => f.kind = "definition")

(* Nothing counted is in r that was not in q, nor more often.              *)
Fewer(q, r) ==
  \A type \in Kinds : \A f \in Files :
    Counted(type, f) => /\ Has(r, type, f) => Has(q, type, f)
                        /\ Once(q, type, f) => Once(r, type, f)

(* r is what is in q when the messages ms have been added to it.           *)
Adds(q, ms, r) ==
  \A type \in Kinds : \A f \in Files :
    /\ Has(r, type, f) => Has(q, type, f) \/ Has(ms, type, f)
    /\ Once(q, type, f) /\ ~Has(ms, type, f) => Once(r, type, f)
    /\ ~Has(q, type, f) /\ Once(ms, type, f) => Once(r, type, f)

(* Files are published one by one, definitions last.                       *)
InOrder(q) ==
  \A i, j \in DOMAIN q :
    i < j /\ q[i].type = "publish" /\ q[j].type = "publish" =>
      /\ q[i].file # q[j].file
      /\ q[i].file.kind = "definition" => q[j].file.kind = "definition"

(* What is left of a queue when its first message is taken.                *)
LEMMA TailTokens ==
  ASSUME NEW q \in Seq(Messages), q # <<>>
  PROVE  /\ Fewer(q, Tail(q))
         /\ \A type \in Kinds : \A f \in Files :
              Once(q, type, f) /\ Is(Head(q), type, f) => ~Has(Tail(q), type, f)
         /\ InOrder(q) => InOrder(Tail(q))
         /\ InOrder(q) /\ Head(q).type = "publish" =>
              \A f \in Files : Has(Tail(q), "publish", f) =>
                /\ f # Head(q).file
                /\ Head(q).file.kind = "definition" => f.kind = "definition"
<1>1. /\ 1 \in DOMAIN q /\ Head(q) = q[1]
      /\ \A i \in DOMAIN Tail(q) : i + 1 \in DOMAIN q /\ Tail(q)[i] = q[i + 1] /\ 1 < i + 1
      /\ \A i, j \in DOMAIN Tail(q) : (i + 1 = j + 1 => i = j) /\ (i < j => i + 1 < j + 1)
  OBVIOUS
<1>2. ASSUME NEW type, NEW f
      PROVE  /\ Has(Tail(q), type, f) => Has(q, type, f)
             /\ Once(q, type, f) => Once(Tail(q), type, f)
             /\ Once(q, type, f) /\ Is(Head(q), type, f) => ~Has(Tail(q), type, f)
  <2>1. Has(Tail(q), type, f) => Has(q, type, f)
    BY <1>1 DEF Has
  <2>2. Once(q, type, f) => Once(Tail(q), type, f)
    BY <1>1 DEF Once
  <2>3. ASSUME Once(q, type, f), Is(Head(q), type, f), Has(Tail(q), type, f)
        PROVE  FALSE
    <3>1. PICK i \in DOMAIN Tail(q) : Is(Tail(q)[i], type, f)
      BY <2>3 DEF Has
    <3>2. 1 = i + 1
      BY <1>1, <2>3, <3>1 DEF Once
    <3> QED BY <1>1, <3>1, <3>2
  <2> QED BY <2>1, <2>2, <2>3
<1>3. InOrder(q) => InOrder(Tail(q))
  BY <1>1 DEF InOrder
<1>4. ASSUME InOrder(q), Head(q).type = "publish", NEW f \in Files, Has(Tail(q), "publish", f)
      PROVE  f # Head(q).file /\ (Head(q).file.kind = "definition" => f.kind = "definition")
  BY <1>1, <1>4 DEF InOrder, Has, Is
<1> QED BY <1>2, <1>3, <1>4 DEF Fewer

(* What is in a queue when messages have been added to it.                 *)
LEMMA ConcatTokens ==
  ASSUME NEW q \in Seq(Messages), NEW ms \in Seq(Messages)
  PROVE  /\ Adds(q, ms, q \o ms)
         /\ InOrder(q) /\ (\A f \in Files : ~Has(ms, "publish", f)) => InOrder(q \o ms)
         /\ (\A f \in Files : ~Has(q, "publish", f)) /\ InOrder(ms) => InOrder(q \o ms)
<1>1. PICK k \in Nat : k = Len(q)
  OBVIOUS
<1>2. \A i \in DOMAIN (q \o ms) :
        \/ i \in DOMAIN q /\ (q \o ms)[i] = q[i]
        \/ i > k /\ i - k \in DOMAIN ms /\ (q \o ms)[i] = ms[i - k]
  BY <1>1
<1>3. \A i, j \in DOMAIN (q \o ms) : (i - k = j - k => i = j) /\ (i < j => i - k < j - k)
  BY <1>1
<1>4. \A i \in DOMAIN (q \o ms) : i \in DOMAIN q => i <= k
  BY <1>1
<1>5. ASSUME NEW type \in Kinds, NEW f \in Files
      PROVE  /\ Has(q \o ms, type, f) => Has(q, type, f) \/ Has(ms, type, f)
             /\ Once(q, type, f) /\ ~Has(ms, type, f) => Once(q \o ms, type, f)
             /\ ~Has(q, type, f) /\ Once(ms, type, f) => Once(q \o ms, type, f)
  <2>1. Has(q \o ms, type, f) => Has(q, type, f) \/ Has(ms, type, f)
    BY <1>2 DEF Has
  <2>2. Once(q, type, f) /\ ~Has(ms, type, f) => Once(q \o ms, type, f)
    BY <1>2 DEF Once, Has
  <2>3. ~Has(q, type, f) /\ Once(ms, type, f) => Once(q \o ms, type, f)
    BY <1>2, <1>3 DEF Once, Has
  <2> QED BY <2>1, <2>2, <2>3
<1>6. ASSUME NEW r \in Seq(Messages), \A f \in Files : ~Has(r, "publish", f)
      PROVE  \A i \in DOMAIN r : r[i].type # "publish"
  <2>1. \A i \in DOMAIN r : r[i] \in Messages
    OBVIOUS
  <2> QED BY <1>6, <2>1, MessageLemma DEF Has, Is
<1>7. ASSUME InOrder(q), \A f \in Files : ~Has(ms, "publish", f)
      PROVE  InOrder(q \o ms)
  <2>1. \A i \in DOMAIN ms : ms[i].type # "publish"
    BY <1>6, <1>7
  <2>2. \A i \in DOMAIN (q \o ms) :
          (q \o ms)[i].type = "publish" => i \in DOMAIN q /\ (q \o ms)[i] = q[i]
    BY <1>2, <2>1
  <2> QED BY <1>7, <2>2 DEF InOrder
<1>8. ASSUME \A f \in Files : ~Has(q, "publish", f), InOrder(ms)
      PROVE  InOrder(q \o ms)
  <2>1. \A i \in DOMAIN q : q[i].type # "publish"
    BY <1>6, <1>8
  <2>2. \A i \in DOMAIN (q \o ms) :
          (q \o ms)[i].type = "publish" => i - k \in DOMAIN ms /\ (q \o ms)[i] = ms[i - k]
    BY <1>2, <2>1
  <2> QED BY <1>3, <1>8, <2>2 DEF InOrder
<1> QED BY <1>5, <1>7, <1>8 DEF Adds

(* Queues of one message, and of none.                                     *)
LEMMA ShortTokens ==
  /\ \A type \in Kinds : \A f \in Files : ~Has(<<>>, type, f)
  /\ \A m \in Messages : \A type \in Kinds : \A f \in Files :
       (Has(<<m>>, type, f) <=> Is(m, type, f)) /\ Once(<<m>>, type, f)
<1>1. \A type \in Kinds : \A f \in Files : ~Has(<<>>, type, f)
  BY DEF Has
<1>2. ASSUME NEW m \in Messages, NEW type \in Kinds, NEW f \in Files
      PROVE  (Has(<<m>>, type, f) <=> Is(m, type, f)) /\ Once(<<m>>, type, f)
  <2>1. DOMAIN <<m>> = {1} /\ <<m>>[1] = m
    OBVIOUS
  <2> QED BY <2>1 DEF Has, Once
<1> QED BY <1>1, <1>2

(* What an answer does to the messages on their way.                       *)
LEMMA AnswerTokens ==
  ASSUME TypeOK, NEW s \in Sides, NEW ms \in Seq(Messages), channel[Other(s)] # <<>>,
         Answer(s, ms)
  PROVE  /\ Fewer(channel[Other(s)], channel'[Other(s)])
         /\ \A type \in Kinds : \A f \in Files :
              Once(channel[Other(s)], type, f) /\ Is(Incoming(s), type, f)
                => ~Has(channel'[Other(s)], type, f)
         /\ Adds(channel[s], ms, channel'[s])
<1>1. /\ channel[s] \in Seq(Messages) /\ channel[Other(s)] \in Seq(Messages)
      /\ channel'[s] = channel[s] \o ms
      /\ channel'[Other(s)] = Tail(channel[Other(s)])
  BY OtherSide DEF TypeOK, Answer
<1>2. PICK q \in Seq(Messages) : q = channel[Other(s)]
  BY <1>1
<1>3. /\ Fewer(q, Tail(q))
      /\ \A type \in Kinds : \A f \in Files :
           Once(q, type, f) /\ Is(Head(q), type, f) => ~Has(Tail(q), type, f)
  BY <1>2, TailTokens
<1>4. Adds(channel[s], ms, channel[s] \o ms)
  BY <1>1, ConcatTokens
<1> QED BY <1>1, <1>2, <1>3, <1>4 DEF Incoming

(* An answer that publishes nothing for the client keeps its order.        *)
LEMMA AnswerOrder ==
  ASSUME TypeOK, NEW s \in Sides, NEW ms \in Seq(Messages), channel[Other(s)] # <<>>,
         Answer(s, ms), InOrder(channel[Client]),
         s = Client => \/ \A f \in Files : ~Has(ms, "publish", f)
                       \/ InOrder(ms) /\ \A f \in Files : ~Has(channel[Client], "publish", f)
  PROVE  /\ InOrder(channel'[Client])
         /\ s = Server /\ Incoming(s).type = "publish" =>
              \A f \in Files : Has(channel'[Client], "publish", f) =>
                /\ f # Incoming(s).file
                /\ Incoming(s).file.kind = "definition" => f.kind = "definition"
<1>1. /\ channel[s] \in Seq(Messages) /\ channel[Other(s)] \in Seq(Messages)
      /\ channel'[s] = channel[s] \o ms
      /\ channel'[Other(s)] = Tail(channel[Other(s)])
  BY OtherSide DEF TypeOK, Answer
<1>2. CASE s = Client
  <2>1. InOrder(channel[s] \o ms)
    BY <1>1, <1>2, ConcatTokens
  <2> QED BY <1>1, <1>2, <2>1, OtherSide
<1>3. CASE s = Server
  <2>1. PICK q \in Seq(Messages) : q = channel[Client]
    BY <1>1, <1>3 DEF Other, Client, Server
  <2>2. Other(s) = Client /\ q # <<>> /\ InOrder(q) /\ channel'[Client] = Tail(q)
        /\ Incoming(s) = Head(q)
    BY <1>1, <1>3, <2>1 DEF Other, Client, Server, Incoming
  <2> QED BY <2>2, TailTokens
<1> QED BY <1>2, <1>3 DEF Sides

(* A handler that does not answer only takes a message away.               *)
LEMMA SilentTokens ==
  ASSUME TypeOK, NEW s \in Sides, channel[Other(s)] # <<>>, Answer(s, <<>>)
  PROVE  /\ \A r \in Sides : Fewer(channel[r], channel'[r])
         /\ InOrder(channel[Client]) => InOrder(channel'[Client])
<1>1. PICK ms \in Seq(Messages) : ms = <<>>
  <2>1. <<>> \in Seq(Messages)
    OBVIOUS
  <2> QED BY <2>1
<1>2. Answer(s, ms) /\ \A type \in Kinds : \A f \in Files : ~Has(ms, type, f)
  BY <1>1, ShortTokens
<1>3. Fewer(channel[Other(s)], channel'[Other(s)]) /\ Fewer(channel[s], channel'[s])
  BY <1>2, AnswerTokens DEF Adds, Fewer
<1>4. InOrder(channel[Client]) => InOrder(channel'[Client])
  BY <1>2, AnswerOrder DEF Kinds
<1> QED BY <1>3, <1>4, OtherSide

-----------------------------------------------------------------------------
(* The inductive invariant.                                                *)

(* Thread t has f in hand.                                                 *)
InHand(t, f) == work[t].step # "idle" /\ work[t].file = f

(* The server is about to connect the require ports of f.                  *)
Connecting(f) == work[Server].step = "opened" /\ work[Server].file = f

(* The I/O threads have files of their side in hand, that are open; only   *)
(* they take snapshots, and nobody writes definitions.                     *)
HandsFull ==
  /\ \A s \in Sides : work[s].step # "idle" =>
       Owner(work[s].file) = s /\ work[s].file \in open[s]
  /\ \A t \in Writers : work[t].step # "idle" =>
       work[t].step = "queue" /\ work[t].file.kind # "definition"

(* The server knows the nodes whose definition was published.              *)
KnownPublished ==
  \A f \in Files : f.kind = "definition" /\ f.node \in known => f \in remote[Server]

(* The client publishes each file once, data before definitions.           *)
PublishedOnce ==
  /\ ~accepted[Client] => remote[Server] = {}
  /\ InOrder(channel[Client])
  /\ \A f \in Files : Has(channel[Client], "publish", f) =>
       /\ accepted[Client] /\ f \notin remote[Server]
       /\ f.kind # "definition" => \A g \in remote[Server] : g.kind # "definition"

(* A definition that the server waits for is asked for, in the client's    *)
(* hands or sent, never two of these.                                      *)
DefinitionOnce(f) ==
  LET asked == Has(channel[Server], "open", f)
      sent  == Has(channel[Client], "write", f)
  IN  /\ Once(channel[Server], "open", f) /\ Once(channel[Client], "write", f)
      /\ asked => ~InHand(Client, f) /\ ~sent
      /\ InHand(Client, f) => ~sent
      /\ asked \/ InHand(Client, f) \/ sent => state[Server][f] = "WAITING_FOR_FILE_DATA"

DefinitionsOnce == \A f \in Files : f.kind = "definition" => DefinitionOnce(f)

(* A require port file that waits to be opened is published, asked for or  *)
(* in the server's hands, never two of these.                              *)
RequireOnce(f) ==
  LET published == Has(channel[Server], "publish", f)
      asked     == Has(channel[Client], "open", f)
  IN  /\ Once(channel[Server], "publish", f) /\ Once(channel[Client], "open", f)
      /\ published => ~asked /\ ~Connecting(f) /\ state[Client][f] = "WAITING_FILE_INFO"
      /\ asked => ~Connecting(f)
      /\ published \/ asked \/ Connecting(f) =>
           state[Server][f] = "WAITING_FOR_FILE_OPEN_REQUEST"

RequiresOnce == \A f \in Files : f.kind = "require" => RequireOnce(f)

(* A require port file exists at the server when the definition has come,  *)
(* and until then the client waits to hear of it.                          *)
BuiltOnce ==
  /\ \A f \in FilesOf(Server) \ local[Server] :
       local[Client] # {} => state[Client][f] = "WAITING_FILE_INFO"
  /\ \A f \in local[Server] : \A d \in Files :
       d.kind = "definition" /\ d.node = f.node =>
         d \in remote[Server] /\ state[Server][d] = "CONNECTED"

(* The provide port files that the server has opened can be received.      *)
Receivable == {"WAITING_FOR_FILE_DATA", "CONNECTED"}

ProvidesOpened ==
  \A f \in open[Server] : f.kind = "provide" =>
    f \in remote[Server] /\ state[Server][f] \in Receivable

ProtocolInv == /\ HandsFull /\ KnownPublished /\ PublishedOnce /\ DefinitionsOnce
               /\ RequiresOnce /\ BuiltOnce /\ ProvidesOpened /\ NoProtocolError

-----------------------------------------------------------------------------
(* Before the connection is made there are no messages and nothing is in   *)
(* hand.                                                                   *)
LEMMA InitProtocol == Init => ProtocolInv
<1> SUFFICES ASSUME Init PROVE ProtocolInv
  OBVIOUS
<1>1. /\ \A s \in Sides : channel[s] = <<>> /\ remote[s] = {} /\ local[s] = {} /\ open[s] = {}
      /\ \A t \in Threads : work[t].step = "idle"
      /\ known = {} /\ \A s \in Sides : error[s] = "none" /\ ~accepted[s]
  BY DEF Init, Idle
<1>2. \A s \in Sides : /\ InOrder(channel[s])
                       /\ \A type, f : ~Has(channel[s], type, f) /\ Once(channel[s], type, f)
  BY <1>1 DEF InOrder, Has, Once
<1>3. HandsFull /\ KnownPublished /\ NoProtocolError
  BY <1>1, OtherSide DEF HandsFull, KnownPublished, NoProtocolError, Threads
<1>4. PublishedOnce
  BY <1>1, <1>2, OtherSide DEF PublishedOnce
<1>5. DefinitionsOnce /\ RequiresOnce
  BY <1>1, <1>2, OtherSide
     DEF DefinitionsOnce, DefinitionOnce, RequiresOnce, RequireOnce, InHand, Connecting, Threads
<1>6. BuiltOnce /\ ProvidesOpened
  BY <1>1, OtherSide DEF BuiltOnce, ProvidesOpened
<1> QED BY <1>3, <1>4, <1>5, <1>6 DEF ProtocolInv

(* A step that asks for nothing new, and changes neither the files nor     *)
(* what is waited for, keeps all but the last part of the invariant.       *)
LEMMA QuietProtocol ==
  ASSUME SessionInv, ProtocolInv,
         \A s \in Sides : Fewer(channel[s], channel'[s]), InOrder(channel'[Client]),
         accepted[Client] => accepted'[Client],
         UNCHANGED <<remote, local, open, known>>, HandsFull',
         \A f \in Files : InHand(Client, f)' => InHand(Client, f),
         \A f \in Files : Connecting(f)' => Connecting(f),
         \A f \in Files : f.kind # "provide" => state'[Server][f] = state[Server][f],
         \A f \in Files : state[Server][f] \in Receivable => state'[Server][f] \in Receivable,
         \A f \in Files : state[Client][f] = "WAITING_FILE_INFO"
                            => state'[Client][f] = "WAITING_FILE_INFO",
         NoProtocolError'
  PROVE  ProtocolInv'
<1>1. /\ open[Server] \subseteq Files /\ local[Server] \subseteq Files
      /\ FilesOf(Server) \subseteq Files
      /\ \A f \in local[Server] : f.kind = "require"
  BY OtherSide DEF SessionInv, TypeOK, MapsAgree, FilesOf, Owner, Client, Server
<1>2. \A s \in Sides : \A f \in Files : \A type \in {"publish", "open"} :
        /\ Has(channel'[s], type, f) => Has(channel[s], type, f)
        /\ Once(channel[s], type, f) => Once(channel'[s], type, f)
  BY DEF Fewer, Counted, Kinds
<1>3. \A s \in Sides : \A f \in Files : f.kind = "definition" =>
        /\ Has(channel'[s], "write", f) => Has(channel[s], "write", f)
        /\ Once(channel[s], "write", f) => Once(channel'[s], "write", f)
  BY DEF Fewer, Counted, Kinds
<1>4. KnownPublished'
  BY DEF ProtocolInv, KnownPublished
<1>5. PublishedOnce'
  BY <1>2, OtherSide DEF ProtocolInv, PublishedOnce
<1>6. DefinitionsOnce'
  BY <1>2, <1>3, OtherSide DEF ProtocolInv, DefinitionsOnce, DefinitionOnce
<1>7. RequiresOnce'
  BY <1>2, OtherSide DEF ProtocolInv, RequiresOnce, RequireOnce
<1>8. BuiltOnce'
  BY <1>1 DEF ProtocolInv, BuiltOnce
<1>9. ProvidesOpened'
  BY <1>1 DEF ProtocolInv, ProvidesOpened
<1> QED BY <1>4, <1>5, <1>6, <1>7, <1>8, <1>9 DEF ProtocolInv

(* What counts is about a definition that the server knows, or a require   *)
(* port file that it has.                                                  *)
LEMMA TokensKnown ==
  ASSUME SessionInv, ProtocolInv, NEW f \in Files
  PROVE  /\ f.kind = "definition" /\ (\/ Has(channel[Server], "open", f)
                                      \/ Has(channel[Client], "write", f)
                                      \/ InHand(Client, f))
              => f \in remote[Server]
         /\ f.kind = "require" /\ (\/ Has(channel[Server], "publish", f)
                                   \/ Has(channel[Client], "open", f)
                                   \/ Connecting(f))
              => f \in local[Server]
<1>1. Other(Client) = Server /\ Other(Server) = Client /\ Client \in Sides /\ Server \in Sides
  BY OtherSide
<1>2. \A s \in Sides : \A type \in Kinds : Has(channel[s], type, f) =>
        \E m : m.type = type /\ m.file = f /\ Welcome(s, m)
  BY DEF SessionInv, ChannelsWelcome, Has, Is
<1>3. CASE f.kind = "definition"
  <2>1. Has(channel[Server], "open", f) => f \in remote[Server]
    BY <1>1, <1>2 DEF Welcome, Kinds
  <2>2. Has(channel[Client], "write", f) => f \in remote[Server]
    BY <1>1, <1>2 DEF Welcome, Kinds
  <2>3. InHand(Client, f) => f \in remote[Server]
    BY <1>1 DEF ProtocolInv, HandsFull, InHand, SessionInv, MapsAgree
  <2> QED BY <1>3, <2>1, <2>2, <2>3
<1>4. CASE f.kind = "require"
  <2>1. Has(channel[Server], "publish", f) => f \in local[Server]
    BY <1>1, <1>2 DEF Welcome, Kinds
  <2>2. Has(channel[Client], "open", f) => f \in local[Server]
    BY <1>1, <1>2 DEF Welcome, Kinds
  <2>3. Connecting(f) => f \in local[Server]
    <3>1. Connecting(f) => f \in open[Server] /\ Owner(f) = Server
      BY <1>1 DEF ProtocolInv, HandsFull, Connecting
    <3> QED BY <1>1, <3>1 DEF SessionInv, MapsAgree
  <2> QED BY <1>4, <2>1, <2>2, <2>3
<1> QED BY <1>3, <1>4

(* The files of a side by their kind.                                      *)
LEMMA KindLemma ==
  /\ \A f \in Files : /\ f.kind \in {"definition", "provide", "require"} /\ f.node \in Nodes
                      /\ Owner(f) = Server <=> f.kind = "require"
                      /\ Owner(f) = Client <=> f.kind # "require"
  /\ \A f \in FilesOf(Server) : f \in Files /\ f.kind = "require" /\ PortsIn(f) # {}
  /\ \A f, g \in Files : f.node = g.node /\ f.kind = g.kind => f = g
  /\ \A n \in Nodes : /\ Definition(n) \in Files /\ Definition(n).kind = "definition"
                      /\ Definition(n).node = n
BY DEF Files, Owner, Client, Server, FilesOf, Definition

(* Before the client has local files, nothing is known of any.             *)
LEMMA ConnectProtocol == SessionInv /\ ProtocolInv /\ Connect => ProtocolInv'
<1> SUFFICES ASSUME SessionInv, ProtocolInv, Connect PROVE ProtocolInv'
  OBVIOUS
<1>1. /\ channel'[Client] = <<Greeting>> /\ channel'[Server] = channel[Server]
      /\ state'[Server] = state[Server] /\ local'[Server] = local[Server] /\ local[Client] = {}
      /\ UNCHANGED <<size, accepted, remote, open, known, work, error>>
  BY OtherSide DEF SessionInv, TypeOK, Connect
<1>2. remote[Server] = {} /\ local[Server] = {}
  <2>1. remote[Server] = {}
    BY <1>1, OtherSide DEF SessionInv, MapsAgree
  <2>2. ASSUME NEW f \in local[Server]
        PROVE  FALSE
    <3>1. f \in Files
      BY OtherSide DEF SessionInv, TypeOK
    <3>2. Definition(f.node) \in remote[Server]
      BY <3>1, KindLemma DEF ProtocolInv, BuiltOnce
    <3> QED BY <2>1, <3>2
  <2> QED BY <2>1, <2>2
<1>3. \A type \in Kinds : \A f \in Files :
        ~Has(<<Greeting>>, type, f) /\ Once(<<Greeting>>, type, f)
  BY MessageLemma, ShortTokens DEF Kinds, Is, Greeting
<1>4. \A f \in Files : \A type \in Kinds :
        /\ ~Has(channel'[Client], type, f) /\ Once(channel'[Client], type, f)
        /\ f.kind = "definition" => ~Has(channel[Server], "open", f) /\ ~InHand(Client, f)
        /\ f.kind = "require" => ~Has(channel[Server], "publish", f) /\ ~Connecting(f)
  BY <1>1, <1>2, <1>3, TokensKnown
<1>5. HandsFull' /\ KnownPublished' /\ NoProtocolError'
  BY <1>1 DEF ProtocolInv, HandsFull, KnownPublished, NoProtocolError
<1>6. PublishedOnce'
  <2>1. InOrder(<<Greeting>>)
    BY DEF InOrder
  <2> QED BY <1>1, <1>2, <1>4, <2>1 DEF PublishedOnce, Kinds
<1>7. DefinitionsOnce'
  BY <1>1, <1>4 DEF ProtocolInv, DefinitionsOnce, DefinitionOnce, InHand, Kinds
<1>8. RequiresOnce'
  BY <1>1, <1>4 DEF ProtocolInv, RequiresOnce, RequireOnce, Connecting, Kinds
<1>9. BuiltOnce'
  <2>1. \A f \in FilesOf(Server) : state'[Client][f] = "WAITING_FILE_INFO"
    BY KindLemma, OtherSide DEF SessionInv, TypeOK, Connect
  <2> QED BY <1>1, <1>2, <2>1 DEF BuiltOnce
<1>10. ProvidesOpened'
  BY <1>1 DEF ProtocolInv, ProvidesOpened
<1> QED BY <1>5, <1>6, <1>7, <1>8, <1>9, <1>10 DEF ProtocolInv

(* The greeting is acknowledged.                                           *)
LEMMA GreetedProtocol ==
  ASSUME SessionInv, ProtocolInv, Handshake(Server)
  PROVE  ProtocolInv'
<1>1. /\ channel[Other(Server)] # <<>> /\ Answer(Server, <<Acknowledge>>)
      /\ accepted' = [accepted EXCEPT ![Server] = TRUE]
      /\ UNCHANGED <<size, remote, local, open, known, state, data, copy, work, error, writes,
                     overtaken>>
  BY DEF Handshake, Receives
<1>2. PICK ms \in Seq(Messages) : ms = <<Acknowledge>>
  <2>1. <<Acknowledge>> \in Seq(Messages)
    BY MessageLemma
  <2> QED BY <2>1
<1>3. \A type \in Kinds : \A f \in Files : ~Has(ms, type, f)
  BY <1>2, MessageLemma, ShortTokens DEF Kinds, Is, Acknowledge
<1>4. \A s \in Sides : Fewer(channel[s], channel'[s])
  <2>1. /\ Fewer(channel[Other(Server)], channel'[Other(Server)])
        /\ Adds(channel[Server], ms, channel'[Server])
    BY <1>1, <1>2, AnswerTokens, OtherSide DEF SessionInv
  <2> QED BY <1>3, <2>1, OtherSide DEF Adds, Fewer
<1>5. InOrder(channel'[Client])
  BY <1>1, <1>2, AnswerOrder, OtherSide DEF SessionInv, ProtocolInv, PublishedOnce
<1>6. HandsFull' /\ NoProtocolError'
  BY <1>1 DEF ProtocolInv, HandsFull, NoProtocolError
<1>7. accepted'[Client] = accepted[Client]
  BY <1>1, OtherSide DEF SessionInv, TypeOK
<1> QED BY <1>1, <1>4, <1>5, <1>6, <1>7, QuietProtocol DEF InHand, Connecting

(* What the client sends after the handshake: its files, in order.         *)
LEMMA PublishesLemma ==
  ASSUME SessionInv, Handshake(Client)
  PROVE  \E ms \in Seq(Messages) :
           /\ Answer(Client, ms) /\ InOrder(ms)
           /\ \A type \in Kinds : \A f \in Files : type # "publish" => ~Has(ms, type, f)
<1>1. PICK q \in LocalFileLists : Answer(Client, [i \in DOMAIN q |-> Publish(q[i])])
  BY OtherSide DEF Handshake
<1>2. PICK ms : ms = [i \in DOMAIN q |-> Publish(q[i])]
  OBVIOUS
<1>3. local[Client] \subseteq Files /\ Cardinality(local[Client]) \in Nat
  <2>1. local[Client] \subseteq Files
    BY OtherSide DEF SessionInv, TypeOK
  <2> QED BY <2>1, FilesFinite, FS_Subset, FS_CardinalityType
<1>4. /\ q \in [1..Cardinality(local[Client]) -> local[Client]]
      /\ \A i, j \in DOMAIN q : i < j =>
           q[i] # q[j] /\ (q[i].kind = "definition" => q[j].kind = "definition")
  BY DEF LocalFileLists
<1>5. /\ ms \in [1..Cardinality(local[Client]) -> Messages] /\ DOMAIN ms = DOMAIN q
      /\ \A j \in DOMAIN ms : ms[j].type = "publish" /\ ms[j].file = q[j]
  BY <1>2, <1>3, <1>4, MessageLemma DEF Publish
<1>6. ms \in Seq(Messages) /\ InOrder(ms)
  <2>1. ms \in Seq(Messages)
    BY <1>3, <1>5
  <2> QED BY <1>4, <1>5, <2>1 DEF InOrder
<1>7. \A type \in Kinds : \A f \in Files : type # "publish" => ~Has(ms, type, f)
  BY <1>5 DEF Has, Is
<1> QED BY <1>1, <1>2, <1>6, <1>7

(* The client publishes its files, which the server has not heard of.      *)
LEMMA AcknowledgedProtocol ==
  ASSUME SessionInv, ProtocolInv, Handshake(Client)
  PROVE  ProtocolInv'
<1>1. /\ channel[Other(Client)] # <<>> /\ ~accepted[Client]
      /\ accepted' = [accepted EXCEPT ![Client] = TRUE]
      /\ UNCHANGED <<size, remote, local, open, known, state, data, copy, work, error, writes,
                     overtaken>>
  BY OtherSide DEF Handshake, Receives
<1>2. PICK ms \in Seq(Messages) :
        /\ Answer(Client, ms) /\ InOrder(ms)
        /\ \A type \in Kinds : \A f \in Files : type # "publish" => ~Has(ms, type, f)
  BY PublishesLemma
<1>3. \A f \in Files : ~Has(channel[Client], "publish", f) /\ remote[Server] = {}
  BY <1>1 DEF ProtocolInv, PublishedOnce
<1>4. /\ Fewer(channel[Server], channel'[Server])
      /\ Adds(channel[Client], ms, channel'[Client])
      /\ InOrder(channel'[Client])
  BY <1>1, <1>2, <1>3, AnswerTokens, AnswerOrder, OtherSide
     DEF SessionInv, ProtocolInv, PublishedOnce
<1>5. accepted'[Client] = TRUE
  BY <1>1, OtherSide DEF SessionInv, TypeOK
<1>6. \A f \in Files :
         /\ Has(channel'[Server], "open", f) => Has(channel[Server], "open", f)
         /\ Once(channel[Server], "open", f) => Once(channel'[Server], "open", f)
         /\ Has(channel'[Server], "publish", f) => Has(channel[Server], "publish", f)
         /\ Once(channel[Server], "publish", f) => Once(channel'[Server], "publish", f)
         /\ Has(channel'[Client], "open", f) => Has(channel[Client], "open", f)
         /\ Once(channel[Client], "open", f) => Once(channel'[Client], "open", f)
         /\ Has(channel'[Client], "write", f) => Has(channel[Client], "write", f)
         /\ Once(channel[Client], "write", f) => Once(channel'[Client], "write", f)
  BY <1>2, <1>4 DEF Fewer, Adds, Counted, Kinds
<1>7. HandsFull' /\ KnownPublished' /\ BuiltOnce' /\ ProvidesOpened' /\ NoProtocolError'
  BY <1>1 DEF ProtocolInv, HandsFull, KnownPublished, BuiltOnce, ProvidesOpened, NoProtocolError
<1>8. PublishedOnce'
  BY <1>1, <1>3, <1>4, <1>5 DEF PublishedOnce
<1>9. DefinitionsOnce' /\ RequiresOnce'
  BY <1>1, <1>6
     DEF ProtocolInv, DefinitionsOnce, DefinitionOnce, RequiresOnce, RequireOnce, InHand, Connecting
<1> QED BY <1>7, <1>8, <1>9 DEF ProtocolInv

(* What is known of a published file that the server learns of.            *)
LEMMA PublishedAnew ==
  ASSUME SessionInv, ProtocolInv, Receives(Server, "publish"),
         NEW f, f = Incoming(Server).file
  PROVE  /\ channel[Other(Server)] # <<>> /\ f \in Files /\ f.kind # "require"
         /\ f \in local[Client] /\ f \notin remote[Server] /\ f.node \notin known
         /\ accepted[Client]
         /\ f.kind # "definition" => \A g \in remote[Server] : g.kind # "definition"
<1>1. /\ channel[Other(Server)] # <<>> /\ Incoming(Server) \in Messages
      /\ Incoming(Server).type = "publish" /\ Welcome(Client, Incoming(Server))
      /\ Other(Server) = Client
  BY IncomingLemma, OtherSide
<1>2. f \in Files /\ f.kind # "require" /\ f \in local[Client]
  BY <1>1, MessageLemma, KindLemma DEF Welcome
<1>3. Has(channel[Client], "publish", f)
  <2>1. 1 \in DOMAIN channel[Client] /\ Incoming(Server) = channel[Client][1]
    BY <1>1, OtherSide DEF SessionInv, TypeOK, Incoming
  <2> QED BY <1>1, <2>1 DEF Has, Is
<1>4. /\ f \notin remote[Server] /\ accepted[Client]
      /\ f.kind # "definition" => \A g \in remote[Server] : g.kind # "definition"
  BY <1>2, <1>3 DEF ProtocolInv, PublishedOnce
<1>5. f.node \notin known
  <2> SUFFICES ASSUME f.node \in known PROVE FALSE
    OBVIOUS
  <2>1. Definition(f.node) \in remote[Server]
    BY <1>2, KindLemma DEF ProtocolInv, KnownPublished
  <2>2. f.kind = "definition"
    BY <1>2, <1>4, <2>1, KindLemma
  <2>3. f = Definition(f.node)
    BY <1>2, <2>2, KindLemma
  <2> QED BY <1>4, <2>1, <2>3
<1> QED BY <1>1, <1>2, <1>4, <1>5

(* A handler that answers with one message adds no other.                  *)
LEMMA ReplyTokens ==
  ASSUME TypeOK, NEW s \in Sides, NEW m \in Messages, channel[Other(s)] # <<>>,
         Answer(s, <<m>>)
  PROVE  /\ \A r \in Sides : \A type \in Kinds : \A f \in Files :
              Counted(type, f) /\ ~(r = s /\ Is(m, type, f)) =>
                /\ Has(channel'[r], type, f) => Has(channel[r], type, f)
                /\ Once(channel[r], type, f) => Once(channel'[r], type, f)
         /\ \A type \in Kinds : \A f \in Files :
              /\ ~Has(channel[s], type, f) => Once(channel'[s], type, f)
              /\ Once(channel[Other(s)], type, f) /\ Is(Incoming(s), type, f)
                   => ~Has(channel'[Other(s)], type, f)
         /\ InOrder(channel[Client]) /\ (s = Client => m.type # "publish")
              => InOrder(channel'[Client])
<1>1. PICK ms \in Seq(Messages) : ms = <<m>>
  <2>1. <<m>> \in Seq(Messages)
    OBVIOUS
  <2> QED BY <2>1
<1>2. /\ Fewer(channel[Other(s)], channel'[Other(s)]) /\ Adds(channel[s], ms, channel'[s])
      /\ \A type \in Kinds : \A f \in Files :
           Once(channel[Other(s)], type, f) /\ Is(Incoming(s), type, f)
             => ~Has(channel'[Other(s)], type, f)
  BY <1>1, AnswerTokens
<1>3. \A type \in Kinds : \A f \in Files :
        (Has(ms, type, f) <=> Is(m, type, f)) /\ Once(ms, type, f)
  BY <1>1, ShortTokens
<1>4. \A r \in Sides : \A type \in Kinds : \A f \in Files :
        Counted(type, f) /\ ~(r = s /\ Is(m, type, f)) =>
          /\ Has(channel'[r], type, f) => Has(channel[r], type, f)
          /\ Once(channel[r], type, f) => Once(channel'[r], type, f)
  <2> SUFFICES ASSUME NEW r \in Sides, NEW type \in Kinds, NEW f \in Files,
                      Counted(type, f), ~(r = s /\ Is(m, type, f))
               PROVE  /\ Has(channel'[r], type, f) => Has(channel[r], type, f)
                      /\ Once(channel[r], type, f) => Once(channel'[r], type, f)
    OBVIOUS
  <2>1. CASE r = s
    BY <1>2, <1>3, <2>1 DEF Adds
  <2>2. CASE r = Other(s)
    BY <1>2, <2>2 DEF Fewer
  <2> QED BY <2>1, <2>2, OtherSide
<1>5. \A type \in Kinds : \A f \in Files :
        ~Has(channel[s], type, f) => Once(channel'[s], type, f)
  BY <1>2, <1>3 DEF Adds
<1>6. ASSUME InOrder(channel[Client]), s = Client => m.type # "publish"
      PROVE  InOrder(channel'[Client])
  <2>1. s = Client => \A f \in Files : ~Has(ms, "publish", f)
    BY <1>3, <1>6 DEF Is, Kinds
  <2> QED BY <1>1, <1>6, <2>1, AnswerOrder
<1> QED BY <1>2, <1>4, <1>5, <1>6

(* The server learns of a file that is no definition.                      *)
LEMMA DataFileProtocol ==
  ASSUME SessionInv, ProtocolInv, ServerLearnsFile, Incoming(Server).file.kind # "definition"
  PROVE  ProtocolInv'
<1>1. PICK f : f = Incoming(Server).file
  OBVIOUS
<1>2. /\ channel[Other(Server)] # <<>> /\ f \in Files /\ f.kind # "definition"
      /\ f \notin remote[Server] /\ f.node \notin known /\ accepted[Client]
      /\ \A g \in remote[Server] : g.kind # "definition"
      /\ Incoming(Server).type = "publish"
  BY <1>1, PublishedAnew DEF ServerLearnsFile, Receives
<1>3. /\ Answer(Server, <<>>) /\ remote'[Server] = remote[Server] \cup {f}
      /\ UNCHANGED <<size, accepted, local, open, known, state, data, copy, work, error, writes,
                     overtaken>>
  BY <1>1, <1>2, OtherSide DEF ServerLearnsFile, SessionInv, TypeOK
<1>4. /\ \A s \in Sides : Fewer(channel[s], channel'[s])
      /\ InOrder(channel'[Client])
      /\ \A g \in Files : Has(channel'[Client], "publish", g) =>
           Has(channel[Client], "publish", g) /\ g # f
  <2>1. PICK ms \in Seq(Messages) : ms = <<>>
    <3>1. <<>> \in Seq(Messages)
      OBVIOUS
    <3> QED BY <3>1
  <2>2. /\ InOrder(channel'[Client])
        /\ \A g \in Files : Has(channel'[Client], "publish", g) => g # f
    BY <1>1, <1>2, <1>3, <2>1, AnswerOrder, OtherSide DEF SessionInv, ProtocolInv, PublishedOnce
  <2>3. \A s \in Sides : Fewer(channel[s], channel'[s])
    BY <1>2, <1>3, SilentTokens, OtherSide DEF SessionInv
  <2> QED BY <2>2, <2>3, OtherSide DEF Fewer, Counted, Kinds
<1>5. \A s \in Sides : \A g \in Files :
        /\ \A type \in {"publish", "open"} :
             /\ Has(channel'[s], type, g) => Has(channel[s], type, g)
             /\ Once(channel[s], type, g) => Once(channel'[s], type, g)
        /\ g.kind = "definition" =>
             /\ Has(channel'[s], "write", g) => Has(channel[s], "write", g)
             /\ Once(channel[s], "write", g) => Once(channel'[s], "write", g)
  BY <1>4 DEF Fewer, Counted, Kinds
<1>6. HandsFull' /\ KnownPublished' /\ ProvidesOpened' /\ NoProtocolError'
  BY <1>3 DEF ProtocolInv, HandsFull, KnownPublished, ProvidesOpened, NoProtocolError
<1>7. PublishedOnce'
  BY <1>2, <1>3, <1>4 DEF ProtocolInv, PublishedOnce
<1>8. DefinitionsOnce' /\ RequiresOnce'
  BY <1>3, <1>5, OtherSide
     DEF ProtocolInv, DefinitionsOnce, DefinitionOnce, RequiresOnce, RequireOnce, InHand, Connecting
<1>9. BuiltOnce'
  BY <1>3 DEF ProtocolInv, BuiltOnce
<1> QED BY <1>6, <1>7, <1>8, <1>9 DEF ProtocolInv

(* The server learns of a definition and asks for it.                      *)
LEMMA NewNodeProtocol ==
  ASSUME SessionInv, ProtocolInv, ServerLearnsFile, Incoming(Server).file.kind = "definition"
  PROVE  ProtocolInv'
<1>1. PICK f : f = Incoming(Server).file
  OBVIOUS
<1>2. /\ channel[Other(Server)] # <<>> /\ f \in Files /\ f.kind = "definition"
      /\ f \notin remote[Server] /\ f.node \notin known /\ accepted[Client]
      /\ Incoming(Server).type = "publish"
  BY <1>1, PublishedAnew DEF ServerLearnsFile, Receives
<1>3. /\ Answer(Server, <<Open(f)>>) /\ remote'[Server] = remote[Server] \cup {f}
      /\ known' = known \cup {f.node}
      /\ open'[Server] = open[Server] \cup {f} /\ open'[Client] = open[Client]
      /\ state'[Client] = state[Client]
      /\ \A g \in Files : state'[Server][g] = IF g = f THEN "WAITING_FOR_FILE_DATA"
                                                     ELSE state[Server][g]
      /\ UNCHANGED <<size, accepted, local, data, copy, work, error, writes, overtaken>>
  BY <1>1, <1>2, OtherSide DEF ServerLearnsFile, Opened, SessionInv, TypeOK
<1>4. Open(f) \in Messages /\ \A type, g : Is(Open(f), type, g) <=> type = "open" /\ g = f
  BY <1>2, MessageLemma DEF Open, Is
<1>5. /\ InOrder(channel'[Client])
      /\ \A g \in Files : Has(channel'[Client], "publish", g) =>
           g # f /\ g.kind = "definition"
  <2>1. PICK ms \in Seq(Messages) : ms = <<Open(f)>>
    <3>1. <<Open(f)>> \in Seq(Messages)
      BY <1>4
    <3> QED BY <3>1
  <2> QED BY <1>1, <1>2, <1>3, <2>1, AnswerOrder, OtherSide
          DEF SessionInv, ProtocolInv, PublishedOnce
<1>6. \A s \in Sides : \A g \in Files :
        /\ /\ Has(channel'[s], "publish", g) => Has(channel[s], "publish", g)
           /\ Once(channel[s], "publish", g) => Once(channel'[s], "publish", g)
        /\ ~(s = Server /\ g = f) =>
             /\ Has(channel'[s], "open", g) => Has(channel[s], "open", g)
             /\ Once(channel[s], "open", g) => Once(channel'[s], "open", g)
        /\ g.kind = "definition" =>
             /\ Has(channel'[s], "write", g) => Has(channel[s], "write", g)
             /\ Once(channel[s], "write", g) => Once(channel'[s], "write", g)
        /\ ~Has(channel[Server], "open", g) => Once(channel'[Server], "open", g)
  BY <1>2, <1>3, <1>4, ReplyTokens, OtherSide DEF SessionInv, Counted, Kinds
<1>7. ~Has(channel[Server], "open", f) /\ ~Has(channel[Client], "write", f) /\ ~InHand(Client, f)
  BY <1>2, TokensKnown
<1>8. HandsFull' /\ NoProtocolError'
  BY <1>3 DEF ProtocolInv, HandsFull, NoProtocolError, Sides
<1>9. KnownPublished'
  BY <1>2, <1>3, KindLemma DEF ProtocolInv, KnownPublished
<1>10. PublishedOnce'
  BY <1>2, <1>3, <1>5, <1>6, OtherSide DEF ProtocolInv, PublishedOnce
<1>11. DefinitionsOnce'
  BY <1>2, <1>3, <1>6, <1>7, OtherSide DEF ProtocolInv, DefinitionsOnce, DefinitionOnce, InHand
<1>12. RequiresOnce'
  BY <1>2, <1>3, <1>6, OtherSide DEF ProtocolInv, RequiresOnce, RequireOnce, Connecting
<1>13. BuiltOnce' /\ ProvidesOpened'
  <2>1. open[Server] \subseteq Files
    BY OtherSide DEF SessionInv, TypeOK
  <2> QED BY <1>2, <1>3, <2>1 DEF ProtocolInv, BuiltOnce, ProvidesOpened
<1> QED BY <1>8, <1>9, <1>10, <1>11, <1>12, <1>13 DEF ProtocolInv

(* The client learns of a require port file, which it waits for, and asks  *)
(* for it.                                                                 *)
LEMMA ClientLearnsProtocol ==
  ASSUME SessionInv, ProtocolInv, ClientLearnsFile
  PROVE  ProtocolInv'
<1>1. PICK f : f = Incoming(Client).file
  OBVIOUS
<1>2. /\ channel[Other(Client)] # <<>> /\ f \in Files /\ f.kind = "require"
      /\ f \in local[Server] /\ Incoming(Client).type = "publish" /\ Other(Client) = Server
  <2>1. Welcome(Server, Incoming(Client)) /\ Incoming(Client) \in Messages
        /\ Incoming(Client).type = "publish" /\ channel[Other(Client)] # <<>>
        /\ Other(Client) = Server
    BY IncomingLemma, OtherSide DEF ClientLearnsFile
  <2> QED BY <1>1, <2>1, MessageLemma, KindLemma DEF Welcome
<1>3. Has(channel[Server], "publish", f)
  <2>1. 1 \in DOMAIN channel[Server] /\ Incoming(Client) = channel[Server][1]
    BY <1>2, OtherSide DEF SessionInv, TypeOK, Incoming
  <2> QED BY <1>1, <1>2, <2>1 DEF Has, Is
<1>4. /\ ~Has(channel[Client], "open", f) /\ ~Connecting(f)
      /\ state[Client][f] = "WAITING_FILE_INFO"
      /\ state[Server][f] = "WAITING_FOR_FILE_OPEN_REQUEST"
      /\ Once(channel[Server], "publish", f)
  BY <1>2, <1>3 DEF ProtocolInv, RequiresOnce, RequireOnce
<1>5. /\ Answer(Client, <<Open(f)>>) /\ remote'[Server] = remote[Server]
      /\ open'[Client] = open[Client] \cup {f} /\ open'[Server] = open[Server]
      /\ state'[Server] = state[Server]
      /\ \A g \in Files : g # f => state'[Client][g] = state[Client][g]
      /\ UNCHANGED <<size, accepted, local, known, data, copy, work, error, writes, overtaken>>
  BY <1>1, <1>2, <1>4, OtherSide DEF ClientLearnsFile, Opened, SessionInv, TypeOK
<1>6. Open(f) \in Messages /\ \A type, g : Is(Open(f), type, g) <=> type = "open" /\ g = f
  BY <1>2, MessageLemma DEF Open, Is
<1>7. /\ InOrder(channel'[Client])
      /\ ~Has(channel'[Server], "publish", f)
  BY <1>1, <1>2, <1>4, <1>5, <1>6, ReplyTokens, OtherSide
     DEF SessionInv, ProtocolInv, PublishedOnce, Kinds, Is, Open
<1>8. \A s \in Sides : \A g \in Files :
        /\ /\ Has(channel'[s], "publish", g) => Has(channel[s], "publish", g)
           /\ Once(channel[s], "publish", g) => Once(channel'[s], "publish", g)
        /\ ~(s = Client /\ g = f) =>
             /\ Has(channel'[s], "open", g) => Has(channel[s], "open", g)
             /\ Once(channel[s], "open", g) => Once(channel'[s], "open", g)
        /\ g.kind = "definition" =>
             /\ Has(channel'[s], "write", g) => Has(channel[s], "write", g)
             /\ Once(channel[s], "write", g) => Once(channel'[s], "write", g)
        /\ ~Has(channel[Client], "open", g) => Once(channel'[Client], "open", g)
  BY <1>2, <1>5, <1>6, ReplyTokens, OtherSide DEF SessionInv, Counted, Kinds
<1>9. HandsFull' /\ NoProtocolError'
  BY <1>5 DEF ProtocolInv, HandsFull, NoProtocolError, Sides
<1>10. KnownPublished' /\ ProvidesOpened'
  BY <1>5 DEF ProtocolInv, KnownPublished, ProvidesOpened
<1>11. PublishedOnce'
  BY <1>5, <1>7, <1>8, OtherSide DEF ProtocolInv, PublishedOnce
<1>12. DefinitionsOnce'
  BY <1>2, <1>5, <1>8, OtherSide DEF ProtocolInv, DefinitionsOnce, DefinitionOnce, InHand
<1>13. RequiresOnce'
  <2> SUFFICES ASSUME NEW g \in Files, g.kind = "require"
               PROVE  RequireOnce(g)'
    BY DEF RequiresOnce
  <2>1. CASE g = f
    BY <1>2, <1>4, <1>5, <1>7, <1>8, <2>1, OtherSide
       DEF ProtocolInv, RequiresOnce, RequireOnce, Connecting
  <2>2. CASE g # f
    BY <1>2, <1>5, <1>8, <2>2, OtherSide DEF ProtocolInv, RequiresOnce, RequireOnce, Connecting
  <2> QED BY <2>1, <2>2
<1>14. BuiltOnce'
  BY <1>2, <1>5, KindLemma DEF ProtocolInv, BuiltOnce
<1> QED BY <1>9, <1>10, <1>11, <1>12, <1>13, <1>14 DEF ProtocolInv

(* What has been asked for is local, and is taken in hand.                 *)
LEMMA OpenRequestedProtocol ==
  ASSUME SessionInv, ProtocolInv, NEW s \in Sides, OpenRequested(s)
  PROVE  ProtocolInv'
<1>1. PICK f : f = Incoming(s).file
  OBVIOUS
<1>2. /\ channel[Other(s)] # <<>> /\ f \in Files /\ Owner(f) = s /\ f \in local[s]
      /\ Incoming(s).type = "open" /\ work[s].step = "idle"
      /\ Other(s) \in Sides /\ Other(Other(s)) = s
  <2>1. Welcome(Other(s), Incoming(s)) /\ Incoming(s) \in Messages
        /\ Incoming(s).type = "open" /\ channel[Other(s)] # <<>> /\ work[s] = Idle
    BY IncomingLemma DEF OpenRequested, Receives
  <2> QED BY <1>1, <2>1, MessageLemma, OtherSide DEF Welcome, Idle
<1>3. Has(channel[Other(s)], "open", f)
  <2>1. 1 \in DOMAIN channel[Other(s)] /\ Incoming(s) = channel[Other(s)][1]
    BY <1>2 DEF SessionInv, TypeOK, Incoming
  <2> QED BY <1>1, <1>2, <2>1 DEF Has, Is
<1>4. /\ Answer(s, <<>>)
      /\ open'[s] = open[s] \cup {f} /\ \A r \in Sides : r # s => open'[r] = open[r]
      /\ work'[s] = [step |-> "opened", file |-> f]
      /\ \A t \in Threads : t # s => work'[t] = work[t]
      /\ UNCHANGED <<size, accepted, remote, local, known, state, data, copy, error, writes,
                     overtaken>>
  BY <1>1, <1>2 DEF OpenRequested, Opened, SessionInv, TypeOK, Threads
<1>5. /\ \A r \in Sides : Fewer(channel[r], channel'[r])
      /\ InOrder(channel'[Client])
  BY <1>2, <1>4, SilentTokens DEF SessionInv, ProtocolInv, PublishedOnce
<1>6. Once(channel[Other(s)], "open", f) => ~Has(channel'[Other(s)], "open", f)
  <2>1. PICK ms \in Seq(Messages) : ms = <<>>
    <3>1. <<>> \in Seq(Messages)
      OBVIOUS
    <3> QED BY <3>1
  <2> QED BY <1>1, <1>2, <1>4, <2>1, AnswerTokens DEF SessionInv, Kinds, Is
<1>7. \A r \in Sides : \A g \in Files :
        /\ \A type \in {"publish", "open"} :
             /\ Has(channel'[r], type, g) => Has(channel[r], type, g)
             /\ Once(channel[r], type, g) => Once(channel'[r], type, g)
        /\ g.kind = "definition" =>
             /\ Has(channel'[r], "write", g) => Has(channel[r], "write", g)
             /\ Once(channel[r], "write", g) => Once(channel'[r], "write", g)
  BY <1>5 DEF Fewer, Counted, Kinds
<1>8. HandsFull' /\ NoProtocolError'
  <2>1. \A t \in Writers : t # s
    BY SessionAssumption
  <2>2. HandsFull'
    BY <1>2, <1>4, <2>1 DEF ProtocolInv, HandsFull, Threads
  <2> QED BY <1>4, <2>2 DEF ProtocolInv, NoProtocolError
<1>9. KnownPublished' /\ BuiltOnce'
  BY <1>4 DEF ProtocolInv, KnownPublished, BuiltOnce
<1>10. PublishedOnce'
  BY <1>4, <1>5, <1>7, OtherSide DEF ProtocolInv, PublishedOnce
<1>11. CASE s = Client
  <2>1. f.kind # "require" /\ work'[Server] = work[Server] /\ open'[Server] = open[Server]
        /\ Other(s) = Server
    BY <1>2, <1>4, <1>11, KindLemma, OtherSide DEF Threads
  <2>2. DefinitionsOnce'
    <3> SUFFICES ASSUME NEW g \in Files, g.kind = "definition"
                 PROVE  DefinitionOnce(g)'
      BY DEF DefinitionsOnce
    <3>1. InHand(Client, g)' => g = f
      BY <1>4, <1>11 DEF InHand
    <3> QED BY <1>3, <1>4, <1>6, <1>7, <1>11, <2>1, <3>1, OtherSide
            DEF ProtocolInv, DefinitionsOnce, DefinitionOnce
  <2>3. RequiresOnce' /\ ProvidesOpened'
    BY <1>4, <1>7, <2>1, OtherSide
       DEF ProtocolInv, RequiresOnce, RequireOnce, ProvidesOpened, Connecting
  <2> QED BY <1>8, <1>9, <1>10, <2>2, <2>3 DEF ProtocolInv
<1>12. CASE s = Server
  <2>1. f.kind = "require" /\ work'[Client] = work[Client] /\ Other(s) = Client
    BY <1>2, <1>4, <1>12, KindLemma, OtherSide DEF Threads
  <2>2. RequiresOnce'
    <3> SUFFICES ASSUME NEW g \in Files, g.kind = "require"
                 PROVE  RequireOnce(g)'
      BY DEF RequiresOnce
    <3>1. Connecting(g)' => g = f
      BY <1>4, <1>12 DEF Connecting
    <3> QED BY <1>3, <1>4, <1>6, <1>7, <1>12, <2>1, <3>1, OtherSide
            DEF ProtocolInv, RequiresOnce, RequireOnce
  <2>3. DefinitionsOnce' /\ ProvidesOpened'
    BY <1>4, <1>7, <1>12, <2>1, OtherSide
       DEF ProtocolInv, DefinitionsOnce, DefinitionOnce, ProvidesOpened, InHand
  <2> QED BY <1>8, <1>9, <1>10, <2>2, <2>3 DEF ProtocolInv
<1> QED BY <1>11, <1>12 DEF Sides

-----------------------------------------------------------------------------
(* The snapshot is taken with the file in hand; the server has connected   *)
(* the ports of the file, or has failed to.                                *)
LEMMA TakeSnapshotProtocol ==
  ASSUME SessionInv, ProtocolInv, NEW s \in Sides, TakeSnapshot(s)
  PROVE  ProtocolInv'
<1>1. PICK f : f = work[s].file
  OBVIOUS
<1>2. /\ f \in Files /\ Owner(f) = s /\ f \in open[s]
      /\ work[s].step = "opened" /\ s \in Threads
  <2>1. work[s] \in Work /\ work[s].step = "opened" /\ s \in Threads
    BY DEF SessionInv, TypeOK, Threads, TakeSnapshot
  <2>2. f \in Files
    BY <1>1, <2>1, WorkLemma
  <2> QED BY <1>1, <2>1, <2>2 DEF ProtocolInv, HandsFull
<1>3. /\ work'[s].step \in {"idle", "queue"} /\ (work'[s].step = "queue" => work'[s].file = f)
      /\ s = Client => work'[s].step = "queue"
      /\ \A t \in Threads : t # s => work'[t] = work[t]
      /\ UNCHANGED <<size, accepted, channel, remote, local, open, known, data, copy, error,
                     writes, overtaken>>
  <2>1. work' = [work EXCEPT ![s] = Snapshot(f)] \/ work' = [work EXCEPT ![s] = Idle]
    BY <1>1 DEF TakeSnapshot
  <2>2. s = Client => work' = [work EXCEPT ![s] = Snapshot(f)]
    BY <1>1, <1>2, KindLemma, OtherSide DEF TakeSnapshot
  <2> QED BY <1>2, <2>1, <2>2 DEF TakeSnapshot, Snapshot, Idle, SessionInv, TypeOK
<1>4. HandsFull' /\ NoProtocolError'
  <2>1. \A t \in Writers : t # s
    BY SessionAssumption
  <2>2. HandsFull'
    BY <1>2, <1>3, <2>1 DEF ProtocolInv, HandsFull, Threads
  <2> QED BY <1>3, <2>2 DEF ProtocolInv, NoProtocolError
<1>5. CASE s = Client
  <2>1. f.kind # "require" /\ work'[Server] = work[Server]
    BY <1>2, <1>3, <1>5, KindLemma, OtherSide DEF Threads
  <2>2. UNCHANGED state
    BY <1>1, <2>1 DEF TakeSnapshot
  <2>3. \A g \in Files : /\ InHand(Client, g)' => InHand(Client, g)
                         /\ Connecting(g)' => Connecting(g)
    BY <1>1, <1>2, <1>3, <1>5, <2>1 DEF InHand, Connecting
  <2>4. \A r \in Sides : Fewer(channel[r], channel'[r])
    BY <1>3 DEF Fewer
  <2> QED BY <1>3, <1>4, <2>2, <2>3, <2>4, QuietProtocol DEF ProtocolInv, PublishedOnce
<1>6. CASE s = Server
  <2>1. /\ f.kind = "require" /\ work'[Client] = work[Client]
        /\ \A g \in Files : Connecting(g) <=> g = f
        /\ \A g \in Files : ~Connecting(g)'
    BY <1>1, <1>2, <1>3, <1>6, KindLemma, OtherSide DEF Threads, Connecting
  <2>2. /\ state'[Client] = state[Client]
        /\ \A g \in Files : g # f => state'[Server][g] = state[Server][g]
    BY <1>1, <1>2, <1>6, OtherSide DEF TakeSnapshot, SessionInv, TypeOK
  <2>3. open[Server] \subseteq Files /\ local[Server] \subseteq Files
    BY OtherSide DEF SessionInv, TypeOK
  <2>4. KnownPublished' /\ PublishedOnce' /\ BuiltOnce' /\ ProvidesOpened'
    BY <1>3, <2>1, <2>2, <2>3
       DEF ProtocolInv, KnownPublished, PublishedOnce, BuiltOnce, ProvidesOpened
  <2>5. DefinitionsOnce'
    BY <1>3, <2>1, <2>2 DEF ProtocolInv, DefinitionsOnce, DefinitionOnce, InHand
  <2>6. RequiresOnce'
    <3> SUFFICES ASSUME NEW g \in Files, g.kind = "require"
                 PROVE  RequireOnce(g)'
      BY DEF RequiresOnce
    <3> QED BY <1>3, <2>1, <2>2 DEF ProtocolInv, RequiresOnce, RequireOnce
  <2> QED BY <1>4, <2>4, <2>5, <2>6 DEF ProtocolInv
<1> QED BY <1>5, <1>6 DEF Sides

(* A port is written with nothing else in hand.                            *)
LEMMA WritePortProtocol ==
  ASSUME SessionInv, ProtocolInv, NEW t \in Writers, WritePort(t)
  PROVE  ProtocolInv'
<1>1. PICK f \in Files, p \in Ports :
        /\ f.kind # "definition"
        /\ work' = [work EXCEPT ![t] = [step |-> "queue", file |-> f,
                                        value |-> [q \in {p} |-> writes + 1]]]
  BY DEF WritePort
<1>2. /\ UNCHANGED <<size, accepted, channel, remote, local, open, known, state, copy, error,
                     overtaken>>
      /\ t \in Threads /\ \A s \in Sides : s # t /\ s \in Threads
  BY SessionAssumption DEF WritePort, Threads
<1>3. /\ \A r \in Threads : r # t => work'[r] = work[r]
      /\ work'[t].step = "queue" /\ work'[t].file = f
  BY <1>1, <1>2 DEF SessionInv, TypeOK
<1>4. HandsFull' /\ NoProtocolError'
  BY <1>1, <1>2, <1>3 DEF ProtocolInv, HandsFull, Threads, NoProtocolError
<1>5. \A g \in Files : /\ InHand(Client, g)' => InHand(Client, g)
                       /\ Connecting(g)' => Connecting(g)
  BY <1>2, <1>3, OtherSide DEF InHand, Connecting
<1>6. \A r \in Sides : Fewer(channel[r], channel'[r])
  BY <1>2 DEF Fewer
<1> QED BY <1>2, <1>4, <1>5, <1>6, QuietProtocol DEF ProtocolInv, PublishedOnce

(* What queueing adds to the messages on their way.                        *)
LEMMA QueueTokens ==
  ASSUME TypeOK, NEW s \in Sides, NEW m \in Messages, m.type = "write",
         \/ channel' = channel
         \/ channel' = [channel EXCEPT ![s] = Append(@, m)]
  PROVE  /\ \A r \in Sides : \A type \in Kinds : \A f \in Files :
              ~(r = s /\ Is(m, type, f)) =>
                /\ Has(channel'[r], type, f) => Has(channel[r], type, f)
                /\ Once(channel[r], type, f) => Once(channel'[r], type, f)
         /\ \A type \in Kinds : \A f \in Files :
              ~Has(channel[s], type, f) => Once(channel'[s], type, f)
         /\ InOrder(channel[Client]) => InOrder(channel'[Client])
<1>1. channel \in [Sides -> Seq(Messages)]
  BY DEF TypeOK
<1>2. CASE channel' = channel
  BY <1>2 DEF Once, Has
<1>3. CASE channel' = [channel EXCEPT ![s] = Append(@, m)]
  <2>1. PICK ms \in Seq(Messages) : ms = <<m>>
    <3>1. <<m>> \in Seq(Messages)
      OBVIOUS
    <3> QED BY <3>1
  <2>2. /\ channel[s] \in Seq(Messages) /\ channel'[s] = channel[s] \o ms
        /\ \A r \in Sides : r # s => channel'[r] = channel[r]
    BY <1>1, <1>3, <2>1
  <2>3. \A type \in Kinds : \A f \in Files :
          (Has(ms, type, f) <=> Is(m, type, f)) /\ Once(ms, type, f)
    BY <2>1, ShortTokens
  <2>4. /\ Adds(channel[s], ms, channel'[s])
        /\ InOrder(channel[s]) => InOrder(channel'[s])
    <3>1. \A f \in Files : ~Has(ms, "publish", f)
      BY <2>3 DEF Is, Kinds
    <3>2. PICK q \in Seq(Messages) : q = channel[s]
      BY <2>2
    <3>3. Adds(q, ms, q \o ms) /\ (InOrder(q) => InOrder(q \o ms))
      BY <3>1, ConcatTokens
    <3> QED BY <2>2, <3>2, <3>3
  <2>5. \A r \in Sides : \A type \in Kinds : \A f \in Files :
          ~(r = s /\ Is(m, type, f)) =>
            /\ Has(channel'[r], type, f) => Has(channel[r], type, f)
            /\ Once(channel[r], type, f) => Once(channel'[r], type, f)
    <3> SUFFICES ASSUME NEW r \in Sides, NEW type \in Kinds, NEW f \in Files,
                        ~(r = s /\ Is(m, type, f))
                 PROVE  /\ Has(channel'[r], type, f) => Has(channel[r], type, f)
                        /\ Once(channel[r], type, f) => Once(channel'[r], type, f)
      OBVIOUS
    <3>1. CASE r = s
      BY <2>3, <2>4, <3>1 DEF Adds
    <3>2. CASE r # s
      BY <2>2, <3>2
    <3> QED BY <3>1, <3>2
  <2>6. \A type \in Kinds : \A f \in Files :
          ~Has(channel[s], type, f) => Once(channel'[s], type, f)
    BY <2>3, <2>4 DEF Adds
  <2>7. InOrder(channel[Client]) => InOrder(channel'[Client])
    BY <2>2, <2>4, OtherSide
  <2> QED BY <2>5, <2>6, <2>7
<1> QED BY <1>2, <1>3

(* What is in hand is queued; a definition only by the client, once.       *)
LEMMA QueueProtocol ==
  ASSUME SessionInv, ProtocolInv, NEW t \in Threads, Queue(t)
  PROVE  ProtocolInv'
<1>1. PICK f, m : f = work[t].file /\ m = Write(f, work[t].value)
  OBVIOUS
<1>2. /\ f \in Files /\ m \in Messages /\ m.type = "write" /\ m.file = f /\ Owner(f) \in Sides
      /\ work[t].step = "queue"
  <2>1. work[t] \in Work /\ work[t].step = "queue"
    BY DEF SessionInv, TypeOK, Queue
  <2>2. f \in Files /\ work[t].value \in PartialValues(f)
    BY <1>1, <2>1, WorkLemma
  <2> QED BY <1>1, <2>1, <2>2, MessageLemma, OtherSide DEF Write
<1>3. /\ \/ channel' = channel
         \/ channel' = [channel EXCEPT ![Owner(f)] = Append(@, m)]
      /\ work' = [work EXCEPT ![t] = Idle]
      /\ UNCHANGED <<size, accepted, remote, local, open, known, state, data, copy, error, writes>>
  BY <1>1 DEF Queue
<1>4. /\ \A r \in Threads : r # t => work'[r] = work[r]
      /\ work'[t].step = "idle" /\ \A s \in Sides : s \in Threads
  BY <1>3 DEF SessionInv, TypeOK, Idle, Threads
<1>5. /\ \A r \in Sides : \A type \in Kinds : \A g \in Files :
           ~(r = Owner(f) /\ type = "write" /\ g = f) =>
             /\ Has(channel'[r], type, g) => Has(channel[r], type, g)
             /\ Once(channel[r], type, g) => Once(channel'[r], type, g)
      /\ ~Has(channel[Owner(f)], "write", f) => Once(channel'[Owner(f)], "write", f)
      /\ InOrder(channel'[Client])
  BY <1>2, <1>3, QueueTokens DEF SessionInv, ProtocolInv, PublishedOnce, Is, Kinds
<1>6. HandsFull' /\ NoProtocolError'
  BY <1>3, <1>4 DEF ProtocolInv, HandsFull, Threads, NoProtocolError
<1>7. \A g \in Files : /\ InHand(Client, g)' => InHand(Client, g)
                       /\ Connecting(g)' => Connecting(g)
  BY <1>4, OtherSide DEF InHand, Connecting
<1>8. CASE f.kind # "definition"
  <2>1. \A r \in Sides : Fewer(channel[r], channel'[r])
    BY <1>5, <1>8 DEF Fewer, Counted
  <2> QED BY <1>3, <1>5, <1>6, <1>7, <2>1, QuietProtocol
<1>9. CASE f.kind = "definition"
  <2>1. t = Client /\ Owner(f) = Client /\ InHand(Client, f)
    <3>1. t \notin Writers /\ Owner(f) = Client
      BY <1>1, <1>2, <1>9, KindLemma DEF ProtocolInv, HandsFull
    <3> QED BY <1>1, <1>2, <3>1 DEF Threads, ProtocolInv, HandsFull, InHand
  <2>2. \A g \in Files : ~InHand(Client, g)'
    BY <1>4, <2>1 DEF InHand
  <2>3. \A r \in Sides : \A g \in Files : \A type \in {"publish", "open"} :
          /\ Has(channel'[r], type, g) => Has(channel[r], type, g)
          /\ Once(channel[r], type, g) => Once(channel'[r], type, g)
    BY <1>5 DEF Kinds
  <2>4. \A g \in Files : g # f =>
          /\ Has(channel'[Client], "write", g) => Has(channel[Client], "write", g)
          /\ Once(channel[Client], "write", g) => Once(channel'[Client], "write", g)
    BY <1>5, OtherSide DEF Kinds
  <2>5. DefinitionsOnce'
    <3> SUFFICES ASSUME NEW g \in Files, g.kind = "definition"
                 PROVE  DefinitionOnce(g)'
      BY DEF DefinitionsOnce
    <3>1. CASE g = f
      BY <1>3, <1>5, <1>9, <2>1, <2>2, <2>3, <3>1, OtherSide
         DEF ProtocolInv, DefinitionsOnce, DefinitionOnce
    <3>2. CASE g # f
      BY <1>3, <2>2, <2>3, <2>4, <3>2, OtherSide
         DEF ProtocolInv, DefinitionsOnce, DefinitionOnce
    <3> QED BY <3>1, <3>2
  <2>6. RequiresOnce'
    BY <1>3, <1>7, <2>3, OtherSide DEF ProtocolInv, RequiresOnce, RequireOnce
  <2>7. PublishedOnce'
    BY <1>3, <1>5, <2>3, OtherSide DEF ProtocolInv, PublishedOnce
  <2>8. KnownPublished' /\ BuiltOnce' /\ ProvidesOpened'
    BY <1>3 DEF ProtocolInv, KnownPublished, BuiltOnce, ProvidesOpened
  <2> QED BY <1>6, <2>5, <2>6, <2>7, <2>8 DEF ProtocolInv
<1> QED BY <1>8, <1>9

-----------------------------------------------------------------------------
(* What is known of a write that is received: the file is of the other     *)
(* side, is known and open, and only a definition may be too large.        *)
LEMMA ArrivingWrite ==
  ASSUME SessionInv, PortDataFits, NEW s \in Sides, Receives(s, "write")
  PROVE  /\ channel[Other(s)] # <<>> /\ Incoming(s).file \in Files
         /\ Incoming(s) \in Messages /\ Incoming(s).type = "write"
         /\ Owner(Incoming(s).file) = Other(s)
         /\ Incoming(s).file \in remote[s] \cap open[s]
         /\ SizeOf(Incoming(s)) > ReceiveBuffer => Incoming(s).file.kind = "definition"
<1>1. /\ channel[Other(s)] # <<>> /\ Incoming(s) \in Messages
      /\ Incoming(s).type = "write" /\ Welcome(Other(s), Incoming(s)) /\ Other(Other(s)) = s
  BY IncomingLemma, OtherSide
<1>2. PICK f, v : f = Incoming(s).file /\ v = Incoming(s).value
  OBVIOUS
<1>3. f \in Files /\ v \in PartialValues(f)
  BY <1>1, <1>2, MessageLemma
<1>4. f.kind # "definition" => SizeOf(Incoming(s)) <= ReceiveBuffer
  <2>1. DOMAIN v \subseteq PortsIn(f)
    BY <1>3 DEF PartialValues
  <2>2. /\ Cardinality(DOMAIN v) \in Nat /\ Cardinality(PortsIn(f)) \in Nat
        /\ Cardinality(DOMAIN v) <= Cardinality(PortsIn(f))
        /\ Cardinality(PortsIn(f)) <= ReceiveBuffer /\ ReceiveBuffer \in Nat
    BY <1>3, <2>1, FS_Subset, FS_CardinalityType, SessionAssumption DEF PortDataFits
  <2> QED BY <1>2, <2>2 DEF SizeOf
<1>5. SizeOf(Incoming(s)) > ReceiveBuffer => f.kind = "definition"
  <2>1. f.kind # "definition" => SizeOf(Incoming(s)) = Cardinality(DOMAIN v)
    BY <1>2 DEF SizeOf
  <2>2. f.kind # "definition" => Cardinality(DOMAIN v) \in Nat
    <3>1. DOMAIN v \subseteq PortsIn(f)
      BY <1>3 DEF PartialValues
    <3> QED BY <1>3, <3>1, FS_Subset, FS_CardinalityType DEF PortDataFits
  <2> QED BY <1>4, <2>1, <2>2, SessionAssumption
<1> QED BY <1>1, <1>2, <1>3, <1>5 DEF Welcome

(* A write is stopped only because a definition is too large.              *)
LEMMA WriteStoppedProtocol ==
  ASSUME SessionInv, ProtocolInv, PortDataFits, NEW s \in Sides, WriteStopped(s)
  PROVE  ProtocolInv'
<1>1. PICK f : f = Incoming(s).file
  OBVIOUS
<1>2. /\ channel[Other(s)] # <<>> /\ f \in Files /\ Owner(f) = Other(s)
      /\ f \in remote[s] \cap open[s] /\ TooLarge(s) /\ f.kind = "definition"
  BY <1>1, ArrivingWrite DEF WriteStopped, TooLarge
<1>3. /\ Answer(s, <<>>) /\ error' = [error EXCEPT ![s] = "BUFFER_FULL"]
      /\ UNCHANGED <<size, accepted, remote, local, open, known, state, data, copy, work, writes,
                     overtaken>>
  BY <1>2 DEF WriteStopped, Refuse
<1>4. NoProtocolError'
  <2>1. s = Server
    BY <1>2, KindLemma, OtherSide
  <2>2. error'[Client] = error[Client] /\ error'[Server] = "BUFFER_FULL"
    BY <1>3, <2>1, OtherSide DEF SessionInv, TypeOK
  <2>3. f.node \in Nodes /\ size'[f.node] > ReceiveBuffer
    BY <1>1, <1>2, <1>3, KindLemma DEF TooLarge, SizeOf
  <2> QED BY <2>2, <2>3 DEF ProtocolInv, NoProtocolError
<1>5. HandsFull'
  BY <1>3 DEF ProtocolInv, HandsFull
<1>6. /\ \A r \in Sides : Fewer(channel[r], channel'[r])
      /\ InOrder(channel'[Client])
  BY <1>2, <1>3, SilentTokens DEF SessionInv, ProtocolInv, PublishedOnce
<1> QED BY <1>3, <1>4, <1>5, <1>6, QuietProtocol DEF InHand, Connecting

(* Provide port data is expected when it comes.                            *)
LEMMA ProvideWrittenProtocol ==
  ASSUME SessionInv, ProtocolInv, PortDataFits, ProvideWritten
  PROVE  ProtocolInv'
<1>1. PICK f : f = Incoming(Server).file
  OBVIOUS
<1>2. /\ channel[Other(Server)] # <<>> /\ f \in Files /\ f.kind = "provide"
      /\ f \in open[Server]
  BY <1>1, ArrivingWrite, OtherSide DEF ProvideWritten, ReceivesWrite
<1>3. state[Server][f] \in Receivable
  BY <1>2 DEF ProtocolInv, ProvidesOpened
<1>4. /\ Answer(Server, <<>>)
      /\ state' = state \/ state' = [state EXCEPT ![Server][f] = "CONNECTED"]
      /\ \/ error' = error
         \/ error' = [error EXCEPT ![Server] = "CONNECT"] /\ Fragile # {}
      /\ UNCHANGED <<size, accepted, remote, local, open, known, data, work, writes, overtaken>>
  BY <1>1, <1>3 DEF ProvideWritten, Refuse, Receivable
<1>5. NoProtocolError'
  <2>1. /\ error'[Client] = error[Client]
        /\ \/ error'[Server] = error[Server]
           \/ error'[Server] = "CONNECT" /\ Fragile # {}
    BY <1>4, OtherSide DEF SessionInv, TypeOK
  <2> QED BY <1>4, <2>1 DEF ProtocolInv, NoProtocolError
<1>6. HandsFull'
  BY <1>4 DEF ProtocolInv, HandsFull
<1>7. /\ \A r \in Sides : Fewer(channel[r], channel'[r])
      /\ InOrder(channel'[Client])
  BY <1>2, <1>4, SilentTokens, OtherSide DEF SessionInv, ProtocolInv, PublishedOnce
<1>8. /\ state'[Client] = state[Client]
      /\ \A g \in Files : /\ g # f => state'[Server][g] = state[Server][g]
                          /\ g = f => state'[Server][g] \in Receivable
  BY <1>2, <1>3, <1>4, OtherSide DEF SessionInv, TypeOK, Receivable
<1>9. /\ \A g \in Files : g.kind # "provide" => state'[Server][g] = state[Server][g]
      /\ \A g \in Files : state[Server][g] \in Receivable => state'[Server][g] \in Receivable
  BY <1>2, <1>8
<1> QED BY <1>4, <1>5, <1>6, <1>7, <1>8, <1>9, QuietProtocol DEF InHand, Connecting

(* Require port data leaves files the client waits for alone.              *)
LEMMA RequireWrittenProtocol ==
  ASSUME SessionInv, ProtocolInv, PortDataFits, RequireWritten
  PROVE  ProtocolInv'
<1>1. PICK f : f = Incoming(Client).file
  OBVIOUS
<1>2. channel[Other(Client)] # <<>> /\ f \in Files
  BY <1>1, ArrivingWrite, OtherSide DEF RequireWritten, ReceivesWrite
<1>3. /\ Answer(Client, <<>>)
      /\ state' = [state EXCEPT ![Client][f] =
                     IF @ = "WAITING_FOR_FILE_DATA" THEN "CONNECTED" ELSE @]
      /\ UNCHANGED <<size, accepted, remote, local, open, known, data, work, error, writes,
                     overtaken>>
  BY <1>1 DEF RequireWritten
<1>4. HandsFull' /\ NoProtocolError'
  BY <1>3 DEF ProtocolInv, HandsFull, NoProtocolError
<1>5. /\ \A r \in Sides : Fewer(channel[r], channel'[r])
      /\ InOrder(channel'[Client])
  BY <1>2, <1>3, SilentTokens, OtherSide DEF SessionInv, ProtocolInv, PublishedOnce
<1>6. /\ state'[Server] = state[Server]
      /\ \A g \in Files : state[Client][g] = "WAITING_FILE_INFO"
                           => state'[Client][g] = "WAITING_FILE_INFO"
  BY <1>2, <1>3, OtherSide DEF SessionInv, TypeOK
<1> QED BY <1>3, <1>4, <1>5, <1>6, QuietProtocol DEF InHand, Connecting

(* What is known of a definition that is received: the server waits for    *)
(* it, it will not come again, and the node has no require port file yet.  *)
LEMMA ArrivingDefinition ==
  ASSUME SessionInv, ProtocolInv, PortDataFits, ReceivesWrite(Server, "definition"),
         NEW f, f = Incoming(Server).file
  PROVE  /\ channel[Other(Server)] # <<>> /\ Other(Server) = Client
         /\ f \in Files /\ f.kind = "definition" /\ f \in remote[Server]
         /\ Is(Incoming(Server), "write", f)
         /\ Once(channel[Client], "write", f)
         /\ ~Has(channel[Server], "open", f) /\ ~InHand(Client, f)
         /\ \A g \in local[Server] : g.node # f.node
<1>1. /\ channel[Other(Server)] # <<>> /\ Other(Server) = Client
      /\ f \in Files /\ f.kind = "definition" /\ f \in remote[Server]
      /\ Is(Incoming(Server), "write", f)
  BY ArrivingWrite, OtherSide DEF ReceivesWrite, Is
<1>2. Has(channel[Client], "write", f)
  <2>1. 1 \in DOMAIN channel[Client] /\ Incoming(Server) = channel[Client][1]
    BY <1>1, OtherSide DEF SessionInv, TypeOK, Incoming
  <2> QED BY <1>1, <2>1 DEF Has
<1>3. DefinitionOnce(f)
  BY <1>1 DEF ProtocolInv, DefinitionsOnce
<1>4. \A g \in local[Server] : g.node = f.node => state[Server][f] = "CONNECTED"
  BY <1>1 DEF ProtocolInv, BuiltOnce
<1> QED BY <1>1, <1>2, <1>3, <1>4 DEF DefinitionOnce

(* A node that cannot be built is forgotten.                               *)
LEMMA NotBuiltProtocol ==
  ASSUME SessionInv, ProtocolInv, PortDataFits, ReceivesWrite(Server, "definition"),
         NEW f, f = Incoming(Server).file, f.node \in Fragile,
         known' = known \ {f.node}, Refuse(Server, "PARSE"),
         state' = [state EXCEPT ![Server][f] = "CONNECTED"],
         UNCHANGED <<size, accepted, remote, local, open, data, copy, work, writes, overtaken>>
  PROVE  ProtocolInv'
<1>1. /\ channel[Other(Server)] # <<>> /\ Other(Server) = Client
      /\ f \in Files /\ f.kind = "definition" /\ f \in remote[Server]
      /\ Is(Incoming(Server), "write", f) /\ Once(channel[Client], "write", f)
      /\ ~Has(channel[Server], "open", f) /\ ~InHand(Client, f)
  BY ArrivingDefinition
<1>2. /\ Answer(Server, <<>>) /\ error'[Client] = error[Client] /\ error'[Server] = "PARSE"
      /\ state'[Client] = state[Client]
      /\ \A g \in Files : state'[Server][g] = IF g = f THEN "CONNECTED" ELSE state[Server][g]
  BY <1>1, OtherSide DEF Refuse, SessionInv, TypeOK
<1>3. PICK ms \in Seq(Messages) : ms = <<>>
  <2>1. <<>> \in Seq(Messages)
    OBVIOUS
  <2> QED BY <2>1
<1>4. ~Has(channel'[Client], "write", f)
  BY <1>1, <1>2, <1>3, AnswerTokens, OtherSide DEF SessionInv, Kinds
<1>5. /\ \A r \in Sides : Fewer(channel[r], channel'[r])
      /\ InOrder(channel'[Client])
  BY <1>1, <1>2, SilentTokens, OtherSide DEF SessionInv, ProtocolInv, PublishedOnce
<1>6. \A s \in Sides : \A g \in Files :
        /\ \A type \in {"publish", "open"} :
             /\ Has(channel'[s], type, g) => Has(channel[s], type, g)
             /\ Once(channel[s], type, g) => Once(channel'[s], type, g)
        /\ g.kind = "definition" =>
             /\ Has(channel'[s], "write", g) => Has(channel[s], "write", g)
             /\ Once(channel[s], "write", g) => Once(channel'[s], "write", g)
  BY <1>5 DEF Fewer, Counted, Kinds
<1>7. HandsFull' /\ KnownPublished' /\ NoProtocolError'
  BY <1>2 DEF ProtocolInv, HandsFull, KnownPublished, NoProtocolError
<1>8. PublishedOnce'
  BY <1>5, <1>6, OtherSide DEF ProtocolInv, PublishedOnce
<1>9. DefinitionsOnce'
  BY <1>1, <1>2, <1>4, <1>6, OtherSide DEF ProtocolInv, DefinitionsOnce, DefinitionOnce, InHand
<1>10. RequiresOnce'
  BY <1>1, <1>2, <1>6, OtherSide DEF ProtocolInv, RequiresOnce, RequireOnce, Connecting
<1>11. BuiltOnce' /\ ProvidesOpened'
  <2>1. open[Server] \subseteq Files
    BY OtherSide DEF SessionInv, TypeOK
  <2> QED BY <1>1, <1>2, <2>1 DEF ProtocolInv, BuiltOnce, ProvidesOpened
<1> QED BY <1>7, <1>8, <1>9, <1>10, <1>11 DEF ProtocolInv

(* What the server waits for, and what it sends, when a node is built.     *)
BuiltStates(f, asked, given) ==
  [g \in Files |-> CASE g = f -> "CONNECTED"
                     [] g \in asked -> "WAITING_FOR_FILE_DATA"
                     [] g \in {Provide(f.node)} \ asked /\ PortsIn(g) # {} -> "WAITING_FILE_INFO"
                     [] g \in given -> "WAITING_FOR_FILE_OPEN_REQUEST"
                     [] OTHER -> state[Server][g]]

BuiltReplies(f, asked, given) ==
  (IF asked = {} THEN <<>> ELSE <<Open(Provide(f.node))>>)
  \o (IF given = {} THEN <<>> ELSE <<Publish(Require(f.node))>>)

(* The replies about a new node: an open request and a publish.            *)
LEMMA RepliesLemma ==
  ASSUME NEW pro \in Files, NEW req \in Files, NEW asked, NEW given, NEW f,
         pro = Provide(f.node), req = Require(f.node)
  PROVE  \E ms \in Seq(Messages) :
           /\ ms = BuiltReplies(f, asked, given)
           /\ \A type \in Kinds : \A g \in Files :
                Has(ms, type, g) => \/ type = "open" /\ g = pro
                                    \/ type = "publish" /\ g = req /\ given # {}
           /\ Once(ms, "publish", req)
<1> DEFINE a == IF asked = {} THEN <<>> ELSE <<Open(pro)>>
           b == IF given = {} THEN <<>> ELSE <<Publish(req)>>
<1>1. /\ Open(pro) \in Messages /\ Publish(req) \in Messages
      /\ \A type, g : Is(Open(pro), type, g) <=> type = "open" /\ g = pro
      /\ \A type, g : Is(Publish(req), type, g) <=> type = "publish" /\ g = req
  BY MessageLemma DEF Open, Publish, Is
<1>2. PICK x \in Seq(Messages), y \in Seq(Messages) :
        /\ x = a /\ y = b
        /\ \A type \in Kinds : \A g \in Files : Has(x, type, g) => type = "open" /\ g = pro
        /\ \A type \in Kinds : \A g \in Files :
             Has(y, type, g) => type = "publish" /\ g = req /\ given # {}
        /\ Once(y, "publish", req)
  <2>1. a \in Seq(Messages) /\ b \in Seq(Messages)
    BY <1>1
  <2>2. \A type \in Kinds : \A g \in Files : Has(a, type, g) => type = "open" /\ g = pro
    <3>1. CASE asked = {}
      BY <3>1, ShortTokens
    <3>2. CASE asked # {}
      BY <1>1, <3>2, ShortTokens
    <3> QED BY <3>1, <3>2
  <2>3. /\ \A type \in Kinds : \A g \in Files :
             Has(b, type, g) => type = "publish" /\ g = req /\ given # {}
        /\ Once(b, "publish", req)
    <3>1. CASE given = {}
      BY <3>1, ShortTokens DEF Once
    <3>2. CASE given # {}
      BY <1>1, <3>2, ShortTokens DEF Kinds
    <3> QED BY <3>1, <3>2
  <2> QED BY <2>1, <2>2, <2>3
<1>3. x \o y \in Seq(Messages) /\ Adds(x, y, x \o y)
  BY ConcatTokens
<1>4. x \o y = BuiltReplies(f, asked, given)
  BY <1>2 DEF BuiltReplies
<1>5. Once(x \o y, "publish", req)
  BY <1>2, <1>3 DEF Adds, Kinds
<1>6. \A type \in Kinds : \A g \in Files :
        Has(x \o y, type, g) => \/ type = "open" /\ g = pro
                                \/ type = "publish" /\ g = req /\ given # {}
  BY <1>2, <1>3 DEF Adds
<1> QED BY <1>3, <1>4, <1>5, <1>6

(* The server asks for the provide port file and publishes the require     *)
(* port file of a node that it has built, for the first time.              *)
LEMMA BuiltProtocol ==
  ASSUME SessionInv, ProtocolInv, PortDataFits, ReceivesWrite(Server, "definition"),
         NEW f, f = Incoming(Server).file,
         NEW asked, asked = PublishedProvideFile(f.node),
         NEW given, given = {Require(f.node)} \cap FilesOf(Server),
         state' = [state EXCEPT ![Server] = BuiltStates(f, asked, given)],
         open' = Opened(Server, asked),
         local' = [local EXCEPT ![Server] = @ \cup given],
         Answer(Server, BuiltReplies(f, asked, given)),
         UNCHANGED <<size, accepted, remote, known, data, copy, work, error, writes, overtaken>>
  PROVE  ProtocolInv'
<1>1. /\ channel[Other(Server)] # <<>> /\ Other(Server) = Client
      /\ f \in Files /\ f.kind = "definition" /\ f \in remote[Server]
      /\ Is(Incoming(Server), "write", f) /\ Once(channel[Client], "write", f)
      /\ ~Has(channel[Server], "open", f) /\ ~InHand(Client, f)
      /\ \A g \in local[Server] : g.node # f.node
  BY ArrivingDefinition
<1>2. PICK pro \in Files, req \in Files : /\ pro = Provide(f.node) /\ req = Require(f.node)
                                          /\ pro.kind = "provide" /\ req.kind = "require"
                                          /\ pro.node = f.node /\ req.node = f.node
  <2>1. f.node \in Nodes
    BY <1>1, KindLemma
  <2>2. Provide(f.node) \in Files /\ Require(f.node) \in Files
    BY <2>1 DEF Files, Provide, Require
  <2>3. /\ Provide(f.node).kind = "provide" /\ Provide(f.node).node = f.node
        /\ Require(f.node).kind = "require" /\ Require(f.node).node = f.node
    BY DEF Provide, Require
  <2> QED BY <2>2, <2>3
<1>3. /\ asked = {pro} \cap remote[Server] /\ given = {req} \cap FilesOf(Server)
      /\ local[Client] # {}
  <2>1. remote[Server] \subseteq FilesOf(Client) /\ remote[Server] \subseteq local[Client]
    BY OtherSide DEF SessionInv, MapsAgree
  <2> QED BY <1>1, <1>2, <2>1 DEF PublishedProvideFile
<1>4. /\ state'[Client] = state[Client]
      /\ state'[Server][f] = "CONNECTED"
      /\ pro \in remote[Server] => state'[Server][pro] = "WAITING_FOR_FILE_DATA"
      /\ req \in given => state'[Server][req] = "WAITING_FOR_FILE_OPEN_REQUEST"
      /\ \A g \in Files : g \notin {f, pro} \cup given => state'[Server][g] = state[Server][g]
  BY <1>1, <1>2, <1>3, OtherSide DEF SessionInv, TypeOK, BuiltStates
<1>5. /\ open'[Server] = open[Server] \cup asked /\ open'[Client] = open[Client]
      /\ local'[Server] = local[Server] \cup given /\ local'[Client] = local[Client]
  BY OtherSide DEF SessionInv, TypeOK, Opened
<1>6. PICK ms \in Seq(Messages) :
        /\ Answer(Server, ms)
        /\ \A type \in Kinds : \A g \in Files :
             Has(ms, type, g) => \/ type = "open" /\ g = pro
                                 \/ type = "publish" /\ g = req /\ given # {}
        /\ Once(ms, "publish", req)
  BY <1>2, RepliesLemma
<1>7. /\ Fewer(channel[Client], channel'[Client]) /\ Adds(channel[Server], ms, channel'[Server])
      /\ ~Has(channel'[Client], "write", f)
      /\ InOrder(channel'[Client])
  BY <1>1, <1>6, AnswerTokens, AnswerOrder, OtherSide
     DEF SessionInv, ProtocolInv, PublishedOnce, Kinds
<1>8. \A g \in Files :
        /\ \A type \in {"publish", "open"} :
             /\ Has(channel'[Client], type, g) => Has(channel[Client], type, g)
             /\ Once(channel[Client], type, g) => Once(channel'[Client], type, g)
        /\ g.kind = "definition" =>
             /\ Has(channel'[Client], "write", g) => Has(channel[Client], "write", g)
             /\ Once(channel[Client], "write", g) => Once(channel'[Client], "write", g)
  BY <1>7 DEF Fewer, Counted, Kinds
<1>9. \A g \in Files :
        /\ g # pro => /\ Has(channel'[Server], "open", g) => Has(channel[Server], "open", g)
                      /\ Once(channel[Server], "open", g) => Once(channel'[Server], "open", g)
        /\ ~(g = req /\ given # {}) =>
             /\ Has(channel'[Server], "publish", g) => Has(channel[Server], "publish", g)
             /\ Once(channel[Server], "publish", g) => Once(channel'[Server], "publish", g)
  BY <1>6, <1>7 DEF Adds, Kinds
<1>10. ~Has(channel[Server], "publish", req) => Once(channel'[Server], "publish", req)
  BY <1>2, <1>6, <1>7 DEF Adds, Kinds
<1>11. HandsFull' /\ KnownPublished' /\ NoProtocolError'
  BY <1>5 DEF ProtocolInv, HandsFull, KnownPublished, NoProtocolError, Sides
<1>12. PublishedOnce'
  BY <1>7, <1>8 DEF ProtocolInv, PublishedOnce
<1>13. DefinitionsOnce'
  <2> SUFFICES ASSUME NEW g \in Files, g.kind = "definition"
               PROVE  DefinitionOnce(g)'
    BY DEF DefinitionsOnce
  <2>1. CASE g = f
    BY <1>1, <1>2, <1>7, <1>8, <1>9, <2>1
       DEF ProtocolInv, DefinitionsOnce, DefinitionOnce, InHand
  <2>2. CASE g # f
    <3>1. state'[Server][g] = state[Server][g]
      BY <1>2, <1>3, <1>4, <2>2
    <3> QED BY <1>2, <1>8, <1>9, <3>1 DEF ProtocolInv, DefinitionsOnce, DefinitionOnce, InHand
  <2> QED BY <2>1, <2>2
<1>14. /\ req \notin local[Server] /\ ~Has(channel[Server], "publish", req)
       /\ ~Has(channel[Client], "open", req) /\ ~Connecting(req)
  BY <1>1, <1>2, TokensKnown
<1>15. RequiresOnce'
  <2> SUFFICES ASSUME NEW g \in Files, g.kind = "require"
               PROVE  RequireOnce(g)'
    BY DEF RequiresOnce
  <2>1. CASE g = req /\ given # {}
    <3>1. /\ state[Client][req] = "WAITING_FILE_INFO"
          /\ state'[Server][req] = "WAITING_FOR_FILE_OPEN_REQUEST"
      BY <1>3, <1>4, <1>14, <2>1 DEF ProtocolInv, BuiltOnce
    <3> QED BY <1>2, <1>4, <1>8, <1>10, <1>14, <2>1, <3>1
            DEF ProtocolInv, RequiresOnce, RequireOnce, Connecting
  <2>2. CASE ~(g = req /\ given # {})
    <3>1. state'[Server][g] = state[Server][g]
      BY <1>1, <1>2, <1>3, <1>4, <2>2
    <3> QED BY <1>4, <1>8, <1>9, <2>2, <3>1
            DEF ProtocolInv, RequiresOnce, RequireOnce, Connecting
  <2> QED BY <2>1, <2>2
<1>16. BuiltOnce'
  <2>1. \A g \in FilesOf(Server) \ local'[Server] :
          local'[Client] # {} => state'[Client][g] = "WAITING_FILE_INFO"
    <3>1. \A g \in FilesOf(Server) \ local[Server] : state[Client][g] = "WAITING_FILE_INFO"
      BY <1>3 DEF ProtocolInv, BuiltOnce
    <3> QED BY <1>4, <1>5, <3>1
  <2>2. ASSUME NEW g \in local'[Server], NEW d \in Files, d.kind = "definition", d.node = g.node
        PROVE  d \in remote[Server] /\ state'[Server][d] = "CONNECTED"
    <3>1. CASE g \in local[Server]
      <4>1. d # f /\ d \in remote[Server] /\ state[Server][d] = "CONNECTED"
        BY <1>1, <2>2, <3>1 DEF ProtocolInv, BuiltOnce
      <4>2. d \notin {f, pro} \cup given
        BY <1>2, <1>3, <2>2, <4>1
      <4> QED BY <1>4, <4>1, <4>2
    <3>2. CASE g \in given
      <4>1. d = f
        BY <1>1, <1>2, <1>3, <2>2, <3>2, KindLemma
      <4> QED BY <1>1, <1>4, <4>1
    <3> QED BY <1>5, <3>1, <3>2
  <2> QED BY <2>1, <2>2 DEF BuiltOnce
<1>17. ProvidesOpened'
  <2> SUFFICES ASSUME NEW g \in open'[Server], g.kind = "provide"
               PROVE  g \in remote[Server] /\ state'[Server][g] \in Receivable
    BY DEF ProvidesOpened
  <2>1. g \in Files /\ g \in remote[Server]
    BY <1>3, <1>5, OtherSide DEF ProtocolInv, ProvidesOpened, SessionInv, TypeOK
  <2>2. CASE g = pro
    BY <1>4, <2>1, <2>2 DEF Receivable
  <2>3. CASE g # pro
    BY <1>1, <1>2, <1>3, <1>4, <1>5, <2>1, <2>3 DEF ProtocolInv, ProvidesOpened
  <2> QED BY <2>2, <2>3
<1> QED BY <1>11, <1>12, <1>13, <1>15, <1>16, <1>17 DEF ProtocolInv

(* A definition has been received.                                         *)
LEMMA DefinitionWrittenProtocol ==
  ASSUME SessionInv, ProtocolInv, PortDataFits, DefinitionWritten
  PROVE  ProtocolInv'
<1>1. PICK f : f = Incoming(Server).file
  OBVIOUS
<1>2. PICK asked, given : /\ asked = PublishedProvideFile(f.node)
                          /\ given = {Require(f.node)} \cap FilesOf(Server)
  OBVIOUS
<1>3. /\ ReceivesWrite(Server, "definition")
      /\ UNCHANGED <<size, accepted, remote, data, copy, work, writes, overtaken>>
  BY DEF DefinitionWritten
<1>4. CASE /\ f.node \in Fragile /\ known' = known \ {f.node}
           /\ state' = [state EXCEPT ![Server][f] = "CONNECTED"]
           /\ Refuse(Server, "PARSE") /\ UNCHANGED <<open, local>>
  BY <1>1, <1>3, <1>4, NotBuiltProtocol
<1>5. CASE /\ state' = [state EXCEPT ![Server] = BuiltStates(f, asked, given)]
           /\ open' = Opened(Server, asked)
           /\ local' = [local EXCEPT ![Server] = @ \cup given]
           /\ Answer(Server, BuiltReplies(f, asked, given))
           /\ UNCHANGED <<known, error>>
  BY <1>1, <1>2, <1>3, <1>5, BuiltProtocol
<1> QED BY <1>1, <1>2, <1>4, <1>5 DEF DefinitionWritten, BuiltStates, BuiltReplies

-----------------------------------------------------------------------------
(* Every step preserves the invariant.                                     *)
LEMMA NextProtocol ==
  ASSUME SessionInv, ProtocolInv, PortDataFits, [Next]_vars
  PROVE  ProtocolInv'
<1>1. CASE Connect
  BY <1>1, ConnectProtocol
<1>2. CASE \E s \in Sides : InputOutput(s)
  <2>1. PICK s \in Sides : InputOutput(s)
    BY <1>2
  <2>2. CASE Handshake(s)
    BY <2>2, GreetedProtocol, AcknowledgedProtocol DEF Sides
  <2>3. CASE OpenRequested(s)
    BY <2>3, OpenRequestedProtocol
  <2>4. CASE TakeSnapshot(s)
    BY <2>4, TakeSnapshotProtocol
  <2>5. CASE WriteStopped(s)
    BY <2>5, WriteStoppedProtocol
  <2>6. CASE ServerLearnsFile
    BY <2>6, DataFileProtocol, NewNodeProtocol
  <2>7. CASE DefinitionWritten
    BY <2>7, DefinitionWrittenProtocol
  <2>8. CASE ProvideWritten
    BY <2>8, ProvideWrittenProtocol
  <2>9. CASE ClientLearnsFile
    BY <2>9, ClientLearnsProtocol
  <2>10. CASE RequireWritten
    BY <2>10, RequireWrittenProtocol
  <2> QED BY <2>1, <2>2, <2>3, <2>4, <2>5, <2>6, <2>7, <2>8, <2>9, <2>10 DEF InputOutput
<1>3. CASE \E t \in Threads : Queue(t)
  BY <1>3, QueueProtocol
<1>4. CASE \E t \in Writers : WritePort(t)
  BY <1>4, WritePortProtocol
<1>5. CASE UNCHANGED vars
  BY <1>5 DEF vars, ProtocolInv, HandsFull, KnownPublished, PublishedOnce, DefinitionsOnce,
              DefinitionOnce, RequiresOnce, RequireOnce, BuiltOnce, ProvidesOpened,
              NoProtocolError, InHand, Connecting
<1> QED BY <1>1, <1>2, <1>3, <1>4, <1>5 DEF Next

(* The protocol asks for everything once, in every behaviour.              *)
THEOREM ProtocolInvariant ==
  ASSUME PortDataFits
  PROVE  Spec => []ProtocolInv
<1>1. SessionInv /\ ProtocolInv /\ [Next]_vars => ProtocolInv'
  BY NextProtocol
<1> QED BY <1>1, InitProtocol, SessionInvariant, PTL DEF Spec

(* Neither side ever receives something the protocol does not let it       *)
(* expect: no assertion, no unknown file, no node that exists already and  *)
(* no data out of turn ends a connection (process_message and every        *)
(* handler below it).  Only a node that cannot be built or connected, or a *)
(* definition larger than the reception buffer does.                       *)
THEOREM NothingUnexpected ==
  ASSUME PortDataFits
  PROVE  Spec => []NoProtocolError
<1>1. ProtocolInv => NoProtocolError
  BY DEF ProtocolInv
<1> QED BY <1>1, ProtocolInvariant, PTL

-----------------------------------------------------------------------------
(* What the writes on their way leave in a port.                           *)

(* The message m writes port p of f.                                       *)
Carries(m, f, p) == m.type = "write" /\ m.file = f /\ p \in DOMAIN m.value

(* Port p, now c, will be x when the first i messages of q have arrived.   *)
EndsAt(q, i, f, p, c, x) ==
  \/ c = x /\ \A j \in 1..i : ~Carries(q[j], f, p)
  \/ \E j \in 1..i : /\ Carries(q[j], f, p) /\ q[j].value[p] = x
                     /\ \A k \in 1..i : k > j => ~Carries(q[k], f, p)

Ends(q, f, p, c, x) == EndsAt(q, Len(q), f, p, c, x)

(* The first message arrives.                                              *)
LEMMA TailEnds ==
  ASSUME NEW q \in Seq(Messages), q # <<>>, NEW f, NEW p, NEW c, NEW x, Ends(q, f, p, c, x)
  PROVE  Ends(Tail(q), f, p, IF Carries(Head(q), f, p) THEN Head(q).value[p] ELSE c, x)
<1>1. PICK n \in Nat : n = Len(q) /\ n > 0 /\ Len(Tail(q)) = n - 1 /\ Head(q) = q[1]
  OBVIOUS
<1>2. \A j \in 1..(n - 1) : Tail(q)[j] = q[j + 1] /\ j + 1 \in 1..n
  BY <1>1
<1>3. CASE c = x /\ \A j \in 1..n : ~Carries(q[j], f, p)
  BY <1>1, <1>2, <1>3 DEF Ends, EndsAt
<1>4. CASE \E j \in 1..n : /\ Carries(q[j], f, p) /\ q[j].value[p] = x
                           /\ \A k \in 1..n : k > j => ~Carries(q[k], f, p)
  <2>1. PICK j \in 1..n : /\ Carries(q[j], f, p) /\ q[j].value[p] = x
                          /\ \A k \in 1..n : k > j => ~Carries(q[k], f, p)
    BY <1>4
  <2>2. CASE j = 1
    <3>1. \A k \in 1..(n - 1) : ~Carries(Tail(q)[k], f, p)
      BY <1>1, <1>2, <2>1, <2>2
    <3> QED BY <1>1, <2>1, <2>2, <3>1 DEF Ends, EndsAt
  <2>3. CASE j > 1
    <3>1. j - 1 \in 1..(n - 1) /\ Tail(q)[j - 1] = q[j]
      BY <1>1, <1>2, <2>1, <2>3
    <3>2. \A k \in 1..(n - 1) : k > j - 1 => ~Carries(Tail(q)[k], f, p)
      BY <1>1, <1>2, <2>1, <2>3
    <3> QED BY <1>1, <2>1, <3>1, <3>2 DEF Ends, EndsAt
  <2> QED BY <1>1, <2>1, <2>2, <2>3
<1> QED BY <1>1, <1>3, <1>4 DEF Ends, EndsAt

(* Messages that do not write the port are added.                          *)
LEMMA ConcatEnds ==
  ASSUME NEW q \in Seq(Messages), NEW ms \in Seq(Messages), NEW f, NEW p, NEW c, NEW x,
         \A i \in DOMAIN ms : ~Carries(ms[i], f, p), Ends(q, f, p, c, x)
  PROVE  Ends(q \o ms, f, p, c, x)
<1>1. PICK n \in Nat, m \in Nat : n = Len(q) /\ m = Len(ms) /\ Len(q \o ms) = n + m
  OBVIOUS
<1>2. /\ \A i \in 1..n : (q \o ms)[i] = q[i] /\ i \in 1..(n + m)
      /\ \A i \in 1..(n + m) : i > n => ~Carries((q \o ms)[i], f, p)
  <2>1. \A i \in 1..(n + m) : i > n => i - n \in DOMAIN ms /\ (q \o ms)[i] = ms[i - n]
    BY <1>1
  <2> QED BY <1>1, <2>1
<1>3. \A i \in 1..(n + m) : i > n \/ i \in 1..n
  BY <1>1
<1>4. CASE c = x /\ \A j \in 1..n : ~Carries(q[j], f, p)
  BY <1>1, <1>2, <1>3, <1>4 DEF Ends, EndsAt
<1>5. CASE \E j \in 1..n : /\ Carries(q[j], f, p) /\ q[j].value[p] = x
                           /\ \A k \in 1..n : k > j => ~Carries(q[k], f, p)
  <2>1. PICK j \in 1..n : /\ Carries(q[j], f, p) /\ q[j].value[p] = x
                          /\ \A k \in 1..n : k > j => ~Carries(q[k], f, p)
    BY <1>5
  <2>2. /\ j \in 1..(n + m) /\ Carries((q \o ms)[j], f, p) /\ (q \o ms)[j].value[p] = x
        /\ \A k \in 1..(n + m) : k > j => ~Carries((q \o ms)[k], f, p)
    BY <1>2, <1>3, <2>1
  <2> QED BY <1>1, <2>2 DEF Ends, EndsAt
<1> QED BY <1>1, <1>4, <1>5 DEF Ends, EndsAt

(* A write of the port is added.                                           *)
LEMMA AppendEnds ==
  ASSUME NEW q \in Seq(Messages), NEW m \in Messages, NEW f, NEW p, NEW c,
         Carries(m, f, p)
  PROVE  Ends(Append(q, m), f, p, c, m.value[p])
<1>1. /\ Len(Append(q, m)) = Len(q) + 1 /\ Len(q) \in Nat
      /\ Append(q, m)[Len(q) + 1] = m
  OBVIOUS
<1> QED BY <1>1 DEF Ends, EndsAt

-----------------------------------------------------------------------------
(* What has arrived is what the writes leave in each port.                 *)

(* The port data x after message i of q.                                   *)
AfterWrite(q, f, i, x) ==
  IF q[i].type = "write" /\ q[i].file = f THEN Written(x, q[i].value) ELSE x

(* Each port has one value after any number of messages.                   *)
EndsUniquely(q, f, p, c) ==
  /\ \A i \in 0..Len(q) : \E x : EndsAt(q, i, f, p, c, x)
  /\ \A i \in 0..Len(q) : \A x, y :
       EndsAt(q, i, f, p, c, x) /\ EndsAt(q, i, f, p, c, y) => x = y
  /\ \A x : EndsAt(q, 0, f, p, c, x) <=> x = c
  /\ \A i \in 1..Len(q) : Carries(q[i], f, p) => EndsAt(q, i, f, p, c, q[i].value[p])
  /\ \A i \in 1..Len(q) : \A x : ~Carries(q[i], f, p) =>
       (EndsAt(q, i - 1, f, p, c, x) => EndsAt(q, i, f, p, c, x))

LEMMA EndsOnce ==
  ASSUME NEW q \in Seq(Messages), NEW f, NEW p, NEW c
  PROVE  EndsUniquely(q, f, p, c)
<1>1. \A x : EndsAt(q, 0, f, p, c, x) <=> x = c
  BY DEF EndsAt
<1>2. \A i \in 1..Len(q) : Carries(q[i], f, p) => EndsAt(q, i, f, p, c, q[i].value[p])
  BY DEF EndsAt
<1>3. ASSUME NEW i \in 1..Len(q), NEW x, ~Carries(q[i], f, p), EndsAt(q, i - 1, f, p, c, x)
      PROVE  EndsAt(q, i, f, p, c, x)
  <2>1. \A j \in 1..i : j = i \/ j \in 1..(i - 1)
    BY <1>3
  <2>2. \A j \in 1..(i - 1) : j \in 1..i
    BY <1>3
  <2> QED BY <1>3, <2>1, <2>2 DEF EndsAt
<1>4. \A i \in 0..Len(q) : \E x : EndsAt(q, i, f, p, c, x)
  <2> DEFINE T == {i \in 0..Len(q) : ~\E x : EndsAt(q, i, f, p, c, x)}
  <2>1. SUFFICES ASSUME T # {} PROVE FALSE
    OBVIOUS
  <2>2. PICK i \in T : \A j \in T : ~(j < i)
    <3>1. T \subseteq Nat
      OBVIOUS
    <3> HIDE DEF T
    <3> QED BY <2>1, <3>1, LeastExists
  <2>3. i \in 1..Len(q) /\ i - 1 \in 0..Len(q) /\ i - 1 < i
    BY <1>1, <2>2
  <2>4. \E x : EndsAt(q, i - 1, f, p, c, x)
    BY <2>2, <2>3
  <2>5. \E x : EndsAt(q, i, f, p, c, x)
    BY <1>2, <1>3, <2>3, <2>4
  <2> QED BY <2>2, <2>5
<1>5. ASSUME NEW i \in 0..Len(q), NEW x, NEW y,
             EndsAt(q, i, f, p, c, x), EndsAt(q, i, f, p, c, y)
      PROVE  x = y
  BY <1>5 DEF EndsAt
<1> QED BY <1>1, <1>2, <1>3, <1>4, <1>5 DEF EndsUniquely

(* What Arrived computes, told by the ports: it is the data x when every   *)
(* port of f ends as x has it.                                             *)
LEMMA ArrivedEnds ==
  ASSUME NEW s \in Sides, channel[s] \in Seq(Messages), NEW f \in Files,
         NEW c \in [PortsIn(f) -> Values], NEW x \in [PortsIn(f) -> Values],
         \A p \in PortsIn(f) : Ends(channel[s], f, p, c[p], x[p])
  PROVE  Arrived(c, s, f) = x
<1>1. PICK q \in Seq(Messages) : q = channel[s]
  OBVIOUS
<1>2. PICK n \in Nat : n = Len(q)
  OBVIOUS
<1> DEFINE value(i, p) == CHOOSE y : EndsAt(q, i, f, p, c[p], y)
           g == [i \in 0..n |-> [p \in PortsIn(f) |-> value(i, p)]]
<1> HIDE DEF value, g
<1>3. \A p \in PortsIn(f) : EndsUniquely(q, f, p, c[p])
  <2>1. ASSUME NEW p \in PortsIn(f), NEW d, d = c[p]
        PROVE  EndsUniquely(q, f, p, d)
    BY EndsOnce
  <2> QED BY <2>1
<1>4. \A i \in 0..n : \A p \in PortsIn(f) : \A y :
        EndsAt(q, i, f, p, c[p], y) <=> value(i, p) = y
  <2>1. ASSUME NEW i \in 0..n, NEW p \in PortsIn(f), NEW y
        PROVE  EndsAt(q, i, f, p, c[p], y) <=> value(i, p) = y
    <3>1. PICK z : EndsAt(q, i, f, p, c[p], z)
      BY <1>2, <1>3 DEF EndsUniquely
    <3>2. EndsAt(q, i, f, p, c[p], value(i, p))
      BY <3>1 DEF value
    <3>3. EndsAt(q, i, f, p, c[p], y) => value(i, p) = y
      BY <1>2, <1>3, <3>2 DEF EndsUniquely
    <3>4. ASSUME value(i, p) = y
          PROVE  EndsAt(q, i, f, p, c[p], y)
      BY <3>2, <3>4
    <3> QED BY <3>3, <3>4
  <2> QED BY <2>1
<1>5. \A p \in PortsIn(f) : value(0, p) = c[p]
  <2>1. \A p \in PortsIn(f) : EndsAt(q, 0, f, p, c[p], c[p])
    BY <1>2, <1>3 DEF EndsUniquely
  <2> QED BY <1>2, <1>4, <2>1
<1>6. ASSUME NEW i \in 1..n
      PROVE  g[i] = AfterWrite(q, f, i, g[i - 1])
  <2>1. i \in 0..n /\ i - 1 \in 0..n /\ i \in 1..Len(q)
    BY <1>2
  <2>2. /\ g[i] = [p \in PortsIn(f) |-> value(i, p)]
        /\ g[i - 1] = [p \in PortsIn(f) |-> value(i - 1, p)]
    BY <2>1 DEF g
  <2>3. ASSUME NEW p \in PortsIn(f)
        PROVE  value(i, p) = IF Carries(q[i], f, p) THEN q[i].value[p] ELSE value(i - 1, p)
    <3>1. CASE Carries(q[i], f, p)
      BY <1>2, <1>3, <1>4, <2>1, <3>1 DEF EndsUniquely
    <3>2. CASE ~Carries(q[i], f, p)
      <4>1. EndsAt(q, i - 1, f, p, c[p], value(i - 1, p))
        BY <1>4, <2>1
      <4>2. EndsAt(q, i, f, p, c[p], value(i - 1, p))
        BY <1>2, <1>3, <2>1, <3>2, <4>1 DEF EndsUniquely
      <4> QED BY <1>4, <2>1, <3>2, <4>2
    <3> QED BY <3>1, <3>2
  <2>4. CASE q[i].type = "write" /\ q[i].file = f
    <3>1. \A p \in PortsIn(f) : Carries(q[i], f, p) <=> p \in DOMAIN q[i].value
      BY <2>4 DEF Carries
    <3>2. AfterWrite(q, f, i, g[i - 1]) = Written(g[i - 1], q[i].value)
      BY <2>4 DEF AfterWrite
    <3>3. Written(g[i - 1], q[i].value)
            = [p \in PortsIn(f) |-> IF p \in DOMAIN q[i].value THEN q[i].value[p]
                                                               ELSE value(i - 1, p)]
      BY <2>2 DEF Written
    <3> QED BY <2>2, <2>3, <3>1, <3>2, <3>3
  <2>5. CASE ~(q[i].type = "write" /\ q[i].file = f)
    <3>1. \A p \in PortsIn(f) : ~Carries(q[i], f, p)
      BY <2>5 DEF Carries
    <3>2. AfterWrite(q, f, i, g[i - 1]) = g[i - 1]
      BY <2>5 DEF AfterWrite
    <3> QED BY <2>2, <2>3, <3>1, <3>2
  <2> QED BY <2>4, <2>5
<1>7. g[0] = c /\ g[n] = x
  <2>1. g[0] = [p \in PortsIn(f) |-> value(0, p)] /\ g[n] = [p \in PortsIn(f) |-> value(n, p)]
    BY <1>2 DEF g
  <2>2. \A p \in PortsIn(f) : value(n, p) = x[p]
    BY <1>1, <1>2, <1>4 DEF Ends
  <2> QED BY <1>5, <2>1, <2>2
<1>8. g = [i \in 0..n |-> IF i = 0 THEN c ELSE AfterWrite(q, f, i, g[i - 1])]
  <2>1. g = [i \in 0..n |-> g[i]]
    BY DEF g
  <2>2. \A i \in 0..n : g[i] = IF i = 0 THEN c ELSE AfterWrite(q, f, i, g[i - 1])
    BY <1>6, <1>7
  <2> QED BY <2>1, <2>2
<1>9. PICK after :
        /\ after = [i \in 0..n |-> IF i = 0 THEN c ELSE AfterWrite(q, f, i, after[i - 1])]
        /\ Arrived(c, s, f) = after[n]
  BY <1>1, <1>2, <1>8 DEF Arrived, AfterWrite
<1>10. \A i \in 0..n : after[i] = g[i]
  <2> DEFINE T == {i \in 0..n : after[i] # g[i]}
  <2>1. SUFFICES ASSUME T # {} PROVE FALSE
    OBVIOUS
  <2>2. PICK i \in T : \A j \in T : ~(j < i)
    <3>1. T \subseteq Nat
      OBVIOUS
    <3> HIDE DEF T
    <3> QED BY <2>1, <3>1, LeastExists
  <2>3. i \in 1..n /\ i - 1 \in 0..n /\ i - 1 < i
    BY <1>7, <1>9, <2>2
  <2>4. after[i - 1] = g[i - 1]
    BY <2>2, <2>3
  <2> QED BY <1>6, <1>9, <2>2, <2>3, <2>4
<1> QED BY <1>7, <1>9, <1>10

-----------------------------------------------------------------------------
(* Where the newest value of a port is.                                    *)

(* Thread t has a value of port p of f in hand.                            *)
Holds(t, f, p) == work[t].step = "queue" /\ work[t].file = f /\ p \in DOMAIN work[t].value

(* A thread is about to send the newest value of p, or to take a snapshot. *)
ToBeSent(f, p) ==
  \E t \in Threads : \/ work[t].step = "opened" /\ work[t].file = f
                     \/ Holds(t, f, p) /\ work[t].value[p] = data[f][p]

(* The newest value of p will be the last to arrive, and no thread has an  *)
(* older one in hand.                                                      *)
OnItsWay(f, p) ==
  /\ Ends(channel[Owner(f)], f, p, copy[f][p], data[f][p])
  /\ \A t \in Threads : Holds(t, f, p) => work[t].value[p] = data[f][p]

(* The ports of f could not be connected, or are not yet.                  *)
NotConnected(f) == f.kind = "require" /\ state[Server][f] # "CONNECTED"

Safe(f, p) == ToBeSent(f, p) \/ OnItsWay(f, p) \/ NotConnected(f)

DeliveryInv ==
  \A f \in Files : f \in open[Owner(f)] \ overtaken => \A p \in PortsIn(f) : Safe(f, p)

(* What a port ends as does not change when a message is taken from the    *)
(* channel, its write done, and messages that write nothing are added.     *)
LEMMA AnswerEnds ==
  ASSUME TypeOK, NEW s \in Sides, NEW ms \in Seq(Messages), channel[Other(s)] # <<>>,
         Answer(s, ms), \A g \in Files : ~Has(ms, "write", g),
         NEW f \in Files, NEW p \in PortsIn(f), NEW x,
         copy'[f][p] = IF Owner(f) = Other(s) /\ Carries(Incoming(s), f, p)
                       THEN Incoming(s).value[p] ELSE copy[f][p],
         Ends(channel[Owner(f)], f, p, copy[f][p], x)
  PROVE  Ends(channel'[Owner(f)], f, p, copy'[f][p], x)
<1>1. /\ channel[s] \in Seq(Messages) /\ channel[Other(s)] \in Seq(Messages)
      /\ channel'[s] = channel[s] \o ms
      /\ channel'[Other(s)] = Tail(channel[Other(s)])
  BY OtherSide DEF TypeOK, Answer
<1>2. PICK c : c = copy[f][p]
  OBVIOUS
<1>3. CASE Owner(f) = Other(s)
  <2>1. PICK q \in Seq(Messages) : q = channel[Other(s)]
    BY <1>1
  <2>2. Ends(Tail(q), f, p, IF Carries(Head(q), f, p) THEN Head(q).value[p] ELSE c, x)
    BY <1>2, <1>3, <2>1, TailEnds
  <2>3. copy'[f][p] = IF Carries(Head(q), f, p) THEN Head(q).value[p] ELSE c
    BY <1>2, <1>3, <2>1 DEF Incoming
  <2> QED BY <1>1, <1>3, <2>1, <2>2, <2>3
<1>4. CASE Owner(f) = s
  <2>1. PICK q \in Seq(Messages) : q = channel[s]
    BY <1>1
  <2>2. \A i \in DOMAIN ms : ~Carries(ms[i], f, p)
    BY DEF Has, Is, Carries
  <2>3. Ends(q \o ms, f, p, c, x)
    BY <1>2, <1>4, <2>1, <2>2, ConcatEnds
  <2>4. copy'[f][p] = c
    BY <1>2, <1>4, OtherSide
  <2> QED BY <1>1, <1>4, <2>1, <2>3, <2>4
<1> QED BY <1>3, <1>4, OtherSide

(* A handler keeps what is safe so, and opens files only to send them.     *)
LEMMA AnswerDelivery ==
  ASSUME TypeOK, DeliveryInv, NEW s \in Sides, NEW ms \in Seq(Messages),
         channel[Other(s)] # <<>>, Answer(s, ms), \A g \in Files : ~Has(ms, "write", g),
         UNCHANGED <<data, overtaken>>,
         \A f \in Files : f \in open'[Owner(f)] =>
           f \in open[Owner(f)] \/ \A p \in PortsIn(f) : ToBeSent(f, p)',
         \A f \in Files : \A p \in PortsIn(f) :
           /\ ToBeSent(f, p) => ToBeSent(f, p)'
           /\ \A t \in Threads : Holds(t, f, p)' => work'[t] = work[t],
         \A f \in Files : NotConnected(f) => NotConnected(f)',
         \A f \in Files : \A p \in PortsIn(f) :
           copy'[f][p] = IF Owner(f) = Other(s) /\ Carries(Incoming(s), f, p)
                         THEN Incoming(s).value[p] ELSE copy[f][p]
  PROVE  DeliveryInv'
<1> SUFFICES ASSUME NEW f \in Files, f \in open'[Owner(f)] \ overtaken', NEW p \in PortsIn(f)
             PROVE  Safe(f, p)'
  BY DEF DeliveryInv, PortsIn, Owner
<1>1. CASE f \notin open[Owner(f)]
  BY <1>1 DEF Safe
<1>2. CASE f \in open[Owner(f)]
  <2>1. Safe(f, p)
    BY <1>2 DEF DeliveryInv
  <2>2. ASSUME OnItsWay(f, p)
        PROVE  OnItsWay(f, p)'
    <3>1. Ends(channel[Owner(f)], f, p, copy[f][p], data[f][p])
      BY <2>2 DEF OnItsWay
    <3>2. Ends(channel'[Owner(f)], f, p, copy'[f][p], data[f][p])
      BY <3>1, AnswerEnds
    <3>3. \A t \in Threads : Holds(t, f, p)' => Holds(t, f, p) /\ work'[t] = work[t]
      BY DEF Holds
    <3> QED BY <2>2, <3>2, <3>3 DEF OnItsWay
  <2> QED BY <2>1, <2>2 DEF Safe
<1> QED BY <1>1, <1>2

(* A handler that writes no port data and takes nothing in hand.           *)
LEMMA QuietDelivery ==
  ASSUME TypeOK, DeliveryInv, NEW s \in Sides, NEW ms \in Seq(Messages),
         channel[Other(s)] # <<>>, Answer(s, ms), \A g \in Files : ~Has(ms, "write", g),
         Incoming(s).type = "write" => Incoming(s).file.kind = "definition",
         UNCHANGED <<data, copy, work, overtaken>>,
         \A f \in Files : f \in open'[Owner(f)] => f \in open[Owner(f)],
         \A f \in Files : NotConnected(f) => NotConnected(f)'
  PROVE  DeliveryInv'
<1>1. \A f \in Files : \A p \in PortsIn(f) : ~Carries(Incoming(s), f, p)
  BY DEF Carries, PortsIn
<1>2. \A f \in Files : \A p \in PortsIn(f) :
        copy'[f][p] = IF Owner(f) = Other(s) /\ Carries(Incoming(s), f, p)
                      THEN Incoming(s).value[p] ELSE copy[f][p]
  BY <1>1
<1>3. \A f \in Files : \A p \in PortsIn(f) :
        /\ ToBeSent(f, p) => ToBeSent(f, p)'
        /\ \A t \in Threads : Holds(t, f, p)' => work'[t] = work[t]
  BY DEF ToBeSent, Holds
<1> QED BY <1>2, <1>3, AnswerDelivery

(* Nothing is open yet when the client connects, but files of the server.  *)
LEMMA ConnectDelivery ==
  ASSUME SessionInv, DeliveryInv, Connect
  PROVE  DeliveryInv'
<1> SUFFICES ASSUME NEW f \in Files, f \in open'[Owner(f)] \ overtaken', NEW p \in PortsIn(f)
             PROVE  Safe(f, p)'
  BY DEF DeliveryInv, PortsIn, Owner
<1>1. /\ channel'[Server] = channel[Server] /\ state'[Server] = state[Server]
      /\ local[Client] = {} /\ UNCHANGED <<open, data, copy, work, overtaken>>
  BY OtherSide DEF SessionInv, TypeOK, Connect
<1>2. Owner(f) = Server
  <2>1. f \in local[Owner(f)]
    BY <1>1, OtherSide DEF SessionInv, MapsAgree
  <2> QED BY <1>1, <2>1, OtherSide
<1>3. Safe(f, p)
  BY <1>1 DEF DeliveryInv
<1> QED BY <1>1, <1>2, <1>3 DEF Safe, ToBeSent, OnItsWay, NotConnected, Holds

(* The handshake sends no data.                                            *)
LEMMA HandshakeDelivery ==
  ASSUME SessionInv, DeliveryInv, NEW s \in Sides, Handshake(s)
  PROVE  DeliveryInv'
<1>1. /\ channel[Other(s)] # <<>> /\ Incoming(s).type # "write"
      /\ UNCHANGED <<open, state, data, copy, work, overtaken>>
  BY DEF Handshake, Receives
<1>2. PICK ms \in Seq(Messages) : Answer(s, ms) /\ \A g \in Files : ~Has(ms, "write", g)
  <2>1. CASE s = Server
    <3>1. Answer(s, <<Acknowledge>>) /\ <<Acknowledge>> \in Seq(Messages)
      BY <2>1, MessageLemma DEF Handshake
    <3>2. \A g \in Files : ~Has(<<Acknowledge>>, "write", g)
      BY MessageLemma, ShortTokens DEF Kinds, Is, Acknowledge
    <3> QED BY <3>1, <3>2
  <2>2. CASE s = Client
    BY <2>2, PublishesLemma DEF Kinds
  <2> QED BY <2>1, <2>2 DEF Sides
<1>3. \A f \in Files : /\ f \in open'[Owner(f)] => f \in open[Owner(f)]
                       /\ NotConnected(f) => NotConnected(f)'
  BY <1>1 DEF NotConnected
<1> QED BY <1>1, <1>2, <1>3, QuietDelivery DEF SessionInv

(* An answer of one open request, or of none, writes nothing.              *)
LEMMA OpenAnswer ==
  ASSUME NEW s \in Sides, NEW f \in Files, Answer(s, <<Open(f)>>) \/ Answer(s, <<>>)
  PROVE  \E ms \in Seq(Messages) : Answer(s, ms) /\ \A g \in Files : ~Has(ms, "write", g)
<1>1. /\ <<Open(f)>> \in Seq(Messages) /\ <<>> \in Seq(Messages)
      /\ \A g \in Files : ~Has(<<Open(f)>>, "write", g) /\ ~Has(<<>>, "write", g)
  <2>1. Open(f) \in Messages
    BY MessageLemma
  <2> QED BY <2>1, ShortTokens DEF Kinds, Is, Open
<1> QED BY <1>1

(* The server opens the definition of a new node.                          *)
LEMMA ServerLearnsDelivery ==
  ASSUME SessionInv, ProtocolInv, DeliveryInv, ServerLearnsFile
  PROVE  DeliveryInv'
<1>1. PICK f : f = Incoming(Server).file
  OBVIOUS
<1>2. /\ channel[Other(Server)] # <<>> /\ f \in Files /\ f.node \notin known
      /\ Incoming(Server).type = "publish"
  BY <1>1, PublishedAnew DEF ServerLearnsFile, Receives
<1>3. /\ Answer(Server, <<Open(f)>>) \/ Answer(Server, <<>>)
      /\ \/ UNCHANGED <<open, state>>
         \/ /\ f.kind = "definition" /\ open' = Opened(Server, {f})
            /\ state' = [state EXCEPT ![Server][f] = "WAITING_FOR_FILE_DATA"]
      /\ UNCHANGED <<data, copy, work, overtaken>>
  BY <1>1, <1>2 DEF ServerLearnsFile
<1>4. PICK ms \in Seq(Messages) : Answer(Server, ms) /\ \A g \in Files : ~Has(ms, "write", g)
  BY <1>2, <1>3, OpenAnswer, OtherSide
<1>5. \A g \in Files : /\ g \in open'[Owner(g)] => g \in open[Owner(g)]
                       /\ NotConnected(g) => NotConnected(g)'
  BY <1>2, <1>3, KindLemma, OtherSide DEF SessionInv, TypeOK, Opened, NotConnected
<1> QED BY <1>2, <1>3, <1>4, <1>5, QuietDelivery, OtherSide DEF SessionInv

(* The client opens a file of the server.                                  *)
LEMMA ClientLearnsDelivery ==
  ASSUME SessionInv, DeliveryInv, ClientLearnsFile
  PROVE  DeliveryInv'
<1>1. PICK f : f = Incoming(Client).file
  OBVIOUS
<1>2. /\ channel[Other(Client)] # <<>> /\ f \in Files /\ Owner(f) = Server
      /\ Incoming(Client).type = "publish"
  <2>1. /\ Welcome(Server, Incoming(Client)) /\ Incoming(Client) \in Messages
        /\ Incoming(Client).type = "publish" /\ channel[Other(Client)] # <<>>
    BY IncomingLemma, OtherSide DEF ClientLearnsFile
  <2> QED BY <1>1, <2>1, MessageLemma DEF Welcome
<1>3. /\ Answer(Client, <<Open(f)>>) \/ Answer(Client, <<>>)
      /\ open' = open \/ open' = Opened(Client, {f})
      /\ state' = state \/ state' = [state EXCEPT ![Client][f] = "WAITING_FOR_FILE_DATA"]
      /\ UNCHANGED <<data, copy, work, overtaken>>
  BY <1>1 DEF ClientLearnsFile, Refuse
<1>4. PICK ms \in Seq(Messages) : Answer(Client, ms) /\ \A g \in Files : ~Has(ms, "write", g)
  BY <1>2, <1>3, OpenAnswer, OtherSide
<1>5. \A g \in Files : /\ g \in open'[Owner(g)] => g \in open[Owner(g)]
                       /\ NotConnected(g) => NotConnected(g)'
  <2>1. state'[Server] = state[Server]
    BY <1>3, OtherSide DEF SessionInv, TypeOK
  <2>2. /\ open'[Server] = open[Server]
        /\ open'[Client] = open[Client] \/ open'[Client] = open[Client] \cup {f}
    BY <1>3, OtherSide DEF SessionInv, TypeOK, Opened
  <2> QED BY <1>2, <2>1, <2>2, OtherSide DEF NotConnected
<1> QED BY <1>2, <1>3, <1>4, <1>5, QuietDelivery, OtherSide DEF SessionInv

(* A file is open to writers before its snapshot is taken: it is in hand.  *)
LEMMA OpenRequestedDelivery ==
  ASSUME SessionInv, DeliveryInv, NEW s \in Sides, OpenRequested(s)
  PROVE  DeliveryInv'
<1>1. PICK f : f = Incoming(s).file
  OBVIOUS
<1>2. /\ channel[Other(s)] # <<>> /\ f \in Files /\ Owner(f) = s /\ f \in local[s]
      /\ Incoming(s).type = "open" /\ work[s].step = "idle" /\ s \in Threads
  <2>1. Welcome(Other(s), Incoming(s)) /\ Incoming(s) \in Messages
        /\ Incoming(s).type = "open" /\ channel[Other(s)] # <<>> /\ work[s] = Idle
    BY IncomingLemma DEF OpenRequested, Receives
  <2> QED BY <1>1, <2>1, MessageLemma, OtherSide DEF Welcome, Idle, Threads
<1>3. /\ Answer(s, <<>>)
      /\ open'[s] = open[s] \cup {f} /\ \A r \in Sides : r # s => open'[r] = open[r]
      /\ work'[s] = [step |-> "opened", file |-> f]
      /\ \A t \in Threads : t # s => work'[t] = work[t]
      /\ UNCHANGED <<state, data, copy, overtaken>>
  BY <1>1, <1>2 DEF OpenRequested, Opened, SessionInv, TypeOK
<1>4. PICK ms \in Seq(Messages) : Answer(s, ms) /\ \A g \in Files : ~Has(ms, "write", g)
  BY <1>2, <1>3, OpenAnswer
<1>5. \A g \in Files : g \in open'[Owner(g)] =>
        g \in open[Owner(g)] \/ \A p \in PortsIn(g) : ToBeSent(g, p)'
  BY <1>2, <1>3, OtherSide DEF ToBeSent
<1>6. \A g \in Files : \A p \in PortsIn(g) :
        /\ ToBeSent(g, p) => ToBeSent(g, p)'
        /\ \A t \in Threads : Holds(t, g, p)' => work'[t] = work[t]
        /\ copy'[g][p] = IF Owner(g) = Other(s) /\ Carries(Incoming(s), g, p)
                         THEN Incoming(s).value[p] ELSE copy[g][p]
  <2> SUFFICES ASSUME NEW g \in Files, NEW p \in PortsIn(g)
               PROVE  /\ ToBeSent(g, p) => ToBeSent(g, p)'
                      /\ \A t \in Threads : Holds(t, g, p)' => work'[t] = work[t]
                      /\ copy'[g][p] = copy[g][p] /\ ~Carries(Incoming(s), g, p)
    OBVIOUS
  <2>1. ToBeSent(g, p) => ToBeSent(g, p)'
    <3>1. ASSUME NEW t \in Threads, t # s,
                 \/ work[t].step = "opened" /\ work[t].file = g
                 \/ Holds(t, g, p) /\ work[t].value[p] = data[g][p]
          PROVE  ToBeSent(g, p)'
      BY <1>3, <3>1 DEF ToBeSent, Holds
    <3> QED BY <1>2, <3>1 DEF ToBeSent, Holds
  <2>2. \A t \in Threads : Holds(t, g, p)' => work'[t] = work[t]
    BY <1>3 DEF Holds
  <2> QED BY <1>2, <1>3, <2>1, <2>2 DEF Carries
<1>7. \A g \in Files : NotConnected(g) => NotConnected(g)'
  BY <1>3 DEF NotConnected
<1> QED BY <1>2, <1>3, <1>4, <1>5, <1>6, <1>7, AnswerDelivery DEF SessionInv

(* The snapshot has the newest value of every port.  Where the ports could *)
(* not be connected there is none, and the file is not connected.          *)
LEMMA TakeSnapshotDelivery ==
  ASSUME SessionInv, ProtocolInv, DeliveryInv, NEW s \in Sides, TakeSnapshot(s)
  PROVE  DeliveryInv'
<1> SUFFICES ASSUME NEW g \in Files, g \in open'[Owner(g)] \ overtaken', NEW p \in PortsIn(g)
             PROVE  Safe(g, p)'
  BY DEF DeliveryInv, PortsIn, Owner
<1>1. PICK f : f = work[s].file
  OBVIOUS
<1>2. /\ f \in Files /\ Owner(f) = s /\ s \in Threads /\ work[s].step = "opened"
      /\ UNCHANGED <<open, channel, data, copy, overtaken>>
  <2>1. work[s] \in Work /\ work[s].step = "opened" /\ s \in Threads
    BY DEF SessionInv, TypeOK, Threads, TakeSnapshot
  <2>2. f \in Files
    BY <1>1, <2>1, WorkLemma
  <2> QED BY <1>1, <2>1, <2>2 DEF ProtocolInv, HandsFull, TakeSnapshot
<1>3. /\ \A t \in Threads : t # s => work'[t] = work[t]
      /\ \/ work'[s] = Snapshot(f)
         \/ work'[s] = Idle /\ f.kind = "require" /\ UNCHANGED state
      /\ f.kind # "require" \/ \A h \in Files : h # f => state'[Server][h] = state[Server][h]
      /\ f.kind # "require" => UNCHANGED state
  <2>1. s = Server \/ f.kind # "require"
    BY <1>2, KindLemma
  <2>2. \/ work' = [work EXCEPT ![s] = Snapshot(f)] /\ UNCHANGED state
        \/ /\ work' = [work EXCEPT ![s] = Snapshot(f)] /\ f.kind = "require"
           /\ state' = [state EXCEPT ![s][f] = "CONNECTED"]
        \/ work' = [work EXCEPT ![s] = Idle] /\ f.kind = "require" /\ UNCHANGED state
    BY <1>1 DEF TakeSnapshot
  <2> QED BY <1>2, <2>1, <2>2 DEF SessionInv, TypeOK
<1>4. Safe(g, p)
  BY <1>2 DEF DeliveryInv
<1>5. CASE g = f /\ work'[s] = Snapshot(f)
  <2>1. p \in DOMAIN data[f] /\ UNCHANGED data
    BY <1>2, <1>5 DEF SessionInv, TypeOK
  <2>2. Holds(s, f, p)' /\ work'[s].value[p] = data'[f][p]
    BY <1>5, <2>1 DEF Holds, Snapshot
  <2> QED BY <1>2, <1>5, <2>2 DEF Safe, ToBeSent
<1>6. CASE g = f /\ work'[s] = Idle /\ f.kind = "require" /\ UNCHANGED state
  <2>1. Connecting(f)
    BY <1>1, <1>2, <1>6, KindLemma DEF Connecting
  <2>2. state[Server][f] = "WAITING_FOR_FILE_OPEN_REQUEST"
    BY <1>2, <1>6, <2>1 DEF ProtocolInv, RequiresOnce, RequireOnce
  <2> QED BY <1>6, <2>2 DEF Safe, NotConnected
<1>7. CASE g # f
  <2>1. \A t \in Threads : /\ Holds(t, g, p)' => work'[t] = work[t]
                           /\ work[t].file = g => work'[t] = work[t]
    BY <1>1, <1>3, <1>7 DEF Holds, Snapshot, Idle
  <2>2. ToBeSent(g, p) => ToBeSent(g, p)'
    BY <1>2, <2>1 DEF ToBeSent, Holds
  <2>3. OnItsWay(g, p) => OnItsWay(g, p)'
    BY <1>2, <2>1 DEF OnItsWay, Holds
  <2>4. NotConnected(g) => NotConnected(g)'
    BY <1>3, <1>7 DEF NotConnected
  <2> QED BY <1>4, <2>2, <2>3, <2>4 DEF Safe
<1> QED BY <1>3, <1>5, <1>6, <1>7

(* Whoever writes a port has its newest value in hand.                     *)
LEMMA WritePortDelivery ==
  ASSUME SessionInv, DeliveryInv, NEW t \in Writers, WritePort(t)
  PROVE  DeliveryInv'
<1> SUFFICES ASSUME NEW g \in Files, g \in open'[Owner(g)] \ overtaken', NEW q \in PortsIn(g)
             PROVE  Safe(g, q)'
  BY DEF DeliveryInv, PortsIn, Owner
<1>1. PICK f \in Files, p \in Ports :
        /\ data' = [data EXCEPT ![f][p] = writes + 1] /\ p \in PortsIn(f)
        /\ work' = [work EXCEPT ![t] = [step |-> "queue", file |-> f,
                                        value |-> [r \in {p} |-> writes + 1]]]
  BY DEF WritePort
<1>2. /\ UNCHANGED <<channel, open, state, copy, overtaken>>
      /\ t \in Threads /\ work[t].step = "idle"
  BY DEF WritePort, Threads, Idle
<1>3. /\ \A u \in Threads : u # t => work'[u] = work[u]
      /\ work'[t] = [step |-> "queue", file |-> f, value |-> [r \in {p} |-> writes + 1]]
      /\ data'[f][p] = writes + 1
      /\ ~(g = f /\ q = p) => data'[g][q] = data[g][q]
  BY <1>1, <1>2 DEF SessionInv, TypeOK
<1>4. Safe(g, q)
  BY <1>2 DEF DeliveryInv
<1>5. CASE g = f /\ q = p
  <2>1. Holds(t, f, p)' /\ work'[t].value[p] = data'[f][p]
    BY <1>3 DEF Holds
  <2> QED BY <1>2, <1>5, <2>1 DEF Safe, ToBeSent
<1>6. CASE ~(g = f /\ q = p)
  <2>1. \A u \in Threads : /\ Holds(u, g, q)' => work'[u] = work[u]
                           /\ work[u].step # "idle" => work'[u] = work[u]
    BY <1>2, <1>3, <1>6 DEF Holds
  <2>2. ToBeSent(g, q) => ToBeSent(g, q)'
    BY <1>3, <1>6, <2>1 DEF ToBeSent, Holds
  <2>3. OnItsWay(g, q) => OnItsWay(g, q)'
    BY <1>2, <1>3, <1>6, <2>1 DEF OnItsWay, Holds
  <2> QED BY <1>2, <1>4, <2>2, <2>3 DEF Safe, NotConnected
<1> QED BY <1>5, <1>6

(* Port data fits in the send buffer.                                      *)
LEMMA DataFits ==
  ASSUME PortDataFits, NEW f \in Files, f.kind # "definition", NEW v \in PartialValues(f)
  PROVE  SizeOf(Write(f, v)) <= SendBuffer
<1>1. DOMAIN v \subseteq PortsIn(f)
  BY DEF PartialValues
<1>2. /\ Cardinality(DOMAIN v) \in Nat /\ Cardinality(PortsIn(f)) \in Nat
      /\ Cardinality(DOMAIN v) <= Cardinality(PortsIn(f))
      /\ Cardinality(PortsIn(f)) <= SendBuffer /\ SendBuffer \in Nat
  BY <1>1, FS_Subset, FS_CardinalityType, SessionAssumption DEF PortDataFits
<1> QED BY <1>2 DEF SizeOf, Write

(* What is queued last is the newest, or another thread will queue it.     *)
LEMMA QueueDelivery ==
  ASSUME SessionInv, PortDataFits, DeliveryInv, NEW t \in Threads, Queue(t)
  PROVE  DeliveryInv'
<1> SUFFICES ASSUME NEW g \in Files, g \in open'[Owner(g)] \ overtaken', NEW p \in PortsIn(g)
             PROVE  Safe(g, p)'
  BY DEF DeliveryInv, PortsIn, Owner
<1>1. PICK f, v, m : f = work[t].file /\ v = work[t].value /\ m = Write(f, v)
  OBVIOUS
<1>2. /\ f \in Files /\ v \in PartialValues(f) /\ work[t].step = "queue"
      /\ m \in Messages /\ m.type = "write" /\ m.file = f /\ m.value = v
  <2>1. work[t] \in Work /\ work[t].step = "queue"
    BY DEF SessionInv, TypeOK, Queue
  <2>2. f \in Files /\ v \in PartialValues(f)
    BY <1>1, <2>1, WorkLemma
  <2> QED BY <1>1, <2>1, <2>2, MessageLemma DEF Write
<1>3. /\ \/ channel' = channel
         \/ channel' = [channel EXCEPT ![Owner(f)] = Append(@, m)]
      /\ f \in open[Owner(f)] /\ SizeOf(m) <= SendBuffer =>
           channel' = [channel EXCEPT ![Owner(f)] = Append(@, m)]
      /\ overtaken' = IF Overtakes(t) THEN overtaken \cup {f} ELSE overtaken
      /\ UNCHANGED <<open, state, data, copy>>
  BY <1>1 DEF Queue
<1>4. /\ \A u \in Threads : u # t => work'[u] = work[u]
      /\ work'[t].step = "idle"
  BY DEF Queue, SessionInv, TypeOK, Idle
<1>5. Safe(g, p)
  BY <1>3 DEF DeliveryInv
<1>6. PICK q \in Seq(Messages) : q = channel[Owner(g)]
  BY OtherSide DEF SessionInv, TypeOK
<1>7. /\ channel'[Owner(g)] = q \/ channel'[Owner(g)] = Append(q, m)
      /\ g = f => channel'[Owner(g)] = Append(q, m)
  <2>1. /\ channel'[Owner(g)] = q \/ channel'[Owner(g)] = Append(q, m)
        /\ channel' = [channel EXCEPT ![Owner(f)] = Append(@, m)] /\ g = f
             => channel'[Owner(g)] = Append(q, m)
    BY <1>3, <1>6, OtherSide DEF SessionInv, TypeOK
  <2>2. g = f => SizeOf(m) <= SendBuffer /\ f \in open[Owner(f)]
    <3>1. g.kind # "definition"
      BY DEF PortsIn
    <3> QED BY <1>1, <1>2, <1>3, <3>1, DataFits
  <2> QED BY <1>3, <2>1, <2>2
<1>8. \A u \in Threads : /\ Holds(u, g, p)' => u # t /\ work'[u] = work[u] /\ Holds(u, g, p)
                         /\ u # t => work'[u] = work[u]
  BY <1>4 DEF Holds
<1>9. ~Carries(m, g, p) => Safe(g, p)'
  <2> SUFFICES ASSUME ~Carries(m, g, p) PROVE Safe(g, p)'
    OBVIOUS
  <2>1. ~Holds(t, g, p)
    BY <1>1, <1>2 DEF Carries, Holds
  <2>2. ToBeSent(g, p) => ToBeSent(g, p)'
    <3>1. ASSUME NEW u \in Threads, u # t,
                 \/ work[u].step = "opened" /\ work[u].file = g
                 \/ Holds(u, g, p) /\ work[u].value[p] = data[g][p]
          PROVE  ToBeSent(g, p)'
      BY <1>3, <1>8, <3>1 DEF ToBeSent, Holds
    <3> QED BY <1>2, <2>1, <3>1 DEF ToBeSent
  <2>3. ASSUME OnItsWay(g, p)
        PROVE  OnItsWay(g, p)'
    <3>1. PICK c, x : c = copy[g][p] /\ x = data[g][p]
      OBVIOUS
    <3>2. Ends(q, g, p, c, x)
      BY <1>6, <2>3, <3>1 DEF OnItsWay
    <3>3. Ends(Append(q, m), g, p, c, x)
      <4>1. PICK ms \in Seq(Messages) : ms = <<m>>
        <5>1. <<m>> \in Seq(Messages)
          BY <1>2
        <5> QED BY <5>1
      <4>2. \A i \in DOMAIN ms : ~Carries(ms[i], g, p)
        BY <4>1
      <4>3. Ends(q \o ms, g, p, c, x)
        BY <3>2, <4>2, ConcatEnds
      <4>4. Append(q, m) = q \o ms
        BY <1>2, <4>1
      <4> QED BY <4>3, <4>4
    <3>4. Ends(channel'[Owner(g)], g, p, c, x)
      BY <1>7, <3>2, <3>3
    <3> QED BY <1>3, <1>8, <2>3, <3>1, <3>4 DEF OnItsWay
  <2> QED BY <1>3, <1>5, <2>2, <2>3 DEF Safe, NotConnected
<1>10. Carries(m, g, p) => Safe(g, p)'
  <2> SUFFICES ASSUME Carries(m, g, p) PROVE Safe(g, p)'
    OBVIOUS
  <2>1. g = f /\ p \in DOMAIN v /\ Holds(t, g, p)
    BY <1>1, <1>2 DEF Carries, Holds
  <2>2. CASE v[p] = data[g][p]
    <3>1. \A u \in Threads : u # t /\ Holds(u, g, p) => work[u].value[p] = data[g][p]
      <4>1. ~Overtakes(t)
        BY <1>3, <2>1
      <4> QED BY <1>1, <2>1, <2>2, <4>1 DEF Overtakes, Holds
    <3>2. Ends(Append(q, m), g, p, copy[g][p], data[g][p])
      <4>1. PICK c : c = copy[g][p]
        OBVIOUS
      <4>2. Ends(Append(q, m), g, p, c, m.value[p])
        BY <1>2, AppendEnds
      <4> QED BY <1>2, <2>2, <4>1, <4>2
    <3> QED BY <1>3, <1>7, <1>8, <2>1, <3>1, <3>2 DEF Safe, OnItsWay
  <2>3. CASE v[p] # data[g][p]
    <3>1. ~OnItsWay(g, p)
      BY <1>1, <2>1, <2>3 DEF OnItsWay
    <3>2. ToBeSent(g, p) => ToBeSent(g, p)'
      <4>1. ASSUME NEW u \in Threads, u # t,
                   \/ work[u].step = "opened" /\ work[u].file = g
                   \/ Holds(u, g, p) /\ work[u].value[p] = data[g][p]
            PROVE  ToBeSent(g, p)'
        BY <1>3, <1>8, <4>1 DEF ToBeSent, Holds
      <4> QED BY <1>1, <1>2, <2>3, <4>1 DEF ToBeSent
    <3> QED BY <1>3, <1>5, <3>1, <3>2 DEF Safe, NotConnected
  <2> QED BY <2>2, <2>3
<1> QED BY <1>9, <1>10

(* A handler that does not answer.                                         *)
LEMMA SilentDelivery ==
  ASSUME SessionInv, DeliveryInv, NEW s \in Sides, channel[Other(s)] # <<>>,
         Answer(s, <<>>), UNCHANGED <<data, work, open, overtaken>>,
         \A f \in Files : NotConnected(f) => NotConnected(f)',
         \A f \in Files : \A p \in PortsIn(f) :
           copy'[f][p] = IF Owner(f) = Other(s) /\ Carries(Incoming(s), f, p)
                         THEN Incoming(s).value[p] ELSE copy[f][p]
  PROVE  DeliveryInv'
<1>1. PICK ms \in Seq(Messages) : Answer(s, ms) /\ \A g \in Files : ~Has(ms, "write", g)
  <2>1. <<>> \in Seq(Messages)
    OBVIOUS
  <2> QED BY <2>1, ShortTokens DEF Kinds
<1>2. \A f \in Files : \A p \in PortsIn(f) :
        /\ ToBeSent(f, p) => ToBeSent(f, p)'
        /\ \A t \in Threads : Holds(t, f, p)' => work'[t] = work[t]
  BY DEF ToBeSent, Holds
<1> QED BY <1>1, <1>2, AnswerDelivery DEF SessionInv

(* Only definitions are stopped.                                           *)
LEMMA WriteStoppedDelivery ==
  ASSUME SessionInv, PortDataFits, DeliveryInv, NEW s \in Sides, WriteStopped(s)
  PROVE  DeliveryInv'
<1>1. /\ channel[Other(s)] # <<>> /\ TooLarge(s) /\ Incoming(s).file.kind = "definition"
  BY ArrivingWrite DEF WriteStopped, TooLarge
<1>2. Answer(s, <<>>) /\ UNCHANGED <<open, state, data, copy, work, overtaken>>
  BY <1>1 DEF WriteStopped, Refuse
<1>3. \A f \in Files : \A p \in PortsIn(f) : ~Carries(Incoming(s), f, p)
  BY <1>1 DEF Carries, PortsIn
<1>4. \A f \in Files : NotConnected(f) => NotConnected(f)'
  BY <1>2 DEF NotConnected
<1> QED BY <1>1, <1>2, <1>3, <1>4, SilentDelivery

(* A write that is received takes its values from the channel to the copy. *)
LEMMA WrittenCopy ==
  ASSUME SessionInv, PortDataFits, NEW s \in Sides, Receives(s, "write"),
         NEW f, f = Incoming(s).file,
         copy' = [copy EXCEPT ![f] = Written(@, Incoming(s).value)]
  PROVE  \A g \in Files : \A p \in PortsIn(g) :
           copy'[g][p] = IF Owner(g) = Other(s) /\ Carries(Incoming(s), g, p)
                         THEN Incoming(s).value[p] ELSE copy[g][p]
<1>1. /\ f \in Files /\ Owner(f) = Other(s) /\ Incoming(s).type = "write"
  BY ArrivingWrite
<1>2. DOMAIN copy = Files /\ \A g \in Files : DOMAIN copy[g] = PortsIn(g)
  BY DEF SessionInv, TypeOK
<1>3. ASSUME NEW g \in Files, NEW p \in PortsIn(g)
      PROVE  copy'[g][p] = IF Owner(g) = Other(s) /\ Carries(Incoming(s), g, p)
                           THEN Incoming(s).value[p] ELSE copy[g][p]
  <2>1. CASE g = f
    <3>1. copy'[g] = Written(copy[f], Incoming(s).value)
      BY <1>2, <2>1
    <3>2. Carries(Incoming(s), g, p) <=> p \in DOMAIN Incoming(s).value
      BY <1>1, <2>1 DEF Carries
    <3> QED BY <1>1, <1>2, <2>1, <3>1, <3>2 DEF Written
  <2>2. CASE g # f
    BY <1>2, <2>2 DEF Carries
  <2> QED BY <2>1, <2>2
<1> QED BY <1>3

(* Provide port data reaches the server's copy even if connecting fails.   *)
LEMMA ProvideWrittenDelivery ==
  ASSUME SessionInv, ProtocolInv, PortDataFits, DeliveryInv, ProvideWritten
  PROVE  DeliveryInv'
<1>1. PICK f : f = Incoming(Server).file
  OBVIOUS
<1>2. /\ channel[Other(Server)] # <<>> /\ f \in Files /\ f.kind = "provide"
      /\ f \in open[Server] /\ Receives(Server, "write")
  BY <1>1, ArrivingWrite, OtherSide DEF ProvideWritten, ReceivesWrite
<1>3. state[Server][f] \in Receivable
  BY <1>2 DEF ProtocolInv, ProvidesOpened
<1>4. /\ Answer(Server, <<>>)
      /\ copy' = [copy EXCEPT ![f] = Written(@, Incoming(Server).value)]
      /\ state' = state \/ state' = [state EXCEPT ![Server][f] = "CONNECTED"]
      /\ UNCHANGED <<data, work, open, overtaken>>
  BY <1>1, <1>3 DEF ProvideWritten, Refuse, Receivable
<1>5. \A g \in Files : NotConnected(g) => NotConnected(g)'
  BY <1>2, <1>4, OtherSide DEF SessionInv, TypeOK, NotConnected
<1> QED BY <1>1, <1>2, <1>4, <1>5, WrittenCopy, SilentDelivery, OtherSide

(* Require port data reaches the client's copy.                            *)
LEMMA RequireWrittenDelivery ==
  ASSUME SessionInv, PortDataFits, DeliveryInv, RequireWritten
  PROVE  DeliveryInv'
<1>1. PICK f : f = Incoming(Client).file
  OBVIOUS
<1>2. channel[Other(Client)] # <<>> /\ Receives(Client, "write")
  BY <1>1, ArrivingWrite, OtherSide DEF RequireWritten, ReceivesWrite
<1>3. /\ Answer(Client, <<>>)
      /\ copy' = [copy EXCEPT ![f] = Written(@, Incoming(Client).value)]
      /\ state' = [state EXCEPT ![Client][f] =
                     IF @ = "WAITING_FOR_FILE_DATA" THEN "CONNECTED" ELSE @]
      /\ UNCHANGED <<data, work, open, overtaken>>
  BY <1>1 DEF RequireWritten
<1>4. \A g \in Files : NotConnected(g) => NotConnected(g)'
  <2>1. state'[Server] = state[Server]
    BY <1>3, OtherSide DEF SessionInv, TypeOK
  <2> QED BY <2>1 DEF NotConnected
<1> QED BY <1>1, <1>2, <1>3, <1>4, WrittenCopy, SilentDelivery, OtherSide

(* The require port file of a new node waits for an open request.          *)
LEMMA DefinitionWrittenDelivery ==
  ASSUME SessionInv, ProtocolInv, PortDataFits, DeliveryInv, DefinitionWritten
  PROVE  DeliveryInv'
<1>1. PICK f, asked, given : /\ f = Incoming(Server).file
                             /\ asked = PublishedProvideFile(f.node)
                             /\ given = {Require(f.node)} \cap FilesOf(Server)
  OBVIOUS
<1>2. /\ channel[Other(Server)] # <<>> /\ f \in Files /\ f.kind = "definition"
      /\ UNCHANGED <<data, copy, work, overtaken>>
  BY <1>1, ArrivingDefinition DEF DefinitionWritten
<1>3. CASE Refuse(Server, "PARSE") /\ UNCHANGED open
           /\ state' = [state EXCEPT ![Server][f] = "CONNECTED"]
  <2>1. \A g \in Files : \A p \in PortsIn(g) : ~Carries(Incoming(Server), g, p)
    BY <1>1, <1>2 DEF Carries, PortsIn
  <2>2. \A g \in Files : NotConnected(g) => NotConnected(g)'
    BY <1>2, <1>3, OtherSide DEF SessionInv, TypeOK, NotConnected
  <2> QED BY <1>2, <1>3, <2>1, <2>2, SilentDelivery, OtherSide DEF Refuse
<1>4. CASE /\ state' = [state EXCEPT ![Server] = BuiltStates(f, asked, given)]
           /\ open' = Opened(Server, asked)
           /\ Answer(Server, BuiltReplies(f, asked, given))
  <2>1. /\ Provide(f.node) \in Files /\ Provide(f.node).kind = "provide"
        /\ Require(f.node) \in Files /\ Require(f.node).kind = "require"
    <3>1. f.node \in Nodes
      BY <1>2, KindLemma
    <3> QED BY <3>1 DEF Files, Provide, Require
  <2>2. PICK ms \in Seq(Messages) : Answer(Server, ms) /\ \A g \in Files : ~Has(ms, "write", g)
    <3>1. PICK pro \in Files, req \in Files : pro = Provide(f.node) /\ req = Require(f.node)
      BY <2>1
    <3> QED BY <1>4, <3>1, RepliesLemma DEF Kinds
  <2>3. \A g \in Files : g \in open'[Owner(g)] => g \in open[Owner(g)]
    <3>1. asked \subseteq {Provide(f.node)}
      BY <1>1 DEF PublishedProvideFile
    <3>2. open'[Client] = open[Client] /\ open'[Server] = open[Server] \cup asked
      BY <1>4, OtherSide DEF SessionInv, TypeOK, Opened
    <3> QED BY <2>1, <3>1, <3>2, KindLemma
  <2>4. \A g \in Files : NotConnected(g) => NotConnected(g)'
    <3>1. asked \subseteq {Provide(f.node)} /\ given \subseteq {Require(f.node)}
      BY <1>1 DEF PublishedProvideFile
    <3>2. \A g \in Files : g.kind = "require" =>
            state'[Server][g] \in {state[Server][g], "WAITING_FOR_FILE_OPEN_REQUEST"}
      BY <1>2, <1>4, <2>1, <3>1, OtherSide DEF SessionInv, TypeOK, BuiltStates
    <3> QED BY <3>2 DEF NotConnected
  <2> QED BY <1>1, <1>2, <2>2, <2>3, <2>4, QuietDelivery, OtherSide DEF SessionInv
<1> QED BY <1>1, <1>3, <1>4 DEF DefinitionWritten, BuiltStates, BuiltReplies

-----------------------------------------------------------------------------
(* Every step keeps the newest value of every port safe.                   *)
LEMMA NextDelivery ==
  ASSUME SessionInv, ProtocolInv, PortDataFits, DeliveryInv, [Next]_vars
  PROVE  DeliveryInv'
<1>1. CASE Connect
  BY <1>1, ConnectDelivery
<1>2. CASE \E s \in Sides : InputOutput(s)
  <2>1. PICK s \in Sides : InputOutput(s)
    BY <1>2
  <2>2. CASE Handshake(s)
    BY <2>2, HandshakeDelivery
  <2>3. CASE OpenRequested(s)
    BY <2>3, OpenRequestedDelivery
  <2>4. CASE TakeSnapshot(s)
    BY <2>4, TakeSnapshotDelivery
  <2>5. CASE WriteStopped(s)
    BY <2>5, WriteStoppedDelivery
  <2>6. CASE ServerLearnsFile
    BY <2>6, ServerLearnsDelivery
  <2>7. CASE DefinitionWritten
    BY <2>7, DefinitionWrittenDelivery
  <2>8. CASE ProvideWritten
    BY <2>8, ProvideWrittenDelivery
  <2>9. CASE ClientLearnsFile
    BY <2>9, ClientLearnsDelivery
  <2>10. CASE RequireWritten
    BY <2>10, RequireWrittenDelivery
  <2> QED BY <2>1, <2>2, <2>3, <2>4, <2>5, <2>6, <2>7, <2>8, <2>9, <2>10 DEF InputOutput
<1>3. CASE \E t \in Threads : Queue(t)
  BY <1>3, QueueDelivery
<1>4. CASE \E t \in Writers : WritePort(t)
  BY <1>4, WritePortDelivery
<1>5. CASE UNCHANGED vars
  BY <1>5 DEF vars, DeliveryInv, Safe, ToBeSent, OnItsWay, NotConnected, Holds
<1> QED BY <1>1, <1>2, <1>3, <1>4, <1>5 DEF Next

(* The newest value of every port of an open file is about to be sent or   *)
(* on its way, in every behaviour.                                         *)
THEOREM DeliveryInvariant ==
  ASSUME PortDataFits
  PROVE  Spec => []DeliveryInv
<1>1. Init => DeliveryInv
  BY OtherSide DEF Init, DeliveryInv
<1>2. SessionInv /\ ProtocolInv /\ DeliveryInv /\ [Next]_vars => DeliveryInv'
  BY NextDelivery
<1> QED BY <1>1, <1>2, ProtocolInvariant, SessionInvariant, PTL DEF Spec

(* Once a file is open nothing written to it is lost on the way: when no   *)
(* thread has anything to send, the copy of the other side is the owner's  *)
(* data with what is in the channel, however the snapshot and the writes   *)
(* of any number of threads are interleaved (remote_route_data_to_file,    *)
(* send_provide_port_data_to_file_manager).                                *)
THEOREM NothingIsLost ==
  ASSUME PortDataFits
  PROVE  Spec => []NothingLost
<1>1. ASSUME SessionInv, DeliveryInv
      PROVE  NothingLost
  <2> SUFFICES ASSUME NEW f \in Files, Settled(f)
               PROVE  Arrived(copy[f], Owner(f), f) = data[f]
    BY DEF NothingLost
  <2>1. \A t \in Threads : work[t] = Idle \/ work[t].file # f
    BY DEF Settled
  <2>2. ASSUME NEW p \in PortsIn(f)
        PROVE  Ends(channel[Owner(f)], f, p, copy[f][p], data[f][p])
    <3>1. Safe(f, p)
      BY <1>1 DEF Settled, DeliveryInv
    <3>2. ~ToBeSent(f, p)
      BY <2>1 DEF ToBeSent, Holds, Idle
    <3>3. ~NotConnected(f)
      BY DEF Settled, NotConnected
    <3> QED BY <3>1, <3>2, <3>3 DEF Safe, OnItsWay
  <2>3. PICK s \in Sides, c \in [PortsIn(f) -> Values], x \in [PortsIn(f) -> Values] :
          s = Owner(f) /\ c = copy[f] /\ x = data[f] /\ channel[s] \in Seq(Messages)
    BY <1>1, OtherSide DEF SessionInv, TypeOK
  <2>4. Arrived(c, s, f) = x
    BY <2>2, <2>3, ArrivedEnds
  <2> QED BY <2>3, <2>4
<1> QED BY <1>1, SessionInvariant, DeliveryInvariant, PTL
=============================================================================
