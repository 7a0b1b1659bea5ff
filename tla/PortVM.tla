-------------------------------- MODULE PortVM --------------------------------
(***************************************************************************)
(* The virtual machine of a client (src/apx/src/vm.c, decoder.c) and the   *)
(* two operations that run programs on it: apx_client_write_port_data and  *)
(* apx_client_read_port_data (src/apx/src/client.c).                       *)
(*                                                                         *)
(* One machine serves all ports of the client, one program at a time under *)
(* the lock of the client.  What is left in the serializer and in the      *)
(* deserializer by one program, finished or given up, is what the next one *)
(* starts with.  The bytes of a port that is written are the bytes that    *)
(* the same port is read from later: how they travel is the subject of     *)
(* FileSession and ServerRouting.                                          *)
(***************************************************************************)
EXTENDS Deserializer

CONSTANTS Ports,
          Declarations,  \* of ports: records [elem, queue, init, values]; values are
                         \* what the application tries to write
          MaxOps         \* bound: calls of the application

(* A node is accepted only when its ports compile.                          *)
ASSUME CompileAssumption ==
  \A d \in Declarations, is_pack \in BOOLEAN :
    /\ apx_compiler_compile_port(d, is_pack).rc = "ok"
    /\ DecodeHeader(apx_compiler_compile_port(d, is_pack).header).rc = "ok"

VARIABLES
  decl,          \* what each port was declared as
  serializer,    \* machines: [rc, stack, buf]
  deserializer,
  decoder,       \* [code, next, mark]
  call,          \* the running call: [op, port, value], op = "idle" if none
  data,          \* the bytes of each port; <<>> until its init value is packed
  written,       \* history: the last value accepted for each port
  result,        \* history: what the last call returned: [op, port, rc, value]
  ops            \* number of calls made

vars == <<decl, serializer, deserializer, decoder, call, data, written, result, ops>>
ports == <<decl, data, written, result, ops>>

NoCall == [op |-> "idle", port |-> "-", value |-> Null]
NoMark == 0
Program(p, is_pack) == apx_compiler_compile_port(decl[p], is_pack)
DataSizeOf(p) == DecodeHeader(Program(p, TRUE).header).data_size

(* create_init_data_on_node_instance: a port without an init value starts   *)
(* with zeros; for the others, packing the init value is the first write,   *)
(* and nobody reads before.                                                 *)
Init ==
  /\ decl \in [Ports -> Declarations]
  /\ serializer = [rc |-> "ok", stack |-> <<WriteState(Null)>>, buf |-> NewBuffer(<<>>)]
  /\ deserializer = [rc |-> "ok", stack |-> <<ReadState>>, buf |-> NewBuffer(<<>>)]
  /\ decoder = [code |-> <<>>, next |-> 1, mark |-> NoMark]
  /\ call = NoCall
  /\ data = [p \in Ports |-> IF decl[p].init THEN <<>> ELSE [i \in 1..DataSizeOf(p) |-> 0]]
  /\ written = [p \in Ports |-> Null]
  /\ result = [op |-> "idle", port |-> "-", rc |-> "ok", value |-> Null]
  /\ ops = 0

(* apx_vm_select_program.                                                   *)
SelectProgram(code) == decoder' = [code |-> code, next |-> 1, mark |-> NoMark]

(* apx_client_write_port_data: the buffer is a local array, its first       *)
(* content is whatever was there.  The value replaces that of the current   *)
(* state only.                                                              *)
WritePort(p, val) ==
  /\ call.op = "idle"
  /\ ops < MaxOps
  /\ SelectProgram(Program(p, TRUE).code)
  /\ \E fill \in {0, Base - 1} :
       serializer' =
         [rc    |-> "ok",
          stack |-> ReplaceAt(serializer.stack, Len(serializer.stack), WriteState(val)),
          buf   |-> NewBuffer([i \in 1..DataSizeOf(p) |-> fill])]
  /\ call' = [op |-> "pack", port |-> p, value |-> val]
  /\ ops' = ops + 1
  /\ UNCHANGED <<decl, deserializer, data, written, result>>

(* apx_client_read_port_data.                                               *)
ReadPort(p) ==
  /\ call.op = "idle"
  /\ ops < MaxOps
  /\ data[p] # <<>>
  /\ SelectProgram(Program(p, FALSE).code)
  /\ deserializer' = [deserializer EXCEPT !.rc = "ok", !.buf = NewBuffer(data[p])]
  /\ call' = [op |-> "unpack", port |-> p, value |-> Null]
  /\ ops' = ops + 1
  /\ UNCHANGED <<decl, serializer, data, written, result>>

Running(op) ==
  /\ call.op = op
  /\ (IF op = "pack" THEN serializer ELSE deserializer).rc = "ok"
AtInstruction(op) == decoder.next <= Len(decoder.code) /\ decoder.code[decoder.next].op = op
Instruction == decoder.code[decoder.next]

(* Faulty variant: does not mark where the fields begin.                    *)
UnmarkedDecoder == [decoder EXCEPT !.next = @ + 1]

(* run_pack_instruction, run_unpack_instruction: an array of records marks  *)
(* where its fields begin, even if the instruction failed.                  *)
MarkedDecoder ==
  [decoder EXCEPT !.next = @ + 1,
                  !.mark = IF Instruction.type = "record" /\ Instruction.len > 0
                           THEN decoder.next + 1 ELSE @]
RunPack ==
  /\ Running("pack") /\ AtInstruction("PACK")
  /\ serializer' = Pack(serializer, Instruction)
  /\ decoder' = MarkedDecoder
  /\ UNCHANGED <<deserializer, call>> /\ UNCHANGED ports
RunUnpack ==
  /\ Running("unpack") /\ AtInstruction("UNPACK")
  /\ deserializer' = Unpack(deserializer, Instruction)
  /\ decoder' = MarkedDecoder
  /\ UNCHANGED <<serializer, call>> /\ UNCHANGED ports

RunCheck ==
  /\ AtInstruction("LIMIT")
  /\ decoder' = [decoder EXCEPT !.next = @ + 1]
  /\ \/ Running("pack") /\ serializer' = CheckWriteRange(serializer, Instruction)
        /\ UNCHANGED deserializer
     \/ Running("unpack") /\ deserializer' = CheckReadRange(deserializer, Instruction)
        /\ UNCHANGED serializer
  /\ UNCHANGED call /\ UNCHANGED ports

RunSelect ==
  /\ AtInstruction("SELECT")
  /\ decoder' = [decoder EXCEPT !.next = @ + 1]
  /\ \/ Running("pack") /\ serializer' = SelectWrite(serializer, Instruction)
        /\ UNCHANGED deserializer
     \/ Running("unpack") /\ deserializer' = SelectRead(deserializer, Instruction)
        /\ UNCHANGED serializer
  /\ UNCHANGED call /\ UNCHANGED ports

(* run_array_next: back to the mark, unless this was the last element.      *)
Recalled(m, moved) ==
  IF moved.rc # "ok" \/ IsLastIndex(Top(m)) THEN [decoder EXCEPT !.next = @ + 1]
  ELSE [decoder EXCEPT !.next = decoder.mark]
RunNext ==
  /\ AtInstruction("NEXT")
  /\ \/ Running("pack") /\ serializer' = NextWrite(serializer)
        /\ decoder' = Recalled(serializer, serializer')
        /\ UNCHANGED deserializer
     \/ Running("unpack") /\ deserializer' = NextRead(deserializer)
        /\ decoder' = Recalled(deserializer, deserializer')
        /\ UNCHANGED serializer
  /\ UNCHANGED call /\ UNCHANGED ports

Return(rc, val) ==
  /\ call' = NoCall
  /\ result' = [op |-> call.op, port |-> call.port, rc |-> rc, value |-> val]

(* The end of a program: the whole buffer is handed to the node instance.   *)
AtEnd == decoder.next > Len(decoder.code)
FinishWrite ==
  /\ Running("pack") /\ AtEnd
  /\ data' = [data EXCEPT ![call.port] = serializer.buf.cells]
  /\ written' = [written EXCEPT ![call.port] = call.value]
  /\ Return("ok", call.value)
  /\ UNCHANGED <<decl, serializer, deserializer, decoder, ops>>
FinishRead ==
  /\ Running("unpack") /\ AtEnd
  /\ deserializer' = TakeValue(deserializer)
  /\ Return(TakeValue(deserializer).rc, Top(deserializer).val)
  /\ UNCHANGED <<decl, serializer, decoder, data, written, ops>>

(* The first error ends the run; nothing is written.                        *)
GiveUp ==
  /\ \/ call.op = "pack"   /\ serializer.rc # "ok"   /\ Return(serializer.rc, call.value)
     \/ call.op = "unpack" /\ deserializer.rc # "ok" /\ Return(deserializer.rc, Null)
  /\ UNCHANGED <<decl, serializer, deserializer, decoder, data, written, ops>>

Next ==
  \/ \E p \in Ports : \/ \E val \in decl[p].values : WritePort(p, val)
                      \/ ReadPort(p)
  \/ RunPack \/ RunUnpack \/ RunCheck \/ RunSelect \/ RunNext
  \/ FinishWrite \/ FinishRead \/ GiveUp

Spec == Init /\ [][Next]_vars

-----------------------------------------------------------------------------
(* What the virtual machine is for.                                         *)

(* A value fits an element: it has the shape of it, every number lies in    *)
(* the range of its type and in the limits of the element, and a string or  *)
(* an array has the length that was declared, or at most that if it is      *)
(* dynamic or a string.                                                     *)
LengthFits(e, n) == IF e.dyn \/ e.type \in CharTypes THEN n <= e.len ELSE n = e.len
NumberFits(e, val) ==
  /\ val.k = "sv"
  /\ val.v \in MinOf(e.type) .. MaxOf(e.type)
  /\ e.lim # <<>> => val.v \in e.lim[1] .. e.lim[2]
RECURSIVE Conforms(_, _)
Conforms(e, val) ==
  CASE e.type = "record" /\ e.len = 0 ->
         /\ val.k = "hv"
         /\ \A i \in DOMAIN e.fields : /\ e.fields[i].name \in DOMAIN val.v
                                       /\ Conforms(e.fields[i].elem, val.v[e.fields[i].name])
    [] e.type = "record" /\ e.len > 0 ->
         /\ val.k = "av" /\ LengthFits(e, Len(val.v))
         /\ \A i \in DOMAIN val.v : Conforms([e EXCEPT !.len = 0, !.dyn = FALSE], val.v[i])
    [] e.type \in CharTypes \cup {"byte"} ->
         val.k = "str" /\ IF e.len = 0 THEN Len(val.v) = 1 ELSE LengthFits(e, Len(val.v))
    [] e.type \in NumOrBool /\ e.len = 0 -> NumberFits(e, val)
    [] e.type \in NumOrBool /\ e.len > 0 ->
         /\ val.k = "av" /\ LengthFits(e, Len(val.v))
         /\ \A i \in DOMAIN val.v : NumberFits(e, val.v[i])

(* The cursors of the serializer and of the deserializer stay within the    *)
(* buffer, and the program position within the program.                     *)
TypeOK ==
  /\ decl \in [Ports -> Declarations]
  /\ call.op \in {"idle", "pack", "unpack"}
  /\ call.op # "idle" => call.port \in Ports
  /\ \A m \in {serializer, deserializer} :
       /\ m.stack # <<>>
       /\ m.buf.next \in 0 .. Len(m.buf.cells)
       /\ \A i \in DOMAIN m.buf.cells : m.buf.cells[i] \in 0 .. Base - 1
  /\ decoder.next \in 1 .. Len(decoder.code) + 1
  /\ ops \in 0 .. MaxOps

(* What was accepted comes back: a read returns the value that was last     *)
(* accepted for the port, whatever programs ran in between or were given up *)
(* (apx_client_write_port_data, apx_client_read_port_data).                 *)
ReadsBack ==
  result.op = "unpack" /\ call.op = "idle" /\ written[result.port] # Null =>
    result.rc = "ok" /\ result.value = written[result.port]

(* A value is accepted exactly if it fits what the port was declared as     *)
(* (apx_vm_pack_value).                                                     *)
WritesJudged ==
  result.op = "pack" /\ call.op = "idle" =>
    (result.rc = "ok" <=> Conforms(decl[result.port].elem, result.value))

(* The size in the header, which places the ports of a node behind each     *)
(* other, is what packing and unpacking consume, the room kept for the      *)
(* longest dynamic array included.                                          *)
Consumed(m) == IF m.buf.pad = NoPad THEN m.buf.next ELSE m.buf.pad
SizeAsDeclared ==
  call.op # "idle" /\ AtEnd =>
    \A m \in {serializer, deserializer} :
      m = (IF call.op = "pack" THEN serializer ELSE deserializer) /\ m.rc = "ok"
        => Consumed(m) = compile_data_element(decl[call.port].elem, TRUE).size
=============================================================================
