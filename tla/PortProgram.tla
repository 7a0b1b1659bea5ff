----------------------------- MODULE PortProgram -----------------------------
(***************************************************************************)
(* The compiler (src/apx/src/compiler.c): from the data element of a port  *)
(* to the byte code that packs or unpacks its values.                      *)
(*                                                                         *)
(* A data element is a record                                              *)
(*   [type, len, dyn, lim, fields]                                         *)
(* where len = 0 means that it is no array, dyn that the array is dynamic, *)
(* lim is <<>> or <<lower, upper>>, and fields is the sequence of          *)
(* [name, elem] of a record element.  Byte code is a sequence of decoded   *)
(* instructions; a number inside an instruction keeps the width that it is *)
(* encoded with.  Base is the number of values of one byte: 256 in the     *)
(* program, 4 when TLC runs.                                               *)
(***************************************************************************)
EXTENDS ProgramHeader, Sequences, SequencesExt

CONSTANT Base

ASSUME BaseAssumption ==
  /\ Base \in Nat /\ Base > 1
  /\ U8Max = Base - 1 /\ U16Max = Base^2 - 1 /\ U32Max = Base^4 - 1

UnsignedTypes == {"u8", "u16", "u32", "u64"}
SignedTypes   == {"s8", "s16", "s32", "s64"}
CharTypes     == {"char", "char8"}
NumOrBool     == UnsignedTypes \cup SignedTypes \cup {"bool"}
LimitTypes    == UnsignedTypes \cup SignedTypes \cup {"byte"}

SizeOf(type) == CASE type \in {"u16", "s16"} -> 2
                  [] type \in {"u32", "s32"} -> 4
                  [] type \in {"u64", "s64"} -> 8
                  [] type = "record"         -> 0
                  [] OTHER                   -> 1

(* Two's complement: n seen as a signed number of that many bytes.          *)
Signed(n, size) == LET u == n % Base^size IN IF 2 * u >= Base^size THEN u - Base^size ELSE u
MinOf(type) == IF type \in SignedTypes THEN -(Base^SizeOf(type) \div 2) ELSE 0
MaxOf(type) == IF type \in SignedTypes THEN Base^SizeOf(type) \div 2 - 1 ELSE Base^SizeOf(type) - 1

(* The number of bytes of a length field; none when the length is zero.     *)
apx_vm_size_to_size_type(length) == IF length = 0 THEN 0 ELSE VariantSize(VariantOf(length))

(* A number in an instruction: a limit is encoded in as many bytes as its   *)
(* type has, and sign-extended when it is decoded; an array length is       *)
(* encoded in the narrowest variant.                                        *)
EncodeLimit(type, n) == n % Base^SizeOf(type)
DecodeLimit(type, n) == IF type \in SignedTypes THEN Signed(n, SizeOf(type)) ELSE n
DecodeLength(n) == Stored(n, VariantOf(n))

LimitInstruction(e) ==
  LET Limit(i) == DecodeLimit(e.type, EncodeLimit(e.type, e.lim[i]))
  IN [op |-> "LIMIT", type |-> e.type, lower |-> Limit(1), upper |-> Limit(2)]
DataInstruction(e, is_pack) ==
  [op |-> IF is_pack THEN "PACK" ELSE "UNPACK", type |-> e.type, len |-> DecodeLength(e.len),
   dynsize |-> IF e.dyn THEN apx_vm_size_to_size_type(e.len) ELSE 0]
SelectInstruction(e, i) ==
  [op |-> "SELECT", name |-> e.fields[i].name, last |-> i = Len(e.fields)]
NextInstruction == [op |-> "NEXT"]

Sum2(a, b) == a + b
Concat2(a, b) == a \o b

(* compile_record_fields: child is what each field was compiled to; the     *)
(* first error counts.                                                      *)
compile_record_fields(e, child) ==
  LET failed == {i \in DOMAIN child : child[i].rc # "ok" \/ child[i].size = 0}
      first  == child[CHOOSE i \in failed : \A j \in failed : i <= j]
  IN [rc   |-> IF child = <<>> THEN "empty_record"
               ELSE IF failed = {} THEN "ok"
               ELSE IF first.rc = "ok" THEN "length" ELSE first.rc,
      size |-> FoldLeft(Sum2, 0, [i \in DOMAIN child |-> child[i].size]) % Base^4,
      code |-> FoldLeft(Concat2, <<>>,
                 [i \in DOMAIN child |-> <<SelectInstruction(e, i)>> \o child[i].code])]

(* The bytes of an array, the length field of a dynamic one included, in    *)
(* 32 bits.                                                                 *)
ArrayBytes(e, size) ==
  IF e.len = 0 THEN size
  ELSE (size * e.len + (IF e.dyn THEN apx_vm_size_to_size_type(e.len) ELSE 0)) % Base^4

CompiledTypes == NumOrBool \cup CharTypes \cup {"byte", "record"}

(* compile_data_element: the limit check comes before the instruction that  *)
(* packs, but after the one that unpacks.                                   *)
RECURSIVE compile_data_element(_, _)
compile_data_element(e, is_pack) ==
  LET data   == <<DataInstruction(e, is_pack)>>
      limit  == IF e.lim = <<>> THEN <<>> ELSE <<LimitInstruction(e)>>
      child  == [i \in DOMAIN e.fields |-> compile_data_element(e.fields[i].elem, is_pack)]
      record == compile_record_fields(e, child)
      Done(code, size) ==
        [rc |-> "ok", code |-> code, size |-> ArrayBytes(e, size),
         dynamic |-> (e.len > 0 /\ e.dyn) \/ \E i \in DOMAIN child : child[i].dynamic]
      Error(rc) == [rc |-> rc, code |-> <<>>, size |-> 0, dynamic |-> FALSE]
  IN CASE e.type \notin CompiledTypes -> Error("element_type")
       [] e.type = "record" /\ record.rc # "ok" -> Error(record.rc)
       [] e.type = "record" /\ record.rc = "ok" ->
            Done(data \o record.code \o (IF e.len > 0 THEN <<NextInstruction>> ELSE <<>>),
                 record.size)
       [] e.type # "record" /\ e.lim # <<>> /\ e.type \notin LimitTypes -> Error("unsupported")
       [] OTHER -> Done(IF is_pack THEN limit \o data ELSE data \o limit, SizeOf(e.type))

(* apx_compiler_compile_port: the program of a port is the header and the   *)
(* code of its effective element.                                           *)
WithHeader(element, queue, is_pack) ==
  LET header == EncodeHeader(IF is_pack THEN "pack" ELSE "unpack", element.size, queue,
                             element.dynamic)
  IN IF element.rc # "ok" THEN [rc |-> element.rc]
     ELSE IF header.rc # "ok" THEN [rc |-> header.rc]
     ELSE [rc |-> "ok", header |-> header, code |-> element.code]
apx_compiler_compile_port(port, is_pack) ==
  WithHeader(compile_data_element(port.elem, is_pack), port.queue, is_pack)
=============================================================================
