---------------------------- MODULE ProgramHeader ----------------------------
(***************************************************************************)
(* The header of a byte code program (src/apx/src/program.c): how the      *)
(* element size and the queue length of a port are encoded in it, and how  *)
(* the virtual machine recovers them.  The header stores the size of the   *)
(* whole data, length field of the queue included, and the size of one     *)
(* element; the queue length is not stored but recomputed by a division.   *)
(*                                                                         *)
(* The widths of the integers are parameters: U8Max, U16Max and U32Max are *)
(* UINT8_MAX, UINT16_MAX and UINT32_MAX.  TLC uses small ones.             *)
(***************************************************************************)
EXTENDS Integers

CONSTANTS U8Max, U16Max, U32Max

ASSUME WidthAssumption ==
  /\ U8Max \in Nat /\ U16Max \in Nat /\ U32Max \in Nat
  /\ 4 <= U32Max
  /\ U8Max < U16Max /\ U16Max < U32Max

(* The variants of a number in the byte code; apx_vm_variant_to_size.       *)
UINT8  == 0
UINT16 == 1
UINT32 == 2
Variants == {UINT8, UINT16, UINT32}
VariantSize(variant) == IF variant = UINT8 THEN 1 ELSE IF variant = UINT16 THEN 2 ELSE 4
VariantMax(variant) ==
  IF variant = UINT8 THEN U8Max ELSE IF variant = UINT16 THEN U16Max ELSE U32Max

(* The narrowest variant that holds n: the chain of comparisons that the    *)
(* code repeats for the data size, the element size, the queue length and   *)
(* the length of an array (apx_vm_size_to_size_type).                       *)
VariantOf(n) == IF n <= U8Max THEN UINT8 ELSE IF n <= U16Max THEN UINT16 ELSE UINT32

(* What is left of n in a field of that variant (packLE, then unpackLE).    *)
Stored(n, variant) == n % (VariantMax(variant) + 1)

(* DATA_SIZE variants 3..11: the element variant chooses the base, the      *)
(* variant of the queue length is added to it.                              *)
ELEMENT_SIZE_U8_BASE  == 3
ELEMENT_SIZE_U16_BASE == 6
ELEMENT_SIZE_U32_BASE == 9
ELEMENT_SIZE_LAST     == 11
ElementBase(variant) ==
  IF variant = UINT8 THEN ELEMENT_SIZE_U8_BASE
  ELSE IF variant = UINT16 THEN ELEMENT_SIZE_U16_BASE ELSE ELEMENT_SIZE_U32_BASE
DataSizeVariant(element_variant, queue_variant) == ElementBase(element_variant) + queue_variant

(* The number of bytes of a port's data.                                    *)
DataSize(element_size, queue_length) ==
  IF queue_length = 0 THEN element_size
  ELSE VariantSize(VariantOf(queue_length)) + element_size * queue_length

(* A header is "queued" when the queue flag of its first byte is set; only  *)
(* then the instruction and the element size follow the data size.          *)
EncodeHeader(program_type, element_size, queue_length, is_dynamic) ==
  LET size      == DataSize(element_size, queue_length)
      data_var  == VariantOf(size)
      elem_var  == VariantOf(element_size)
      is_queued == queue_length > 0
  IN IF size > U32Max
       THEN [rc |-> "length"]
       ELSE [rc |-> "ok", type |-> program_type, dynamic |-> is_dynamic,
             queued |-> is_queued, data_variant |-> data_var, data |-> Stored(size, data_var),
             instruction |-> IF is_queued THEN DataSizeVariant(elem_var, VariantOf(queue_length))
                             ELSE 0,
             element |-> IF is_queued THEN Stored(element_size, elem_var) ELSE 0]

(* The element variant and the variant of the queue length, taken apart     *)
(* again.                                                                   *)
ElementVariantOf(instruction) ==
  IF instruction < ELEMENT_SIZE_U16_BASE THEN UINT8
  ELSE IF instruction < ELEMENT_SIZE_U32_BASE THEN UINT16 ELSE UINT32
QueueVariantOf(instruction) == instruction - ElementBase(ElementVariantOf(instruction))

DecodeHeader(h) ==
  LET lsize == VariantSize(QueueVariantOf(h.instruction))
      rest  == h.data - lsize
      Result(element_size, queue_length) ==
        [rc |-> "ok", type |-> h.type, dynamic |-> h.dynamic, data_size |-> h.data,
         element_size |-> element_size, queue_length |-> queue_length]
  IN IF ~h.queued THEN Result(0, 0)
     ELSE IF \/ h.instruction \notin ELEMENT_SIZE_U8_BASE .. ELEMENT_SIZE_LAST
             \/ lsize > h.data
             \/ h.element = 0
            THEN [rc |-> "parse"]
     ELSE IF rest % h.element # 0 THEN [rc |-> "invalid_header"]
     ELSE Result(h.element, rest \div h.element)
=============================================================================
