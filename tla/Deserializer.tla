----------------------------- MODULE Deserializer -----------------------------
(***************************************************************************)
(* src/apx/src/deserializer.c: the half of the virtual machine that reads. *)
(* Same conventions as in Serializer: an operator maps a machine to the    *)
(* machine after the call, the values are built bottom up on the stack.    *)
(***************************************************************************)
EXTENDS Serializer

Null   == [k |-> "null"]
NoName == "-"

(* state_create / state_reset.                                              *)
ReadState == [val |-> Null, type |-> "none", len |-> 0, dynsize |-> 0, index |-> 0,
              last |-> FALSE, name |-> NoName]
SetVal(m, val) == SetTop(m, [Top(m) EXCEPT !.val = val])

(* Faulty variant: reads on behind the last byte of a dynamic array.        *)
prepare_for_dense_read(m, type) ==
  LET read_type == IF type = "char8" THEN "char" ELSE type
  IN [SetTop(m, [ReadState EXCEPT !.type = read_type]) EXCEPT !.buf.pad = NoPad]

(* deserializer_prepare_for_buffer_read: the current state starts afresh; a *)
(* char8 is read as a char.                                                 *)
prepare_for_buffer_read(m, type) ==
  LET read_type == IF type = "char8" THEN "char" ELSE type
      fresh == SetTop(m, [ReadState EXCEPT !.type = read_type])
  IN IF m.buf.next > Len(m.buf.cells) THEN Fail(m, "missing_buffer")
     ELSE IF m.buf.pad = NoPad THEN fresh
     ELSE IF m.buf.pad > Len(m.buf.cells) THEN Fail(m, "boundary")
     ELSE [fresh EXCEPT !.buf.next = m.buf.pad, !.buf.pad = NoPad]

Read(buf, size) == SubSeq(buf.cells, buf.next + 1, buf.next + size)
Advance(m, size) == [m EXCEPT !.buf.next = @ + size]

(* deserializer_prepare_for_array: the length of a dynamic array comes from *)
(* the buffer; where the padding ends is only looked at by the next read.   *)
prepare_for_array_read(m, len, dynsize) ==
  LET st == Top(m)
      n  == Number(Read(m.buf, dynsize))
      sized == Advance(SetTop(m, [st EXCEPT !.len = n, !.dynsize = dynsize]), dynsize)
  IN IF len = 0 THEN m
     ELSE IF dynsize = 0 THEN SetTop(m, [st EXCEPT !.len = len])
     ELSE IF dynsize > Room(m.buf) THEN Fail(m, "boundary")
     ELSE IF n > len THEN Fail(sized, "length")
     ELSE IF SizeOf(st.type) = 0 THEN Fail(sized, "assert")
     ELSE [sized EXCEPT !.buf.pad = sized.buf.next + len * SizeOf(st.type)]

(* state_read_scalar_value, state_set_scalar_value_from_storage.            *)
ScalarOf(type, cells) ==
  CASE type = "bool"         -> [k |-> "sv", v |-> IF Number(cells) = 0 THEN 0 ELSE 1]
    [] type \in SignedTypes  -> [k |-> "sv", v |-> Signed(Number(cells), SizeOf(type))]
    [] type = "byte"         -> [k |-> "str", v |-> cells]
    [] OTHER                 -> [k |-> "sv", v |-> Number(cells)]

unpack_scalar_value(m) ==
  LET size == SizeOf(Top(m).type)
  IN IF size > Room(m.buf) THEN Fail(m, "boundary")
     ELSE SetVal(Advance(m, size), ScalarOf(Top(m).type, Read(m.buf, size)))

unpack_array_of_scalar(m) ==
  LET type == Top(m).type
      len  == Top(m).len
      size == SizeOf(type)
      Element(i) == ScalarOf(type, SubSeq(m.buf.cells, m.buf.next + (i-1) * size + 1,
                                          m.buf.next + i * size))
  IN IF len * size > Room(m.buf) THEN Fail(m, "boundary")
     ELSE SetVal(Advance(m, len * size), [k |-> "av", v |-> [i \in 1..len |-> Element(i)]])

(* A string of fixed length ends at its first zero, a dynamic one does not. *)
unpack_string(m) ==
  LET st    == Top(m)
      chars == Read(m.buf, IF st.len <= Room(m.buf) THEN st.len ELSE Room(m.buf))
      zeros == {i \in DOMAIN chars : chars[i] = 0 /\ st.dynsize = 0}
      text  == IF zeros = {} THEN chars
               ELSE SubSeq(chars, 1, (CHOOSE i \in zeros : \A j \in zeros : i <= j) - 1)
  IN IF zeros = {} /\ st.len > Room(m.buf) THEN Fail(m, "boundary")
     ELSE SetVal(Advance(m, st.len), [k |-> "str", v |-> text])

unpack_byte_array_internal(m) ==
  LET len == Top(m).len
  IN IF len > Room(m.buf) THEN Fail(m, "boundary")
     ELSE SetVal(Advance(m, len), [k |-> "str", v |-> Read(m.buf, len)])

(* A record starts as an empty hash; of an array, its first element becomes *)
(* the current state.                                                       *)
EmptyHash == [k |-> "hv", v |-> <<>>]
RecordState == [ReadState EXCEPT !.val = EmptyHash, !.type = "record"]
unpack_record_value(m) ==
  IF Top(m).len = 0 THEN SetVal(m, EmptyHash)
  ELSE Push(SetVal(m, [k |-> "av", v |-> <<>>]), RecordState)

(* deserializer_pop_state: the value of the child goes into its parent, and *)
(* on to the parent's parent if the child was the last field.               *)
RECURSIVE pop_read_state(_)
pop_read_state(m) ==
  LET child  == Top(m)
      popped == [m EXCEPT !.stack = Front(@)]
      parent == Top(popped)
      merged == IF parent.val.k = "hv"
                  THEN SetVal(popped, [k |-> "hv", v |-> (parent.name :> child.val) @@ parent.val.v])
                  ELSE SetVal(popped, [k |-> "av", v |-> Append(parent.val.v, child.val)])
  IN IF Len(m.stack) = 1 THEN m
     ELSE IF parent.type # "record" \/ parent.val.k \notin {"hv", "av"}
       THEN Fail(popped, "not_implemented")
     ELSE IF parent.val.k = "hv" /\ parent.name = NoName THEN Fail(popped, "name_missing")
     ELSE IF child.val = Null THEN Fail(popped, "type")
     ELSE IF Top(merged).last THEN pop_read_state(merged)
     ELSE merged

unpack_value(m) ==
  LET st == Top(m)
  IN CASE st.len = 0 /\ st.dynsize # 0 -> Fail(m, "invalid_argument")
       [] st.len = 0 /\ st.dynsize = 0 /\ st.type \in NumOrBool \cup {"char", "byte"} ->
            Then(unpack_scalar_value(m), pop_read_state)
       [] st.len > 0 /\ st.type \in NumOrBool ->
            Then(unpack_array_of_scalar(m), pop_read_state)
       [] st.len > 0 /\ st.type = "char" -> Then(unpack_string(m), pop_read_state)
       [] st.len > 0 /\ st.type = "byte" -> Then(unpack_byte_array_internal(m), pop_read_state)
       [] st.type = "record" /\ ~(st.len = 0 /\ st.dynsize # 0) -> unpack_record_value(m)

(* apx_vm_deserializer_unpack_uint8 .. _unpack_record.                      *)
Unpack(m, inst) ==
  LET Array(n) == prepare_for_array_read(n, inst.len, inst.dynsize)
  IN Then(Then(prepare_for_buffer_read(m, inst.type), Array), unpack_value)

(* apx_vm_deserializer_record_select.                                       *)
SelectRead(m, inst) ==
  IF Top(m).val.k # "hv" THEN Fail(m, "type")
  ELSE Push(SetTop(m, [Top(m) EXCEPT !.name = inst.name, !.last = inst.last]), ReadState)

(* apx_vm_value_in_range_*: a limit that is the smallest or the largest     *)
(* number of its C type is none.                                            *)
InRange(v, lower, upper, min, max) ==
  /\ lower > min => v >= lower
  /\ upper < max => v <= upper

(* state_store_scalar_value: the C type that a number is converted to for   *)
(* the comparison.  The unsigned 32-bit check compares signed numbers.      *)
ComparedType(int) == IF int = "u32" THEN "s32" ELSE int
Compared(n, int) == IF int = "u32" THEN Signed(n, 4) ELSE n

(* The 64-bit checks store the elements of arrays, and an unsigned scalar,  *)
(* with another type than the one they then assert.                         *)
StoredWithOtherType(val, int) ==
  \/ int = "u64"
  \/ int = "s64" /\ val.k = "av" /\ val.v # <<>>

(* apx_vm_deserializer_check_value_range_*.                                 *)
CheckReadRange(m, limit) ==
  LET val == Top(m).val
      int == StorageOf(limit.type)
      Inside(elem) == InRange(Compared(elem.v, int), Compared(limit.lower, int),
                              Compared(limit.upper, int),
                              MinOf(ComparedType(int)), MaxOf(ComparedType(int)))
  IN IF val.k \in {"hv", "null"} THEN Fail(m, "unsupported")
     ELSE IF val.k = "str" THEN Fail(m, "conversion")
     ELSE IF StoredWithOtherType(val, int) THEN Fail(m, "assert")
     ELSE IF \A i \in DOMAIN Scalars(val) : Inside(Scalars(val)[i]) THEN m
     ELSE Fail(m, "range")

(* apx_vm_deserializer_array_next.                                          *)
NextRead(m) ==
  LET st == [Top(m) EXCEPT !.index = @ + 1]
  IN IF st.val.k # "av" THEN Fail(m, "type")
     ELSE IF st.len = 0 THEN Fail(m, "internal")
     ELSE IF IsLastIndex(Top(m)) THEN SetTop(m, st)
     ELSE IF st.type # "record" THEN Fail(SetTop(m, st), "not_implemented")
     ELSE Push(SetTop(m, st), RecordState)

(* apx_vm_unpack_value takes the value of the current state.                *)
TakeValue(m) == IF Top(m).val = Null THEN Fail(m, "type") ELSE SetVal(m, Null)
=============================================================================
