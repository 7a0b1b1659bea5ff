------------------------------ MODULE Serializer ------------------------------
(***************************************************************************)
(* src/apx/src/serializer.c: the half of the virtual machine that writes.  *)
(*                                                                         *)
(* A value is [k |-> "sv", v |-> integer], [k |-> "str", v |-> sequence of *)
(* bytes] (a string or a byte array), [k |-> "av", v |-> sequence of       *)
(* values] or [k |-> "hv", v |-> function from field names to values].     *)
(*                                                                         *)
(* The operators map a machine m = [rc, stack, buf] to the machine after   *)
(* the call: rc is the error code, the last element of stack is            *)
(* self->state, and buf = [cells, next, pad] is the buffer with the        *)
(* offsets next and padded_next.  Nothing is undone when a call fails.     *)
(***************************************************************************)
EXTENDS PortProgram

NoPad == -1
Fail(m, rc) == [m EXCEPT !.rc = rc]
Then(m, F(_)) == IF m.rc = "ok" THEN F(m) ELSE m
Top(m) == Last(m.stack)
SetTop(m, st) == [m EXCEPT !.stack = ReplaceAt(m.stack, Len(m.stack), st)]
Push(m, st) == [m EXCEPT !.stack = Append(m.stack, st)]

NewBuffer(cells) == [cells |-> cells, next |-> 0, pad |-> NoPad]
Room(buf) == Len(buf.cells) - buf.next
Cells(n, size) == [i \in 1..size |-> ((n % Base^size) \div Base^(i-1)) % Base]
Number(cells) == FoldLeft(Sum2, 0, [i \in DOMAIN cells |-> cells[i] * Base^(i-1)])

(* Stores the bytes at next, the buffer having room for them, and moves on. *)
Put(m, bytes) ==
  [m EXCEPT !.buf.cells = [i \in DOMAIN @ |-> IF i - m.buf.next \in DOMAIN bytes
                                              THEN bytes[i - m.buf.next] ELSE @[i]],
            !.buf.next  = @ + Len(bytes)]

(* state_set_value: the state of a value that nothing is known of yet.      *)
WriteState(val) ==
  [val |-> val, type |-> "none", len |-> 0, dynsize |-> 0, index |-> 0, last |-> FALSE,
   checked |-> FALSE]

(* dtl_sv_to_u32, _i32, _u64, _i64 and _bool: whether the number fits the   *)
(* C type that the value is converted to.                                   *)
StorageOf(type) == CASE type \in {"u8", "u16", "u32", "byte"} -> "u32"
                     [] type \in {"s8", "s16", "s32"}         -> "s32"
                     [] OTHER                                 -> type
Converts(val, type) ==
  /\ val.k = "sv"
  /\ type = "bool" \/ val.v \in MinOf(StorageOf(type)) .. MaxOf(StorageOf(type))
InDefaultRange(val, type) == type = "bool" \/ val.v \in MinOf(type) .. MaxOf(type)
Scalars(val) == IF val.k = "av" THEN val.v ELSE <<val>>

(* Faulty variant: looks at the first element of an array only.             *)
CheckWriteRangeOfFirst(m, limit) ==
  LET st == Top(m)
  IN IF st.val.k = "hv" THEN Fail(m, "unsupported")
     ELSE IF \E i \in DOMAIN Scalars(st.val) : ~Converts(Scalars(st.val)[i], limit.type)
       THEN Fail(m, "conversion")
     ELSE IF Scalars(st.val) # <<>> /\ Scalars(st.val)[1].v \notin limit.lower .. limit.upper
       THEN Fail(m, "range")
     ELSE SetTop(m, [st EXCEPT !.checked = TRUE])

(* apx_vm_serializer_check_value_range_*: all elements of an array.         *)
CheckWriteRange(m, limit) ==
  LET st == Top(m)
  IN IF st.val.k = "hv" THEN Fail(m, "unsupported")
     ELSE IF \E i \in DOMAIN Scalars(st.val) : ~Converts(Scalars(st.val)[i], limit.type)
       THEN Fail(m, "conversion")
     ELSE IF \E i \in DOMAIN Scalars(st.val) :
               Scalars(st.val)[i].v \notin limit.lower .. limit.upper
       THEN Fail(m, "range")
     ELSE SetTop(m, [st EXCEPT !.checked = TRUE])

(* serializer_prepare_for_buffer_write: the padding of a dynamic array that *)
(* came before is skipped only now.                                         *)
prepare_for_buffer_write(m, type) ==
  LET typed == SetTop(m, [Top(m) EXCEPT !.type = type])
  IN IF m.buf.pad = NoPad THEN typed
     ELSE IF m.buf.pad > Len(m.buf.cells) THEN Fail(m, "boundary")
     ELSE [typed EXCEPT !.buf.next = m.buf.pad, !.buf.pad = NoPad]

(* Faulty variant: keeps no room behind a dynamic array that is short.      *)
prepare_for_short_array_write(m, len, dynsize) ==
  LET st == Top(m)
      n  == IF st.val.k = "sv" THEN st.len ELSE Len(st.val.v)
      pad == m.buf.next + dynsize + n * SizeOf(st.type)
  IN IF len = 0 THEN m
     ELSE IF dynsize = 0 THEN SetTop(m, [st EXCEPT !.len = len])
     ELSE IF st.val.k = "hv" THEN Fail(m, "type")
     ELSE IF n > len THEN Fail(m, "length")
     ELSE [SetTop(m, [st EXCEPT !.len = n, !.dynsize = dynsize]) EXCEPT !.buf.pad = pad]

(* serializer_prepare_for_array: a dynamic array takes its length from the  *)
(* value, and reserves the room of the longest one.                         *)
prepare_for_array_write(m, len, dynsize) ==
  LET st == Top(m)
      n  == IF st.val.k = "sv" THEN st.len ELSE Len(st.val.v)
      pad == m.buf.next + dynsize + len * SizeOf(st.type)
  IN IF len = 0 THEN m
     ELSE IF dynsize = 0 THEN SetTop(m, [st EXCEPT !.len = len])
     ELSE IF st.val.k = "hv" THEN Fail(m, "type")
     ELSE IF n > len THEN Fail(m, "length")
     ELSE IF SizeOf(st.type) = 0 THEN Fail(m, "assert")
     ELSE IF pad > Len(m.buf.cells) THEN Fail(m, "boundary")
     ELSE [SetTop(m, [st EXCEPT !.len = n, !.dynsize = dynsize]) EXCEPT !.buf.pad = pad]

(* serializer_write_dynamic_value_to_buffer.                                *)
write_length(m) ==
  IF Top(m).dynsize = 0 THEN m
  ELSE IF Top(m).dynsize > Room(m.buf) THEN Fail(m, "full")
  ELSE Put(m, Cells(Top(m).len, Top(m).dynsize))

(* state_default_range_check_value: skipped for what a limit check passed.  *)
default_range_check(m) ==
  LET st == Top(m)
  IN IF st.checked THEN m
     ELSE IF \E i \in DOMAIN Scalars(st.val) : ~Converts(Scalars(st.val)[i], st.type)
       THEN Fail(m, "conversion")
     ELSE IF \E i \in DOMAIN Scalars(st.val) : ~InDefaultRange(Scalars(st.val)[i], st.type)
       THEN Fail(m, "range")
     ELSE m

ScalarCells(val, type) ==
  IF type = "bool" THEN <<IF val.v = 0 THEN 0 ELSE 1>> ELSE Cells(val.v, SizeOf(type))

(* The numbers that fit are written even if the rest does not.              *)
pack_scalar_value_internal(m, val) ==
  IF SizeOf(Top(m).type) > Room(m.buf) THEN Fail(m, "boundary")
  ELSE Put(m, ScalarCells(val, Top(m).type))

pack_scalar_value(m) ==
  IF Top(m).val.k # "sv" THEN Fail(m, "type")
  ELSE LET Store(n) == pack_scalar_value_internal(n, Top(n).val)
       IN Then(default_range_check(m), Store)

pack_array_of_scalar(m) ==
  LET st == Top(m)
      Step(n, val) == IF n.rc = "ok" THEN pack_scalar_value_internal(n, val) ELSE n
      Store(n) == FoldLeft(Step, n, st.val.v)
  IN IF st.val.k # "av" THEN Fail(m, "type")
     ELSE IF st.dynsize = 0 /\ Len(st.val.v) # st.len THEN Fail(m, "length")
     ELSE Then(default_range_check(m), Store)

(* serializer_pack_string: the rest of a string is filled with zeros.       *)
pack_string(m) ==
  LET st == Top(m)
  IN IF st.val.k # "str" THEN Fail(m, "type")
     ELSE IF st.len > Room(m.buf) \/ Len(st.val.v) > st.len THEN Fail(m, "boundary")
     ELSE Put(m, [i \in 1..st.len |-> IF i <= Len(st.val.v) THEN st.val.v[i] ELSE 0])

pack_byte_array(m) ==
  LET st == Top(m)
  IN IF st.val.k # "str" THEN Fail(m, "type")
     ELSE IF st.dynsize = 0 /\ Len(st.val.v) # st.len THEN Fail(m, "length")
     ELSE IF st.len > Room(m.buf) THEN Fail(m, "boundary")
     ELSE Put(m, st.val.v)

(* serializer_pack_record_value: nothing is written; of an array, the first *)
(* element becomes the current state.                                       *)
pack_record_value(m) ==
  LET st == Top(m)
      entered == Push(m, WriteState(st.val.v[1]))
  IN IF st.len = 0
       THEN IF st.val.k = "hv" THEN m ELSE Fail(m, "type")
     ELSE IF st.val.k # "av" THEN Fail(m, "type")
     ELSE IF st.dynsize = 0 /\ Len(st.val.v) # st.len THEN Fail(m, "length")
     ELSE IF Top(entered).val.k # "hv" THEN Fail(entered, "type")
     ELSE entered

(* serializer_pop_state: back to the parent, and on to its parent as long   *)
(* as the field that ends here was the last one.                            *)
PopTo(stack) == CHOOSE d \in 1 .. Len(stack) - 1 :
                  /\ d = 1 \/ ~stack[d].last
                  /\ \A j \in d + 1 .. Len(stack) - 1 : stack[j].last
pop_write_state(m) ==
  IF Len(m.stack) = 1 THEN m ELSE [m EXCEPT !.stack = SubSeq(@, 1, PopTo(@))]

pack_value(m) ==
  LET type == Top(m).type
      Body(n) ==
        CASE Top(n).len = 0 /\ Top(n).dynsize # 0 -> n
          [] Top(n).len = 0 /\ Top(n).dynsize = 0 /\ type \in NumOrBool -> pack_scalar_value(n)
          [] Top(n).len > 0 /\ type \in NumOrBool -> pack_array_of_scalar(n)
          [] Top(n).len > 0 /\ type \in CharTypes -> pack_string(n)
          [] Top(n).len > 0 /\ type = "byte"      -> pack_byte_array(n)
          [] type = "record" /\ Top(n).dynsize = 0 -> pack_record_value(n)
          [] OTHER -> Fail(n, "not_implemented")
      Pop(n) == IF type = "record" THEN n ELSE pop_write_state(n)
  IN Then(Then(write_length(m), Body), Pop)

(* apx_vm_serializer_pack_uint8 .. _pack_record; a byte is an array of one. *)
Pack(m, inst) ==
  LET len == IF inst.type = "byte" /\ inst.len = 0 THEN 1 ELSE inst.len
      Array(n) == prepare_for_array_write(n, len, inst.dynsize)
  IN Then(Then(prepare_for_buffer_write(m, inst.type), Array), pack_value)

(* apx_vm_serializer_record_select.                                         *)
SelectWrite(m, inst) ==
  LET st == Top(m)
  IN IF st.val.k # "hv" THEN Fail(m, "type")
     ELSE IF inst.name \notin DOMAIN st.val.v THEN Fail(m, "not_found")
     ELSE Push(SetTop(m, [st EXCEPT !.last = inst.last]), WriteState(st.val.v[inst.name]))

(* apx_vm_serializer_array_next and _deserializer_array_next: is_last.      *)
IsLastIndex(st) == st.index + 1 = st.len
NextWrite(m) ==
  LET st == [Top(m) EXCEPT !.index = @ + 1]
  IN IF st.val.k # "av" THEN Fail(m, "type")
     ELSE IF st.len = 0 THEN Fail(m, "internal")
     ELSE IF IsLastIndex(Top(m)) THEN SetTop(m, st)
     ELSE Push(SetTop(m, st), WriteState(st.val.v[st.index + 1]))
=============================================================================
