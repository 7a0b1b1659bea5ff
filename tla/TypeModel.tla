------------------------------ MODULE TypeModel ------------------------------
(***************************************************************************)
(* What the declarations of a definition mean: references to types are     *)
(* resolved (derive_types), the element of a port is cloned with its array *)
(* length (flatten), and the text of an initial value becomes a value of   *)
(* the port (src/apx/src/data_element.c, data_type.c, port.c).             *)
(*                                                                         *)
(* types is the sequence of the types that were declared so far, each one  *)
(* [name, elem, comps].  A type reference that has been resolved is the    *)
(* pointer REF_PTR in the program; here the reference is looked up again.  *)
(***************************************************************************)
EXTENDS Signature

CONSTANT MaxTypeRefFollow   \* MAX_TYPE_REF_FOLLOW_COUNT of types.h

NoValue == [k |-> "none"]

(* The index of the type that a reference means, 0 if there is none: of two *)
(* types with one name the second is never entered.                         *)
TypeIndex(ref, types) ==
  LET named == {i \in DOMAIN types : types[i].name = ref.s}
  IN IF ref.t = "num" THEN IF ref.n < Len(types) THEN ref.n + 1 ELSE 0
     ELSE IF named = {} THEN 0 ELSE CHOOSE i \in named : TRUE
Target(e, types) == types[TypeIndex(e.ref, types)].elem

(* The error of the first child that has one.                               *)
FirstError(rcs) ==
  LET bad == {i \in DOMAIN rcs : rcs[i] # "ok"}
  IN IF bad = {} THEN "ok" ELSE rcs[CHOOSE i \in bad : \A j \in bad : i <= j]

(* apx_dataElement_derive_types_on_element.  A number one behind the last   *)
(* type passes the check and finds no type.  seen are the types on the way  *)
(* here: one that is reached again recurses without end.                    *)
RECURSIVE derive_types_on_element(_, _, _)
derive_types_on_element(e, types, seen) ==
  LET i == TypeIndex(e.ref, types)
  IN CASE e.type = "record" ->
            FirstError([j \in DOMAIN e.fields |->
                          derive_types_on_element(e.fields[j].elem, types, seen)])
       [] e.type = "ref" /\ i = 0 ->
            IF e.ref.t = "num" /\ e.ref.n = Len(types) THEN "null_ptr" ELSE "invalid_type_ref"
       [] e.type = "ref" /\ i # 0 ->
            IF types[i].elem = NoElement THEN "null_ptr"
            ELSE IF i \in seen THEN "overflow"
            ELSE derive_types_on_element(types[i].elem, types, seen \cup {i})
       [] OTHER -> "ok"

(* apx_dataType_derive_data_element: from a type to the first element that  *)
(* is no reference; parent is the last reference on the way.                *)
RECURSIVE FollowReferences(_, _, _, _)
FollowReferences(e, parent, types, count) ==
  IF e.type # "ref" THEN [rc |-> "ok", elem |-> e, parent |-> parent]
  ELSE IF count = MaxTypeRefFollow THEN [rc |-> "too_many", elem |-> e, parent |-> parent]
  ELSE FollowReferences(Target(e, types), e, types, count + 1)
derive_data_element(e, types) ==
  IF e.type # "ref" THEN [rc |-> "ok", elem |-> e, parent |-> NoElement]
  ELSE FollowReferences(Target(e, types), e, types, 0)

(* apx_dataElement_clone: the limits of a byte are not among those copied.  *)
RECURSIVE clone(_)
clone(e) ==
  [e EXCEPT !.lim = IF e.type = "byte" /\ @ # <<>> THEN <<0, 0>> ELSE @,
            !.fields = [i \in DOMAIN @ |-> [@[i] EXCEPT !.elem = clone(@)]]]

(* Faulty variant: the array length of the reference is not taken over.     *)
flatten_data_element_only(e, types) ==
  LET derived == derive_data_element(e, types)
  IN [rc |-> derived.rc, elem |-> clone(derived.elem)]

(* apx_port_flatten_data_element: a reference with an array length makes an *)
(* array of its type, which must not be an array itself.                    *)
flatten_data_element(e, types) ==
  LET derived == derive_data_element(e, types)
      cloned  == clone(derived.elem)
      parent  == derived.parent
  IN IF derived.rc # "ok" THEN [rc |-> derived.rc, elem |-> e]
     ELSE IF parent.len > 0 /\ cloned.len > 0 THEN [rc |-> "parse", elem |-> e]
     ELSE IF parent.len > 0
       THEN [rc |-> "ok", elem |-> [cloned EXCEPT !.len = parent.len, !.dyn = @ \/ parent.dyn]]
     ELSE [rc |-> "ok", elem |-> cloned]

(* The element with its fields derived, as compile_record_fields and        *)
(* derive_hash_init_value derive them: the array length of a reference in a *)
(* field counts for nothing.                                                *)
RECURSIVE WithFieldsDerived(_, _)
WithFieldsDerived(e, types) ==
  [e EXCEPT !.fields = [i \in DOMAIN @ |->
     [@[i] EXCEPT !.elem = WithFieldsDerived(derive_data_element(@, types).elem, types)]]]

-----------------------------------------------------------------------------
(* apx_dataElement_derive_proper_init_value.  Results are [rc, val].        *)
Value(val) == [rc |-> "ok", val |-> val]
NotAValue(rc) == [rc |-> rc, val |-> NoValue]
IsScalar(val) == val.k \in {"sv", "str"}
List(vals) == [k |-> "av", v |-> vals]

RECURSIVE derive_proper_init_value(_, _), derive_hash_init_value(_, _)
(* A record takes the values of a list in the order of its fields.          *)
derive_hash_init_value(e, vals) ==
  LET child  == [i \in DOMAIN e.fields |-> derive_proper_init_value(e.fields[i].elem, vals[i])]
      failed == FirstError([i \in DOMAIN child |-> child[i].rc])
      Index(name) == CHOOSE i \in DOMAIN child :
                       /\ e.fields[i].name = name
                       /\ \A j \in DOMAIN child : e.fields[j].name = name => j <= i
  IN IF Len(vals) # Len(e.fields) THEN NotAValue("length")
     ELSE IF failed # "ok" THEN NotAValue(failed)
     ELSE Value([k |-> "hv",
                 v |-> [name \in {e.fields[i].name : i \in DOMAIN child} |-> child[Index(name)].val]])

(* An array of records skips what is no list.                               *)
RecordsOf(e, vals) ==
  LET lists   == SelectSeq(vals, LAMBDA val : val.k = "av")
      records == [i \in DOMAIN lists |-> derive_hash_init_value(e, lists[i].v)]
      failed  == FirstError([i \in DOMAIN records |-> records[i].rc])
  IN IF failed # "ok" THEN NotAValue(failed)
     ELSE Value(List([i \in DOMAIN records |-> records[i].val]))

(* A dynamic array can only start empty; a fixed one has all its elements;  *)
(* characters are a string.                                                 *)
derive_proper_init_value(e, val) ==
  LET list == IF val.k = "av" THEN val.v ELSE <<>>
  IN CASE e.type = "record" /\ val.k # "av" -> NotAValue("type")
       [] e.type = "record" /\ val.k = "av" ->
            IF e.len = 0 THEN derive_hash_init_value(e, list)
            ELSE IF e.dyn THEN (IF list = <<>> THEN Value(List(<<>>)) ELSE NotAValue("not_implemented"))
            ELSE IF Len(list) # e.len THEN NotAValue("length")
            ELSE RecordsOf(e, list)
       [] e.type # "record" /\ e.len > 0 /\ val.k = "av" ->
            IF e.dyn THEN (IF list = <<>> THEN Value(List(<<>>)) ELSE NotAValue("unsupported"))
            ELSE IF Len(list) # e.len THEN NotAValue("length")
            ELSE IF \A i \in DOMAIN list : IsScalar(list[i]) THEN Value(val)
            ELSE NotAValue("type")
       [] e.type # "record" /\ e.len > 0 /\ val.k # "av" ->
            IF val.k = "str" /\ e.type \in CharTypes THEN Value(val) ELSE NotAValue("type")
       [] e.type # "record" /\ e.len = 0 ->
            IF IsScalar(val) THEN Value(val) ELSE NotAValue("type")
=============================================================================
