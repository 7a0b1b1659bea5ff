------------------------------ MODULE Signature ------------------------------
(***************************************************************************)
(* Data signatures: src/apx/src/signature_parser.c turns the text of one   *)
(* into a data element, apx_dataElement_to_string turns a data element     *)
(* back into text.                                                         *)
(*                                                                         *)
(* A text is a sequence of tokens [t, n, s, b]: t is the kind, which is    *)
(* the character itself except for a number "num" with the value n, and a  *)
(* quoted string "str" that reads s and has the bytes b.  White space,     *)
(* which is skipped between tokens, is left out.                           *)
(*                                                                         *)
(* An element is that of PortProgram with one more field: ref is the token *)
(* that names the type of an element of type "ref".                        *)
(***************************************************************************)
EXTENDS PortProgram

Word(t)    == [t |-> t, n |-> 0, s |-> "", b |-> <<>>]
Numeral(n)  == [Word("num") EXCEPT !.n = n]
Quoted(s)  == [Word("str") EXCEPT !.s = s]

StartsWith(toks, kinds) ==
  Len(toks) >= Len(kinds) /\ \A i \in DOMAIN kinds : toks[i].t = kinds[i]
Drop(toks, n) == SubSeq(toks, n + 1, Len(toks))

Letters == {"a", "A", "b", "B", "c", "C", "l", "L", "q", "Q", "s", "S", "T", "u", "U", "{"}
TypeOfLetter ==
  [a |-> "char", A |-> "char8", b |-> "bool", B |-> "byte", c |-> "s8", C |-> "u8",
   l |-> "s32", L |-> "u32", q |-> "s64", Q |-> "u64", s |-> "s16", S |-> "u16",
   T |-> "ref", u |-> "char16", U |-> "char32"] @@ ("{" :> "record")

NoRef == Word("none")
NewElement(type) ==
  [type |-> type, len |-> 0, dyn |-> FALSE, lim |-> <<>>, fields |-> <<>>, ref |-> NoRef]
NoElement == NewElement("none")

-----------------------------------------------------------------------------
(* apx_parserBase_parse_*: the number as a C integer of that width; none if *)
(* there is a sign where none is expected.                                  *)
apx_parserBase_parse_i32(n) == <<Signed(n, 4)>>
apx_parserBase_parse_u32(n) == IF n < 0 THEN <<>> ELSE <<n % Base^4>>
apx_parserBase_parse_i64(n) == <<Signed(n, 8)>>
apx_parserBase_parse_u64(n) == IF n < 0 THEN <<>> ELSE <<n % Base^8>>

(* Parsing returns [rc, elem, rest]: rest is what follows.                  *)
Parsed(elem, rest) == [rc |-> "ok", elem |-> elem, rest |-> rest]
Refused(rc) == [rc |-> rc, elem |-> NoElement, rest |-> <<>>]

(* A limit expression is optional: "(" lower "," upper ")".                 *)
LimitNumber(kind, n) ==
  CASE kind = "i32" -> apx_parserBase_parse_i32(n)
    [] kind = "u32" -> apx_parserBase_parse_u32(n)
    [] kind = "i64" -> apx_parserBase_parse_i64(n)
    [] kind = "u64" -> apx_parserBase_parse_u64(n)
parse_limits(e, toks, kind) ==
  IF ~StartsWith(toks, <<"(">>) THEN Parsed(e, toks)
  ELSE IF /\ StartsWith(toks, <<"(", "num", ",", "num", ")">>)
          /\ LimitNumber(kind, toks[2].n) # <<>> /\ LimitNumber(kind, toks[4].n) # <<>>
  THEN Parsed([e EXCEPT !.lim = LimitNumber(kind, toks[2].n) \o LimitNumber(kind, toks[4].n)],
              Drop(toks, 5))
  ELSE Refused("parse")
parse_limits_i32(e, toks) == parse_limits(e, toks, "i32")
parse_limits_u32(e, toks) == parse_limits(e, toks, "u32")
parse_limits_i64(e, toks) == parse_limits(e, toks, "i64")
parse_limits_u64(e, toks) == parse_limits(e, toks, "u64")
ParseLimitsOf(e, toks) ==
  CASE e.type \in {"s8", "s16", "s32"}         -> parse_limits_i32(e, toks)
    [] e.type \in {"u8", "u16", "u32", "byte"} -> parse_limits_u32(e, toks)
    [] e.type = "s64"                          -> parse_limits_i64(e, toks)
    [] e.type = "u64"                          -> parse_limits_u64(e, toks)
    [] OTHER                                   -> Parsed(e, toks)

(* An array length is optional: "[" length "]" or "[" length "*" "]".       *)
parse_array(e, toks) ==
  LET len == apx_parserBase_parse_u32(toks[2].n)
      Array(dyn, n) == Parsed([e EXCEPT !.len = len[1], !.dyn = dyn], Drop(toks, n))
  IN IF ~StartsWith(toks, <<"[">>) THEN Parsed(e, toks)
     ELSE IF StartsWith(toks, <<"[", "num", "]">>) /\ len # <<>> THEN Array(FALSE, 3)
     ELSE IF StartsWith(toks, <<"[", "num", "*", "]">>) /\ len # <<>> THEN Array(TRUE, 4)
     ELSE Refused("parse")

(* A type is referred to by number or by name.                              *)
parse_type_reference(e, toks) ==
  IF \/ StartsWith(toks, <<"[", "num", "]">>) /\ toks[2].n >= 0
     \/ StartsWith(toks, <<"[", "str", "]">>)
  THEN Parsed([e EXCEPT !.ref = toks[2]], Drop(toks, 3))
  ELSE Refused("parse")

(* One field after the other until "}".  A record that ends with "{" leaves *)
(* the parser in the state of the field that is missing: an assertion.      *)
RECURSIVE parse_data_element(_), parse_fields(_, _), AfterField(_, _, _)
AfterField(e, name, child) ==
  LET more == [e EXCEPT !.fields = Append(@, [name |-> name, elem |-> child.elem])]
  IN IF child.rc = "assert" THEN child
     ELSE IF child.rc # "ok" \/ child.elem = NoElement THEN Refused("parse")
     ELSE IF child.rest = <<>> THEN Refused("parse")
     ELSE IF child.rest[1].t = "}" THEN Parsed(more, Drop(child.rest, 1))
     ELSE parse_fields(more, child.rest)
parse_fields(e, toks) ==
  IF StartsWith(toks, <<"str">>)
  THEN AfterField(e, toks[1].s, parse_data_element(Drop(toks, 1)))
  ELSE Refused("parse")

ParseArrayOf(body) ==
  IF body.rc = "ok" THEN parse_array(body.elem, body.rest) ELSE body
(* Nothing at all is no error, and no element.                              *)
parse_data_element(toks) ==
  LET e    == NewElement(TypeOfLetter[toks[1].t])
      rest == Drop(toks, 1)
      body == CASE e.type = "ref"                    -> parse_type_reference(e, rest)
                [] e.type = "record" /\ rest = <<>>  -> Refused("assert")
                [] e.type = "record" /\ rest # <<>>  -> parse_fields(e, rest)
                [] OTHER                             -> ParseLimitsOf(e, rest)
  IN IF toks = <<>> THEN Parsed(NoElement, toks)
     ELSE IF toks[1].t \in {"[", "("} THEN Refused("not_implemented")
     ELSE IF toks[1].t \notin Letters THEN Refused("parse")
     ELSE ParseArrayOf(body)

(* state_parse_data_signature: the signature must fill the text.            *)
FillsText(result) ==
  IF result.rc = "ok" /\ result.rest # <<>> THEN Refused("stray") ELSE result
state_parse_data_signature(toks) == FillsText(parse_data_element(toks))

-----------------------------------------------------------------------------
(* Faulty variants: without the limits; normalized, no array has a length.  *)
NoLimitsToString(e) == <<>>
ArrayToStringOfAnyLength(e, normalized) ==
  IF e.len = 0 THEN <<>>
  ELSE IF normalized THEN <<Word("["), Word("*"), Word("]")>>
  ELSE <<Word("["), Numeral(e.len), Word("]")>>

(* limits_to_string, array_to_string: normalized, a dynamic array has no    *)
(* length.                                                                  *)
limits_to_string(e) ==
  IF e.lim = <<>> THEN <<>>
  ELSE <<Word("("), Numeral(e.lim[1]), Word(","), Numeral(e.lim[2]), Word(")")>>
array_to_string(e, normalized) ==
  IF e.len = 0 THEN <<>>
  ELSE IF e.dyn /\ normalized THEN <<Word("["), Word("*"), Word("]")>>
  ELSE IF e.dyn THEN <<Word("["), Numeral(e.len), Word("*"), Word("]")>>
  ELSE <<Word("["), Numeral(e.len), Word("]")>>

LetterOf(type) == CHOOSE c \in Letters : TypeOfLetter[c] = type

(* apx_dataElement_to_string: a type reference has no text, nor has a       *)
(* record with one.                                                         *)
NoText == <<>>
RECURSIVE to_string(_, _)
to_string(e, normalized) ==
  LET child(i) == to_string(e.fields[i].elem, normalized)
      fields == FoldLeft(LAMBDA text, i : text \o <<Quoted(e.fields[i].name)>> \o child(i),
                         <<>>, [i \in DOMAIN e.fields |-> i])
  IN IF e.type = "ref" \/ \E i \in DOMAIN e.fields : child(i) = NoText THEN NoText
     ELSE <<Word(LetterOf(e.type))>>
          \o (IF e.type = "record" THEN fields \o <<Word("}")>> ELSE limits_to_string(e))
          \o array_to_string(e, normalized)
=============================================================================
