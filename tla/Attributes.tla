------------------------------ MODULE Attributes -----------------------------
(***************************************************************************)
(* What follows the ":" of a declaration: src/apx/src/attribute_parser.c.  *)
(* A port has an initial value "=", a queue length "Q[n]" and a parameter  *)
(* flag "P"; a type has value tables "VT(...)" and rational scalings       *)
(* "RS(...)".  Parsing returns [rc, rest] and what was parsed.             *)
(***************************************************************************)
EXTENDS TypeModel

Scalar(n) == [k |-> "sv", v |-> n]
Text(tok) == [k |-> "str", v |-> tok.b]
Int32Max == Base^4 \div 2 - 1
Abs(n)   == IF n < 0 THEN -n ELSE n

(* apx_attributeParser_parse_integer_literal: what does not fit an int32_t  *)
(* becomes an uint32_t, and loses its sign.                                 *)
IntegerLiteral(n) ==
  IF n < 0 /\ Abs(n) = Int32Max + 1 THEN Scalar(n)
  ELSE IF Abs(n) > Int32Max THEN Scalar(Abs(n) % Base^4)
  ELSE Scalar(n)
parse_scalar(tok) == IF tok.t = "num" THEN IntegerLiteral(tok.n) ELSE Text(tok)

(* apx_attributeParser_parse_initializer_list.  open are the lists that     *)
(* were begun, the innermost last.  A comma may follow any value, the last  *)
(* one too; a text that ends behind "{" or "," yields no value at all, one  *)
(* that ends behind a value is an error.                                    *)
Into(open, val) == [open EXCEPT ![Len(open)] = Append(@, val)]
Initializer(rc, val, rest) == [rc |-> rc, val |-> val, rest |-> rest]
RECURSIVE parse_initializer_list(_, _), AfterValue(_, _)
AfterValue(toks, open) ==
  IF StartsWith(toks, <<",">>) /\ Last(open) # <<>> THEN parse_initializer_list(Drop(toks, 1), open)
  ELSE IF StartsWith(toks, <<"}">>) /\ Len(open) > 1
    THEN AfterValue(Drop(toks, 1), Into(Front(open), List(Last(open))))
  ELSE IF StartsWith(toks, <<"}">>) THEN Initializer("ok", List(Last(open)), Drop(toks, 1))
  ELSE Initializer("parse", NoValue, toks)
parse_initializer_list(toks, open) ==
  IF toks = <<>> THEN Initializer("ok", NoValue, toks)
  ELSE IF toks[1].t = "{" THEN parse_initializer_list(Drop(toks, 1), Append(open, <<>>))
  ELSE IF toks[1].t \in {"num", "str"} THEN
    (IF open = <<>> THEN Initializer("ok", parse_scalar(toks[1]), Drop(toks, 1))
     ELSE AfterValue(Drop(toks, 1), Into(open, parse_scalar(toks[1]))))
  ELSE IF open = <<>> THEN Initializer("ok", NoValue, toks)
  ELSE AfterValue(toks, open)

(* apx_attributeParser_parse_array_length.  A text that ends before "]" has *)
(* no length and is no error here; the caller stumbles over what is left,   *)
(* behind a comma too.                                                      *)
IsLength(tok) == tok.t = "num" /\ tok.n >= 0
Unclosed(toks) ==
  \/ toks = <<>>
  \/ toks[1].t = "[" /\ (Len(toks) = 1 \/ (Len(toks) = 2 /\ IsLength(toks[2])))
parse_queue_length(toks) ==
  LET Length(rc, n, rest) == [rc |-> rc, len |-> n, rest |-> rest]
  IN IF StartsWith(toks, <<"[", "num", "]">>) /\ IsLength(toks[2])
       THEN Length("ok", toks[2].n % Base^4, Drop(toks, 3))
     ELSE IF Unclosed(toks) THEN Length("ok", 0, toks)
     ELSE Length("parse", 0, toks)

NoPortAttributes == [init |-> NoValue, queue |-> 0, param |-> FALSE]
Attr(rc, attr, rest) == [rc |-> rc, attr |-> attr, rest |-> rest]
WithInit(attr, init)   == Attr(init.rc, [attr EXCEPT !.init = init.val], init.rest)
WithQueue(attr, queue) == Attr(queue.rc, [attr EXCEPT !.queue = queue.len], queue.rest)
parse_single_port_attribute(toks, attr) ==
  LET rest == Drop(toks, 1)
  IN CASE toks[1].t = "=" -> WithInit(attr, parse_initializer_list(rest, <<>>))
       [] toks[1].t = "P" -> Attr("ok", [attr EXCEPT !.param = TRUE], rest)
       [] toks[1].t = "Q" -> WithQueue(attr, parse_queue_length(rest))
       [] OTHER           -> Attr("parse", attr, toks)

-----------------------------------------------------------------------------
(* Limits of a computation: the sign of the lower one decides whether the   *)
(* range is signed.                                                         *)
NoRange == [signed |-> FALSE, lower |-> 0, upper |-> 0]
parse_lower_limit(n, range) ==
  IF n < 0 /\ Abs(n) % Base^4 > Int32Max + 1 THEN <<>>
  ELSE IF n < 0 THEN <<[range EXCEPT !.lower = n, !.signed = TRUE]>>
  ELSE <<[range EXCEPT !.lower = n % Base^4]>>
parse_upper_limit(n, range) ==
  LET fits == Abs(n) % Base^4 <= (IF n < 0 THEN Int32Max + 1 ELSE Int32Max)
  IN IF IF range.signed THEN ~fits ELSE n < 0 THEN <<>>
     ELSE <<[range EXCEPT !.upper = IF range.signed THEN n ELSE n % Base^4]>>

(* apx_attributeParser_parse_value_table_arg: up to two numbers, then       *)
(* strings.                                                                 *)
NewTable == [range |-> NoRange, num_count |-> 0, values |-> <<>>]
parse_value_table_arg(tok, vts) ==
  LET limit == IF vts.num_count = 0 THEN parse_lower_limit(tok.n, vts.range)
               ELSE parse_upper_limit(tok.n, vts.range)
  IN IF tok.t = "str" THEN <<[vts EXCEPT !.values = Append(@, tok.s)]>>
     ELSE IF tok.t = "num" /\ vts.values = <<>> /\ vts.num_count < 2 /\ limit # <<>>
       THEN <<[vts EXCEPT !.range = limit[1], !.num_count = @ + 1]>>
     ELSE <<>>

(* apx_attributeParser_create_value_table_from_state: without an upper      *)
(* limit the range ends at the last value.                                  *)
CreateValueTable(vts) ==
  LET auto == IF vts.values = <<>> THEN vts.range.lower
              ELSE vts.range.lower + Len(vts.values) - 1
  IN [kind |-> "VT", values |-> vts.values, scaling |-> <<>>,
      range |-> IF vts.num_count = 2 THEN vts.range ELSE [vts.range EXCEPT !.upper = auto]]

(* apx_attributeParser_parse_rational_scaling_arg: limits, offset,          *)
(* numerator, denominator, unit.                                            *)
NewScaling == [range |-> NoRange, args |-> 0, scaling |-> <<0, 0, 0>>, unit |-> ""]
parse_rational_scaling_arg(tok, rss) ==
  LET limit == CASE rss.args = 0 -> parse_lower_limit(tok.n, rss.range)
                 [] rss.args = 1 -> parse_upper_limit(tok.n, rss.range)
                 [] OTHER        -> <<rss.range>>
      next  == [rss EXCEPT !.args = @ + 1]
  IN IF rss.args < 5 /\ tok.t = "num" /\ limit # <<>>
       THEN <<IF rss.args < 2 THEN [next EXCEPT !.range = limit[1]]
              ELSE [next EXCEPT !.scaling[rss.args - 1] = tok.n]>>
     ELSE IF rss.args = 5 /\ tok.t = "str" THEN <<[next EXCEPT !.unit = tok.s]>>
     ELSE <<>>
CreateRationalScaling(rss) ==
  [kind |-> "RS", values |-> <<rss.unit>>, scaling |-> rss.scaling, range |-> rss.range]

(* The arguments up to ")"; a comma between two of them may be missing.     *)
RECURSIVE parse_arguments(_, _, _), AfterArgument(_, _, _, _)
AfterArgument(kind, toks, st, more) ==
  LET rest == Drop(toks, 1)
  IN IF more = <<>> THEN [rc |-> "parse", st |-> st, rest |-> toks]
     ELSE IF StartsWith(rest, <<")">>) THEN [rc |-> "ok", st |-> more[1], rest |-> Drop(rest, 1)]
     ELSE parse_arguments(kind, IF StartsWith(rest, <<",">>) THEN Drop(rest, 1) ELSE rest, more[1])
parse_arguments(kind, toks, st) ==
  AfterArgument(kind, toks, st,
                IF toks = <<>> THEN <<>>
                ELSE IF kind = "VT" THEN parse_value_table_arg(toks[1], st)
                ELSE parse_rational_scaling_arg(toks[1], st))
parse_value_table(toks)      == parse_arguments("VT", toks, NewTable)
parse_rational_scaling(toks) == parse_arguments("RS", toks, NewScaling)

WithTable(comps, vt) ==
  Attr(vt.rc, IF vt.rc = "ok" THEN Append(comps, CreateValueTable(vt.st)) ELSE comps, vt.rest)
WithScaling(comps, rs) ==
  Attr(rs.rc, IF rs.rc = "ok" THEN Append(comps, CreateRationalScaling(rs.st)) ELSE comps, rs.rest)
parse_single_type_attribute(toks, comps) ==
  IF StartsWith(toks, <<"VT", "(">>) THEN WithTable(comps, parse_value_table(Drop(toks, 2)))
  ELSE IF StartsWith(toks, <<"RS", "(">>)
    THEN WithScaling(comps, parse_rational_scaling(Drop(toks, 2)))
  ELSE Attr("parse", comps, toks)

-----------------------------------------------------------------------------
(* The loop over the attributes of a port or a type: one that cannot be     *)
(* parsed is an error only if it is the first; behind a comma it is         *)
(* ignored, with all that follows.                                          *)
RECURSIVE parse_attributes(_, _, _, _), AfterAttribute(_, _, _)
AttributeList(rc, attr) == [rc |-> rc, attr |-> attr]
AfterAttribute(kind, single, first) ==
  IF single.rc # "ok" THEN AttributeList(IF first THEN "parse" ELSE "ok", single.attr)
  ELSE IF single.rest = <<>> THEN AttributeList("ok", single.attr)
  ELSE IF single.rest[1].t = ","
    THEN parse_attributes(kind, Drop(single.rest, 1), single.attr, FALSE)
  ELSE AttributeList("parse", single.attr)
parse_attributes(kind, toks, attr, first) ==
  IF toks = <<>> THEN AttributeList("ok", attr)
  ELSE AfterAttribute(kind, IF kind = "port" THEN parse_single_port_attribute(toks, attr)
                            ELSE parse_single_type_attribute(toks, attr), first)
state_parse_port_attributes(toks) == parse_attributes("port", toks, NoPortAttributes, TRUE)
state_parse_type_attributes(toks) == parse_attributes("type", toks, <<>>, TRUE)
=============================================================================
