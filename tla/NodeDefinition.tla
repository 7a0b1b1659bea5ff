---------------------------- MODULE NodeDefinition ----------------------------
(***************************************************************************)
(* From the text of an APX definition to a node instance: the stream that  *)
(* cuts a text into lines (src/apx/src/stream.c), the parser that reads    *)
(* them (parser.c), the node they describe (node.c) and the node manager   *)
(* that compiles it and packs its initial data (node_manager.c).           *)
(*                                                                         *)
(* One node manager has one parser and one stream for all the texts that   *)
(* it is given, one after the other; what one text leaves behind is what   *)
(* the next one starts with.  A client builds a node at once; in a server  *)
(* the node was attached by its file information, waiting for the text.    *)
(*                                                                         *)
(* A text is [name, lines, tail]: the name of its definition file, the     *)
(* lines that end with a line feed, and in tail the line, if any, that     *)
(* does not.  A line is [k, name, sig, attr]: k is "APX", "N", "T", "R",   *)
(* "P", "" if it is empty or "junk"; sig are the tokens up to the ":", and *)
(* attr is <<>>, or <<tokens>> if there is a ":".                          *)
(***************************************************************************)
EXTENDS Attributes, Serializer

CONSTANTS Texts,     \* sequence of texts
          MaxTexts   \* bound: texts given to the node manager

ASSUME TextsAssumption ==
  /\ MaxTexts \in Nat
  /\ \A t \in DOMAIN Texts : Texts[t].lines # <<>>

VARIABLES
  mode,     \* "client" or "server"
  stream,   \* [lines, pos, tail, error]: the buffer, the lines of it that were
            \* handled, and last_error
  parser,   \* [section, lineno, node, types, ports, error, line]
  phase,    \* "idle", "reading" or "parsed"
  text,     \* index of the text in hand
  nodes,    \* instance_map: from names to instances
  results   \* history: [text, rc, line, clean] of each text; clean if the stream
            \* had nothing left over when the text came

vars == <<mode, stream, parser, phase, text, nodes, results>>

-----------------------------------------------------------------------------
(* parser_accept_*: the parser after a line.                                *)
NewParser == [section |-> "version", lineno |-> 0, node |-> "", types |-> <<>>,
              ports |-> <<>>, error |-> "ok", line |-> 0]
Error(p, rc) == [p EXCEPT !.error = rc, !.line = p.lineno]

(* Faulty variant: the section of the last text goes on.                    *)
ResetErrorOnly(p) == [NewParser EXCEPT !.section = p.section]
parser_reset(p) == NewParser

DeclaredSignature(line) ==
  state_parse_data_signature(IF line.sig = <<>> /\ line.attr # <<>> THEN <<Word(":")>> ELSE line.sig)
NamedIn(s, name) == \E i \in DOMAIN s : s[i].name = name

accept_version_line(p, line) ==
  IF line.k = "APX" THEN [p EXCEPT !.section = "node"] ELSE Error(p, "parse")
accept_node_declaration(p, line) ==
  IF line.k = "N" THEN [p EXCEPT !.section = "type", !.node = line.name] ELSE Error(p, "parse")

(* A type is dropped without an error when something follows its signature, *)
(* when its attributes cannot be parsed, or when its name is taken.         *)
DeclareType(p, line, sig, attrs) ==
  LET type == [name |-> line.name, elem |-> sig.elem, comps |-> attrs.attr]
  IN IF sig.rc = "stray" THEN p
     ELSE IF sig.rc # "ok" THEN Error(p, sig.rc)
     ELSE IF line.attr = << <<>> >> THEN Error(p, "parse")
     ELSE IF attrs.rc # "ok" \/ NamedIn(p.types, line.name) THEN p
     ELSE [p EXCEPT !.types = Append(@, type)]
accept_type_declaration(p, line) ==
  DeclareType(p, line, DeclaredSignature(line),
              IF line.attr = <<>> THEN [rc |-> "ok", attr |-> <<>>]
              ELSE state_parse_type_attributes(line.attr[1]))

(* One name space for the ports of both directions.                         *)
DeclarePort(p, line, sig, attrs) ==
  LET port == [dir |-> line.k, name |-> line.name, elem |-> sig.elem, attr |-> attrs.attr,
              line |-> p.lineno]
  IN IF line.k \notin {"R", "P"} THEN Error(p, "parse")
     ELSE IF sig.rc # "ok" THEN Error(p, sig.rc)
     ELSE IF line.attr = << <<>> >> THEN Error(p, "parse")
     ELSE IF attrs.rc # "ok" THEN Error(p, attrs.rc)
     ELSE IF NamedIn(p.ports, line.name) THEN p
     ELSE [p EXCEPT !.ports = Append(@, port)]
accept_port_declaration(p, line) ==
  DeclarePort(p, line, DeclaredSignature(line),
              IF line.attr = <<>> THEN [rc |-> "ok", attr |-> NoPortAttributes]
              ELSE state_parse_port_attributes(line.attr[1]))

(* accept_type_or_port_declaration: the first port ends the types.          *)
InPortSection(p, from) == IF from = "type" /\ p.error = "ok" THEN [p EXCEPT !.section = "port"] ELSE p
accept_type_or_port_declaration(p, line) ==
  IF p.section = "type" /\ line.k = "T" THEN accept_type_declaration(p, line)
  ELSE InPortSection(accept_port_declaration(p, line), p.section)

parser_on_new_line(parser0, line) ==
  LET p == [parser0 EXCEPT !.lineno = @ + 1]
  IN CASE line.k = ""                           -> p
       [] line.k # "" /\ p.section = "version" -> accept_version_line(p, line)
       [] line.k # "" /\ p.section = "node"    -> accept_node_declaration(p, line)
       [] line.k # "" /\ p.section \in {"type", "port"} ->
            accept_type_or_port_declaration(p, line)

-----------------------------------------------------------------------------
(* Ports have an id in each direction, in the order of their declarations.  *)
OfDirection(ports, dir) == SelectSeq(ports, LAMBDA port : port.dir = dir)
InIdOrder(ports) == OfDirection(ports, "P") \o OfDirection(ports, "R")

derive_types(port, types) ==
  IF port.elem = NoElement THEN "null_ptr" ELSE derive_types_on_element(port.elem, types, {})
flatten(port, types) == flatten_data_element(port.elem, types)
EffectiveElement(port, types) == WithFieldsDerived(flatten(port, types).elem, types)
InitValueOf(port, types) ==
  IF port.attr.init = NoValue THEN Value(NoValue)
  ELSE derive_proper_init_value(EffectiveElement(port, types), port.attr.init)

(* Faulty variant: tells the place among the ports instead of the line.     *)
FailureOfPortId(ports, rcs) ==
  LET bad == {i \in DOMAIN rcs : rcs[i] # "ok"}
      first == CHOOSE i \in bad : \A j \in bad : i <= j
  IN IF bad = {} THEN [rc |-> "ok", line |-> 0] ELSE [rc |-> rcs[first], line |-> first - 1]
FailureOfPort(ports, rcs) ==
  LET bad == {i \in DOMAIN rcs : rcs[i] # "ok"}
      first == CHOOSE i \in bad : \A j \in bad : i <= j
  IN IF bad = {} THEN [rc |-> "ok", line |-> 0] ELSE [rc |-> rcs[first], line |-> ports[first].line]

(* apx_node_finalize: three passes over the ports, each only if the one     *)
(* before had no error.                                                     *)
finalize(p) ==
  LET ports   == InIdOrder(p.ports)
      Pass(Rc(_)) == FailureOfPort(ports, [i \in DOMAIN ports |-> Rc(ports[i])])
      types   == Pass(LAMBDA port : derive_types(port, p.types))
      expand  == Pass(LAMBDA port : flatten(port, p.types).rc)
      inits   == Pass(LAMBDA port : InitValueOf(port, p.types).rc)
  IN IF types.rc # "ok" THEN types ELSE IF expand.rc # "ok" THEN expand ELSE inits

ClosedAs(p, result) ==
  IF result.rc = "ok" THEN p ELSE [p EXCEPT !.error = result.rc, !.line = result.line]
parser_on_close(p) == IF p.node = "" THEN p ELSE ClosedAs(p, finalize(p))

-----------------------------------------------------------------------------
(* apx_vm_pack_value: the program of a port, run on a value.  The fields of *)
(* an array of records are run again from mark.                             *)
RECURSIVE Execute(_, _, _, _)
Execute(code, next, mark, m) ==
  LET inst    == code[next]
      entered == IF inst.type = "record" /\ inst.len > 0 THEN next + 1 ELSE mark
      again   == ~IsLastIndex(Top(m))
  IN IF m.rc # "ok" \/ next > Len(code) THEN m
     ELSE CASE inst.op = "PACK"   -> Execute(code, next + 1, entered, Pack(m, inst))
            [] inst.op = "LIMIT"  -> Execute(code, next + 1, mark, CheckWriteRange(m, inst))
            [] inst.op = "SELECT" -> Execute(code, next + 1, mark, SelectWrite(m, inst))
            [] inst.op = "NEXT"   -> Execute(code, IF again THEN mark ELSE next + 1, mark, NextWrite(m))

Program(port, is_pack) ==
  apx_compiler_compile_port([elem |-> port.elem, queue |-> port.queue], is_pack)
DataSizeOf(port) == DecodeHeader(Program(port, TRUE).header).data_size

(* create_port_init_data: the room of a port is filled with zeros; a port   *)
(* without an initial value leaves it at that.  One machine packs them all. *)
create_port_init_data(port, stack) ==
  LET zeros == NewBuffer([i \in 1..DataSizeOf(port) |-> 0])
      start == [rc |-> "ok", buf |-> zeros,
                stack |-> ReplaceAt(stack, Len(stack), WriteState(port.init))]
  IN IF port.init = NoValue THEN [start EXCEPT !.stack = stack]
     ELSE Execute(Program(port, TRUE).code, 1, 0, start)

(* create_init_data_on_node_instance, for one direction.                    *)
NothingPacked == [rc |-> "ok", data |-> <<>>, stack |-> <<WriteState(NoValue)>>]
PackPort(packed, port) ==
  LET Packed(m) == [rc |-> m.rc, data |-> packed.data \o m.buf.cells, stack |-> m.stack]
  IN IF packed.rc # "ok" THEN packed ELSE Packed(create_port_init_data(port, packed.stack))

(* Faulty variant: only a port with an initial value advances the offset.   *)
InitDataOfInitialized(ports, packed) ==
  LET with == SelectSeq(ports, LAMBDA port : port.init # NoValue)
      rest == SelectSeq(ports, LAMBDA port : port.init = NoValue)
  IN FoldLeft(PackPort, packed, with \o rest)
create_init_data(ports, packed) == FoldLeft(PackPort, packed, ports)

(* create_ports_on_node_instance: an error of the compiler does not end the *)
(* loop, only one of the last port counts.  A port in front of it that does *)
(* not compile leaves an instance behind that was never initialized.        *)
CompileError(port, is_pack) == Program(port, is_pack).rc
LastCounts(rcs) ==
  IF rcs # <<>> /\ Last(rcs) # "ok" THEN Last(rcs)
  ELSE IF \E i \in DOMAIN rcs : rcs[i] # "ok" THEN "undefined" ELSE "ok"
create_ports(ports) ==
  LastCounts([i \in DOMAIN ports |->
    LET AndUnpack(pack) == IF pack = "ok" /\ ports[i].dir = "R" THEN CompileError(ports[i], FALSE) ELSE pack
    IN AndUnpack(CompileError(ports[i], TRUE))])

-----------------------------------------------------------------------------
(* apx_valueTable_to_string, apx_rationalScaling_to_string.                 *)
computation_to_string(c) ==
  <<Word(c.kind), Numeral(c.range.lower), Numeral(c.range.upper)>>
  \o [i \in DOMAIN c.scaling |-> Numeral(c.scaling[i])]
  \o [i \in DOMAIN c.values |-> Quoted(c.values[i])]
ComputationsText(comps) ==
  FoldLeft(Concat2, <<>>, [i \in DOMAIN comps |-> computation_to_string(comps[i])])

(* A list whose items are shared by the ports with the same text; what has  *)
(* no text has an item of its own.  ids tells the item of each port, 0 for  *)
(* none.                                                                    *)
Item(text0, value) == [text |-> text0, value |-> value]
ShareItem(shared, item) ==
  LET same == {i \in DOMAIN shared.list : item.text # NoText /\ shared.list[i].text = item.text}
  IN IF item.value = <<>> THEN [shared EXCEPT !.ids = Append(@, 0)]
     ELSE IF same # {} THEN [shared EXCEPT !.ids = Append(@, CHOOSE i \in same : TRUE)]
     ELSE [list |-> Append(shared.list, item), ids |-> Append(shared.ids, Len(shared.list) + 1)]
ShareItems(items) == FoldLeft(ShareItem, [list |-> <<>>, ids |-> <<>>], items)

create_data_element_list(ports, types) ==
  ShareItems([i \in DOMAIN ports |->
    LET flat == flatten(ports[i], types).elem IN Item(to_string(flat, FALSE), <<clone(flat)>>)])

(* apx_port_get_referenced_type_attributes: of the type that the port names *)
(* itself, not of those behind it.                                          *)
ReferencedAttributes(port, types) ==
  IF port.elem.type = "ref" THEN types[TypeIndex(port.elem.ref, types)].comps ELSE <<>>
create_computation_list(ports, types) ==
  ShareItems([i \in DOMAIN ports |->
    LET comps == ReferencedAttributes(ports[i], types) IN Item(ComputationsText(comps), comps)])

(* apx_port_instance_create_port_signature.                                 *)
create_port_signature(name, elem) ==
  LET signature == to_string(elem, TRUE)
  IN IF signature = NoText THEN NoText ELSE <<Quoted(name)>> \o signature

(* build_node_instance: what a node becomes, or the first error.            *)
NoInstance == [ports |-> <<>>, elements |-> <<>>, computations |-> <<>>, data |-> [P |-> <<>>, R |-> <<>>]]
Instances(declared, types, elements, comps) ==
  [i \in DOMAIN declared |->
        [dir |-> declared[i].dir, name |-> declared[i].name, queue |-> declared[i].attr.queue,
         elem |-> EffectiveElement(declared[i], types),
         init |-> InitValueOf(declared[i], types).val,
         element |-> elements.ids[i], computations |-> comps.ids[i],
         signature |-> create_port_signature(declared[i].name,
                         elements.list[elements.ids[i]].value[1])]]
FirstRefusal(ports, created) ==
  IF created["P"] # "ok" THEN created["P"] ELSE IF created["R"] # "ok" THEN created["R"]
     ELSE IF mode = "server" /\ \E i \in DOMAIN ports : ports[i].signature = NoText
       THEN "null_ptr" ELSE "ok"
PortsRefused(ports) ==
  FirstRefusal(ports, [dir \in {"P", "R"} |-> create_ports(OfDirection(ports, dir))])
InitDataOfDirections(ports) ==
  LET Both(provide) ==
        [P |-> provide,
         R |-> create_init_data(OfDirection(ports, "R"), [provide EXCEPT !.data = <<>>])]
  IN Both(create_init_data(OfDirection(ports, "P"), NothingPacked))
InstanceOf(ports, elements, comps, init) ==
  IF init.R.rc # "ok" THEN [rc |-> init.R.rc, instance |-> NoInstance]
  ELSE [rc |-> "ok",
        instance |-> [ports |-> ports, elements |-> elements.list, computations |-> comps.list,
                      data |-> [P |-> init.P.data, R |-> init.R.data]]]
Assemble(ports, elements, comps, refused) ==
  IF refused = "ok" THEN InstanceOf(ports, elements, comps, InitDataOfDirections(ports))
  ELSE [rc |-> refused, instance |-> NoInstance]
CheckPorts(ports, elements, comps) == Assemble(ports, elements, comps, PortsRefused(ports))
ShareAndBuild(declared, types, elements, comps) ==
  CheckPorts(Instances(declared, types, elements, comps), elements, comps)
build_node_instance(p) ==
  LET declared == InIdOrder(p.ports)
  IN ShareAndBuild(declared, p.types, create_data_element_list(declared, p.types),
                   create_computation_list(declared, p.types))

-----------------------------------------------------------------------------
Init ==
  /\ mode \in {"client", "server"}
  /\ stream = [lines |-> <<>>, pos |-> 0, tail |-> <<>>, error |-> "ok"]
  /\ parser = NewParser
  /\ phase = "idle"
  /\ text = 0
  /\ nodes = <<>>
  /\ results = <<>>

Attached(name, instance) == (name :> instance) @@ nodes
Without(name) == [n \in DOMAIN nodes \ {name} |-> nodes[n]]
Glued(line) == [line EXCEPT !.k = "junk"]
StreamIsClean == stream.lines = <<>> /\ stream.tail = <<>>

(* apx_parser_parse_bstr: the text is appended to what the stream still     *)
(* holds.  open is skipped while last_error is set, but has nothing to do   *)
(* behind parser_reset.                                                     *)
parse_bstr(t) ==
  LET lines == Texts[t].lines
      new   == IF stream.tail = <<>> THEN lines ELSE <<Glued(stream.tail[1])>> \o Tail(lines)
  IN /\ parser' = parser_reset(parser)
     /\ stream' = [stream EXCEPT !.lines = @ \o new, !.pos = 0, !.tail = Texts[t].tail]
     /\ phase' = "reading"
     /\ text' = t

(* apx_nodeManager_build_node of a client.                                  *)
build_node(t) ==
  /\ phase = "idle" /\ mode = "client" /\ Len(results) < MaxTexts
  /\ parse_bstr(t)
  /\ results' = Append(results, [text |-> t, rc |-> "none", line |-> 0, clean |-> StreamIsClean])
  /\ UNCHANGED <<mode, nodes>>

(* In a server a node of that name is attached first, then                  *)
(* apx_nodeManager_build_node_from_data is given what arrived.              *)
build_node_from_data(t) ==
  /\ phase = "idle" /\ mode = "server" /\ Len(results) < MaxTexts
  /\ Texts[t].name \notin DOMAIN nodes
  /\ nodes' = Attached(Texts[t].name, NoInstance)
  /\ parse_bstr(t)
  /\ results' = Append(results, [text |-> t, rc |-> "none", line |-> 0, clean |-> StreamIsClean])
  /\ UNCHANGED mode

(* apx_istream_write: the next line of the buffer.  Once a line is refused  *)
(* the buffer is left as it is, and close does nothing.                     *)
NewLine ==
  /\ phase = "reading"
  /\ stream.pos < Len(stream.lines)
  /\ parser' = parser_on_new_line(parser, stream.lines[stream.pos + 1])
  /\ stream' = [stream EXCEPT !.pos = @ + 1, !.error = parser'.error]
  /\ phase' = IF parser'.error = "ok" THEN "reading" ELSE "parsed"
  /\ UNCHANGED <<mode, text, nodes, results>>

(* Faulty variant: what was handled stays in the buffer.                    *)
NotTrimmed(s) == s

(* The lines that were handled leave the buffer.                            *)
Trimmed(s) == [s EXCEPT !.lines = <<>>, !.pos = 0]

(* The end of apx_istream_write, then apx_istream_close, which hands over   *)
(* the last line if it has no line feed, and keeps it in the buffer.        *)
(* parser_on_close never reports success.                                   *)
ClosedWith(p) ==
  /\ parser' = IF p.error = "ok" THEN parser_on_close(p) ELSE p
  /\ stream' = [Trimmed(stream) EXCEPT !.error = IF p.error = "ok" THEN "null_ptr" ELSE p.error]
CloseStream ==
  /\ phase = "reading"
  /\ stream.pos = Len(stream.lines)
  /\ ClosedWith(IF stream.tail = <<>> THEN parser ELSE parser_on_new_line(parser, stream.tail[1]))
  /\ phase' = "parsed"
  /\ UNCHANGED <<mode, text, nodes, results>>

(* The rest of apx_nodeManager_build_node and _build_node_from_data.  A     *)
(* text without a node fails an assertion there: nothing follows.           *)
EnterNode(built) ==
  LET name == IF mode = "client" THEN parser.node ELSE Texts[text].name
  IN /\ results' = [results EXCEPT ![Len(results)].rc = built.rc, ![Len(results)].line = parser.line]
     /\ nodes' = IF built.rc = "ok" THEN Attached(name, built.instance)
                 ELSE IF mode = "server" THEN Without(name) ELSE nodes
FinishBuild ==
  /\ phase = "parsed"
  /\ parser.error = "ok" => parser.node # ""
  /\ EnterNode(IF parser.error = "ok" THEN build_node_instance(parser)
               ELSE [rc |-> parser.error, instance |-> NoInstance])
  /\ phase' = "idle"
  /\ UNCHANGED <<mode, stream, parser, text>>

(* Nothing more to do.                                                      *)
Done == phase = "idle" /\ UNCHANGED vars

Next ==
  \/ \E t \in DOMAIN Texts : build_node(t) \/ build_node_from_data(t)
  \/ NewLine \/ CloseStream \/ FinishBuild \/ Done

Spec == Init /\ [][Next]_vars

-----------------------------------------------------------------------------
(* What a definition means, told without the passes of the program.         *)
LinesOf(t) == Texts[t].lines \o Texts[t].tail
TypeLines(t) == SelectSeq(LinesOf(t), LAMBDA line : line.k = "T")
PortLine(t, name) ==
  LET lines == LinesOf(t)
      named == {i \in DOMAIN lines : lines[i].k \in {"R", "P"} /\ lines[i].name = name}
  IN lines[CHOOSE i \in named : \A j \in named : i <= j]

(* The tokens of a signature in which every type reference is replaced by   *)
(* the signature of the type.                                               *)
RECURSIVE Expanded(_, _)
Expanded(toks, types) ==
  LET ref  == toks[3]
      type == IF ref.t = "num" THEN types[ref.n + 1]
              ELSE types[CHOOSE i \in DOMAIN types : types[i].name = ref.s]
  IN IF toks = <<>> THEN <<>>
     ELSE IF StartsWith(toks, <<"T", "[">>)
       THEN Expanded(type.sig, types) \o Expanded(Drop(toks, 4), types)
     ELSE <<toks[1]>> \o Expanded(Tail(toks), types)
Restated(t, line) == parse_data_element(Expanded(line.sig, TypeLines(t))).elem

(* Declarations whose meaning the program changes: limits of a byte, an     *)
(* array of an array type, an array of a type inside a record, and any type *)
(* reference when a type was dropped.                                       *)
HasPair(toks, a, b) == \E i \in 1 .. Len(toks) - 1 : toks[i].t = a /\ toks[i+1].t = b
IsPlain(t, line) ==
  LET expanded == Expanded(line.sig, TypeLines(t))
  IN /\ Len(parser.types) = Len(TypeLines(t))
     /\ ~HasPair(expanded, "B", "(")
     /\ ~HasPair(expanded, "]", "[")
     /\ StartsWith(expanded, <<"{">>) =>
          \A i \in DOMAIN TypeLines(t) : ~HasPair(line.sig \o TypeLines(t)[i].sig, "]", "[")

(* The bytes of a declared value.                                           *)
RECURSIVE ByteSize(_), Layout(_, _)
ByteSize(e) ==
  LET one == IF e.type = "record"
             THEN FoldLeft(Sum2, 0, [i \in DOMAIN e.fields |-> ByteSize(e.fields[i].elem)])
             ELSE SizeOf(e.type)
  IN IF e.len = 0 THEN one
     ELSE one * e.len + (IF e.dyn THEN VariantSize(VariantOf(e.len)) ELSE 0)
Padded(cells, size) == [i \in 1..size |-> IF i <= Len(cells) THEN cells[i] ELSE 0]
Layout(e, val) ==
  LET item == [e EXCEPT !.len = 0]
      Items(Bytes(_)) == FoldLeft(Concat2, <<>>, [i \in DOMAIN val.v |-> Bytes(i)])
  IN CASE val = NoValue -> Padded(<<>>, ByteSize(e))
       [] val.k = "str" ->
            Padded((IF e.dyn THEN Cells(Len(val.v), VariantSize(VariantOf(e.len))) ELSE <<>>)
                   \o val.v, ByteSize(e))
       [] val.k = "av" /\ e.len > 0 -> Padded(Items(LAMBDA i : Layout(item, val.v[i])), ByteSize(e))
       [] val.k = "av" /\ e.len = 0 -> Items(LAMBDA i : Layout(e.fields[i].elem, val.v[i]))
       [] val.k = "sv" -> IF e.type = "bool" /\ val.v # 0 THEN <<1>> ELSE Cells(val.v, SizeOf(e.type))
DeclaredBytes(t, line) ==
  LET attr == IF line.attr = <<>> THEN NoPortAttributes
              ELSE state_parse_port_attributes(line.attr[1]).attr
      e    == Restated(t, line)
  IN Padded(Layout(e, attr.init), DataSize(ByteSize(e), attr.queue))

JustBuilt == phase = "idle" /\ results # <<>> /\ results[Len(results)].rc = "ok"
Built == nodes[Texts[text].name]
StaticPorts(node) ==
  {port \in {node.ports[i] : i \in DOMAIN node.ports} :
     ~DecodeHeader(Program(port, TRUE).header).dynamic}

(* The shape of the state; ports share only items that exist, and at the    *)
(* end nothing but the last line of a text is left in the buffer unless a   *)
(* line was refused (apx_istream_write, create_data_element_list).          *)
TypeOK ==
  /\ phase \in {"idle", "reading", "parsed"}
  /\ text \in DOMAIN Texts \cup {0}
  /\ stream.pos \in 0 .. Len(stream.lines)
  /\ parser.section \in {"version", "node", "type", "port"}
  /\ phase = "idle" /\ stream.lines # <<>> => parser.error # "ok"
  /\ \A name \in DOMAIN nodes : \A i \in DOMAIN nodes[name].ports :
       /\ nodes[name].ports[i].element \in DOMAIN nodes[name].elements
       /\ nodes[name].ports[i].computations \in DOMAIN nodes[name].computations \cup {0}

(* A definition is judged by its text alone: given twice, with any others   *)
(* in between, accepted or refused, it gets the same verdict and the same   *)
(* line.  Only a text that found the stream clean is meant: after a refused *)
(* line the buffer of the shared stream keeps it (apx_istream_write).       *)
SameTextSameVerdict ==
  \A i, j \in DOMAIN results :
    LET a == results[i]
        b == results[j]
    IN a.text = b.text /\ a.clean /\ b.clean /\ a.rc # "none" /\ b.rc # "none" => a = b

(* The line that is reported is to blame: a text of only the version, the   *)
(* node, the types and that line is refused for the same reason.  A type    *)
(* that comes too late needs the ports in front of it                       *)
(* (apx_parser_get_error_line, apx_node_get_last_error_line).               *)
Verdict(lines) ==
  LET Read(p, line) == IF p.error = "ok" THEN parser_on_new_line(p, line) ELSE p
      Closed(p) == IF p.error = "ok" THEN parser_on_close(p) ELSE p
  IN Closed(FoldLeft(Read, NewParser, lines))
Blamed(t, n) ==
  LET lines == LinesOf(t)
      kept  == SelectSeq([i \in 1..n |-> i],
                 LAMBDA i : i = n \/ lines[n].k = "T" \/ lines[i].k \in {"APX", "N", "T"})
  IN [i \in DOMAIN kept |-> lines[kept[i]]]
ErrorLineBlamed ==
  \A i \in DOMAIN results :
    LET r == results[i]
    IN r.clean /\ r.line # 0 => Verdict(Blamed(r.text, r.line)).error = r.rc

(* A type reference means the signature of the type: the element that the   *)
(* port is compiled from is what the text says when every reference is      *)
(* replaced (apx_dataElement_derive_types_on_element,                       *)
(* apx_port_flatten_data_element, apx_dataElement_clone).                   *)
ElementIsExpansion ==
  JustBuilt => \A i \in DOMAIN Built.ports :
    LET line == PortLine(text, Built.ports[i].name)
    IN IsPlain(text, line) => Built.ports[i].elem = Restated(text, line)

(* The initial data of a node are the initial values of its ports, in the   *)
(* order of their declarations, each at its place                           *)
(* (create_init_data_on_node_instance).                                     *)
InitDataMeansInitValue ==
  JustBuilt => \A dir \in {"P", "R"} :
    LET ports == OfDirection(Built.ports, dir)
        line(i) == PortLine(text, ports[i].name)
    IN (\A i \in DOMAIN ports : IsPlain(text, line(i))) =>
         Built.data[dir] =
           FoldLeft(Concat2, <<>>, [i \in DOMAIN ports |-> DeclaredBytes(text, line(i))])

(* What a port shares with others is its own: the shared element is the one *)
(* it was declared with, and the shared computations are those of its type  *)
(* (update_data_element_list_on_port, update_computation_list_on_port).     *)
SharedItemsOwn ==
  JustBuilt => \A i \in DOMAIN Built.ports :
    LET port     == Built.ports[i]
        declared == InIdOrder(parser.ports)[i]
        shared   == Built.elements[port.element].value[1]
        comps    == ReferencedAttributes(declared, parser.types)
    IN /\ port.name = declared.name
       /\ WithFieldsDerived(shared, parser.types) = port.elem
       /\ comps = IF port.computations = 0 THEN <<>> ELSE Built.computations[port.computations].value

(* Equal signatures, by which the server connects ports, mean equal bytes:  *)
(* the elements are the same, as long as they have no dynamic array, whose  *)
(* length a signature leaves out (apx_port_instance_create_port_signature). *)
SignatureMeansElement ==
  mode = "server" =>
    \A m, n \in DOMAIN nodes : \A a \in StaticPorts(nodes[m]), b \in StaticPorts(nodes[n]) :
      a.signature = b.signature => a.elem = b.elem
=============================================================================
