------------------------------- MODULE MCPortVM -------------------------------
(***************************************************************************)
(* Small declarations for PortVM, with the values that are tried on them:  *)
(* bytes have Base = 4 values, so that u8 is 0..3, s8 is -2..1, s16 is     *)
(* -8..7 and an array of more than 3 elements has a length of two bytes.   *)
(***************************************************************************)
EXTENDS PortVM

Elem(type)     == [type |-> type, len |-> 0, dyn |-> FALSE, lim |-> <<>>, fields |-> <<>>]
Within(e, a, b) == [e EXCEPT !.lim = <<a, b>>]
Array(e, n)    == [e EXCEPT !.len = n]
Dynamic(e, n)  == [e EXCEPT !.len = n, !.dyn = TRUE]
Record(fields) == [Elem("record") EXCEPT !.fields = fields]
Field(name, e) == [name |-> name, elem |-> e]
Port(e, values) == [elem |-> e, queue |-> 0, init |-> FALSE, values |-> values]
InitPort(e, values) == [Port(e, values) EXCEPT !.init = TRUE]

Num(n)   == [k |-> "sv", v |-> n]
Str(s)   == [k |-> "str", v |-> s]
List(s)  == [k |-> "av", v |-> s]
Nums(s)  == List([i \in DOMAIN s |-> Num(s[i])])
Hash(f)  == [k |-> "hv", v |-> f]

Point == Record(<<Field("a", Elem("u8")), Field("b", Elem("s8"))>>)
Pt(a, b) == Hash("a" :> Num(a) @@ "b" :> Num(b))

MCDeclarations == {
  Port(Within(Elem("u8"), 1, 2), {Num(0), Num(2), Num(-1), Nums(<<1>>)}),
  Port(Within(Elem("u32"), 10, 100), {Num(9), Num(100), Num(300)}),
  Port(Within(Array(Elem("s8"), 2), -1, 1), {Nums(<<-1, 1>>), Nums(<<0, -2>>), Nums(<<0>>)}),
  Port(Array(Elem("s16"), 2), {Nums(<<-8, 7>>), Nums(<<-9, 0>>)}),
  Port(Dynamic(Elem("u8"), 5), {Nums(<<3>>), Nums(<<1, 0, 2, 3, 1>>), Nums(<<0, 0, 0, 0, 0, 0>>)}),
  Port(Array(Elem("char"), 3), {Str(<<1, 2>>), Str(<<1, 2, 3>>), Str(<<1, 1, 1, 1>>)}),
  Port(Dynamic(Elem("char"), 3), {Str(<<1, 2>>), Str(<<1, 1, 1, 1>>)}),
  Port(Dynamic(Elem("byte"), 2), {Str(<<0, 2>>), Str(<<3>>), Str(<<1, 1, 1>>)}),
  Port(Elem("byte"), {Str(<<0>>), Str(<<1, 1>>)}),
  Port(Elem("bool"), {Num(1)}),
  InitPort(Record(<<Field("p", Point), Field("n", Dynamic(Elem("u8"), 2)), Field("q", Point)>>),
       {Hash("p" :> Pt(1, -1) @@ "n" :> Nums(<<2>>) @@ "q" :> Pt(3, 1)),
        Hash("p" :> Pt(1, -1) @@ "n" :> Nums(<<2, 1>>) @@ "q" :> Pt(3, 2)),
        Hash("p" :> Pt(1, -5) @@ "n" :> Nums(<<2>>) @@ "q" :> Pt(3, 1)),
        Hash("p" :> Pt(1, 0) @@ "q" :> Pt(3, 1))}),
  Port(Array(Point, 2), {List(<<Pt(0, 1), Pt(2, -2)>>), List(<<Pt(0, 1), Pt(4, 0)>>),
                         List(<<Pt(0, 1)>>)})
}

Symmetry == Permutations(Ports)
=============================================================================
