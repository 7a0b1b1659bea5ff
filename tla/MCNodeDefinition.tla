--------------------------- MODULE MCNodeDefinition ---------------------------
(***************************************************************************)
(* Small definitions for NodeDefinition.  A byte has Base = 4 values.  The *)
(* text of a definition is in the comment above it; the first three lines  *)
(* APX/1.3, N"name" and an empty one are common to all but one.            *)
(***************************************************************************)
EXTENDS NodeDefinition

Line(k, name, sig, attr) == [k |-> k, name |-> name, sig |-> sig, attr |-> attr]
Plain(k, name, sig)      == Line(k, name, sig, <<>>)
With(k, name, sig, attr) == Line(k, name, sig, <<attr>>)
Definition(name, lines)  ==
  [name |-> name, tail |-> <<>>,
   lines |-> <<Plain("APX", "", <<>>), Plain("N", name, <<>>), Plain("", "", <<>>)>> \o lines]
Unterminated(d) == [d EXCEPT !.lines = Front(d.lines), !.tail = <<Last(d.lines)>>]

W(t)          == <<Word(t)>>
Within(t, a, b) == <<Word(t), Word("("), Numeral(a), Word(","), Numeral(b), Word(")")>>
Of(n)         == <<Word("["), Numeral(n), Word("]")>>
UpTo(n)       == <<Word("["), Numeral(n), Word("*"), Word("]")>>
Ref(s)        == <<Word("T"), Word("["), Quoted(s), Word("]")>>
Nth(n)        == <<Word("T"), Word("["), Numeral(n), Word("]")>>
Record2(a, x, b, y) == W("{") \o <<Quoted(a)>> \o x \o <<Quoted(b)>> \o y \o W("}")

Is(n)         == <<Word("="), Numeral(n)>>
IsText(s, b)  == <<Word("="), [Quoted(s) EXCEPT !.b = b]>>
IsEmpty       == <<Word("="), Word("{"), Word("}")>>
IsPair(a, b)  == <<Word("="), Word("{"), Numeral(a), Word(","), Numeral(b), Word("}")>>
Queue(n)      == <<Word("Q"), Word("["), Numeral(n), Word("]")>>
Table(a, b, s) == <<Word("VT"), Word("("), Numeral(a), Word(","), Numeral(b), Word(","),
                    Quoted(s), Word(")")>>
Scaling(a, b, n, d, unit) ==
  <<Word("RS"), Word("("), Numeral(a), Word(","), Numeral(b), Word(","), Numeral(0), Word(","),
    Numeral(n), Word(","), Numeral(d), Word(","), Quoted(unit), Word(")")>>

MCTexts == <<
  (* T"E"C(0,2):VT(0,1,"on")   T"V"T["E"]:RS(0,2,0,1,2,"m")   T"X"{"x"c"y"S}
     P"p"T["E"]:=2   P"q"T[0][2]   R"r"C(0,2):=1   R"s"T["V"]   P"t"T["X"]:={-1,9}
     R"u"S:Q[2]   R"p"C   P"c"a[3]:="ab"   R"d"C[2*]:={}   R"x"C[3]   R"z"C(1,2)          *)
  Definition("A", <<
    With("T", "E", Within("C", 0, 2), Table(0, 1, "on")),
    With("T", "V", Ref("E"), Scaling(0, 2, 1, 2, "m")),
    Plain("T", "X", Record2("x", W("c"), "y", W("S"))),
    With("P", "p", Ref("E"), Is(2)),
    Plain("P", "q", Nth(0) \o Of(2)),
    With("R", "r", Within("C", 0, 2), Is(1)),
    Plain("R", "s", Ref("V")),
    With("P", "t", Ref("X"), IsPair(-1, 9)),
    With("R", "u", W("S"), Queue(2)),
    Plain("R", "p", W("C")),
    With("P", "c", W("a") \o Of(3), IsText("ab", <<1, 2>>)),
    With("R", "d", W("C") \o UpTo(2), IsEmpty),
    Plain("R", "x", W("C") \o Of(3)),
    Plain("R", "z", Within("C", 1, 2)) >>),
  (* T"E"C:VT(0,2,"on")   T"F"C:VT(0,1,"on")   P"r"C:=3   P"s"T["E"]   R"p"T["F"]
     P"x"C[2]:={1,2}   R"t"{"x"c"y"S}:P,junk    R"e"T["E"]:P                             *)
  Definition("B", <<
    With("T", "E", W("C"), Table(0, 2, "on")),
    With("T", "F", W("C"), Table(0, 1, "on")),
    With("P", "r", W("C"), Is(3)),
    Plain("P", "s", Ref("E")),
    Plain("R", "p", Ref("F")),
    With("P", "x", W("C") \o Of(2), IsPair(1, 2)),
    With("R", "t", Record2("x", W("c"), "y", W("S")), W("P") \o W(",") \o W("junk")),
    With("R", "e", Ref("E"), W("P")) >>),
  (* P"a"C   R"b"T["Z"]: no such type                                                    *)
  Definition("C", << Plain("P", "a", W("C")), Plain("R", "b", Ref("Z")) >>),
  (* T"E"C   R"a"T[0]   P"b"T[1]: one behind the last type                               *)
  Definition("N", << Plain("T", "E", W("C")), Plain("R", "a", Nth(0)), Plain("P", "b", Nth(1)) >>),
  (* R"a"C   P"b"C   P"v"C[2]:={1,2}: accepted; P"w"C[3]:={1,2}: too short                *)
  Definition("D", << Plain("R", "a", W("C")), Plain("P", "b", W("C")),
                     With("P", "v", W("C") \o Of(2), IsPair(1, 2)),
                     With("P", "w", W("C") \o Of(3), IsPair(1, 2)) >>),
  (* T"Y"C[3]   P"a"C   P"b"T["Y"][2]: an array of arrays                                *)
  Definition("Y", << Plain("T", "Y", W("C") \o Of(3)), Plain("P", "a", W("C")),
                     Plain("P", "b", Ref("Y") \o Of(2)) >>),
  (* R"a"C   P"b"C(0,1):=2: out of range, found when it is packed                         *)
  Definition("E", << Plain("R", "a", W("C")), With("P", "b", Within("C", 0, 1), Is(2)) >>),
  (* P"a"u: compiles to nothing                                                           *)
  Definition("F", << Plain("P", "a", W("u")) >>),
  (* P"a"C   R"b"C[: refused by the parser                                                *)
  Definition("G", << Plain("P", "a", W("C")), Plain("R", "b", W("C") \o W("[")) >>),
  (* P"a"C   R"b"C:P,Q[2: a length that is not closed, behind a comma                     *)
  Definition("Q", << Plain("P", "a", W("C")),
                     With("R", "b", W("C"), W("P") \o W(",") \o W("Q") \o W("[") \o <<Numeral(2)>>) >>),
  (* P"a"C   T"E"C: a type behind the ports                                               *)
  Definition("H", << Plain("P", "a", W("C")), Plain("T", "E", W("C")) >>),
  (* T"E"C   T"J"C]   T"K"C:junk   R"a"{"x"T["E"]"y"T["E"]}:={1,2}: refused by a server    *)
  Definition("I", << Plain("T", "E", W("C")), Plain("T", "J", W("C") \o W("]")),
                     With("T", "K", W("C"), W("junk")),
                     With("R", "a", Record2("x", Ref("E"), "y", Ref("E")), IsPair(1, 2)) >>),
  (* T"E"s(-1,1)   R"a"T["E"]:=-1  without a line feed at the end                          *)
  Unterminated(Definition("U", << Plain("T", "E", Within("s", -1, 1)),
                                  With("R", "a", Ref("E"), Is(-1)) >>))
>>
=============================================================================
