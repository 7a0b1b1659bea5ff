-------------------------- MODULE MCServerRouting --------------------------
(* Topologies for model checking ServerRouting.                            *)
EXTENDS ServerRouting, TLC

CONSTANTS a, b, c, na, nb, nc, p1, p2, r1, r2

(* One provider: a provides a signal that b and c require.                 *)
FanOutConn == (na :> a) @@ (nb :> b) @@ (nc :> c)
FanOutProvides == (na :> <<p1>>) @@ (nb :> <<>>) @@ (nc :> <<>>)
FanOutRequires == (na :> <<>>) @@ (nb :> <<r1>>) @@ (nc :> <<r2>>)
FanOutSignature == (p1 :> "s1") @@ (r1 :> "s1") @@ (r2 :> "s1")
(* b and c are interchangeable, together with their nodes and ports.       *)
FanOutSymmetry ==
  {(b :> c) @@ (c :> b) @@ (nb :> nc) @@ (nc :> nb) @@ (r1 :> r2) @@ (r2 :> r1)}

(* Two providers: a and b provide the same signal, c requires it.          *)
FanInConn == (na :> a) @@ (nb :> b) @@ (nc :> c)
FanInProvides == (na :> <<p1>>) @@ (nb :> <<p2>>) @@ (nc :> <<>>)
FanInRequires == (na :> <<>>) @@ (nb :> <<>>) @@ (nc :> <<r1>>)
FanInSignature == (p1 :> "s1") @@ (p2 :> "s1") @@ (r1 :> "s1")

(* Both ways: a and b each provide a signal that the other requires.       *)
CrossConn == (na :> a) @@ (nb :> b)
CrossProvides == (na :> <<p1>>) @@ (nb :> <<p2>>)
CrossRequires == (na :> <<r1>>) @@ (nb :> <<r2>>)
CrossSignature == (p1 :> "s1") @@ (p2 :> "s2") @@ (r1 :> "s2") @@ (r2 :> "s1")

(* One sender, one receiver, two signals: b requires what a provides.      *)
PairConn == (na :> a) @@ (nb :> b)
PairProvides == (na :> <<p1, p2>>) @@ (nb :> <<>>)
PairRequires == (na :> <<>>) @@ (nb :> <<r1, r2>>)
PairSignature == (p1 :> "s1") @@ (p2 :> "s2") @@ (r1 :> "s1") @@ (r2 :> "s2")
=============================================================================
