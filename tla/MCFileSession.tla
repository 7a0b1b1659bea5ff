--------------------------- MODULE MCFileSession ---------------------------
(* The first node has a provide port more than the second, so that a write *)
(* may carry a part of its file.                                           *)
EXTENDS FileSession

CONSTANTS n1, n2, p1, p2

MCProvidePorts == [n \in Nodes |-> IF n = n1 THEN {p1, p2} ELSE {p1}]
MCRequirePorts == [n \in Nodes |-> {p1}]
=============================================================================
