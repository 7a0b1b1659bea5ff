------------------------------- MODULE MCWire -------------------------------
(* Two nodes: the data of the second lie across the address at which the    *)
(* encoding of addresses becomes longer.  The client sends fragments, the   *)
(* server, like all of this code, does not.                                 *)
EXTENDS Wire

MCDefinitionSize == <<5, 3>>
MCProvideSize    == <<9, 9>>
MCRequireSize    == <<0, 2>>
MCFragmentSize   == [s \in Sides |-> IF s = Client THEN 6 ELSE CmdAreaSize]

(* The hypothesis of the theorems about a session is met by this instance.  *)
ASSUME SizesFitHere == SizesFit
=============================================================================
