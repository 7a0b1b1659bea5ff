-------------------------- MODULE CommandChannel ---------------------------
(***************************************************************************)
(* What the command queue of a file manager promises to the threads that   *)
(* use it: the commands that were accepted reach the socket in the order   *)
(* in which they were accepted, each of them once, up to the EXIT command. *)
(***************************************************************************)
EXTENDS Naturals, Sequences

CONSTANTS
  Commands,     (* the commands a thread may hand over                     *)
  Exit          (* the command that ends the channel                       *)

VARIABLES
  accepted,     (* the commands accepted so far, EXIT included             *)
  wire          (* the commands delivered so far                           *)

(* The commands that must be delivered: those accepted before EXIT.        *)
Due == IF \E i \in DOMAIN accepted : accepted[i] = Exit
       THEN SubSeq(accepted, 1, (CHOOSE i \in DOMAIN accepted :
                     /\ accepted[i] = Exit
                     /\ \A j \in 1..(i - 1) : accepted[j] # Exit) - 1)
       ELSE accepted

Init == accepted = <<>> /\ wire = <<>>

Accept ==
  /\ \E m \in Commands \cup {Exit} : accepted' = Append(accepted, m)
  /\ UNCHANGED wire

(* Commands are delivered in batches.                                      *)
Deliver ==
  /\ \E n \in (Len(wire) + 1)..Len(Due) : wire' = SubSeq(Due, 1, n)
  /\ UNCHANGED accepted

Next == Accept \/ Deliver

(* What has been accepted before EXIT is delivered in the end.             *)
Spec == Init /\ [][Next]_<<accepted, wire>> /\ WF_<<accepted, wire>>(Deliver)
=============================================================================
