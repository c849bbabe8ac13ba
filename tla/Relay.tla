-------------------------------- MODULE Relay --------------------------------
(***************************************************************************)
(* What a stage of the billing pipeline promises to the stages around it,  *)
(* whatever it does inside: it passes items on, perhaps more than once,    *)
(* from its input to its output, invents none and takes none back, and     *)
(* remembers as done only what it has passed on.  What is done need never  *)
(* be passed on again; what is not yet done may be.                        *)
(***************************************************************************)

VARIABLES
  input,    \* the items that have been handed to the stage
  output,   \* those that it has passed on
  done      \* those that it has recorded

vars == <<input, output, done>>

Init == input = {} /\ output = {} /\ done = {}

Put == input \subseteq input' /\ UNCHANGED <<output, done>>

Forward(e) ==
  /\ e \in input
  /\ output' = output \cup {e}
  /\ UNCHANGED <<input, done>>

Record ==
  /\ done \subseteq done'
  /\ done' \subseteq output
  /\ UNCHANGED <<input, output>>

Next == Put \/ (\E e \in input : Forward(e)) \/ Record

Spec == Init /\ [][Next]_vars
=============================================================================
