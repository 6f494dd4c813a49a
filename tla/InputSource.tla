---------------------------- MODULE InputSource ----------------------------
(***************************************************************************)
(* What the remote_input module promises the rest of the robot, with the   *)
(* byte stream abstracted away: from time to time a new operator input     *)
(* replaces the latched one, and once per round of RunLoop the commands    *)
(* derived from the latched input are published to the actuator modules.   *)
(* There is no way back to "no input": nothing in the code clears          *)
(* latest_input_valid_ once it is set.                                     *)
(***************************************************************************)
CONSTANTS
  OperatorInput, \* the inputs, each with the route by which it may come
  NoInput        \* latest_input_valid_ = false; not one of the inputs

VARIABLES
  latest,    \* latest_input_, or NoInput
  published  \* the input the last published commands were composed from

vars == <<latest, published>>

Init == latest = NoInput /\ published = NoInput

Accept ==
  /\ latest' \in OperatorInput
  /\ UNCHANGED published

Publish ==
  /\ published' = latest
  /\ UNCHANGED latest

Next == Accept \/ Publish

Spec == Init /\ [][Next]_vars
=============================================================================
