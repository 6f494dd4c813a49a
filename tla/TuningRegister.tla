--------------------------- MODULE TuningRegister ---------------------------
(***************************************************************************)
(* What the chassis promises whoever tunes it: the tuning of its speed     *)
(* controllers is one register.  A new tuning takes effect at once and for *)
(* all wheels; the outputs of one control round come from the tuning in    *)
(* force, never from two; a power cycle brings the built-in tuning back.   *)
(***************************************************************************)
CONSTANTS
  Tuning,   \* the accepted tunings
  Default   \* the built-in one

VARIABLES
  gains,  \* the tuning in force
  used    \* the tunings behind the outputs of the current round so far

vars == <<gains, used>>

Init == gains = Default /\ used = {}

Set == gains' \in Tuning /\ UNCHANGED used

Drive == used' \in {{}, {gains}} /\ UNCHANGED gains

PowerCycle == gains' = Default /\ used' = {}

Next == Set \/ Drive \/ PowerCycle

Spec == Init /\ [][Next]_vars
=============================================================================
