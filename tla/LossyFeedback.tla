--------------------------- MODULE LossyFeedback ---------------------------
(***************************************************************************)
(* What the path from the CAN buses to the control loops promises: of each *)
(* motor's feedback the reader sees some reports and misses others, but    *)
(* never an older report after a newer one, and none that was not sent.    *)
(***************************************************************************)
EXTENDS Naturals

CONSTANT Source  \* the senders

VARIABLES
  count,  \* how many reports each source has sent
  held    \* the number of the report its reader holds, 0 while it has none

vars == <<count, held>>

Init ==
  /\ count = [s \in Source |-> 0]
  /\ held = [s \in Source |-> 0]

Send(s) ==
  /\ count' = [count EXCEPT ![s] = @ + 1]
  /\ UNCHANGED held

See(s) ==
  /\ \E n \in held[s] + 1 .. count[s] : held' = [held EXCEPT ![s] = n]
  /\ UNCHANGED count

Next == \E s \in Source : Send(s) \/ See(s)

Spec == Init /\ [][Next]_vars
=============================================================================
