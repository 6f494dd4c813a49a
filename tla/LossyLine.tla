----------------------------- MODULE LossyLine -----------------------------
(***************************************************************************)
(* What the UART fan-out promises each of its readers: the chunks of the   *)
(* line in the order in which they arrived, some of them missing, none of  *)
(* them twice -- whatever the other readers do.                            *)
(***************************************************************************)
EXTENDS Naturals

CONSTANT Consumer  \* the readers of the line

VARIABLES
  count,  \* how many chunks the line has delivered
  seen    \* the last chunk each reader has taken, 0 while it has none

vars == <<count, seen>>

Init == count = 0 /\ seen = [c \in Consumer |-> 0]

Arrive == count' \in {n \in Nat : n > count} /\ UNCHANGED seen

See(c) ==
  /\ \E n \in seen[c] + 1 .. count : seen' = [seen EXCEPT ![c] = n]
  /\ UNCHANGED count

Next == Arrive \/ \E c \in Consumer : See(c)

Spec == Init /\ [][Next]_vars
=============================================================================
