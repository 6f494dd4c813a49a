----------------------------- MODULE LossyQueue -----------------------------
(***************************************************************************)
(* What the reception of a USB session promises: a packet is lost as it    *)
(* arrives or is received later, itself and not another, in the order of   *)
(* arrival and once.                                                       *)
(***************************************************************************)
EXTENDS Naturals, Sequences

VARIABLES
  count,    \* the packets so far, which are numbered
  channel,  \* those that have not been received
  seen      \* the last one received

vars == <<count, channel, seen>>

Init == count = 0 /\ channel = <<>> /\ seen = 0

Send ==
  /\ count' = count + 1
  /\ channel' \in {channel, Append(channel, count')}
  /\ UNCHANGED seen

See ==
  /\ channel # <<>>
  /\ seen' = Head(channel) /\ channel' = Tail(channel)
  /\ UNCHANGED count

Next == Send \/ See

Spec == Init /\ [][Next]_vars
=============================================================================
