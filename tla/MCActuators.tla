---------------------------- MODULE MCActuators -----------------------------
(***************************************************************************)
(* Actuators with every set of servos at the two default ids and another,  *)
(* an arm with the claw and the yaw motor, and the gantry.                 *)
(***************************************************************************)
EXTENDS Actuators

\* The stray byte that confuses most is the head of a packet; a line that
\* is stuck low reads as zeros, which never end the search for a head.
MCNoise == {85, 0}

MCJoints == <<"claw", "yaw">>

\* Each change leads out of the range of its setpoint, from where the last
\* one led.
MCDelta == [claw |-> {-70, 0, 70}, pitch |-> {0}, yaw |-> {400}, z |-> {-600}]

MCSpeed == {-9000}
MCCurrent == {-2000, 0, 2000}
=============================================================================
