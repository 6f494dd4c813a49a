----------------------------- MODULE MCReferee -----------------------------
(***************************************************************************)
(* RefereeHistory on three byte values, frames of 3, 4 and 5 bytes and     *)
(* headers that announce more than the buffer of 5 bytes holds.            *)
(***************************************************************************)
EXTENDS RefereeHistory

MCByte == {"S", "0", "1"}

\* The start byte is a length too.
Digit == [b \in MCByte |-> CASE b = "0" -> 0 [] b = "1" -> 1 [] b = "S" -> 2]

MCDataLen == [p \in MCByte \X MCByte |-> Digit[p[1]] + 3 * Digit[p[2]]]

MCData == {"0", "1"}

\* A frame with one byte of data reports on the robot and one with two on
\* the shot.  A frame without data, and one whose data begin with the start
\* byte, are not among those that the switch handles.
MCUpdate ==
  [f \in {<<"S", "1", "0", b>> : b \in MCData}
         \cup {<<"S", "S", "0", b, c>> : b \in MCData, c \in MCByte} |->
     [group |-> IF Len(f) = 4 THEN "robot" ELSE "shoot", data |-> f[4]]]
=============================================================================
