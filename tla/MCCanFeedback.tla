--------------------------- MODULE MCCanFeedback ---------------------------
(***************************************************************************)
(* CanFeedback with a wrist motor and two motors of the gantry that cost   *)
(* its budget differently: Y (DJI) and left Z (Cubemars).                  *)
(***************************************************************************)
EXTENDS CanFeedback

MCSource == {<<3, 514>>, <<3, 513>>, <<2, 0>>}
=============================================================================
