--------------------------- MODULE MCCommandPath ---------------------------
(***************************************************************************)
(* CommandPath with the builds that exercise the shared CAN3 frame (arm    *)
(* with gantry) and the idle counters (chassis, gimbal).                   *)
(***************************************************************************)
EXTENDS CommandPath

AllInputs == [via : {"dr16", "vt03"}, input : {"off", "centred", "moved"}]

\* A bound: the operator of arm and gantry moves everything or nothing.
ArmInputs == {NoInput, [via |-> "vt03", input |-> "off"], [via |-> "vt03", input |-> "moved"]}

MCNext == Next /\ ("arm" \in modules => latest' \in ArmInputs)

\* The fairness of FairSpec in fewer conjuncts: of the actions that share one
\* here, only one belongs to the modules of any build of this instance.
MCFairness ==
  /\ WF_vars(RemoteStep) /\ WF_vars(ChassisStep \/ ArmStep \/ GimbalStep) /\ WF_vars(GantryStep)
  /\ SF_vars(ReadChassis(TRUE) \/ ReadArm(TRUE) \/ ReadGimbal(TRUE))
  /\ SF_vars(SendChassis(TRUE) \/ SendArm(TRUE))
  /\ SF_vars(ReadGantry(TRUE))
  /\ SF_vars(\E m \in AllModules \ {"gantry"} : Publish(m, TRUE))
  /\ SF_vars(Publish("gantry", TRUE))

MCSpec == Init /\ [][MCNext]_vars /\ MCFairness
=============================================================================
