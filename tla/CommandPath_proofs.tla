------------------------- MODULE CommandPath_proofs -------------------------
(***************************************************************************)
(* What holds on the command path for every set of enabled modules, every  *)
(* choice of remotes and inputs and every clamp and timeout.               *)
(***************************************************************************)
EXTENDS CommandPath, TLAPS

(* The targets and servos follow the local copies: what a module drives to *)
(* is what its last command allows.                                        *)
TargetsFollowCommands ==
  /\ target["wheels"] => command["chassis"].move
  /\ target["wrist"] => command["arm"].wrist
  /\ target["servo"] => command["gimbal"].enable

IInv == TypeOK /\ WristAndYExclude /\ StoppedServosStay /\ TargetsFollowCommands

LEMMA ModuleNames ==
  /\ "chassis" \in AllModules /\ "arm" \in AllModules
  /\ "gimbal" \in AllModules /\ "gantry" \in AllModules
BY DEF AllModules

USE ModuleNames

(* Whatever the input, the four Compose functions return a command.        *)
LEMMA ComposeType ==
  ASSUME NEW m, NEW in \in OperatorInput \cup {NoInput}
  PROVE  Compose(m, in) \in Command
BY DEF Compose, Command, ZeroCommand

(* A delta keeps a setpoint within its clamp.                              *)
LEMMA StepType ==
  ASSUME NEW x \in 0 .. SetMax, NEW c, NEW y \in Step(x, c)
  PROVE  y \in 0 .. SetMax
BY DEF Step

(* A round publishes to enabled modules only.                              *)
LEMMA OrderType == Order \in Seq(AllModules)
<1>1. \A m \in AllModules : Only(m) \in Seq(AllModules)
  BY DEF Only
<1>. QED
  BY <1>1 DEF Order

(* Reading never touches the outputs or the publisher's state.             *)
LEMMA ReceiveFacts ==
  ASSUME NEW m \in AllModules, NEW ok \in BOOLEAN, TypeOK, Receive(m, ok)
  PROVE  /\ command' \in [AllModules -> Command]
         /\ pc' \in [AllModules -> {"read", "send"}]
         /\ command'[m] = IF ok THEN mailbox[m] ELSE command[m]
         /\ \A n \in AllModules \ {m} : command'[n] = command[n]
         /\ UNCHANGED <<modules, latest, published, todo, mailbox, stopped, motor>>
BY DEF Receive, TypeOK, publisher, outputs

(* A counter of idle rounds stays within its cap.                          *)
LEMMA CountType ==
  ASSUME NEW m \in Counted, NEW ok \in BOOLEAN, TypeOK, Count(m, ok)
  PROVE  idle' \in [Counted -> 0 .. StopTicks + 1]
BY PathAssumption DEF Count, TypeOK

LEMMA InitIInv == Init => IInv
<1>. SUFFICES ASSUME Init PROVE IInv
  OBVIOUS
<1>1. latest = NoInput /\ published = NoInput /\ ZeroCommand \in Command
  BY DEF Init, Source!Init, Command, ZeroCommand
<1>2. todo \in Seq(AllModules) /\ modules \in Configs
  BY DEF Init
<1>7. stopped \in BOOLEAN /\ target \in [Targets -> BOOLEAN]
  BY DEF Init
<1>3. mailbox \in [AllModules -> Command] /\ command \in [AllModules -> Command]
  BY <1>1 DEF Init
<1>4. pc \in [AllModules -> {"read", "send"}] /\ motor \in [Motors -> Level]
  BY DEF Init, Level
<1>5. idle \in [Counted -> 0 .. StopTicks + 1] /\ setpoint \in [Integrating -> 0 .. SetMax]
  BY PathAssumption DEF Init
<1>6. WristAndYExclude /\ StoppedServosStay /\ TargetsFollowCommands
  BY DEF Init, WristAndYExclude, StoppedServosStay, TargetsFollowCommands, Motors, Targets
<1>. QED
  BY <1>1, <1>2, <1>3, <1>4, <1>5, <1>6, <1>7 DEF IInv, TypeOK

(* The remote_input thread disturbs neither targets nor motors.            *)
LEMMA RemoteKeepsIInv ==
  ASSUME IInv, Accept \/ RemoteStep
  PROVE  IInv'
<1>. USE DEF IInv, WristAndYExclude, StoppedServosStay, TargetsFollowCommands, loop, outputs
<1>1. CASE Accept
  BY <1>1 DEF Accept, Source!Accept, TypeOK
<1>2. CASE BeginRound
  BY <1>2, OrderType DEF BeginRound, Source!Publish, TypeOK
<1>3. ASSUME NEW m \in AllModules, NEW ok \in BOOLEAN, Publish(m, ok)
      PROVE  IInv'
  <2>1. Compose(m, published) \in Command
    BY ComposeType DEF TypeOK
  <2>2. mailbox' \in [AllModules -> Command]
    BY <1>3, <2>1 DEF Publish, TypeOK
  <2>3. todo' \in Seq(AllModules)
    BY <1>3 DEF Publish, TypeOK
  <2>. QED
    BY <1>3, <2>2, <2>3 DEF Publish, source, TypeOK
<1>. QED
  BY <1>1, <1>2, <1>3 DEF RemoteStep

(* The ranges the module threads rely on when they read.                   *)
LEMMA ReadRanges ==
  ASSUME TypeOK
  PROVE  /\ idle["chassis"] \in Int /\ idle["gimbal"] \in Int
         /\ \A m \in AllModules : mailbox[m] \in Command
         /\ \A m \in Integrating : setpoint[m] \in 0 .. SetMax
BY PathAssumption DEF TypeOK, Counted

(* A module's read: its target follows the command it keeps.               *)
LEMMA ReadChassisKeepsIInv ==
  ASSUME IInv, NEW ok \in BOOLEAN, ReadChassis(ok)
  PROVE  IInv'
<1>. USE DEF IInv, WristAndYExclude, StoppedServosStay, TargetsFollowCommands
<1>1. /\ Receive("chassis", ok) /\ Count("chassis", ok) /\ setpoint' = setpoint
      /\ target' = [target EXCEPT !["wheels"] =
                      IF ok THEN mailbox["chassis"].move
                      ELSE @ /\ idle["chassis"] < StopTicks]
  BY DEF ReadChassis
<1>2. target' \in [Targets -> BOOLEAN]
  BY ReadRanges, <1>1 DEF TypeOK, Command, Targets
<1>6. idle' \in [Counted -> 0 .. StopTicks + 1]
  BY <1>1, CountType DEF Counted
<1>7. /\ UNCHANGED <<modules, latest, published, todo, mailbox, stopped, motor>>
      /\ command' \in [AllModules -> Command] /\ pc' \in [AllModules -> {"read", "send"}]
  BY <1>1, ReceiveFacts
<1>3. TypeOK'
  BY <1>1, <1>2, <1>6, <1>7 DEF TypeOK
<1>4. /\ target'["wrist"] = target["wrist"] /\ target'["servo"] = target["servo"]
      /\ target'["wheels"] => IF ok THEN mailbox["chassis"].move ELSE target["wheels"]
  BY <1>1 DEF TypeOK, Targets
<1>5. TargetsFollowCommands'
  BY <1>1, <1>4, ReceiveFacts
<1>. QED
  BY <1>1, <1>3, <1>5, ReceiveFacts

LEMMA ReadArmKeepsIInv ==
  ASSUME IInv, NEW ok \in BOOLEAN, ReadArm(ok)
  PROVE  IInv'
<1>. USE DEF IInv, WristAndYExclude, StoppedServosStay, TargetsFollowCommands
<1>1. PICK x \in Step(setpoint["arm"], Seen("arm", ok)), w \in {FALSE, Seen("arm", ok).wrist} :
        /\ Receive("arm", ok) /\ idle' = idle
        /\ setpoint' = [setpoint EXCEPT !["arm"] = x]
        /\ target' = [target EXCEPT !["wrist"] = w]
  BY DEF ReadArm
<1>2. x \in 0 .. SetMax
  BY ReadRanges, StepType DEF Integrating
<1>3. w \in BOOLEAN /\ (w => ok /\ mailbox["arm"].wrist)
  BY ReadRanges DEF Seen, Command, ZeroCommand
<1>4. TypeOK'
  BY <1>1, <1>2, <1>3, ReceiveFacts DEF TypeOK
<1>5. /\ target'["wheels"] = target["wheels"] /\ target'["servo"] = target["servo"]
      /\ target'["wrist"] = w
  BY <1>1 DEF TypeOK, Targets
<1>6. TargetsFollowCommands'
  BY <1>1, <1>3, <1>5, ReceiveFacts
<1>. QED
  BY <1>1, <1>4, <1>6, ReceiveFacts

LEMMA ReadGimbalKeepsIInv ==
  ASSUME IInv, NEW ok \in BOOLEAN, ReadGimbal(ok)
  PROVE  IInv'
<1>. USE DEF IInv, WristAndYExclude, StoppedServosStay, TargetsFollowCommands
<1>1. PICK x \in Step(setpoint["gimbal"], Seen("gimbal", ok)) :
        /\ Receive("gimbal", ok) /\ Count("gimbal", ok)
        /\ setpoint' = [setpoint EXCEPT !["gimbal"] = x]
        /\ target' = [target EXCEPT !["servo"] =
                        IF ok THEN mailbox["gimbal"].enable
                        ELSE @ /\ idle["gimbal"] < StopTicks]
  BY DEF ReadGimbal
<1>2. x \in 0 .. SetMax
  BY ReadRanges, StepType DEF Integrating
<1>3. target' \in [Targets -> BOOLEAN]
  BY ReadRanges, <1>1 DEF TypeOK, Command, Targets
<1>7. setpoint' \in [Integrating -> 0 .. SetMax]
  BY <1>1, <1>2 DEF TypeOK
<1>8. idle' \in [Counted -> 0 .. StopTicks + 1]
  BY <1>1, CountType DEF Counted
<1>9. /\ UNCHANGED <<modules, latest, published, todo, mailbox, stopped, motor>>
      /\ command' \in [AllModules -> Command] /\ pc' \in [AllModules -> {"read", "send"}]
  BY <1>1, ReceiveFacts
<1>4. TypeOK'
  BY <1>3, <1>7, <1>8, <1>9 DEF TypeOK
<1>5. /\ target'["wheels"] = target["wheels"] /\ target'["wrist"] = target["wrist"]
      /\ target'["servo"] => IF ok THEN mailbox["gimbal"].enable ELSE target["servo"]
  BY <1>1 DEF TypeOK, Targets
<1>6. TargetsFollowCommands'
  BY <1>1, <1>5, ReceiveFacts
<1>. QED
  BY <1>1, <1>4, <1>6, ReceiveFacts

LEMMA ReadGantryKeepsIInv ==
  ASSUME IInv, NEW ok \in BOOLEAN, ReadGantry(ok)
  PROVE  IInv'
<1>. USE DEF IInv, WristAndYExclude, StoppedServosStay, TargetsFollowCommands
<1>1. PICK x \in IF ok /\ ~mailbox["gantry"].enable
                 THEN {0} ELSE Step(setpoint["gantry"], Seen("gantry", ok)) :
        /\ Receive("gantry", ok) /\ idle' = idle /\ target' = target
        /\ setpoint' = [setpoint EXCEPT !["gantry"] = x]
  BY DEF ReadGantry
<1>2. x \in 0 .. SetMax
  BY ReadRanges, <1>1, StepType, PathAssumption DEF Integrating
<1>3. TypeOK'
  BY <1>1, <1>2, ReceiveFacts DEF TypeOK
<1>. QED
  BY <1>1, <1>3, ReceiveFacts

(* A transmission changes what motors were told and nothing decided before. *)
LEMMA SentFacts ==
  ASSUME TypeOK, NEW m \in AllModules, Sent(m)
  PROVE  /\ UNCHANGED <<modules, latest, published, todo, mailbox, command, idle, setpoint, target>>
         /\ pc' \in [AllModules -> {"read", "send"}]
BY DEF Sent, publisher, TypeOK

(* A frame for the wrist clears the gantry's slot and the other way round, *)
(* and a Stop is the last thing the servos get.                            *)
LEMMA SendChassisKeepsIInv ==
  ASSUME IInv, NEW ok \in BOOLEAN, SendChassis(ok)
  PROVE  IInv'
<1>. USE DEF IInv, WristAndYExclude, StoppedServosStay, TargetsFollowCommands
<1>1. PICK v \in Asked(target["wheels"]) :
        motor' = IF ok THEN [motor EXCEPT !["wheels"] = v] ELSE motor
  BY DEF SendChassis
<1>2. v \in Level
  BY DEF Asked, Level
<1>3. motor' \in [Motors -> Level]
  BY <1>1, <1>2 DEF TypeOK
<1>4. /\ motor'["wrist"] = motor["wrist"] /\ motor'["gantryY"] = motor["gantryY"]
      /\ motor'["servo"] = motor["servo"]
  BY <1>1 DEF TypeOK, Motors
<1>. QED
  BY SentFacts, <1>3, <1>4 DEF SendChassis, TypeOK

LEMMA SendArmKeepsIInv ==
  ASSUME IInv, NEW ok \in BOOLEAN, SendArm(ok)
  PROVE  IInv'
<1>. USE DEF IInv, WristAndYExclude, StoppedServosStay, TargetsFollowCommands
<1>1. PICK v \in Asked(target["wrist"]) :
        motor' = IF ok THEN [motor EXCEPT !["wrist"] = v, !["gantryY"] = "off"] ELSE motor
  BY DEF SendArm
<1>2. v \in Level /\ "off" \in Level
  BY DEF Asked, Level
<1>3. motor' \in [Motors -> Level]
  BY <1>1, <1>2 DEF TypeOK
<1>4. /\ motor'["servo"] = motor["servo"]
      /\ motor'["gantryY"] = (IF ok THEN "off" ELSE motor["gantryY"])
      /\ ~ok => motor' = motor
  BY <1>1 DEF TypeOK, Motors
<1>. QED
  BY SentFacts, <1>3, <1>4 DEF SendArm, TypeOK

LEMMA SendGimbalKeepsIInv ==
  ASSUME IInv, NEW due \in BOOLEAN, SendGimbal(due)
  PROVE  IInv'
<1>. USE DEF IInv, WristAndYExclude, StoppedServosStay, TargetsFollowCommands
<1>1. motor' = [motor EXCEPT !["servo"] =
                  IF target["servo"] THEN IF due THEN "drive" ELSE @
                  ELSE IF stopped THEN @ ELSE "off"]
  BY DEF SendGimbal
<1>2. motor["servo"] \in Level /\ {"drive", "off"} \subseteq Level
  BY DEF TypeOK, Motors, Level
<1>3. motor' \in [Motors -> Level]
  BY <1>1, <1>2 DEF TypeOK
<1>4. stopped' = ~target["servo"] /\ target["servo"] \in BOOLEAN
  BY DEF SendGimbal, TypeOK, Targets
<1>5. /\ motor'["wrist"] = motor["wrist"] /\ motor'["gantryY"] = motor["gantryY"]
      /\ ~target["servo"] => motor'["servo"] = IF stopped THEN motor["servo"] ELSE "off"
  BY <1>1 DEF TypeOK, Motors
<1>. QED
  BY SentFacts, <1>3, <1>4, <1>5 DEF SendGimbal, TypeOK

LEMMA SkipGantryKeepsIInv ==
  ASSUME IInv, SkipGantry
  PROVE  IInv'
BY SentFacts DEF SkipGantry, outputs, IInv, WristAndYExclude, StoppedServosStay,
   TargetsFollowCommands, TypeOK

LEMMA SendGantryKeepsIInv ==
  ASSUME IInv, NEW xOk \in BOOLEAN, NEW yOk \in BOOLEAN, SendGantry(xOk, yOk)
  PROVE  IInv'
<1>. USE DEF IInv, WristAndYExclude, StoppedServosStay, TargetsFollowCommands
<1>1. PICK x, y \in Asked(setpoint["gantry"] # 0) :
        motor' = [motor EXCEPT !["gantryX"] = IF xOk THEN x ELSE @,
                               !["gantryY"] = IF yOk THEN y ELSE @,
                               !["wrist"]   = IF yOk THEN "off" ELSE @]
  BY DEF SendGantry
<1>2. x \in Level /\ y \in Level /\ "off" \in Level
  BY DEF Asked, Level
<1>3. motor' \in [Motors -> Level]
  BY <1>1, <1>2 DEF TypeOK, Motors
<1>4. /\ motor'["servo"] = motor["servo"]
      /\ motor'["wrist"] = (IF yOk THEN "off" ELSE motor["wrist"])
      /\ motor'["gantryY"] = (IF yOk THEN y ELSE motor["gantryY"])
  BY <1>1 DEF TypeOK, Motors
<1>. QED
  BY SentFacts, <1>3, <1>4 DEF SendGantry, TypeOK

LEMMA StepIInv == IInv /\ [Next]_vars => IInv'
<1>. SUFFICES ASSUME IInv, [Next]_vars PROVE IInv'
  OBVIOUS
<1>1. CASE Accept \/ RemoteStep
  BY <1>1, RemoteKeepsIInv
<1>2. CASE ChassisStep
  <2>1. PICK ok \in BOOLEAN : (ReadChassis(ok) \/ SendChassis(ok))
    BY <1>2 DEF ChassisStep
  <2>2. CASE ReadChassis(ok)
    BY <2>1, <2>2, ReadChassisKeepsIInv
  <2>3. CASE SendChassis(ok)
    BY <2>1, <2>3, SendChassisKeepsIInv
  <2>. QED
    BY <2>1, <2>2, <2>3
<1>3. CASE ArmStep
  <2>1. PICK ok \in BOOLEAN : (ReadArm(ok) \/ SendArm(ok))
    BY <1>3 DEF ArmStep
  <2>2. CASE ReadArm(ok)
    BY <2>1, <2>2, ReadArmKeepsIInv
  <2>3. CASE SendArm(ok)
    BY <2>1, <2>3, SendArmKeepsIInv
  <2>. QED
    BY <2>1, <2>2, <2>3
<1>4. CASE GimbalStep
  <2>1. PICK ok \in BOOLEAN : (ReadGimbal(ok) \/ SendGimbal(ok))
    BY <1>4 DEF GimbalStep
  <2>2. CASE ReadGimbal(ok)
    BY <2>1, <2>2, ReadGimbalKeepsIInv
  <2>3. CASE SendGimbal(ok)
    BY <2>1, <2>3, SendGimbalKeepsIInv
  <2>. QED
    BY <2>1, <2>2, <2>3
<1>5. CASE GantryStep
  <2>1. ASSUME NEW ok \in BOOLEAN, ReadGantry(ok) PROVE IInv'
    BY <1>5, <2>1, ReadGantryKeepsIInv DEF GantryStep
  <2>2. CASE SkipGantry
    BY <1>5, <2>2, SkipGantryKeepsIInv DEF GantryStep
  <2>3. ASSUME NEW xOk \in BOOLEAN, NEW yOk \in BOOLEAN, SendGantry(xOk, yOk) PROVE IInv'
    BY <1>5, <2>3, SendGantryKeepsIInv DEF GantryStep
  <2>. QED
    BY <1>5, <2>1, <2>2, <2>3 DEF GantryStep
<1>6. CASE UNCHANGED vars
  BY <1>6 DEF vars, publisher, loop, outputs, IInv, TypeOK, WristAndYExclude,
              StoppedServosStay, TargetsFollowCommands
<1>. QED
  BY <1>1, <1>2, <1>3, <1>4, <1>5, <1>6 DEF Next

LEMMA InvariantHolds == Spec => []IInv
BY InitIInv, StepIInv, PTL DEF Spec

(* Every variable keeps its type, every setpoint its clamp, for any set of *)
(* builds: no Kconfig choice breaks the data the loops rely on.           *)
THEOREM TypeCorrect == Spec => []TypeOK
<1>1. IInv => TypeOK
  BY DEF IInv
<1>. QED
  BY <1>1, InvariantHolds, PTL

(* The arm and the gantry never both have current on CAN3 frame 0x200.     *)
THEOREM Exclusion == Spec => []WristAndYExclude
<1>1. IInv => WristAndYExclude
  BY DEF IInv
<1>. QED
  BY <1>1, InvariantHolds, PTL

(* servo_stopped_ is set only while the servos really stand.               *)
THEOREM StopIsLast == Spec => []StoppedServosStay
<1>1. IInv => StoppedServosStay
  BY DEF IInv
<1>. QED
  BY <1>1, InvariantHolds, PTL

(* One step, from a state of the invariant, lets no disabled output grow.  *)
DisabledStep ==
  /\ Starts("wheels") => command["chassis"].move
  /\ Starts("wrist") => command["arm"].wrist
  /\ Starts("servo") => command["gimbal"].enable
  /\ Starts("gantryX") \/ Starts("gantryY") => command["gantry"].enable
  /\ \A m \in Integrating :
       setpoint'[m] # setpoint[m] =>
         command'[m].enable \/ (m = "gantry" /\ setpoint'[m] = 0)

LEMMA DisabledInStep == IInv /\ [Next]_vars => [DisabledStep]_vars
<1>. SUFFICES ASSUME IInv, Next PROVE DisabledStep
  BY DEF vars
<1>. USE DEF IInv, DisabledStep, Starts
<1>1. CASE Accept \/ RemoteStep
  BY <1>1 DEF Accept, RemoteStep, BeginRound, Publish, loop, outputs
<1>2. ASSUME NEW m \in AllModules, NEW ok \in BOOLEAN,
             \/ m = "chassis" /\ ReadChassis(ok)
             \/ m = "arm" /\ ReadArm(ok)
             \/ m = "gimbal" /\ ReadGimbal(ok)
             \/ m = "gantry" /\ ReadGantry(ok)
      PROVE  DisabledStep
  <2>1. Receive(m, ok)
    BY <1>2 DEF ReadChassis, ReadArm, ReadGimbal, ReadGantry
  <2>2. motor' = motor
    BY <2>1 DEF Receive, outputs
  <2>3. \A n \in Integrating \ {m} : setpoint'[n] = setpoint[n]
    BY <1>2 DEF ReadChassis, ReadArm, ReadGimbal, ReadGantry, TypeOK
  <2>4. ASSUME m \in Integrating, setpoint'[m] # setpoint[m]
        PROVE  command'[m].enable \/ (m = "gantry" /\ setpoint'[m] = 0)
    <3>1. \/ m = "gantry" /\ setpoint'[m] = 0
          \/ setpoint'[m] \in Step(setpoint[m], Seen(m, ok))
      BY <1>2, <2>4 DEF ReadChassis, ReadArm, ReadGimbal, ReadGantry, TypeOK, Integrating
    <3>2. CASE setpoint'[m] \in Step(setpoint[m], Seen(m, ok))
      <4>1. Seen(m, ok).enable
        BY <2>4, <3>2 DEF Step
      <4>2. ok /\ mailbox[m].enable
        BY <4>1 DEF Seen, ZeroCommand
      <4>. QED
        BY <2>1, <4>2, ReceiveFacts
    <3>. QED
      BY <3>1, <3>2
  <2>. QED
    BY <2>2, <2>3, <2>4
<1>3. ASSUME NEW ok \in BOOLEAN, SendChassis(ok) \/ SendArm(ok) \/ SendGimbal(ok)
      PROVE  DisabledStep
  <2>1. motor \in [Motors -> Level] /\ setpoint' = setpoint
    BY <1>3 DEF TypeOK, SendChassis, SendArm, SendGimbal, Sent
  <2>2. CASE SendChassis(ok)
    BY <2>1, <2>2 DEF SendChassis, Asked, TargetsFollowCommands, Motors
  <2>3. CASE SendArm(ok)
    BY <2>1, <2>3 DEF SendArm, Asked, TargetsFollowCommands, Motors
  <2>4. CASE SendGimbal(ok)
    BY <2>1, <2>4 DEF SendGimbal, TargetsFollowCommands, Motors
  <2>. QED
    BY <1>3, <2>2, <2>3, <2>4
<1>4. CASE SkipGantry
  BY <1>4 DEF SkipGantry, Sent, outputs
<1>5. ASSUME NEW xOk \in BOOLEAN, NEW yOk \in BOOLEAN, SendGantry(xOk, yOk)
      PROVE  DisabledStep
  BY <1>5 DEF SendGantry, Sent, TypeOK, Motors
<1>. QED
  BY <1>1, <1>2, <1>3, <1>4, <1>5 DEF Next, ChassisStep, ArmStep, GimbalStep, GantryStep

(* The safety check of the baseline checklist, for any configuration: with *)
(* a module's command disabled, its outputs and its setpoints do not grow. *)
THEOREM NoDisabledGrowth == Spec => DisabledOutputsDoNotGrow
<1>1. [DisabledStep]_vars =>
        [ /\ Starts("wheels") => command["chassis"].move
          /\ Starts("wrist") => command["arm"].wrist
          /\ Starts("servo") => command["gimbal"].enable
          /\ Starts("gantryX") \/ Starts("gantryY") => command["gantry"].enable
          /\ \A m \in Integrating :
               setpoint'[m] # setpoint[m] =>
                 command'[m].enable \/ (m = "gantry" /\ setpoint'[m] = 0)
        ]_vars
  BY DEF DisabledStep
<1>. QED
  BY <1>1, InvariantHolds, DisabledInStep, PTL DEF Spec, DisabledOutputsDoNotGrow

-----------------------------------------------------------------------------
(* Where commands come from: a step of the path hands a module its mailbox *)
(* or nothing, and a mailbox what was composed from the published input.   *)
LEMMA CommandsMove ==
  ASSUME IInv, [Next]_vars
  PROVE  /\ \A m \in AllModules : command'[m] = command[m] \/ command'[m] = mailbox[m]
         /\ \A m \in AllModules :
              mailbox'[m] = mailbox[m] \/ mailbox'[m] = Compose(m, published)
         /\ published' = published \/ published' = latest
         /\ latest' = latest \/ latest' \in OperatorInput
<1>0. TypeOK
  BY DEF IInv
<1>1. ASSUME UNCHANGED <<latest, published, mailbox>>,
             \A m \in AllModules : command'[m] = command[m] \/ command'[m] = mailbox[m]
      PROVE  /\ \A m \in AllModules : command'[m] = command[m] \/ command'[m] = mailbox[m]
             /\ \A m \in AllModules :
                  mailbox'[m] = mailbox[m] \/ mailbox'[m] = Compose(m, published)
             /\ published' = published \/ published' = latest
             /\ latest' = latest \/ latest' \in OperatorInput
  BY <1>1
<1>2. ASSUME NEW m \in AllModules, NEW ok \in BOOLEAN, Receive(m, ok)
      PROVE  /\ UNCHANGED <<latest, published, mailbox>>
             /\ \A n \in AllModules : command'[n] = command[n] \/ command'[n] = mailbox[n]
  BY <1>0, <1>2, ReceiveFacts
<1>3. ASSUME NEW m \in AllModules, Sent(m)
      PROVE  UNCHANGED <<latest, published, mailbox, command>>
  BY <1>0, <1>3, SentFacts
<1>4. CASE Accept
  BY <1>4 DEF Accept, Source!Accept, loop
<1>5. CASE BeginRound
  BY <1>5 DEF BeginRound, Source!Publish, loop
<1>6. ASSUME NEW m \in AllModules, NEW ok \in BOOLEAN, Publish(m, ok)
      PROVE  /\ UNCHANGED <<latest, published, command>>
             /\ \A n \in AllModules :
                  mailbox'[n] = mailbox[n] \/ mailbox'[n] = Compose(n, published)
  <2>1. /\ mailbox' = IF ok THEN [mailbox EXCEPT ![m] = Compose(m, published)] ELSE mailbox
        /\ UNCHANGED <<latest, published, command>>
    BY <1>6 DEF Publish, source, loop
  <2>. QED BY <1>0, <2>1 DEF TypeOK
<1>7. CASE ChassisStep
  BY <1>1, <1>2, <1>3, <1>7 DEF ChassisStep, ReadChassis, SendChassis
<1>8. CASE ArmStep
  BY <1>1, <1>2, <1>3, <1>8 DEF ArmStep, ReadArm, SendArm
<1>9. CASE GimbalStep
  BY <1>1, <1>2, <1>3, <1>9 DEF GimbalStep, ReadGimbal, SendGimbal
<1>10. CASE GantryStep
  BY <1>1, <1>2, <1>3, <1>10 DEF GantryStep, ReadGantry, SkipGantry, SendGantry
<1>11. CASE UNCHANGED vars
  BY <1>1, <1>11 DEF vars, publisher, loop
<1>. QED
  BY <1>4, <1>5, <1>6, <1>7, <1>8, <1>9, <1>10, <1>11 DEF Next, RemoteStep

\* Before the first input all is as it was at power-on.
Untouched ==
  /\ published = NoInput
  /\ \A m \in AllModules : mailbox[m] = ZeroCommand /\ command[m] = ZeroCommand
  /\ \A m \in Integrating : setpoint[m] = 0
  /\ \A a \in Motors : motor[a] # "drive"

(* A robot whose remote has never been heard stands still: until the first *)
(* input is accepted no setpoint moves and no motor is driven, whatever    *)
(* modules are built in, however the threads interleave and calls fail.    *)
THEOREM StandsUntilInput == Spec => [](latest = NoInput => Untouched)
<1>1. Init => (latest = NoInput => Untouched)
  BY DEF Init, Source!Init, Untouched
<1>2. ASSUME IInv, latest = NoInput => Untouched, [Next]_vars, DisabledStep, latest' = NoInput
      PROVE  Untouched'
  <2>1. latest = NoInput /\ Untouched
    BY <1>2, CommandsMove, PathAssumption
  <2>2. published' = NoInput /\ \A m \in AllModules : Compose(m, published) = ZeroCommand
    BY <1>2, <2>1, CommandsMove DEF Untouched, Compose
  <2>3. \A m \in AllModules : mailbox'[m] = ZeroCommand /\ command'[m] = ZeroCommand
    BY <1>2, <2>1, <2>2, CommandsMove DEF Untouched
  <2>4. \A m \in AllModules : ~command[m].enable /\ ~command[m].move /\ ~command[m].wrist
    BY <2>1 DEF Untouched, ZeroCommand
  <2>5. \A m \in Integrating : m \in AllModules /\ ~command'[m].enable
    BY <2>3 DEF Integrating, ZeroCommand
  <2>6. \A m \in Integrating : setpoint'[m] = 0
    BY <1>2, <2>1, <2>5 DEF DisabledStep, Untouched
  <2>7. \A a \in Motors : motor'[a] # "drive"
    BY <1>2, <2>1, <2>4 DEF DisabledStep, Untouched, Starts, Motors
  <2>. QED BY <2>2, <2>3, <2>6, <2>7 DEF Untouched
<1>3. IInv /\ (latest = NoInput => Untouched) /\ [Next]_vars /\ [DisabledStep]_vars
        => (latest = NoInput => Untouched)'
  <2>1. (latest = NoInput => Untouched) /\ UNCHANGED vars => (latest = NoInput => Untouched)'
    BY DEF vars, publisher, loop, outputs, Untouched
  <2>. QED BY <1>2, <2>1
<1>. QED BY <1>1, <1>3, InvariantHolds, DisabledInStep, PTL DEF Spec

\* No message on the way lets the wrist or the gimbal move.
WithoutVt03 ==
  /\ latest # NoInput => latest.via # "vt03"
  /\ published # NoInput => published.via # "vt03"
  /\ ~mailbox["arm"].wrist /\ ~command["arm"].wrist
  /\ ~mailbox["gimbal"].enable /\ ~command["gimbal"].enable
  /\ motor["wrist"] # "drive" /\ motor["servo"] # "drive"
  /\ setpoint["gimbal"] = 0

(* Only the VT03 moves the wrist and the gimbal: on a robot that hears the *)
(* DR16 alone neither is ever driven and the gimbal keeps its angles.      *)
THEOREM OnlyVt03MovesGimbal ==
  (\A in \in OperatorInput : in.via # "vt03") /\ Spec =>
    [](motor["wrist"] # "drive" /\ motor["servo"] # "drive" /\ setpoint["gimbal"] = 0)
<1>. DEFINE Dr16Only == \A in \in OperatorInput : in.via # "vt03"
<1>1. Init => WithoutVt03
  BY DEF Init, Source!Init, WithoutVt03, ZeroCommand, Motors, Integrating
<1>2. ASSUME Dr16Only, IInv, WithoutVt03, [Next]_vars, DisabledStep
      PROVE  WithoutVt03'
  <2>1. /\ latest' # NoInput => latest'.via # "vt03"
        /\ published' # NoInput => published'.via # "vt03"
    BY <1>2, CommandsMove DEF WithoutVt03
  <2>2. ~Compose("arm", published).wrist /\ ~Compose("gimbal", published).enable
    BY <1>2 DEF WithoutVt03, Compose, ZeroCommand
  <2>3. /\ ~mailbox'["arm"].wrist /\ ~command'["arm"].wrist
        /\ ~mailbox'["gimbal"].enable /\ ~command'["gimbal"].enable
    BY <1>2, <2>2, CommandsMove DEF WithoutVt03
  <2>4. motor'["wrist"] # "drive" /\ motor'["servo"] # "drive" /\ setpoint'["gimbal"] = 0
    BY <1>2, <2>3 DEF DisabledStep, WithoutVt03, Starts, Integrating
  <2>. QED BY <2>1, <2>3, <2>4 DEF WithoutVt03
<1>3. Dr16Only /\ IInv /\ WithoutVt03 /\ [Next]_vars /\ [DisabledStep]_vars => WithoutVt03'
  <2>1. WithoutVt03 /\ UNCHANGED vars => WithoutVt03'
    BY DEF vars, publisher, loop, outputs, WithoutVt03
  <2>. QED BY <1>2, <2>1
<1>4. WithoutVt03
        => motor["wrist"] # "drive" /\ motor["servo"] # "drive" /\ setpoint["gimbal"] = 0
  BY DEF WithoutVt03
<1>5. CASE Dr16Only
  <2>1. IInv /\ WithoutVt03 /\ [Next]_vars /\ [DisabledStep]_vars => WithoutVt03'
    BY <1>3, <1>5
  <2>. QED BY <1>1, <1>4, <2>1, InvariantHolds, DisabledInStep, PTL DEF Spec
<1>. QED BY <1>5
=============================================================================
