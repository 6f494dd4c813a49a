---------------------------- MODULE CommandPath ----------------------------
(***************************************************************************)
(* From the latched operator input to what the motors are told.            *)
(*                                                                         *)
(* Once per round the remote_input thread composes one command per         *)
(* actuator module from latest_input_ and publishes the commands one after *)
(* the other, each on a zbus channel: a mailbox that keeps the last        *)
(* message.  The module threads read their mailbox in every round of their *)
(* own loops, update their targets and send frames.  Every zbus call and   *)
(* every CAN transmission uses K_NO_WAIT: it fails when the other side     *)
(* holds the channel or the controller has no free buffer, and the code    *)
(* carries on.                                                             *)
(*                                                                         *)
(* Abstractions.  A command is reduced to what it allows.  Setpoints that  *)
(* add up deltas (arm angles, gimbal angles, gantry distances) keep their  *)
(* distance from zero, one number per module.  What a motor was last told  *)
(* is "off" (zero current, or Stop), "hold" (the controller's output for a *)
(* target of zero) or "drive" (for another target).  The wheels are one    *)
(* motor, the two wrist motors are one, and so are the two servos;         *)
(* gantryY stands for the gantry motor that shares its CAN frame with the  *)
(* wrist and gantryX for those that do not (X and Z).  The DM motors of    *)
(* the arm are told the joint angles in every round and have no state.     *)
(***************************************************************************)
EXTENDS Integers, Sequences

CONSTANTS
  Configs,       \* the sets of actuator modules that Kconfig may enable
  OperatorInput, \* the remote in use and what its switches and sticks ask for
  StopTicks,     \* kNoCommandStopTicks
  SetMax,        \* the clamp of the accumulated setpoints
  NoInput        \* latest_input_valid_ = FALSE

AllModules == {"chassis", "arm", "gimbal", "gantry"}

ASSUME PathAssumption ==
  /\ Configs \subseteq SUBSET AllModules
  /\ OperatorInput \subseteq
       [via : {"dr16", "vt03"}, input : {"off", "centred", "moved"}]
  /\ StopTicks \in Nat
  /\ SetMax \in Nat \ {0}
  /\ NoInput \notin OperatorInput

VARIABLES
  modules,    \* the actuator modules of this build; they never change
  latest,     \* latest_input_
  published,  \* the input this round's commands are composed from
  todo,       \* the modules whose command is still to be published this round
  mailbox,    \* the message each command channel holds
  pc,         \* "read" or "send": where each module's loop is
  command,    \* each module's local copy of its last command
  idle,       \* idle_ticks_ of chassis and gimbal
  setpoint,   \* distance from zero of the accumulated setpoints
  target,     \* speed targets of the wheels and the wrist, the servos' enable
  stopped,    \* servo_stopped_
  motor       \* what each motor was last told

source == <<latest, published>>
publisher == <<modules, latest, published, todo, mailbox>>
loop == <<pc, command, idle, setpoint, target>>
outputs == <<stopped, motor>>
vars == <<publisher, loop, outputs>>

Source == INSTANCE InputSource

Command == [enable : BOOLEAN, move : BOOLEAN, wrist : BOOLEAN]
ZeroCommand == [enable |-> FALSE, move |-> FALSE, wrist |-> FALSE]

Counted == {"chassis", "gimbal"}
Integrating == {"arm", "gimbal", "gantry"}
Targets == {"wheels", "wrist", "servo"}
Motors == {"wheels", "wrist", "gantryX", "gantryY", "servo"}
Level == {"off", "hold", "drive"}

Init ==
  /\ modules \in Configs
  /\ Source!Init
  /\ todo = <<>>
  /\ mailbox = [m \in AllModules |-> ZeroCommand]
  /\ pc = [m \in AllModules |-> "read"]
  /\ command = [m \in AllModules |-> ZeroCommand]
  /\ idle = [m \in Counted |-> 0]
  /\ setpoint = [m \in Integrating |-> 0]
  /\ target = [t \in Targets |-> FALSE]
  /\ stopped = FALSE
  /\ motor = [a \in Motors |-> "off"]

-----------------------------------------------------------------------------
(* The remote_input thread.                                                *)

\* The four Compose...Command functions.  The wrist and the gimbal follow
\* the VT03 only.
Compose(m, in) ==
  IF in = NoInput THEN ZeroCommand
  ELSE LET on == in.input # "off" /\ (m = "gimbal" => in.via = "vt03")
           moved == on /\ in.input = "moved"
       IN  [enable |-> on, move |-> moved, wrist |-> moved /\ in.via = "vt03"]

\* DecodeUartFramesInQueue latches a new input.
Accept ==
  /\ todo = <<>>
  /\ Source!Accept
  /\ UNCHANGED <<modules, todo, mailbox, loop, outputs>>

\* The commands are composed; then they are published in this order.
Only(m) == IF m \in modules THEN <<m>> ELSE <<>>
Order == Only("chassis") \o Only("arm") \o Only("gimbal") \o Only("gantry")

BeginRound ==
  /\ todo = <<>>
  /\ Source!Publish
  /\ todo' = Order
  /\ UNCHANGED <<modules, mailbox, loop, outputs>>

\* A zbus_chan_pub that fails leaves the old message in the mailbox.
Publish(m, ok) ==
  /\ todo # <<>> /\ m = Head(todo)
  /\ mailbox' = IF ok THEN [mailbox EXCEPT ![m] = Compose(m, published)] ELSE mailbox
  /\ todo' = Tail(todo)
  /\ UNCHANGED <<modules, source, loop, outputs>>

-----------------------------------------------------------------------------
(* The module threads: read the mailbox and update the targets.            *)

\* A mutation of Receive: the handler runs, the local copy is not refreshed.
ReceiveStale(m, ok) ==
  /\ m \in modules /\ pc[m] = "read"
  /\ pc' = [pc EXCEPT ![m] = "send"]
  /\ command' = command
  /\ UNCHANGED <<publisher, outputs>>

\* zbus_chan_read succeeds whenever the channel is free, whether or not its
\* message has been read before.
Receive(m, ok) ==
  /\ m \in modules /\ pc[m] = "read"
  /\ pc' = [pc EXCEPT ![m] = "send"]
  /\ command' = IF ok THEN [command EXCEPT ![m] = mailbox[m]] ELSE command
  /\ UNCHANGED <<publisher, outputs>>

\* The command a module acts on in this round; none after a failed read.
Seen(m, ok) == IF ok THEN mailbox[m] ELSE ZeroCommand

\* The idle counters restart with every successful read.  Only whether they
\* have passed StopTicks matters, so they are capped just above it.
Count(m, ok) ==
  idle' = [idle EXCEPT ![m] = IF ok THEN 0 ELSE IF @ > StopTicks THEN @ ELSE @ + 1]

\* A delta moves a setpoint by one, or not at all: a clamp, the claw's
\* holding-current guard, or deltas that cancel.
Step(x, c) ==
  IF c.enable /\ c.move THEN {x - 1, x, x + 1} \cap 0 .. SetMax ELSE {x}

\* A mutation of ReadChassis: a command of zero is taken for none.
ReadChassisIgnoresZero(ok) ==
  /\ Receive("chassis", ok)
  /\ Count("chassis", ok)
  /\ target' = [target EXCEPT !["wheels"] =
                  IF ok /\ mailbox["chassis"].move THEN TRUE
                  ELSE @ /\ idle["chassis"] < StopTicks]
  /\ UNCHANGED setpoint

\* After StopTicks failed reads in a row the targets are reset.
ReadChassis(ok) ==
  /\ Receive("chassis", ok)
  /\ Count("chassis", ok)
  /\ target' = [target EXCEPT !["wheels"] =
                  IF ok THEN mailbox["chassis"].move
                  ELSE @ /\ idle["chassis"] < StopTicks]
  /\ UNCHANGED setpoint

\* A mutation of ReadArm: a command that disables the arm is not handled.
ReadArmKeepsTarget(ok) ==
  /\ Receive("arm", ok)
  /\ \E x \in Step(setpoint["arm"], Seen("arm", ok)) :
       setpoint' = [setpoint EXCEPT !["arm"] = x]
  /\ target' = [target EXCEPT !["wrist"] = @ \/ Seen("arm", ok).wrist]
  /\ UNCHANGED idle

\* A disabled or missing command stops the wrist; the joint angles stay.
ReadArm(ok) ==
  /\ Receive("arm", ok)
  /\ \E x \in Step(setpoint["arm"], Seen("arm", ok)) :
       setpoint' = [setpoint EXCEPT !["arm"] = x]
  /\ \E w \in {FALSE, Seen("arm", ok).wrist} :
       target' = [target EXCEPT !["wrist"] = w]
  /\ UNCHANGED idle

ReadGimbal(ok) ==
  /\ Receive("gimbal", ok)
  /\ Count("gimbal", ok)
  /\ target' = [target EXCEPT !["servo"] =
                  IF ok THEN mailbox["gimbal"].enable
                  ELSE @ /\ idle["gimbal"] < StopTicks]
  /\ \E x \in Step(setpoint["gimbal"], Seen("gimbal", ok)) :
       setpoint' = [setpoint EXCEPT !["gimbal"] = x]

\* A command that is read and disables the gantry clears the distances.
ReadGantry(ok) ==
  /\ Receive("gantry", ok)
  /\ \E x \in IF ok /\ ~mailbox["gantry"].enable
              THEN {0} ELSE Step(setpoint["gantry"], Seen("gantry", ok)) :
       setpoint' = [setpoint EXCEPT !["gantry"] = x]
  /\ UNCHANGED <<idle, target>>

-----------------------------------------------------------------------------
(* The module threads: send.  A CAN frame 0x200 carries the currents of    *)
(* four motors at once; the arm fills the wrist's slots of its CAN3 frame  *)
(* and leaves zero in the gantry's, the gantry does the opposite.          *)

Sent(m) ==
  /\ m \in modules /\ pc[m] = "send"
  /\ pc' = [pc EXCEPT ![m] = "read"]
  /\ UNCHANGED <<publisher, command, idle, setpoint, target>>

\* What a controller may ask for: nothing while its motor has sent no
\* feedback, and "drive" only when there is something to drive to.
Asked(driving) == IF driving THEN Level ELSE {"off", "hold"}

SendChassis(ok) ==
  /\ Sent("chassis")
  /\ \E v \in Asked(target["wheels"]) :
       motor' = IF ok THEN [motor EXCEPT !["wheels"] = v] ELSE motor
  /\ UNCHANGED stopped

SendArm(ok) ==
  /\ Sent("arm")
  /\ \E v \in Asked(target["wrist"]) :
       motor' = IF ok THEN [motor EXCEPT !["wrist"] = v, !["gantryY"] = "off"] ELSE motor
  /\ UNCHANGED stopped

\* A mutation of SendGimbal: servo_stopped_ is not cleared by a movement.
SendGimbalStaysStopped(due) ==
  /\ Sent("gimbal")
  /\ stopped' = (stopped \/ ~target["servo"])
  /\ motor' = [motor EXCEPT !["servo"] =
                 IF target["servo"] THEN IF due THEN "drive" ELSE @
                 ELSE IF stopped THEN @ ELSE "off"]

\* Stop is sent once when the servos are disabled; a position is sent when
\* the 20 ms period is over and the angle has changed enough.
SendGimbal(due) ==
  /\ Sent("gimbal")
  /\ stopped' = ~target["servo"]
  /\ motor' = [motor EXCEPT !["servo"] =
                 IF target["servo"] THEN IF due THEN "drive" ELSE @
                 ELSE IF stopped THEN @ ELSE "off"]

\* While its last command disables it, the gantry sends nothing at all.
SkipGantry ==
  /\ Sent("gantry")
  /\ ~command["gantry"].enable
  /\ UNCHANGED outputs

\* A mutation of SendGantry: its frame repeats the wrist's last currents.
SendGantryKeepsWrist(xOk, yOk) ==
  /\ Sent("gantry")
  /\ command["gantry"].enable
  /\ \E x, y \in Asked(setpoint["gantry"] # 0) :
       motor' = [motor EXCEPT !["gantryX"] = IF xOk THEN x ELSE @,
                              !["gantryY"] = IF yOk THEN y ELSE @]
  /\ UNCHANGED stopped

SendGantry(xOk, yOk) ==
  /\ Sent("gantry")
  /\ command["gantry"].enable
  /\ \E x, y \in Asked(setpoint["gantry"] # 0) :
       motor' = [motor EXCEPT !["gantryX"] = IF xOk THEN x ELSE @,
                              !["gantryY"] = IF yOk THEN y ELSE @,
                              !["wrist"]   = IF yOk THEN "off" ELSE @]
  /\ UNCHANGED stopped

-----------------------------------------------------------------------------
RemoteStep == BeginRound \/ \E m \in AllModules, ok \in BOOLEAN : Publish(m, ok)
ChassisStep == \E ok \in BOOLEAN : ReadChassis(ok) \/ SendChassis(ok)
ArmStep == \E ok \in BOOLEAN : ReadArm(ok) \/ SendArm(ok)
GimbalStep == \E ok \in BOOLEAN : ReadGimbal(ok) \/ SendGimbal(ok)
GantryStep ==
  \/ \E ok \in BOOLEAN : ReadGantry(ok)
  \/ SkipGantry
  \/ \E xOk, yOk \in BOOLEAN : SendGantry(xOk, yOk)

Next == Accept \/ RemoteStep \/ ChassisStep \/ ArmStep \/ GimbalStep \/ GantryStep

Spec == Init /\ [][Next]_vars

\* A module's loop keeps running: the threads share one priority and are
\* time-sliced.  A call with K_NO_WAIT fails only in the short moments in
\* which its peer is preempted inside the channel's lock, or the controller's
\* buffers are full: a caller that tries every round does not fail for ever.
ModuleFairness ==
  /\ WF_vars(ChassisStep) /\ WF_vars(ArmStep) /\ WF_vars(GimbalStep) /\ WF_vars(GantryStep)
  /\ "chassis" \in UNION Configs => SF_vars(ReadChassis(TRUE)) /\ SF_vars(SendChassis(TRUE))
  /\ "arm" \in UNION Configs => SF_vars(ReadArm(TRUE)) /\ SF_vars(SendArm(TRUE))
  /\ "gimbal" \in UNION Configs => SF_vars(ReadGimbal(TRUE))
  /\ "gantry" \in UNION Configs => SF_vars(ReadGantry(TRUE))

RemoteFairness ==
  /\ WF_vars(RemoteStep)
  /\ \A m \in UNION Configs : SF_vars(Publish(m, TRUE))

\* The remote_input thread may stop publishing; the modules go on.
ModuleSpec == Spec /\ ModuleFairness
FairSpec == Spec /\ ModuleFairness /\ RemoteFairness

-----------------------------------------------------------------------------
(* The types of the variables, with the clamp of the setpoints.            *)
TypeOK ==
  /\ modules \in Configs
  /\ latest \in OperatorInput \cup {NoInput}
  /\ published \in OperatorInput \cup {NoInput}
  /\ todo \in Seq(AllModules)
  /\ mailbox \in [AllModules -> Command]
  /\ pc \in [AllModules -> {"read", "send"}]
  /\ command \in [AllModules -> Command]
  /\ idle \in [Counted -> 0 .. StopTicks + 1]
  /\ setpoint \in [Integrating -> 0 .. SetMax]
  /\ target \in [Targets -> BOOLEAN]
  /\ stopped \in BOOLEAN
  /\ motor \in [Motors -> Level]

(* The arm and the gantry both send CAN3 frame 0x200, and each puts zero   *)
(* into the other's slots: the wrist and the gantry's Y axis never have    *)
(* current at the same time, whatever the operator asks for.               *)
WristAndYExclude == motor["wrist"] = "off" \/ motor["gantryY"] = "off"

(* While servo_stopped_ suppresses further Stop packets the servos are not *)
(* moving: the one Stop that was sent came after the last position.        *)
StoppedServosStay == stopped => motor["servo"] = "off"

Starts(a) == motor[a] # "drive" /\ motor'[a] = "drive"

(* Disabled outputs do not grow: a motor starts to be driven, and a        *)
(* setpoint changes, only while the command its module holds enables it;   *)
(* the exception is the gantry's setpoint, which a disabling command       *)
(* clears.  A module whose command disables it never adds to an output of  *)
(* another one either.                                                     *)
DisabledOutputsDoNotGrow ==
  [][ /\ Starts("wheels") => command["chassis"].move
      /\ Starts("wrist") => command["arm"].wrist
      /\ Starts("servo") => command["gimbal"].enable
      /\ Starts("gantryX") \/ Starts("gantryY") => command["gantry"].enable
      /\ \A m \in Integrating :
           setpoint'[m] # setpoint[m] =>
             command'[m].enable \/ (m = "gantry" /\ setpoint'[m] = 0)
    ]_vars

(* Once the operator lets go for good -- sticks centred or switched off -- *)
(* the wheels are told to stop and stay stopped, though publications,      *)
(* reads and transmissions may fail now and then.                          *)
ReleaseStopsWheels ==
  <>[]~Compose("chassis", latest).move => <>[](motor["wheels"] # "drive")

(* Once the operator disables the robot for good, the wrist and the        *)
(* gantry's Y axis stop -- the axis only because the arm keeps sending     *)
(* zero in its slot: the disabled gantry sends nothing.                    *)
DisableStopsWristAndY ==
  <>[]~Compose("arm", latest).enable =>
    <>[](motor["wrist"] # "drive" /\ motor["gantryY"] # "drive")

(* Once the operator disables the robot for good, or goes over to the      *)
(* DR16, the servos are stopped and stay stopped.                          *)
DisableStopsServos ==
  <>[]~Compose("gimbal", latest).enable => <>[](motor["servo"] = "off")

(* The baseline checklist: the idle count increases when no command        *)
(* arrives, and the wheel targets return to zero after the timeout.        *)
TargetsReturnToZero == <>[](todo = <<>>) => []<>~target["wheels"]
=============================================================================
