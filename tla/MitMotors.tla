----------------------------- MODULE MitMotors -----------------------------
(***************************************************************************)
(* The motors that take MIT frames: the arm's three DM motors and the two  *)
(* Cubemars motors of the gantry's Z axis.                                 *)
(*                                                                         *)
(* A module's thread first sends its motors the control frames that start  *)
(* them, once and without looking at the result; then it tells them a      *)
(* position (DM) or a speed (Cubemars) in every round.  The two threads    *)
(* share neither motors nor buses, and a behaviour is one of them: who.    *)
(* (The gimbal's motors are servos on a bus of their own: see ServoBus.)   *)
(*                                                                         *)
(* Angles, distances and speeds are in hundredths.  How commands and       *)
(* reports get to the module is in CommandPath and in CanFeedback: here    *)
(* the mailbox holds the last command and report the newest one, which a   *)
(* decoder may meet more than once without a difference.  A round drains   *)
(* the queue of reports first; what is reported after its last look into   *)
(* the queue waits for the next round, while it works on what it holds.    *)
(***************************************************************************)
EXTENDS MotorFrames

CONSTANTS
  Joints,   \* the arm's motors in the order of its frames: claw, pitch, yaw
  Delta,    \* bound: the changes a command may ask of each setpoint
  Current,  \* bound: the currents the claw reports, in milliamperes
  Speed,    \* bound: the speeds the Z controllers ask for
  None      \* no report or order yet

Setpoint == {"claw", "pitch", "yaw", "z"}
Motors == [arm |-> Joints, gantry |-> <<"zleft", "zright">>, gimbal |-> <<>>]
Motor == {"claw", "pitch", "yaw", "zleft", "zright"}
Runs(w, m) == \E i \in 1 .. Len(Motors[w]) : Motors[w][i] = m

Told == [p : UInt16, v : UInt12, kp : UInt12, kd : UInt12, t : UInt12]

ASSUME MotorAssumption ==
  /\ Joints \in Seq({"claw", "pitch", "yaw"})
  /\ \A s \in Setpoint : Delta[s] \subseteq Int
  /\ Current \subseteq Int16
  /\ Speed \subseteq Int
  /\ None \notin Int16 \cup Told \cup [1 .. 8 -> Byte]

VARIABLES
  who,      \* the module whose thread runs
  todo,     \* what the thread still has to send before it sleeps
  stage,    \* what its next round does next: "drain" the queue or "act"
  mailbox,  \* the message of the module's command channel
  command,  \* the gantry's copy of its last command
  setpoint, \* virtual angles and distances
  want,     \* what the thread tells each motor in this round
  report,   \* the newest report of each motor, or None
  held,     \* the current in the last report decoded from each motor, or None
  motor,    \* external: the motors
  lost,     \* history: a frame has been lost
  closings  \* history: how often, up to two, the claw has closed further
            \* since its reports show the holding current

thread == <<todo, stage, command, setpoint, want, held>>
vars == <<who, mailbox, report, thread, motor, lost, closings>>

Command == [enable : BOOLEAN, delta : [Setpoint -> Int]]
Commands ==
  {c \in [enable : BOOLEAN, delta : [Setpoint -> UNION {Delta[s] : s \in Setpoint}]] :
     \A s \in Setpoint : c.delta[s] \in Delta[s]}
ZeroCommand == [enable |-> FALSE, delta |-> [s \in Setpoint |-> 0]]

\* kClawLimit, kElbowPitchLimit, kElbowYawLimit, kZAxisLimit.
Limit == [claw |-> 50, pitch |-> 100, yaw |-> 314, z |-> 500]
kZAxisSpeedLimit == 2000
kClawHoldCurrentLimit == 2000

-----------------------------------------------------------------------------
(* What the threads send.                                                  *)

\* A mutation of Control: the motors enter before their errors are cleared.
ControlEntersFirst ==
  [arm |-> <<"Enter", "ClearError">>, gantry |-> <<"Enter", "SaveZero">>, gimbal |-> <<>>]

\* SendDmStartupSequence, SendCubemarsStartupSequence.
Control ==
  [arm |-> <<"ClearError", "Enter">>, gantry |-> <<"SaveZero", "Enter">>, gimbal |-> <<>>]

FramesTo(w, frame) ==
  [i \in 1 .. Len(Motors[w]) |-> [frame |-> frame, to |-> Motors[w][i]]]

Startup(w) == FramesTo(w, Control[w][1]) \o FramesTo(w, Control[w][2])
Round(w) == FramesTo(w, "mit")

MitRange(p, v, kp, kd, t) == [p |-> p, v |-> v, kp |-> kp, kd |-> kd, t |-> t]
DmRange ==
  MitRange(<<-1250, 1250>>, <<-1000, 1000>>, <<0, 50000>>, <<0, 500>>, <<-2900, 2900>>)
CubemarsRange ==
  MitRange(<<-1250, 1250>>, <<-5000, 5000>>, <<0, 50000>>, <<0, 500>>, <<-1800, 1800>>)

\* SendDmMitCommand with kDm...Kp = 10, and the gantry's commands.
Mit(m, x) ==
  IF m \in {"zleft", "zright"}
  THEN PackMitCommand([p |-> 0, v |-> x, kp |-> 0, kd |-> 80, t |-> 0], CubemarsRange)
  ELSE PackMitCommand([p |-> x, v |-> 0, kp |-> 1000, kd |-> 0, t |-> 0], DmRange)

Frame(entry) ==
  IF entry.frame = "mit" THEN Mit(entry.to, want[entry.to]) ELSE ControlFrame(entry.frame)

Init ==
  /\ who \in DOMAIN Motors
  /\ todo = Startup(who) /\ stage = "drain"
  /\ mailbox = ZeroCommand
  /\ command = ZeroCommand
  /\ setpoint = [s \in Setpoint |-> 0]
  /\ want = [m \in Motor |-> 0]
  /\ report = [m \in Motor |-> None]
  /\ held = [m \in Motor |-> None]
  /\ motor \in [Motor -> [mode : {"error", "off", "on"}, told : {None}]]
  /\ \A m \in Motor : motor[m].mode # "off" => Runs(who, m)
  /\ \A m \in {"zleft", "zright"} : motor[m].mode # "error"
  /\ lost = FALSE /\ closings = 0

-----------------------------------------------------------------------------
\* External: a motor obeys a control frame in its present mode, and an MIT
\* frame while it is on.
Obeys(mo, f) ==
  CASE f = ControlFrame("ClearError") -> [mo EXCEPT !.mode = IF @ = "error" THEN "off" ELSE @]
    [] f = ControlFrame("Enter") -> [mo EXCEPT !.mode = IF @ = "off" THEN "on" ELSE @]
    [] f = ControlFrame("Exit") -> [mo EXCEPT !.mode = IF @ = "on" THEN "off" ELSE @]
    [] f = ControlFrame("SaveZero") -> mo
    [] OTHER -> IF mo.mode = "on" THEN [mo EXCEPT !.told = ReadMit(f)] ELSE mo

\* SendStdDataOnBus for the next frame.
Send(arrives) ==
  /\ todo # <<>>
  /\ LET m == Head(todo).to IN
       motor' = IF arrives THEN [motor EXCEPT ![m] = Obeys(@, Frame(Head(todo)))] ELSE motor
  /\ lost' = (lost \/ ~arrives)
  /\ todo' = Tail(todo)
  /\ UNCHANGED <<who, mailbox, report, stage, command, setpoint, want, held, closings>>

\* A mutation of Decoded: a motor's first report is kept.
DecodedOnce ==
  [m \in Motor |-> IF held[m] = None /\ report[m] # None
                   THEN DmFeedback(report[m]).current ELSE held[m]]

HoldingCurrent(c) == c >= kClawHoldCurrentLimit \/ c <= -kClawHoldCurrentLimit

\* The newest report of the claw shows its holding current, or the last one
\* that has been decoded does.
Overloaded == report["claw"] # None /\ HoldingCurrent(DmFeedback(report["claw"]).current)
Grips == held["claw"] # None /\ HoldingCurrent(held["claw"])

\* What DecodeCanFramesInQueue leaves behind.  Of the other motors only that
\* they have reported is used here.
Decoded ==
  [m \in Motor |-> IF report[m] # None THEN DmFeedback(report[m]).current ELSE held[m]]

\* The start of a round: DecodeCanFramesInQueue, up to the dequeue that finds
\* the queue empty.
DecodeCanFramesInQueue ==
  /\ who # "gimbal" /\ todo = <<>> /\ stage = "drain"
  /\ stage' = "act"
  /\ held' = Decoded
  /\ UNCHANGED <<who, mailbox, report, todo, command, setpoint, want, motor, lost, closings>>

Moved(s, c) == Clamp(setpoint[s] + c.delta[s], -Limit[s], Limit[s])

\* ControlClaw: while the motor reports its holding current the claw does
\* not close further.
Holds(c) == Grips /\ Moved("claw", c) < setpoint["claw"]

\* The rest of ArmModule::RunLoop up to the frames: a disabled or missing
\* command leaves the angles alone, and they are sent all the same.
ArmRound(ok) ==
  /\ who = "arm" /\ stage = "act"
  /\ stage' = "drain"
  /\ setpoint' = IF ok /\ mailbox.enable
                 THEN [s \in Setpoint |->
                         IF s = "z" \/ (s = "claw" /\ Holds(mailbox))
                         THEN setpoint[s] ELSE Moved(s, mailbox)]
                 ELSE setpoint
  /\ want' = [m \in Motor |-> IF m \in Setpoint THEN setpoint'[m] ELSE want[m]]
  /\ todo' = Round("arm")
  /\ closings' = IF Overloaded /\ setpoint'["claw"] < setpoint["claw"] /\ closings < 2
                 THEN closings + 1 ELSE closings
  /\ UNCHANGED <<who, mailbox, report, command, held, motor, lost>>

\* What the angle controllers ask for; zero without feedback.
Asked(m) ==
  IF held[m] = None THEN {0}
  ELSE {Clamp(v, -kZAxisSpeedLimit, kZAxisSpeedLimit) : v \in Speed}

\* The rest of GantryModule::RunLoop up to the frames: the last command read
\* counts, a disabling one clears the distance, and nothing is sent while it
\* does.
GantryRound(ok) ==
  /\ who = "gantry" /\ stage = "act"
  /\ stage' = "drain"
  /\ command' = IF ok THEN mailbox ELSE command
  /\ setpoint' = IF ~ok THEN setpoint
                 ELSE [setpoint EXCEPT !["z"] = IF mailbox.enable THEN Moved("z", mailbox) ELSE 0]
  /\ IF command'.enable
     THEN /\ \E l \in Asked("zleft"), r \in Asked("zright") :
               want' = [want EXCEPT !["zleft"] = l, !["zright"] = r]
          /\ todo' = Round("gantry")
     ELSE UNCHANGED <<want, todo>>
  /\ UNCHANGED <<who, mailbox, report, held, motor, lost, closings>>

-----------------------------------------------------------------------------
\* The remote_input thread publishes a command.
Publish ==
  /\ who # "gimbal"
  /\ mailbox' \in Commands
  /\ UNCHANGED <<who, report, thread, motor, lost, closings>>

\* External: a motor reports its current.
ReportFrame(c) == EightByteReport(0, 0, c, 0, 0)

Report(m) ==
  /\ Runs(who, m)
  /\ \E c \in IF m = "claw" THEN Current ELSE {0} :
       report' = [report EXCEPT ![m] = ReportFrame(c)]
  /\ closings' = IF Overloaded' THEN closings ELSE 0
  /\ UNCHANGED <<who, mailbox, thread, motor, lost>>

Thread ==
  DecodeCanFramesInQueue \/ \E b \in BOOLEAN : Send(b) \/ ArmRound(b) \/ GantryRound(b)

Next == Publish \/ (\E m \in {"claw", "zleft", "zright"} : Report(m)) \/ Thread

Spec == Init /\ [][Next]_vars

\* The threads sleep in every round and are scheduled again and again.
FairSpec == Spec /\ WF_vars(Thread)

-----------------------------------------------------------------------------
TypeOK ==
  /\ who \in DOMAIN Motors
  /\ todo \in Seq([frame : {"ClearError", "SaveZero", "Enter", "mit"}, to : Motor])
  /\ stage \in {"drain", "act"}
  /\ mailbox \in Command /\ command \in Command
  /\ setpoint \in [Setpoint -> Int]
  /\ \A s \in Setpoint : setpoint[s] \in -Limit[s] .. Limit[s]
  /\ want \in [Motor -> Int]
  /\ report \in [Motor -> [1 .. 8 -> Byte] \cup {None}]
  /\ held \in [Motor -> Int16 \cup {None}]
  /\ motor \in [Motor -> [mode : {"error", "off", "on"}, told : Told \cup {None}]]
  /\ lost \in BOOLEAN /\ closings \in 0 .. 2

\* Step q stands for some value between -max and max.
Within(q, max, lo, hi, steps) ==
  /\ 2 * (q * (hi - lo) - (max - lo) * steps) <= hi - lo
  /\ 2 * ((-max - lo) * steps - q * (hi - lo)) <= hi - lo

(* What a motor takes for its orders is what the module means, whatever    *)
(* frames were lost: a position or speed within the module's limits, the   *)
(* gains of the code and no torque, each to half a step.                   *)
ToldIsMeant ==
  \A m \in Motor : LET q == motor[m].told IN q # None =>
    IF m \in {"zleft", "zright"}
    THEN /\ Within(q.v, kZAxisSpeedLimit, -5000, 5000, 4095)
         /\ Nearest(q.p, 0, -1250, 1250, 65535) /\ Nearest(q.kp, 0, 0, 50000, 4095)
         /\ Nearest(q.kd, 80, 0, 500, 4095) /\ Nearest(q.t, 0, -1800, 1800, 4095)
    ELSE /\ Within(q.p, Limit[m], -1250, 1250, 65535)
         /\ Nearest(q.v, 0, -1000, 1000, 4095) /\ Nearest(q.kp, 1000, 0, 50000, 4095)
         /\ Nearest(q.kd, 0, 0, 500, 4095) /\ Nearest(q.t, 0, -2900, 2900, 4095)

FollowsSetpoint(m) ==
  /\ motor[m].told # None
  /\ Nearest(motor[m].told.p, setpoint[m], -1250, 1250, 65535)

(* While no frame is lost the two start-up frames are enough to switch     *)
(* every motor on, also one that starts in an error (DM), nothing the      *)
(* module sends later switches one off, and the arm's motors come to rest  *)
(* where a command that stays takes the joints.                            *)
MotorsFollow ==
  []<>~lost =>
    /\ \A m \in Motor :
         <>[](Runs(who, m) => motor[m].mode = "on")
    /\ (who = "arm" /\ <>[][FALSE]_mailbox) =>
         \A m \in {"claw", "pitch", "yaw"} : <>[](Runs(who, m) => FollowsSetpoint(m))

(* From the first report of the holding current until one below it, the    *)
(* claw closes further once at most, in the round whose last look into the *)
(* queue was before that first report; however long the reports stay away  *)
(* or go on, of either sign, and whatever the commands ask.                *)
GripHolds == Overloaded => closings <= 1
=============================================================================
