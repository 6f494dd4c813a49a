----------------------------- MODULE Actuators ------------------------------
(***************************************************************************)
(* The three modules that bring their actuators up themselves: the gimbal  *)
(* looks for its servos (ServoBus), the arm and the gantry start motors    *)
(* and then tell them where to go (MitMotors).  They share neither a bus   *)
(* nor a motor, so that a behaviour is that of one of them: who.           *)
(***************************************************************************)
EXTENDS MitMotors

CONSTANTS Servos, Noise, Window, Answering, MaxLosses

VARIABLES
  pc, query, yaw, pitch, got, left, wire, owed, present, noise, faults, losses

servoVars == <<pc, query, yaw, pitch, got, left, wire, owed, present, noise, faults, losses>>

Servo == INSTANCE ServoBus

ASSUME ServoAssumption == Servo!BusAssumption

\* The variables of a module that does not run have one value.
ActuatorsInit ==
  /\ Init
  /\ Servo!Init
  /\ who # "gimbal" => present = {} /\ noise = CHOOSE b \in Noise : TRUE

ActuatorsNext ==
  \/ Next /\ UNCHANGED servoVars
  \/ who = "gimbal" /\ Servo!Next /\ UNCHANGED vars

allVars == <<vars, servoVars>>

ActuatorsSpec ==
  /\ ActuatorsInit /\ [][ActuatorsNext]_allVars
  /\ WF_vars(Thread)
  /\ WF_servoVars(who = "gimbal" /\ Servo!Tick)
  /\ WF_servoVars(who = "gimbal" /\ Servo!Send)
  /\ WF_servoVars(who = "gimbal" /\ Servo!TimedOut)

-----------------------------------------------------------------------------
(* What the gimbal finds: see ServoBus.                                    *)
AxesFindTheirServos == Servo!AxesFindTheirServos

(* What a module and its motors write into their frames, both read: see    *)
(* MotorFrames.                                                            *)
CurrentsAndReportsArrive == who # "gimbal" => FramesAgree

(* The gimbal's Initialize returns, however noisy its bus is.              *)
DiscoveryEnds == who = "gimbal" => Servo!DiscoveryEnds
=============================================================================
