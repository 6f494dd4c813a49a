------------------------------ MODULE ServoBus ------------------------------
(***************************************************************************)
(* How the gimbal finds its two servos.  GimbalModule::Initialize asks the *)
(* servo with the default id of each axis for its id and, when neither     *)
(* answers, asks everybody once for the yaw axis.  ReadId sends a query    *)
(* and collects one packet, byte by byte, until a deadline that is set     *)
(* once per packet.  It looks at the packet's checksum and command but not *)
(* at the id that sent it, and leaves unread what it has not consumed.     *)
(*                                                                         *)
(* The bus is the environment: a servo may be absent, answer late or       *)
(* never, bytes get lost on the way, and stray bytes come in between.      *)
(* Bytes have their real values.  Time passes in ticks; between two ticks  *)
(* any number of bytes can be read.                                        *)
(***************************************************************************)
EXTENDS Integers, Sequences

CONSTANTS
  Servos,   \* the ids that servos may have
  Noise,    \* bound: the stray bytes, of which a behaviour meets one
  Window,   \* the ticks of a receive timeout (120 or 200 ms in the code)
  Answering, \* bound: how many answers can be on their way at once
  MaxLosses  \* bound: how many bytes get lost

kFrameHead == 85
kReadIdCmd == 14
kBroadcast == 254
kDefaultYawServoId == 1
kDefaultPitchServoId == 2

Ids == 0 .. 253
UInt8 == 0 .. 255

BusAssumption ==
  /\ Servos \subseteq Ids
  /\ Noise \subseteq UInt8
  /\ Window \in Nat \ {0} /\ Answering \in Nat /\ MaxLosses \in Nat

VARIABLES
  pc,     \* "send", "receive" or "done"
  query,  \* the query under way: "yaw", "pitch" or "any"
  yaw,    \* yaw_servo_id_ and yaw_servo_online_
  pitch,  \* pitch_servo_id_ and pitch_servo_online_
  got,    \* the bytes of the packet that ReceivePacket is collecting
  left,   \* the ticks until its deadline
  wire,   \* the received bytes that have not been read
  owed,   \* the servos that have been asked and may still answer
  present, \* the servos that are on the bus
  noise,  \* the byte that a disturbance of the bus looks like
  faults, \* history: what else has gone wrong on the bus so far
  losses  \* history: how many bytes have been lost

vars == <<pc, query, yaw, pitch, got, left, wire, owed, present, noise, faults, losses>>

Init ==
  /\ pc = "send" /\ query = "yaw"
  /\ yaw = [id |-> kDefaultYawServoId, online |-> FALSE]
  /\ pitch = [id |-> kDefaultPitchServoId, online |-> FALSE]
  /\ got = <<>> /\ left = 0
  /\ wire = <<>> /\ owed = {}
  /\ present \in SUBSET Servos /\ noise \in Noise
  /\ faults = {} /\ losses = 0

-----------------------------------------------------------------------------
(* Packets.                                                                *)

Sum(s) ==
  LET sum[i \in 0 .. Len(s)] == IF i = 0 THEN 0 ELSE sum[i - 1] + s[i]
  IN  sum[Len(s)]

\* ~(sum & 0xff), as a byte; the head is not summed.
Checksum(s) == 255 - (Sum(s) % 256)

Packet(id, params) ==
  LET body == <<id, Len(params) + 3, kReadIdCmd>> \o params
  IN  <<kFrameHead, kFrameHead>> \o Append(body, Checksum(body))

\* A byte after the bytes g.  The search for the two head bytes starts over
\* when the second one is something else.
NextGot(g, byte) ==
  IF Len(g) < 2 /\ byte # kFrameHead THEN <<>> ELSE Append(g, byte)

\* A mutation of Complete: a packet is believed whatever its checksum.
CompleteUnchecked(g) ==
  IF Len(g) < 5 THEN "more"
  ELSE IF g[4] < 3 \/ g[4] - 3 > 16 THEN "error"
  ELSE IF Len(g) < g[4] + 3 THEN "more"
  ELSE "packet"

\* What ReceivePacket makes of the bytes g: its payload buffer has room for
\* 16 bytes.
Complete(g) ==
  IF Len(g) < 5 THEN "more"
  ELSE IF g[4] < 3 \/ g[4] - 3 > 16 THEN "error"
  ELSE IF Len(g) < g[4] + 3 THEN "more"
  ELSE IF g[Len(g)] = Checksum(SubSeq(g, 3, Len(g) - 1)) THEN "packet"
  ELSE "error"

\* ReadId's tests of a complete packet, and its result.
IsAnswer(g) == g[5] = kReadIdCmd /\ g[4] - 3 >= 1
AnsweredId(g) == g[6]

-----------------------------------------------------------------------------
(* The main thread in GimbalModule::Initialize.                            *)

QueryId ==
  CASE query = "yaw"   -> yaw.id
    [] query = "pitch" -> pitch.id
    [] query = "any"   -> kBroadcast

Send ==
  /\ pc = "send"
  /\ owed' = owed \cup {s \in present : QueryId \in {s, kBroadcast}}
  /\ left' = Window
  /\ pc' = "receive"
  /\ UNCHANGED <<query, got, yaw, pitch, wire, present, noise, faults, losses>>

\* The next query: the broadcast follows only when both axes are offline.
Advance(online) ==
  CASE query = "yaw"   -> query' = "pitch" /\ pc' = "send"
    [] query = "pitch" -> IF online \/ yaw.online
                          THEN UNCHANGED query /\ pc' = "done"
                          ELSE query' = "any" /\ pc' = "send"
    [] query = "any"   -> UNCHANGED query /\ pc' = "done"

Found(id) ==
  /\ IF query = "pitch"
     THEN pitch' = [id |-> id, online |-> TRUE] /\ UNCHANGED yaw
     ELSE yaw' = [id |-> id, online |-> TRUE] /\ UNCHANGED pitch
  /\ Advance(TRUE)

NotFound ==
  /\ UNCHANGED <<yaw, pitch>>
  /\ Advance(FALSE)

\* A mutation of ReadByte: every byte starts the timeout anew.
ReadByteRestarts ==
  /\ pc = "receive" /\ left > 0 /\ wire # <<>>
  /\ LET g == NextGot(got, Head(wire))
     IN  /\ got' = IF Complete(g) = "more" THEN g ELSE <<>>
         /\ CASE Complete(g) = "more"  -> UNCHANGED <<pc, query, yaw, pitch>>
              [] Complete(g) = "error" -> NotFound
              [] OTHER -> IF IsAnswer(g) THEN Found(AnsweredId(g)) ELSE NotFound
  /\ wire' = Tail(wire)
  /\ left' = Window
  /\ UNCHANGED <<owed, present, noise, faults, losses>>

\* PollOneByte succeeds.
ReadByte ==
  /\ pc = "receive" /\ left > 0 /\ wire # <<>>
  /\ LET g == NextGot(got, Head(wire))
     IN  /\ got' = IF Complete(g) = "more" THEN g ELSE <<>>
         /\ CASE Complete(g) = "more"  -> UNCHANGED <<pc, query, yaw, pitch>>
              [] Complete(g) = "error" -> NotFound
              [] OTHER -> IF IsAnswer(g) THEN Found(AnsweredId(g)) ELSE NotFound
  /\ wire' = Tail(wire)
  /\ UNCHANGED <<left, owed, present, noise, faults, losses>>

\* PollOneByte finds the deadline passed, also when bytes are waiting.
TimedOut ==
  /\ pc = "receive" /\ left = 0
  /\ NotFound
  /\ faults' = IF owed # {} \/ wire # <<>> THEN faults \cup {"late"} ELSE faults
  /\ got' = <<>>
  /\ UNCHANGED <<left, wire, owed, present, noise, losses>>

-----------------------------------------------------------------------------
(* Time and the bus.                                                       *)

Tick ==
  /\ pc = "receive" /\ left > 0
  /\ left' = left - 1
  /\ UNCHANGED <<pc, query, yaw, pitch, got, wire, owed, present, noise, faults, losses>>

\* A servo answers with its own id, or never: then it stays in owed.
Answer(s) ==
  /\ s \in owed
  /\ Len(wire) <= 7 * (Answering - 1)
  /\ wire' = wire \o Packet(s, <<s>>)
  /\ owed' = owed \ {s}
  /\ UNCHANGED <<pc, query, yaw, pitch, got, left, present, noise, faults, losses>>

\* The receiver overruns: the byte that would be read next is gone.
LoseByte ==
  /\ wire # <<>> /\ losses < MaxLosses
  /\ wire' = Tail(wire)
  /\ losses' = losses + 1
  /\ UNCHANGED <<pc, query, yaw, pitch, got, left, owed, present, noise, faults>>

StrayByte ==
  /\ wire = <<>>
  /\ wire' = <<noise>>
  /\ faults' = faults \cup {"stray"}
  /\ UNCHANGED <<pc, query, yaw, pitch, got, left, owed, present, noise, losses>>

\* Nobody reads the bus after the discovery.
Bus ==
  /\ pc # "done"
  /\ (\E s \in Servos : Answer(s)) \/ LoseByte \/ StrayByte

Next == Send \/ ReadByte \/ TimedOut \/ Tick \/ Bus

\* Time passes and the thread runs on, whatever happens on the bus.
Spec ==
  /\ Init /\ [][Next]_vars
  /\ WF_vars(Tick) /\ WF_vars(Send) /\ WF_vars(TimedOut)

-----------------------------------------------------------------------------
Axis == [id : UInt8, online : BOOLEAN]

(* The types of the variables.  A packet that is being collected never has *)
(* more bytes than five and the payload buffer of ReadId holds.            *)
TypeOK ==
  /\ pc \in {"send", "receive", "done"} /\ query \in {"yaw", "pitch", "any"}
  /\ yaw \in Axis /\ pitch \in Axis
  /\ got \in Seq(UInt8) /\ Len(got) <= 21
  /\ left \in 0 .. Window
  /\ wire \in Seq(UInt8) /\ owed \subseteq present /\ present \subseteq Servos
  /\ noise \in Noise
  /\ faults \subseteq {"late", "stray"} /\ losses \in 0 .. MaxLosses

\* An axis is online only with the id of a servo on the bus, never both axes
\* with the same one.  The pitch axis can be given the yaw servo only by an
\* answer that came late or was pushed out by stray bytes, since the sender
\* is not compared with the id asked.
AnswersAreServos ==
  /\ yaw.online => yaw.id \in present
  /\ pitch.online => pitch.id \in present
  /\ yaw.online /\ pitch.online => yaw.id # pitch.id
  /\ pitch.online /\ pitch.id # kDefaultPitchServoId => faults # {}

\* Without any fault each servo at a default id is found, and one at another
\* id if it is the only hope.
FaultlessIsComplete ==
  pc = "done" /\ faults = {} /\ losses = 0 =>
    /\ pitch.online <=> kDefaultPitchServoId \in present
    /\ kDefaultYawServoId \in present => yaw = [id |-> kDefaultYawServoId, online |-> TRUE]
    /\ present # {} => yaw.online \/ pitch.online

(* What GimbalModule::Initialize finds is what is there, as long as no     *)
(* more than two bytes got lost: the additive checksum does not detect the *)
(* loss of three, and with other ids on the bus not always that of one.    *)
AxesFindTheirServos == losses <= 2 => AnswersAreServos /\ FaultlessIsComplete

(* Initialize, and with it the boot, returns even if stray bytes keep      *)
(* arriving for ever.                                                      *)
DiscoveryEnds == <>(pc = "done")
=============================================================================
