---------------------------- MODULE MotorFrames ----------------------------
(***************************************************************************)
(* The CAN frames of the three makes of motors: DJI and DM current frames, *)
(* DM and Cubemars MIT frames, and their feedback.                         *)
(*                                                                         *)
(* A frame is the sequence of its bytes.  Integers have the widths of the  *)
(* C types; a physical value is a whole number of hundredths and the       *)
(* quotients are exact, float's error being far below half a step.         *)
(***************************************************************************)
EXTENDS Integers, Sequences

Byte == 0 .. 255
UInt12 == {n \in Nat : n < 4096}
UInt16 == {n \in Nat : n < 65536}
Int16 == {n \in Int : -32768 <= n /\ n < 32768}

\* static_cast<uint16_t> and back.
Unsigned(v) == v % 65536
Signed(w) == IF w < 32768 THEN w ELSE w - 65536

High(v) == Unsigned(v) \div 256
Low(v) == Unsigned(v) % 256
Be16(f, i) == 256 * f[i] + f[i + 1]

-----------------------------------------------------------------------------
(* Currents: four motors share a frame, two bytes each.                    *)

\* EncodeCurrentFrameCommon: the currents of the motors 1 .. 4.
EncodeCurrentFrame(current) ==
  [i \in 1 .. 8 |-> IF i % 2 = 1 THEN High(current[(i + 1) \div 2])
                                 ELSE Low(current[i \div 2])]

\* dji::WriteCurrentCommandToSlot and dm::Pack1To4CurrentFrame: the motors of
\* the ids first .. first + 3 share a frame; the other slots stay.
WriteSlot(id, first, v, f) ==
  [f EXCEPT ![2 * (id - first) + 1] = High(v), ![2 * (id - first) + 2] = Low(v)]

FirstId(id) ==
  CASE id \in 769 .. 772 -> 769   \* 0x301 .. 0x304
    [] id \in 773 .. 776 -> 773   \* 0x305 .. 0x308
    [] id \in 513 .. 516 -> 513   \* 0x201 .. 0x204

\* A motor takes its current out of its slot.
SlotCurrent(f, slot) == Signed(Be16(f, 2 * slot + 1))

-----------------------------------------------------------------------------
(* Feedback.                                                               *)

\* The decoders' error for a frame with too few bytes: dlc is Len(f).
Rejected == [error |-> "EINVAL"]

DjiFeedback(f) ==
  IF Len(f) < 7 THEN Rejected
  ELSE [encoder |-> Be16(f, 1), omega |-> Signed(Be16(f, 3)),
        current |-> Signed(Be16(f, 5)), temperature |-> f[7]]

DmFeedback(f) ==
  IF Len(f) < 8 THEN Rejected
  ELSE [encoder |-> Be16(f, 1), omega |-> Signed(Be16(f, 3)),
        current |-> Signed(Be16(f, 5)), rotor |-> f[7], mos |-> f[8]]

\* A mutation of CubemarsFeedback: velocity and torque share byte 5 the
\* other way round.
CubemarsFeedbackSwapped(f) ==
  IF Len(f) < 6 THEN Rejected
  ELSE [id |-> f[1], position |-> Be16(f, 2),
        velocity |-> 16 * f[4] + (f[5] % 16), torque |-> 256 * (f[5] \div 16) + f[6]]

CubemarsFeedback(f) ==
  IF Len(f) < 6 THEN Rejected
  ELSE [id |-> f[1], position |-> Be16(f, 2),
        velocity |-> 16 * f[4] + (f[5] \div 16), torque |-> 256 * (f[5] % 16) + f[6]]

-----------------------------------------------------------------------------
(* MIT frames: a position of 16 bits and four fields of 12.                *)

Clamp(v, lo, hi) == IF v < lo THEN lo ELSE IF v > hi THEN hi ELSE v

\* FloatToUInt: the nearest of the steps 0 .. steps between lo and hi.
FloatToUInt(v, lo, hi, steps) ==
  (2 * (Clamp(v, lo, hi) - lo) * steps + (hi - lo)) \div (2 * (hi - lo))

Steps == [p |-> 65535, v |-> 4095, kp |-> 4095, kd |-> 4095, t |-> 4095]
Field == {"p", "v", "kp", "kd", "t"}

\* range[x] is a pair.
Quantised(cmd, range) ==
  [x \in Field |-> FloatToUInt(cmd[x], range[x][1], range[x][2], Steps[x])]

\* A mutation of Bytes: the nibbles that share a byte change places.
BytesSwapped(q) ==
  << q.p \div 256, q.p % 256,
     q.v \div 16, (q.v % 16) + 16 * (q.kp \div 256), q.kp % 256,
     q.kd \div 16, (q.kd % 16) + 16 * (q.t \div 256), q.t % 256 >>

\* PackMitCommand, the same for both makes.
Bytes(q) ==
  << q.p \div 256, q.p % 256,
     q.v \div 16, 16 * (q.v % 16) + (q.kp \div 256), q.kp % 256,
     q.kd \div 16, 16 * (q.kd % 16) + (q.t \div 256), q.t % 256 >>

PackMitCommand(cmd, range) == Bytes(Quantised(cmd, range))

\* GetControlCommandFrame, GetFixedCommand.
Tail8 == [ClearError |-> 251, Enter |-> 252, Exit |-> 253, SaveZero |-> 254]
ControlFrame(cmd) == [i \in 1 .. 8 |-> IF i = 8 THEN Tail8[cmd] ELSE 255]

\* What a motor reads in an MIT frame.
ReadMit(f) ==
  [p |-> Be16(f, 1), v |-> 16 * f[3] + (f[4] \div 16), kp |-> 256 * (f[4] % 16) + f[5],
   kd |-> 16 * f[6] + (f[7] \div 16), t |-> 256 * (f[7] % 16) + f[8]]

\* The steps q stands for v as well as any do: v is within half a step.
Nearest(q, v, lo, hi, steps) ==
  /\ 2 * (q * (hi - lo) - (v - lo) * steps) <= hi - lo
  /\ 2 * ((v - lo) * steps - q * (hi - lo)) <= hi - lo

-----------------------------------------------------------------------------
(* Four currents get each to its motor, whichever of the two ways the      *)
(* frame is written; a report is decoded to what the motor put there, for  *)
(* values of either sign, and rejected when one of its bytes is missing.   *)
Currents == {-32768, -1, 0, 255, 256, 32767}

FrameOf(id, c) ==
  WriteSlot(id + 3, FirstId(id), c[4], WriteSlot(id + 2, FirstId(id), c[3],
    WriteSlot(id + 1, FirstId(id), c[2], WriteSlot(id, FirstId(id), c[1], [i \in 1 .. 8 |-> 0]))))

\* External: what the motors report, DJI's and DM's three words and two
\* bytes, and Cubemars' velocity and torque that share a byte.
EightByteReport(p, v, c, t, u) == <<High(p), Low(p), High(v), Low(v), High(c), Low(c), t, u>>
CubemarsReport(id, p, v, t) ==
  <<id, High(p), Low(p), v \div 16, 16 * (v % 16) + (t \div 256), t % 256>>

\* The first n bytes of a frame.
Cut(f, n) == [i \in 1 .. n |-> f[i]]

FramesAgree ==
  /\ \A c \in [1 .. 4 -> Currents] :
       /\ \A i \in 1 .. 4 : SlotCurrent(EncodeCurrentFrame(c), i - 1) = c[i]
       /\ \A id \in {513, 769, 773} : FrameOf(id, c) = EncodeCurrentFrame(c)
  /\ \A p, v, c \in Currents :
       LET f == EightByteReport(p, v, c, 40, 50)
           e == Unsigned(p)
       IN  /\ \A n \in {7, 8} :
                DjiFeedback(Cut(f, n)) =
                  [encoder |-> e, omega |-> v, current |-> c, temperature |-> 40]
           /\ DmFeedback(f) = [encoder |-> e, omega |-> v, current |-> c, rotor |-> 40, mos |-> 50]
           /\ \A n \in 0 .. 6 : DjiFeedback(Cut(f, n)) = Rejected
           /\ \A n \in 0 .. 7 : DmFeedback(Cut(f, n)) = Rejected
  /\ \A p \in Currents, v, t \in {0, 15, 16, 2048, 4095} :
       LET f == CubemarsReport(7, p, v, t)
       IN  /\ CubemarsFeedback(f) =
                [id |-> 7, position |-> Unsigned(p), velocity |-> v, torque |-> t]
           /\ \A n \in 0 .. 5 : CubemarsFeedback(Cut(f, n)) = Rejected
=============================================================================
