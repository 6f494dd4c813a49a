---------------------------- MODULE RemoteFrames ----------------------------
(***************************************************************************)
(* The frames of the remotes, DR16 and VT03, and of the PC link.           *)
(*                                                                         *)
(* A frame is a function from the indices of the code's arrays to bytes.   *)
(* Axes are whole numbers: of 660ths for the DR16, of 132000ths for the    *)
(* VT03.  The expressions of the decoders, shifts and masks of bytes, are  *)
(* compared with fields of bits in the order in which they are sent.  The  *)
(* remotes' frames are complete, as their callers pass them: 18, 21 and 39 *)
(* bytes.                                                                  *)
(***************************************************************************)
EXTENDS Integers, Sequences

Rejected == "rejected"

Low11(x) == x % 2048
Clamped(x, m) == IF x > m THEN m ELSE IF x < -m THEN -m ELSE x

-----------------------------------------------------------------------------
(* DR16.                                                                   *)

\* A mutation of Channels: the third channel takes a bit of the wrong weight.
ChannelsShifted(f, i) ==
  << Low11(f[i] + 256 * f[i + 1]),
     Low11((f[i + 1] \div 8) + 32 * f[i + 2]),
     Low11((f[i + 2] \div 64) + 4 * f[i + 3] + 512 * f[i + 4]),
     Low11((f[i + 4] \div 2) + 128 * f[i + 5]) >>

\* ch0 .. ch3 out of six bytes from index i on.
Channels(f, i) ==
  << Low11(f[i] + 256 * f[i + 1]),
     Low11((f[i + 1] \div 8) + 32 * f[i + 2]),
     Low11((f[i + 2] \div 64) + 4 * f[i + 3] + 1024 * f[i + 4]),
     Low11((f[i + 4] \div 2) + 128 * f[i + 5]) >>

Sw1(f) == ((f[5] \div 16) \div 4) % 4
Sw2(f) == (f[5] \div 16) % 4
Wheel(f) == 1024 - Low11(f[16] + 256 * f[17])

Dr16Frame(f) ==
  LET ch == [i \in 1 .. 4 |-> Channels(f, 0)[i] - 1024]
  IN  IF /\ \A x \in {ch[i] : i \in 1 .. 4} \cup {Wheel(f)} : -660 <= x /\ x <= 660
         /\ Sw1(f) \in 1 .. 3 /\ Sw2(f) \in 1 .. 3
      THEN [sticks |-> ch, wheel |-> Wheel(f), left |-> Sw1(f), right |-> Sw2(f),
            chassis_enable |-> Sw2(f) = 1]
      ELSE Rejected

-----------------------------------------------------------------------------
(* VT03: the remote's frame and the custom controller's.                   *)

\* DecodeAxis, with its offset of 364 and its limits of 0.99.
DecodeAxis(raw) == Clamped(100 * (raw - 364), 130680)

ModeSwitch(f) == (f[7] \div 16) % 4
WheelRaw(f) == Low11((f[8] \div 2) + 128 * f[9])

Vt03Frame(f) ==
  IF f[0] = 169 /\ f[1] = 83
  THEN [sticks |-> [i \in 1 .. 4 |-> DecodeAxis(Channels(f, 2)[i])],
        wheel |-> DecodeAxis(WheelRaw(f)), mode |-> ModeSwitch(f),
        chassis_enable |-> ModeSwitch(f) # 1]
  ELSE Rejected

kCustomControllerDataId == 770

\* The three axes of the joystick are four bytes each; whoever moves it
\* enables the chassis.
Vt03CustomFrame(f) ==
  IF f[0] = 165 /\ f[5] + 256 * f[6] = kCustomControllerDataId
  THEN [joystick |-> [axis \in 1 .. 3 |-> [i \in 0 .. 3 |-> f[20 + 4 * axis + i]]],
        chassis_enable |-> TRUE]
  ELSE Rejected

-----------------------------------------------------------------------------
(* The PC link.                                                            *)

PcEncode(cmd, payload, capacity) ==
  LET n == Len(payload)
      header == <<165, n % 256, (n \div 256) % 256, 0, 0, cmd % 256, (cmd \div 256) % 256>>
  IN  IF n > 65535 \/ capacity < 7 + n THEN Rejected
      ELSE [i \in 0 .. 6 + n |-> IF i < 7 THEN header[i + 1] ELSE payload[i - 6]]

\* Of the bytes 0 .. len - 1 of f.
PcDecode(f, len) ==
  IF len < 7 \/ f[0] # 165 \/ len < 7 + f[1] + 256 * f[2] THEN Rejected
  ELSE [cmd |-> f[5] + 256 * f[6],
        payload |-> [i \in 1 .. f[1] + 256 * f[2] |-> f[6 + i]]]

-----------------------------------------------------------------------------
(* The frames as fields of bits, the lowest bit of the first byte first.   *)

Weight == <<1, 2, 4, 8, 16, 32, 64, 128>>
Bit(f, i) == (f[i \div 8] \div Weight[1 + (i % 8)]) % 2

\* The fields of two and of eleven bits that begin at bit i.
Field2(f, i) == Bit(f, i) + 2 * Bit(f, i + 1)
Field11(f, i) ==
  Field2(f, i) + 4 * Field2(f, i + 2) + 16 * Field2(f, i + 4) + 64 * Field2(f, i + 6)
    + 256 * Field2(f, i + 8) + 1024 * Bit(f, i + 10)

\* A frame of n bytes with a single bit set, or a single bit clear.
OneBit(n) ==
  {[j \in 0 .. n - 1 |-> IF j = i \div 8 THEN Weight[1 + (i % 8)] ELSE 0] : i \in 0 .. 8 * n - 1}
Complement(f) == [j \in DOMAIN f |-> 255 - f[j]]
Walking(n) == OneBit(n) \cup {Complement(f) : f \in OneBit(n)}

\* The DR16 frame of four channels, the wheel and two switches, with zeros
\* elsewhere, byte by byte.
Dr16Sent(value) ==
  [j \in 0 .. 17 |->
     CASE j = 0  -> value[1] % 256
       [] j = 1  -> value[1] \div 256 + 8 * (value[2] % 32)
       [] j = 2  -> value[2] \div 32 + 64 * (value[3] % 4)
       [] j = 3  -> (value[3] \div 4) % 256
       [] j = 4  -> value[3] \div 1024 + 2 * (value[4] % 128)
       [] j = 5  -> value[4] \div 128 + 16 * (4 * value[6] + value[7])
       [] j = 16 -> value[5] % 256
       [] j = 17 -> value[5] \div 256
       [] OTHER  -> 0]

Extremes == {363, 364, 1024, 1684, 1685}

\* Every field comes out of the bits it was sent in.
FieldsAreBits ==
  /\ \A f \in Walking(18) :
       /\ \A i \in 1 .. 4 : Channels(f, 0)[i] = Field11(f, 11 * (i - 1))
       /\ Sw2(f) = Field2(f, 44) /\ Sw1(f) = Field2(f, 46)
       /\ Wheel(f) = 1024 - Field11(f, 128)
  /\ \A f \in Walking(21) :
       /\ \A i \in 1 .. 4 : Channels(f, 2)[i] = Field11(f, 16 + 11 * (i - 1))
       /\ ModeSwitch(f) = Field2(f, 60) /\ WheelRaw(f) = Field11(f, 65)

\* A DR16 frame is accepted when all axes are within 660 of the centre and
\* both switches are in a position, and means what was sent.
Dr16ReadsWhatWasSent ==
  \A x \in 1 .. 5, v \in Extremes, s1, s2 \in 0 .. 3 :
    LET value == [i \in 1 .. 7 |-> IF i = x THEN v ELSE IF i = 6 THEN s1
                                   ELSE IF i = 7 THEN s2 ELSE 1024]
    IN  Dr16Frame(Dr16Sent(value)) =
          IF v \in {363, 1685} \/ s1 = 0 \/ s2 = 0 THEN Rejected
          ELSE [sticks |-> [i \in 1 .. 4 |-> value[i] - 1024], wheel |-> 1024 - value[5],
                left |-> s1, right |-> s2, chassis_enable |-> s2 = 1]

PcCommands == {0, 255, 256, kCustomControllerDataId, 65535}
PcLengths == {0, 1, 32, 255, 256}

\* A frame of the PC link is decoded to what was encoded, cut short it is
\* rejected, and one with the custom controller's command is its frame.
PcLinkReadsWhatWasSent ==
  \A cmd \in PcCommands, n \in PcLengths :
    LET payload == [i \in 1 .. n |-> i % 251]
        f == PcEncode(cmd, payload, 7 + n)
    IN  /\ PcEncode(cmd, payload, 6 + n) = Rejected
        /\ PcDecode(f, 7 + n) = [cmd |-> cmd, payload |-> payload]
        /\ \A k \in 0 .. Clamped(6 + n, 40) : k < 7 + n => PcDecode(f, k) = Rejected
        /\ n >= 32 => Vt03CustomFrame(f) =
             IF cmd = kCustomControllerDataId
             THEN [joystick |->
                     [axis \in 1 .. 3 |-> [i \in 0 .. 3 |-> payload[14 + 4 * axis + i]]],
                   chassis_enable |-> TRUE]
             ELSE Rejected

\* What a decoder reads is what the sender put there: channels, switches and
\* wheel out of bits that straddle bytes, the accepted range of each, and the
\* frames of the PC link, which the custom controller shares.
LayoutsAgree == FieldsAreBits /\ Dr16ReadsWhatWasSent /\ PcLinkReadsWhatWasSent
=============================================================================
