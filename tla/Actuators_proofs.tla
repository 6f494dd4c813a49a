-------------------------- MODULE Actuators_proofs --------------------------
(***************************************************************************)
(* What holds of the motors' frames, for all values that they can carry,   *)
(* of the motors that take them, for all commands, currents and controller *)
(* outputs, and of the search for the servos, for all ids, timeouts and    *)
(* stray bytes.                                                            *)
(***************************************************************************)
EXTENDS Actuators, SequenceTheorems, TLAPS

-----------------------------------------------------------------------------
(* Frames.                                                                 *)

LEMMA Nibbles ==
  ASSUME NEW x \in UInt12
  PROVE  /\ 16 * (x \div 16) + (x % 16) = x
         /\ 256 * (x \div 256) + (x % 256) = x
         /\ x % 16 \in Nat /\ x % 16 < 16 /\ x \div 256 \in Nat /\ x \div 256 < 16
BY DEF UInt12

LEMMA SharedByte ==
  ASSUME NEW x \in Nat, NEW y \in Nat, y < 16
  PROVE  (16 * x + y) \div 16 = x /\ (16 * x + y) % 16 = y
OBVIOUS

LEMMA TwoBytes ==
  ASSUME NEW x \in UInt16
  PROVE  256 * (x \div 256) + (x % 256) = x
BY DEF UInt16

(* A motor reads in an MIT frame the fields that were packed into it.      *)
LEMMA ReadsWhatIsPacked ==
  ASSUME NEW q \in Told
  PROVE  ReadMit(Bytes(q)) = q
<1>1. /\ q.p \in UInt16 /\ q.v \in UInt12 /\ q.kp \in UInt12
      /\ q.kd \in UInt12 /\ q.t \in UInt12
      /\ q = [p |-> q.p, v |-> q.v, kp |-> q.kp, kd |-> q.kd, t |-> q.t]
  BY DEF Told
<1>2. PICK b : b = Bytes(q)
  OBVIOUS
<1>3. /\ b[1] = q.p \div 256 /\ b[2] = q.p % 256
      /\ b[3] = q.v \div 16 /\ b[4] = 16 * (q.v % 16) + (q.kp \div 256)
      /\ b[5] = q.kp % 256
      /\ b[6] = q.kd \div 16 /\ b[7] = 16 * (q.kd % 16) + (q.t \div 256)
      /\ b[8] = q.t % 256
  BY <1>2 DEF Bytes
<1>4. /\ b[4] \div 16 = q.v % 16 /\ b[4] % 16 = q.kp \div 256
      /\ b[7] \div 16 = q.kd % 16 /\ b[7] % 16 = q.t \div 256
  BY <1>1, <1>3, Nibbles, SharedByte
<1>5. /\ 256 * b[1] + b[2] = q.p
      /\ 16 * b[3] + (b[4] \div 16) = q.v /\ 256 * (b[4] % 16) + b[5] = q.kp
      /\ 16 * b[6] + (b[7] \div 16) = q.kd /\ 256 * (b[7] % 16) + b[8] = q.t
  BY <1>1, <1>3, <1>4, Nibbles, TwoBytes
<1>6. ReadMit(b) = [p |-> q.p, v |-> q.v, kp |-> q.kp, kd |-> q.kd, t |-> q.t]
  BY <1>5 DEF ReadMit, Be16
<1>. QED BY <1>1, <1>2, <1>6

(* The two bytes in which a current is sent.                               *)
LEMMA CurrentInBytes ==
  ASSUME NEW c \in Int16
  PROVE  High(c) \in Byte /\ Low(c) \in Byte /\ 256 * High(c) + Low(c) = Unsigned(c)
BY DEF Int16, High, Low, Byte, Unsigned

LEMMA UnsignedAndBack ==
  ASSUME NEW c \in Int16
  PROVE  Unsigned(c) \in UInt16 /\ Signed(Unsigned(c)) = c
<1>1. CASE c >= 0
  BY <1>1 DEF Int16, UInt16, Signed, Unsigned
<1>2. CASE c < 0
  <2>1. c % 65536 = c + 65536
    BY <1>2 DEF Int16
  <2>. QED BY <1>2, <2>1 DEF Int16, UInt16, Signed, Unsigned
<1>. QED BY <1>1, <1>2 DEF Int16

LEMMA SignedIsInt16 ==
  ASSUME NEW w \in UInt16
  PROVE  Signed(w) \in Int16
BY DEF UInt16, Signed, Int16

LEMMA BytesMakeAWord ==
  ASSUME NEW x \in Byte, NEW y \in Byte
  PROVE  256 * x + y \in UInt16
BY DEF Byte, UInt16

LEMMA LengthOfFunction ==
  ASSUME NEW S, NEW n \in Nat, NEW f \in [1 .. n -> S]
  PROVE  f \in Seq(S) /\ Len(f) = n
OBVIOUS

LEMMA CurrentIsInt16 ==
  ASSUME NEW f \in [1 .. 8 -> Byte]
  PROVE  DmFeedback(f).current \in Int16
<1>1. Be16(f, 5) \in UInt16
  BY BytesMakeAWord DEF Be16
<1>2. ~(Len(f) < 8)
  <2>1. Len(f) = 8
    BY 8 \in Nat, LengthOfFunction, Zenon
  <2>. QED BY <2>1
<1>. QED BY <1>1, <1>2, SignedIsInt16 DEF DmFeedback

(* A motor obeys the current that was meant for it, of either sign and in  *)
(* whatever slot.                                                          *)
LEMMA SlotHoldsCurrent ==
  ASSUME NEW first \in Nat, NEW id \in first .. first + 3, NEW v \in Int16,
         NEW f \in [1 .. 8 -> Byte]
  PROVE  /\ WriteSlot(id, first, v, f) \in [1 .. 8 -> Byte]
         /\ SlotCurrent(WriteSlot(id, first, v, f), id - first) = v
         /\ \A slot \in 0 .. 3 : slot # id - first =>
              SlotCurrent(WriteSlot(id, first, v, f), slot) = SlotCurrent(f, slot)
<1>. DEFINE k == id - first
            g == WriteSlot(id, first, v, f)
<1>1. k \in 0 .. 3
  OBVIOUS
<1>2. g = [f EXCEPT ![2 * k + 1] = High(v), ![2 * k + 2] = Low(v)]
  BY DEF WriteSlot
<1>3. High(v) \in Byte /\ Low(v) \in Byte
  BY CurrentInBytes
<1>. HIDE DEF k, g
<1>4. g \in [1 .. 8 -> Byte]
  BY <1>1, <1>2, <1>3
<1>5. g[2 * k + 1] = High(v) /\ g[2 * k + 2] = Low(v)
  BY <1>1, <1>2
<1>6. SlotCurrent(g, k) = v
  <2>1. Be16(g, 2 * k + 1) = Unsigned(v)
    BY <1>1, <1>5, CurrentInBytes DEF Be16
  <2>. QED BY <2>1, UnsignedAndBack DEF SlotCurrent
<1>7. ASSUME NEW slot \in 0 .. 3, slot # k
      PROVE  SlotCurrent(g, slot) = SlotCurrent(f, slot)
  <2>1. g[2 * slot + 1] = f[2 * slot + 1] /\ g[2 * slot + 2] = f[2 * slot + 2]
    BY <1>1, <1>2, <1>7
  <2>. QED BY <2>1 DEF SlotCurrent, Be16
<1>. QED BY <1>4, <1>6, <1>7 DEF k, g

(* EncodeCurrentFrame gives each of four motors its current.               *)
LEMMA EncodedCurrentArrives ==
  ASSUME NEW c \in [1 .. 4 -> Int16], NEW i \in 1 .. 4
  PROVE  SlotCurrent(EncodeCurrentFrame(c), i - 1) = c[i]
<1>. DEFINE f == EncodeCurrentFrame(c)
<1>1. f[2 * (i - 1) + 1] = High(c[i]) /\ f[2 * (i - 1) + 2] = Low(c[i])
  <2>1. /\ 2 * (i - 1) + 1 \in 1 .. 8 /\ (2 * (i - 1) + 1) % 2 = 1
        /\ (2 * (i - 1) + 1 + 1) \div 2 = i
        /\ 2 * (i - 1) + 2 \in 1 .. 8 /\ (2 * (i - 1) + 2) % 2 # 1
        /\ (2 * (i - 1) + 2) \div 2 = i
    OBVIOUS
  <2>. QED BY <2>1 DEF EncodeCurrentFrame
<1>. HIDE DEF f
<1>2. c[i] \in Int16
  OBVIOUS
<1>3. Be16(f, 2 * (i - 1) + 1) = Unsigned(c[i])
  BY <1>1, <1>2, CurrentInBytes DEF Be16
<1>. QED BY <1>2, <1>3, UnsignedAndBack DEF SlotCurrent, f

(* The frame of four currents is the same, whether it is encoded at once   *)
(* or written slot by slot, for each of the three groups of ids.           *)
LEMMA SlotsMakeTheFrame ==
  ASSUME NEW c \in [1 .. 4 -> Int16], NEW id \in {513, 769, 773}
  PROVE  FrameOf(id, c) = EncodeCurrentFrame(c)
<1>1. FirstId(id) = id
  BY DEF FirstId
<1>2. FrameOf(id, c) =
        [i \in 1 .. 8 |->
           CASE i = 1 -> High(c[1]) [] i = 2 -> Low(c[1])
             [] i = 3 -> High(c[2]) [] i = 4 -> Low(c[2])
             [] i = 5 -> High(c[3]) [] i = 6 -> Low(c[3])
             [] i = 7 -> High(c[4]) [] i = 8 -> Low(c[4])]
  BY <1>1 DEF FrameOf, WriteSlot
<1>3. EncodeCurrentFrame(c) =
        [i \in 1 .. 8 |->
           CASE i = 1 -> High(c[1]) [] i = 2 -> Low(c[1])
             [] i = 3 -> High(c[2]) [] i = 4 -> Low(c[2])
             [] i = 5 -> High(c[3]) [] i = 6 -> Low(c[3])
             [] i = 7 -> High(c[4]) [] i = 8 -> Low(c[4])]
  <2>. SUFFICES ASSUME NEW i \in 1 .. 8
                PROVE  EncodeCurrentFrame(c)[i] =
           CASE i = 1 -> High(c[1]) [] i = 2 -> Low(c[1])
             [] i = 3 -> High(c[2]) [] i = 4 -> Low(c[2])
             [] i = 5 -> High(c[3]) [] i = 6 -> Low(c[3])
             [] i = 7 -> High(c[4]) [] i = 8 -> Low(c[4])
    BY DEF EncodeCurrentFrame
  <2>. QED BY DEF EncodeCurrentFrame
<1>. QED BY <1>2, <1>3

\* A word in two bytes.
LEMMA WordInBytes ==
  ASSUME NEW v \in Int16, NEW f, NEW i, f[i] = High(v), f[i + 1] = Low(v)
  PROVE  Be16(f, i) = Unsigned(v) /\ Signed(Be16(f, i)) = v
<1>1. Be16(f, i) = Unsigned(v)
  BY CurrentInBytes DEF Be16
<1>. QED BY <1>1, UnsignedAndBack

(* r is the sequence s continued by w.                                     *)
Continues(r, s, w) ==
  /\ r \in Seq(Int) /\ Len(r) = Len(s) + Len(w)
  /\ \A i \in 1 .. Len(s) : r[i] = s[i]
  /\ \A i \in 1 .. Len(w) : r[Len(s) + i] = w[i]

\* Concatenation, for the provers.
LEMMA Concat ==
  ASSUME NEW s \in Seq(Int), NEW w \in Seq(Int)
  PROVE  Continues(s \o w, s, w)
<1>. DEFINE r == s \o w
<1>1. /\ r \in Seq(Int) /\ Len(r) = Len(s) + Len(w)
      /\ \A i \in 1 .. Len(s) + Len(w) :
           r[i] = IF i <= Len(s) THEN s[i] ELSE w[i - Len(s)]
  BY ConcatProperties, Zenon
<1>. HIDE DEF r
<1>2. \A i \in 1 .. Len(s) : r[i] = s[i]
  BY <1>1
<1>3. ASSUME NEW i \in 1 .. Len(w)
      PROVE  r[Len(s) + i] = w[i]
  <2>1. Len(s) + i \in 1 .. Len(s) + Len(w) /\ ~(Len(s) + i <= Len(s)) /\ Len(s) + i - Len(s) = i
    OBVIOUS
  <2>. QED BY <1>1, <2>1
<1>4. Continues(r, s, w)
  BY <1>1, <1>2, <1>3 DEF Continues
<1> QED BY <1>4 DEF r

\* The first n bytes of a frame.
LEMMA CutFacts ==
  ASSUME NEW f, NEW n \in Nat
  PROVE  Len(Cut(f, n)) = n /\ \A i \in 1 .. n : Cut(f, n)[i] = f[i]
BY DEF Cut

(* A report of a DJI or DM motor is decoded to what the motor put there,   *)
(* and rejected when the last byte that is used is missing.                *)
LEMMA ReportArrives ==
  ASSUME NEW p \in Int16, NEW v \in Int16, NEW c \in Int16, NEW t \in Byte, NEW u \in Byte
  PROVE  LET f == EightByteReport(p, v, c, t, u)
         IN  /\ \A n \in {7, 8} :
                  DjiFeedback(Cut(f, n)) = [encoder |-> Unsigned(p), omega |-> v, current |-> c,
                                            temperature |-> t]
             /\ DmFeedback(f) = [encoder |-> Unsigned(p), omega |-> v, current |-> c,
                                 rotor |-> t, mos |-> u]
             /\ \A n \in 0 .. 6 : DjiFeedback(Cut(f, n)) = Rejected
             /\ \A n \in 0 .. 7 : DmFeedback(Cut(f, n)) = Rejected
<1>. DEFINE f == EightByteReport(p, v, c, t, u)
<1>1. /\ f[1] = High(p) /\ f[2] = Low(p) /\ f[3] = High(v) /\ f[4] = Low(v)
      /\ f[5] = High(c) /\ f[6] = Low(c) /\ f[7] = t /\ f[8] = u /\ Len(f) = 8
  BY DEF EightByteReport
<1>. HIDE DEF f
<1>2. ASSUME NEW n \in {7, 8}
      PROVE  DjiFeedback(Cut(f, n)) = [encoder |-> Unsigned(p), omega |-> v, current |-> c,
                                       temperature |-> t]
  <2>. DEFINE g == Cut(f, n)
  <2>1. Len(g) = n /\ \A i \in 1 .. n : g[i] = f[i]
    BY CutFacts
  <2>. HIDE DEF g
  <2>2. /\ g[1] = High(p) /\ g[2] = Low(p) /\ g[3] = High(v) /\ g[4] = Low(v)
        /\ g[5] = High(c) /\ g[6] = Low(c) /\ g[7] = t
    BY <1>1, <2>1
  <2>3. /\ Be16(g, 1) = Unsigned(p) /\ Signed(Be16(g, 3)) = v /\ Signed(Be16(g, 5)) = c
    BY <2>2, WordInBytes
  <2>4. ~(Len(g) < 7)
    BY <2>1
  <2>. QED BY <2>2, <2>3, <2>4 DEF DjiFeedback, g
<1>3. DmFeedback(f) = [encoder |-> Unsigned(p), omega |-> v, current |-> c,
                       rotor |-> t, mos |-> u]
  <2>1. /\ Be16(f, 1) = Unsigned(p) /\ Signed(Be16(f, 3)) = v /\ Signed(Be16(f, 5)) = c
    BY <1>1, WordInBytes
  <2>. QED BY <1>1, <2>1 DEF DmFeedback
<1>4. ASSUME NEW n \in 0 .. 6 PROVE DjiFeedback(Cut(f, n)) = Rejected
  BY CutFacts DEF DjiFeedback
<1>5. ASSUME NEW n \in 0 .. 7 PROVE DmFeedback(Cut(f, n)) = Rejected
  BY CutFacts DEF DmFeedback
<1>. QED BY <1>2, <1>3, <1>4, <1>5 DEF f

(* A report of a Cubemars motor: velocity and torque share a byte.         *)
LEMMA CubemarsReportArrives ==
  ASSUME NEW p \in Int16, NEW v \in UInt12, NEW t \in UInt12, NEW id \in Byte
  PROVE  LET f == CubemarsReport(id, p, v, t)
         IN  /\ CubemarsFeedback(f) =
                  [id |-> id, position |-> Unsigned(p), velocity |-> v, torque |-> t]
             /\ \A n \in 0 .. 5 : CubemarsFeedback(Cut(f, n)) = Rejected
<1>. DEFINE f == CubemarsReport(id, p, v, t)
            hi == v \div 16
            both == 16 * (v % 16) + (t \div 256)
            lo == t % 256
<1>1. v % 16 \in 0 .. 15 /\ t \div 256 \in 0 .. 15
  BY Nibbles DEF UInt12
<1>2. /\ f[1] = id /\ f[2] = High(p) /\ f[3] = Low(p) /\ f[4] = hi
      /\ f[5] = both /\ f[6] = lo /\ Len(f) = 6
  <2>1. f = <<id, High(p), Low(p), hi, both, lo>>
    BY Zenon DEF CubemarsReport
  <2>. HIDE DEF hi, both, lo, f
  <2>. QED BY <2>1
<1>. HIDE DEF f
<1>3. Be16(f, 2) = Unsigned(p)
  BY <1>2, WordInBytes
<1>4. f[5] \div 16 = v % 16 /\ f[5] % 16 = t \div 256
  BY <1>1, <1>2, SharedByte
<1>5. 16 * f[4] + (f[5] \div 16) = v /\ 256 * (f[5] % 16) + f[6] = t
  BY <1>2, <1>4, Nibbles
<1>6. ~(Len(f) < 6)
  BY <1>2
<1>7. CubemarsFeedback(f) = [id |-> id, position |-> Unsigned(p), velocity |-> v, torque |-> t]
  BY <1>2, <1>3, <1>5, <1>6, ZenonT(30) DEF CubemarsFeedback
<1>8. ASSUME NEW n \in 0 .. 5 PROVE CubemarsFeedback(Cut(f, n)) = Rejected
  BY CutFacts DEF CubemarsFeedback
<1>. QED BY <1>7, <1>8 DEF f

-----------------------------------------------------------------------------
(* Quantisation.                                                           *)

LEMMA DmPosition ==
  ASSUME NEW x \in Int, NEW max \in Nat, max <= 1250, -max <= x, x <= max
  PROVE  /\ FloatToUInt(x, -1250, 1250, 65535) \in UInt16
         /\ Within(FloatToUInt(x, -1250, 1250, 65535), max, -1250, 1250, 65535)
<1>1. FloatToUInt(x, -1250, 1250, 65535) = (131070 * x + 163840000) \div 5000
  BY DEF FloatToUInt, Clamp
<1>2. PICK q \in Int : /\ q = (131070 * x + 163840000) \div 5000
                       /\ 5000 * q <= 131070 * x + 163840000
                       /\ 131070 * x + 163840000 < 5000 * q + 5000
  OBVIOUS
<1>3. q \in UInt16 /\ Within(q, max, -1250, 1250, 65535)
  BY <1>2 DEF Within, UInt16
<1>. QED BY <1>1, <1>2, <1>3

LEMMA CubemarsVelocity ==
  ASSUME NEW x \in Int, NEW max \in Nat, max <= 5000, -max <= x, x <= max
  PROVE  /\ FloatToUInt(x, -5000, 5000, 4095) \in UInt12
         /\ Within(FloatToUInt(x, -5000, 5000, 4095), max, -5000, 5000, 4095)
<1>1. FloatToUInt(x, -5000, 5000, 4095) = (8190 * x + 40960000) \div 20000
  BY DEF FloatToUInt, Clamp
<1>2. PICK q \in Int : /\ q = (8190 * x + 40960000) \div 20000
                       /\ 20000 * q <= 8190 * x + 40960000
                       /\ 8190 * x + 40960000 < 20000 * q + 20000
  OBVIOUS
<1>3. q \in UInt12 /\ Within(q, max, -5000, 5000, 4095)
  BY <1>2 DEF Within, UInt12
<1>. QED BY <1>1, <1>2, <1>3

(* The fields that are the same in every frame.                            *)
LEMMA ConstantFields ==
  /\ LET q == FloatToUInt(0, -1250, 1250, 65535)
     IN  q \in UInt16 /\ Nearest(q, 0, -1250, 1250, 65535)
  /\ LET q == FloatToUInt(0, -1000, 1000, 4095)
     IN  q \in UInt12 /\ Nearest(q, 0, -1000, 1000, 4095)
  /\ LET q == FloatToUInt(0, 0, 50000, 4095)
     IN  q \in UInt12 /\ Nearest(q, 0, 0, 50000, 4095)
  /\ LET q == FloatToUInt(1000, 0, 50000, 4095)
     IN  q \in UInt12 /\ Nearest(q, 1000, 0, 50000, 4095)
  /\ LET q == FloatToUInt(0, 0, 500, 4095)
     IN  q \in UInt12 /\ Nearest(q, 0, 0, 500, 4095)
  /\ LET q == FloatToUInt(80, 0, 500, 4095)
     IN  q \in UInt12 /\ Nearest(q, 80, 0, 500, 4095)
  /\ LET q == FloatToUInt(0, -1800, 1800, 4095)
     IN  q = 2048 /\ q \in UInt12 /\ Nearest(q, 0, -1800, 1800, 4095)
  /\ LET q == FloatToUInt(0, -2900, 2900, 4095)
     IN  q = 2048 /\ q \in UInt12 /\ Nearest(q, 0, -2900, 2900, 4095)
BY DEF FloatToUInt, Clamp, Nearest, UInt12, UInt16

-----------------------------------------------------------------------------
(* Orders: what a motor reads in the frames that are meant for it.         *)

ZMotor == {"zleft", "zright"}
Bound(m) == IF m \in ZMotor THEN kZAxisSpeedLimit ELSE Limit[m]

\* The conjunct of ToldIsMeant for motor m and orders q.
Meant(m, q) ==
  IF m \in {"zleft", "zright"}
  THEN /\ Within(q.v, kZAxisSpeedLimit, -5000, 5000, 4095)
       /\ Nearest(q.p, 0, -1250, 1250, 65535) /\ Nearest(q.kp, 0, 0, 50000, 4095)
       /\ Nearest(q.kd, 80, 0, 500, 4095) /\ Nearest(q.t, 0, -1800, 1800, 4095)
  ELSE /\ Within(q.p, Limit[m], -1250, 1250, 65535)
       /\ Nearest(q.v, 0, -1000, 1000, 4095) /\ Nearest(q.kp, 1000, 0, 50000, 4095)
       /\ Nearest(q.kd, 0, 0, 500, 4095) /\ Nearest(q.t, 0, -2900, 2900, 4095)

LEMMA LimitsFit ==
  ASSUME NEW m \in Motor
  PROVE  /\ m \notin ZMotor => Limit[m] \in Nat /\ Limit[m] <= 1250
         /\ Bound(m) \in Nat
BY DEF Motor, ZMotor, Limit, Bound, kZAxisSpeedLimit

DmOrders(x) ==
  [p |-> FloatToUInt(x, -1250, 1250, 65535), v |-> FloatToUInt(0, -1000, 1000, 4095),
   kp |-> FloatToUInt(1000, 0, 50000, 4095), kd |-> FloatToUInt(0, 0, 500, 4095),
   t |-> FloatToUInt(0, -2900, 2900, 4095)]

CubemarsOrders(x) ==
  [p |-> FloatToUInt(0, -1250, 1250, 65535), v |-> FloatToUInt(x, -5000, 5000, 4095),
   kp |-> FloatToUInt(0, 0, 50000, 4095), kd |-> FloatToUInt(80, 0, 500, 4095),
   t |-> FloatToUInt(0, -1800, 1800, 4095)]

(* The frames of the two makes.                                            *)
LEMMA FramesOfMakes ==
  ASSUME NEW m \in Motor, NEW x \in Int
  PROVE  Mit(m, x) = Bytes(IF m \in ZMotor THEN CubemarsOrders(x) ELSE DmOrders(x))
<1>1. CASE m \in ZMotor
  <2>1. Quantised([p |-> 0, v |-> x, kp |-> 0, kd |-> 80, t |-> 0], CubemarsRange)
          = CubemarsOrders(x)
    BY DEF Quantised, CubemarsRange, MitRange, Field, Steps, CubemarsOrders
  <2>. QED BY <1>1, <2>1, Zenon DEF Mit, PackMitCommand, ZMotor
<1>2. CASE m \notin ZMotor
  <2>1. Quantised([p |-> x, v |-> 0, kp |-> 1000, kd |-> 0, t |-> 0], DmRange) = DmOrders(x)
    BY DEF Quantised, DmRange, MitRange, Field, Steps, DmOrders
  <2>. QED BY <1>2, <2>1 DEF Mit, PackMitCommand, ZMotor
<1>. QED BY <1>1, <1>2

(* A motor that reads a frame with a position or speed within its bounds   *)
(* reads orders that are meant.                                            *)
LEMMA MitIsMeant ==
  ASSUME NEW m \in Motor, NEW x \in Int, -Bound(m) <= x, x <= Bound(m)
  PROVE  ReadMit(Mit(m, x)) \in Told /\ Meant(m, ReadMit(Mit(m, x)))
<1>1. CASE m \in ZMotor
  <2>. DEFINE q == CubemarsOrders(x)
  <2>1. -2000 <= x /\ x <= 2000
    BY <1>1 DEF Bound, kZAxisSpeedLimit
  <2>2. q.v \in UInt12 /\ Within(q.v, kZAxisSpeedLimit, -5000, 5000, 4095)
    BY <2>1, CubemarsVelocity DEF kZAxisSpeedLimit, CubemarsOrders
  <2>3. /\ q.p \in UInt16 /\ q.kp \in UInt12 /\ q.kd \in UInt12 /\ q.t \in UInt12
        /\ Nearest(q.p, 0, -1250, 1250, 65535) /\ Nearest(q.kp, 0, 0, 50000, 4095)
        /\ Nearest(q.kd, 80, 0, 500, 4095) /\ Nearest(q.t, 0, -1800, 1800, 4095)
    BY ConstantFields DEF CubemarsOrders
  <2>4. q \in Told
    BY <2>2, <2>3 DEF Told, CubemarsOrders
  <2>5. Meant(m, q)
    BY <1>1, <2>2, <2>3 DEF Meant, ZMotor
  <2>6. Mit(m, x) = Bytes(q)
    BY <1>1, FramesOfMakes
  <2>. QED BY <2>4, <2>5, <2>6, ReadsWhatIsPacked
<1>2. CASE m \notin ZMotor
  <2>. DEFINE q == DmOrders(x)
  <2>1. /\ Limit[m] \in Nat /\ Limit[m] <= 1250
        /\ -Limit[m] <= x /\ x <= Limit[m]
    BY <1>2, LimitsFit DEF Bound
  <2>2. q.p \in UInt16 /\ Within(q.p, Limit[m], -1250, 1250, 65535)
    BY <2>1, DmPosition DEF DmOrders
  <2>3. /\ q.v \in UInt12 /\ q.kp \in UInt12 /\ q.kd \in UInt12 /\ q.t \in UInt12
        /\ Nearest(q.v, 0, -1000, 1000, 4095) /\ Nearest(q.kp, 1000, 0, 50000, 4095)
        /\ Nearest(q.kd, 0, 0, 500, 4095) /\ Nearest(q.t, 0, -2900, 2900, 4095)
    BY ConstantFields DEF DmOrders
  <2>4. q \in Told
    BY <2>2, <2>3 DEF Told, DmOrders
  <2>5. Meant(m, q)
    BY <1>2, <2>2, <2>3 DEF Meant, ZMotor
  <2>6. Mit(m, x) = Bytes(q)
    BY <1>2, FramesOfMakes
  <2>. QED BY <2>4, <2>5, <2>6, ReadsWhatIsPacked
<1>. QED BY <1>1, <1>2

(* No MIT frame without torque is a control frame: its last byte is zero.  *)
LEMMA MitIsNoControl ==
  ASSUME NEW m \in Motor, NEW x \in Int, NEW cmd \in DOMAIN Tail8
  PROVE  Mit(m, x) # ControlFrame(cmd)
<1>1. PICK q : q.t = 2048 /\ Mit(m, x) = Bytes(q)
  <2>1. DmOrders(x).t = 2048 /\ CubemarsOrders(x).t = 2048
    BY ConstantFields DEF DmOrders, CubemarsOrders
  <2>. QED BY <2>1, FramesOfMakes
<1>2. Bytes(q)[8] = 0
  BY <1>1 DEF Bytes
<1>3. ControlFrame(cmd)[8] # 0
  BY DEF ControlFrame, Tail8
<1>. QED BY <1>1, <1>2, <1>3

-----------------------------------------------------------------------------
(* What the threads send.                                                  *)

Kind == {"ClearError", "SaveZero", "Enter", "mit"}
Entry == [frame : Kind, to : Motor]
MotorState == [mode : {"error", "off", "on"}, told : Told \cup {None}]

LEMMA MotorsOfAModule ==
  ASSUME NEW w \in DOMAIN Motors
  PROVE  Motors[w] \in Seq(Motor) /\ (w = "gimbal" => Len(Motors[w]) = 0)
<1>1. Joints \in Seq(Motor)
  BY MotorAssumption DEF Motor
<1>2. <<"zleft", "zright">> \in Seq(Motor)
  BY DEF Motor
<1>3. <<>> \in Seq(Motor) /\ Len(<<>>) = 0
  OBVIOUS
<1>4. w \in {"arm", "gantry", "gimbal"}
  BY DEF Motors
<1>5. /\ Motors["arm"] = Joints /\ Motors["gantry"] = <<"zleft", "zright">>
      /\ Motors["gimbal"] = <<>>
  BY DEF Motors
<1>. QED BY <1>1, <1>2, <1>3, <1>4, <1>5

LEMMA FramesAreEntries ==
  ASSUME NEW w \in DOMAIN Motors, NEW kind, w # "gimbal" => kind \in Kind
  PROVE  FramesTo(w, kind) \in Seq(Entry)
<1>1. PICK n \in Nat : n = Len(Motors[w])
  BY MotorsOfAModule
<1>2. \A i \in 1 .. n : Motors[w][i] \in Motor /\ kind \in Kind
  BY <1>1, MotorsOfAModule
<1>3. FramesTo(w, kind) \in [1 .. n -> Entry]
  BY <1>1, <1>2 DEF FramesTo, Entry
<1>. QED BY <1>3

LEMMA StartupIsEntries ==
  ASSUME NEW w \in DOMAIN Motors
  PROVE  Startup(w) \in Seq(Entry)
<1>1. w # "gimbal" => Control[w][1] \in Kind /\ Control[w][2] \in Kind
  BY DEF Motors, Control, Kind
<1>. QED BY <1>1, FramesAreEntries DEF Startup

LEMMA ControlFramesDiffer ==
  ASSUME NEW a \in DOMAIN Tail8, NEW b \in DOMAIN Tail8, ControlFrame(a) = ControlFrame(b)
  PROVE  a = b
<1>1. ControlFrame(a)[8] = Tail8[a] /\ ControlFrame(b)[8] = Tail8[b]
  BY DEF ControlFrame
<1>. QED BY <1>1 DEF Tail8

(* What a motor makes of the frames it is sent: a control frame changes    *)
(* its mode only, an MIT frame its orders only.                            *)
LEMMA ObeysFacts ==
  ASSUME NEW mo \in MotorState, NEW e \in Entry, want[e.to] \in Int,
         -Bound(e.to) <= want[e.to], want[e.to] <= Bound(e.to)
  PROVE  LET new == Obeys(mo, Frame(e)) IN
           /\ new \in MotorState
           /\ new.told = mo.told \/ (new.told \in Told /\ Meant(e.to, new.told))
           /\ mo.mode = "on" => new.mode = "on"
<1>1. /\ "ClearError" \in DOMAIN Tail8 /\ "Enter" \in DOMAIN Tail8
      /\ "Exit" \in DOMAIN Tail8 /\ "SaveZero" \in DOMAIN Tail8
  BY DEF Tail8
<1>2. CASE e.frame = "mit"
  <2>. DEFINE f == Frame(e)
  <2>1. f = Mit(e.to, want[e.to])
    BY <1>2 DEF Frame
  <2>2. e.to \in Motor
    BY DEF Entry
  <2>3. /\ f # ControlFrame("ClearError") /\ f # ControlFrame("Enter")
        /\ f # ControlFrame("Exit") /\ f # ControlFrame("SaveZero")
    BY <1>1, <2>1, <2>2, MitIsNoControl
  <2>4. ReadMit(f) \in Told /\ Meant(e.to, ReadMit(f))
    BY <2>1, <2>2, MitIsMeant
  <2>. HIDE DEF f
  <2>5. Obeys(mo, f) = IF mo.mode = "on" THEN [mo EXCEPT !.told = ReadMit(f)] ELSE mo
    BY <2>3 DEF Obeys
  <2>6. Obeys(mo, f) \in MotorState
    BY <2>4, <2>5 DEF MotorState
  <2>7. /\ Obeys(mo, f).told = mo.told \/ Obeys(mo, f).told = ReadMit(f)
        /\ mo.mode = "on" => Obeys(mo, f).mode = "on"
    BY <2>5 DEF MotorState
  <2>. QED BY <2>4, <2>6, <2>7 DEF f
<1>3. CASE e.frame # "mit"
  <2>1. PICK k \in {"ClearError", "SaveZero", "Enter"} : Frame(e) = ControlFrame(k)
    BY <1>3 DEF Frame, Entry, Kind
  <2>2. CASE k = "ClearError"
    <3>1. /\ ControlFrame(k) # ControlFrame("Enter")
          /\ ControlFrame(k) # ControlFrame("Exit")
          /\ ControlFrame(k) # ControlFrame("SaveZero")
      BY <1>1, <2>2, ControlFramesDiffer
    <3>2. Obeys(mo, ControlFrame(k))
            = [mo EXCEPT !.mode = IF mo.mode = "error" THEN "off" ELSE mo.mode]
      BY <2>2, <3>1 DEF Obeys
    <3>. QED BY <2>1, <3>2 DEF MotorState
  <2>3. CASE k = "Enter"
    <3>1. /\ ControlFrame(k) # ControlFrame("ClearError")
          /\ ControlFrame(k) # ControlFrame("Exit")
          /\ ControlFrame(k) # ControlFrame("SaveZero")
      BY <1>1, <2>3, ControlFramesDiffer
    <3>2. Obeys(mo, ControlFrame(k))
            = [mo EXCEPT !.mode = IF mo.mode = "off" THEN "on" ELSE mo.mode]
      BY <2>3, <3>1 DEF Obeys
    <3>. QED BY <2>1, <3>2 DEF MotorState
  <2>4. CASE k = "SaveZero"
    <3>1. /\ ControlFrame(k) # ControlFrame("ClearError")
          /\ ControlFrame(k) # ControlFrame("Enter")
          /\ ControlFrame(k) # ControlFrame("Exit")
      BY <1>1, <2>4, ControlFramesDiffer
    <3>2. Obeys(mo, ControlFrame(k)) = mo
      BY <2>4, <3>1 DEF Obeys
    <3>. QED BY <2>1, <3>2 DEF MotorState
  <2>. QED BY <2>1, <2>2, <2>3, <2>4
<1>. QED BY <1>2, <1>3

-----------------------------------------------------------------------------
(* The invariant.  What a motor has been told does not follow from what    *)
(* the module wants now, so that both are kept within their bounds.        *)

ThreadTypeOK ==
  /\ todo \in Seq(Entry) /\ stage \in {"drain", "act"}
  /\ command \in Command
  /\ setpoint \in [Setpoint -> Int]
  /\ \A s \in Setpoint : setpoint[s] \in -Limit[s] .. Limit[s]
  /\ want \in [Motor -> Int]
  /\ held \in [Motor -> Int16 \cup {None}]

RestTypeOK ==
  /\ who \in DOMAIN Motors
  /\ mailbox \in Command
  /\ report \in [Motor -> [1 .. 8 -> Byte] \cup {None}]
  /\ motor \in [Motor -> MotorState]
  /\ lost \in BOOLEAN /\ closings \in 0 .. 2

WantBounded == \A m \in Motor : -Bound(m) <= want[m] /\ want[m] <= Bound(m)

OrdersMeant == \A m \in Motor : motor[m].told # None => Meant(m, motor[m].told)

\* A round that has drained the queue knows the holding current, or else the
\* claw has not closed since it is reported.
GripSoFar ==
  /\ closings <= 1 /\ (~Overloaded => closings = 0)
  /\ stage = "act" => closings = 0 \/ Grips

IInv == ThreadTypeOK /\ RestTypeOK /\ WantBounded /\ OrdersMeant /\ GripSoFar

LEMMA IInvImplies == IInv => TypeOK /\ ToldIsMeant /\ GripHolds
<1>1. IInv => TypeOK
  BY DEF IInv, ThreadTypeOK, RestTypeOK, TypeOK, Entry, Kind, MotorState
<1>2. IInv => ToldIsMeant
  BY DEF IInv, OrdersMeant, ToldIsMeant, Meant
<1>3. IInv => GripHolds
  BY DEF IInv, GripSoFar, GripHolds
<1>. QED BY <1>1, <1>2, <1>3

LEMMA LimitType == \A s \in Setpoint : Limit[s] \in Nat
BY DEF Setpoint, Limit

LEMMA InitInv == Init => IInv
<1>. SUFFICES ASSUME Init PROVE IInv
  OBVIOUS
<1>. USE DEF Init
<1>1. ZeroCommand \in Command
  BY DEF ZeroCommand, Command
<1>2. setpoint \in [Setpoint -> Int] /\ \A s \in Setpoint : setpoint[s] \in -Limit[s] .. Limit[s]
  BY LimitType
<1>3. want \in [Motor -> Int] /\ held \in [Motor -> Int16 \cup {None}]
  OBVIOUS
<1>4. todo \in Seq(Entry)
  BY StartupIsEntries
<1>5. motor \in [Motor -> MotorState]
  <2>1. [mode : {"error", "off", "on"}, told : {None}] \subseteq MotorState
    BY DEF MotorState
  <2>. QED BY <2>1
<1>6. WantBounded
  BY LimitsFit DEF WantBounded
<1>7. OrdersMeant
  BY DEF OrdersMeant
<1>8. report \in [Motor -> [1 .. 8 -> Byte] \cup {None}]
  OBVIOUS
<1>9. GripSoFar
  <2>1. report["claw"] = None
    BY DEF Motor
  <2>2. ~Overloaded
    BY <2>1, Zenon DEF Overloaded
  <2>3. closings = 0
    OBVIOUS
  <2>. QED BY <2>2, <2>3 DEF GripSoFar
<1>10. ThreadTypeOK
  BY <1>1, <1>2, <1>3, <1>4 DEF ThreadTypeOK
<1>11. RestTypeOK
  <2>1. lost \in BOOLEAN /\ closings \in 0 .. 2
    <3>1. lost = FALSE /\ closings = 0
      BY Zenon
    <3>. HIDE DEF Init
    <3>2. lost \in BOOLEAN
      BY <3>1, Zenon
    <3>3. closings \in 0 .. 2
      BY <3>1
    <3>. QED BY <3>2, <3>3
  <2>2. who \in DOMAIN Motors /\ mailbox \in Command
    BY <1>1
  <2>. HIDE DEF Init
  <2>. QED BY <1>5, <1>8, <2>1, <2>2, Zenon DEF RestTypeOK
<1>. QED BY <1>6, <1>7, <1>9, <1>10, <1>11 DEF IInv

\* The claw's report and what is held of it settle the rest.
LEMMA GripKept ==
  ASSUME IInv, UNCHANGED <<report, held, stage, closings>>
  PROVE  GripSoFar'
BY DEF IInv, GripSoFar, Overloaded, Grips

LEMMA SendInv ==
  ASSUME IInv, NEW b \in BOOLEAN, Send(b)
  PROVE  IInv' /\ \A m \in Motor : motor[m].mode = "on" => motor'[m].mode = "on"
<1>. USE DEF IInv
<1>1. Head(todo) \in Entry /\ Tail(todo) \in Seq(Entry)
  BY DEF Send, ThreadTypeOK
<1>. DEFINE e == Head(todo)
            m == e.to
            new == Obeys(motor[m], Frame(e))
<1>2. m \in Motor
  BY <1>1 DEF Entry
<1>3. /\ new \in MotorState
      /\ new.told = motor[m].told \/ (new.told \in Told /\ Meant(m, new.told))
      /\ motor[m].mode = "on" => new.mode = "on"
  BY <1>1, <1>2, ObeysFacts DEF ThreadTypeOK, RestTypeOK, WantBounded
<1>4. motor' = [motor EXCEPT ![m] = new] \/ motor' = motor
  BY DEF Send
<1>. HIDE DEF m, new
<1>5. motor' \in [Motor -> MotorState]
  BY <1>2, <1>3, <1>4 DEF RestTypeOK
<1>6. \A n \in Motor : motor'[n] = motor[n] \/ (n = m /\ motor'[n] = new)
  BY <1>2, <1>3, <1>4 DEF RestTypeOK
<1>7. OrdersMeant'
  BY <1>2, <1>3, <1>6 DEF OrdersMeant
<1>8. \A n \in Motor : motor[n].mode = "on" => motor'[n].mode = "on"
  BY <1>2, <1>3, <1>6
<1>9. ThreadTypeOK' /\ WantBounded'
  BY <1>1 DEF Send, ThreadTypeOK, WantBounded
<1>10. RestTypeOK'
  BY <1>5 DEF Send, RestTypeOK
<1>11. GripSoFar'
  BY GripKept DEF Send
<1>. QED BY <1>7, <1>8, <1>9, <1>10, <1>11

LEMMA DecodeInv ==
  ASSUME IInv, DecodeCanFramesInQueue
  PROVE  IInv' /\ motor' = motor
<1>1. ASSUME NEW m \in Motor, report[m] # None
      PROVE  DmFeedback(report[m]).current \in Int16
  BY <1>1, CurrentIsInt16 DEF IInv, RestTypeOK
<1>2. held' \in [Motor -> Int16 \cup {None}]
  BY <1>1 DEF DecodeCanFramesInQueue, Decoded, IInv, ThreadTypeOK
<1>3. ThreadTypeOK' /\ RestTypeOK' /\ WantBounded' /\ OrdersMeant'
  BY <1>2 DEF DecodeCanFramesInQueue, IInv, ThreadTypeOK, RestTypeOK, WantBounded, OrdersMeant
<1>4. GripSoFar'
  <2>1. closings' = closings /\ report' = report
    BY DEF DecodeCanFramesInQueue
  <2>2. CASE ~Overloaded
    BY <2>1, <2>2 DEF IInv, GripSoFar, Overloaded
  <2>3. CASE Overloaded
    <3>1. "claw" \in Motor
      BY DEF Motor
    <3>2. held'["claw"] = DmFeedback(report["claw"]).current
      BY <2>3, <3>1 DEF DecodeCanFramesInQueue, Decoded, Overloaded
    <3>3. held'["claw"] \in Int16
      BY <1>1, <2>3, <3>1, <3>2 DEF Overloaded
    <3>4. Grips'
      BY <2>3, <3>2, <3>3, MotorAssumption DEF Grips, Overloaded
    <3>. QED BY <2>1, <2>3, <3>4 DEF IInv, GripSoFar, Overloaded
  <2>. QED BY <2>2, <2>3
<1>. QED BY <1>3, <1>4 DEF IInv, DecodeCanFramesInQueue

(* Setpoints stay within their limits.                                     *)
LEMMA MovedBounds ==
  ASSUME IInv, NEW c \in Command, NEW s \in Setpoint
  PROVE  Moved(s, c) \in Int /\ Moved(s, c) \in -Limit[s] .. Limit[s]
<1>1. c.delta[s] \in Int /\ setpoint[s] \in Int /\ Limit[s] \in Nat
  BY LimitType DEF Command, IInv, ThreadTypeOK
<1>. QED BY <1>1 DEF Moved, Clamp

LEMMA ArmRoundInv ==
  ASSUME IInv, NEW ok \in BOOLEAN, ArmRound(ok)
  PROVE  IInv' /\ motor' = motor
<1>. USE DEF IInv
<1>1. mailbox \in Command /\ who \in DOMAIN Motors
  BY DEF RestTypeOK
<1>2. \A s \in Setpoint : setpoint'[s] = setpoint[s] \/ setpoint'[s] = Moved(s, mailbox)
  BY DEF ArmRound, ThreadTypeOK
<1>3. \A s \in Setpoint : setpoint'[s] \in Int /\ setpoint'[s] \in -Limit[s] .. Limit[s]
  BY <1>1, <1>2, MovedBounds DEF ThreadTypeOK
<1>4. setpoint' \in [Setpoint -> Int]
  BY <1>3 DEF ArmRound, ThreadTypeOK
<1>5. want' = [m \in Motor |-> IF m \in Setpoint THEN setpoint'[m] ELSE want[m]]
  BY DEF ArmRound
<1>6. want' \in [Motor -> Int]
  BY <1>3, <1>5 DEF ThreadTypeOK
<1>7. ASSUME NEW m \in Motor
      PROVE  -Bound(m) <= want'[m] /\ want'[m] <= Bound(m)
  <2>1. CASE m \in Setpoint
    <3>1. Bound(m) = Limit[m] /\ want'[m] = setpoint'[m] /\ Limit[m] \in Nat
      BY <1>5, <2>1, LimitType DEF Bound, ZMotor, Setpoint
    <3>. QED BY <1>3, <2>1, <3>1
  <2>2. CASE m \notin Setpoint
    BY <1>5, <2>2 DEF WantBounded
  <2>. QED BY <2>1, <2>2
<1>8. todo' \in Seq(Entry)
  BY <1>1, FramesAreEntries DEF ArmRound, Round, Kind
<1>9. ThreadTypeOK' /\ WantBounded'
  BY <1>3, <1>4, <1>6, <1>7, <1>8 DEF ThreadTypeOK, WantBounded, ArmRound
<1>10. RestTypeOK' /\ OrdersMeant' /\ motor' = motor
  BY DEF ArmRound, RestTypeOK, OrdersMeant
<1>11. GripSoFar'
  <2>1. stage = "act" /\ stage' = "drain" /\ report' = report
    BY DEF ArmRound
  <2>2. CASE closings = 0
    <3>1. Overloaded' <=> Overloaded
      BY <2>1 DEF Overloaded
    <3>2. closings' \in {0, 1} /\ (~Overloaded => closings' = 0)
      BY <2>2 DEF ArmRound
    <3>. QED BY <2>1, <3>1, <3>2 DEF GripSoFar
  <2>3. CASE Grips
    <3>1. "claw" \in Setpoint /\ setpoint["claw"] \in Int /\ Moved("claw", mailbox) \in Int
      BY <1>1, MovedBounds DEF Setpoint, ThreadTypeOK
    <3>2. ~(setpoint'["claw"] < setpoint["claw"])
      <4>1. CASE setpoint'["claw"] = setpoint["claw"]
        BY <3>1, <4>1
      <4>2. CASE setpoint'["claw"] # setpoint["claw"]
        <5>1. setpoint'["claw"] = Moved("claw", mailbox) /\ ~Holds(mailbox)
          BY <3>1, <4>2 DEF ArmRound
        <5>. QED BY <2>3, <3>1, <5>1 DEF Holds
      <4>. QED BY <4>1, <4>2
    <3>3. closings' = closings
      BY <3>2 DEF ArmRound
    <3>. QED BY <2>1, <3>3 DEF GripSoFar, Overloaded
  <2>. QED BY <2>1, <2>2, <2>3 DEF GripSoFar
<1>. QED BY <1>9, <1>10, <1>11

LEMMA AskedBounds ==
  ASSUME NEW m \in Motor, NEW v \in Asked(m)
  PROVE  v \in Int /\ -kZAxisSpeedLimit <= v /\ v <= kZAxisSpeedLimit
BY MotorAssumption DEF Asked, Clamp, kZAxisSpeedLimit

LEMMA GantryRoundInv ==
  ASSUME IInv, NEW ok \in BOOLEAN, GantryRound(ok)
  PROVE  IInv' /\ motor' = motor
<1>. USE DEF IInv
<1>1. mailbox \in Command /\ command' \in Command /\ "z" \in Setpoint
  BY DEF RestTypeOK, ThreadTypeOK, GantryRound, Setpoint
<1>2. \A s \in Setpoint : setpoint'[s] \in {setpoint[s], Moved(s, mailbox), 0}
  BY <1>1 DEF GantryRound, ThreadTypeOK
<1>3. \A s \in Setpoint : setpoint'[s] \in Int /\ setpoint'[s] \in -Limit[s] .. Limit[s]
  <2>1. ASSUME NEW s \in Setpoint
        PROVE  setpoint'[s] \in Int /\ setpoint'[s] \in -Limit[s] .. Limit[s]
    <3>1. Moved(s, mailbox) \in Int /\ Moved(s, mailbox) \in -Limit[s] .. Limit[s]
      BY <1>1, MovedBounds
    <3>2. 0 \in -Limit[s] .. Limit[s]
      BY LimitType
    <3>3. setpoint[s] \in Int /\ setpoint[s] \in -Limit[s] .. Limit[s]
      BY DEF ThreadTypeOK
    <3>. QED BY <1>2, <3>1, <3>2, <3>3
  <2>. QED BY <2>1
<1>4. setpoint' \in [Setpoint -> Int]
  BY <1>3 DEF GantryRound, ThreadTypeOK
<1>5. want' \in [Motor -> Int] /\ WantBounded'
  <2>1. CASE command'.enable
    <3>1. PICK l \in Asked("zleft"), r \in Asked("zright") :
            want' = [want EXCEPT !["zleft"] = l, !["zright"] = r]
      BY <2>1 DEF GantryRound
    <3>2. "zleft" \in Motor /\ "zright" \in Motor
      BY DEF Motor
    <3>3. /\ l \in Int /\ -kZAxisSpeedLimit <= l /\ l <= kZAxisSpeedLimit
          /\ r \in Int /\ -kZAxisSpeedLimit <= r /\ r <= kZAxisSpeedLimit
      BY <3>2, AskedBounds
    <3>4. want' \in [Motor -> Int]
      BY <3>1, <3>3 DEF ThreadTypeOK
    <3>5. ASSUME NEW m \in Motor
          PROVE  -Bound(m) <= want'[m] /\ want'[m] <= Bound(m)
      <4>1. CASE m \in ZMotor
        <5>1. Bound(m) = kZAxisSpeedLimit /\ want'[m] \in {l, r}
          BY <3>1, <3>2, <4>1 DEF Bound, ZMotor, ThreadTypeOK
        <5>. QED BY <3>3, <5>1
      <4>2. CASE m \notin ZMotor
        <5>1. m # "zleft" /\ m # "zright"
          BY <4>2 DEF ZMotor
        <5>2. want'[m] = want[m]
          BY <3>1, <5>1 DEF ThreadTypeOK
        <5>. QED BY <5>2 DEF WantBounded
      <4>. QED BY <4>1, <4>2
    <3>. QED BY <3>4, <3>5 DEF WantBounded
  <2>2. CASE ~command'.enable
    BY <2>2 DEF GantryRound, ThreadTypeOK, WantBounded
  <2>. QED BY <2>1, <2>2
<1>6. todo' \in Seq(Entry)
  <2>1. "gantry" \in DOMAIN Motors /\ "mit" \in Kind
    BY DEF Motors, Kind
  <2>2. Round("gantry") \in Seq(Entry)
    BY <2>1, FramesAreEntries DEF Round
  <2>3. todo' = Round("gantry") \/ todo' = todo
    BY DEF GantryRound
  <2>. QED BY <2>2, <2>3 DEF ThreadTypeOK
<1>7. ThreadTypeOK'
  BY <1>1, <1>3, <1>4, <1>5, <1>6 DEF ThreadTypeOK, GantryRound
<1>8. RestTypeOK' /\ OrdersMeant' /\ motor' = motor
  BY DEF GantryRound, RestTypeOK, OrdersMeant
<1>9. GripSoFar'
  BY DEF GantryRound, GripSoFar, Overloaded
<1>. QED BY <1>5, <1>7, <1>8, <1>9

LEMMA PublishInv ==
  ASSUME IInv, Publish
  PROVE  IInv' /\ motor' = motor
<1>1. Commands \subseteq Command
  <2>1. UNION {Delta[s] : s \in Setpoint} \subseteq Int
    BY MotorAssumption
  <2>. QED BY <2>1 DEF Commands, Command
<1>2. GripSoFar'
  BY GripKept DEF Publish, thread
<1>. QED BY <1>1, <1>2
  DEF Publish, thread, IInv, ThreadTypeOK, RestTypeOK, WantBounded, OrdersMeant

LEMMA ReportInv ==
  ASSUME IInv, NEW m \in Motor, Report(m)
  PROVE  IInv' /\ motor' = motor
<1>1. PICK c \in Int16 : report' = [report EXCEPT ![m] = ReportFrame(c)]
  <2>1. 0 \in Int16
    BY DEF Int16
  <2>. QED BY <2>1, MotorAssumption DEF Report
<1>2. ReportFrame(c) \in [1 .. 8 -> Byte]
  <2>1. High(c) \in Byte /\ Low(c) \in Byte /\ 0 \in Byte
    BY CurrentInBytes DEF Byte, Int16
  <2>. QED BY <2>1, CurrentInBytes, 0 \in Int16 DEF ReportFrame, EightByteReport, Int16
<1>3. report' \in [Motor -> [1 .. 8 -> Byte] \cup {None}]
  BY <1>1, <1>2 DEF IInv, RestTypeOK
<1>4. GripSoFar'
  BY DEF Report, thread, IInv, GripSoFar, Grips
<1>. QED BY <1>3, <1>4
  DEF Report, thread, IInv, ThreadTypeOK, RestTypeOK, WantBounded, OrdersMeant

LEMMA NextInv ==
  ASSUME IInv, [Next]_vars
  PROVE  IInv' /\ \A m \in Motor : motor[m].mode = "on" => motor'[m].mode = "on"
<1>1. CASE Publish
  BY <1>1, PublishInv
<1>2. CASE \E m \in {"claw", "zleft", "zright"} : Report(m)
  BY <1>2, ReportInv DEF Motor
<1>3. ASSUME NEW b \in BOOLEAN, Send(b) \/ ArmRound(b) \/ GantryRound(b)
      PROVE  IInv' /\ \A m \in Motor : motor[m].mode = "on" => motor'[m].mode = "on"
  BY <1>3, SendInv, ArmRoundInv, GantryRoundInv
<1>4. CASE DecodeCanFramesInQueue
  BY <1>4, DecodeInv
<1>5. CASE UNCHANGED vars
  <2>1. GripSoFar'
    BY <1>5, GripKept DEF vars, thread
  <2>. QED BY <1>5, <2>1 DEF vars, thread, IInv, ThreadTypeOK, RestTypeOK, WantBounded, OrdersMeant
<1>. QED BY <1>1, <1>2, <1>3, <1>4, <1>5 DEF Next, Thread

LEMMA Invariance == Spec => []IInv
<1>1. IInv /\ [Next]_vars => IInv'
  BY NextInv
<1>. QED BY InitInv, <1>1, PTL DEF Spec

(* The variables keep their types, for all commands, reports and speeds:   *)
(* the setpoints stay within their limits and what a motor has been told   *)
(* is always a well-formed order.                                          *)
THEOREM TypeCorrect == Spec => []TypeOK
BY Invariance, IInvImplies, PTL

(* Every motor has been told what the module means, to half a step of each *)
(* field, whatever is commanded, reported and lost.                        *)
THEOREM OrdersAreMeant == Spec => []ToldIsMeant
BY Invariance, IInvImplies, PTL

(* A motor that is on stays on: no frame that a module sends after the     *)
(* start-up can be taken for one that switches it off.                     *)
OnStaysOn == [][\A m \in Motor : motor[m].mode = "on" => motor'[m].mode = "on"]_vars

THEOREM MotorsStayOn == Spec => OnStaysOn
<1>1. IInv /\ [Next]_vars => \A m \in Motor : motor[m].mode = "on" => motor'[m].mode = "on"
  BY NextInv
<1>. QED BY <1>1, Invariance, PTL DEF Spec, OnStaysOn

(* From the first report of the holding current on, the claw closes        *)
(* further once at most, for all commands and currents.                    *)
THEOREM GripAlwaysHolds == Spec => []GripHolds
BY Invariance, IInvImplies, PTL

-----------------------------------------------------------------------------
(* The modules together.                                                   *)

(* Whichever module runs, its motors behave as MitMotors says, so that the *)
(* theorems above hold of the composition, and the bus of the servos as    *)
(* ServoBus says.                                                          *)
THEOREM PartsAreKept ==
  ActuatorsSpec => Spec /\ Servo!Init /\ [][Servo!Next]_servoVars
<1>1. ActuatorsInit => Init /\ Servo!Init
  BY DEF ActuatorsInit
<1>2. [ActuatorsNext]_allVars => [Next]_vars /\ [Servo!Next]_servoVars
  BY DEF ActuatorsNext, allVars
<1>. QED BY <1>1, <1>2, PTL DEF ActuatorsSpec, Spec

-----------------------------------------------------------------------------
(* The bus of the servos.  First the packets.                              *)

Sums(s, m, f) == f = [i \in 0 .. m |-> IF i = 0 THEN 0 ELSE f[i - 1] + s[i]]

LEMMA SumsFour ==
  ASSUME NEW s, NEW f, Sums(s, 4, f)
  PROVE  f[4] = (((0 + s[1]) + s[2]) + s[3]) + s[4]
<1>1. \A i \in 0 .. 4 : f[i] = IF i = 0 THEN 0 ELSE f[i - 1] + s[i]
  BY Zenon DEF Sums
<1>2. f[0] = 0
  BY <1>1
<1>3. f[1] = f[0] + s[1] /\ f[2] = f[1] + s[2] /\ f[3] = f[2] + s[3] /\ f[4] = f[3] + s[4]
  BY <1>1
<1>. QED BY <1>2, <1>3

LEMMA SumOfFour ==
  ASSUME NEW s, Len(s) = 4,
         s[1] \in Nat, s[2] \in Nat, s[3] \in Nat, s[4] \in Nat
  PROVE  Servo!Sum(s) = s[1] + s[2] + s[3] + s[4]
<1>. DEFINE f == CHOOSE h : Sums(s, Len(s), h)
<1>1. Servo!Sum(s) = f[Len(s)]
  BY DEF Servo!Sum, Sums
<1>2. \E h : Sums(s, 4, h)
  <2>. DEFINE g == [i \in 0 .. 4 |->
                      CASE i = 0 -> 0 [] i = 1 -> s[1] [] i = 2 -> s[1] + s[2]
                        [] i = 3 -> s[1] + s[2] + s[3] [] i = 4 -> s[1] + s[2] + s[3] + s[4]]
  <2>1. g[0] = 0 /\ g[1] = g[0] + s[1] /\ g[2] = g[1] + s[2] /\ g[3] = g[2] + s[3]
        /\ g[4] = g[3] + s[4]
    OBVIOUS
  <2>2. g = [i \in 0 .. 4 |-> g[i]]
    OBVIOUS
  <2>. HIDE DEF g
  <2>3. ASSUME NEW i \in 0 .. 4 PROVE g[i] = IF i = 0 THEN 0 ELSE g[i - 1] + s[i]
    BY <2>1
  <2>4. Sums(s, 4, g)
    BY <2>2, <2>3 DEF Sums
  <2>. QED BY <2>4
<1>3. Sums(s, 4, f)
  BY <1>2, Zenon
<1>. QED BY <1>1, <1>3, SumsFour

\* The seventh byte of the answer of the servo s.
Last(s) == Servo!Checksum(<<s, 4, Servo!kReadIdCmd, s>>)

LEMMA LastIs ==
  ASSUME NEW s \in Servo!Ids
  PROVE  Last(s) \in Servo!UInt8 /\ (s = 85 => Last(s) # 85)
<1>. DEFINE q == <<s, 4, Servo!kReadIdCmd, s>>
<1>1. Len(q) = 4 /\ q[1] = s /\ q[2] = 4 /\ q[3] = 14 /\ q[4] = s
  BY DEF Servo!kReadIdCmd
<1>. HIDE DEF q
<1>2. Servo!Sum(q) = s + 4 + 14 + s
  BY <1>1, SumOfFour DEF Servo!Ids
<1>3. Last(s) = 255 - ((s + 4 + 14 + s) % 256)
  BY <1>2 DEF Last, Servo!Checksum, q
<1>. QED BY <1>3 DEF Servo!Ids, Servo!UInt8

\* An answer: the byte at place p of the packet of the servo s.
Reply(s) == <<85, 85, s, 4, 14, s, Last(s)>>

LEMMA AppendInt ==
  ASSUME NEW q \in Seq(Int), NEW l \in Int
  PROVE  /\ Append(q, l) \in Seq(Int) /\ Len(Append(q, l)) = Len(q) + 1
         /\ \A k \in 1 .. Len(q) : Append(q, l)[k] = q[k]
         /\ Append(q, l)[Len(q) + 1] = l
OBVIOUS

LEMMA AppendFour ==
  ASSUME NEW q \in Seq(Int), NEW l \in Int, Len(q) = 4
  PROVE  /\ Append(q, l) \in Seq(Int) /\ Len(Append(q, l)) = 5
         /\ \A k \in 1 .. 4 : Append(q, l)[k] = q[k]
         /\ Append(q, l)[5] = l
<1>1. /\ Append(q, l) \in Seq(Int) /\ Len(Append(q, l)) = Len(q) + 1
      /\ \A k \in 1 .. Len(q) : Append(q, l)[k] = q[k]
      /\ Append(q, l)[Len(q) + 1] = l
  BY AppendInt, Zenon
<1>. QED BY <1>1

LEMMA FourElements == ASSUME NEW r \in Seq(Int), Len(r) = 4 PROVE r = <<r[1], r[2], r[3], r[4]>>
  BY SMT

LEMMA SevenElements ==
  ASSUME NEW r \in Seq(Int), Len(r) = 7
  PROVE  r = <<r[1], r[2], r[3], r[4], r[5], r[6], r[7]>>
  BY SMT

LEMMA PacketIsReply ==
  ASSUME NEW s \in Servo!Ids
  PROVE  Servo!Packet(s, <<s>>) = Reply(s) /\ Reply(s) \in Seq(Servo!UInt8) /\ Len(Reply(s)) = 7
<1>0. s \in Int /\ 14 \in Int /\ Last(s) \in Int /\ Servo!kReadIdCmd = 14
  <2>1. Last(s) \in Servo!UInt8
    BY LastIs
  <2>. QED BY <2>1 DEF Servo!Ids, Servo!UInt8, Servo!kReadIdCmd
<1>1. Len(<<s>>) + 3 = 4
  OBVIOUS
<1>2. <<s, 4, Servo!kReadIdCmd>> \o <<s>> = <<s, 4, Servo!kReadIdCmd, s>>
  <2>. DEFINE a == <<s, 4, Servo!kReadIdCmd>>
              b == <<s>>
              r == a \o b
  <2>1. a \in Seq(Int) /\ b \in Seq(Int) /\ Len(a) = 3 /\ Len(b) = 1
        /\ a[1] = s /\ a[2] = 4 /\ a[3] = Servo!kReadIdCmd /\ b[1] = s
    BY <1>0
  <2>. HIDE DEF a, b
  <2>2. Continues(r, a, b)
    BY <2>1, Concat, Zenon
  <2>. HIDE DEF r
  <2>3. r \in Seq(Int) /\ Len(r) = 4 /\ r[1] = s /\ r[2] = 4 /\ r[3] = Servo!kReadIdCmd /\ r[4] = s
    BY <2>1, <2>2 DEF Continues
  <2>4. r = <<s, 4, Servo!kReadIdCmd, s>>
    BY <2>3, FourElements
  <2>. QED BY <2>4, Zenon DEF r, a, b
<1>3. Servo!Packet(s, <<s>>) = <<85, 85>> \o Append(<<s, 4, Servo!kReadIdCmd, s>>, Last(s))
  BY <1>1, <1>2 DEF Servo!Packet, Servo!kFrameHead, Last
<1>4. <<85, 85>> \o Append(<<s, 4, Servo!kReadIdCmd, s>>, Last(s)) = Reply(s)
  <2>. DEFINE a == <<85, 85>>
              b == Append(<<s, 4, Servo!kReadIdCmd, s>>, Last(s))
              r == a \o b
  <2>1. a \in Seq(Int) /\ Len(a) = 2 /\ a[1] = 85 /\ a[2] = 85
    OBVIOUS
  <2>2. PICK q, l : q = <<s, 4, Servo!kReadIdCmd, s>> /\ l = Last(s)
    OBVIOUS
  <2>3. b \in Seq(Int) /\ Len(b) = 5
        /\ b[1] = s /\ b[2] = 4 /\ b[3] = 14 /\ b[4] = s /\ b[5] = Last(s)
    <3>1. q \in Seq(Int) /\ Len(q) = 4 /\ q[1] = s /\ q[2] = 4 /\ q[3] = 14 /\ q[4] = s
      BY <1>0, <2>2
    <3>2. b = Append(q, l) /\ l \in Int
      BY <1>0, <2>2, Zenon
    <3>. HIDE DEF b
    <3>3. /\ Append(q, l) \in Seq(Int) /\ Len(Append(q, l)) = 5
          /\ \A k \in 1 .. 4 : Append(q, l)[k] = q[k]
          /\ Append(q, l)[5] = l
      BY <3>1, <3>2, AppendFour
    <3>. QED BY <2>2, <3>1, <3>2, <3>3
  <2>. HIDE DEF a, b
  <2>4. Continues(r, a, b)
    BY <2>1, <2>3, Concat, Zenon
  <2>. HIDE DEF r
  <2>5. /\ r \in Seq(Int) /\ Len(r) = 7 /\ r[1] = 85 /\ r[2] = 85 /\ r[3] = s /\ r[4] = 4
        /\ r[5] = 14 /\ r[6] = s /\ r[7] = Last(s)
    BY <2>1, <2>3, <2>4 DEF Continues
  <2>6. r = Reply(s)
    BY <2>5, SevenElements DEF Reply
  <2>. QED BY <2>6, Zenon DEF r, a, b
<1>5. s \in Servo!UInt8 /\ 85 \in Servo!UInt8 /\ 4 \in Servo!UInt8 /\ 14 \in Servo!UInt8
  BY DEF Servo!Ids, Servo!UInt8
<1>6. Reply(s) \in Seq(Servo!UInt8) /\ Len(Reply(s)) = 7
  BY <1>5, LastIs DEF Reply
<1>. QED BY <1>3, <1>4, <1>6, Zenon

-----------------------------------------------------------------------------
(* Where the bytes that have not made a packet yet come from: the byte at  *)
(* place p of the answer of the servo s, or a stray byte, at place 0.      *)

Label == [s : Servo!Ids, p : 0 .. 7]

\* The bytes g of the packet under way and w on the wire, counted through.
At(g, w, i) == IF i <= Len(g) THEN g[i] ELSE w[i - Len(g)]

Spelled(x, l, z, P) == IF l.p = 0 THEN x = z ELSE l.s \in P /\ x = Reply(l.s)[l.p]
Follows(a, b) == IF a.p \in 1 .. 6 THEN b.s = a.s /\ b.p = a.p + 1 ELSE b.p \in {0, 1}

\* L labels the n bytes of g and w: whole answers of servos in P, of which
\* the first may have lost its beginning, and stray bytes z between them.
Labels(L, n, g, w, z, P) ==
  /\ n = Len(g) + Len(w)
  /\ L \in [1 .. n -> Label]
  /\ \A i \in 1 .. n : Spelled(At(g, w, i), L[i], z, P)
  /\ \A i \in 1 .. n : i < n => Follows(L[i], L[i + 1])
  /\ n > 0 => L[n].p \in {0, 7}

Shifted(L, k, m) == [i \in 1 .. m |-> L[i + k]]

LEMMA LabelsShift ==
  ASSUME NEW L, NEW n \in Nat, NEW g, NEW w, NEW z, NEW P, Labels(L, n, g, w, z, P),
         NEW k \in Nat, NEW m \in Nat, n = m + k, NEW g2, NEW w2, m = Len(g2) + Len(w2),
         \A i \in 1 .. m : At(g2, w2, i) = At(g, w, i + k)
  PROVE  Labels(Shifted(L, k, m), m, g2, w2, z, P)
<1>. DEFINE M == Shifted(L, k, m)
<1>1. \A i \in 1 .. m : i + k \in 1 .. n
  OBVIOUS
<1>2. \A i \in 1 .. m : M[i] = L[i + k]
  BY DEF Shifted
<1>3. M \in [1 .. m -> Label]
  BY <1>1 DEF Shifted, Labels
<1>. HIDE DEF M
<1>4. \A i \in 1 .. m : Spelled(At(g2, w2, i), M[i], z, P)
  BY <1>1, <1>2, Zenon DEF Labels
<1>5. ASSUME NEW i \in 1 .. m, i < m PROVE Follows(M[i], M[i + 1])
  <2>1. /\ i + k \in 1 .. n /\ i + k < n /\ i + 1 \in 1 .. m /\ (i + 1) + k = (i + k) + 1
    BY <1>5
  <2>2. Follows(L[i + k], L[(i + k) + 1])
    BY <2>1, Zenon DEF Labels
  <2>. QED BY <1>2, <2>1, <2>2
<1>6. m > 0 => M[m].p \in {0, 7}
  BY <1>2 DEF Labels
<1>7. Labels(M, m, g2, w2, z, P)
  BY <1>3, <1>4, <1>5, <1>6 DEF Labels
<1>. QED BY <1>7 DEF M

(* A byte read moves from the wire into the packet ...                     *)
LEMMA LabelsRead ==
  ASSUME NEW g \in Seq(Servo!UInt8), NEW w \in Seq(Servo!UInt8), w # <<>>, NEW L, NEW n, NEW z, NEW P,
         Labels(L, n, g, w, z, P)
  PROVE  /\ Labels(L, n, Append(g, Head(w)), Tail(w), z, P)
         /\ n \in Nat /\ Len(g) + 1 <= n
<1>. DEFINE h == Append(g, Head(w))
            v == Tail(w)
<1>1. /\ h \in Seq(Servo!UInt8) /\ Len(h) = Len(g) + 1 /\ h[Len(g) + 1] = w[1]
      /\ \A i \in 1 .. Len(g) : h[i] = g[i]
  OBVIOUS
<1>2. v \in Seq(Servo!UInt8) /\ Len(v) = Len(w) - 1 /\ Len(w) \in Nat \ {0}
      /\ \A i \in 1 .. Len(v) : v[i] = w[i + 1]
  OBVIOUS
<1>. HIDE DEF h, v
<1>3. Len(g) \in Nat /\ n = Len(g) + Len(w) /\ n = Len(h) + Len(v) /\ n \in Nat
  BY <1>1, <1>2 DEF Labels
<1>4. ASSUME NEW i \in 1 .. n PROVE At(h, v, i) = At(g, w, i)
  <2>1. CASE i <= Len(g)
    BY <1>1, <1>3, <2>1 DEF At
  <2>2. CASE i = Len(g) + 1
    BY <1>1, <1>3, <2>2 DEF At
  <2>3. CASE i > Len(g) + 1
    <3>. PICK j : j = i - (Len(g) + 1)
      OBVIOUS
    <3>1. j \in 1 .. Len(v) /\ j + 1 = i - Len(g) /\ ~(i <= Len(g)) /\ ~(i <= Len(h))
          /\ i - Len(h) = j
      BY <1>1, <1>2, <1>3, <2>3
    <3>. QED BY <1>2, <3>1 DEF At
  <2>. QED BY <1>3, <2>1, <2>2, <2>3
<1>5. Labels(L, n, h, v, z, P)
  BY <1>3, <1>4 DEF Labels
<1>. QED BY <1>2, <1>3, <1>5 DEF h, v

(* ... and with it the packet may be given up.                             *)
LEMMA LabelsClear ==
  ASSUME NEW g \in Seq(Servo!UInt8), NEW w \in Seq(Servo!UInt8), NEW L, NEW n, NEW z, NEW P,
         Labels(L, n, g, w, z, P)
  PROVE  /\ Labels(Shifted(L, Len(g), Len(w)), Len(w), <<>>, w, z, P)
         /\ n \in Nat /\ n = Len(w) + Len(g)
<1>1. Len(g) \in Nat /\ Len(w) \in Nat /\ n = Len(w) + Len(g) /\ n \in Nat
  BY DEF Labels
<1>2. Len(<<>>) = 0
  OBVIOUS
<1>3. \A i \in 1 .. Len(w) : At(<<>>, w, i) = At(g, w, i + Len(g))
  <2>. TAKE i \in 1 .. Len(w)
  <2>1. ~(i <= 0) /\ i - 0 = i /\ ~(i + Len(g) <= Len(g)) /\ (i + Len(g)) - Len(g) = i
    BY <1>1
  <2>. QED BY <1>2, <2>1 DEF At
<1>4. Len(w) = Len(<<>>) + Len(w)
  BY <1>1, <1>2
<1>. QED BY <1>1, <1>3, <1>4, LabelsShift, Zenon

\* Spelled and Follows, place by place.
LEMMA ReplyBytes ==
  ASSUME NEW s \in Servo!Ids
  PROVE  /\ Reply(s)[1] = 85 /\ Reply(s)[2] = 85 /\ Reply(s)[3] = s /\ Reply(s)[4] = 4
         /\ Reply(s)[5] = 14 /\ Reply(s)[6] = s /\ Reply(s)[7] = Last(s)
BY DEF Reply

LEMMA SpelledBytes ==
  ASSUME NEW x, NEW l, NEW z, NEW P, l.s \in Servo!Ids, l.p \in 0 .. 7, Spelled(x, l, z, P)
  PROVE  /\ l.p \in {1, 2} => x = 85
         /\ l.p \in {3, 6} => x = l.s
         /\ l.p = 4 => x = 4
         /\ l.p = 5 => x = 14
         /\ l.p = 7 => x = Last(l.s)
         /\ l.p = 0 => x = z
BY ReplyBytes DEF Spelled

\* An answer that is read from its first byte on is whole.
StartsWhole(L, n, g, w, P) ==
  /\ n >= 7 /\ L[1].s \in Servo!Ids /\ L[1].s \in P
  /\ \A i \in 1 .. 7 : At(g, w, i) = Reply(L[1].s)[i]

LEMMA Aligned ==
  ASSUME NEW g, NEW w, NEW L, NEW n \in Nat, NEW z, NEW P,
         Labels(L, n, g, w, z, P), n > 0, L[1].p = 1
  PROVE  StartsWhole(L, n, g, w, P)
<1>1. \A i \in 1 .. n : L[i].s \in Servo!Ids /\ L[i].p \in 0 .. 7
  BY DEF Labels, Label
<1>2. \A i \in 1 .. n : i < n => Follows(L[i], L[i + 1])
  BY Zenon DEF Labels
<1>3. L[n].p \in {0, 7}
  BY Zenon DEF Labels
<1>4. ASSUME NEW i \in 1 .. 6, i <= n, L[i].p = i, L[i].s = L[1].s
      PROVE  i + 1 \in 1 .. n /\ L[i + 1].p = i + 1 /\ L[i + 1].s = L[1].s
  <2>1. i \in 1 .. n
    BY <1>4
  <2>2. i < n
    BY <1>3, <1>4
  <2>3. Follows(L[i], L[i + 1])
    BY <1>2, <2>1, <2>2
  <2>. QED BY <1>4, <2>1, <2>2, <2>3 DEF Follows
<1>5. 2 <= n /\ L[2].p = 2 /\ L[2].s = L[1].s
  BY <1>4
<1>6. 3 <= n /\ L[3].p = 3 /\ L[3].s = L[1].s
  BY <1>4, <1>5
<1>7. 4 <= n /\ L[4].p = 4 /\ L[4].s = L[1].s
  BY <1>4, <1>6
<1>8. 5 <= n /\ L[5].p = 5 /\ L[5].s = L[1].s
  BY <1>4, <1>7
<1>9. 6 <= n /\ L[6].p = 6 /\ L[6].s = L[1].s
  BY <1>4, <1>8
<1>10. 7 <= n /\ L[7].p = 7 /\ L[7].s = L[1].s
  BY <1>4, <1>9
<1>11. ASSUME NEW i \in 1 .. 7 PROVE L[i].s = L[1].s /\ L[i].p = i
  BY <1>5, <1>6, <1>7, <1>8, <1>9, <1>10
<1>12. ASSUME NEW i \in 1 .. 7 PROVE At(g, w, i) = Reply(L[1].s)[i]
  <2>1. i \in 1 .. n /\ i # 0
    BY <1>10
  <2>2. Spelled(At(g, w, i), L[i], z, P)
    BY <2>1, Zenon DEF Labels
  <2>. QED BY <1>11, <2>1, <2>2, Zenon DEF Spelled
<1>13. L[1].s \in P
  <2>1. 1 \in 1 .. n /\ 1 # 0
    OBVIOUS
  <2>2. Spelled(At(g, w, 1), L[1], z, P)
    BY <2>1, Zenon DEF Labels
  <2>. QED BY <2>1, <2>2, Zenon DEF Spelled
<1>. QED BY <1>1, <1>10, <1>11, <1>12, <1>13 DEF StartsWhole

\* What a complete packet that ReadId accepts looks like.
Accepted(g) ==
  /\ g \in Seq(Servo!UInt8) /\ Len(g) = g[4] + 3 /\ g[4] \in 4 .. 19
  /\ g[1] = 85 /\ g[2] = 85 /\ g[5] = 14

(* A packet that is accepted is the whole answer of a servo, whatever      *)
(* stray bytes and remains of other answers surround it.                   *)
LEMMA AcceptedIsAnswer ==
  ASSUME NEW g, NEW w, NEW L, NEW n \in Nat, NEW z, NEW P,
         Labels(L, n, g, w, z, P), Accepted(g), Len(g) <= n
  PROVE  L[1].p = 1
<1>1. \A i \in 1 .. n : L[i].s \in Servo!Ids /\ L[i].p \in 0 .. 7
  BY DEF Labels, Label
<1>2. Len(g) \in Nat /\ Len(g) >= 7
  <2>1. Len(g) = g[4] + 3 /\ g[4] \in 4 .. 19
    BY Zenon DEF Accepted
  <2>. QED BY <2>1
<1>3. \A i \in 1 .. 6 : i \in 1 .. n /\ i < n /\ i <= Len(g)
  BY <1>2
<1>4. \A i \in 1 .. 6 : Follows(L[i], L[i + 1])
  BY <1>3, Zenon DEF Labels
<1>5. \A i \in 1 .. 6 : Spelled(g[i], L[i], z, P)
  <2>. TAKE i \in 1 .. 6
  <2>1. Spelled(At(g, w, i), L[i], z, P)
    BY <1>3, Zenon DEF Labels
  <2>. QED BY <1>3, <2>1, Zenon DEF At
<1>6. g[1] = 85 /\ g[2] = 85 /\ g[4] \in 4 .. 19 /\ g[5] = 14
  BY Zenon DEF Accepted
<1>7. ASSUME NEW i \in 1 .. 6
      PROVE  /\ L[i].p \in {1, 2} => g[i] = 85
             /\ L[i].p \in {3, 6} => g[i] = L[i].s
             /\ L[i].p = 4 => g[i] = 4
             /\ L[i].p = 5 => g[i] = 14
             /\ L[i].p = 7 => g[i] = Last(L[i].s)
             /\ L[i].p = 0 => g[i] = z
  BY <1>1, <1>3, <1>5, SpelledBytes, SMTT(30)
<1>8. \A i \in 1 .. 6 : /\ L[i].s \in Servo!Ids /\ L[i].p \in 0 .. 7
                        /\ L[i].p \in 1 .. 6 => L[i + 1].s = L[i].s /\ L[i + 1].p = L[i].p + 1
                        /\ L[i].p \in {0, 7} => L[i + 1].p \in {0, 1}
  BY <1>1, <1>3, <1>4 DEF Follows
<1>9. L[1].p \notin {0, 7}
  <2>. SUFFICES ASSUME L[1].p \in {0, 7} PROVE FALSE
    OBVIOUS
  <2>1. L[2].p \in {0, 1}
    BY <1>8
  <2>2. L[2].p # 1
    <3>. SUFFICES ASSUME L[2].p = 1 PROVE FALSE
      OBVIOUS
    <3>1. L[3].p = 2
      BY <1>8
    <3>2. L[4].p = 3
      BY <1>8, <3>1
    <3>3. L[5].p = 4
      BY <1>8, <3>2
    <3>. QED BY <1>6, <1>7, <3>3
  <2>3. z = 85
    BY <1>6, <1>7, <2>1, <2>2
  <2>4. L[3].p \in {0, 1}
    BY <1>8, <2>1, <2>2
  <2>5. L[4].p \in {0, 1, 2}
    BY <1>8, <2>4
  <2>6. g[4] = 85
    BY <1>7, <2>3, <2>5
  <2>. QED BY <1>6, <2>6
<1>10. L[1].p # 2
  <2>. SUFFICES ASSUME L[1].p = 2 PROVE FALSE
    OBVIOUS
  <2>1. L[2].p = 3 /\ L[2].s = L[1].s
    BY <1>8
  <2>2. L[3].p = 4 /\ L[3].s = L[1].s
    BY <1>8, <2>1
  <2>3. L[4].p = 5
    BY <1>8, <2>2
  <2>4. L[5].p = 6 /\ L[5].s = L[1].s
    BY <1>8, <2>2, <2>3
  <2>. QED BY <1>6, <1>7, <2>1, <2>4
<1>11. L[1].p # 3
  <2>. SUFFICES ASSUME L[1].p = 3 PROVE FALSE
    OBVIOUS
  <2>1. L[2].p = 4
    BY <1>8
  <2>. QED BY <1>6, <1>7, <2>1
<1>12. L[1].p \notin {4, 5}
  BY <1>6, <1>7
<1>13. L[1].p # 6
  <2>. SUFFICES ASSUME L[1].p = 6 PROVE FALSE
    OBVIOUS
  <2>1. L[2].p = 7 /\ L[2].s = L[1].s
    BY <1>8
  <2>2. L[1].s = 85 /\ Last(L[1].s) = 85
    BY <1>6, <1>7, <2>1
  <2>. QED BY <1>8, <2>2, LastIs
<1>. QED BY <1>8, <1>9, <1>10, <1>11, <1>12, <1>13

\* What comes in, a whole answer or a stray byte, is labelled in turn.
Extended(L, n, l) == [i \in 1 .. n + Len(l) |-> IF i <= n THEN L[i] ELSE l[i - n]]

\* l labels the bytes x that come in at once.
Whole(l, x, z, P) ==
  /\ x \in Seq(Servo!UInt8) /\ l \in Seq(Label) /\ Len(x) = Len(l) /\ Len(l) > 0
  /\ \A i \in 1 .. Len(l) : Spelled(x[i], l[i], z, P)
  /\ \A i \in 1 .. Len(l) : i < Len(l) => Follows(l[i], l[i + 1])
  /\ l[1].p \in {0, 1} /\ l[Len(l)].p \in {0, 7}

LEMMA LabelsExtend ==
  ASSUME NEW g \in Seq(Servo!UInt8), NEW w \in Seq(Servo!UInt8), NEW x, NEW r,
         NEW L, NEW n, NEW z, NEW P, NEW l,
         Labels(L, n, g, w, z, P), Continues(r, w, x), Whole(l, x, z, P)
  PROVE  /\ Labels(Extended(L, n, l), n + Len(l), g, r, z, P)
         /\ n \in Nat /\ Len(l) \in Nat
         /\ \A i \in 1 .. n : Extended(L, n, l)[i] = L[i]
         /\ \A i \in 1 .. Len(l) : Extended(L, n, l)[n + i] = l[i]
<1>. DEFINE M == Extended(L, n, l)
<1>0. /\ x \in Seq(Servo!UInt8) /\ l \in Seq(Label) /\ Len(x) = Len(l) /\ Len(l) > 0
      /\ \A i \in 1 .. Len(l) : Spelled(x[i], l[i], z, P)
      /\ \A i \in 1 .. Len(l) : i < Len(l) => Follows(l[i], l[i + 1])
      /\ l[1].p \in {0, 1} /\ l[Len(l)].p \in {0, 7}
  BY Zenon DEF Whole
<1>1. /\ Len(g) \in Nat /\ Len(w) \in Nat /\ Len(l) \in Nat
      /\ \A i \in 1 .. Len(l) : l[i] \in Label
  BY <1>0
<1>2. n \in Nat /\ n = Len(g) + Len(w) /\ n + Len(l) = Len(g) + Len(r)
  BY <1>0, <1>1 DEF Labels, Continues
<1>3. \A i \in 1 .. n : M[i] = L[i] /\ i \in 1 .. n + Len(l)
  BY <1>0, <1>1, <1>2 DEF Extended
<1>4. \A i \in 1 .. Len(l) : M[n + i] = l[i] /\ n + i \in 1 .. n + Len(l)
  BY <1>0, <1>1, <1>2 DEF Extended
<1>5. M \in [1 .. n + Len(l) -> Label]
  <2>1. L \in [1 .. n -> Label]
    BY Zenon DEF Labels
  <2>. QED BY <1>0, <1>1, <1>2, <2>1 DEF Extended
<1>. HIDE DEF M
<1>6. \A i \in 1 .. n + Len(l) : i \in 1 .. n \/ \E j \in 1 .. Len(l) : i = n + j
  <2>. TAKE i \in 1 .. n + Len(l)
  <2>1. CASE i > n
    <3>. PICK j : j = i - n
      OBVIOUS
    <3>1. j \in 1 .. Len(l) /\ i = n + j
      BY <1>0, <1>1, <1>2, <2>1
    <3>. QED BY <3>1
  <2>. QED BY <1>2, <2>1
<1>7. \A i \in 1 .. n : At(g, r, i) = At(g, w, i)
  <2>. TAKE i \in 1 .. n
  <2>1. ~(i <= Len(g)) => i - Len(g) \in 1 .. Len(w)
    BY <1>0, <1>1, <1>2
  <2>2. ~(i <= Len(g)) => r[i - Len(g)] = w[i - Len(g)]
    BY <2>1, Zenon DEF Continues
  <2>. QED BY <2>2, Zenon DEF At
<1>8. \A i \in 1 .. Len(l) : At(g, r, n + i) = x[i]
  <2>. TAKE i \in 1 .. Len(l)
  <2>1. ~(n + i <= Len(g)) /\ (n + i) - Len(g) = Len(w) + i
    BY <1>0, <1>1, <1>2
  <2>2. r[Len(w) + i] = x[i]
    BY <1>0, Zenon DEF Continues
  <2>. QED BY <2>1, <2>2, Zenon DEF At
<1>9. ASSUME NEW i \in 1 .. n + Len(l) PROVE Spelled(At(g, r, i), M[i], z, P)
  <2>1. CASE i \in 1 .. n
    BY <1>3, <1>7, <2>1, Zenon DEF Labels
  <2>2. ASSUME NEW j \in 1 .. Len(l), i = n + j PROVE Spelled(At(g, r, i), M[i], z, P)
    BY <1>0, <1>4, <1>8, <2>2, Zenon
  <2>. QED BY <1>6, <2>1, <2>2, Zenon
<1>10. ASSUME NEW i \in 1 .. n + Len(l), i < n + Len(l) PROVE Follows(M[i], M[i + 1])
  <2>1. CASE i \in 1 .. n /\ i < n
    <3>1. i + 1 \in 1 .. n
      BY <1>2, <2>1
    <3>. QED BY <1>3, <2>1, <3>1, Zenon DEF Labels
  <2>2. CASE i = n
    <3>1. n \in 1 .. n /\ n > 0
      BY <1>0, <1>1, <1>2, <2>2
    <3>2. L[n].p \in {0, 7}
      BY <3>1, Zenon DEF Labels
    <3>3. 1 \in 1 .. Len(l)
      BY <1>0, <1>1
    <3>4. M[i] = L[n] /\ M[i + 1] = l[1]
      BY <1>3, <1>4, <2>2, <3>1, <3>3, Zenon
    <3>. QED BY <1>0, <3>2, <3>4 DEF Follows
  <2>3. ASSUME NEW j \in 1 .. Len(l), i = n + j PROVE Follows(M[i], M[i + 1])
    <3>1. j < Len(l) /\ j + 1 \in 1 .. Len(l) /\ i + 1 = n + (j + 1)
      BY <1>0, <1>1, <1>2, <1>10, <2>3
    <3>. QED BY <1>0, <1>4, <2>3, <3>1, Zenon
  <2>4. i \in 1 .. n => i < n \/ i = n
    BY <1>2
  <2>. QED BY <1>6, <2>1, <2>2, <2>3, <2>4, Zenon
<1>11. M[n + Len(l)].p \in {0, 7}
  <2>1. Len(l) \in 1 .. Len(l)
    BY <1>0, <1>1
  <2>. QED BY <1>0, <1>4, <2>1, Zenon
<1>12. Labels(M, n + Len(l), g, r, z, P)
  BY <1>2, <1>5, <1>9, <1>10, <1>11 DEF Labels
<1>. QED BY <1>0, <1>1, <1>2, <1>3, <1>4, <1>12 DEF M

-----------------------------------------------------------------------------
(* The discovery.  What the packet under way looks like while it is        *)
(* received ...                                                            *)
Collecting ==
  /\ Servo!Complete(got) = "more"
  /\ Len(got) >= 1 => got[1] = 85
  /\ Len(got) >= 2 => got[2] = 85
  /\ pc # "receive" => got = <<>>

\* ... and the axes while one query follows the other.
InTurn ==
  /\ query = "yaw" => pc # "done" /\ ~yaw.online /\ yaw.id = 1
  /\ query # "pitch" \/ pc # "done" => ~pitch.online /\ pitch.id = 2
  /\ query = "pitch" /\ pc = "done" => yaw.online \/ pitch.online
  /\ query = "any" /\ pc # "done" => ~yaw.online

LEMMA NothingYet == <<>> \in Seq(Servo!UInt8) /\ Len(<<>>) = 0 /\ Servo!Complete(<<>>) = "more"
<1>1. <<>> \in Seq(Servo!UInt8) /\ Len(<<>>) = 0
  OBVIOUS
<1>. QED BY <1>1 DEF Servo!Complete

\* A byte more, of a packet q that was not complete.
LEMMA OneByteMore ==
  ASSUME NEW q \in Seq(Servo!UInt8), Servo!Complete(q) = "more", NEW h \in Seq(Servo!UInt8), Len(h) = Len(q) + 1,
         \A i \in 1 .. Len(q) : h[i] = q[i], h[1] = 85, Len(h) >= 2 => h[2] = 85
  PROVE  /\ Servo!Complete(h) = "more" => Len(h) <= 21
         /\ Servo!Complete(h) \notin {"more", "error"} /\ Servo!IsAnswer(h) => Accepted(h)
<1>1. Len(h) \in Nat /\ Len(q) \in Nat /\ \A i \in 1 .. Len(h) : h[i] \in Servo!UInt8
  OBVIOUS
<1>2. \A i \in 1 .. Len(h) : h[i] \in Nat
  <2>1. Servo!UInt8 \subseteq Nat
    BY DEF Servo!UInt8
  <2>. QED BY <1>1, <2>1, Zenon
<1>3. Len(h) >= 5 => h[4] \in Nat
  BY <1>1, <1>2
<1>4. Len(h) >= 5 => h[4] = q[4]
  BY <1>1
<1>5. Servo!Complete(h) = "more" => Len(h) < 5 \/ (~(h[4] < 3 \/ h[4] - 3 > 16) /\ Len(h) < h[4] + 3)
  BY Zenon DEF Servo!Complete
<1>6. Servo!Complete(h) = "more" => Len(h) <= 21
  BY <1>1, <1>3, <1>5
<1>7. ASSUME Servo!Complete(h) \notin {"more", "error"}, Servo!IsAnswer(h) PROVE Accepted(h)
  <2>1. ~(Len(h) < 5) /\ ~(h[4] < 3 \/ h[4] - 3 > 16) /\ ~(Len(h) < h[4] + 3)
    BY <1>7, Zenon DEF Servo!Complete
  <2>2. h[5] = 14 /\ h[4] - 3 >= 1
    BY <1>7 DEF Servo!IsAnswer, Servo!kReadIdCmd
  <2>3. Len(q) < 5 \/ Len(q) < q[4] + 3
    BY Zenon DEF Servo!Complete
  <2>4. PICK m : m = h[4]
    OBVIOUS
  <2>5. m \in Nat /\ ~(m < 3) /\ ~(m - 3 > 16) /\ ~(Len(h) < m + 3) /\ m - 3 >= 1
        /\ ~(Len(h) < 5) /\ (Len(q) < 5 \/ Len(q) < m + 3)
    BY <1>1, <1>3, <1>4, <2>1, <2>2, <2>3, <2>4
  <2>6. Len(h) = m + 3 /\ m \in 4 .. 19
    BY <1>1, <2>5
  <2>. QED BY <1>1, <2>1, <2>2, <2>4, <2>6 DEF Accepted
<1>. QED BY <1>6, <1>7

\* The next bytes, while the packet is not complete.
LEMMA NextGotIs ==
  ASSUME Servo!TypeOK, Collecting, wire # <<>>, NEW h, h = Servo!NextGot(got, Head(wire))
  PROVE  /\ Head(wire) \in Servo!UInt8 /\ h \in Seq(Servo!UInt8)
         /\ \/ h = <<>> /\ Servo!Complete(h) = "more"
            \/ /\ h = Append(got, Head(wire)) /\ Len(h) = Len(got) + 1
               /\ h[1] = 85 /\ (Len(h) >= 2 => h[2] = 85)
         /\ Servo!Complete(h) = "more" => Len(h) <= 21
         /\ Servo!Complete(h) \notin {"more", "error"} /\ Servo!IsAnswer(h) => Accepted(h)
<1>. DEFINE b == Head(wire)
            a == Append(got, b)
<1>1. b \in Servo!UInt8 /\ got \in Seq(Servo!UInt8) /\ Len(got) \in Nat
  BY DEF Servo!TypeOK
<1>. HIDE DEF b
<1>2. /\ a \in Seq(Servo!UInt8) /\ Len(a) = Len(got) + 1 /\ a[Len(got) + 1] = b
      /\ \A i \in 1 .. Len(got) : a[i] = got[i]
  BY <1>1
<1>. HIDE DEF a
<1>3. h = <<>> \/ (h = a /\ ~(Len(got) < 2 /\ b # 85))
  BY Zenon DEF Servo!NextGot, Servo!kFrameHead, a, b
<1>4. CASE h = <<>>
  <2>1. h \in Seq(Servo!UInt8) /\ Len(h) = 0 /\ Servo!Complete(h) = "more"
    BY <1>4, NothingYet, Zenon
  <2>. QED BY <1>1, <1>4, <2>1 DEF b
<1>5. CASE h = a /\ ~(Len(got) < 2 /\ b # 85)
  <2>1. a[1] = 85 /\ (Len(a) >= 2 => a[2] = 85)
    BY <1>1, <1>2, <1>5 DEF Collecting
  <2>2. /\ Servo!Complete(a) = "more" => Len(a) <= 21
        /\ Servo!Complete(a) \notin {"more", "error"} /\ Servo!IsAnswer(a) => Accepted(a)
    BY <1>1, <1>2, <2>1, OneByteMore, Zenon DEF Collecting
  <2>. QED BY <1>1, <1>2, <1>5, <2>1, <2>2, Zenon DEF a, b
<1>. QED BY <1>3, <1>4, <1>5, Zenon

-----------------------------------------------------------------------------
(* One answer, read.                                                       *)

LEMMA BytesAreInts == ASSUME NEW q \in Seq(Servo!UInt8) PROVE q \in Seq(Int)
<1>1. Servo!UInt8 \subseteq Int
  BY DEF Servo!UInt8
<1>2. Len(q) \in Nat /\ q \in [1 .. Len(q) -> Servo!UInt8]
  OBVIOUS
<1>3. q \in [1 .. Len(q) -> Int]
  BY <1>1, <1>2
<1>. QED BY <1>2, <1>3

LEMMA ElementsOf == ASSUME NEW S, NEW q \in Seq(S) PROVE \A i \in 1 .. Len(q) : q[i] \in S
OBVIOUS

LEMMA SubSeqInt ==
  ASSUME NEW h, NEW m \in Int, NEW k \in Int, m <= k, \A i \in m .. k : h[i] \in Int
  PROVE  /\ SubSeq(h, m, k) \in Seq(Int) /\ Len(SubSeq(h, m, k)) = k - m + 1
         /\ \A i \in 1 .. k - m + 1 : SubSeq(h, m, k)[i] = h[m + i - 1]
BY SubSeqProperties

LEMMA ThirdToSixth ==
  ASSUME NEW h \in Seq(Int), Len(h) = 7
  PROVE  /\ SubSeq(h, 3, 6) \in Seq(Int) /\ Len(SubSeq(h, 3, 6)) = 4
         /\ SubSeq(h, 3, 6)[1] = h[3] /\ SubSeq(h, 3, 6)[2] = h[4]
         /\ SubSeq(h, 3, 6)[3] = h[5] /\ SubSeq(h, 3, 6)[4] = h[6]
<1>. DEFINE q == SubSeq(h, 3, 6)
<1>1. \A i \in 3 .. 6 : h[i] \in Int
  <2>1. \A i \in 1 .. Len(h) : h[i] \in Int
    BY ElementsOf, Zenon
  <2>2. \A i \in 3 .. 6 : i \in 1 .. Len(h)
    OBVIOUS
  <2>. QED BY <2>1, <2>2, Zenon
<1>2. /\ q \in Seq(Int) /\ Len(q) = 6 - 3 + 1
      /\ \A i \in 1 .. 6 - 3 + 1 : q[i] = h[3 + i - 1]
  <2>1. 3 \in Int /\ 6 \in Int /\ 3 <= 6
    OBVIOUS
  <2>. QED BY <1>1, <2>1, SubSeqInt, Zenon
<1>. HIDE DEF q
<1>3. Len(q) = 4 /\ q[1] = h[3] /\ q[2] = h[4] /\ q[3] = h[5] /\ q[4] = h[6]
  BY <1>2
<1>. QED BY <1>2, <1>3 DEF q

\* The checksum of an answer is right.
LEMMA ReplyIsComplete ==
  ASSUME NEW s \in Servo!Ids, NEW h \in Seq(Servo!UInt8), Len(h) = 7, \A i \in 1 .. 7 : h[i] = Reply(s)[i]
  PROVE  Servo!Complete(h) = "packet" /\ Servo!IsAnswer(h)
<1>1. h[3] = s /\ h[4] = 4 /\ h[5] = 14 /\ h[6] = s /\ h[7] = Last(s)
  BY ReplyBytes
<1>. DEFINE q == SubSeq(h, 3, 6)
<1>2. q = <<s, 4, Servo!kReadIdCmd, s>>
  <2>1. q \in Seq(Int) /\ Len(q) = 4
        /\ q[1] = h[3] /\ q[2] = h[4] /\ q[3] = h[5] /\ q[4] = h[6]
    BY BytesAreInts, ThirdToSixth, Zenon
  <2>. HIDE DEF q
  <2>3. q = <<q[1], q[2], q[3], q[4]>>
    BY <2>1, FourElements
  <2>. QED BY <1>1, <2>1, <2>3 DEF Servo!kReadIdCmd
<1>. HIDE DEF q
<1>3. Servo!Checksum(q) = Last(s)
  BY <1>2 DEF Last
<1>4. Len(h) - 1 = 6 /\ h[Len(h)] = Last(s)
  BY <1>1
<1>5. Servo!Complete(h) = "packet"
  <2>1. ~(Len(h) < 5) /\ ~(h[4] < 3 \/ h[4] - 3 > 16) /\ ~(Len(h) < h[4] + 3)
    BY <1>1
  <2>. QED BY <1>3, <1>4, <2>1, Zenon DEF Servo!Complete, q
<1>6. Servo!IsAnswer(h)
  BY <1>1 DEF Servo!IsAnswer, Servo!kReadIdCmd
<1>. QED BY <1>5, <1>6

\* A packet that is read from its first byte on is never given up.
LEMMA AlignedRead ==
  ASSUME NEW q \in Seq(Servo!UInt8), NEW w \in Seq(Servo!UInt8), Servo!Complete(q) = "more",
         NEW L, NEW n \in Nat, NEW z, NEW P,
         Labels(L, n, q, w, z, P), n > 0, L[1].p = 1
  PROVE  /\ w # <<>>
         /\ \/ Servo!Complete(Append(q, Head(w))) = "more"
            \/ /\ Servo!Complete(Append(q, Head(w))) = "packet"
               /\ Servo!IsAnswer(Append(q, Head(w)))
         /\ Servo!NextGot(q, Head(w)) = Append(q, Head(w))
<1>. DEFINE s == L[1].s
            h == Append(q, Head(w))
<1>1. Len(q) \in Nat /\ Len(w) \in Nat /\ n = Len(q) + Len(w)
  BY DEF Labels
<1>2. n >= 7 /\ s \in Servo!Ids /\ \A i \in 1 .. 7 : At(q, w, i) = Reply(s)[i]
  <2>1. StartsWhole(L, n, q, w, P)
    BY Aligned
  <2>. QED BY <2>1, Zenon DEF StartsWhole
<1>. HIDE DEF s
<1>3. \A i \in 1 .. 7 : i <= Len(q) => q[i] = Reply(s)[i]
  BY <1>2, Zenon DEF At
<1>4. Len(q) <= 6
  <2>. SUFFICES ASSUME Len(q) >= 7 PROVE FALSE
    BY <1>1
  <2>1. q[4] = 4
    BY <1>2, <1>3, ReplyBytes
  <2>2. Len(q) < 5 \/ Len(q) < q[4] + 3
    BY Zenon DEF Servo!Complete
  <2>. QED BY <1>1, <2>1, <2>2
<1>5. w # <<>> /\ Len(w) >= 1
  <2>1. Len(w) >= 1
    BY <1>1, <1>2, <1>4
  <2>2. w = <<>> => Len(w) = 0
    BY NothingYet, Zenon
  <2>. QED BY <2>1, <2>2
<1>6. /\ h \in Seq(Servo!UInt8) /\ Len(h) = Len(q) + 1 /\ h[Len(q) + 1] = w[1] /\ Head(w) = w[1]
      /\ \A i \in 1 .. Len(q) : h[i] = q[i]
  BY <1>5
<1>7. w[1] = Reply(s)[Len(q) + 1]
  <2>1. Len(q) + 1 \in 1 .. 7 /\ ~(Len(q) + 1 <= Len(q)) /\ (Len(q) + 1) - Len(q) = 1
    BY <1>1, <1>4
  <2>. QED BY <1>2, <2>1, Zenon DEF At
<1>8. Servo!NextGot(q, Head(w)) = h
  <2>1. Len(q) < 2 => w[1] = 85
    <3>1. Len(q) < 2 => Len(q) + 1 \in {1, 2}
      BY <1>1
    <3>. QED BY <1>2, <1>7, <3>1, ReplyBytes
  <2>. QED BY <1>6, <2>1, Zenon DEF Servo!NextGot, Servo!kFrameHead
<1>. HIDE DEF h
<1>9. \A i \in 1 .. Len(h) : i \in 1 .. 7 /\ h[i] = Reply(s)[i]
  <2>. TAKE i \in 1 .. Len(h)
  <2>1. i \in 1 .. 7 /\ ((i \in 1 .. Len(q) /\ i <= Len(q)) \/ i = Len(q) + 1)
    BY <1>1, <1>4, <1>6
  <2>. QED BY <1>3, <1>6, <1>7, <2>1, Zenon
<1>10. CASE Len(h) = 7
  BY <1>2, <1>6, <1>8, <1>9, <1>10, <1>5, ReplyIsComplete DEF h
<1>11. CASE Len(h) < 7
  <2>1. Len(h) \in Nat /\ (Len(h) >= 5 => h[4] = 4)
    BY <1>1, <1>2, <1>6, <1>9, ReplyBytes
  <2>2. Len(h) < 5 \/ (~(h[4] < 3 \/ h[4] - 3 > 16) /\ Len(h) < h[4] + 3)
    BY <1>11, <2>1
  <2>3. Servo!Complete(h) = "more"
    BY <2>2, Zenon DEF Servo!Complete
  <2>. QED BY <1>5, <1>8, <2>3 DEF h
<1>. QED BY <1>1, <1>4, <1>6, <1>10, <1>11

\* What ReadId returns is a servo that is there.
LEMMA AcceptedRead ==
  ASSUME NEW q \in Seq(Servo!UInt8), NEW w \in Seq(Servo!UInt8), w # <<>>,
         NEW L, NEW n, NEW z, NEW P, Labels(L, n, q, w, z, P),
         Accepted(Append(q, Head(w)))
  PROVE  /\ n \in Nat /\ n = Len(Tail(w)) + 7 /\ L[1].p = 1 /\ L[1].s \in P
         /\ Servo!AnsweredId(Append(q, Head(w))) = L[1].s
         /\ Labels(Shifted(L, 7, Len(Tail(w))), Len(Tail(w)), <<>>, Tail(w), z, P)
<1>. DEFINE h == Append(q, Head(w))
            v == Tail(w)
<1>1. Labels(L, n, h, v, z, P) /\ n \in Nat /\ Len(q) + 1 <= n
  BY LabelsRead
<1>2. h \in Seq(Servo!UInt8) /\ v \in Seq(Servo!UInt8) /\ Len(h) = Len(q) + 1
  OBVIOUS
<1>. HIDE DEF h, v
<1>3. Accepted(h)
  BY DEF h
<1>4. L[1].p = 1
  BY <1>1, <1>2, <1>3, AcceptedIsAnswer
<1>5. n > 0
  BY <1>1, <1>2
<1>6. /\ n >= 7 /\ L[1].s \in Servo!Ids /\ L[1].s \in P
      /\ \A i \in 1 .. 7 : At(h, v, i) = Reply(L[1].s)[i]
  <2>1. StartsWhole(L, n, h, v, P)
    BY <1>1, <1>4, <1>5, Aligned
  <2>. QED BY <2>1, Zenon DEF StartsWhole
<1>7. Len(h) = h[4] + 3 /\ Len(h) >= 7
  <2>1. Len(h) = h[4] + 3 /\ h[4] \in 4 .. 19
    BY <1>3, Zenon DEF Accepted
  <2>2. PICK c : c = h[4]
    OBVIOUS
  <2>3. c \in 4 .. 19 /\ Len(h) = c + 3
    BY <2>1, <2>2, Zenon
  <2>4. c + 3 >= 7
    BY <2>3
  <2>. QED BY <2>1, <2>3, <2>4, Zenon
<1>8. \A i \in 1 .. 7 : h[i] = Reply(L[1].s)[i]
  <2>. TAKE i \in 1 .. 7
  <2>1. i <= Len(h)
    BY <1>7
  <2>. QED BY <1>6, <2>1, Zenon DEF At
<1>9. h[4] = 4 /\ h[6] = L[1].s
  BY <1>6, <1>8, ReplyBytes
<1>10. Len(h) = 7
  BY <1>7, <1>9
<1>11. Labels(Shifted(L, Len(h), Len(v)), Len(v), <<>>, v, z, P) /\ n = Len(v) + Len(h)
  BY <1>1, <1>2, LabelsClear, Zenon
<1>. QED BY <1>1, <1>4, <1>6, <1>9, <1>10, <1>11 DEF Servo!AnsweredId, h, v

-----------------------------------------------------------------------------
(* How a query ends.                                                       *)
LEMMA NotFoundIs ==
  ASSUME Servo!TypeOK, Servo!NotFound
  PROVE  /\ yaw' = yaw /\ pitch' = pitch
         /\ \/ query = "yaw" /\ query' = "pitch" /\ pc' = "send"
            \/ query = "pitch" /\ query' = "pitch" /\ yaw.online /\ pc' = "done"
            \/ query = "pitch" /\ query' = "any" /\ ~yaw.online /\ pc' = "send"
            \/ query = "any" /\ query' = "any" /\ pc' = "done"
<1>1. query \in {"yaw", "pitch", "any"} /\ yaw.online \in BOOLEAN
  BY DEF Servo!TypeOK, Servo!Axis
<1>2. yaw' = yaw /\ pitch' = pitch /\ Servo!Advance(FALSE)
  BY DEF Servo!NotFound
<1>3. CASE query = "yaw"
  BY <1>2, <1>3 DEF Servo!Advance
<1>4. CASE query = "pitch"
  BY <1>1, <1>2, <1>4 DEF Servo!Advance
<1>5. CASE query = "any"
  BY <1>2, <1>5 DEF Servo!Advance
<1>. QED BY <1>1, <1>3, <1>4, <1>5

LEMMA FoundIs ==
  ASSUME Servo!TypeOK, NEW id, Servo!Found(id)
  PROVE  \/ /\ query = "yaw" /\ query' = "pitch" /\ pc' = "send"
            /\ yaw' = [id |-> id, online |-> TRUE] /\ pitch' = pitch
         \/ /\ query = "pitch" /\ query' = "pitch" /\ pc' = "done"
            /\ pitch' = [id |-> id, online |-> TRUE] /\ yaw' = yaw
         \/ /\ query = "any" /\ query' = "any" /\ pc' = "done"
            /\ yaw' = [id |-> id, online |-> TRUE] /\ pitch' = pitch
<1>1. query \in {"yaw", "pitch", "any"}
  BY DEF Servo!TypeOK
<1>2. CASE query = "yaw"
  BY <1>2 DEF Servo!Found, Servo!Advance
<1>3. CASE query = "pitch"
  BY <1>3 DEF Servo!Found, Servo!Advance
<1>4. CASE query = "any"
  BY <1>4 DEF Servo!Found, Servo!Advance
<1>. QED BY <1>1, <1>2, <1>3, <1>4

\* ReadByte, by what becomes of the bytes h of the packet.
LEMMA ReadByteIs ==
  ASSUME Servo!TypeOK, Collecting, Servo!ReadByte, NEW h, h = Servo!NextGot(got, Head(wire))
  PROVE  /\ pc = "receive" /\ wire # <<>> /\ wire' = Tail(wire)
         /\ UNCHANGED <<left, owed, present, noise, faults, losses>>
         /\ \/ Servo!Complete(h) = "more" /\ got' = h /\ UNCHANGED <<pc, query, yaw, pitch>>
            \/ /\ Servo!Complete(h) # "more" /\ got' = <<>> /\ Servo!NotFound
               /\ ~(Servo!Complete(h) = "packet" /\ Servo!IsAnswer(h))
            \/ Accepted(h) /\ got' = <<>> /\ Servo!Found(Servo!AnsweredId(h)) /\ h = Append(got, Head(wire))
<1>1. /\ pc = "receive" /\ wire # <<>> /\ wire' = Tail(wire)
      /\ UNCHANGED <<left, owed, present, noise, faults, losses>>
      /\ got' = IF Servo!Complete(h) = "more" THEN h ELSE <<>>
      /\ CASE Servo!Complete(h) = "more"  -> UNCHANGED <<pc, query, yaw, pitch>>
           [] Servo!Complete(h) = "error" -> Servo!NotFound
           [] OTHER -> IF Servo!IsAnswer(h) THEN Servo!Found(Servo!AnsweredId(h)) ELSE Servo!NotFound
  BY Zenon DEF Servo!ReadByte
<1>2. /\ \/ h = <<>> /\ Servo!Complete(h) = "more"
         \/ h = Append(got, Head(wire))
      /\ Servo!Complete(h) \notin {"more", "error"} /\ Servo!IsAnswer(h) => Accepted(h)
  BY <1>1, NextGotIs
<1>3. CASE Servo!Complete(h) = "more"
  BY <1>1, <1>3
<1>4. CASE Servo!Complete(h) = "error"
  BY <1>1, <1>4
<1>5. CASE Servo!Complete(h) \notin {"more", "error"}
  BY <1>1, <1>2, <1>5
<1>. QED BY <1>3, <1>4, <1>5

Steady == Servo!TypeOK /\ Collecting /\ InTurn

LEMMA SteadyInit == Servo!Init => Steady
<1>. SUFFICES ASSUME Servo!Init PROVE Steady
  OBVIOUS
<1>1. Servo!TypeOK
  BY ServoAssumption, NothingYet DEF Servo!Init, Servo!TypeOK, Servo!BusAssumption, Servo!Axis, Servo!UInt8,
     Servo!kDefaultYawServoId, Servo!kDefaultPitchServoId
<1>2. Collecting
  BY NothingYet DEF Servo!Init, Collecting
<1>3. InTurn
  BY DEF Servo!Init, InTurn, Servo!kDefaultYawServoId, Servo!kDefaultPitchServoId
<1>. QED BY <1>1, <1>2, <1>3 DEF Steady

LEMMA NotEvenFound ==
  ASSUME Servo!TypeOK, InTurn, Servo!NotFound, got' = <<>>, wire' \in Seq(Servo!UInt8), pc = "receive",
         UNCHANGED <<left, owed, present, noise, losses>>, faults' \subseteq {"late", "stray"}
  PROVE  Steady'
<1>1. got' \in Seq(Servo!UInt8) /\ Len(got') <= 21
  BY NothingYet
<1>2. Servo!TypeOK'
  BY <1>1, NotFoundIs DEF Servo!TypeOK
<1>3. Collecting'
  BY NothingYet DEF Collecting
<1>4. InTurn'
  BY NotFoundIs DEF InTurn
<1>. QED BY <1>2, <1>3, <1>4 DEF Steady

LEMMA SteadyNext == Steady /\ [Servo!Next]_servoVars => Steady'
<1>. SUFFICES ASSUME Steady, [Servo!Next]_servoVars PROVE Steady'
  OBVIOUS
<1>0. Servo!TypeOK /\ Collecting /\ InTurn
  BY DEF Steady
<1>1. CASE UNCHANGED servoVars
  BY <1>0, <1>1 DEF servoVars, Steady, Servo!TypeOK, Collecting, InTurn
<1>2. CASE Servo!Send
  <2>1. Servo!TypeOK'
    BY <1>0, <1>2, ServoAssumption DEF Servo!Send, Servo!TypeOK, Servo!BusAssumption
  <2>2. Collecting' /\ InTurn'
    BY <1>0, <1>2 DEF Servo!Send, Collecting, InTurn
  <2>. QED BY <2>1, <2>2 DEF Steady
<1>3. CASE Servo!ReadByte
  <2>. PICK h : h = Servo!NextGot(got, Head(wire))
    OBVIOUS
  <2>1. /\ pc = "receive" /\ wire # <<>> /\ wire' = Tail(wire)
        /\ UNCHANGED <<left, owed, present, noise, faults, losses>>
        /\ \/ Servo!Complete(h) = "more" /\ got' = h /\ UNCHANGED <<pc, query, yaw, pitch>>
           \/ Servo!Complete(h) # "more" /\ got' = <<>> /\ Servo!NotFound
           \/ Accepted(h) /\ got' = <<>> /\ Servo!Found(Servo!AnsweredId(h))
    BY <1>0, <1>3, ReadByteIs
  <2>2. /\ h \in Seq(Servo!UInt8) /\ (Servo!Complete(h) = "more" => Len(h) <= 21)
        /\ Len(h) >= 1 => h[1] = 85
        /\ Len(h) >= 2 => h[2] = 85
    <3>1. /\ h \in Seq(Servo!UInt8) /\ (Servo!Complete(h) = "more" => Len(h) <= 21)
          /\ \/ h = <<>>
             \/ h[1] = 85 /\ (Len(h) >= 2 => h[2] = 85)
      BY <1>0, <2>1, NextGotIs
    <3>2. h = <<>> => ~(Len(h) >= 1) /\ ~(Len(h) >= 2)
      BY NothingYet
    <3>. QED BY <3>1, <3>2
  <2>3. wire' \in Seq(Servo!UInt8)
    BY <1>0, <2>1 DEF Servo!TypeOK
  <2>4. CASE Servo!Complete(h) = "more" /\ got' = h /\ UNCHANGED <<pc, query, yaw, pitch>>
    <3>1. Servo!TypeOK'
      BY <1>0, <2>1, <2>2, <2>3, <2>4 DEF Servo!TypeOK
    <3>2. Collecting' /\ InTurn'
      BY <1>0, <2>1, <2>2, <2>4 DEF Collecting, InTurn
    <3>. QED BY <3>1, <3>2 DEF Steady
  <2>5. CASE got' = <<>> /\ Servo!NotFound
    <3>1. faults' \subseteq {"late", "stray"}
      BY <1>0, <2>1 DEF Servo!TypeOK
    <3>. QED BY <1>0, <2>1, <2>3, <2>5, <3>1, NotEvenFound
  <2>6. CASE Accepted(h) /\ got' = <<>> /\ Servo!Found(Servo!AnsweredId(h))
    <3>1. Servo!AnsweredId(h) \in Servo!UInt8
      <4>1. Len(h) = h[4] + 3 /\ h[4] \in 4 .. 19
        BY <2>6, Zenon DEF Accepted
      <4>2. 6 \in 1 .. Len(h)
        BY <4>1
      <4>. QED BY <2>2, <4>2, ElementsOf DEF Servo!AnsweredId
    <3>2. [id |-> Servo!AnsweredId(h), online |-> TRUE] \in Servo!Axis
      BY <3>1 DEF Servo!Axis
    <3>3. got' \in Seq(Servo!UInt8) /\ Len(got') <= 21
      BY <2>6, NothingYet
    <3>4. Servo!TypeOK'
      BY <1>0, <2>1, <2>3, <2>6, <3>2, <3>3, FoundIs DEF Servo!TypeOK
    <3>5. Collecting'
      BY <2>6, NothingYet DEF Collecting
    <3>6. InTurn'
      BY <1>0, <2>6, FoundIs, <2>1 DEF InTurn
    <3>. QED BY <3>4, <3>5, <3>6 DEF Steady
  <2>. QED BY <2>1, <2>4, <2>5, <2>6
<1>4. CASE Servo!TimedOut
  <2>1. wire' \in Seq(Servo!UInt8)
    BY <1>0, <1>4 DEF Servo!TimedOut, Servo!TypeOK
  <2>2. faults' \subseteq {"late", "stray"}
    BY <1>0, <1>4 DEF Servo!TimedOut, Servo!TypeOK
  <2>. QED BY <1>0, <1>4, <2>1, <2>2, NotEvenFound DEF Servo!TimedOut
<1>5. CASE Servo!Tick
  <2>1. Servo!TypeOK'
    BY <1>0, <1>5, ServoAssumption DEF Servo!Tick, Servo!TypeOK, Servo!BusAssumption
  <2>. QED BY <1>0, <1>5, <2>1 DEF Servo!Tick, Steady, Collecting, InTurn
<1>6. ASSUME NEW s \in Servos, Servo!Answer(s) PROVE Steady'
  <2>1. s \in Servo!Ids
    BY ServoAssumption DEF Servo!BusAssumption
  <2>2. Servo!Packet(s, <<s>>) \in Seq(Servo!UInt8)
    BY <2>1, PacketIsReply
  <2>3. wire' \in Seq(Servo!UInt8)
    <3>1. wire' = wire \o Servo!Packet(s, <<s>>) /\ wire \in Seq(Servo!UInt8)
      BY <1>0, <1>6 DEF Servo!Answer, Servo!TypeOK
    <3>. QED BY <2>2, <3>1, ConcatProperties, Zenon
  <2>4. Servo!TypeOK'
    BY <1>0, <1>6, <2>3 DEF Servo!Answer, Servo!TypeOK
  <2>5. Collecting' /\ InTurn'
    BY <1>0, <1>6 DEF Servo!Answer, Collecting, InTurn
  <2>. QED BY <2>4, <2>5 DEF Steady
<1>7. CASE Servo!LoseByte
  BY <1>0, <1>7, ServoAssumption DEF Servo!LoseByte, Steady, Servo!TypeOK, Collecting, InTurn, Servo!BusAssumption
<1>8. CASE Servo!StrayByte
  <2>1. Servo!TypeOK'
    BY <1>0, <1>8, ServoAssumption DEF Servo!StrayByte, Servo!TypeOK, Servo!BusAssumption
  <2>. QED BY <1>0, <1>8, <2>1 DEF Servo!StrayByte, Steady, Collecting, InTurn
<1>. QED BY <1>1, <1>2, <1>3, <1>4, <1>5, <1>6, <1>7, <1>8 DEF Servo!Next, Servo!Bus

-----------------------------------------------------------------------------
(* What the bus holds while no byte has been lost.  Only servos in S have  *)
(* been asked; o are those that have not answered yet.                     *)
OnlyFrom(L, n, o, S) == o \subseteq S /\ \A i \in 1 .. n : L[i].p # 0 => L[i].s \in S

\* All there is of answers is one answer, or what is left of it.
OneAnswer(L, n, o) ==
  /\ o # {} => \A i \in 1 .. n : L[i].p = 0
  /\ \A i, j \in 1 .. n : L[i].p # 0 /\ L[j].p # 0 => j - i = L[j].p - L[i].p

\* In any case: the yaw servo answers once.
OnTheBus(L, n) ==
  /\ query = "yaw" => OnlyFrom(L, n, owed, {1}) /\ OneAnswer(L, n, owed)
  /\ query = "yaw" /\ pc = "send" => OnlyFrom(L, n, owed, {})
  /\ query = "pitch" => OnlyFrom(L, n, owed, IF yaw.online THEN {2} ELSE {1, 2})

\* Without a fault: a query finds a silent bus, and then the answers to it.
OnCleanBus(L, n) ==
  /\ n > 0 => pc = "receive" /\ L[1].p = 1
  /\ pc = "send" => owed = {}
  /\ pc = "receive" /\ n = 0 => owed = {s \in present : Servo!QueryId \in {s, Servo!kBroadcast}}
  /\ n > 0 /\ query # "any" => n = 7 /\ owed = {}
  /\ query = "pitch" => OnlyFrom(L, n, owed, {2})

Labelled ==
  pc # "done" =>
    \E L, n : /\ Labels(L, n, got, wire, noise, present)
              /\ OnTheBus(L, n)
              /\ faults = {} => OnCleanBus(L, n)

\* The axes, and what an axis that is offline says of the servos.
AxesSoFar ==
  /\ Servo!AnswersAreServos /\ Servo!FaultlessIsComplete
  /\ query = "pitch" /\ pc # "done" => yaw.id = 1
  /\ faults = {} /\ pc # "done" /\ query = "pitch" => (yaw.online <=> 1 \in present)
  /\ faults = {} /\ pc # "done" /\ query = "any" => 1 \notin present /\ 2 \notin present

Undisturbed == losses = 0 => Labelled /\ AxesSoFar

LEMMA ShiftKeeps ==
  ASSUME NEW L, NEW n \in Nat, NEW k \in Nat, NEW m \in Nat, n = m + k, NEW o
  PROVE  /\ \A S : OnlyFrom(L, n, o, S) => OnlyFrom(Shifted(L, k, m), m, o, S)
         /\ OneAnswer(L, n, o) => OneAnswer(Shifted(L, k, m), m, o)
<1>. DEFINE M == Shifted(L, k, m)
<1>1. \A i \in 1 .. m : i + k \in 1 .. n /\ M[i] = L[i + k]
  BY DEF Shifted
<1>. HIDE DEF M
<1>2. ASSUME NEW S, OnlyFrom(L, n, o, S) PROVE OnlyFrom(M, m, o, S)
  BY <1>1, <1>2, Zenon DEF OnlyFrom
<1>3. ASSUME OneAnswer(L, n, o) PROVE OneAnswer(M, m, o)
  <2>1. o # {} => \A i \in 1 .. m : M[i].p = 0
    BY <1>1, <1>3, Zenon DEF OneAnswer
  <2>2. ASSUME NEW i \in 1 .. m, NEW j \in 1 .. m, M[i].p # 0, M[j].p # 0
        PROVE  j - i = M[j].p - M[i].p
    <3>1. (j + k) - (i + k) = L[j + k].p - L[i + k].p
      BY <1>1, <1>3, <2>2, Zenon DEF OneAnswer
    <3>. QED BY <1>1, <3>1
  <2>. QED BY <2>1, <2>2, Zenon DEF OneAnswer
<1>. QED BY <1>2, <1>3 DEF M

\* When the one answer has been read, nothing is left of it.
LEMMA AnswerIsGone ==
  ASSUME NEW L, NEW n \in Nat, NEW m \in Nat, n = m + 7, NEW o, NEW z, NEW P, NEW g, NEW w,
         Labels(L, n, g, w, z, P), OneAnswer(L, n, o), L[1].p = 1
  PROVE  o = {} /\ \A i \in 1 .. m : Shifted(L, 7, m)[i].p = 0
<1>1. \A i \in 1 .. m : i + 7 \in 1 .. n /\ Shifted(L, 7, m)[i] = L[i + 7]
  BY DEF Shifted
<1>2. 1 \in 1 .. n /\ L[1].p # 0
  OBVIOUS
<1>3. o = {}
  BY <1>2, Zenon DEF OneAnswer
<1>4. ASSUME NEW i \in 1 .. m PROVE L[i + 7].p = 0
  <2>1. L[i + 7].p \in 0 .. 7
    BY <1>1 DEF Labels, Label
  <2>2. L[i + 7].p # 0 => (i + 7) - 1 = L[i + 7].p - L[1].p
    BY <1>1, <1>2, Zenon DEF OneAnswer
  <2>. QED BY <2>1, <2>2
<1>. QED BY <1>1, <1>3, <1>4

\* The query is given up: the axes and the queries.
LEMMA GivenUpAxes ==
  ASSUME Steady, AxesSoFar, losses = 0, Servo!NotFound, pc = "receive", losses' = 0,
         present' = present, faults \subseteq faults',
         faults' = {} => /\ query = "yaw" => 1 \notin present
                         /\ query = "pitch" => 2 \notin present
                         /\ query = "any" => present = {}
  PROVE  AxesSoFar'
<1>0. Servo!TypeOK /\ InTurn
  BY DEF Steady
<1>1. /\ yaw' = yaw /\ pitch' = pitch
      /\ \/ query = "yaw" /\ query' = "pitch" /\ pc' = "send"
         \/ query = "pitch" /\ query' = "pitch" /\ yaw.online /\ pc' = "done"
         \/ query = "pitch" /\ query' = "any" /\ ~yaw.online /\ pc' = "send"
         \/ query = "any" /\ query' = "any" /\ pc' = "done"
  BY <1>0, NotFoundIs
<1>2. yaw.online => yaw = [id |-> yaw.id, online |-> TRUE]
  BY <1>0 DEF Servo!TypeOK, Servo!Axis
<1>3. Servo!AnswersAreServos'
  BY <1>1 DEF AxesSoFar, Servo!AnswersAreServos
<1>4. faults' = {} => faults = {}
  OBVIOUS
<1>5. CASE query = "yaw" /\ query' = "pitch" /\ pc' = "send"
  BY <1>0, <1>1, <1>3, <1>4, <1>5 DEF AxesSoFar, InTurn, Servo!FaultlessIsComplete
<1>6. CASE query = "pitch" /\ query' = "pitch" /\ yaw.online /\ pc' = "done"
  <2>1. Servo!FaultlessIsComplete'
    BY <1>0, <1>1, <1>2, <1>4, <1>6
    DEF AxesSoFar, InTurn, Servo!FaultlessIsComplete, Servo!kDefaultPitchServoId, Servo!kDefaultYawServoId
  <2>. QED BY <1>3, <1>6, <2>1 DEF AxesSoFar
<1>7. CASE query = "pitch" /\ query' = "any" /\ ~yaw.online /\ pc' = "send"
  BY <1>0, <1>1, <1>3, <1>4, <1>7 DEF AxesSoFar, InTurn, Servo!FaultlessIsComplete
<1>8. CASE query = "any" /\ query' = "any" /\ pc' = "done"
  <2>1. Servo!FaultlessIsComplete'
    BY <1>0, <1>1, <1>4, <1>8
    DEF AxesSoFar, InTurn, Servo!FaultlessIsComplete, Servo!kDefaultPitchServoId, Servo!kDefaultYawServoId
  <2>. QED BY <1>3, <1>8, <2>1 DEF AxesSoFar
<1>. QED BY <1>1, <1>5, <1>6, <1>7, <1>8

\* The servo id has been found: the axes and the queries.
LEMMA FoundAxes ==
  ASSUME Steady, AxesSoFar, losses = 0, NEW id \in present, Servo!Found(id), pc = "receive", losses' = 0,
         present' = present, faults' = faults,
         query = "yaw" => id = 1,
         query = "pitch" /\ yaw.online => id = 2,
         query = "pitch" => id \in {1, 2},
         faults = {} /\ query = "pitch" => id = 2
  PROVE  AxesSoFar'
<1>0. Servo!TypeOK /\ InTurn
  BY DEF Steady
<1>1. \/ /\ query = "yaw" /\ query' = "pitch" /\ pc' = "send"
         /\ yaw' = [id |-> id, online |-> TRUE] /\ pitch' = pitch
      \/ /\ query = "pitch" /\ query' = "pitch" /\ pc' = "done"
         /\ pitch' = [id |-> id, online |-> TRUE] /\ yaw' = yaw
      \/ /\ query = "any" /\ query' = "any" /\ pc' = "done"
         /\ yaw' = [id |-> id, online |-> TRUE] /\ pitch' = pitch
  BY <1>0, FoundIs
<1>2. yaw.online => yaw = [id |-> yaw.id, online |-> TRUE]
  BY <1>0 DEF Servo!TypeOK, Servo!Axis
<1>3. CASE query = "yaw" /\ query' = "pitch" /\ pc' = "send"
  <2>1. yaw'.id = id /\ yaw'.online /\ pitch' = pitch /\ ~pitch.online /\ id = 1
    BY <1>0, <1>1, <1>3 DEF InTurn
  <2>2. Servo!AnswersAreServos'
    BY <2>1 DEF Servo!AnswersAreServos
  <2>. QED BY <1>3, <2>1, <2>2 DEF AxesSoFar, Servo!FaultlessIsComplete
<1>4. CASE query = "pitch" /\ query' = "pitch" /\ pc' = "done"
  <2>1. pitch'.id = id /\ pitch'.online /\ yaw' = yaw /\ yaw.id = 1
    BY <1>1, <1>4 DEF AxesSoFar
  <2>2. Servo!AnswersAreServos'
    BY <1>4, <2>1 DEF AxesSoFar, Servo!AnswersAreServos, Servo!kDefaultPitchServoId
  <2>3. Servo!FaultlessIsComplete'
    BY <1>2, <1>4, <2>1 DEF AxesSoFar, Servo!FaultlessIsComplete, Servo!kDefaultPitchServoId, Servo!kDefaultYawServoId
  <2>. QED BY <1>4, <2>2, <2>3 DEF AxesSoFar
<1>5. CASE query = "any" /\ query' = "any" /\ pc' = "done"
  <2>1. yaw'.id = id /\ yaw'.online /\ pitch' = pitch /\ ~pitch.online
    BY <1>0, <1>1, <1>5 DEF InTurn
  <2>2. Servo!AnswersAreServos'
    BY <2>1 DEF Servo!AnswersAreServos
  <2>3. Servo!FaultlessIsComplete'
    BY <1>5, <2>1 DEF AxesSoFar, Servo!FaultlessIsComplete, Servo!kDefaultPitchServoId, Servo!kDefaultYawServoId
  <2>. QED BY <1>5, <2>2, <2>3 DEF AxesSoFar
<1>. QED BY <1>1, <1>3, <1>4, <1>5

\* The query is given up: the bus.
LEMMA GivenUpBus ==
  ASSUME Steady, Servo!NotFound, NEW L, NEW n \in Nat, OnTheBus(L, n), owed' = owed,
         NEW k \in Nat, NEW m \in Nat, n = m + k, pc' # "done"
  PROVE  OnTheBus(Shifted(L, k, m), m)'
<1>. DEFINE M == Shifted(L, k, m)
<1>0. Servo!TypeOK /\ InTurn
  BY DEF Steady
<1>1. \A S : OnlyFrom(L, n, owed, S) => OnlyFrom(M, m, owed, S)
  BY ShiftKeeps
<1>. HIDE DEF M
<1>2. /\ yaw' = yaw
      /\ query' # "yaw"
      /\ query' = "pitch" => query = "yaw"
  BY <1>0, NotFoundIs
<1>3. query' = "pitch" => OnlyFrom(M, m, owed, {1}) /\ ~yaw.online
  BY <1>0, <1>1, <1>2 DEF OnTheBus, InTurn
<1>4. query' = "pitch" => OnlyFrom(M, m, owed', {1, 2})
  BY <1>3 DEF OnlyFrom
<1>5. OnTheBus(M, m)'
  BY <1>2, <1>3, <1>4 DEF OnTheBus
<1>. QED BY <1>5 DEF M

LEMMA UndisturbedSend == Steady /\ Undisturbed /\ Servo!Send => Undisturbed'
<1>. SUFFICES ASSUME Steady, Undisturbed, Servo!Send, losses' = 0 PROVE Labelled' /\ AxesSoFar'
  BY DEF Undisturbed
<1>0. /\ Servo!TypeOK /\ InTurn /\ Labelled /\ AxesSoFar
      /\ pc = "send" /\ pc' = "receive"
      /\ owed' = owed \cup {s \in present : Servo!QueryId \in {s, Servo!kBroadcast}}
      /\ UNCHANGED <<query, got, yaw, pitch, wire, present, noise, faults, losses>>
  BY DEF Steady, Undisturbed, Servo!Send
<1>1. PICK L, n : /\ Labels(L, n, got, wire, noise, present)
                  /\ OnTheBus(L, n)
                  /\ faults = {} => OnCleanBus(L, n)
  BY <1>0 DEF Labelled
<1>2. query = "yaw" => Servo!QueryId = 1
  BY <1>0 DEF Servo!QueryId, InTurn
<1>3. query = "pitch" => Servo!QueryId = 2
  BY <1>0 DEF Servo!QueryId, InTurn
<1>4. query = "yaw" => OnlyFrom(L, n, owed', {1}) /\ OneAnswer(L, n, owed')
  <2>. SUFFICES ASSUME query = "yaw" PROVE OnlyFrom(L, n, owed', {1}) /\ OneAnswer(L, n, owed')
    OBVIOUS
  <2>1. owed = {} /\ \A i \in 1 .. n : L[i].p = 0
    BY <1>0, <1>1 DEF OnTheBus, OnlyFrom
  <2>2. owed' \subseteq {1}
    BY <1>0, <1>2, <2>1 DEF Servo!kBroadcast
  <2>. QED BY <2>1, <2>2, Zenon DEF OnlyFrom, OneAnswer
<1>5. ASSUME NEW S, query = "pitch", OnlyFrom(L, n, owed, S), 2 \in S PROVE OnlyFrom(L, n, owed', S)
  BY <1>0, <1>3, <1>5 DEF OnlyFrom, Servo!kBroadcast
<1>6. OnTheBus(L, n)'
  <2>1. query = "pitch" => OnlyFrom(L, n, owed', IF yaw.online THEN {2} ELSE {1, 2})
    BY <1>1, <1>5 DEF OnTheBus
  <2>. QED BY <1>0, <1>4, <2>1 DEF OnTheBus
<1>7. ASSUME faults = {} PROVE OnCleanBus(L, n)'
  <2>1. ~(n > 0) /\ owed = {} /\ (query = "pitch" => OnlyFrom(L, n, owed, {2}))
    BY <1>0, <1>1, <1>7 DEF OnCleanBus
  <2>2. owed' = {s \in present' : Servo!QueryId' \in {s, Servo!kBroadcast}}
    BY <1>0, <2>1 DEF Servo!QueryId
  <2>3. query = "pitch" => OnlyFrom(L, n, owed', {2})
    BY <1>5, <2>1
  <2>. QED BY <1>0, <2>1, <2>2, <2>3 DEF OnCleanBus
<1>8. Labelled'
  BY <1>0, <1>1, <1>6, <1>7 DEF Labelled
<1>9. AxesSoFar'
  BY <1>0 DEF AxesSoFar, Servo!AnswersAreServos, Servo!FaultlessIsComplete
<1>. QED BY <1>8, <1>9

LEMMA UndisturbedTimedOut == Steady /\ Undisturbed /\ Servo!TimedOut => Undisturbed'
<1>. SUFFICES ASSUME Steady, Undisturbed, Servo!TimedOut, losses' = 0 PROVE Labelled' /\ AxesSoFar'
  BY DEF Undisturbed
<1>0. /\ Servo!TypeOK /\ Collecting /\ InTurn /\ Labelled /\ AxesSoFar
      /\ pc = "receive" /\ Servo!NotFound /\ got' = <<>> /\ losses = 0
      /\ UNCHANGED <<left, wire, owed, present, noise, losses>>
      /\ faults' = IF owed # {} \/ wire # <<>> THEN faults \cup {"late"} ELSE faults
  BY DEF Steady, Undisturbed, Servo!TimedOut
<1>1. PICK L, n : /\ Labels(L, n, got, wire, noise, present)
                  /\ OnTheBus(L, n)
                  /\ faults = {} => OnCleanBus(L, n)
  BY <1>0 DEF Labelled
<1>2. got \in Seq(Servo!UInt8) /\ wire \in Seq(Servo!UInt8) /\ Servo!Complete(got) = "more"
  BY <1>0 DEF Servo!TypeOK, Collecting
<1>. PICK k, m, M : k = Len(got) /\ m = Len(wire) /\ M = Shifted(L, k, m)
  OBVIOUS
<1>3. k \in Nat /\ m \in Nat /\ n \in Nat /\ n = m + k /\ Labels(M, m, <<>>, wire, noise, present)
  BY <1>1, <1>2, LabelsClear
<1>4. pc' # "done" => OnTheBus(M, m)'
  BY <1>0, <1>1, <1>3, GivenUpBus
<1>5. ASSUME faults' = {}
      PROVE  /\ owed = {} /\ m = 0 /\ faults = {}
             /\ {s \in present : Servo!QueryId \in {s, Servo!kBroadcast}} = {}
  <2>1. owed = {} /\ wire = <<>> /\ faults = {}
    BY <1>0, <1>5
  <2>2. m = 0
    BY <2>1, NothingYet
  <2>3. OnCleanBus(L, n)
    BY <1>1, <2>1
  <2>4. n = 0
    <3>1. ~(n > 0 /\ L[1].p = 1)
      BY <1>1, <1>2, <1>3, <2>1, AlignedRead
    <3>. QED BY <1>3, <2>3, <3>1 DEF OnCleanBus
  <2>. QED BY <1>0, <2>1, <2>2, <2>3, <2>4 DEF OnCleanBus
<1>6. AxesSoFar'
  <2>1. faults \subseteq faults'
    BY <1>0
  <2>2. faults' = {} => /\ query = "yaw" => 1 \notin present
                        /\ query = "pitch" => 2 \notin present
                        /\ query = "any" => present = {}
    <3>1. /\ query = "yaw" => Servo!QueryId = 1
          /\ query = "pitch" => Servo!QueryId = 2
          /\ query = "any" => Servo!QueryId = Servo!kBroadcast
      BY <1>0 DEF Servo!QueryId, InTurn
    <3>. QED BY <1>5, <3>1
  <2>. QED BY <1>0, <2>1, <2>2, GivenUpAxes
<1>7. ASSUME pc' # "done", faults' = {} PROVE OnCleanBus(M, m)'
  <2>1. pc' = "send"
    BY <1>0, <1>7, NotFoundIs
  <2>2. OnlyFrom(M, m, owed', {2})
    BY <1>0, <1>3, <1>5, <1>7 DEF OnlyFrom
  <2>. QED BY <1>0, <1>5, <1>7, <2>1, <2>2 DEF OnCleanBus
<1>8. Labelled'
  BY <1>0, <1>3, <1>4, <1>7 DEF Labelled
<1>. QED BY <1>6, <1>8

LEMMA UndisturbedRead == Steady /\ Undisturbed /\ Servo!ReadByte => Undisturbed'
<1>. SUFFICES ASSUME Steady, Undisturbed, Servo!ReadByte, losses' = 0 PROVE Labelled' /\ AxesSoFar'
  BY DEF Undisturbed
<1>. PICK h : h = Servo!NextGot(got, Head(wire))
  OBVIOUS
<1>0. Servo!TypeOK /\ Collecting /\ InTurn /\ got \in Seq(Servo!UInt8) /\ wire \in Seq(Servo!UInt8) /\ Servo!Complete(got) = "more"
  BY DEF Steady, Servo!TypeOK, Collecting
<1>1. /\ pc = "receive" /\ wire # <<>> /\ wire' = Tail(wire)
      /\ UNCHANGED <<left, owed, present, noise, faults, losses>>
      /\ \/ Servo!Complete(h) = "more" /\ got' = h /\ UNCHANGED <<pc, query, yaw, pitch>>
         \/ /\ Servo!Complete(h) # "more" /\ got' = <<>> /\ Servo!NotFound
            /\ ~(Servo!Complete(h) = "packet" /\ Servo!IsAnswer(h))
         \/ Accepted(h) /\ got' = <<>> /\ Servo!Found(Servo!AnsweredId(h)) /\ h = Append(got, Head(wire))
  BY <1>0, ReadByteIs
<1>2. Labelled /\ AxesSoFar /\ losses = 0
  BY <1>1 DEF Undisturbed
<1>3. PICK L, n : /\ Labels(L, n, got, wire, noise, present)
                  /\ OnTheBus(L, n)
                  /\ faults = {} => OnCleanBus(L, n)
  BY <1>1, <1>2 DEF Labelled
<1>a. PICK b, v, a : b = Head(wire) /\ v = Tail(wire) /\ a = Append(got, b)
  OBVIOUS
<1>b. PICK k, m, M : k = Len(got) + 1 /\ m = Len(v) /\ M = Shifted(L, k, m)
  OBVIOUS
<1>4. Labels(L, n, a, v, noise, present) /\ n \in Nat /\ k <= n
  BY <1>a, <1>b, <1>0, <1>1, <1>3, LabelsRead
<1>5. a \in Seq(Servo!UInt8) /\ v \in Seq(Servo!UInt8) /\ Len(a) = k /\ k \in Nat /\ m \in Nat
  BY <1>a, <1>b, <1>0, <1>1
<1>6. n = m + k /\ n > 0 /\ Labels(M, m, <<>>, v, noise, present)
  <2>1. Labels(Shifted(L, Len(a), Len(v)), Len(v), <<>>, v, noise, present) /\ n = Len(v) + Len(a)
    BY <1>4, <1>5, LabelsClear
  <2>. QED BY <1>b, <1>5, <2>1
<1>7. faults = {} => L[1].p = 1
  BY <1>3, <1>6 DEF OnCleanBus
<1>8. faults = {} => /\ h = a
                     /\ Servo!Complete(a) = "more" \/ (Servo!Complete(a) = "packet" /\ Servo!IsAnswer(a))
  <2>. SUFFICES ASSUME faults = {}
                PROVE  /\ h = a
                       /\ Servo!Complete(a) = "more" \/ (Servo!Complete(a) = "packet" /\ Servo!IsAnswer(a))
    OBVIOUS
  <2>. QED BY <1>a, <1>0, <1>3, <1>4, <1>6, <1>7, AlignedRead
<1>9. CASE Servo!Complete(h) = "more" /\ got' = h /\ UNCHANGED <<pc, query, yaw, pitch>>
  <2>1. AxesSoFar'
    BY <1>1, <1>2, <1>9 DEF AxesSoFar, Servo!AnswersAreServos, Servo!FaultlessIsComplete
  <2>2. CASE h = a
    <3>1. OnTheBus(L, n)'
      BY <1>1, <1>3, <1>9 DEF OnTheBus
    <3>2. faults' = {} => OnCleanBus(L, n)'
      BY <1>1, <1>3, <1>9 DEF OnCleanBus, Servo!QueryId
    <3>. QED BY <1>1, <1>4, <1>9, <2>1, <2>2, <3>1, <3>2, <1>a DEF Labelled
  <2>3. CASE h = <<>> /\ faults # {}
    <3>1. /\ \A S : OnlyFrom(L, n, owed, S) => OnlyFrom(M, m, owed, S)
          /\ OneAnswer(L, n, owed) => OneAnswer(M, m, owed)
      BY <1>4, <1>5, <1>6, <1>b, ShiftKeeps, Zenon
    <3>2. OnTheBus(M, m)'
      BY <1>1, <1>3, <1>9, <3>1 DEF OnTheBus
    <3>. QED BY <1>1, <1>6, <1>9, <2>1, <2>3, <3>2, <1>a DEF Labelled
  <2>4. h = <<>> \/ h = a
    BY <1>0, <1>1, <1>a, NextGotIs
  <2>. QED BY <1>8, <2>2, <2>3, <2>4
<1>10. CASE /\ Servo!Complete(h) # "more" /\ got' = <<>> /\ Servo!NotFound
            /\ ~(Servo!Complete(h) = "packet" /\ Servo!IsAnswer(h))
  <2>1. faults # {}
    BY <1>8, <1>10
  <2>2. AxesSoFar'
    BY <1>1, <1>2, <1>10, <2>1, GivenUpAxes
  <2>3. pc' # "done" => OnTheBus(M, m)'
    BY <1>1, <1>3, <1>4, <1>5, <1>6, <1>10, <1>b, GivenUpBus
  <2>. QED BY <1>1, <1>6, <1>10, <2>1, <2>2, <2>3, <1>a DEF Labelled
<1>11. CASE Accepted(h) /\ got' = <<>> /\ Servo!Found(Servo!AnsweredId(h)) /\ h = a
  <2>a. PICK s, K : s = L[1].s /\ K = Shifted(L, 7, m)
    OBVIOUS
  <2>1. /\ n = m + 7 /\ L[1].p = 1 /\ s \in present /\ Servo!AnsweredId(h) = s
        /\ Labels(K, m, <<>>, v, noise, present)
    BY <1>0, <1>1, <1>3, <1>11, <1>a, <1>b, <2>a, AcceptedRead
  <2>2. \A S : OnlyFrom(L, n, owed, S) => s \in S /\ OnlyFrom(K, m, owed, S)
    <3>1. 1 \in 1 .. n /\ L[1].p # 0
      BY <1>4, <1>6, <2>1
    <3>2. 7 \in Nat
      OBVIOUS
    <3>3. \A S : OnlyFrom(L, n, owed, S) => OnlyFrom(K, m, owed, S)
      BY <1>4, <1>5, <2>1, <3>2, <2>a, ShiftKeeps, Zenon
    <3>. QED BY <3>1, <3>3, <2>a, Zenon DEF OnlyFrom
  <2>3. AxesSoFar'
    <3>1. query = "yaw" => s \in {1}
      BY <1>3, <2>2 DEF OnTheBus
    <3>2. query = "pitch" => s \in IF yaw.online THEN {2} ELSE {1, 2}
      BY <1>3, <2>2 DEF OnTheBus
    <3>3. faults = {} /\ query = "pitch" => s \in {2}
      BY <1>3, <2>2 DEF OnCleanBus
    <3>. QED BY <1>1, <1>2, <1>11, <2>1, <3>1, <3>2, <3>3, FoundAxes
  <2>4. CASE pc' = "done"
    BY <2>3, <2>4 DEF Labelled
  <2>5. CASE pc' # "done"
    <3>1. query = "yaw" /\ query' = "pitch" /\ pc' = "send" /\ yaw'.online = TRUE
      BY <1>0, <1>11, <2>5, FoundIs
    <3>2. owed = {} /\ \A i \in 1 .. m : K[i].p = 0
      <4>1. OneAnswer(L, n, owed)
        BY <1>3, <3>1 DEF OnTheBus
      <4>. QED BY <1>3, <1>4, <1>5, <2>1, <4>1, <2>a, AnswerIsGone
    <3>3. OnlyFrom(K, m, owed', {2})
      BY <1>1, <3>2 DEF OnlyFrom
    <3>4. OnTheBus(K, m)'
      BY <3>1, <3>3 DEF OnTheBus
    <3>5. ASSUME faults = {} PROVE OnCleanBus(K, m)'
      <4>1. m = 0
        BY <1>3, <1>5, <1>6, <2>1, <3>1, <3>5 DEF OnCleanBus
      <4>. QED BY <1>1, <3>1, <3>2, <3>3, <4>1 DEF OnCleanBus
    <3>. QED BY <1>1, <1>11, <2>1, <2>3, <3>4, <3>5, <1>a DEF Labelled
  <2>. QED BY <2>4, <2>5
<1>. QED BY <1>1, <1>9, <1>10, <1>11, <1>a

LEMMA WholeAnswer ==
  ASSUME NEW s \in Servo!Ids
  PROVE  \E l \in Seq(Label) : Len(l) = 7 /\ \A i \in 1 .. 7 : l[i].s = s /\ l[i].p = i
<1>. DEFINE l == [i \in 1 .. 7 |-> [s |-> s, p |-> i]]
<1>1. l \in [1 .. 7 -> Label]
  BY DEF Label
<1>2. \A i \in 1 .. 7 : l[i].s = s /\ l[i].p = i
  OBVIOUS
<1>. HIDE DEF l
<1>3. l \in Seq(Label)
  <2>1. 7 \in Nat
    OBVIOUS
  <2>. QED BY <1>1, <2>1, SeqDef, Zenon
<1>4. Len(l) = 7
  <2>1. Len(l) \in Nat /\ DOMAIN l = 1 .. Len(l)
    BY <1>3, LenProperties, Zenon
  <2>2. DOMAIN l = 1 .. 7
    BY <1>1, Zenon
  <2>3. PICK m : m = Len(l)
    OBVIOUS
  <2>4. m \in Nat /\ 1 .. m = 1 .. 7
    BY <2>1, <2>2, <2>3
  <2>5. 7 \in 1 .. m /\ (m \in 1 .. m => m \in 1 .. 7)
    BY <2>4
  <2>. QED BY <2>3, <2>4, <2>5
<1>. QED BY <1>2, <1>3, <1>4

LEMMA OneStray ==
  \E l \in Seq(Label) : Len(l) = 1 /\ l[1].p = 0
<1>. DEFINE l == <<[s |-> 0, p |-> 0]>>
<1>1. l \in Seq(Label) /\ Len(l) = 1 /\ l[1].p = 0
  BY DEF Label, Servo!Ids
<1>. QED BY <1>1

LEMMA UndisturbedAnswer ==
  ASSUME Steady, Undisturbed, pc # "done", NEW s \in Servos, Servo!Answer(s)
  PROVE  Undisturbed'
<1>. SUFFICES ASSUME losses' = 0 PROVE Labelled' /\ AxesSoFar'
  BY DEF Undisturbed
<1>a. PICK x : x = Servo!Packet(s, <<s>>)
  OBVIOUS
<1>0. /\ Servo!TypeOK /\ InTurn /\ Labelled /\ AxesSoFar /\ s \in owed /\ s \in present
      /\ wire' = wire \o x /\ owed' = owed \ {s}
      /\ UNCHANGED <<pc, query, yaw, pitch, got, left, present, noise, faults, losses>>
  BY <1>a DEF Steady, Servo!TypeOK, Undisturbed, Servo!Answer
<1>1. PICK L, n : /\ Labels(L, n, got, wire, noise, present)
                  /\ OnTheBus(L, n)
                  /\ faults = {} => OnCleanBus(L, n)
  BY <1>0 DEF Labelled
<1>2. s \in Servo!Ids /\ x = Reply(s) /\ x \in Seq(Servo!UInt8) /\ Len(x) = 7
  <2>1. s \in Servo!Ids
    BY ServoAssumption DEF Servo!BusAssumption
  <2>. QED BY <1>a, <2>1, PacketIsReply
<1>b. PICK l \in Seq(Label) : Len(l) = 7 /\ \A i \in 1 .. 7 : l[i].s = s /\ l[i].p = i
  BY <1>2, WholeAnswer
<1>c. PICK M, m : M = Extended(L, n, l) /\ m = n + 7
  OBVIOUS
<1>3. got \in Seq(Servo!UInt8) /\ wire \in Seq(Servo!UInt8)
  BY <1>0 DEF Servo!TypeOK
<1>4. Continues(wire', wire, x)
  <2>1. wire \in Seq(Int) /\ x \in Seq(Int)
    BY <1>2, <1>3, BytesAreInts
  <2>. QED BY <1>0, <2>1, Concat
<1>5. Whole(l, x, noise, present)
  <2>1. ASSUME NEW i \in 1 .. 7 PROVE Spelled(x[i], l[i], noise, present)
    BY <1>0, <1>2, <1>b DEF Spelled
  <2>2. ASSUME NEW i \in 1 .. 7, i < 7 PROVE Follows(l[i], l[i + 1])
    BY <1>b, <2>2 DEF Follows
  <2>. QED BY <1>2, <1>b, <2>1, <2>2 DEF Whole
<1>6. /\ Labels(M, m, got, wire', noise, present) /\ n \in Nat
      /\ \A i \in 1 .. n : M[i] = L[i]
      /\ \A i \in 1 .. 7 : M[n + i] = l[i]
  <2>a. PICK g, w, r, z, P : /\ g = got /\ w = wire /\ r = wire' /\ z = noise /\ P = present
    OBVIOUS
  <2>1. /\ Labels(Extended(L, n, l), n + Len(l), g, r, z, P)
        /\ n \in Nat
        /\ \A i \in 1 .. n : Extended(L, n, l)[i] = L[i]
        /\ \A i \in 1 .. Len(l) : Extended(L, n, l)[n + i] = l[i]
    <3>1. g \in Seq(Servo!UInt8) /\ w \in Seq(Servo!UInt8) /\ Labels(L, n, g, w, z, P)
          /\ Continues(r, w, x) /\ Whole(l, x, z, P)
      BY <1>1, <1>2, <1>3, <1>4, <1>5, <2>a, Zenon
    <3>2. Labels(Extended(L, n, l), n + Len(l), g, r, z, P)
      BY <3>1, LabelsExtend
    <3>. QED BY <3>1, <3>2, LabelsExtend
  <2>. QED BY <1>b, <1>c, <2>a, <2>1
<1>7. \A i \in 1 .. m : i \in 1 .. n \/ (i > n /\ M[i].s = s /\ M[i].p = i - n)
  <2>. TAKE i \in 1 .. m
  <2>1. CASE i > n
    <3>. PICK j : j = i - n
      OBVIOUS
    <3>1. j \in 1 .. 7 /\ i = n + j
      BY <1>6, <1>c, <2>1
    <3>. QED BY <1>6, <1>b, <2>1, <3>1, SMTT(30)
  <2>. QED BY <1>6, <2>1
<1>8. ASSUME NEW S, OnlyFrom(L, n, owed, S) PROVE OnlyFrom(M, m, owed', S)
  <2>1. s \in S /\ owed' \subseteq S
    BY <1>0, <1>8 DEF OnlyFrom
  <2>. QED BY <1>6, <1>7, <1>8, <2>1 DEF OnlyFrom
<1>9. query = "yaw" => OneAnswer(M, m, owed')
  <2>. SUFFICES ASSUME query = "yaw" PROVE OneAnswer(M, m, owed')
    OBVIOUS
  <2>1. owed' = {} /\ \A i \in 1 .. n : M[i].p = 0
    <3>1. OnlyFrom(L, n, owed, {1}) /\ OneAnswer(L, n, owed)
      BY <1>1 DEF OnTheBus
    <3>2. owed \subseteq {1} /\ \A i \in 1 .. n : L[i].p = 0
      BY <1>0, <3>1 DEF OnlyFrom, OneAnswer
    <3>. QED BY <1>0, <1>6, <3>2
  <2>2. ASSUME NEW i \in 1 .. m, NEW j \in 1 .. m, M[i].p # 0, M[j].p # 0
        PROVE  j - i = M[j].p - M[i].p
    <3>1. M[i].p = i - n /\ M[j].p = j - n
      BY <1>7, <2>1, <2>2
    <3>. QED BY <1>6, <1>c, <3>1
  <2>. QED BY <2>1, <2>2 DEF OneAnswer
<1>10. OnTheBus(M, m)'
  <2>1. ~(query = "yaw" /\ pc = "send")
    BY <1>0, <1>1 DEF OnTheBus, OnlyFrom
  <2>. QED BY <1>0, <1>1, <1>8, <1>9, <2>1 DEF OnTheBus
<1>11. ASSUME faults = {} PROVE OnCleanBus(M, m)'
  <2>1. OnCleanBus(L, n) /\ pc = "receive" /\ m > 0
    <3>1. m > 0
      BY <1>6, <1>c
    <3>2. OnCleanBus(L, n) /\ owed # {} /\ pc \in {"send", "receive", "done"}
      BY <1>0, <1>1, <1>11 DEF Servo!TypeOK
    <3>. QED BY <3>1, <3>2 DEF OnCleanBus
  <2>2. n > 0 => query = "any"
    BY <1>0, <2>1 DEF OnCleanBus
  <2>3. M[1].p = 1
    <3>1. CASE n > 0
      <4>1. 1 \in 1 .. n
        BY <1>6, <3>1
      <4>. QED BY <1>6, <2>1, <3>1, <4>1 DEF OnCleanBus
    <3>2. CASE n = 0
      <4>1. 1 \in 1 .. m /\ 1 - n = 1 /\ 1 \notin 1 .. n
        BY <1>c, <3>2
      <4>. QED BY <1>7, <4>1
    <3>. QED BY <1>6, <3>1, <3>2
  <2>4. query # "any" => m = 7 /\ owed' = {}
    <3>. SUFFICES ASSUME query # "any" PROVE m = 7 /\ owed' = {}
      OBVIOUS
    <3>1. n = 0 /\ m = 7
      BY <1>6, <1>c, <2>2
    <3>2. owed = {r \in present : Servo!QueryId \in {r, Servo!kBroadcast}}
      BY <2>1, <3>1 DEF OnCleanBus
    <3>3. Servo!QueryId # Servo!kBroadcast
      BY <1>0 DEF Servo!QueryId, InTurn, Servo!TypeOK, Servo!kBroadcast
    <3>. QED BY <1>0, <3>1, <3>2, <3>3
  <2>5. query = "pitch" => OnlyFrom(M, m, owed', {2})
    BY <1>8, <2>1 DEF OnCleanBus
  <2>. QED BY <1>0, <2>1, <2>3, <2>4, <2>5 DEF OnCleanBus
<1>12. Labelled'
  BY <1>0, <1>6, <1>10, <1>11 DEF Labelled
<1>13. AxesSoFar'
  BY <1>0 DEF AxesSoFar, Servo!AnswersAreServos, Servo!FaultlessIsComplete
<1>. QED BY <1>12, <1>13

LEMMA UndisturbedStray == Steady /\ Undisturbed /\ pc # "done" /\ Servo!StrayByte => Undisturbed'
<1>. SUFFICES ASSUME Steady, Undisturbed, pc # "done", Servo!StrayByte, losses' = 0
              PROVE  Labelled' /\ AxesSoFar'
  BY DEF Undisturbed
<1>0. /\ Servo!TypeOK /\ Labelled /\ AxesSoFar /\ wire = <<>> /\ wire' = <<noise>> /\ faults' # {}
      /\ UNCHANGED <<pc, query, yaw, pitch, got, left, owed, present, noise, losses>>
  BY DEF Steady, Undisturbed, Servo!StrayByte
<1>1. PICK L, n : /\ Labels(L, n, got, wire, noise, present)
                  /\ OnTheBus(L, n)
  BY <1>0 DEF Labelled
<1>2. got \in Seq(Servo!UInt8) /\ wire \in Seq(Servo!UInt8) /\ noise \in Servo!UInt8
  BY <1>0, ServoAssumption DEF Servo!TypeOK, Servo!BusAssumption
<1>a. PICK x : x = <<noise>>
  OBVIOUS
<1>3. x \in Seq(Servo!UInt8) /\ Len(x) = 1 /\ x[1] = noise
  BY <1>2, <1>a
<1>b. PICK l \in Seq(Label) : Len(l) = 1 /\ l[1].p = 0
  BY OneStray
<1>c. PICK M, m : M = Extended(L, n, l) /\ m = n + 1
  OBVIOUS
<1>4. Continues(wire', wire, x)
  <2>1. x \in Seq(Int)
    BY <1>3, BytesAreInts
  <2>2. wire' = x /\ Len(wire) = 0
    BY <1>0, <1>a, NothingYet
  <2>. QED BY <1>3, <2>1, <2>2 DEF Continues
<1>5. Whole(l, x, noise, present)
  BY <1>3, <1>b DEF Spelled, Whole
<1>6. /\ Labels(M, m, got, wire', noise, present) /\ n \in Nat
      /\ \A i \in 1 .. n : M[i] = L[i]
      /\ M[n + 1].p = 0
  <2>a. PICK g, w, r, z, P : /\ g = got /\ w = wire /\ r = wire' /\ z = noise /\ P = present
    OBVIOUS
  <2>1. /\ Labels(Extended(L, n, l), n + Len(l), g, r, z, P)
        /\ n \in Nat
        /\ \A i \in 1 .. n : Extended(L, n, l)[i] = L[i]
        /\ \A i \in 1 .. Len(l) : Extended(L, n, l)[n + i] = l[i]
    <3>1. g \in Seq(Servo!UInt8) /\ w \in Seq(Servo!UInt8) /\ Labels(L, n, g, w, z, P)
          /\ Continues(r, w, x) /\ Whole(l, x, z, P)
      BY <1>1, <1>2, <1>3, <1>4, <1>5, <2>a, Zenon
    <3>2. Labels(Extended(L, n, l), n + Len(l), g, r, z, P)
      BY <3>1, LabelsExtend
    <3>. QED BY <3>1, <3>2, LabelsExtend
  <2>. QED BY <1>b, <1>c, <2>a, <2>1
<1>7. \A i \in 1 .. m : i \in 1 .. n \/ M[i].p = 0
  <2>. TAKE i \in 1 .. m
  <2>1. i \in 1 .. n \/ i = n + 1
    BY <1>6, <1>c
  <2>. QED BY <1>6, <2>1
<1>8. ASSUME NEW S, OnlyFrom(L, n, owed, S) PROVE OnlyFrom(M, m, owed', S)
  BY <1>0, <1>6, <1>7, <1>8, Zenon DEF OnlyFrom
<1>9. OneAnswer(L, n, owed) => OneAnswer(M, m, owed')
  BY <1>0, <1>6, <1>7, Zenon DEF OneAnswer
<1>10. OnTheBus(M, m)'
  BY <1>0, <1>1, <1>8, <1>9 DEF OnTheBus
<1>11. Labelled'
  BY <1>0, <1>6, <1>10 DEF Labelled
<1>12. AxesSoFar'
  BY <1>0 DEF AxesSoFar, Servo!AnswersAreServos, Servo!FaultlessIsComplete
<1>. QED BY <1>11, <1>12

LEMMA UndisturbedNext == Steady /\ Undisturbed /\ [Servo!Next]_servoVars => Undisturbed'
<1>. SUFFICES ASSUME Steady, Undisturbed, [Servo!Next]_servoVars PROVE Undisturbed'
  OBVIOUS
<1>1. ASSUME UNCHANGED <<pc, query, yaw, pitch, got, wire, owed, present, noise, faults, losses>>
      PROVE  Undisturbed'
  <2>1. Labelled => Labelled'
    BY <1>1, ZenonT(30) DEF Labelled, OnTheBus, OnCleanBus, Servo!QueryId
  <2>2. AxesSoFar => AxesSoFar'
    BY <1>1 DEF AxesSoFar, Servo!AnswersAreServos, Servo!FaultlessIsComplete
  <2>. QED BY <1>1, <2>1, <2>2 DEF Undisturbed
<1>2. CASE Servo!LoseByte
  BY <1>2 DEF Servo!LoseByte, Steady, Servo!TypeOK, Undisturbed
<1>3. CASE UNCHANGED servoVars
  BY <1>1, <1>3 DEF servoVars
<1>4. CASE Servo!Tick
  BY <1>1, <1>4 DEF Servo!Tick
<1>5. CASE Servo!Bus
  BY <1>2, <1>5, UndisturbedAnswer, UndisturbedStray DEF Servo!Bus
<1>. QED BY <1>3, <1>4, <1>5, UndisturbedSend, UndisturbedRead, UndisturbedTimedOut DEF Servo!Next

LEMMA UndisturbedInit == Servo!Init => Undisturbed
<1>. SUFFICES ASSUME Servo!Init PROVE Labelled /\ AxesSoFar
  BY DEF Undisturbed
<1>. DEFINE L == [i \in 1 .. 0 |-> [s |-> 0, p |-> 0]]
<1>1. L \in [1 .. 0 -> Label]
  BY DEF Label
<1>. HIDE DEF L
<1>2. Labels(L, 0, got, wire, noise, present)
  BY <1>1, NothingYet DEF Servo!Init, Labels
<1>3. OnTheBus(L, 0) /\ OnCleanBus(L, 0)
  BY DEF Servo!Init, OnTheBus, OnCleanBus, OnlyFrom, OneAnswer
<1>4. AxesSoFar
  BY DEF Servo!Init, AxesSoFar, Servo!AnswersAreServos, Servo!FaultlessIsComplete
<1>. QED BY <1>2, <1>3, <1>4 DEF Labelled

LEMMA ServoInvariance == ActuatorsSpec => [](Steady /\ Undisturbed)
<1>1. Servo!Init => Steady /\ Undisturbed
  BY SteadyInit, UndisturbedInit
<1>2. Steady /\ Undisturbed /\ [Servo!Next]_servoVars => (Steady /\ Undisturbed)'
  BY SteadyNext, UndisturbedNext
<1>. QED BY <1>1, <1>2, PartsAreKept, PTL

(* The receive buffer of ReadId never overflows and the axes only ever get *)
(* ids that a byte can hold, for all servos on the bus, all stray bytes    *)
(* and any number of lost ones.                                            *)
THEOREM ServoTypeCorrect == ActuatorsSpec => []Servo!TypeOK
<1>1. Steady /\ Undisturbed => Servo!TypeOK
  BY DEF Steady
<1>. QED BY <1>1, ServoInvariance, PTL

(* As long as no byte gets lost, an axis is online only with the id of a   *)
(* servo that is there, never both with the same one, and on a bus without *)
(* a fault Initialize finds the servos at the default ids and otherwise    *)
(* any one that is there: for all ids that servos may have and all stray   *)
(* bytes, whatever answers come late.  With lost bytes it is not true of   *)
(* all ids.                                                                *)
THEOREM ServosAreFound == ActuatorsSpec => [](losses = 0 => AxesFindTheirServos)
<1>1. Steady /\ Undisturbed => (losses = 0 => AxesFindTheirServos)
  BY DEF Undisturbed, AxesSoFar, AxesFindTheirServos, Servo!AxesFindTheirServos
<1>. QED BY <1>1, ServoInvariance, PTL

-----------------------------------------------------------------------------
(* Four currents get each to its motor and every report to its module, for *)
(* all the values that the frames can carry, of either sign; the run takes *)
(* the extreme ones.  A report that lacks a byte is rejected.              *)
THEOREM FramesCarryEveryValue ==
  /\ \A c \in [1 .. 4 -> Int16] :
       /\ \A i \in 1 .. 4 : SlotCurrent(EncodeCurrentFrame(c), i - 1) = c[i]
       /\ \A id \in {513, 769, 773} : FrameOf(id, c) = EncodeCurrentFrame(c)
  /\ \A p, v, c \in Int16, t, u \in Byte :
       LET f == EightByteReport(p, v, c, t, u)
       IN  /\ \A n \in {7, 8} :
                DjiFeedback(Cut(f, n)) = [encoder |-> Unsigned(p), omega |-> v, current |-> c,
                                          temperature |-> t]
           /\ DmFeedback(f) = [encoder |-> Unsigned(p), omega |-> v, current |-> c,
                               rotor |-> t, mos |-> u]
           /\ \A n \in 0 .. 6 : DjiFeedback(Cut(f, n)) = Rejected
           /\ \A n \in 0 .. 7 : DmFeedback(Cut(f, n)) = Rejected
  /\ \A p \in Int16, v, t \in UInt12, id \in Byte :
       LET f == CubemarsReport(id, p, v, t)
       IN  /\ CubemarsFeedback(f) =
                [id |-> id, position |-> Unsigned(p), velocity |-> v, torque |-> t]
           /\ \A n \in 0 .. 5 : CubemarsFeedback(Cut(f, n)) = Rejected
BY EncodedCurrentArrives, SlotsMakeTheFrame, ReportArrives, CubemarsReportArrives

(* The property that the run checks follows.                               *)
THEOREM CurrentsAlwaysArrive == ActuatorsSpec => []CurrentsAndReportsArrive
<1>1. Currents \subseteq Int16
  BY DEF Currents, Int16
<1>2. ASSUME NEW c \in [1 .. 4 -> Currents]
      PROVE  /\ \A i \in 1 .. 4 : SlotCurrent(EncodeCurrentFrame(c), i - 1) = c[i]
             /\ \A id \in {513, 769, 773} : FrameOf(id, c) = EncodeCurrentFrame(c)
  <2>1. c \in [1 .. 4 -> Int16]
    BY <1>1
  <2>. QED BY <2>1, FramesCarryEveryValue
<1>3. ASSUME NEW p \in Currents, NEW v \in Currents, NEW c \in Currents
      PROVE  LET f == EightByteReport(p, v, c, 40, 50)
                 e == Unsigned(p)
             IN  /\ \A n \in {7, 8} :
                      DjiFeedback(Cut(f, n)) = [encoder |-> e, omega |-> v, current |-> c,
                                                temperature |-> 40]
                 /\ DmFeedback(f) = [encoder |-> e, omega |-> v, current |-> c,
                                     rotor |-> 40, mos |-> 50]
                 /\ \A n \in 0 .. 6 : DjiFeedback(Cut(f, n)) = Rejected
                 /\ \A n \in 0 .. 7 : DmFeedback(Cut(f, n)) = Rejected
  <2>1. p \in Int16 /\ v \in Int16 /\ c \in Int16 /\ 40 \in Byte /\ 50 \in Byte
    BY <1>1 DEF Byte
  <2>. QED BY <2>1, FramesCarryEveryValue
<1>4. ASSUME NEW p \in Currents, NEW v \in {0, 15, 16, 2048, 4095},
             NEW t \in {0, 15, 16, 2048, 4095}
      PROVE  LET f == CubemarsReport(7, p, v, t)
             IN  /\ CubemarsFeedback(f) =
                      [id |-> 7, position |-> Unsigned(p), velocity |-> v, torque |-> t]
                 /\ \A n \in 0 .. 5 : CubemarsFeedback(Cut(f, n)) = Rejected
  <2>1. p \in Int16 /\ v \in UInt12 /\ t \in UInt12 /\ 7 \in Byte
    BY <1>1 DEF UInt12, Byte
  <2>. QED BY <2>1, FramesCarryEveryValue
<1>5. CurrentsAndReportsArrive
  BY <1>2, <1>3, <1>4, Zenon DEF CurrentsAndReportsArrive, FramesAgree
<1>. QED BY <1>5, PTL
=============================================================================
