---------------------- MODULE RemoteInputHistory_proofs ---------------------
(***************************************************************************)
(* Theorems about the operator's byte stream, for every alphabet, every    *)
(* set of valid frames and every frame lengths ordered as the code's are;  *)
(* and about the real frames of the remotes and of the PC link, for every  *)
(* value of their fields.                                                  *)
(***************************************************************************)
EXTENDS RemoteInputHistory, SequenceTheorems, FiniteSetTheorems, WellFoundedInduction, TLAPS

LEMMA ChunkFacts ==
  ASSUME NEW c \in Chunk
  PROVE  c \in Seq(Byte) /\ c # <<>>
<1>1. PICK n \in 1 .. ChunkMax : c \in [1 .. n -> Byte]
  BY DEF Chunk
<1>2. c \in Seq(Byte) /\ Len(c) = n
  BY <1>1, StreamAssumption
<1>3. QED
  BY <1>2

(* A byte is never refused: the buffer grows by one byte until it is full. *)
LEMMA PushByteFacts ==
  ASSUME NEW b \in Seq(Byte), NEW byte \in Byte, Len(b) <= BinCap
  PROVE  /\ PushByte(b, byte) \in Seq(Byte)
         /\ Len(PushByte(b, byte)) <= BinCap
         /\ Len(b) < BinCap => Len(PushByte(b, byte)) = Len(b) + 1
<1>1. CASE Len(b) < BinCap
  BY <1>1, AppendProperties, StreamAssumption DEF PushByte
<1>2. CASE Len(b) = BinCap
  <2>1. b # <<>>
    BY <1>2, StreamAssumption
  <2>2. Tail(b) \in Seq(Byte) /\ Len(Tail(b)) = Len(b) - 1
    BY <2>1, HeadTailProperties
  <2>3. QED
    BY <1>2, <2>2, AppendProperties, StreamAssumption DEF PushByte
<1>3. QED
  BY <1>1, <1>2, StreamAssumption

LEMMA ConsumeFacts ==
  ASSUME NEW b \in Seq(Byte), NEW n \in Nat
  PROVE  /\ ConsumeBinary(b, n) \in Seq(Byte)
         /\ Len(ConsumeBinary(b, n)) = IF n >= Len(b) THEN 0 ELSE Len(b) - n
<1>1. CASE n >= Len(b)
  BY <1>1 DEF ConsumeBinary
<1>2. CASE n < Len(b)
  <2>1. \A i \in n + 1 .. Len(b) : b[i] \in Byte
    BY ElementOfSeq
  <2>2. /\ SubSeq(b, n + 1, Len(b)) \in Seq(Byte)
        /\ Len(SubSeq(b, n + 1, Len(b))) = Len(b) - n
    BY <1>2, <2>1, SubSeqProperties
  <2>3. QED
    BY <1>2, <2>2 DEF ConsumeBinary
<1>3. QED
  BY <1>1, <1>2

(* What one iteration of TryDecodeBinaryFrames can do.  A buffer of no more *)
(* than one DR16 frame is too short for the two VT03 formats.               *)
LEMMA DecodedFacts ==
  ASSUME NEW b \in Seq(Byte)
  PROVE  /\ Decoded(b).take \in Nat
         /\ Decoded(b).take = 0 => Len(b) < DrLen
         /\ Decoded(b).take > 0 => Len(b) >= DrLen
         /\ Decoded(b).got \in Accepted \cup {NoInput}
         /\ Len(b) <= DrLen =>
              Decoded(b).got = NoInput \/ Decoded(b).got.via = "dr16"
  BY StreamAssumption DEF Decoded, Found, Skip, Accepted, Via

LEMMA LineFacts ==
  ASSUME NEW l \in Seq(Printable), Len(l) < LineCap, NEW byte \in Byte
  PROVE  /\ NextLine(l, byte) \in Seq(Printable)
         /\ Len(NextLine(l, byte)) < LineCap
         /\ LineInput(l, byte) \in Accepted \cup {NoInput}
         /\ LineInput(l, byte) # NoInput => LineInput(l, byte).via = "line"
<1>1. /\ NextLine(l, byte) \in Seq(Printable)
      /\ Len(NextLine(l, byte)) < LineCap
  <2>1. byte \in Printable => Append(l, byte) \in Seq(Printable)
                              /\ Len(Append(l, byte)) = Len(l) + 1
    BY AppendProperties
  <2>2. QED
    BY <2>1, StreamAssumption DEF NextLine
<1>2. /\ LineInput(l, byte) \in Accepted \cup {NoInput}
      /\ LineInput(l, byte) # NoInput => LineInput(l, byte).via = "line"
  BY StreamAssumption DEF LineInput, Accepted, Via
<1>3. QED
  BY <1>1, <1>2

-----------------------------------------------------------------------------
\* The inductive invariant.  None of the three parts is inductive alone: the
\* backlog bound needs the types, and the routes need the backlog bound,
\* which keeps the VT03 branches of Decoded out of reach.
IInv == TypeOK /\ BinaryBacklog /\ OnlyDr16AndLines

LEMMA InitIInv == Init => IInv
  BY StreamAssumption
  DEF Init, IInv, TypeOK, PC, BinaryBacklog, OnlyDr16AndLines

LEMMA StepIInv == IInv /\ [Next]_vars => IInv'
<1> SUFFICES ASSUME IInv, [Next]_vars PROVE IInv'
  OBVIOUS
<1> USE DEF IInv
<1>1. ASSUME NEW c \in Chunk, Route(c) PROVE IInv'
  <2>1. queue' \in Seq(Chunk) /\ Len(queue') <= QueueDepth
    BY <1>1, AppendProperties, StreamAssumption DEF Route, TypeOK
  <2>2. QED
    BY <1>1, <2>1 DEF Route, TypeOK, BinaryBacklog, OnlyDr16AndLines
<1>2. CASE Dequeue
  <2>1. Head(queue) \in Chunk /\ Tail(queue) \in Seq(Chunk)
        /\ Len(Tail(queue)) = Len(queue) - 1
    BY <1>2, HeadTailProperties DEF Dequeue, TypeOK
  <2>2. chunk' \in Seq(Byte)
    BY <1>2, <2>1, ChunkFacts DEF Dequeue
  <2>3. queue' \in Seq(Chunk) /\ Len(queue') <= QueueDepth
    BY <1>2, <2>1, StreamAssumption DEF Dequeue, TypeOK
  <2>4. QED
    BY <1>2, <2>2, <2>3 DEF Dequeue, TypeOK, PC, BinaryBacklog, OnlyDr16AndLines
<1>3. CASE Publish
  BY <1>3 DEF Publish, TypeOK, PC, BinaryBacklog, OnlyDr16AndLines
<1>4. CASE Wake
  BY <1>4 DEF Wake, TypeOK, PC, BinaryBacklog, OnlyDr16AndLines
<1>5. CASE AppendByte
  <2>1. Head(chunk) \in Byte
    BY <1>5, HeadTailProperties DEF AppendByte, TypeOK
  <2>2. Len(bin) < DrLen
    BY <1>5 DEF AppendByte, BinaryBacklog
  <2>3. bin \in Seq(Byte) /\ Len(bin) < BinCap /\ Len(bin) <= BinCap
    BY <2>2, StreamAssumption, LenProperties DEF TypeOK
  <2>4. /\ PushByte(bin, Head(chunk)) \in Seq(Byte)
        /\ Len(PushByte(bin, Head(chunk))) <= BinCap
        /\ Len(PushByte(bin, Head(chunk))) = Len(bin) + 1
    BY <2>1, <2>3, PushByteFacts, Zenon
  <2>5. bin' = PushByte(bin, Head(chunk))
    BY <1>5 DEF AppendByte
  <2>6. Len(bin') <= DrLen
    BY <2>2, <2>3, <2>4, <2>5, StreamAssumption, LenProperties
  <2>7. QED
    BY <1>5, <2>4, <2>5, <2>6
    DEF AppendByte, TypeOK, PC, BinaryBacklog, OnlyDr16AndLines
<1>6. CASE ChunkDone
  BY <1>6 DEF ChunkDone, TypeOK, PC, BinaryBacklog, OnlyDr16AndLines
<1>7. CASE DecodeStep
  <2> DEFINE d == Decoded(bin)
  <2>1. Len(bin) <= DrLen /\ bin \in Seq(Byte) /\ Len(bin) <= BinCap
    BY <1>7 DEF DecodeStep, BinaryBacklog, TypeOK
  <2>2. d.take \in Nat /\ d.take > 0 /\ bin' = ConsumeBinary(bin, d.take)
    BY <1>7, <2>1, DecodedFacts DEF DecodeStep
  <2>3. /\ bin' \in Seq(Byte)
        /\ Len(bin') = IF d.take >= Len(bin) THEN 0 ELSE Len(bin) - d.take
    BY <2>1, <2>2, ConsumeFacts, Zenon
  <2>4. latest' \in Accepted \cup {NoInput}
        /\ (latest' # NoInput => latest'.via \in {"dr16", "line"})
    BY <1>7, <2>1, DecodedFacts DEF DecodeStep, Latch, TypeOK, OnlyDr16AndLines
  <2>5. Len(bin') <= DrLen /\ Len(bin') <= BinCap
    <3> HIDE DEF d
    <3> QED
      BY <2>1, <2>2, <2>3, StreamAssumption, LenProperties
  <2>6. QED
    BY <1>7, <2>3, <2>4, <2>5 DEF DecodeStep, TypeOK, BinaryBacklog, OnlyDr16AndLines
<1>8. CASE DecodeDone
  <2>1. Len(bin) < DrLen
    BY <1>8, DecodedFacts DEF DecodeDone, TypeOK
  <2>2. QED
    BY <1>8, <2>1 DEF DecodeDone, TypeOK, PC, BinaryBacklog, OnlyDr16AndLines
<1>9. CASE TextStep
  <2>1. Head(chunk) \in Byte /\ Tail(chunk) \in Seq(Byte)
    BY <1>9, HeadTailProperties DEF TextStep, TypeOK
  <2>2. line' \in Seq(Printable) /\ Len(line') < LineCap
    BY <1>9, <2>1, LineFacts DEF TextStep, TypeOK
  <2>3. latest' \in Accepted \cup {NoInput}
        /\ (latest' # NoInput => latest'.via \in {"dr16", "line"})
    BY <1>9, <2>1, LineFacts DEF TextStep, Latch, TypeOK, OnlyDr16AndLines
  <2>4. QED
    BY <1>9, <2>1, <2>2, <2>3 DEF TextStep, TypeOK, PC, BinaryBacklog, OnlyDr16AndLines
<1>10. CASE UNCHANGED vars
  BY <1>10 DEF vars, TypeOK, BinaryBacklog, OnlyDr16AndLines
<1>11. QED
  BY <1>1, <1>2, <1>3, <1>4, <1>5, <1>6, <1>7, <1>8, <1>9, <1>10 DEF Next, ThreadStep

LEMMA InvariantHolds == Spec => []IInv
  BY InitIInv, StepIInv, PTL DEF Spec

(* The buffers and the queue keep their capacities and types.              *)
THEOREM TypeCorrect == Spec => []TypeOK
<1>1. IInv => TypeOK
  BY DEF IInv
<1>2. QED
  BY <1>1, InvariantHolds, PTL

(* binary_buf_ never holds more than one DR16 frame, so its overflow        *)
(* branch is dead code.                                                     *)
THEOREM BacklogBounded == Spec => []BinaryBacklog
<1>1. IInv => BinaryBacklog
  BY DEF IInv
<1>2. QED
  BY <1>1, InvariantHolds, PTL

(* Whatever bytes arrive, no input is accepted from a VT03 binary frame as  *)
(* long as those frames are longer than a DR16 frame.                       *)
THEOREM Vt03BinaryNeverAccepted == Spec => []OnlyDr16AndLines
<1>1. IInv => OnlyDr16AndLines
  BY DEF IInv
<1>2. QED
  BY <1>1, InvariantHolds, PTL

-----------------------------------------------------------------------------
LEMMA SourceStep == IInv /\ IInv' /\ [Next]_vars => [Source!Next]_Source!vars
<1> SUFFICES ASSUME IInv, IInv', [Next]_vars PROVE [Source!Next]_Source!vars
  OBVIOUS
<1>1. CASE Publish
  BY <1>1 DEF Publish, Source!Next, Source!Publish
<1>2. CASE DecodeStep \/ TextStep
  <2>1. latest' \in Accepted \cup {NoInput}
        /\ (latest' # NoInput => latest'.via \in {"dr16", "line"})
    BY DEF IInv, TypeOK, OnlyDr16AndLines
  <2>2. latest' = latest \/ latest' # NoInput
    BY <1>2 DEF DecodeStep, TextStep, Latch
  <2>3. latest' = latest \/ latest' \in [via : {"dr16", "line"}, input : Input]
    BY <2>1, <2>2 DEF Accepted
  <2>4. published' = published
    BY <1>2 DEF DecodeStep, TextStep
  <2>5. QED
    BY <2>3, <2>4 DEF Source!Next, Source!Accept, Source!vars
<1>3. CASE UNCHANGED <<latest, published>>
  BY <1>3 DEF Source!vars
<1>4. QED
  BY <1>1, <1>2, <1>3
  DEF Next, ThreadStep, vars, Route, Dequeue, Wake, AppendByte, ChunkDone, DecodeDone

(* The byte-level decoder implements the abstract input source: inputs are  *)
(* replaced and published, never withdrawn, and come by two routes only.    *)
THEOREM StreamImplementsSource == Spec => SourceSpec
<1>1. Init => Source!Init
  BY DEF Init, Source!Init
<1>2. QED
  BY <1>1, SourceStep, InvariantHolds, PTL DEF Spec, SourceSpec, Source!Spec

-----------------------------------------------------------------------------
(* What the reference decoder reads, by induction over the stream.         *)

\* A set that holds 0 and with each number the next one holds all: among the
\* sets 0 .. k with k outside it there is no smallest one.
LEMMA NatSetInduction ==
  ASSUME NEW S, 0 \in S, \A n \in Nat : n \in S => n + 1 \in S
  PROVE  Nat \subseteq S
<1> SUFFICES ASSUME NEW n \in Nat, n \notin S PROVE FALSE
  OBVIOUS
<1> DEFINE U == 0 .. n
           R == StrictSubsetOrdering(U)
           T == {V \in SUBSET U : \E k \in U : k \notin S /\ V = 0 .. k}
<1>1. IsFiniteSet(U)
  BY FS_Interval
<1>2. IsWellFoundedOn(R, SUBSET U)
  <2>1. IsWellFoundedOn(StrictSubsetOrdering(U), FiniteSubsetsOf(U))
    BY FS_StrictSubsetOrderingWellFounded
  <2>2. FiniteSubsetsOf(U) = SUBSET U
    BY <1>1, FS_FiniteSubsetsOfFinite
  <2>. HIDE DEF U
  <2>. QED BY <2>1, <2>2
<1>3. T \subseteq SUBSET U /\ T # {}
  <2>1. U \in T
    BY n \in U
  <2>. QED BY <2>1
<1>4. PICK V \in T : \A W \in T : ~ <<W, V>> \in R
  <2>. HIDE DEF R, T, U
  <2>. QED BY <1>2, <1>3, WFMin
<1>5. PICK k \in U : k \notin S /\ V = 0 .. k
  OBVIOUS
<1>6. k # 0 /\ k - 1 \in Nat /\ k - 1 \in U
  BY <1>5
<1>7. k - 1 \notin S
  BY <1>5, <1>6
<1>8. 0 .. (k - 1) \in T
  BY <1>6, <1>7
<1>9. <<0 .. (k - 1), V>> \in R
  <2>1. 0 .. (k - 1) \subseteq V /\ 0 .. (k - 1) # V
    BY <1>5, <1>6
  <2>. QED BY <2>1, <1>8, <1>4 DEF StrictSubsetOrdering
<1>. QED BY <1>4, <1>8, <1>9

Reads(s, m, f) == f = [i \in 0 .. m |-> IF i = 0 THEN Nothing ELSE Read(s, i, f[i - 1])]

LEMMA ReadsFacts ==
  ASSUME NEW s, NEW m \in Nat, NEW f, Reads(s, m, f)
  PROVE  /\ f[0] = Nothing
         /\ \A k \in Nat : k + 1 <= m => f[k + 1] = Read(s, k + 1, f[k])
<1>1. \A i \in 0 .. m : f[i] = IF i = 0 THEN Nothing ELSE Read(s, i, f[i - 1])
  BY Zenon DEF Reads
<1>2. ASSUME NEW k \in Nat, k + 1 <= m
      PROVE  f[k + 1] = Read(s, k + 1, f[k])
  <2>1. k + 1 \in 0 .. m /\ k + 1 # 0 /\ k + 1 - 1 = k
    BY <1>2
  <2>. QED BY <1>1, <2>1
<1>. QED BY <1>1, <1>2

LEMMA ReadsExists ==
  ASSUME NEW s, NEW m \in Nat
  PROVE  \E f : Reads(s, m, f)
<1>. DEFINE S == {k \in Nat : \E f : Reads(s, k, f)}
<1>1. 0 \in S
  <2>1. Reads(s, 0, [i \in 0 .. 0 |-> Nothing])
    BY DEF Reads
  <2>. QED BY <2>1
<1>2. ASSUME NEW k \in Nat, k \in S
      PROVE  k + 1 \in S
  <2>1. PICK f : Reads(s, k, f)
    BY <1>2
  <2>. DEFINE h == [i \in 0 .. k + 1 |-> IF i = k + 1 THEN Read(s, k + 1, f[k]) ELSE f[i]]
  <2>2. ASSUME NEW i \in 0 .. k + 1
        PROVE  h[i] = IF i = 0 THEN Nothing ELSE Read(s, i, h[i - 1])
    <3>1. f[0] = Nothing /\ \A j \in Nat : j + 1 <= k => f[j + 1] = Read(s, j + 1, f[j])
      BY <2>1, ReadsFacts, ZenonT(30)
    <3>2. CASE i = 0
      BY <3>1, <3>2
    <3>3. CASE i \in 1 .. k
      <4>1. h[i] = f[i] /\ h[i - 1] = f[i - 1]
        BY <3>3
      <4>2. f[i] = Read(s, i, f[i - 1])
        <5>1. i - 1 \in Nat /\ i - 1 + 1 <= k /\ i - 1 + 1 = i
          BY <3>3
        <5>. HIDE DEF h
        <5>. QED BY <3>1, <5>1
      <4>. QED BY <3>3, <4>1, <4>2
    <3>4. CASE i = k + 1
      BY <3>4
    <3>. QED BY <3>2, <3>3, <3>4
  <2>3. Reads(s, k + 1, h)
    <3>. HIDE DEF h
    <3>1. DOMAIN h = 0 .. k + 1 /\ h = [i \in DOMAIN h |-> h[i]]
      BY DEF h
    <3>. QED BY <2>2, <3>1 DEF Reads
  <2>. QED BY <2>3
<1>3. Nat \subseteq S
  <2>. HIDE DEF S
  <2>. QED BY <1>1, <1>2, NatSetInduction
<1>. QED BY <1>3

LEMMA ReadingReads ==
  ASSUME NEW s, Len(s) \in Nat
  PROVE  \E f : Reads(s, Len(s), f) /\ Reading(s) = f[Len(s)]
<1>. DEFINE f == CHOOSE h : Reads(s, Len(s), h)
<1>1. Reading(s) = f[Len(s)]
  BY DEF Reading, Reads
<1>2. Reads(s, Len(s), f)
  BY ReadsExists
<1>. QED BY <1>1, <1>2

\* A window of two streams that agree up to its end.
LEMMA WindowAlike ==
  ASSUME NEW s \in Seq(Byte), NEW t \in Seq(Byte), NEW i \in Nat \ {0},
         i <= Len(s), i <= Len(t), \A j \in 1 .. i : s[j] = t[j],
         NEW from \in Nat, from <= i - 1
  PROVE  SubSeq(s, from + 1, i) = SubSeq(t, from + 1, i)
<1>1. SubSeq(s, from + 1, i) = [j \in 1 .. i - from |-> s[from + j]]
  OBVIOUS
<1>2. SubSeq(t, from + 1, i) = [j \in 1 .. i - from |-> t[from + j]]
  OBVIOUS
<1>3. \A j \in 1 .. i - from : s[from + j] = t[from + j]
  OBVIOUS
<1>. QED BY <1>1, <1>2, <1>3

\* A byte is read alike in two streams that agree up to it.
LEMMA ReadAlike ==
  ASSUME NEW s \in Seq(Byte), NEW t \in Seq(Byte), NEW k \in Nat,
         k + 1 <= Len(s), k + 1 <= Len(t), \A j \in 1 .. k + 1 : s[j] = t[j],
         NEW r, r.from \in 0 .. k
  PROVE  Read(s, k + 1, r) = Read(t, k + 1, r) /\ Read(s, k + 1, r).from \in 0 .. k + 1
<1>. DEFINE from == r.from
            i == k + 1
<1>0. /\ i \in Nat \ {0} /\ i <= Len(s) /\ i <= Len(t) /\ \A j \in 1 .. i : s[j] = t[j]
      /\ from \in Nat /\ from <= i - 1
  OBVIOUS
<1>. HIDE DEF i
<1>1. SubSeq(s, from + 1, i) = SubSeq(t, from + 1, i)
  <2>. HIDE DEF from
  <2>. QED BY <1>0, WindowAlike
<1>2. s[i] = t[i]
  BY <1>0
<1>3. DrFrom(s, i, from) = DrFrom(t, i, from) /\ DrInput(s, i, from) = DrInput(t, i, from)
  BY <1>1, Zenon DEF DrFrom, DrInput
<1>4. DrFrom(s, i, from) \in 0 .. i
  BY <1>0, StreamAssumption DEF DrFrom
<1>. HIDE DEF from
<1>5. Read(s, i, r).from = DrFrom(s, i, from)
  BY DEF Read, from
<1>6. Read(s, i, r) = Read(t, i, r)
  BY <1>2, <1>3, Zenon DEF Read, from
<1>. QED BY <1>4, <1>5, <1>6 DEF i

LEMMA ReadingAlike ==
  ASSUME NEW s \in Seq(Byte), NEW t \in Seq(Byte), NEW f, NEW h,
         NEW m \in Nat, NEW n \in Nat, m <= n, m <= Len(s), n <= Len(t),
         Reads(s, m, f), Reads(t, n, h), \A j \in 1 .. m : s[j] = t[j]
  PROVE  f[m] = h[m] /\ f[m].from \in 0 .. m
<1>. DEFINE S == {k \in Nat : k <= m => f[k] = h[k] /\ f[k].from \in 0 .. k}
<1>0. /\ f[0] = Nothing /\ \A k \in Nat : k + 1 <= m => f[k + 1] = Read(s, k + 1, f[k])
      /\ h[0] = Nothing /\ \A k \in Nat : k + 1 <= n => h[k + 1] = Read(t, k + 1, h[k])
  <2>1. f[0] = Nothing /\ \A k \in Nat : k + 1 <= m => f[k + 1] = Read(s, k + 1, f[k])
    BY ReadsFacts, ZenonT(30)
  <2>2. h[0] = Nothing /\ \A k \in Nat : k + 1 <= n => h[k + 1] = Read(t, k + 1, h[k])
    BY ReadsFacts, ZenonT(30)
  <2>. QED BY <2>1, <2>2
<1>1. 0 \in S
  BY <1>0 DEF Nothing
<1>2. ASSUME NEW k \in Nat, k \in S, k + 1 <= m
      PROVE  k + 1 \in S
  <2>1. f[k] = h[k] /\ f[k].from \in 0 .. k
    BY <1>2
  <2>2. f[k + 1] = Read(s, k + 1, f[k]) /\ h[k + 1] = Read(t, k + 1, f[k])
    BY <1>0, <1>2, <2>1
  <2>3. /\ k + 1 <= Len(s) /\ k + 1 <= Len(t)
        /\ \A j \in 1 .. k + 1 : s[j] = t[j]
    BY <1>2
  <2>4. Read(s, k + 1, f[k]) = Read(t, k + 1, f[k]) /\ Read(s, k + 1, f[k]).from \in 0 .. k + 1
    BY <2>1, <2>3, ReadAlike, Zenon
  <2>. QED BY <2>2, <2>4
<1>3. Nat \subseteq S
  <2>1. ASSUME NEW k \in Nat, k \in S
        PROVE  k + 1 \in S
    BY <1>2, <2>1
  <2>. HIDE DEF S
  <2>. QED BY <1>1, <2>1, NatSetInduction
<1>. QED BY <1>3

\* The reference decoder goes on where it was when a byte is added.
LEMMA ReadingAppend ==
  ASSUME NEW s \in Seq(Byte), NEW b \in Byte
  PROVE  /\ Reading(Append(s, b)) = Read(Append(s, b), Len(s) + 1, Reading(s))
         /\ Reading(s).from \in 0 .. Len(s)
<1>. DEFINE t == Append(s, b)
            m == Len(s)
<1>1. /\ t \in Seq(Byte) /\ Len(t) = m + 1 /\ m \in Nat
      /\ \A j \in 1 .. m : s[j] = t[j]
  BY AppendProperties
<1>2. PICK f : Reads(s, m, f) /\ Reading(s) = f[m]
  BY <1>1, ReadingReads
<1>3. PICK h : Reads(t, Len(t), h) /\ Reading(t) = h[Len(t)]
  <2>1. Len(t) \in Nat
    BY <1>1
  <2>. HIDE DEF t
  <2>. QED BY <2>1, ReadingReads
<1>. HIDE DEF t, m
<1>4. Reads(t, m + 1, h) /\ Reading(t) = h[m + 1]
  BY <1>1, <1>3
<1>5. f[m] = h[m] /\ f[m].from \in 0 .. m
  <2>1. m + 1 \in Nat /\ m <= m + 1 /\ m <= Len(s) /\ m + 1 <= Len(t)
    BY <1>1 DEF m
  <2>2. Reads(s, m, f)
    BY <1>2
  <2>. QED BY <1>1, <1>4, <2>1, <2>2, ReadingAlike
<1>6. h[m + 1] = Read(t, m + 1, h[m])
  <2>1. \A k \in Nat : k + 1 <= m + 1 => h[k + 1] = Read(t, k + 1, h[k])
    <3>1. m + 1 \in Nat
      BY <1>1
    <3>. QED BY <1>4, <3>1, ReadsFacts, Zenon
  <2>. QED BY <1>1, <2>1
<1>7. Reading(t) = Read(t, m + 1, Reading(s)) /\ Reading(s).from \in 0 .. m
  BY <1>2, <1>4, <1>5, <1>6
<1>. QED BY <1>7 DEF t, m

LEMMA ReadingNothing == Reading(<<>>) = Nothing
<1>1. Len(<<>>) = 0 /\ Len(<<>>) \in Nat
  OBVIOUS
<1>2. PICK f : Reads(<<>>, Len(<<>>), f) /\ Reading(<<>>) = f[Len(<<>>)]
  BY <1>1, ReadingReads
<1>3. Reads(<<>>, 0, f) /\ Reading(<<>>) = f[0]
  BY <1>1, <1>2
<1>4. f[0] = Nothing
  BY <1>3, ReadsFacts, Zenon
<1>. QED BY <1>3, <1>4

-----------------------------------------------------------------------------
(* Remainders: the length of line_buf_ against the length of the text.     *)

LEMMA DivMod ==
  ASSUME NEW n \in Nat, NEW c \in Nat, c > 1
  PROVE  n = c * (n \div c) + (n % c) /\ n \div c \in Nat /\ n % c \in 0 .. c - 1
OBVIOUS

LEMMA SmallMultiple ==
  ASSUME NEW c \in Nat, c > 1, NEW d \in Int, NEW x \in Int, x = c * d, -c < x, x <= c
  PROVE  x = 0 \/ x = c
<1>1. CASE d >= 2
  <2>1. c * d >= c * 2
    BY <1>1
  <2>. QED BY <2>1
<1>2. CASE d <= -1
  <2>1. c * d <= c * (-1)
    BY <1>2
  <2>. QED BY <2>1
<1>. QED BY <1>1, <1>2

LEMMA NextRemainder ==
  ASSUME NEW n \in Nat, NEW c \in Nat, c > 1
  PROVE  (n + 1) % c = IF n % c = c - 1 THEN 0 ELSE (n % c) + 1
<1>1. n = c * (n \div c) + (n % c) /\ n \div c \in Nat /\ n % c \in 0 .. c - 1
  BY DivMod
<1>2. /\ n + 1 = c * ((n + 1) \div c) + ((n + 1) % c)
      /\ (n + 1) \div c \in Nat /\ (n + 1) % c \in 0 .. c - 1
  <2>1. n + 1 \in Nat
    OBVIOUS
  <2>. QED BY <2>1, DivMod, Zenon
<1>. DEFINE d == (n + 1) \div c - n \div c
            x == (n % c) + 1 - ((n + 1) % c)
<1>3. d \in Int /\ x \in Int /\ -c < x /\ x <= c
  BY <1>1, <1>2
<1>4. c * d = c * ((n + 1) \div c) - c * (n \div c)
  BY <1>1, <1>2
<1>5. x = c * d
  BY <1>1, <1>2, <1>4
<1>6. x = 0 \/ x = c
  <2>. HIDE DEF x, d
  <2>. QED BY <1>3, <1>5, SmallMultiple
<1>. QED BY <1>1, <1>2, <1>6

\* The end of a prolonged sequence is the prolonged end.
LEMMA EndAppend ==
  ASSUME NEW S, NEW s \in Seq(S), NEW b \in S, NEW from \in Nat, from <= Len(s)
  PROVE  /\ SubSeq(Append(s, b), from + 1, Len(s) + 1) = Append(SubSeq(s, from + 1, Len(s)), b)
         /\ SubSeq(s, from + 1, Len(s)) \in Seq(S)
         /\ Len(SubSeq(s, from + 1, Len(s))) = Len(s) - from
<1>. DEFINE n == Len(s)
            t == Append(s, b)
            e == SubSeq(s, from + 1, n)
<1>1. n \in Nat /\ \A i \in 1 .. n : s[i] \in S
  BY ElementOfSeq
<1>2. t \in Seq(S) /\ Len(t) = n + 1 /\ \A i \in 1 .. n + 1 : t[i] = IF i = n + 1 THEN b ELSE s[i]
  BY AppendProperties
<1>3. e = [i \in 1 .. n - from |-> s[from + i]]
  OBVIOUS
<1>4. e \in Seq(S) /\ Len(e) = n - from /\ \A i \in 1 .. n - from : e[i] = s[from + i]
  BY <1>1, <1>3
<1>. HIDE DEF e, t
<1>5. SubSeq(t, from + 1, n + 1) = [i \in 1 .. n + 1 - from |-> t[from + i]]
  BY <1>1, <1>2
<1>6. PICK w : w = Append(e, b)
  OBVIOUS
<1>7. /\ Len(w) = Len(e) + 1 /\ w \in Seq(S)
      /\ \A i \in 1 .. Len(e) : w[i] = e[i]
      /\ w[Len(e) + 1] = b
  <2>1. e \in Seq(S)
    BY <1>4
  <2>2. /\ Len(Append(e, b)) = Len(e) + 1 /\ Append(e, b) \in Seq(S)
        /\ \A i \in 1 .. Len(e) : Append(e, b)[i] = e[i]
        /\ Append(e, b)[Len(e) + 1] = b
    BY <2>1, AppendProperties
  <2>. QED BY <1>6, <2>2, Zenon
<1>8. \A i \in 1 .. n + 1 - from : w[i] = t[from + i]
  <2>1. \A i \in 1 .. n - from : w[i] = t[from + i]
    BY <1>1, <1>2, <1>4, <1>7
  <2>2. w[n - from + 1] = t[n + 1] /\ from + (n - from + 1) = n + 1
    BY <1>1, <1>2, <1>4, <1>7
  <2>3. \A i \in 1 .. n + 1 - from : i \in 1 .. n - from \/ i = n - from + 1
    BY <1>1
  <2>. QED BY <2>1, <2>2, <2>3
<1>9. w = SubSeq(t, from + 1, n + 1)
  <2>1. w = [i \in 1 .. n + 1 - from |-> w[i]]
    BY <1>1, <1>4, <1>7
  <2>. QED BY <1>5, <1>8, <2>1
<1>10. Append(e, b) = SubSeq(t, from + 1, n + 1)
  BY <1>6, <1>9, Zenon
<1>. QED BY <1>4, <1>10, Zenon DEF e, t

\* line_buf_ holds what is kept of the text, whatever the next byte is.
LEMMA KeptNext ==
  ASSUME NEW text \in Seq(Printable), NEW b \in Byte
  PROVE  /\ Text(text, b) \in Seq(Printable)
         /\ NextLine(Kept(text), b) = Kept(Text(text, b))
<1>. DEFINE n == Len(text)
            m == n % LineCap
<1>1. n \in Nat /\ LineCap \in Nat /\ LineCap > 1 /\ m \in 0 .. LineCap - 1
      /\ m <= n
      /\ (n + 1) % LineCap = IF m = LineCap - 1 THEN 0 ELSE m + 1
  <2>1. n \in Nat /\ LineCap \in Nat /\ LineCap > 1
    BY StreamAssumption
  <2>2. n = LineCap * (n \div LineCap) + m /\ n \div LineCap \in Nat /\ m \in 0 .. LineCap - 1
    BY <2>1, DivMod
  <2>3. (n + 1) % LineCap = IF m = LineCap - 1 THEN 0 ELSE m + 1
    BY <2>1, NextRemainder
  <2>4. LineCap * (n \div LineCap) >= 0
    BY <2>1, <2>2
  <2>. HIDE DEF n, m
  <2>. QED BY <2>1, <2>2, <2>3, <2>4
<1>. HIDE DEF m
<1>2. Kept(text) = SubSeq(text, n - m + 1, n)
  BY DEF Kept, m
<1>3. Len(Kept(text)) = m
  BY <1>1, <1>2
<1>4. CASE b = LF
  <2>1. Kept(<<>>) = <<>>
    <3>1. 0 % LineCap = 0
      BY <1>1
    <3>. QED BY <3>1 DEF Kept
  <2>2. NextLine(Kept(text), b) = <<>> /\ Text(text, b) = <<>>
    <3>. b \notin Printable
      BY <1>4, StreamAssumption
    <3>1. PICK l : l = Kept(text)
      OBVIOUS
    <3>2. NextLine(l, b) = <<>>
      BY <1>4 DEF NextLine
    <3>3. Text(text, b) = <<>>
      BY <1>4 DEF Text
    <3>. QED BY <3>1, <3>2, <3>3, Zenon
  <2>3. <<>> \in Seq(Printable)
    OBVIOUS
  <2>. QED BY <2>1, <2>2, <2>3, Zenon
<1>5. CASE b # LF /\ b \notin Printable
  BY <1>5 DEF NextLine, Text
<1>6. CASE b \in Printable
  <2>1. b # LF
    BY <1>6, StreamAssumption
  <2>. DEFINE longer == Append(text, b)
  <2>2. Text(text, b) = longer /\ longer \in Seq(Printable) /\ Len(longer) = n + 1
    BY <1>6, <2>1, AppendProperties DEF Text
  <2>3. CASE m = LineCap - 1
    <3>1. NextLine(Kept(text), b) = <<>>
      BY <1>1, <1>3, <1>6, <2>1, <2>3 DEF NextLine
    <3>2. Kept(longer) = SubSeq(longer, n + 2, n + 1)
      BY <1>1, <2>2, <2>3 DEF Kept
    <3>. QED BY <1>1, <2>2, <3>1, <3>2
  <2>4. CASE m < LineCap - 1
    <3>1. NextLine(Kept(text), b) = Append(Kept(text), b)
      BY <1>1, <1>3, <1>6, <2>1, <2>4 DEF NextLine
    <3>2. Kept(longer) = SubSeq(longer, n - m + 1, n + 1)
      BY <1>1, <2>2, <2>4, SMTT(30) DEF Kept
    <3>3. SubSeq(longer, n - m + 1, n + 1) = Append(SubSeq(text, n - m + 1, n), b)
      <4>1. n - m \in Nat /\ n - m <= n
        BY <1>1
      <4>. QED BY <1>6, <4>1, EndAppend
    <3>. QED BY <1>2, <2>2, <3>1, <3>2, <3>3
  <2>. QED BY <1>1, <2>3, <2>4
<1>. QED BY <1>4, <1>5, <1>6

\* And what is parsed at the end of the line is the same.
LEMMA SameLineInput ==
  ASSUME NEW text, NEW b
  PROVE  \/ LineInput(Kept(text), b) = NoInput /\ TextInput(text, b) = <<>>
         \/ /\ LineInput(Kept(text), b) # NoInput
            /\ LineInput(Kept(text), b) \in Accepted
            /\ TextInput(text, b) = <<LineInput(Kept(text), b)>>
<1>1. CASE b = LF /\ Kept(text) # <<>> /\ Kept(text) \in DOMAIN LineDecode
  <2>1. /\ LineInput(Kept(text), b) = [via |-> "line", input |-> LineDecode[Kept(text)]]
        /\ TextInput(text, b) = <<[via |-> "line", input |-> LineDecode[Kept(text)]]>>
    BY <1>1 DEF LineInput, TextInput
  <2>2. [via |-> "line", input |-> LineDecode[Kept(text)]] \in Accepted
    BY <1>1, StreamAssumption DEF Accepted, Via
  <2>. QED BY <2>1, <2>2, NoInputAssumption
<1>2. CASE ~(b = LF /\ Kept(text) # <<>> /\ Kept(text) \in DOMAIN LineDecode)
  BY <1>2 DEF LineInput, TextInput
<1>. QED BY <1>1, <1>2

-----------------------------------------------------------------------------
(* binary_buf_ is the part of the stream after the bytes used up.          *)

Window(b, s, from) ==
  /\ from \in Nat /\ from <= Len(s)
  /\ b = SubSeq(s, from + 1, Len(s))

LEMMA WindowFacts ==
  ASSUME NEW s \in Seq(Byte), NEW b, NEW from, Window(b, s, from)
  PROVE  b \in Seq(Byte) /\ Len(b) = Len(s) - from
<1>1. from \in Nat /\ from <= Len(s) /\ Len(s) \in Nat /\ b = SubSeq(s, from + 1, Len(s))
  BY DEF Window
<1>2. \A i \in 1 .. Len(s) : s[i] \in Byte
  BY ElementOfSeq
<1>3. b = [i \in 1 .. Len(s) - from |-> s[from + i]]
  BY <1>1
<1>. QED BY <1>1, <1>2, <1>3

LEMMA WindowAppend ==
  ASSUME NEW s \in Seq(Byte), NEW byte \in Byte, NEW b, NEW from, Window(b, s, from)
  PROVE  Window(Append(b, byte), Append(s, byte), from)
<1>1. from \in Nat /\ from <= Len(s) /\ Len(s) \in Nat /\ b = SubSeq(s, from + 1, Len(s))
  BY DEF Window
<1>2. SubSeq(Append(s, byte), from + 1, Len(s) + 1) = Append(SubSeq(s, from + 1, Len(s)), byte)
  BY <1>1, EndAppend, ZenonT(30)
<1>3. Len(Append(s, byte)) = Len(s) + 1
  BY AppendProperties
<1>4. from <= Len(s) + 1
  BY <1>1
<1>. QED BY <1>1, <1>2, <1>3, <1>4, Zenon DEF Window

\* A window that gives up its first byte, and one that is used up.
LEMMA WindowShrinks ==
  ASSUME NEW s \in Seq(Byte), NEW b, NEW from, Window(b, s, from), Len(b) > 1
  PROVE  Window(SubSeq(b, 2, Len(b)), s, from + 1)
<1>1. /\ from \in Nat /\ from <= Len(s) /\ Len(s) \in Nat /\ Len(b) = Len(s) - from
      /\ b = SubSeq(s, from + 1, Len(s))
  BY WindowFacts DEF Window
<1>2. b = [i \in 1 .. Len(s) - from |-> s[from + i]]
  BY <1>1
<1>3. \A i \in 1 .. Len(s) - from : b[i] = s[from + i]
  BY <1>2
<1>4. SubSeq(b, 2, Len(b)) = [i \in 1 .. Len(b) - 1 |-> b[1 + i]]
  BY <1>1
<1>5. SubSeq(s, from + 1 + 1, Len(s)) = [i \in 1 .. Len(b) - 1 |-> s[from + 1 + i]]
  BY <1>1
<1>6. \A i \in 1 .. Len(b) - 1 : b[1 + i] = s[from + 1 + i]
  BY <1>1, <1>3
<1>7. SubSeq(b, 2, Len(b)) = SubSeq(s, from + 1 + 1, Len(s))
  BY <1>4, <1>5, <1>6
<1>8. from + 1 \in Nat /\ from + 1 <= Len(s)
  BY <1>1
<1>. QED BY <1>7, <1>8, Zenon DEF Window

LEMMA WindowEmpty ==
  ASSUME NEW s \in Seq(Byte)
  PROVE  Window(<<>>, s, Len(s))
<1>1. Len(s) \in Nat /\ Len(s) <= Len(s)
  OBVIOUS
<1>2. SubSeq(s, Len(s) + 1, Len(s)) = <<>>
  BY <1>1
<1>. QED BY <1>1, <1>2 DEF Window

\* While the buffer holds no more than one DR16 frame, the scan is the DR16
\* decoder's: it stops on less than a frame, takes a frame, or skips a byte.
LEMMA DecodedShort ==
  ASSUME NEW b \in Seq(Byte), Len(b) <= DrLen
  PROVE  Decoded(b) = IF Len(b) < DrLen THEN Skip(0)
                      ELSE IF b \in DOMAIN DrDecode THEN Found(DrLen, "dr16", DrDecode[b])
                      ELSE Skip(1)
<1>1. Len(b) \in Nat /\ ~(Len(b) >= VtLen) /\ ~(Len(b) >= CuLen)
  BY StreamAssumption
<1>2. Len(b) = DrLen => SubSeq(b, 1, DrLen) = b
  OBVIOUS
<1>3. Len(b) < DrLen \/ Len(b) = DrLen
  BY <1>1, StreamAssumption
<1>4. CASE Len(b) < DrLen
  BY <1>1, <1>4, Zenon DEF Decoded
<1>5. CASE Len(b) = DrLen /\ ~(Len(b) < DrLen)
  BY <1>1, <1>2, <1>5, Zenon DEF Decoded
<1>. QED BY <1>1, <1>3, <1>4, <1>5, StreamAssumption

-----------------------------------------------------------------------------
(* The decoder follows the reference decoder byte by byte.  "r" is what    *)
(* the reference decoder has read.                                         *)

\* Between two bytes.
Between(r) ==
  /\ Window(bin, rx, r.from)
  /\ r.text \in Seq(Printable) /\ line = Kept(r.text)
  /\ accepted = r.inputs

\* Within a byte, the last of rx, "r" is what was read before it: it is still
\* to be looked at by the binary decoder, or only by the text decoder.
Within(r) ==
  /\ r.from \in Nat /\ r.inputs \in Seq(Accepted)
  /\ r.text \in Seq(Printable) /\ line = Kept(r.text)
  /\ \/ /\ pc = "decode"
        /\ Window(bin, rx, r.from)
        /\ accepted = r.inputs
     \/ /\ Window(bin, rx, DrFrom(rx, Len(rx), r.from))
        /\ accepted = r.inputs \o DrInput(rx, Len(rx), r.from)
        /\ Len(bin) < DrLen

HInv ==
  /\ IInv
  /\ rx \in Seq(Byte) /\ accepted \in Seq(Accepted)
  /\ pc \in {"byte", "drain", "sleep"} => Between(Reading(rx))
  /\ pc \in {"decode", "text"} =>
       \E s \in Seq(Byte) : rx = Append(s, Head(chunk)) /\ Within(Reading(s))

LEMMA InitHInv == HistInit => HInv
<1>. SUFFICES ASSUME HistInit PROVE HInv
  OBVIOUS
<1>1. IInv
  BY InitIInv DEF HistInit
<1>2. rx = <<>> /\ bin = <<>> /\ line = <<>> /\ accepted = <<>> /\ pc = "drain"
  BY DEF HistInit, Init
<1>3. Reading(rx) = Nothing
  BY <1>2, ReadingNothing, Zenon
<1>4. Window(<<>>, <<>>, 0)
  <2>1. <<>> \in Seq(Byte) /\ Len(<<>>) = 0
    OBVIOUS
  <2>. QED BY <2>1, WindowEmpty, Zenon
<1>5. Kept(<<>>) = <<>>
  BY DEF Kept
<1>6. <<>> \in Seq(Printable) /\ <<>> \in Seq(Accepted) /\ <<>> \in Seq(Byte)
  OBVIOUS
<1>7. Between(Nothing)
  BY <1>2, <1>4, <1>5, <1>6 DEF Between, Nothing
<1>. QED BY <1>1, <1>2, <1>3, <1>6, <1>7, Zenon DEF HInv

LEMMA HistImpliesNext == [HistNext]_hvars => [Next]_vars
BY DEF HistNext, hvars, Arrive, Recorded, Next

LEMMA AppendSettles ==
  ASSUME HInv, AppendByte, rx' = Append(rx, Head(chunk)), accepted' = accepted
  PROVE  /\ rx' \in Seq(Byte)
         /\ \E s \in Seq(Byte) : rx' = Append(s, Head(chunk')) /\ Within(Reading(s))'
<1>0. PICK s \in Seq(Byte) : s = rx
  BY DEF HInv
<1>1. PICK r : r = Reading(s)
  OBVIOUS
<1>2. PICK byte : byte = Head(chunk)
  OBVIOUS
<1>3. /\ Between(r) /\ rx \in Seq(Byte) /\ accepted \in Seq(Accepted)
      /\ pc' = "decode" /\ chunk' = chunk /\ line' = line /\ byte \in Byte
      /\ bin' = PushByte(bin, byte)
  BY <1>0, <1>1, <1>2, HeadTailProperties DEF HInv, AppendByte, IInv, TypeOK
<1>4. bin' = Append(bin, byte)
  <2>1. Len(bin) < BinCap
    BY StreamAssumption DEF HInv, AppendByte, IInv, BinaryBacklog, TypeOK
  <2>. QED BY <1>3, <2>1, Zenon DEF PushByte
<1>5. Window(bin', rx', r.from) /\ rx' \in Seq(Byte)
  <2>1. Window(Append(bin, byte), Append(rx, byte), r.from)
    BY <1>3, WindowAppend DEF Between
  <2>2. Append(rx, byte) \in Seq(Byte)
    BY <1>3, AppendProperties
  <2>. QED BY <1>2, <1>4, <2>1, <2>2, Zenon
<1>6. r.from \in Nat /\ r.inputs \in Seq(Accepted) /\ r.text \in Seq(Printable) /\ line = Kept(r.text)
      /\ accepted = r.inputs
  BY <1>3, Zenon DEF Between, Window
<1>7. Within(Reading(s))'
  BY <1>1, <1>3, <1>5, <1>6, Zenon DEF Within
<1>. QED BY <1>0, <1>2, <1>3, <1>5, <1>7, Zenon

\* The binary decoder takes a frame or skips a byte.
LEMMA DecodeSettles ==
  ASSUME HInv, DecodeStep, rx' = rx, Log(Decoded(bin).got),
         NEW s \in Seq(Byte), rx = Append(s, Head(chunk)), Within(Reading(s))
  PROVE  Within(Reading(s))' /\ accepted' \in Seq(Accepted)
<1>1. PICK r : r = Reading(s)
  OBVIOUS
<1>2. /\ pc = "decode" /\ pc' = pc /\ line' = line
      /\ Decoded(bin).take > 0 /\ bin' = ConsumeBinary(bin, Decoded(bin).take)
      /\ rx \in Seq(Byte) /\ accepted \in Seq(Accepted) /\ bin \in Seq(Byte)
      /\ Len(bin) <= DrLen /\ Len(bin) \in Nat /\ Len(rx) \in Nat
  BY DEF DecodeStep, HInv, IInv, TypeOK, BinaryBacklog
<1>3. Len(bin) = DrLen
  BY <1>2, DecodedFacts, StreamAssumption
<1>4. /\ Window(bin, rx, r.from) /\ accepted = r.inputs
      /\ r.from \in Nat /\ r.inputs \in Seq(Accepted)
      /\ r.text \in Seq(Printable) /\ line = Kept(r.text)
  <2>1. ~(Len(bin) < DrLen)
    BY <1>2, <1>3
  <2>. QED BY <1>1, <2>1, Zenon DEF Within
<1>5. /\ Len(rx) - r.from = DrLen /\ Len(rx) - r.from >= DrLen
      /\ ~(Len(rx) - r.from < DrLen)
      /\ bin = SubSeq(rx, r.from + 1, Len(rx))
  BY <1>2, <1>3, <1>4, WindowFacts, StreamAssumption DEF Window
<1>6. ~(Len(bin) < DrLen)
  BY <1>2, <1>3
<1>7. CASE bin \in DOMAIN DrDecode
  <2>. DEFINE got == [via |-> "dr16", input |-> DrDecode[bin]]
  <2>1. Decoded(bin) = Found(DrLen, "dr16", DrDecode[bin])
    BY <1>2, <1>6, <1>7, DecodedShort, Zenon
  <2>2. Decoded(bin).take = DrLen /\ Decoded(bin).got = got
    BY <2>1 DEF Found
  <2>3. got \in Accepted /\ got # NoInput
    BY <1>7, StreamAssumption, NoInputAssumption DEF Accepted, Via
  <2>4. DrFrom(rx, Len(rx), r.from) = Len(rx) /\ DrInput(rx, Len(rx), r.from) = <<got>>
    BY <1>5, <1>7, Zenon DEF DrFrom, DrInput
  <2>. HIDE DEF got
  <2>5. bin' = <<>>
    <3>1. DrLen >= Len(bin)
      BY <1>2, <1>3
    <3>. QED BY <1>2, <2>2, <3>1, Zenon DEF ConsumeBinary
  <2>6. Window(bin', rx', Len(rx)) /\ Len(bin') < DrLen
    <3>1. Len(<<>>) < DrLen
      BY StreamAssumption
    <3>2. Window(<<>>, rx, Len(rx))
      BY <1>2, WindowEmpty
    <3>. QED BY <2>5, <3>1, <3>2, Zenon
  <2>7. accepted' = accepted \o <<got>> /\ accepted' \in Seq(Accepted)
    <3>1. accepted' = Append(accepted, got)
      BY <2>2, <2>3, Zenon DEF Log
    <3>2. Append(accepted, got) = accepted \o <<got>> /\ Append(accepted, got) \in Seq(Accepted)
      BY <1>2, <2>3, AppendIsConcat, AppendProperties
    <3>. QED BY <3>1, <3>2, Zenon
  <2>8. Within(r)'
    BY <1>2, <1>4, <2>4, <2>6, <2>7, Zenon DEF Within
  <2>. QED BY <1>1, <2>7, <2>8, Zenon
<1>8. CASE bin \notin DOMAIN DrDecode
  <2>1. Decoded(bin) = Skip(1)
    BY <1>2, <1>6, <1>8, DecodedShort, Zenon
  <2>2. Decoded(bin).take = 1 /\ Decoded(bin).got = NoInput
    BY <2>1 DEF Skip
  <2>3. DrFrom(rx, Len(rx), r.from) = r.from + 1 /\ DrInput(rx, Len(rx), r.from) = <<>>
    BY <1>5, <1>8, Zenon DEF DrFrom, DrInput
  <2>4. bin' = SubSeq(bin, 2, Len(bin))
    <3>1. ~(1 >= Len(bin)) /\ 1 + 1 = 2
      BY <1>2, <1>3, StreamAssumption
    <3>. QED BY <1>2, <2>2, <3>1, Zenon DEF ConsumeBinary
  <2>5. Window(bin', rx', r.from + 1)
    <3>1. Len(bin) > 1
      BY <1>2, <1>3, StreamAssumption
    <3>2. Window(SubSeq(bin, 2, Len(bin)), rx, r.from + 1)
      BY <1>2, <1>4, <3>1, WindowShrinks
    <3>. QED BY <2>4, <3>2, Zenon
  <2>6. Len(bin') < DrLen
    <3>1. rx' \in Seq(Byte)
      BY <1>2
    <3>2. Len(bin') = Len(rx') - (r.from + 1)
      BY <2>5, <3>1, WindowFacts, Zenon
    <3>3. Len(rx') - (r.from + 1) < DrLen
      BY <1>2, <1>4, <1>5, StreamAssumption
    <3>. QED BY <3>2, <3>3, Zenon
  <2>7. accepted' = accepted \o <<>> /\ accepted' \in Seq(Accepted)
    <3>1. accepted' = accepted
      BY <2>2, Zenon DEF Log
    <3>2. accepted \o <<>> = accepted
      BY <1>2, ConcatEmptySeq
    <3>. QED BY <1>2, <3>1, <3>2, Zenon
  <2>8. Within(r)'
    BY <1>2, <1>4, <2>3, <2>5, <2>6, <2>7, Zenon DEF Within
  <2>. QED BY <1>1, <2>7, <2>8, Zenon
<1>. QED BY <1>7, <1>8

LEMMA DecodedSettles ==
  ASSUME HInv, DecodeDone, rx' = rx, accepted' = accepted,
         NEW s \in Seq(Byte), rx = Append(s, Head(chunk)), Within(Reading(s))
  PROVE  Within(Reading(s))'
<1>1. PICK r : r = Reading(s)
  OBVIOUS
<1>2. /\ pc = "decode" /\ line' = line /\ bin' = bin
      /\ Decoded(bin).take = 0
      /\ rx \in Seq(Byte) /\ accepted \in Seq(Accepted) /\ bin \in Seq(Byte)
  BY DEF DecodeDone, HInv, IInv, TypeOK
<1>3. Len(bin) < DrLen
  BY <1>2, DecodedFacts
<1>4. /\ r.from \in Nat /\ r.inputs \in Seq(Accepted)
      /\ r.text \in Seq(Printable) /\ line = Kept(r.text)
  BY <1>1, Zenon DEF Within
<1>5. CASE Window(bin, rx, r.from) /\ accepted = r.inputs
  <2>1. ~(Len(rx) - r.from >= DrLen) /\ Len(rx) - r.from < DrLen
    <3>1. Len(bin) = Len(rx) - r.from
      BY <1>2, <1>5, WindowFacts, Zenon
    <3>. QED BY <1>2, <1>3, <1>4, <3>1, StreamAssumption
  <2>2. DrFrom(rx, Len(rx), r.from) = r.from
    BY <2>1 DEF DrFrom
  <2>3. DrInput(rx, Len(rx), r.from) = <<>>
    BY <2>1, Zenon DEF DrInput
  <2>4. accepted = r.inputs \o <<>>
    BY <1>4, <1>5, ConcatEmptySeq, Zenon
  <2>. QED BY <1>1, <1>2, <1>3, <1>4, <1>5, <2>2, <2>3, <2>4, Zenon DEF Within
<1>6. CASE /\ Window(bin, rx, DrFrom(rx, Len(rx), r.from))
           /\ accepted = r.inputs \o DrInput(rx, Len(rx), r.from)
  BY <1>1, <1>2, <1>3, <1>4, <1>6, Zenon DEF Within
<1>. QED BY <1>1, <1>5, <1>6, Zenon DEF Within

\* The byte is done with once the text decoder has had it.
LEMMA TextSettles ==
  ASSUME HInv, TextStep, rx' = rx, Log(LineInput(line, Head(chunk))),
         NEW s \in Seq(Byte), rx = Append(s, Head(chunk)), Within(Reading(s)),
         NEW q, q = Reading(rx)
  PROVE  Between(q)' /\ accepted' \in Seq(Accepted)
<1>1. PICK r : r = Reading(s)
  OBVIOUS
<1>2. PICK byte : byte = Head(chunk)
  OBVIOUS
<1>3. /\ pc = "text" /\ bin' = bin /\ line' = NextLine(line, byte)
      /\ rx \in Seq(Byte) /\ accepted \in Seq(Accepted) /\ byte \in Byte
  BY <1>2, HeadTailProperties DEF TextStep, HInv, IInv, TypeOK
<1>4. /\ r.text \in Seq(Printable) /\ line = Kept(r.text)
      /\ Window(bin, rx, DrFrom(rx, Len(rx), r.from))
      /\ accepted = r.inputs \o DrInput(rx, Len(rx), r.from)
  <2>1. pc # "decode"
    BY <1>3
  <2>. QED BY <1>1, <2>1, Zenon DEF Within
<1>5. /\ q.from = DrFrom(rx, Len(rx), r.from)
      /\ q.text = Text(r.text, byte)
      /\ q.inputs = accepted \o TextInput(r.text, byte)
  <2>1. Len(Append(s, byte)) = Len(s) + 1 /\ Append(s, byte)[Len(s) + 1] = byte
    BY <1>3, AppendProperties
  <2>2. Len(rx) = Len(s) + 1 /\ rx[Len(s) + 1] = byte
    BY <1>2, <2>1, Zenon
  <2>3. Reading(Append(s, byte)) = Read(Append(s, byte), Len(s) + 1, Reading(s))
    BY <1>3, ReadingAppend
  <2>4. q = Read(rx, Len(rx), r)
    BY <1>1, <1>2, <2>2, <2>3, Zenon
  <2>5. rx[Len(rx)] = byte
    BY <2>2, Zenon
  <2>6. /\ Read(rx, Len(rx), r).from = DrFrom(rx, Len(rx), r.from)
        /\ Read(rx, Len(rx), r).text = Text(r.text, rx[Len(rx)])
        /\ Read(rx, Len(rx), r).inputs
             = r.inputs \o DrInput(rx, Len(rx), r.from) \o TextInput(r.text, rx[Len(rx)])
    BY DEF Read
  <2>. QED BY <1>4, <2>4, <2>5, <2>6, Zenon
<1>6. q.text \in Seq(Printable) /\ line' = Kept(q.text)
  BY <1>3, <1>4, <1>5, KeptNext, Zenon
<1>7. accepted' = q.inputs /\ accepted' \in Seq(Accepted)
  <2>1. PICK got : got = LineInput(Kept(r.text), byte)
    OBVIOUS
  <2>2. Log(got)
    BY <1>2, <1>4, <2>1, Zenon
  <2>3. CASE got = NoInput /\ TextInput(r.text, byte) = <<>>
    <3>1. accepted' = accepted
      BY <2>2, <2>3, Zenon DEF Log
    <3>2. accepted \o <<>> = accepted
      BY <1>3, ConcatEmptySeq, Zenon
    <3>. QED BY <1>3, <1>5, <2>3, <3>1, <3>2, Zenon
  <2>4. CASE got # NoInput /\ got \in Accepted /\ TextInput(r.text, byte) = <<got>>
    <3>1. accepted' = Append(accepted, got)
      BY <2>2, <2>4, Zenon DEF Log
    <3>2. Append(accepted, got) = accepted \o <<got>> /\ Append(accepted, got) \in Seq(Accepted)
      BY <1>3, <2>4, AppendIsConcat, AppendProperties
    <3>. QED BY <1>5, <2>4, <3>1, <3>2, Zenon
  <2>. QED BY <2>1, <2>3, <2>4, SameLineInput, Zenon
<1>8. Window(bin', rx', q.from)
  BY <1>3, <1>4, <1>5, Zenon
<1>. QED BY <1>6, <1>7, <1>8, Zenon DEF Between

LEMMA StepHInv == HInv /\ [HistNext]_hvars => HInv'
<1>. SUFFICES ASSUME HInv, [HistNext]_hvars PROVE HInv'
  OBVIOUS
<1>1. IInv'
  BY StepIInv, HistImpliesNext DEF HInv
\* A step that leaves the decoder's data alone keeps what is said of it.
<1>2. ASSUME UNCHANGED <<bin, line, rx, accepted>>,
             \/ pc' = pc /\ chunk' = chunk
             \/ {pc, pc'} \subseteq {"byte", "drain", "sleep"}
      PROVE  HInv'
  <2>1. rx' \in Seq(Byte) /\ accepted' \in Seq(Accepted)
    BY <1>2 DEF HInv
  <2>2. ASSUME pc' \in {"byte", "drain", "sleep"}
        PROVE  Between(Reading(rx))'
    <3>1. pc \in {"byte", "drain", "sleep"}
      BY <1>2, <2>2
    <3>. QED BY <1>2, <3>1 DEF HInv, Between, Window
  <2>3. ASSUME pc' \in {"decode", "text"}
        PROVE  \E s \in Seq(Byte) : rx' = Append(s, Head(chunk')) /\ Within(Reading(s))'
    <3>1. pc' = pc /\ chunk' = chunk
      BY <1>2, <2>3
    <3>2. PICK s \in Seq(Byte) : rx = Append(s, Head(chunk)) /\ Within(Reading(s))
      BY <2>3, <3>1, Zenon DEF HInv
    <3>3. Within(Reading(s))'
      BY <1>2, <3>1, <3>2 DEF Within, Window
    <3>. QED BY <1>2, <3>1, <3>2, <3>3, Zenon
  <2>. QED BY <1>1, <2>1, <2>2, <2>3 DEF HInv
<1>3. CASE Arrive
  BY <1>2, <1>3 DEF Arrive, Route
<1>4. CASE UNCHANGED hvars
  BY <1>2, <1>4 DEF hvars, vars
<1>5. CASE Recorded
  <2>1. CASE Dequeue \/ Publish \/ Wake \/ ChunkDone
    <3>1. /\ {pc, pc'} \subseteq {"byte", "drain", "sleep"} /\ pc # "decode" /\ pc # "text"
          /\ pc' # "decode" /\ UNCHANGED <<bin, line>>
      BY <2>1 DEF Dequeue, Publish, Wake, ChunkDone
    <3>2. UNCHANGED <<rx, accepted>>
      BY <1>5, <3>1 DEF Recorded
    <3>. QED BY <1>2, <3>1, <3>2
  <2>2. CASE AppendByte
    <3>1. pc = "byte" /\ pc' = "decode"
      BY <2>2 DEF AppendByte
    <3>2. rx' = Append(rx, Head(chunk)) /\ accepted' = accepted
      BY <1>5, <3>1, Zenon DEF Recorded
    <3>3. /\ rx' \in Seq(Byte)
          /\ \E s \in Seq(Byte) : rx' = Append(s, Head(chunk')) /\ Within(Reading(s))'
      BY <2>2, <3>2, AppendSettles, Zenon
    <3>4. accepted' \in Seq(Accepted) /\ pc' \notin {"byte", "drain", "sleep"}
      BY <3>1, <3>2 DEF HInv
    <3>. QED BY <1>1, <3>3, <3>4, Zenon DEF HInv
  <2>3. ASSUME pc \in {"decode", "text"}
        PROVE  /\ rx' = rx
               /\ \E s \in Seq(Byte) : rx = Append(s, Head(chunk)) /\ Within(Reading(s))
    BY <1>5, <2>3 DEF Recorded, HInv
  <2>4. CASE DecodeStep
    <3>1. pc = "decode" /\ pc' = "decode" /\ chunk' = chunk
      BY <2>4 DEF DecodeStep
    <3>2. Log(Decoded(bin).got)
      BY <1>5, <3>1, Zenon DEF Recorded
    <3>3. PICK s \in Seq(Byte) : rx = Append(s, Head(chunk)) /\ Within(Reading(s))
      BY <2>3, <3>1
    <3>4. rx' = rx /\ rx' \in Seq(Byte) /\ pc' \notin {"byte", "drain", "sleep"}
      BY <2>3, <3>1 DEF HInv
    <3>5. Within(Reading(s))' /\ accepted' \in Seq(Accepted)
      BY <2>4, <3>2, <3>3, <3>4, DecodeSettles, Zenon
    <3>. QED BY <1>1, <3>1, <3>3, <3>4, <3>5, Zenon DEF HInv
  <2>5. CASE DecodeDone
    <3>1. pc = "decode" /\ pc' = "text" /\ chunk' = chunk
      BY <2>5 DEF DecodeDone
    <3>2. Decoded(bin).got = NoInput
      <4>1. Decoded(bin).take = 0 /\ bin \in Seq(Byte) /\ Len(bin) <= DrLen /\ Len(bin) < DrLen
        BY <2>5, DecodedFacts DEF DecodeDone, HInv, IInv, TypeOK, BinaryBacklog
      <4>2. Decoded(bin) = Skip(0)
        BY <4>1, DecodedShort, Zenon
      <4>. QED BY <4>2 DEF Skip
    <3>3. accepted' = accepted
      BY <1>5, <3>1, <3>2, Zenon DEF Recorded, Log
    <3>4. PICK s \in Seq(Byte) : rx = Append(s, Head(chunk)) /\ Within(Reading(s))
      BY <2>3, <3>1
    <3>5. /\ rx' = rx /\ rx' \in Seq(Byte) /\ accepted' \in Seq(Accepted)
          /\ pc' \notin {"byte", "drain", "sleep"}
      BY <2>3, <3>1, <3>3 DEF HInv
    <3>6. Within(Reading(s))'
      BY <2>5, <3>3, <3>4, <3>5, DecodedSettles, Zenon
    <3>. QED BY <1>1, <3>1, <3>4, <3>5, <3>6, Zenon DEF HInv
  <2>6. CASE TextStep
    <3>1. pc = "text" /\ pc # "decode" /\ pc' = "byte" /\ pc' \notin {"decode", "text"}
      BY <2>6 DEF TextStep
    <3>2. Log(LineInput(line, Head(chunk)))
      BY <1>5, <3>1, Zenon DEF Recorded
    <3>3. PICK s \in Seq(Byte) : rx = Append(s, Head(chunk)) /\ Within(Reading(s))
      BY <2>3, <3>1
    <3>4. rx' = rx /\ rx' \in Seq(Byte)
      BY <2>3, <3>1 DEF HInv
    <3>5. PICK q : q = Reading(rx)
      OBVIOUS
    <3>6. Between(q)' /\ accepted' \in Seq(Accepted)
      BY <2>6, <3>2, <3>3, <3>4, <3>5, TextSettles, Zenon
    <3>7. Between(Reading(rx))'
      BY <3>4, <3>5, <3>6, Zenon DEF Between
    <3>. QED BY <1>1, <3>1, <3>4, <3>6, <3>7, Zenon DEF HInv
  <2>. QED BY <1>5, <2>1, <2>2, <2>4, <2>5, <2>6 DEF Recorded, ThreadStep
<1>. QED BY <1>3, <1>4, <1>5 DEF HistNext

(* However the operator's bytes are cut into chunks, the inputs the module *)
(* has accepted are those the reference decoder reads in the bytes taken   *)
(* from the queue, each once and in order: the incremental decoder, its    *)
(* buffers and the interleaving of the two decoders add and lose nothing.  *)
THEOREM AcceptedAreAlwaysTheStreamsFrames == HistSpec => []AcceptedAreTheStreamsFrames
<1>1. HInv => AcceptedAreTheStreamsFrames
  BY DEF HInv, AcceptedAreTheStreamsFrames, Between
<1>2. HistSpec => []HInv
  BY InitHInv, StepHInv, PTL DEF HistSpec
<1>. QED BY <1>1, <1>2, PTL

-----------------------------------------------------------------------------
(* The frames of the remotes and of the PC link.  Numerals are kept out of *)
(* sight of Zenon, which counts them out.                                  *)

Octet == 0 .. 255
UInt11 == 0 .. 2047

\* The bytes i .. i + 5 hold four fields of eleven bits and what else is
\* in the last four bits.
HoldsChannels(f, i, c, rest) ==
  /\ f[i] = c[1] % 256
  /\ f[i + 1] = c[1] \div 256 + 8 * (c[2] % 32)
  /\ f[i + 2] = c[2] \div 32 + 64 * (c[3] % 4)
  /\ f[i + 3] = (c[3] \div 4) % 256
  /\ f[i + 4] = c[3] \div 1024 + 2 * (c[4] % 128)
  /\ f[i + 5] = c[4] \div 128 + 16 * rest

LEMMA Low11Of ==
  ASSUME NEW q \in Nat, NEW r \in UInt11, NEW n, n = 2048 * q + r
  PROVE  Low11(n) = r
  BY DEF Low11, UInt11

LEMMA LowParts ==
  ASSUME NEW x \in UInt11
  PROVE  /\ x % 256 \in 0 .. 255 /\ x \div 256 \in 0 .. 7 /\ x = 256 * (x \div 256) + (x % 256)
         /\ x % 32 \in 0 .. 31 /\ x \div 32 \in 0 .. 63 /\ x = 32 * (x \div 32) + (x % 32)
         /\ x % 128 \in 0 .. 127 /\ x \div 128 \in 0 .. 15 /\ x = 128 * (x \div 128) + (x % 128)
<1>1. x % 256 \in 0 .. 255 /\ x \div 256 \in 0 .. 7 /\ x = 256 * (x \div 256) + (x % 256)
  BY DEF UInt11
<1>2. x % 32 \in 0 .. 31 /\ x \div 32 \in 0 .. 63 /\ x = 32 * (x \div 32) + (x % 32)
  BY DEF UInt11
<1>3. x % 128 \in 0 .. 127 /\ x \div 128 \in 0 .. 15 /\ x = 128 * (x \div 128) + (x % 128)
  BY DEF UInt11
<1>. QED BY <1>1, <1>2, <1>3

LEMMA MiddleParts ==
  ASSUME NEW x \in UInt11
  PROVE  /\ x % 4 \in 0 .. 3 /\ (x \div 4) % 256 \in 0 .. 255 /\ x \div 1024 \in 0 .. 1
         /\ x = 1024 * (x \div 1024) + 4 * ((x \div 4) % 256) + (x % 4)
<1>1. x % 4 \in 0 .. 3 /\ x = 4 * (x \div 4) + (x % 4) /\ x \div 4 \in 0 .. 511
  BY DEF UInt11
<1>2. /\ (x \div 4) % 256 \in 0 .. 255
      /\ x \div 4 = 256 * ((x \div 4) \div 256) + ((x \div 4) % 256)
  BY <1>1
<1>3. x \div 1024 \in 0 .. 1 /\ (x \div 4) \div 256 = x \div 1024
  BY DEF UInt11
<1>. QED BY <1>1, <1>2, <1>3

LEMMA ChannelsRead ==
  ASSUME NEW f, NEW i \in Nat, NEW c \in [1 .. 4 -> UInt11], NEW rest \in 0 .. 15,
         HoldsChannels(f, i, c, rest)
  PROVE  /\ Channels(f, i) = <<c[1], c[2], c[3], c[4]>>
         /\ f[i + 5] \div 16 = rest
<1>. PICK a, b, d, e : a = c[1] /\ b = c[2] /\ d = c[3] /\ e = c[4]
  OBVIOUS
<1>1. a \in UInt11 /\ b \in UInt11 /\ d \in UInt11 /\ e \in UInt11
  OBVIOUS
<1>2. PICK al, ah, bl, bh, dl, dk, dh, el, eh :
        /\ al = a % 256 /\ ah = a \div 256 /\ bl = b % 32 /\ bh = b \div 32
        /\ dl = d % 4 /\ dk = (d \div 4) % 256 /\ dh = d \div 1024
        /\ el = e % 128 /\ eh = e \div 128
  OBVIOUS
<1>3. al \in 0 .. 255 /\ ah \in 0 .. 7 /\ a = 256 * ah + al
  BY <1>1, <1>2, LowParts
<1>4. bl \in 0 .. 31 /\ bh \in 0 .. 63 /\ b = 32 * bh + bl
  BY <1>1, <1>2, LowParts
<1>5. /\ dl \in 0 .. 3 /\ dk \in 0 .. 255 /\ dh \in 0 .. 1
      /\ d = 1024 * dh + 4 * dk + dl
  BY <1>1, <1>2, MiddleParts
<1>6. el \in 0 .. 127 /\ eh \in 0 .. 15 /\ e = 128 * eh + el
  BY <1>1, <1>2, LowParts
<1>7. /\ f[i] = al /\ f[i + 1] = ah + 8 * bl /\ f[i + 2] = bh + 64 * dl
      /\ f[i + 3] = dk /\ f[i + 4] = dh + 2 * el /\ f[i + 5] = eh + 16 * rest
  BY <1>2 DEF HoldsChannels
<1>8. Low11(f[i] + 256 * f[i + 1]) = a
  <2>. PICK n : n = f[i] + 256 * f[i + 1]
    OBVIOUS
  <2>1. n = 2048 * bl + a /\ bl \in Nat
    BY <1>3, <1>4, <1>7
  <2>2. Low11(n) = a
    BY <1>1, <2>1, Low11Of
  <2>. QED BY <2>2, Zenon
<1>9. Low11((f[i + 1] \div 8) + 32 * f[i + 2]) = b
  <2>1. f[i + 1] \div 8 = bl
    BY <1>3, <1>4, <1>7
  <2>. PICK n : n = (f[i + 1] \div 8) + 32 * f[i + 2]
    OBVIOUS
  <2>2. n = 2048 * dl + b /\ dl \in Nat
    BY <1>4, <1>5, <1>7, <2>1
  <2>3. Low11(n) = b
    BY <1>1, <2>2, Low11Of
  <2>. QED BY <2>3, Zenon
<1>10. Low11((f[i + 2] \div 64) + 4 * f[i + 3] + 1024 * f[i + 4]) = d
  <2>1. f[i + 2] \div 64 = dl
    BY <1>4, <1>5, <1>7
  <2>. PICK n : n = (f[i + 2] \div 64) + 4 * f[i + 3] + 1024 * f[i + 4]
    OBVIOUS
  <2>2. n = 2048 * el + d /\ el \in Nat
    BY <1>5, <1>6, <1>7, <2>1
  <2>3. Low11(n) = d
    BY <1>1, <2>2, Low11Of
  <2>. QED BY <2>3, Zenon
<1>11. Low11((f[i + 4] \div 2) + 128 * f[i + 5]) = e
  <2>1. f[i + 4] \div 2 = el
    BY <1>5, <1>6, <1>7
  <2>. PICK n : n = (f[i + 4] \div 2) + 128 * f[i + 5]
    OBVIOUS
  <2>2. n = 2048 * rest + e /\ rest \in Nat
    BY <1>6, <1>7, <2>1
  <2>3. Low11(n) = e
    BY <1>1, <2>2, Low11Of
  <2>. QED BY <2>3, Zenon
<1>12. f[i + 5] \div 16 = rest
  BY <1>6, <1>7
<1>. QED
  BY <1>8, <1>9, <1>10, <1>11, <1>12 DEF Channels


\* The frame of a DR16 remote with sticks at c, the wheel at w and the
\* switches at s1 and s2.
Dr16Holds(f, c, w, s1, s2) ==
  /\ HoldsChannels(f, 0, c, 4 * s1 + s2)
  /\ f[16] = w % 256 /\ f[17] = w \div 256

InRange == 364 .. 1684

Within660(x) == -660 <= x /\ x <= 660

LEMMA WithinRange ==
  ASSUME NEW raw \in UInt11, NEW y, y = raw - 1024
  PROVE  Within660(y) <=> raw \in InRange
  BY DEF Within660, InRange, UInt11

LEMMA AllWithin ==
  ASSUME NEW z, NEW x
  PROVE  (\A y \in {z[i] : i \in 1 .. 4} \cup {x} : Within660(y))
           <=> (\A i \in 1 .. 4 : Within660(z[i])) /\ Within660(x)
OBVIOUS

(* A DR16 frame is read as it was sent, for every position of the sticks,  *)
(* of the wheel and of the switches, and rejected exactly when an axis is  *)
(* more than 660 off its centre or a switch is in no position.             *)
THEOREM Dr16ReadsEveryFrame ==
  ASSUME NEW f, NEW c \in [1 .. 4 -> UInt11], NEW w \in UInt11,
         NEW s1 \in 0 .. 3, NEW s2 \in 0 .. 3, Dr16Holds(f, c, w, s1, s2)
  PROVE  Dr16Frame(f) =
           IF (\A i \in 1 .. 4 : c[i] \in InRange) /\ w \in InRange /\ s1 # 0 /\ s2 # 0
           THEN [sticks |-> [i \in 1 .. 4 |-> c[i] - 1024], wheel |-> 1024 - w,
                 left |-> s1, right |-> s2, chassis_enable |-> s2 = 1]
           ELSE Rejected
<1>1. 4 * s1 + s2 \in 0 .. 15
  OBVIOUS
<1>2. /\ Channels(f, 0) = <<c[1], c[2], c[3], c[4]>>
      /\ f[5] \div 16 = 4 * s1 + s2
  <2>1. HoldsChannels(f, 0, c, 4 * s1 + s2)
    BY DEF Dr16Holds
  <2>2. 0 + 5 = 5
    OBVIOUS
  <2>. QED BY <1>1, <2>1, <2>2, ChannelsRead
<1>3. Sw1(f) = s1
  BY <1>2, (4 * s1 + s2) \div 4 = s1, s1 % 4 = s1 DEF Sw1
<1>4. Sw2(f) = s2
  BY <1>2, (4 * s1 + s2) % 4 = s2 DEF Sw2
<1>5. Wheel(f) = 1024 - w
  <2>1. f[16] + 256 * f[17] = 2048 * 0 + w
    BY LowParts DEF Dr16Holds, UInt11
  <2>2. Low11(f[16] + 256 * f[17]) = w
    BY <2>1, Low11Of
  <2>. QED BY <2>2 DEF Wheel
<1>. DEFINE ch == [i \in 1 .. 4 |-> Channels(f, 0)[i] - 1024]
            ok == \A x \in {ch[i] : i \in 1 .. 4} \cup {Wheel(f)} : -660 <= x /\ x <= 660
<1>6. ch = [i \in 1 .. 4 |-> c[i] - 1024]
  <2>1. \A i \in 1 .. 4 : Channels(f, 0)[i] = c[i]
    BY <1>2
  <2>. QED BY <2>1
<1>7. ok <=> (\A i \in 1 .. 4 : c[i] \in InRange) /\ w \in InRange
  <2>1. ok <=> (\A i \in 1 .. 4 : Within660(ch[i])) /\ Within660(Wheel(f))
    <3>1. ok <=> \A y \in {ch[i] : i \in 1 .. 4} \cup {Wheel(f)} : Within660(y)
      BY Zenon DEF Within660
    <3>. HIDE DEF ch, ok
    <3>. QED BY <3>1, AllWithin, Zenon
  <2>2. ASSUME NEW i \in 1 .. 4
        PROVE  Within660(ch[i]) <=> c[i] \in InRange
    <3>1. c[i] \in UInt11 /\ ch[i] = c[i] - 1024
      BY <1>6
    <3>. HIDE DEF ch, ok
    <3>. QED BY <3>1, WithinRange
  <2>3. Within660(Wheel(f)) <=> w \in InRange
    BY <1>5 DEF InRange, UInt11, Within660
  <2>. HIDE DEF ch, ok
  <2>. QED BY <2>1, <2>2, <2>3
<1>8. Dr16Frame(f) =
        IF ok /\ Sw1(f) \in 1 .. 3 /\ Sw2(f) \in 1 .. 3
        THEN [sticks |-> ch, wheel |-> Wheel(f), left |-> Sw1(f), right |-> Sw2(f),
              chassis_enable |-> Sw2(f) = 1]
        ELSE Rejected
  BY DEF Dr16Frame
<1>9. (s1 \in 1 .. 3 <=> s1 # 0) /\ (s2 \in 1 .. 3 <=> s2 # 0)
  OBVIOUS
<1>. HIDE DEF ch, ok
<1>. QED BY <1>3, <1>4, <1>5, <1>6, <1>7, <1>8, <1>9

\* The frame of a VT03 remote with sticks at c, the wheel at w and the
\* mode switch at m; what else the bytes 7 to 9 hold does not matter.
Vt03Holds(f, c, w, m) ==
  /\ f[0] = 169 /\ f[1] = 83
  /\ \E high \in 0 .. 3 : HoldsChannels(f, 2, c, m + 4 * high)
  /\ \E low \in 0 .. 1, high \in 0 .. 15 :
       f[8] = low + 2 * (w % 128) /\ f[9] = w \div 128 + 16 * high

(* A frame of the VT03 remote is read as it was sent, for every position   *)
(* of the sticks, of the wheel and of the mode switch, whatever its other  *)
(* bits are.                                                               *)
THEOREM Vt03ReadsEveryFrame ==
  ASSUME NEW f, NEW c \in [1 .. 4 -> UInt11], NEW w \in UInt11, NEW m \in 0 .. 3,
         Vt03Holds(f, c, w, m)
  PROVE  Vt03Frame(f) =
           [sticks |-> [i \in 1 .. 4 |-> DecodeAxis(c[i])], wheel |-> DecodeAxis(w), mode |-> m,
            chassis_enable |-> m # 1]
<1>1. PICK high \in 0 .. 3 : HoldsChannels(f, 2, c, m + 4 * high)
  BY DEF Vt03Holds
<1>2. /\ Channels(f, 2) = <<c[1], c[2], c[3], c[4]>>
      /\ f[7] \div 16 = m + 4 * high
  <2>1. m + 4 * high \in 0 .. 15 /\ 2 + 5 = 7
    OBVIOUS
  <2>. QED BY <1>1, <2>1, ChannelsRead
<1>3. ModeSwitch(f) = m
  BY <1>2, (m + 4 * high) % 4 = m DEF ModeSwitch
<1>4. WheelRaw(f) = w
  <2>1. PICK l \in 0 .. 1, h \in 0 .. 15 :
          f[8] = l + 2 * (w % 128) /\ f[9] = w \div 128 + 16 * h
    BY DEF Vt03Holds
  <2>2. PICK wl, wh : wl = w % 128 /\ wh = w \div 128
    OBVIOUS
  <2>3. wl \in 0 .. 127 /\ wh \in 0 .. 15 /\ w = 128 * wh + wl
    BY <2>2, LowParts
  <2>4. f[8] = l + 2 * wl /\ f[9] = wh + 16 * h
    BY <2>1, <2>2
  <2>5. f[8] \div 2 = wl
    BY <2>3, <2>4
  <2>6. (f[8] \div 2) + 128 * f[9] = 2048 * h + w
    BY <2>3, <2>4, <2>5
  <2>. QED BY <2>6, Low11Of DEF WheelRaw
<1>5. \A i \in 1 .. 4 : Channels(f, 2)[i] = c[i]
  BY <1>2
<1>6. f[0] = 169 /\ f[1] = 83
  BY DEF Vt03Holds
<1>. QED BY <1>3, <1>4, <1>5, <1>6 DEF Vt03Frame

\* The numbers of two bytes, 0 .. 65535.
UInt16 == {256 * h + l : h \in Octet, l \in Octet}

LEMMA TwoBytes ==
  ASSUME NEW n \in UInt16
  PROVE  /\ n % 256 \in Octet /\ (n \div 256) % 256 \in Octet
         /\ (n % 256) + 256 * ((n \div 256) % 256) = n
<1>1. PICK h \in Octet, l \in Octet : n = 256 * h + l
  BY DEF UInt16
<1>2. n \in Nat /\ n % 256 = l /\ n \div 256 = h /\ h % 256 = h
  BY <1>1 DEF Octet
<1>. QED BY <1>1, <1>2 DEF Octet

LEMMA TwoBytesMake ==
  ASSUME NEW h \in Octet, NEW l \in Octet, NEW n, n = 256 * h + l
  PROVE  n \in UInt16
  BY DEF UInt16

LEMMA UpToIsUInt16 ==
  ASSUME NEW m, m = 256 * 255 + 255, NEW n \in Nat, n <= m
  PROVE  n \in UInt16
<1>. PICK h, l : h = n \div 256 /\ l = n % 256
  OBVIOUS
<1>1. n = 256 * h + l /\ l \in Octet /\ h \in Nat
  BY SMT DEF Octet
<1>2. h \in Octet
  BY <1>1, SMT DEF Octet
<1>. QED BY <1>1, <1>2, TwoBytesMake

LEMMA ShortIsUInt16 == \A n \in Nat : n <= 65535 => n \in UInt16
<1>1. 65535 = 256 * 255 + 255
  BY SMT
<1>. QED BY <1>1, UpToIsUInt16

\* The header and the frame that PcEncode builds.
PcHeader(cmd, n) ==
  <<165, n % 256, (n \div 256) % 256, 0, 0, cmd % 256, (cmd \div 256) % 256>>
HasRoom(n, capacity) == n <= 65535 /\ capacity >= 7 + n
Framed(h, payload, n) == [i \in 0 .. 6 + n |-> IF i < 7 THEN h[i + 1] ELSE payload[i - 6]]

LEMMA HeaderParts ==
  ASSUME NEW cmd, NEW n
  PROVE  /\ PcHeader(cmd, n)[1] = 165
         /\ PcHeader(cmd, n)[2] = n % 256 /\ PcHeader(cmd, n)[3] = (n \div 256) % 256
         /\ PcHeader(cmd, n)[4] = 0 /\ PcHeader(cmd, n)[5] = 0
         /\ PcHeader(cmd, n)[6] = cmd % 256 /\ PcHeader(cmd, n)[7] = (cmd \div 256) % 256
  BY DEF PcHeader

LEMMA PcEncodeFrames ==
  ASSUME NEW cmd, NEW payload, NEW capacity \in Nat, Len(payload) \in Nat
  PROVE  PcEncode(cmd, payload, capacity) =
           IF HasRoom(Len(payload), capacity)
           THEN Framed(PcHeader(cmd, Len(payload)), payload, Len(payload))
           ELSE Rejected
<1>1. PcEncode(cmd, payload, capacity) =
        IF Len(payload) > 65535 \/ capacity < 7 + Len(payload) THEN Rejected
        ELSE Framed(PcHeader(cmd, Len(payload)), payload, Len(payload))
  BY DEF PcEncode, Framed, PcHeader
<1>. QED BY <1>1, SMT DEF HasRoom

LEMMA FramedParts ==
  ASSUME NEW h, NEW payload, NEW n \in Nat
  PROVE  /\ DOMAIN Framed(h, payload, n) = 0 .. 6 + n
         /\ \A i \in 0 .. 6 : Framed(h, payload, n)[i] = h[i + 1]
         /\ \A i \in 1 .. n : Framed(h, payload, n)[6 + i] = payload[i]
<1>1. \A i \in 0 .. 6 : i \in 0 .. 6 + n /\ i < 7
  OBVIOUS
<1>2. \A i \in 1 .. n : 6 + i \in 0 .. 6 + n /\ ~(6 + i < 7) /\ (6 + i) - 6 = i
  OBVIOUS
<1>. QED BY <1>1, <1>2, Zenon DEF Framed

LEMMA FramedHeader ==
  ASSUME NEW h, NEW payload, NEW n \in Nat, NEW f, f = Framed(h, payload, n)
  PROVE  /\ f[0] = h[1] /\ f[1] = h[2] /\ f[2] = h[3]
         /\ f[3] = h[4] /\ f[4] = h[5] /\ f[5] = h[6] /\ f[6] = h[7]
<1>1. \A i \in 0 .. 6 : f[i] = h[i + 1]
  BY FramedParts
<1>. QED BY <1>1

LEMMA RoomIsShort ==
  ASSUME NEW n \in Nat, NEW capacity \in Nat, HasRoom(n, capacity)
  PROVE  n \in UInt16
<1>1. n <= 65535
  BY DEF HasRoom
<1>. QED BY <1>1, ShortIsUInt16

\* f begins as the frame of a payload of n bytes.
PcBegins(f, n) ==
  f[0] = 165 /\ f[1] \in Octet /\ f[2] \in Octet /\ f[1] + 256 * f[2] = n

\* The command and the n bytes of payload of f.
Contents(f, n) == [cmd |-> f[5] + 256 * f[6], payload |-> [i \in 1 .. n |-> f[6 + i]]]

LEMMA PcDecodeReads ==
  ASSUME NEW f, NEW len \in Nat, NEW n, PcBegins(f, n)
  PROVE  PcDecode(f, len) =
           IF len < 7 + n THEN Rejected
           ELSE Contents(f, n)
<1>. PICK a, b : a = f[1] /\ b = f[2]
  OBVIOUS
<1>1. a \in 0 .. 255 /\ b \in 0 .. 255 /\ n = a + 256 * b
  BY DEF Octet, PcBegins
<1>2. n \in Nat /\ 7 + a + 256 * b = 7 + n
  BY <1>1
<1>3. 7 + f[1] + 256 * f[2] = 7 + n
  BY <1>2
<1>4. len < 7 \/ f[0] # 165 \/ len < 7 + n <=> len < 7 + n
  BY <1>2 DEF PcBegins
<1>5. PcDecode(f, len) =
        IF len < 7 \/ f[0] # 165 \/ len < 7 + f[1] + 256 * f[2] THEN Rejected
        ELSE [cmd |-> f[5] + 256 * f[6],
              payload |-> [i \in 1 .. f[1] + 256 * f[2] |-> f[6 + i]]]
  BY DEF PcDecode
<1>6. len < 7 + n => PcDecode(f, len) = Rejected
  BY <1>3, <1>4, <1>5
<1>7. ~(len < 7 + n) =>
        PcDecode(f, len) =
          [cmd |-> f[5] + 256 * f[6],
           payload |-> [i \in 1 .. f[1] + 256 * f[2] |-> f[6 + i]]]
  BY <1>3, <1>4, <1>5
<1>8. f[1] + 256 * f[2] = n
  BY DEF PcBegins
<1>. QED BY <1>6, <1>7, <1>8, Zenon DEF Contents

(* A frame of the PC link, of any command and any payload, is decoded to   *)
(* what was encoded; with a byte missing it is rejected, and so is an      *)
(* encoding that does not fit.                                             *)
THEOREM PcLinkReadsEveryFrame ==
  ASSUME NEW cmd \in UInt16, NEW payload \in Seq(Octet), NEW capacity \in Nat,
         NEW f, f = PcEncode(cmd, payload, capacity)
  PROVE  IF HasRoom(Len(payload), capacity)
         THEN /\ PcDecode(f, 7 + Len(payload)) = [cmd |-> cmd, payload |-> payload]
              /\ \A k \in 0 .. 6 + Len(payload) : PcDecode(f, k) = Rejected
         ELSE f = Rejected
<1>. PICK n : n = Len(payload)
  OBVIOUS
<1>1. n \in Nat /\ payload = [i \in 1 .. n |-> payload[i]]
  OBVIOUS
<1>2. CASE ~HasRoom(n, capacity)
  BY <1>1, <1>2, PcEncodeFrames, Zenon
<1>3. CASE HasRoom(n, capacity)
  <2>. PICK h : h = PcHeader(cmd, n)
    OBVIOUS
  <2>1. f = Framed(h, payload, n)
    BY <1>1, <1>3, PcEncodeFrames, Zenon
  <2>2. n \in UInt16
    BY <1>1, <1>3, RoomIsShort, Zenon
  <2>3. /\ h[1] = 165 /\ h[2] = n % 256 /\ h[3] = (n \div 256) % 256
        /\ h[6] = cmd % 256 /\ h[7] = (cmd \div 256) % 256
    BY HeaderParts
  <2>4. h[2] \in Octet /\ h[3] \in Octet /\ h[2] + 256 * h[3] = n
    BY <2>2, <2>3, TwoBytes
  <2>5. h[6] + 256 * h[7] = cmd
    BY <2>3, TwoBytes
  <2>6. f[0] = h[1] /\ f[1] = h[2] /\ f[2] = h[3] /\ f[5] = h[6] /\ f[6] = h[7]
    BY <1>1, <2>1, FramedHeader
  <2>7. PcBegins(f, n)
    BY <2>3, <2>4, <2>6 DEF PcBegins
  <2>8. f[5] + 256 * f[6] = cmd
    BY <2>5, <2>6
  <2>9. [i \in 1 .. n |-> f[6 + i]] = payload
    <3>1. \A i \in 1 .. n : f[6 + i] = payload[i]
      BY <1>1, <2>1, FramedParts
    <3>2. [i \in 1 .. n |-> f[6 + i]] = [i \in 1 .. n |-> payload[i]]
      BY <3>1, Zenon
    <3>. QED BY <1>1, <3>2, Zenon
  <2>10. PcDecode(f, 7 + n) = [cmd |-> cmd, payload |-> payload]
    <3>. PICK len : len = 7 + n
      OBVIOUS
    <3>1. len \in Nat /\ ~(len < 7 + n)
      BY <1>1
    <3>2. PcDecode(f, len) = Contents(f, n)
      BY <2>7, <3>1, PcDecodeReads, Zenon
    <3>. QED BY <2>8, <2>9, <3>2, Zenon DEF Contents
  <2>11. ASSUME NEW k \in 0 .. 6 + n PROVE PcDecode(f, k) = Rejected
    <3>1. k \in Nat /\ k < 7 + n
      BY <1>1
    <3>. QED BY <1>1, <2>7, <3>1, PcDecodeReads, Zenon
  <2>. QED BY <1>3, <2>10, <2>11, Zenon
<1>. QED BY <1>2, <1>3, Zenon

-----------------------------------------------------------------------------
(* The decoders' shifts and masks against fields of bits.                  *)

\* q is what a mask of eleven bits takes away from n.
Masked(n, q, r) == q \in Nat /\ n = 2048 * q + r

LEMMA Low11Masks == ASSUME NEW n, NEW q, NEW r \in UInt11, Masked(n, q, r) PROVE Low11(n) = r
  BY Low11Of DEF Masked

(* The fields as bits.  Eight bits make a byte ...                         *)
LEMMA BitAt ==
  ASSUME NEW f, NEW j \in Nat, NEW k \in 0 .. 7, NEW w, w = Weight[1 + k]
  PROVE  Bit(f, 8 * j + k) = (f[j] \div w) % 2
<1>1. (8 * j + k) \div 8 = j /\ (8 * j + k) % 8 = k
  OBVIOUS
<1>. QED BY <1>1 DEF Bit

\* The bits of the byte j, from the lowest one.
HasBits(f, j, b0, b1, b2, b3, b4, b5, b6, b7) ==
  /\ f[j] = b0 + 2 * b1 + 4 * b2 + 8 * b3 + 16 * b4 + 32 * b5 + 64 * b6 + 128 * b7
  /\ Bit(f, 8 * j) = b0 /\ Bit(f, 8 * j + 1) = b1
  /\ Bit(f, 8 * j + 2) = b2 /\ Bit(f, 8 * j + 3) = b3
  /\ Bit(f, 8 * j + 4) = b4 /\ Bit(f, 8 * j + 5) = b5
  /\ Bit(f, 8 * j + 6) = b6 /\ Bit(f, 8 * j + 7) = b7

LEMMA Halves ==
  ASSUME NEW x \in Nat
  PROVE  /\ x = 2 * (x \div 2) + (x % 2) /\ x % 2 \in 0 .. 1 /\ x \div 2 \in Nat
         /\ (x \div 2) \div 2 = x \div 4 /\ (x \div 4) \div 2 = x \div 8
         /\ (x \div 8) \div 2 = x \div 16 /\ (x \div 16) \div 2 = x \div 32
         /\ (x \div 32) \div 2 = x \div 64 /\ (x \div 64) \div 2 = x \div 128
OBVIOUS

LEMMA Quotients ==
  ASSUME NEW x \in 0 .. 255
  PROVE  /\ x \in Nat /\ x \div 2 \in Nat /\ x \div 4 \in Nat /\ x \div 8 \in Nat
         /\ x \div 16 \in Nat /\ x \div 32 \in Nat /\ x \div 64 \in Nat /\ x \div 128 \in 0 .. 1
OBVIOUS

LEMMA Halve ==
  ASSUME NEW x \in Nat, NEW y, y = x \div 2, NEW b, b = x % 2
  PROVE  x = 2 * y + b /\ b \in 0 .. 1
OBVIOUS

LEMMA BitsOf ==
  ASSUME NEW f, NEW j \in Nat, f[j] \in Octet
  PROVE  \E b0, b1, b2, b3, b4, b5, b6, b7 \in 0 .. 1 :
           HasBits(f, j, b0, b1, b2, b3, b4, b5, b6, b7)
<1>. PICK x : x = f[j]
  OBVIOUS
<1>1. x \in 0 .. 255
  BY DEF Octet
<1>2. /\ Weight[1] = 1 /\ Weight[2] = 2 /\ Weight[3] = 4 /\ Weight[4] = 8
      /\ Weight[5] = 16 /\ Weight[6] = 32 /\ Weight[7] = 64 /\ Weight[8] = 128
  BY DEF Weight
<1>3. /\ Bit(f, 8 * j + 0) = (x \div 1) % 2 /\ Bit(f, 8 * j + 1) = (x \div 2) % 2
      /\ Bit(f, 8 * j + 2) = (x \div 4) % 2 /\ Bit(f, 8 * j + 3) = (x \div 8) % 2
      /\ Bit(f, 8 * j + 4) = (x \div 16) % 2 /\ Bit(f, 8 * j + 5) = (x \div 32) % 2
      /\ Bit(f, 8 * j + 6) = (x \div 64) % 2 /\ Bit(f, 8 * j + 7) = (x \div 128) % 2
  BY <1>2, BitAt
<1>4. 8 * j + 0 = 8 * j /\ x \div 1 = x
  BY <1>1
<1>a. PICK x1, x2, x3, x4, x5, x6, x7 :
       /\ x1 = x \div 2 /\ x2 = x \div 4 /\ x3 = x \div 8 /\ x4 = x \div 16
       /\ x5 = x \div 32 /\ x6 = x \div 64 /\ x7 = x \div 128
  OBVIOUS
<1>b. PICK b0, b1, b2, b3, b4, b5, b6, b7 :
       /\ b0 = x % 2 /\ b1 = x1 % 2 /\ b2 = x2 % 2 /\ b3 = x3 % 2
       /\ b4 = x4 % 2 /\ b5 = x5 % 2 /\ b6 = x6 % 2 /\ b7 = x7 % 2
  OBVIOUS
<1>5. /\ x2 = x1 \div 2 /\ x3 = x2 \div 2 /\ x4 = x3 \div 2 /\ x5 = x4 \div 2
      /\ x6 = x5 \div 2 /\ x7 = x6 \div 2
  BY <1>1, <1>a, Halves, SMTT(30)
<1>6. x \in Nat /\ x1 \in Nat /\ x2 \in Nat /\ x3 \in Nat /\ x4 \in Nat /\ x5 \in Nat
      /\ x6 \in Nat /\ x7 \in 0 .. 1
  BY <1>1, <1>a, Quotients
<1>7. x7 \in Nat /\ b7 = x7
  BY <1>6, <1>b
<1>8. /\ x = 2 * x1 + b0 /\ b0 \in 0 .. 1
      /\ x1 = 2 * x2 + b1 /\ b1 \in 0 .. 1
      /\ x2 = 2 * x3 + b2 /\ b2 \in 0 .. 1
      /\ x3 = 2 * x4 + b3 /\ b3 \in 0 .. 1
      /\ x4 = 2 * x5 + b4 /\ b4 \in 0 .. 1
      /\ x5 = 2 * x6 + b5 /\ b5 \in 0 .. 1
      /\ x6 = 2 * x7 + b6 /\ b6 \in 0 .. 1
  <2>1. x = 2 * x1 + b0 /\ b0 \in 0 .. 1
    <3>1. x \in Nat /\ x1 = x \div 2 /\ b0 = x % 2
      BY <1>a, <1>b, <1>6
    <3>. QED BY <3>1, Halve
  <2>2. x1 = 2 * x2 + b1 /\ b1 \in 0 .. 1
    BY <1>a, <1>b, <1>5, <1>6, Halve
  <2>3. x2 = 2 * x3 + b2 /\ b2 \in 0 .. 1
    BY <1>a, <1>b, <1>5, <1>6, Halve
  <2>4. x3 = 2 * x4 + b3 /\ b3 \in 0 .. 1
    BY <1>a, <1>b, <1>5, <1>6, Halve
  <2>5. x4 = 2 * x5 + b4 /\ b4 \in 0 .. 1
    BY <1>a, <1>b, <1>5, <1>6, Halve
  <2>6. x5 = 2 * x6 + b5 /\ b5 \in 0 .. 1
    BY <1>a, <1>b, <1>5, <1>6, Halve
  <2>7. x6 = 2 * x7 + b6 /\ b6 \in 0 .. 1
    BY <1>a, <1>b, <1>5, <1>6, Halve
  <2>. QED BY <2>1, <2>2, <2>3, <2>4, <2>5, <2>6, <2>7
<1>9. x = b0 + 2 * b1 + 4 * b2 + 8 * b3 + 16 * b4 + 32 * b5 + 64 * b6 + 128 * b7
  BY <1>6, <1>7, <1>8, SMTT(30)
<1>10. HasBits(f, j, b0, b1, b2, b3, b4, b5, b6, b7)
  BY <1>3, <1>4, <1>a, <1>b, <1>9 DEF HasBits
<1>. QED BY <1>6, <1>7, <1>8, <1>10, Zenon

LEMMA SecondBits ==
  ASSUME NEW f, NEW j \in Nat, NEW b0, NEW b1, NEW b2, NEW b3, NEW b4, NEW b5,
         NEW b6, NEW b7, HasBits(f, j + 1, b0, b1, b2, b3, b4, b5, b6, b7)
  PROVE  /\ Bit(f, 8 * j + 8) = b0 /\ Bit(f, 8 * j + 9) = b1 /\ Bit(f, 8 * j + 10) = b2
         /\ Bit(f, 8 * j + 11) = b3 /\ Bit(f, 8 * j + 12) = b4 /\ Bit(f, 8 * j + 13) = b5
         /\ Bit(f, 8 * j + 14) = b6 /\ Bit(f, 8 * j + 15) = b7
<1>1. 8 * (j + 1) = 8 * j + 8
  OBVIOUS
<1>2. \A k \in 0 .. 7 : (8 * j + 8) + k = 8 * j + (8 + k)
  OBVIOUS
<1>. QED BY <1>1, <1>2 DEF HasBits

LEMMA ThirdBit ==
  ASSUME NEW f, NEW j \in Nat, NEW b0, NEW b1, NEW b2, NEW b3, NEW b4, NEW b5,
         NEW b6, NEW b7, HasBits(f, j + 2, b0, b1, b2, b3, b4, b5, b6, b7)
  PROVE  Bit(f, 8 * j + 16) = b0
<1>1. 8 * (j + 2) = 8 * j + 16
  OBVIOUS
<1>. QED BY <1>1 DEF HasBits

LEMMA Field11Of ==
  ASSUME NEW f, NEW i \in Nat, NEW b0, NEW b1, NEW b2, NEW b3, NEW b4, NEW b5, NEW b6, NEW b7,
         NEW b8, NEW b9, NEW b10,
         Bit(f, i) = b0, Bit(f, i + 1) = b1, Bit(f, i + 2) = b2, Bit(f, i + 3) = b3,
         Bit(f, i + 4) = b4, Bit(f, i + 5) = b5, Bit(f, i + 6) = b6, Bit(f, i + 7) = b7,
         Bit(f, i + 8) = b8, Bit(f, i + 9) = b9, Bit(f, i + 10) = b10
  PROVE  Field11(f, i) =
           b0 + 2 * b1 + 4 * (b2 + 2 * b3) + 16 * (b4 + 2 * b5) + 64 * (b6 + 2 * b7)
             + 256 * (b8 + 2 * b9) + 1024 * b10
<1>1. /\ (i + 2) + 1 = i + 3 /\ (i + 4) + 1 = i + 5 /\ (i + 6) + 1 = i + 7
      /\ (i + 8) + 1 = i + 9
  OBVIOUS
<1>. QED BY <1>1 DEF Field11, Field2

(* ... of which the decoders' shifts and masks take the fields.            *)
LEMMA FieldAt0 ==
  ASSUME NEW f, NEW j \in Nat, f[j] \in Octet, f[j + 1] \in Octet
  PROVE  Low11(f[j] + 256 * f[j + 1]) = Field11(f, 8 * j)
<1>a. PICK a0, a1, a2, a3, a4, a5, a6, a7 \in 0 .. 1 :
        HasBits(f, j + 0, a0, a1, a2, a3, a4, a5, a6, a7)
  <2>1. j + 0 \in Nat /\ f[j + 0] \in Octet
    BY j + 0 = j
  <2>. QED BY <2>1, BitsOf
<1>b. PICK b0, b1, b2, b3, b4, b5, b6, b7 \in 0 .. 1 :
        HasBits(f, j + 1, b0, b1, b2, b3, b4, b5, b6, b7)
  <2>1. j + 1 \in Nat /\ f[j + 1] \in Octet
    BY j + 0 = j
  <2>. QED BY <2>1, BitsOf
<1>1. /\ Bit(f, 8 * j) = a0 /\ Bit(f, 8 * j + 1) = a1 /\ Bit(f, 8 * j + 2) = a2 /\ Bit(f, 8 * j + 3) = a3
      /\ Bit(f, 8 * j + 4) = a4 /\ Bit(f, 8 * j + 5) = a5 /\ Bit(f, 8 * j + 6) = a6 /\ Bit(f, 8 * j + 7) = a7
      /\ Bit(f, 8 * j + 8) = b0 /\ Bit(f, 8 * j + 9) = b1 /\ Bit(f, 8 * j + 10) = b2
  <2>1. /\ Bit(f, 8 * j) = a0 /\ Bit(f, 8 * j + 1) = a1 /\ Bit(f, 8 * j + 2) = a2 /\ Bit(f, 8 * j + 3) = a3
        /\ Bit(f, 8 * j + 4) = a4 /\ Bit(f, 8 * j + 5) = a5 /\ Bit(f, 8 * j + 6) = a6 /\ Bit(f, 8 * j + 7) = a7
    BY <1>a, j + 0 = j DEF HasBits
  <2>. QED BY <2>1, <1>b, SecondBits
<1>r. PICK r : r = a0 + 2 * a1 + 4 * (a2 + 2 * a3) + 16 * (a4 + 2 * a5) + 64 * (a6 + 2 * a7)
           + 256 * (b0 + 2 * b1) + 1024 * b2
  OBVIOUS
<1>2. Field11(f, 8 * j) = r
  BY <1>1, <1>r, Field11Of
<1>3. r \in UInt11
  BY <1>r DEF UInt11
<1>q. PICK q : q = b3 + 2 * b4 + 4 * b5 + 8 * b6 + 16 * b7
  OBVIOUS
<1>n. PICK n : n = f[j] + 256 * f[j + 1]
  OBVIOUS
<1>4. Masked(n, q, r)
  <2>1. /\ f[j] = a0 + 2 * a1 + 4 * a2 + 8 * a3 + 16 * a4 + 32 * a5 + 64 * a6 + 128 * a7
        /\ f[j + 1] = b0 + 2 * b1 + 4 * b2 + 8 * b3 + 16 * b4 + 32 * b5 + 64 * b6 + 128 * b7
    BY <1>a, <1>b, j + 0 = j DEF HasBits
  <2>. QED BY <1>r, <1>q, <1>n, <2>1 DEF Masked
<1>5. Low11(n) = r
  BY <1>3, <1>4, Low11Masks, Zenon
<1>. QED BY <1>n, <1>2, <1>5

LEMMA FieldAt3 ==
  ASSUME NEW f, NEW j \in Nat, f[j] \in Octet, f[j + 1] \in Octet
  PROVE  Low11((f[j] \div 8) + 32 * f[j + 1]) = Field11(f, 8 * j + 3)
<1>a. PICK a0, a1, a2, a3, a4, a5, a6, a7 \in 0 .. 1 :
        HasBits(f, j + 0, a0, a1, a2, a3, a4, a5, a6, a7)
  <2>1. j + 0 \in Nat /\ f[j + 0] \in Octet
    BY j + 0 = j
  <2>. QED BY <2>1, BitsOf
<1>b. PICK b0, b1, b2, b3, b4, b5, b6, b7 \in 0 .. 1 :
        HasBits(f, j + 1, b0, b1, b2, b3, b4, b5, b6, b7)
  <2>1. j + 1 \in Nat /\ f[j + 1] \in Octet
    BY j + 0 = j
  <2>. QED BY <2>1, BitsOf
<1>1. /\ Bit(f, 8 * j + 3) = a3 /\ Bit(f, 8 * j + 4) = a4 /\ Bit(f, 8 * j + 5) = a5 /\ Bit(f, 8 * j + 6) = a6
      /\ Bit(f, 8 * j + 7) = a7 /\ Bit(f, 8 * j + 8) = b0 /\ Bit(f, 8 * j + 9) = b1 /\ Bit(f, 8 * j + 10) = b2
      /\ Bit(f, 8 * j + 11) = b3 /\ Bit(f, 8 * j + 12) = b4 /\ Bit(f, 8 * j + 13) = b5
  <2>1. /\ Bit(f, 8 * j + 3) = a3 /\ Bit(f, 8 * j + 4) = a4 /\ Bit(f, 8 * j + 5) = a5 /\ Bit(f, 8 * j + 6) = a6
        /\ Bit(f, 8 * j + 7) = a7
    BY <1>a, j + 0 = j DEF HasBits
  <2>. QED BY <2>1, <1>b, SecondBits
<1>r. PICK r : r = a3 + 2 * a4 + 4 * (a5 + 2 * a6) + 16 * (a7 + 2 * b0) + 64 * (b1 + 2 * b2)
           + 256 * (b3 + 2 * b4) + 1024 * b5
  OBVIOUS
<1>2. Field11(f, 8 * j + 3) = r
  <2>. PICK i : i = 8 * j + 3
    OBVIOUS
  <2>1. i \in Nat /\ i + 1 = 8 * j + 4 /\ i + 2 = 8 * j + 5 /\ i + 3 = 8 * j + 6 /\ i + 4 = 8 * j + 7 /\ i + 5 = 8 * j + 8 /\ i + 6 = 8 * j + 9 /\ i + 7 = 8 * j + 10 /\ i + 8 = 8 * j + 11 /\ i + 9 = 8 * j + 12 /\ i + 10 = 8 * j + 13
    OBVIOUS
  <2>2. Field11(f, i) = r
    BY <1>1, <1>r, <2>1, Field11Of
  <2>. QED BY <2>2
<1>3. r \in UInt11
  BY <1>r DEF UInt11
<1>q. PICK q : q = b6 + 2 * b7
  OBVIOUS
<1>n. PICK n : n = (f[j] \div 8) + 32 * f[j + 1]
  OBVIOUS
<1>4. Masked(n, q, r)
  <2>1. /\ f[j] = a0 + 2 * a1 + 4 * a2 + 8 * a3 + 16 * a4 + 32 * a5 + 64 * a6 + 128 * a7
        /\ f[j + 1] = b0 + 2 * b1 + 4 * b2 + 8 * b3 + 16 * b4 + 32 * b5 + 64 * b6 + 128 * b7
    BY <1>a, <1>b, j + 0 = j DEF HasBits
  <2>2. f[j] \div 8 = a3 + 2 * a4 + 4 * a5 + 8 * a6 + 16 * a7
    BY <2>1
  <2>. QED BY <1>r, <1>q, <1>n, <2>1, <2>2 DEF Masked
<1>5. Low11(n) = r
  BY <1>3, <1>4, Low11Masks, Zenon
<1>. QED BY <1>n, <1>2, <1>5

LEMMA FieldAt6 ==
  ASSUME NEW f, NEW j \in Nat, f[j] \in Octet, f[j + 1] \in Octet, f[j + 2] \in Octet
  PROVE  Low11((f[j] \div 64) + 4 * f[j + 1] + 1024 * f[j + 2]) = Field11(f, 8 * j + 6)
<1>a. PICK a0, a1, a2, a3, a4, a5, a6, a7 \in 0 .. 1 :
        HasBits(f, j + 0, a0, a1, a2, a3, a4, a5, a6, a7)
  <2>1. j + 0 \in Nat /\ f[j + 0] \in Octet
    BY j + 0 = j
  <2>. QED BY <2>1, BitsOf
<1>b. PICK b0, b1, b2, b3, b4, b5, b6, b7 \in 0 .. 1 :
        HasBits(f, j + 1, b0, b1, b2, b3, b4, b5, b6, b7)
  <2>1. j + 1 \in Nat /\ f[j + 1] \in Octet
    BY j + 0 = j
  <2>. QED BY <2>1, BitsOf
<1>c. PICK c0, c1, c2, c3, c4, c5, c6, c7 \in 0 .. 1 :
        HasBits(f, j + 2, c0, c1, c2, c3, c4, c5, c6, c7)
  <2>1. j + 2 \in Nat /\ f[j + 2] \in Octet
    BY j + 0 = j
  <2>. QED BY <2>1, BitsOf
<1>1. /\ Bit(f, 8 * j + 6) = a6 /\ Bit(f, 8 * j + 7) = a7 /\ Bit(f, 8 * j + 8) = b0 /\ Bit(f, 8 * j + 9) = b1
      /\ Bit(f, 8 * j + 10) = b2 /\ Bit(f, 8 * j + 11) = b3 /\ Bit(f, 8 * j + 12) = b4 /\ Bit(f, 8 * j + 13) = b5
      /\ Bit(f, 8 * j + 14) = b6 /\ Bit(f, 8 * j + 15) = b7 /\ Bit(f, 8 * j + 16) = c0
  <2>1. /\ Bit(f, 8 * j + 6) = a6 /\ Bit(f, 8 * j + 7) = a7
    BY <1>a, j + 0 = j DEF HasBits
  <2>. QED BY <2>1, <1>b, <1>c, SecondBits, ThirdBit
<1>r. PICK r : r = a6 + 2 * a7 + 4 * (b0 + 2 * b1) + 16 * (b2 + 2 * b3) + 64 * (b4 + 2 * b5)
           + 256 * (b6 + 2 * b7) + 1024 * c0
  OBVIOUS
<1>2. Field11(f, 8 * j + 6) = r
  <2>. PICK i : i = 8 * j + 6
    OBVIOUS
  <2>1. i \in Nat /\ i + 1 = 8 * j + 7 /\ i + 2 = 8 * j + 8 /\ i + 3 = 8 * j + 9 /\ i + 4 = 8 * j + 10 /\ i + 5 = 8 * j + 11 /\ i + 6 = 8 * j + 12 /\ i + 7 = 8 * j + 13 /\ i + 8 = 8 * j + 14 /\ i + 9 = 8 * j + 15 /\ i + 10 = 8 * j + 16
    OBVIOUS
  <2>2. Field11(f, i) = r
    BY <1>1, <1>r, <2>1, Field11Of
  <2>. QED BY <2>2
<1>3. r \in UInt11
  BY <1>r DEF UInt11
<1>q. PICK q : q = c1 + 2 * c2 + 4 * c3 + 8 * c4 + 16 * c5 + 32 * c6 + 64 * c7
  OBVIOUS
<1>n. PICK n : n = (f[j] \div 64) + 4 * f[j + 1] + 1024 * f[j + 2]
  OBVIOUS
<1>4. Masked(n, q, r)
  <2>1. /\ f[j] = a0 + 2 * a1 + 4 * a2 + 8 * a3 + 16 * a4 + 32 * a5 + 64 * a6 + 128 * a7
        /\ f[j + 1] = b0 + 2 * b1 + 4 * b2 + 8 * b3 + 16 * b4 + 32 * b5 + 64 * b6 + 128 * b7
        /\ f[j + 2] = c0 + 2 * c1 + 4 * c2 + 8 * c3 + 16 * c4 + 32 * c5 + 64 * c6 + 128 * c7
    BY <1>a, <1>b, <1>c, j + 0 = j DEF HasBits
  <2>2. f[j] \div 64 = a6 + 2 * a7
    BY <2>1
  <2>. QED BY <1>r, <1>q, <1>n, <2>1, <2>2 DEF Masked
<1>5. Low11(n) = r
  BY <1>3, <1>4, Low11Masks, Zenon
<1>. QED BY <1>n, <1>2, <1>5

LEMMA FieldAt1 ==
  ASSUME NEW f, NEW j \in Nat, f[j] \in Octet, f[j + 1] \in Octet
  PROVE  Low11((f[j] \div 2) + 128 * f[j + 1]) = Field11(f, 8 * j + 1)
<1>a. PICK a0, a1, a2, a3, a4, a5, a6, a7 \in 0 .. 1 :
        HasBits(f, j + 0, a0, a1, a2, a3, a4, a5, a6, a7)
  <2>1. j + 0 \in Nat /\ f[j + 0] \in Octet
    BY j + 0 = j
  <2>. QED BY <2>1, BitsOf
<1>b. PICK b0, b1, b2, b3, b4, b5, b6, b7 \in 0 .. 1 :
        HasBits(f, j + 1, b0, b1, b2, b3, b4, b5, b6, b7)
  <2>1. j + 1 \in Nat /\ f[j + 1] \in Octet
    BY j + 0 = j
  <2>. QED BY <2>1, BitsOf
<1>1. /\ Bit(f, 8 * j + 1) = a1 /\ Bit(f, 8 * j + 2) = a2 /\ Bit(f, 8 * j + 3) = a3 /\ Bit(f, 8 * j + 4) = a4
      /\ Bit(f, 8 * j + 5) = a5 /\ Bit(f, 8 * j + 6) = a6 /\ Bit(f, 8 * j + 7) = a7 /\ Bit(f, 8 * j + 8) = b0
      /\ Bit(f, 8 * j + 9) = b1 /\ Bit(f, 8 * j + 10) = b2 /\ Bit(f, 8 * j + 11) = b3
  <2>1. /\ Bit(f, 8 * j + 1) = a1 /\ Bit(f, 8 * j + 2) = a2 /\ Bit(f, 8 * j + 3) = a3 /\ Bit(f, 8 * j + 4) = a4
        /\ Bit(f, 8 * j + 5) = a5 /\ Bit(f, 8 * j + 6) = a6 /\ Bit(f, 8 * j + 7) = a7
    BY <1>a, j + 0 = j DEF HasBits
  <2>. QED BY <2>1, <1>b, SecondBits
<1>r. PICK r : r = a1 + 2 * a2 + 4 * (a3 + 2 * a4) + 16 * (a5 + 2 * a6) + 64 * (a7 + 2 * b0)
           + 256 * (b1 + 2 * b2) + 1024 * b3
  OBVIOUS
<1>2. Field11(f, 8 * j + 1) = r
  <2>. PICK i : i = 8 * j + 1
    OBVIOUS
  <2>1. i \in Nat /\ i + 1 = 8 * j + 2 /\ i + 2 = 8 * j + 3 /\ i + 3 = 8 * j + 4 /\ i + 4 = 8 * j + 5 /\ i + 5 = 8 * j + 6 /\ i + 6 = 8 * j + 7 /\ i + 7 = 8 * j + 8 /\ i + 8 = 8 * j + 9 /\ i + 9 = 8 * j + 10 /\ i + 10 = 8 * j + 11
    OBVIOUS
  <2>2. Field11(f, i) = r
    BY <1>1, <1>r, <2>1, Field11Of
  <2>. QED BY <2>2
<1>3. r \in UInt11
  BY <1>r DEF UInt11
<1>q. PICK q : q = b4 + 2 * b5 + 4 * b6 + 8 * b7
  OBVIOUS
<1>n. PICK n : n = (f[j] \div 2) + 128 * f[j + 1]
  OBVIOUS
<1>4. Masked(n, q, r)
  <2>1. /\ f[j] = a0 + 2 * a1 + 4 * a2 + 8 * a3 + 16 * a4 + 32 * a5 + 64 * a6 + 128 * a7
        /\ f[j + 1] = b0 + 2 * b1 + 4 * b2 + 8 * b3 + 16 * b4 + 32 * b5 + 64 * b6 + 128 * b7
    BY <1>a, <1>b, j + 0 = j DEF HasBits
  <2>2. f[j] \div 2 = a1 + 2 * a2 + 4 * a3 + 8 * a4 + 16 * a5 + 32 * a6 + 64 * a7
    BY <2>1
  <2>. QED BY <1>r, <1>q, <1>n, <2>1, <2>2 DEF Masked
<1>5. Low11(n) = r
  BY <1>3, <1>4, Low11Masks, Zenon
<1>. QED BY <1>n, <1>2, <1>5

\* Of a frame of n bytes.
Frame(n) == [0 .. n - 1 -> Octet]

LEMMA ChannelsAreFields ==
  ASSUME NEW f, NEW j \in Nat, \A d \in 0 .. 5 : f[j + d] \in Octet
  PROVE  \A i \in 1 .. 4 : Channels(f, j)[i] = Field11(f, 8 * j + 11 * (i - 1))
<1>1. /\ f[j] \in Octet /\ f[j + 1] \in Octet /\ f[j + 2] \in Octet
      /\ f[j + 3] \in Octet /\ f[j + 4] \in Octet /\ f[j + 5] \in Octet
  BY j + 0 = j
<1>2. Channels(f, j)[1] = Field11(f, 8 * j)
  BY <1>1, FieldAt0 DEF Channels
<1>3. Channels(f, j)[2] = Field11(f, 8 * j + 11)
  <2>. PICK k : k = j + 1
    OBVIOUS
  <2>1. k \in Nat /\ k + 1 = j + 2 /\ 8 * k + 3 = 8 * j + 11
    OBVIOUS
  <2>2. Low11((f[k] \div 8) + 32 * f[k + 1]) = Field11(f, 8 * k + 3)
    BY <1>1, <2>1, FieldAt3
  <2>. QED BY <2>1, <2>2 DEF Channels
<1>4. Channels(f, j)[3] = Field11(f, 8 * j + 22)
  <2>. PICK k : k = j + 2
    OBVIOUS
  <2>1. k \in Nat /\ k + 1 = j + 3 /\ k + 2 = j + 4 /\ 8 * k + 6 = 8 * j + 22
    OBVIOUS
  <2>2. Low11((f[k] \div 64) + 4 * f[k + 1] + 1024 * f[k + 2]) = Field11(f, 8 * k + 6)
    BY <1>1, <2>1, FieldAt6
  <2>. QED BY <2>1, <2>2 DEF Channels
<1>5. Channels(f, j)[4] = Field11(f, 8 * j + 33)
  <2>. PICK k : k = j + 4
    OBVIOUS
  <2>1. k \in Nat /\ k + 1 = j + 5 /\ 8 * k + 1 = 8 * j + 33
    OBVIOUS
  <2>2. Low11((f[k] \div 2) + 128 * f[k + 1]) = Field11(f, 8 * k + 1)
    BY <1>1, <2>1, FieldAt1
  <2>. QED BY <2>1, <2>2 DEF Channels
<1>6. 8 * j + 11 * (1 - 1) = 8 * j /\ 8 * j + 11 * (2 - 1) = 8 * j + 11
      /\ 8 * j + 11 * (3 - 1) = 8 * j + 22 /\ 8 * j + 11 * (4 - 1) = 8 * j + 33
  OBVIOUS
<1>7. ASSUME NEW i \in 1 .. 4 PROVE i = 1 \/ i = 2 \/ i = 3 \/ i = 4
  OBVIOUS
<1>. QED BY <1>2, <1>3, <1>4, <1>5, <1>6, <1>7

LEMMA SwitchBits ==
  ASSUME NEW f, NEW j \in Nat, f[j] \in Octet
  PROVE  /\ (f[j] \div 16) % 4 = Field2(f, 8 * j + 4)
         /\ ((f[j] \div 16) \div 4) % 4 = Field2(f, 8 * j + 6)
<1>a. PICK b0, b1, b2, b3, b4, b5, b6, b7 \in 0 .. 1 : HasBits(f, j, b0, b1, b2, b3, b4, b5, b6, b7)
  BY BitsOf
<1>1. /\ Bit(f, 8 * j + 4) = b4 /\ Bit(f, 8 * j + 5) = b5
      /\ Bit(f, 8 * j + 6) = b6 /\ Bit(f, 8 * j + 7) = b7
  BY <1>a DEF HasBits
<1>2. (8 * j + 4) + 1 = 8 * j + 5 /\ (8 * j + 6) + 1 = 8 * j + 7
  OBVIOUS
<1>3. Field2(f, 8 * j + 4) = b4 + 2 * b5 /\ Field2(f, 8 * j + 6) = b6 + 2 * b7
  BY <1>1, <1>2 DEF Field2
<1>4. f[j] \div 16 = b4 + 2 * b5 + 4 * b6 + 8 * b7
  BY <1>a DEF HasBits
<1>. QED BY <1>3, <1>4

(* Every field that the decoders of the two remotes take out of a frame is *)
(* the field of bits that was sent, whatever the bytes of the frame are.   *)
THEOREM FieldsAreBitsOfEveryFrame ==
  /\ \A f \in Frame(18) :
       /\ \A i \in 1 .. 4 : Channels(f, 0)[i] = Field11(f, 11 * (i - 1))
       /\ Sw2(f) = Field2(f, 44) /\ Sw1(f) = Field2(f, 46)
       /\ Wheel(f) = 1024 - Field11(f, 128)
  /\ \A f \in Frame(21) :
       /\ \A i \in 1 .. 4 : Channels(f, 2)[i] = Field11(f, 16 + 11 * (i - 1))
       /\ ModeSwitch(f) = Field2(f, 60) /\ WheelRaw(f) = Field11(f, 65)
<1>1. ASSUME NEW f \in Frame(18)
      PROVE  /\ \A i \in 1 .. 4 : Channels(f, 0)[i] = Field11(f, 11 * (i - 1))
             /\ Sw2(f) = Field2(f, 44) /\ Sw1(f) = Field2(f, 46)
             /\ Wheel(f) = 1024 - Field11(f, 128)
  <2>1. \A k \in 0 .. 17 : f[k] \in Octet
    BY DEF Frame
  <2>2. \A i \in 1 .. 4 : Channels(f, 0)[i] = Field11(f, 11 * (i - 1))
    <3>1. \A d \in 0 .. 5 : f[0 + d] \in Octet
      BY <2>1
    <3>2. \A i \in 1 .. 4 : 8 * 0 + 11 * (i - 1) = 11 * (i - 1)
      OBVIOUS
    <3>. QED BY <3>1, <3>2, ChannelsAreFields
  <2>3. Sw2(f) = Field2(f, 44) /\ Sw1(f) = Field2(f, 46)
    <3>1. f[5] \in Octet /\ 8 * 5 + 4 = 44 /\ 8 * 5 + 6 = 46
      BY <2>1
    <3>. QED BY <3>1, SwitchBits DEF Sw1, Sw2
  <2>4. Wheel(f) = 1024 - Field11(f, 128)
    <3>1. f[16] \in Octet /\ f[16 + 1] \in Octet /\ 16 + 1 = 17 /\ 8 * 16 = 128
      BY <2>1
    <3>. QED BY <3>1, FieldAt0 DEF Wheel
  <2>. QED BY <2>2, <2>3, <2>4
<1>2. ASSUME NEW f \in Frame(21)
      PROVE  /\ \A i \in 1 .. 4 : Channels(f, 2)[i] = Field11(f, 16 + 11 * (i - 1))
             /\ ModeSwitch(f) = Field2(f, 60) /\ WheelRaw(f) = Field11(f, 65)
  <2>1. \A k \in 0 .. 20 : f[k] \in Octet
    BY DEF Frame
  <2>2. \A i \in 1 .. 4 : Channels(f, 2)[i] = Field11(f, 16 + 11 * (i - 1))
    <3>1. \A d \in 0 .. 5 : f[2 + d] \in Octet
      BY <2>1
    <3>2. \A i \in 1 .. 4 : 8 * 2 + 11 * (i - 1) = 16 + 11 * (i - 1)
      OBVIOUS
    <3>. QED BY <3>1, <3>2, ChannelsAreFields
  <2>3. ModeSwitch(f) = Field2(f, 60)
    <3>1. f[7] \in Octet /\ 8 * 7 + 4 = 60
      BY <2>1
    <3>. QED BY <3>1, SwitchBits DEF ModeSwitch
  <2>4. WheelRaw(f) = Field11(f, 65)
    <3>1. f[8] \in Octet /\ f[8 + 1] \in Octet /\ 8 + 1 = 9 /\ 8 * 8 + 1 = 65
      BY <2>1
    <3>. QED BY <3>1, FieldAt1 DEF WheelRaw
  <2>. QED BY <2>2, <2>3, <2>4
<1>. QED BY <1>1, <1>2

LEMMA WalkingAreFrames ==
  ASSUME NEW n \in Nat
  PROVE  Walking(n) \subseteq Frame(n)
<1>1. \A k \in 1 .. 8 : Weight[k] \in Octet
  BY DEF Weight, Octet
<1>2. ASSUME NEW i \in 0 .. 8 * n - 1
      PROVE  [j \in 0 .. n - 1 |-> IF j = i \div 8 THEN Weight[1 + (i % 8)] ELSE 0] \in Frame(n)
  <2>1. 1 + (i % 8) \in 1 .. 8 /\ 0 \in Octet
    BY DEF Octet
  <2>. QED BY <1>1, <2>1 DEF Frame
<1>3. OneBit(n) \subseteq Frame(n)
  BY <1>2 DEF OneBit
<1>4. ASSUME NEW f \in Frame(n) PROVE Complement(f) \in Frame(n)
  <2>1. \A b \in Octet : 255 - b \in Octet
    BY DEF Octet
  <2>2. DOMAIN f = 0 .. n - 1 /\ \A j \in 0 .. n - 1 : f[j] \in Octet
    BY DEF Frame
  <2>. QED BY <2>1, <2>2 DEF Frame, Complement
<1>. QED BY <1>3, <1>4 DEF Walking

LEMMA FieldsAreBitsHolds == FieldsAreBits
<1>1. Walking(18) \subseteq Frame(18) /\ Walking(21) \subseteq Frame(21)
  BY WalkingAreFrames
<1>. QED BY <1>1, FieldsAreBitsOfEveryFrame DEF FieldsAreBits

LEMMA Dr16SentHolds ==
  ASSUME NEW value, NEW c, c = [i \in 1 .. 4 |-> value[i]], NEW f, f = Dr16Sent(value)
  PROVE  Dr16Holds(f, c, value[5], value[6], value[7])
<1>1. /\ f[0] = value[1] % 256 /\ f[1] = value[1] \div 256 + 8 * (value[2] % 32)
      /\ f[2] = value[2] \div 32 + 64 * (value[3] % 4) /\ f[3] = (value[3] \div 4) % 256
      /\ f[4] = value[3] \div 1024 + 2 * (value[4] % 128)
      /\ f[5] = value[4] \div 128 + 16 * (4 * value[6] + value[7])
      /\ f[16] = value[5] % 256 /\ f[17] = value[5] \div 256
  BY DEF Dr16Sent
<1>2. c[1] = value[1] /\ c[2] = value[2] /\ c[3] = value[3] /\ c[4] = value[4]
  OBVIOUS
<1>3. 0 + 1 = 1 /\ 0 + 2 = 2 /\ 0 + 3 = 3 /\ 0 + 4 = 4 /\ 0 + 5 = 5
  OBVIOUS
<1>. QED BY <1>1, <1>2, <1>3 DEF Dr16Holds, HoldsChannels

LEMMA Dr16ReadsWhatWasSentHolds == Dr16ReadsWhatWasSent
<1>. SUFFICES ASSUME NEW x \in 1 .. 5, NEW v \in Extremes, NEW s1 \in 0 .. 3, NEW s2 \in 0 .. 3,
                     NEW value,
                     value = [i \in 1 .. 7 |-> IF i = x THEN v ELSE IF i = 6 THEN s1
                                               ELSE IF i = 7 THEN s2 ELSE 1024]
              PROVE  Dr16Frame(Dr16Sent(value)) =
                       IF v \in {363, 1685} \/ s1 = 0 \/ s2 = 0 THEN Rejected
                       ELSE [sticks |-> [i \in 1 .. 4 |-> value[i] - 1024],
                             wheel |-> 1024 - value[5],
                             left |-> s1, right |-> s2, chassis_enable |-> s2 = 1]
  BY DEF Dr16ReadsWhatWasSent
<1>. PICK c : c = [i \in 1 .. 4 |-> value[i]]
  OBVIOUS
<1>1. v \in UInt11 /\ 1024 \in UInt11 /\ 1024 \in InRange
      /\ (v \in InRange <=> v \notin {363, 1685})
  BY DEF Extremes, UInt11, InRange
<1>2. \A i \in 1 .. 5 : value[i] = IF i = x THEN v ELSE 1024
  OBVIOUS
<1>3. value[6] = s1 /\ value[7] = s2
  OBVIOUS
<1>4. c \in [1 .. 4 -> UInt11] /\ value[5] \in UInt11
  BY <1>1, <1>2
<1>5. \A i \in 1 .. 4 : c[i] = value[i]
  OBVIOUS
<1>6. (\A i \in 1 .. 4 : c[i] \in InRange) /\ value[5] \in InRange <=> v \in InRange
  <2>1. (\A i \in 1 .. 4 : c[i] \in InRange) /\ value[5] \in InRange
          <=> \A i \in 1 .. 5 : value[i] \in InRange
    BY <1>5
  <2>2. (\A i \in 1 .. 5 : value[i] \in InRange) <=> v \in InRange
    BY <1>1, <1>2
  <2>. QED BY <2>1, <2>2
<1>7. Dr16Holds(Dr16Sent(value), c, value[5], s1, s2)
  BY <1>3, Dr16SentHolds
<1>8. Dr16Frame(Dr16Sent(value)) =
        IF (\A i \in 1 .. 4 : c[i] \in InRange) /\ value[5] \in InRange /\ s1 # 0 /\ s2 # 0
        THEN [sticks |-> [i \in 1 .. 4 |-> c[i] - 1024], wheel |-> 1024 - value[5],
              left |-> s1, right |-> s2, chassis_enable |-> s2 = 1]
        ELSE Rejected
  BY <1>4, <1>7, Dr16ReadsEveryFrame
<1>9. [i \in 1 .. 4 |-> c[i] - 1024] = [i \in 1 .. 4 |-> value[i] - 1024]
  BY <1>5
<1>. QED BY <1>1, <1>6, <1>8, <1>9

LEMMA EncodedParts ==
  ASSUME NEW cmd \in UInt16, NEW payload \in Seq(Octet), NEW capacity \in Nat,
         HasRoom(Len(payload), capacity), NEW f, f = PcEncode(cmd, payload, capacity)
  PROVE  /\ f[0] = 165 /\ f[5] + 256 * f[6] = cmd
         /\ \A i \in 1 .. Len(payload) : f[6 + i] = payload[i]
<1>. PICK n : n = Len(payload)
  OBVIOUS
<1>. PICK h : h = PcHeader(cmd, n)
  OBVIOUS
<1>1. n \in Nat
  OBVIOUS
<1>2. f = Framed(h, payload, n)
  BY <1>1, PcEncodeFrames, Zenon
<1>3. h[1] = 165 /\ h[6] = cmd % 256 /\ h[7] = (cmd \div 256) % 256
  BY HeaderParts
<1>4. f[0] = h[1] /\ f[5] = h[6] /\ f[6] = h[7]
  BY <1>1, <1>2, FramedHeader
<1>5. h[6] + 256 * h[7] = cmd
  BY <1>3, TwoBytes
<1>6. \A i \in 1 .. n : f[6 + i] = payload[i]
  BY <1>1, <1>2, FramedParts
<1>. QED BY <1>3, <1>4, <1>5, <1>6

\* What a custom controller's payload says: the bytes of the axes, and that
\* the chassis is enabled.
Joystick(payload) ==
  [joystick |-> [axis \in 1 .. 3 |-> [i \in 0 .. 3 |-> payload[14 + 4 * axis + i]]],
   chassis_enable |-> TRUE]

(* A frame of the PC link that carries the command of the custom           *)
(* controller, and room for its three axes, is read by the VT03 decoder as *)
(* those axes and enables the chassis; one that carries another command is *)
(* rejected.                                                               *)
THEOREM CustomControllerSharesThePcLink ==
  ASSUME NEW cmd \in UInt16, NEW payload \in Seq(Octet), Len(payload) >= 30, NEW capacity \in Nat,
         HasRoom(Len(payload), capacity), NEW f, f = PcEncode(cmd, payload, capacity)
  PROVE  Vt03CustomFrame(f) = IF cmd = kCustomControllerDataId THEN Joystick(payload) ELSE Rejected
<1>1. /\ f[0] = 165 /\ f[5] + 256 * f[6] = cmd
      /\ \A i \in 1 .. Len(payload) : f[6 + i] = payload[i]
  BY EncodedParts
<1>2. ASSUME NEW axis \in 1 .. 3, NEW i \in 0 .. 3
      PROVE  f[20 + 4 * axis + i] = payload[14 + 4 * axis + i]
  <2>. PICK k : k = 14 + 4 * axis + i
    OBVIOUS
  <2>1. k \in 1 .. Len(payload) /\ 20 + 4 * axis + i = 6 + k
    <3>1. Len(payload) \in Nat
      OBVIOUS
    <3>. QED BY <3>1
  <2>. QED BY <1>1, <2>1
<1>3. [axis \in 1 .. 3 |-> [i \in 0 .. 3 |-> f[20 + 4 * axis + i]]]
        = [axis \in 1 .. 3 |-> [i \in 0 .. 3 |-> payload[14 + 4 * axis + i]]]
  BY <1>2
<1>. QED BY <1>1, <1>3, Zenon DEF Vt03CustomFrame, Joystick

LEMMA SampleCommands ==
  ASSUME NEW cmd \in PcCommands
  PROVE  cmd \in UInt16
<1>1. /\ 0 \in Octet /\ 1 \in Octet /\ 2 \in Octet /\ 3 \in Octet /\ 255 \in Octet
  BY DEF Octet
<1>2. /\ 0 = 256 * 0 + 0 /\ 255 = 256 * 0 + 255 /\ 256 = 256 * 1 + 0
      /\ kCustomControllerDataId = 256 * 3 + 2
  BY DEF kCustomControllerDataId
<1>3. 65535 = 256 * 255 + 255
  BY SMT
<1>4. CASE cmd = 65535
  BY <1>1, <1>3, <1>4, TwoBytesMake
<1>5. CASE cmd \in {0, 255, 256, kCustomControllerDataId}
  BY <1>1, <1>2, <1>5, TwoBytesMake
<1>. QED BY <1>4, <1>5 DEF PcCommands

LEMMA SampleLengths ==
  ASSUME NEW n \in PcLengths
  PROVE  /\ n \in Nat /\ 7 + n \in Nat /\ 6 + n \in Nat
         /\ HasRoom(n, 7 + n) /\ ~HasRoom(n, 6 + n)
  BY DEF HasRoom, PcLengths

LEMMA PcLinkReadsWhatWasSentHolds == PcLinkReadsWhatWasSent
<1>. SUFFICES ASSUME NEW cmd \in PcCommands, NEW n \in PcLengths
              PROVE  LET payload == [i \in 1 .. n |-> i % 251]
                         f == PcEncode(cmd, payload, 7 + n)
                     IN  /\ PcEncode(cmd, payload, 6 + n) = Rejected
                         /\ PcDecode(f, 7 + n) = [cmd |-> cmd, payload |-> payload]
                         /\ \A k \in 0 .. Clamped(6 + n, 40) :
                              k < 7 + n => PcDecode(f, k) = Rejected
                         /\ n >= 32 => Vt03CustomFrame(f) =
                              IF cmd = kCustomControllerDataId
                              THEN [joystick |->
                                      [axis \in 1 .. 3 |->
                                         [i \in 0 .. 3 |-> payload[14 + 4 * axis + i]]],
                                    chassis_enable |-> TRUE]
                              ELSE Rejected
  BY Zenon DEF PcLinkReadsWhatWasSent
<1>. DEFINE payload == [i \in 1 .. n |-> i % 251]
            f == PcEncode(cmd, payload, 7 + n)
<1>1. cmd \in UInt16
  BY SampleCommands
<1>2. n \in Nat /\ 7 + n \in Nat /\ 6 + n \in Nat /\ HasRoom(n, 7 + n) /\ ~HasRoom(n, 6 + n)
  BY SampleLengths
<1>3. payload \in Seq(Octet) /\ Len(payload) = n
  <2>1. \A i \in 1 .. n : i % 251 \in Octet
    BY <1>2 DEF Octet
  <2>. QED BY <1>2, <2>1
<1>f. f = PcEncode(cmd, payload, 7 + n)
  OBVIOUS
<1>. HIDE DEF payload, f
<1>4. PcEncode(cmd, payload, 6 + n) = Rejected
  BY <1>2, <1>3, PcEncodeFrames, Zenon
<1>5. /\ PcDecode(f, 7 + n) = [cmd |-> cmd, payload |-> payload]
      /\ \A k \in 0 .. 6 + n : PcDecode(f, k) = Rejected
  BY <1>1, <1>2, <1>3, <1>f, PcLinkReadsEveryFrame
<1>6. ASSUME NEW k \in 0 .. Clamped(6 + n, 40), k < 7 + n PROVE PcDecode(f, k) = Rejected
  <2>1. Clamped(6 + n, 40) \in Int
    BY <1>2 DEF Clamped
  <2>2. k \in 0 .. 6 + n
    BY <1>2, <1>6, <2>1
  <2>. QED BY <1>5, <2>2
<1>7. ASSUME n >= 32
      PROVE  Vt03CustomFrame(f) = IF cmd = kCustomControllerDataId THEN Joystick(payload) ELSE Rejected
  <2>1. Len(payload) >= 30 /\ HasRoom(Len(payload), 7 + n)
    BY <1>2, <1>3, <1>7
  <2>. QED BY <1>1, <1>2, <1>3, <1>f, <2>1, CustomControllerSharesThePcLink
<1>. QED BY <1>4, <1>5, <1>6, <1>7, Zenon DEF Joystick, payload, f

LEMMA LayoutsAgreeHolds == LayoutsAgree
  BY FieldsAreBitsHolds, Dr16ReadsWhatWasSentHolds, PcLinkReadsWhatWasSentHolds DEF LayoutsAgree

(* Whatever a decoder accepts, it has read in the frame what the sender    *)
(* put there, in the three formats and at the limits of every field.       *)
THEOREM FramesAreAlwaysReadAsSent == HistSpec => []FramesReadAsSent
<1>1. FramesReadAsSent
  BY LayoutsAgreeHolds DEF FramesReadAsSent
<1>. QED BY <1>1, PTL
=============================================================================
