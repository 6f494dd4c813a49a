------------------------ MODULE RefereeHistory_proofs -----------------------
(***************************************************************************)
(* Theorems about the referee's byte stream, for every alphabet, every     *)
(* coding of the length, every set of commands and every buffer size.      *)
(***************************************************************************)
EXTENDS RefereeHistory, SequenceTheorems, FiniteSetTheorems, WellFoundedInduction, TLAPS

-----------------------------------------------------------------------------
(* Boundaries, by induction over the length of a stream.                   *)

\* A set that holds 0 and with each number the next one holds all: among the
\* sets 0 .. k with k outside it there is no smallest one.
LEMMA NatSetInduction ==
  ASSUME NEW S, 0 \in S, \A n \in Nat : n \in S => n + 1 \in S
  PROVE  Nat \subseteq S
<1> SUFFICES ASSUME NEW n \in Nat, n \notin S PROVE FALSE
  OBVIOUS
<1> DEFINE U == 0 .. n
           R == StrictSubsetOrdering(U)
           T == {V \in SUBSET U : \E k \in U : k \notin S /\ V = 0 .. k}
<1>1. IsFiniteSet(U)
  BY FS_Interval
<1>2. IsWellFoundedOn(R, SUBSET U)
  <2>1. IsWellFoundedOn(StrictSubsetOrdering(U), FiniteSubsetsOf(U))
    BY FS_StrictSubsetOrderingWellFounded
  <2>2. FiniteSubsetsOf(U) = SUBSET U
    BY <1>1, FS_FiniteSubsetsOfFinite
  <2>. HIDE DEF U
  <2>. QED BY <2>1, <2>2
<1>3. T \subseteq SUBSET U /\ T # {}
  <2>1. U \in T
    BY n \in U
  <2>. QED BY <2>1
<1>4. PICK V \in T : \A W \in T : ~ <<W, V>> \in R
  <2>. HIDE DEF R, T, U
  <2>. QED BY <1>2, <1>3, WFMin
<1>5. PICK k \in U : k \notin S /\ V = 0 .. k
  OBVIOUS
<1>6. k # 0 /\ k - 1 \in Nat /\ k - 1 \in U
  BY <1>5
<1>7. k - 1 \notin S
  BY <1>5, <1>6
<1>8. 0 .. (k - 1) \in T
  BY <1>6, <1>7
<1>9. <<0 .. (k - 1), V>> \in R
  <2>1. 0 .. (k - 1) \subseteq V /\ 0 .. (k - 1) # V
    BY <1>5, <1>6
  <2>. QED BY <2>1, <1>8, <1>4 DEF StrictSubsetOrdering
<1>. QED BY <1>4, <1>8, <1>9

\* What the function in Boundaries does in one step, and as a whole.
Grown(s, earlier, n) ==
  IF \E p \in earlier : After(s, p) = n + 1 THEN earlier \cup {n + 1} ELSE earlier

Grows(s, m, f) == f = [n \in 0 .. m |-> IF n = 0 THEN {1} ELSE Grown(s, f[n - 1], n)]

LEMMA GrowthFacts ==
  ASSUME NEW s, NEW m \in Nat, NEW f, Grows(s, m, f)
  PROVE  /\ f[0] = {1}
         /\ \A k \in Nat : k + 1 <= m => f[k + 1] = Grown(s, f[k], k + 1)
<1>1. \A n \in 0 .. m : f[n] = IF n = 0 THEN {1} ELSE Grown(s, f[n - 1], n)
  BY Zenon DEF Grows
<1>2. ASSUME NEW k \in Nat, k + 1 <= m
      PROVE  f[k + 1] = Grown(s, f[k], k + 1)
  <2>1. k + 1 \in 0 .. m /\ k + 1 # 0 /\ k + 1 - 1 = k
    BY <1>2
  <2>. QED BY <1>1, <2>1
<1>. QED BY <1>1, <1>2

LEMMA GrowthExists ==
  ASSUME NEW s, NEW m \in Nat
  PROVE  \E f : Grows(s, m, f)
<1>. DEFINE S == {k \in Nat : \E f : Grows(s, k, f)}
<1>1. 0 \in S
  <2>1. Grows(s, 0, [n \in 0 .. 0 |-> {1}])
    BY DEF Grows
  <2>. QED BY <2>1
<1>2. ASSUME NEW k \in Nat, k \in S
      PROVE  k + 1 \in S
  <2>1. PICK f : Grows(s, k, f)
    BY <1>2
  <2>. DEFINE h == [n \in 0 .. k + 1 |-> IF n = k + 1 THEN Grown(s, f[k], k + 1) ELSE f[n]]
  <2>2. ASSUME NEW n \in 0 .. k + 1
        PROVE  h[n] = IF n = 0 THEN {1} ELSE Grown(s, h[n - 1], n)
    <3>1. CASE n = 0
      BY <2>1, <3>1 DEF Grows
    <3>2. CASE n \in 1 .. k
      <4>1. h[n] = f[n] /\ h[n - 1] = f[n - 1]
        BY <3>2
      <4>2. f[n] = Grown(s, f[n - 1], n)
        <5>1. n - 1 \in Nat /\ n - 1 + 1 <= k /\ n - 1 + 1 = n
          BY <3>2
        <5>. HIDE DEF h
        <5>2. \A j \in Nat : j + 1 <= k => f[j + 1] = Grown(s, f[j], j + 1)
          BY <2>1, GrowthFacts, Zenon
        <5>. QED BY <5>1, <5>2
      <4>. QED BY <3>2, <4>1, <4>2
    <3>3. CASE n = k + 1
      BY <3>3
    <3>. QED BY <3>1, <3>2, <3>3
  <2>3. Grows(s, k + 1, h)
    <3>. HIDE DEF h
    <3>1. DOMAIN h = 0 .. k + 1 /\ h = [n \in DOMAIN h |-> h[n]]
      BY DEF h
    <3>. QED BY <2>2, <3>1 DEF Grows
  <2>. QED BY <2>3
<1>3. Nat \subseteq S
  <2>. HIDE DEF S
  <2>. QED BY <1>1, <1>2, NatSetInduction
<1>. QED BY <1>3

LEMMA BoundariesGrow ==
  ASSUME NEW s, Len(s) \in Nat
  PROVE  \E f : Grows(s, Len(s), f) /\ Boundaries(s) = f[Len(s)]
<1>. DEFINE f == CHOOSE h : Grows(s, Len(s), h)
<1>1. Boundaries(s) = f[Len(s)]
  BY DEF Boundaries, Grows, Grown
<1>2. Grows(s, Len(s), f)
  BY GrowthExists
<1>. QED BY <1>1, <1>2

\* f[n] is what f[m] says about the positions up to n + 1.
LEMMA GrowthIsMonotone ==
  ASSUME NEW s, NEW m \in Nat, NEW f, Grows(s, m, f)
  PROVE  \A n \in 0 .. m : f[n] \subseteq 1 .. n + 1 /\ f[n] = f[m] \cap (1 .. n + 1)
<1>. DEFINE S == {k \in Nat : k <= m => /\ f[k] \subseteq 1 .. k + 1
                                        /\ \A n \in 0 .. k : f[n] = f[k] \cap (1 .. n + 1)}
<1>0. /\ f[0] = {1}
      /\ \A k \in Nat : k + 1 <= m => f[k + 1] = Grown(s, f[k], k + 1)
  BY GrowthFacts, Zenon
<1>1. 0 \in S
  BY <1>0
<1>2. ASSUME NEW k \in Nat, k \in S, k + 1 <= m
      PROVE  k + 1 \in S
  <2>1. f[k + 1] = Grown(s, f[k], k + 1)
    BY <1>2, <1>0
  <2>2. f[k + 1] \cap (1 .. k + 1) = f[k] /\ f[k + 1] \subseteq 1 .. k + 2
    BY <1>2, <2>1 DEF Grown
  <2>3. ASSUME NEW n \in 0 .. k + 1
        PROVE  f[n] = f[k + 1] \cap (1 .. n + 1)
    <3>1. CASE n = k + 1
      BY <2>2, <3>1
    <3>2. CASE n \in 0 .. k
      <4>1. f[n] = f[k] \cap (1 .. n + 1)
        BY <1>2, <3>2
      <4>. QED BY <2>2, <3>2, <4>1
    <3>. QED BY <3>1, <3>2
  <2>. QED BY <2>2, <2>3
<1>3. Nat \subseteq S
  <2>1. ASSUME NEW k \in Nat, k \in S
        PROVE  k + 1 \in S
    BY <1>2, <2>1
  <2>. HIDE DEF S
  <2>. QED BY <1>1, <2>1, NatSetInduction
<1>4. m \in S
  BY <1>3
<1>. QED BY <1>4, <1>3

\* A set that is closed under After holds every boundary.
LEMMA GrowthIsLeast ==
  ASSUME NEW s, NEW m \in Nat, NEW f, Grows(s, m, f), NEW C, 1 \in C,
         \A p \in C : After(s, p) \in 2 .. m + 1 => After(s, p) \in C
  PROVE  f[m] \subseteq C
<1>. DEFINE S == {k \in Nat : k <= m => f[k] \subseteq C}
<1>0. /\ f[0] = {1}
      /\ \A k \in Nat : k + 1 <= m => f[k + 1] = Grown(s, f[k], k + 1)
  BY GrowthFacts, Zenon
<1>1. 0 \in S
  BY <1>0
<1>2. ASSUME NEW k \in Nat, k \in S
      PROVE  k + 1 \in S
  <2>. SUFFICES ASSUME k + 1 <= m PROVE f[k + 1] \subseteq C
    OBVIOUS
  <2>1. f[k + 1] = Grown(s, f[k], k + 1) /\ f[k] \subseteq C
    BY <1>2, <1>0
  <2>2. (\E p \in f[k] : After(s, p) = k + 2) => k + 2 \in C
    BY <2>1
  <2>. QED BY <2>1, <2>2 DEF Grown
<1>3. Nat \subseteq S
  <2>. HIDE DEF S
  <2>. QED BY <1>1, <1>2, NatSetInduction
<1>. QED BY <1>3

\* The bytes at which the length is read are inside the stream.
LEMMA SizeFacts ==
  ASSUME NEW s \in Seq(Byte), NEW p \in Nat \ {0}, Readable(s, p)
  PROVE  /\ Size(s, p) \in Nat /\ MinLen <= Size(s, p)
         /\ p \in 1 .. Len(s) /\ p + 1 \in 1 .. Len(s) /\ p + 2 \in 1 .. Len(s)
<1>1. p \in 1 .. Len(s) /\ p + 1 \in 1 .. Len(s) /\ p + 2 \in 1 .. Len(s)
  BY RefereeAssumption DEF Readable
<1>2. s[p + 1] \in Byte /\ s[p + 2] \in Byte
  BY <1>1, ElementOfSeq
<1>3. DataLen[<<s[p + 1], s[p + 2]>>] \in Nat
  BY <1>2, RefereeAssumption
<1>. QED BY <1>1, <1>3, RefereeAssumption DEF Size

LEMMA AfterFacts ==
  ASSUME NEW s \in Seq(Byte), NEW p \in Nat \ {0}
  PROVE  /\ After(s, p) = 0 \/ After(s, p) \in p + 1 .. Len(s) + 1
         /\ IsFrame(s, p) => After(s, p) = p + Size(s, p)
         /\ After(s, p) # 0 => Readable(s, p)
<1>1. CASE IsFrame(s, p)
  <2>1. Size(s, p) \in Nat /\ MinLen <= Size(s, p) /\ Readable(s, p)
    BY <1>1, SizeFacts DEF IsFrame
  <2>. QED BY <1>1, <2>1, RefereeAssumption DEF After, IsFrame
<1>2. CASE ~IsFrame(s, p) /\ Readable(s, p) /\ ~Fits(s, p)
  <2>1. p \in 1 .. Len(s)
    BY <1>2, SizeFacts
  <2>. QED BY <1>2, <2>1 DEF After
<1>3. CASE ~IsFrame(s, p) /\ ~(Readable(s, p) /\ ~Fits(s, p))
  BY <1>3 DEF After
<1>. QED BY <1>1, <1>2, <1>3

LEMMA BoundaryFacts ==
  ASSUME NEW s \in Seq(Byte)
  PROVE  /\ 1 \in Boundaries(s) /\ Boundaries(s) \subseteq 1 .. Len(s) + 1
         /\ \A p \in Boundaries(s) : After(s, p) # 0 => After(s, p) \in Boundaries(s)
<1>. DEFINE m == Len(s)
<1>1. m \in Nat
  OBVIOUS
<1>2. PICK f : Grows(s, m, f) /\ Boundaries(s) = f[m]
  BY <1>1, BoundariesGrow
<1>. HIDE DEF m
<1>3. \A n \in 0 .. m : f[n] \subseteq 1 .. n + 1 /\ f[n] = f[m] \cap (1 .. n + 1)
  BY <1>1, <1>2, GrowthIsMonotone, Zenon
<1>4. /\ f[0] = {1}
      /\ \A k \in Nat : k + 1 <= m => f[k + 1] = Grown(s, f[k], k + 1)
  <2>1. Grows(s, m, f)
    BY <1>2
  <2>. QED BY <1>1, <2>1, GrowthFacts, Zenon
<1>5. 0 \in 0 .. m /\ m \in 0 .. m
  BY <1>1
<1>6. 1 \in f[m] /\ f[m] \subseteq 1 .. m + 1
  BY <1>3, <1>4, <1>5
<1>7. ASSUME NEW p \in f[m], After(s, p) # 0
      PROVE  After(s, p) \in f[m]
  <2>1. p \in 1 .. m + 1
    BY <1>6
  <2>2. After(s, p) \in p + 1 .. m + 1
    BY <1>7, <2>1, AfterFacts DEF m
  <2>3. PICK k \in Nat : After(s, p) = k + 2
    BY <2>1, <2>2
  <2>4. k \in 0 .. m /\ k + 1 \in 0 .. m /\ k + 1 <= m /\ p \in 1 .. k + 1
    BY <1>1, <2>1, <2>2, <2>3
  <2>5. p \in f[k]
    BY <1>3, <2>4
  <2>6. k + 2 \in f[k + 1]
    <3>1. f[k + 1] = Grown(s, f[k], k + 1) /\ k + 1 + 1 = k + 2
      BY <1>4, <2>4
    <3>2. \E q \in f[k] : After(s, q) = k + 1 + 1
      BY <2>3, <2>5, <3>1
    <3>. QED BY <3>1, <3>2 DEF Grown
  <2>. QED BY <1>3, <2>3, <2>4, <2>6
<1>. QED BY <1>2, <1>6, <1>7 DEF m

LEMMA BoundariesAreLeast ==
  ASSUME NEW s \in Seq(Byte), NEW C \in SUBSET Boundaries(s), 1 \in C,
         \A p \in C : After(s, p) # 0 => After(s, p) \in C
  PROVE  Boundaries(s) = C
<1>1. Len(s) \in Nat
  OBVIOUS
<1>2. PICK f : Grows(s, Len(s), f) /\ Boundaries(s) = f[Len(s)]
  BY <1>1, BoundariesGrow
<1>3. \A p \in C : After(s, p) \in 2 .. Len(s) + 1 => After(s, p) \in C
  OBVIOUS
<1>4. f[Len(s)] \subseteq C
  BY <1>1, <1>2, <1>3, GrowthIsLeast
<1>. QED BY <1>2, <1>4

-----------------------------------------------------------------------------
(* How far a stream has been read.                                         *)

\* Position k is the one to look at next, everything before it is settled.
Reached(s, k) ==
  /\ k \in Boundaries(s)
  /\ \A p \in Boundaries(s) : p < k => After(s, p) \in p + 1 .. k

\* t is s with more bytes behind it.
Prolongs(t, s) == Len(s) <= Len(t) /\ \A i \in 1 .. Len(s) : t[i] = s[i]

Before(s, k) == {p \in Boundaries(s) : p < k}

LEMMA ReachedStart ==
  ASSUME NEW s \in Seq(Byte)
  PROVE  Reached(s, 1) /\ Before(s, 1) = {}
BY BoundaryFacts DEF Reached, Before

LEMMA ReachedNext ==
  ASSUME NEW s \in Seq(Byte), NEW k, Reached(s, k), After(s, k) # 0
  PROVE  /\ Reached(s, After(s, k)) /\ k < After(s, k)
         /\ Before(s, After(s, k)) = Before(s, k) \cup {k}
<1>. DEFINE a == After(s, k)
            C == {p \in Boundaries(s) : p <= k \/ a <= p}
<1>1. /\ k \in 1 .. Len(s) + 1 /\ a \in k + 1 .. Len(s) + 1 /\ a \in Boundaries(s)
      /\ Boundaries(s) \subseteq 1 .. Len(s) + 1 /\ 1 \in C
  BY BoundaryFacts, AfterFacts DEF Reached
<1>2. ASSUME NEW p \in C, After(s, p) # 0
      PROVE  After(s, p) \in C
  <2>1. p \in 1 .. Len(s) + 1 /\ After(s, p) \in p + 1 .. Len(s) + 1
        /\ After(s, p) \in Boundaries(s)
    BY <1>1, <1>2, BoundaryFacts, AfterFacts
  <2>2. CASE p < k
    BY <1>1, <2>1, <2>2 DEF Reached
  <2>3. CASE p = k
    BY <1>1, <2>1, <2>3
  <2>4. CASE a <= p
    BY <1>1, <2>1, <2>4
  <2>. QED BY <1>1, <2>1, <2>2, <2>3, <2>4
<1>3. Boundaries(s) = C
  <2>. HIDE DEF a
  <2>1. C \in SUBSET Boundaries(s)
    OBVIOUS
  <2>. HIDE DEF C
  <2>. QED BY <1>1, <1>2, <2>1, BoundariesAreLeast
<1>4. Before(s, a) = Before(s, k) \cup {k}
  <2>. HIDE DEF a
  <2>. QED BY <1>1, <1>3 DEF Before, Reached
<1>5. Reached(s, a)
  <2>1. ASSUME NEW p \in Boundaries(s), p < a
        PROVE  After(s, p) \in p + 1 .. a
    <3>1. p \in 1 .. Len(s) + 1 /\ p <= k
      BY <1>1, <1>3, <2>1
    <3>2. CASE p < k
      <4>1. After(s, p) \in p + 1 .. k
        BY <2>1, <3>2 DEF Reached
      <4>. HIDE DEF a
      <4>. QED BY <1>1, <3>1, <4>1
    <3>3. CASE p = k
      BY <1>1, <3>3
    <3>. QED BY <1>1, <3>1, <3>2, <3>3
  <2>. QED BY <1>1, <2>1 DEF Reached
<1>. QED BY <1>1, <1>4, <1>5

\* Two stretches with the same bytes.
LEMMA SameBytes ==
  ASSUME NEW s \in Seq(Byte), NEW t \in Seq(Byte), NEW a \in Nat \ {0}, NEW c \in Nat \ {0},
         NEW n \in Nat, a + n <= Len(s) + 1, c + n <= Len(t) + 1,
         \A i \in 0 .. n - 1 : s[a + i] = t[c + i]
  PROVE  SubSeq(s, a, a + n - 1) = SubSeq(t, c, c + n - 1)
<1>1. SubSeq(s, a, a + n - 1) = [i \in 1 .. n |-> s[a + i - 1]]
  OBVIOUS
<1>2. SubSeq(t, c, c + n - 1) = [i \in 1 .. n |-> t[c + i - 1]]
  OBVIOUS
<1>3. ASSUME NEW i \in 1 .. n
      PROVE  s[a + i - 1] = t[c + i - 1]
  <2>1. i - 1 \in 0 .. n - 1 /\ a + i - 1 = a + (i - 1) /\ c + i - 1 = c + (i - 1)
    OBVIOUS
  <2>. QED BY <2>1
<1>. QED BY <1>1, <1>2, <1>3

LEMMA SameAfter ==
  ASSUME NEW s \in Seq(Byte), NEW t \in Seq(Byte), Prolongs(t, s),
         NEW p \in Nat \ {0}, After(s, p) # 0
  PROVE  /\ After(t, p) = After(s, p) /\ (IsFrame(t, p) <=> IsFrame(s, p))
         /\ IsFrame(s, p) => Frame(t, p) = Frame(s, p)
<1>1. Readable(s, p)
  BY AfterFacts
<1>2. /\ Size(s, p) \in Nat /\ MinLen <= Size(s, p)
      /\ p \in 1 .. Len(s) /\ p + 1 \in 1 .. Len(s) /\ p + 2 \in 1 .. Len(s)
  BY <1>1, SizeFacts
<1>3. Size(t, p) = Size(s, p) /\ (Fits(t, p) <=> Fits(s, p))
  BY <1>2 DEF Prolongs, Size, Fits
<1>4. Readable(t, p) /\ Len(s) \in Nat /\ Len(t) \in Nat /\ Len(s) <= Len(t)
  BY <1>1, RefereeAssumption DEF Readable, Prolongs
<1>5. IsFrame(t, p) <=> IsFrame(s, p)
  BY <1>1, <1>2, <1>3, <1>4 DEF IsFrame, After
<1>6. ASSUME IsFrame(s, p)
      PROVE  Frame(t, p) = Frame(s, p)
  <2>. DEFINE n == Size(s, p)
  <2>1. n \in Nat /\ p + n <= Len(s) + 1 /\ p + n <= Len(t) + 1
    BY <1>2, <1>4, <1>6 DEF IsFrame
  <2>. HIDE DEF n
  <2>2. \A i \in 0 .. n - 1 : t[p + i] = s[p + i]
    BY <2>1, <1>4 DEF Prolongs
  <2>3. SubSeq(t, p, p + n - 1) = SubSeq(s, p, p + n - 1)
    BY <2>1, <2>2, SameBytes
  <2>. QED BY <1>3, <2>3 DEF Frame, n
<1>. QED BY <1>1, <1>3, <1>4, <1>5, <1>6 DEF After

LEMMA ReachedLonger ==
  ASSUME NEW s \in Seq(Byte), NEW t \in Seq(Byte), Prolongs(t, s),
         NEW k, Reached(s, k)
  PROVE  Reached(t, k) /\ Before(t, k) = Before(s, k)
<1>1. /\ k \in 1 .. Len(s) + 1 /\ Len(s) \in Nat /\ Len(t) \in Nat /\ Len(s) <= Len(t)
      /\ Boundaries(s) \subseteq 1 .. Len(s) + 1
      /\ Boundaries(t) \subseteq 1 .. Len(t) + 1
  BY BoundaryFacts DEF Reached, Prolongs
<1>2. \A p \in Boundaries(s) : p < k =>
        After(s, p) \in p + 1 .. k /\ After(t, p) = After(s, p)
  BY <1>1, SameAfter DEF Reached
<1>. DEFINE A == {p \in Boundaries(s) : p <= k}
            C == {p \in Boundaries(s) : p <= k => p \in Boundaries(t)}
            D == {p \in Boundaries(t) : p <= k => p \in Boundaries(s)}
<1>3. A \subseteq Boundaries(t)
  <2>1. ASSUME NEW p \in C, After(s, p) # 0
        PROVE  After(s, p) \in C
    <3>1. /\ p \in 1 .. Len(s) + 1 /\ After(s, p) \in p + 1 .. Len(s) + 1
          /\ After(s, p) \in Boundaries(s)
      BY <1>1, <2>1, BoundaryFacts, AfterFacts
    <3>2. CASE p < k
      <4>1. p \in Boundaries(t) /\ After(t, p) = After(s, p)
        BY <1>1, <1>2, <3>1, <3>2
      <4>2. After(t, p) \in Boundaries(t)
        BY <2>1, <4>1, BoundaryFacts
      <4>. QED BY <3>1, <4>1, <4>2
    <3>3. CASE k <= p
      BY <1>1, <3>1, <3>3
    <3>. QED BY <1>1, <3>1, <3>2, <3>3
  <2>2. 1 \in C /\ C \in SUBSET Boundaries(s)
    BY BoundaryFacts
  <2>3. Boundaries(s) = C
    <3>. HIDE DEF C
    <3>. QED BY <2>1, <2>2, BoundariesAreLeast
  <2>. QED BY <2>3
<1>4. {p \in Boundaries(t) : p <= k} \subseteq Boundaries(s)
  <2>1. ASSUME NEW p \in D, After(t, p) # 0
        PROVE  After(t, p) \in D
    <3>1. /\ p \in 1 .. Len(t) + 1 /\ After(t, p) \in p + 1 .. Len(t) + 1
          /\ After(t, p) \in Boundaries(t)
      BY <1>1, <2>1, BoundaryFacts, AfterFacts
    <3>2. CASE p < k
      <4>1. p \in Boundaries(s) /\ After(t, p) = After(s, p)
        BY <1>1, <1>2, <3>1, <3>2
      <4>2. After(s, p) \in Boundaries(s)
        BY <2>1, <4>1, BoundaryFacts
      <4>. QED BY <3>1, <4>1, <4>2
    <3>3. CASE k <= p
      BY <1>1, <3>1, <3>3
    <3>. QED BY <1>1, <3>1, <3>2, <3>3
  <2>2. 1 \in D /\ D \in SUBSET Boundaries(t)
    BY BoundaryFacts
  <2>3. Boundaries(t) = D
    <3>. HIDE DEF D
    <3>. QED BY <2>1, <2>2, BoundariesAreLeast
  <2>. QED BY <2>3
<1>5. k \in Boundaries(t)
  BY <1>1, <1>3 DEF Reached
<1>6. Before(t, k) = Before(s, k)
  BY <1>1, <1>3, <1>4 DEF Before
<1>. QED BY <1>1, <1>2, <1>4, <1>5, <1>6 DEF Reached

LEMMA ReachedEnd ==
  ASSUME NEW s \in Seq(Byte), NEW k, Reached(s, k), After(s, k) = 0
  PROVE  Boundaries(s) = Before(s, k) \cup {k}
<1>. DEFINE C == {p \in Boundaries(s) : p <= k}
<1>1. k \in 1 .. Len(s) + 1 /\ Boundaries(s) \subseteq 1 .. Len(s) + 1 /\ 1 \in C
  BY BoundaryFacts DEF Reached
<1>2. ASSUME NEW p \in C, After(s, p) # 0
      PROVE  After(s, p) \in C
  <2>1. p < k
    BY <1>1, <1>2
  <2>. QED BY <1>1, <1>2, <2>1, BoundaryFacts DEF Reached
<1>3. Boundaries(s) = C
  <2>1. C \in SUBSET Boundaries(s)
    OBVIOUS
  <2>. HIDE DEF C
  <2>. QED BY <1>1, <1>2, <2>1, BoundariesAreLeast
<1>. QED BY <1>1, <1>3 DEF Before, Reached

LEMMA ChunkFacts ==
  ASSUME NEW c \in Chunk
  PROVE  c \in Seq(Byte) /\ c # <<>>
<1>1. PICK n \in 1 .. ChunkMax : c \in [1 .. n -> Byte]
  BY DEF Chunk
<1>2. c \in Seq(Byte) /\ Len(c) = n
  BY <1>1, RefereeAssumption
<1>3. QED
  BY <1>2

LEMMA PushAllFacts ==
  ASSUME NEW b \in Seq(Byte), NEW c \in Seq(Byte)
  PROVE  /\ PushAll(b, c) \in Seq(Byte)
         /\ Len(PushAll(b, c)) <= MaxFrame
<1> DEFINE all == b \o c
<1>1. all \in Seq(Byte) /\ Len(all) \in Nat
  BY ConcatProperties
<1>2. CASE Len(all) <= MaxFrame
  BY <1>1, <1>2 DEF PushAll, Newest
<1>3. CASE Len(all) > MaxFrame
  <2>1. \A i \in Len(all) - MaxFrame + 1 .. Len(all) : all[i] \in Byte
    BY <1>1, <1>3, ElementOfSeq, RefereeAssumption
  <2> HIDE DEF all
  <2>2. /\ SubSeq(all, Len(all) - MaxFrame + 1, Len(all)) \in Seq(Byte)
        /\ Len(SubSeq(all, Len(all) - MaxFrame + 1, Len(all))) = MaxFrame
    BY <1>1, <1>3, <2>1, SubSeqProperties, RefereeAssumption
  <2>3. PushAll(b, c) = SubSeq(all, Len(all) - MaxFrame + 1, Len(all))
    BY <1>1, <1>3, RefereeAssumption DEF PushAll, Newest, all
  <2>4. QED
    BY <2>2, <2>3, RefereeAssumption
<1>4. QED
  BY <1>1, <1>2, <1>3, RefereeAssumption

LEMMA ConsumeFacts ==
  ASSUME NEW b \in Seq(Byte), NEW n \in Nat, Len(b) <= MaxFrame
  PROVE  /\ ConsumeBytes(b, n) \in Seq(Byte)
         /\ Len(ConsumeBytes(b, n)) <= MaxFrame
<1>1. CASE n >= Len(b)
  BY <1>1, RefereeAssumption DEF ConsumeBytes
<1>2. CASE n < Len(b)
  <2>1. \A i \in n + 1 .. Len(b) : b[i] \in Byte
    BY ElementOfSeq
  <2>2. /\ SubSeq(b, n + 1, Len(b)) \in Seq(Byte)
        /\ Len(SubSeq(b, n + 1, Len(b))) = Len(b) - n
    BY <1>2, <2>1, SubSeqProperties
  <2>3. QED
    BY <1>2, <2>2, RefereeAssumption DEF ConsumeBytes
<1>3. QED
  BY <1>1, <1>2

\* The bytes at which the length is read are inside the buffer.
LEMMA FullLenFacts ==
  ASSUME NEW b \in Seq(Byte), Len(b) >= MinLen
  PROVE  FullLen(b) \in Nat
<1>1. b[2] \in Byte /\ b[3] \in Byte
  BY RefereeAssumption, ElementOfSeq
<1>2. DataLen[<<b[2], b[3]>>] \in Nat
  BY <1>1, RefereeAssumption
<1>3. QED
  BY <1>2, RefereeAssumption DEF FullLen

LEMMA ParsedFacts ==
  ASSUME NEW s \in State, NEW frame
  PROVE  Parsed(s, frame) \in State
  BY RefereeAssumption DEF Parsed, State

-----------------------------------------------------------------------------
\* The inductive invariant.  That there is room between two chunks is the
\* reason why the parser stops: no frame that begins the buffer is larger
\* than the buffer, and the types say that the length read is a number.
IInv == TypeOK /\ RoomForAByte

LEMMA InitIInv == Init => IInv
<1> SUFFICES ASSUME Init PROVE IInv
  OBVIOUS
<1>1. NoReports \in State
  BY RefereeAssumption DEF NoReports, State
<1>2. QED
  BY <1>1, RefereeAssumption DEF Init, IInv, TypeOK, RoomForAByte

LEMMA StepIInv == IInv /\ [Next]_vars => IInv'
<1> SUFFICES ASSUME IInv, [Next]_vars PROVE IInv'
  OBVIOUS
<1> USE DEF IInv
<1>1. ASSUME NEW c \in Chunk, Route(c) PROVE IInv'
  <2>1. queue' \in Seq(Chunk) /\ Len(queue') <= QueueDepth
    BY <1>1, AppendProperties, RefereeAssumption DEF Route, TypeOK
  <2>2. QED
    BY <1>1, <2>1 DEF Route, TypeOK, RoomForAByte
<1>2. CASE Feed
  <2>1. Head(queue) \in Chunk /\ Tail(queue) \in Seq(Chunk)
        /\ Len(Tail(queue)) = Len(queue) - 1
    BY <1>2, HeadTailProperties DEF Feed, TypeOK
  <2>2. buf' \in Seq(Byte) /\ Len(buf') <= MaxFrame
    BY <1>2, <2>1, ChunkFacts, PushAllFacts DEF Feed, TypeOK
  <2>3. queue' \in Seq(Chunk) /\ Len(queue') <= QueueDepth
    BY <1>2, <2>1, RefereeAssumption DEF Feed, TypeOK
  <2>4. QED
    BY <1>2, <2>2, <2>3 DEF Feed, TypeOK, RoomForAByte
<1>3. CASE SkipByte
  <2>1. buf' \in Seq(Byte) /\ Len(buf') <= MaxFrame
    BY <1>3, ConsumeFacts DEF SkipByte, TypeOK
  <2>2. QED
    BY <1>3, <2>1 DEF SkipByte, TypeOK, RoomForAByte
<1>4. CASE ParseFrame
  <2>1. FullLen(buf) \in Nat
    BY <1>4, FullLenFacts DEF ParseFrame, TypeOK
  <2>2. buf' \in Seq(Byte) /\ Len(buf') <= MaxFrame
    BY <1>4, <2>1, ConsumeFacts DEF ParseFrame, TypeOK
  <2>3. state' \in State
    BY <1>4, ParsedFacts DEF ParseFrame, TypeOK
  <2>4. QED
    BY <1>4, <2>2, <2>3 DEF ParseFrame, TypeOK, RoomForAByte
<1>5. CASE ParseDone
  <2>1. CASE Len(buf) < MinLen
    BY <1>5, <2>1, RefereeAssumption DEF ParseDone, TypeOK, RoomForAByte
  <2>2. CASE Len(buf) >= MinLen
    <3>1. FullLen(buf) \in Nat
      BY <2>2, FullLenFacts DEF TypeOK
    <3>2. Len(buf) < FullLen(buf) /\ FullLen(buf) <= MaxFrame
      BY <1>5, <2>2 DEF ParseDone, HasHeader
    <3>3. Len(buf) < MaxFrame
      BY <3>1, <3>2, RefereeAssumption DEF TypeOK
    <3>4. QED
      BY <1>5, <3>3 DEF ParseDone, TypeOK, RoomForAByte
  <2>3. QED
    BY <2>1, <2>2, RefereeAssumption DEF TypeOK
<1>6. CASE Publish
  BY <1>6 DEF Publish, TypeOK, RoomForAByte
<1>7. CASE Wake
  BY <1>7 DEF Wake, TypeOK, RoomForAByte
<1>8. CASE UNCHANGED vars
  BY <1>8 DEF vars, TypeOK, RoomForAByte
<1>9. QED
  BY <1>1, <1>2, <1>3, <1>4, <1>5, <1>6, <1>7, <1>8 DEF Next, ThreadStep

LEMMA InvariantHolds == Spec => []IInv
  BY InitIInv, StepIInv, PTL DEF Spec

(* Buffer, queue and state keep their capacities and types.                *)
THEOREM TypeCorrect == Spec => []TypeOK
<1>1. IInv => TypeOK
  BY DEF IInv
<1>2. QED
  BY <1>1, InvariantHolds, PTL

LEMMA SingleByteStep ==
  ASSUME IInv, [Next]_vars, NEW byte \in Byte,
         pc = "drain", queue # <<>>, Head(queue) = <<byte>>, pc' = "parse"
  PROVE  buf' = Append(buf, byte)
<1>1. Feed
  BY DEF Next, ThreadStep, Route, Feed, SkipByte, ParseFrame, ParseDone, Publish, Wake, vars
<1>2. buf' = Newest(buf \o <<byte>>, MaxFrame)
  BY <1>1 DEF Feed, PushAll
<1>3. buf \in Seq(Byte) /\ Len(buf) < MaxFrame
  BY DEF IInv, TypeOK, RoomForAByte
<1>4. buf \o <<byte>> = Append(buf, byte)
  BY <1>3, AppendIsConcat
<1>5. Len(Append(buf, byte)) <= MaxFrame
  BY <1>3, AppendProperties, RefereeAssumption
<1>6. QED
  BY <1>2, <1>4, <1>5 DEF Newest

(* Without the asynchronous UART driver no byte of an incomplete frame is  *)
(* ever overwritten, whatever the bytes are.                               *)
THEOREM NothingOverwritten == Spec => SingleBytesOverwriteNothing
<1>1. IInv /\ [Next]_vars =>
        [\A byte \in Byte :
           pc = "drain" /\ queue # <<>> /\ Head(queue) = <<byte>> /\ pc' = "parse"
             => buf' = Append(buf, byte)]_vars
  BY SingleByteStep
<1>2. QED
  BY <1>1, InvariantHolds, PTL DEF Spec, SingleBytesOverwriteNothing

-----------------------------------------------------------------------------
(* The state is the one that the stream tells.                             *)

\* The frames at positions in P that report on g, and what the last says.
About(s, g, P) ==
  {p \in P : /\ IsFrame(s, p) /\ Frame(s, p) \in DOMAIN Update
             /\ Update[Frame(s, p)].group = g}

Tells(s, P, g, d, from) ==
  \/ About(s, g, P) = {} /\ d = from
  \/ \E p \in About(s, g, P) : /\ \A q \in About(s, g, P) : q <= p
                               /\ d = Update[Frame(s, p)].data

\* The position of the first byte of the buffer.
Position == Len(rx) - Len(buf) + 1

\* The inductive invariant: the buffer is the end of the stream, everything
\* before it is settled, and the state is what those frames tell.
EndsIn(s, b) ==
  Len(b) <= Len(s) /\ \A i \in 1 .. Len(b) : b[i] = s[Len(s) - Len(b) + i]

Remainder == rx \in Seq(Byte) /\ EndsIn(rx, buf)

Settled ==
  /\ Reached(rx, Position)
  /\ \A g \in Group : Tells(rx, Before(rx, Position), g, state[g], base[g])
  /\ pc # "parse" => After(rx, Position) = 0

HInv == IInv /\ Remainder /\ Settled

LEMMA TellsSame ==
  ASSUME NEW s, NEW t, NEW P, NEW g, NEW d, NEW from, Tells(s, P, g, d, from),
         About(t, g, P) = About(s, g, P),
         \A p \in About(s, g, P) : Frame(t, p) = Frame(s, p)
  PROVE  Tells(t, P, g, d, from)
BY DEF Tells

LEMMA TellsLonger ==
  ASSUME NEW s \in Seq(Byte), NEW t \in Seq(Byte), Prolongs(t, s), NEW k, Reached(s, k),
         NEW g, NEW d, NEW from, Tells(s, Before(s, k), g, d, from)
  PROVE  Tells(t, Before(t, k), g, d, from)
<1>1. Before(t, k) = Before(s, k)
  BY ReachedLonger
<1>2. k \in 1 .. Len(s) + 1 /\ Boundaries(s) \subseteq 1 .. Len(s) + 1
  BY BoundaryFacts DEF Reached
<1>3. \A p \in Before(s, k) : p \in Nat \ {0} /\ After(s, p) # 0
  BY <1>2 DEF Before, Reached
<1>4. \A p \in Before(s, k) : /\ IsFrame(t, p) <=> IsFrame(s, p)
                              /\ IsFrame(s, p) => Frame(t, p) = Frame(s, p)
  BY <1>3, SameAfter
<1>5. /\ About(t, g, Before(s, k)) = About(s, g, Before(s, k))
      /\ \A p \in About(s, g, Before(s, k)) : Frame(t, p) = Frame(s, p)
  BY <1>4 DEF About
<1>6. Tells(t, Before(s, k), g, d, from)
  BY <1>5, TellsSame
<1>. QED BY <1>1, <1>6

\* What the parser sees at the head of the buffer is what stands at Position.
LEMMA HeadOfBuffer ==
  ASSUME IInv, Remainder
  PROVE  /\ Position \in 1 .. Len(rx) + 1 /\ Len(rx) \in Nat /\ Len(buf) \in Nat
         /\ Readable(rx, Position) <=> Len(buf) >= MinLen
         /\ Len(buf) >= MinLen =>
              /\ FullLen(buf) = Size(rx, Position) /\ FullLen(buf) \in Nat
              /\ MinLen <= FullLen(buf)
              /\ HasHeader(buf) <=> Fits(rx, Position)
         /\ IsFrame(rx, Position) <=>
              /\ Len(buf) >= MinLen /\ HasHeader(buf) /\ Len(buf) >= FullLen(buf)
         /\ IsFrame(rx, Position) => Frame(rx, Position) = SubSeq(buf, 1, FullLen(buf))
<1>. DEFINE k == Position
<1>1. /\ k \in 1 .. Len(rx) + 1 /\ Len(rx) \in Nat /\ Len(buf) \in Nat
      /\ k = Len(rx) - Len(buf) + 1 /\ buf \in Seq(Byte) /\ rx \in Seq(Byte)
      /\ MinLen \in Nat /\ 3 <= MinLen
  BY RefereeAssumption DEF Position, IInv, TypeOK, Remainder, EndsIn
<1>. HIDE DEF k
<1>2. \A i \in 1 .. Len(buf) : buf[i] = rx[k + i - 1]
  BY <1>1 DEF Remainder, EndsIn
<1>3. Readable(rx, k) <=> Len(buf) >= MinLen
  BY <1>1 DEF Readable
<1>4. ASSUME Len(buf) >= MinLen
      PROVE  /\ FullLen(buf) = Size(rx, k) /\ FullLen(buf) \in Nat
             /\ MinLen <= FullLen(buf)
             /\ HasHeader(buf) <=> Fits(rx, k)
  <2>1. buf[1] = rx[k] /\ buf[2] = rx[k + 1] /\ buf[3] = rx[k + 2]
    <3>1. /\ 1 \in 1 .. Len(buf) /\ 2 \in 1 .. Len(buf) /\ 3 \in 1 .. Len(buf)
          /\ k + 1 - 1 = k /\ k + 2 - 1 = k + 1 /\ k + 3 - 1 = k + 2
      BY <1>1, <1>4
    <3>. QED BY <1>2, <3>1
  <2>2. FullLen(buf) = Size(rx, k)
    BY <2>1 DEF FullLen, Size
  <2>3. Size(rx, k) \in Nat /\ MinLen <= Size(rx, k)
    BY <1>1, <1>3, <1>4, SizeFacts
  <2>. QED BY <2>1, <2>2, <2>3 DEF HasHeader, Fits
<1>5. IsFrame(rx, k) <=>
        /\ Len(buf) >= MinLen /\ HasHeader(buf) /\ Len(buf) >= FullLen(buf)
  BY <1>1, <1>3, <1>4 DEF IsFrame
<1>6. ASSUME IsFrame(rx, k)
      PROVE  Frame(rx, k) = SubSeq(buf, 1, FullLen(buf))
  <2>. DEFINE n == FullLen(buf)
  <2>1. n \in Nat /\ n <= Len(buf) /\ n = Size(rx, k)
    BY <1>4, <1>5, <1>6
  <2>. HIDE DEF n
  <2>2. SubSeq(rx, k, k + n - 1) = [i \in 1 .. n |-> rx[k + i - 1]]
    BY <1>1, <2>1
  <2>3. SubSeq(buf, 1, n) = [i \in 1 .. n |-> buf[i]]
    BY <1>1, <2>1
  <2>4. \A i \in 1 .. n : buf[i] = rx[k + i - 1]
    BY <1>1, <1>2, <2>1
  <2>5. SubSeq(rx, k, k + n - 1) = SubSeq(buf, 1, n)
    BY <2>2, <2>3, <2>4
  <2>. QED BY <2>1, <2>5 DEF Frame, n
<1>. QED BY <1>1, <1>3, <1>4, <1>5, <1>6 DEF k

-----------------------------------------------------------------------------
(* One step at a time.                                                     *)

\* What a byte that is skipped, or a frame that is parsed, does to what is
\* told: position k is settled.
LEMMA TellsSkipped ==
  ASSUME NEW s, NEW k, NEW P, NEW g, NEW d, NEW from, Tells(s, P, g, d, from),
         k \notin About(s, g, P \cup {k})
  PROVE  Tells(s, P \cup {k}, g, d, from)
<1>1. About(s, g, P \cup {k}) = About(s, g, P)
  BY DEF About
<1>. QED BY <1>1 DEF Tells

LEMMA TellsParsed ==
  ASSUME NEW s, NEW k \in Nat, NEW P \in SUBSET Nat, \A p \in P : p < k, NEW g, NEW from,
         k \in About(s, g, P \cup {k})
  PROVE  Tells(s, P \cup {k}, g, Update[Frame(s, k)].data, from)
<1>1. \A q \in About(s, g, P \cup {k}) : q <= k
  BY DEF About
<1>. QED BY <1>1 DEF Tells

\* The parser's next position, and the positions before it.
LEMMA Advance ==
  ASSUME HInv, After(rx, Position) # 0
  PROVE  /\ Reached(rx, After(rx, Position)) /\ Position < After(rx, Position)
         /\ Before(rx, After(rx, Position)) = Before(rx, Position) \cup {Position}
         /\ Before(rx, Position) \in SUBSET Nat
         /\ \A p \in Before(rx, Position) : p < Position
<1>1. rx \in Seq(Byte) /\ Reached(rx, Position)
  BY DEF HInv, Remainder, Settled
<1>2. Boundaries(rx) \subseteq 1 .. Len(rx) + 1
  BY <1>1, BoundaryFacts
<1>. QED BY <1>1, <1>2, ReachedNext DEF Before

\* The rest of the buffer after n of its bytes.
LEMMA ConsumedRemainder ==
  ASSUME IInv, Remainder, NEW n \in Nat, n <= Len(buf), buf' = ConsumeBytes(buf, n),
         rx' = rx
  PROVE  Remainder' /\ Position' = Position + n
<1>1. Len(buf) \in Nat /\ Len(rx) \in Nat /\ buf \in Seq(Byte) /\ Len(buf) <= Len(rx)
  BY DEF IInv, TypeOK, Remainder, EndsIn
<1>2. CASE n = Len(buf)
  <2>1. buf' = <<>>
    BY <1>1, <1>2 DEF ConsumeBytes
  <2>2. Len(buf') = 0
    BY <2>1
  <2>. QED BY <1>1, <1>2, <2>2 DEF Remainder, EndsIn, Position
<1>3. CASE n < Len(buf)
  <2>1. buf' = SubSeq(buf, n + 1, Len(buf))
    BY <1>1, <1>3 DEF ConsumeBytes
  <2>2. buf' = [i \in 1 .. Len(buf) - n |-> buf[n + i]]
    BY <1>1, <1>3, <2>1
  <2>3. Len(buf') = Len(buf) - n
    BY <1>1, <1>3, <2>2
  <2>4. ASSUME NEW i \in 1 .. Len(buf')
        PROVE  buf'[i] = rx[Len(rx) - Len(buf') + i]
    <3>1. buf'[i] = buf[n + i] /\ n + i \in 1 .. Len(buf)
      BY <1>1, <1>3, <2>2, <2>3, <2>4
    <3>2. buf[n + i] = rx[Len(rx) - Len(buf) + (n + i)]
      BY <3>1 DEF Remainder, EndsIn
    <3>3. Len(rx) - Len(buf) + (n + i) = Len(rx) - Len(buf') + i
      BY <1>1, <2>3, <2>4
    <3>. QED BY <3>1, <3>2, <3>3
  <2>. QED BY <1>1, <1>3, <2>3, <2>4 DEF Remainder, EndsIn, Position
<1>. QED BY <1>1, <1>2, <1>3

LEMMA SkipSettles ==
  ASSUME HInv, SkipByte, rx' = rx, base' = base
  PROVE  Remainder' /\ Settled'
<1>1. IInv /\ Remainder /\ Settled
  BY DEF HInv
<1>2. /\ pc = "parse" /\ pc' = pc /\ state' = state /\ Len(buf) >= MinLen
      /\ ~HasHeader(buf) /\ buf' = ConsumeBytes(buf, 1)
  BY DEF SkipByte
<1>3. /\ Readable(rx, Position) /\ ~Fits(rx, Position) /\ ~IsFrame(rx, Position)
      /\ Position \in 1 .. Len(rx) + 1 /\ 1 <= Len(buf)
  BY <1>1, <1>2, HeadOfBuffer, RefereeAssumption
<1>4. After(rx, Position) = Position + 1 /\ After(rx, Position) # 0
  BY <1>3 DEF After
<1>5. Remainder' /\ Position' = Position + 1
  BY <1>1, <1>2, <1>3, ConsumedRemainder
<1>6. /\ Reached(rx, Position + 1)
      /\ Before(rx, Position + 1) = Before(rx, Position) \cup {Position}
  BY <1>4, Advance
<1>7. ASSUME NEW g \in Group
      PROVE  Tells(rx, Before(rx, Position + 1), g, state[g], base[g])
  <2>1. Tells(rx, Before(rx, Position), g, state[g], base[g])
    BY <1>1 DEF Settled
  <2>2. Position \notin About(rx, g, Before(rx, Position) \cup {Position})
    BY <1>3 DEF About
  <2>3. Tells(rx, Before(rx, Position) \cup {Position}, g, state[g], base[g])
    BY <2>1, <2>2, TellsSkipped
  <2>. QED BY <1>6, <2>3
<1>8. Settled'
  BY <1>2, <1>5, <1>6, <1>7 DEF Settled
<1>. QED BY <1>5, <1>8

LEMMA ParseSettles ==
  ASSUME HInv, ParseFrame, rx' = rx, base' = base
  PROVE  Remainder' /\ Settled'
<1>1. IInv /\ Remainder /\ Settled
  BY DEF HInv
<1>. DEFINE n == FullLen(buf)
            k == Position
            f == Frame(rx, k)
<1>2. /\ pc = "parse" /\ pc' = pc /\ Len(buf) >= MinLen /\ HasHeader(buf) /\ Len(buf) >= n
      /\ state' = Parsed(state, SubSeq(buf, 1, n)) /\ buf' = ConsumeBytes(buf, n)
  BY DEF ParseFrame
<1>3. /\ IsFrame(rx, k) /\ k \in 1 .. Len(rx) + 1 /\ n \in Nat /\ n = Size(rx, k)
      /\ f = SubSeq(buf, 1, n) /\ n <= Len(buf) /\ Len(rx) \in Nat /\ Len(buf) \in Nat
      /\ MinLen <= n
  BY <1>1, <1>2, HeadOfBuffer
<1>4. After(rx, k) = k + n /\ After(rx, k) # 0
  <2>1. rx \in Seq(Byte) /\ k \in Nat \ {0}
    BY <1>1, <1>3 DEF Remainder
  <2>2. After(rx, k) = k + Size(rx, k)
    BY <1>3, <2>1, AfterFacts
  <2>. HIDE DEF n, k
  <2>. QED BY <1>3, <2>1, <2>2
<1>5. Remainder' /\ Position' = k + n
  BY <1>1, <1>2, <1>3, ConsumedRemainder
<1>6. /\ Reached(rx, k + n)
      /\ Before(rx, k + n) = Before(rx, k) \cup {k}
      /\ Before(rx, k) \in SUBSET Nat
      /\ \A p \in Before(rx, k) : p < k
  BY <1>4, Advance
<1>7. state' = Parsed(state, f) /\ state \in State
  BY <1>1, <1>2, <1>3 DEF IInv, TypeOK
<1>. HIDE DEF n, k, f
<1>8. ASSUME NEW g \in Group
      PROVE  Tells(rx, Before(rx, k + n), g, state'[g], base[g])
  <2>1. Tells(rx, Before(rx, k), g, state[g], base[g])
    BY <1>1 DEF Settled, k
  <2>2. CASE f \in DOMAIN Update /\ Update[f].group = g
    <3>1. k \in About(rx, g, Before(rx, k) \cup {k}) /\ k \in Nat
      <4>1. k \in Nat
        BY <1>3
      <4>2. IsFrame(rx, k) /\ Frame(rx, k) \in DOMAIN Update /\ Update[Frame(rx, k)].group = g
        BY <1>3, <2>2, Zenon DEF f
      <4>. QED BY <4>1, <4>2 DEF About
    <3>2. state'[g] = Update[Frame(rx, k)].data
      BY <1>7, <2>2 DEF Parsed, State, f
    <3>3. Tells(rx, Before(rx, k) \cup {k}, g, Update[Frame(rx, k)].data, base[g])
      BY <1>6, <3>1, TellsParsed
    <3>. QED BY <1>6, <3>2, <3>3
  <2>3. CASE ~(f \in DOMAIN Update /\ Update[f].group = g)
    <3>1. k \notin About(rx, g, Before(rx, k) \cup {k})
      BY <2>3 DEF About, f
    <3>2. state'[g] = state[g]
      BY <1>7, <2>3 DEF Parsed, State
    <3>3. Tells(rx, Before(rx, k) \cup {k}, g, state[g], base[g])
      BY <2>1, <3>1, TellsSkipped
    <3>. QED BY <1>6, <3>2, <3>3
  <2>. QED BY <2>2, <2>3
<1>9. Settled'
  BY <1>2, <1>5, <1>6, <1>8 DEF Settled
<1>. QED BY <1>5, <1>9

LEMMA DoneSettles ==
  ASSUME HInv, ParseDone, rx' = rx, base' = base
  PROVE  Remainder' /\ Settled'
<1>1. IInv /\ Remainder /\ Settled
  BY DEF HInv
<1>2. /\ buf' = buf /\ state' = state
      /\ Len(buf) >= MinLen => HasHeader(buf) /\ Len(buf) < FullLen(buf)
  BY DEF ParseDone
<1>3. ~IsFrame(rx, Position) /\ (Readable(rx, Position) => Fits(rx, Position))
  BY <1>1, <1>2, HeadOfBuffer
<1>4. After(rx, Position) = 0
  BY <1>3 DEF After
<1>5. Position' = Position
  BY <1>2 DEF Position
<1>. QED BY <1>1, <1>2, <1>4, <1>5 DEF Remainder, Settled

\* Both the stream s and its end b are prolonged by c.
Fed(t, s, d, b, c) ==
  /\ t \in Seq(Byte) /\ d \in Seq(Byte) /\ EndsIn(t, d) /\ Prolongs(t, s)
  /\ Len(t) = Len(s) + Len(c) /\ Len(d) = Len(b) + Len(c)

LEMMA FedTogether ==
  ASSUME NEW s \in Seq(Byte), NEW b \in Seq(Byte), NEW c \in Seq(Byte), EndsIn(s, b)
  PROVE  Fed(s \o c, s, b \o c, b, c)
<1>. DEFINE t == s \o c
            d == b \o c
<1>1. /\ d \in Seq(Byte) /\ Len(d) = Len(b) + Len(c)
      /\ \A i \in 1 .. Len(b) + Len(c) : d[i] = IF i <= Len(b) THEN b[i] ELSE c[i - Len(b)]
  BY ConcatProperties, Zenon
<1>2. /\ t \in Seq(Byte) /\ Len(t) = Len(s) + Len(c)
      /\ \A i \in 1 .. Len(s) + Len(c) : t[i] = IF i <= Len(s) THEN s[i] ELSE c[i - Len(s)]
  BY ConcatProperties, Zenon
<1>. HIDE DEF t, d
<1>3. Len(c) \in Nat /\ Len(b) \in Nat /\ Len(s) \in Nat /\ Len(b) <= Len(s)
  BY DEF EndsIn
<1>4. ASSUME NEW i \in 1 .. Len(d)
      PROVE  d[i] = t[Len(t) - Len(d) + i]
  <2>. PICK k : k = Len(s) - Len(b) + i
    OBVIOUS
  <2>1. i \in 1 .. Len(b) + Len(c) /\ Len(t) - Len(d) + i = k /\ k \in 1 .. Len(s) + Len(c)
    BY <1>1, <1>2, <1>3
  <2>2. CASE i <= Len(b)
    <3>1. i \in 1 .. Len(b) /\ k <= Len(s)
      BY <1>3, <2>1, <2>2
    <3>2. b[i] = s[k]
      BY <3>1 DEF EndsIn
    <3>3. d[i] = b[i]
      BY <1>1, <2>1, <2>2, Zenon
    <3>4. t[k] = s[k]
      BY <1>2, <2>1, <3>1, Zenon
    <3>. QED BY <2>1, <3>2, <3>3, <3>4, Zenon
  <2>3. CASE ~(i <= Len(b))
    <3>1. ~(k <= Len(s)) /\ k - Len(s) = i - Len(b)
      BY <1>3, <2>1, <2>3
    <3>2. d[i] = c[i - Len(b)]
      BY <1>1, <2>1, <2>3, Zenon
    <3>3. t[k] = c[k - Len(s)]
      BY <1>2, <2>1, <3>1, Zenon
    <3>. QED BY <2>1, <3>1, <3>2, <3>3, Zenon
  <2>. QED BY <2>2, <2>3, Zenon
<1>5. Fed(t, s, d, b, c)
  BY <1>1, <1>2, <1>3, <1>4 DEF Fed, EndsIn, Prolongs
<1>. QED BY <1>5, Zenon DEF t, d

\* The newest n bytes of a sequence and of a longer one that ends in it.
LEMMA NewestOfBoth ==
  ASSUME NEW t \in Seq(Byte), NEW d \in Seq(Byte), EndsIn(t, d),
         NEW n \in Nat \ {0}, n < Len(d)
  PROVE  /\ Newest(d, n) \in Seq(Byte) /\ Len(Newest(d, n)) = n
         /\ Newest(t, n) = Newest(d, n)
<1>1. Len(t) \in Nat /\ Len(d) \in Nat /\ Len(d) <= Len(t)
  BY DEF EndsIn
<1>2. Newest(d, n) = SubSeq(d, Len(d) - n + 1, Len(d))
  BY <1>1 DEF Newest
<1>3. Newest(t, n) = SubSeq(t, Len(t) - n + 1, Len(t))
  BY <1>1 DEF Newest
<1>4. SubSeq(d, Len(d) - n + 1, Len(d)) = [i \in 1 .. n |-> d[Len(d) - n + i]]
  BY <1>1
<1>5. SubSeq(t, Len(t) - n + 1, Len(t)) = [i \in 1 .. n |-> t[Len(t) - n + i]]
  BY <1>1
<1>6. ASSUME NEW i \in 1 .. n
      PROVE  d[Len(d) - n + i] = t[Len(t) - n + i] /\ d[Len(d) - n + i] \in Byte
  <2>1. Len(d) - n + i \in 1 .. Len(d)
        /\ Len(t) - Len(d) + (Len(d) - n + i) = Len(t) - n + i
    BY <1>1
  <2>. QED BY <2>1, ElementOfSeq DEF EndsIn
<1>7. [i \in 1 .. n |-> d[Len(d) - n + i]] = [i \in 1 .. n |-> t[Len(t) - n + i]]
  BY <1>6
<1>8. /\ [i \in 1 .. n |-> d[Len(d) - n + i]] \in Seq(Byte)
      /\ Len([i \in 1 .. n |-> d[Len(d) - n + i]]) = n
  BY <1>6
<1>. QED BY <1>2, <1>3, <1>4, <1>5, <1>7, <1>8, Zenon

\* A chunk enters the buffer and the stream.
LEMMA FeedSettles ==
  ASSUME HInv, Feed,
         LET bytes == rx \o Head(queue)
             kept  == Len(buf) + Len(Head(queue)) <= MaxFrame
         IN  /\ rx' = IF kept THEN bytes ELSE Newest(bytes, MaxFrame)
             /\ base' = IF ~kept THEN state ELSE base
  PROVE  Remainder' /\ Settled'
<1>1. IInv /\ Remainder /\ Settled
  BY DEF HInv
<1>2. PICK c : c = Head(queue)
  OBVIOUS
<1>3. /\ pc' = "parse" /\ state' = state /\ buf' = Newest(buf \o c, MaxFrame)
  BY <1>2 DEF Feed, PushAll
<1>4. /\ c \in Seq(Byte) /\ buf \in Seq(Byte) /\ rx \in Seq(Byte)
      /\ Len(c) \in Nat /\ Len(buf) \in Nat /\ Len(rx) \in Nat
  <2>1. c \in Chunk
    BY <1>1, <1>2, HeadTailProperties DEF Feed, IInv, TypeOK
  <2>. QED BY <1>1, <2>1, ChunkFacts DEF IInv, TypeOK, Remainder
<1>5. PICK t : t = rx \o c
  OBVIOUS
<1>6. PICK d : d = buf \o c
  OBVIOUS
<1>7. Fed(t, rx, d, buf, c)
  <2>1. Fed(rx \o c, rx, buf \o c, buf, c)
    BY <1>1, <1>4, FedTogether DEF Remainder
  <2>. QED BY <1>5, <1>6, <2>1, Zenon
<1>8. CASE Len(buf) + Len(c) <= MaxFrame
  <2>1. rx' = t /\ base' = base
    BY <1>2, <1>5, <1>8
  <2>2. buf' = d
    <3>1. Len(d) <= MaxFrame
      BY <1>7, <1>8 DEF Fed
    <3>2. buf' = Newest(d, MaxFrame)
      BY <1>3, <1>6, Zenon
    <3>. QED BY <3>1, <3>2, Zenon DEF Newest
  <2>3. Remainder'
    BY <1>7, <2>1, <2>2 DEF Remainder, Fed
  <2>4. Position' = Position
    <3>1. Len(t) - Len(d) + 1 = Len(rx) - Len(buf) + 1
      BY <1>4, <1>7 DEF Fed
    <3>. QED BY <2>1, <2>2, <3>1, Zenon DEF Position
  <2>5. Reached(t, Position)
    BY <1>1, <1>4, <1>7, ReachedLonger DEF Settled, Fed
  <2>6. ASSUME NEW g \in Group
        PROVE  Tells(t, Before(t, Position), g, state[g], base[g])
    BY <1>1, <1>4, <1>7, TellsLonger DEF Settled, Fed
  <2>7. Settled'
    BY <1>3, <2>1, <2>4, <2>5, <2>6 DEF Settled
  <2>. QED BY <2>3, <2>7
<1>9. CASE ~(Len(buf) + Len(c) <= MaxFrame)
  <2>1. rx' = Newest(t, MaxFrame) /\ base' = state
    BY <1>2, <1>5, <1>9
  <2>2. buf' = Newest(d, MaxFrame)
    BY <1>3, <1>6, Zenon
  <2>3. MaxFrame \in Nat \ {0} /\ MaxFrame < Len(d)
    BY <1>4, <1>7, <1>9, RefereeAssumption DEF Fed
  <2>4. /\ Newest(d, MaxFrame) \in Seq(Byte) /\ Len(Newest(d, MaxFrame)) = MaxFrame
        /\ Newest(t, MaxFrame) = Newest(d, MaxFrame)
    BY <1>7, <2>3, NewestOfBoth DEF Fed
  <2>5. rx' = buf' /\ rx' \in Seq(Byte)
    BY <2>1, <2>2, <2>4, Zenon
  <2>6. EndsIn(rx', buf') /\ Len(rx') - Len(buf') + 1 = 1
    <3>1. \A r \in Seq(Byte) : EndsIn(r, r) /\ Len(r) - Len(r) + 1 = 1
      BY DEF EndsIn
    <3>. QED BY <2>5, <3>1, Zenon
  <2>7. Position' = 1
    BY <2>6, Zenon DEF Position
  <2>8. Reached(rx', 1) /\ Before(rx', 1) = {}
    BY <2>5, ReachedStart
  <2>9. ASSUME NEW g \in Group
        PROVE  Tells(rx', {}, g, state'[g], base'[g])
    BY <1>3, <2>1 DEF Tells, About
  <2>10. Settled'
    BY <1>3, <2>7, <2>8, <2>9 DEF Settled
  <2>. QED BY <2>5, <2>6, <2>10 DEF Remainder
<1>. QED BY <1>8, <1>9

LEMMA InitHInv == HistInit => HInv
<1>. SUFFICES ASSUME HistInit PROVE HInv
  OBVIOUS
<1>1. IInv
  BY InitIInv DEF HistInit
<1>2. rx = <<>> /\ buf = <<>> /\ rx \in Seq(Byte) /\ Len(rx) = 0 /\ state = base
  BY DEF HistInit, Init
<1>3. Remainder
  BY <1>2 DEF Remainder, EndsIn
<1>4. Position = 1
  BY <1>2 DEF Position
<1>5. Reached(rx, 1) /\ Before(rx, 1) = {}
  BY <1>2, ReachedStart
<1>6. After(rx, 1) = 0
  <2>1. ~Readable(rx, 1)
    BY <1>2, RefereeAssumption DEF Readable
  <2>. QED BY <2>1 DEF After, IsFrame
<1>7. \A g \in Group : Tells(rx, {}, g, state[g], base[g])
  BY <1>2 DEF Tells, About
<1>. QED BY <1>1, <1>3, <1>4, <1>5, <1>6, <1>7 DEF HInv, Settled

LEMMA HistImpliesNext == [HistNext]_hvars => [Next]_vars
BY DEF HistNext, hvars, Arrive, Recorded, Next

LEMMA StepHInv == HInv /\ [HistNext]_hvars => HInv'
<1>. SUFFICES ASSUME HInv, [HistNext]_hvars PROVE HInv'
  OBVIOUS
<1>1. IInv'
  BY StepIInv, HistImpliesNext DEF HInv
<1>2. ASSUME UNCHANGED <<buf, state, rx, base>>, pc' # "parse" => pc # "parse"
      PROVE  Remainder' /\ Settled'
  BY <1>2 DEF HInv, Remainder, Settled, Position
<1>3. ASSUME Arrive PROVE Remainder' /\ Settled'
  BY <1>2, <1>3 DEF Arrive, Route
<1>4. ASSUME UNCHANGED hvars PROVE Remainder' /\ Settled'
  BY <1>2, <1>4 DEF hvars, vars
<1>5. ASSUME Recorded PROVE Remainder' /\ Settled'
  <2>1. CASE Feed
    <3>1. pc = "drain" /\ pc' = "parse"
      BY <2>1 DEF Feed
    <3>2. LET bytes == rx \o Head(queue)
              kept  == Len(buf) + Len(Head(queue)) <= MaxFrame
          IN  /\ rx' = IF kept THEN bytes ELSE Newest(bytes, MaxFrame)
              /\ base' = IF ~kept THEN state ELSE base
      BY <1>5, <3>1, Zenon DEF Recorded
    <3>. QED BY <2>1, <3>2, FeedSettles
  <2>2. ASSUME pc # "drain" \/ pc' # "parse"
        PROVE  rx' = rx /\ base' = base
    BY <1>5, <2>2 DEF Recorded
  <2>3. CASE SkipByte
    BY <2>2, <2>3, SkipSettles DEF SkipByte
  <2>4. CASE ParseFrame
    BY <2>2, <2>4, ParseSettles DEF ParseFrame
  <2>5. CASE ParseDone
    BY <2>2, <2>5, DoneSettles DEF ParseDone
  <2>6. CASE Publish \/ Wake
    <3>1. pc # "parse" /\ pc' # "parse" /\ UNCHANGED <<buf, state>>
      BY <2>6 DEF Publish, Wake
    <3>. QED BY <1>2, <2>2, <3>1
  <2>. QED BY <1>5, <2>1, <2>3, <2>4, <2>5, <2>6 DEF Recorded, ThreadStep
<1>. QED BY <1>1, <1>3, <1>4, <1>5 DEF HInv, HistNext

LEMMA ToldIsLastReport ==
  ASSUME NEW s \in Seq(Byte), NEW k, Reached(s, k), After(s, k) = 0,
         NEW g, NEW d, NEW from, Tells(s, Before(s, k), g, d, from)
  PROVE  d = LastReport(s, g, from)
<1>. DEFINE R == Reports(s, g)
<1>1. About(s, g, Before(s, k)) = R
  <2>1. ~IsFrame(s, k)
    <3>1. k \in Nat \ {0}
      BY BoundaryFacts DEF Reached
    <3>2. ~IsFrame(s, k) \/ Size(s, k) \in Nat
      BY <3>1, SizeFacts DEF IsFrame
    <3>. QED BY <3>1, <3>2, AfterFacts
  <2>2. Boundaries(s) = Before(s, k) \cup {k}
    BY ReachedEnd
  <2>. QED BY <2>1, <2>2 DEF About, Reports
<1>2. R \subseteq Nat
  BY BoundaryFacts DEF Reports
<1>3. CASE R = {} /\ d = from
  BY <1>3 DEF LastReport
<1>4. CASE \E p \in R : (\A q \in R : q <= p) /\ d = Update[Frame(s, p)].data
  <2>1. PICK p \in R : (\A q \in R : q <= p) /\ d = Update[Frame(s, p)].data
    BY <1>4
  <2>. HIDE DEF R
  <2>2. Max(R) = p
    <3>1. \A r \in R : (\A q \in R : r >= q) => r = p
      BY <1>2, <2>1
    <3>2. \A q \in R : p >= q
      BY <1>2, <2>1
    <3>. QED BY <2>1, <3>1, <3>2 DEF Max
  <2>3. R # {}
    BY <2>1
  <2>. QED BY <2>1, <2>2, <2>3 DEF LastReport, R
<1>. QED BY <1>1, <1>3, <1>4 DEF Tells

(* However the bytes of the referee system are cut into chunks, dropped    *)
(* with a full queue or overwritten in the buffer, g_state is what the     *)
(* last complete frames of the bytes taken over say.                       *)
THEOREM StateIsAlwaysTheStreams == HistSpec => []StateIsTheStreams
<1>1. HInv => StateIsTheStreams
  <2>. SUFFICES ASSUME HInv, pc # "parse"
                PROVE  state = [g \in Group |-> LastReport(rx, g, base[g])]
    BY DEF StateIsTheStreams
  <2>1. state = [g \in Group |-> state[g]]
    BY DEF HInv, IInv, TypeOK, State
  <2>2. \A g \in Group : state[g] = LastReport(rx, g, base[g])
    BY ToldIsLastReport DEF HInv, Remainder, Settled
  <2>. QED BY <2>1, <2>2
<1>2. HistSpec => []HInv
  BY InitHInv, StepHInv, PTL DEF HistSpec
<1>. QED BY <1>1, <1>2, PTL
=============================================================================
