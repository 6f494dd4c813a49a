---------------------------- MODULE Links_proofs ----------------------------
(***************************************************************************)
(* Proofs about the links to other devices: the UART with the MAVLink      *)
(* mode, for queues of any depth, bursts of any length and counters of any *)
(* width; and the USB session, for messages, buffers and endpoints of any  *)
(* size.                                                                   *)
(***************************************************************************)
EXTENDS MavlinkMode, UsbSession, SequenceTheorems, TLAPS

-----------------------------------------------------------------------------
(* Sequences of chunk numbers.                                             *)

Increasing(q) == \A i, j \in 1 .. Len(q) : i < j => q[i] < q[j]
AllAbove(q, x) == \A i \in 1 .. Len(q) : x < q[i]
AllBelow(q, x) == \A i \in 1 .. Len(q) : q[i] < x
AllUpTo(q, x) == \A i \in 1 .. Len(q) : q[i] <= x
Before(q, r) == \A i \in 1 .. Len(q), j \in 1 .. Len(r) : q[i] < r[j]

Chunk == 1 .. MaxChunks

LEMMA ChunkIsNat == ASSUME NEW x \in Chunk PROVE x \in Nat /\ 1 <= x /\ x <= MaxChunks
  BY FanoutAssumption DEF Chunk

LEMMA TailFacts ==
  ASSUME NEW q \in Seq(Chunk), q # <<>>
  PROVE  /\ Tail(q) \in Seq(Chunk) /\ Len(Tail(q)) = Len(q) - 1 /\ Len(q) \in Nat \ {0}
         /\ \A i \in 1 .. Len(Tail(q)) : i + 1 \in 1 .. Len(q) /\ Tail(q)[i] = q[i + 1]
         /\ 1 \in 1 .. Len(q) /\ Head(q) = q[1] /\ Head(q) \in Chunk
OBVIOUS

LEMMA AppendFacts ==
  ASSUME NEW q \in Seq(Chunk), NEW e \in Chunk
  PROVE  /\ Append(q, e) \in Seq(Chunk) /\ Len(Append(q, e)) = Len(q) + 1 /\ Len(q) \in Nat
         /\ \A i \in 1 .. Len(q) + 1 :
              \/ i \in 1 .. Len(q) /\ Append(q, e)[i] = q[i]
              \/ i = Len(q) + 1 /\ Append(q, e)[i] = e
OBVIOUS

LEMMA ConcatFacts ==
  ASSUME NEW q \in Seq(Chunk), NEW s \in Seq(Chunk)
  PROVE  /\ q \o s \in Seq(Chunk) /\ Len(q \o s) = Len(q) + Len(s)
         /\ Len(q) \in Nat /\ Len(s) \in Nat
         /\ \A i \in 1 .. Len(q) + Len(s) :
              (q \o s)[i] = IF i <= Len(q) THEN q[i] ELSE s[i - Len(q)]
OBVIOUS

Burst(n, m) == [i \in 1 .. m |-> n + i]
Fits(n, m) == \A i \in 1 .. m : n + i \in Chunk

(* The chunks of a burst follow the ones already received.                 *)
LEMMA BurstFacts ==
  ASSUME NEW q \in Seq(Chunk), NEW m \in Nat, NEW n \in Nat, Fits(n, m)
  PROVE  /\ q \o Burst(n, m) \in Seq(Chunk) /\ Len(q) \in Nat
         /\ Len(q \o Burst(n, m)) = Len(q) + m
         /\ \A i \in 1 .. Len(q) : (q \o Burst(n, m))[i] = q[i]
         /\ \A i \in 1 .. Len(q) + m : i > Len(q) =>
              (q \o Burst(n, m))[i] = n + (i - Len(q))
<1>. DEFINE s == Burst(n, m)
<1>1. s \in Seq(Chunk) /\ Len(s) = m /\ \A i \in 1 .. m : s[i] = n + i
  BY DEF Burst, Fits
<1>. HIDE DEF s
<1>2. /\ q \o s \in Seq(Chunk) /\ Len(q \o s) = Len(q) + m /\ Len(q) \in Nat
      /\ \A i \in 1 .. Len(q) + m :
           (q \o s)[i] = IF i <= Len(q) THEN q[i] ELSE s[i - Len(q)]
  BY <1>1, ConcatFacts
<1>3. ASSUME NEW i \in 1 .. Len(q) PROVE (q \o s)[i] = q[i]
  <2>1. i \in 1 .. Len(q) + m /\ i <= Len(q)
    BY <1>2
  <2>. QED
    BY <1>2, <2>1
<1>4. ASSUME NEW i \in 1 .. Len(q) + m, i > Len(q) PROVE (q \o s)[i] = n + (i - Len(q))
  <2>1. i - Len(q) \in 1 .. m
    BY <1>2, <1>4
  <2>. QED
    BY <1>1, <1>2, <1>4, <2>1
<1>. QED
  BY <1>2, <1>3, <1>4 DEF s

(* The order survives a chunk taken from the front.                        *)
LEMMA TailOrdered ==
  ASSUME NEW q \in Seq(Chunk), q # <<>>, Increasing(q)
  PROVE  /\ Increasing(Tail(q)) /\ AllAbove(Tail(q), Head(q))
         /\ \A x \in Nat : AllAbove(q, x) => AllAbove(Tail(q), x) /\ x < Head(q)
         /\ \A x \in Nat : AllUpTo(q, x) => AllUpTo(Tail(q), x) /\ Head(q) <= x
         /\ \A x \in Nat : AllBelow(q, x) => AllBelow(Tail(q), x)
BY TailFacts DEF Increasing, AllAbove, AllUpTo, AllBelow

LEMMA TailBefore ==
  ASSUME NEW q \in Seq(Chunk), NEW r \in Seq(Chunk), Before(q, r)
  PROVE  /\ q # <<>> => Before(Tail(q), r) /\ AllAbove(r, Head(q))
         /\ r # <<>> => Before(q, Tail(r)) /\ AllBelow(q, Head(r))
BY TailFacts DEF Before, AllAbove, AllBelow

(* ... and a chunk put behind those that are smaller.                      *)
LEMMA AppendOrdered ==
  ASSUME NEW q \in Seq(Chunk), NEW e \in Chunk, Increasing(q), AllBelow(q, e)
  PROVE  /\ Increasing(Append(q, e))
         /\ \A x \in Nat : AllAbove(q, x) /\ x < e => AllAbove(Append(q, e), x)
         /\ \A x \in Nat : AllUpTo(q, x) /\ e <= x => AllUpTo(Append(q, e), x)
         /\ \A r \in Seq(Chunk) :
              Before(q, r) /\ AllAbove(r, e) => Before(Append(q, e), r)
<1>1. Increasing(Append(q, e))
  <2>. SUFFICES ASSUME NEW i \in 1 .. Len(q) + 1, NEW j \in 1 .. Len(q) + 1, i < j
                PROVE  Append(q, e)[i] < Append(q, e)[j]
    BY AppendFacts DEF Increasing
  <2>1. Len(q) \in Nat /\ i \in 1 .. Len(q) /\ Append(q, e)[i] = q[i]
    BY AppendFacts
  <2>2. CASE j \in 1 .. Len(q)
    BY <2>1, <2>2, AppendFacts DEF Increasing
  <2>3. CASE j = Len(q) + 1
    BY <2>1, <2>3, AppendFacts DEF AllBelow
  <2>. QED
    BY <2>1, <2>2, <2>3
<1>2. \A x \in Nat : AllAbove(q, x) /\ x < e => AllAbove(Append(q, e), x)
  BY AppendFacts DEF AllAbove
<1>3. \A x \in Nat : AllUpTo(q, x) /\ e <= x => AllUpTo(Append(q, e), x)
  BY AppendFacts DEF AllUpTo
<1>4. ASSUME NEW r \in Seq(Chunk), Before(q, r), AllAbove(r, e)
      PROVE  Before(Append(q, e), r)
  BY <1>4, AppendFacts DEF Before, AllAbove
<1>. QED
  BY <1>1, <1>2, <1>3, <1>4

(* ... and a burst numbered after all of them.                             *)
LEMMA BurstOrdered ==
  ASSUME NEW q \in Seq(Chunk), NEW m \in Nat, NEW n \in Nat, Fits(n, m),
         Increasing(q), AllUpTo(q, n)
  PROVE  /\ q \o Burst(n, m) \in Seq(Chunk) /\ Len(q \o Burst(n, m)) = Len(q) + m
         /\ Increasing(q \o Burst(n, m))
         /\ \A k \in Nat : m <= k => AllUpTo(q \o Burst(n, m), n + k)
         /\ \A x \in Nat : AllAbove(q, x) /\ x <= n => AllAbove(q \o Burst(n, m), x)
         /\ \A p \in Seq(Chunk) :
              Before(p, q) /\ AllUpTo(p, n) => Before(p, q \o Burst(n, m))
<1>. DEFINE r == q \o Burst(n, m)
<1>1. /\ r \in Seq(Chunk) /\ Len(r) = Len(q) + m /\ Len(q) \in Nat
      /\ \A i \in 1 .. Len(q) : r[i] = q[i]
      /\ \A i \in 1 .. Len(r) : i > Len(q) => r[i] = n + (i - Len(q))
  BY BurstFacts
<1>. HIDE DEF r
<1>2. \A i \in 1 .. Len(q) : q[i] \in Nat
  BY ChunkIsNat
<1>3. ASSUME NEW i \in 1 .. Len(r)
      PROVE  \/ i \in 1 .. Len(q) /\ r[i] = q[i]
             \/ i > Len(q) /\ i <= Len(q) + m /\ r[i] = n + (i - Len(q))
  BY <1>1
<1>4. Increasing(r)
  <2>. SUFFICES ASSUME NEW i \in 1 .. Len(r), NEW j \in 1 .. Len(r), i < j
                PROVE  r[i] < r[j]
    BY DEF Increasing
  <2>1. CASE j \in 1 .. Len(q)
    <3>1. i \in 1 .. Len(q)
      BY <1>1, <2>1
    <3>. QED
      BY <1>1, <2>1, <3>1 DEF Increasing
  <2>2. CASE j > Len(q)
    <3>1. r[j] = n + (j - Len(q))
      BY <1>1, <2>2
    <3>2. CASE i \in 1 .. Len(q)
      <4>1. r[i] = q[i] /\ q[i] <= n /\ q[i] \in Nat
        BY <1>1, <1>2, <3>2 DEF AllUpTo
      <4>. QED
        BY <1>1, <2>2, <3>1, <4>1
    <3>3. CASE i > Len(q)
      <4>1. r[i] = n + (i - Len(q))
        BY <1>1, <3>3
      <4>. QED
        BY <1>1, <3>1, <4>1
    <3>. QED
      BY <1>1, <3>2, <3>3
  <2>. QED
    BY <1>1, <2>1, <2>2
<1>5. ASSUME NEW k \in Nat, m <= k PROVE AllUpTo(r, n + k)
  <2>. SUFFICES ASSUME NEW i \in 1 .. Len(r) PROVE r[i] <= n + k
    BY DEF AllUpTo
  <2>1. CASE i \in 1 .. Len(q)
    <3>1. r[i] = q[i] /\ q[i] <= n /\ q[i] \in Nat
      BY <1>1, <1>2, <2>1 DEF AllUpTo
    <3>. QED
      BY <3>1
  <2>2. CASE i > Len(q)
    BY <1>1, <1>5, <2>2
  <2>. QED
    BY <1>1, <2>1, <2>2
<1>6. ASSUME NEW x \in Nat, AllAbove(q, x), x <= n PROVE AllAbove(r, x)
  <2>. SUFFICES ASSUME NEW i \in 1 .. Len(r) PROVE x < r[i]
    BY DEF AllAbove
  <2>. QED
    BY <1>1, <1>3, <1>6 DEF AllAbove
<1>7. ASSUME NEW p \in Seq(Chunk), Before(p, q), AllUpTo(p, n) PROVE Before(p, r)
  <2>. SUFFICES ASSUME NEW i \in 1 .. Len(p), NEW j \in 1 .. Len(r) PROVE p[i] < r[j]
    BY DEF Before
  <2>1. p[i] \in Nat /\ p[i] <= n
    BY <1>7, ChunkIsNat DEF AllUpTo
  <2>2. CASE j \in 1 .. Len(q)
    BY <1>1, <1>7, <2>2 DEF Before
  <2>3. CASE j > Len(q)
    BY <1>1, <2>1, <2>3
  <2>. QED
    BY <1>1, <2>2, <2>3
<1>. QED
  BY <1>1, <1>4, <1>5, <1>6, <1>7 DEF r

-----------------------------------------------------------------------------
(* The fan-out keeps the order of the line on every branch.                *)

Pending(t, c) == \E i \in 1 .. Len(t) : t[i] = c
Routes == {<<"remote_input", "referee", "mavlink">>, <<"referee", "mavlink">>, <<"mavlink">>}

Received == Increasing(rx) /\ AllUpTo(rx, count)

Branch(c) ==
  /\ Increasing(queue[c]) /\ AllAbove(queue[c], seen[c]) /\ AllUpTo(queue[c], count)
  /\ Before(queue[c], rx)
  /\ seen[c] <= count /\ AllAbove(rx, seen[c])

InHand ==
  hand # None =>
    /\ hand.chunk <= count /\ AllAbove(rx, hand.chunk)
    /\ \A c \in Consumer : Pending(hand.to, c) =>
         seen[c] < hand.chunk /\ AllBelow(queue[c], hand.chunk)

Ordered == FanoutTypeOK /\ Received /\ InHand /\ \A c \in Consumer : Branch(c)

(* What is left of a route is a route to other readers.                    *)
LEMMA RouteFacts ==
  ASSUME NEW t \in Routes
  PROVE  /\ Head(t) \in Consumer /\ Len(t) \in 1 .. 3
         /\ Pending(t, Head(t))
         /\ Len(t) # 1 => /\ Tail(t) \in Routes
                          /\ \A c \in Consumer : Pending(Tail(t), c) =>
                               Pending(t, c) /\ c # Head(t)
<1>1. CASE t = <<"remote_input", "referee", "mavlink">>
  <2>1. /\ Len(t) = 3 /\ Head(t) = "remote_input" /\ Tail(t) = <<"referee", "mavlink">>
        /\ t[1] = "remote_input" /\ t[2] = "referee" /\ t[3] = "mavlink"
    BY <1>1
  <2>2. ASSUME NEW c \in Consumer, Pending(Tail(t), c) PROVE c = "referee" \/ c = "mavlink"
    <3>1. PICK i \in 1 .. Len(Tail(t)) : Tail(t)[i] = c
      BY <2>2 DEF Pending
    <3>2. /\ Len(Tail(t)) = 2 /\ Tail(t)[1] = "referee" /\ Tail(t)[2] = "mavlink"
      BY <2>1
    <3>3. i = 1 \/ i = 2
      BY <3>1, <3>2
    <3>. QED
      BY <3>1, <3>2, <3>3
  <2>3. 1 \in 1 .. Len(t) /\ 2 \in 1 .. Len(t) /\ 3 \in 1 .. Len(t)
    BY <2>1
  <2>4. Tail(t) \in Routes
    BY <2>1 DEF Routes
  <2>5. /\ Pending(t, "remote_input") /\ Pending(t, "referee") /\ Pending(t, "mavlink")
    BY <2>1, <2>3 DEF Pending
  <2>6. ASSUME NEW c \in Consumer, Pending(Tail(t), c) PROVE Pending(t, c) /\ c # Head(t)
    <3>1. c = "referee" \/ c = "mavlink"
      BY <2>2, <2>6
    <3>. QED
      BY <2>1, <2>5, <3>1
  <2>7. Head(t) \in Consumer /\ Len(t) \in 1 .. 3
    BY <2>1 DEF Consumer
  <2>. QED
    BY <2>1, <2>4, <2>5, <2>6, <2>7
<1>2. CASE t = <<"referee", "mavlink">>
  <2>1. /\ Len(t) = 2 /\ Head(t) = "referee" /\ Tail(t) = <<"mavlink">>
        /\ t[1] = "referee" /\ t[2] = "mavlink"
    BY <1>2
  <2>2. ASSUME NEW c \in Consumer, Pending(Tail(t), c) PROVE c = "mavlink"
    BY <2>1, <2>2 DEF Pending
  <2>3. 1 \in 1 .. Len(t) /\ 2 \in 1 .. Len(t)
    BY <2>1
  <2>. QED
    BY <2>1, <2>2, <2>3 DEF Pending, Routes, Consumer
<1>3. CASE t = <<"mavlink">>
  BY <1>3 DEF Pending, Consumer
<1>. QED
  BY <1>1, <1>2, <1>3 DEF Routes

LEMMA FanoutInitOrdered == FanoutInit => Ordered
<1>. SUFFICES ASSUME FanoutInit PROVE Ordered
  OBVIOUS
<1>1. /\ receiving \in BOOLEAN /\ count = 0 /\ rx = <<>> /\ hand = None
      /\ \A c \in Consumer : queue[c] = <<>> /\ seen[c] = 0
      /\ queue \in [Consumer -> Seq(1 .. MaxChunks)] /\ seen \in [Consumer -> 0 .. MaxChunks]
  BY FanoutAssumption DEF FanoutInit
<1>2. rx \in Seq(1 .. MaxChunks) /\ Len(rx) = 0
  BY <1>1
<1>3. FanoutTypeOK
  BY <1>1, <1>2, FanoutAssumption DEF FanoutTypeOK
<1>. QED
  BY <1>1, <1>2, <1>3 DEF Ordered, Received, InHand, Branch, Increasing, AllAbove, AllUpTo, Before

(* What the type invariant says, with the numbers as naturals.             *)
LEMMA TypeFacts ==
  ASSUME FanoutTypeOK
  PROVE  /\ count \in Nat /\ count <= MaxChunks /\ MaxChunks \in Nat
         /\ rx \in Seq(Chunk) /\ Len(rx) \in Nat /\ Len(rx) <= RxDepth
         /\ hand # None => /\ hand.chunk \in Chunk /\ hand.chunk \in Nat
                           /\ hand.to \in Routes
         /\ \A c \in Consumer : /\ queue[c] \in Seq(Chunk) /\ Len(queue[c]) \in Nat
                                /\ Len(queue[c]) <= QueueDepth
                                /\ seen[c] \in Nat /\ seen[c] <= MaxChunks
<1>1. count \in Nat /\ count <= MaxChunks /\ MaxChunks \in Nat
  BY FanoutAssumption DEF FanoutTypeOK
<1>2. rx \in Seq(Chunk) /\ Len(rx) \in Nat /\ Len(rx) <= RxDepth
  BY DEF FanoutTypeOK, Chunk
<1>3. hand # None => hand.chunk \in Chunk /\ hand.chunk \in Nat /\ hand.to \in Routes
  BY DEF FanoutTypeOK, Chunk, Routes
<1>4. ASSUME NEW c \in Consumer
      PROVE  /\ queue[c] \in Seq(Chunk) /\ Len(queue[c]) \in Nat /\ Len(queue[c]) <= QueueDepth
             /\ seen[c] \in Nat /\ seen[c] <= MaxChunks
  BY FanoutAssumption DEF FanoutTypeOK, Chunk
<1>. QED
  BY <1>1, <1>2, <1>3, <1>4

(* A burst is numbered after everything that is on its way.                *)
LEMMA ArriveOrdered ==
  ASSUME Ordered, Arrive
  PROVE  Ordered' /\ count' \in Nat /\ count' > count /\ seen' = seen
<1>1. PICK k \in 1 .. Smaller(MaxBurst, MaxChunks - count) :
        /\ count' = count + k
        /\ rx' = rx \o [i \in 1 .. Smaller(k, RxDepth - Len(rx)) |-> count + i]
  BY DEF Arrive
<1>2. /\ receiving' = receiving /\ hand' = hand /\ queue' = queue /\ seen' = seen
  BY DEF Arrive
<1>. DEFINE m == Smaller(k, RxDepth - Len(rx))
<1>3. /\ FanoutTypeOK /\ count \in Nat /\ count <= MaxChunks /\ MaxChunks \in Nat
      /\ rx \in Seq(Chunk) /\ Len(rx) \in Nat /\ Len(rx) <= RxDepth
  BY TypeFacts DEF Ordered
<1>4. k \in Nat /\ k >= 1 /\ count + k <= MaxChunks
  BY <1>3, FanoutAssumption DEF Smaller
<1>5. m \in Nat /\ m <= k /\ Len(rx) + m <= RxDepth
  BY <1>3, <1>4, FanoutAssumption DEF Smaller
<1>6. rx' = rx \o Burst(count, m)
  BY <1>1 DEF Burst
<1>. HIDE DEF m
<1>7. Fits(count, m)
  BY <1>3, <1>4, <1>5 DEF Fits, Chunk
<1>8. Increasing(rx) /\ AllUpTo(rx, count)
  BY DEF Ordered, Received
<1>9. /\ rx' \in Seq(Chunk) /\ Len(rx') = Len(rx) + m /\ Increasing(rx')
      /\ \A j \in Nat : m <= j => AllUpTo(rx', count + j)
      /\ \A x \in Nat : AllAbove(rx, x) /\ x <= count => AllAbove(rx', x)
      /\ \A p \in Seq(Chunk) : Before(p, rx) /\ AllUpTo(p, count) => Before(p, rx')
  BY <1>3, <1>5, <1>6, <1>7, <1>8, BurstOrdered
<1>10. count' \in Nat /\ count' > count
  BY <1>1, <1>3, <1>4
<1>11. Received'
  BY <1>1, <1>4, <1>5, <1>9 DEF Received
<1>12. ASSUME NEW c \in Consumer PROVE Branch(c)'
  <2>1. /\ Increasing(queue[c]) /\ AllAbove(queue[c], seen[c]) /\ AllUpTo(queue[c], count)
        /\ Before(queue[c], rx) /\ seen[c] <= count /\ AllAbove(rx, seen[c])
    BY DEF Ordered, Branch
  <2>2. queue[c] \in Seq(Chunk) /\ seen[c] \in Nat
    BY <1>3, TypeFacts
  <2>3. AllAbove(rx', seen[c]) /\ Before(queue[c], rx')
    BY <1>9, <2>1, <2>2
  <2>4. seen[c] <= count' /\ AllUpTo(queue[c], count')
    <3>1. \A i \in 1 .. Len(queue[c]) : queue[c][i] \in Nat
      BY <2>2, ChunkIsNat
    <3>. QED
      BY <1>3, <1>10, <2>1, <2>2, <3>1 DEF AllUpTo
  <2>. QED
    BY <1>2, <2>1, <2>3, <2>4 DEF Branch
<1>13. InHand'
  <2>1. CASE hand = None
    BY <1>2, <2>1 DEF InHand, None
  <2>2. CASE hand # None
    <3>1. /\ hand.chunk \in Nat /\ hand.chunk <= count /\ AllAbove(rx, hand.chunk)
          /\ \A c \in Consumer : Pending(hand.to, c) =>
               seen[c] < hand.chunk /\ AllBelow(queue[c], hand.chunk)
      BY <1>3, <2>2, TypeFacts DEF Ordered, InHand
    <3>2. AllAbove(rx', hand.chunk) /\ hand.chunk <= count'
      BY <1>3, <1>9, <1>10, <3>1
    <3>. QED
      BY <1>2, <3>1, <3>2 DEF InHand
  <2>. QED
    BY <2>1, <2>2
<1>14. FanoutTypeOK'
  <2>1. /\ count' \in 0 .. MaxChunks /\ rx' \in Seq(1 .. MaxChunks) /\ Len(rx') <= RxDepth
    <3>1. count' = count + k
      BY <1>1
    <3>2. rx' \in Seq(1 .. MaxChunks) /\ Len(rx') = Len(rx) + m
      BY <1>9 DEF Chunk
    <3>. QED
      BY <1>3, <1>4, <1>5, <3>1, <3>2
  <2>. QED
    BY <1>2, <1>3, <2>1 DEF FanoutTypeOK, None
<1>. QED
  BY <1>2, <1>10, <1>11, <1>12, <1>13, <1>14 DEF Ordered

(* The dispatcher's chunk is older than the ones it has left behind and    *)
(* younger than the ones it has routed.                                    *)
LEMMA TakeOrdered ==
  ASSUME Ordered, Take
  PROVE  Ordered' /\ count' = count /\ seen' = seen
<1>1. /\ hand = None /\ rx # <<>> /\ hand' = [chunk |-> Head(rx), to |-> Order]
      /\ rx' = Tail(rx)
      /\ receiving' = receiving /\ count' = count /\ queue' = queue /\ seen' = seen
  BY DEF Take
<1>2. /\ FanoutTypeOK /\ count \in Nat /\ rx \in Seq(Chunk) /\ Len(rx) \in Nat /\ Len(rx) <= RxDepth
  BY TypeFacts DEF Ordered
<1>3. /\ Tail(rx) \in Seq(Chunk) /\ Len(Tail(rx)) = Len(rx) - 1 /\ Head(rx) \in Chunk
  BY <1>1, <1>2, TailFacts
<1>4. Increasing(rx) /\ AllUpTo(rx, count)
  BY DEF Ordered, Received
<1>5. /\ Increasing(Tail(rx)) /\ AllAbove(Tail(rx), Head(rx))
      /\ \A x \in Nat : AllAbove(rx, x) => AllAbove(Tail(rx), x) /\ x < Head(rx)
      /\ \A x \in Nat : AllUpTo(rx, x) => AllUpTo(Tail(rx), x) /\ Head(rx) <= x
  BY <1>1, <1>2, <1>4, TailOrdered
<1>6. Received'
  BY <1>1, <1>2, <1>4, <1>5 DEF Received
<1>7. ASSUME NEW c \in Consumer
      PROVE  Branch(c)' /\ seen[c] < Head(rx) /\ AllBelow(queue[c], Head(rx))
  <2>1. /\ Increasing(queue[c]) /\ AllAbove(queue[c], seen[c]) /\ AllUpTo(queue[c], count)
        /\ Before(queue[c], rx) /\ seen[c] <= count /\ AllAbove(rx, seen[c])
    BY DEF Ordered, Branch
  <2>2. queue[c] \in Seq(Chunk) /\ seen[c] \in Nat
    BY <1>2, TypeFacts
  <2>3. Before(queue[c], Tail(rx)) /\ AllBelow(queue[c], Head(rx))
    BY <1>1, <1>2, <2>1, <2>2, TailBefore
  <2>4. AllAbove(Tail(rx), seen[c]) /\ seen[c] < Head(rx)
    BY <1>5, <2>1, <2>2
  <2>. QED
    BY <1>1, <2>1, <2>3, <2>4 DEF Branch
<1>8. hand'.chunk = Head(rx) /\ hand'.to = <<"remote_input", "referee", "mavlink">>
  BY <1>1 DEF Order
<1>9. InHand'
  <2>1. Head(rx) <= count /\ AllAbove(Tail(rx), Head(rx))
    BY <1>2, <1>4, <1>5
  <2>2. \A c \in Consumer : seen[c] < Head(rx) /\ AllBelow(queue[c], Head(rx))
    BY <1>7
  <2>3. /\ hand'.chunk <= count' /\ AllAbove(rx', hand'.chunk)
        /\ \A c \in Consumer : seen'[c] < hand'.chunk /\ AllBelow(queue'[c], hand'.chunk)
    BY <1>1, <1>8, <2>1, <2>2
  <2>. QED
    BY <2>3 DEF InHand
<1>10. FanoutTypeOK'
  <2>1. rx' \in Seq(1 .. MaxChunks) /\ Len(rx') <= RxDepth /\ hand'.chunk \in 1 .. MaxChunks
    BY <1>1, <1>2, <1>3, <1>8, FanoutAssumption DEF Chunk
  <2>. QED
    BY <1>1, <1>2, <1>8, <2>1 DEF FanoutTypeOK
<1>. QED
  BY <1>1, <1>6, <1>7, <1>9, <1>10 DEF Ordered

(* A routed chunk goes behind the older ones, or is lost to that reader.   *)
LEMMA RouteOrdered ==
  ASSUME Ordered, Route
  PROVE  Ordered' /\ count' = count /\ seen' = seen
<1>. DEFINE d == Head(hand.to)
            e == hand.chunk
<1>1. /\ hand # None /\ Put(d)
      /\ hand' = IF Len(hand.to) = 1 THEN None ELSE [hand EXCEPT !.to = Tail(@)]
      /\ receiving' = receiving /\ count' = count /\ rx' = rx /\ seen' = seen
  BY DEF Route, line
<1>2. /\ FanoutTypeOK /\ count \in Nat /\ rx \in Seq(Chunk)
      /\ e \in Chunk /\ e \in Nat /\ hand.to \in Routes
  BY <1>1, TypeFacts DEF Ordered
<1>3. /\ d \in Consumer /\ Pending(hand.to, d)
      /\ Len(hand.to) # 1 => /\ Tail(hand.to) \in Routes
                             /\ \A c \in Consumer : Pending(Tail(hand.to), c) =>
                                  Pending(hand.to, c) /\ c # d
  BY <1>2, RouteFacts
<1>4. /\ e <= count /\ AllAbove(rx, e)
      /\ \A c \in Consumer : Pending(hand.to, c) =>
           seen[c] < e /\ AllBelow(queue[c], e)
  BY <1>1 DEF Ordered, InHand
<1>. HIDE DEF d
<1>5. \A c \in Consumer : c # d => queue'[c] = queue[c]
  BY <1>1, <1>2, <1>3 DEF Put, FanoutTypeOK
<1>6. /\ queue' \in [Consumer -> Seq(1 .. MaxChunks)]
      /\ \/ queue'[d] = queue[d]
         \/ Len(queue[d]) < QueueDepth /\ queue'[d] = Append(queue[d], e)
  <2>1. CASE Len(queue[d]) < QueueDepth
    <3>1. queue' = [queue EXCEPT ![d] = Append(@, e)]
      BY <1>1, <2>1 DEF Put
    <3>2. Append(queue[d], e) \in Seq(1 .. MaxChunks)
      BY <1>2, <1>3 DEF FanoutTypeOK, Chunk
    <3>3. queue \in [Consumer -> Seq(1 .. MaxChunks)]
      BY <1>2 DEF FanoutTypeOK
    <3>. HIDE DEF e
    <3>. QED
      BY <1>3, <2>1, <3>1, <3>2, <3>3
  <2>2. CASE ~(Len(queue[d]) < QueueDepth)
    <3>1. queue' = queue
      BY <1>1, <2>2 DEF Put
    <3>. QED
      BY <1>2, <3>1 DEF FanoutTypeOK
  <2>. QED
    BY <2>1, <2>2
<1>. HIDE DEF e
<1>7. ASSUME NEW c \in Consumer
      PROVE  /\ Branch(c)' /\ Len(queue'[c]) <= QueueDepth
             /\ c # d => queue'[c] = queue[c]
  <2>1. /\ Increasing(queue[c]) /\ AllAbove(queue[c], seen[c]) /\ AllUpTo(queue[c], count)
        /\ Before(queue[c], rx) /\ seen[c] <= count /\ AllAbove(rx, seen[c])
    BY DEF Ordered, Branch
  <2>2. /\ queue[c] \in Seq(Chunk) /\ Len(queue[c]) \in Nat /\ Len(queue[c]) <= QueueDepth
        /\ seen[c] \in Nat
    BY <1>2, TypeFacts
  <2>3. CASE queue'[c] = queue[c]
    BY <1>1, <1>5, <2>1, <2>2, <2>3 DEF Branch
  <2>4. CASE c = d /\ Len(queue[d]) < QueueDepth /\ queue'[d] = Append(queue[d], e)
    <3>1. AllBelow(queue[c], e) /\ seen[c] < e
      BY <1>3, <1>4, <2>4
    <3>2. /\ Increasing(Append(queue[c], e))
          /\ \A x \in Nat : AllAbove(queue[c], x) /\ x < e => AllAbove(Append(queue[c], e), x)
          /\ \A x \in Nat : AllUpTo(queue[c], x) /\ e <= x => AllUpTo(Append(queue[c], e), x)
          /\ \A r \in Seq(Chunk) :
               Before(queue[c], r) /\ AllAbove(r, e) => Before(Append(queue[c], e), r)
      BY <1>2, <2>1, <2>2, <3>1, AppendOrdered
    <3>3. /\ AllAbove(queue'[c], seen[c]) /\ AllUpTo(queue'[c], count)
          /\ Increasing(queue'[c]) /\ Before(queue'[c], rx)
      BY <1>2, <1>4, <2>1, <2>2, <2>4, <3>1, <3>2
    <3>4. Len(queue'[c]) <= QueueDepth
      BY <1>2, <2>2, <2>4, AppendFacts, FanoutAssumption
    <3>. QED
      BY <1>1, <2>1, <2>4, <3>3, <3>4 DEF Branch
  <2>. QED
    BY <1>5, <1>6, <2>3, <2>4
<1>8. CASE Len(hand.to) = 1
  <2>1. hand' = None
    BY <1>1, <1>8
  <2>2. InHand'
    BY <2>1 DEF InHand, None
  <2>3. FanoutTypeOK'
    BY <1>1, <1>2, <1>6, <1>7, <2>1 DEF FanoutTypeOK, None
  <2>. QED
    BY <1>1, <1>7, <2>2, <2>3 DEF Ordered, Received
<1>9. CASE Len(hand.to) # 1
  <2>1. hand' = [hand EXCEPT !.to = Tail(@)]
    BY <1>1, <1>9
  <2>2. hand'.chunk = e /\ hand'.to = Tail(hand.to)
    BY <1>2, <2>1, <1>1 DEF e, FanoutTypeOK
  <2>3. InHand'
    BY <1>1, <1>3, <1>4, <1>7, <1>9, <2>2 DEF InHand
  <2>4. FanoutTypeOK'
    BY <1>1, <1>2, <1>3, <1>6, <1>7, <1>9, <2>2 DEF FanoutTypeOK, Routes, Chunk
  <2>. QED
    BY <1>1, <1>7, <2>3, <2>4 DEF Ordered, Received
<1>. QED
  BY <1>8, <1>9

(* A reader's oldest chunk is younger than the last it has taken.          *)
LEMMA DequeueOrdered ==
  ASSUME Ordered, NEW d \in Consumer, Dequeue(d)
  PROVE  /\ Ordered' /\ count' = count
         /\ \E n \in seen[d] + 1 .. count : seen' = [seen EXCEPT ![d] = n]
<1>. DEFINE e == Head(queue[d])
<1>1. /\ queue[d] # <<>> /\ seen' = [seen EXCEPT ![d] = e]
      /\ queue' = [queue EXCEPT ![d] = Tail(@)]
      /\ receiving' = receiving /\ count' = count /\ rx' = rx /\ hand' = hand
  BY DEF Dequeue, line
<1>2. /\ FanoutTypeOK /\ count \in Nat /\ count <= MaxChunks /\ rx \in Seq(Chunk)
      /\ queue[d] \in Seq(Chunk) /\ seen[d] \in Nat
      /\ Len(queue[d]) \in Nat /\ Len(queue[d]) <= QueueDepth
  BY TypeFacts DEF Ordered
<1>3. /\ Tail(queue[d]) \in Seq(Chunk) /\ Len(Tail(queue[d])) = Len(queue[d]) - 1
      /\ e \in Chunk
  BY <1>1, <1>2, TailFacts
<1>4. /\ Increasing(queue[d]) /\ AllAbove(queue[d], seen[d]) /\ AllUpTo(queue[d], count)
      /\ Before(queue[d], rx) /\ seen[d] <= count /\ AllAbove(rx, seen[d])
  BY DEF Ordered, Branch
<1>5. /\ Increasing(Tail(queue[d])) /\ AllAbove(Tail(queue[d]), e)
      /\ AllUpTo(Tail(queue[d]), count) /\ e <= count /\ seen[d] < e
      /\ \A x \in Nat : AllBelow(queue[d], x) => AllBelow(Tail(queue[d]), x)
  BY <1>1, <1>2, <1>4, TailOrdered
<1>6. Before(Tail(queue[d]), rx) /\ AllAbove(rx, e)
  BY <1>1, <1>2, <1>4, TailBefore
<1>7. e \in Nat /\ e <= MaxChunks
  BY <1>3, ChunkIsNat
<1>8. /\ queue \in [Consumer -> Seq(1 .. MaxChunks)] /\ seen \in [Consumer -> 0 .. MaxChunks]
  BY <1>2 DEF FanoutTypeOK
<1>. HIDE DEF e
<1>9. /\ queue'[d] = Tail(queue[d]) /\ seen'[d] = e
      /\ \A c \in Consumer : c # d => queue'[c] = queue[c] /\ seen'[c] = seen[c]
  BY <1>1, <1>8
<1>10. /\ queue' \in [Consumer -> Seq(1 .. MaxChunks)]
       /\ seen' \in [Consumer -> 0 .. MaxChunks]
  <2>1. Tail(queue[d]) \in Seq(1 .. MaxChunks) /\ e \in 0 .. MaxChunks
    BY <1>2, <1>3, <1>7 DEF Chunk
  <2>. QED
    BY <1>1, <1>8, <2>1
<1>11. ASSUME NEW c \in Consumer PROVE Branch(c)' /\ Len(queue'[c]) <= QueueDepth
  <2>1. CASE c = d
    <3>1. Len(queue'[c]) <= QueueDepth
      <4>1. queue'[c] = Tail(queue[d]) /\ Len(Tail(queue[d])) = Len(queue[d]) - 1
        BY <1>3, <1>9, <2>1
      <4>. QED
        BY <1>2, <4>1, FanoutAssumption
    <3>2. /\ queue'[c] = Tail(queue[d]) /\ seen'[c] = e /\ rx' = rx /\ count' = count
      BY <1>1, <1>9, <2>1
    <3>3. Branch(c)'
      BY <1>5, <1>6, <3>2 DEF Branch
    <3>. QED
      BY <3>1, <3>3
  <2>2. CASE c # d
    BY <1>1, <1>2, <1>9, <2>2, TypeFacts DEF Ordered, Branch
  <2>. QED
    BY <2>1, <2>2
<1>12. InHand'
  <2>. SUFFICES ASSUME hand # None,
                       NEW c \in Consumer, Pending(hand.to, c)
                PROVE  seen'[c] < hand.chunk /\ AllBelow(queue'[c], hand.chunk)
    BY <1>1 DEF Ordered, InHand
  <2>1. seen[c] < hand.chunk /\ AllBelow(queue[c], hand.chunk) /\ hand.chunk \in Nat
    BY <1>2, TypeFacts DEF Ordered, InHand
  <2>2. CASE c = d
    <3>1. e < hand.chunk
      <4>1. 1 \in 1 .. Len(queue[d]) /\ e = queue[d][1]
        BY <1>1, <1>2, TailFacts DEF e
      <4>. QED
        BY <2>1, <2>2, <4>1 DEF AllBelow
    <3>. QED
      BY <1>5, <1>9, <2>1, <2>2, <3>1
  <2>3. CASE c # d
    BY <1>9, <2>1, <2>3
  <2>. QED
    BY <2>2, <2>3
<1>13. FanoutTypeOK'
  BY <1>1, <1>2, <1>10, <1>11 DEF FanoutTypeOK, None
<1>14. e \in seen[d] + 1 .. count
  BY <1>2, <1>5, <1>7
<1>. QED
  BY <1>1, <1>11, <1>12, <1>13, <1>14 DEF Ordered, Received

(* Neither the receiver nor any other thread touches the chunks.           *)
LEMMA QuietOrdered ==
  ASSUME Ordered, UNCHANGED <<count, rx, hand, queue, seen>>, receiving' \in BOOLEAN
  PROVE  Ordered'
<1>1. /\ count' = count /\ rx' = rx /\ hand' = hand /\ queue' = queue /\ seen' = seen
  OBVIOUS
<1>2. FanoutTypeOK'
  BY <1>1 DEF Ordered, FanoutTypeOK, None
<1>3. Received' /\ InHand' /\ \A c \in Consumer : Branch(c)'
  BY <1>1 DEF Ordered, Received, InHand, None, Branch
<1>. QED
  BY <1>2, <1>3 DEF Ordered

-----------------------------------------------------------------------------
(* The whole step: what it does to the line ...                            *)

LEMMA StepOrdered ==
  ASSUME Ordered, [Next]_vars
  PROVE  Ordered' /\ [Line!Next]_(Line!vars)
<1>. USE DEF Line!Next, Line!vars, Line!Arrive, Line!See
<1>1. CASE UNCHANGED fanout
  BY <1>1, QuietOrdered DEF fanout, line, Ordered, FanoutTypeOK
<1>2. CASE Arrive
  BY <1>2, ArriveOrdered
<1>3. CASE ReceiverStops
  BY <1>3, QuietOrdered DEF ReceiverStops
<1>4. CASE Take
  BY <1>4, TakeOrdered
<1>5. CASE Route
  BY <1>5, RouteOrdered
<1>6. ASSUME NEW c \in Consumer, Dequeue(c) PROVE Ordered' /\ [Line!Next]_(Line!vars)
  BY <1>6, DequeueOrdered
<1>7. "mavlink" \in Consumer /\ "referee" \in Consumer /\ "remote_input" \in Consumer
  BY DEF Consumer
<1>. QED
  BY <1>1, <1>2, <1>3, <1>4, <1>5, <1>6, <1>7
  DEF Next, vars, Dispatch, Reads, CmdMavlinkOn, OnStep, CmdMavlinkOff,
      TxThread, TxMoves, TxWakes, TxChecks, TxTests, TxWrites,
      RxThread, RxWakes, RxChecks, RxDequeues, RxParses

(* ... and what it does to the mode.  A thread that is past its test of    *)
(* the flag keeps the shell out, and the counters are clear before the     *)
(* flag is set.                                                            *)
ModeTypeOK ==
  /\ enabled \in BOOLEAN
  /\ shell \in 0 .. 5
  /\ tx \in Threads \cup {"heartbeat", "heartbeat_out", "time", "time_out"}
  /\ rxer \in Threads \cup {"dequeue", "parse"}
  /\ tally \in Tally /\ session \in Tally

ModeInv ==
  /\ ModeTypeOK
  /\ ~enabled => tx \in Threads /\ rxer \in Threads
  /\ shell \in {1, 2, 3} => ~enabled
  /\ shell \in {4, 5} => enabled
  /\ shell \in {2, 3} => tally.rx = 0
  /\ shell = 3 => tally.tx = 0
  /\ enabled => tally = session

QuietStep == session' # session \/ seen'["mavlink"] # seen["mavlink"] => enabled \/ enabled'

LEMMA CountedIsTally ==
  ASSUME NEW t \in Tally, NEW k \in Nat
  PROVE  Counted(t, "rx", k) \in Tally /\ Counted(t, "tx", k) \in Tally
<1>1. \A n \in Nat : n % Wrap \in 0 .. Wrap - 1
  BY ModeAssumption
<1>2. t.rx \in Nat /\ t.tx \in Nat
  BY ModeAssumption DEF Tally
<1>3. (t.rx + k) % Wrap \in 0 .. Wrap - 1 /\ (t.tx + k) % Wrap \in 0 .. Wrap - 1
  BY <1>1, <1>2
<1>. QED
  BY <1>3 DEF Counted, Tally

LEMMA ZeroIsTally ==
  /\ [rx |-> 0, tx |-> 0] \in Tally
  /\ \A t \in Tally : [t EXCEPT !.rx = 0] \in Tally /\ [t EXCEPT !.tx = 0] \in Tally
BY ModeAssumption DEF Tally

LEMMA OnStepMode ==
  ASSUME ModeInv, OnStep
  PROVE  ModeInv' /\ QuietStep
<1>1. /\ ThreadsRest /\ shell \in 1 .. 5 /\ UNCHANGED fanout
      /\ tx \in Threads /\ rxer \in Threads
  BY DEF OnStep, ModeInv, ModeTypeOK, ThreadsRest, Threads
<1>2. seen' = seen
  BY <1>1 DEF fanout
<1>3. /\ Len(OnSteps) = 5 /\ OnSteps[1] = "clear_rx" /\ OnSteps[2] = "clear_tx"
      /\ OnSteps[3] = "enable" /\ OnSteps[4] = "start_tx" /\ OnSteps[5] = "start_rx"
  BY DEF OnSteps
<1>4. /\ shell' = (shell + 1) % 6
      /\ session' = IF OnSteps[shell] = "enable" THEN [rx |-> 0, tx |-> 0] ELSE session
      /\ tx' = IF OnSteps[shell] = "start_tx" /\ tx = "none" THEN "check" ELSE tx
      /\ rxer' = IF OnSteps[shell] = "start_rx" /\ rxer = "none" THEN "check" ELSE rxer
  BY <1>3 DEF OnStep
<1>. DEFINE s == OnSteps[shell]
<1>10. /\ s = "clear_rx" => tally' = [tally EXCEPT !.rx = 0]
       /\ s = "clear_tx" => tally' = [tally EXCEPT !.tx = 0]
       /\ s # "clear_rx" /\ s # "clear_tx" => tally' = tally
  BY DEF OnStep
<1>11. /\ s = "enable" => enabled' = TRUE
       /\ s # "enable" => enabled' = enabled
  <2>1. enabled' = (enabled \/ s = "enable") /\ enabled \in BOOLEAN
    BY DEF OnStep, ModeInv, ModeTypeOK
  <2>. QED
    BY <2>1, Zenon
<1>5. CASE shell = 1
  <2>1. /\ shell' = 2 /\ tally' = [tally EXCEPT !.rx = 0] /\ enabled' = enabled
        /\ session' = session /\ tx' = tx /\ rxer' = rxer
    BY <1>3, <1>4, <1>5, <1>10, <1>11
  <2>. QED
    BY <1>2, <1>5, <2>1, ZeroIsTally DEF ModeInv, ModeTypeOK, QuietStep, Tally
<1>6. CASE shell = 2
  <2>1. /\ shell' = 3 /\ tally' = [tally EXCEPT !.tx = 0] /\ enabled' = enabled
        /\ session' = session /\ tx' = tx /\ rxer' = rxer
    BY <1>3, <1>4, <1>6, <1>10, <1>11
  <2>. QED
    BY <1>2, <1>6, <2>1, ZeroIsTally DEF ModeInv, ModeTypeOK, QuietStep, Tally
<1>7. CASE shell = 3
  <2>1. /\ shell' = 4 /\ tally' = tally /\ enabled' = TRUE
        /\ session' = [rx |-> 0, tx |-> 0] /\ tx' = tx /\ rxer' = rxer
    BY <1>3, <1>4, <1>7, <1>10, <1>11
  <2>2. tally = [rx |-> 0, tx |-> 0]
    BY <1>7 DEF ModeInv, ModeTypeOK, Tally
  <2>. QED
    BY <1>1, <1>7, <2>1, <2>2, ZeroIsTally DEF ModeInv, ModeTypeOK, QuietStep
<1>8. CASE shell = 4
  <2>1. /\ shell' = 5 /\ tally' = tally /\ enabled' = enabled /\ session' = session
        /\ tx' \in {tx, "check"} /\ rxer' = rxer
    BY <1>3, <1>4, <1>8, <1>10, <1>11
  <2>. QED
    BY <1>1, <1>2, <1>8, <2>1 DEF ModeInv, ModeTypeOK, QuietStep, Threads
<1>9. CASE shell = 5
  <2>1. /\ shell' = 0 /\ tally' = tally /\ enabled' = enabled /\ session' = session
        /\ tx' = tx /\ rxer' \in {rxer, "check"}
    BY <1>3, <1>4, <1>9, <1>10, <1>11
  <2>. QED
    BY <1>1, <1>2, <1>9, <2>1 DEF ModeInv, ModeTypeOK, QuietStep, Threads
<1>. QED
  BY <1>1, <1>5, <1>6, <1>7, <1>8, <1>9

LEMMA TxMode ==
  ASSUME ModeInv, TxThread
  PROVE  ModeInv' /\ QuietStep
<1>1. seen' = seen /\ enabled' = enabled /\ shell' = shell /\ rxer' = rxer
  BY DEF TxThread, TxMoves, TxWakes, TxChecks, TxTests, TxWrites, fanout
<1>2. CASE UNCHANGED <<tally, session>>
  <2>1. /\ tally' = tally /\ session' = session
        /\ tx' \in Threads \cup {"heartbeat", "heartbeat_out", "time", "time_out"}
        /\ ~enabled => tx' \in Threads
    BY <1>2 DEF TxThread, TxMoves, TxWakes, TxChecks, TxTests, TxWrites, Threads,
                ModeInv, ModeTypeOK
  <2>. QED
    BY <1>1, <2>1 DEF ModeInv, ModeTypeOK, QuietStep
<1>3. ASSUME NEW written \in {"heartbeat_out", "time_out"}, NEW next \in {"time", "sleep"},
             TxWrites(written, next)
      PROVE  ModeInv' /\ QuietStep
  <2>1. enabled /\ tally = session /\ shell \notin {1, 2, 3}
    BY <1>3 DEF TxWrites, TxMoves, ModeInv, ModeTypeOK, Threads
  <2>2. /\ tally' = session' /\ tally' \in Tally /\ session' \in Tally
    BY <1>3, <2>1, CountedIsTally DEF TxWrites, ModeInv, ModeTypeOK
  <2>3. tx' = next
    BY <1>3 DEF TxWrites, TxMoves
  <2>. QED
    BY <1>1, <2>1, <2>2, <2>3 DEF ModeInv, ModeTypeOK, QuietStep, Threads
<1>. QED
  BY <1>2, <1>3 DEF TxThread, TxWakes, TxChecks, TxTests

LEMMA RxMode ==
  ASSUME ModeInv, RxThread
  PROVE  ModeInv' /\ QuietStep
<1>1. enabled' = enabled /\ shell' = shell /\ tx' = tx
  BY DEF RxThread, RxWakes, RxChecks, RxDequeues, RxParses
<1>2. CASE RxWakes \/ RxChecks
  <2>1. /\ seen' = seen /\ tally' = tally /\ session' = session
        /\ rxer' \in Threads \cup {"dequeue"} /\ (~enabled => rxer' \in Threads)
    BY <1>2 DEF RxWakes, RxChecks, Threads, fanout
  <2>2. ModeTypeOK'
    BY <1>1, <2>1 DEF ModeInv, ModeTypeOK
  <2>. QED
    BY <1>1, <2>1, <2>2 DEF ModeInv, QuietStep
<1>3. CASE RxDequeues
  <2>1. enabled
    BY <1>3 DEF RxDequeues, ModeInv, Threads
  <2>2. tally' = tally /\ session' = session /\ rxer' \in {"parse", "sleep"}
    BY <1>3 DEF RxDequeues
  <2>. QED
    BY <1>1, <2>1, <2>2 DEF ModeInv, ModeTypeOK, QuietStep, Threads
<1>4. CASE RxParses
  <2>1. enabled /\ tally = session /\ shell \notin {1, 2, 3}
    BY <1>4 DEF RxParses, ModeInv, Threads
  <2>2. /\ tally' = session' /\ tally' \in Tally /\ session' \in Tally
    BY <1>4, <2>1, CountedIsTally, ModeAssumption DEF RxParses, ModeInv, ModeTypeOK
  <2>3. rxer' = "check"
    BY <1>4 DEF RxParses
  <2>. QED
    BY <1>1, <2>1, <2>2, <2>3 DEF ModeInv, ModeTypeOK, QuietStep, Threads
<1>. QED
  BY <1>2, <1>3, <1>4 DEF RxThread

LEMMA StepMode ==
  ASSUME FanoutTypeOK, ModeInv, [Next]_vars
  PROVE  ModeInv' /\ QuietStep
<1>. DEFINE Stays == UNCHANGED mode /\ seen'["mavlink"] = seen["mavlink"]
<1>1. CASE Stays
  BY <1>1 DEF mode, ModeInv, ModeTypeOK, QuietStep
<1>2. CASE UNCHANGED vars
  BY <1>1, <1>2 DEF vars, fanout
<1>3. CASE (Arrive \/ ReceiverStops \/ Dispatch) /\ UNCHANGED mode
  BY <1>1, <1>3 DEF Arrive, ReceiverStops, Dispatch, Take, Route
<1>4. ASSUME NEW c \in {"remote_input", "referee"}, Reads(c)
      PROVE  Stays
  <2>1. seen' = [seen EXCEPT ![c] = Head(queue[c])] /\ c # "mavlink"
    BY <1>4 DEF Reads, Dequeue
  <2>. QED
    BY <1>4, <2>1 DEF FanoutTypeOK, Consumer, Reads
<1>5. CASE CmdMavlinkOn
  <2>1. /\ shell' = 1 /\ enabled' = enabled /\ ~enabled /\ seen' = seen
        /\ tx' = tx /\ rxer' = rxer /\ tally' = tally /\ session' = session
    BY <1>5 DEF CmdMavlinkOn, fanout
  <2>. QED
    BY <2>1 DEF ModeInv, ModeTypeOK, QuietStep
<1>6. CASE CmdMavlinkOff
  <2>1. /\ shell' = shell /\ shell = 0 /\ enabled' = FALSE /\ ThreadsRest /\ seen' = seen
        /\ tx' = tx /\ rxer' = rxer /\ tally' = tally /\ session' = session
    BY <1>6 DEF CmdMavlinkOff, fanout
  <2>2. ~enabled' /\ enabled' \in BOOLEAN
    BY <2>1, Zenon
  <2>3. enabled /\ tx' \in Threads /\ rxer' \in Threads
    BY <1>6, <2>1 DEF CmdMavlinkOff, ThreadsRest, Threads
  <2>4. ModeTypeOK'
    BY <2>1, <2>2 DEF ModeInv, ModeTypeOK
  <2>. QED
    BY <2>1, <2>2, <2>3, <2>4 DEF ModeInv, QuietStep
<1>7. CASE OnStep \/ TxThread \/ RxThread
  BY <1>7, OnStepMode, TxMode, RxMode
<1>. QED
  BY <1>1, <1>2, <1>3, <1>4, <1>5, <1>6, <1>7 DEF Next

IInv == Ordered /\ ModeInv

LEMMA IInvIsInductive == Spec => []IInv
<1>1. Init => IInv
  <2>. SUFFICES ASSUME Init PROVE IInv
    OBVIOUS
  <2>1. Ordered
    BY FanoutInitOrdered DEF Init
  <2>2. ~enabled /\ enabled \in BOOLEAN
    BY Zenon DEF Init
  <2>3. ModeTypeOK /\ shell = 0 /\ tx \in Threads /\ rxer \in Threads
    BY <2>2, ZeroIsTally DEF Init, ModeTypeOK, Threads
  <2>4. ModeInv
    BY <2>2, <2>3 DEF ModeInv
  <2>. QED
    BY <2>1, <2>4 DEF IInv
<1>2. IInv /\ [Next]_vars => IInv'
  BY StepOrdered, StepMode DEF IInv, Ordered
<1>. QED
  BY <1>1, <1>2, PTL DEF Spec

-----------------------------------------------------------------------------
(* Every state is of the stated types: no queue, and neither counter, ever *)
(* exceeds its width.                                                      *)
THEOREM TypeCorrect == Spec => []TypeOK
<1>1. IInv => TypeOK
  <2>1. Len(OnSteps) = 5
    BY DEF OnSteps
  <2>. QED
    BY <2>1 DEF IInv, Ordered, ModeInv, ModeTypeOK, TypeOK
<1>. QED
  BY <1>1, IInvIsInductive, PTL

(* The status command reports exactly the messages of this session.        *)
THEOREM CountsTheSessionHolds == Spec => []CountsTheSession
<1>1. IInv => CountsTheSession
  BY DEF IInv, ModeInv, CountsTheSession
<1>. QED
  BY <1>1, IInvIsInductive, PTL

(* With the mode off nothing is sent, received or taken out of the queue.  *)
THEOREM QuietWhenOffHolds == Spec => QuietWhenOff
<1>1. IInv /\ [Next]_vars => [QuietStep]_vars
  BY StepMode DEF IInv, Ordered
<1>2. [][QuietStep]_vars <=> QuietWhenOff
  BY PTL DEF QuietWhenOff, QuietStep
<1>. QED
  BY <1>1, <1>2, IInvIsInductive, PTL DEF Spec

(* The fan-out implements the line: each reader gets its chunks in order   *)
(* and none of them twice, with queues of any depth.                       *)
THEOREM FanoutImplementsLossyLine == Spec => LineSpec
<1>1. Init => Line!Init
  BY DEF Init, FanoutInit, Line!Init
<1>2. IInv /\ [Next]_vars => [Line!Next]_(Line!vars)
  BY StepOrdered DEF IInv
<1>. QED
  BY <1>1, <1>2, IInvIsInductive, PTL DEF Spec, LineSpec, Line!Spec

-----------------------------------------------------------------------------
(* Remainders of packet sizes.                                             *)

LEMMA DivMod ==
  ASSUME NEW n \in Nat, NEW c \in Nat, c > 0
  PROVE  n = c * (n \div c) + (n % c) /\ n \div c \in Nat /\ n % c \in 0 .. c - 1
OBVIOUS

\* After whole packets, the rest of a message decides its remainder.
LEMMA RestDecides ==
  ASSUME NEW n \in Nat, NEW c \in Nat, NEW k \in Nat, c > 0, k <= c, n % c = 0
  PROVE  /\ k = c => (n + k) % c = 0
         /\ k < c => (n + k) % c = k
<1>1. n = c * (n \div c) /\ n \div c \in Nat
  BY DivMod
<1>2. /\ n + k = c * ((n + k) \div c) + ((n + k) % c)
      /\ (n + k) \div c \in Nat /\ (n + k) % c \in 0 .. c - 1
  <2>1. n + k \in Nat
    OBVIOUS
  <2>. QED BY <2>1, DivMod, Zenon
<1>. DEFINE d == (n + k) \div c - n \div c
            x == k - ((n + k) % c)
<1>3. d \in Int /\ x \in Int /\ -c < x /\ x <= c
  BY <1>1, <1>2
<1>4. c * d = c * ((n + k) \div c) - c * (n \div c)
  BY <1>1, <1>2
<1>5. x = c * d
  BY <1>1, <1>2, <1>4
<1>6. x = 0 \/ x = c
  <2>. HIDE DEF x, d
  <2>1. CASE d >= 2
    <3>1. c * d >= c * 2
      BY <1>3, <2>1
    <3>. QED BY <1>3, <1>5, <3>1
  <2>2. CASE d <= -1
    <3>1. c * d <= c * (-1)
      BY <1>3, <2>2
    <3>. QED BY <1>3, <1>5, <3>1
  <2>. QED BY <1>3, <1>5, <2>1, <2>2
<1>. QED BY <1>1, <1>2, <1>6

-----------------------------------------------------------------------------
\* The caller: the message of a call that is going on is the newest.
Calling ==
  /\ accepted <= tries /\ arrived.n <= accepted
  /\ pc # "idle" => mess.n = tries /\ mess # NoTransfer /\ accepted < tries
  /\ pc \in {"copied", "claimed"} => txBuffer = mess
  /\ transfer # NoTransfer => transfer.n = accepted /\ txBuffer # NoTransfer

\* No transfer is under way, and the host is between two messages.
Quiet == transfer = NoTransfer /\ partial = Nothing

\* A transfer, or a message without its last packet, owns the buffer: the
\* caller finds the flag set.
Owned == busy /\ pc \in {"idle", "called"}

\* The host has whole packets of the message in the buffer, or all of them
\* and waits for the empty one.
Sending ==
  /\ transfer # NoTransfer /\ Owned
  /\ transfer.n = txBuffer.n /\ arrived.n < transfer.n
  /\ \/ /\ transfer.len = txBuffer.len /\ partial.bytes < transfer.len
        /\ partial.bytes % Mps = 0
        /\ partial.of = IF partial.bytes = 0 THEN {} ELSE {txBuffer}
     \/ /\ transfer.len = 0 /\ partial.bytes = txBuffer.len
        /\ partial.of = {txBuffer}

Unended == transfer = NoTransfer /\ Owned

SessionInv ==
  /\ SessionTypeOK
  /\ armed # Unarmed => armed = readIndex
  /\ Calling
  /\ ~raced => (Quiet /\ (pc = "claimed" => busy)) \/ Sending \/ Unended

LEMMA SessionInitInv == SessionInit => SessionInv
  BY SessionAssumption
  DEF SessionInit, SessionInv, SessionTypeOK, Calling, Quiet, NoTransfer, Nothing,
      Unarmed, Message, Taken

LEMMA SendInv == SessionInv /\ (SendCalled \/ Send) => SessionInv'
<1>. SUFFICES ASSUME SessionInv, SendCalled \/ Send PROVE SessionInv'
  OBVIOUS
<1>. USE SessionAssumption
    DEF SessionInv, SessionTypeOK, Calling, Quiet, Owned, Sending, Unended, SendMoves, reception
<1>1. CASE SendCalled
  BY <1>1 DEF SendCalled, Message, NoTransfer
<1>2. CASE SendTests
  BY <1>2 DEF SendTests
<1>3. CASE SendCopies
  BY <1>3 DEF SendCopies
<1>4. CASE SendClaims
  BY <1>4 DEF SendClaims
<1>5. CASE SendStarts
  <2>1. /\ transfer' = mess /\ accepted' = mess.n /\ pc = "claimed" /\ pc' = "idle"
        /\ UNCHANGED <<busy, txBuffer, mess, tries, started, bus, partial, arrived, raced, stuck,
                       readIndex, readBuffer, armed, inbox, packets, received>>
    BY <1>5 DEF SendStarts
  <2>2. mess \in Message /\ mess.n = tries /\ mess.n \in 1 .. MaxSends /\ mess.len \in 1 .. BufferSize
        /\ txBuffer = mess /\ mess # NoTransfer
    BY <2>1 DEF Message, NoTransfer
  <2>5. arrived.n \in Nat /\ accepted \in Nat /\ tries \in Nat /\ arrived.n <= accepted /\ accepted < tries
    BY <2>1 DEF Taken
  <2>6. mess \in [n : 1 .. MaxSends, len : 0 .. BufferSize] /\ mess.n \in 0 .. MaxSends
    BY <2>2 DEF Message
  <2>7. SessionTypeOK'
    BY <2>1, <2>6
  <2>8. Calling'
    BY <2>1, <2>2, <2>5
  <2>3. SessionTypeOK' /\ Calling' /\ (armed # Unarmed => armed = readIndex)'
    BY <2>1, <2>7, <2>8
  <2>4. ASSUME ~raced' PROVE Sending'
    <3>1. Quiet /\ busy
      BY <2>1, <2>4
    <3>2. partial.bytes = 0 /\ partial.of = {} /\ 0 % Mps = 0
      BY <3>1 DEF Nothing
    <3>. QED BY <2>1, <2>2, <2>5, <3>1, <3>2, SMTT(30)
  <2>. QED BY <2>3, <2>4
<1>6. CASE SendIsSwallowed
  BY <1>6 DEF SendIsSwallowed
<1>7. CASE SendFails
  BY <1>7 DEF SendFails
<1>8. CASE SendReleases
  BY <1>8 DEF SendReleases
<1>. QED BY <1>1, <1>2, <1>3, <1>4, <1>5, <1>6, <1>7, <1>8 DEF Send

LEMMA BusInv == SessionInv /\ (UsbdInitialize \/ Initialized \/ Configured \/ ResetOrDisconnected) => SessionInv'
<1>. SUFFICES ASSUME SessionInv, UsbdInitialize \/ Initialized \/ Configured \/ ResetOrDisconnected
              PROVE SessionInv'
  OBVIOUS
<1>. USE SessionAssumption
    DEF SessionInv, SessionTypeOK, Calling, Quiet, Owned, Sending, Unended, sending, reception
<1>1. CASE UsbdInitialize
  BY <1>1 DEF UsbdInitialize
<1>2. CASE Initialized
  BY <1>2 DEF Initialized
<1>3. CASE Configured
  BY <1>3 DEF Configured, StartRead
<1>4. CASE ResetOrDisconnected
  <2>1. /\ bus' \in {"reset", "gone"} /\ busy' = FALSE /\ stuck' = FALSE
        /\ transfer' = NoTransfer /\ partial' = Nothing /\ armed' = Unarmed
        /\ UNCHANGED <<started, txBuffer, pc, mess, tries, accepted, arrived,
                       readIndex, readBuffer, inbox, packets, received>>
    BY <1>4 DEF ResetOrDisconnected
  <2>2. raced' \in BOOLEAN /\ (~raced' => pc # "claimed")
    BY <1>4 DEF ResetOrDisconnected
  <2>3. Nothing \in Taken
    BY DEF Nothing, Taken
  <2>. QED BY <2>1, <2>2, <2>3
<1>. QED BY <1>1, <1>2, <1>3, <1>4

LEMMA ReceptionInv == SessionInv /\ (UsbBulkOutCallback \/ Receive) => SessionInv'
<1>. SUFFICES ASSUME SessionInv, UsbBulkOutCallback \/ Receive PROVE SessionInv'
  OBVIOUS
<1>1. CASE UsbBulkOutCallback
  <2>1. readIndex' = 1 - readIndex /\ armed' \in {readIndex', Unarmed} /\ UNCHANGED <<started, bus, sending, received>>
    BY <1>1 DEF UsbBulkOutCallback, StartRead
  <2>2. /\ packets' \in 0 .. MaxPackets
        /\ readBuffer' \in [0 .. 1 -> 0 .. MaxPackets]
        /\ inbox' \in Seq(1 .. MaxPackets) /\ Len(inbox') <= kRxQueueDepth
    <3>1. PICK k \in 0 .. Lesser(1, MaxPackets - packets) :
            /\ packets' = packets + k
            /\ readBuffer' = IF k = 1 THEN [readBuffer EXCEPT ![armed] = packets'] ELSE readBuffer
            /\ inbox' = IF k = 1 /\ Len(inbox) < kRxQueueDepth
                        THEN Append(inbox, readBuffer'[Copied]) ELSE inbox
      BY <1>1 DEF UsbBulkOutCallback
    <3>2. packets' \in 0 .. MaxPackets /\ (k = 1 => packets' \in 1 .. MaxPackets)
      BY <3>1, SessionAssumption DEF Lesser, SessionInv, SessionTypeOK
    <3>3. armed = readIndex /\ armed \in 0 .. 1
      BY <1>1 DEF UsbBulkOutCallback, SessionInv, SessionTypeOK, Unarmed
    <3>4. readBuffer' \in [0 .. 1 -> 0 .. MaxPackets] /\ (k = 1 => readBuffer'[Copied] = packets')
      BY <3>1, <3>2, <3>3 DEF Copied, SessionInv, SessionTypeOK
    <3>5. inbox' \in Seq(1 .. MaxPackets) /\ Len(inbox') <= kRxQueueDepth
      <4>1. inbox \in Seq(1 .. MaxPackets) /\ Len(inbox) \in Nat /\ Len(inbox) <= kRxQueueDepth
        BY DEF SessionInv, SessionTypeOK
      <4>2. inbox' = inbox \/ (packets' \in 1 .. MaxPackets /\ Len(inbox) < kRxQueueDepth /\ inbox' = Append(inbox, packets'))
        BY <3>1, <3>2, <3>4
      <4>3. packets' \in 1 .. MaxPackets =>
              /\ Append(inbox, packets') \in Seq(1 .. MaxPackets)
              /\ Len(Append(inbox, packets')) = Len(inbox) + 1
        BY <4>1, AppendProperties
      <4>. QED BY <4>1, <4>2, <4>3, SessionAssumption
    <3>. QED BY <3>2, <3>4, <3>5
  <2>. QED BY <2>1, <2>2
      DEF SessionInv, SessionTypeOK, Calling, Quiet, Owned, Sending, Unended, sending, Unarmed
<1>2. CASE Receive
  BY <1>2, HeadTailProperties, SessionAssumption, SMTT(30)
  DEF Receive, SessionInv, SessionTypeOK, Calling, Quiet, Owned, Sending, Unended, sending
<1>. QED BY <1>1, <1>2

\* What a packet changes.
Packet == IF transfer.len = 0 THEN 0 ELSE Lesser(transfer.len - partial.bytes, Mps)

TakenNow ==
  [n |-> transfer.n, bytes |-> partial.bytes + Packet,
   of |-> partial.of \cup IF Packet = 0 THEN {} ELSE {txBuffer}]

LEMMA PacketFacts ==
  ASSUME SessionInv, transfer # NoTransfer
  PROVE  /\ Packet \in Int /\ Packet <= Mps /\ TakenNow \in Taken
         /\ TakenNow.n = accepted /\ accepted \in Nat
         /\ Packet < Mps => transfer.len = 0 \/ TakenNow.bytes >= transfer.len
<1>1. transfer \in [n : 1 .. MaxSends, len : 0 .. BufferSize] /\ partial \in Taken
      /\ partial.bytes \in Nat /\ Mps \in Nat \ {0} /\ transfer.len \in Nat
      /\ transfer.n \in 0 .. MaxSends /\ txBuffer \in Message /\ transfer.n = accepted
  BY SessionAssumption DEF SessionInv, SessionTypeOK, Calling, Taken
<1>2. /\ Packet \in Int /\ Packet <= Mps /\ partial.bytes + Packet \in Nat
      /\ Packet < Mps => transfer.len = 0 \/ partial.bytes + Packet >= transfer.len
  BY <1>1 DEF Packet, Lesser
<1>3. partial.of \cup (IF Packet = 0 THEN {} ELSE {txBuffer}) \in SUBSET Message
  BY <1>1 DEF Taken
<1>. QED BY <1>1, <1>2, <1>3 DEF TakenNow, Taken

\* The callback of a completed transfer changes no more than this.
LEMMA TakesFacts ==
  ASSUME SessionInv, HostTakes
  PROVE  /\ transfer # NoTransfer
         /\ UNCHANGED <<started, bus, txBuffer, pc, mess, tries, accepted, raced, reception>>
         /\ IF Packet < Mps THEN arrived' = TakenNow /\ partial' = Nothing
                            ELSE partial' = TakenNow /\ arrived' = arrived
         /\ IF transfer.len = 0 \/ TakenNow.bytes >= transfer.len
            THEN UsbBulkInCallback(transfer.len)
            ELSE UNCHANGED <<busy, transfer, stuck>>
         /\ transfer' \in {transfer, NoTransfer, [n |-> transfer.n, len |-> 0]}
         /\ busy' \in BOOLEAN /\ stuck' \in BOOLEAN
<1>1. /\ transfer # NoTransfer
      /\ UNCHANGED <<started, bus, txBuffer, pc, mess, tries, accepted, raced, reception>>
      /\ IF Packet < Mps THEN arrived' = TakenNow /\ partial' = Nothing
                         ELSE partial' = TakenNow /\ arrived' = arrived
      /\ IF transfer.len = 0 \/ TakenNow.bytes >= transfer.len
         THEN UsbBulkInCallback(transfer.len)
         ELSE UNCHANGED <<busy, transfer, stuck>>
  BY DEF HostTakes, Packet, TakenNow
<1>2. /\ transfer' \in {transfer, NoTransfer, [n |-> transfer.n, len |-> 0]}
      /\ busy' \in BOOLEAN /\ stuck' \in BOOLEAN
  <2>1. CASE UsbBulkInCallback(transfer.len)
    BY <2>1 DEF UsbBulkInCallback, SessionInv, SessionTypeOK
  <2>2. CASE UNCHANGED <<busy, transfer, stuck>>
    BY <2>2 DEF SessionInv, SessionTypeOK
  <2>. QED BY <1>1, <2>1, <2>2
<1>. QED BY <1>1, <1>2

\* What a packet does when no reset has come between claim and start.
LEMMA SendingTakes ==
  ASSUME SessionInv, HostTakes, ~raced
  PROVE  /\ Quiet' \/ Sending' \/ Unended'
         /\ pc \in {"idle", "called"}
         /\ arrived' # arrived =>
              /\ txBuffer \in Message /\ IsMessage(arrived', txBuffer)
              /\ arrived.n < arrived'.n
<1>1. Sending
  BY DEF SessionInv, HostTakes, Quiet, Unended
<1>2. /\ Mps \in Nat \ {0} /\ partial.bytes \in Nat
      /\ txBuffer \in Message /\ txBuffer.len \in Nat \ {0} /\ transfer.n \in Nat \ {0}
  BY <1>1, SessionAssumption
      DEF SessionInv, SessionTypeOK, Calling, Sending, Taken, Message, NoTransfer
<1>3. /\ transfer # NoTransfer /\ busy /\ pc \in {"idle", "called"} /\ pc' = pc /\ txBuffer' = txBuffer
      /\ IF Packet < Mps THEN arrived' = TakenNow /\ partial' = Nothing
                         ELSE partial' = TakenNow /\ arrived' = arrived
      /\ IF transfer.len = 0 \/ TakenNow.bytes >= transfer.len
         THEN UsbBulkInCallback(transfer.len)
         ELSE UNCHANGED <<busy, transfer, stuck>>
      /\ transfer.n = txBuffer.n /\ arrived.n < transfer.n
  BY <1>1, TakesFacts DEF Sending, Owned
<1>4. TakenNow.n = transfer.n /\ TakenNow.bytes = partial.bytes + Packet
      /\ TakenNow.of = partial.of \cup (IF Packet = 0 THEN {} ELSE {txBuffer})
  BY DEF TakenNow
<1>5. CASE transfer.len = 0
  <2>1. Packet = 0
    BY <1>5 DEF Packet
  <2>2. partial.bytes = txBuffer.len /\ partial.of = {txBuffer}
    BY <1>1, <1>2, <1>5 DEF Sending
  <2>3. arrived' = TakenNow /\ partial' = Nothing
    BY <1>2, <1>3, <2>1
  <2>4. transfer' = NoTransfer
    BY <1>3, <1>5 DEF UsbBulkInCallback
  <2>5. IsMessage(TakenNow, txBuffer)
    BY <1>2, <1>3, <1>4, <2>1, <2>2 DEF IsMessage
  <2>. QED BY <1>2, <1>3, <1>4, <2>3, <2>4, <2>5 DEF Quiet
<1>6. CASE transfer.len # 0
  <2>1. /\ transfer.len = txBuffer.len /\ partial.bytes < transfer.len
        /\ partial.bytes % Mps = 0
        /\ partial.of = IF partial.bytes = 0 THEN {} ELSE {txBuffer}
    BY <1>1, <1>6 DEF Sending
  <2>2. /\ Packet \in 1 .. Mps
        /\ Packet <= transfer.len - partial.bytes
        /\ Packet < Mps => Packet = transfer.len - partial.bytes
    BY <1>2, <1>6, <2>1 DEF Packet, Lesser
  <2>3. TakenNow.of = {txBuffer}
    BY <1>4, <2>1, <2>2
  <2>4. (partial.bytes + Packet) % Mps = IF Packet = Mps THEN 0 ELSE Packet
    <3>1. /\ Packet \in 0 .. Mps /\ partial.bytes \in Nat /\ Mps \in Nat \ {0}
          /\ partial.bytes % Mps = 0
      BY <1>2, <2>1, <2>2
    <3>2. PICK n \in Nat : n = partial.bytes
      BY <3>1
    <3>3. PICK c \in Nat : c = Mps
      BY <3>1
    <3>4. PICK k \in Nat : k = Packet
      BY <3>1, <3>3
    <3>5. n % c = 0 /\ c > 0 /\ k <= c
      BY <3>1, <3>2, <3>3, <3>4
    <3>6. (k = c => (n + k) % c = 0) /\ (k < c => (n + k) % c = k)
      BY <3>5, RestDecides, Zenon
    <3>. QED BY <2>2, <3>2, <3>3, <3>4, <3>5, <3>6
  <2>5. CASE Packet < Mps
    <3>1. TakenNow.bytes = transfer.len /\ transfer.len % Mps = Packet /\ Packet # 0
      <4>1. partial.bytes + Packet = transfer.len /\ Packet # Mps /\ Packet # 0
        BY <1>2, <2>1, <2>2, <2>5
      <4>. QED BY <1>4, <2>4, <4>1
    <3>2. transfer' = NoTransfer
      <4>1. UsbBulkInCallback(transfer.len)
        <5>1. TakenNow.bytes >= transfer.len
          BY <1>2, <2>1, <3>1
        <5>. QED BY <1>3, <5>1
      <4>. QED BY <3>1, <4>1 DEF UsbBulkInCallback
    <3>3. IsMessage(TakenNow, txBuffer)
      BY <1>3, <1>4, <2>1, <2>3, <3>1 DEF IsMessage
    <3>. QED BY <1>2, <1>3, <1>4, <2>5, <3>2, <3>3 DEF Quiet
  <2>6. CASE Packet = Mps
    <3>1. arrived' = arrived /\ partial' = TakenNow
      BY <1>2, <1>3, <2>6
    <3>2. CASE TakenNow.bytes >= transfer.len
      <4>1. TakenNow.bytes = transfer.len /\ transfer.len % Mps = 0 /\ transfer.len > 0
        <5>1. partial.bytes + Packet = transfer.len /\ transfer.len > 0
          BY <1>2, <1>4, <2>1, <2>2, <3>2
        <5>. QED BY <1>4, <2>4, <2>6, <5>1
      <4>2. busy' = busy /\ transfer' \in {[n |-> transfer.n, len |-> 0], NoTransfer}
        BY <1>3, <3>2, <4>1 DEF UsbBulkInCallback
      <4>3. CASE transfer' = NoTransfer
        BY <1>3, <3>1, <4>2, <4>3 DEF Unended, Owned
      <4>4. CASE transfer' = [n |-> transfer.n, len |-> 0]
        <5>1. transfer' # NoTransfer /\ transfer'.n = transfer.n /\ transfer'.len = 0
          BY <1>2, <4>4 DEF NoTransfer
        <5>. QED BY <1>3, <2>1, <2>3, <3>1, <4>1, <4>2, <5>1 DEF Sending, Owned
      <4>. QED BY <4>2, <4>3, <4>4
    <3>3. CASE ~(TakenNow.bytes >= transfer.len)
      <4>1. UNCHANGED <<busy, transfer, stuck>>
        BY <1>3, <1>6, <3>3
      <4>2. partial'.bytes < transfer.len /\ partial'.bytes % Mps = 0 /\ partial'.bytes # 0
        <5>1. partial.bytes + Packet < transfer.len /\ partial.bytes + Packet # 0
          BY <1>2, <1>4, <2>1, <2>2, <3>3
        <5>. QED BY <1>4, <2>4, <2>6, <3>1, <5>1
      <4>. QED BY <1>1, <1>3, <2>1, <2>3, <3>1, <4>1, <4>2 DEF Sending, Owned
    <3>. QED BY <3>2, <3>3
  <2>. QED BY <1>2, <2>2, <2>5, <2>6
<1>. QED BY <1>5, <1>6

LEMMA TakesInv == SessionInv /\ HostTakes => SessionInv'
<1>. SUFFICES ASSUME SessionInv, HostTakes PROVE SessionInv'
  OBVIOUS
<1>1. /\ transfer # NoTransfer
      /\ UNCHANGED <<started, bus, txBuffer, pc, mess, tries, accepted, raced, reception>>
      /\ arrived' \in {arrived, TakenNow} /\ partial' \in {Nothing, TakenNow}
      /\ transfer' \in {transfer, NoTransfer, [n |-> transfer.n, len |-> 0]}
      /\ busy' \in BOOLEAN /\ stuck' \in BOOLEAN
  BY TakesFacts
<1>2. TakenNow \in Taken /\ TakenNow.n = accepted /\ accepted \in Nat /\ Nothing \in Taken
  <2>1. Nothing \in Taken
    BY SessionAssumption DEF Nothing, Taken
  <2>. QED BY <1>1, <2>1, PacketFacts
<1>3. transfer' \in [n : 1 .. MaxSends, len : 0 .. BufferSize] \cup {NoTransfer}
      /\ (transfer' # NoTransfer => transfer'.n = transfer.n)
  BY <1>1, SessionAssumption DEF SessionInv, SessionTypeOK
<1>4. SessionTypeOK'
  BY <1>1, <1>2, <1>3 DEF SessionInv, SessionTypeOK, reception
<1>5. Calling' /\ (armed # Unarmed => armed = readIndex)'
  BY <1>1, <1>2, <1>3 DEF SessionInv, Calling, reception
<1>6. ASSUME ~raced'
      PROVE  (Quiet' /\ (pc' = "claimed" => busy')) \/ Sending' \/ Unended'
  BY <1>1, <1>6, SendingTakes
<1>. QED BY <1>4, <1>5, <1>6 DEF SessionInv

LEMMA SessionStepInv == SessionInv /\ [SessionNext]_sessionVars => SessionInv'
<1>. SUFFICES ASSUME SessionInv, [SessionNext]_sessionVars PROVE SessionInv'
  OBVIOUS
<1>1. CASE UNCHANGED sessionVars
  BY <1>1
      DEF sessionVars, sending, reception, SessionInv, SessionTypeOK, Calling, Quiet, Owned, Sending, Unended
<1>. QED BY <1>1, SendInv, BusInv, ReceptionInv, TakesInv DEF SessionNext

LEMMA SessionInvariance == SessionSpec => []SessionInv
  BY SessionInitInv, SessionStepInv, PTL DEF SessionSpec

(* Every variable of the USB session has its type; the queue of received   *)
(* packets never holds more than it may.                                   *)
THEOREM SessionTypeCorrect == SessionSpec => []SessionTypeOK
<1>1. SessionInv => SessionTypeOK
  BY DEF SessionInv
<1>. QED BY <1>1, SessionInvariance, PTL

(* Through resets and failing calls the host gets whole messages, in the   *)
(* order of the calls of Send and none twice, whatever the lengths of the  *)
(* messages, of the buffer and of the packets, as long as no reset has     *)
(* come between claim and start.                                           *)
THEOREM MessagesArriveWhole == SessionSpec => HostSeesMessages
<1>. DEFINE A == arrived' # arrived /\ ~raced =>
                   /\ \E m \in Message : IsMessage(arrived', m)
                   /\ arrived.n < arrived'.n /\ arrived'.n <= accepted
<1>1. SessionInv /\ [SessionNext]_sessionVars => [A]_sessionVars
  <2>. SUFFICES ASSUME SessionInv, SessionNext PROVE A
    OBVIOUS
  <2>1. CASE HostTakes
    <3>. SUFFICES ASSUME arrived' # arrived, ~raced PROVE A
      OBVIOUS
    <3>1. arrived' = TakenNow /\ TakenNow.n = accepted /\ accepted \in Nat
      BY <2>1, TakesFacts, PacketFacts
    <3>2. txBuffer \in Message /\ IsMessage(arrived', txBuffer) /\ arrived.n < arrived'.n
      BY <2>1, SendingTakes
    <3>. QED BY <3>1, <3>2
  <2>2. CASE ~HostTakes
    <3>1. arrived' = arrived
      BY <2>2
      DEF SessionNext, UsbdInitialize, Initialized, Configured, ResetOrDisconnected,
          SendCalled, Send,
          SendTests, SendCopies, SendClaims, SendStarts, SendIsSwallowed, SendFails, SendReleases,
          SendMoves, UsbBulkOutCallback, Receive, sending
    <3>. QED BY <3>1
  <2>. QED BY <2>1, <2>2
<1>. QED BY <1>1, SessionInvariance, PTL DEF SessionSpec, HostSeesMessages

(* Reception from the host implements a queue that may lose what arrives,  *)
(* and neither repeats nor reorders it: the two halves of the buffer and a *)
(* reset between any two packets make no difference.                       *)
THEOREM ReceptionIsAQueue == SessionSpec => ReceptionSpec
<1>1. SessionInit => Reception!Init
  BY DEF SessionInit, Reception!Init
<1>2. SessionInv /\ [SessionNext]_sessionVars => [Reception!Next]_Reception!vars
  <2>. SUFFICES ASSUME SessionInv, [SessionNext]_sessionVars PROVE [Reception!Next]_Reception!vars
    OBVIOUS
  <2>1. CASE UsbBulkOutCallback
    <3>1. PICK k \in 0 .. Lesser(1, MaxPackets - packets) :
            /\ packets' = packets + k
            /\ readBuffer' = IF k = 1 THEN [readBuffer EXCEPT ![armed] = packets'] ELSE readBuffer
            /\ inbox' = IF k = 1 /\ Len(inbox) < kRxQueueDepth
                        THEN Append(inbox, readBuffer'[Copied]) ELSE inbox
      BY <2>1 DEF UsbBulkOutCallback
    <3>2. armed = readIndex /\ armed \in 0 .. 1 /\ received' = received /\ packets \in Nat
      BY <2>1 DEF UsbBulkOutCallback, SessionInv, SessionTypeOK, Unarmed
    <3>3. CASE k = 1
      <4>1. readBuffer'[Copied] = packets'
        BY <3>1, <3>2, <3>3 DEF Copied, SessionInv, SessionTypeOK
      <4>. QED BY <3>1, <3>2, <3>3, <4>1 DEF Reception!Next, Reception!Send
    <3>4. CASE k = 0
      BY <3>1, <3>2, <3>4 DEF Reception!vars
    <3>5. k \in {0, 1}
      BY <3>1, SessionAssumption DEF Lesser, SessionInv, SessionTypeOK
    <3>. QED BY <3>3, <3>4, <3>5
  <2>2. CASE Receive
    BY <2>2 DEF Receive, Reception!Next, Reception!See
  <2>3. CASE UNCHANGED <<packets, inbox, received>>
    BY <2>3 DEF Reception!vars
  <2>. QED
    BY <2>1, <2>2, <2>3
    DEF SessionNext, UsbdInitialize, Initialized, Configured, ResetOrDisconnected, SendCalled, Send,
        SendTests, SendCopies, SendClaims, SendStarts, SendIsSwallowed, SendFails, SendReleases,
        SendMoves, HostTakes, reception, sessionVars
<1>. QED BY <1>1, <1>2, SessionInvariance, PTL DEF SessionSpec, ReceptionSpec, Reception!Spec

=============================================================================
