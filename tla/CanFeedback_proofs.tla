------------------------- MODULE CanFeedback_proofs -------------------------
(***************************************************************************)
(* For any set of senders, any depths of the queues and any budget: queues *)
(* hold what their module decodes, and the feedback path is a lossy        *)
(* channel that never goes back.                                           *)
(***************************************************************************)
EXTENDS CanFeedback, TLAPS

(* Reports of one source are in order, in a queue and from one queue to    *)
(* the next, and newer than the report its reader holds.                   *)
Below(q, f) == \A i \in 1 .. Len(q) : q[i].src = f.src => q[i].n < f.n
Above(q, f) == \A i \in 1 .. Len(q) : q[i].src = f.src => f.n < q[i].n

Increasing(q) ==
  \A i, j \in 1 .. Len(q) : i < j /\ q[i].src = q[j].src => q[i].n < q[j].n

Before(p, q) ==
  \A i \in 1 .. Len(p), j \in 1 .. Len(q) : p[i].src = q[j].src => p[i].n < q[j].n

Fresh(q, h, c) ==
  \A i \in 1 .. Len(q) : h[q[i].src] < q[i].n /\ q[i].n <= c[q[i].src]

Ordered ==
  /\ Increasing(rx) /\ Before(hand, rx)
  /\ Fresh(rx, held, count) /\ Fresh(hand, held, count)
  /\ \A m \in Reader :
       /\ Increasing(queue[m]) /\ Before(queue[m], hand) /\ Before(queue[m], rx)
       /\ Fresh(queue[m], held, count)
  /\ \A s \in Source : held[s] <= count[s]

IInv == TypeOK /\ RoutedToItsDecoder /\ Ordered

-----------------------------------------------------------------------------
(* Sequences: what Tail and Append do to the elements.                     *)

LEMMA TailFacts ==
  ASSUME NEW S, NEW q \in Seq(S), q # <<>>
  PROVE  /\ Tail(q) \in Seq(S) /\ Len(Tail(q)) = Len(q) - 1 /\ Len(q) \in Nat \ {0}
         /\ \A i \in 1 .. Len(Tail(q)) : i + 1 \in 1 .. Len(q) /\ Tail(q)[i] = q[i + 1]
         /\ 1 \in 1 .. Len(q) /\ Head(q) = q[1] /\ Head(q) \in S
OBVIOUS

LEMMA AppendFacts ==
  ASSUME NEW S, NEW q \in Seq(S), NEW e \in S
  PROVE  /\ Append(q, e) \in Seq(S) /\ Len(Append(q, e)) = Len(q) + 1 /\ Len(q) \in Nat
         /\ \A i \in 1 .. Len(q) + 1 :
              \/ i \in 1 .. Len(q) /\ Append(q, e)[i] = q[i]
              \/ i = Len(q) + 1 /\ Append(q, e)[i] = e
OBVIOUS

(* Taking the head of a queue keeps the order, and the head is the oldest. *)
LEMMA TailOrder ==
  ASSUME NEW q \in Seq(Frame), q # <<>>, NEW p, NEW h, NEW c
  PROVE  /\ Increasing(q) => Increasing(Tail(q)) /\ Above(Tail(q), Head(q))
         /\ Before(p, q) => Before(p, Tail(q)) /\ Below(p, Head(q))
         /\ Before(q, p) => Before(Tail(q), p) /\ Above(p, Head(q))
         /\ Fresh(q, h, c) =>
              /\ Fresh(Tail(q), h, c)
              /\ h[Head(q).src] < Head(q).n /\ Head(q).n <= c[Head(q).src]
<1>1. /\ Len(Tail(q)) = Len(q) - 1 /\ Len(q) \in Nat \ {0}
      /\ \A i \in 1 .. Len(Tail(q)) : i + 1 \in 1 .. Len(q) /\ Tail(q)[i] = q[i + 1]
      /\ 1 \in 1 .. Len(q) /\ Head(q) = q[1]
  BY TailFacts
<1>2. Increasing(q) => Increasing(Tail(q))
  BY <1>1 DEF Increasing
<1>3. Increasing(q) => Above(Tail(q), Head(q))
  BY <1>1 DEF Increasing, Above
<1>4. Before(p, q) => Before(p, Tail(q)) /\ Below(p, Head(q))
  BY <1>1 DEF Before, Below
<1>5. Before(q, p) => Before(Tail(q), p) /\ Above(p, Head(q))
  BY <1>1 DEF Before, Above
<1>6. Fresh(q, h, c) => /\ Fresh(Tail(q), h, c)
                        /\ h[Head(q).src] < Head(q).n /\ Head(q).n <= c[Head(q).src]
  BY <1>1 DEF Fresh
<1>. QED
  BY <1>2, <1>3, <1>4, <1>5, <1>6

(* Appending a frame that is newer than what is there keeps the order.     *)
LEMMA AppendOrder ==
  ASSUME NEW q \in Seq(Frame), NEW f \in Frame, NEW p, NEW h, NEW c
  PROVE  /\ Increasing(q) /\ Below(q, f) => Increasing(Append(q, f))
         /\ Before(p, q) /\ Below(p, f) => Before(p, Append(q, f))
         /\ Before(q, p) /\ Above(p, f) => Before(Append(q, f), p)
         /\ Fresh(q, h, c) /\ h[f.src] < f.n /\ f.n <= c[f.src] => Fresh(Append(q, f), h, c)
<1>. DEFINE a == Append(q, f)
<1>1. /\ Len(a) = Len(q) + 1 /\ Len(q) \in Nat
      /\ \A i \in 1 .. Len(a) : \/ i \in 1 .. Len(q) /\ a[i] = q[i]
                                \/ i = Len(q) + 1 /\ a[i] = f
  BY AppendFacts
<1>. HIDE DEF a
<1>2. Increasing(q) /\ Below(q, f) => Increasing(a)
  BY <1>1 DEF Increasing, Below
<1>3. Before(p, q) /\ Below(p, f) => Before(p, a)
  BY <1>1 DEF Before, Below
<1>4. Before(q, p) /\ Above(p, f) => Before(a, p)
  BY <1>1 DEF Before, Above
<1>5. Fresh(q, h, c) /\ h[f.src] < f.n /\ f.n <= c[f.src] => Fresh(a, h, c)
  BY <1>1 DEF Fresh
<1>. QED
  BY <1>2, <1>3, <1>4, <1>5 DEF a

(* No frame has two readers.                                               *)
LEMMA OneReader ==
  ASSUME NEW s, NEW m1 \in Reader, NEW m2 \in Reader, Decodes(m1, s), Decodes(m2, s)
  PROVE  m1 = m2
BY DEF Decodes, Reader, Dji, Dm, Cubemars

(* The routing table sends a frame only to a module that decodes it, and   *)
(* to every module that does.                                              *)
LEMMA TableAgrees ==
  ASSUME NEW s \in Bus \X Id
  PROVE  /\ \A m \in Routed(s) : Decodes(m, s)
         /\ \A m \in Reader : Decodes(m, s) => m \in Routed(s)
<1>1. PICK b \in Bus, i \in Id : s = <<b, i>>
  OBVIOUS
<1>2. s[1] = b /\ s[2] = i
  BY <1>1
<1>3. \A m \in Routed(s) : Decodes(m, s)
  BY <1>1, <1>2 DEF Routed, Decodes, Bus, Id, Dji, Dm, Cubemars
<1>4. ASSUME NEW m \in Reader, Decodes(m, s) PROVE m \in Routed(s)
  BY <1>1, <1>2, <1>4 DEF Routed, Decodes, Bus, Id, Dji, Dm, Cubemars
<1>. QED
  BY <1>3, <1>4

-----------------------------------------------------------------------------
LEMMA InitIInv == Init => IInv
<1>. SUFFICES ASSUME Init PROVE IInv
  OBVIOUS
<1>1. /\ count \in [Source -> Nat] /\ held \in [Source -> Nat] /\ routed \in [Source -> Nat]
      /\ pc \in [Reader -> {"drain", "compute"}]
  BY DEF Init
<1>2. budget \in 0 .. Budget + 1
  BY FeedbackAssumption DEF Init
<1>3. rx = <<>> /\ hand = <<>> /\ \A m \in Reader : queue[m] = <<>>
  BY DEF Init
<1>4. queue \in [Reader -> Seq(Frame)]
  BY DEF Init
<1>5. TypeOK
  BY <1>1, <1>2, <1>3, <1>4, FeedbackAssumption DEF TypeOK
<1>6. RoutedToItsDecoder
  BY <1>3, TableAgrees DEF RoutedToItsDecoder
<1>7. Ordered
  BY <1>3 DEF Init, Ordered, Increasing, Before, Fresh
<1>. QED
  BY <1>5, <1>6, <1>7 DEF IInv

(* An arriving frame has a number greater than any other of its source.    *)
LEMMA ArriveKeepsIInv ==
  ASSUME IInv, NEW s \in Source, NEW good \in BOOLEAN, Arrive(s, good)
  PROVE  IInv'
<1>. DEFINE f == [src |-> s, n |-> count'[s], good |-> good]
<1>1. /\ count' = [count EXCEPT ![s] = @ + 1]
      /\ rx' = IF Len(rx) < RxDepth THEN Append(rx, f) ELSE rx
      /\ UNCHANGED <<hand, queue, pc, budget, held, routed>>
  BY DEF Arrive, Put
<1>2. /\ count' \in [Source -> Nat] /\ count'[s] = count[s] + 1
      /\ \A t \in Source : count[t] \in Nat /\ held[t] \in Nat /\ count[t] <= count'[t]
  BY <1>1 DEF IInv, TypeOK
<1>3. f \in Frame /\ f.src = s /\ f.n = count[s] + 1
  BY <1>2 DEF Frame
<1>. HIDE DEF f
<1>4. rx \in Seq(Frame) /\ hand \in Seq(Frame) /\ \A m \in Reader : queue[m] \in Seq(Frame)
  BY DEF IInv, TypeOK
<1>5. TypeOK'
  BY <1>1, <1>2, <1>3, <1>4, FeedbackAssumption, AppendFacts DEF IInv, TypeOK
<1>6. RoutedToItsDecoder'
  BY <1>1 DEF IInv, RoutedToItsDecoder
<1>7. ASSUME NEW q \in Seq(Frame), Fresh(q, held, count)
      PROVE  Fresh(q, held, count') /\ Below(q, f)
  <2>. SUFFICES ASSUME NEW i \in 1 .. Len(q)
                PROVE  /\ held[q[i].src] < q[i].n /\ q[i].n <= count'[q[i].src]
                       /\ q[i].src = s => q[i].n < f.n
    BY <1>3 DEF Fresh, Below
  <2>1. q[i] \in Frame /\ held[q[i].src] < q[i].n /\ q[i].n <= count[q[i].src]
    BY <1>7 DEF Fresh
  <2>. QED
    BY <2>1, <1>2, <1>3 DEF Frame
<1>8. /\ Fresh(rx, held, count') /\ Below(rx, f) /\ Fresh(hand, held, count') /\ Below(hand, f)
      /\ \A m \in Reader : Fresh(queue[m], held, count') /\ Below(queue[m], f)
  BY <1>4, <1>7 DEF IInv, Ordered
<1>9. held[s] < f.n /\ f.n <= count'[s]
  BY <1>2, <1>3 DEF IInv, Ordered
<1>10. Increasing(rx') /\ Before(hand, rx') /\ Fresh(rx', held, count')
  BY <1>1, <1>3, <1>4, <1>8, <1>9, AppendOrder DEF IInv, Ordered
<1>11. \A m \in Reader : Before(queue[m], rx')
  BY <1>1, <1>3, <1>4, <1>8, AppendOrder DEF IInv, Ordered
<1>12. \A t \in Source : held[t] <= count'[t]
  BY <1>2 DEF IInv, Ordered
<1>13. Ordered'
  BY <1>1, <1>8, <1>10, <1>11, <1>12 DEF IInv, Ordered
<1>. QED
  BY <1>5, <1>6, <1>13 DEF IInv

(* The dispatcher takes the oldest frame.                                  *)
LEMMA TakeKeepsIInv ==
  ASSUME IInv, Take
  PROVE  IInv'
<1>. DEFINE f == Head(rx)
<1>1. /\ hand = <<>> /\ rx # <<>> /\ hand' = <<f>> /\ rx' = Tail(rx)
      /\ UNCHANGED <<count, queue, pc, budget, held, routed>>
  BY DEF Take
<1>2. rx \in Seq(Frame) /\ f \in Frame /\ Tail(rx) \in Seq(Frame) /\ Len(Tail(rx)) <= RxDepth
  BY <1>1, TailFacts, FeedbackAssumption DEF IInv, TypeOK
<1>3. TypeOK'
  BY <1>1, <1>2 DEF IInv, TypeOK
<1>4. RoutedToItsDecoder'
  BY <1>1 DEF IInv, RoutedToItsDecoder
<1>5. /\ Increasing(Tail(rx)) /\ Above(Tail(rx), f) /\ Fresh(Tail(rx), held, count)
      /\ held[f.src] < f.n /\ f.n <= count[f.src]
      /\ \A m \in Reader : Before(queue[m], Tail(rx)) /\ Below(queue[m], f)
  BY <1>1, <1>2, TailOrder DEF IInv, Ordered
<1>6. Before(<<f>>, Tail(rx)) /\ Fresh(<<f>>, held, count)
  <2>1. Len(<<f>>) = 1 /\ <<f>>[1] = f
    OBVIOUS
  <2>. HIDE DEF f
  <2>. QED
    BY <1>5, <2>1 DEF Before, Above, Fresh
<1>7. \A m \in Reader : Before(queue[m], <<f>>)
  <2>1. Len(<<f>>) = 1 /\ <<f>>[1] = f
    OBVIOUS
  <2>. HIDE DEF f
  <2>. QED
    BY <1>5, <2>1 DEF Before, Below
<1>8. Ordered'
  BY <1>1, <1>5, <1>6, <1>7 DEF IInv, Ordered
<1>. QED
  BY <1>3, <1>4, <1>8 DEF IInv

(* The frame in hand goes to the back of the queues of its readers.        *)
LEMMA RouteKeepsIInv ==
  ASSUME IInv, Route
  PROVE  IInv'
<1>. DEFINE f == hand[1]
            into == {m \in Routed(f.src) : Len(queue[m]) < QueueDepth}
<1>1. /\ hand # <<>> /\ hand' = <<>>
      /\ queue' = [m \in Reader |-> IF m \in into THEN Append(queue[m], f) ELSE queue[m]]
      /\ routed' = IF into # {} /\ f.good THEN [routed EXCEPT ![f.src] = f.n] ELSE routed
      /\ UNCHANGED <<count, rx, pc, budget, held>>
  BY DEF Route
<1>2. hand \in Seq(Frame) /\ Len(hand) = 1 /\ f \in Frame /\ rx \in Seq(Frame)
  <2>1. hand \in Seq(Frame) /\ Len(hand) <= 1 /\ rx \in Seq(Frame)
    BY DEF IInv, TypeOK
  <2>2. Len(hand) \in Nat \ {0} /\ Head(hand) = f /\ Head(hand) \in Frame
    BY <1>1, <2>1, TailFacts
  <2>3. f \in Frame
    BY <2>2
  <2>. HIDE DEF f
  <2>4. \A k \in Nat \ {0} : k <= 1 => k = 1
    OBVIOUS
  <2>5. Len(hand) = 1
    BY <2>1, <2>2, <2>4, Zenon
  <2>. QED
    BY <2>1, <2>3, <2>5
<1>3. /\ f.src \in Source /\ f.n \in Nat /\ f.src \in Bus \X Id
      /\ \A m \in Reader : queue[m] \in Seq(Frame) /\ Len(queue[m]) \in Nat
  <2>1. f.src \in Source /\ f.n \in Nat
    BY <1>2 DEF Frame
  <2>2. f.src \in Bus \X Id
    BY <2>1, FeedbackAssumption
  <2>3. \A m \in Reader : queue[m] \in Seq(Frame)
    BY DEF IInv, TypeOK
  <2>. QED
    BY <2>1, <2>2, <2>3
<1>4. \A m \in into : Decodes(m, f.src) /\ Len(queue[m]) < QueueDepth
  BY <1>3, TableAgrees
<1>5. /\ held[f.src] < f.n /\ f.n <= count[f.src] /\ Above(rx, f)
      /\ \A m \in Reader : Below(queue[m], f)
  BY <1>2 DEF IInv, Ordered, Fresh, Before, Above, Below
<1>. HIDE DEF f, into
<1>6. ASSUME NEW m \in Reader
      PROVE  /\ queue'[m] \in Seq(Frame) /\ Len(queue'[m]) <= QueueDepth
             /\ \A i \in 1 .. Len(queue'[m]) : Decodes(m, queue'[m][i].src)
             /\ Increasing(queue'[m]) /\ Before(queue'[m], rx) /\ Fresh(queue'[m], held, count)
  <2>1. CASE m \in into
    <3>1. queue'[m] = Append(queue[m], f)
      BY <1>1, <2>1
    <3>2. queue'[m] \in Seq(Frame) /\ Len(queue'[m]) = Len(queue[m]) + 1
      BY <1>2, <1>3, <3>1, AppendFacts
    <3>3. Len(queue'[m]) <= QueueDepth
      BY <1>3, <1>4, <2>1, <3>2, FeedbackAssumption
    <3>4. ASSUME NEW i \in 1 .. Len(queue'[m])
          PROVE  Decodes(m, queue'[m][i].src)
      <4>1. /\ queue'[m][Len(queue[m]) + 1] = f
            /\ \A j \in 1 .. Len(queue[m]) : queue'[m][j] = queue[m][j]
        BY <1>2, <1>3, <3>1, AppendFacts
      <4>2. CASE i = Len(queue[m]) + 1
        BY <1>4, <2>1, <4>1, <4>2
      <4>3. CASE i # Len(queue[m]) + 1
        <5>1. i \in 1 .. Len(queue[m])
          BY <1>3, <3>2, <4>3
        <5>2. Decodes(m, queue[m][i].src)
          BY <5>1 DEF IInv, RoutedToItsDecoder
        <5>. QED
          BY <4>1, <5>1, <5>2
      <4>. QED
        BY <4>2, <4>3
    <3>5. Increasing(queue'[m]) /\ Before(queue'[m], rx) /\ Fresh(queue'[m], held, count)
      BY <1>2, <1>3, <1>5, <3>1, AppendOrder DEF IInv, Ordered
    <3>. QED
      BY <3>2, <3>3, <3>4, <3>5
  <2>2. CASE m \notin into
    BY <1>1, <1>3, <2>2 DEF IInv, TypeOK, RoutedToItsDecoder, Ordered
  <2>. QED
    BY <2>1, <2>2
<1>7. queue' \in [Reader -> Seq(Frame)]
  BY <1>1, <1>6
<1>8. routed' \in [Source -> Nat]
  BY <1>1, <1>3 DEF IInv, TypeOK
<1>9. TypeOK'
  BY <1>1, <1>6, <1>7, <1>8 DEF IInv, TypeOK
<1>10. RoutedToItsDecoder'
  BY <1>6 DEF IInv, RoutedToItsDecoder
<1>11. Before(<<>>, rx) /\ Fresh(<<>>, held, count) /\ \A m \in Reader : Before(queue'[m], <<>>)
  BY DEF Before, Fresh
<1>12. Ordered'
  BY <1>1, <1>6, <1>11 DEF IInv, Ordered
<1>. QED
  BY <1>9, <1>10, <1>12 DEF IInv

(* What a module decodes is the oldest report of its source on the path,   *)
(* and newer than the one it held.                                         *)
LEMMA DecodeKeepsIInv ==
  ASSUME IInv, NEW m \in Reader, Decode(m)
  PROVE  IInv'
<1>. DEFINE f == Head(queue[m])
<1>1. /\ queue[m] # <<>> /\ queue' = [queue EXCEPT ![m] = Tail(@)]
      /\ held' = IF f.good /\ Decodes(m, f.src) THEN [held EXCEPT ![f.src] = f.n] ELSE held
      /\ budget' = IF m = "gantry" THEN budget + Cost(f) ELSE budget
      /\ m = "gantry" => budget < Budget
      /\ UNCHANGED <<count, rx, hand, pc, routed>>
  BY DEF Decode, Draining
<1>2. /\ rx \in Seq(Frame) /\ hand \in Seq(Frame) /\ queue \in [Reader -> Seq(Frame)]
      /\ \A n \in Reader : queue[n] \in Seq(Frame)
  BY DEF IInv, TypeOK
<1>3. /\ f \in Frame /\ f = queue[m][1] /\ 1 \in 1 .. Len(queue[m])
      /\ Tail(queue[m]) \in Seq(Frame) /\ Len(Tail(queue[m])) <= QueueDepth
      /\ \A i \in 1 .. Len(Tail(queue[m])) :
           i + 1 \in 1 .. Len(queue[m]) /\ Tail(queue[m])[i] = queue[m][i + 1]
  <2>1. queue[m] \in Seq(Frame) /\ queue[m] # <<>> /\ Len(queue[m]) <= QueueDepth
    BY <1>1, <1>2 DEF IInv, TypeOK
  <2>2. /\ Tail(queue[m]) \in Seq(Frame) /\ Len(Tail(queue[m])) = Len(queue[m]) - 1
        /\ Len(queue[m]) \in Nat \ {0}
        /\ \A i \in 1 .. Len(Tail(queue[m])) :
             i + 1 \in 1 .. Len(queue[m]) /\ Tail(queue[m])[i] = queue[m][i + 1]
        /\ 1 \in 1 .. Len(queue[m]) /\ f = queue[m][1] /\ f \in Frame
    BY <2>1, TailFacts
  <2>. HIDE DEF f
  <2>3. Len(Tail(queue[m])) <= QueueDepth
    BY <2>1, <2>2, FeedbackAssumption
  <2>. QED
    BY <2>2, <2>3
<1>4. f.src \in Source /\ f.n \in Nat /\ Decodes(m, f.src)
  BY <1>3 DEF Frame, IInv, RoutedToItsDecoder
<1>5. /\ held[f.src] < f.n /\ f.n <= count[f.src]
      /\ Increasing(Tail(queue[m])) /\ Above(Tail(queue[m]), f)
      /\ Before(Tail(queue[m]), hand) /\ Before(Tail(queue[m]), rx)
      /\ Above(hand, f) /\ Above(rx, f) /\ Fresh(Tail(queue[m]), held, count)
  BY <1>1, <1>2, TailOrder DEF IInv, Ordered
<1>6. budget' \in 0 .. Budget + 1
  <2>1. Cost(f) \in 0 .. 2
    BY DEF Cost
  <2>. QED
    BY <1>1, <2>1, FeedbackAssumption DEF IInv, TypeOK
<1>. HIDE DEF f
<1>7. queue'[m] = Tail(queue[m]) /\ \A n \in Reader \ {m} : queue'[n] = queue[n]
  BY <1>1, <1>2
<1>8. /\ held' \in [Source -> Nat]
      /\ \A s \in Source : held'[s] = held[s] \/ (s = f.src /\ held'[s] = f.n)
  BY <1>1, <1>4 DEF IInv, TypeOK
<1>9. TypeOK'
  BY <1>1, <1>2, <1>3, <1>6, <1>7, <1>8 DEF IInv, TypeOK
<1>10. RoutedToItsDecoder'
  <2>. SUFFICES ASSUME NEW n \in Reader, NEW i \in 1 .. Len(queue'[n])
                PROVE  Decodes(n, queue'[n][i].src)
    BY DEF IInv, RoutedToItsDecoder
  <2>1. CASE n = m
    BY <1>3, <1>7, <2>1 DEF IInv, RoutedToItsDecoder
  <2>2. CASE n # m
    BY <1>7, <2>2 DEF IInv, RoutedToItsDecoder
  <2>. QED
    BY <2>1, <2>2
<1>11. ASSUME NEW q \in Seq(Frame), Fresh(q, held, count), Above(q, f)
       PROVE  Fresh(q, held', count)
  <2>. SUFFICES ASSUME NEW i \in 1 .. Len(q)
                PROVE  held'[q[i].src] < q[i].n /\ q[i].n <= count[q[i].src]
    BY DEF Fresh
  <2>1. q[i] \in Frame /\ held[q[i].src] < q[i].n /\ q[i].n <= count[q[i].src]
    BY <1>11 DEF Fresh
  <2>2. q[i].src \in Source
    BY <2>1 DEF Frame
  <2>3. q[i].src = f.src => f.n < q[i].n
    BY <1>11 DEF Above
  <2>. QED
    BY <1>8, <2>1, <2>2, <2>3
<1>12. ASSUME NEW n \in Reader \ {m} PROVE Above(queue[n], f)
  <2>. SUFFICES ASSUME NEW i \in 1 .. Len(queue[n]), queue[n][i].src = f.src
                PROVE  FALSE
    BY DEF Above
  <2>1. Decodes(n, f.src)
    BY DEF IInv, RoutedToItsDecoder
  <2>. QED
    BY <1>4, <2>1, OneReader
<1>13. /\ Fresh(rx, held', count) /\ Fresh(hand, held', count)
       /\ \A n \in Reader : Fresh(queue'[n], held', count)
  BY <1>2, <1>3, <1>5, <1>7, <1>11, <1>12 DEF IInv, Ordered
<1>14. \A n \in Reader :
         Increasing(queue'[n]) /\ Before(queue'[n], hand) /\ Before(queue'[n], rx)
  BY <1>5, <1>7 DEF IInv, Ordered
<1>15. \A s \in Source : held'[s] <= count[s]
  BY <1>5, <1>8 DEF IInv, Ordered
<1>16. Ordered'
  BY <1>1, <1>13, <1>14, <1>15 DEF IInv, Ordered
<1>. QED
  BY <1>9, <1>10, <1>16 DEF IInv

LEMMA StepIInv == IInv /\ [Next]_vars => IInv'
<1>. SUFFICES ASSUME IInv, [Next]_vars PROVE IInv'
  OBVIOUS
<1>1. ASSUME NEW s \in Source, NEW good \in BOOLEAN, Arrive(s, good) PROVE IInv'
  BY <1>1, ArriveKeepsIInv
<1>2. CASE Dispatch
  BY <1>2, TakeKeepsIInv, RouteKeepsIInv DEF Dispatch
<1>3. ASSUME NEW m \in Running, Loop(m) PROVE IInv'
  <2>. m \in Reader
    BY FeedbackAssumption
  <2>1. CASE Decode(m)
    BY <2>1, DecodeKeepsIInv
  <2>2. CASE Drained(m) \/ Compute(m)
    <3>. pc \in [Reader -> {"drain", "compute"}] /\ budget \in 0 .. Budget + 1
      BY DEF IInv, TypeOK
    <3>1. /\ UNCHANGED <<count, rx, hand, queue, held, routed>>
          /\ pc' \in [Reader -> {"drain", "compute"}]
      BY <2>2 DEF Drained, Compute
    <3>2. budget' \in {0, budget}
      BY <2>2 DEF Drained, Compute
    <3>3. /\ UNCHANGED <<count, rx, hand, queue, held, routed>>
          /\ pc' \in [Reader -> {"drain", "compute"}] /\ budget' \in 0 .. Budget + 1
      BY <3>1, <3>2, FeedbackAssumption
    <3>4. TypeOK'
      BY <3>3 DEF IInv, TypeOK
    <3>5. RoutedToItsDecoder' /\ Ordered'
      BY <3>3 DEF IInv, RoutedToItsDecoder, Ordered
    <3>. QED
      BY <3>4, <3>5 DEF IInv
  <2>. QED
    BY <1>3, <2>1, <2>2 DEF Loop
<1>4. CASE UNCHANGED vars
  BY <1>4 DEF vars, IInv, TypeOK, RoutedToItsDecoder, Ordered
<1>. QED
  BY <1>1, <1>2, <1>3, <1>4 DEF Next

LEMMA InvariantHolds == Spec => []IInv
BY InitIInv, StepIInv, PTL DEF Spec

(* The queues hold frames, within their depths.                            *)
THEOREM TypeCorrect == Spec => []TypeOK
<1>1. IInv => TypeOK
  BY DEF IInv
<1>. QED
  BY <1>1, InvariantHolds, PTL

(* The dispatcher's table and the three decoders agree, and no queue ever  *)
(* holds a frame its module has no use for.                                *)
THEOREM RoutingAgrees == Spec => []RoutedToItsDecoder
<1>1. IInv => RoutedToItsDecoder
  BY DEF IInv
<1>. QED
  BY <1>1, InvariantHolds, PTL

(* Every step sends, sees, or does neither.                                *)
LEMMA LossyStep == IInv /\ [Next]_vars => [Lossy!Next]_Lossy!vars
<1>. SUFFICES ASSUME IInv, [Next]_vars PROVE [Lossy!Next]_Lossy!vars
  OBVIOUS
<1>. USE DEF Lossy!Next, Lossy!vars
<1>1. ASSUME NEW s \in Source, NEW good \in BOOLEAN, Arrive(s, good)
      PROVE  Lossy!Send(s)
  BY <1>1 DEF Arrive, Lossy!Send
<1>2. CASE Dispatch
  BY <1>2 DEF Dispatch, Take, Route
<1>3. ASSUME NEW m \in Running, Loop(m)
      PROVE  [\E s \in Source : Lossy!See(s)]_Lossy!vars
  <2>1. CASE Decode(m)
    <3>. DEFINE f == Head(queue[m])
    <3>1. /\ queue[m] # <<>> /\ count' = count
          /\ held' = held \/ held' = [held EXCEPT ![f.src] = f.n]
      BY <2>1 DEF Decode
    <3>2. m \in Reader /\ queue[m] \in Seq(Frame) /\ f \in Frame
      BY <3>1, TailFacts, FeedbackAssumption DEF IInv, TypeOK
    <3>3. f.src \in Source /\ f.n \in Nat /\ held[f.src] \in Nat /\ count[f.src] \in Nat
      BY <3>2 DEF Frame, IInv, TypeOK
    <3>4. held[f.src] < f.n /\ f.n <= count[f.src]
      BY <3>1, <3>2, TailOrder DEF IInv, Ordered
    <3>5. f.n \in held[f.src] + 1 .. count[f.src]
      BY <3>3, <3>4
    <3>. QED
      BY <3>1, <3>3, <3>5 DEF Lossy!See
  <2>2. CASE Drained(m) \/ Compute(m)
    BY <2>2 DEF Drained, Compute
  <2>. QED
    BY <1>3, <2>1, <2>2 DEF Loop
<1>4. CASE UNCHANGED vars
  BY <1>4 DEF vars
<1>. QED
  BY <1>1, <1>2, <1>3, <1>4 DEF Next

(* The feedback path refines a lossy channel: no control loop ever goes    *)
(* back to an older report, however the queues overflow.                   *)
THEOREM FeedbackIsLossyChannel == Spec => LossySpec
<1>1. Init => Lossy!Init
  BY DEF Init, Lossy!Init
<1>. QED
  BY <1>1, InvariantHolds, LossyStep, PTL DEF Spec, LossySpec, Lossy!Spec

-----------------------------------------------------------------------------
(* What a control loop computes on.  Of every source the newest valid      *)
(* report on the path ahead of its reader is the one routed last: it waits *)
(* in the queue, behind it only reports that decide nothing, or it has     *)
(* been decoded.                                                           *)
ValidFrom(f, s) == f.src = s /\ f.good

LastValid(q, s, i) ==
  /\ ValidFrom(q[i], s)
  /\ \A j \in 1 .. Len(q) : i < j => ~ValidFrom(q[j], s)

NoneValid(q, s) == \A j \in 1 .. Len(q) : ~ValidFrom(q[j], s)

Accounted(q, s, h, r) ==
  \/ NoneValid(q, s) /\ h = r
  \/ \E i \in 1 .. Len(q) : LastValid(q, s, i) /\ q[i].n = r

NewestWaits ==
  \A m \in Reader, s \in Source :
    Decodes(m, s) => Accounted(queue[m], s, held[s], routed[s])

(* Decoding the head of a queue.                                           *)
LEMMA TailAccounted ==
  ASSUME NEW q \in Seq(Frame), q # <<>>, NEW s, NEW h, NEW r, Accounted(q, s, h, r)
  PROVE  Accounted(Tail(q), s, IF ValidFrom(Head(q), s) THEN Head(q).n ELSE h, r)
<1>. DEFINE t == Tail(q)
            g == IF ValidFrom(Head(q), s) THEN Head(q).n ELSE h
<1>1. /\ Len(t) = Len(q) - 1 /\ Len(q) \in Nat \ {0} /\ 1 \in 1 .. Len(q) /\ Head(q) = q[1]
      /\ \A i \in 1 .. Len(t) : i + 1 \in 1 .. Len(q) /\ t[i] = q[i + 1]
  BY TailFacts
<1>. HIDE DEF t
<1>2. CASE NoneValid(q, s) /\ h = r
  BY <1>1, <1>2 DEF NoneValid, Accounted
<1>3. ASSUME NEW i \in 1 .. Len(q), LastValid(q, s, i), q[i].n = r
      PROVE  Accounted(t, s, g, r)
  <2>1. CASE i = 1
    <3>1. ASSUME NEW j \in 1 .. Len(t) PROVE ~ValidFrom(t[j], s)
      <4>1. j + 1 \in 1 .. Len(q) /\ 1 < j + 1 /\ t[j] = q[j + 1]
        BY <1>1
      <4>. QED
        BY <1>3, <2>1, <4>1 DEF LastValid
    <3>2. g = r
      BY <1>1, <1>3, <2>1 DEF LastValid
    <3>. QED
      BY <3>1, <3>2 DEF NoneValid, Accounted
  <2>2. CASE i # 1
    <3>1. i - 1 \in 1 .. Len(t) /\ t[i - 1] = q[i]
      BY <1>1, <2>2
    <3>2. ASSUME NEW j \in 1 .. Len(t), i - 1 < j PROVE ~ValidFrom(t[j], s)
      <4>1. j + 1 \in 1 .. Len(q) /\ i < j + 1 /\ t[j] = q[j + 1]
        BY <1>1, <3>2
      <4>. QED
        BY <1>3, <4>1 DEF LastValid
    <3>3. LastValid(t, s, i - 1) /\ t[i - 1].n = r
      BY <1>3, <3>1, <3>2 DEF LastValid
    <3>. QED
      BY <3>1, <3>3 DEF Accounted
  <2>. QED
    BY <2>1, <2>2
<1>. QED
  BY <1>2, <1>3 DEF Accounted, t

(* Routing a frame to the back of a queue.                                 *)
LEMMA AppendAccounted ==
  ASSUME NEW q \in Seq(Frame), NEW f \in Frame, NEW s, NEW h, NEW r, Accounted(q, s, h, r)
  PROVE  Accounted(Append(q, f), s, h, IF ValidFrom(f, s) THEN f.n ELSE r)
<1>. DEFINE a == Append(q, f)
<1>1. /\ Len(a) = Len(q) + 1 /\ Len(q) \in Nat
      /\ \A i \in 1 .. Len(q) : a[i] = q[i]
      /\ a[Len(q) + 1] = f
  BY AppendFacts
<1>. HIDE DEF a
<1>2. CASE ValidFrom(f, s)
  <2>1. LastValid(a, s, Len(q) + 1) /\ a[Len(q) + 1].n = f.n /\ Len(q) + 1 \in 1 .. Len(a)
    BY <1>1, <1>2 DEF LastValid
  <2>. QED
    BY <1>2, <2>1 DEF Accounted, a
<1>3. CASE ~ValidFrom(f, s)
  <2>1. CASE NoneValid(q, s) /\ h = r
    BY <1>1, <1>3, <2>1 DEF NoneValid, Accounted, a
  <2>2. ASSUME NEW i \in 1 .. Len(q), LastValid(q, s, i), q[i].n = r
        PROVE  LastValid(a, s, i) /\ a[i].n = r /\ i \in 1 .. Len(a)
    BY <1>1, <1>3, <2>2 DEF LastValid
  <2>. QED
    BY <1>3, <2>1, <2>2 DEF Accounted, a
<1>. QED
  BY <1>2, <1>3

LEMMA InitNewest == Init => NewestWaits
BY DEF Init, NewestWaits, Accounted, NoneValid

LEMMA RouteNewest ==
  ASSUME IInv, NewestWaits, Route
  PROVE  NewestWaits'
<1>. DEFINE f == hand[1]
            into == {m \in Routed(f.src) : Len(queue[m]) < QueueDepth}
<1>1. /\ queue' = [m \in Reader |-> IF m \in into THEN Append(queue[m], f) ELSE queue[m]]
      /\ routed' = IF into # {} /\ f.good THEN [routed EXCEPT ![f.src] = f.n] ELSE routed
      /\ held' = held
  BY DEF Route
<1>2. f \in Frame
  <2>1. hand \in Seq(Frame) /\ hand # <<>>
    BY DEF IInv, TypeOK, Route
  <2>2. Head(hand) \in Frame /\ Head(hand) = hand[1]
    BY <2>1, TailFacts
  <2>. QED
    BY <2>2
<1>3. f.src \in Source /\ f.src \in Bus \X Id
  BY <1>2, FeedbackAssumption DEF Frame
<1>4. into \subseteq Reader /\ \A n \in into : Decodes(n, f.src)
  <2>1. \A n \in Routed(f.src) : n \in Reader
    BY DEF Routed, Reader
  <2>. QED
    BY <1>3, <2>1, TableAgrees
<1>. HIDE DEF f, into
<1>. SUFFICES ASSUME NEW m \in Reader, NEW s \in Source, Decodes(m, s)
              PROVE  Accounted(queue'[m], s, held[s], routed'[s])
  BY <1>1 DEF NewestWaits
<1>5. Accounted(queue[m], s, held[s], routed[s]) /\ queue[m] \in Seq(Frame)
  BY DEF NewestWaits, IInv, TypeOK
<1>6. CASE m \in into
  <2>1. queue'[m] = Append(queue[m], f)
    BY <1>1, <1>6
  <2>2. routed'[s] = IF ValidFrom(f, s) THEN f.n ELSE routed[s]
    BY <1>1, <1>6 DEF ValidFrom, IInv, TypeOK
  <2>. QED
    BY <1>2, <1>5, <2>1, <2>2, AppendAccounted
<1>7. CASE m \notin into
  <2>1. queue'[m] = queue[m]
    BY <1>1, <1>7
  <2>2. into # {} => f.src # s
    BY <1>4, <1>7, OneReader
  <2>3. routed'[s] = routed[s]
    BY <1>1, <2>2 DEF IInv, TypeOK
  <2>. QED
    BY <1>5, <2>1, <2>3
<1>. QED
  BY <1>6, <1>7

LEMMA DecodeNewest ==
  ASSUME IInv, NewestWaits, NEW n \in Reader, Decode(n)
  PROVE  NewestWaits'
<1>. DEFINE f == Head(queue[n])
<1>1. /\ queue[n] # <<>> /\ queue' = [queue EXCEPT ![n] = Tail(@)]
      /\ held' = IF f.good /\ Decodes(n, f.src) THEN [held EXCEPT ![f.src] = f.n] ELSE held
      /\ routed' = routed
  BY DEF Decode
<1>2. /\ queue \in [Reader -> Seq(Frame)] /\ queue[n] \in Seq(Frame)
      /\ held \in [Source -> Nat]
  BY DEF IInv, TypeOK
<1>3. f \in Frame /\ f = queue[n][1] /\ 1 \in 1 .. Len(queue[n])
  BY <1>1, <1>2, TailFacts
<1>4. f.src \in Source /\ Decodes(n, f.src)
  BY <1>3 DEF Frame, IInv, RoutedToItsDecoder
<1>. SUFFICES ASSUME NEW m \in Reader, NEW s \in Source, Decodes(m, s)
              PROVE  Accounted(queue'[m], s, held'[s], routed[s])
  BY <1>1 DEF NewestWaits
<1>5. Accounted(queue[m], s, held[s], routed[s]) /\ queue[m] \in Seq(Frame)
  BY DEF NewestWaits, IInv, TypeOK
<1>6. CASE m = n
  <2>1. queue'[m] = Tail(queue[m]) /\ f = Head(queue[m])
    BY <1>1, <1>2, <1>6
  <2>2. held'[s] = IF ValidFrom(f, s) THEN f.n ELSE held[s]
    BY <1>1, <1>2, <1>4 DEF ValidFrom
  <2>. HIDE DEF f
  <2>. QED
    BY <1>1, <1>5, <1>6, <2>1, <2>2, TailAccounted
<1>7. CASE m # n
  <2>1. f.src # s
    BY <1>4, <1>7, OneReader
  <2>2. queue'[m] = queue[m] /\ held'[s] = held[s]
    BY <1>1, <1>2, <1>7, <2>1
  <2>. QED
    BY <1>5, <2>2
<1>. QED
  BY <1>6, <1>7

LEMMA StepNewest == IInv /\ NewestWaits /\ [Next]_vars => NewestWaits'
<1>. SUFFICES ASSUME IInv, NewestWaits, [Next]_vars PROVE NewestWaits'
  OBVIOUS
<1>1. CASE Route
  BY <1>1, RouteNewest
<1>2. ASSUME NEW m \in Running, Decode(m) PROVE NewestWaits'
  BY <1>2, DecodeNewest, FeedbackAssumption
<1>3. CASE UNCHANGED <<queue, held, routed>>
  BY <1>3 DEF NewestWaits
<1>. QED
  BY <1>1, <1>2, <1>3 DEF Next, Arrive, Dispatch, Take, Loop, Drained, Compute, vars

(* The chassis and the arm compute on the newest report that has reached   *)
(* their queue, of every motor, however the queues fill and overflow.      *)
THEOREM LoopsComputeOnNewest == Spec => ComputesOnNewest
<1>. DEFINE OnNewest == \A m \in {"chassis", "arm"} :
                        pc[m] = "drain" /\ pc'[m] = "compute" =>
                          \A s \in Source : Decodes(m, s) => held[s] = routed[s]
<1>1. IInv /\ NewestWaits /\ [Next]_vars => [OnNewest]_vars
  <2>. SUFFICES ASSUME IInv, NewestWaits, [Next]_vars, NEW m \in {"chassis", "arm"},
                       pc[m] = "drain", pc'[m] = "compute",
                       NEW s \in Source, Decodes(m, s)
                PROVE  held[s] = routed[s]
    OBVIOUS
  <2>1. m \in Reader /\ pc \in [Reader -> {"drain", "compute"}]
    BY DEF Reader, IInv, TypeOK
  <2>2. PICK n \in Running : Drained(n) \/ Compute(n)
    BY DEF Next, Arrive, Dispatch, Take, Route, Loop, Decode, vars
  <2>3. n = m /\ Drained(m)
    BY <2>1, <2>2, FeedbackAssumption DEF Drained, Compute
  <2>4. queue[m] = <<>>
    BY <2>3 DEF Drained, Draining
  <2>5. Accounted(queue[m], s, held[s], routed[s])
    BY <2>1 DEF NewestWaits
  <2>. QED
    BY <2>4, <2>5 DEF Accounted
<1>2. Spec => []NewestWaits
  BY InitNewest, StepNewest, InvariantHolds, PTL DEF Spec
<1>. QED
  BY <1>1, <1>2, InvariantHolds, PTL DEF Spec, ComputesOnNewest
=============================================================================
