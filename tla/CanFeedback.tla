---------------------------- MODULE CanFeedback ----------------------------
(***************************************************************************)
(* Motor feedback, from the CAN controllers to the control loops.          *)
(*                                                                         *)
(* The receive callback runs in interrupt context and puts each frame into *)
(* one queue for all buses; the can_dispatch thread takes it out and puts  *)
(* it into the queue of the module that controls the motor.  Neither put   *)
(* waits: when the queue is full the new frame is lost.  A module empties  *)
(* its queue at the start of every round of its loop, except the gantry,   *)
(* which stops after a budget of frames; then it computes and sends.       *)
(*                                                                         *)
(* A frame's contents are the number of the report it carries: held[s] is  *)
(* the report the module has decoded last (valid is held[s] # 0).  A frame *)
(* that is too short is one the decoders reject.  Extended frames, which   *)
(* the callback ignores, are left out.                                     *)
(***************************************************************************)
EXTENDS Integers, Sequences

CONSTANTS
  Source,     \* the motors and other senders: pairs of a bus and a CAN id
  Running,    \* the modules enabled by Kconfig
  RxDepth,    \* the depth of g_can_rx_msgq
  QueueDepth, \* kQueueDepth of the module queues
  Budget,     \* kMaxFramesPerTick of the gantry
  MaxFrames   \* bound: the frames a source sends in a behaviour

Bus == 1 .. 3
Dji == 513 .. 516   \* 0x201 .. 0x204
Dm == 17 .. 19      \* 0x011 .. 0x013
Cubemars == 0
Id == Dji \cup Dm \cup {Cubemars}  \* what AddDefaultFilters lets pass, on every bus

Reader == {"chassis", "arm", "gantry"}

ASSUME FeedbackAssumption ==
  /\ Source \subseteq Bus \X Id
  /\ Running \subseteq Reader
  /\ RxDepth \in Nat \ {0} /\ QueueDepth \in Nat \ {0} /\ Budget \in Nat \ {0}
  /\ MaxFrames \in Nat

VARIABLES
  count,   \* how many frames each source has sent
  rx,      \* g_can_rx_msgq
  hand,    \* the frame the can_dispatch thread is routing, if any
  queue,   \* the modules' queues
  pc,      \* whether a module is draining its queue or computing
  budget,  \* frames_processed of the gantry
  held,    \* the last report decoded from each source
  routed   \* history: the last valid report put into a module's queue

vars == <<count, rx, hand, queue, pc, budget, held, routed>>

Frame == [src : Source, n : Nat, good : BOOLEAN]

Init ==
  /\ count = [s \in Source |-> 0]
  /\ rx = <<>>
  /\ hand = <<>>
  /\ queue = [m \in Reader |-> <<>>]
  /\ pc = [m \in Reader |-> "drain"]
  /\ budget = 0
  /\ held = [s \in Source |-> 0]
  /\ routed = [s \in Source |-> 0]

-----------------------------------------------------------------------------
(* Who gets a frame, and who decodes it.                                   *)

\* A mutation of Routed: on CAN3 every DJI frame goes to the arm.
RoutedDjiToArm(s) ==
  CASE s[1] = 1 /\ s[2] \in Dji -> {"chassis"}
    [] s[1] = 1 /\ s[2] = Cubemars -> {"gantry"}
    [] s[1] = 2 /\ s[2] \in {Cubemars, 513, 514} -> {"gantry"}
    [] s[1] = 3 /\ s[2] \in Dm \cup {513, 514, 515} -> {"arm"}
    [] OTHER -> {}

\* RouteCanFrameToModuleQueues.
Routed(s) ==
  CASE s[1] = 1 /\ s[2] \in Dji -> {"chassis"}
    [] s[1] = 1 /\ s[2] = Cubemars -> {"gantry"}
    [] s[1] = 2 /\ s[2] \in {Cubemars, 513, 514} -> {"gantry"}
    [] s[1] = 3 /\ s[2] \in Dm \cup {514, 515} -> {"arm"}
    [] s[1] = 3 /\ s[2] = 513 -> {"gantry"}
    [] OTHER -> {}

\* The frames each module's DecodeCanFramesInQueue has a use for.
Decodes(m, s) ==
  \/ m = "chassis" /\ s[1] = 1 /\ s[2] \in Dji
  \/ m = "arm" /\ s[1] = 3 /\ s[2] \in Dm \cup {514, 515}
  \/ m = "gantry" /\ s \in {<<2, 513>>, <<2, 514>>, <<3, 513>>, <<2, Cubemars>>, <<1, Cubemars>>}

-----------------------------------------------------------------------------
(* The interrupt and the can_dispatch thread.                              *)

\* k_msgq_put with K_NO_WAIT: a full queue keeps what it has.
Put(q, f, depth) == IF Len(q) < depth THEN Append(q, f) ELSE q

\* CanRxCallback.
Arrive(s, good) ==
  /\ count[s] < MaxFrames
  /\ count' = [count EXCEPT ![s] = @ + 1]
  /\ rx' = Put(rx, [src |-> s, n |-> count'[s], good |-> good], RxDepth)
  /\ UNCHANGED <<hand, queue, pc, budget, held, routed>>

Take ==
  /\ hand = <<>> /\ rx # <<>>
  /\ hand' = <<Head(rx)>>
  /\ rx' = Tail(rx)
  /\ UNCHANGED <<count, queue, pc, budget, held, routed>>

\* A mutation of Route: the frame jumps the module's queue.
RouteToFront ==
  /\ hand # <<>>
  /\ LET f == hand[1]
         into == {m \in Routed(f.src) : Len(queue[m]) < QueueDepth}
     IN  /\ queue' = [m \in Reader |-> IF m \in into THEN <<f>> \o queue[m] ELSE queue[m]]
         /\ routed' = IF into # {} /\ f.good THEN [routed EXCEPT ![f.src] = f.n] ELSE routed
  /\ hand' = <<>>
  /\ UNCHANGED <<count, rx, pc, budget, held>>

Route ==
  /\ hand # <<>>
  /\ LET f == hand[1]
         into == {m \in Routed(f.src) : Len(queue[m]) < QueueDepth}
     IN  /\ queue' = [m \in Reader |-> IF m \in into THEN Append(queue[m], f) ELSE queue[m]]
         /\ routed' = IF into # {} /\ f.good THEN [routed EXCEPT ![f.src] = f.n] ELSE routed
  /\ hand' = <<>>
  /\ UNCHANGED <<count, rx, pc, budget, held>>

-----------------------------------------------------------------------------
(* The module threads.                                                     *)

\* What a frame takes from the gantry's budget: a DJI frame is counted in its
\* own branch and again at the end of the loop body, and a Cubemars frame
\* that cannot be decoded leaves the body before it is counted.
Cost(f) == IF f.src[2] \in Dji THEN 2
           ELSE IF f.src[2] = Cubemars /\ ~f.good THEN 0 ELSE 1

Draining(m) == pc[m] = "drain" /\ (m = "gantry" => budget < Budget)

\* One iteration of a module's DecodeCanFramesInQueue.
Decode(m) ==
  /\ Draining(m) /\ queue[m] # <<>>
  /\ LET f == Head(queue[m])
     IN  /\ held' = IF f.good /\ Decodes(m, f.src) THEN [held EXCEPT ![f.src] = f.n] ELSE held
         /\ budget' = IF m = "gantry" THEN budget + Cost(f) ELSE budget
  /\ queue' = [queue EXCEPT ![m] = Tail(@)]
  /\ UNCHANGED <<count, rx, hand, pc, routed>>

\* A mutation of Drained: one decoded frame per round.
DrainedEarly(m) ==
  /\ pc[m] = "drain"
  /\ pc' = [pc EXCEPT ![m] = "compute"]
  /\ UNCHANGED <<count, rx, hand, queue, budget, held, routed>>

Drained(m) ==
  /\ pc[m] = "drain" /\ (queue[m] = <<>> \/ ~Draining(m))
  /\ pc' = [pc EXCEPT ![m] = "compute"]
  /\ UNCHANGED <<count, rx, hand, queue, budget, held, routed>>

\* A mutation of Compute: frames_processed outlives the call.
ComputeKeepsBudget(m) ==
  /\ pc[m] = "compute"
  /\ pc' = [pc EXCEPT ![m] = "drain"]
  /\ UNCHANGED <<count, rx, hand, queue, budget, held, routed>>

\* The rest of the round uses the reports held now; then the loop starts
\* again, with a new budget.
Compute(m) ==
  /\ pc[m] = "compute"
  /\ pc' = [pc EXCEPT ![m] = "drain"]
  /\ budget' = IF m = "gantry" THEN 0 ELSE budget
  /\ UNCHANGED <<count, rx, hand, queue, held, routed>>

-----------------------------------------------------------------------------
Dispatch == Take \/ Route
Loop(m) == Decode(m) \/ Drained(m) \/ Compute(m)

Next ==
  \/ \E s \in Source, good \in BOOLEAN : Arrive(s, good)
  \/ Dispatch
  \/ \E m \in Running : Loop(m)

\* The threads have the same priority and are time-sliced; nothing makes a
\* motor send.
Fairness == WF_vars(Dispatch) /\ \A m \in Running : WF_vars(Loop(m))

Spec == Init /\ [][Next]_vars
FairSpec == Spec /\ Fairness

-----------------------------------------------------------------------------
(* The types of the variables and the depths of the queues.                *)
TypeOK ==
  /\ count \in [Source -> Nat]
  /\ rx \in Seq(Frame) /\ Len(rx) <= RxDepth
  /\ hand \in Seq(Frame) /\ Len(hand) <= 1
  /\ queue \in [Reader -> Seq(Frame)]
  /\ \A m \in Reader : Len(queue[m]) <= QueueDepth
  /\ pc \in [Reader -> {"drain", "compute"}]
  /\ budget \in 0 .. Budget + 1
  /\ held \in [Source -> Nat]
  /\ routed \in [Source -> Nat]

(* The routing table of can_dispatch agrees with the decoders of three     *)
(* modules: a queue holds only frames its module has a use for, so that no *)
(* frame crowds out another for nothing, and a frame that a module waits   *)
(* for is never routed elsewhere or nowhere.                               *)
RoutedToItsDecoder ==
  /\ \A m \in Reader : \A i \in 1 .. Len(queue[m]) : Decodes(m, queue[m][i].src)
  /\ \A s \in Bus \X Id, m \in Reader : Decodes(m, s) => m \in Routed(s)

(* When the chassis and the arm start to compute they hold the newest      *)
(* report that has reached their queue, of every motor: the drain loop     *)
(* leaves nothing behind, whatever arrives meanwhile.  The gantry gives no *)
(* such promise: its budget may leave newer reports in the queue.          *)
ComputesOnNewest ==
  [][\A m \in {"chassis", "arm"} :
       pc[m] = "drain" /\ pc'[m] = "compute" =>
         \A s \in Source : Decodes(m, s) => held[s] = routed[s]
    ]_vars

(* Every valid report that got into a module's queue is seen, or a newer   *)
(* one is, if the module runs: the gantry's too, in spite of its budget.   *)
RoutedReportsAreSeen ==
  \A s \in Source : \A n \in 1 .. MaxFrames :
    Routed(s) \subseteq Running => (routed[s] = n ~> held[s] >= n)

(* Interrupt, dispatcher, queues and drain loops together keep the promise *)
(* of LossyFeedback.                                                       *)
Lossy == INSTANCE LossyFeedback
LossySpec == Lossy!Spec
=============================================================================
