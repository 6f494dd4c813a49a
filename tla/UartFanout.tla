----------------------------- MODULE UartFanout -----------------------------
(***************************************************************************)
(* The bytes of the dispatch UART, from the receiver to the queues of the  *)
(* three threads that read them.                                           *)
(*                                                                         *)
(* The receive callback runs in interrupt context, cuts what it gets into  *)
(* chunks and puts them into g_uart_rx_msgq; the uart_dispatch thread puts *)
(* a copy of each into the queue of remote_input, of the referee module    *)
(* and of the MAVLink receiver, one after the other, and may be preempted  *)
(* in between.  No put waits: when a queue is full the new chunk is lost   *)
(* to that reader.  Without the asynchronous API the thread polls a        *)
(* receiver that holds one byte: that is RxDepth = 1.                      *)
(*                                                                         *)
(* A chunk is its number on the line; what a reader makes of the bytes is  *)
(* in RemoteInputStream, RefereeStream and MavlinkMode.                    *)
(***************************************************************************)
EXTENDS Integers, Sequences

CONSTANTS
  RxDepth,     \* the depth of g_uart_rx_msgq, or the receiver's one byte
  QueueDepth,  \* kQueueDepth of the three queues
  MaxBurst,    \* bound: the chunks of one receive callback
  MaxChunks    \* bound: the chunks of a behaviour

ASSUME FanoutAssumption ==
  /\ RxDepth \in Nat \ {0} /\ QueueDepth \in Nat \ {0}
  /\ MaxBurst \in Nat \ {0} /\ MaxChunks \in Nat

Consumer == {"remote_input", "referee", "mavlink"}

VARIABLES
  receiving,  \* the receiver is enabled
  count,      \* the chunks that have arrived
  rx,         \* g_uart_rx_msgq
  hand,       \* the chunk being routed and the readers it still goes to
  queue,      \* the readers' queues
  seen        \* the last chunk each reader has taken out of its queue

line == <<receiving, count, rx>>
fanout == <<line, hand, queue, seen>>

None == [chunk |-> 0, to |-> <<>>]
Order == <<"remote_input", "referee", "mavlink">>

\* uart_dispatch::Initialize.  The UART stays closed when it is the console's.
FanoutInit ==
  /\ receiving \in BOOLEAN
  /\ count = 0
  /\ rx = <<>>
  /\ hand = None
  /\ queue = [c \in Consumer |-> <<>>]
  /\ seen = [c \in Consumer |-> 0]

-----------------------------------------------------------------------------
Smaller(a, b) == IF a < b THEN a ELSE b

\* UartRxCallback, UART_RX_RDY: k chunks, those that do not fit are lost.
Arrive ==
  /\ receiving
  /\ \E k \in 1 .. Smaller(MaxBurst, MaxChunks - count) :
       /\ count' = count + k
       /\ rx' = rx \o [i \in 1 .. Smaller(k, RxDepth - Len(rx)) |-> count + i]
  /\ UNCHANGED <<receiving, hand, queue, seen>>

\* UART_RX_DISABLED: the driver gave up, and enabling it again may fail.
ReceiverStops ==
  /\ receiving
  /\ receiving' \in BOOLEAN
  /\ UNCHANGED <<count, rx, hand, queue, seen>>

\* UartDispatchThreadMain takes the next chunk.
Take ==
  /\ hand = None /\ rx # <<>>
  /\ hand' = [chunk |-> Head(rx), to |-> Order]
  /\ rx' = Tail(rx)
  /\ UNCHANGED <<receiving, count, queue, seen>>

\* A mutation of Put: the chunk is put in front of those that wait.
PutInFront(c) ==
  queue' = IF Len(queue[c]) < QueueDepth
           THEN [queue EXCEPT ![c] = <<hand.chunk>> \o @] ELSE queue

\* A mutation of Put: a full queue makes the dispatcher wait.
PutWaits(c) ==
  /\ Len(queue[c]) < QueueDepth
  /\ queue' = [queue EXCEPT ![c] = Append(@, hand.chunk)]

\* k_msgq_put with K_NO_WAIT.
Put(c) ==
  queue' = IF Len(queue[c]) < QueueDepth
           THEN [queue EXCEPT ![c] = Append(@, hand.chunk)] ELSE queue

\* RouteUartBytesToModuleQueues: the next of its three calls.
Route ==
  /\ hand # None
  /\ Put(Head(hand.to))
  /\ hand' = IF Len(hand.to) = 1 THEN None ELSE [hand EXCEPT !.to = Tail(@)]
  /\ UNCHANGED <<line, seen>>

Dispatch == Take \/ Route

\* DequeueFor...: a reader takes its oldest chunk.
Dequeue(c) ==
  /\ queue[c] # <<>>
  /\ seen' = [seen EXCEPT ![c] = Head(queue[c])]
  /\ queue' = [queue EXCEPT ![c] = Tail(@)]
  /\ UNCHANGED <<line, hand>>

-----------------------------------------------------------------------------
FanoutTypeOK ==
  /\ receiving \in BOOLEAN
  /\ count \in 0 .. MaxChunks
  /\ rx \in Seq(1 .. MaxChunks) /\ Len(rx) <= RxDepth
  /\ hand = None \/ /\ hand.chunk \in 1 .. MaxChunks
                    /\ hand.to \in {<<"remote_input", "referee", "mavlink">>,
                                    <<"referee", "mavlink">>, <<"mavlink">>}
  /\ queue \in [Consumer -> Seq(1 .. MaxChunks)]
  /\ \A c \in Consumer : Len(queue[c]) <= QueueDepth
  /\ seen \in [Consumer -> 0 .. MaxChunks]
=============================================================================
