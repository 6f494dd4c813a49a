---------------------------- MODULE MavlinkMode ----------------------------
(***************************************************************************)
(* The MAVLink mode: a shell command switches it on and off while one      *)
(* thread sends heartbeats and another parses the third copy of the UART   *)
(* line that UartFanout queues, whether or not the mode is on.             *)
(*                                                                         *)
(* The two threads are of higher priority than the shell: a command runs   *)
(* while both sleep, and either may wake up between any two of its         *)
(* statements.  The parser is a library: a chunk completes some messages,  *)
(* and the library's own state survives the command (clearing              *)
(* g_mavlink_parse_status clears the copy it hands out).                   *)
(***************************************************************************)
EXTENDS UartFanout

CONSTANTS
  Wrap,        \* the counters are unsigned: 2^32
  MaxMessages  \* bound: the messages one chunk may complete

ASSUME ModeAssumption == Wrap \in Nat \ {0} /\ MaxMessages \in Nat

VARIABLES
  enabled,  \* g_mavlink_enabled
  shell,    \* the statement of CmdMavlinkOn the shell is at, 0 at its prompt
  tx,       \* where the sending thread is; "none" before it is created
  rxer,     \* where the receiving thread is
  tally,    \* g_rx_msg_count and g_tx_msg_count
  session   \* history: the messages received and sent since the last "on"

mode == <<enabled, shell, tx, rxer, tally, session>>
vars == <<fanout, mode>>

Init ==
  /\ FanoutInit
  /\ enabled = FALSE
  /\ shell = 0
  /\ tx = "none" /\ rxer = "none"
  /\ tally = [rx |-> 0, tx |-> 0]
  /\ session = [rx |-> 0, tx |-> 0]

\* Neither thread is ready to run: the shell may.
ThreadsRest == tx \in {"none", "sleep"} /\ rxer \in {"none", "sleep"}

Counted(t, dir, k) == [t EXCEPT ![dir] = (@ + k) % Wrap]

-----------------------------------------------------------------------------
(* The shell.                                                              *)

\* A mutation of OnSteps: the flag is set before the counters are cleared.
OnStepsEnableFirst == <<"enable", "clear_rx", "clear_tx", "start_tx", "start_rx">>

\* The statements of CmdMavlinkOn that change state.
OnSteps == <<"clear_rx", "clear_tx", "enable", "start_tx", "start_rx">>

CmdMavlinkOn ==
  /\ shell = 0 /\ ThreadsRest /\ ~enabled
  /\ shell' = 1
  /\ UNCHANGED <<fanout, enabled, tx, rxer, tally, session>>

\* A thread that is created is ready at once and preempts the shell.
OnStep ==
  /\ shell # 0 /\ ThreadsRest
  /\ LET s == OnSteps[shell] IN
       /\ tally' = CASE s = "clear_rx" -> [tally EXCEPT !.rx = 0]
                     [] s = "clear_tx" -> [tally EXCEPT !.tx = 0]
                     [] OTHER -> tally
       /\ enabled' = (enabled \/ s = "enable")
       /\ session' = IF s = "enable" THEN [rx |-> 0, tx |-> 0] ELSE session
       /\ tx' = IF s = "start_tx" /\ tx = "none" THEN "check" ELSE tx
       /\ rxer' = IF s = "start_rx" /\ rxer = "none" THEN "check" ELSE rxer
  /\ shell' = (shell + 1) % (Len(OnSteps) + 1)
  /\ UNCHANGED fanout

\* A mutation of CmdMavlinkOff: a shell that preempts the two threads.
CmdMavlinkOffPreempts ==
  /\ shell = 0 /\ enabled
  /\ enabled' = FALSE
  /\ UNCHANGED <<fanout, shell, tx, rxer, tally, session>>

CmdMavlinkOff ==
  /\ shell = 0 /\ ThreadsRest /\ enabled
  /\ enabled' = FALSE
  /\ UNCHANGED <<fanout, shell, tx, rxer, tally, session>>

-----------------------------------------------------------------------------
(* The sending thread: a heartbeat and the time, once a second.            *)

TxMoves(from, to) ==
  /\ tx = from /\ tx' = to
  /\ UNCHANGED <<fanout, enabled, shell, rxer>>

TxWakes == TxMoves("sleep", "check") /\ UNCHANGED <<tally, session>>

TxChecks ==
  /\ TxMoves("check", IF enabled THEN "heartbeat" ELSE "sleep")
  /\ UNCHANGED <<tally, session>>

\* SendMavlinkMessage tests the flag; then it writes and counts.
TxTests(message, written, next) ==
  /\ TxMoves(message, IF enabled THEN written ELSE next)
  /\ UNCHANGED <<tally, session>>

TxWrites(written, next) ==
  /\ TxMoves(written, next)
  /\ tally' = Counted(tally, "tx", 1)
  /\ session' = Counted(session, "tx", 1)

TxThread ==
  \/ TxWakes
  \/ TxChecks
  \/ TxTests("heartbeat", "heartbeat_out", "time")
  \/ TxWrites("heartbeat_out", "time")
  \/ TxTests("time", "time_out", "sleep")
  \/ TxWrites("time_out", "sleep")

-----------------------------------------------------------------------------
(* The receiving thread.                                                   *)

RxWakes ==
  /\ rxer = "sleep" /\ rxer' = "check"
  /\ UNCHANGED <<fanout, enabled, shell, tx, tally, session>>

RxChecks ==
  /\ rxer = "check" /\ rxer' = IF enabled THEN "dequeue" ELSE "sleep"
  /\ UNCHANGED <<fanout, enabled, shell, tx, tally, session>>

RxDequeues ==
  /\ rxer = "dequeue"
  /\ \/ Dequeue("mavlink") /\ rxer' = "parse"
     \/ queue["mavlink"] = <<>> /\ rxer' = "sleep" /\ UNCHANGED fanout
  /\ UNCHANGED <<enabled, shell, tx, tally, session>>

RxParses ==
  /\ rxer = "parse" /\ rxer' = "check"
  /\ \E k \in 0 .. MaxMessages :
       /\ tally' = Counted(tally, "rx", k)
       /\ session' = Counted(session, "rx", k)
  /\ UNCHANGED <<fanout, enabled, shell, tx>>

RxThread == RxWakes \/ RxChecks \/ RxDequeues \/ RxParses

-----------------------------------------------------------------------------
Reads(c) == Dequeue(c) /\ UNCHANGED mode

Next ==
  \/ (Arrive \/ ReceiverStops) /\ UNCHANGED mode
  \/ Dispatch /\ UNCHANGED mode
  \/ Reads("remote_input") \/ Reads("referee")
  \/ CmdMavlinkOn \/ OnStep \/ CmdMavlinkOff
  \/ TxThread
  \/ RxThread

Spec == Init /\ [][Next]_vars

\* Every thread but the shell's runs again and again: each of them sleeps in
\* every round or waits for its queue.  The shell runs when they let it.
FairSpec ==
  /\ Spec
  /\ WF_vars(Dispatch /\ UNCHANGED mode)
  /\ WF_vars(Reads("remote_input")) /\ WF_vars(Reads("referee"))
  /\ WF_vars(TxThread) /\ WF_vars(RxThread)

-----------------------------------------------------------------------------
Threads == {"none", "sleep", "check"}
Tally == [rx : 0 .. Wrap - 1, tx : 0 .. Wrap - 1]

TypeOK ==
  /\ FanoutTypeOK
  /\ enabled \in BOOLEAN
  /\ shell \in 0 .. Len(OnSteps)
  /\ tx \in Threads \cup {"heartbeat", "heartbeat_out", "time", "time_out"}
  /\ rxer \in Threads \cup {"dequeue", "parse"}
  /\ tally \in Tally /\ session \in Tally

(* "mavlink status" reports the messages since the mode was switched on:   *)
(* none of this session is missing and none of an earlier one is left,     *)
(* although the threads wake up in the middle of the command.              *)
CountsTheSession == enabled => tally = session

(* Once "mavlink off" has cleared the flag nothing more is sent, received  *)
(* or taken out of the queue, although no thread tests the flag where it   *)
(* writes: the command cannot come between a thread's test and its work.   *)
QuietWhenOff ==
  [][ session' # session \/ seen'["mavlink"] # seen["mavlink"] => enabled \/ enabled' ]_vars

(* Each reader of the line gets its chunks in order, none of them twice.   *)
Line == INSTANCE LossyLine
LineSpec == Line!Spec

(* A reader that does not read harms no other: once the line is quiet, the *)
(* queues of remote_input and of the referee run empty with MAVLink off,   *)
(* and the MAVLink queue does once the mode is on for good.                *)
QueuesDrain ==
  <>[][FALSE]_count =>
    /\ <>[](rx = <<>> /\ hand = None)
    /\ <>[](queue["remote_input"] = <<>> /\ queue["referee"] = <<>>)
    /\ <>[](enabled /\ shell = 0) => <>[](queue["mavlink"] = <<>>)
=============================================================================
