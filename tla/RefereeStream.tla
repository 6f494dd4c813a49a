--------------------------- MODULE RefereeStream ---------------------------
(***************************************************************************)
(* The referee system's byte stream, from the module's UART queue to the   *)
(* published referee state.                                                *)
(*                                                                         *)
(* The uart_dispatch thread puts chunks, without waiting, into the queue   *)
(* of the referee module.  Every 20 ms the module's thread drains it.      *)
(* FeedBytes copies a whole chunk into g_stream_buf, overwriting the       *)
(* oldest bytes when it is full, and only then lets TryParseStream take    *)
(* frames from the head of the buffer.  A frame is a start byte, two       *)
(* length bytes and as many bytes as the length says plus a fixed rest; no *)
(* checksum is looked at.  What a frame reports is written into g_state,   *)
(* and the round ends by publishing a copy of g_state.                     *)
(*                                                                         *)
(* Bytes are members of an abstract set.  DataLen is the length that two   *)
(* bytes encode; Update says which part of g_state a frame sets, and to    *)
(* what: a frame outside its domain has a command that the switch does not *)
(* list or a payload that is too short for its command.  The mutex of      *)
(* g_state is left out: one thread alone parses and reads.  So are failing *)
(* publications: nothing else uses the channel.                            *)
(***************************************************************************)
EXTENDS Integers, Sequences

CONSTANTS
  Byte,        \* the byte values
  Sof,         \* kSof
  MinLen,      \* a frame without data: 9 bytes
  MaxFrame,    \* kMaxFrameSize
  DataLen,     \* ReadLe16 of the two length bytes
  Group,       \* the parts of g_state: robot status, shoot data, game status
  Data,        \* the values of a part
  Zero,        \* the value of a part before any report
  Update,      \* the part that a frame sets and its value
  QueueDepth,  \* kQueueDepth, in chunks
  ChunkMax     \* the most bytes uart_dispatch puts in one chunk

ASSUME RefereeAssumption ==
  /\ Sof \in Byte
  /\ MinLen \in Nat /\ MaxFrame \in Nat /\ 3 <= MinLen /\ MinLen <= MaxFrame
  /\ DataLen \in [Byte \X Byte -> Nat]
  /\ Zero \in Data
  /\ \A f \in DOMAIN Update : Update[f].group \in Group /\ Update[f].data \in Data
  /\ QueueDepth \in Nat \ {0} /\ ChunkMax \in Nat \ {0}

VARIABLES
  queue,     \* the UART chunks waiting for the referee module
  pc,        \* where the referee thread is
  buf,       \* g_stream_buf[0 .. g_stream_len - 1]
  state,     \* g_state
  published  \* the message in rm_test_referee_state_chan

vars == <<queue, pc, buf, state, published>>

Chunk == UNION {[1 .. n -> Byte] : n \in 1 .. ChunkMax}
State == [Group -> Data]
NoReports == [g \in Group |-> Zero]

Init ==
  /\ queue = <<>>
  /\ pc = "drain"
  /\ buf = <<>>
  /\ state = NoReports
  /\ published = NoReports

-----------------------------------------------------------------------------
(* The uart_dispatch thread.                                               *)

Route(c) ==
  /\ queue' = IF Len(queue) < QueueDepth THEN Append(queue, c) ELSE queue
  /\ UNCHANGED <<pc, buf, state, published>>

-----------------------------------------------------------------------------
(* FeedBytes and TryParseStream.                                           *)

Newest(s, n) == IF Len(s) <= n THEN s ELSE SubSeq(s, Len(s) - n + 1, Len(s))

\* The bytes are pushed one by one; each that finds the buffer full
\* overwrites the oldest one.
PushAll(b, c) == Newest(b \o c, MaxFrame)

\* DequeueForReferee succeeds and the chunk is copied.
Feed ==
  /\ pc = "drain" /\ queue # <<>>
  /\ buf' = PushAll(buf, Head(queue))
  /\ queue' = Tail(queue)
  /\ pc' = "parse"
  /\ UNCHANGED <<state, published>>

FullLen(b) == MinLen + DataLen[<<b[2], b[3]>>]

\* A mutation of HasHeader: the test for a frame that is too long is off by
\* one.
HasHeaderTooLong(b) == b[1] = Sof /\ FullLen(b) <= MaxFrame + 1

\* The buffer begins like a frame that could fit into it.
HasHeader(b) == b[1] = Sof /\ FullLen(b) <= MaxFrame

\* A mutation of ConsumeBytes: one byte of the frame stays in the buffer.
ConsumeTooFew(b, n) == IF n >= Len(b) THEN <<>> ELSE SubSeq(b, n, Len(b))

ConsumeBytes(b, n) == IF n >= Len(b) THEN <<>> ELSE SubSeq(b, n + 1, Len(b))

\* A mutation of SkipByte: the loop continues without consuming.
SkipNothing ==
  /\ pc = "parse" /\ Len(buf) >= MinLen
  /\ ~HasHeader(buf)
  /\ UNCHANGED vars

SkipByte ==
  /\ pc = "parse" /\ Len(buf) >= MinLen
  /\ ~HasHeader(buf)
  /\ buf' = ConsumeBytes(buf, 1)
  /\ UNCHANGED <<queue, pc, state, published>>

\* ParseOneFrame with the function of the command: the other parts of the
\* state stay as they are.
Parsed(s, frame) ==
  IF frame \in DOMAIN Update
  THEN [s EXCEPT ![Update[frame].group] = Update[frame].data]
  ELSE s

ParseFrame ==
  /\ pc = "parse" /\ Len(buf) >= MinLen
  /\ HasHeader(buf) /\ Len(buf) >= FullLen(buf)
  /\ state' = Parsed(state, SubSeq(buf, 1, FullLen(buf)))
  /\ buf' = ConsumeBytes(buf, FullLen(buf))
  /\ UNCHANGED <<queue, pc, published>>

\* Nothing is left, or the rest of a frame has yet to come.
ParseDone ==
  /\ pc = "parse"
  /\ Len(buf) >= MinLen => HasHeader(buf) /\ Len(buf) < FullLen(buf)
  /\ pc' = "drain"
  /\ UNCHANGED <<queue, buf, state, published>>

-----------------------------------------------------------------------------
(* The rest of the round.                                                  *)

\* A mutation of Publish: the result of GetLatestState is tested the wrong
\* way round.
PublishNever ==
  /\ pc = "drain" /\ queue = <<>>
  /\ pc' = "sleep"
  /\ UNCHANGED <<queue, buf, state, published>>

Publish ==
  /\ pc = "drain" /\ queue = <<>>
  /\ published' = state
  /\ pc' = "sleep"
  /\ UNCHANGED <<queue, buf, state>>

Wake ==
  /\ pc = "sleep"
  /\ pc' = "drain"
  /\ UNCHANGED <<queue, buf, state, published>>

ThreadStep == Feed \/ SkipByte \/ ParseFrame \/ ParseDone \/ Publish \/ Wake

Next == ThreadStep \/ \E c \in Chunk : Route(c)

Spec == Init /\ [][Next]_vars

-----------------------------------------------------------------------------
(* The types of the variables, and the capacities of the buffer and of the *)
(* queue of referee_client.cpp and uart_raw_frame_queue.cpp.               *)
TypeOK ==
  /\ queue \in Seq(Chunk) /\ Len(queue) <= QueueDepth
  /\ pc \in {"drain", "parse", "sleep"}
  /\ buf \in Seq(Byte) /\ Len(buf) <= MaxFrame
  /\ state \in State /\ published \in State

(* Between two chunks the parser of TryParseStream waits for less than the *)
(* largest frame.                                                          *)
RoomForAByte == pc # "parse" => Len(buf) < MaxFrame

(* A byte fed alone, as uart_dispatch does without the asynchronous UART   *)
(* driver, never overwrites a byte of a frame that is still incomplete:    *)
(* the overwriting branch of FeedBytes is for longer chunks.  A header     *)
(* that announces more than the buffer holds must not be waited for.       *)
SingleBytesOverwriteNothing ==
  [][\A byte \in Byte :
       pc = "drain" /\ queue # <<>> /\ Head(queue) = <<byte>> /\ pc' = "parse"
         => buf' = Append(buf, byte)]_vars
=============================================================================
