------------------------- MODULE RemoteInputStream -------------------------
(***************************************************************************)
(* The operator's byte stream, from the UART dispatcher to the published   *)
(* commands.                                                               *)
(*                                                                         *)
(* The uart_dispatch thread cuts received bytes into chunks and puts them, *)
(* without waiting, into the message queue of the remote_input module.     *)
(* The remote_input thread drains that queue once per round of RunLoop.    *)
(* Each byte goes through two decoders: it is appended to binary_buf_ and  *)
(* TryDecodeBinaryFrames looks for DR16 and VT03 frames at the head of     *)
(* that buffer; then the same byte is treated as a character of a text     *)
(* line ("dr16 ..." or "vt03 ...").  The last input that was accepted is   *)
(* latched, and the round ends by publishing the commands composed from    *)
(* it.                                                                     *)
(*                                                                         *)
(* Bytes are members of an abstract set; which frames and which lines are  *)
(* valid, and the input each one carries, are the functions DrDecode,      *)
(* VtDecode, CuDecode and LineDecode: a window of bytes is valid iff it is *)
(* in the domain.  The frame lengths are parameters, so that the theorems  *)
(* hold of the code's 18, 21 and 39 and TLC can use smaller ones.  Message *)
(* sequence numbers are left out: no consumer reads them.                  *)
(***************************************************************************)
EXTENDS Integers, Sequences

CONSTANTS
  Byte,         \* the byte values
  LF,           \* line feed
  Printable,    \* the bytes isprint() accepts: carriage return is not one
  Head1, Head2, \* 0xa9 0x53, the header of a VT03 remote frame
  HeadCu,       \* 0xa5, the header of a VT03 custom-controller frame
  DrLen,        \* dr16::kFrameLength
  VtLen,        \* vt03::kRemoteFrameLength
  CuLen,        \* vt03::kCustomFrameLength
  BinCap,       \* kBinaryBufSize
  LineCap,      \* kLineBufSize
  QueueDepth,   \* kQueueDepth, in chunks
  ChunkMax,     \* the most bytes uart_dispatch puts in one chunk
  Input,        \* what an operator can ask for
  DrDecode, VtDecode, CuDecode, LineDecode,
  NoInput

\* DecodeRemoteFrame rejects nothing that is long enough and has the header;
\* the other decoders check the contents as well.
ASSUME StreamAssumption ==
  /\ {LF, Head1, Head2, HeadCu} \subseteq Byte
  /\ Printable \subseteq Byte \ {LF}
  /\ DrLen \in Nat /\ VtLen \in Nat /\ CuLen \in Nat /\ BinCap \in Nat /\ LineCap \in Nat
  /\ 1 < DrLen /\ DrLen < VtLen /\ VtLen < CuLen /\ CuLen <= BinCap
  /\ 1 < LineCap
  /\ QueueDepth \in Nat \ {0} /\ ChunkMax \in Nat \ {0}
  /\ \A s \in DOMAIN DrDecode : DrDecode[s] \in Input
  /\ \A s \in DOMAIN VtDecode : VtDecode[s] \in Input
  /\ \A s \in DOMAIN CuDecode : CuDecode[s] \in Input
  /\ \A s \in DOMAIN LineDecode : LineDecode[s] \in Input

\* The ways an input is accepted: three binary frame formats and a text line.
Via == {"dr16", "vt03_remote", "vt03_custom", "line"}
Accepted == [via : Via, input : Input]

ASSUME NoInputAssumption == NoInput \notin Accepted

VARIABLES
  queue,     \* the UART chunks waiting for remote_input
  pc,        \* where the remote_input thread is
  chunk,     \* the bytes of the dequeued chunk that are still to be handled
  bin,       \* binary_buf_[0 .. binary_len_ - 1]
  line,      \* line_buf_[0 .. line_pos_ - 1]
  latest,    \* latest_input_, or NoInput while latest_input_valid_ is false
  published  \* the input the last commands were composed from

vars == <<queue, pc, chunk, bin, line, latest, published>>

Chunk == UNION {[1 .. n -> Byte] : n \in 1 .. ChunkMax}

Init ==
  /\ queue = <<>>
  /\ pc = "drain"
  /\ chunk = <<>>
  /\ bin = <<>>
  /\ line = <<>>
  /\ latest = NoInput
  /\ published = NoInput

-----------------------------------------------------------------------------
(* The uart_dispatch thread.                                               *)

\* RouteUartBytesToModuleQueues: k_msgq_put with K_NO_WAIT; when the queue is
\* full the new chunk is lost.
Route(c) ==
  /\ queue' = IF Len(queue) < QueueDepth THEN Append(queue, c) ELSE queue
  /\ UNCHANGED <<pc, chunk, bin, line, latest, published>>

-----------------------------------------------------------------------------
(* The remote_input thread.                                                *)

\* DequeueForRemoteInput succeeds: handle the bytes of the chunk.
Dequeue ==
  /\ pc = "drain" /\ queue # <<>>
  /\ chunk' = Head(queue)
  /\ queue' = Tail(queue)
  /\ pc' = "byte"
  /\ UNCHANGED <<bin, line, latest, published>>

\* A mutation of Publish: an input is published once and then forgotten.
PublishOnce ==
  /\ pc = "drain" /\ queue = <<>>
  /\ published' = latest
  /\ latest' = NoInput
  /\ pc' = "sleep"
  /\ UNCHANGED <<queue, chunk, bin, line>>

\* The queue is empty: the round publishes the commands composed from the
\* latched input (all-zero commands while there is none) and sleeps.
\* The commands of a round are composed from the latched input.  That each of
\* the four publications may fail is in CommandPath.
Publish ==
  /\ pc = "drain" /\ queue = <<>>
  /\ published' = latest
  /\ pc' = "sleep"
  /\ UNCHANGED <<queue, chunk, bin, line, latest>>

Wake ==
  /\ pc = "sleep"
  /\ pc' = "drain"
  /\ UNCHANGED <<queue, chunk, bin, line, latest, published>>

\* A byte enters binary_buf_; a full buffer drops its oldest byte.
PushByte(b, byte) ==
  IF Len(b) < BinCap THEN Append(b, byte) ELSE Append(Tail(b), byte)

AppendByte ==
  /\ pc = "byte" /\ chunk # <<>>
  /\ bin' = PushByte(bin, Head(chunk))
  /\ pc' = "decode"
  /\ UNCHANGED <<queue, chunk, line, latest, published>>

ChunkDone ==
  /\ pc = "byte" /\ chunk = <<>>
  /\ pc' = "drain"
  /\ UNCHANGED <<queue, chunk, bin, line, latest, published>>

\* One iteration of TryDecodeBinaryFrames: how many bytes it consumes, and
\* the input it accepts.  It consumes nothing when the loop ends.
Found(n, via, input) == [take |-> n, got |-> [via |-> via, input |-> input]]
Skip(n) == [take |-> n, got |-> NoInput]

Decoded(b) ==
  LET first(n) == SubSeq(b, 1, n)
  IN  IF Len(b) >= VtLen /\ b[1] = Head1 /\ b[2] = Head2
      THEN IF first(VtLen) \in DOMAIN VtDecode
           THEN Found(VtLen, "vt03_remote", VtDecode[first(VtLen)])
           ELSE Skip(1)
      ELSE IF Len(b) >= CuLen /\ b[1] = HeadCu /\ first(CuLen) \in DOMAIN CuDecode
      THEN Found(CuLen, "vt03_custom", CuDecode[first(CuLen)])
      ELSE IF Len(b) < DrLen
      THEN Skip(0)
      ELSE IF first(DrLen) \in DOMAIN DrDecode
      THEN Found(DrLen, "dr16", DrDecode[first(DrLen)])
      ELSE Skip(1)

\* A mutation of ConsumeBinary: one byte of the frame stays in the buffer.
ConsumeTooFew(b, n) == IF n >= Len(b) THEN <<>> ELSE SubSeq(b, n, Len(b))

ConsumeBinary(b, n) == IF n >= Len(b) THEN <<>> ELSE SubSeq(b, n + 1, Len(b))

\* A mutation of Latch: a new input does not replace the latched one.
LatchFirst(got) == IF got = NoInput \/ latest # NoInput THEN latest ELSE got

Latch(got) == IF got = NoInput THEN latest ELSE got

DecodeStep ==
  /\ pc = "decode"
  /\ LET d == Decoded(bin)
     IN  /\ d.take > 0
         /\ bin' = ConsumeBinary(bin, d.take)
         /\ latest' = Latch(d.got)
  /\ UNCHANGED <<queue, pc, chunk, line, published>>

DecodeDone ==
  /\ pc = "decode"
  /\ Decoded(bin).take = 0
  /\ pc' = "text"
  /\ UNCHANGED <<queue, chunk, bin, line, latest, published>>

\* A mutation of NextLine: the line is not reset after it has been parsed.
NextLineKeeps(l, byte) ==
  CASE byte \notin Printable -> l
    [] byte \in Printable /\ Len(l) < LineCap - 1 -> Append(l, byte)
    [] OTHER -> <<>>

\* The text decoder's view of the same byte.  A line feed ends the line,
\* unprintable bytes (a carriage return too) are skipped, and a line that
\* outgrows line_buf_ is forgotten, the byte that did not fit included.
NextLine(l, byte) ==
  CASE byte = LF -> <<>>
    [] byte # LF /\ byte \notin Printable -> l
    [] byte \in Printable /\ Len(l) < LineCap - 1 -> Append(l, byte)
    [] OTHER -> <<>>

LineInput(l, byte) ==
  IF byte = LF /\ l # <<>> /\ l \in DOMAIN LineDecode
  THEN [via |-> "line", input |-> LineDecode[l]]
  ELSE NoInput

TextStep ==
  /\ pc = "text"
  /\ line' = NextLine(line, Head(chunk))
  /\ latest' = Latch(LineInput(line, Head(chunk)))
  /\ chunk' = Tail(chunk)
  /\ pc' = "byte"
  /\ UNCHANGED <<queue, bin, published>>

-----------------------------------------------------------------------------
ThreadStep ==
  \/ Dequeue \/ Publish \/ Wake \/ AppendByte \/ ChunkDone
  \/ DecodeStep \/ DecodeDone \/ TextStep

Next == ThreadStep \/ \E c \in Chunk : Route(c)

Spec == Init /\ [][Next]_vars

-----------------------------------------------------------------------------
PC == {"drain", "byte", "decode", "text", "sleep"}

(* The types of the variables, and the capacities of the two buffers and   *)
(* of the queue.                                                           *)
TypeOK ==
  /\ queue \in Seq(Chunk) /\ Len(queue) <= QueueDepth
  /\ pc \in PC
  /\ chunk \in Seq(Byte) /\ (pc \in {"decode", "text"} => chunk # <<>>)
  /\ bin \in Seq(Byte) /\ Len(bin) <= BinCap
  /\ line \in Seq(Printable) /\ Len(line) < LineCap
  /\ latest \in Accepted \cup {NoInput}
  /\ published \in Accepted \cup {NoInput}

(* Every byte is decoded as soon as it arrives and the decoder discards    *)
(* until less than a DR16 frame is left, so binary_buf_ never holds more   *)
(* than one DR16 frame while it is scanned and always less between bytes:  *)
(* the 256-byte buffer and its overflow branch are never used.             *)
BinaryBacklog ==
  IF pc = "decode" THEN Len(bin) <= DrLen ELSE Len(bin) < DrLen

(* The consequence for the operator: the two VT03 binary formats are       *)
(* longer than a DR16 frame, so no input is ever accepted from them, and   *)
(* none is published.                                                      *)
OnlyDr16AndLines ==
  /\ latest # NoInput => latest.via \in {"dr16", "line"}
  /\ published # NoInput => published.via \in {"dr16", "line"}

(* The module keeps InputSource's promise, with only two of the four       *)
(* routes.                                                                 *)
Source == INSTANCE InputSource
            WITH OperatorInput <- [via : {"dr16", "line"}, input : Input]
SourceSpec == Source!Spec
=============================================================================
