------------------------- MODULE RemoteInputHistory -------------------------
(***************************************************************************)
(* RemoteInputStream with its past: the bytes the module has taken from    *)
(* its queue and the inputs it has accepted, in order.  The past lets the  *)
(* incremental decoder be compared with a definition over the whole byte   *)
(* stream, in which chunks, queues and buffers do not appear.              *)
(***************************************************************************)
EXTENDS RemoteInputStream, RemoteFrames

CONSTANT MaxBytes  \* bound: the bytes that arrive at the UART in a behaviour

VARIABLES
  sent,     \* the number of bytes that arrived at the UART
  rx,       \* the bytes remote_input has handled or is handling
  accepted  \* the inputs it has latched, oldest first

hvars == <<vars, sent, rx, accepted>>

HistInit == Init /\ sent = 0 /\ rx = <<>> /\ accepted = <<>>

Arrive == \E c \in Chunk :
  /\ sent + Len(c) <= MaxBytes
  /\ Route(c)
  /\ sent' = sent + Len(c)
  /\ UNCHANGED <<rx, accepted>>

\* Two equal inputs in a row leave latest unchanged, so the log looks at what
\* the step decodes and not at whether latest changes.
Log(got) == accepted' = IF got = NoInput THEN accepted ELSE Append(accepted, got)

Recorded ==
  /\ ThreadStep
  /\ rx' = IF pc = "byte" /\ pc' = "decode" THEN Append(rx, Head(chunk)) ELSE rx
  /\ CASE pc = "decode" -> Log(Decoded(bin).got)
       [] pc = "text"   -> Log(LineInput(line, Head(chunk)))
       [] OTHER         -> UNCHANGED accepted
  /\ UNCHANGED sent

HistNext == Arrive \/ Recorded

\* The scheduler runs the remote_input thread again and again, and its sleeps
\* end.  Nothing makes an operator send bytes.
HistSpec == HistInit /\ [][HistNext]_hvars /\ WF_hvars(Recorded)

-----------------------------------------------------------------------------
(* The reference decoder: what lies in the first i bytes of a stream s.     *)
(* "from" is where the DR16 frame being collected begins, less one; "text"  *)
(* the printable bytes since the last line feed, however many; "inputs"     *)
(* the inputs found, in order.                                              *)

Nothing == [from |-> 0, text |-> <<>>, inputs |-> <<>>]

\* Every LineCap bytes of a line are forgotten together.
Kept(text) == SubSeq(text, Len(text) - (Len(text) % LineCap) + 1, Len(text))

\* A complete window is used up when it is a frame and gives up its first
\* byte when it is not.
DrFrom(s, i, from) ==
  CASE i - from < DrLen                              -> from
    [] i - from >= DrLen /\ SubSeq(s, from + 1, i) \in DOMAIN DrDecode -> i
    [] OTHER                                         -> from + 1

DrInput(s, i, from) ==
  LET window == SubSeq(s, from + 1, i)
  IN  IF i - from >= DrLen /\ window \in DOMAIN DrDecode
      THEN <<[via |-> "dr16", input |-> DrDecode[window]]>> ELSE <<>>

Text(text, byte) ==
  CASE byte = LF        -> <<>>
    [] byte \in Printable -> Append(text, byte)
    [] OTHER            -> text

TextInput(text, byte) ==
  IF byte = LF /\ Kept(text) # <<>> /\ Kept(text) \in DOMAIN LineDecode
  THEN <<[via |-> "line", input |-> LineDecode[Kept(text)]]>> ELSE <<>>

\* The byte at position i, after what the bytes before it were read as.
Read(s, i, before) ==
  [from   |-> DrFrom(s, i, before.from),
   text   |-> Text(before.text, s[i]),
   inputs |-> before.inputs \o DrInput(s, i, before.from) \o TextInput(before.text, s[i])]

Reading(s) ==
  LET reading[i \in 0 .. Len(s)] == IF i = 0 THEN Nothing ELSE Read(s, i, reading[i - 1])
  IN  reading[Len(s)]

(* Whenever the decoder is between two bytes, the inputs it has accepted   *)
(* are exactly those the reference decoder finds in the bytes so far,      *)
(* each once and in order, however the bytes were cut into chunks.         *)
AcceptedAreTheStreamsFrames ==
  pc \in {"byte", "drain", "sleep"} => accepted = Reading(rx).inputs

(* The inner loop over binary_buf_ ends, for every content of the buffer,  *)
(* and an accepted input reaches the actuator modules, unless a newer one  *)
(* replaces it first.                                                      *)
InputsArePublished ==
  /\ pc = "decode" ~> pc = "text"
  /\ \A n \in 1 .. MaxBytes :
       Len(accepted) >= n ~> Len(accepted) > n \/ (Len(accepted) = n /\ published = accepted[n])

(* Whatever a decoder accepts, it has read in the frame what the sender    *)
(* put there: see RemoteFrames.                                            *)
FramesReadAsSent == accepted # <<>> => LayoutsAgree

(* What the documentation says of the operator's link: the input comes     *)
(* from the DR16 and the VT03.  When the very first bytes received are a   *)
(* VT03 remote frame, handling its last byte latches a VT03 input.         *)
Vt03RemoteIsAnInput ==
  (pc = "drain" /\ rx \in DOMAIN VtDecode) =>
    /\ latest # NoInput
    /\ latest.via = "vt03_remote"
=============================================================================
