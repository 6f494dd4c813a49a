-------------------------- MODULE RefereeHistory --------------------------
(***************************************************************************)
(* RefereeStream with the bytes the parser has been given, so that the     *)
(* state it arrives at can be compared with the one that a definition over *)
(* the whole stream yields.  Where a chunk overwrites bytes that wait for  *)
(* the rest of their frame, a new stream begins with what is left.         *)
(***************************************************************************)
EXTENDS RefereeStream, FiniteSetsExt

CONSTANT MaxBytes  \* bound: the bytes that arrive at the UART in a behaviour

VARIABLES
  sent,  \* the number of bytes that arrived at the UART
  rx,    \* the bytes FeedBytes has copied since it last overwrote some
  base   \* g_state at that moment

hvars == <<vars, sent, rx, base>>

HistInit == Init /\ sent = 0 /\ rx = <<>> /\ base = NoReports

Arrive == \E c \in Chunk :
  /\ sent + Len(c) <= MaxBytes
  /\ Route(c)
  /\ sent' = sent + Len(c)
  /\ UNCHANGED <<rx, base>>

Recorded ==
  /\ ThreadStep
  /\ LET feeds == pc = "drain" /\ pc' = "parse"
         bytes == rx \o Head(queue)
         kept  == Len(buf) + Len(Head(queue)) <= MaxFrame
     IN  /\ rx' = IF feeds THEN IF kept THEN bytes ELSE Newest(bytes, MaxFrame)
                           ELSE rx
         /\ base' = IF feeds /\ ~kept THEN state ELSE base
  /\ UNCHANGED sent

HistNext == Arrive \/ Recorded

\* The scheduler runs the referee thread again and again, and its sleeps
\* end.  Nothing makes bytes arrive.
HistSpec == HistInit /\ [][HistNext]_hvars /\ WF_hvars(Recorded)

-----------------------------------------------------------------------------
(* The reference: where frames begin in a whole stream s, with no regard   *)
(* to chunks, buffer or queue.                                             *)

Size(s, p) == MinLen + DataLen[<<s[p + 1], s[p + 2]>>]

\* A header that fits the buffer stands at position p of s.
Fits(s, p) == s[p] = Sof /\ Size(s, p) <= MaxFrame

\* The shortest frame, or the whole frame, would end within s.
Readable(s, p) == p + MinLen - 1 <= Len(s)
IsFrame(s, p) == Readable(s, p) /\ Fits(s, p) /\ p + Size(s, p) - 1 <= Len(s)

Frame(s, p) == SubSeq(s, p, p + Size(s, p) - 1)

\* The position after the frame at p, or after the byte at p when no frame
\* begins there; 0 while that cannot be said or the frame is incomplete.
After(s, p) ==
  CASE IsFrame(s, p)                    -> p + Size(s, p)
    [] Readable(s, p) /\ ~Fits(s, p)    -> p + 1
    [] OTHER                            -> 0

\* The positions at which a frame may begin: the first one, and each that
\* comes after another of them.
Boundaries(s) ==
  LET upto[n \in 0 .. Len(s)] ==
        IF n = 0 THEN {1}
        ELSE LET earlier == upto[n - 1]
             IN  IF \E p \in earlier : After(s, p) = n + 1
                 THEN earlier \cup {n + 1} ELSE earlier
  IN  upto[Len(s)]

\* The frames of the stream that report on the part g.
Reports(s, g) ==
  {p \in Boundaries(s) : /\ IsFrame(s, p) /\ Frame(s, p) \in DOMAIN Update
                         /\ Update[Frame(s, p)].group = g}

\* What the last of them says, or from if there is none.
LastReport(s, g, from) ==
  IF Reports(s, g) = {} THEN from
  ELSE Update[Frame(s, Max(Reports(s, g)))].data

(* However the bytes are cut into chunks, g_state holds for each part what *)
(* the last complete frame about it says, frames being found from the      *)
(* start of the stream with no regard to chunks, buffer or queue.          *)
StateIsTheStreams ==
  pc # "parse" => state = [g \in Group |-> LastReport(rx, g, base[g])]

(* The loop of TryParseStream ends for every content of the buffer, and a  *)
(* report reaches the referee channel unless a newer one about the same    *)
(* part replaces it first.                                                 *)
ReportsArePublished ==
  /\ pc = "parse" ~> pc = "drain"
  /\ \A g \in Group : \A d \in Data :
       state[g] = d ~> published[g] = d \/ state[g] # d
=============================================================================
