----------------------------- MODULE UsbSession -----------------------------
(***************************************************************************)
(* The USB session: a CDC ACM device whose callbacks run in interrupt      *)
(* context, between any two statements of Send, and share with it the      *)
(* flag g_tx_busy and the buffer g_tx_buffer, without a lock.              *)
(*                                                                         *)
(* Send copies a message, claims the flag and starts a transfer; the host  *)
(* takes it packet by packet, a packet shorter than the endpoint's size    *)
(* ends the message, and a message that has no such packet is followed by  *)
(* an empty one.  A bus reset or a disconnection ends every transfer.      *)
(* Reception alternates between two buffers and fills g_usb_rx_msgq.       *)
(*                                                                         *)
(* The module's header promises nothing about several callers: Send and    *)
(* Receive have one each here.  The USB stack, the controller and the host *)
(* are external; a bus is configured only after a reset.                   *)
(***************************************************************************)
EXTENDS Integers, Sequences

CONSTANTS
  BufferSize,  \* kCdcBufferSize
  Mps,         \* usbd_get_ep_mps
  kRxQueueDepth,
  Length,      \* bound: the lengths the caller asks for
  MaxSends,    \* bound: the calls of Send
  MaxPackets   \* bound: the packets from the host

ASSUME SessionAssumption ==
  /\ BufferSize \in Nat \ {0} /\ Mps \in Nat \ {0} /\ kRxQueueDepth \in Nat \ {0}
  /\ Length \subseteq Nat
  /\ MaxSends \in Nat /\ MaxPackets \in Nat

VARIABLES
  started,     \* "no"; "events" once callbacks may come; "yes": g_started
  bus,         \* external: "gone", "reset" or "configured"
  busy,        \* g_tx_busy
  txBuffer,    \* the message in g_tx_buffer
  pc, mess,    \* the statement of Send the caller is at, and its message
  tries,       \* the calls of Send so far
  accepted,    \* history: the last message whose transfer was started
  transfer,    \* external: the transfer to the host, or NoTransfer
  partial,     \* external: what the host has of a message that has not ended
  arrived,     \* external: the last message the host has got, and its transfer
  raced,       \* history: the last reset came between claim and start
  stuck,       \* history: the empty packet of a message could not be started
  readIndex,   \* g_read_index
  readBuffer,  \* the packet in each half of g_read_buffer
  armed,       \* external: the half that is being received into, or Unarmed
  inbox,       \* g_usb_rx_msgq
  packets,     \* history: the packets from the host, which are numbered
  received     \* history: the last one received

sending == <<busy, txBuffer, pc, mess, tries, accepted, transfer, partial, arrived, raced, stuck>>
reception == <<readIndex, readBuffer, armed, inbox, packets, received>>
sessionVars == <<started, bus, sending, reception>>

NoTransfer == [n |-> 0, len |-> 0]
Nothing == [n |-> 0, of |-> {}, bytes |-> 0]
Unarmed == -1

SessionInit ==
  /\ started = "no" /\ bus = "gone"
  /\ busy = FALSE /\ txBuffer = NoTransfer
  /\ pc = "idle" /\ mess = NoTransfer /\ tries = 0 /\ accepted = 0
  /\ transfer = NoTransfer /\ partial = Nothing /\ arrived = Nothing
  /\ raced = FALSE /\ stuck = FALSE
  /\ readIndex = 0 /\ readBuffer = [i \in 0 .. 1 |-> 0] /\ armed = Unarmed
  /\ inbox = <<>> /\ packets = 0 /\ received = 0

-----------------------------------------------------------------------------
\* Initialize: callbacks may come before g_started is set.  A failure of
\* usbd_initialize leaves everything as it was.
UsbdInitialize ==
  /\ started = "no" /\ started' = "events"
  /\ UNCHANGED <<bus, sending, reception>>

Initialized ==
  /\ started = "events" /\ started' = "yes"
  /\ UNCHANGED <<bus, sending, reception>>

\* g_configured follows the bus.
IsConfigured == started = "yes" /\ bus = "configured"

-----------------------------------------------------------------------------
(* Events of the bus.                                                      *)

\* usbd_ep_start_read, whose result is ignored.
StartRead(i) == armed' \in {i, Unarmed}

\* USBD_EVENT_CONFIGURED.
Configured ==
  /\ bus = "reset" /\ bus' = "configured"
  /\ readIndex' = 0
  /\ StartRead(0)
  /\ UNCHANGED <<started, sending, readBuffer, inbox, packets, received>>

\* USBD_EVENT_RESET, USBD_EVENT_DISCONNECTED: the transfers are gone.
ResetOrDisconnected ==
  /\ started # "no"
  /\ bus' \in {"reset", "gone"}
  /\ busy' = FALSE
  /\ transfer' = NoTransfer /\ partial' = Nothing /\ armed' = Unarmed
  /\ raced' = (pc = "claimed") /\ stuck' = FALSE
  /\ UNCHANGED <<started, txBuffer, pc, mess, tries, accepted, arrived,
                 readIndex, readBuffer, inbox, packets, received>>

-----------------------------------------------------------------------------
(* Send, statement by statement.                                           *)

SendMoves(from, to) ==
  /\ pc = from /\ pc' = to
  /\ UNCHANGED <<started, bus, partial, arrived, raced, stuck, reception>>

\* The arguments and IsConfigured; otherwise Send returns.
SendCalled ==
  /\ tries < MaxSends
  /\ IsConfigured
  /\ SendMoves("idle", "called")
  /\ tries' = tries + 1
  /\ \E l \in Length : l \in 1 .. BufferSize /\ mess' = [n |-> tries', len |-> l]
  /\ UNCHANGED <<busy, txBuffer, accepted, transfer>>

\* A mutation of SendTests: a transfer under way is not respected.
SendTestsNothing ==
  /\ SendMoves("called", "free")
  /\ UNCHANGED <<busy, txBuffer, mess, tries, accepted, transfer>>

\* -EBUSY while a transfer is under way.
SendTests ==
  /\ SendMoves("called", IF busy THEN "idle" ELSE "free")
  /\ UNCHANGED <<busy, txBuffer, mess, tries, accepted, transfer>>

SendCopies ==
  /\ SendMoves("free", "copied")
  /\ txBuffer' = mess
  /\ UNCHANGED <<busy, mess, tries, accepted, transfer>>

SendClaims ==
  /\ SendMoves("copied", "claimed")
  /\ busy' = TRUE
  /\ UNCHANGED <<txBuffer, mess, tries, accepted, transfer>>

\* usbd_ep_start_write starts a transfer on a configured bus.  On a bus that
\* is gone it may claim to have done so.
SendStarts ==
  /\ bus = "configured" /\ SendMoves("claimed", "idle")
  /\ transfer' = mess
  /\ accepted' = mess.n
  /\ UNCHANGED <<busy, txBuffer, mess, tries>>

SendIsSwallowed ==
  /\ bus = "gone" /\ SendMoves("claimed", "idle")
  /\ UNCHANGED <<busy, txBuffer, mess, tries, accepted, transfer>>

SendFails ==
  /\ SendMoves("claimed", "failed")
  /\ UNCHANGED <<busy, txBuffer, mess, tries, accepted, transfer>>

SendReleases ==
  /\ SendMoves("failed", "idle")
  /\ busy' = FALSE
  /\ UNCHANGED <<txBuffer, mess, tries, accepted, transfer>>

Send ==
  \/ SendTests \/ SendCopies \/ SendClaims
  \/ SendStarts \/ SendIsSwallowed \/ SendFails \/ SendReleases

-----------------------------------------------------------------------------
(* The host takes a packet.                                                *)

Lesser(a, b) == IF a < b THEN a ELSE b

\* A mutation of UsbBulkInCallback: the completion of the empty packet does
\* not end the claim.
UsbBulkInCallbackKeepsClaim(nbytes) ==
  /\ transfer' \in IF nbytes > 0 /\ nbytes % Mps = 0
                   THEN {[n |-> transfer.n, len |-> 0], NoTransfer} ELSE {NoTransfer}
  /\ stuck' = (nbytes > 0 /\ nbytes % Mps = 0 /\ transfer' = NoTransfer)
  /\ busy' = (nbytes % Mps = 0)

\* A transfer of nbytes is complete.  Starting the empty packet may fail.
UsbBulkInCallback(nbytes) ==
  IF nbytes > 0 /\ nbytes % Mps = 0
  THEN /\ transfer' \in {[n |-> transfer.n, len |-> 0], NoTransfer}
       /\ stuck' = (transfer' = NoTransfer)
       /\ UNCHANGED busy
  ELSE busy' = FALSE /\ transfer' = NoTransfer /\ UNCHANGED stuck

\* The packet holds what g_tx_buffer holds by then.  The bytes that are left
\* are those of the message that have not been counted in partial.
HostTakes ==
  /\ bus = "configured" /\ transfer # NoTransfer
  /\ LET k == IF transfer.len = 0 THEN 0 ELSE Lesser(transfer.len - partial.bytes, Mps)
         taken == [n |-> transfer.n, bytes |-> partial.bytes + k,
                   of |-> partial.of \cup IF k = 0 THEN {} ELSE {txBuffer}]
     IN  /\ IF k < Mps THEN arrived' = taken /\ partial' = Nothing
                       ELSE partial' = taken /\ UNCHANGED arrived
         /\ IF transfer.len = 0 \/ taken.bytes >= transfer.len
            THEN UsbBulkInCallback(transfer.len)
            ELSE UNCHANGED <<busy, transfer, stuck>>
  /\ UNCHANGED <<started, bus, txBuffer, pc, mess, tries, accepted, raced, reception>>

-----------------------------------------------------------------------------
(* Reception.                                                              *)

\* A mutation of Copied: the half that is received into next.
CopiedFromNext == 1 - readIndex

\* The half of g_read_buffer that UsbBulkOutCallback copies.
Copied == readIndex

\* The host sends a packet, perhaps an empty one, and UsbBulkOutCallback
\* copies it; the queue may be full.
UsbBulkOutCallback ==
  /\ bus = "configured" /\ armed # Unarmed
  /\ \E k \in 0 .. Lesser(1, MaxPackets - packets) :
       /\ packets' = packets + k
       /\ readBuffer' = IF k = 1 THEN [readBuffer EXCEPT ![armed] = packets'] ELSE readBuffer
       /\ inbox' = IF k = 1 /\ Len(inbox) < kRxQueueDepth
                   THEN Append(inbox, readBuffer'[Copied]) ELSE inbox
  /\ readIndex' = 1 - readIndex
  /\ StartRead(readIndex')
  /\ UNCHANGED <<started, bus, sending, received>>

\* Receive: what does not fit into the caller's buffer is lost with -EMSGSIZE.
Receive ==
  /\ inbox # <<>>
  /\ received' = Head(inbox)
  /\ inbox' = Tail(inbox)
  /\ UNCHANGED <<started, bus, sending, readIndex, readBuffer, armed, packets>>

-----------------------------------------------------------------------------
SessionNext ==
  \/ UsbdInitialize \/ Initialized
  \/ Configured \/ ResetOrDisconnected
  \/ SendCalled \/ Send
  \/ HostTakes
  \/ UsbBulkOutCallback \/ Receive

SessionSpec == SessionInit /\ [][SessionNext]_sessionVars

\* A call of Send goes on, and a host that has configured the device polls it.
FairSessionSpec == SessionSpec /\ WF_sessionVars(Send) /\ WF_sessionVars(HostTakes)

-----------------------------------------------------------------------------
Message == [n : 1 .. MaxSends, len : 1 .. BufferSize]
Taken == [n : 0 .. MaxSends, of : SUBSET Message, bytes : Nat]

SessionTypeOK ==
  /\ started \in {"no", "events", "yes"} /\ bus \in {"gone", "reset", "configured"}
  /\ busy \in BOOLEAN /\ raced \in BOOLEAN /\ stuck \in BOOLEAN
  /\ txBuffer \in Message \cup {NoTransfer} /\ mess \in Message \cup {NoTransfer}
  /\ pc \in {"idle", "called", "free", "copied", "claimed", "failed"}
  /\ tries \in 0 .. MaxSends /\ accepted \in 0 .. MaxSends
  /\ transfer \in [n : 1 .. MaxSends, len : 0 .. BufferSize] \cup {NoTransfer}
  /\ partial \in Taken /\ arrived \in Taken
  /\ readIndex \in 0 .. 1 /\ readBuffer \in [0 .. 1 -> 0 .. MaxPackets]
  /\ armed \in {0, 1, Unarmed}
  /\ inbox \in Seq(1 .. MaxPackets) /\ Len(inbox) <= kRxQueueDepth
  /\ packets \in 0 .. MaxPackets /\ received \in 0 .. MaxPackets

IsMessage(t, m) == t.n = m.n /\ t.of = {m} /\ t.bytes = m.len

(* What the host gets are messages that Send has accepted, each of them    *)
(* whole, not run into the next one, in the order of the calls and at most *)
(* once, through resets and failing calls.  The exception: while a reset   *)
(* has come between claim and start of the last transfer, g_tx_busy does   *)
(* not protect it.                                                         *)
HostSeesMessages ==
  [][ arrived' # arrived /\ ~raced =>
        /\ \E m \in Message : IsMessage(arrived', m)
        /\ arrived.n < arrived'.n /\ arrived'.n <= accepted ]_sessionVars

(* The session does not stay busy: a claim ends with the transfer, with    *)
(* its failure or with a reset, unless the empty packet that ends a        *)
(* message cannot be started.                                              *)
BusyEnds == busy ~> ~busy \/ stuck \/ bus # "configured"

(* A packet from the host is lost as it arrives or is received later: the *)
(* packet itself and not what the other half of the buffer holds, in the   *)
(* order of arrival and once, through resets between any two of them.      *)
Reception == INSTANCE LossyQueue WITH count <- packets, channel <- inbox, seen <- received
ReceptionSpec == Reception!Spec
=============================================================================
