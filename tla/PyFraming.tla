----------------------------- MODULE PyFraming -----------------------------
(***************************************************************************)
(* The receiving half of a Python protocol object: BufferedProtocol        *)
(* (buffered_protocol.py), CBusProtocol.handle_data (cbus_protocol.py) and *)
(* the dispatch of PCIProtocol.handle_cbus_packet (pciprotocol.py).        *)
(*                                                                         *)
(* The peer sends a fixed sequence of frames: lines of base16 digits that  *)
(* end with CR LF, confirmations of two bytes and marks of one, which end  *)
(* with nothing.  The socket delivers the stream in reads of any length.   *)
(* A handler may raise, which is the frame's own property.                 *)
(***************************************************************************)
EXTENDS Integers, Sequences, SequencesExt

CONSTANTS
  Frames,      \* how many frames the peer sends
  Size,        \* frame -> its length in bytes
  KindOf,      \* frame -> the kind of packet it decodes to
  Raises,      \* frames whose event handler raises
  Stream,      \* the peer's bytes
  Limit,       \* size_limit (MAX_BUFFER_SIZE)
  MaxRead      \* the longest read of the transport

FrameNo == 1..Frames

\* A byte of the stream is its frame and its place in it.
Byte == {b \in FrameNo \X Nat : b[2] \in 1..Size[b[1]]}
EndsFrame(b) == b[2] = Size[b[1]]

\* What the byte is: '+' or '!', the code and the status of a confirmation, or
\* the digits, the CR and the LF of a line (END_RESPONSE).
Mark == {"power_on", "error"}
IsLine(f) == KindOf[f] \notin Mark \cup {"confirmation"}
Char(b) ==
  CASE KindOf[b[1]] \in Mark                     -> "mark"
    [] KindOf[b[1]] = "confirmation"              -> IF b[2] = 1 THEN "code" ELSE "status"
    [] IsLine(b[1]) /\ b[2] < Size[b[1]] - 1      -> "hex"
    [] IsLine(b[1]) /\ b[2] = Size[b[1]] - 1      -> "cr"
    [] OTHER                                      -> "lf"

\* The frames follow one another, byte by byte.
Follows(b, c) ==
  IF EndsFrame(b) THEN c = <<b[1] + 1, 1>> ELSE c = <<b[1], b[2] + 1>>

\* A line is an even number of digits and its end; it may have no digits.
FramingAssumption ==
  /\ Frames \in Nat /\ Limit \in Nat \ {0} /\ MaxRead \in Nat \ {0}
  /\ Size \in [FrameNo -> Nat \ {0}] /\ Raises \subseteq FrameNo
  /\ \A f \in FrameNo :
       /\ KindOf[f] \in Mark => Size[f] = 1
       /\ KindOf[f] = "confirmation" => Size[f] = 2
       /\ IsLine(f) => Size[f] >= 2 /\ Size[f] % 2 = 0
  /\ Stream \in Seq(Byte) /\ (Stream # <<>> => Stream[1] = <<1, 1>>)
  /\ \A k \in 1..(Len(Stream) - 1) : Follows(Stream[k], Stream[k + 1])

VARIABLES
  pos,       \* bytes of the stream the socket has delivered
  buf,       \* _buf
  closed,    \* _closed
  events,    \* the events raised, in order: <<frame, event>>
  dropped    \* history: bytes that a cleared buffer or a refused read lost

vars == <<pos, buf, closed, events, dropped>>

-----------------------------------------------------------------------------
(* Decoding and dispatch *)

\* decode_packet consumes the first i bytes of b: a mark at the head, a code at
\* the head and the byte behind it, or else all up to the first CR LF.
Complete(b, i) ==
  \/ i = 1 /\ Char(b[1]) = "mark"
  \/ i = 2 /\ Char(b[1]) = "code"
  \/ i >= 2 /\ Char(b[i - 1]) = "cr" /\ Char(b[i]) = "lf"
Ready(b) == {i \in DOMAIN b : Complete(b, i)}

\* What is consumed is a packet if it is one whole frame.  Otherwise the head is
\* missing: digits alone fail the checksum, or are odd in number, for which
\* b16decode raises; an LF or a status in front of other frames is not base16.
WholeFrame(line) == line = [i \in 1..Size[line[1][1]] |-> <<line[1][1], i>>]
OddDigits(line) == Len(line) % 2 = 1 /\ \A i \in 1..(Len(line) - 2) : Char(line[i]) = "hex"

\* handle_cbus_packet: the event of a packet.  Status reports other than level
\* reports, other SALs and other packets raise none.
EventOf(kind) ==
  CASE kind = "error"          -> "on_pci_cannot_accept_data"
    [] kind = "confirmation"   -> "on_confirmation"
    [] kind = "ramp"           -> "on_lighting_group_ramp"
    [] kind = "on"             -> "on_lighting_group_on"
    [] kind = "off"            -> "on_lighting_group_off"
    [] kind = "terminate_ramp" -> "on_lighting_group_terminate_ramp"
    [] kind = "clock_request"  -> "on_clock_request"
    [] kind = "clock_update"   -> "on_clock_update"
    [] kind = "level_report"   -> "on_level_report"
    [] OTHER                   -> "none"

\* handle_data with bytes that decode_packet consumes: a whole frame raises its
\* event, unless its handler raises an exception, and others nothing.
HandleData(s, line) ==
  IF \/ WholeFrame(line) /\ line[1][1] \in Raises
     \/ ~WholeFrame(line) /\ OddDigits(line)
  THEN [s EXCEPT !.line = <<>>, !.raised = TRUE, !.lost = @ \cup ToSet(line)]
  ELSE IF WholeFrame(line)
  THEN [s EXCEPT !.line = <<>>,
                 !.events = Append(@, <<line[1][1], EventOf(KindOf[line[1][1]])>>)]
  ELSE [s EXCEPT !.line = <<>>]

\* Mutant of Scan: END_COMMAND is looked for, and the LF left to the next packet.
ScanToCR(s, b) ==
  LET line == Append(s.line, b) IN
  IF s.raised THEN [s EXCEPT !.lost = @ \cup {b}]
  ELSE IF Char(b) = "cr" THEN HandleData(s, Append(line, <<b[1], b[2] + 1>>))
  ELSE IF Complete(line, Len(line)) THEN HandleData(s, line)
  ELSE [s EXCEPT !.line = line]

\* One more byte of the buffer: after an exception it is lost, it completes what
\* decode_packet consumes, or it waits for more.
Scan(s, b) ==
  LET line == Append(s.line, b) IN
  IF s.raised THEN [s EXCEPT !.lost = @ \cup {b}]
  ELSE IF Complete(line, Len(line)) THEN HandleData(s, line)
  ELSE [s EXCEPT !.line = line]

\* Where _process_buffer stands after the first i bytes of b.
Scanned(b) ==
  LET At[i \in 0..Len(b)] ==
        IF i = 0 THEN [line |-> <<>>, events |-> events, lost |-> dropped, raised |-> FALSE]
        ELSE Scan(At[i - 1], b[i])
  IN At

\* _process_buffer calls handle_data packet by packet, up to the first handler that
\* raises: the exception leaves the rest for data_received to clear.
Process(b) ==
  LET s == Scanned(b)[Len(b)]
  IN buf' = s.line /\ events' = s.events /\ dropped' = s.lost

-----------------------------------------------------------------------------
(* data_received *)

\* A read that does not fit, alone or behind the buffer, is lost and takes the
\* buffer with it.
DataReceived ==
  \E n \in 1..MaxRead :
    LET data == SubSeq(Stream, pos + 1, pos + n)
    IN /\ pos + n <= Len(Stream)
       /\ pos' = pos + n
       /\ CASE closed -> UNCHANGED <<buf, events, dropped>>
            [] ~closed /\ Len(buf) + n > Limit ->
                 /\ buf' = <<>>
                 /\ dropped' = dropped \cup ToSet(buf \o data)
                 /\ UNCHANGED events
            [] OTHER -> Process(buf \o data)
       /\ UNCHANGED closed

\* close() as BufferedProtocol.connection_lost calls it; PCIProtocol overrides
\* connection_lost without calling it.
Close ==
  /\ ~closed
  /\ closed' = TRUE
  /\ buf' = <<>>
  /\ UNCHANGED <<pos, events, dropped>>

Init == pos = 0 /\ buf = <<>> /\ closed = FALSE /\ events = <<>> /\ dropped = {}

\* The stream ends.
Done == pos = Len(Stream) /\ UNCHANGED vars

Next == DataReceived \/ Close \/ Done

Spec == Init /\ [][Next]_vars

-----------------------------------------------------------------------------
(* Properties *)

EventFrames == {e[1] : e \in ToSet(events)}

TypeOK ==
  /\ pos \in 0..Len(Stream) /\ closed \in BOOLEAN
  /\ Len(buf) <= Limit /\ ToSet(buf) \subseteq ToSet(Stream)
  /\ \A e \in ToSet(events) : e[1] \in FrameNo

\* data_received leaves nothing behind that decode_packet would consume.
NothingWaits == Ready(buf) = {}

\* However the stream is cut into reads, each frame is handled at most once
\* and frames are handled in the order they were sent.
InOrderOnce == \A i, j \in DOMAIN events : i < j => events[i][1] < events[j][1]

\* The decoder is back in step behind the next CR LF: a frame whose last byte
\* has arrived, at k, is missing only if a byte at j was lost to an overflow or
\* to an exception, up to the end of the frame, and no line ended in between.
\* The loss may be that of another frame: what follows a cut line's LF or a
\* confirmation's status is refused with it, up to the next CR LF.
Resynchronises ==
  ~closed =>
    \A k \in 1..pos : EndsFrame(Stream[k]) =>
      \/ Stream[k][1] \in EventFrames
      \/ \E j \in 1..k : /\ Stream[j] \in dropped
                         /\ \A p \in (j + 2)..(k - 1) : Char(Stream[p]) # "lf"

\* The code does not keep this one (README, "Where the code departs"):
\* Only frames that lost bytes are missing.
OnlyCutFramesMissing ==
  ~closed =>
    \A k \in 1..pos : EndsFrame(Stream[k]) =>
      \/ Stream[k][1] \in EventFrames
      \/ \E i \in 1..Size[Stream[k][1]] : <<Stream[k][1], i>> \in dropped

-----------------------------------------------------------------------------
(* Why nothing else is missing, as an inductive invariant *)

Event == {EventOf(KindOf[f]) : f \in FrameNo}

\* Events are of frames of the stream, in their order.
InOrder(ev) ==
  /\ ev \in Seq(FrameNo \X Event)
  /\ \A i, j \in DOMAIN ev : i < j => ev[i][1] < ev[j][1]

\* The frame that ends at k was raised, or is in the first line behind a loss.
Covered(k, ev, lost) ==
  \/ \E i \in DOMAIN ev : ev[i][1] = Stream[k][1]
  \/ \E j \in 1..k : /\ Stream[j] \in lost
                     /\ \A p \in (j + 2)..(k - 1) : Char(Stream[p]) # "lf"

\* With `line`, which follows the first q bytes of the stream, waiting to be
\* completed, the events ev raised and the bytes in `lost` dropped: what is ahead
\* of the line ended a frame or was dropped; what was raised is behind it, and
\* every frame that ended there is covered.
Sound(line, ev, lost, q) ==
  /\ line \in Seq(Byte) /\ q \in Nat /\ Ready(line) = {}
  /\ \A i \in DOMAIN line : line[i] = Stream[q + i]
  /\ InOrder(ev)
  /\ \A i \in DOMAIN ev : \A k \in DOMAIN Stream : k > q => ev[i][1] < Stream[k][1]
  /\ q # 0 => EndsFrame(Stream[q]) \/ Stream[q] \in lost
  /\ \A k \in 1..q : EndsFrame(Stream[k]) => Covered(k, ev, lost)

\* Inductive.
FramingInv ==
  /\ pos \in 0..Len(Stream) /\ closed \in BOOLEAN
  /\ Len(buf) <= Limit /\ InOrder(events)
  /\ IF closed THEN buf = <<>> ELSE Sound(buf, events, dropped, pos - Len(buf))

=============================================================================
