------------------------------ MODULE PyClient ------------------------------
(***************************************************************************)
(* What the Python daemon's client stands on, side by side: the PCI client *)
(* (extended here), the transport and the byte buffer.  They share no      *)
(* variable; `scenario` says which one a behaviour exercises, and the      *)
(* others rest in their initial states.  "calm" and "burst" are the PCI    *)
(* client with codes to spare and with fewer codes than senders.           *)
(***************************************************************************)
EXTENDS PyPci

CONSTANTS
  BurstFrame, BurstCodes, BurstRetries,                   \* the burst
  Caller, NoOne, Loops, Reconnect, MaxAttempts, Dials,    \* the transport
  Frames, Size, KindOf, Raises, Stream, Limit, MaxRead    \* the byte buffer

VARIABLES
  scenario,
  state, sock, lock, task, attempts, pc, awaits, cancelled, open, dialled, quit,
  pos, buf, closed, events, dropped

Burst == INSTANCE PyPci WITH
  Frame <- BurstFrame, Coded <- BurstFrame, ResetSeq <- <<>>,
  Codes <- BurstCodes, MaxRetries <- BurstRetries

Link == INSTANCE PyTransport

ASSUME LinkAssumption == Link!TransportAssumption

Framing == INSTANCE PyFraming

transportVars == <<state, sock, lock, task, attempts, pc, awaits, cancelled, open,
                   dialled, quit>>
framingVars == <<pos, buf, closed, events, dropped>>
clientVars == <<scenario, vars, transportVars, framingVars>>

ClientInit ==
  /\ scenario \in {"calm", "burst", "transport", "framing"}
  /\ IF scenario = "burst" THEN Burst!Init ELSE Init
  /\ Link!Init /\ Framing!Init

ClientNext ==
  \/ scenario = "calm" /\ Next /\ UNCHANGED <<scenario, transportVars, framingVars>>
  \/ scenario = "burst" /\ Burst!Next
       /\ UNCHANGED <<scenario, transportVars, framingVars>>
  \/ scenario = "transport" /\ Link!Next
       /\ UNCHANGED <<scenario, vars, framingVars>>
  \/ scenario = "framing" /\ Framing!Next
       /\ UNCHANGED <<scenario, vars, transportVars>>

ClientSpec == ClientInit /\ [][ClientNext]_clientVars

-----------------------------------------------------------------------------

\* Retries end, however often the codes are re-used: as long as no code is handed
\* out that another frame still holds, no frame is on the wire more than
\* MAX_PACKET_RETRIES times, and a confirmed one is sent once more at most
\* (_get_confirmation_code, _check_pending_confirmations).
RetriesEnd == scenario = "calm" => (~shared => RetriesBounded)

\* However connect, disconnect and the reconnect loops overlap, what is open is
\* what the transport refers to (transport/base.py).
Tracked == scenario = "transport" => Link!Tracked

\* Only one task dials at a time, and it holds the lock (connect).
OneDials == scenario = "transport" => Link!OneDials

\* A transport whose state says CONNECTED has not dropped its connection: it
\* refers to one, broken perhaps and not reported, or a reported loss or a
\* disconnect is being dealt with; attempts and dials stay within their limits
\* (transport/base.py).
TransportConsistent == scenario = "transport" => Link!TransportConsistent

\* However the stream is cut into reads, what is handled are frames of the
\* stream, once each and in their order, also after an overflow or an exception;
\* a frame is missing only if it lost a byte or stands behind a lost byte in the
\* stream with no end of line in between; and nothing that decode_packet would
\* consume is left in the buffer (data_received).
StreamSurvives ==
  scenario = "framing" => /\ Framing!TypeOK
                          /\ Framing!NothingWaits
                          /\ Framing!InOrderOnce
                          /\ Framing!Resynchronises
=============================================================================
