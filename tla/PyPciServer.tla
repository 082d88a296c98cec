---------------------------- MODULE PyPciServer ----------------------------
(***************************************************************************)
(* PCIServerProtocol (python-legacy/cbus/protocol/pciserverprotocol.py),   *)
(* the fake PCI, with a client that sends PCIProtocol's initialisation,    *)
(* commands of its own meanwhile, and repeats what is not confirmed.  The  *)
(* stream delivers whole frames in chunks; every frame of a chunk is       *)
(* handled in one call of data_received unless a handler raises.           *)
(***************************************************************************)
EXTENDS Integers, Sequences, FiniteSets, SequencesExt

CONSTANTS
  Command,      \* kinds of frame the client sends besides the initialisation
  MaxCommands,  \* bound: commands sent
  MaxRetries,   \* times the client repeats a frame
  MaxRepeats    \* bound: frames repeated, beside the interface options

ServerAssumption == {MaxCommands, MaxRetries, MaxRepeats} \subseteq Nat

Lighting == {"on", "off", "ramp", "terminate"}

\* What PCIProtocol.pci_reset sends; its DM frames carry no checksum.
Script == <<"reset", "reset", "reset", "smart", "dm21", "dm22", "dm42", "dm30">>

\* "cal" is a one-off BASIC mode (@) command that holds a CAL, "pp" an
\* \46 IDENTIFY, "status" asks which units exist, "levels" for group levels;
\* "clock_odd" is a clock update whose checksum byte reads like a clock command.
CommandAssumption ==
  Command \subseteq Lighting \cup
    {"clock_update", "clock_odd", "clock_request", "status", "levels", "pp", "cal"}

Option == {"basic", "connect", "checksum", "monitor", "idmon"}

VARIABLES
  mode,      \* the set of options in force
  wire,      \* frames on the way to the server: <<id, kind, has a checksum>>
  out,       \* what the server wrote: <<what, id of the frame confirmed>>
  seen,      \* ids of the lighting events, oldest first
  at,        \* frames of Script the client has sent
  ncmd, nretry, \* commands sent, frames repeated
  kindOf,    \* the kind of every frame sent, by id
  tries,     \* how often each was repeated
  eaten,     \* history: frames that lost their head to the frame before
  dropped    \* history: copies of the interface options that were not parsed

vars == <<mode, wire, out, seen, at, ncmd, nretry, kindOf, tries, eaten, dropped>>

DM(k) == k \in {"dm21", "dm22", "dm42", "dm30"}

\* PCIProtocol's packets have a checksum, except the DM ones of pci_reset.
HasSum(k) == ~DM(k) /\ k \notin {"reset", "smart", "cal"}

Default == {"basic"}

\* Value 0x79 of interface options 1: CONNECT, SRCHK, SMART, MONITOR, IDMON.
FullOptions == {"connect", "checksum", "monitor", "idmon"}

\* decode_packet for a frame sent to a PCI.  Where a checksum is required the
\* frame must have it, but for an @ command; where it is not, the checksum
\* byte is data: a stray byte to the lighting decoder, and to the clock decoder
\* unless it reads like a command (as that of a clock request does), and an
\* error to the others.
Decode(k, sum, m) ==
  IF \/ "checksum" \in m /\ ~sum /\ k \notin {"reset", "smart", "cal"}
     \/ /\ sum /\ "checksum" \notin m
        /\ k \in {"clock_odd", "clock_request", "status", "levels", "pp"}
  THEN "invalid" ELSE k

\* on_clock_update builds a SAL without its application and raises TypeError;
\* on_master_application_status is not implemented outside of BASIC mode.
Raises(k, m) ==
  k \in {"clock_update", "clock_odd"} \/ (k = "status" /\ "basic" \notin m)

\* handle_cbus_packet returns before the confirmation for these.
Unanswered(k) == k \in {"invalid", "reset", "smart", "levels", "pp", "cal"}

\* Mutant of Options: the DM branch counts on the shortcut to have left BASIC.
OptionsAssumesSmart(k, m) ==
  CASE k = "reset" -> Default
    [] k = "smart" -> (m \ {"basic"}) \cup {"connect"}
    [] k = "dm30"  -> m \cup FullOptions
    [] OTHER       -> m

\* on_reset, the SMART+CONNECT shortcut and the DM branch for 0x30 and 0x41.
Options(k, m) ==
  CASE k = "reset" -> Default
    [] k = "smart" -> (m \ {"basic"}) \cup {"connect"}
    [] k = "dm30"  -> FullOptions
    [] OTHER       -> m

\* on_master_application_status: the unit states, in blocks of 0x58.
Reports(k) == IF k = "status" THEN [i \in 1..3 |-> <<"report", 0>>] ELSE <<>>

\* send_confirmation and _send: the deferred packets would follow the answer,
\* but _send_later is never reached.
Answer(id, k) == IF Unanswered(k) THEN <<>> ELSE <<<<"confirmation", id>>>>

OneIfOptions(f) == IF f[2] = "dm30" THEN 1 ELSE 0

\* One turn of _process_buffer.  decode_packet reports a cal as consumed two
\* characters past its end: the next frame in the buffer loses its head and
\* with it its meaning; cut short like this a frame of PCIProtocol does not
\* decode, or raises for its odd length.
HandleFrame(s, f) ==
  LET k == Decode(f[2], f[3], s.mode) IN
  IF s.raised THEN [s EXCEPT !.dropped = @ + OneIfOptions(f)]
  ELSE IF s.cut
       THEN [s EXCEPT !.cut = FALSE, !.eaten = @ \cup {f[1]}, !.dropped = @ + OneIfOptions(f),
                      !.raised = HasSum(f[2]) \/ f[2] = "cal"]
  ELSE IF Raises(k, s.mode) THEN [s EXCEPT !.raised = TRUE]
  ELSE [s EXCEPT !.mode = Options(k, @),
                 !.out  = @ \o Reports(k) \o Answer(f[1], k),
                 !.seen = IF k \in Lighting THEN Append(@, f[1]) ELSE @,
                 !.cut  = k = "cal"]

\* The server's state after the first i frames of the stream.
After[i \in 0..Len(wire)] ==
  IF i = 0 THEN [mode |-> mode, out |-> out, seen |-> seen, eaten |-> eaten,
                 dropped |-> dropped, cut |-> FALSE, raised |-> FALSE]
  ELSE HandleFrame(After[i - 1], wire[i])

\* data_received with the first n frames; after an exception the rest of the
\* buffer is dropped.
DataReceived(n) ==
  /\ n \in 1..Len(wire)
  /\ LET s == After[n]
     IN /\ mode' = s.mode /\ out' = s.out /\ seen' = s.seen
        /\ eaten' = s.eaten /\ dropped' = s.dropped
  /\ wire' = SubSeq(wire, n + 1, Len(wire))
  /\ UNCHANGED <<at, ncmd, nretry, kindOf, tries>>

Transmit(k) ==
  LET id == Len(kindOf) + 1
  IN /\ kindOf' = Append(kindOf, k) /\ tries' = Append(tries, 0)
     /\ wire' = Append(wire, <<id, k, HasSum(k)>>)

\* The next packet of pci_reset.
SendScript ==
  /\ at < Len(Script)
  /\ at' = at + 1
  /\ Transmit(Script[at + 1])
  /\ UNCHANGED <<mode, out, seen, ncmd, nretry, eaten, dropped>>

\* A command or a time synchronisation, at any moment after connection_made.
SendCommand(k) ==
  /\ ncmd < MaxCommands
  /\ ncmd' = ncmd + 1
  /\ Transmit(k)
  /\ UNCHANGED <<mode, out, seen, at, nretry, eaten, dropped>>

Confirmed == {out[i][2] : i \in DOMAIN out} \ {0}

\* A frame that asked for a confirmation is repeated, MaxRetries times at most.
Repeat(id) ==
  /\ tries[id] < MaxRetries /\ (nretry < MaxRepeats \/ kindOf[id] = "dm30")
  /\ nretry' = nretry + 1 /\ tries' = [tries EXCEPT ![id] = @ + 1]
  /\ kindOf[id] \notin {"reset", "smart", "cal"}
  /\ id \notin Confirmed
  /\ \A i \in DOMAIN wire : wire[i][1] # id
  /\ wire' = Append(wire, <<id, kindOf[id], HasSum(kindOf[id])>>)
  /\ UNCHANGED <<mode, out, seen, at, ncmd, kindOf, eaten, dropped>>

\* connection_made writes the power-up notification.
Init ==
  /\ mode = Default /\ wire = <<>> /\ seen = <<>> /\ eaten = {} /\ dropped = 0
  /\ out = <<<<"power_on", 0>>>>
  /\ at = 0 /\ ncmd = 0 /\ nretry = 0 /\ kindOf = <<>> /\ tries = <<>>

\* The client is done and the stream is empty.
Quiet == /\ at = Len(Script) /\ ncmd = MaxCommands /\ wire = <<>>
         /\ UNCHANGED vars

Next ==
  \/ SendScript
  \/ \E k \in Command : SendCommand(k)
  \/ \E id \in DOMAIN kindOf : Repeat(id)
  \/ \E n \in DOMAIN wire : DataReceived(n)
  \/ Quiet

Spec == Init /\ [][Next]_vars

Dm30 == {id \in DOMAIN kindOf : kindOf[id] = "dm30"}

\* pci_reset goes on, bytes arrive, and the resend task repeats the options.
Fairness ==
  /\ WF_vars(SendScript)
  /\ WF_vars(\E n \in DOMAIN wire : DataReceived(n))
  /\ WF_vars(\E id \in Dm30 : Repeat(id))

FairSpec == Spec /\ Fairness

-----------------------------------------------------------------------------
(* Properties *)

\* Every option is one of the five; ids are those of frames sent.
TypeOK ==
  /\ mode \subseteq Option
  /\ ToSet(seen) \subseteq DOMAIN kindOf
  /\ Confirmed \subseteq DOMAIN kindOf

\* A client that has the confirmation of its interface options finds all of
\* them in force from then on, whatever was repeated or raised meanwhile.
ReadyWhenConfirmed == Dm30 \cap Confirmed # {} => mode = FullOptions

\* While nothing is repeated no frame is confirmed twice, or ahead of one that
\* was sent before it.
ConfirmedInOrder ==
  nretry = 0 =>
    \A i, j \in DOMAIN out :
      (i < j /\ out[i][2] # 0 /\ out[j][2] # 0) => out[i][2] < out[j][2]

Sets(k) == k \in {"reset", "smart"}
Kind == Command \cup ToSet(Script)
Output == {"power_on", "report", "confirmation"} \X ({0} \cup DOMAIN kindOf)

ServerTypes ==
  /\ at \in 0..Len(Script) /\ nretry \in Nat /\ ncmd \in Nat
  /\ kindOf \in Seq(Kind) /\ wire \in Seq((DOMAIN kindOf) \X Kind \X BOOLEAN)
  /\ mode \subseteq Option /\ out \in Seq(Output)
  /\ seen \in Seq(DOMAIN kindOf) /\ eaten \subseteq DOMAIN kindOf /\ dropped \in Nat

\* The stream holds frames that were sent, a reset or the shortcut never behind
\* the interface options, and while nothing is repeated in their order.
StreamInv ==
  /\ Dm30 # {} => at = Len(Script)
  /\ \A i \in DOMAIN wire : wire[i][2] = kindOf[wire[i][1]]
  /\ \A i, j \in DOMAIN wire : wire[i][2] = "dm30" /\ Sets(wire[j][2]) => j < i
  /\ nretry = 0 => \A i, j \in DOMAIN wire : i < j => wire[i][1] < wire[j][1]

\* With options m in force and o written, after n frames of the stream.
Good(m, o, n) ==
  /\ (\E i \in DOMAIN o : o[i][2] \in Dm30) =>
       m = FullOptions /\ \A j \in DOMAIN wire : j > n => ~Sets(wire[j][2])
  /\ nretry = 0 =>
       /\ \A i, j \in DOMAIN o : (i < j /\ o[i][2] # 0 /\ o[j][2] # 0) => o[i][2] < o[j][2]
       /\ \A i \in DOMAIN o : \A j \in DOMAIN wire : j > n => o[i][2] < wire[j][1]

\* Inductive.
ServerInv == ServerTypes /\ StreamInv /\ Good(mode, out, 0)

\* The interface options are confirmed in the end, unless the server drops them
\* and every repetition of them, unread in a chunk behind a frame that raised.
SetUpCompletes == <>(Dm30 \cap Confirmed # {} \/ dropped = MaxRetries + 1)

\* The code does not keep this one (README, "Where the code departs"):
\* The interface options are confirmed in the end.
SetUpConfirmed == <>(Dm30 \cap Confirmed # {})

\* The code does not keep this one (README, "Where the code departs"):
\* Each frame is parsed from its own beginning.
ParsedFromItsStart == eaten = {}

=============================================================================
