----------------------------- MODULE PyEmulator -----------------------------
(***************************************************************************)
(* ESP32Emulator (python-legacy/cbus/esp32/emulator/device.py): one task   *)
(* per client over a shared list of groups.  A command is logged, waits    *)
(* for response_delay_ms and is then handled in one step.  A client ends   *)
(* its commands with CR or with CR LF, and may leave at any time.          *)
(***************************************************************************)
EXTENDS Integers, Sequences, FiniteSets, SequencesExt

CONSTANTS
  Client,
  Command,     \* <<kind, code, group or attribute>>; NoCode without a code
  GroupCount,  \* num_groups
  LogMax,      \* maxlen of the command log
  MaxCommands, \* bound: commands sent
  NoCode

EmulatorAssumption ==
  GroupCount \in Nat \ {0} /\ LogMax \in Nat \ {0} /\ MaxCommands \in Nat

\* Groups a status report covers; 88 in the code, two bytes of four here.
BlockSize == 8
State == {"on", "off", "missing"}

VARIABLES
  level,    \* level of each group
  stream,   \* commands of each client not read yet
  busy,     \* the command a client's task is delaying, if any
  log,      \* command_log
  trailing, \* clients the line feed of whose last command is still to be read
  gone,     \* clients that have left
  written,  \* history: confirmations in the order written: <<client, id, command>>
  sent,     \* number of commands sent; a command's id
  headed,   \* history: commands read with a line feed at their head
  report    \* history: the last status report, its first group and the levels then

vars == <<level, stream, busy, log, trailing, gone, written, sent, headed, report>>

Group == 0..GroupCount - 1

\* EmulatedGroup.level clamps; set_group_level ignores what is out of range.
SetGroupLevel(g, v) ==
  IF g \in Group THEN [level EXCEPT ![g] = IF v > 255 THEN 255 ELSE v] ELSE level

\* _handle_lighting: a terminate ramp leaves the level, a ramp jumps to its end.
HandleLighting(cmd) ==
  CASE cmd[1] = "on"   -> SetGroupLevel(cmd[3], 255)
    [] cmd[1] = "off"  -> SetGroupLevel(cmd[3], 0)
    [] cmd[1] = "ramp" -> SetGroupLevel(cmd[3], 128)
    [] OTHER           -> level

\* Which commands are confirmed with the code they carry.  An A3 command is
\* answered with g whatever its code; @ commands, resets and the shortcut are
\* not confirmed, nor is what is not hexadecimal.
Confirms(cmd) ==
  /\ cmd[2] # NoCode
  /\ cmd[1] \in {"on", "off", "ramp", "terminate", "status", "clock", "pp", "bare"}

\* A command read behind the line feed of the one before starts with none of
\* the prefixes, and is taken for a bare one: hexadecimal digits still are, since
\* fromhex skips the line feed, and anything else is dropped.
HeadedByLF(cmd) == <<IF cmd[1] \in {"bare", "a3"} THEN "bare" ELSE "other", cmd[2], cmd[3]>>

AsRead(c, cmd) == IF c \in trailing THEN HeadedByLF(cmd) ELSE cmd

StateOf(g) == IF g \notin Group THEN "missing" ELSE IF level[g] > 0 THEN "on" ELSE "off"

\* _send_binary_status: four groups to a byte, the first in the highest bits.
\* Slot s of byte b, counted from the lowest bits.
SendBinaryStatus(start) ==
  [b \in 0..(BlockSize \div 4) - 1 |-> [s \in 0..3 |-> StateOf(start + b * 4 + (3 - s))]]

\* The request's opcode is taken for the application and its next byte, 7, for
\* the first group.
StatusStart == 7

\* BinaryStatusReport.decode: the lowest bits are the first group.
DecodeReport(start, bytes) ==
  [g \in start..start + BlockSize - 1 |-> bytes[(g - start) \div 4][(g - start) % 4]]

\* deque(maxlen=10000)
Append1(x) == IF Len(log) = LogMax THEN Append(Tail(log), x) ELSE Append(log, x)

SendCommand(c, cmd) ==
  /\ sent < MaxCommands /\ c \notin gone
  /\ sent' = sent + 1
  /\ stream' = [stream EXCEPT ![c] = Append(@, <<sent + 1, cmd>>)]
  /\ UNCHANGED <<level, busy, log, trailing, gone, written, headed, report>>

\* Mutant of Receive: the command takes effect before its delay.
ReceiveApplies(c, cut) ==
  /\ stream[c] # <<>> /\ busy[c] = <<>>
  /\ LET id == Head(stream[c])[1]
         cmd == AsRead(c, Head(stream[c])[2])
     IN /\ busy' = [busy EXCEPT ![c] = <<id, cmd>>]
        /\ log' = Append1(id)
        /\ level' = HandleLighting(cmd)
        /\ headed' = IF c \in trailing THEN headed \cup {id} ELSE headed
  /\ stream' = [stream EXCEPT ![c] = Tail(@)]
  /\ trailing' = IF cut THEN trailing \cup {c} ELSE trailing \ {c}
  /\ UNCHANGED <<gone, written, sent, report>>

\* _process_buffer up to its sleep.  With cut the read ends between the CR and
\* the LF of the command, which is then ended by the CR alone.
Receive(c, cut) ==
  /\ stream[c] # <<>> /\ busy[c] = <<>>
  /\ LET id == Head(stream[c])[1]
         cmd == AsRead(c, Head(stream[c])[2])
     IN /\ busy' = [busy EXCEPT ![c] = <<id, cmd>>]
        /\ log' = Append1(id)
        /\ headed' = IF c \in trailing THEN headed \cup {id} ELSE headed
  /\ stream' = [stream EXCEPT ![c] = Tail(@)]
  /\ trailing' = IF cut THEN trailing \cup {c} ELSE trailing \ {c}
  /\ UNCHANGED <<level, gone, written, sent, report>>

\* _process_buffer after the sleep.  When the client has left, awaiting the
\* drain after a write may raise, which ends the task.
Handle(c, raises) ==
  /\ busy[c] # <<>>
  /\ raises => c \in gone /\ Confirms(busy[c][2])
  /\ busy' = [busy EXCEPT ![c] = <<>>]
  /\ stream' = IF raises THEN [stream EXCEPT ![c] = <<>>] ELSE stream
  /\ LET id == busy[c][1]
         cmd == busy[c][2]
     IN /\ level' = HandleLighting(cmd)
        /\ written' = IF Confirms(cmd) THEN Append(written, <<c, id, cmd>>) ELSE written
        /\ report' = IF cmd[1] = "status"
                     THEN <<StatusStart, SendBinaryStatus(StatusStart), level>> ELSE report
  /\ UNCHANGED <<log, trailing, gone, sent, headed>>

\* The client leaves: what it sent is read up to a point, and a command in its
\* delay is still handled.
Leave(c, n) ==
  /\ c \notin gone
  /\ gone' = gone \cup {c}
  /\ stream' = [stream EXCEPT ![c] = SubSeq(@, 1, n)]
  /\ UNCHANGED <<level, busy, log, trailing, written, sent, headed, report>>

Init ==
  /\ level = [g \in Group |-> 0]
  /\ stream = [c \in Client |-> <<>>] /\ busy = [c \in Client |-> <<>>]
  /\ log = <<>> /\ trailing = {} /\ gone = {}
  /\ written = <<>> /\ sent = 0 /\ headed = {} /\ report = <<>>

Done == /\ sent = MaxCommands \/ gone = Client
        /\ \A c \in Client : stream[c] = <<>> /\ busy[c] = <<>>
        /\ UNCHANGED vars

Next ==
  \/ \E c \in Client, cmd \in Command : SendCommand(c, cmd)
  \/ \E c \in Client, cut \in BOOLEAN : Receive(c, cut)
  \/ \E c \in Client, raises \in BOOLEAN : Handle(c, raises)
  \/ \E c \in Client : \E n \in 0..Len(stream[c]) : Leave(c, n)
  \/ Done

Spec == Init /\ [][Next]_vars

Fairness ==
  \A c \in Client : /\ WF_vars(\E cut \in BOOLEAN : Receive(c, cut))
                    /\ WF_vars(\E raises \in BOOLEAN : Handle(c, raises))

FairSpec == Spec /\ Fairness

-----------------------------------------------------------------------------
(* Properties *)

TypeOK ==
  /\ level \in [Group -> {0, 128, 255}] /\ Len(log) <= LogMax
  /\ \A c \in Client : Len(stream[c]) <= MaxCommands

Lights(cmd, g) == cmd[1] \in {"on", "off", "ramp"} /\ cmd[3] = g

LevelAsked(cmd) == CASE cmd[1] = "on" -> 255 [] cmd[1] = "off" -> 0 [] cmd[1] = "ramp" -> 128

\* The confirmations of the lighting commands to group g, by their positions.
LightingOf(g) == {i \in DOMAIN written : Lights(written[i][3], g)}

\* The level of g is that of the last of them.
FollowsLast(g) ==
  \/ LightingOf(g) = {} /\ level[g] = 0
  \/ \E i \in LightingOf(g) : /\ \A j \in LightingOf(g) : j <= i
                              /\ level[g] = LevelAsked(written[i][3])

\* A group has the level of the lighting command that was confirmed last,
\* over all clients, if every lighting command asks for a confirmation.
LastConfirmedRules ==
  (\A cmd \in Command : cmd[1] \in {"on", "off", "ramp"} => Confirms(cmd)) =>
    \A g \in Group : FollowsLast(g)

\* The confirmations of a client come in the order of its commands.
ConfirmedInOrder ==
  \A i, j \in DOMAIN written :
    i < j /\ written[i][1] = written[j][1] => written[i][2] < written[j][2]

\* What a task may have read.
Read == Command \cup {HeadedByLF(cmd) : cmd \in Command}

EmulatorTypes ==
  /\ sent \in 0..MaxCommands /\ log \in Seq(Nat) /\ Len(log) <= LogMax
  /\ level \in [Group -> {0, 128, 255}]
  /\ stream \in [Client -> Seq(Nat \X Command)]
  /\ busy \in [Client -> {<<>>} \cup (Nat \X Read)]
  /\ written \in Seq(Client \X Nat \X Read)
  /\ \A c \in Client : Len(stream[c]) <= sent

\* What waits and what is delayed of a client carries its numbers in order,
\* above those confirmed and not above the last one sent.
NumbersInOrder(c) ==
  /\ \A i, j \in DOMAIN stream[c] : i < j => stream[c][i][1] < stream[c][j][1]
  /\ \A i \in DOMAIN stream[c] : stream[c][i][1] <= sent
  /\ busy[c] # <<>> => /\ busy[c][1] <= sent
                       /\ \A i \in DOMAIN stream[c] : busy[c][1] < stream[c][i][1]
  /\ \A k \in DOMAIN written : written[k][1] = c =>
       /\ written[k][2] <= sent
       /\ \A i \in DOMAIN stream[c] : written[k][2] < stream[c][i][1]
       /\ busy[c] # <<>> => written[k][2] < busy[c][1]

\* Inductive.
EmulatorInv ==
  /\ EmulatorTypes /\ LastConfirmedRules /\ ConfirmedInOrder
  /\ \A c \in Client : NumbersInOrder(c)

\* What client c sent as number id asks for a confirmation.
AsksConfirmation(c, id) ==
  \E i \in DOMAIN stream[c] : stream[c][i][1] = id /\ Confirms(stream[c][i][2])

WasConfirmed(id) == \E i \in DOMAIN written : written[i][2] = id

\* Every command that carries a code is confirmed in the end, unless its client
\* left or the line feed of the command before came with it.
AllConfirmed ==
  \A c \in Client, id \in 1..MaxCommands :
    AsksConfirmation(c, id) ~> (WasConfirmed(id) \/ c \in gone \/ id \in headed)

\* The code does not keep the next two (README, "Where the code departs"):
\* Every command that carries a code is confirmed in the end, however the
\* stream was cut into reads, unless its client left.
CutsAreHarmless ==
  \A c \in Client, id \in 1..MaxCommands :
    AsksConfirmation(c, id) ~> (WasConfirmed(id) \/ c \in gone)

\* A client that decodes a status report sees the state of the groups.
ReportIsTrue ==
  report # <<>> =>
    \A g \in DOMAIN DecodeReport(report[1], report[2]) \cap Group :
      DecodeReport(report[1], report[2])[g] = IF report[3][g] > 0 THEN "on" ELSE "off"

=============================================================================
