------------------------------- MODULE PySim -------------------------------
(***************************************************************************)
(* The C-Bus simulator (python-legacy/cbus-simulator): one                 *)
(* PCISimulatorProtocol per client over one shared SimulatorState.  A text *)
(* command is logged, waits for the simulated delay and is then carried    *)
(* out; a string-encoded binary frame (the kind PCIProtocol sends) is      *)
(* carried out at once.  Answers are written without waiting for the peer. *)
(***************************************************************************)
EXTENDS Integers, Sequences, FiniteSets, SequencesExt

CONSTANTS
  Client,
  App,          \* application addresses the clients name
  Known,        \* <<application, group>> pairs of the configured network
  Text,         \* text commands: <<kind, # asked, application, group>>
  Binary,       \* binary frames: <<kind, code, byte after the opcode>>
  Codes,        \* number of confirmation codes
  HistoryMax,   \* max_command_history
  MaxCommands,  \* bound: commands received in all
  Behind,       \* bound: commands in a read behind the first
  NoJob

\* The groups a binary frame can address by mistake are the SAL opcodes.
OpOff == 1
OpRamp == 2
OpTerminate == 9
OpStatus == 115
OpOn == 121
Group == {OpOff, OpRamp, OpTerminate, OpStatus, OpOn}

TextKind == {"on", "off", "ramp", "status", "clock", "identify", "mmi", "reset",
             "basic", "smart", "unknown"}

Absent == -1
Level == 0..255

SimAssumption ==
  /\ Known \subseteq App \X Group
  /\ Text \subseteq TextKind \X BOOLEAN \X (App \cup {0}) \X (0..255)
  /\ Binary \subseteq {"b_on", "b_off", "b_ramp", "b_terminate", "b_status", "b_clock"}
                     \X Nat \X Level
  /\ NoJob \notin Text
  /\ Codes \in Nat \ {0} /\ HistoryMax \in Nat \ {0} /\ MaxCommands \in Nat
  /\ Behind \in Nat

VARIABLES
  hier,     \* level of each configured group in the network hierarchy
  light,    \* light_states: level by group number, Absent if not a key
  history,  \* command_history, as the numbers of the commands
  received, \* commands received so far
  logged,   \* history: what was ever in command_history, oldest first
  texts,    \* history: the text commands received
  swallowed, \* history: those that CR ended in a read where CR LF ended a later one
  errors,   \* pci_status["error_count"]
  phase,    \* of each connection: none, accepted, open, eof or closing
  smart,    \* smart_mode of each protocol
  index,    \* confirmation_index of each protocol
  job,      \* the text command a protocol is delaying
  lf,       \* the terminator's LF is yet to come
  down,     \* shutdown has run
  given,    \* history: codes each protocol made up, oldest first
  strayed,  \* history: a command named a group outside the configuration
  last      \* history: the last binary frame, the code it was answered with
            \* and whether it was taken for binary

recordVars == <<history, received, logged, texts, swallowed>>
vars == <<hier, light, recordVars, errors, phase, smart, index, job, lf, down, given,
          strayed, last>>

NoAnswer == 0

-----------------------------------------------------------------------------
(* SimulatorState *)

SetHier(a, g, v) == IF <<a, g>> \in Known THEN [hier EXCEPT ![<<a, g>>] = v]
                    ELSE hier

\* set_group_level: a group that is not configured is tracked all the same.
SetGroupLevel(a, g, v) ==
  /\ hier' = SetHier(a, g, v)
  /\ light' = [light EXCEPT ![g] = v]
  /\ strayed' = (strayed \/ <<a, g>> \notin Known)

GetGroupLevel(a, g) == IF <<a, g>> \in Known THEN hier[<<a, g>>] ELSE 0

\* get_all_group_levels: light_states first, then what it lacks.
AllGroupLevels(a) ==
  [g \in {x \in Group : light[x] # Absent \/ <<a, x>> \in Known} |->
     IF light[g] # Absent THEN light[g] ELSE hier[<<a, g>>]]

\* The first command of a read with n behind it, of which those in T are text:
\* _process_buffer looks for CR LF first, so that up to there all is one command.
Swallow(n, T) ==
  /\ received + n < MaxCommands
  /\ received' = received + 1 + n
  /\ swallowed' = swallowed \cup {received + 1 + i : i \in T}

\* log_command, with its limit.
LogCommand ==
  /\ logged' = Append(logged, received + 1)
  /\ LET h == Append(history, received + 1)
     IN history' = IF Len(h) > HistoryMax
                   THEN SubSeq(h, Len(h) - HistoryMax + 1, Len(h)) ELSE h

\* Mutant of Reset: light_states is left alone.
ResetHierarchyOnly ==
  /\ hier' = [k \in Known |-> 0]
  /\ errors' = 0
  /\ UNCHANGED <<light, strayed>>

Reset ==
  /\ hier' = [k \in Known |-> 0]
  /\ light' = [g \in Group |-> IF light[g] = Absent THEN Absent ELSE 0]
  /\ errors' = 0
  /\ UNCHANGED strayed

-----------------------------------------------------------------------------
(* CBusSimulatorServer *)

Registered(c) == phase[c] \in {"open", "eof", "closing"}

\* The event loop accepts a connection and schedules handle_client.
Accept(c) ==
  /\ phase[c] = "none" /\ ~down
  /\ phase' = [phase EXCEPT ![c] = "accepted"]
  /\ UNCHANGED <<hier, light, recordVars, errors, smart, index, job, lf, down, given,
                 strayed, last>>

\* handle_client: a new protocol is registered and writes its prompt.
HandleClient(c) ==
  /\ phase[c] = "accepted"
  /\ phase' = [phase EXCEPT ![c] = "open"]
  /\ smart' = [smart EXCEPT ![c] = TRUE]
  /\ index' = [index EXCEPT ![c] = 0]
  /\ given' = [given EXCEPT ![c] = <<>>]
  /\ lf' = [lf EXCEPT ![c] = FALSE]
  /\ UNCHANGED <<hier, light, recordVars, errors, job, down, strayed, last>>

\* The peer closes its side.
Eof(c) ==
  /\ phase[c] = "open"
  /\ phase' = [phase EXCEPT ![c] = "eof"]
  /\ UNCHANGED <<hier, light, recordVars, errors, smart, index, job, lf, down, given,
                 strayed, last>>

\* process_client ends; its finally block unregisters the protocol.
Leave(c) ==
  /\ phase[c] \in {"eof", "closing"} /\ job[c] = NoJob
  /\ phase' = [phase EXCEPT ![c] = "none"]
  /\ UNCHANGED <<hier, light, recordVars, errors, smart, index, job, lf, down, given,
                 strayed, last>>

\* shutdown closes the writers of the registered clients and the listener.
Shutdown ==
  /\ ~down
  /\ down' = TRUE
  /\ phase' = [c \in Client |-> IF Registered(c) THEN "closing" ELSE phase[c]]
  /\ UNCHANGED <<hier, light, recordVars, errors, smart, index, job,
                 lf, given, strayed, last>>

-----------------------------------------------------------------------------
(* PCISimulatorProtocol *)

\* _get_confirmation_code: the codes in turn.
NextCode(i) == (i + 1) % Codes

\* A # command is confirmed with the protocol's own code.
Confirm(c, asked) ==
  IF asked
  THEN /\ index' = [index EXCEPT ![c] = NextCode(index[c])]
       /\ given' = [given EXCEPT ![c] = Append(@, index[c])]
  ELSE UNCHANGED <<index, given>>

Unknown == <<"unknown", FALSE, 0, 0>>

\* _process_buffer up to the simulated delay.  A terminator is CR or CR LF;
\* a LF that comes in a later read heads the next command and is stripped.  With
\* others behind it the command matches no pattern.
TextCommand(c, cmd, n, T, split) ==
  /\ phase[c] = "open" /\ job[c] = NoJob
  /\ Swallow(n, T) /\ LogCommand
  /\ texts' = texts \cup {received + 1} \cup {received + 1 + i : i \in T}
  /\ job' = [job EXCEPT ![c] = IF n = 0 THEN cmd ELSE Unknown]
  /\ lf' = [lf EXCEPT ![c] = split /\ n = 0]
  /\ UNCHANGED <<hier, light, errors, phase, smart, index, down, given,
                 strayed, last>>

\* Level of each lighting command; a ramp goes to 128 whatever it says.
LevelOf(k) == CASE k = "on" -> 255 [] k = "off" -> 0 [] k = "ramp" -> 128

HandleLighting(c, cmd) ==
  /\ cmd[1] \in {"on", "off", "ramp"}
  /\ SetGroupLevel(cmd[3], cmd[4], LevelOf(cmd[1]))
  /\ Confirm(c, cmd[2])
  /\ UNCHANGED <<errors, smart>>

\* Requests only answer: status (with the level), clock, identify and MMI.
HandleRequest(c, cmd) ==
  /\ cmd[1] \in {"status", "clock", "identify", "mmi"}
  /\ Confirm(c, cmd[2])
  /\ UNCHANGED <<hier, light, strayed, errors, smart>>

HandleReset(c, cmd) ==
  /\ cmd[1] = "reset"
  /\ Reset
  /\ UNCHANGED <<index, given, smart>>

HandleMode(c, cmd) ==
  /\ cmd[1] \in {"basic", "smart"}
  /\ smart' = [smart EXCEPT ![c] = cmd[1] = "smart"]
  /\ UNCHANGED <<hier, light, strayed, errors, index, given>>

SendError(c, cmd) ==
  /\ cmd[1] = "unknown"
  /\ errors' = errors + 1
  /\ UNCHANGED <<hier, light, strayed, index, given, smart>>

\* _process_command after _simulate_delay; a lost packet is a longer delay.
ProcessCommand(c) ==
  /\ job[c] # NoJob
  /\ job' = [job EXCEPT ![c] = NoJob]
  /\ \/ HandleLighting(c, job[c])
     \/ HandleRequest(c, job[c])
     \/ HandleReset(c, job[c])
     \/ HandleMode(c, job[c])
     \/ SendError(c, job[c])
  /\ UNCHANGED <<recordVars, phase, lf, down, last>>

OpOf(k) == CASE k = "b_on" -> OpOn [] k = "b_off" -> OpOff [] k = "b_ramp" -> OpRamp
             [] k = "b_terminate" -> OpTerminate [] k = "b_status" -> OpStatus

\* The rest of _handle_binary_command.  The first byte of a frame that is still
\* text is a backslash and its command type is not looked at again: none of the
\* branches that change a group is taken, and the answer has no code.
OtherBinary(b) ==
  /\ last' = <<b, NoAnswer, TRUE>>
  /\ UNCHANGED <<hier, light, strayed>>

\* The codes a read's last character can be.
LastCodes == {b[2] : b \in Binary} \cup {NoAnswer}

\* _handle_binary_command.  The frame is still text here, because
\* preprocess_cbus_data leaves a bytearray alone: a lighting frame 05 38 00 cc gg
\* sets the group with the opcode's number to the group's number as level and
\* echoes the code, a status request 05 FF 00 73 07 likewise (group 115 to level
\* 7); any other frame is answered without a code.  The code is the last character
\* of the read, whichever command it belongs to.
BinaryCommand(c, b, n, T, code, split) ==
  /\ phase[c] = "open" /\ job[c] = NoJob /\ ~lf[c]
  /\ Swallow(n, T)
  /\ texts' = texts \cup {received + 1 + i : i \in T}
  /\ n = 0 => code = b[2]
  /\ IF b[1] # "b_clock"
     THEN /\ SetGroupLevel(56, OpOf(b[1]), b[3])
          /\ last' = <<b, code, TRUE>>
     ELSE OtherBinary(b)
  /\ lf' = [lf EXCEPT ![c] = split /\ n = 0]
  /\ UNCHANGED <<history, logged, errors, phase, smart, index, job, down, given>>

\* After a late LF the frame no longer starts with a backslash: an unknown
\* text command.
BinaryAsText(c, b, n, T) ==
  /\ phase[c] = "open" /\ job[c] = NoJob /\ lf[c]
  /\ Swallow(n, T) /\ LogCommand
  /\ texts' = texts \cup {received + 1} \cup {received + 1 + i : i \in T}
  /\ job' = [job EXCEPT ![c] = Unknown]
  /\ lf' = [lf EXCEPT ![c] = FALSE]
  /\ last' = <<b, NoAnswer, FALSE>>
  /\ UNCHANGED <<hier, light, errors, phase, smart, index, down, given, strayed>>

\* SimulatorState after a configuration without initial levels; no client yet.
Init ==
  /\ hier = [k \in Known |-> 0]
  /\ light = [g \in Group |-> IF \E a \in App : <<a, g>> \in Known THEN 0 ELSE Absent]
  /\ history = <<>> /\ logged = <<>> /\ received = 0 /\ errors = 0
  /\ texts = {} /\ swallowed = {}
  /\ phase = [c \in Client |-> "none"]
  /\ smart = [c \in Client |-> TRUE]
  /\ index = [c \in Client |-> 0]
  /\ job = [c \in Client |-> NoJob]
  /\ lf = [c \in Client |-> FALSE]
  /\ down = FALSE /\ strayed = FALSE /\ last = <<>>
  /\ given = [c \in Client |-> <<>>]

\* The server is down.
Stopped == down /\ UNCHANGED vars

Next ==
  \/ \E c \in Client : Accept(c)
  \/ \E c \in Client : HandleClient(c)
  \/ \E c \in Client : Eof(c)
  \/ \E c \in Client : Leave(c)
  \/ Shutdown
  \/ \E c \in Client, cmd \in Text, split \in BOOLEAN, n \in 0..Behind :
       \E T \in SUBSET (1..n) : TextCommand(c, cmd, n, T, split)
  \/ \E c \in Client : ProcessCommand(c)
  \/ \E c \in Client, b \in Binary, split \in BOOLEAN, n \in 0..Behind :
       \E T \in SUBSET (1..n), code \in LastCodes : BinaryCommand(c, b, n, T, code, split)
  \/ \E c \in Client, b \in Binary, n \in 0..Behind :
       \E T \in SUBSET (1..n) : BinaryAsText(c, b, n, T)
  \/ Stopped

Spec == Init /\ [][Next]_vars

\* The event loop runs its tasks and timers.
Fairness ==
  /\ \A c \in Client : WF_vars(HandleClient(c)) /\ WF_vars(Leave(c))
                       /\ WF_vars(ProcessCommand(c))

FairSpec == Spec /\ Fairness

-----------------------------------------------------------------------------
(* Properties *)

TypeOK ==
  /\ hier \in [Known -> Level] /\ light \in [Group -> Level \cup {Absent}]
  /\ Len(history) <= HistoryMax /\ errors \in Nat
  /\ phase \in [Client -> {"none", "accepted", "open", "eof", "closing"}]
  /\ smart \in [Client -> BOOLEAN] /\ index \in [Client -> 0..Codes - 1]
  /\ job \in [Client -> Text \cup {NoJob, Unknown}]

\* The history is the end of what was ever in it.
EndOfLog ==
  /\ history = SubSeq(logged, Len(logged) - Len(history) + 1, Len(logged))
  /\ Len(logged) >= HistoryMax => Len(history) = HistoryMax

\* The history is the latest commands of all clients in the order they came.  The
\* only ones missing are those that CR ended in a read where CR LF ended a later one.
HistoryIsRecent ==
  /\ EndOfLog
  /\ \A i, j \in DOMAIN logged : i < j => logged[i] < logged[j]
  /\ ToSet(logged) = texts \ swallowed

\* A protocol gives each code once before it gives one again.
CodesCycle ==
  \A c \in Client : \A i, j \in DOMAIN given[c] :
    (i < j /\ j < i + Codes) => given[c][i] # given[c][j]

\* While the clients name configured groups only, light_states agrees with the
\* hierarchy on every group that one application has, across resets.
LightsAgree ==
  ~strayed =>
    \A k \in Known :
      (\A a \in App : <<a, k[2]>> \in Known => a = k[1]) => light[k[2]] = hier[k]

\* The inductive invariant, in parts.
HistoryInv ==
  /\ EndOfLog
  /\ history \in Seq(Nat) /\ logged \in Seq(Nat) /\ received \in Nat
  /\ Len(history) <= Len(logged)
  /\ Len(logged) < HistoryMax => Len(history) = Len(logged)

RecordInv == HistoryIsRecent /\ texts \cup swallowed \subseteq 1..received

\* A code that was given d codes ago, less than a cycle, is d codes behind the
\* next one.
CodesInv ==
  /\ CodesCycle
  /\ index \in [Client -> 0..Codes - 1] /\ given \in [Client -> Seq(0..Codes - 1)]
  /\ \A c \in Client : \A i \in DOMAIN given[c] :
       LET d == Len(given[c]) + 1 - i
       IN d < Codes => index[c] \in {given[c][i] + d, given[c][i] + d - Codes}

LevelsInv ==
  /\ LightsAgree
  /\ hier \in [Known -> Level] /\ light \in [Group -> Level \cup {Absent}]
  /\ strayed \in BOOLEAN

SimInv == TypeOK /\ HistoryInv /\ RecordInv /\ CodesInv /\ LevelsInv

\* A connection whose end was seen is unregistered, even one with a command in
\* its delay and even during a shutdown.
ClientsLeave ==
  \A c \in Client : phase[c] \in {"eof", "closing"} ~> phase[c] = "none"

\* The code does not keep this one (README, "Where the code departs"):
\* get_all_group_levels gives the levels of its application.
LevelsOfApplication ==
  \A k \in Known : AllGroupLevels(k[1])[k[2]] = hier[k]

\* The code does not keep this one (README, "Where the code departs"):
\* A binary lighting ON turns on the group it names.
BinaryOnTakesEffect ==
  [][ last' # last /\ last'[1][1] = "b_on" /\ last'[3] =>
        light'[last'[1][3]] = 255 ]_vars

\* The code does not keep this one (README, "Where the code departs"):
\* A binary frame that was read is confirmed with the code it carries.
EchoesCode == last # <<>> /\ last[3] => last[2] = last[1][2]

\* The code does not keep this one (README, "Where the code departs"):
\* A frame is understood whichever terminator the one before it had.
EitherTerminator == last # <<>> => last[3]

\* The code does not keep this one (README, "Where the code departs"):
\* Every text command has an entry of its own, whichever terminator ends it.
EachIsLogged == swallowed = {}

\* The code does not keep this one (README, "Where the code departs"):
\* After shutdown no connection is left to serve.
ShutdownCloses == down => \A c \in Client : phase[c] # "open"

=============================================================================
