--------------------------- MODULE PyInterrogator ---------------------------
(***************************************************************************)
(* UnitInterrogator (python-legacy/cbus/protocol/interrogator.py) against  *)
(* the point-to-point side of a CNI, as the emulator                       *)
(* (cbus/esp32/emulator/device.py) implements it.  Requests go out one at  *)
(* a time, each with its own deadline; a reply is taken for the answer to  *)
(* the request that is waiting, whatever unit and attribute it is from.    *)
(***************************************************************************)
EXTENDS Integers, Sequences, FiniteSets, SequencesExt

CONSTANTS
  Present,     \* addresses of the units on the network
  Nameless,    \* those whose type name is blank or all zero
  MaxAddress,  \* discover_units asks 0..MaxAddress
  Target,      \* the unit that is interrogated afterwards
  Attrs,       \* the attributes read, in order
  Readable,    \* the attributes a unit has
  Timeout,     \* the reply timeout, in ticks
  Late,        \* whether an answer may outlast the timeout
  MaxLines,    \* bound: lines waiting in the socket
  NoData

TypeName == "type_name"

\* discover_units over the addresses, then interrogate(Target).
Plan ==
  [i \in 1..MaxAddress + 1 |-> <<i - 1, TypeName, "discover">>] \o
  [j \in DOMAIN Attrs |-> <<Target, Attrs[j], "interrogate">>]

InterrogatorAssumption ==
  /\ MaxAddress \in Nat /\ Present \subseteq 0..MaxAddress
  /\ Nameless \subseteq Present
  /\ Timeout \in Nat \ {0} /\ MaxLines \in Nat /\ Late \in BOOLEAN
  /\ Attrs \in Seq(ToSet(Attrs))
  /\ \A i \in DOMAIN Plan : <<Plan[i][1], Plan[i][2]>> # NoData

VARIABLES
  at,       \* the request in hand: an index of Plan
  waiting,  \* _read_reply runs
  left,     \* ticks to its deadline
  device,   \* requests the CNI has yet to answer: <<unit, attribute, stage>>
  lines,    \* lines in the socket: confirmation, event or reply
  closed,   \* the CNI closed the connection
  found,    \* addresses discover_units reports
  info      \* UnitInfo of Target: the data of each attribute

vars == <<at, waiting, left, device, lines, closed, found, info>>

Finished == at > Len(Plan)

\* get_attribute
HasAttribute(u, a) == u \in Present /\ a \in Readable

\* _pp_identify and _pp_recall: a code in turn, the command, the wait.
Ask ==
  /\ ~Finished /\ ~waiting /\ ~closed
  /\ waiting' = TRUE /\ left' = Timeout
  /\ device' = Append(device, <<Plan[at][1], Plan[at][2], "new">>)
  /\ UNCHANGED <<at, lines, closed, found, info>>

\* Writing to a closed connection raises ConnectionError, which both loops catch.
AskFails ==
  /\ ~Finished /\ ~waiting /\ closed
  /\ at' = at + 1
  /\ UNCHANGED <<waiting, left, device, lines, closed, found, info>>

\* _handle_pp_command confirms at once ...
DeviceConfirms ==
  /\ device # <<>> /\ Head(device)[3] = "new" /\ Len(lines) < MaxLines
  /\ lines' = Append(lines, <<"confirmation">>)
  /\ LET r == Head(device)
     IN device' = IF HasAttribute(r[1], r[2])
                  THEN <<<<r[1], r[2], "confirmed">>>> \o Tail(device)
                  ELSE Tail(device)
  /\ UNCHANGED <<at, waiting, left, closed, found, info>>

\* ... and replies for the units and attributes there are.
DeviceReplies ==
  /\ device # <<>> /\ Head(device)[3] = "confirmed" /\ Len(lines) < MaxLines
  /\ lines' = Append(lines, <<"reply", Head(device)[1], Head(device)[2]>>)
  /\ device' = Tail(device)
  /\ UNCHANGED <<at, waiting, left, closed, found, info>>

\* An event of the bus reaches the same connection.
BusEvent ==
  /\ Len(lines) < MaxLines /\ ~closed /\ ~Finished
  /\ lines' = Append(lines, <<"event">>)
  /\ UNCHANGED <<at, waiting, left, device, closed, found, info>>

CniCloses ==
  /\ ~closed /\ ~Finished
  /\ closed' = TRUE
  /\ device' = <<>>
  /\ UNCHANGED <<at, waiting, left, lines, found, info>>

\* Mutant of Blank: a unit that answered is reported, whatever it answered.
BlankIfSilent(data) == data = NoData

\* What discover_units passes over: no reply, or a reply without a name.
Blank(data) == data = NoData \/ data[1] \in Nameless

\* The caller of _read_reply: any data is an answer.  _apply_attribute stores
\* it under the attribute that was asked.
Record(data) ==
  /\ at' = at + 1 /\ waiting' = FALSE
  /\ IF Plan[at][3] = "discover"
     THEN /\ found' = IF Blank(data) THEN found ELSE found \cup {Plan[at][1]}
          /\ UNCHANGED info
     ELSE /\ info' = IF data = NoData THEN info
                     ELSE [info EXCEPT ![Plan[at][2]] = data]
          /\ UNCHANGED found

FirstReply(chunk) == SelectInSeq(chunk, LAMBDA l : l[1] = "reply")

\* One turn of _read_reply's loop: the first reply of a chunk is returned and
\* what follows it in the local buffer is forgotten; other lines are skipped.  A
\* line of which a read brings a part stands for one that comes with the rest.
ReadChunk(n) ==
  /\ waiting /\ left > 0 /\ n \in 1..Len(lines)
  /\ LET chunk == SubSeq(lines, 1, n)
         r == FirstReply(chunk)
     IN IF r = 0
        THEN UNCHANGED <<at, waiting, found, info>>
        ELSE Record(<<chunk[r][2], chunk[r][3]>>)
  /\ lines' = SubSeq(lines, n + 1, Len(lines))
  /\ UNCHANGED <<device, closed, left>>

\* End of file: None at once.
ReadEof ==
  /\ waiting /\ closed /\ lines = <<>>
  /\ Record(NoData)
  /\ UNCHANGED <<left, device, lines, closed>>

\* A network that is not Late has answered by then.
Tick ==
  /\ waiting /\ left > 0
  /\ left > 1 \/ Late \/ (device = <<>> /\ lines = <<>>)
  /\ left' = left - 1
  /\ UNCHANGED <<at, waiting, device, lines, closed, found, info>>

TimedOut ==
  /\ waiting /\ left = 0
  /\ Record(NoData)
  /\ UNCHANGED <<left, device, lines, closed>>

Init ==
  /\ at = 1 /\ waiting = FALSE /\ left = 0
  /\ device = <<>> /\ lines = <<>> /\ closed = FALSE
  /\ found = {} /\ info = [a \in ToSet(Attrs) |-> NoData]

Over == Finished /\ UNCHANGED vars

Next ==
  \/ Ask \/ AskFails
  \/ DeviceConfirms \/ DeviceReplies \/ BusEvent \/ CniCloses
  \/ \E n \in DOMAIN lines : ReadChunk(n)
  \/ ReadEof \/ Tick \/ TimedOut \/ Over

Spec == Init /\ [][Next]_vars

\* Time passes and the loop runs; nothing is asked of the network.
Fairness ==
  /\ WF_vars(Ask) /\ WF_vars(AskFails) /\ WF_vars(ReadEof)
  /\ WF_vars(Tick) /\ WF_vars(TimedOut)

FairSpec == Spec /\ Fairness

-----------------------------------------------------------------------------
(* Properties *)

TypeOK ==
  /\ at \in 1..Len(Plan) + 1 /\ waiting \in BOOLEAN /\ left \in 0..Timeout
  /\ found \subseteq 0..MaxAddress /\ Len(device) <= Len(Plan)

\* Only units that are on the network and have a name are reported.
FoundExist == found \subseteq Present \ Nameless

\* An attribute of the result is the target's own value of that attribute.
InfoIsRight == \A a \in ToSet(Attrs) : info[a] \in {NoData, <<Target, a>>}

\* While the connection holds, nothing there is to read is missed.
NothingMissed ==
  Finished /\ ~closed =>
    /\ TypeName \in Readable => found = Present \ Nameless
    /\ \A a \in ToSet(Attrs) : HasAttribute(Target, a) => info[a] = <<Target, a>>

IsReply(l) == l[1] = "reply"

\* There is an answer to request i.
Answerable(i) == HasAttribute(Plan[i][1], Plan[i][2])

\* Request i, if there is an answer to it, is in the result.
Recorded(i) ==
  Answerable(i) => IF Plan[i][3] = "discover" THEN Plan[i][1] \in found \cup Nameless
                   ELSE info[Plan[i][2]] = <<Plan[i][1], Plan[i][2]>>

Line == {<<"confirmation">>, <<"event">>} \cup
        {<<"reply", Plan[i][1], Plan[i][2]>> : i \in DOMAIN Plan}

\* What was asked while the connection held is in the result, and nothing else.
ResultInv ==
  /\ FoundExist /\ InfoIsRight
  /\ DOMAIN info = ToSet(Attrs) /\ found \subseteq 0..MaxAddress
  /\ at \in 1..Len(Plan) + 1 /\ closed \in BOOLEAN
  /\ ~closed => \A i \in 1..at - 1 : Recorded(i)

\* In a network that is not Late the CNI works on the request that waits and on
\* nothing else, and while the connection holds the answer to it is either yet
\* to be written or in the socket, once.
TrafficInv ==
  /\ waiting \in BOOLEAN /\ left \in 0..Timeout /\ lines \in Seq(Line)
  /\ waiting => ~Finished
  /\ \/ device = <<>>
     \/ /\ waiting /\ ~closed /\ left > 0
        /\ \/ device = <<<<Plan[at][1], Plan[at][2], "new">>>>
           \/ device = <<<<Plan[at][1], Plan[at][2], "confirmed">>>> /\ Answerable(at)
  /\ \A i \in DOMAIN lines : IsReply(lines[i]) =>
       /\ waiting /\ left > 0 /\ device = <<>> /\ Answerable(at)
       /\ lines[i] = <<"reply", Plan[at][1], Plan[at][2]>>
       /\ \A j \in DOMAIN lines : IsReply(lines[j]) => i = j
  /\ waiting /\ ~closed /\ Answerable(at) =>
       device # <<>> \/ \E i \in DOMAIN lines : IsReply(lines[i])

\* Inductive.
InterrogatorInv == ResultInv /\ TrafficInv

\* Discovery and interrogation end, with silent units, a lost connection and
\* any traffic on the bus.
Ends == <>Finished

=============================================================================
