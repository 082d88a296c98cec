----------------------------- MODULE PyStandIns -----------------------------
(***************************************************************************)
(* The Python programs that play or question a device, side by side: the   *)
(* PCI server (extended here), the simulator, the ESP32 emulator, the      *)
(* interrogator, and the broker of the behavioural harness.  They share no *)
(* variable; `scenario` says which one a behaviour exercises, and the      *)
(* others rest in their initial states.                                    *)
(***************************************************************************)
EXTENDS PyPciServer

CONSTANTS
  Client,                                                \* of the servers
  App, Known, Text, Binary, Codes, HistoryMax, NoJob,    \* the simulator
  SimCommands, Behind,                                   \* bounds: its commands
  EmuCommand, GroupCount, LogMax, NoCode,                \* the emulator
  EmuCommands,                                           \* bound: its commands
  Present, Nameless, MaxAddress, Target, Attrs, Readable, \* the interrogator
  Timeout, Late, MaxLines, NoData,
  Segment, Topic, Filter, Plus, Hash,                    \* the broker
  MaxMessages, MaxSubs, MaxErrors

VARIABLES
  scenario,
  hier, light, history, received, logged, texts, swallowed, errors, phase, smart,
  index, job, lf, down, given, strayed, last,
  level, stream, busy, log, trailing, gone, written, sent, headed, report,
  asking, waiting, left, device, lines, closed, found, info,
  sock, subs, publishes, retained, refused, inbox, messages

Sim == INSTANCE PySim WITH MaxCommands <- SimCommands

Emulator == INSTANCE PyEmulator WITH Command <- EmuCommand, MaxCommands <- EmuCommands

Interrogator == INSTANCE PyInterrogator WITH at <- asking

Broker == INSTANCE PyBroker WITH errors <- refused

simVars == <<hier, light, history, received, logged, texts, swallowed, errors, phase,
             smart, index, job, lf, down, given, strayed, last>>
emulatorVars == <<level, stream, busy, log, trailing, gone, written, sent, headed, report>>
interrogatorVars == <<asking, waiting, left, device, lines, closed, found, info>>
brokerVars == <<sock, subs, publishes, retained, refused, inbox, messages>>
standInVars == <<scenario, vars, simVars, emulatorVars, interrogatorVars, brokerVars>>

StandInInit ==
  /\ scenario \in {"server", "simulator", "emulator", "interrogator", "broker"}
  /\ Init /\ Sim!Init /\ Emulator!Init /\ Interrogator!Init /\ Broker!Init

StandInNext ==
  \/ scenario = "server" /\ Next
       /\ UNCHANGED <<scenario, simVars, emulatorVars, interrogatorVars, brokerVars>>
  \/ scenario = "simulator" /\ Sim!Next
       /\ UNCHANGED <<scenario, vars, emulatorVars, interrogatorVars, brokerVars>>
  \/ scenario = "emulator" /\ Emulator!Next
       /\ UNCHANGED <<scenario, vars, simVars, interrogatorVars, brokerVars>>
  \/ scenario = "interrogator" /\ Interrogator!Next
       /\ UNCHANGED <<scenario, vars, simVars, emulatorVars, brokerVars>>
  \/ scenario = "broker" /\ Broker!Next
       /\ UNCHANGED <<scenario, vars, simVars, emulatorVars, interrogatorVars>>

StandInSpec == StandInInit /\ [][StandInNext]_standInVars

-----------------------------------------------------------------------------

\* While nothing is repeated a client's commands are confirmed in its order, and
\* once its set-up was confirmed the interface options are in force, although a
\* handler that raises drops the rest of a read (data_received, on_pci_cal).
ConfirmedMeansDone ==
  scenario = "server" => TypeOK /\ ReadyWhenConfirmed /\ ConfirmedInOrder

\* The simulator's records are right: the history is the latest commands of all
\* clients, in order and complete but for those a read joined to others into one
\* that is none; while clients name configured groups only, both levels of a
\* group agree, across resets; a connection gives each confirmation code once
\* before it gives one again (state.py).
SimulatorRecords ==
  scenario = "simulator" => /\ Sim!TypeOK /\ Sim!HistoryIsRecent
                            /\ Sim!LightsAgree /\ Sim!CodesCycle

\* A group of the emulator has the level of the lighting command that was
\* confirmed last, over all clients, and a client's commands are confirmed in
\* their order, although reads end between a CR and its LF and clients leave
\* (_handle_client, _process_buffer).
EmulatorObeys ==
  scenario = "emulator" => /\ Emulator!TypeOK
                           /\ Emulator!LastConfirmedRules
                           /\ Emulator!ConfirmedInOrder

\* While replies are in time the interrogator reports the units that have a name,
\* with their own attributes, and misses none while the connection holds,
\* although replies arrive in pieces and among other traffic (discover_units,
\* interrogate_unit).
InterrogationRight ==
  scenario = "interrogator" /\ ~Late => /\ Interrogator!TypeOK
                                        /\ Interrogator!FoundExist
                                        /\ Interrogator!InfoIsRight
                                        /\ Interrogator!NothingMissed

\* From the first message of a topic that a client of the broker was given, it is
\* given each message of that topic once, in order and without a gap, although
\* filters overlap and others close; what is retained is what was last published
\* for retention (mini_broker.py).
BrokerDelivers ==
  scenario = "broker" => /\ Broker!OnceInOrder
                         /\ Broker!NoGaps
                         /\ Broker!RetainedIsLast
                         /\ Broker!PlusIsOneLevel
=============================================================================
