------------------------------ MODULE MCPyLive ------------------------------
(***************************************************************************)
(* What must eventually happen in the Python programs, side by side on     *)
(* small instances.  They share no variable; `scenario` says which one a   *)
(* behaviour exercises, and the others rest in their initial states.       *)
(***************************************************************************)
EXTENDS Integers, Sequences

CONSTANTS u1, u2, c1, c2, r1, r2, r3, f1, h1, h0,
  none, NoOne, NoJob, NoCode, NoData

VARIABLES
  scenario,
  transport, inUse, expired, pending, nextIndex, call, code, tasks, retry,
  toRetry, due, replies, wire, heard, late, exhausted, shared,
  tState, sock, lock, tTask, attempts, tPc, awaits, cancelled, tOpen, tDialled,
  quit,
  pMain, cur, connected, task, reading, pLeft, failed, locked, clients, pc, cmds,
  pOpen, dialled, bcasts, since, got,
  mode, sWire, out, seen, sAt, ncmd, nretry, kindOf, tries, eaten, dropped,
  hier, light, history, received, logged, texts, swallowed, errors, phase, smart,
  index, job, lf, down, given, strayed, last,
  at, waiting, iLeft, device, lines, closed, found, info,
  eLevel, stream, busy, log, trailing, gone, written, sent, headed, report,
  main, broker, dispatcher, running, queue, sleeping, api, closing, open, lost,
  db, conf, state, sensor, outbox, bus, inbound, sweep, unconfirmed, amiss, asked,
  answered, left,
  step, config, current, wState, target, protocol, link, level, overlapped, drops

Pci == INSTANCE PyPci WITH
  Frame <- {r1, f1}, Coded <- {r1, f1}, ResetSeq <- <<r1>>,
  Codes <- 2, MaxRetries <- 2

Transport == INSTANCE PyTransport WITH
  Caller <- {u1, u2}, Loops <- 2, Reconnect <- TRUE, MaxAttempts <- 0, Dials <- 3,
  state <- tState, task <- tTask, pc <- tPc, open <- tOpen, dialled <- tDialled

Proxy == INSTANCE PyProxy WITH
  Client <- {u1, u2}, Conns <- 1, Responses <- 1, Commands <- 0,
  main <- pMain, left <- pLeft, open <- pOpen

Server == INSTANCE PyPciServer WITH
  Command <- {"on", "clock_update"}, MaxCommands <- 1, MaxRetries <- 1, MaxRepeats <- 1,
  wire <- sWire, at <- sAt

Sim == INSTANCE PySim WITH
  Client <- {c1, c2}, App <- {56, 57}, Known <- {<<56, 1>>, <<56, 2>>, <<57, 2>>},
  Text <- {<<"on", TRUE, 56, 1>>, <<"reset", FALSE, 0, 0>>, <<"clock", TRUE, 0, 0>>},
  Binary <- {}, Codes <- 2, HistoryMax <- 2, MaxCommands <- 2, Behind <- 0

\* Replies may come after their time-out.
Interrogator == INSTANCE PyInterrogator WITH
  Present <- {0, 2}, Nameless <- {0}, MaxAddress <- 2, Target <- 2,
  Attrs <- <<"type_name", "gav_store", "serial_number">>,
  Readable <- {"type_name", "serial_number"},
  Timeout <- 2, Late <- TRUE, MaxLines <- 2, left <- iLeft

Emulator == INSTANCE PyEmulator WITH
  Client <- {c1, c2},
  Command <- {<<"on", "h", 1>>, <<"a3", "h", 0>>, <<"reset", NoCode, 0>>,
              <<"bare", "i", 0>>},
  GroupCount <- 2, LogMax <- 2, MaxCommands <- 2, level <- eLevel

\* The daemon over plain TCP, with a message that raises in the dispatcher.
Daemon == INSTANCE PyGateway WITH
  App <- {56, 57}, Exists <- {<<57, 1>>}, Labelled <- {}, Topics <- {<<57, 1>>},
  Payloads <- {[parses |-> "raises", on |-> TRUE, brightness |-> 255],
               [parses |-> "yes", on |-> TRUE, brightness |-> 128]},
  Levels <- {128}, QueueCap <- 3, Esp32 <- FALSE, NoClock <- FALSE,
  MaxInputs <- 2

Web == INSTANCE PyWeb WITH
  Req <- {r1, r2, r3}, Host <- {h1}, NoHost <- h0, GroupIds <- {255, 256},
  LevelsIn <- {0, 128, 300}, None <- none, MaxDrops <- 1, state <- wState

pciVars == <<transport, inUse, expired, pending, nextIndex, call, code, tasks,
             retry, toRetry, due, replies, wire, heard, late, exhausted, shared>>
transportVars == <<tState, sock, lock, tTask, attempts, tPc, awaits, cancelled,
                   tOpen, tDialled, quit>>
proxyVars == <<pMain, cur, connected, task, reading, pLeft, failed, locked, clients,
               pc, cmds, pOpen, dialled, bcasts, since, got>>
serverVars == <<mode, sWire, out, seen, sAt, ncmd, nretry, kindOf, tries, eaten, dropped>>
simVars == <<hier, light, history, received, logged, texts, swallowed, errors, phase,
             smart, index, job, lf, down, given, strayed, last>>
interrogatorVars == <<at, waiting, iLeft, device, lines, closed, found, info>>
emulatorVars == <<eLevel, stream, busy, log, trailing, gone, written, sent, headed, report>>
daemonVars == <<main, broker, dispatcher, running, queue, sleeping, api, closing,
                open, lost, db, conf, state, sensor, outbox, bus, inbound, sweep,
                unconfirmed, amiss, asked, answered, left>>
webVars == <<step, config, current, wState, target, protocol, link, level,
             overlapped, drops>>
vars == <<scenario, pciVars, transportVars, proxyVars, serverVars, simVars,
          interrogatorVars, emulatorVars, daemonVars, webVars>>

Init ==
  /\ scenario \in {"pci", "transport", "proxy", "server", "simulator",
                   "interrogator", "emulator", "daemon", "web"}
  /\ Pci!Init /\ Transport!Init /\ Proxy!Init /\ Server!Init /\ Sim!Init
  /\ Interrogator!Init /\ Emulator!Init /\ Daemon!Init /\ Web!Init

Next ==
  \/ scenario = "pci" /\ Pci!Next
       /\ UNCHANGED <<scenario, transportVars, proxyVars, serverVars, simVars,
                      interrogatorVars, emulatorVars, daemonVars, webVars>>
  \/ scenario = "transport" /\ Transport!Next
       /\ UNCHANGED <<scenario, pciVars, proxyVars, serverVars, simVars,
                      interrogatorVars, emulatorVars, daemonVars, webVars>>
  \/ scenario = "proxy" /\ Proxy!Next
       /\ UNCHANGED <<scenario, pciVars, transportVars, serverVars, simVars,
                      interrogatorVars, emulatorVars, daemonVars, webVars>>
  \/ scenario = "server" /\ Server!Next
       /\ UNCHANGED <<scenario, pciVars, transportVars, proxyVars, simVars,
                      interrogatorVars, emulatorVars, daemonVars, webVars>>
  \/ scenario = "simulator" /\ Sim!Next
       /\ UNCHANGED <<scenario, pciVars, transportVars, proxyVars, serverVars,
                      interrogatorVars, emulatorVars, daemonVars, webVars>>
  \/ scenario = "interrogator" /\ Interrogator!Next
       /\ UNCHANGED <<scenario, pciVars, transportVars, proxyVars, serverVars,
                      simVars, emulatorVars, daemonVars, webVars>>
  \/ scenario = "emulator" /\ Emulator!Next
       /\ UNCHANGED <<scenario, pciVars, transportVars, proxyVars, serverVars,
                      simVars, interrogatorVars, daemonVars, webVars>>
  \/ scenario = "daemon" /\ Daemon!Next
       /\ UNCHANGED <<scenario, pciVars, transportVars, proxyVars, serverVars,
                      simVars, interrogatorVars, emulatorVars, webVars>>
  \/ scenario = "web" /\ Web!Next
       /\ UNCHANGED <<scenario, pciVars, transportVars, proxyVars, serverVars,
                      simVars, interrogatorVars, emulatorVars, daemonVars>>

\* Fairness is each component's own.  The PCI client, the simulator, the
\* emulator and the web interface do nothing until they are called, so theirs
\* holds of them at rest; the server's client, the interrogator and the daemon
\* act on their own, and only when they are the ones exercised.
Fairness ==
  /\ Pci!Fairness /\ Sim!Fairness /\ Emulator!Fairness /\ Web!Fairness
  /\ WF_serverVars(scenario = "server" /\ Server!SendScript)
  /\ WF_serverVars(/\ scenario = "server"
                   /\ \E n \in DOMAIN sWire : Server!DataReceived(n))
  /\ WF_serverVars(/\ scenario = "server"
                   /\ \E id \in Server!Dm30 : Server!Repeat(id))
  /\ WF_interrogatorVars(scenario = "interrogator" /\ Interrogator!Ask)
  /\ WF_interrogatorVars(scenario = "interrogator" /\ Interrogator!AskFails)
  /\ WF_interrogatorVars(scenario = "interrogator" /\ Interrogator!ReadEof)
  /\ WF_interrogatorVars(scenario = "interrogator" /\ Interrogator!Tick)
  /\ WF_interrogatorVars(scenario = "interrogator" /\ Interrogator!TimedOut)
  /\ WF_daemonVars(scenario = "daemon" /\ Daemon!Work)
  /\ WF_daemonVars(scenario = "daemon" /\ Daemon!Write)
  /\ WF_daemonVars(scenario = "daemon" /\ Daemon!Relay)
  /\ WF_daemonVars(scenario = "daemon" /\ Daemon!RunPublish)
  /\ WF_daemonVars(scenario = "daemon" /\ Daemon!BrokerAccepts)
  /\ WF_daemonVars(scenario = "daemon" /\ Daemon!FutureDone)
  /\ WF_daemonVars(scenario = "daemon" /\ Daemon!Rebind)
  /\ WF_daemonVars(scenario = "daemon" /\ Daemon!CleanUp)
  /\ WF_daemonVars(scenario = "daemon" /\ Daemon!CancelTasks)

FairSpec == Init /\ [][Next]_vars /\ Fairness

-----------------------------------------------------------------------------

\* Whoever waits for an asyncio.Lock proceeds: every call of connect and
\* disconnect returns, however calls, reconnect loops, cancellations and dials
\* overlap, and a client that has left the proxy is unregistered, although
\* broadcasts hold the lock, if every drain of a broadcast ends (the proxy sets
\* it no time limit).  The lock serves its waiters in turn, so the
\* fairness of both is strong for acquiring it.
LockWaitersProceed ==
  /\ scenario = "transport" => (Transport!Fairness => Transport!CallsReturn)
  /\ scenario = "proxy" => (Proxy!Fairness => Proxy!LeaversUnregister)

\* Whatever is lost, late or raises, no exchange is left hanging: no frame stays
\* in _pending_confirmations, a client that repeats what was not confirmed has
\* its interface options confirmed unless every copy was dropped behind a handler
\* that raised, an interrogation ends, a command with a code is confirmed by the
\* emulator unless its client left or a line feed came at its head, a web request
\* is answered, and a simulator connection whose end was seen is unregistered,
\* also during a command's delay or a shutdown.
ExchangesConclude ==
  /\ scenario = "pci" => Pci!PendingDrains
  /\ scenario = "server" => Server!SetUpCompletes
  /\ scenario = "interrogator" => Interrogator!Ends
  /\ scenario = "emulator" => Emulator!AllConfirmed
  /\ scenario = "web" => Web!RequestsAnswered
  /\ scenario = "simulator" => Sim!ClientsLeave

\* The daemon's sweep asks for the status of every light and publishes every
\* report that arrives, unless a connection is lost first, and a daemon over plain
\* TCP whose C-Bus connection is lost ends.
DaemonProgresses ==
  scenario = "daemon" => /\ Daemon!SweepAsksForAll /\ Daemon!ReportsArePublished
                         /\ Daemon!LossEndsDaemon
=============================================================================
