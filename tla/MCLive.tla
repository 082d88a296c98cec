------------------------------- MODULE MCLive -------------------------------
(***************************************************************************)
(* What must eventually happen in the Rust PCI client (extended here) and  *)
(* in the gateway, side by side on small instances.  The two share no      *)
(* variable; `scenario` says which one a behaviour exercises, and the      *)
(* other rests in its initial state.                                       *)
(***************************************************************************)
EXTENDS PciClient

CONSTANTS f1, f2, k1

VARIABLES
  scenario,
  db, lightConf, sensorConf, state, sensor, pc, grp, rep, todo, events, slots,
  commands, sweeps, probing, swept, unforced, link, gen, held, attempts,
  accepted, handled, left

\* f1 is a lighting command and f2 a clock update: both are confirmed.
LiveClass == [f \in Frame |-> IF f = f1 THEN "commands" ELSE "background"]

Daemon == INSTANCE Gateway WITH
  Groups <- 1, Labelled <- {0}, ConnTask <- {k1}, Reconnect <- TRUE,
  MaxReconnect <- 2, Blocks <- {},
  MaxCommands <- 2, MaxEvents <- 0, MaxLosses <- 2, MaxResyncs <- 0

daemonVars == <<db, lightConf, sensorConf, state, sensor, pc, grp, rep, todo,
                events, slots, commands, sweeps, probing, swept, unforced, link,
                gen, held, attempts, accepted, handled, left>>
liveVars == <<scenario, vars, daemonVars>>

LiveInit == scenario \in {"pci", "daemon"} /\ Init /\ Daemon!Init

LiveNext ==
  \/ scenario = "pci" /\ Next /\ UNCHANGED <<scenario, daemonVars>>
  \/ scenario = "daemon" /\ Daemon!Next /\ UNCHANGED <<scenario, vars>>

\* The fairness of PciClient and of Gateway, each for the one exercised.
LiveFairness ==
  /\ WF_vars(scenario = "pci" /\ InitFrame)
  /\ WF_vars(scenario = "pci" /\ OpenGate)
  /\ \A f \in Frame : WF_vars(scenario = "pci" /\ Caller(f))
  /\ \A l \in Flow!Lane : WF_vars(scenario = "pci" /\ Answer(l))
  /\ WF_vars(scenario = "pci" /\ RetryTask)
  /\ \A c \in Code : /\ WF_vars(scenario = "pci" /\ BackoffOver(c))
                     /\ WF_vars(scenario = "pci" /\ CodeExpires(c))
  /\ WF_daemonVars(scenario = "daemon" /\ Daemon!Worker)
  /\ WF_daemonVars(scenario = "daemon" /\ Daemon!Pump)
  /\ WF_daemonVars(scenario = "daemon" /\ Daemon!Sweeper)
  /\ WF_daemonVars(scenario = "daemon" /\ Daemon!ConnNext(k1))

LiveSpec == LiveInit /\ [][LiveNext]_liveVars /\ LiveFairness

-----------------------------------------------------------------------------

\* Every command the lane accepted is sent, fails or is refused: a dead or
\* replaced client holds up no later command (spawn_workers, switch_light).
CommandsHandled == scenario = "daemon" => Daemon!CommandsHandled

\* A lost connection comes back or ends the process, when the number of
\* attempts is limited (cbus_event_pump, connect_with_retry).
ReconnectsOrExits == scenario = "daemon" => Daemon!ReconnectsOrExits
=============================================================================
