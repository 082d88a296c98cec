------------------------------ MODULE Gateway ------------------------------
(***************************************************************************)
(* The MQTT gateway daemon: rust/cmqttd/src/gateway.rs with the event pump *)
(* and the MQTT event loop of main.rs and the reconnect loop of            *)
(* cbus-transport/src/conn.rs.                                             *)
(*                                                                         *)
(* Actors: the event pump (one C-Bus event at a time), the command worker  *)
(* (one /set command at a time), one `on_connected` task per broker        *)
(* connection, the sweep worker and the resync timer.  Every publish is an *)
(* await, so the publishing sequences of two actors interleave; the broker *)
(* keeps the last value of each retained topic.                            *)
(*                                                                         *)
(* The broker and the PCI link are external: a publish reaches the broker  *)
(* in order, a link is up until it is lost and a new one replaces it.      *)
(***************************************************************************)
EXTENDS Integers, Sequences, FiniteSets

CONSTANTS
  Groups,          \* group addresses are 0..Groups-1 (256 in the code)
  Labelled,        \* the groups the project file names
  ConnTask,        \* on_connected tasks, one per ConnAck
  Reconnect,       \* spec.reconnect: FALSE for plain -t
  MaxReconnect,    \* spec.max_reconnect, 0 for unlimited
  Blocks,          \* the slot sequences a light event or status report brings
  MaxCommands, MaxEvents, MaxLosses, MaxResyncs  \* bounds on the inputs

Group == 0..(Groups - 1)

\* What a report says of a light: the state word of the retained state topic,
\* and whether its level is above zero (the binary sensor).
On == [word |-> "ON", lit |-> TRUE]        \* also a ramp to a level above 0
Off == [word |-> "OFF", lit |-> FALSE]
RampToZero == [word |-> "ON", lit |-> FALSE]
Reports == {On, Off, RampToZero}

\* A slot of a status report block that reports nothing; also the content of
\* a state topic that nothing was published to.
Missing == [word |-> "none", lit |-> FALSE]

ASSUME GatewayAssumption ==
  /\ Groups \in Nat \ {0} /\ Labelled \subseteq Group
  /\ Blocks \subseteq Seq(Reports \cup {Missing})
  /\ Reconnect \in BOOLEAN /\ MaxReconnect \in Nat
  /\ MaxCommands \in Nat /\ MaxEvents \in Nat /\ MaxLosses \in Nat
  /\ MaxResyncs \in Nat
  /\ "pump" \notin ConnTask /\ "worker" \notin ConnTask

Actor == {"pump", "worker"} \cup ConnTask
Inputs == {"events", "losses", "resyncs"}

VARIABLES
  db,          \* group_db: Group -> discovery config published
  lightConf,   \* broker, retained light config: "none", "default" or "label"
  sensorConf,  \* broker, retained sensor config, likewise
  state,       \* broker, retained light state: a report or Missing
  sensor,      \* broker, retained sensor state: "none", "ON" or "OFF"
  pc,          \* Actor -> step of its publishing sequence
  grp, rep,    \* Actor -> the group and report it is publishing (locals: 0 and
               \* Missing when they are out of scope)
  todo,        \* ConnTask -> labelled groups still to announce
  events,      \* the CBusEvent channel
  slots,       \* rest of the report block the pump is relaying
  commands,    \* the command lane
  sweeps,      \* batches queued in the sweep lane
  probing,     \* the sweep worker is sending a batch
  swept,       \* status_requests_queued
  unforced,    \* history: batches queued without force
  link,        \* "up" | "down": the transport of the current client
  gen,         \* which client set_pci installed last
  held,        \* the client the command worker cloned
  attempts,    \* failed attempts of connect_with_retry
  accepted,    \* history: commands handed to the lane
  handled,     \* history: commands sent, failed or refused
  left         \* Inputs -> how many are left

broker == <<lightConf, sensorConf, state, sensor>>
pub == <<pc, grp, rep, todo>>
outVars == <<commands, sweeps, probing, swept, unforced, held, accepted, handled>>
linkVars == <<link, gen, attempts>>
inVars == <<events, slots, left>>
vars == <<db, broker, pub, outVars, linkVars, inVars>>

\* std::process::exit ends every task.
Exit == pc' = [a \in Actor |-> "exited"]
exited == pc["pump"] = "exited"

-----------------------------------------------------------------------------
(* Publishing: publish_light, check_published and mqtt_light_* *)

\* publish_light: only on_connected passes the labels.
Name(a, g) == IF a \in ConnTask /\ g \in Labelled THEN "label" ELSE "default"

Step(a, label) == pc' = [pc EXCEPT ![a] = label]

\* Mutant of Check: the group is marked before its configs are published.
CheckClaims(a) ==
  /\ pc[a] = "check"
  /\ Step(a, IF db[grp[a]] THEN "state" ELSE "lightConf")
  /\ db' = [db EXCEPT ![grp[a]] = TRUE]
  /\ UNCHANGED <<broker, grp, rep, todo, outVars, linkVars, inVars>>

\* check_published: an unknown group gets its discovery config first.
Check(a) ==
  /\ pc[a] = "check"
  /\ Step(a, IF db[grp[a]] THEN "state" ELSE "lightConf")
  /\ UNCHANGED <<db, broker, grp, rep, todo, outVars, linkVars, inVars>>

PublishLightConf(a) ==
  /\ pc[a] = "lightConf"
  /\ lightConf' = [lightConf EXCEPT ![grp[a]] = Name(a, grp[a])]
  /\ Step(a, "sensorConf")
  /\ UNCHANGED <<db, sensorConf, state, sensor, grp, rep, todo, outVars,
                 linkVars, inVars>>

\* The group is marked once both configs are out.
PublishSensorConf(a) ==
  /\ pc[a] = "sensorConf"
  /\ sensorConf' = [sensorConf EXCEPT ![grp[a]] = Name(a, grp[a])]
  /\ db' = [db EXCEPT ![grp[a]] = TRUE]
  /\ Step(a, IF a \in ConnTask THEN "announce" ELSE "state")
  /\ UNCHANGED <<lightConf, state, sensor, grp, rep, todo, outVars, linkVars,
                 inVars>>

PublishState(a) ==
  /\ pc[a] = "state"
  /\ state' = [state EXCEPT ![grp[a]] = rep[a]]
  /\ Step(a, "sensor")
  /\ UNCHANGED <<db, lightConf, sensorConf, sensor, grp, rep, todo, outVars,
                 linkVars, inVars>>

PublishSensor(a) ==
  /\ pc[a] = "sensor"
  /\ sensor' = [sensor EXCEPT ![grp[a]] = IF rep[a].lit THEN "ON" ELSE "OFF"]
  /\ rep' = [rep EXCEPT ![a] = Missing]
  /\ IF a = "pump"
     THEN Step(a, "slots") /\ grp' = [grp EXCEPT ![a] = (@ + 1) % Groups]
     ELSE Step(a, "idle") /\ grp' = [grp EXCEPT ![a] = 0]
  /\ UNCHANGED <<db, lightConf, sensorConf, state, todo, outVars, linkVars,
                 inVars>>

-----------------------------------------------------------------------------
(* Sweeps: queue_configured_status_requests and the sweep worker *)

\* configured_status_blocks: without labels all groups; with labels those, the
\* last group being the project files' pseudo-group.  A batch without real
\* groups is not sent.
Probes == IF Labelled = {} THEN 0..Groups - 1 ELSE Labelled \ {Groups - 1}

\* Mutant of QueueSweep: the flag is read but never set.
QueueSweepUnflagged(force) ==
  IF ~force /\ swept
  THEN UNCHANGED <<sweeps, swept, unforced>>
  ELSE /\ sweeps' = IF Probes = {} THEN sweeps ELSE sweeps + 1
       /\ unforced' = IF force THEN unforced ELSE unforced + 1
       /\ UNCHANGED swept

\* Once per process unless forced; the flag is swapped atomically.
QueueSweep(force) ==
  IF ~force /\ swept
  THEN UNCHANGED <<sweeps, swept, unforced>>
  ELSE /\ sweeps' = IF Probes = {} THEN sweeps ELSE sweeps + 1
       /\ swept' = IF force THEN swept ELSE TRUE
       /\ unforced' = IF force THEN unforced ELSE unforced + 1

Resync ==
  /\ ~exited /\ left["resyncs"] > 0
  /\ left' = [left EXCEPT !["resyncs"] = @ - 1]
  /\ QueueSweep(TRUE)
  /\ UNCHANGED <<db, broker, pub, commands, probing, held, accepted, handled,
                 linkVars, events, slots>>

\* One batch at a time; a failed request is ignored.
TakeSweep ==
  /\ ~exited /\ ~probing /\ sweeps > 0
  /\ probing' = TRUE
  /\ sweeps' = sweeps - 1
  /\ UNCHANGED <<db, broker, pub, commands, swept, unforced, held, accepted,
                 handled, linkVars, inVars>>

SweepSent ==
  /\ ~exited /\ probing
  /\ probing' = FALSE
  /\ UNCHANGED <<db, broker, pub, commands, sweeps, swept, unforced, held,
                 accepted, handled, linkVars, inVars>>

-----------------------------------------------------------------------------
(* MQTT: on_connected, handle_publish and the command worker *)

\* ConnAck: the task subscribes, publishes the meta config and starts on the
\* labelled groups.
OnConnected(k) ==
  /\ pc[k] = "idle"
  /\ Step(k, "announce")
  /\ UNCHANGED <<db, broker, grp, rep, todo, outVars, linkVars, inVars>>

\* The next labelled group, in ascending order ...
Announce(k) ==
  /\ pc[k] = "announce" /\ todo[k] # {}
  /\ \E g \in todo[k] :
       /\ \A h \in todo[k] : g <= h
       /\ grp' = [grp EXCEPT ![k] = g]
       /\ todo' = [todo EXCEPT ![k] = @ \ {g}]
  /\ Step(k, "lightConf")
  /\ UNCHANGED <<db, broker, rep, outVars, linkVars, inVars>>

\* ... and after the last one the sweep.
Announced(k) ==
  /\ pc[k] = "announce" /\ todo[k] = {}
  /\ Step(k, "done")
  /\ QueueSweep(FALSE)
  /\ UNCHANGED <<db, broker, grp, rep, todo, commands, probing, held, accepted,
                 handled, linkVars, inVars>>

\* handle_publish: a retained or malformed command goes nowhere, so only the
\* others are inputs here.  ok is FALSE for an application outside 0x30..0x5F.
HandlePublish(g, r, ok) ==
  /\ ~exited /\ accepted < MaxCommands
  /\ accepted' = accepted + 1
  /\ commands' = Append(commands, [group |-> g, report |-> r, ok |-> ok])
  /\ UNCHANGED <<db, broker, pub, sweeps, probing, swept, unforced, held, handled,
                 linkVars, inVars>>

\* The worker takes a command and clones the current client.
TakeCommand ==
  /\ pc["worker"] = "idle" /\ commands # <<>>
  /\ commands' = Tail(commands)
  /\ IF Head(commands).ok
     THEN /\ grp' = [grp EXCEPT !["worker"] = Head(commands).group]
          /\ rep' = [rep EXCEPT !["worker"] = Head(commands).report]
          /\ held' = gen
          /\ Step("worker", "sending")
          /\ UNCHANGED handled
     ELSE handled' = handled + 1 /\ UNCHANGED <<pc, grp, rep, held>>
  /\ UNCHANGED <<db, broker, todo, sweeps, probing, swept, unforced, accepted,
                 linkVars, inVars>>

\* Mutant of SendCommand: a failed send is repeated on the same client.
SendCommandInsists ==
  /\ pc["worker"] = "sending"
  /\ held = gen /\ link = "up"
  /\ handled' = handled + 1
  /\ Step("worker", "check")
  /\ UNCHANGED <<db, broker, grp, rep, todo, commands, sweeps, probing, swept,
                 unforced, held, accepted, linkVars, inVars>>

\* switch_light: the echo follows a send that succeeded.  On a client whose
\* link is gone the write may still be buffered, or fail.
SendCommand ==
  /\ pc["worker"] = "sending"
  /\ handled' = handled + 1
  /\ \/ Step("worker", "check")
     \/ (held # gen \/ link = "down") /\ Step("worker", "idle")
  /\ UNCHANGED <<db, broker, grp, rep, todo, commands, sweeps, probing, swept,
                 unforced, held, accepted, linkVars, inVars>>

-----------------------------------------------------------------------------
(* C-Bus: the reader's events, the event pump and reconnection *)

\* The reader task sends a lighting event (one slot) or a status report block
\* (several, some missing), starting at group g; or a clock request.
LightEvent(g, block) ==
  /\ link = "up" /\ left["events"] > 0
  /\ left' = [left EXCEPT !["events"] = @ - 1]
  /\ events' = Append(events, [kind |-> "light", at |-> g, block |-> block])
  /\ UNCHANGED <<db, broker, pub, outVars, linkVars, slots>>

ClockRequest ==
  /\ link = "up" /\ left["events"] > 0
  /\ left' = [left EXCEPT !["events"] = @ - 1]
  /\ events' = Append(events, [kind |-> "clock", at |-> 0, block |-> <<>>])
  /\ UNCHANGED <<db, broker, pub, outVars, linkVars, slots>>

\* End of file: the reader's last event.
LinkLost ==
  /\ link = "up" /\ left["losses"] > 0
  /\ left' = [left EXCEPT !["losses"] = @ - 1]
  /\ link' = "down"
  /\ events' = Append(events, [kind |-> "lost", at |-> 0, block |-> <<>>])
  /\ UNCHANGED <<db, broker, pub, outVars, gen, attempts, slots>>

\* The pump takes an event.  A clock request is answered on the wire only;
\* a lost connection forgets what was published and then reconnects or exits.
TakeEvent ==
  /\ pc["pump"] = "idle" /\ events # <<>>
  /\ events' = Tail(events)
  /\ LET e == Head(events)
     IN \/ /\ e.kind = "light"
           /\ slots' = e.block
           /\ grp' = [grp EXCEPT !["pump"] = e.at]
           /\ Step("pump", "slots")
           /\ UNCHANGED <<db, attempts>>
        \/ /\ e.kind = "clock"
           /\ UNCHANGED <<db, pc, grp, slots, attempts>>
        \/ /\ e.kind = "lost"
           /\ db' = [g \in Group |-> FALSE]
           /\ attempts' = 0
           /\ IF Reconnect THEN Step("pump", "connect") ELSE Exit
           /\ UNCHANGED <<grp, slots>>
  /\ UNCHANGED <<broker, rep, todo, outVars, link, gen, left>>

\* Mutant of NextSlot: the group counter does not wrap.
NextSlotNoWrap ==
  /\ pc["pump"] = "slots" /\ slots # <<>>
  /\ slots' = Tail(slots)
  /\ IF Head(slots) = Missing
     THEN /\ grp' = [grp EXCEPT !["pump"] = @ + 1]
          /\ UNCHANGED <<pc, rep>>
     ELSE /\ rep' = [rep EXCEPT !["pump"] = Head(slots)]
          /\ Step("pump", "check")
          /\ UNCHANGED grp
  /\ UNCHANGED <<db, broker, todo, outVars, linkVars, events, left>>

\* The next slot of the block: a missing one only advances the group counter,
\* which wraps around.
NextSlot ==
  /\ pc["pump"] = "slots" /\ slots # <<>>
  /\ slots' = Tail(slots)
  /\ IF Head(slots) = Missing
     THEN /\ grp' = [grp EXCEPT !["pump"] = (@ + 1) % Groups]
          /\ UNCHANGED <<pc, rep>>
     ELSE /\ rep' = [rep EXCEPT !["pump"] = Head(slots)]
          /\ Step("pump", "check")
          /\ UNCHANGED grp
  /\ UNCHANGED <<db, broker, todo, outVars, linkVars, events, left>>

\* The block is relayed: back to the channel.
BlockDone ==
  /\ pc["pump"] = "slots" /\ slots = <<>>
  /\ Step("pump", "idle")
  /\ grp' = [grp EXCEPT !["pump"] = 0]
  /\ UNCHANGED <<db, broker, rep, todo, outVars, linkVars, inVars>>

\* connect_with_retry: a new client replaces the old one and asks for the
\* (deduplicated) sweep.
ConnectOk ==
  /\ pc["pump"] = "connect"
  /\ link' = "up"
  /\ gen' = gen + 1
  /\ QueueSweep(FALSE)
  /\ Step("pump", "idle")
  /\ UNCHANGED <<db, broker, grp, rep, todo, commands, probing, held, accepted,
                 handled, attempts, inVars>>

\* Mutant of ConnectFail: the counter starts over instead of ending the process.
ConnectFailStartsOver ==
  /\ pc["pump"] = "connect"
  /\ attempts' = IF attempts + 1 >= MaxReconnect THEN 0 ELSE attempts + 1
  /\ UNCHANGED <<db, broker, pub, outVars, link, gen, inVars>>

\* The last allowed attempt ends the process.  Unlimited attempts are not
\* counted: their number decides nothing.
ConnectFail ==
  /\ pc["pump"] = "connect"
  /\ IF MaxReconnect = 0
     THEN UNCHANGED <<attempts, pc>>
     ELSE /\ attempts' = attempts + 1
          /\ IF attempts' >= MaxReconnect THEN Exit ELSE UNCHANGED pc
  /\ UNCHANGED <<db, broker, grp, rep, todo, outVars, link, gen, inVars>>

\* All inputs are used up and every task waits, or the process is gone.
Rest ==
  /\ \/ exited
     \/ /\ pc["pump"] = "idle" /\ events = <<>>
        /\ pc["worker"] = "idle" /\ commands = <<>>
        /\ \A k \in ConnTask : pc[k] = "done"
        /\ ~probing /\ sweeps = 0
        /\ accepted = MaxCommands
        /\ left["events"] = 0 /\ left["losses"] = 0 /\ left["resyncs"] = 0
  /\ UNCHANGED vars

-----------------------------------------------------------------------------

\* main: the endpoint is connected before anything else starts.
Init ==
  /\ db = [g \in Group |-> FALSE]
  /\ lightConf = [g \in Group |-> "none"] /\ sensorConf = lightConf
  /\ state = [g \in Group |-> Missing] /\ sensor = [g \in Group |-> "none"]
  /\ pc = [a \in Actor |-> "idle"]
  /\ grp = [a \in Actor |-> 0] /\ rep = [a \in Actor |-> Missing]
  /\ todo = [k \in ConnTask |-> Labelled]
  /\ commands = <<>> /\ sweeps = 0 /\ probing = FALSE
  /\ swept = FALSE /\ unforced = 0
  /\ held = 0 /\ accepted = 0 /\ handled = 0
  /\ link = "up" /\ gen = 0 /\ attempts = 0
  /\ events = <<>> /\ slots = <<>>
  /\ left = [i \in Inputs |-> CASE i = "events" -> MaxEvents
                                [] i = "losses" -> MaxLosses
                                [] i = "resyncs" -> MaxResyncs]

Publish(a) ==
  \/ Check(a) \/ PublishLightConf(a) \/ PublishSensorConf(a)
  \/ PublishState(a) \/ PublishSensor(a)

ConnNext(k) == OnConnected(k) \/ Announce(k) \/ Announced(k) \/ Publish(k)
Worker == TakeCommand \/ SendCommand \/ Publish("worker")
Pump ==
  \/ TakeEvent \/ NextSlot \/ BlockDone \/ Publish("pump")
  \/ ConnectOk \/ ConnectFail
Sweeper == TakeSweep \/ SweepSent
Input ==
  \/ \E g \in Group, b \in Blocks : LightEvent(g, b)
  \/ ClockRequest \/ LinkLost \/ Resync
  \/ \E g \in Group, r \in Reports, ok \in BOOLEAN : HandlePublish(g, r, ok)

Next ==
  \/ \E k \in ConnTask : ConnNext(k)
  \/ Worker \/ Pump \/ Sweeper \/ Input \/ Rest

Spec == Init /\ [][Next]_vars

\* The runtime polls every task that is ready, and publishes, sends and
\* connection attempts end.  Nothing is assumed of inputs, of link losses or
\* of which way an attempt or a send ends.
FairSpec ==
  /\ Spec
  /\ WF_vars(Worker)
  /\ WF_vars(Pump)
  /\ WF_vars(Sweeper)
  /\ \A k \in ConnTask : WF_vars(ConnNext(k))

-----------------------------------------------------------------------------

Config == {"none", "default", "label"}
Label == {"idle", "slots", "check", "lightConf", "sensorConf", "state", "sensor",
          "connect", "sending", "announce", "done", "exited"}

TypeOK ==
  /\ db \in [Group -> BOOLEAN]
  /\ lightConf \in [Group -> Config] /\ sensorConf \in [Group -> Config]
  /\ state \in [Group -> Reports \cup {Missing}]
  /\ sensor \in [Group -> {"none", "ON", "OFF"}]
  /\ pc \in [Actor -> Label]
  /\ grp \in [Actor -> Group] /\ rep \in [Actor -> Reports \cup {Missing}]
  /\ todo \in [ConnTask -> SUBSET Labelled]
  /\ events \in Seq([kind : {"light", "clock", "lost"}, at : Group,
                     block : Seq(Reports \cup {Missing})])
  /\ slots \in Seq(Reports \cup {Missing})
  /\ commands \in Seq([group : Group, report : Reports, ok : BOOLEAN])
  /\ sweeps \in Nat /\ probing \in BOOLEAN /\ swept \in BOOLEAN /\ unforced \in Nat
  /\ link \in {"up", "down"} /\ gen \in Nat /\ held \in Nat
  /\ attempts \in Nat
  /\ accepted \in Nat /\ handled \in Nat
  /\ left \in [Inputs -> Nat]

\* Both discovery configs of a light are out.
Discovered(g) == lightConf[g] # "none" /\ sensorConf[g] # "none"

\* "config must precede the state publish": no light has a retained state
\* before both its discovery configs are out, whichever task publishes them
\* and whenever group_db is cleared (check_published, publish_light).
StateHasConfig ==
  \A g \in Group : state[g] # Missing => Discovered(g)

\* Why StateHasConfig holds: group_db marks a group only after both configs, a
\* task that has published one config goes on to the other, and a task reaches
\* its state publish only for a marked or just announced group.
ConfigInv ==
  /\ TypeOK
  /\ \A g \in Group : db[g] => Discovered(g)
  /\ \A b \in Actor : pc[b] = "sensorConf" => lightConf[grp[b]] # "none"
  /\ \A b \in Actor : pc[b] = "state" => Discovered(grp[b])
  /\ StateHasConfig

\* "the configured sweep runs once per process": broker connections and
\* reconnects together queue one unforced sweep (status_requests_queued).
SweepOnce == unforced <= 1

\* Why SweepOnce holds: an unforced sweep leaves the flag set for good.
SweepInv == SweepOnce /\ unforced \in Nat /\ (unforced > 0 => swept)

\* Every command the lane accepted is sent, fails or is refused: a dead or
\* replaced client holds up no later command (spawn_workers, switch_light).
CommandsHandled ==
  \A n \in 1..MaxCommands : accepted >= n ~> (handled >= n \/ exited)

\* A lost connection comes back or ends the process, when the number of
\* attempts is limited (cbus_event_pump, connect_with_retry).
ReconnectsOrExits == link = "down" ~> (link = "up" \/ exited)

\* The code does not keep this one (README, "Where the code departs"):
\* "the name used when the project file has no label": a light that is
\* announced under its label never gets the default name back
\* (check_published republishes without labels once group_db is cleared).
LabelsKept ==
  [][\A g \in Group : lightConf[g] = "label" => lightConf'[g] = "label"]_vars

\* "on/off as a binary sensor": when no task is publishing, the retained
\* sensor shows the report that the retained state shows (mqtt_light_on,
\* mqtt_light_off, mqtt_light_ramp, mqtt_light_binary_state).
SensorAgreesWithState ==
  (\A a \in {"pump", "worker"} : pc[a] # "sensor")
    => \A g \in Group : state[g] # Missing =>
         sensor[g] = IF state[g].lit THEN "ON" ELSE "OFF"

=============================================================================
