------------------------------ MODULE PyGateway ------------------------------
(***************************************************************************)
(* The Python MQTT daemon: cbus/daemon/mqtt_gateway.py (CBusHandler and    *)
(* MqttClient), cbus/toolkit/periodic.py (the throttler) and `_main` of    *)
(* cbus/daemon/cmqttd.py.                                                  *)
(*                                                                         *)
(* One asyncio loop runs everything, so a step reaches to the next         *)
(* suspension.  A throttled action starts a task that sleeps for           *)
(* PACKET_SEND_DELAY_SECONDS before it writes; a command publishes the new *)
(* state in the step that writes it.  Every publish is a task of its own,  *)
(* and the loop runs these tasks in the order they were made.              *)
(*                                                                         *)
(* Codes and the limit on attempts are the subject of PyPci; here a        *)
(* command that is not confirmed may be sent again for as long as the PCI  *)
(* client keeps it.  The broker, its clients and the C-Bus units are       *)
(* external.                                                               *)
(***************************************************************************)
EXTENDS Integers, Sequences, FiniteSets

CONSTANTS
  App,           \* LightingApplication.supported_applications()
  Exists,        \* the <<application, group>> pairs the installation has
  Labelled,      \* the pairs the project file names
  Topics,        \* what the middle of a light topic spells, as numbers
  Payloads,      \* what clients publish to set topics
  Levels,        \* the levels C-Bus units set
  QueueCap,      \* Periodic: max_queue_size (1000)
  Esp32,         \* TRUE for --esp32-*, FALSE for --tcp
  NoClock,       \* --no-clock
  MaxInputs      \* bound on messages, events, clock requests and faults together

Lighting == 56                    \* Application.LIGHTING
Group == 0..255

-----------------------------------------------------------------------------
(* Topics, payloads and what is published of a light *)

\* ga_string: the lighting application keeps its short form.
GaString(a) == IF a[1] = Lighting THEN <<a[2]>> ELSE a

\* get_topic_group_address; check_ga refuses a group out of range.
GetTopicGroupAddress(t) ==
  IF Len(t) > 1 THEN <<t[1], t[2]>> ELSE <<Lighting, t[1]>>

GoodTopic(t) == GetTopicGroupAddress(t)[2] \in Group

\* A topic spells at least a group, and the model knows every pair a topic names.
ASSUME PyGatewayAssumption ==
  /\ App \subseteq Nat /\ IsFiniteSet(App)
  /\ Exists \subseteq App \X Group /\ Labelled \subseteq Exists
  /\ Topics \subseteq Seq(Nat) \ {<<>>} /\ Levels \subseteq 0..255
  /\ \A t \in Topics : GoodTopic(t) => GetTopicGroupAddress(t) \in Exists
  /\ Payloads \subseteq [parses : {"yes", "no", "raises"}, on : BOOLEAN, brightness : Int]
  /\ QueueCap \in Nat \ {0} /\ Esp32 \in BOOLEAN /\ NoClock \in BOOLEAN
  /\ MaxInputs \in Nat

\* The state topic's payload, for a level in 0..255.
Report(word, level) == [word |-> word, level |-> level]
Unknown == Report("none", 0)

\* on_level_report chooses off, on or ramp; lighting_group_* fix the payload.
ReportOf(level) == Report(IF level = 0 THEN "OFF" ELSE "ON", level)

\* publish_binary_sensor
SensorOf(report) == IF report.level > 0 THEN "ON" ELSE "OFF"

Clamp(n) == IF n < 0 THEN 0 ELSE IF n > 255 THEN 255 ELSE n

\* _handle_message and switchLight: what a command with this payload sends and
\* publishes.  Fade time is left out: it only chooses between on and ramp.
Asked(p) == IF p.on THEN Report("ON", Clamp(p.brightness)) ELSE Report("OFF", 0)

\* What is queued, sent or published: Periodic's actions ...
Status(app) == [kind |-> "status", to |-> <<app, 0>>, report |-> Unknown]
Command(a, r) == [kind |-> "command", to |-> a, report |-> r]
Clock == [kind |-> "clock", to |-> <<0, 0>>, report |-> Unknown]

\* ... and MqttClient's publishes: a light's config, with or without its label,
\* its state, or the state of its binary sensor.
Publication(kind, a, r) == [kind |-> kind, to |-> a, report |-> r]

VARIABLES
  main,       \* _main: "broker" | "serving" | "waiting" | "closing" |
              \* "stopping" | "done"
  broker,     \* the MQTT connection: "none" | "up" | "gone"
  dispatcher, \* _dispatcher_task: "none" | "running" | "crashed" | "cancelled"
  running,    \* Periodic.running
  queue,      \* Periodic.queue
  sleeping,   \* sends in _send_packet's delay, oldest first
  api,        \* CBusHandler.mqtt_api is set
  closing,    \* CBusHandler._is_closing
  open,       \* PCIProtocol._transport is set
  lost,       \* the connection_lost future is done
  db,         \* MqttClient.groupDB
  conf,       \* broker, retained light config: "none" | "default" | "label"
  state,      \* broker, retained state of a light
  sensor,     \* broker, retained state of its binary sensor
  bus,        \* the level of a group on the C-Bus network
  inbound,    \* reports on their way from the PCI: <<pair, level>>
  sweep,      \* status of a pair: "no" | "asked" for | "answered"
  unconfirmed,\* commands written and neither confirmed nor given up
  outbox,     \* publish tasks that have not run, oldest first
  asked,      \* history: the last accepted command of a pair, Unknown once
              \* an event or a fault may have overruled it
  amiss,      \* history: the last command of a pair was written in vain, or
              \* an older one was sent again since
  answered,   \* history: a clock request was answered
  left        \* inputs left

retainedVars == <<conf, state, sensor>>
mqttVars == <<db, retainedVars, outbox>>
handlerVars == <<api, closing, open, lost>>
netVars == <<bus, inbound, sweep>>
sentVars == <<unconfirmed, amiss>>
vars == <<main, broker, dispatcher, running, queue, sleeping, handlerVars,
          mqttVars, netVars, sentVars, asked, answered, left>>

Use == left > 0 /\ left' = left - 1

-----------------------------------------------------------------------------
(* Publishing *)

\* publish_light without the labels, if check_published does not know the group.
CheckPublished(a) == IF a \in db THEN <<>> ELSE << Publication("default", a, Unknown) >>

\* Mutant of Publish: a group counts as announced from the start.
PublishUnannounced(a, r) ==
  /\ db' = db \cup {a}
  /\ outbox' = outbox \o << Publication("state", a, r), Publication("sensor", a, r) >>

\* lighting_group_on/off/ramp of MqttClient: up to three tasks.
Publish(a, r) ==
  /\ db' = db \cup {a}
  /\ outbox' = outbox \o CheckPublished(a)
                \o << Publication("state", a, r), Publication("sensor", a, r) >>

\* The items of S in some order.
Listing(S) == CHOOSE s \in [1..Cardinality(S) -> S] : {s[i] : i \in DOMAIN s} = S

\* publish_all_lights with publish_light: the project file's groups.
PublishAllLights ==
  /\ db' = db \cup Labelled
  /\ outbox' = outbox \o Listing({Publication("label", a, Unknown) : a \in Labelled})

\* The oldest publish task runs.  With a broker that is gone it fails, and
\* nobody reads its exception.
RunPublish ==
  /\ outbox # <<>> /\ outbox' = Tail(outbox)
  /\ LET p == Head(outbox)
     IN IF broker = "up"
        THEN /\ conf' = IF p.kind \in {"default", "label"} THEN [conf EXCEPT ![p.to] = p.kind]
                                                           ELSE conf
             /\ state' = IF p.kind = "state" THEN [state EXCEPT ![p.to] = p.report] ELSE state
             /\ sensor' = IF p.kind = "sensor" THEN [sensor EXCEPT ![p.to] = SensorOf(p.report)]
                                              ELSE sensor
        ELSE UNCHANGED retainedVars
  /\ UNCHANGED <<main, broker, dispatcher, running, queue, sleeping, handlerVars, db,
                 netVars, sentVars, asked, answered, left>>

-----------------------------------------------------------------------------
(* The throttler *)

\* Periodic.enqueue, once for each item; a full queue drops the item.
Enqueue(items) ==
  LET all == queue \o items
  IN queue' = CASE ~running -> queue
                [] running /\ Len(all) <= QueueCap -> all
                [] running /\ Len(all) > QueueCap -> SubSeq(all, 1, QueueCap)

\* queue_status_requests for every supported application (8 blocks of 32
\* groups in the code, one here).
StatusRequests == Listing({Status(app) : app \in App})

Forget(a) == asked' = [asked EXCEPT ![a] = Unknown]

\* Mutant of Work: the last action first.
WorkLast ==
  /\ running /\ queue # <<>>
  /\ queue' = SubSeq(queue, 1, Len(queue) - 1)
  /\ LET item == queue[Len(queue)]
     IN IF open THEN sleeping' = Append(sleeping, item) /\ UNCHANGED asked
        ELSE /\ UNCHANGED sleeping
             /\ IF item.kind = "command" THEN Forget(item.to) ELSE UNCHANGED asked
  /\ UNCHANGED <<main, broker, dispatcher, running, handlerVars, mqttVars, netVars,
                 sentVars, answered, left>>

\* _work starts the task of the oldest action; without a transport the task
\* ends with an IOError nobody reads.
Work ==
  /\ running /\ queue # <<>>
  /\ queue' = Tail(queue)
  /\ LET item == Head(queue)
     IN IF open THEN sleeping' = Append(sleeping, item) /\ UNCHANGED asked
        ELSE /\ UNCHANGED sleeping
             /\ IF item.kind = "command" THEN Forget(item.to) ELSE UNCHANGED asked
  /\ UNCHANGED <<main, broker, dispatcher, running, handlerVars, mqttVars, netVars,
                 sentVars, answered, left>>

\* The delay is over: the frame is written, and switchLight publishes.  A
\* write to a transport that closed meanwhile goes nowhere and raises nothing,
\* and one that is lost on its way leaves the network as it is.
WriteCommand(item) ==
  /\ \E reached \in BOOLEAN :
       /\ bus' = IF open /\ reached THEN [bus EXCEPT ![item.to] = item.report.level] ELSE bus
       /\ amiss' = [amiss EXCEPT ![item.to] = ~(open /\ reached)]
  /\ unconfirmed' = IF open THEN unconfirmed \cup {item} ELSE unconfirmed
  /\ Publish(item.to, item.report)
  /\ UNCHANGED <<inbound, sweep, answered>>

\* A status request has no confirmation code: it is sent once, and answered or not.
WriteStatus(item) ==
  /\ sweep' = [a \in Exists |-> IF open /\ a[1] = item.to[1] /\ sweep[a] = "no"
                                THEN "asked" ELSE sweep[a]]
  /\ UNCHANGED <<bus, inbound, sentVars, db, outbox, answered>>

WriteClock ==
  /\ answered' = (answered \/ open)
  /\ UNCHANGED <<netVars, sentVars, db, outbox>>

Write ==
  /\ sleeping # <<>>
  /\ sleeping' = Tail(sleeping)
  /\ LET item == Head(sleeping)
     IN \/ item.kind = "command" /\ WriteCommand(item)
        \/ item.kind = "status" /\ WriteStatus(item)
        \/ item.kind = "clock" /\ WriteClock
  /\ UNCHANGED <<main, broker, dispatcher, running, queue, handlerVars, retainedVars,
                 asked, left>>

\* The retry task sends a command again whose confirmation has not come,
\* whatever was sent to its group since.
Resend(item) ==
  /\ open /\ item \in unconfirmed
  /\ bus' = [bus EXCEPT ![item.to] = item.report.level]
  /\ amiss' = [amiss EXCEPT ![item.to] = asked[item.to] # item.report]
  /\ UNCHANGED <<main, broker, dispatcher, running, queue, sleeping, handlerVars,
                 mqttVars, inbound, sweep, unconfirmed, asked, answered, left>>

\* A command is confirmed, or given up after MAX_PACKET_RETRIES attempts.
Settle(item) ==
  /\ item \in unconfirmed /\ unconfirmed' = unconfirmed \ {item}
  /\ UNCHANGED <<main, broker, dispatcher, running, queue, sleeping, handlerVars,
                 mqttVars, netVars, amiss, asked, answered, left>>

-----------------------------------------------------------------------------
(* Messages from the broker *)

\* _handle_message under _dispatcher_loop.  Bad topics, bad JSON, a missing
\* state and fields of most wrong types are logged; a state that is not text
\* or an infinite brightness raises an exception that is not caught there and
\* ends the loop.
HandleMessage(t, p) ==
  /\ dispatcher = "running" /\ broker = "up" /\ Use
  /\ IF GoodTopic(t) /\ p.parses = "yes"
     THEN LET a == GetTopicGroupAddress(t)
          IN /\ Enqueue(<<Command(a, Asked(p))>>)
             /\ asked' = [asked EXCEPT ![a] =
                            IF Len(queue) < QueueCap THEN Asked(p) ELSE @]
     ELSE UNCHANGED <<queue, asked>>
  /\ dispatcher' = IF GoodTopic(t) /\ p.parses = "raises" THEN "crashed" ELSE dispatcher
  /\ UNCHANGED <<main, broker, running, sleeping, handlerVars, mqttVars, netVars,
                 sentVars, answered>>

\* The broker goes away: the message iterator raises, the loop ends, and
\* nothing starts it again.
BrokerLost ==
  /\ broker = "up" /\ main \in {"serving", "waiting"} /\ Use
  /\ broker' = "gone"
  /\ dispatcher' = IF dispatcher = "running" THEN "crashed" ELSE dispatcher
  /\ UNCHANGED <<main, running, queue, sleeping, handlerVars, mqttVars, netVars,
                 sentVars, asked, answered>>

-----------------------------------------------------------------------------
(* Events from the C-Bus network *)

\* A unit switches or dims a group; the PCI passes the event on.
UnitSets(a, level) ==
  /\ Use
  /\ bus' = [bus EXCEPT ![a] = level]
  /\ inbound' = IF open THEN Append(inbound, <<a, level>>) ELSE inbound
  /\ Forget(a)
  /\ UNCHANGED <<main, broker, dispatcher, running, queue, sleeping, handlerVars,
                 mqttVars, sweep, sentVars, answered>>

\* A status request that was not lost is answered, group by group.
UnitReports(a) ==
  /\ open /\ sweep[a] = "asked"
  /\ sweep' = [sweep EXCEPT ![a] = "answered"]
  /\ inbound' = Append(inbound, <<a, bus[a]>>)
  /\ UNCHANGED <<main, broker, dispatcher, running, queue, sleeping, handlerVars,
                 mqttVars, bus, sentVars, asked, answered, left>>

\* on_lighting_group_on/off/ramp of CBusHandler, and on_level_report for each
\* group it reports.
Relay ==
  /\ inbound # <<>> /\ inbound' = Tail(inbound)
  /\ IF api /\ ~closing
     THEN LET a == Head(inbound)[1]
          IN Publish(a, ReportOf(Head(inbound)[2])) /\ Forget(a)
     ELSE UNCHANGED <<db, outbox, asked>>
  /\ UNCHANGED <<main, broker, dispatcher, running, queue, sleeping, handlerVars,
                 retainedVars, bus, sweep, sentVars, answered, left>>

\* on_clock_request starts a task whatever handle_clock_requests says.
OnClockRequest ==
  /\ Use /\ open
  /\ sleeping' = IF closing THEN sleeping ELSE Append(sleeping, Clock)
  /\ UNCHANGED <<main, broker, dispatcher, running, queue, handlerVars, mqttVars,
                 netVars, sentVars, asked, answered>>

\* Mutant of ConnectionLost: the future is left unresolved.
ConnectionLostUnsignalled ==
  /\ open /\ open' = FALSE
  /\ db' = IF api THEN {} ELSE db
  /\ api' = FALSE /\ closing' = TRUE /\ UNCHANGED lost
  /\ inbound' = <<>> /\ unconfirmed' = {} /\ asked' = [a \in Exists |-> Unknown]
  /\ UNCHANGED <<main, broker, dispatcher, running, queue, sleeping, retainedVars,
                 outbox, bus, sweep, amiss, answered>>

\* connection_lost with cleanup, then PCIProtocol's.
ConnectionLost ==
  /\ open /\ open' = FALSE
  /\ db' = IF api THEN {} ELSE db
  /\ api' = FALSE /\ closing' = TRUE /\ lost' = TRUE
  /\ inbound' = <<>> /\ unconfirmed' = {} /\ asked' = [a \in Exists |-> Unknown]
  /\ UNCHANGED <<main, broker, dispatcher, running, queue, sleeping, retainedVars,
                 outbox, bus, sweep, amiss, answered>>

\* The PCI or the network drops the connection.
LinkDrops == Use /\ main \notin {"stopping", "done"} /\ ConnectionLost

-----------------------------------------------------------------------------
(* _main.  It starts with the C-Bus connection made.                        *)

\* __aenter__ once the broker accepted: the handler is bound even if its own
\* connection was lost meanwhile.
BrokerAccepts ==
  /\ main = "broker" /\ main' = "serving"
  /\ broker' = "up" /\ dispatcher' = "running" /\ api' = TRUE
  /\ PublishAllLights
  /\ Enqueue(StatusRequests)
  /\ UNCHANGED <<running, sleeping, closing, open, lost, retainedVars, netVars, sentVars,
                 asked, answered, left>>

\* Connecting raises: the exception is logged and the daemon cleans up.
BrokerRefuses ==
  /\ main = "broker" /\ Use
  /\ main' = "closing"
  /\ UNCHANGED <<broker, dispatcher, running, queue, sleeping, handlerVars, mqttVars,
                 netVars, sentVars, asked, answered>>

\* The future is done: a TCP daemon ends, an ESP32 one waits for its
\* transport's reconnect loop.
FutureDone ==
  /\ main = "serving" /\ lost
  /\ main' = IF Esp32 THEN "waiting" ELSE "closing"
  /\ UNCHANGED <<broker, dispatcher, running, queue, sleeping, handlerVars, mqttVars,
                 netVars, sentVars, asked, answered, left>>

\* The sleep of reconnect_interval is over.  transport.is_connected still
\* holds: only handle_connection_lost and disconnect change the transport's
\* state and the daemon calls neither.  So the old protocol is bound again, with
\* a fresh future.
Rebind ==
  /\ main = "waiting"
  /\ main' = "serving" /\ api' = TRUE /\ lost' = FALSE
  /\ UNCHANGED <<broker, dispatcher, running, queue, sleeping, closing, open, mqttVars,
                 netVars, sentVars, asked, answered, left>>

\* A KeyboardInterrupt cancels _main.
Interrupt ==
  /\ main \in {"broker", "serving", "waiting"} /\ Use
  /\ main' = "closing"
  /\ UNCHANGED <<broker, dispatcher, running, queue, sleeping, handlerVars, mqttVars,
                 netVars, sentVars, asked, answered>>

\* __aexit__ cancels the dispatcher and leaves the broker; the transport is
\* closed, which ends in connection_lost; Periodic.cleanup stops the worker.
CleanUp ==
  /\ main = "closing" /\ main' = "stopping"
  /\ dispatcher' = IF dispatcher = "running" THEN "cancelled" ELSE dispatcher
  /\ broker' = IF broker = "up" THEN "gone" ELSE broker
  /\ running' = FALSE
  /\ open' = FALSE /\ lost' = TRUE /\ closing' = (closing \/ open)
  /\ api' = (api /\ ~open) /\ db' = IF api /\ open THEN {} ELSE db
  /\ inbound' = <<>> /\ unconfirmed' = {} /\ asked' = [a \in Exists |-> Unknown]
  /\ UNCHANGED <<queue, sleeping, retainedVars, outbox, bus, sweep, amiss, answered, left>>

\* Mutant of CancelTasks: tasks that are still asleep are left alone.
CancelTasksLeavesSends ==
  /\ main = "stopping" /\ main' = "done"
  /\ queue' = <<>> /\ outbox' = <<>>
  /\ UNCHANGED <<broker, dispatcher, running, sleeping, handlerVars, db, retainedVars,
                 netVars, sentVars, asked, answered, left>>

\* cleanup discards the queue, then every task left is cancelled.
CancelTasks ==
  /\ main = "stopping" /\ main' = "done"
  /\ queue' = <<>> /\ sleeping' = <<>> /\ outbox' = <<>>
  /\ UNCHANGED <<broker, dispatcher, running, handlerVars, db, retainedVars, netVars,
                 sentVars, asked, answered, left>>

Init ==
  /\ main = "broker" /\ broker = "none" /\ dispatcher = "none"
  /\ running = TRUE /\ queue = <<>> /\ sleeping = <<>>
  /\ api = FALSE /\ closing = FALSE /\ open = TRUE /\ lost = FALSE
  /\ db = {} /\ conf = [a \in Exists |-> "none"]
  /\ state = [a \in Exists |-> Unknown] /\ sensor = [a \in Exists |-> "none"]
  /\ bus = [a \in Exists |-> 0] /\ inbound = <<>>
  /\ sweep = [a \in Exists |-> "no"] /\ unconfirmed = {} /\ outbox = <<>>
  /\ amiss = [a \in Exists |-> FALSE]
  /\ asked = [a \in Exists |-> Unknown] /\ answered = FALSE
  /\ left = MaxInputs

Next ==
  \/ Work \/ Write \/ Relay \/ RunPublish
  \/ \E item \in unconfirmed : Resend(item) \/ Settle(item)
  \/ \E t \in Topics, p \in Payloads : HandleMessage(t, p)
  \/ \E a \in Exists, level \in Levels : UnitSets(a, level)
  \/ \E a \in Exists : UnitReports(a)
  \/ OnClockRequest
  \/ BrokerAccepts \/ BrokerRefuses \/ BrokerLost \/ LinkDrops
  \/ FutureDone \/ Rebind \/ Interrupt \/ CleanUp \/ CancelTasks

Spec == Init /\ [][Next]_vars

\* The event loop runs what is ready, timers fire, and a broker answers.  Nothing
\* is assumed of the C-Bus units: they may never answer.
Fairness ==
  /\ WF_vars(Work) /\ WF_vars(Write) /\ WF_vars(Relay) /\ WF_vars(RunPublish)
  /\ WF_vars(BrokerAccepts) /\ WF_vars(FutureDone) /\ WF_vars(Rebind)
  /\ WF_vars(CleanUp) /\ WF_vars(CancelTasks)

FairSpec == Spec /\ Fairness

-----------------------------------------------------------------------------
(* Properties *)

Switched == [word : {"ON", "OFF"}, level : 0..255]

CommandItem == [kind : {"command"}, to : Exists, report : Switched]
Item == {Clock} \cup {Status(app) : app \in App} \cup CommandItem
Publications == [kind : {"default", "label"}, to : Exists, report : {Unknown}]
                  \cup [kind : {"state", "sensor"}, to : Exists, report : Switched]

\* Every variable keeps its type; the throttler never holds more than its
\* limit, and a command is always for a pair the topic can name.
TypeOK ==
  /\ main \in {"broker", "serving", "waiting", "closing", "stopping", "done"}
  /\ broker \in {"none", "up", "gone"}
  /\ dispatcher \in {"none", "running", "crashed", "cancelled"}
  /\ queue \in Seq(Item) /\ Len(queue) <= QueueCap
  /\ sleeping \in Seq(Item)
  /\ {running, api, closing, open, lost, answered} \subseteq BOOLEAN
  /\ db \subseteq Exists
  /\ conf \in [Exists -> {"none", "default", "label"}]
  /\ state \in [Exists -> [word : {"none", "ON", "OFF"}, level : 0..255]]
  /\ sensor \in [Exists -> {"none", "ON", "OFF"}]
  /\ outbox \in Seq(Publications) /\ unconfirmed \subseteq CommandItem

\* The next publish task is that of the binary sensor of a.
SensorNext(a) == outbox # <<>> /\ Head(outbox).kind = "sensor" /\ Head(outbox).to = a

SensorAgrees(a) ==
  sensor[a] = IF state[a] = Unknown THEN "none" ELSE SensorOf(state[a])

\* The two retained states of a light agree: no interleaving of commands,
\* events and publish tasks leaves the sensor with another report than the
\* light, but for the moment between the two tasks.
SensorFollowsLight ==
  broker # "gone" => \A a \in Exists : SensorNext(a) \/ SensorAgrees(a)

\* Home Assistant has the discovery config of every light whose state is
\* published, also after groupDB was cleared by a lost connection.
AnnouncedFirst ==
  \A a \in Exists : state[a] # Unknown => conf[a] # "none"

\* What Home Assistant reads of a light fits together, although config, state and
\* sensor are published by tasks of their own: its discovery config is there
\* before its state, also after groupDB was cleared, and as long as the broker is
\* there its binary sensor says what its state says, or is published next
\* (publish, check_published, publish_light).
RetainedTopicsAgree == TypeOK /\ AnnouncedFirst /\ SensorFollowsLight

Quiet == queue = <<>> /\ sleeping = <<>> /\ inbound = <<>> /\ outbox = <<>>

\* Commands through the throttler take effect in the order the broker
\* delivered them: once nothing is under way the retained state is the last
\* accepted command, unless an event or a fault came since, and the network holds
\* it too, unless it was lost on its way or an older command to the group was
\* still unconfirmed and has been sent again after it.
SettledOnLastCommand ==
  Quiet => \A a \in Exists :
             asked[a] # Unknown => /\ broker = "up" => state[a] = asked[a]
                                   /\ ~amiss[a] => bus[a] = asked[a].level

\* Nothing is left to run when _main has cleaned up.
NothingLeftBehind ==
  main = "done" => /\ queue = <<>> /\ sleeping = <<>> /\ outbox = <<>>
                   /\ dispatcher # "running" /\ ~open

\* A daemon over plain TCP whose C-Bus connection is lost ends, so that its
\* supervisor can start it again.
LossEndsDaemon == (main = "serving" /\ ~open) ~> (main = "done")

\* What stops a sweep: a connection is lost or the daemon is stopped.
SweepStops == ~open \/ broker = "gone" \/ main \in {"closing", "stopping", "done"}

\* The sweep queued on connect asks for the status of every light.  The request
\* may be lost, and is not repeated.
SweepAsksForAll ==
  (main = "serving") ~> ((\A a \in Exists : sweep[a] # "no") \/ SweepStops)

\* A report that arrives gives its light a retained state.
ReportsArePublished ==
  \A a \in Exists :
    (main = "serving" /\ \E i \in DOMAIN inbound : inbound[i][1] = a)
      ~> (state[a] # Unknown \/ SweepStops)

\* The code does not keep this one (README, "Where the code departs"):
\* "Validate and extract payload fields with error handling": no message ends
\* the dispatcher while the broker is up.
DispatcherSurvives == broker = "up" => dispatcher # "crashed"

\* The code does not keep this one (README, "Where the code departs"):
\* "Do not respond to Clock Request SAL messages"
ClockSilent == NoClock => ~answered

\* The code does not keep this one (README, "Where the code departs"):
\* Once nothing is under way the network holds the last accepted command.
NetworkSettles ==
  Quiet /\ unconfirmed = {} =>
    \A a \in Exists : asked[a] # Unknown => bus[a] = asked[a].level

\* The code does not keep this one (README, "Where the code departs"):
\* The retained topics of a light agree, also once the broker went away.
SensorsAgreeForGood == outbox = <<>> => \A a \in Exists : SensorAgrees(a)

\* The code does not keep this one (README, "Where the code departs"):
\* The names of the project file stay on the lights they were given to.
LabelsStay == \A a \in Labelled : conf[a] # "default"

\* The code does not keep this one (README, "Where the code departs"):
\* "Wait for transport to reconnect (transport handles its own reconnect
\* loop)": after a loss the ESP32 daemon has a connection again or ends.
LossIsRepaired == (main = "serving" /\ ~open) ~> (open \/ main = "done")

-----------------------------------------------------------------------------
(* The invariant of the proofs *)

\* What the C-Bus network says is about known pairs and levels.
NetInv ==
  /\ bus \in [Exists -> 0..255]
  /\ inbound \in Seq(Exists \X (0..255))
  /\ asked \in [Exists -> [word : {"none", "ON", "OFF"}, level : 0..255]]
  /\ amiss \in [Exists -> BOOLEAN]

\* Item x is a command to a, or the publish of its state.
Tells(x, a) == x.kind \in {"command", "state"} /\ x.to = a

NoneTells(s, a) == \A i \in DOMAIN s : ~Tells(s[i], a)

\* The last of s to tell of a says r.
LastTells(s, a, r) ==
  \E i \in DOMAIN s : /\ Tells(s[i], a) /\ s[i].report = r
                      /\ \A j \in DOMAIN s : j > i => ~Tells(s[j], a)

\* Until the broker accepts there is no command and no published group, and
\* once _main has cleaned up nothing is accepted, started or remembered.
PhaseInv ==
  /\ broker = "none" => /\ dispatcher = "none" /\ ~api /\ db = {} /\ outbox = <<>>
                        /\ queue = <<>> /\ \A a \in Exists : NoneTells(sleeping, a)
                        /\ \A a \in Exists : asked[a] = Unknown
  /\ main = "broker" => broker = "none"
  /\ main \in {"serving", "waiting"} => broker # "none"
  /\ main \in {"stopping", "done"} => \A a \in Exists : asked[a] = Unknown
  /\ main \in {"stopping", "done"} =>
       /\ ~running /\ ~open /\ inbound = <<>>
       /\ dispatcher # "running" /\ broker # "up"
  /\ main \notin {"stopping", "done"} => running
  /\ main = "done" => queue = <<>> /\ sleeping = <<>> /\ outbox = <<>>

\* The config of a is at the broker or published before task n.
Announced(a, n) ==
  \/ conf[a] # "none"
  \/ \E j \in DOMAIN outbox : /\ j < n /\ outbox[j].to = a
                              /\ outbox[j].kind \in {"default", "label"}

\* A group in groupDB is announced, and one whose state is to be published is
\* announced before.
GroupsAnnounced ==
  broker # "gone" =>
    /\ \A a \in db : Announced(a, Len(outbox) + 1)
    /\ \A i \in DOMAIN outbox : outbox[i].kind = "state" => Announced(outbox[i].to, i)

\* The sensor's task comes right after the state's, with the same report.
TasksPair ==
  broker # "gone" =>
    \A i \in DOMAIN outbox :
      /\ outbox[i].kind = "state" =>
           /\ i + 1 \in DOMAIN outbox
           /\ outbox[i + 1] = Publication("sensor", outbox[i].to, outbox[i].report)
      /\ outbox[i].kind = "sensor" =>
           IF i = 1 THEN state[outbox[i].to] = outbox[i].report
           ELSE outbox[i - 1] = Publication("state", outbox[i].to, outbox[i].report)

\* The state of a says r, once the publish tasks have run.
Published(a, r) ==
  \/ LastTells(outbox, a, r)
  \/ NoneTells(outbox, a) /\ state[a] = r

\* The last accepted command of a pair is the last one queued, or the last one
\* in its send delay, or it has been carried out and its state is published, or
\* about to be.
CommandInv ==
  \A a \in Exists : asked[a] # Unknown =>
    \/ LastTells(queue, a, asked[a])
    \/ /\ NoneTells(queue, a) /\ open
       /\ \/ LastTells(sleeping, a, asked[a])
          \/ /\ NoneTells(sleeping, a) /\ (~amiss[a] => bus[a] = asked[a].level)
             /\ broker = "up" => Published(a, asked[a])

DaemonInv ==
  /\ RetainedTopicsAgree /\ NetInv /\ PhaseInv /\ GroupsAnnounced /\ TasksPair
  /\ CommandInv
=============================================================================
