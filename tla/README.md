# A TLA+ model of cbus

This repository bridges a Clipsal C-Bus lighting network to MQTT and Home
Assistant, twice: as the Rust daemon `cmqttd`, and as the Python package it was
ported from (`python-legacy`), which also has a proxy, a simulator, an ESP32
emulator, a web interface and a unit interrogator. The models cover both. The
ones of the Rust daemon have plain names, those of the Python programs begin
with `Py`. TLC checks the models on small instances, and TLAPS proves part of
what is checked for every value of the constants. Paths below are relative to
the repository root. `PROJECT.json` maps every definition to the lines it models
and lists the hazards each property is about.

## 1. The system and its parts

```
 Home Assistant -- MQTT broker -- [gateway.rs, main.rs] -- [pci.rs] -- [flow.rs] -- PCI/CNI -- C-Bus
                                  tasks: event pump,       init gate,   window,
                                  command worker, sweep    codes,       lanes,
                                  worker, on_connected,    retransmit   pause
                                  resync timer             task, reader
```

| part | state | operations | talks to |
|---|---|---|---|
| flow controller (`rust/cbus-transport/src/flow.rs`) | window, slots in flight, timers, three lanes | submit, submit_unwindowed, ack, pci_error, the task `run` | callers by channel and oneshot, the writer |
| PCI client (`pci.rs`) | init gate, send lane, codes in use, pending frames | send, pci_reset, retransmit task, reader loop | flow controller, event channel to the gateway |
| frame buffer (`framing.rs`) | bytes not decoded yet | feed | reader loop |
| endpoints (`conn.rs`) | none | connect, connect_with_retry | event pump |
| gateway (`rust/cmqttd/src/gateway.rs`, `main.rs`) | group_db, sweep flag, current client, two lanes | on_connected, on_cbus_event, handle_publish, switch_light, sweeps, reconnect | broker, PCI client |
| MQTT conventions (`rust/cbus-mqtt`) | none | topics, discovery payloads, /set parser, project file | gateway |
| codec (`rust/cbus-protocol`) | none | encode, decode, reports, checksums | everything |
| simulator, tools (`rust/cbus-simulator`, `rust/cbus-tools`) | simulated groups | a PCI server; one-shot readers | PCI client, codec |
| ESP32 firmware (`esp32-firmware`) | command ring, level cache, link states | a second bridge, in C++ | broker, PCI |

The Python programs share one protocol library and one style: a single asyncio
loop, protocol objects with callbacks, and `create_task` for whatever takes
time.

```
 broker -- [mqtt_gateway, throttler, cmqttd] -- [pciprotocol] -- [buffered_protocol] -- [transport] -- CNI/PCI
 browser -- [web server] ----------------------------^                                    ^  ^
 cmqttd instances -- [proxy, analyzer] ---------------------------------------------------+  |
 [interrogator] -----------------------------------------------------------------------------+
 stand-ins for the PCI: [pciserverprotocol], [simulator], [ESP32 emulator], harness [fake_pci, mini_broker]
```

| part | state | operations | talks to |
|---|---|---|---|
| PCI client (`cbus/protocol/pciprotocol.py`) | codes in use, pending confirmations | _send, confirmations, retry task, pci_reset, timesync | transport, callbacks of the daemon |
| frame buffer (`buffered_protocol.py`, `cbus_protocol.py`) | undecoded bytes | data_received | PCI client and server |
| transports (`cbus/transport`) | state, socket, lock, reconnect task | connect, disconnect, handle_connection_lost | ESP32 mode of the daemon, web interface |
| codec (`packet.py`, `pm_packet.py`, `pp_packet.py`, `application`, `cal`) | none | encode, decode | everything |
| daemon (`cbus/daemon`, `toolkit/periodic.py`) | groupDB, throttler queue, dispatcher, future | commands, events, sweeps, reconnect, clean-up | broker, PCI client |
| PCI server (`pciserverprotocol.py`) | mode options | one handler per packet | a PCI client |
| proxy (`cbus-proxy/proxy.py`) | clients, CNI connection, confirmation map | forward, broadcast, reconnect, shutdown | CNI, several clients |
| simulator (`cbus-simulator`) | hierarchy, light_states, history, clients | text and binary commands, shutdown | clients |
| ESP32 emulator (`cbus/esp32/emulator`) | groups, command log, clients | commands, status reports | clients |
| interrogator (`interrogator.py`) | one request at a time | discover_units, interrogate | CNI |
| web interface (`cbus/web/server.py`) | configuration, one connection | API handlers | transport, emulator |
| harness (`rust-migration-harness/lib`) | recorded frames, subscriptions | the scripted PCI and broker | the daemon under test |

What is hard in this code, and therefore what the properties are about:

* **flow controller.** Feedback and submissions arrive between the drain of the
  channels, the decision and the write. Replies are lost, late or unexpected.
  A `!` collapses the window while older frames are still being answered.
* **PCI client.** `send` takes a code under a lock, waits for the wire without
  one, and registers the frame afterwards. The reader and the retransmit task
  run in between. Codes are few and are taken away by age, by clean-up and by
  give-up while the frame that had them may still be in flight.
* **gateway.** Every publish is an await, and four kinds of task publish for the
  same light. `group_db`, the sweep flag and the client are shared. The link is
  lost and replaced under them.
* **Python programs.** No step is interrupted between two awaits, so everything
  hard happens across one: a value tested before an await and used after it
  (codes, `cni_connected`, `is_connected`, `groupDB`), two tasks created for one
  event, a task that is never cancelled or never restarted. Streams are cut
  anywhere, also between a CR and its LF, and a handler that raises takes the
  rest of the read with it. Replies come late. The codec's header forms overlap.

Correctness per part: *flow*: never more frames out than the window allows, a
collapse that lasts, priority, FIFO, no stall. *PCI client*: initialisation
first, call order, a bounded number of transmissions, no retransmission after
an answer, codes that come back. *Gateway*: discovery before state, one sweep
per process, labels and sensors that stay right, commands that are all dealt
with, reconnect or exit. *Python*: what its documents and comments say of each
part, listed run by run in section 3.

## 2. Modules

| module | what it is |
|---|---|
| `FlowService` | the promise of the flow controller: per lane, frames are answered once each, in order |
| `FlowControl` | `run` and `FlowState` in detail |
| `FlowControlProofs` | type correctness, collapse, admission, error and priority, and the refinement of `FlowService`, for all constants |
| `PciClient` | `send`, the allocator, the retransmit task, confirmations; uses `FlowService` as its controller |
| `PciClientProofs` | the allocator is never exhausted; init first, call order, bounds on retransmissions |
| `Gateway` | the daemon's tasks around the broker's retained topics |
| `GatewayProofs` | type correctness, discovery before state, one sweep |
| `SequenceOrder`, `SequenceOrderProofs` | order, membership and subsequences of queues; lemmas about them |
| `MCFlow`, `MCPci`, `MCGateway` | instances for TLC |
| `PyPci` | codes, confirmations and the retry task of `pciprotocol.py` |
| `PyFraming` | the receiving half: buffer, decode loop, dispatch |
| `PyTransport` | connect, disconnect and reconnect loops of `transport/base.py` |
| `PyClient` | the three above side by side |
| `PyClientProofs` | codes never run out, retries end, the decoder gets back in step after every loss, one dialler at a time, no stray connection, CONNECTED keeps its connection |
| `PyGateway` | the MQTT daemon: dispatcher, throttler, publishing, `_main` |
| `PyWeb` | the web interface and `esp32/connection.py` |
| `PyProxy`, `PyAnalyzer` | the proxy's tasks; its packet analyzer |
| `PyBridge` | daemon, web interface, proxy and analyzer side by side |
| `PyBridgeProofs` | retained topics agree, the last command wins, nothing is left open, every registered client hears every response, the analyzer's summary is right |
| `PyPciServer`, `PySim`, `PyEmulator` | the three stand-ins for a PCI |
| `PyInterrogator` | discovery and interrogation of units |
| `PyBroker` | the broker of the behavioural harness |
| `PyStandIns` | the five above side by side |
| `PyStandInsProofs` | what each of the five promises |
| `PyCodec`, `PyCal` | application messages; point-to-point packets and status reports |
| `PyCodecProofs` | the checksum catches every changed byte |
| `PyFakePci` | the scripted PCI of the behavioural harness |
| `MCPyClient`, `MCPyBridge`, `MCPyStandIns`, `MCPyCodec` | instances for TLC: safety of the Python models |
| `MCLive`, `MCPyLive` | liveness of the Rust and of the Python models |

Operators with "Mutant" in their comment are plausible bugs. `PROJECT.json`
pairs each with the definition it would replace and the property that then
fails. Variables marked "history" in a comment are read by properties only.

### FlowControl and flow.rs

The task's loop is cut wherever another task can act: `pc` is `"events"` and
`"jobs"` in the two drain loops, `"decide"` from `expire` to the gate (one
`now`, so no tick falls in between), `"writing"` during the awaited write,
`"select"` in `select!`. `jobsCh` and `eventsCh` are the channels, `queue` the
three `VecDeque`s, `result` the oneshot answers. `window`, `inFlight`,
`timeouts`, `acks`, `pause` and `gap` are the fields of `FlowState`.

Abstractions: durations are ticks that count down; the EWMA response timeout is
any value between its clamps; a frame is its lane and the response that
releases its slot; `acks` and `timeouts` saturate where the code only compares
them. `MaxEvents` bounds the responses the device sends.

### PciClient and pci.rs

One `send` call per frame. `Call` queues for the fair mutex, `Submit` is what
the lane's holder does up to the release of the lane, `Register` and
`SendFails` are the two continuations after the oneshot. The ages of codes are
the relation `older` and the set `expired`; time expires codes in age order and
makes retransmits due in any order. `Confirm` sees only the code, as the client
does, so a late answer may hit another frame's entry. Whether a device that was
sent a frame answers, and when, is free. The transport may die at any write.

The controller is `FlowService`, instantiated with one job per transmission.
`MCFlow` shows that `FlowControl` implements it, so what `PciClient` relies on
is what the controller does.

### Gateway, main.rs and conn.rs

`pc` has one entry per publishing task: the event pump, the command worker and
one `on_connected` task per broker connection. A publish is one action. The
broker's retained topics are `lightConf`, `sensorConf`, `state`, `sensor`.
Payloads are reduced to what can be told apart: a config has a label or the
default name, a report has its state word and whether the level is above zero.
(A ramp to level 0 publishes `ON` with the sensor off, as
`rust/cmqttd/tests/system_events.rs` expects.) One application is modelled, and
its last group stands for 255, the pseudo-group. `check_published` is called
twice for a slot of a level report; only the pump clears `group_db`, so the
second call always finds the first one's mark and is left out. Retained and
malformed commands go nowhere and are not inputs.

External: the broker keeps the last publish of a topic and never refuses one;
the link is up until it is lost; a send on a dead or replaced client succeeds
(buffered) or fails.

### The Python models

A step reaches from one real suspension to the next: a sleep, a dial, a read, a
drain, a lock that is taken, the start of a task made by `create_task`. An
acquisition of a free `asyncio.Lock` does not suspend and is no step. Time is a
choice: a sleep may end at any time, unless a property needs the order of two
(the interrogator's deadline is counted in ticks).

* `PyPci`: a frame is `_send`'s whole life, from the allocation of its code over
  the send delay to registration. The codes in use are a sequence, oldest first,
  as the dictionary is. A confirmation makes two tasks, and `tasks` is the order
  the loop will run them in. The retry task's `to_retry` is a snapshot. `Holding`
  are the frames that count on their codes, and the history variable `shared` says
  that a code was handed out while another frame held it.
* `PyFraming`: the stream is a fixed list of frames: lines of base16 digits with
  their CR LF, confirmations of two bytes and marks (`+`, `!`) of one, which end
  with nothing. `Complete` is what `decode_packet` consumes: a mark or a
  confirmation at the head, or all up to the first CR LF. A read takes any number of
  bytes; `Raises` are the frames whose handler raises. What a whole frame decodes to
  is `PyCodec`'s and `PyCal`'s subject. Bytes that are not one whole frame are
  refused, or raise if they are digits odd in number; that the rest of a cut line
  happens to have a right checksum (1 in 256) is left out.
* `PyTransport`: processes are the callers of connect and disconnect and the
  reconnect loops, numbered in the order they are created. Opening a socket is
  one step that succeeds or fails (a time-out is a failure). `Break` is the loss of
  the connection, which the transport does not see; `HandleConnectionLost` is the
  report of one, which the code leaves to its users, so it may never come.
* `PyGateway`: `queue` is the throttler's, `sleeping` the tasks in their send
  delay, `inbound` what the bus says. `outbox` are the tasks `publish` has made:
  config, state and sensor of a light are separate ones (the configs of a light and
  of its sensor, made one behind the other, are one). The loop starts tasks in the
  order they were made, and it is assumed of aiomqtt that `publish` hands its
  message over before it first waits; so the messages keep that order. With the
  broker gone the tasks fail.
  The broker's retained topics are the variables `conf`, `state` and `sensor`, as in
  `Gateway`. A command may be lost on its way and stays `unconfirmed` until it is
  confirmed or given up (`Settle`); meanwhile it may be sent again (`Resend`),
  after a newer one too. A status request is written once, and the units answer it
  or not (`UnitReports`). A payload is one of the shapes the validation tells apart,
  including the ones it does not catch.
* `PyWeb`: a request is a task with a program counter; the transport's state is
  as the code keeps it, the link is the truth.
* `PyProxy`: `pc` per client handler, the reader and the start-up; `clients_lock`
  is explicit, because the broadcast keeps it over every drain. `PyAnalyzer` is
  apart, since nothing it does feeds back into the relay. It sees a client's
  packet before the proxy forwards or drops it.
* `PyPciServer` includes a client that sends `pci_reset`'s frames and repeats
  what is not confirmed. While checksums are off the checksum byte is data: a
  lighting or clock message survives it, unless it reads like a clock command, and
  the others do not. `PySim` and `PyEmulator` have free clients. A read of the
  simulator may hold several commands, which it joins into one when CR LF ends the
  last (`Swallow`). A read of the emulator may end between CR and LF, and the LF
  then heads the next command (`HeadedByLF`); its clients leave at any time.
* `PyInterrogator`: a unit in `Nameless` answers with a blank type name, which
  `discover_units` skips. A line that a read cuts stays in `buf` and counts as read
  with its rest; what a cut line leaves to the next request does not decode.
* `PyCodec` and `PyCal` compose a packet message by message, encode it to bytes,
  let the wire change one, and decode. Lengths, masks, checksum and Manchester
  code are those of the code; base16 is left out, because `PyFraming` treats the
  line and the codec starts from the decoded bytes. Members of the small sets of
  messages are at the edges: zero, the largest length, values that look like
  another header.
* `PyFakePci` and `PyBroker`: a read or an MQTT packet is a step.

External to `src/`: the C-Bus wire and serial line, the peer that sends bytes,
the operating system's accept. They are free to do what their interface allows.

## 3. Runs

A run may put several models side by side. `PyClient`, `PyBridge`, `PyStandIns`,
`MCPyCodec`, `MCLive` and `MCPyLive` do; such a module declares the variables of
all of them, and a variable `scenario`, chosen in the initial state
and never changed. Only the steps of the model it names are taken; the others
rest in their initial states. The models share no variable, so a run is the sum
of its scenarios, and a property of one model is stated under its scenario.

| run | scenarios and instance | checks |
|---|---|---|
| `flow_window` | 4 commands, window 1..2, 5 device events | `TypeOK`, `PausedStaysCollapsed`, `TimeoutsKeepCollapsed`, `AdmissionWithinWindow` |
| `flow_order` | one frame per lane and one more, 2 events, failing transport, fairness | `CommandsOutrankBackground`, `ErrorStopsSends`, `ImplementsService` |
| `pci` | 3 confirmed frames in two lanes, 2 codes, 2 init frames, 2 attempts | `CallOrderKept`, `NeverExhausted`, `InitLeadsStream`, `NoFourthTransmission` |
| `gateway` | 2 groups, 2 broker connections, 1 command, event, loss and resync | `TypeOK`, `StateHasConfig`, `SweepOnce` |
| `live` | PCI client: 2 frames, 2 codes, 3 attempts; gateway: 2 commands, 2 losses, at most 2 attempts | `AtMostOneLateResend`, `CodesReleased`; `CommandsHandled`, `ReconnectsOrExits` |
| `pci_confirmed` | 2 frames, 3 codes | `ConfirmedNeverResent` is **violated** |
| `gateway_sensor` | 1 command, 1 event | `SensorAgreesWithState` is **violated** |
| `py_client` | transport: 3 callers, 3 loops, 5 dials | `Tracked`, `OneDials`, `TransportConsistent` |
| | PCI client, calm: 2 reset frames and 2 commands, 2 codes, 2 attempts | `RetriesEnd` |
| | PCI client, burst: 4 senders, 2 codes | `NeverExhausted` |
| | framing: 10 frames of 8 kinds, reads up to 7 bytes, a buffer of 6 | `StreamSurvives` |
| `py_bridge` | daemon: 2 lights, 3 messages, events, clock requests or faults, a throttler of 3 | `RetainedTopicsAgree`, `SettledOnLastCommand`, `NothingLeftOpen` |
| | web: 4 requests of any kind, 1 loss | `NothingLeftOpen` |
| | proxy: 2 clients, 3 CNI connections, 3 responses | `RelayIsComplete` |
| | analyzer: 2 clients, 2 codes, 4 packets | `SummaryIsRight` |
| `py_standins` | PCI server: the reset sequence, 2 commands of 8 kinds, 1 repeat | `ConfirmedMeansDone` |
| | simulator: 2 clients, 3 commands of 10 kinds, 2 to a read, 2 codes, a history of 2 | `SimulatorRecords` |
| | emulator: 2 clients that may leave, 3 commands, 2 groups | `EmulatorObeys` |
| | interrogator: addresses 0 to 2, two units, one without a name, replies in time | `InterrogationRight` |
| | broker: 2 connections, 2 filters each, 2 messages | `BrokerDelivers` |
| `py_codec` | multipoint: up to 3 messages, 4 noise patterns, tails | `PacketsUnderstood`, `NoiseIsRefused` |
| | CAL: up to 3 CALs in 3 packet forms, 4 ways over bridges, a report that is too long, 4 blurs | `PacketsUnderstood` |
| | scripted PCI: 3 commands, 2 payloads, 2 codes, bare resets | `ScriptedPciExact` |
| `py_live` | transport and proxy | `LockWaitersProceed` |
| | PCI client, PCI server, interrogator, emulator, web, simulator | `ExchangesConclude` |
| | daemon over plain TCP | `DaemonProgresses` |

A property of a Python run is what a component promises. It is a conjunction of
parts that are defined, each with its own comment, in the component's module, the
module's `TypeOK` among them.

Why the bounds are enough. `flow_window`: four frames fill a window of two
twice; five events allow an ack, the growth of the window (three acks) and a
`!` in any order, and timeouts need no event. The commands are interchangeable,
hence the symmetry set. `flow_order` uses none. It has a frame in each lane and
two in the background, so that a second overtaking would show. `pci` has fewer
codes than frames, so the 90% rule, the forced release, the wrap of the index
and the re-use of a code during retransmissions happen; two init frames let
`pci_reset` fail half way. Its frames all ask for a confirmation: a frame
without one takes no code and is never retransmitted. `gateway` has a block that
starts at the last group and wraps, an unlabelled group, a loss that clears
`group_db` between publishes, and two broker connections that test the sweep
flag (interchangeable, hence the symmetry set). Every invariant of
the Rust runs that hold, and every one of the Python runs but `PacketsUnderstood`
and `ScriptedPciExact`, is also proved for every instance (section 4).
The runs reconnect (`Reconnect = TRUE`, the ESP32 modes); plain `-t`, which exits
on a loss, is covered by those theorems, which hold for both values.

The Python instances are sized the same way. The burst has twice as many senders
as codes; the calm one has fewer codes than frames, so that a code is used again,
both while its frame holds it and after, and enough attempts for a resend to race a
confirmation. The stream of the framing scenario has a line longer than the buffer,
confirmations and marks next to lines, an empty line, and two confirmations that
raise, in the middle of reads. Three callers and three loops of the
transport let a disconnect fall between a dial and a second loss. The proxy has
two reconnects. The server draws from every kind of command a client sends, clock
updates before set-up among them; one repeat is what it takes for the options to be
confirmed twice or not at all. The daemon has room for a command queued, one
asleep and one to be retransmitted; two lights, one labelled, in two applications. A codec needs three messages for one
to stand between two others. `py_standins` has two clients, which no constant
names and no scenario tells apart, hence the symmetry set. The largest run is
`py_client` with 2.2 million distinct states; `py_bridge` has 1.7 million,
`py_standins` 1.5 and `py_codec` 0.9.

`flow_window`, `flow_order`, `pci`, `gateway`, `py_client` and `py_standins` check
for deadlock. States in which the modelled system may rest (the controller
returned, the retransmit task ended, the daemon exited or out of inputs) have an
explicit stuttering action there. The other passing runs do not: a daemon that
has ended, a web server nobody asks anything, and a decoded packet are
at rest, and in the liveness runs a stop that matters violates
the property.

### What the violated runs show

* `pci_confirmed`: the device's answer is handled after the write and before the
  sender registers the frame. `send` then registers a frame that is already
  confirmed, and the retransmit task sends it again. `AtMostOneLateResend`
  states what does hold: a frame that was pending when its confirmation came is
  written at most once more.
* `gateway_sensor`: the pump publishes a light's state, the worker publishes
  another state and its sensor, the pump publishes its sensor. Both topics are
  retained, so they disagree until the next report.

### Where the code departs

While modelling, other places came up where the code does not do what a comment,
a document or an option says. The models do what the code does. What was said
stays in them as a definition, named here, that no run checks. Paths are below
`python-legacy/`, the first one excepted.

* `LabelsKept` (Gateway), `rust/cmqttd/src/gateway.rs:260`: an event for a
  labelled light that `group_db` does not know publishes the default name over
  the label: after every reconnect, and at start-up between the two configs.
  `rust/cbus-mqtt/src/discovery.rs:17` calls it the name for lights without a
  label. `LabelsStay` of `PyGateway` is the same in
  `cbus/daemon/mqtt_gateway.py:88`.
* `CodesApart` (PyPci), `cbus/protocol/pciprotocol.py:280`: from 90% use on,
  each request for a code releases the oldest quarter, whose frames may still
  wait; line 560 says it waits until one becomes available.
* `RetriedOnlyUnconfirmed` (PyPci), `pciprotocol.py:362`: the resend follows
  the test of `_pending_confirmations` whatever its outcome; `constants.py:22`
  says a packet is retried "if no confirmation received".
* `GivesUpAtLimit` (PyTransport), `cbus/transport/base.py:150`: a failed
  `connect` leaves the state at ERROR, which ends the reconnect loop after one
  attempt; line 36 says 0 attempts means unlimited.
* `ConnectedIsUp` (PyTransport), `transport/base.py:137`: the state changes when
  `handle_connection_lost` is called, and none of the programs calls it; line 4
  speaks of built-in reconnection and health monitoring.
* `OnlyCutFramesMissing` (PyFraming), `cbus/protocol/packet.py:173`: when the
  buffer is cleared between a CR and its LF, the LF is taken for the head of the
  next frame, which is intact and refused as not base16.
* `ClientsAreServed` (PyProxy), `cbus-proxy/proxy.py:556`: `cni_task` is never
  reset, so a second CNI connection has no reader; `cbus-proxy/README.md:271`
  says all clients receive all responses.
* `SingleConnection` (PyProxy), `proxy.py:552`: `cni_connected` is tested
  before the awaited dial, so two clients may each open a connection;
  `README.md:31` says the proxy keeps a single one.
* `ConfirmsItsCommand` (PyAnalyzer), `proxy.py:228`: the map is keyed by the
  code alone, which clients choose independently; `README.md:11` says
  confirmations are matched to commands.
* `FailuresCounted` (PyAnalyzer), `proxy.py:120`: a packet that is discarded
  (`null`, what `?` cancels, an empty line) is shown as "Failed to decode packet"
  and not counted as an error.
* `SetUpConfirmed` (PyPciServer), `cbus/protocol/pciserverprotocol.py:299`:
  `on_clock_update` raises, and the interface options behind it in the read are
  dropped; a client whose every copy meets that is never set up.
* `ParsedFromItsStart` (PyPciServer), `cbus/protocol/packet.py:247`: a
  device-management CAL is counted twice; line 54 says the position returned is
  where parsing ended.
* `LevelsOfApplication` (PySim), `cbus-simulator/simulator/state.py:219`:
  `light_states` has one entry per group for all applications; line 207 says
  the levels are those of an application.
* `BinaryOnTakesEffect` (PySim), `simulator/protocol.py:339`: the opcode is
  read as the group and the group as the level;
  `cbus-simulator/docs/TESTING.md:126` turns on group 1.
* `EchoesCode` (PySim), `protocol.py:481`: a binary frame that is not lighting
  gets an answer without its code; line 27 says the server must respond with
  the same code.
* `EitherTerminator` (PySim), `protocol.py:239`: a CR LF in two reads leaves
  the LF at the head of the next frame; line 238 says both terminators are
  supported.
* `EachIsLogged` (PySim), `protocol.py:239`: CR LF is looked for first, so that
  `A CR B CR LF` in one read is one command, which is none; the same line 238.
* `ShutdownCloses` (PySim), `simulator/server.py:160`: a connection accepted
  before the shutdown registers after it and is served; line 159 says all are
  closed.
* `FoundExist` (PyInterrogator), `cbus/protocol/interrogator.py:235`: a reply
  after its time-out is credited to the next address. While replies are in time
  the property holds, and `py_standins` checks it.
* `ReportIsTrue` (PyEmulator), `cbus/esp32/emulator/device.py:375`: offsets and
  bit order of the status report differ from those of the client's decoder;
  line 544 says it is the report of a block of groups.
* `CutsAreHarmless` (PyEmulator), `device.py:283`: a CR that is read before its LF
  ends the command, and the LF heads the next one, which is dropped unconfirmed
  unless it is bare hexadecimal.
* `LossIsRepaired` (PyGateway), `cbus/daemon/cmqttd.py:214`: the transport's
  state survives the loss, and the daemon binds to the dead protocol; line 209
  says it waits for the transport to reconnect.
* `NetworkSettles` (PyGateway), `cbus/protocol/pciprotocol.py:354`: a command that
  was not confirmed is sent again whatever was sent to its group since, so the
  light may end up at an older level than the one published.
* `SensorsAgreeForGood` (PyGateway), `mqtt_gateway.py:260`: state and sensor are
  published by two tasks whose results nobody reads; a broker that goes away
  between them keeps a state and a sensor that contradict each other.
* `DispatcherSurvives` (PyGateway), `mqtt_gateway.py:229`: an AttributeError or
  OverflowError of a payload is not caught and ends the dispatcher; line 224
  says fields are validated with error handling.
* `ClockSilent` (PyGateway), `mqtt_gateway.py:131`: clock requests are answered
  whatever the option says; `cbus/daemon/cli.py:62` says `--no-clock` does not
  respond.
* `StatusIsTrue` (PyWeb), `cbus/web/server.py:116`: the status page reports the
  transport's state, which a loss does not change; line 5 says the page shows
  the connection state.
* `LongRampsRefused` (PyCodec), `cbus/common.py:352`: a duration above 1020 s
  becomes the slowest ramp; `pciprotocol.py:871` says it throws an error.
* `UnknownVariableSkipped` (PyCodec), `cbus/protocol/application/clock.py:175`:
  the value of an unknown clock variable is skipped twice; line 174 says it is
  skipped to recover.
* `AnyReportLearnt` (PyCal), `cbus/protocol/cal/extended.py:51`: a report of more
  than 28 bytes does not fit the five bits of its length, which `encode` writes
  without a check; `pp_packet.py` then cuts the CAL short.
* `AnyDirectReply` (PyCal), `packet.py:213`: a direct reply whose header has the
  low bits of an address type (0x83, 0x85, 0x86, ...) is taken for an addressed
  packet, as line 209 has it; line 211 lists all of REPLY 0x80-0x9F as direct.
* `DirectReports` (PyCal), `packet.py:217`: the header of an extended status
  CAL has the bit that is read as device management set; line 212 lists it
  among the direct forms.
* `DocumentedFullOn` (PyCal), `cbus/protocol/cal/report.py:34`: nibble 0xa is
  index 0 of the table, so 0xAAAA is level 0; line 147 says full on.

### Fairness

`FlowControl!FairSpec`: weak fairness of the controller task (the runtime polls
a task that is ready, and a write to the transport ends, with success or an
error) and of time. `PciClient!FairSpec`: the same for the callers, the
controller's answers (shown by `flow_order`), the retransmit task and time;
nothing of the device. `Gateway!FairSpec`: weak fairness of each task;
publishes, sends and connection attempts end, but nothing is assumed about how.
A link may be lost again at once, and attempts may always fail, so
`ReconnectsOrExits` is stated for a limited number of attempts.

Python: the event loop runs a task that is ready, sleeps end, and dials and
drains end with success or an error (weak fairness). An `asyncio.Lock` serves its
waiters in order, so an acquisition that is possible again and again happens:
strong fairness of `Acquire` in `PyTransport` and of the lock's takers in
`PyProxy`. It is the antecedent of `CallsReturn` and `LeaversUnregister` in
`LockWaitersProceed`; the weak fairness of the others is part of the specification.
That a drain ends is an assumption on the clients of the proxy: `broadcast_to_clients`
sets it no time limit, and one that stops reading holds up the others.
`PyPciServer!Fairness` lets the client repeat its interface options until they are
confirmed or `MaxRetries` is reached, as `_check_pending_confirmations` does.
Nothing is assumed about the network: a confirmation, a reply, a status report or a
bus event may never come, and a loss may never be reported. So the sweep of
`DaemonProgresses` asks for every light and publishes every report that comes; it
does not fill in every light.

Background frames are strictly below commands. `ImplementsService` holds because the
instance submits finitely many frames; with an unending stream of commands the
code starves background frames by design.

## 4. Proofs

All proofs are checked by tlapm 1.4.5 with Z3, Zenon and LS4.

**FlowControl** (assumption `FlowAssumption`, which `FlowConfig::default`
satisfies). The inductive invariant `FlowInv` joins `TypeOK` with `LanesInv`
(a lane holds frames of that lane), `SlotsInv` (never more slots than
`WindowMax`, and room in the window for the frame being written) and `PauseInv`
(while paused nothing is being written, and the clean acks plus the responses still due are at
most `WindowMax`). Two points are not obvious. First, the gate is tested
before the awaited write and the slot taken after it; no slot is added in
between because the task itself is the only one to add slots, and feedback is
taken only in the loop, so the test still holds. Second, acks that were due when
`!` arrived could regrow the window during the pause. They cannot, because a
collapse resets `clean_acks`, a pause admits no windowed frame, and at most
`WindowMax` frames can still be answered: fewer than `GrowAcks`. This is the
conjunct `WindowMax < GrowAcks` of the assumption (4 and 10 in the code); with
other settings the property would fail. Theorems: `TypeCorrect`,
`PausedStaysCollapsedCorrect`, `TimeoutsKeepCollapsedCorrect`,
`AdmissionCorrect`.

The second inductive invariant, `OrderInv`, follows a frame from the channel to
its lane's `VecDeque` to the write. `PlacesInv`: a frame without an answer is in
exactly one of the three. `LeakInv`: if a frame was started although a `!` was in
the channel, the loop has not yet decided on another one; it drains the events
first. That gives `ErrorStopsSendsCorrect`. `OutrankInv`: a command that was
overtaken while it lay in the channel is in its `VecDeque` before the next
decision, so it is overtaken once at most
(`CommandsOutrankBackgroundCorrect`). `ControllerImplementsService` is the safety
part of the refinement: the lanes of the abstract service are the history
variable `promised`, the frames submitted and not answered, lane by lane.
`PromisedInv` says that the concrete places keep that order (`Ahead`), so the
frame being answered is always the head of its lane, and each step of the
controller is a submission, an answer or a stutter of the service.

**PciClient** (`PciAssumption`). `AllocatorNeverExhausted`: after
`check_and_release_timed_out` at least one code is free. If more than 90% are in
use at least one is released; otherwise fewer than all are in use. The argument
is arithmetic on cardinalities (`ForceCount`) and needs `inUse` finite, which is
the invariant `AllocInv`. The other four theorems rest on `PciInv`: the queues of
the flow service hold what is queued, once (`QueueInv`); before the gate opens
nothing but init frames exists, and a gate that opens on a failure leaves a dead
transport (`GateInv`: `InitLeadsStreamCorrect`); the send lane is the tail of the
calls and a flow queue keeps their order (`LaneInv`: `CallOrderCorrect`); a frame
is pending under the code it was given (`PendingInv`); the retransmit task waits
for one resend at a time and a sweep schedules a frame once (`RetryInv`:
`NoFourthTransmissionCorrect`); what is settled is no longer pending, so at most
the resend scheduled before is still to come (`LateInv`:
`AtMostOneLateResendCorrect`). Codes may be recycled all along: the sweep counts an
attempt in the entry and puts it into the list together with the frame, so a code
that changes hands takes no attempts along (in the Python client it does, below).

**Gateway** (`GatewayAssumption`). `StateHasConfigCorrect` from `ConfigInv`: a
marked group has both configs, a task between its two configs has published the
first, a task about to publish a state has both. The retained configs are never
removed, so clearing `group_db` cannot break this. `SweepOnceCorrect` from
`SweepInv`: once an unforced sweep is queued the flag stays set.
`GatewayTypeCorrect` includes the wrap of the group counter.

The theorems about the Python programs are stated for the specification of the
composition (`ClientSpec`, `BridgeSpec`, `StandInSpec`), that is for the very
behaviours the runs check; `NeverExhaustedCorrect`, `RetainedTopicsAgreeCorrect`,
`SettledOnLastCommandCorrect` and `NoiseIsRefusedCorrect` are stated for the `Spec` of
the component that the composition extends. The assumption on a component's
constants is a hypothesis of the theorem. Each is evaluated by an ASSUME of the MC
module, so the instance of the run satisfies it.

**PyTransport** (`TransportAssumption`). `OneDialsCorrect`: however many
callers and reconnect loops there are, only the holder of `_connect_lock` dials.
Nothing that is open escapes `disconnect` either (`TrackedCorrect`): an open
connection is the one `_writer` refers to. The inductive invariant `DialInv` adds
`Settled`: a transport that has a connection is CONNECTED, nobody dials, and no
reconnect loop is about to start. So no dial can overwrite the reference to an
open connection. `Tracked` alone is not inductive, because a state with a
connection and a second dial under way satisfies it. A loop writes the state
before it sleeps, which is why one that is about to start must be excluded as
well. A break takes the socket out of `open` and changes nothing else, so the
invariant speaks of what `_writer` refers to, broken or not.
`TransportConsistentCorrect` adds the bounds (an attempt belongs to a loop
that was started, `AttemptInv`) and `CancelInv`: a cancelled loop is awaited until
it is done. Its hypothesis is `Reconnect`, the setting of the run. With
`config.reconnect = False`, `handle_connection_lost`
(`python-legacy/cbus/transport/base.py:137-146`) drops the connection and leaves
the state CONNECTED, and the next `connect` returns at once without one.

**PyPci** (`PyPciAssumption`). `NeverExhaustedCorrect`, for any number of codes and
senders, from `CodesInv`: the codes in use are different ones, so at most `Codes`;
the clean-up leaves fewer; a search from any index then finds a vacant one. The
minimum of `max(1, n // 4)` is what makes it true for few codes.
`RetriesEndCorrect` is for few codes that go round and round. It says nothing from
the moment a code is handed out that another frame still holds (`shared`): the
forced clean-up does that, the old frame in `to_retry` then runs on the new one's
attempts, and the statement is false (`CodesApart`, section 3). The inductive
invariant `RetriesInv`: frames that hold a code hold different ones (`AllotInv`);
whatever is pending, to be retried or to be removed was sent under its code
(`PlaceInv`); an entry's attempts cover the transmissions of its frame including
the one in the send delay, and an entry further down `to_retry` has an attempt
left (`CountInv`); a frame that was heard is not pending, so that only the
`to_retry` of the pass in progress can still send it (`LateInv`).

**PyFraming** (`FramingAssumption`: the stream is frames one after another, each of
the length of its kind). `StreamSurvivesCorrect`, for every stream, buffer limit and
cutting into reads. `FramingInv` says that the buffer is a section of the stream that
ends where the reads have got to and holds nothing that `decode_packet` would
consume, that the byte before it ended a frame or was dropped, and that every frame
that ended before it raised its event or is `Covered`: it is in the first line behind
a lost byte. That is the most the code keeps. A line that starts at a frame's
beginning is consumed as that frame; one that starts elsewhere starts behind a lost
byte, and whatever it takes along ends with the next LF. The decode loop of one read is a recursion over the
frames in the buffer; the invariant (`Sound`) is carried through each turn of it
(`Scanned`), also the turn that ends in an exception.

**PyProxy** (`ProxyAssumption`). `RelayIsCompleteCorrect` from `RelayInv`. The lock
is held over a broadcast (`LockInv`), so no client registers or unregisters during
it, and whoever is still to be served is registered (`ClientInv`). What a client
has heard is the run of broadcasts since it registered, all but the one it is
still to be served with (`HeardInv`). The failed clients are removed after the
lock is released and before the next broadcast, and the set of them is empty at
the start of each.

**PyGateway** (`PyGatewayAssumption`: topics that parse name an existing pair).
`DaemonInv` carries three theorems. `RetainedTopicsAgreeCorrect`: a group in
`groupDB` has its config at the broker or among the publish tasks, and one whose
state is to be published has it there or in an earlier task (`GroupsAnnounced`);
clearing `groupDB` removes nothing retained; and the task of a sensor is always the
one behind that of its state, with the same report (`TasksPair`), so the two topics
disagree only while it is the next to run.
`SettledOnLastCommandCorrect` from `CommandInv`: the last accepted command of a
light is the last one queued, or the queue has none for it and it is the last in
the send delay, or it has been carried out: then its state is retained or its
publish is the last one among the tasks (`Published`), and the network holds it
unless `amiss`. A command that leaves the queue passes older ones nowhere, because
delays end in the order in which they began. A retransmission does pass newer ones:
`amiss` records it, as it does a command lost on its way, until the next command
to the light is written.
`NothingLeftOpenCorrect` is in its first half `PhaseInv`: what `_main` has cleaned
up does not come back; a command that was still waiting is forgotten with it.

**PyWeb** (`PyWebAssumption`). The second half of `NothingLeftOpenCorrect`, from
`WebInv`: until a request connects or disconnects during another's dial, the only
dial under way is that of the connection the interface refers to. The property
alone is not inductive, because a dial that nothing refers to ends in a socket
that nothing refers to. Dials that do overlap (`overlapped`) can leave such a socket,
and the property excludes them.

**PyAnalyzer** (`AnalyzerAssumption`). `SummaryIsRightCorrect` from `AnalyzerInv`.
What the map holds for a code is the last command recorded under it, and a
confirmation deletes the entry of its code, whichever command it was for; so nothing
listed was confirmed. For the converse no other command may wait at the CNI under the
code, which holds until the code is used again before its confirmation (`clashed`).

**PyPciServer** (`CommandAssumption`). `ConfirmedMeansDoneCorrect` from `ServerInv`. A
stream never holds a reset behind the interface options (`StreamInv`), so once
these are confirmed nothing still to be read takes them away; and while nothing is
repeated the numbers in the stream ascend and lie above those answered (`Good`).
`Good` is carried through a read frame by frame (`After`), up to the frame whose
handler raises.

**PySim** (`SimAssumption`). `SimulatorRecordsCorrect` from `SimInv`.
`HistoryInv`: the history is the end of what was logged and as long as it may be.
`RecordInv`: what was logged are the text commands that came, in their order, but
for those a later CR LF of their read swallowed.
`CodesInv`: a code that was given d codes ago, less than a cycle, is d behind the
next one modulo `Codes`; so no two within a cycle are the same. `LevelsInv`: both
levels of a group are changed together, while clients name configured groups.

**PyEmulator** (`EmulatorAssumption`). `EmulatorObeysCorrect` from `EmulatorInv`: a
client's numbers ascend from those confirmed over the one being handled to those
in its stream (`NumbersInOrder`), and the level is that of the last confirmed
command because no await lies between the change and the write. A command read
behind a line feed changes no level (`HeadedByLF`), so it may be dropped; one whose
client has left is still handled, and its confirmation written in vain.

**PyInterrogator** (`InterrogatorAssumption`). `InterrogationRightCorrect` from
`ResultInv` (what was asked while the connection held is recorded, unnamed units
excepted, and nothing else) and `TrafficInv`: while replies are in time, the CNI works on the request
that waits and on no other, and the answer to it is either still to be written or
in the socket, once. The second is what a late reply breaks (section 3).

**PyBroker** (`BrokerAssumption`). `BrokerDeliversCorrect` from `BrokerInv`. A client
was only given what one of its filters names, and filters stay (`GivenInv`); a
client that has not connected was given nothing (`UnheardInv`). So a
client that was given a message has a filter for its topic, and no later message
of that topic passes it by while its socket is open. Nothing is said of a topic
before the first message the client was given of it.

**PyCodec** (`PyCodecAssumption`: the messages are of the kinds and within the ranges
that `encode()` accepts, a change is by 1 to 255). `NoiseIsRefusedCorrect`, for
packets of any length. `NoiseInv`: the bytes on the line add up to 0 modulo 256 if
and only if none was changed. It needs that every message becomes bytes
(`SalBytes`), that the checksum completes the sum (`PacketIsZero`), and that a
change of one byte changes the sum by as much (`SumChanges`).

Recursion over the positions of a sequence (`Sums`, `Encoded`, `After`, `Scanned`)
is proved about without induction over operators: the positions for which a fact
fails have a least one (`LeastNumber`, `Upward` in `SequenceOrderProofs`), and the
step from its predecessor contradicts it.

Only model-checked: liveness under fairness (out of the prover's reach), the
liveness half of `ImplementsService` among it; `PacketsUnderstood` and
`ScriptedPciExact`. The decoders and the harness's `split_client_frames` recurse over
what is left of their input, by different lengths in each turn and to different
results; that they undo the encoders for every packet needs induction over byte
sequences with the decoder as a parameter, which no installed prover does.
`SelectSeq` is such a recursion too: where a model that is proved about removes
elements from the middle of a sequence it uses `Subsequence` of `SequenceOrder`,
which has the same value and a definition one can reason with.

## 5. What is not modelled, and the plan

Not modelled: option parsing, logging, mDNS, signal handling and the Rust
daemon's time synchronisation (sends without a decision); both readers of project
files; the command-line tools and the scripts that generate and compare test
vectors (they print what the codec returns); the web page's text; the Rust frame
buffer, codec and simulator, whose Python originals are modelled in `PyFraming`,
`PyCodec`, `PyCal` and `PySim`; the ESP32 firmware. `PROJECT.json` lists each
with its reason.

Hazards no property covers yet, beside those in `PROJECT.json`: a late
confirmation of an earlier frame with the same code drops the entry of the frame
that has it now (`rust/cbus-transport/src/pci.rs:407`); a retransmission of an
older command for a group reverses a newer one (`pci.rs:370`; in Python
`PyGateway` models it); an old client's
retransmit task lives on when nothing is pending (`pci.rs:332`); the request
channel of the MQTT client holds 100 messages, and with the broker down pump,
worker and on_connected block on it (`rust/cmqttd/src/gateway.rs:217`); the Rust
buffer's overflow (`framing.rs:60`); the firmware's ring of 32 commands
(`esp32-firmware/src/main.cpp:774`).

Planned, in this order:

1. A bounded MQTT request channel in `Gateway` (the broker being down blocks
   pump and worker), with the deadlock question.
2. `Bridge`: `Gateway` over `PciClient` with several clients, for what becomes
   of an old client's tasks, and for the order of commands for one group across
   retransmissions; the same of `PyGateway` over `PyPci`.
3. The Rust frame buffer and codec against `PyFraming`, `PyCodec` and `PyCal`.
4. `Esp32`: the firmware's command ring, level cache and reconnection.
5. Proofs: `ScriptedPciExact`, with `split_client_frames` written as a scan over
   positions like that of `PyFraming`; the round trip of one message.
