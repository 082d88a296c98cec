-------------------------------- MODULE PyWeb --------------------------------
(***************************************************************************)
(* The web configuration server: WebConfigServer of cbus/web/server.py     *)
(* with ESP32Connection of cbus/esp32/connection.py.                       *)
(*                                                                         *)
(* aiohttp runs one task per request, so handlers interleave where they    *)
(* suspend: `_handle_connect` while it dials, `_handle_set_group` during   *)
(* the send delay, `_handle_discover` while it listens.  Disconnecting     *)
(* suspends nowhere (no reconnect task exists), and neither do the         *)
(* handlers that read or set the configuration.                            *)
(***************************************************************************)
EXTENDS Integers, FiniteSets

CONSTANTS
  Req,          \* requests, each made at most once
  Host,         \* addresses a user may configure
  NoHost,       \* the address before anybody configured one
  GroupIds,     \* what the path of a level request spells
  LevelsIn,     \* levels in its body
  None,         \* _esp32_connection is None
  MaxDrops      \* how often a bridge drops a connection

Group == GroupIds \cap 0..255     \* the ones _handle_set_group accepts

PyWebAssumption ==
  /\ IsFiniteSet(Req) /\ None \notin Req /\ NoHost \notin Host
  /\ GroupIds \subseteq Int /\ LevelsIn \subseteq Int /\ MaxDrops \in Nat

\* A connection object is named after the request that makes it.
VARIABLES
  step,       \* Req -> "new" | "dialling" | "sending" | "listening" | "ok" | "error"
  config,     \* _config["wifi_host"]
  current,    \* WebConfigServer._esp32_connection: a request or None
  state,      \* transport state of a connection object; "none" before it exists
  target,     \* the address it was made for
  protocol,   \* ESP32Connection._protocol is set
  link,       \* its socket: "none" | "up" | "down"
  level,      \* the emulator's level of a group
  overlapped, \* history: a connect or disconnect ran while another dialled
  drops       \* connections dropped so far

connVars == <<current, state, target, protocol, link>>
vars == <<step, config, connVars, level, overlapped, drops>>

Clamp(n) == IF n < 0 THEN 0 ELSE IF n > 255 THEN 255 ELSE n
Answer(r, what) == step' = [step EXCEPT ![r] = what]
Dialling == {r \in Req : step[r] = "dialling"}

-----------------------------------------------------------------------------
(* Configuration and status *)

\* _handle_set_config: known keys are taken over, others ignored.
SetConfig(r, host) ==
  /\ step[r] = "new" /\ config' = host /\ Answer(r, "ok")
  /\ UNCHANGED <<connVars, level, overlapped, drops>>

\* _handle_set_config, _handle_set_group: a body or path that does not parse.
BadRequest(r) ==
  /\ step[r] = "new" /\ Answer(r, "error")
  /\ UNCHANGED <<config, connVars, level, overlapped, drops>>

\* _handle_get_status: what it says of the connection.
Connected == current # None /\ state[current] = "connected"

-----------------------------------------------------------------------------
(* ESP32Connection *)

\* ESP32Connection.disconnect on object c: it closes the socket the transport
\* holds.  One that is being dialled is not held yet.
Disconnected(c) ==
  /\ state' = [state EXCEPT ![c] = "disconnected"]
  /\ protocol' = [protocol EXCEPT ![c] = FALSE]
  /\ link' = [link EXCEPT ![c] = IF @ = "up" THEN "down" ELSE @]

\* _create_protocol, called by the transport when the socket is open, then
\* the rest of ConnectionTransport.connect.
DialSucceeds(r) ==
  /\ step[r] = "dialling" /\ Answer(r, "ok")
  /\ state' = [state EXCEPT ![r] = "connected"]
  /\ protocol' = [protocol EXCEPT ![r] = TRUE]
  /\ link' = [link EXCEPT ![r] = "up"]
  /\ UNCHANGED <<config, current, target, level, overlapped, drops>>

\* Refused, or connect_timeout is over.  The object stays the current one.
DialFails(r) ==
  /\ step[r] = "dialling" /\ Answer(r, "error")
  /\ state' = [state EXCEPT ![r] = "error"]
  /\ UNCHANGED <<config, current, target, protocol, link, level, overlapped, drops>>

\* The bridge drops the connection: PCIProtocol.connection_lost.  Nothing
\* tells the transport, whose state stays.
LinkDrops(c) ==
  /\ link[c] = "up" /\ drops < MaxDrops
  /\ link' = [link EXCEPT ![c] = "down"] /\ drops' = drops + 1
  /\ UNCHANGED <<step, config, current, state, target, protocol, level, overlapped>>

-----------------------------------------------------------------------------
(* Connecting and disconnecting *)

\* _handle_connect up to the dial: the old connection is closed first.
HandleConnect(r) ==
  /\ step[r] = "new" /\ Answer(r, "dialling")
  /\ current' = r /\ target' = [target EXCEPT ![r] = config]
  /\ LET old == IF current = None THEN r ELSE current
     IN /\ state' = [state EXCEPT ![old] = "disconnected", ![r] = "connecting"]
        /\ protocol' = [protocol EXCEPT ![old] = FALSE]
        /\ link' = [link EXCEPT ![old] = IF @ = "up" THEN "down" ELSE @]
  /\ overlapped' = (overlapped \/ Dialling # {})
  /\ UNCHANGED <<config, level, drops>>

\* _handle_disconnect
HandleDisconnect(r) ==
  /\ step[r] = "new" /\ Answer(r, "ok")
  /\ IF current = None THEN UNCHANGED connVars
     ELSE Disconnected(current) /\ current' = None /\ UNCHANGED target
  /\ overlapped' = (overlapped \/ Dialling # {})
  /\ UNCHANGED <<config, level, drops>>

-----------------------------------------------------------------------------
(* Groups and discovery *)

\* _handle_set_group: the emulator first, then the bridge.  A protocol that
\* lost its connection raises at once; the emulator keeps the new level.
HandleSetGroup(r, g, n) ==
  /\ step[r] = "new" /\ g \in Group
  /\ level' = [level EXCEPT ![g] = Clamp(n)]
  /\ IF current # None /\ protocol[current]
     THEN IF link[current] = "up"
          THEN Answer(r, "sending")
          ELSE Answer(r, "error")
     ELSE Answer(r, "ok")
  /\ UNCHANGED <<config, connVars, overlapped, drops>>

\* The delay of _send_packet is over; a write to a closed socket is lost.
Sent(r) ==
  /\ step[r] = "sending" /\ Answer(r, "ok")
  /\ UNCHANGED <<config, connVars, level, overlapped, drops>>

\* _handle_discover: ESP32Discovery.discover listens for its timeout.
HandleDiscover(r) ==
  \/ /\ step[r] = "new" /\ Answer(r, "listening")
     /\ UNCHANGED <<config, connVars, level, overlapped, drops>>
  \/ /\ step[r] = "listening" /\ Answer(r, "ok")
     /\ UNCHANGED <<config, connVars, level, overlapped, drops>>

Init ==
  /\ step = [r \in Req |-> "new"] /\ config = NoHost
  /\ current = None /\ state = [r \in Req |-> "none"]
  /\ target = [r \in Req |-> NoHost] /\ protocol = [r \in Req |-> FALSE]
  /\ link = [r \in Req |-> "none"] /\ level = [g \in Group |-> 0]
  /\ overlapped = FALSE /\ drops = 0

Next == \E r \in Req :
  \/ \E host \in Host : SetConfig(r, host)
  \/ BadRequest(r)
  \/ HandleConnect(r) \/ DialSucceeds(r) \/ DialFails(r)
  \/ HandleDisconnect(r)
  \/ \E g \in GroupIds, n \in LevelsIn : HandleSetGroup(r, g, n)
  \/ Sent(r) \/ HandleDiscover(r)
  \/ LinkDrops(r)

Spec == Init /\ [][Next]_vars

\* A dial ends by its timeout and the sleeps end; a user need not ask.
Fairness ==
  \A r \in Req :
    /\ WF_vars(DialSucceeds(r) \/ DialFails(r))
    /\ WF_vars(Sent(r))
    /\ WF_vars(step[r] = "listening" /\ HandleDiscover(r))

FairSpec == Spec /\ Fairness

-----------------------------------------------------------------------------
(* Properties *)

\* Every variable keeps its type; a level fits a byte whatever was asked.
TypeOK ==
  /\ step \in [Req -> {"new", "dialling", "sending", "listening", "ok", "error"}]
  /\ config \in Host \cup {NoHost} /\ current \in Req \cup {None}
  /\ state \in [Req -> {"none", "connecting", "connected", "disconnected", "error"}]
  /\ target \in [Req -> Host \cup {NoHost}] /\ protocol \in [Req -> BOOLEAN]
  /\ link \in [Req -> {"none", "up", "down"}] /\ level \in [Group -> 0..255]
  /\ drops \in 0..MaxDrops

\* As long as nobody connects or disconnects while a dial is under way, every
\* open socket belongs to the connection the server holds, so a user can close
\* it.  (Two connects at once leave a socket behind that nothing refers to.)
NoStrayConnection ==
  ~overlapped => \A r \in Req : link[r] = "up" => r = current

\* The inductive invariant: until then the only dial is the current connection's.
WebInv ==
  /\ TypeOK /\ NoStrayConnection
  /\ ~overlapped => \A r \in Dialling : r = current

\* Every request is answered.
RequestsAnswered ==
  \A r \in Req : step[r] # "new" ~> step[r] \in {"ok", "error"}

\* The code does not keep this one (README, "Where the code departs"):
\* "Viewing device status and connection state": a connection that
\* /api/status calls connected has its link.
StatusIsTrue == Connected => link[current] = "up"
=============================================================================
