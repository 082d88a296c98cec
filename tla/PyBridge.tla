------------------------------ MODULE PyBridge ------------------------------
(***************************************************************************)
(* The Python programs that stand between C-Bus and its users, side by     *)
(* side: the MQTT daemon (extended here), the web interface, the proxy and *)
(* its packet analyzer.  They share no variable; `scenario` says which one *)
(* a behaviour exercises, and the others rest in their initial states.     *)
(***************************************************************************)
EXTENDS PyGateway

CONSTANTS
  Req, Host, NoHost, GroupIds, LevelsIn, None, MaxDrops,  \* the web interface
  Client,                                                 \* users of the proxy
  Conns, Responses, Commands,                             \* the proxy
  Code, Packets, NoRecord                                 \* its analyzer

VARIABLES
  scenario,
  step, config, current, webState, target, protocol, link, webLevel,
  overlapped, drops,
  proxyMain, cur, connected, task, reading, proxyLeft, failed, locked, clients,
  pc, cmds, proxyOpen, dialled, bcasts, since, got,
  packets, errors, map, sent, latest, confirmed, clashed, undecoded, shown

Web == INSTANCE PyWeb WITH state <- webState, level <- webLevel

Proxy == INSTANCE PyProxy WITH
  main <- proxyMain, left <- proxyLeft, open <- proxyOpen

Analyzer == INSTANCE PyAnalyzer

webVars == <<step, config, current, webState, target, protocol, link, webLevel,
             overlapped, drops>>
proxyVars == <<proxyMain, cur, connected, task, reading, proxyLeft, failed, locked,
               clients, pc, cmds, proxyOpen, dialled, bcasts, since, got>>
analyzerVars == <<packets, errors, map, sent, latest, confirmed, clashed, undecoded,
                  shown>>
bridgeVars == <<scenario, vars, webVars, proxyVars, analyzerVars>>

BridgeInit ==
  /\ scenario \in {"daemon", "web", "proxy", "analyzer"}
  /\ Init /\ Web!Init /\ Proxy!Init /\ Analyzer!Init

BridgeNext ==
  \/ scenario = "daemon" /\ Next
       /\ UNCHANGED <<scenario, webVars, proxyVars, analyzerVars>>
  \/ scenario = "web" /\ Web!Next
       /\ UNCHANGED <<scenario, vars, proxyVars, analyzerVars>>
  \/ scenario = "proxy" /\ Proxy!Next
       /\ UNCHANGED <<scenario, vars, webVars, analyzerVars>>
  \/ scenario = "analyzer" /\ Analyzer!Next
       /\ UNCHANGED <<scenario, vars, webVars, proxyVars>>

BridgeSpec == BridgeInit /\ [][BridgeNext]_bridgeVars

-----------------------------------------------------------------------------

\* A daemon that has ended has no send, no queued work and no connection left,
\* and as long as nobody connects or disconnects during a dial every open socket
\* of the web interface is one that a user can close (_main, handle_connect).
NothingLeftOpen ==
  /\ scenario = "daemon" => NothingLeftBehind
  /\ scenario = "web" => Web!TypeOK /\ Web!NoStrayConnection

\* A registered client of the proxy hears every response since it registered,
\* once and in order, while others come, go and fail; one whose handler has
\* returned hears nothing more (broadcast_to_clients, handle_client).
RelayIsComplete ==
  scenario = "proxy" => Proxy!RelayIsComplete

\* The analyzer's summary lists no command that was confirmed, although clients
\* share confirmation codes and commands are dropped on their way; and as long as
\* no code is used again before its confirmation it lists every command that was
\* not (confirmation_map, print_summary).
SummaryIsRight ==
  scenario = "analyzer" => Analyzer!ListedIsUnconfirmed /\ Analyzer!UnconfirmedIsListed
=============================================================================
