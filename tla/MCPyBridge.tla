----------------------------- MODULE MCPyBridge -----------------------------
(***************************************************************************)
(* PyBridge with two lights and four web requests, two users of the proxy. *)
(***************************************************************************)
EXTENDS PyBridge

\* Two lights, one with a label; MQTT clients command the other one, under the
\* topics "057_001" and "256", of which no group is.
MCApp == {56, 57}
MCExists == {<<56, 1>>, <<57, 1>>}
MCLabelled == {<<56, 1>>}
MCTopics == {<<57, 1>>, <<256>>}

Payload(parses, on, brightness) ==
  [parses |-> parses, on |-> on, brightness |-> brightness]
MCPayloads ==
  {Payload("yes", TRUE, 300), Payload("yes", FALSE, 255), Payload("no", TRUE, 255)}

ASSUME Web!PyWebAssumption
ASSUME Proxy!ProxyAssumption /\ Analyzer!AnalyzerAssumption
=============================================================================
