---------------------------- MODULE MCPyStandIns ----------------------------
(***************************************************************************)
(* PyStandIns for TLC.  Fewer codes than commands, so that the simulator's *)
(* codes come round; units 0 and 2 are on the network, unit 0 without a    *)
(* name and unit 2 without gav_store; the broker has a state topic and its *)
(* command topic under filters that overlap.                               *)
(***************************************************************************)
EXTENDS PyStandIns, TLC

\* Groups 1 and 2 of lighting application 56, and group 2 of application 57.
MCKnown == {<<56, 1>>, <<56, 2>>, <<57, 2>>}

MCText == {<<"on", TRUE, 56, 1>>, <<"off", FALSE, 56, 1>>, <<"ramp", TRUE, 57, 2>>,
           <<"status", TRUE, 56, 1>>, <<"reset", FALSE, 0, 0>>, <<"basic", FALSE, 0, 0>>}

MCBinary == {<<"b_on", 1, 2>>, <<"b_off", 2, 2>>, <<"b_status", 1, 7>>,
             <<"b_clock", 1, 0>>}

MCEmuCommand == {<<"on", "h", 1>>, <<"off", "i", 1>>, <<"ramp", "h", 1>>,
                 <<"ramp", "g", 99>>, <<"terminate", "h", 1>>}

MCAttrs == <<"type_name", "gav_store", "serial_number">>

MCTopic == {<<"light", "1">>, <<"light", "1", "set">>}
MCFilter == {<<"light", "+">>, <<"light", "#">>, <<"light", "1", "set">>}

\* The clients are interchangeable; no other constant names them.
Symmetry == Permutations(Client)

ASSUME ServerAssumption /\ CommandAssumption
ASSUME Sim!SimAssumption
ASSUME Emulator!EmulatorAssumption /\ Interrogator!InterrogatorAssumption
ASSUME Broker!BrokerAssumption
=============================================================================
