--------------------------- MODULE GatewayProofs ---------------------------
(***************************************************************************)
(* The gateway publishes no state before the discovery configs, for every  *)
(* number of groups, labels, broker connections and inputs.                *)
(***************************************************************************)
EXTENDS Gateway, TLAPS

\* The group counter wraps into range (start.wrapping_add(1) on a u8).
LEMMA WrapInRange == ASSUME NEW g \in Group PROVE (g + 1) % Groups \in Group
  BY GatewayAssumption DEF Group

\* The counter and group 0 are groups; the pump and the worker are actors.
LEMMA Members ==
  /\ 0 \in Group /\ "pump" \in Actor /\ "worker" \in Actor
  /\ \A k \in ConnTask : k \in Actor /\ k # "pump" /\ k # "worker"
  BY GatewayAssumption DEF Group, Actor

\* Taking the first element of a queue.
LEMMA HeadTail ==
  ASSUME NEW S, NEW s \in Seq(S), s # <<>>
  PROVE Head(s) \in S /\ Tail(s) \in Seq(S)
  OBVIOUS

\* The first state satisfies the invariant.
LEMMA InitConfig == Init => ConfigInv
  <1> SUFFICES ASSUME Init PROVE ConfigInv
    OBVIOUS
  <1>1. TypeOK
    <2>1. left \in [Inputs -> Nat]
      BY GatewayAssumption DEF Init, Inputs
    <2>2. todo \in [ConnTask -> SUBSET Labelled]
      BY DEF Init
    <2>3. /\ grp \in [Actor -> Group] /\ rep \in [Actor -> Reports \cup {Missing}]
          /\ db \in [Group -> BOOLEAN] /\ state \in [Group -> Reports \cup {Missing}]
      BY Members DEF Init
    <2>4. /\ events \in Seq([kind : {"light", "clock", "lost"}, at : Group,
                             block : Seq(Reports \cup {Missing})])
          /\ slots \in Seq(Reports \cup {Missing})
          /\ commands \in Seq([group : Group, report : Reports, ok : BOOLEAN])
      BY DEF Init
    <2>5. QED
      BY <2>1, <2>2, <2>3, <2>4 DEF Init, TypeOK, Config, Label
  <1>2. QED
    BY <1>1 DEF Init, ConfigInv, StateHasConfig, Discovered

\* A sweep request keeps the types of the sweep lane and its flag.
LEMMA QueueSweepType ==
  ASSUME TypeOK, NEW force \in BOOLEAN, QueueSweep(force)
  PROVE sweeps' \in Nat /\ swept' \in BOOLEAN /\ unforced' \in Nat
  <1>1. CASE ~force /\ swept
    BY <1>1 DEF QueueSweep, TypeOK
  <1>2. CASE ~(~force /\ swept)
    <2>1. sweeps' = (IF Probes = {} THEN sweeps ELSE sweeps + 1)
      BY <1>2 DEF QueueSweep
    <2>2. swept' = (IF force THEN swept ELSE TRUE)
      BY <1>2 DEF QueueSweep
    <2>3. unforced' = (IF force THEN unforced ELSE unforced + 1)
      BY <1>2 DEF QueueSweep
    <2>4. sweeps \in Nat /\ swept \in BOOLEAN /\ unforced \in Nat
      BY DEF TypeOK
    <2>5. sweeps' \in Nat
      BY <2>1, <2>4
    <2>6. swept' \in BOOLEAN
      BY <2>2, <2>4
    <2>7. unforced' \in Nat
      BY <2>3, <2>4
    <2>8. QED
      BY <2>5, <2>6, <2>7
  <1>3. QED
    BY <1>1, <1>2

\* Every action keeps the type invariant.
LEMMA TypeStep == TypeOK /\ [Next]_vars => TypeOK'
  <1> SUFFICES ASSUME TypeOK, [Next]_vars PROVE TypeOK'
    OBVIOUS
  <1> USE DEF TypeOK, Config, Inputs, Label
  <1>1. ASSUME NEW a \in Actor, Check(a) PROVE TypeOK'
    BY <1>1 DEF Check, Step, broker, outVars, linkVars, inVars
  <1>2. ASSUME NEW a \in Actor, PublishLightConf(a) PROVE TypeOK'
    BY <1>2 DEF PublishLightConf, Step, Name, outVars, linkVars, inVars
  <1>3. ASSUME NEW a \in Actor, PublishSensorConf(a) PROVE TypeOK'
    BY <1>3 DEF PublishSensorConf, Step, Name, outVars, linkVars, inVars
  <1>4. ASSUME NEW a \in Actor, PublishState(a) PROVE TypeOK'
    BY <1>4 DEF PublishState, Step, outVars, linkVars, inVars
  <1>5. ASSUME NEW a \in Actor, PublishSensor(a) PROVE TypeOK'
    <2>1. grp' \in [Actor -> Group] /\ pc' \in [Actor -> Label]
      <3>1. CASE a = "pump"
        <4>1. (grp[a] + 1) % Groups \in Group
          BY WrapInRange
        <4>2. /\ grp' = [grp EXCEPT ![a] = (grp[a] + 1) % Groups]
              /\ pc' = [pc EXCEPT ![a] = "slots"]
          BY <1>5, <3>1 DEF PublishSensor, Step
        <4>3. QED
          BY <4>1, <4>2
      <3>2. CASE a # "pump"
        BY <1>5, <3>2, Members DEF PublishSensor, Step
      <3>3. QED
        BY <3>1, <3>2
    <2>2. rep' \in [Actor -> Reports \cup {Missing}]
      BY <1>5 DEF PublishSensor
    <2>3. sensor' \in [Group -> {"none", "ON", "OFF"}]
      BY <1>5 DEF PublishSensor
    <2>4. QED
      BY <1>5, <2>1, <2>2, <2>3 DEF PublishSensor, outVars, linkVars, inVars
  <1>6. ASSUME NEW k \in ConnTask, OnConnected(k) PROVE TypeOK'
    BY <1>6, Members DEF OnConnected, Step, broker, outVars, linkVars, inVars
  <1>7. ASSUME NEW k \in ConnTask, Announce(k) PROVE TypeOK'
    BY <1>7, Members, GatewayAssumption
    DEF Announce, Step, broker, outVars, linkVars, inVars
  <1>8. ASSUME NEW k \in ConnTask, Announced(k) PROVE TypeOK'
    <2>1. sweeps' \in Nat /\ swept' \in BOOLEAN /\ unforced' \in Nat
      BY <1>8, QueueSweepType DEF Announced
    <2>2. pc' = [pc EXCEPT ![k] = "done"]
      BY <1>8 DEF Announced, Step
    <2>3. UNCHANGED <<db, broker, grp, rep, todo, commands, probing, held, accepted,
                      handled, linkVars, inVars>>
      BY <1>8 DEF Announced
    <2>4. QED
      BY <2>1, <2>2, <2>3, Members DEF broker, linkVars, inVars
  <1>9. ASSUME TakeCommand PROVE TypeOK'
    <2> DEFINE c == Head(commands)
    <2>1. /\ c \in [group : Group, report : Reports, ok : BOOLEAN]
          /\ commands' \in Seq([group : Group, report : Reports, ok : BOOLEAN])
      BY <1>9, HeadTail DEF TakeCommand
    <2>2. /\ grp' \in [Actor -> Group] /\ rep' \in [Actor -> Reports \cup {Missing}]
          /\ pc' \in [Actor -> Label] /\ held' \in Nat /\ handled' \in Nat
      <3>1. CASE c.ok
        BY <1>9, <2>1, <3>1, Members DEF TakeCommand, Step
      <3>2. CASE ~c.ok
        BY <1>9, <2>1, <3>2 DEF TakeCommand
      <3>3. QED
        BY <3>1, <3>2
    <2> HIDE DEF c
    <2>3. QED
      BY <1>9, <2>1, <2>2 DEF TakeCommand, broker, linkVars, inVars
  <1>10. ASSUME SendCommand PROVE TypeOK'
    BY <1>10, Members DEF SendCommand, Step, broker, linkVars, inVars
  <1>11. ASSUME TakeEvent PROVE TypeOK'
    <2> DEFINE e == Head(events)
    <2>1. /\ e \in [kind : {"light", "clock", "lost"}, at : Group,
                    block : Seq(Reports \cup {Missing})]
          /\ events' \in Seq([kind : {"light", "clock", "lost"}, at : Group,
                              block : Seq(Reports \cup {Missing})])
      BY <1>11, HeadTail DEF TakeEvent
    <2>2. /\ UNCHANGED <<lightConf, sensorConf, state, sensor, rep, todo, commands,
                         sweeps, probing, swept, unforced, held, accepted, handled,
                         link, gen, left>>
      BY <1>11 DEF TakeEvent, broker, outVars
    <2>3. CASE e.kind = "light"
      <3>1. /\ slots' = e.block /\ grp' = [grp EXCEPT !["pump"] = e.at]
            /\ pc' = [pc EXCEPT !["pump"] = "slots"] /\ UNCHANGED <<db, attempts>>
        BY <1>11, <2>3 DEF TakeEvent, Step
      <3> HIDE DEF e
      <3>2. QED
        BY <2>1, <2>2, <3>1
    <2>4. CASE e.kind = "clock"
      <3>1. UNCHANGED <<db, pc, grp, slots, attempts>>
        BY <1>11, <2>4 DEF TakeEvent
      <3> HIDE DEF e
      <3>2. QED
        BY <2>1, <2>2, <3>1
    <2>5. CASE e.kind = "lost"
      <3>1. /\ db' = [g \in Group |-> FALSE] /\ attempts' = 0 /\ UNCHANGED <<grp, slots>>
            /\ IF Reconnect THEN Step("pump", "connect") ELSE Exit
        BY <1>11, <2>5 DEF TakeEvent
      <3>2. pc' \in [Actor -> Label]
        BY <3>1, Members DEF Step, Exit
      <3> HIDE DEF e
      <3>3. QED
        BY <2>1, <2>2, <3>1, <3>2
    <2>6. QED
      BY <2>1, <2>3, <2>4, <2>5
  <1>12. ASSUME NextSlot PROVE TypeOK'
    <2>1. Head(slots) \in Reports \cup {Missing} /\ slots' \in Seq(Reports \cup {Missing})
      BY <1>12 DEF NextSlot
    <2>2. /\ grp' \in [Actor -> Group] /\ rep' \in [Actor -> Reports \cup {Missing}]
          /\ pc' \in [Actor -> Label]
      <3>1. CASE Head(slots) = Missing
        <4>1. (grp["pump"] + 1) % Groups \in Group
          BY WrapInRange, Members
        <4>2. /\ grp' = [grp EXCEPT !["pump"] = (grp["pump"] + 1) % Groups]
              /\ UNCHANGED <<pc, rep>>
          BY <1>12, <3>1 DEF NextSlot
        <4>3. QED
          BY <4>1, <4>2
      <3>2. CASE Head(slots) # Missing
        BY <1>12, <2>1, <3>2, Members DEF NextSlot, Step
      <3>3. QED
        BY <3>1, <3>2
    <2>3. QED
      BY <1>12, <2>1, <2>2 DEF NextSlot, broker, outVars, linkVars
  <1>13. ASSUME BlockDone PROVE TypeOK'
    BY <1>13, Members DEF BlockDone, Step, broker, outVars, linkVars, inVars
  <1>14. ASSUME ConnectOk PROVE TypeOK'
    <2>1. sweeps' \in Nat /\ swept' \in BOOLEAN /\ unforced' \in Nat
      BY <1>14, QueueSweepType DEF ConnectOk
    <2>2. pc' = [pc EXCEPT !["pump"] = "idle"] /\ link' = "up" /\ gen' = gen + 1
      BY <1>14 DEF ConnectOk, Step
    <2>3. UNCHANGED <<db, broker, grp, rep, todo, commands, probing, held, accepted,
                      handled, attempts, inVars>>
      BY <1>14 DEF ConnectOk
    <2>4. QED
      BY <2>1, <2>2, <2>3, Members DEF broker, inVars
  <1>15. ASSUME ConnectFail PROVE TypeOK'
    BY <1>15, Members DEF ConnectFail, Exit, broker, outVars, inVars
  <1>16. ASSUME Sweeper PROVE TypeOK'
    <2>1. probing' \in BOOLEAN /\ sweeps' \in Nat
      <3>1. CASE TakeSweep
        BY <3>1 DEF TakeSweep
      <3>2. CASE SweepSent
        BY <3>2 DEF SweepSent
      <3>3. QED
        BY <1>16, <3>1, <3>2 DEF Sweeper
    <2>2. UNCHANGED <<db, broker, pub, commands, swept, unforced, held, accepted,
                      handled, linkVars, inVars>>
      BY <1>16 DEF Sweeper, TakeSweep, SweepSent
    <2>3. QED
      BY <2>1, <2>2 DEF broker, pub, linkVars, inVars
  <1>17. ASSUME NEW g \in Group, NEW b \in Blocks, LightEvent(g, b) PROVE TypeOK'
    <2>1. b \in Seq(Reports \cup {Missing})
      BY GatewayAssumption
    <2>2. QED
      BY <1>17, <2>1 DEF LightEvent, broker, pub, outVars, linkVars
  <1>18. ASSUME ClockRequest PROVE TypeOK'
    <2>1. <<>> \in Seq(Reports \cup {Missing})
      OBVIOUS
    <2>2. QED
      BY <1>18, <2>1, Members DEF ClockRequest, broker, pub, outVars, linkVars
  <1>19. ASSUME LinkLost PROVE TypeOK'
    <2>1. <<>> \in Seq(Reports \cup {Missing})
      OBVIOUS
    <2>2. QED
      BY <1>19, <2>1, Members DEF LinkLost, broker, pub, outVars
  <1>20. ASSUME Resync PROVE TypeOK'
    <2>1. sweeps' \in Nat /\ swept' \in BOOLEAN /\ unforced' \in Nat
      BY <1>20, QueueSweepType DEF Resync
    <2>2. left' \in [Inputs -> Nat]
      BY <1>20 DEF Resync
    <2>3. QED
      BY <1>20, <2>1, <2>2 DEF Resync, broker, pub, linkVars
  <1>21. ASSUME NEW g \in Group, NEW r \in Reports, NEW ok \in BOOLEAN,
                HandlePublish(g, r, ok)
         PROVE TypeOK'
    BY <1>21 DEF HandlePublish, broker, pub, linkVars, inVars
  <1>22. CASE UNCHANGED vars
    BY <1>22 DEF vars, broker, pub, outVars, linkVars, inVars
  <1>23. ASSUME NEW a \in Actor, Publish(a) PROVE TypeOK'
    BY <1>23, <1>1, <1>2, <1>3, <1>4, <1>5 DEF Publish
  <1>24. ASSUME NEW k \in ConnTask, ConnNext(k) PROVE TypeOK'
    BY <1>24, <1>6, <1>7, <1>8, <1>23, Members DEF ConnNext
  <1>25. QED
    BY <1>9, <1>10, <1>11, <1>12, <1>13, <1>14, <1>15, <1>16, <1>17, <1>18, <1>19,
       <1>20, <1>21, <1>22, <1>23, <1>24, Members
    DEF Next, Worker, Pump, Input, Rest

-----------------------------------------------------------------------------

\* Steps that publish nothing, mark nothing and move no task to a config or
\* state publish keep the invariant.
LEMMA QuietStep ==
  ASSUME ConfigInv, TypeOK',
         UNCHANGED <<db, lightConf, sensorConf, state>>,
         \A b \in Actor : pc'[b] \in {"sensorConf", "state"} =>
                           pc'[b] = pc[b] /\ grp'[b] = grp[b]
  PROVE ConfigInv'
  BY DEF ConfigInv, StateHasConfig, Discovered

\* Every action keeps the discovery invariant.
LEMMA ConfigStep == ConfigInv /\ [Next]_vars => ConfigInv'
  <1> SUFFICES ASSUME ConfigInv, [Next]_vars PROVE ConfigInv'
    OBVIOUS
  <1>0. TypeOK /\ TypeOK'
    BY TypeStep DEF ConfigInv
  <1>1. ASSUME NEW a \in Actor, Check(a) PROVE ConfigInv'
    <2>1. /\ pc' = [pc EXCEPT ![a] = IF db[grp[a]] THEN "state" ELSE "lightConf"]
          /\ UNCHANGED <<db, lightConf, sensorConf, state, grp>>
      BY <1>1 DEF Check, Step, broker
    <2>2. db[grp[a]] => Discovered(grp[a])
      BY <1>0 DEF ConfigInv, TypeOK
    <2>3. QED
      BY <1>0, <2>1, <2>2 DEF ConfigInv, StateHasConfig, Discovered, TypeOK
  <1>2. ASSUME NEW a \in Actor, PublishLightConf(a) PROVE ConfigInv'
    <2>1. /\ lightConf' = [lightConf EXCEPT ![grp[a]] = Name(a, grp[a])]
          /\ pc' = [pc EXCEPT ![a] = "sensorConf"]
          /\ UNCHANGED <<db, sensorConf, state, grp>>
      BY <1>2 DEF PublishLightConf, Step
    <2>2. Name(a, grp[a]) # "none"
      BY DEF Name
    <2>3. lightConf'[grp[a]] # "none"
      BY <1>0, <2>1, <2>2 DEF TypeOK
    <2>4. \A g \in Group : lightConf[g] # "none" => lightConf'[g] # "none"
      BY <1>0, <2>1, <2>2 DEF TypeOK
    <2>5. QED
      BY <1>0, <2>1, <2>3, <2>4 DEF ConfigInv, StateHasConfig, Discovered, TypeOK
  <1>3. ASSUME NEW a \in Actor, PublishSensorConf(a) PROVE ConfigInv'
    <2>1. /\ pc[a] = "sensorConf"
          /\ sensorConf' = [sensorConf EXCEPT ![grp[a]] = Name(a, grp[a])]
          /\ db' = [db EXCEPT ![grp[a]] = TRUE]
          /\ pc' = [pc EXCEPT ![a] = IF a \in ConnTask THEN "announce" ELSE "state"]
          /\ UNCHANGED <<lightConf, state, grp>>
      BY <1>3 DEF PublishSensorConf, Step
    <2>2. Name(a, grp[a]) # "none"
      BY DEF Name
    <2>3. Discovered(grp[a])'
      BY <1>0, <2>1, <2>2 DEF ConfigInv, Discovered, TypeOK
    <2>4. \A g \in Group : Discovered(g) => Discovered(g)'
      BY <1>0, <2>1, <2>2 DEF Discovered, TypeOK
    <2>5. \A g \in Group : db'[g] => Discovered(g)'
      BY <1>0, <2>1, <2>3, <2>4 DEF ConfigInv, TypeOK
    <2>6. \A b \in Actor : pc'[b] = "sensorConf" => lightConf'[grp'[b]] # "none"
      BY <1>0, <2>1 DEF ConfigInv, TypeOK
    <2>7. \A b \in Actor : pc'[b] = "state" => Discovered(grp[b])'
      BY <1>0, <2>1, <2>3, <2>4 DEF ConfigInv, TypeOK
    <2>8. StateHasConfig'
      BY <2>1, <2>4 DEF ConfigInv, StateHasConfig
    <2>9. QED
      BY <1>0, <2>1, <2>5, <2>6, <2>7, <2>8 DEF ConfigInv, Discovered
  <1>4. ASSUME NEW a \in Actor, PublishState(a) PROVE ConfigInv'
    <2>1. /\ pc[a] = "state" /\ state' = [state EXCEPT ![grp[a]] = rep[a]]
          /\ pc' = [pc EXCEPT ![a] = "sensor"]
          /\ UNCHANGED <<db, lightConf, sensorConf, grp>>
      BY <1>4 DEF PublishState, Step
    <2>2. Discovered(grp[a])
      BY <2>1 DEF ConfigInv
    <2>3. QED
      BY <1>0, <2>1, <2>2 DEF ConfigInv, StateHasConfig, Discovered, TypeOK
  <1>5. ASSUME NEW a \in Actor, PublishSensor(a) PROVE ConfigInv'
    <2>1. /\ UNCHANGED <<db, lightConf, sensorConf, state>>
          /\ \A b \in Actor : b # a => pc'[b] = pc[b] /\ grp'[b] = grp[b]
          /\ pc'[a] \in {"slots", "idle"}
      BY <1>0, <1>5 DEF PublishSensor, Step, TypeOK
    <2>2. QED
      BY <1>0, <2>1, QuietStep
  <1>6. ASSUME NEW k \in ConnTask, OnConnected(k) \/ Announce(k) \/ Announced(k)
        PROVE ConfigInv'
    <2>1. /\ UNCHANGED <<db, lightConf, sensorConf, state>>
          /\ \A b \in Actor : b # k => pc'[b] = pc[b] /\ grp'[b] = grp[b]
          /\ pc'[k] \in {"announce", "lightConf", "done"}
      BY <1>0, <1>6, Members DEF OnConnected, Announce, Announced, Step, TypeOK, broker
    <2>2. QED
      BY <1>0, <2>1, QuietStep
  <1>7. ASSUME TakeCommand \/ SendCommand PROVE ConfigInv'
    <2>1. /\ UNCHANGED <<db, lightConf, sensorConf, state>>
          /\ \A b \in Actor : b # "worker" => pc'[b] = pc[b] /\ grp'[b] = grp[b]
          /\ pc["worker"] \in {"idle", "sending"}
          /\ pc'["worker"] \in {"sending", "check", "idle"}
      <3>1. CASE TakeCommand
        BY <1>0, <3>1, Members DEF TakeCommand, Step, TypeOK, broker
      <3>2. CASE SendCommand
        BY <1>0, <3>2, Members DEF SendCommand, Step, TypeOK, broker
      <3>3. QED
        BY <1>7, <3>1, <3>2
    <2>2. QED
      BY <1>0, <2>1, QuietStep
  <1>8. ASSUME TakeEvent PROVE ConfigInv'
    <2>1. /\ UNCHANGED <<lightConf, sensorConf, state>>
          /\ \A b \in Actor : pc'[b] \in {"sensorConf", "state"} =>
                               pc'[b] = pc[b] /\ grp'[b] = grp[b]
      BY <1>0, <1>8, Members DEF TakeEvent, Step, Exit, TypeOK, broker
    <2>2. db' = db \/ db' = [g \in Group |-> FALSE]
      BY <1>8 DEF TakeEvent
    <2>3. QED
      BY <1>0, <2>1, <2>2 DEF ConfigInv, StateHasConfig, Discovered
  <1>9. ASSUME NextSlot \/ BlockDone \/ ConnectOk \/ ConnectFail PROVE ConfigInv'
    <2>1. /\ UNCHANGED <<db, lightConf, sensorConf, state>>
          /\ \A b \in Actor : pc'[b] \in {"sensorConf", "state"} =>
                               pc'[b] = pc[b] /\ grp'[b] = grp[b]
      <3>1. CASE NextSlot
        BY <1>0, <3>1, Members DEF NextSlot, Step, TypeOK, broker
      <3>2. CASE BlockDone
        BY <1>0, <3>2, Members DEF BlockDone, Step, TypeOK, broker
      <3>3. CASE ConnectOk
        BY <1>0, <3>3, Members DEF ConnectOk, Step, TypeOK, broker
      <3>4. CASE ConnectFail
        BY <1>0, <3>4, Members DEF ConnectFail, Exit, TypeOK, broker
      <3>5. QED
        BY <1>9, <3>1, <3>2, <3>3, <3>4
    <2>2. QED
      BY <1>0, <2>1, QuietStep
  <1>10. ASSUME Sweeper \/ Input PROVE ConfigInv'
    <2>1. UNCHANGED <<db, lightConf, sensorConf, state, pc, grp>>
      BY <1>10 DEF Sweeper, Input, TakeSweep, SweepSent, LightEvent, ClockRequest,
         LinkLost, Resync, HandlePublish, broker, pub
    <2>2. QED
      BY <1>0, <2>1, QuietStep
  <1>11. CASE UNCHANGED vars
    <2>1. UNCHANGED <<db, lightConf, sensorConf, state, pc, grp>>
      BY <1>11 DEF vars, broker, pub
    <2>2. QED
      BY <1>0, <2>1, QuietStep
  <1>12. ASSUME NEW a \in Actor, Publish(a) PROVE ConfigInv'
    BY <1>12, <1>1, <1>2, <1>3, <1>4, <1>5 DEF Publish
  <1>13. QED
    BY <1>6, <1>7, <1>8, <1>9, <1>10, <1>11, <1>12, Members
    DEF Next, ConnNext, Worker, Pump, Rest

\* The inductive invariant holds in every state.
LEMMA ConfigInvariant == Spec => []ConfigInv
  BY InitConfig, ConfigStep, PTL DEF Spec

\* Type correctness of the gateway: in particular the group counter of a
\* status report stays a group address, however long the block
\* (on_cbus_event).
THEOREM GatewayTypeCorrect == Spec => []TypeOK
  <1>1. ConfigInv => TypeOK
    BY DEF ConfigInv
  <1>2. QED
    BY <1>1, ConfigInvariant, PTL

\* No retained state before its discovery configs, whatever the event pump,
\* the command worker and the broker connections interleave
\* (check_published, publish_light).
THEOREM StateHasConfigCorrect == Spec => []StateHasConfig
  <1>1. ConfigInv => StateHasConfig
    BY DEF ConfigInv
  <1>2. QED
    BY <1>1, ConfigInvariant, PTL

-----------------------------------------------------------------------------

\* A sweep request queues an unforced batch only when the flag was clear, and
\* never clears it.
LEMMA QueueSweepOnce ==
  ASSUME SweepInv, swept \in BOOLEAN, NEW force \in BOOLEAN, QueueSweep(force)
  PROVE SweepInv'
  <1>1. CASE ~force /\ swept
    BY <1>1 DEF QueueSweep, SweepInv, SweepOnce
  <1>2. CASE force
    BY <1>2 DEF QueueSweep, SweepInv, SweepOnce
  <1>3. CASE ~force /\ ~swept
    <2>1. unforced = 0
      BY <1>3 DEF SweepInv
    <2>2. unforced' = 1 /\ swept'
      BY <1>3, <2>1 DEF QueueSweep
    <2>3. QED
      BY <2>2 DEF SweepInv, SweepOnce
  <1>4. QED
    BY <1>1, <1>2, <1>3

\* Broker connections and reconnects queue one unforced sweep between them,
\* for any number of either (queue_configured_status_requests).
THEOREM SweepOnceCorrect == Spec => []SweepOnce
  <1>1. Init => SweepInv
    BY DEF Init, SweepInv, SweepOnce
  <1>2. TypeOK /\ SweepInv /\ [Next]_vars => SweepInv'
    <2> SUFFICES ASSUME TypeOK, SweepInv, [Next]_vars PROVE SweepInv'
      OBVIOUS
    <2>1. swept \in BOOLEAN
      BY DEF TypeOK
    <2>2. UNCHANGED <<swept, unforced>> => SweepInv'
      BY DEF SweepInv, SweepOnce
    <2>3. ASSUME NEW k \in ConnTask, Announced(k) PROVE SweepInv'
      BY <2>1, <2>3, QueueSweepOnce DEF Announced
    <2>4. ASSUME ConnectOk PROVE SweepInv'
      BY <2>1, <2>4, QueueSweepOnce DEF ConnectOk
    <2>5. ASSUME Resync PROVE SweepInv'
      BY <2>1, <2>5, QueueSweepOnce DEF Resync
    <2>6. ASSUME NEW a \in Actor, Publish(a) PROVE SweepInv'
      BY <2>2, <2>6 DEF Publish, Check, PublishLightConf, PublishSensorConf,
         PublishState, PublishSensor, outVars
    <2>7. ASSUME NEW k \in ConnTask, OnConnected(k) \/ Announce(k) PROVE SweepInv'
      BY <2>2, <2>7 DEF OnConnected, Announce, outVars
    <2>8. ASSUME \/ TakeCommand \/ SendCommand \/ TakeEvent \/ NextSlot \/ BlockDone
                 \/ ConnectFail \/ Sweeper
          PROVE SweepInv'
      BY <2>2, <2>8 DEF TakeCommand, SendCommand, TakeEvent, NextSlot, BlockDone,
         ConnectFail, Sweeper, TakeSweep, SweepSent, outVars
    <2>9. ASSUME NEW g \in Group, NEW b \in Blocks, LightEvent(g, b) PROVE SweepInv'
      BY <2>2, <2>9 DEF LightEvent, outVars
    <2>10. ASSUME ClockRequest \/ LinkLost PROVE SweepInv'
      BY <2>2, <2>10 DEF ClockRequest, LinkLost, outVars
    <2>11. ASSUME NEW g \in Group, NEW r \in Reports, NEW ok \in BOOLEAN,
                  HandlePublish(g, r, ok)
           PROVE SweepInv'
      BY <2>2, <2>11 DEF HandlePublish
    <2>12. CASE UNCHANGED vars
      BY <2>2, <2>12 DEF vars, outVars
    <2>13. QED
      BY <2>3, <2>4, <2>5, <2>6, <2>7, <2>8, <2>9, <2>10, <2>11, <2>12, Members
      DEF Next, ConnNext, Worker, Pump, Input, Rest
  <1>3. SweepInv => SweepOnce
    BY DEF SweepInv
  <1>4. QED
    BY <1>1, <1>2, <1>3, GatewayTypeCorrect, PTL DEF Spec

=============================================================================
