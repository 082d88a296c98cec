------------------------- MODULE FlowControlProofs -------------------------
(***************************************************************************)
(* Proofs about the flow controller, for every set of frames, every        *)
(* configuration that satisfies FlowAssumption and every clock.            *)
(***************************************************************************)
EXTENDS FlowControl, SequenceOrderProofs, FiniteSetTheorems, TLAPS

-----------------------------------------------------------------------------
(* Lemmas about the operators of the synchronous core *)

LEMMA ServedLaneType == ServedLane \in Lane
BY DEF ServedLane, Lane

LEMMA CountDownType == \A n \in Nat : CountDown(n) \in Nat
BY DEF CountDown

\* Counting down the deadlines keeps the slots a finite set, and no larger.
LEMMA CountDownFinite ==
  ASSUME NEW S \in SUBSET Slot, IsFiniteSet(S)
  PROVE  LET T == {[f EXCEPT !.left = CountDown(f.left)] : f \in S}
         IN  /\ T \subseteq Slot
             /\ IsFiniteSet(T)
             /\ Cardinality(T) <= Cardinality(S)
<1> DEFINE Down(f) == [f EXCEPT !.left = CountDown(f.left)]
           T == {Down(f) : f \in S}
           F == [f \in S |-> Down(f)]
<1>1. \A f \in Slot : Down(f) \in Slot
  BY CountDownType DEF Slot
<1>2. T \subseteq Slot
  BY <1>1
<1> HIDE DEF Down
<1>3. F \in Surjection(S, T)
  <2>1. F \in [S -> T]
    OBVIOUS
  <2>2. \A t \in T : \E f \in S : F[f] = t
    OBVIOUS
  <2> QED
    BY <2>1, <2>2 DEF Surjection
<1>4. IsFiniteSet(T) /\ Cardinality(T) <= Cardinality(S)
  <2> HIDE DEF F, T
  <2> QED
    BY <1>3, FS_Surjection
<1> QED
  BY <1>2, <1>4 DEF Down

LEMMA CollapseType ==
  ASSUME TypeOK, Collapse
  PROVE  acks' = 0 /\ window' = WindowMin
BY FlowAssumption DEF TypeOK, Collapse

LEMMA ExpireType ==
  ASSUME TypeOK, Expire
  PROVE  /\ inFlight' \subseteq inFlight /\ IsFiniteSet(inFlight')
         /\ Cardinality(inFlight') <= Cardinality(inFlight)
         /\ timeouts' \in 0..CollapseTimeouts
         /\ \/ acks' = acks /\ window' = window /\ (timeouts' = CollapseTimeouts => timeouts = CollapseTimeouts)
            \/ acks' = 0 /\ window' = WindowMin
            \/ acks' = 0 /\ window' = window /\ timeouts' # CollapseTimeouts
<1>1. inFlight' \subseteq inFlight
  BY DEF Expire
<1>2. IsFiniteSet(inFlight') /\ Cardinality(inFlight') <= Cardinality(inFlight)
  BY <1>1, FS_Subset DEF TypeOK
<1>3. IsFiniteSet(Unanswered) /\ Cardinality(Unanswered) \in Nat
  <2>1. Unanswered \subseteq inFlight
    BY DEF Unanswered, Expired
  <2> QED
    BY <2>1, FS_Subset, FS_CardinalityType DEF TypeOK
<1>4. Unanswered = {} => Cardinality(Unanswered) = 0
  BY FS_EmptySet
<1>5. timeouts' \in 0..CollapseTimeouts
  BY <1>3, FlowAssumption DEF TypeOK, Expire, Saturated, Least
<1>6. CASE Unanswered = {}
  BY <1>1, <1>2, <1>4, <1>5, <1>6, FlowAssumption DEF TypeOK, Expire, Saturated, Least
<1>7. CASE Unanswered # {} /\ timeouts + Cardinality(Unanswered) >= CollapseTimeouts
  BY <1>1, <1>2, <1>5, <1>7, CollapseType DEF Expire
<1>8. CASE Unanswered # {} /\ ~(timeouts + Cardinality(Unanswered) >= CollapseTimeouts)
  BY <1>1, <1>2, <1>3, <1>5, <1>8, FlowAssumption DEF TypeOK, Expire, Saturated, Least
<1> QED
  BY <1>6, <1>7, <1>8

\* A response frees at most one slot, and the clean-ack counter moves by one.
LEMMA OnAckType ==
  ASSUME TypeOK, NEW s \in Signal, OnAck(s)
  PROVE  /\ inFlight' \subseteq inFlight /\ IsFiniteSet(inFlight')
         /\ Cardinality(inFlight') <= Cardinality(inFlight)
         /\ window' \in WindowMin..WindowMax
         /\ timeouts' \in 0..CollapseTimeouts /\ acks' \in 0..GrowAcks
         /\ sends' = sends /\ pause' = pause /\ gap' = gap
         /\ \/ UNCHANGED <<inFlight, window, timeouts, acks>>
            \/ /\ Cardinality(inFlight') = Cardinality(inFlight) - 1
               /\ timeouts' = 0
               /\ acks' <= acks + 1
               /\ acks + 1 < GrowAcks => window' = window
<1>1. CASE Matching(s) = {} /\ UNCHANGED coreVars
  BY <1>1, FS_CardinalityType DEF TypeOK, coreVars
<1>2. CASE ~(Matching(s) = {} /\ UNCHANGED coreVars)
  <2>1. PICK f \in Oldest(Matching(s)) : inFlight' = inFlight \ {f}
    BY <1>2 DEF OnAck
  <2>2. f \in inFlight
    BY DEF Oldest, Matching
  <2>3. /\ IsFiniteSet(inFlight')
        /\ Cardinality(inFlight') = Cardinality(inFlight) - 1
    BY <2>1, <2>2, FS_RemoveElement DEF TypeOK
  <2>4. Cardinality(inFlight) \in Nat
    BY FS_CardinalityType DEF TypeOK
  <2>5. /\ window' \in WindowMin..WindowMax
        /\ timeouts' = 0 /\ acks' \in 0..GrowAcks
        /\ sends' = sends /\ pause' = pause /\ gap' = gap
        /\ acks' <= acks + 1
        /\ acks + 1 < GrowAcks => window' = window
    BY <1>2, FlowAssumption DEF OnAck, TypeOK, Saturated, Least
  <2> QED
    BY <2>1, <2>3, <2>4, <2>5, FlowAssumption
<1> QED
  BY <1>1, <1>2

\* A frame that is sent takes one slot.
LEMMA RecordSendCount ==
  ASSUME TypeOK, NEW j \in Job, RecordSend(j)
  PROVE  Cardinality(inFlight') <= Cardinality(inFlight) + 1
<1>1. PICK f : inFlight' = inFlight \cup {f}
  BY DEF RecordSend
<1>2. IsFiniteSet(inFlight) /\ Cardinality(inFlight) \in Nat
  BY FS_CardinalityType DEF TypeOK
<1>3. Cardinality(inFlight \cup {f})
        = IF f \in inFlight THEN Cardinality(inFlight) ELSE Cardinality(inFlight) + 1
  BY <1>2, FS_AddElement
<1> QED
  BY <1>1, <1>2, <1>3

-----------------------------------------------------------------------------
(* Type correctness *)

LEMMA InitType == Init => TypeOK
<1> SUFFICES ASSUME Init PROVE TypeOK
  OBVIOUS
<1>1. IsFiniteSet(inFlight)
  BY FS_EmptySet DEF Init
<1>2. queue \in [Lane -> Seq(Job)]
  BY DEF Init
<1>3. overtaken \in [Job -> Nat]
  BY DEF Init
<1>4. /\ window \in WindowMin..WindowMax /\ sends \in Nat
      /\ timeouts \in 0..CollapseTimeouts /\ acks \in 0..GrowAcks
      /\ pause \in Nat /\ gap \in Nat /\ leaked \in Nat /\ eventsLeft \in Nat
  BY FlowAssumption DEF Init
<1>5. (pc = "writing") = (current # <<>>)
  BY DEF Init
<1>6. /\ jobsCh \in Seq(Job) /\ eventsCh \in Seq(Signal \cup {"error"})
      /\ result \in [Job -> {"idle", "queued", "ok", "err"}]
      /\ pc = "events" /\ current = <<>> /\ inFlight \subseteq Slot
  BY DEF Init
<1>7. timed \in BOOLEAN /\ dead \in BOOLEAN /\ dropped \in BOOLEAN
  BY DEF Init
<1> QED
  BY <1>1, <1>2, <1>3, <1>4, <1>5, <1>6, <1>7 DEF TypeOK

LEMMA NextType == TypeOK /\ [Next]_vars => TypeOK'
<1> SUFFICES ASSUME TypeOK, [Next]_vars PROVE TypeOK'
  OBVIOUS
<1> USE FlowAssumption
<1>1. ASSUME NEW j \in Job, Submit(j) PROVE TypeOK'
  BY <1>1 DEF TypeOK, Submit, coreVars
<1>2. ASSUME NEW e \in Signal \cup {"error"}, Feedback(e) PROVE TypeOK'
  BY <1>2 DEF TypeOK, Feedback, coreVars
<1>3. CASE Tick
  <2>1. inFlight' \subseteq Slot /\ IsFiniteSet(inFlight')
    BY <1>3, CountDownFinite DEF TypeOK, Tick
  <2>2. pause' \in Nat /\ gap' \in Nat
    <3>1. pause' = CountDown(pause) /\ gap' = CountDown(gap)
      BY <1>3 DEF Tick
    <3> QED
      BY <3>1, CountDownType DEF TypeOK
  <2>3. UNCHANGED <<jobsCh, eventsCh, eventsLeft, result, pc, queue, current,
                    window, sends, timeouts, acks, timed, dead, dropped,
                    overtaken, leaked>>
    BY <1>3 DEF Tick, chanVars
  <2> QED
    BY <2>1, <2>2, <2>3 DEF TypeOK
<1>4. CASE DropHandle
  BY <1>4 DEF TypeOK, DropHandle, coreVars, chanVars
<1>5. CASE TakeEvent
  <2>1. /\ eventsCh' \in Seq(Signal \cup {"error"})
        /\ Head(eventsCh) \in Signal \cup {"error"}
    BY <1>5 DEF TypeOK, TakeEvent
  <2>2. leaked' \in Nat
    BY <1>5 DEF TypeOK, TakeEvent
  <2>3. CASE Head(eventsCh) = "error"
    <3>1. OnPciError
      BY <1>5, <2>3 DEF TakeEvent
    <3> QED
      BY <1>5, <2>1, <2>2, <3>1 DEF TypeOK, TakeEvent, OnPciError, Collapse
  <2>4. CASE Head(eventsCh) # "error"
    <3>1. OnAck(Head(eventsCh)) /\ Head(eventsCh) \in Signal
      BY <1>5, <2>1, <2>4 DEF TakeEvent
    <3>2. /\ inFlight' \subseteq inFlight /\ IsFiniteSet(inFlight')
          /\ window' \in WindowMin..WindowMax
          /\ timeouts' \in 0..CollapseTimeouts /\ acks' \in 0..GrowAcks
          /\ sends' = sends /\ pause' = pause /\ gap' = gap
      BY <3>1, OnAckType
    <3> QED
      BY <1>5, <2>1, <2>2, <3>2 DEF TypeOK, TakeEvent
  <2> QED
    BY <2>3, <2>4
<1>6. CASE EventsDrained
  BY <1>6 DEF TypeOK, EventsDrained, coreVars, chanVars
<1>7. CASE TakeJob
  <2>1. Head(jobsCh) \in Job /\ jobsCh' \in Seq(Job)
    BY <1>7 DEF TypeOK, TakeJob
  <2>2. queue' \in [Lane -> Seq(Job)]
    BY <1>7, <2>1 DEF TypeOK, TakeJob
  <2> QED
    BY <1>7, <2>1, <2>2 DEF TypeOK, TakeJob, coreVars
<1>8. CASE ExpireSlots
  <2>1. /\ inFlight' \subseteq inFlight /\ IsFiniteSet(inFlight')
        /\ timeouts' \in 0..CollapseTimeouts
        /\ acks' \in {0, acks} /\ window' \in {window, WindowMin}
    BY <1>8, ExpireType DEF ExpireSlots
  <2> QED
    BY <1>8, <2>1 DEF TypeOK, ExpireSlots, chanVars
<1>9. CASE StartWrite
  <2>1. /\ Head(queue[ServedLane]) \in Job
        /\ queue' \in [Lane -> Seq(Job)]
    BY <1>9, ServedLaneType DEF TypeOK, StartWrite
  <2>2. overtaken' \in [Job -> Nat] /\ leaked' \in Nat
    BY <1>9 DEF TypeOK, StartWrite
  <2>3. current' \in {<<j>> : j \in Job} /\ current' # <<>>
    BY <1>9, <2>1 DEF StartWrite
  <2> QED
    BY <1>9, <2>1, <2>2, <2>3 DEF TypeOK, StartWrite, coreVars, chanVars
<1>10. CASE Park
  BY <1>10 DEF TypeOK, Park, coreVars, chanVars
<1>11. CASE SleepOver
  BY <1>11 DEF TypeOK, SleepOver, coreVars, chanVars
<1>12. CASE WriteOk
  <2>1. PICK j \in Job : current = <<j>>
    BY <1>12 DEF TypeOK, WriteOk
  <2>2. CASE LaneOf[j] = "unwindowed"
    BY <1>12, <2>1, <2>2 DEF TypeOK, WriteOk, RecordRawSend, chanVars
  <2>3. CASE LaneOf[j] # "unwindowed"
    <3>1. RecordSend(j)
      BY <1>12, <2>1, <2>3 DEF WriteOk
    <3>2. PICK hold \in Nat :
            inFlight' = inFlight \cup {[kind |-> KindOf[j], left |-> hold, sent |-> sends]}
      BY <3>1 DEF RecordSend
    <3>3. inFlight' \subseteq Slot
      BY <3>2 DEF TypeOK, Slot
    <3>4. IsFiniteSet(inFlight')
      BY <3>2, FS_AddElement DEF TypeOK
    <3> QED
      BY <1>12, <2>1, <3>1, <3>3, <3>4 DEF TypeOK, WriteOk, RecordSend, chanVars
  <2> QED
    BY <2>2, <2>3
<1>13. CASE WriteErr
  <2>1. PICK j \in Job : current = <<j>>
    BY <1>13 DEF TypeOK, WriteErr
  <2> QED
    BY <1>13, <2>1 DEF TypeOK, WriteErr, coreVars, chanVars
<1>14. CASE Return
  BY <1>14 DEF TypeOK, Return, coreVars, chanVars
<1>15. CASE UNCHANGED vars
  BY <1>15 DEF TypeOK, vars, coreVars, chanVars
<1> QED
  BY <1>1, <1>2, <1>3, <1>4, <1>5, <1>6, <1>7, <1>8, <1>9, <1>10, <1>11, <1>12,
     <1>13, <1>14, <1>15 DEF Next, Controller, Returned

\* Every variable of the controller keeps its range whatever callers, device
\* and clock do: in particular the window never leaves
\* window_min..window_max (FlowState, run).
THEOREM TypeCorrect == Spec => []TypeOK
BY InitType, NextType, PTL DEF Spec

-----------------------------------------------------------------------------
(* The window *)

LEMMA InitFlowInv == Init => FlowInv
<1> SUFFICES ASSUME Init PROVE FlowInv
  OBVIOUS
<1>1. Cardinality(inFlight) = 0
  BY FS_EmptySet DEF Init
<1>2. SlotsInv /\ PauseInv /\ TimeoutsKeepCollapsed
  BY <1>1, FlowAssumption DEF Init, SlotsInv, PauseInv, TimeoutsKeepCollapsed
<1>3. LanesInv
  BY DEF Init, LanesInv
<1> QED
  BY <1>2, <1>3, InitType DEF FlowInv

\* Steps that leave the core and the frame being written alone.
LEMMA CoreUnchanged ==
  ASSUME FlowInv, TypeOK', LanesInv', UNCHANGED <<coreVars, current>>
  PROVE  FlowInv'
BY DEF FlowInv, SlotsInv, PauseInv, TimeoutsKeepCollapsed, coreVars

\* A frame stays in the lane `enqueue` put it in.
LEMMA NextLanes == TypeOK /\ LanesInv /\ [Next]_vars => LanesInv'
<1> SUFFICES ASSUME TypeOK, LanesInv, [Next]_vars PROVE LanesInv'
  OBVIOUS
<1>1. CASE TakeJob
  <2>1. /\ Head(jobsCh) \in Job
        /\ queue' = [queue EXCEPT ![LaneOf[Head(jobsCh)]] = Append(@, Head(jobsCh))]
    BY <1>1 DEF TakeJob, TypeOK
  <2> QED
    BY <2>1 DEF LanesInv, TypeOK
<1>2. CASE StartWrite
  <2>1. /\ queue[ServedLane] # <<>>
        /\ queue' = [queue EXCEPT ![ServedLane] = Tail(@)]
    BY <1>2 DEF StartWrite
  <2> QED
    BY <2>1, ServedLaneType DEF LanesInv, TypeOK
<1>3. CASE UNCHANGED queue
  BY <1>3 DEF LanesInv
<1>4. TakeJob \/ StartWrite \/ UNCHANGED queue
  BY DEF Next, Controller, Returned, vars, Submit, Feedback, Tick, DropHandle,
     TakeEvent, EventsDrained, ExpireSlots, Park, SleepOver, WriteOk, WriteErr, Return
<1> QED
  BY <1>1, <1>2, <1>3, <1>4

LEMMA NextFlowInv == FlowInv /\ [Next]_vars => FlowInv'
<1> SUFFICES ASSUME FlowInv, [Next]_vars PROVE FlowInv'
  OBVIOUS
<1> USE FlowAssumption
<1>t. TypeOK /\ TypeOK' /\ LanesInv'
  BY NextType, NextLanes DEF FlowInv
<1>c. Cardinality(inFlight) \in Nat /\ Cardinality(inFlight') \in Nat
  BY <1>t, FS_CardinalityType DEF TypeOK
<1>1. ASSUME NEW j \in Job, Submit(j) PROVE FlowInv'
  BY <1>1, <1>t, CoreUnchanged DEF Submit
<1>2. ASSUME NEW e \in Signal \cup {"error"}, Feedback(e) PROVE FlowInv'
  BY <1>2, <1>t, CoreUnchanged DEF Feedback
<1>3. CASE Tick
  <2>1. Cardinality(inFlight') <= Cardinality(inFlight)
    BY <1>3, <1>t, CountDownFinite DEF TypeOK, Tick
  <2>2. pause' > 0 => pause > 0
    <3>1. pause' = CountDown(pause)
      BY <1>3 DEF Tick
    <3> QED
      BY <3>1, <1>t DEF TypeOK, CountDown
  <2>3. UNCHANGED <<window, current, acks, timeouts>>
    BY <1>3 DEF Tick
  <2>4. SlotsInv'
    <3>1. window \in Nat
      BY <1>t DEF TypeOK
    <3> QED
      BY <1>c, <2>1, <2>3, <3>1 DEF FlowInv, SlotsInv
  <2>5. PauseInv'
    <3>1. acks \in Nat
      BY <1>t DEF TypeOK
    <3> QED
      BY <1>c, <2>1, <2>2, <2>3, <3>1 DEF FlowInv, PauseInv
  <2>6. TimeoutsKeepCollapsed'
    BY <2>3 DEF FlowInv, TimeoutsKeepCollapsed
  <2> QED
    BY <1>t, <2>4, <2>5, <2>6 DEF FlowInv
<1>4. CASE DropHandle
  BY <1>4, <1>t, CoreUnchanged DEF DropHandle
<1>5. CASE TakeEvent
  <2>1. current = <<>> /\ current' = <<>>
    BY <1>5, <1>t DEF TakeEvent, TypeOK
  <2>2. CASE Head(eventsCh) = "error"
    <3>1. OnPciError
      BY <1>5, <2>2 DEF TakeEvent
    <3>2. acks' = 0 /\ window' = WindowMin /\ inFlight' = inFlight
      BY <3>1, <1>t, CollapseType DEF OnPciError
    <3>3. SlotsInv'
      BY <2>1, <3>2 DEF FlowInv, SlotsInv
    <3>4. PauseInv'
      BY <1>c, <2>1, <3>2 DEF FlowInv, SlotsInv, PauseInv
    <3>5. TimeoutsKeepCollapsed'
      BY <3>2 DEF TimeoutsKeepCollapsed
    <3> QED
      BY <1>t, <3>3, <3>4, <3>5 DEF FlowInv
  <2>3. CASE Head(eventsCh) # "error"
    <3>1. OnAck(Head(eventsCh)) /\ Head(eventsCh) \in Signal
      BY <1>5, <1>t, <2>3 DEF TakeEvent, TypeOK
    <3>2. /\ Cardinality(inFlight') <= Cardinality(inFlight)
          /\ pause' = pause
          /\ \/ UNCHANGED <<inFlight, window, timeouts, acks>>
             \/ /\ Cardinality(inFlight') = Cardinality(inFlight) - 1
                /\ timeouts' = 0
                /\ acks' <= acks + 1
                /\ acks + 1 < GrowAcks => window' = window
      BY <3>1, <1>t, OnAckType
    <3>3. SlotsInv'
      BY <1>c, <2>1, <3>2 DEF FlowInv, TypeOK, SlotsInv
    <3>4. PauseInv'
      <4> SUFFICES ASSUME pause' > 0
                   PROVE  /\ window' = WindowMin
                          /\ acks' + Cardinality(inFlight') <= WindowMax
        BY <2>1 DEF PauseInv
      <4>1. window = WindowMin /\ acks + Cardinality(inFlight) <= WindowMax
        BY <3>2 DEF FlowInv, PauseInv
      <4>2. acks \in Nat /\ acks' \in Nat
        BY <1>t DEF TypeOK
      <4>3. CASE UNCHANGED <<inFlight, window, timeouts, acks>>
        BY <4>1, <4>3
      <4>4. CASE /\ Cardinality(inFlight') = Cardinality(inFlight) - 1
                 /\ acks' <= acks + 1
                 /\ acks + 1 < GrowAcks => window' = window
        BY <4>1, <4>2, <4>4, <1>c
      <4> QED
        BY <3>2, <4>3, <4>4
    <3>5. TimeoutsKeepCollapsed'
      BY <1>t, <3>2 DEF FlowInv, TypeOK, TimeoutsKeepCollapsed
    <3> QED
      BY <1>t, <3>3, <3>4, <3>5 DEF FlowInv
  <2> QED
    BY <2>2, <2>3
<1>6. CASE EventsDrained
  BY <1>6, <1>t, CoreUnchanged DEF EventsDrained
<1>7. CASE TakeJob
  BY <1>7, <1>t, CoreUnchanged DEF TakeJob
<1>8. CASE ExpireSlots
  <2>1. current = <<>> /\ current' = <<>> /\ pause' = pause
    BY <1>8, <1>t DEF ExpireSlots, TypeOK
  <2>2. /\ Cardinality(inFlight') <= Cardinality(inFlight)
        /\ \/ acks' = acks /\ window' = window /\ (timeouts' = CollapseTimeouts => timeouts = CollapseTimeouts)
           \/ acks' = 0 /\ window' = WindowMin
           \/ acks' = 0 /\ window' = window /\ timeouts' # CollapseTimeouts
    BY <1>8, <1>t, ExpireType DEF ExpireSlots
  <2>3. SlotsInv'
    BY <1>c, <2>1, <2>2 DEF FlowInv, SlotsInv
  <2>4. PauseInv'
    <3>1. acks \in Nat
      BY <1>t DEF TypeOK
    <3> QED
      BY <1>c, <2>1, <2>2, <3>1 DEF FlowInv, PauseInv
  <2>5. TimeoutsKeepCollapsed'
    BY <2>2 DEF FlowInv, TimeoutsKeepCollapsed
  <2> QED
    BY <1>t, <2>3, <2>4, <2>5 DEF FlowInv
<1>9. CASE StartWrite
  <2>1. UNCHANGED coreVars /\ pause = 0
    BY <1>9 DEF StartWrite, GateOpen
  <2>2. ASSUME NEW j \in Job, current' = <<j>>, LaneOf[j] # "unwindowed"
        PROVE  Cardinality(inFlight) < window
    <3>1. ~WindowBlocked
      BY <1>9 DEF StartWrite, GateOpen
    <3>2. ServedLane # "unwindowed"
      <4>1. /\ queue[ServedLane] # <<>>
            /\ queue[ServedLane] \in Seq({k \in Job : LaneOf[k] = ServedLane})
            /\ j = Head(queue[ServedLane])
        BY <1>9, <2>2, ServedLaneType DEF StartWrite, FlowInv, LanesInv
      <4> QED
        BY <4>1, <2>2
    <3>3. ~(Cardinality(inFlight) >= window)
      BY <3>1, <3>2 DEF WindowBlocked
    <3>4. Cardinality(inFlight) \in Nat /\ window \in Int
      BY <1>t, <1>c, FlowAssumption DEF TypeOK
    <3> QED
      BY <3>3, <3>4
  <2> QED
    BY <1>t, <2>1, <2>2
    DEF FlowInv, SlotsInv, PauseInv, TimeoutsKeepCollapsed, coreVars
<1>10. CASE Park
  BY <1>10, <1>t, CoreUnchanged DEF Park
<1>11. CASE SleepOver
  BY <1>11, <1>t, CoreUnchanged DEF SleepOver
<1>12. CASE WriteOk
  <2>1. PICK j \in Job : current = <<j>>
    BY <1>12, <1>t DEF TypeOK, WriteOk
  <2>2. current' = <<>> /\ pause = 0
    BY <1>12, <1>t, <2>1 DEF WriteOk, FlowInv, PauseInv, TypeOK
  <2>3. CASE LaneOf[j] = "unwindowed"
    BY <1>12, <1>t, <2>1, <2>2, <2>3
    DEF WriteOk, RecordRawSend, FlowInv, SlotsInv, PauseInv, TimeoutsKeepCollapsed
  <2>4. CASE LaneOf[j] # "unwindowed"
    <3>1. RecordSend(j)
      BY <1>12, <2>1, <2>4 DEF WriteOk
    <3>2. Cardinality(inFlight') <= Cardinality(inFlight) + 1
      BY <3>1, <1>t, RecordSendCount
    <3>3. Cardinality(inFlight) < window
      BY <2>1, <2>4 DEF FlowInv, SlotsInv
    <3>4. UNCHANGED <<window, timeouts, acks, pause>>
      BY <3>1 DEF RecordSend
    <3>5. SlotsInv'
      <4>1. window \in Nat /\ window <= WindowMax
        BY <1>t DEF TypeOK
      <4> QED
        BY <1>c, <2>2, <3>2, <3>3, <4>1 DEF SlotsInv
    <3>6. PauseInv' /\ TimeoutsKeepCollapsed'
      BY <2>2, <3>4 DEF FlowInv, PauseInv, TimeoutsKeepCollapsed
    <3> QED
      BY <1>t, <3>5, <3>6 DEF FlowInv
  <2> QED
    BY <2>3, <2>4
<1>13. CASE WriteErr
  BY <1>13, <1>t
  DEF WriteErr, coreVars, FlowInv, SlotsInv, PauseInv, TimeoutsKeepCollapsed
<1>14. CASE Return
  BY <1>14, <1>t, CoreUnchanged DEF Return
<1>15. CASE UNCHANGED vars
  BY <1>15, <1>t, CoreUnchanged DEF vars
<1> QED
  BY <1>1, <1>2, <1>3, <1>4, <1>5, <1>6, <1>7, <1>8, <1>9, <1>10, <1>11, <1>12,
     <1>13, <1>14, <1>15 DEF Next, Controller, Returned

LEMMA FlowInvCorrect == Spec => []FlowInv
BY InitFlowInv, NextFlowInv, PTL DEF Spec

\* Whatever is in flight when `!` arrives, the window is at its minimum for as
\* long as the pause lasts (on_pci_error, on_ack, run).  This needs
\* window_max < grow_acks, which FlowConfig::default satisfies.
THEOREM PausedStaysCollapsedCorrect == Spec => []PausedStaysCollapsed
<1>1. FlowInv => PausedStaysCollapsed
  BY DEF FlowInv, PauseInv, PausedStaysCollapsed
<1> QED
  BY <1>1, FlowInvCorrect, PTL

\* After collapse_timeouts missed responses in a row the window is at its
\* minimum until a response is seen (expire, on_ack).
THEOREM TimeoutsKeepCollapsedCorrect == Spec => []TimeoutsKeepCollapsed
<1>1. FlowInv => TimeoutsKeepCollapsed
  BY DEF FlowInv
<1> QED
  BY <1>1, FlowInvCorrect, PTL

\* Only a completed write takes a slot, and it found room for it.
LEMMA StepAdmits ==
  ASSUME FlowInv, [Next]_vars
  PROVE  Cardinality(inFlight') > Cardinality(inFlight)
           => Cardinality(inFlight') <= window'
<1>t. TypeOK /\ TypeOK'
  BY NextType DEF FlowInv
<1>c. Cardinality(inFlight) \in Nat /\ Cardinality(inFlight') \in Nat /\ window \in Nat
  BY <1>t, FlowAssumption, FS_CardinalityType DEF TypeOK
<1>1. CASE Tick
  <2>1. Cardinality(inFlight') <= Cardinality(inFlight)
    BY <1>1, <1>t, CountDownFinite DEF Tick, TypeOK
  <2> QED
    BY <2>1, <1>c
<1>2. CASE TakeEvent
  <2>1. CASE Head(eventsCh) = "error"
    <3>1. inFlight' = inFlight
      BY <1>2, <2>1 DEF TakeEvent, OnPciError
    <3> QED
      BY <3>1, <1>c
  <2>2. CASE Head(eventsCh) # "error"
    <3>1. OnAck(Head(eventsCh)) /\ Head(eventsCh) \in Signal
      BY <1>2, <1>t, <2>2 DEF TakeEvent, TypeOK
    <3>2. Cardinality(inFlight') <= Cardinality(inFlight)
      BY <3>1, <1>t, OnAckType
    <3> QED
      BY <3>2, <1>c
  <2> QED
    BY <2>1, <2>2
<1>3. CASE ExpireSlots
  <2>1. Cardinality(inFlight') <= Cardinality(inFlight)
    BY <1>3, <1>t, ExpireType DEF ExpireSlots
  <2> QED
    BY <2>1, <1>c
<1>4. CASE WriteOk
  <2>1. PICK j \in Job : current = <<j>>
    BY <1>4, <1>t DEF TypeOK, WriteOk
  <2>2. CASE LaneOf[j] = "unwindowed"
    <3>1. inFlight' = inFlight
      BY <1>4, <2>1, <2>2 DEF WriteOk, RecordRawSend
    <3> QED
      BY <3>1, <1>c
  <2>3. CASE LaneOf[j] # "unwindowed"
    <3>1. RecordSend(j) /\ window' = window
      BY <1>4, <2>1, <2>3 DEF WriteOk, RecordSend
    <3>2. Cardinality(inFlight) < window
      BY <2>1, <2>3 DEF FlowInv, SlotsInv
    <3>3. Cardinality(inFlight') <= Cardinality(inFlight) + 1
      BY <3>1, <1>t, RecordSendCount
    <3> QED
      BY <3>1, <3>2, <3>3, <1>c
  <2> QED
    BY <2>2, <2>3
<1>5. CASE UNCHANGED inFlight
  BY <1>5, <1>c
<1>6. Tick \/ TakeEvent \/ ExpireSlots \/ WriteOk \/ UNCHANGED inFlight
  BY DEF Next, Controller, Returned, vars, coreVars, Submit, Feedback, DropHandle,
     EventsDrained, TakeJob, StartWrite, Park, SleepOver, WriteErr, Return
<1> QED
  BY <1>1, <1>2, <1>3, <1>4, <1>5, <1>6

\* A frame that takes a slot leaves at most `window` slots occupied (gate,
\* record_send, run).
THEOREM AdmissionCorrect == Spec => AdmissionWithinWindow
<1>1. FlowInv /\ [Next]_vars
        => [Cardinality(inFlight') > Cardinality(inFlight)
              => Cardinality(inFlight') <= window']_vars
  BY StepAdmits
<1> QED
  BY <1>1, FlowInvCorrect, PTL DEF Spec, AdmissionWithinWindow

-----------------------------------------------------------------------------
(* Where the waiting frames are *)

LEMMA InitOrderInv == Init => OrderInv
<1> SUFFICES ASSUME Init PROVE OrderInv
  OBVIOUS
<1>1. LeakInv
  BY DEF Init, LeakInv
<1>2. PlacesInv
  BY FlowAssumption DEF Init, PlacesInv, NoRepeats, Holds, Queued
<1>3. OutrankInv
  BY DEF Init, OutrankInv, Holds
<1>4. PromisedInv
  <2>1. \A l \in Lane : promised[l] = <<>>
    BY DEF Init
  <2>2. promised \in [Lane -> Seq(Job)]
    BY DEF Init
  <2>3. \A j \in Job : ~Queued(j)
    BY DEF Init, Queued
  <2> QED
    BY <2>1, <2>2, <2>3 DEF PromisedInv, NoRepeats, Holds, Precedes
<1> QED
  BY <1>1, <1>2, <1>3, <1>4, InitFlowInv DEF OrderInv, FlowInv

\* A `!` that waits is taken before another frame is started.
LEMMA NextLeak == TypeOK /\ LeakInv /\ [Next]_vars => LeakInv'
<1> SUFFICES ASSUME TypeOK, LeakInv, [Next]_vars PROVE LeakInv'
  OBVIOUS
<1>1. ASSUME NEW e \in Signal \cup {"error"}, Feedback(e) PROVE LeakInv'
  <2>1. ErrorPending(eventsCh) => ErrorPending(eventsCh')
    <3>1. eventsCh' = Append(eventsCh, e) /\ eventsCh \in Seq(Signal \cup {"error"})
      BY <1>1 DEF Feedback, TypeOK
    <3>2. Holds(eventsCh, "error") => Holds(eventsCh', "error")
      BY <3>1, AppendOrder
    <3> QED
      BY <3>2 DEF ErrorPending, Holds
  <2> QED
    BY <1>1, <2>1 DEF LeakInv, Feedback
<1>2. CASE TakeEvent
  BY <1>2 DEF LeakInv, TakeEvent, TypeOK
<1>3. CASE EventsDrained
  BY <1>3 DEF LeakInv, EventsDrained, ErrorPending
<1>4. CASE StartWrite
  BY <1>4 DEF LeakInv, StartWrite, TypeOK, chanVars
<1>5. CASE WriteOk \/ WriteErr
  BY <1>5 DEF LeakInv, WriteOk, WriteErr, chanVars
<1>6. CASE UNCHANGED <<leaked, eventsCh, pc>>
  BY <1>6 DEF LeakInv
<1>7. CASE pc \in {"jobs", "decide", "select", "returned"} /\ UNCHANGED <<leaked, eventsCh>>
  BY <1>7 DEF LeakInv, TypeOK
<1>8. \/ \E e \in Signal \cup {"error"} : Feedback(e)
      \/ TakeEvent \/ EventsDrained \/ StartWrite \/ WriteOk \/ WriteErr
      \/ UNCHANGED <<leaked, eventsCh, pc>>
      \/ pc \in {"jobs", "decide", "select", "returned"} /\ UNCHANGED <<leaked, eventsCh>>
  BY DEF Next, Controller, Returned, vars, chanVars, Submit, Tick, DropHandle,
     TakeJob, ExpireSlots, Park, SleepOver, Return
<1> QED
  BY <1>1, <1>2, <1>3, <1>4, <1>5, <1>6, <1>7, <1>8

\* The steps that move frames about, and the ones that do not.
LEMMA MovingSteps ==
  ASSUME [Next]_vars
  PROVE  \/ \E j \in Job : Submit(j)
         \/ TakeJob \/ StartWrite \/ WriteOk \/ WriteErr
         \/ /\ UNCHANGED <<jobsCh, queue, current, result, promised, overtaken>>
            /\ \/ pc' \in {"writing", "events"}
               \/ pc' = "jobs" /\ pc = "events"
               \/ pc' = pc
               \/ pc' = "decide" /\ jobsCh = <<>>
               \/ pc' \in {"select", "returned"} /\ pc \in {"decide", "select"}
BY DEF Next, Controller, Returned, vars, chanVars, Feedback, Tick, DropHandle,
   TakeEvent, EventsDrained, ExpireSlots, Park, SleepOver, Return

LEMMA NextPlaces == TypeOK /\ LanesInv /\ PlacesInv /\ [Next]_vars => PlacesInv'
<1> SUFFICES ASSUME TypeOK, LanesInv, PlacesInv, [Next]_vars PROVE PlacesInv'
  OBVIOUS
<1> USE FlowAssumption
<1>t. /\ jobsCh \in Seq(Job) /\ queue \in [Lane -> Seq(Job)]
      /\ result \in [Job -> {"idle", "queued", "ok", "err"}]
  BY DEF TypeOK
<1>1. ASSUME NEW j \in Job, Submit(j) PROVE PlacesInv'
  <2>1. /\ jobsCh' = Append(jobsCh, j) /\ UNCHANGED <<queue, current>>
        /\ result' = [result EXCEPT ![j] = "queued"] /\ result[j] = "idle"
    BY <1>1 DEF Submit
  <2>2. ~Queued(j) /\ \A k \in Job : Queued(k)' <=> Queued(k) \/ k = j
    BY <1>t, <2>1 DEF Queued
  <2>3. /\ \A k : Holds(jobsCh', k) <=> Holds(jobsCh, k) \/ k = j
        /\ NoRepeats(jobsCh) /\ ~Holds(jobsCh, j) => NoRepeats(jobsCh')
    BY <1>t, <2>1, AppendOrder
  <2> QED
    BY <2>1, <2>2, <2>3 DEF PlacesInv
<1>2. CASE TakeJob
  <2> DEFINE j == Head(jobsCh)
             l == LaneOf[j]
  <2>1. /\ jobsCh # <<>> /\ jobsCh' = Tail(jobsCh) /\ UNCHANGED <<current, result>>
        /\ queue' = [queue EXCEPT ![l] = Append(@, j)]
    BY <1>2 DEF TakeJob
  <2>2. /\ j \in Job /\ l \in Lane
        /\ \A k : Holds(jobsCh, k) <=> k = j \/ Holds(jobsCh', k)
        /\ NoRepeats(jobsCh) => NoRepeats(jobsCh') /\ ~Holds(jobsCh', j)
    BY <1>t, <2>1, TailOrder
  <2> HIDE DEF j, l
  <2>3. /\ queue'[l] = Append(queue[l], j)
        /\ \A m \in Lane : m # l => queue'[m] = queue[m]
    BY <1>t, <2>1, <2>2
  <2>4. /\ \A k : Holds(queue'[l], k) <=> Holds(queue[l], k) \/ k = j
        /\ NoRepeats(queue[l]) /\ ~Holds(queue[l], j) => NoRepeats(queue'[l])
    BY <1>t, <2>2, <2>3, AppendOrder
  <2>5. \A k \in Job : Queued(k)' <=> Queued(k)
    BY <2>1 DEF Queued
  <2>6. LaneOf[j] = l
    BY DEF l
  <2>7. NoRepeats(jobsCh') /\ ~Holds(queue[l], j) /\ current # <<j>>
    BY <2>2, <2>6 DEF PlacesInv
  <2>8. \A m \in Lane : NoRepeats(queue'[m])
    BY <2>3, <2>4, <2>7 DEF PlacesInv
  <2>9. ASSUME NEW k \in Job
        PROVE  /\ ~(Holds(queue'[LaneOf[k]], k) /\ Holds(jobsCh', k))
               /\ current' = <<k>> => ~Holds(queue'[LaneOf[k]], k) /\ ~Holds(jobsCh', k)
               /\ Queued(k)' <=> \/ current' = <<k>>
                                \/ Holds(queue'[LaneOf[k]], k)
                                \/ Holds(jobsCh', k)
    <3>1. CASE k = j
      BY <2>1, <2>2, <2>4, <2>5, <2>6, <2>7, <3>1 DEF PlacesInv
    <3>2. CASE k # j
      <4>1. Holds(queue'[LaneOf[k]], k) <=> Holds(queue[LaneOf[k]], k)
        BY <2>3, <2>4, <3>2
      <4>2. Holds(jobsCh', k) <=> Holds(jobsCh, k)
        BY <2>2, <3>2
      <4> QED
        BY <2>1, <2>5, <4>1, <4>2 DEF PlacesInv
    <3> QED
      BY <3>1, <3>2
  <2> QED
    BY <2>7, <2>8, <2>9 DEF PlacesInv
<1>3. CASE StartWrite
  <2> DEFINE l == ServedLane
             j == Head(queue[l])
  <2>1. /\ queue[l] # <<>> /\ queue' = [queue EXCEPT ![l] = Tail(@)]
        /\ current' = <<j>> /\ UNCHANGED <<jobsCh, result>> /\ pc = "decide"
    BY <1>3 DEF StartWrite, chanVars
  <2>2. l \in Lane /\ queue[l] \in Seq({k \in Job : LaneOf[k] = l}) /\ current = <<>>
    BY <2>1, ServedLaneType DEF LanesInv, TypeOK
  <2> HIDE DEF l
  <2>3. /\ j \in Job /\ LaneOf[j] = l
        /\ \A k : Holds(queue[l], k) <=> k = j \/ Holds(Tail(queue[l]), k)
        /\ NoRepeats(queue[l]) => NoRepeats(Tail(queue[l])) /\ ~Holds(Tail(queue[l]), j)
    BY <2>1, <2>2, TailOrder
  <2> HIDE DEF j
  <2>4. queue'[l] = Tail(queue[l]) /\ \A m \in Lane : m # l => queue'[m] = queue[m]
    BY <1>t, <2>1, <2>2
  <2>5. \A k \in Job : Queued(k)' <=> Queued(k)
    BY <2>1 DEF Queued
  <2>6. \A m \in Lane : NoRepeats(queue'[m])
    BY <2>2, <2>3, <2>4 DEF PlacesInv
  <2>7. ASSUME NEW k \in Job
        PROVE  /\ ~(Holds(queue'[LaneOf[k]], k) /\ Holds(jobsCh', k))
               /\ current' = <<k>> => ~Holds(queue'[LaneOf[k]], k) /\ ~Holds(jobsCh', k)
               /\ Queued(k)' <=> \/ current' = <<k>>
                                \/ Holds(queue'[LaneOf[k]], k)
                                \/ Holds(jobsCh', k)
    <3>1. current' = <<k>> <=> k = j
      BY <2>1
    <3>2. CASE k = j
      BY <2>1, <2>2, <2>3, <2>4, <2>5, <3>1, <3>2 DEF PlacesInv
    <3>3. CASE k # j
      <4>1. Holds(queue'[LaneOf[k]], k) <=> Holds(queue[LaneOf[k]], k)
        BY <2>2, <2>3, <2>4, <3>3
      <4>2. current # <<k>>
        BY <2>2
      <4> QED
        BY <2>1, <2>5, <3>1, <3>3, <4>1, <4>2 DEF PlacesInv
    <3> QED
      BY <3>2, <3>3
  <2> QED
    BY <2>1, <2>6, <2>7 DEF PlacesInv
<1>4. CASE WriteOk \/ WriteErr
  <2>1. PICK j \in Job : current = <<j>>
    BY <1>4 DEF TypeOK, WriteOk, WriteErr
  <2>2. PICK r \in {"ok", "err"} : result' = [result EXCEPT ![j] = r]
    BY <1>4, <2>1 DEF WriteOk, WriteErr
  <2>3. current' = <<>> /\ UNCHANGED <<jobsCh, queue>>
    BY <1>4 DEF WriteOk, WriteErr, chanVars
  <2>4. \A k \in Job : /\ Queued(k)' <=> Queued(k) /\ k # j
                       /\ current = <<k>> <=> k = j
                       /\ current' # <<k>>
    BY <1>t, <2>1, <2>2, <2>3 DEF Queued
  <2> QED
    BY <2>3, <2>4 DEF PlacesInv
<1>5. CASE UNCHANGED <<jobsCh, queue, current, result>>
  BY <1>5 DEF PlacesInv, Queued
<1> QED
  BY <1>1, <1>2, <1>3, <1>4, <1>5, MovingSteps

-----------------------------------------------------------------------------
(* Priority *)

\* The loop starts a background frame only with the command lane empty, so
\* the commands it overtakes are the ones in the channel; before it decides
\* again they have all been moved to their lane.
LEMMA NextOutrank ==
  TypeOK /\ PlacesInv /\ OutrankInv /\ [Next]_vars => OutrankInv'
<1> SUFFICES ASSUME TypeOK, PlacesInv, OutrankInv, [Next]_vars PROVE OutrankInv'
  OBVIOUS
<1> USE FlowAssumption
<1>t. /\ jobsCh \in Seq(Job) /\ queue \in [Lane -> Seq(Job)]
      /\ result \in [Job -> {"idle", "queued", "ok", "err"}]
      /\ overtaken \in [Job -> Nat]
  BY DEF TypeOK
<1>1. ASSUME NEW j \in Job, Submit(j) PROVE OutrankInv'
  <2>1. /\ jobsCh' = Append(jobsCh, j) /\ UNCHANGED <<pc, overtaken>>
        /\ result' = [result EXCEPT ![j] = "queued"] /\ result[j] = "idle"
    BY <1>1 DEF Submit
  <2>2. \A k : Holds(jobsCh', k) <=> Holds(jobsCh, k) \/ k = j
    BY <1>t, <2>1, AppendOrder
  <2>3. \A k \in Job : result'[k] = "idle" => result[k] = "idle"
    BY <1>t, <2>1
  <2> QED
    BY <2>1, <2>2, <2>3 DEF OutrankInv
<1>2. CASE TakeJob
  <2>1. /\ jobsCh # <<>> /\ jobsCh' = Tail(jobsCh) /\ UNCHANGED <<result, overtaken>>
        /\ pc' \in {"jobs", "events"}
    BY <1>2 DEF TakeJob
  <2>2. \A k : Holds(jobsCh', k) => Holds(jobsCh, k)
    BY <1>t, <2>1, TailOrder
  <2> QED
    BY <2>1, <2>2 DEF OutrankInv
<1>3. CASE StartWrite
  <2>1. /\ pc = "decide" /\ pc' = "writing" /\ UNCHANGED result
        /\ overtaken' = [j \in Job |->
             IF ServedLane = "background" /\ LaneOf[j] = "commands" /\ Waiting(j)
             THEN overtaken[j] + 1 ELSE overtaken[j]]
    BY <1>3 DEF StartWrite
  <2>2. ASSUME NEW k \in Job, ServedLane = "background", LaneOf[k] = "commands", Waiting(k)
        PROVE  overtaken[k] = 0 /\ result[k] # "idle"
    <3>1. queue["commands"] = <<>>
      BY <2>2 DEF ServedLane
    <3>2. ~Holds(queue[LaneOf[k]], k)
      BY <2>2, <3>1 DEF Holds
    <3>3. Holds(jobsCh, k)
      BY <2>2, <3>2 DEF PlacesInv, Waiting
    <3>4. overtaken[k] # 1 /\ overtaken[k] <= 1 /\ overtaken[k] \in Nat
      BY <1>t, <2>1, <3>3 DEF OutrankInv
    <3> QED
      BY <2>2, <3>4 DEF Waiting, Queued
  <2>3. ASSUME NEW k \in Job
        PROVE  overtaken'[k] <= 1 /\ (result'[k] = "idle" => overtaken'[k] = 0)
    <3>1. CASE ServedLane = "background" /\ LaneOf[k] = "commands" /\ Waiting(k)
      BY <2>1, <2>2, <3>1
    <3>2. CASE ~(ServedLane = "background" /\ LaneOf[k] = "commands" /\ Waiting(k))
      BY <2>1, <3>2 DEF OutrankInv
    <3> QED
      BY <3>1, <3>2
  <2> QED
    BY <2>1, <2>3 DEF OutrankInv
<1>4. CASE WriteOk \/ WriteErr
  <2>1. PICK j \in Job : current = <<j>>
    BY <1>4 DEF TypeOK, WriteOk, WriteErr
  <2>2. PICK r \in {"ok", "err"} : result' = [result EXCEPT ![j] = r]
    BY <1>4, <2>1 DEF WriteOk, WriteErr
  <2>3. pc' = "events" /\ UNCHANGED <<jobsCh, overtaken>>
    BY <1>4 DEF WriteOk, WriteErr, chanVars
  <2>4. \A k \in Job : result'[k] = "idle" => result[k] = "idle"
    BY <1>t, <2>2
  <2> QED
    BY <2>3, <2>4 DEF OutrankInv
<1>5. CASE /\ UNCHANGED <<jobsCh, queue, current, result, promised, overtaken>>
           /\ \/ pc' \in {"writing", "events"}
              \/ pc' = "jobs" /\ pc = "events"
              \/ pc' = pc
              \/ pc' = "decide" /\ jobsCh = <<>>
              \/ pc' \in {"select", "returned"} /\ pc \in {"decide", "select"}
  <2>1. jobsCh = <<>> => \A k : ~Holds(jobsCh, k)
    BY DEF Holds
  <2>2. ASSUME NEW k \in Job, overtaken'[k] = 1, Holds(jobsCh', k)
        PROVE  pc' \in {"writing", "events", "jobs"}
    BY <1>5, <2>1, <2>2 DEF OutrankInv
  <2> QED
    BY <1>5, <2>2 DEF OutrankInv
<1> QED
  BY <1>1, <1>2, <1>3, <1>4, <1>5, MovingSteps

-----------------------------------------------------------------------------
(* Submission order *)

\* Within a lane the frame that is being written is the oldest one promised.
LEMMA CurrentIsOldest ==
  ASSUME TypeOK, LanesInv, PlacesInv, PromisedInv, NEW j \in Job, current = <<j>>
  PROVE  promised[LaneOf[j]] # <<>> /\ j = Head(promised[LaneOf[j]])
<1> DEFINE P == promised[LaneOf[j]]
           h == Head(P)
<1>1. LaneOf[j] \in Lane /\ P \in Seq(Job)
  BY FlowAssumption DEF PromisedInv
<1>2. Holds(P, j)
  BY <1>1 DEF PlacesInv, PromisedInv
<1>3. P # <<>>
  BY <1>2 DEF Holds
<1>4. /\ h \in Job
      /\ \A k : Holds(P, k) <=> k = h \/ Holds(Tail(P), k)
      /\ \A k, m : Precedes(P, k, m) <=> Precedes(Tail(P), k, m) \/ (k = h /\ Holds(Tail(P), m))
  <2> HIDE DEF P
  <2> QED
    BY <1>1, <1>3, TailOrder
<1>5. SUFFICES ASSUME h # j PROVE FALSE
  BY <1>3
<1>6. Precedes(P, h, j)
  BY <1>2, <1>4, <1>5
<1>7. Ahead(h, j)
  BY <1>1, <1>4, <1>6 DEF PromisedInv
<1>8. ~Holds(queue[LaneOf[j]], j) /\ ~Holds(jobsCh, j)
  BY DEF PlacesInv
<1>9. LaneOf[h] = LaneOf[j]
  <2>1. Holds(P, h)
    BY <1>4
  <2> QED
    BY <1>1, <1>4, <2>1 DEF PromisedInv
<1>10. \A s, k : Precedes(s, k, j) => Holds(s, j)
  BY DEF Precedes, Holds
<1> QED
  BY <1>7, <1>8, <1>9, <1>10 DEF Ahead

LEMMA PrecedesHolds ==
  ASSUME NEW s, NEW j, NEW k, Precedes(s, j, k)
  PROVE  Holds(s, j) /\ Holds(s, k)
BY DEF Precedes, Holds

\* Whatever is ahead stays ahead while frames move from the channel to their
\* lane and from there to the writer.
LEMMA MovesKeepOrder ==
  ASSUME TypeOK, LanesInv, PlacesInv, TakeJob \/ StartWrite,
         NEW a \in Job, NEW b \in Job, LaneOf[a] = LaneOf[b], Ahead(a, b)
  PROVE  Ahead(a, b)'
<1> USE FlowAssumption
<1>t. jobsCh \in Seq(Job) /\ queue \in [Lane -> Seq(Job)]
  BY DEF TypeOK
<1>1. CASE TakeJob
  <2> DEFINE j == Head(jobsCh)
             l == LaneOf[j]
  <2>1. /\ jobsCh # <<>> /\ jobsCh' = Tail(jobsCh) /\ UNCHANGED current
        /\ queue' = [queue EXCEPT ![l] = Append(@, j)]
    BY <1>1 DEF TakeJob
  <2>2. /\ j \in Job /\ l \in Lane
        /\ \A k : Holds(jobsCh, k) <=> k = j \/ Holds(jobsCh', k)
        /\ \A k, m : Precedes(jobsCh, k, m)
                       <=> Precedes(jobsCh', k, m) \/ (k = j /\ Holds(jobsCh', m))
    BY <1>t, <2>1, TailOrder
  <2>3. LaneOf[j] = l
    OBVIOUS
  <2> HIDE DEF j, l
  <2>4. /\ queue'[l] = Append(queue[l], j)
        /\ \A m \in Lane : m # l => queue'[m] = queue[m]
    BY <1>t, <2>1, <2>2
  <2>5. /\ \A k : Holds(queue'[l], k) <=> Holds(queue[l], k) \/ k = j
        /\ \A k, m : Precedes(queue'[l], k, m)
                       <=> Precedes(queue[l], k, m) \/ (Holds(queue[l], k) /\ m = j)
    BY <1>t, <2>2, <2>4, AppendOrder
  <2>6. CASE LaneOf[a] = l
    BY <2>1, <2>2, <2>3, <2>5, <2>6 DEF Ahead
  <2>7. CASE LaneOf[a] # l
    <3>1. a # j /\ b # j /\ queue'[LaneOf[a]] = queue[LaneOf[a]]
      BY <2>3, <2>4, <2>7
    <3> QED
      BY <2>1, <2>2, <3>1 DEF Ahead
  <2> QED
    BY <2>6, <2>7
<1>2. CASE StartWrite
  <2> DEFINE l == ServedLane
             j == Head(queue[l])
  <2>1. /\ queue[l] # <<>> /\ queue' = [queue EXCEPT ![l] = Tail(@)]
        /\ current' = <<j>> /\ UNCHANGED jobsCh /\ pc = "decide"
    BY <1>2 DEF StartWrite, chanVars
  <2>2. l \in Lane /\ current = <<>>
    BY <2>1, ServedLaneType DEF TypeOK
  <2> HIDE DEF l
  <2>3. /\ \A k : Holds(queue[l], k) <=> k = j \/ Holds(Tail(queue[l]), k)
        /\ \A k, m : Precedes(queue[l], k, m)
                       <=> Precedes(Tail(queue[l]), k, m) \/ (k = j /\ Holds(Tail(queue[l]), m))
    BY <1>t, <2>1, <2>2, TailOrder
  <2> HIDE DEF j
  <2>4. queue'[l] = Tail(queue[l]) /\ \A m \in Lane : m # l => queue'[m] = queue[m]
    BY <1>t, <2>1, <2>2
  <2>5. current # <<a>>
    BY <2>2
  <2>6. CASE LaneOf[a] = l
    BY <2>1, <2>3, <2>4, <2>5, <2>6 DEF Ahead
  <2>7. CASE LaneOf[a] # l
    BY <2>1, <2>4, <2>5, <2>7 DEF Ahead
  <2> QED
    BY <2>6, <2>7
<1> QED
  BY <1>1, <1>2

\* The answer to the frame being written is the service's answer to the oldest
\* frame of its lane.
LEMMA WriteAnswers ==
  ASSUME TypeOK, LanesInv, PlacesInv, PromisedInv, WriteOk \/ WriteErr
  PROVE  \E j \in Job, r \in {"ok", "err"} :
           /\ current = <<j>> /\ current' = <<>> /\ UNCHANGED <<jobsCh, queue>>
           /\ promised[LaneOf[j]] # <<>> /\ j = Head(promised[LaneOf[j]])
           /\ result' = [result EXCEPT ![j] = r]
           /\ promised' = [promised EXCEPT ![LaneOf[j]] = Tail(@)]
<1>1. PICK j \in Job : current = <<j>>
  BY DEF TypeOK, WriteOk, WriteErr
<1>2. PICK r \in {"ok", "err"} : result' = [result EXCEPT ![j] = r]
  BY <1>1 DEF WriteOk, WriteErr
<1>3. /\ promised' = [promised EXCEPT ![LaneOf[j]] = Tail(@)]
      /\ current' = <<>> /\ UNCHANGED <<jobsCh, queue>>
  BY <1>1 DEF WriteOk, WriteErr, chanVars
<1> QED
  BY <1>1, <1>2, <1>3, CurrentIsOldest

LEMMA NextPromised ==
  TypeOK /\ LanesInv /\ PlacesInv /\ PromisedInv /\ [Next]_vars => PromisedInv'
<1> SUFFICES ASSUME TypeOK, LanesInv, PlacesInv, PromisedInv, [Next]_vars
             PROVE  PromisedInv'
  OBVIOUS
<1> USE FlowAssumption
<1>t. /\ jobsCh \in Seq(Job) /\ queue \in [Lane -> Seq(Job)]
      /\ result \in [Job -> {"idle", "queued", "ok", "err"}]
      /\ promised \in [Lane -> Seq(Job)]
  BY DEF TypeOK, PromisedInv
<1>1. ASSUME NEW j \in Job, Submit(j) PROVE PromisedInv'
  <2> DEFINE l == LaneOf[j]
  <2>1. /\ jobsCh' = Append(jobsCh, j) /\ UNCHANGED <<queue, current>>
        /\ result' = [result EXCEPT ![j] = "queued"] /\ result[j] = "idle"
        /\ promised' = [promised EXCEPT ![l] = Append(@, j)]
    BY <1>1 DEF Submit
  <2>2. ~Queued(j) /\ \A k \in Job : Queued(k)' <=> Queued(k) \/ k = j
    BY <1>t, <2>1 DEF Queued
  <2>3. /\ \A k : Holds(jobsCh', k) <=> Holds(jobsCh, k) \/ k = j
        /\ \A k, m : Precedes(jobsCh', k, m)
                       <=> Precedes(jobsCh, k, m) \/ (Holds(jobsCh, k) /\ m = j)
    BY <1>t, <2>1, AppendOrder
  <2>4. /\ l \in Lane /\ promised' \in [Lane -> Seq(Job)]
        /\ promised'[l] = Append(promised[l], j)
        /\ \A m \in Lane : m # l => promised'[m] = promised[m]
    BY <1>t, <2>1
  <2>5. LaneOf[j] = l
    OBVIOUS
  <2> HIDE DEF l
  <2>6. /\ \A k : Holds(promised'[l], k) <=> Holds(promised[l], k) \/ k = j
        /\ \A k, m : Precedes(promised'[l], k, m)
                       <=> Precedes(promised[l], k, m) \/ (Holds(promised[l], k) /\ m = j)
        /\ NoRepeats(promised[l]) /\ ~Holds(promised[l], j) => NoRepeats(promised'[l])
    BY <1>t, <2>4, AppendOrder
  <2>7. \A m \in Lane : NoRepeats(promised'[m])
    BY <2>2, <2>4, <2>6 DEF PromisedInv
  <2>8. ASSUME NEW m \in Lane, NEW k \in Job
        PROVE  Holds(promised'[m], k) <=> Queued(k)' /\ LaneOf[k] = m
    <3>1. CASE m = l
      BY <2>2, <2>5, <2>6, <3>1 DEF PromisedInv
    <3>2. CASE m # l
      BY <2>2, <2>4, <2>5, <3>2 DEF PromisedInv
    <3> QED
      BY <3>1, <3>2
  <2>9. ASSUME NEW m \in Lane, NEW a \in Job, NEW b \in Job, Precedes(promised'[m], a, b)
        PROVE  Ahead(a, b)'
    <3>1. CASE Precedes(promised[m], a, b)
      <4>1. Ahead(a, b)
        BY <3>1 DEF PromisedInv
      <4> QED
        BY <2>1, <2>3, <4>1 DEF Ahead
    <3>2. CASE Holds(promised[l], a) /\ b = j
      <4>1. Queued(a)
        BY <2>4, <3>2 DEF PromisedInv
      <4>2. current = <<a>> \/ Holds(queue[LaneOf[a]], a) \/ Holds(jobsCh, a)
        BY <4>1 DEF PlacesInv
      <4> QED
        BY <2>1, <2>3, <3>2, <4>2 DEF Ahead
    <3> QED
      BY <2>4, <2>6, <2>9, <3>1, <3>2
  <2> QED
    BY <2>4, <2>7, <2>8, <2>9 DEF PromisedInv
<1>2. CASE TakeJob \/ StartWrite
  <2>1. UNCHANGED <<promised, result>>
    BY <1>2 DEF TakeJob, StartWrite
  <2>2. ASSUME NEW m \in Lane, NEW a \in Job, NEW b \in Job, Precedes(promised[m], a, b)
        PROVE  Ahead(a, b)'
    <3>1. Ahead(a, b)
      BY <2>2 DEF PromisedInv
    <3>2. LaneOf[a] = LaneOf[b]
      BY <2>2, PrecedesHolds DEF PromisedInv
    <3> QED
      BY <1>2, <3>1, <3>2, MovesKeepOrder
  <2> QED
    BY <2>1, <2>2 DEF PromisedInv, Queued
<1>3. CASE WriteOk \/ WriteErr
  <2>1. PICK j \in Job, r \in {"ok", "err"} :
           /\ current = <<j>> /\ current' = <<>> /\ UNCHANGED <<jobsCh, queue>>
           /\ promised[LaneOf[j]] # <<>> /\ j = Head(promised[LaneOf[j]])
           /\ result' = [result EXCEPT ![j] = r]
           /\ promised' = [promised EXCEPT ![LaneOf[j]] = Tail(@)]
    BY <1>3, WriteAnswers
  <2> DEFINE l == LaneOf[j]
             rest == Tail(promised[l])
  <2>2. /\ l \in Lane /\ rest \in Seq(Job)
        /\ \A k : Holds(promised[l], k) <=> k = j \/ Holds(rest, k)
        /\ \A k, m : Precedes(promised[l], k, m)
                       <=> Precedes(rest, k, m) \/ (k = j /\ Holds(rest, m))
        /\ NoRepeats(promised[l]) => NoRepeats(rest) /\ ~Holds(rest, j)
    BY <1>t, <2>1, TailOrder
  <2>3. LaneOf[j] = l
    OBVIOUS
  <2>4. /\ promised' \in [Lane -> Seq(Job)]
        /\ promised'[l] = rest
        /\ \A m \in Lane : m # l => promised'[m] = promised[m]
    BY <1>t, <2>1, <2>2
  <2> HIDE DEF l, rest
  <2>5. \A k \in Job : Queued(k)' <=> Queued(k) /\ k # j
    BY <1>t, <2>1 DEF Queued
  <2>6. ~Holds(promised'[l], j) /\ \A m \in Lane : NoRepeats(promised'[m])
    BY <2>2, <2>4 DEF PromisedInv
  <2>7. ASSUME NEW m \in Lane, NEW k \in Job
        PROVE  Holds(promised'[m], k) <=> Queued(k)' /\ LaneOf[k] = m
    <3>1. CASE m = l
      BY <2>2, <2>3, <2>4, <2>5, <2>6, <3>1 DEF PromisedInv
    <3>2. CASE m # l
      BY <2>3, <2>4, <2>5, <3>2 DEF PromisedInv
    <3> QED
      BY <3>1, <3>2
  <2>8. ASSUME NEW m \in Lane, NEW a \in Job, NEW b \in Job, Precedes(promised'[m], a, b)
        PROVE  Ahead(a, b)'
    <3>1. Precedes(promised[m], a, b)
      BY <2>2, <2>4, <2>8
    <3>2. Ahead(a, b)
      BY <3>1 DEF PromisedInv
    <3>3. a # j
      <4>1. Holds(promised'[m], a)
        BY <2>8, PrecedesHolds
      <4>2. Queued(a)'
        BY <2>7, <4>1
      <4> QED
        BY <2>5, <4>2
    <3>4. current # <<a>>
      BY <2>1, <3>3
    <3> QED
      BY <2>1, <3>2, <3>4 DEF Ahead
  <2> QED
    BY <2>4, <2>6, <2>7, <2>8 DEF PromisedInv
<1>4. CASE UNCHANGED <<jobsCh, queue, current, result, promised>>
  BY <1>4 DEF PromisedInv, Ahead, Queued
<1> QED
  BY <1>1, <1>2, <1>3, <1>4, MovingSteps

LEMMA OrderInvCorrect == Spec => []OrderInv
<1>1. OrderInv /\ [Next]_vars => OrderInv'
  BY NextType, NextLanes, NextLeak, NextPlaces, NextOutrank, NextPromised DEF OrderInv
<1> QED
  BY <1>1, InitOrderInv, PTL DEF Spec

\* Between the reader seeing `!` and the controller taking it at most one more
\* frame is started, whatever callers, device, clock and select! do (run).
THEOREM ErrorStopsSendsCorrect == Spec => []ErrorStopsSends
<1>1. OrderInv => ErrorStopsSends
  BY DEF OrderInv, TypeOK, LeakInv, ErrorStopsSends
<1> QED
  BY <1>1, OrderInvCorrect, PTL

\* However many background frames are queued, at most one is started ahead of
\* a command that has been submitted (run).
THEOREM CommandsOutrankBackgroundCorrect == Spec => []CommandsOutrankBackground
<1>1. OrderInv => CommandsOutrankBackground
  BY DEF OrderInv, OutrankInv, CommandsOutrankBackground
<1> QED
  BY <1>1, OrderInvCorrect, PTL

\* Every step of the controller is a step of the service, or none of its
\* business.
LEMMA StepImplements ==
  ASSUME OrderInv, [Next]_vars
  PROVE  [Service!SvcNext]_(Service!svcVars)
<1> USE FlowAssumption
<1>t. TypeOK /\ LanesInv /\ PlacesInv /\ PromisedInv
  BY DEF OrderInv
<1>1. ASSUME NEW j \in Job, Submit(j) PROVE Service!SvcSubmit(j)
  BY <1>1 DEF Submit, Service!SvcSubmit
<1>2. CASE WriteOk \/ WriteErr
  <2>1. PICK j \in Job, r \in {"ok", "err"} :
           /\ promised[LaneOf[j]] # <<>> /\ j = Head(promised[LaneOf[j]])
           /\ result' = [result EXCEPT ![j] = r]
           /\ promised' = [promised EXCEPT ![LaneOf[j]] = Tail(@)]
    BY <1>t, <1>2, WriteAnswers
  <2>2. Service!SvcAnswer(LaneOf[j])
    BY <2>1 DEF Service!SvcAnswer
  <2>3. LaneOf[j] \in Service!Lane
    BY DEF Lane, Service!Lane
  <2> QED
    BY <2>2, <2>3 DEF Service!SvcNext
<1>3. CASE UNCHANGED <<promised, result>>
  BY <1>3 DEF Service!svcVars
<1>4. \/ \E j \in Job : Submit(j)
      \/ WriteOk \/ WriteErr
      \/ UNCHANGED <<promised, result>>
  BY MovingSteps DEF TakeJob, StartWrite
<1> QED
  BY <1>1, <1>2, <1>3, <1>4 DEF Service!SvcNext

\* The controller keeps the safety half of its promise for every set of frames
\* and every configuration: per lane, frames are answered once each and in the
\* order in which they were submitted (Flow::submit, run).
THEOREM ControllerImplementsService == Spec => Service!SvcSafety
<1>1. Init => Service!SvcInit
  BY DEF Init, Service!SvcInit, Lane, Service!Lane
<1>2. OrderInv /\ [Next]_vars => [Service!SvcNext]_(Service!svcVars)
  BY StepImplements
<1> QED
  BY <1>1, <1>2, OrderInvCorrect, PTL DEF Spec, Service!SvcSafety

=============================================================================
