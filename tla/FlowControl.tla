---------------------------- MODULE FlowControl ----------------------------
(***************************************************************************)
(* The adaptive flow controller of the PCI client: the task `run` and the  *)
(* synchronous core `FlowState` of rust/cbus-transport/src/flow.rs.        *)
(*                                                                         *)
(* Actors: the callers of Flow::submit / submit_unwindowed (Submit), the   *)
(* reader task that feeds responses back (Ack, Error), the clock (Tick),   *)
(* and the controller task itself, whose loop is cut at every point where  *)
(* another actor can slip in (variable pc).                                *)
(*                                                                         *)
(* Time is counted down: a deadline, the `!` pause and the inter-frame     *)
(* floor are the ticks that are left, so the model needs no clock.  The    *)
(* response timeout `rto` is a clamped float average; the model keeps the  *)
(* clamp and lets it be any value between RtoMin and RtoMax.               *)
(***************************************************************************)
EXTENDS Integers, Sequences, FiniteSets, SequenceOrder

CONSTANTS
  Job,               \* frames, each submitted at most once
  LaneOf,            \* Job -> Lane
  Signal,            \* responses the controller tells apart (AckSignal)
  KindOf,            \* Job -> Signal \cup {"silent"} (ResponseKind)
  WindowInitial, WindowMin, WindowMax,
  MinGap,            \* ticks of the inter-frame floor
  RtoMin, RtoMax,    \* clamp of the response timeout, in ticks
  ErrorPause,        \* ticks all sends pause after `!`
  CollapseTimeouts,  \* consecutive timeouts that collapse the window
  GrowAcks,          \* consecutive clean acks that grow it by one
  SilentHold,        \* ticks a slot without a response is held
  MaxEvents          \* bound: responses and `!` the device sends in all

Lane == {"unwindowed", "commands", "background"}
Kind == Signal \cup {"silent"}

\* FlowConfig::default satisfies these (2, 1, 4; 30 ms; 500 ms .. 2 s; 250 ms;
\* 2; 10; 100 ms).
ASSUME FlowAssumption ==
  /\ LaneOf \in [Job -> Lane]
  /\ KindOf \in [Job -> Kind]
  /\ "silent" \notin Signal /\ "error" \notin Signal
  /\ WindowMin \in Nat \ {0} /\ WindowInitial \in Nat /\ WindowMax \in Nat
  /\ WindowMin <= WindowInitial /\ WindowInitial <= WindowMax
  /\ MinGap \in Nat \ {0} /\ SilentHold \in Nat \ {0}
  /\ RtoMin \in Nat \ {0} /\ RtoMax \in Nat /\ RtoMin <= RtoMax
  /\ ErrorPause \in Nat \ {0}
  /\ CollapseTimeouts \in Nat \ {0}
  /\ GrowAcks \in Nat /\ WindowMax < GrowAcks
  /\ MaxEvents \in Nat

VARIABLES
  jobsCh,        \* mpsc channel of submitted jobs
  eventsCh,      \* mpsc channel of device feedback: a Signal or "error"
  eventsLeft,    \* how many more events the device may send (bound)
  result,        \* Job -> "idle" | "queued" | "ok" | "err"
  pc,            \* where the controller task stands in its loop
  queue,         \* Lane -> sequence of jobs (the three VecDeques)
  current,       \* the job being written, <<>> or <<job>>
  window,
  inFlight,      \* set of occupied window slots
  sends,         \* slots taken so far: orders them by sent_at
  timeouts,      \* consecutive_timeouts
  acks,          \* clean_acks
  pause,         \* ticks left of paused_until
  gap,           \* ticks left of last_send + min_gap
  timed,         \* parked on a time gate: the sleep also ends when it opens
  dead,          \* the transport has failed
  dropped,       \* the Flow handle is gone
  overtaken,     \* history: background frames started ahead of a command
  leaked,        \* history: frames started while a `!` waits in eventsCh
  promised       \* history: Lane -> frames not answered yet, as submitted

coreVars == <<window, inFlight, sends, timeouts, acks, pause, gap>>
chanVars == <<jobsCh, eventsCh, eventsLeft>>
vars == <<chanVars, result, pc, queue, current, coreVars, timed, dead,
          dropped, overtaken, leaked, promised>>

Slot == [kind : Kind, left : Nat, sent : Nat]

-----------------------------------------------------------------------------
(* Helpers *)

Least(a, b) == IF a < b THEN a ELSE b

\* A counter that is only ever compared with n need not go beyond n.
Saturated(c, n) == Least(c, n)

\* One tick of a timer that stops at zero.
CountDown(n) == IF n > 0 THEN n - 1 ELSE 0

Queued(j) == result[j] = "queued"

\* The frame waits for its turn: submitted, not yet picked for writing.
Waiting(j) == Queued(j) /\ current # <<j>>

ErrorPending(ch) == \E i \in DOMAIN ch : ch[i] = "error"

\* Slots whose deadline has passed, and the ones that count as timeouts.
Expired == {f \in inFlight : f.left = 0}
Unanswered == {f \in Expired : f.kind # "silent"}

\* Slots the response s releases; the oldest one is taken.
Matching(s) == {f \in inFlight : f.kind = s}
Oldest(S) == {f \in S : \A g \in S : f.sent <= g.sent}

\* Mutant: background outranks commands.
ServedLaneBackgroundFirst ==
  IF queue["unwindowed"] # <<>> THEN "unwindowed"
  ELSE IF queue["background"] # <<>> THEN "background"
  ELSE "commands"

\* The lane the loop serves: retransmits, then commands, then background.
ServedLane == IF queue["unwindowed"] # <<>> THEN "unwindowed"
              ELSE IF queue["commands"] # <<>> THEN "commands"
              ELSE "background"

\* Mutant: > for >=.
WindowBlockedOffByOne == /\ ServedLane # "unwindowed"
                         /\ Cardinality(inFlight) > window

WindowBlocked == /\ ServedLane # "unwindowed"
                 /\ Cardinality(inFlight) >= window

GateOpen == ~WindowBlocked /\ pause = 0 /\ gap = 0

-----------------------------------------------------------------------------
(* FlowState: the synchronous core *)

\* Mutant: clean_acks is not reset.
CollapseKeepsAcks == /\ window' = IF window > WindowMin THEN WindowMin ELSE window
                     /\ UNCHANGED acks

Collapse == /\ acks' = 0
            /\ window' = IF window > WindowMin THEN WindowMin ELSE window

\* Mutant: > for >=.
ExpireOffByOne ==
  LET n == timeouts + Cardinality(Unanswered)
  IN /\ inFlight' = inFlight \ Expired
     /\ timeouts' = Saturated(n, CollapseTimeouts)
     /\ IF Unanswered = {} THEN UNCHANGED <<acks, window>>
        ELSE IF n > CollapseTimeouts THEN Collapse
        ELSE acks' = 0 /\ UNCHANGED window

\* Mutant: a slot whose response is lost is never released.
ExpireSilentOnly ==
  /\ inFlight' = inFlight \ {f \in Expired : f.kind = "silent"}
  /\ UNCHANGED <<timeouts, acks, window>>

\* expire: timed-out slots are released; each one that had a response to
\* wait for counts, and from the CollapseTimeouts-th on collapses the window.
Expire ==
  LET n == timeouts + Cardinality(Unanswered)
  IN /\ inFlight' = inFlight \ Expired
     /\ timeouts' = Saturated(n, CollapseTimeouts)
     /\ IF Unanswered = {} THEN UNCHANGED <<acks, window>>
        ELSE IF n >= CollapseTimeouts THEN Collapse
        ELSE acks' = 0 /\ UNCHANGED window

\* Mutant: the window ceiling is not tested.
OnAckNoCeiling(s) ==
  \/ Matching(s) = {} /\ UNCHANGED coreVars
  \/ /\ \E f \in Oldest(Matching(s)) : inFlight' = inFlight \ {f}
     /\ timeouts' = 0
     /\ IF acks + 1 >= GrowAcks
        THEN acks' = 0 /\ window' = window + 1
        ELSE acks' = Saturated(acks + 1, GrowAcks) /\ UNCHANGED window
     /\ UNCHANGED <<sends, pause, gap>>

\* on_ack: the oldest slot the response fits is released; a response nobody
\* waits for changes nothing.
OnAck(s) ==
  \/ Matching(s) = {} /\ UNCHANGED coreVars
  \/ /\ \E f \in Oldest(Matching(s)) : inFlight' = inFlight \ {f}
     /\ timeouts' = 0
     /\ IF acks + 1 >= GrowAcks /\ window < WindowMax
        THEN acks' = 0 /\ window' = window + 1
        ELSE acks' = Saturated(acks + 1, GrowAcks) /\ UNCHANGED window
     /\ UNCHANGED <<sends, pause, gap>>

OnPciError ==
  /\ pause' = IF pause > ErrorPause THEN pause ELSE ErrorPause
  /\ Collapse
  /\ UNCHANGED <<inFlight, sends, timeouts, gap>>

\* record_send: the slot is held for SilentHold or for the current rto.
RecordSend(j) ==
  /\ \E hold \in IF KindOf[j] = "silent" THEN {SilentHold} ELSE RtoMin..RtoMax :
       inFlight' = inFlight \cup {[kind |-> KindOf[j], left |-> hold, sent |-> sends]}
  /\ sends' = sends + 1
  /\ gap' = MinGap
  /\ UNCHANGED <<window, timeouts, acks, pause>>

\* record_raw_send: a retransmit takes no slot.
RecordRawSend ==
  /\ gap' = MinGap
  /\ UNCHANGED <<window, inFlight, sends, timeouts, acks, pause>>

-----------------------------------------------------------------------------
(* Callers, device and clock *)

Submit(j) ==
  /\ ~dropped
  /\ result[j] = "idle"
  /\ result' = [result EXCEPT ![j] = "queued"]
  /\ jobsCh' = Append(jobsCh, j)
  /\ promised' = [promised EXCEPT ![LaneOf[j]] = Append(@, j)]
  /\ UNCHANGED <<eventsCh, eventsLeft, pc, queue, current, coreVars, timed,
                 dead, dropped, overtaken, leaked>>

\* Flow::ack and Flow::pci_error: any response may arrive at any time, late,
\* repeated or unasked for.
Feedback(e) ==
  /\ ~dropped
  /\ eventsLeft > 0
  /\ eventsLeft' = eventsLeft - 1
  /\ eventsCh' = Append(eventsCh, e)
  /\ UNCHANGED <<jobsCh, result, pc, queue, current, coreVars, timed, dead,
                 dropped, overtaken, leaked, promised>>

\* Time passes, except between `expire` and `gate`: they share one `now`.
Tick ==
  /\ pc # "decide"
  /\ \/ pause > 0 \/ gap > 0 \/ \E f \in inFlight : f.left > 0
  /\ pause' = CountDown(pause)
  /\ gap' = CountDown(gap)
  /\ inFlight' = {[f EXCEPT !.left = CountDown(f.left)] : f \in inFlight}
  /\ UNCHANGED <<chanVars, result, pc, queue, current, window, sends, timeouts,
                 acks, timed, dead, dropped, overtaken, leaked, promised>>

\* The last Arc of the client goes away: nobody waits for a frame any more.
DropHandle ==
  /\ ~dropped
  /\ \A j \in Job : ~Queued(j)
  /\ dropped' = TRUE
  /\ UNCHANGED <<chanVars, result, pc, queue, current, coreVars, timed, dead,
                 overtaken, leaked, promised>>

-----------------------------------------------------------------------------
(* The controller task *)

\* One feedback event: in the drain loop at the top, or picked by select!.
TakeEvent ==
  /\ pc \in {"events", "select"}
  /\ eventsCh # <<>>
  /\ eventsCh' = Tail(eventsCh)
  /\ pc' = "events"
  /\ IF Head(eventsCh) = "error" THEN OnPciError ELSE OnAck(Head(eventsCh))
  /\ leaked' = IF ErrorPending(eventsCh') THEN leaked ELSE 0
  /\ UNCHANGED <<jobsCh, eventsLeft, result, queue, current, timed, dead,
                 dropped, overtaken, promised>>

\* Mutant: pending feedback is not drained before deciding.
EventsDrainedEarly ==
  /\ pc = "events"
  /\ pc' = "jobs"
  /\ UNCHANGED <<chanVars, result, queue, current, coreVars, timed, dead,
                 dropped, overtaken, leaked, promised>>

EventsDrained ==
  /\ pc = "events"
  /\ eventsCh = <<>>
  /\ pc' = "jobs"
  /\ UNCHANGED <<chanVars, result, queue, current, coreVars, timed, dead,
                 dropped, overtaken, leaked, promised>>

\* One submission moves to its lane (enqueue): drained, or picked by select!.
TakeJob ==
  /\ pc \in {"jobs", "select"}
  /\ jobsCh # <<>>
  /\ jobsCh' = Tail(jobsCh)
  /\ queue' = [queue EXCEPT ![LaneOf[Head(jobsCh)]] = Append(@, Head(jobsCh))]
  /\ pc' = IF pc = "jobs" THEN "jobs" ELSE "events"
  /\ UNCHANGED <<eventsCh, eventsLeft, result, current, coreVars, timed, dead,
                 dropped, overtaken, leaked, promised>>

\* Both channels were seen empty: release timed-out slots, then decide.
ExpireSlots ==
  /\ pc = "jobs"
  /\ jobsCh = <<>>
  /\ pc' = "decide"
  /\ Expire
  /\ UNCHANGED <<chanVars, result, queue, current, sends, pause, gap, timed,
                 dead, dropped, overtaken, leaked, promised>>

\* Gate::Ready: the front of the served lane is popped and its write begins.
StartWrite ==
  /\ pc = "decide"
  /\ queue[ServedLane] # <<>>
  /\ GateOpen
  /\ pc' = "writing"
  /\ current' = <<Head(queue[ServedLane])>>
  /\ queue' = [queue EXCEPT ![ServedLane] = Tail(@)]
  /\ overtaken' = [j \in Job |->
        IF ServedLane = "background" /\ LaneOf[j] = "commands" /\ Waiting(j)
        THEN overtaken[j] + 1 ELSE overtaken[j]]
  /\ leaked' = IF ErrorPending(eventsCh) THEN leaked + 1 ELSE leaked
  /\ UNCHANGED <<chanVars, result, coreVars, timed, dead, dropped, promised>>

\* Nothing may be sent now: sleep until an event, a job, the earliest slot
\* deadline or, behind a time gate, the instant the gate opens.
Park ==
  /\ pc = "decide"
  /\ queue[ServedLane] = <<>> \/ ~GateOpen
  /\ pc' = "select"
  /\ timed' = (queue[ServedLane] # <<>> /\ ~WindowBlocked)
  /\ UNCHANGED <<chanVars, result, queue, current, coreVars, dead, dropped,
                 overtaken, leaked, promised>>

\* sleep_until(sleep_to) fires; with nothing to wait for it is IDLE_WAKE.
SleepOver ==
  /\ pc = "select"
  /\ \/ \E f \in inFlight : f.left = 0
     \/ timed /\ pause = 0 /\ gap = 0
     \/ ~timed /\ inFlight = {} /\ pause = 0 /\ gap = 0
  /\ pc' = "events"
  /\ UNCHANGED <<chanVars, result, queue, current, coreVars, timed, dead,
                 dropped, overtaken, leaked, promised>>

WriteOk ==
  /\ pc = "writing"
  /\ ~dead
  /\ IF LaneOf[current[1]] = "unwindowed" THEN RecordRawSend ELSE RecordSend(current[1])
  /\ result' = [result EXCEPT ![current[1]] = "ok"]
  /\ promised' = [promised EXCEPT ![LaneOf[current[1]]] = Tail(@)]
  /\ current' = <<>>
  /\ pc' = "events"
  /\ UNCHANGED <<chanVars, queue, timed, dead, dropped, overtaken, leaked>>

\* A failed write takes no slot and does not restart the floor; the transport
\* stays broken.
WriteErr ==
  /\ pc = "writing"
  /\ dead' = TRUE
  /\ result' = [result EXCEPT ![current[1]] = "err"]
  /\ promised' = [promised EXCEPT ![LaneOf[current[1]]] = Tail(@)]
  /\ current' = <<>>
  /\ pc' = "events"
  /\ UNCHANGED <<chanVars, queue, coreVars, timed, dropped, overtaken, leaked>>

\* recv() on an empty channel returns None once the handle is dropped.
Return ==
  /\ pc = "select"
  /\ dropped
  /\ jobsCh = <<>> \/ eventsCh = <<>>
  /\ pc' = "returned"
  /\ UNCHANGED <<chanVars, result, queue, current, coreVars, timed, dead,
                 dropped, overtaken, leaked, promised>>

Returned == pc = "returned" /\ UNCHANGED vars

-----------------------------------------------------------------------------
Init ==
  /\ jobsCh = <<>> /\ eventsCh = <<>> /\ eventsLeft = MaxEvents
  /\ result = [j \in Job |-> "idle"]
  /\ pc = "events"
  /\ queue = [l \in Lane |-> <<>>]
  /\ current = <<>>
  /\ window = WindowInitial
  /\ inFlight = {} /\ sends = 0
  /\ timeouts = 0 /\ acks = 0 /\ pause = 0 /\ gap = 0
  /\ timed = FALSE /\ dead = FALSE /\ dropped = FALSE
  /\ overtaken = [j \in Job |-> 0] /\ leaked = 0
  /\ promised = [l \in Lane |-> <<>>]

Controller ==
  \/ TakeEvent \/ EventsDrained \/ TakeJob \/ ExpireSlots
  \/ StartWrite \/ Park \/ SleepOver \/ WriteOk \/ WriteErr \/ Return

Next ==
  \/ \E j \in Job : Submit(j)
  \/ \E e \in Signal \cup {"error"} : Feedback(e)
  \/ Tick \/ DropHandle
  \/ Controller
  \/ Returned

Spec == Init /\ [][Next]_vars

\* The runtime keeps polling a ready task and time passes; callers and the
\* device owe nothing.
FairSpec == Spec /\ WF_vars(Controller) /\ WF_vars(Tick)

-----------------------------------------------------------------------------
(* Properties *)

TypeOK ==
  /\ jobsCh \in Seq(Job) /\ eventsCh \in Seq(Signal \cup {"error"})
  /\ eventsLeft \in Nat
  /\ result \in [Job -> {"idle", "queued", "ok", "err"}]
  /\ pc \in {"events", "jobs", "decide", "writing", "select", "returned"}
  /\ queue \in [Lane -> Seq(Job)]
  /\ current \in {<<>>} \cup {<<j>> : j \in Job}
  /\ (pc = "writing") = (current # <<>>)
  /\ window \in WindowMin..WindowMax
  /\ inFlight \subseteq Slot /\ IsFiniteSet(inFlight)
  /\ sends \in Nat
  /\ timeouts \in 0..CollapseTimeouts /\ acks \in 0..GrowAcks
  /\ pause \in Nat /\ gap \in Nat
  /\ timed \in BOOLEAN /\ dead \in BOOLEAN /\ dropped \in BOOLEAN
  /\ overtaken \in [Job -> Nat] /\ leaked \in Nat

\* "at most W frames outstanding": a frame that takes a slot never leaves more
\* than the window's worth of slots occupied, although feedback may have
\* collapsed the window below what is already in flight, and although the
\* gate is tested before the write and the slot taken after it (run, gate,
\* record_send).
AdmissionWithinWindow ==
  [][Cardinality(inFlight') > Cardinality(inFlight)
       => Cardinality(inFlight') <= window']_vars

\* The responses that are still due when `!` arrives cannot regrow the window
\* during the pause it starts: until the pause is over the window stays at its
\* minimum (on_pci_error, on_ack).
PausedStaysCollapsed == pause > 0 => window = WindowMin

\* Once `collapse_timeouts` responses in a row have been missed the window is
\* at its minimum, and it stays there until a response is seen (expire,
\* on_ack).
TimeoutsKeepCollapsed == timeouts = CollapseTimeouts => window = WindowMin

\* "a command arriving together with background frames still outranks them":
\* after a command is submitted at most one background frame is started ahead
\* of it, the one the loop was just deciding on (run).
CommandsOutrankBackground == \A j \in Job : overtaken[j] <= 1

\* Between the reader seeing `!` and the controller taking it, at most one
\* more frame is started, whatever select! picks first (run).
ErrorStopsSends == leaked <= 1

-----------------------------------------------------------------------------
(* The inductive invariant *)

\* `enqueue` and the loop agree on the lane of every frame.
LanesInv == \A l \in Lane : queue[l] \in Seq({j \in Job : LaneOf[j] = l})

\* No more slots than the window may ever have, and room for the frame being
\* written: nothing shrinks the window between the gate and the slot.
SlotsInv ==
  /\ Cardinality(inFlight) <= WindowMax
  /\ \A j \in Job : current = <<j>> /\ LaneOf[j] # "unwindowed"
                      => Cardinality(inFlight) < window

\* While paused nothing is being written, so the clean acks counted since the
\* `!` and the responses that are still due make fewer than GrowAcks together.
PauseInv ==
  pause > 0 => /\ window = WindowMin
               /\ current = <<>>
               /\ acks + Cardinality(inFlight) <= WindowMax

\* What is true initially, is preserved by every step, and implies
\* PausedStaysCollapsed, TimeoutsKeepCollapsed and AdmissionWithinWindow: the
\* bookkeeping behind the window of FlowState.
FlowInv == TypeOK /\ LanesInv /\ SlotsInv /\ PauseInv /\ TimeoutsKeepCollapsed

\* A `!` that a frame was started past is still in the channel, and the loop
\* drains the channel before it decides on another frame.
LeakInv ==
  leaked > 0 => /\ leaked = 1
                /\ ErrorPending(eventsCh)
                /\ pc \in {"writing", "events"}

\* A frame that waits is in exactly one place: being written, in the VecDeque
\* of its lane, or still in the channel.
PlacesInv ==
  /\ NoRepeats(jobsCh)
  /\ \A l \in Lane : NoRepeats(queue[l])
  /\ \A j \in Job :
       /\ ~(Holds(queue[LaneOf[j]], j) /\ Holds(jobsCh, j))
       /\ current = <<j>> => ~Holds(queue[LaneOf[j]], j) /\ ~Holds(jobsCh, j)
       /\ Queued(j) <=> \/ current = <<j>>
                        \/ Holds(queue[LaneOf[j]], j)
                        \/ Holds(jobsCh, j)

\* A command that was overtaken is in its VecDeque before the loop decides
\* again: a command in the channel at that point came later.
OutrankInv ==
  \A j \in Job :
    /\ overtaken[j] <= 1
    /\ result[j] = "idle" => overtaken[j] = 0
    /\ overtaken[j] = 1 /\ Holds(jobsCh, j) => pc \in {"writing", "events", "jobs"}

\* Frame j of a lane comes to be written before frame k of the same lane.
Ahead(j, k) ==
  \/ current = <<j>> /\ (Holds(queue[LaneOf[j]], k) \/ Holds(jobsCh, k))
  \/ Holds(queue[LaneOf[j]], j) /\ Holds(jobsCh, k)
  \/ Precedes(queue[LaneOf[j]], j, k)
  \/ Precedes(jobsCh, j, k)

\* The frames of a lane leave channel and VecDeque in the order in which they
\* were submitted.
PromisedInv ==
  /\ promised \in [Lane -> Seq(Job)]
  /\ \A l \in Lane : NoRepeats(promised[l])
  /\ \A l \in Lane, j \in Job : Holds(promised[l], j) <=> Queued(j) /\ LaneOf[j] = l
  /\ \A l \in Lane, j, k \in Job : Precedes(promised[l], j, k) => Ahead(j, k)

OrderInv == TypeOK /\ LanesInv /\ LeakInv /\ PlacesInv /\ OutrankInv /\ PromisedInv

-----------------------------------------------------------------------------
(* Refinement *)

\* The service of the controller: its lanes are the frames promised so far.
Service == INSTANCE FlowService WITH queue <- promised

=============================================================================
