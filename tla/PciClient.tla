----------------------------- MODULE PciClient -----------------------------
(***************************************************************************)
(* The PCI client of rust/cbus-transport/src/pci.rs: the init gate and the *)
(* send lane of `send`, the confirmation-code allocator, the retransmit    *)
(* task and the confirmation handler of the reader task, over the flow     *)
(* controller's promise (FlowService) and a device that confirms a         *)
(* transmission late or never.                                             *)
(*                                                                         *)
(* Actors: pci_reset, the callers of `send` (one per frame), the flow      *)
(* controller, the retransmit task, the reader task, and time.  Two        *)
(* instants matter, and time reaches them in any order: a code is older    *)
(* than CONFIRMATION_TIMEOUT (expired), a retransmit is due (due).         *)
(***************************************************************************)
EXTENDS Integers, Sequences, FiniteSets, SequenceOrder

CONSTANTS
  Frame,          \* the frames callers send, each once
  ClassOf,        \* Frame -> "commands" | "background" (classify)
  Coded,          \* frames sent with a confirmation code
  Codes,          \* how many confirmation codes there are
  InitFrames,     \* how many frames pci_reset_frames writes
  MaxAttempts,    \* MAX_PACKET_RETRIES
  NoFrame, NoCode

Code == 0..(Codes - 1)
Tx == Frame \X (1..MaxAttempts + 1)     \* a frame and the attempt

ASSUME PciAssumption ==
  /\ ClassOf \in [Frame -> {"commands", "background"}]
  /\ Coded \subseteq Frame
  /\ Codes \in Nat \ {0} /\ InitFrames \in Nat /\ MaxAttempts \in Nat \ {0}
  /\ NoFrame \notin Frame /\ NoCode \notin Code

VARIABLES
  initSent,      \* init frames written so far
  initDone,      \* the init gate
  lane,          \* callers queueing for send_lane, the holder first
  call,          \* Frame -> where the call of send stands
  code,          \* Frame -> the code it was given, or NoCode
  nextIndex,     \* next_confirmation_index
  inUse,         \* keys of codes_in_use
  older,         \* pairs of codes in use, the first one taken earlier
  expired,       \* codes in use for longer than CONFIRMATION_TIMEOUT
  pending,       \* Code -> its Pending entry: the frame and the attempts
  due,           \* pending codes whose next_retry has passed
  retry,         \* retransmit task: "sleep" | "resend" | "wait" | "gone"
  toRetry,       \* its to_retry list, the order of which is arbitrary
  resending,     \* the retransmission it waits for, <<>> or <<tx>>
  queue, result, \* the flow controller (FlowService)
  replies,       \* transmissions the device may still confirm
  dead,          \* the transport has failed
  order,         \* history: frames in the order send was called
  heard,         \* history: frames whose confirmation was handled
  settled,       \* history: ... while the frame was pending
  late,          \* history: transmissions of a frame once settled
  stale,         \* history: frames scheduled for a resend although heard
  exhausted      \* history: the allocator found every code in use

gateVars == <<initSent, initDone, lane, call, order>>
codeVars == <<nextIndex, inUse, older, expired>>
retryVars == <<retry, toRetry, resending>>
flowVars == <<queue, result>>
histVars == <<heard, settled, late, stale>>
vars == <<gateVars, code, codeVars, pending, due, retryVars, flowVars, replies,
          dead, histVars, exhausted>>

TxLane == [tx \in Tx |-> IF tx[2] = 1 THEN ClassOf[tx[1]] ELSE "unwindowed"]

Flow == INSTANCE FlowService WITH Job <- Tx, LaneOf <- TxLane

NoEntry == [frame |-> NoFrame, attempts |-> 0]

-----------------------------------------------------------------------------
(* The confirmation-code allocator *)

\* Mutant: without .max(1).
ForceCountNoMinimum(n) == IF n > (9 * Codes) \div 10 THEN n \div 4 ELSE 0

\* check_and_release_timed_out, once the timed-out codes are gone: with more
\* than 90% of the codes in use, the oldest quarter (at least one) goes too.
ForceCount(n) == IF n > (9 * Codes) \div 10
                 THEN IF n \div 4 > 1 THEN n \div 4 ELSE 1
                 ELSE 0

\* The n oldest codes of S.
OldestOf(S, n) ==
  {R \in SUBSET S : Cardinality(R) = n /\ R \X (S \ R) \subseteq older}

\* Mutant: no code is ever released by age.
KeptAll == {inUse}

\* What one call of check_and_release_timed_out may leave in use.
Kept == LET live == inUse \ expired
        IN {live \ R : R \in OldestOf(live, ForceCount(Cardinality(live)))}

\* Dropping a code from codes_in_use drops what is known of its age.
KeepCodes(kept) ==
  /\ inUse' = kept
  /\ older' = older \cap (kept \X kept)
  /\ expired' = expired \cap kept

\* The search of get_confirmation_code: round robin from nextIndex.
Following(c) == (c + 1) % Codes
Distance(c) == (c - nextIndex + Codes) % Codes
FirstVacant(S) == {c \in Code \ S : \A d \in Code \ S : Distance(c) <= Distance(d)}

\* Code c is given to frame f, `kept` being the other codes in use.
TakeCode(f, c, kept) ==
  /\ inUse' = kept \cup {c}
  /\ older' = (older \cap (kept \X kept)) \cup (kept \X {c})
  /\ expired' = expired \cap kept
  /\ code' = [code EXCEPT ![f] = c]

\* Entries of the codes in S are dropped from `pending`.
Forget(S) == /\ pending' = [c \in Code |-> IF c \in S THEN NoEntry ELSE pending[c]]
             /\ due' = due \ S

\* get_confirmation_code: time out, clean up, search; if that finds nothing
\* the oldest code is taken from its frame.
GetCode(f) ==
  \E kept \in Kept :
    \/ \E c \in FirstVacant(kept) :
         /\ TakeCode(f, c, kept)
         /\ nextIndex' = Following(c)
         /\ Forget(inUse \ kept)
         /\ UNCHANGED exhausted
    \/ /\ kept = Code
       /\ exhausted' = TRUE
       /\ \E R \in OldestOf(kept, 1) : \E c \in R :
            /\ TakeCode(f, c, kept \ R)
            /\ Forget((inUse \ kept) \cup R)
       /\ UNCHANGED nextIndex

-----------------------------------------------------------------------------
(* pci_reset and send *)

InitFrame ==
  /\ ~initDone /\ ~dead /\ initSent < InitFrames
  /\ initSent' = initSent + 1
  /\ UNCHANGED <<initDone, lane, call, order, code, codeVars, pending, due,
                 retryVars, flowVars, replies, dead, histVars, exhausted>>

\* Mutant: the gate opens without waiting for the init frames.
OpenGateEarly ==
  /\ ~initDone
  /\ initDone' = TRUE
  /\ UNCHANGED <<initSent, lane, call, order, code, codeVars, pending, due,
                 retryVars, flowVars, replies, dead, histVars, exhausted>>

\* The gate opens when the last frame is written, and when one fails.
OpenGate ==
  /\ ~initDone
  /\ initDone' = TRUE
  /\ dead' = (initSent < InitFrames)
  /\ UNCHANGED <<initSent, lane, call, order, code, codeVars, pending, due,
                 retryVars, flowVars, replies, histVars, exhausted>>

\* send is called: the caller queues for the fair send_lane.
Call(f) ==
  /\ call[f] = "idle"
  /\ call' = [call EXCEPT ![f] = "lane"]
  /\ lane' = Append(lane, f)
  /\ order' = Append(order, f)
  /\ UNCHANGED <<initSent, initDone, code, codeVars, pending, due, retryVars,
                 flowVars, replies, dead, histVars, exhausted>>

\* Mutant: the gate wakes its waiters in any order.
SubmitUnordered(f) ==
  /\ call[f] = "lane"
  /\ initDone
  /\ lane' = SelectSeq(lane, LAMBDA g : g # f)
  /\ call' = [call EXCEPT ![f] = "submitted"]
  /\ \/ f \in Coded /\ GetCode(f)
     \/ f \notin Coded /\ UNCHANGED <<code, codeVars, pending, due, exhausted>>
  /\ Flow!SvcSubmit(<<f, 1>>)
  /\ UNCHANGED <<initSent, initDone, order, retryVars, replies, dead, histVars>>

\* The holder of the lane passes the gate, takes a code if it wants to be
\* confirmed, hands the frame to the controller and leaves the lane.
Submit(f) ==
  /\ lane # <<>> /\ f = Head(lane)
  /\ initDone
  /\ lane' = Tail(lane)
  /\ call' = [call EXCEPT ![f] = "submitted"]
  /\ \/ f \in Coded /\ GetCode(f)
     \/ f \notin Coded /\ UNCHANGED <<code, codeVars, pending, due, exhausted>>
  /\ Flow!SvcSubmit(<<f, 1>>)
  /\ UNCHANGED <<initSent, initDone, order, retryVars, replies, dead, histVars>>

\* The controller reports the frame written: it is registered for retry.
Register(f) ==
  /\ call[f] = "submitted" /\ result[<<f, 1>>] = "ok"
  /\ call' = [call EXCEPT ![f] = "returned"]
  /\ IF f \in Coded
     THEN /\ pending' = [pending EXCEPT ![code[f]] = [frame |-> f, attempts |-> 1]]
          /\ due' = due \ {code[f]}
     ELSE UNCHANGED <<pending, due>>
  /\ UNCHANGED <<initSent, initDone, lane, order, code, codeVars, retryVars,
                 flowVars, replies, dead, histVars, exhausted>>

\* ... or failed: send returns the error, its code stays in use.
SendFails(f) ==
  /\ call[f] = "submitted" /\ result[<<f, 1>>] = "err"
  /\ call' = [call EXCEPT ![f] = "failed"]
  /\ UNCHANGED <<initSent, initDone, lane, order, code, codeVars, pending, due,
                 retryVars, flowVars, replies, dead, histVars, exhausted>>

-----------------------------------------------------------------------------
(* Flow controller, device and reader task *)

\* The controller writes the oldest frame of lane l, or the write fails.
Answer(l) ==
  /\ Flow!SvcAnswer(l)
  /\ LET tx == Head(queue[l])
     IN \/ /\ result'[tx] = "ok" /\ ~dead
           /\ replies' = IF tx[1] \in Coded THEN replies \cup {tx} ELSE replies
           /\ late' = IF tx[1] \in settled THEN [late EXCEPT ![tx[1]] = @ + 1] ELSE late
           /\ UNCHANGED dead
        \/ /\ result'[tx] = "err"
           /\ dead' = TRUE
           /\ UNCHANGED <<replies, late>>
  /\ UNCHANGED <<gateVars, code, codeVars, pending, due, retryVars, heard,
                 settled, stale, exhausted>>

\* Mutant: only the code is released, the entry stays pending.
ConfirmKeepsPending(tx) ==
  /\ tx \in replies
  /\ replies' = replies \ {tx}
  /\ LET f == tx[1]
     IN /\ KeepCodes(inUse \ {code[f]})
        /\ heard' = heard \cup {f}
        /\ settled' = IF pending[code[f]].frame = f THEN settled \cup {f} ELSE settled
  /\ UNCHANGED <<gateVars, code, nextIndex, pending, due, retryVars, flowVars,
                 dead, late, stale, exhausted>>

\* handle_cbus_packet, Confirmation: the device answers one transmission, at
\* any later time; the client sees only the code.
Confirm(tx) ==
  /\ tx \in replies
  /\ replies' = replies \ {tx}
  /\ LET f == tx[1]
         c == code[f]
     IN /\ KeepCodes(inUse \ {c})
        /\ Forget({c})
        /\ heard' = heard \cup {f}
        /\ settled' = IF pending[c].frame = f THEN settled \cup {f} ELSE settled
  /\ UNCHANGED <<gateVars, code, nextIndex, retryVars, flowVars, dead, late,
                 stale, exhausted>>

-----------------------------------------------------------------------------
(* The retransmit task and time *)

\* Mutant: <= for <.
MayRetryOnceMore(c) == pending[c].attempts <= MaxAttempts

MayRetry(c) == pending[c].attempts < MaxAttempts

\* One sweep, under the state lock: stale codes are released, every due frame
\* is scheduled once more or, after the last attempt, given up.
Sweep ==
  /\ retry = "sleep"
  /\ \E kept \in Kept :
       LET known == {c \in due : c \notin inUse \ kept}
           again == {c \in known : MayRetry(c)}
           gone == (inUse \ kept) \cup (known \ again)
           resend == {<<pending[c].frame, pending[c].attempts + 1>> : c \in again}
       IN /\ KeepCodes(kept \ gone)
          /\ pending' = [c \in Code |->
               IF c \in gone THEN NoEntry
               ELSE IF c \in again THEN [pending[c] EXCEPT !.attempts = @ + 1]
               ELSE pending[c]]
          /\ due' = {}
          /\ toRetry' = resend
          /\ retry' = IF resend = {} THEN "sleep" ELSE "resend"
          /\ stale' = stale \cup {tx[1] : tx \in {t \in resend : t[1] \in heard}}
  /\ UNCHANGED <<gateVars, code, nextIndex, resending, flowVars, replies, dead,
                 heard, settled, late, exhausted>>

\* The next frame of the list goes to the controller's unwindowed lane.
Resend(tx) ==
  /\ retry = "resend" /\ tx \in toRetry
  /\ toRetry' = toRetry \ {tx}
  /\ resending' = <<tx>>
  /\ retry' = "wait"
  /\ Flow!SvcSubmit(tx)
  /\ UNCHANGED <<gateVars, code, codeVars, pending, due, replies, dead, histVars,
                 exhausted>>

\* Its result is in: go on, sleep when the list is empty, end on a failure.
Resent ==
  /\ retry = "wait" /\ result[resending[1]] # "queued"
  /\ retry' = IF result[resending[1]] = "err" THEN "gone"
              ELSE IF toRetry = {} THEN "sleep" ELSE "resend"
  /\ resending' = <<>>
  /\ UNCHANGED <<gateVars, code, codeVars, pending, due, toRetry, flowVars,
                 replies, dead, histVars, exhausted>>

\* The jittered backoff of code c is over.
BackoffOver(c) ==
  /\ pending[c] # NoEntry /\ c \notin due
  /\ due' = due \cup {c}
  /\ UNCHANGED <<gateVars, code, codeVars, pending, retryVars, flowVars, replies,
                 dead, histVars, exhausted>>

\* Code c has been in use for CONFIRMATION_TIMEOUT, as have all older ones.
CodeExpires(c) ==
  /\ c \in inUse \ expired
  /\ \A d \in inUse : <<d, c>> \in older => d \in expired
  /\ expired' = expired \cup {c}
  /\ UNCHANGED <<gateVars, code, nextIndex, inUse, older, pending, due, retryVars,
                 flowVars, replies, dead, histVars, exhausted>>

\* The connection is lost and every call has returned: nothing is left to do.
Over ==
  /\ retry = "gone"
  /\ UNCHANGED vars

-----------------------------------------------------------------------------
Init ==
  /\ initSent = 0 /\ initDone = FALSE /\ lane = <<>> /\ order = <<>>
  /\ call = [f \in Frame |-> "idle"] /\ code = [f \in Frame |-> NoCode]
  /\ nextIndex = 0 /\ inUse = {} /\ older = {} /\ expired = {}
  /\ pending = [c \in Code |-> NoEntry] /\ due = {}
  /\ retry = "sleep" /\ toRetry = {} /\ resending = <<>>
  /\ Flow!SvcInit
  /\ replies = {} /\ dead = FALSE
  /\ heard = {} /\ settled = {} /\ late = [f \in Frame |-> 0] /\ stale = {}
  /\ exhausted = FALSE

Caller(f) == Submit(f) \/ Register(f) \/ SendFails(f)
RetryTask == Sweep \/ (\E tx \in Tx : Resend(tx)) \/ Resent

Next ==
  \/ InitFrame \/ OpenGate
  \/ \E f \in Frame : Call(f) \/ Caller(f)
  \/ \E l \in Flow!Lane : Answer(l)
  \/ \E tx \in Tx : Confirm(tx)
  \/ RetryTask
  \/ \E c \in Code : BackoffOver(c) \/ CodeExpires(c)
  \/ Over

Spec == Init /\ [][Next]_vars

\* Ready tasks are polled, the controller keeps its promise and time passes;
\* callers and the device owe nothing.
FairSpec ==
  /\ Spec
  /\ WF_vars(InitFrame) /\ WF_vars(OpenGate)
  /\ \A f \in Frame : WF_vars(Caller(f))
  /\ \A l \in Flow!Lane : WF_vars(Answer(l))
  /\ WF_vars(RetryTask)
  /\ \A c \in Code : WF_vars(BackoffOver(c)) /\ WF_vars(CodeExpires(c))

-----------------------------------------------------------------------------
(* Properties *)

TypeOK ==
  /\ initSent \in 0..InitFrames /\ initDone \in BOOLEAN
  /\ lane \in Seq(Frame) /\ order \in Seq(Frame)
  /\ call \in [Frame -> {"idle", "lane", "submitted", "returned", "failed"}]
  /\ code \in [Frame -> Code \cup {NoCode}]
  /\ nextIndex \in Code
  /\ inUse \subseteq Code /\ older \subseteq inUse \X inUse /\ expired \subseteq inUse
  /\ pending \in [Code -> [frame : Frame, attempts : 1..MaxAttempts + 1] \cup {NoEntry}]
  /\ due \subseteq {c \in Code : pending[c] # NoEntry}
  /\ retry \in {"sleep", "resend", "wait", "gone"}
  /\ toRetry \subseteq Tx /\ resending \in {<<>>} \cup {<<tx>> : tx \in Tx}
  /\ Flow!SvcTypeOK
  /\ replies \subseteq Tx /\ dead \in BOOLEAN
  /\ heard \subseteq Frame /\ settled \subseteq heard /\ stale \subseteq Frame
  /\ late \in [Frame -> Nat] /\ exhausted \in BOOLEAN

Written(f) == result[<<f, 1>>] = "ok"

\* "init must lead the stream": no other frame reaches the wire before the
\* whole init sequence has (pci_reset, send).
InitLeadsStream ==
  (\E f \in Frame : Written(f)) => initSent = InitFrames

\* "frames blocked on the init gate enter the flow queues in the order `send`
\* was called": within a priority class nobody is overtaken (send).
CallOrderKept ==
  \A i, j \in 1..Len(order) :
    /\ i < j /\ ClassOf[order[i]] = ClassOf[order[j]]
    /\ Written(order[j])
    => result[<<order[i], 1>>] \in {"ok", "err"}

\* The 90% clean-up always leaves a free code: the exhaustion fallback of
\* get_confirmation_code, which would take the oldest code away from a frame
\* on every call, is never needed.
NeverExhausted == ~exhausted

\* A frame that is confirmed while it is pending is written at most once more:
\* the one resend that was already on its way (retry_task, reader_loop).
AtMostOneLateResend == \A f \in Frame : late[f] <= 1

\* "no fourth transmission ever": MaxAttempts bounds the transmissions of a
\* frame even when its code is released, taken by another frame and resent
\* under (retry_task, send).
NoFourthTransmission ==
  \A f \in Frame : result[<<f, MaxAttempts + 1>>] = "idle"

\* A confirmation, the third unanswered attempt or the 30 s limit gives every
\* code back, as long as the retransmit task is alive (retry_task).
CodesReleased ==
  \A c \in Code :
    c \in inUse \/ pending[c] # NoEntry
      ~> (c \notin inUse /\ pending[c] = NoEntry) \/ retry = "gone"

\* "deliver the confirmation; the pending frame must not be resent"
\* (test confirmation_releases_and_stops_retry): a frame whose confirmation
\* has been handled is not scheduled for a resend.
ConfirmedNeverResent == stale = {}

-----------------------------------------------------------------------------
(* The inductive invariant *)

\* The controller queues exactly the transmissions it has not answered.
QueueInv ==
  \A l \in Flow!Lane :
    /\ NoRepeats(queue[l])
    /\ \A tx \in Tx : Holds(queue[l], tx) <=> result[tx] = "queued" /\ TxLane[tx] = l

\* Nothing but init frames is on its way before the gate opens, and a gate
\* that opens on a failure leaves a transport nothing is written to.
GateInv ==
  /\ \/ initDone
     \/ /\ ~dead /\ due = {} /\ toRetry = {}
        /\ \A c \in Code : pending[c] = NoEntry
        /\ \A tx \in Tx : result[tx] = "idle"
  /\ initDone /\ ~dead => initSent = InitFrames
  /\ InitLeadsStream

\* The send lane is the tail of the calls, and the flow queue of a class keeps
\* their order.
LaneInv ==
  /\ NoRepeats(order) /\ NoRepeats(lane)
  /\ \A f \in Frame :
       /\ Holds(order, f) <=> call[f] # "idle"
       /\ Holds(lane, f) <=> call[f] = "lane"
       /\ result[<<f, 1>>] = "idle" <=> call[f] \in {"idle", "lane"}
  /\ \A f, g \in Frame : Precedes(order, f, g) =>
       /\ Holds(lane, f) => Precedes(lane, f, g)
       /\ ClassOf[f] = ClassOf[g] /\ result[<<f, 1>>] = "queued"
            => \/ result[<<g, 1>>] = "idle"
               \/ Precedes(queue[ClassOf[f]], <<f, 1>>, <<g, 1>>)

\* A frame is pending under the one code it was given, once it is written.
PendingInv ==
  /\ \A f \in Frame :
       /\ call[f] = "returned" => result[<<f, 1>>] = "ok"
       /\ f \in Coded /\ call[f] \notin {"idle", "lane"} => code[f] \in Code
  /\ \A c \in Code : pending[c] # NoEntry =>
       code[pending[c].frame] = c /\ call[pending[c].frame] = "returned"

\* Retransmissions the controller has and has not answered.
Resends == {tx \in Tx : tx[2] > 1 /\ result[tx] = "queued"}

\* The retransmit task waits for one resend at a time, a sweep schedules a
\* frame once, and the last attempt is never exceeded.
RetryInv ==
  /\ \A tx \in toRetry : tx[2] \in 2..MaxAttempts
  /\ NoFourthTransmission
  /\ retry = "sleep" => toRetry = {}
  /\ retry = "wait" => resending # <<>>
  /\ \A tx \in Resends : retry = "wait" /\ resending = <<tx>>
  /\ toRetry \cap Resends = {}
  /\ \A t, u \in toRetry \cup Resends : t[1] = u[1] => t = u
  /\ \A tx \in toRetry \cup Resends : call[tx[1]] = "returned"

\* The device confirms frames that were given a code.
ReplyInv ==
  \A tx \in replies : tx[1] \in Coded /\ call[tx[1]] \notin {"idle", "lane"}

\* A settled frame is not pending, so all that can still be written of it is
\* the resend that was scheduled before.
LateInv ==
  /\ \A f \in settled :
       /\ call[f] = "returned"
       /\ \A c \in Code : pending[c].frame # f
  /\ \A f \in Frame :
       /\ late[f] <= 1
       /\ f \notin settled => late[f] = 0
       /\ late[f] = 1 => \A tx \in toRetry \cup Resends : tx[1] # f

PciInv == /\ TypeOK /\ QueueInv /\ GateInv /\ LaneInv
          /\ PendingInv /\ RetryInv /\ ReplyInv /\ LateInv

=============================================================================
