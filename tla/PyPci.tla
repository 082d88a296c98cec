------------------------------- MODULE PyPci -------------------------------
(***************************************************************************)
(* The sending half of PCIProtocol (python-legacy/cbus/protocol/           *)
(* pciprotocol.py): one protocol object, its one connection, the callers   *)
(* of _send (pci_reset, timesync and the lighting commands), the           *)
(* confirmation handler and the retry task.                                *)
(*                                                                         *)
(* Everything runs on one event loop and no lock is held across an await,  *)
(* so a step extends from one real suspension to the next: the delay of    *)
(* _send_packet, the sleep of the retry task, a task made by create_task.  *)
(* Dictionaries keep insertion order, so codes_in_use is a sequence with   *)
(* the oldest code first and the pending confirmations are one too.        *)
(***************************************************************************)
EXTENDS Integers, FiniteSets, SequencesExt, SequenceOrder

CONSTANTS
  Frame,        \* what callers send, each once
  Coded,        \* the frames sent with a confirmation code
  ResetSeq,     \* the frames of pci_reset, in order
  Codes,        \* len(CONFIRMATION_CODES)
  MaxRetries,   \* MAX_PACKET_RETRIES
  NoCode

Code == 0..(Codes - 1)

PyPciAssumption ==
  /\ Coded \subseteq Frame /\ ResetSeq \in Seq(Frame)
  /\ Codes \in Nat \ {0} /\ MaxRetries \in Nat \ {0} /\ NoCode \notin Code

VARIABLES
  transport,   \* "new" until connection_made, then "open", then "lost"
  inUse,       \* _confirmation_codes_in_use, oldest first
  expired,     \* how many of the oldest exceed CONFIRMATION_TIMEOUT_SECONDS
  pending,     \* _pending_confirmations: <<code, frame, attempts>> in order
  nextIndex,   \* _next_confirmation_index
  call,        \* Frame -> where its _send stands
  code,        \* Frame -> the code it got
  tasks,       \* tasks on_confirmation has created and the loop has not run
  retry,       \* the retry task: "off" | "sleep" | "delay" | "error"
  toRetry,     \* its to_retry, the packet in the send delay first
  due,         \* entries that are a retry interval old at its next pass
  replies,     \* transmissions the device may still confirm
  wire,        \* history: Frame -> number of transmissions
  heard,       \* history: frames with a confirmation handled
  late,        \* history: Frame -> transmissions once it was heard
  exhausted,   \* history: the search found every code in use
  shared       \* history: a code was handed out that another frame still holds

codeVars == <<inUse, expired, nextIndex>>
callVars == <<call, code>>
retryVars == <<retry, toRetry, due>>
histVars == <<wire, heard, late>>
allotVars == <<exhausted, shared>>
vars == <<transport, codeVars, pending, callVars, tasks, retryVars, replies,
          histVars, allotVars>>

-----------------------------------------------------------------------------
(* The two dictionaries *)

PendingFrames == {e[2] : e \in ToSet(pending)}

\* With p the pending entries, the frames that count on their codes: those in
\* the send delay, those waiting for a confirmation and those to be retried.
Holding(p) == {f \in Coded : call[f] = "delay"}
              \cup {e[2] : e \in ToSet(p) \cup ToSet(toRetry)}

\* pop(code) for every code of S.
Without(p, S) == Subsequence(p, {i \in DOMAIN p : p[i][1] \notin S})

\* pending[c] = (f, n): an existing key keeps its place.
Put(p, c, f, n) ==
  IF c \in {e[1] : e \in ToSet(p)}
  THEN [i \in DOMAIN p |-> IF p[i][1] = c THEN <<c, f, n>> ELSE p[i]]
  ELSE Append(p, <<c, f, n>>)

-----------------------------------------------------------------------------
(* The confirmation codes *)

\* Mutant of ForceCount: without max(1, ...).
ForceCountNoMinimum(n) == IF n > (9 * Codes) \div 10 THEN n \div 4 ELSE 0

\* Above 90% use, the oldest quarter of the codes is released as well.
ForceCount(n) == IF n > (9 * Codes) \div 10
                 THEN IF n \div 4 > 1 THEN n \div 4 ELSE 1
                 ELSE 0

\* _check_and_release_timed_out_codes takes this many of the oldest codes:
\* the ones that timed out, then those the force cleanup asks for.
Released == expired + ForceCount(Len(inUse) - expired)

Kept == SubSeq(inUse, Released + 1, Len(inUse))
Dropped == ToSet(SubSeq(inUse, 1, Released))

\* The search of _get_confirmation_code from nextIndex on.
Vacant(used) == {c \in Code : c \notin ToSet(used)}
Distance(c) == (c - nextIndex + Codes) % Codes
FirstVacant(used) ==
  CHOOSE c \in Vacant(used) : \A d \in Vacant(used) : Distance(c) <= Distance(d)

\* _get_confirmation_code for frame f: release by age, search, and if every
\* code is in use take the oldest, preferring a different one (there is none).
GetCode(f) ==
  LET full == Vacant(Kept) = {}
      c == IF full THEN Head(Kept) ELSE FirstVacant(Kept)
      gone == IF full THEN {c} ELSE {}
      left == Without(pending, Dropped \cup gone)
  IN /\ inUse' = Append(Excluding(Kept, gone), c)
     /\ expired' = 0
     /\ pending' = left
     /\ nextIndex' = IF full THEN nextIndex ELSE (c + 1) % Codes
     /\ code' = [code EXCEPT ![f] = c]
     /\ exhausted' = (exhausted \/ full)
     /\ shared' = (shared \/ \E g \in Holding(left) : code[g] = c)

-----------------------------------------------------------------------------
(* _send *)

\* pci_reset awaits each of its frames in turn.
InTurn(f) == \A i \in DOMAIN ResetSeq : ResetSeq[i] = f =>
                /\ transport # "new"
                /\ i > 1 => call[ResetSeq[i - 1]] = "sent"

\* _prepare_packet and the start of _send_packet: with no transport it raises
\* IOError, and the code stays in use until it times out.
Send(f) ==
  /\ call[f] = "idle" /\ InTurn(f)
  /\ call' = [call EXCEPT ![f] = IF transport = "open" THEN "delay" ELSE "failed"]
  /\ IF f \in Coded
     THEN GetCode(f)
     ELSE UNCHANGED <<codeVars, pending, code, allotVars>>
  /\ UNCHANGED <<transport, tasks, retryVars, replies, histVars>>

\* A transmission of f, heard by the device if the connection is still up.
Transmit(f) ==
  IF transport = "open"
  THEN /\ wire' = [wire EXCEPT ![f] = @ + 1]
       /\ late' = [late EXCEPT ![f] = IF f \in heard THEN @ + 1 ELSE @]
       /\ replies' = IF f \in Coded THEN replies \cup {<<f, wire[f] + 1>>}
                                    ELSE replies
       /\ UNCHANGED heard
  ELSE UNCHANGED <<histVars, replies>>

\* Mutant of Written: the entry is stored with no attempt counted.
WrittenUncounted(f) ==
  /\ call[f] = "delay"
  /\ call' = [call EXCEPT ![f] = "sent"]
  /\ Transmit(f)
  /\ IF f \in Coded
     THEN /\ pending' = Put(pending, code[f], f, 0)
          /\ due' = due \ {code[f]}
     ELSE UNCHANGED <<pending, due>>
  /\ UNCHANGED <<transport, codeVars, code, tasks, retry, toRetry, allotVars>>

\* The delay of _send_packet is over: the packet is written to the transport
\* captured before it, and becomes pending whatever became of its code.
Written(f) ==
  /\ call[f] = "delay"
  /\ call' = [call EXCEPT ![f] = "sent"]
  /\ Transmit(f)
  /\ IF f \in Coded
     THEN /\ pending' = Put(pending, code[f], f, 1)
          /\ due' = due \ {code[f]}
     ELSE UNCHANGED <<pending, due>>
  /\ UNCHANGED <<transport, codeVars, code, tasks, retry, toRetry, allotVars>>

-----------------------------------------------------------------------------
(* Confirmations *)

\* on_confirmation: positive or negative, it queues the two tasks.
OnConfirmation ==
  \E r \in replies :
    /\ transport = "open"
    /\ replies' = replies \ {r}
    /\ tasks' = tasks \o << <<"remove", code[r[1]], r[1]>>,
                            <<"release", code[r[1]], r[1]>> >>
    /\ UNCHANGED <<transport, codeVars, pending, callVars, retryVars, histVars,
                   allotVars>>

\* The device or the network loses a frame or its confirmation.
LoseReply ==
  \E r \in replies :
    /\ replies' = replies \ {r}
    /\ UNCHANGED <<transport, codeVars, pending, callVars, tasks, retryVars,
                   histVars, allotVars>>

\* _release_confirmation_code, without the pending entry.
ReleaseCode(c) ==
  /\ inUse' = Excluding(inUse, {c})
  /\ expired' = IF c \in ToSet(SubSeq(inUse, 1, expired)) THEN expired - 1
                                                          ELSE expired

\* _remove_from_pending_confirmations pops the entry; _release_confirmation_code
\* does nothing if the code is not in use.
RunTask ==
  /\ tasks # <<>>
  /\ LET t == Head(tasks)
         drop == t[1] = "remove" \/ t[2] \in ToSet(inUse)
     IN /\ pending' = IF drop THEN Without(pending, {t[2]}) ELSE pending
        /\ due' = IF drop THEN due \ {t[2]} ELSE due
        /\ IF t[1] = "release" THEN ReleaseCode(t[2]) ELSE UNCHANGED <<inUse, expired>>
        /\ heard' = IF t[1] = "remove" THEN heard \cup {t[3]} ELSE heard
  /\ tasks' = Tail(tasks)
  /\ UNCHANGED <<transport, nextIndex, callVars, retry, toRetry, replies, wire,
                 late, allotVars>>

\* The oldest code still young passes CONFIRMATION_TIMEOUT_SECONDS.  The send
\* delay is far shorter, so a frame in it keeps its code from ageing.
Age ==
  /\ expired < Len(inUse)
  /\ \A f \in Frame : call[f] = "delay" => code[f] # inUse[expired + 1]
  /\ expired' = expired + 1
  /\ UNCHANGED <<transport, inUse, nextIndex, pending, callVars, tasks,
                 retryVars, replies, histVars, allotVars>>

-----------------------------------------------------------------------------
(* The retry task *)

\* The task goes back to sleep: what is pending now is due at the next pass.
BackToSleep(p) ==
  /\ retry' = "sleep"
  /\ toRetry' = <<>>
  /\ due' = {e[1] : e \in ToSet(p)}

\* Mutant of NextResend: an attempt counts only if there is a transport.
NextResendUncounted(list, p) ==
  IF list = <<>>
  THEN pending' = p /\ BackToSleep(p)
  ELSE LET c == Head(list)[1]
           held == {e \in ToSet(p) : e[1] = c}
       IN /\ pending' = IF held = {} \/ transport # "open" THEN p
                        ELSE Put(p, c, Head(list)[2],
                                 (CHOOSE e \in held : TRUE)[3] + 1)
          /\ retry' = IF transport = "open" THEN "delay" ELSE "error"
          /\ toRetry' = IF transport = "open" THEN list ELSE <<>>
          /\ due' = {}

\* The next packet of `list`, p being the pending entries: attempts goes up if
\* the code is (still, or again) pending, and then the packet is sent anyway.
NextResend(list, p) ==
  IF list = <<>>
  THEN pending' = p /\ BackToSleep(p)
  ELSE LET c == Head(list)[1]
           held == {e \in ToSet(p) : e[1] = c}
       IN /\ pending' = IF held = {} THEN p
                        ELSE Put(p, c, Head(list)[2],
                                 (CHOOSE e \in held : TRUE)[3] + 1)
          /\ retry' = IF transport = "open" THEN "delay" ELSE "error"
          /\ toRetry' = IF transport = "open" THEN list ELSE <<>>
          /\ due' = {}

Retryable(e) == e[3] < MaxRetries

\* One pass: release by age, collect the due entries, abandon those with no
\* attempt left (their codes too), and start on the first one to retry.
RetryPass ==
  /\ retry = "sleep"
  /\ LET old == {e \in ToSet(pending) : e[1] \in due \ Dropped}
         again == Subsequence(pending, {i \in DOMAIN pending :
                                          pending[i] \in old /\ Retryable(pending[i])})
         given == {e[1] : e \in {x \in old : ~Retryable(x)}}
     IN /\ inUse' = Excluding(Kept, given)
        /\ NextResend(again, Without(pending, Dropped \cup given))
  /\ expired' = 0
  /\ UNCHANGED <<transport, nextIndex, callVars, tasks, replies, histVars,
                 allotVars>>

\* The send delay of a retransmission is over.
RetryWritten ==
  /\ retry = "delay"
  /\ Transmit(Head(toRetry)[2])
  /\ NextResend(Tail(toRetry), pending)
  /\ UNCHANGED <<transport, codeVars, callVars, tasks, allotVars>>

\* _send_packet raised IOError: the rest of to_retry is dropped, and the task
\* sleeps before it starts over.
RetryError ==
  /\ retry = "error"
  /\ BackToSleep(pending)
  /\ UNCHANGED <<transport, codeVars, pending, callVars, tasks, replies,
                 histVars, allotVars>>

-----------------------------------------------------------------------------
(* The connection *)

\* _cleanup_state
Cleanup == inUse' = <<>> /\ expired' = 0 /\ pending' = <<>> /\ nextIndex' = 0 /\ due' = {}

ConnectionMade ==
  /\ transport = "new"
  /\ transport' = "open"
  /\ Cleanup
  /\ retry' = "sleep"
  /\ UNCHANGED <<callVars, tasks, toRetry, replies, histVars, allotVars>>

\* connection_lost cancels no task: the retry task and the callers in the send
\* delay go on, on an object nobody will connect again.
ConnectionLost ==
  /\ transport = "open"
  /\ transport' = "lost"
  /\ Cleanup
  /\ replies' = {}
  /\ UNCHANGED <<callVars, tasks, retry, toRetry, histVars, allotVars>>

-----------------------------------------------------------------------------
Init ==
  /\ transport = "new" /\ inUse = <<>> /\ expired = 0 /\ pending = <<>>
  /\ nextIndex = 0 /\ tasks = <<>> /\ retry = "off" /\ toRetry = <<>>
  /\ due = {} /\ replies = {} /\ heard = {} /\ exhausted = FALSE
  /\ shared = FALSE
  /\ call = [f \in Frame |-> "idle"] /\ code = [f \in Frame |-> NoCode]
  /\ wire = [f \in Frame |-> 0] /\ late = [f \in Frame |-> 0]

\* The retry loop never ends, and so neither does a behaviour.
Next ==
  \/ \E f \in Frame : Send(f)
  \/ \E f \in Frame : Written(f)
  \/ OnConfirmation
  \/ LoseReply
  \/ RunTask
  \/ Age
  \/ RetryPass
  \/ RetryWritten
  \/ RetryError
  \/ ConnectionMade
  \/ ConnectionLost

Spec == Init /\ [][Next]_vars

\* The event loop runs ready tasks and fires timers.
Fairness ==
  /\ \A f \in Frame : WF_vars(Written(f))
  /\ WF_vars(RunTask) /\ WF_vars(RetryPass) /\ WF_vars(RetryWritten)
  /\ WF_vars(RetryError)

FairSpec == Spec /\ Fairness

-----------------------------------------------------------------------------
(* Properties *)

Entry == Code \X Coded \X (0..MaxRetries)

\* A dictionary has one entry for a key.
KeysApart(p) == \A i, j \in DOMAIN p : p[i][1] = p[j][1] => i = j

TypeOK ==
  /\ transport \in {"new", "open", "lost"}
  /\ inUse \in Seq(Code) /\ NoRepeats(inUse) /\ expired \in 0..Len(inUse)
  /\ pending \in Seq(Entry) /\ KeysApart(pending) /\ nextIndex \in Code
  /\ call \in [Frame -> {"idle", "delay", "sent", "failed"}]
  /\ code \in [Frame -> Code \cup {NoCode}]
  /\ retry \in {"off", "sleep", "delay", "error"}
  /\ toRetry \in Seq(Entry) /\ due \subseteq Code

\* The force cleanup runs before every allocation and leaves a code vacant,
\* so the last two branches of _get_confirmation_code are never taken.
NeverExhausted == ~exhausted

\* A frame is outstanding from the allocation of its code until a confirmation
\* of it is handled or the retry task has given it up.
Outstanding(f) == f \in Coded /\ (call[f] = "delay" \/ f \in PendingFrames)

\* The code does not keep this one (README, "Where the code departs"):
\* Two outstanding frames never wait for the same confirmation code.
CodesApart ==
  \A f, g \in Frame :
    f # g /\ Outstanding(f) /\ Outstanding(g) => code[f] # code[g]

\* _check_pending_confirmations counts the first transmission as an attempt:
\* a frame is on the wire at most MAX_PACKET_RETRIES times.
TransmissionsBounded == \A f \in Frame : wire[f] <= MaxRetries

\* A confirmation handled while the frame waits in to_retry does not stop the
\* resend, but the pass in progress is the last one to send it.
AtMostOneLateResend == \A f \in Frame : late[f] <= 1

\* No frame is on the wire more than MAX_PACKET_RETRIES times, whatever is
\* confirmed, lost or given up between the passes of
\* _check_pending_confirmations, and a frame that is confirmed while it waits in
\* to_retry is sent once more at most.
RetriesBounded == TypeOK /\ TransmissionsBounded /\ AtMostOneLateResend

\* The code does not keep this one (README, "Where the code departs"):
\* A frame is retried only if no confirmation was received.
RetriedOnlyUnconfirmed == \A f \in Frame : late[f] = 0

\* Whatever is lost, and after the connection is lost too, a frame does not
\* stay in _pending_confirmations: the retry task removes it in the end.
PendingDrains == \A f \in Coded : f \in PendingFrames ~> f \notin PendingFrames

-----------------------------------------------------------------------------
(* Why the retries end, as an inductive invariant.  It holds for as long as *)
(* no code is handed out that another frame still holds: once a code       *)
(* changes hands while its old frame waits in to_retry, the two frames     *)
(* share an entry and its attempts.                                        *)

CodesInv ==
  /\ inUse \in Seq(Code) /\ NoRepeats(inUse) /\ expired \in 0..Len(inUse)
  /\ nextIndex \in Code /\ NeverExhausted

\* The frames on their way have codes, and each its own.
AllotInv ==
  /\ \A f \in Coded : call[f] \in {"delay", "sent"} => code[f] \in Code
  /\ \A f, g \in Holding(pending) : code[f] = code[g] => f = g

\* What is pending, to be retried, confirmed or removed was sent under its code.
Sent(f) == f \in Coded /\ call[f] = "sent"

PlaceInv ==
  /\ KeysApart(toRetry) /\ (toRetry # <<>> <=> retry = "delay")
  /\ retry = "off" <=> transport = "new"
  /\ \A e \in ToSet(pending) \cup ToSet(toRetry) : Sent(e[2]) /\ e[1] = code[e[2]]
  /\ tasks \in Seq({"remove", "release"} \X Code \X Coded)
  /\ \A t \in ToSet(tasks) : Sent(t[3]) /\ t[2] = code[t[3]]
  /\ \A r \in replies : Sent(r[1])
  /\ \A f \in heard : Sent(f) /\ f \notin PendingFrames

\* A pending entry has counted every transmission of its frame, and the one in
\* the send delay; an entry further down to_retry has an attempt left.
CountInv ==
  /\ wire \in [Frame -> Nat]
  /\ \A f \in Frame : call[f] # "sent" => wire[f] = 0
  /\ \A f \in Frame \ Coded : wire[f] <= 1
  /\ \A f \in Coded : wire[f] <= MaxRetries
  /\ \A d \in ToSet(toRetry) : wire[d[2]] < MaxRetries
  /\ \A e \in ToSet(pending) :
       /\ wire[e[2]] <= e[3]
       /\ \A i \in DOMAIN toRetry : toRetry[i][2] = e[2] =>
            IF i = 1 THEN wire[e[2]] < e[3] ELSE e[3] < MaxRetries

\* What a frame is still to be sent once it was heard, to_retry has already.
LateInv ==
  /\ late \in [Frame -> Nat]
  /\ \A f \in Frame : late[f] <= 1 /\ (f \notin heard => late[f] = 0)
  /\ \A d \in ToSet(toRetry) : late[d[2]] = 0

\* A code that is shared once may be shared for good: nothing is said then.
RetriesInv ==
  /\ CodesInv
  /\ ~shared => TypeOK /\ AllotInv /\ PlaceInv /\ CountInv /\ LateInv

=============================================================================
