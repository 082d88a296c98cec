-------------------------- MODULE PciClientProofs --------------------------
(***************************************************************************)
(* Proofs about the PCI client, for any number of frames and codes.        *)
(***************************************************************************)
EXTENDS PciClient, SequenceOrderProofs, FiniteSetTheorems, TLAPS

\* Codes handed out are codes, and none was ever taken from its frame by the
\* exhaustion fallback.
AllocInv == inUse \subseteq Code /\ NeverExhausted

LEMMA CodeFinite == IsFiniteSet(Code) /\ Cardinality(Code) = Codes
BY PciAssumption, FS_Interval DEF Code

\* check_and_release_timed_out leaves fewer codes in use than there are.
LEMMA KeptLeavesRoom ==
  ASSUME inUse \subseteq Code, NEW kept \in Kept
  PROVE  kept \subseteq inUse /\ kept # Code
<1> DEFINE live == inUse \ expired
           n == Cardinality(live)
<1>1. PICK R \in OldestOf(live, ForceCount(n)) : kept = live \ R
  BY DEF Kept
<1>2. R \subseteq live /\ Cardinality(R) = ForceCount(n)
  BY DEF OldestOf
<1>3. /\ IsFiniteSet(live) /\ n \in Nat /\ n <= Codes
  <2>1. live \subseteq Code
    OBVIOUS
  <2> QED
    BY <2>1, CodeFinite, FS_Subset, FS_CardinalityType
<1>4. Cardinality(kept) = n - ForceCount(n)
  <2>1. live \cap R = R
    BY <1>2
  <2>2. Cardinality(live \ R) = Cardinality(live) - Cardinality(live \cap R)
    <3> HIDE DEF live
    <3> QED
      BY <1>3, FS_Difference
  <2> QED
    BY <1>1, <1>2, <2>1, <2>2
<1>5. n - ForceCount(n) < Codes
  <2> HIDE DEF n
  <2> QED
    BY <1>3, PciAssumption DEF ForceCount
<1>6. Cardinality(kept) < Codes
  BY <1>4, <1>5
<1>7. kept # Code
  BY <1>6, CodeFinite, PciAssumption
<1> QED
  BY <1>1, <1>7

LEMMA InitAlloc == Init => AllocInv
BY DEF Init, AllocInv, NeverExhausted

LEMMA NextAlloc == AllocInv /\ [Next]_vars => AllocInv'
<1> SUFFICES ASSUME AllocInv, [Next]_vars PROVE AllocInv'
  OBVIOUS
<1>0. inUse \subseteq Code /\ ~exhausted
  BY DEF AllocInv, NeverExhausted
<1>1. ASSUME NEW f \in Frame, Submit(f), GetCode(f) PROVE AllocInv'
  <2>1. PICK kept \in Kept :
          \/ \E c \in FirstVacant(kept) :
               inUse' = kept \cup {c} /\ exhausted' = exhausted
          \/ kept = Code
    BY <1>1 DEF GetCode, TakeCode
  <2>2. kept \subseteq inUse /\ kept # Code
    BY <1>0, KeptLeavesRoom
  <2> QED
    BY <1>0, <2>1, <2>2 DEF FirstVacant, AllocInv, NeverExhausted
<1>2. ASSUME NEW tx \in Tx, Confirm(tx) PROVE AllocInv'
  BY <1>0, <1>2 DEF Confirm, KeepCodes, AllocInv, NeverExhausted
<1>3. CASE Sweep
  <2>1. exhausted' = exhausted /\ inUse' \subseteq Code
    <3>1. PICK kept \in Kept : inUse' \subseteq kept
      BY <1>3 DEF Sweep, KeepCodes
    <3>2. kept \subseteq inUse
      BY <1>0, KeptLeavesRoom
    <3> QED
      BY <1>0, <1>3, <3>1, <3>2 DEF Sweep
  <2> QED
    BY <1>0, <2>1 DEF AllocInv, NeverExhausted
<1>4. CASE UNCHANGED <<inUse, exhausted>>
  BY <1>4 DEF AllocInv, NeverExhausted
<1>5. \/ \E f \in Frame : Submit(f) /\ GetCode(f)
      \/ \E tx \in Tx : Confirm(tx)
      \/ Sweep
      \/ UNCHANGED <<inUse, exhausted>>
  BY DEF Next, Caller, RetryTask, InitFrame, OpenGate, Call, Submit, Register,
     SendFails, Answer, Resend, Resent, BackoffOver, CodeExpires, Over, vars, codeVars
<1> QED
  BY <1>1, <1>2, <1>3, <1>4, <1>5

\* However many codes there are and however many frames are unconfirmed, the
\* 90% clean-up leaves a free one: the exhaustion fallback of
\* get_confirmation_code is dead code.
THEOREM AllocatorNeverExhausted == Spec => []NeverExhausted
<1>1. AllocInv => NeverExhausted
  BY DEF AllocInv
<1> QED
  BY <1>1, InitAlloc, NextAlloc, PTL DEF Spec

-----------------------------------------------------------------------------
(* What the steps do *)

LEMMA TxFirst == \A f \in Frame : <<f, 1>> \in Tx
BY PciAssumption DEF Tx

LEMMA TxLaneType ==
  /\ \A tx \in Tx : TxLane[tx] \in Flow!Lane
  /\ \A f \in Frame : TxLane[<<f, 1>>] = ClassOf[f]
  /\ \A tx \in Tx : tx[1] \in Frame /\ tx[2] \in Nat /\ tx = <<tx[1], tx[2]>>
BY PciAssumption, TxFirst DEF TxLane, Tx, Flow!Lane

\* A submission joins the end of its lane.
LEMMA SubmitQueue ==
  ASSUME Flow!SvcTypeOK, QueueInv, NEW tx \in Tx, Flow!SvcSubmit(tx)
  PROVE  /\ Flow!SvcTypeOK' /\ QueueInv'
         /\ result[tx] = "idle" /\ result'[tx] = "queued"
         /\ \A u \in Tx : u # tx => result'[u] = result[u]
         /\ \A l \in Flow!Lane : \A t, u :
              Precedes(queue[l], t, u) => Precedes(queue'[l], t, u)
         /\ \A t : Holds(queue[TxLane[tx]], t) => Precedes(queue'[TxLane[tx]], t, tx)
<1> DEFINE l == TxLane[tx]
<1>1. /\ l \in Flow!Lane
      /\ queue \in [Flow!Lane -> Seq(Tx)] /\ result \in [Tx -> Flow!Result]
  BY TxLaneType DEF Flow!SvcTypeOK
<1>2. /\ result[tx] = "idle"
      /\ result' = [result EXCEPT ![tx] = "queued"]
      /\ queue' = [queue EXCEPT ![l] = Append(@, tx)]
  BY DEF Flow!SvcSubmit
<1> HIDE DEF l
<1>3. /\ queue'[l] = Append(queue[l], tx) /\ queue' \in [Flow!Lane -> Seq(Tx)]
      /\ \A m \in Flow!Lane : m # l => queue'[m] = queue[m]
  BY <1>1, <1>2
<1>4. /\ result' \in [Tx -> Flow!Result] /\ result'[tx] = "queued"
      /\ \A u \in Tx : u # tx => result'[u] = result[u]
  BY <1>1, <1>2 DEF Flow!Result
<1>5. /\ \A t : Holds(queue'[l], t) <=> Holds(queue[l], t) \/ t = tx
      /\ \A t, u : Precedes(queue'[l], t, u)
                     <=> Precedes(queue[l], t, u) \/ (Holds(queue[l], t) /\ u = tx)
      /\ NoRepeats(queue[l]) /\ ~Holds(queue[l], tx) => NoRepeats(queue'[l])
  BY <1>1, <1>3, AppendOrder
<1>6. ~Holds(queue[l], tx)
  BY <1>1, <1>2 DEF QueueInv
<1>7. QueueInv'
  <2>1. \A m \in Flow!Lane : NoRepeats(queue'[m])
    BY <1>3, <1>5, <1>6 DEF QueueInv
  <2>2. ASSUME NEW m \in Flow!Lane, NEW t \in Tx
        PROVE  Holds(queue'[m], t) <=> result'[t] = "queued" /\ TxLane[t] = m
    <3>1. CASE m = l
      BY <1>4, <1>5, <3>1 DEF QueueInv, l
    <3>2. CASE m # l
      BY <1>3, <1>4, <3>2 DEF QueueInv, l
    <3> QED
      BY <3>1, <3>2
  <2> QED
    BY <2>1, <2>2 DEF QueueInv
<1> QED
  BY <1>1, <1>2, <1>3, <1>4, <1>5, <1>7 DEF Flow!SvcTypeOK, l

\* An answer goes to the oldest transmission of a lane.
LEMMA AnswerQueue ==
  ASSUME Flow!SvcTypeOK, QueueInv, NEW l \in Flow!Lane, Flow!SvcAnswer(l)
  PROVE  LET tx == Head(queue[l])
         IN  /\ Flow!SvcTypeOK' /\ QueueInv'
             /\ tx \in Tx /\ TxLane[tx] = l
             /\ result[tx] = "queued" /\ result'[tx] \in {"ok", "err"}
             /\ \A u \in Tx : u # tx => result'[u] = result[u]
             /\ \A m \in Flow!Lane : \A t, u :
                  Precedes(queue[m], t, u) => t = tx \/ Precedes(queue'[m], t, u)
             /\ \A m \in Flow!Lane : \A t : ~Precedes(queue[m], t, tx)
<1> DEFINE tx == Head(queue[l])
           rest == Tail(queue[l])
<1>1. /\ queue \in [Flow!Lane -> Seq(Tx)] /\ result \in [Tx -> Flow!Result]
      /\ queue[l] # <<>> /\ queue[l] \in Seq(Tx)
  BY DEF Flow!SvcTypeOK, Flow!SvcAnswer
<1>2. /\ tx \in Tx /\ rest \in Seq(Tx)
      /\ \A t : Holds(queue[l], t) <=> t = tx \/ Holds(rest, t)
      /\ \A t, u : Precedes(queue[l], t, u)
                     <=> Precedes(rest, t, u) \/ (t = tx /\ Holds(rest, u))
      /\ NoRepeats(queue[l]) => NoRepeats(rest) /\ ~Holds(rest, tx)
  BY <1>1, TailOrder
<1>3. PICK r \in {"ok", "err"} : result' = [result EXCEPT ![tx] = r]
  BY DEF Flow!SvcAnswer
<1>4. /\ queue'[l] = rest /\ queue' \in [Flow!Lane -> Seq(Tx)]
      /\ \A m \in Flow!Lane : m # l => queue'[m] = queue[m]
  BY <1>1, <1>2 DEF Flow!SvcAnswer
<1> HIDE DEF tx, rest
<1>5. /\ result' \in [Tx -> Flow!Result] /\ result'[tx] = r
      /\ \A u \in Tx : u # tx => result'[u] = result[u]
  BY <1>1, <1>2, <1>3 DEF Flow!Result
<1>6. NoRepeats(rest) /\ ~Holds(rest, tx) /\ result[tx] = "queued" /\ TxLane[tx] = l
  BY <1>2 DEF QueueInv
<1>7. QueueInv'
  <2>1. \A m \in Flow!Lane : NoRepeats(queue'[m])
    BY <1>4, <1>6 DEF QueueInv
  <2>2. ASSUME NEW m \in Flow!Lane, NEW t \in Tx
        PROVE  Holds(queue'[m], t) <=> result'[t] = "queued" /\ TxLane[t] = m
    <3>1. CASE m = l
      BY <1>2, <1>4, <1>5, <1>6, <3>1 DEF QueueInv
    <3>2. CASE m # l
      BY <1>4, <1>5, <1>6, <3>2 DEF QueueInv
    <3> QED
      BY <3>1, <3>2
  <2> QED
    BY <2>1, <2>2 DEF QueueInv
<1>8. ASSUME NEW m \in Flow!Lane, NEW t, NEW u, Precedes(queue[m], t, u)
      PROVE  u # tx /\ (t = tx \/ Precedes(queue'[m], t, u))
  <2>1. CASE m = l
    <3>1. Holds(rest, u)
      BY <1>2, <1>8, <2>1 DEF Precedes, Holds
    <3> QED
      BY <1>2, <1>4, <1>6, <1>8, <2>1, <3>1
  <2>2. CASE m # l
    <3>1. Holds(queue[m], u)
      BY <1>8 DEF Precedes, Holds
    <3>2. u # tx
      BY <1>2, <1>6, <2>2, <3>1 DEF QueueInv
    <3> QED
      BY <1>4, <1>8, <2>2, <3>2
  <2> QED
    BY <2>1, <2>2
<1> QED
  BY <1>2, <1>3, <1>4, <1>5, <1>6, <1>7, <1>8 DEF Flow!SvcTypeOK, tx

\* Codes that leave codes_in_use take their pending entries with them.
LEMMA ForgetType ==
  ASSUME TypeOK, NEW S, Forget(S)
  PROVE  /\ pending' \in [Code -> [frame : Frame, attempts : 1..MaxAttempts + 1] \cup {NoEntry}]
         /\ due' \subseteq {c \in Code : pending'[c] # NoEntry} /\ due' \subseteq due
         /\ \A c \in Code : pending'[c] = pending[c] \/ pending'[c] = NoEntry
         /\ \A c \in Code \cap S : pending'[c] = NoEntry
BY DEF TypeOK, Forget

\* A frame that wants a code is given one that nobody uses.
LEMMA SubmitEffect ==
  ASSUME TypeOK, NEW f \in Frame, Submit(f)
  PROVE  /\ code' \in [Frame -> Code \cup {NoCode}]
         /\ \A g \in Frame : g # f => code'[g] = code[g]
         /\ f \in Coded => code'[f] \in Code
         /\ nextIndex' \in Code /\ exhausted' \in BOOLEAN
         /\ inUse' \subseteq Code /\ older' \subseteq inUse' \X inUse'
         /\ expired' \subseteq inUse'
         /\ pending' \in [Code -> [frame : Frame, attempts : 1..MaxAttempts + 1] \cup {NoEntry}]
         /\ due' \subseteq {c \in Code : pending'[c] # NoEntry} /\ due' \subseteq due
         /\ \A c \in Code : pending'[c] = pending[c] \/ pending'[c] = NoEntry
<1>1. CASE f \notin Coded /\ UNCHANGED <<code, codeVars, pending, due, exhausted>>
  BY <1>1 DEF TypeOK, codeVars
<1>2. CASE f \in Coded /\ GetCode(f)
  <2>1. inUse \subseteq Code
    BY DEF TypeOK
  <2>2. PICK kept \in Kept :
          \/ \E c \in FirstVacant(kept) :
               /\ TakeCode(f, c, kept)
               /\ nextIndex' = Following(c)
               /\ Forget(inUse \ kept)
               /\ UNCHANGED exhausted
          \/ kept = Code
    BY <1>2 DEF GetCode
  <2>3. kept \subseteq inUse /\ kept # Code
    BY <2>1, KeptLeavesRoom
  <2>4. PICK c \in FirstVacant(kept) :
               /\ TakeCode(f, c, kept)
               /\ nextIndex' = Following(c)
               /\ Forget(inUse \ kept)
               /\ UNCHANGED exhausted
    BY <2>2, <2>3
  <2>5. c \in Code
    BY DEF FirstVacant
  <2>6. Following(c) \in Code
    BY <2>5, PciAssumption DEF Code, Following
  <2>7. /\ code' = [code EXCEPT ![f] = c]
        /\ inUse' = kept \cup {c}
        /\ older' = (older \cap (kept \X kept)) \cup (kept \X {c})
        /\ expired' = expired \cap kept
    BY <2>4 DEF TakeCode
  <2>8. /\ code' \in [Frame -> Code \cup {NoCode}]
        /\ \A g \in Frame : g # f => code'[g] = code[g]
        /\ code'[f] \in Code
    BY <2>5, <2>7 DEF TypeOK
  <2>9. inUse' \subseteq Code /\ older' \subseteq inUse' \X inUse' /\ expired' \subseteq inUse'
    BY <2>1, <2>3, <2>5, <2>7
  <2> QED
    BY <2>4, <2>6, <2>8, <2>9, ForgetType DEF TypeOK
<1> QED
  BY <1>1, <1>2 DEF Submit

\* A sweep schedules frames that are pending with attempts left, and drops or
\* counts up their entries.
LEMMA SweepEffect ==
  ASSUME TypeOK, Sweep
  PROVE  /\ inUse' \subseteq Code /\ older' \subseteq inUse' \X inUse'
         /\ expired' \subseteq inUse'
         /\ pending' \in [Code -> [frame : Frame, attempts : 1..MaxAttempts + 1] \cup {NoEntry}]
         /\ \A c \in Code : pending'[c] # NoEntry =>
              pending[c] # NoEntry /\ pending'[c].frame = pending[c].frame
         /\ due' = {} /\ retry = "sleep"
         /\ retry' \in {"sleep", "resend"} /\ (retry' = "sleep" => toRetry' = {})
         /\ \A tx \in toRetry' : \E c \in due :
              /\ pending[c] # NoEntry /\ pending[c].attempts < MaxAttempts
              /\ tx = <<pending[c].frame, pending[c].attempts + 1>>
         /\ \A tx \in toRetry' : tx \in Tx /\ tx[2] \in 2..MaxAttempts
         /\ stale' \subseteq Frame
<1>1. PICK kept \in Kept :
       LET known == {c \in due : c \notin inUse \ kept}
           again == {c \in known : MayRetry(c)}
           gone == (inUse \ kept) \cup (known \ again)
           resend == {<<pending[c].frame, pending[c].attempts + 1>> : c \in again}
       IN /\ KeepCodes(kept \ gone)
          /\ pending' = [c \in Code |->
               IF c \in gone THEN NoEntry
               ELSE IF c \in again THEN [pending[c] EXCEPT !.attempts = @ + 1]
               ELSE pending[c]]
          /\ toRetry' = resend
          /\ retry' = IF resend = {} THEN "sleep" ELSE "resend"
          /\ stale' = stale \cup {tx[1] : tx \in {t \in resend : t[1] \in heard}}
  BY DEF Sweep
<1> DEFINE known == {c \in due : c \notin inUse \ kept}
           again == {c \in known : MayRetry(c)}
           gone == (inUse \ kept) \cup (known \ again)
           resend == {<<pending[c].frame, pending[c].attempts + 1>> : c \in again}
<1>2. /\ inUse' = kept \ gone /\ older' = older \cap (inUse' \X inUse')
      /\ expired' = expired \cap inUse'
  BY <1>1 DEF KeepCodes
<1>3. kept \subseteq inUse /\ inUse \subseteq Code
  BY KeptLeavesRoom DEF TypeOK
<1>4. \A c \in again :
        /\ c \in Code /\ c \in due /\ pending[c] # NoEntry
        /\ pending[c] \in [frame : Frame, attempts : 1..MaxAttempts + 1]
        /\ pending[c].attempts < MaxAttempts
  BY DEF TypeOK, MayRetry
<1>5. pending' = [c \in Code |->
               IF c \in gone THEN NoEntry
               ELSE IF c \in again THEN [pending[c] EXCEPT !.attempts = @ + 1]
               ELSE pending[c]]
  BY <1>1
<1>6. toRetry' = resend /\ retry' = IF resend = {} THEN "sleep" ELSE "resend"
  BY <1>1
<1>7. stale' = stale \cup {tx[1] : tx \in {t \in resend : t[1] \in heard}}
  BY <1>1
<1>8. \A tx \in resend : \E c \in again : tx = <<pending[c].frame, pending[c].attempts + 1>>
  OBVIOUS
<1> HIDE DEF gone, again, resend
<1>9. ASSUME NEW c \in Code
      PROVE  /\ pending'[c] \in [frame : Frame, attempts : 1..MaxAttempts + 1] \cup {NoEntry}
             /\ pending'[c] # NoEntry =>
                  pending[c] # NoEntry /\ pending'[c].frame = pending[c].frame
  <2>1. pending[c] \in [frame : Frame, attempts : 1..MaxAttempts + 1] \cup {NoEntry}
    BY DEF TypeOK
  <2>2. CASE c \in gone
    BY <1>5, <2>2
  <2>3. CASE c \notin gone /\ c \in again
    <3>1. pending'[c] = [pending[c] EXCEPT !.attempts = @ + 1]
      BY <1>5, <2>3
    <3>2. /\ pending[c] \in [frame : Frame, attempts : 1..MaxAttempts + 1]
          /\ pending[c].attempts < MaxAttempts /\ pending[c] # NoEntry
      BY <1>4, <2>3
    <3> QED
      BY <3>1, <3>2, PciAssumption
  <2>4. CASE c \notin gone /\ c \notin again
    BY <1>5, <2>1, <2>4
  <2> QED
    BY <2>2, <2>3, <2>4
<1>10. pending' \in [Code -> [frame : Frame, attempts : 1..MaxAttempts + 1] \cup {NoEntry}]
  BY <1>5, <1>9
<1>11. ASSUME NEW tx \in resend
       PROVE  /\ \E c \in due : /\ pending[c] # NoEntry /\ pending[c].attempts < MaxAttempts
                                /\ tx = <<pending[c].frame, pending[c].attempts + 1>>
              /\ tx \in Tx /\ tx[2] \in 2..MaxAttempts /\ tx[1] \in Frame
  <2>1. PICK c \in again : tx = <<pending[c].frame, pending[c].attempts + 1>>
    BY <1>8
  <2>2. tx \in Tx /\ tx[2] \in 2..MaxAttempts /\ tx[1] \in Frame
    BY <1>4, <2>1, PciAssumption DEF Tx
  <2> QED
    BY <1>4, <2>1, <2>2
<1>12. stale' \subseteq Frame
  BY <1>7, <1>11 DEF TypeOK
<1>13. due' = {} /\ retry = "sleep"
  BY DEF Sweep
<1>14. inUse' \subseteq Code /\ older' \subseteq inUse' \X inUse' /\ expired' \subseteq inUse'
  BY <1>2, <1>3
<1> QED
  BY <1>6, <1>9, <1>10, <1>11, <1>12, <1>13, <1>14

-----------------------------------------------------------------------------
(* Type correctness and the queue of the controller *)

LEMMA InitPciInv == Init => PciInv
<1> SUFFICES ASSUME Init PROVE PciInv
  OBVIOUS
<1> USE PciAssumption
<1>1. \A tx \in Tx : result[tx] = "idle"
  BY DEF Init, Flow!SvcInit
<1>2. \A l \in Flow!Lane : queue[l] = <<>>
  BY DEF Init, Flow!SvcInit
<1>3. TypeOK
  <2>1. Flow!SvcTypeOK
    BY DEF Init, Flow!SvcInit, Flow!SvcTypeOK, Flow!Result
  <2>2. nextIndex \in Code
    BY DEF Init, Code
  <2>3. initSent \in 0..InitFrames /\ lane \in Seq(Frame) /\ order \in Seq(Frame)
    BY DEF Init
  <2>5. initDone \in BOOLEAN /\ dead \in BOOLEAN /\ exhausted \in BOOLEAN
    BY DEF Init
  <2>6. /\ inUse \subseteq Code /\ older \subseteq inUse \X inUse /\ expired \subseteq inUse
        /\ due \subseteq {c \in Code : pending[c] # NoEntry}
        /\ retry = "sleep" /\ toRetry \subseteq Tx /\ resending = <<>>
        /\ replies \subseteq Tx
        /\ heard \subseteq Frame /\ settled \subseteq heard /\ stale \subseteq Frame
    BY DEF Init
  <2>4. /\ call \in [Frame -> {"idle", "lane", "submitted", "returned", "failed"}]
        /\ code \in [Frame -> Code \cup {NoCode}]
        /\ pending \in [Code -> [frame : Frame, attempts : 1..MaxAttempts + 1] \cup {NoEntry}]
        /\ late \in [Frame -> Nat]
    BY DEF Init
  <2> QED
    BY <2>1, <2>2, <2>3, <2>4, <2>5, <2>6 DEF TypeOK
<1>4. QueueInv
  BY <1>1, <1>2 DEF QueueInv, NoRepeats, Holds
<1>5. GateInv
  BY <1>1, TxFirst DEF Init, GateInv, InitLeadsStream, Written
<1>6. LaneInv
  BY <1>1, TxFirst DEF Init, LaneInv, NoRepeats, Holds, Precedes
<1>7. PendingInv
  BY DEF Init, PendingInv
<1>8. RetryInv
  <2>1. Resends = {}
    BY <1>1 DEF Resends
  <2>2. NoFourthTransmission
    BY <1>1 DEF NoFourthTransmission, Tx
  <2> QED
    BY <2>1, <2>2 DEF Init, RetryInv
<1>9. LateInv
  BY DEF Init, LateInv
<1> QED
  BY <1>3, <1>4, <1>5, <1>6, <1>7, <1>8, <1>9 DEF PciInv, ReplyInv, Init

\* The steps that submit to the controller, its answers, and the others.
LEMMA FlowSteps ==
  ASSUME [Next]_vars
  PROVE  \/ \E f \in Frame : Submit(f) /\ Flow!SvcSubmit(<<f, 1>>)
         \/ \E tx \in Tx : Resend(tx) /\ Flow!SvcSubmit(tx)
         \/ \E l \in Flow!Lane : Answer(l) /\ Flow!SvcAnswer(l)
         \/ UNCHANGED flowVars
BY DEF Next, Caller, RetryTask, InitFrame, OpenGate, Call, Submit, Register,
   SendFails, Answer, Confirm, Sweep, Resend, Resent, BackoffOver, CodeExpires,
   Over, vars

LEMMA NextQueue ==
  TypeOK /\ QueueInv /\ [Next]_vars => Flow!SvcTypeOK' /\ QueueInv'
<1> SUFFICES ASSUME TypeOK, QueueInv, [Next]_vars PROVE Flow!SvcTypeOK' /\ QueueInv'
  OBVIOUS
<1>t. Flow!SvcTypeOK
  BY DEF TypeOK
<1>1. ASSUME NEW tx \in Tx, Flow!SvcSubmit(tx) PROVE Flow!SvcTypeOK' /\ QueueInv'
  BY <1>t, <1>1, SubmitQueue
<1>2. ASSUME NEW l \in Flow!Lane, Flow!SvcAnswer(l) PROVE Flow!SvcTypeOK' /\ QueueInv'
  BY <1>t, <1>2, AnswerQueue
<1>3. CASE UNCHANGED flowVars
  BY <1>t, <1>3 DEF flowVars, Flow!SvcTypeOK, QueueInv
<1> QED
  BY <1>1, <1>2, <1>3, FlowSteps, TxFirst

LEMMA NextType ==
  TypeOK /\ QueueInv /\ PendingInv /\ [Next]_vars => TypeOK'
<1> SUFFICES ASSUME TypeOK, QueueInv, PendingInv, [Next]_vars PROVE TypeOK'
  OBVIOUS
<1> USE PciAssumption
<1>q. Flow!SvcTypeOK'
  BY NextQueue
<1>1. CASE InitFrame
  BY <1>q, <1>1 DEF TypeOK, InitFrame, codeVars, retryVars, histVars
<1>2. CASE OpenGate
  BY <1>q, <1>2 DEF TypeOK, OpenGate, codeVars, retryVars, histVars
<1>3. ASSUME NEW f \in Frame, Call(f) PROVE TypeOK'
  <2>1. call' \in [Frame -> {"idle", "lane", "submitted", "returned", "failed"}]
    BY <1>3 DEF TypeOK, Call
  <2>2. lane' \in Seq(Frame) /\ order' \in Seq(Frame)
    BY <1>3 DEF TypeOK, Call
  <2> QED
    BY <1>q, <1>3, <2>1, <2>2 DEF TypeOK, Call, codeVars, retryVars, histVars
<1>4. ASSUME NEW f \in Frame, Submit(f) PROVE TypeOK'
  <2>1. call' \in [Frame -> {"idle", "lane", "submitted", "returned", "failed"}]
    BY <1>4 DEF TypeOK, Submit
  <2>2. lane' \in Seq(Frame)
    BY <1>4 DEF TypeOK, Submit
  <2>3. UNCHANGED <<initSent, initDone, order, retryVars, replies, dead, histVars>>
    BY <1>4 DEF Submit
  <2> HIDE DEF Submit
  <2>4. /\ code' \in [Frame -> Code \cup {NoCode}]
        /\ nextIndex' \in Code /\ exhausted' \in BOOLEAN
        /\ inUse' \subseteq Code /\ older' \subseteq inUse' \X inUse'
        /\ expired' \subseteq inUse'
        /\ pending' \in [Code -> [frame : Frame, attempts : 1..MaxAttempts + 1] \cup {NoEntry}]
        /\ due' \subseteq {c \in Code : pending'[c] # NoEntry}
    BY <1>4, SubmitEffect
  <2> QED
    BY <1>q, <2>1, <2>2, <2>3, <2>4 DEF TypeOK, retryVars, histVars
<1>5. ASSUME NEW f \in Frame, Register(f) PROVE TypeOK'
  <2>1. call' \in [Frame -> {"idle", "lane", "submitted", "returned", "failed"}]
    BY <1>5 DEF TypeOK, Register
  <2>2. /\ pending' \in [Code -> [frame : Frame, attempts : 1..MaxAttempts + 1] \cup {NoEntry}]
        /\ due' \subseteq {c \in Code : pending'[c] # NoEntry}
    <3>1. CASE f \in Coded
      <4>1. code[f] \in Code
        BY <1>5, <3>1 DEF PendingInv, Register
      <4>2. /\ pending' = [pending EXCEPT ![code[f]] = [frame |-> f, attempts |-> 1]]
            /\ due' = due \ {code[f]}
        BY <1>5, <3>1 DEF Register
      <4> QED
        BY <4>1, <4>2 DEF TypeOK
    <3>2. CASE f \notin Coded
      BY <1>5, <3>2 DEF TypeOK, Register
    <3> QED
      BY <3>1, <3>2
  <2> QED
    BY <1>q, <1>5, <2>1, <2>2 DEF TypeOK, Register, codeVars, retryVars, histVars
<1>6. ASSUME NEW f \in Frame, SendFails(f) PROVE TypeOK'
  <2>1. call' \in [Frame -> {"idle", "lane", "submitted", "returned", "failed"}]
    BY <1>6 DEF TypeOK, SendFails
  <2> QED
    BY <1>q, <1>6, <2>1 DEF TypeOK, SendFails, codeVars, retryVars, histVars
<1>7. ASSUME NEW l \in Flow!Lane, Answer(l) PROVE TypeOK'
  <2>1. Head(queue[l]) \in Tx
    BY <1>7, AnswerQueue DEF Answer, TypeOK
  <2>2. Head(queue[l])[1] \in Frame
    BY <2>1, TxLaneType
  <2>3. late' \in [Frame -> Nat] /\ replies' \subseteq Tx /\ dead' \in BOOLEAN
    <3> DEFINE tx == Head(queue[l])
    <3>1. /\ replies' \in {replies, replies \cup {tx}}
          /\ late' \in {late, [late EXCEPT ![tx[1]] = @ + 1]}
          /\ dead' \in {dead, TRUE}
      BY <1>7 DEF Answer
    <3> HIDE DEF tx
    <3>2. tx \in Tx /\ tx[1] \in Frame
      BY <2>1, <2>2 DEF tx
    <3>3. late' \in [Frame -> Nat]
      <4>1. late \in [Frame -> Nat]
        BY DEF TypeOK
      <4>2. [late EXCEPT ![tx[1]] = @ + 1] \in [Frame -> Nat]
        BY <3>2, <4>1
      <4> QED
        BY <3>1, <4>1, <4>2
    <3>4. replies' \subseteq Tx
      BY <3>1, <3>2 DEF TypeOK
    <3>5. dead' \in BOOLEAN
      BY <3>1 DEF TypeOK
    <3> QED
      BY <3>3, <3>4, <3>5
  <2> QED
    BY <1>q, <1>7, <2>3 DEF TypeOK, Answer, gateVars, codeVars, retryVars
<1>8. ASSUME NEW tx \in Tx, Confirm(tx) PROVE TypeOK'
  <2>1. Forget({code[tx[1]]}) /\ KeepCodes(inUse \ {code[tx[1]]})
    BY <1>8 DEF Confirm
  <2>2. /\ pending' \in [Code -> [frame : Frame, attempts : 1..MaxAttempts + 1] \cup {NoEntry}]
        /\ due' \subseteq {c \in Code : pending'[c] # NoEntry}
    BY <2>1, ForgetType
  <2>3. inUse' \subseteq Code /\ older' \subseteq inUse' \X inUse' /\ expired' \subseteq inUse'
    BY <2>1 DEF TypeOK, KeepCodes
  <2>4. tx[1] \in Frame
    BY TxLaneType
  <2>5. heard' \subseteq Frame /\ settled' \subseteq heard' /\ replies' \subseteq Tx
    BY <1>8, <2>4 DEF TypeOK, Confirm
  <2> QED
    BY <1>q, <1>8, <2>2, <2>3, <2>5 DEF TypeOK, Confirm, gateVars, retryVars
<1>9. CASE Sweep
  <2>1. /\ inUse' \subseteq Code /\ older' \subseteq inUse' \X inUse'
        /\ expired' \subseteq inUse'
        /\ pending' \in [Code -> [frame : Frame, attempts : 1..MaxAttempts + 1] \cup {NoEntry}]
        /\ due' = {} /\ retry' \in {"sleep", "resend"}
        /\ toRetry' \subseteq Tx /\ stale' \subseteq Frame
    BY <1>9, SweepEffect
  <2>2. UNCHANGED <<gateVars, code, nextIndex, resending, flowVars, replies, dead,
                    heard, settled, late, exhausted>>
    BY <1>9 DEF Sweep
  <2> QED
    BY <1>q, <2>1, <2>2 DEF TypeOK, gateVars
<1>10. ASSUME NEW tx \in Tx, Resend(tx) PROVE TypeOK'
  BY <1>q, <1>10 DEF TypeOK, Resend, gateVars, codeVars, histVars
<1>11. CASE Resent
  BY <1>q, <1>11 DEF TypeOK, Resent, gateVars, codeVars, histVars
<1>12. ASSUME NEW c \in Code, BackoffOver(c) PROVE TypeOK'
  BY <1>q, <1>12 DEF TypeOK, BackoffOver, gateVars, codeVars, retryVars, histVars
<1>13. ASSUME NEW c \in Code, CodeExpires(c) PROVE TypeOK'
  BY <1>q, <1>13 DEF TypeOK, CodeExpires, gateVars, retryVars, histVars
<1>14. CASE UNCHANGED vars
  BY <1>q, <1>14
  DEF TypeOK, vars, gateVars, codeVars, retryVars, flowVars, histVars
<1> QED
  BY <1>1, <1>2, <1>3, <1>4, <1>5, <1>6, <1>7, <1>8, <1>9, <1>10, <1>11, <1>12,
     <1>13, <1>14 DEF Next, Caller, RetryTask, Over

-----------------------------------------------------------------------------
(* The init gate *)

\* No frame but the init frames is handed over before the gate opens, and a
\* gate that opens early leaves a dead transport.
LEMMA NextGate == PciInv /\ [Next]_vars => GateInv'
<1> SUFFICES ASSUME PciInv, [Next]_vars PROVE GateInv'
  OBVIOUS
<1> USE PciAssumption
<1>t. /\ TypeOK /\ QueueInv /\ GateInv /\ Flow!SvcTypeOK
      /\ dead \in BOOLEAN /\ initDone \in BOOLEAN /\ initSent \in 0..InitFrames
  BY DEF PciInv, TypeOK
<1>1. CASE InitFrame
  BY <1>1, <1>t, TxFirst DEF InitFrame, GateInv, InitLeadsStream, Written, flowVars, retryVars
<1>2. CASE OpenGate
  <2>1. initDone' = TRUE /\ dead' = (initSent < InitFrames) /\ UNCHANGED <<initSent, flowVars>>
    BY <1>2 DEF OpenGate
  <2>2. ~initDone
    BY <1>2 DEF OpenGate
  <2>3. InitLeadsStream'
    BY <1>t, <2>1, <2>2, TxFirst DEF GateInv, InitLeadsStream, Written, flowVars
  <2>4. ~dead' => ~(initSent < InitFrames)
    BY <2>1, Zenon
  <2>5. ~dead' => initSent' = InitFrames
    BY <1>t, <2>1, <2>4
  <2> QED
    BY <2>1, <2>3, <2>5 DEF GateInv
<1>3. ASSUME NEW l \in Flow!Lane, Answer(l) PROVE GateInv'
  <2> DEFINE tx == Head(queue[l])
  <2>1. /\ tx \in Tx /\ result[tx] = "queued"
        /\ \A u \in Tx : u # tx => result'[u] = result[u]
    BY <1>3, <1>t, AnswerQueue DEF Answer
  <2>2. \/ result'[tx] = "ok" /\ ~dead /\ dead' = dead
        \/ result'[tx] = "err" /\ dead' = TRUE
    BY <1>3 DEF Answer
  <2> HIDE DEF tx
  <2>3. initDone /\ UNCHANGED <<initDone, initSent>>
    BY <1>3, <1>t, <2>1 DEF GateInv, Answer, gateVars
  <2>4. InitLeadsStream'
    <3> SUFFICES ASSUME NEW f \in Frame, result'[<<f, 1>>] = "ok"
                 PROVE  initSent' = InitFrames
      BY DEF InitLeadsStream, Written
    <3>1. CASE tx = <<f, 1>>
      <4>1. ~dead
        BY <2>2, <3>1
      <4> QED
        BY <1>t, <2>3, <4>1 DEF GateInv
    <3>2. CASE tx # <<f, 1>>
      <4>1. result[<<f, 1>>] = "ok"
        BY <2>1, <3>2, TxFirst
      <4> QED
        BY <1>t, <2>3, <4>1 DEF GateInv, InitLeadsStream, Written
    <3> QED
      BY <3>1, <3>2
  <2> QED
    BY <1>t, <2>2, <2>3, <2>4 DEF GateInv
<1>4. ASSUME NEW tx \in Tx, Flow!SvcSubmit(tx), initDone,
             UNCHANGED <<initDone, initSent, dead>>
      PROVE  GateInv'
  <2>1. result'[tx] = "queued" /\ \A u \in Tx : u # tx => result'[u] = result[u]
    BY <1>4, <1>t, SubmitQueue
  <2>2. \A f \in Frame : result'[<<f, 1>>] = "ok" => result[<<f, 1>>] = "ok"
    BY <2>1, TxFirst
  <2> QED
    BY <1>4, <1>t, <2>2 DEF GateInv, InitLeadsStream, Written
<1>5. ASSUME NEW tx \in Tx, Resend(tx) PROVE initDone
  BY <1>5, <1>t DEF Resend, GateInv
<1>6. CASE initDone /\ UNCHANGED <<initDone, initSent, dead, flowVars>>
  BY <1>6, <1>t DEF GateInv, InitLeadsStream, Written, flowVars
<1>7. CASE ~initDone /\ UNCHANGED <<initDone, initSent, dead, flowVars, due, toRetry, pending>>
  BY <1>7, <1>t DEF GateInv, InitLeadsStream, Written, flowVars
<1>8. ASSUME ~initDone, Sweep PROVE GateInv'
  <2>1. /\ due = {} /\ due' = {}
        /\ \A c \in Code : pending'[c] # NoEntry => pending[c] # NoEntry
        /\ \A tx \in toRetry' : \E c \in due : pending[c] # NoEntry
    BY <1>8, <1>t, SweepEffect DEF GateInv
  <2>2. UNCHANGED <<initDone, initSent, dead, flowVars>>
    BY <1>8 DEF Sweep, gateVars
  <2> QED
    BY <1>8, <1>t, <2>1, <2>2 DEF GateInv, InitLeadsStream, Written, flowVars
<1>9. ASSUME NEW tx \in Tx, Confirm(tx) PROVE GateInv'
  <2>1. Forget({code[tx[1]]}) /\ UNCHANGED <<initDone, initSent, dead, flowVars, toRetry>>
    BY <1>9 DEF Confirm, gateVars, retryVars
  <2>2. due' \subseteq due /\ \A c \in Code : pending'[c] = pending[c] \/ pending'[c] = NoEntry
    BY <1>t, <2>1, ForgetType
  <2> QED
    BY <1>t, <2>1, <2>2 DEF GateInv, InitLeadsStream, Written, flowVars
<1>10. ASSUME NEW f \in Frame, Register(f) \/ SendFails(f) PROVE initDone
  BY <1>10, <1>t, TxFirst DEF Register, SendFails, GateInv
<1>11. ASSUME NEW c \in Code, BackoffOver(c) PROVE initDone
  BY <1>11, <1>t DEF BackoffOver, GateInv
<1>12. \/ InitFrame \/ OpenGate
       \/ \E l \in Flow!Lane : Answer(l)
       \/ \E tx \in Tx : /\ Flow!SvcSubmit(tx) /\ UNCHANGED <<initDone, initSent, dead>>
                         /\ initDone \/ Resend(tx)
       \/ \E tx \in Tx : Confirm(tx)
       \/ Sweep
       \/ \E f \in Frame : /\ Register(f) \/ SendFails(f)
                           /\ UNCHANGED <<initDone, initSent, dead, flowVars>>
       \/ \E c \in Code : BackoffOver(c) /\ UNCHANGED <<initDone, initSent, dead, flowVars>>
       \/ UNCHANGED <<initDone, initSent, dead, flowVars, due, toRetry, pending>>
  <2>1. ASSUME NEW f \in Frame, Submit(f)
        PROVE  /\ Flow!SvcSubmit(<<f, 1>>) /\ UNCHANGED <<initDone, initSent, dead>>
               /\ initDone
    BY <2>1 DEF Submit
  <2>2. ASSUME NEW tx \in Tx, Resend(tx)
        PROVE  Flow!SvcSubmit(tx) /\ UNCHANGED <<initDone, initSent, dead>>
    BY <2>2 DEF Resend, gateVars
  <2>3. ASSUME NEW f \in Frame, Register(f) \/ SendFails(f)
        PROVE  UNCHANGED <<initDone, initSent, dead, flowVars>>
    BY <2>3 DEF Register, SendFails
  <2>4. ASSUME NEW c \in Code, BackoffOver(c)
        PROVE  UNCHANGED <<initDone, initSent, dead, flowVars>>
    BY <2>4 DEF BackoffOver, gateVars
  <2>5. ASSUME \/ \E f \in Frame : Call(f)
               \/ Resent
               \/ \E c \in Code : CodeExpires(c)
               \/ UNCHANGED vars
        PROVE  UNCHANGED <<initDone, initSent, dead, flowVars, due, toRetry, pending>>
    BY <2>5 DEF Call, Resent, CodeExpires, vars, gateVars, retryVars, flowVars
  <2> QED
    BY <2>1, <2>2, <2>3, <2>4, <2>5, TxFirst DEF Next, Caller, RetryTask, Over
<1>13. Sweep => UNCHANGED <<initDone, initSent, dead, flowVars>>
  BY DEF Sweep, gateVars
<1> QED
  BY <1>1, <1>2, <1>3, <1>4, <1>5, <1>6, <1>7, <1>8, <1>9, <1>10, <1>11, <1>12, <1>13

-----------------------------------------------------------------------------
(* The send lane *)

\* Results the steps of the controller leave alone.
LEMMA FirstResults ==
  ASSUME PciInv, [Next]_vars
  PROVE  /\ \A f \in Frame :
              \/ result'[<<f, 1>>] = result[<<f, 1>>]
              \/ Submit(f) /\ result'[<<f, 1>>] = "queued" /\ result[<<f, 1>>] = "idle"
              \/ \E l \in Flow!Lane : /\ Answer(l) /\ <<f, 1>> = Head(queue[l])
                                      /\ result[<<f, 1>>] = "queued"
                                      /\ result'[<<f, 1>>] \in {"ok", "err"}
<1> SUFFICES ASSUME NEW f \in Frame
             PROVE  \/ result'[<<f, 1>>] = result[<<f, 1>>]
                    \/ Submit(f) /\ result'[<<f, 1>>] = "queued" /\ result[<<f, 1>>] = "idle"
                    \/ \E l \in Flow!Lane : /\ Answer(l) /\ <<f, 1>> = Head(queue[l])
                                            /\ result[<<f, 1>>] = "queued"
                                            /\ result'[<<f, 1>>] \in {"ok", "err"}
  OBVIOUS
<1>t. Flow!SvcTypeOK /\ QueueInv /\ <<f, 1>> \in Tx
  BY TxFirst DEF PciInv, TypeOK
<1>1. ASSUME NEW g \in Frame, Submit(g), Flow!SvcSubmit(<<g, 1>>)
      PROVE  \/ result'[<<f, 1>>] = result[<<f, 1>>]
             \/ Submit(f) /\ result'[<<f, 1>>] = "queued" /\ result[<<f, 1>>] = "idle"
  <2>1. /\ result[<<g, 1>>] = "idle" /\ result'[<<g, 1>>] = "queued"
        /\ \A u \in Tx : u # <<g, 1>> => result'[u] = result[u]
    BY <1>1, <1>t, SubmitQueue, TxFirst
  <2>2. CASE f = g
    BY <1>1, <2>1, <2>2
  <2>3. CASE f # g
    BY <1>t, <2>1, <2>3
  <2> QED
    BY <2>2, <2>3
<1>2. ASSUME NEW tx \in Tx, Resend(tx), Flow!SvcSubmit(tx)
      PROVE  result'[<<f, 1>>] = result[<<f, 1>>]
  <2>1. tx \in toRetry
    BY <1>2 DEF Resend
  <2>2. tx[2] \in 2..MaxAttempts
    BY <2>1 DEF PciInv, RetryInv
  <2>3. tx # <<f, 1>>
    BY <2>2
  <2>4. \A u \in Tx : u # tx => result'[u] = result[u]
    BY <1>2, <1>t, SubmitQueue
  <2> QED
    BY <1>t, <2>3, <2>4
<1>3. ASSUME NEW l \in Flow!Lane, Answer(l), Flow!SvcAnswer(l)
      PROVE  \/ result'[<<f, 1>>] = result[<<f, 1>>]
             \/ /\ <<f, 1>> = Head(queue[l]) /\ result[<<f, 1>>] = "queued"
                /\ result'[<<f, 1>>] \in {"ok", "err"}
  <2>1. /\ result[Head(queue[l])] = "queued" /\ result'[Head(queue[l])] \in {"ok", "err"}
        /\ \A u \in Tx : u # Head(queue[l]) => result'[u] = result[u]
    BY <1>3, <1>t, AnswerQueue
  <2> QED
    BY <1>t, <2>1
<1>4. CASE UNCHANGED flowVars
  BY <1>4 DEF flowVars
<1> QED
  BY <1>1, <1>2, <1>3, <1>4, FlowSteps

\* Whatever is submitted next was called before everything that is still in
\* the lane, so it joins its queue behind all earlier calls of its class.
LEMMA NextLane == PciInv /\ [Next]_vars => LaneInv'
<1> SUFFICES ASSUME PciInv, [Next]_vars PROVE LaneInv'
  OBVIOUS
<1> USE PciAssumption
<1>t. /\ TypeOK /\ Flow!SvcTypeOK /\ QueueInv /\ LaneInv
      /\ lane \in Seq(Frame) /\ order \in Seq(Frame)
      /\ call \in [Frame -> {"idle", "lane", "submitted", "returned", "failed"}]
  BY DEF PciInv, TypeOK
<1>c. \A f \in Frame : ClassOf[f] \in Flow!Lane /\ TxLane[<<f, 1>>] = ClassOf[f]
  BY TxLaneType DEF Flow!Lane
<1>1. ASSUME NEW f \in Frame, Call(f) PROVE LaneInv'
  <2>1. /\ call[f] = "idle" /\ call' = [call EXCEPT ![f] = "lane"]
        /\ lane' = Append(lane, f) /\ order' = Append(order, f)
        /\ UNCHANGED <<queue, result>>
    BY <1>1 DEF Call, flowVars
  <2>2. call'[f] = "lane" /\ \A g \in Frame : g # f => call'[g] = call[g]
    BY <1>t, <2>1
  <2>3. ~Holds(lane, f) /\ ~Holds(order, f) /\ NoRepeats(lane) /\ NoRepeats(order)
        /\ result[<<f, 1>>] = "idle"
    BY <1>t, <2>1 DEF LaneInv
  <2>4. /\ \A g : Holds(lane', g) <=> Holds(lane, g) \/ g = f
        /\ \A g, h : Precedes(lane', g, h)
                       <=> Precedes(lane, g, h) \/ (Holds(lane, g) /\ h = f)
        /\ NoRepeats(lane')
    BY <1>t, <2>1, <2>3, AppendOrder
  <2>5. /\ \A g : Holds(order', g) <=> Holds(order, g) \/ g = f
        /\ \A g, h : Precedes(order', g, h)
                       <=> Precedes(order, g, h) \/ (Holds(order, g) /\ h = f)
        /\ NoRepeats(order')
    BY <1>t, <2>1, <2>3, AppendOrder
  <2>6. ASSUME NEW g \in Frame
        PROVE  /\ Holds(order', g) <=> call'[g] # "idle"
               /\ Holds(lane', g) <=> call'[g] = "lane"
               /\ result'[<<g, 1>>] = "idle" <=> call'[g] \in {"idle", "lane"}
    <3>1. CASE g = f
      BY <2>1, <2>2, <2>3, <2>4, <2>5, <3>1
    <3>2. CASE g # f
      BY <1>t, <2>1, <2>2, <2>4, <2>5, <3>2 DEF LaneInv
    <3> QED
      BY <3>1, <3>2
  <2>7. ASSUME NEW g \in Frame, NEW h \in Frame, Precedes(order', g, h)
        PROVE  /\ Holds(lane', g) => Precedes(lane', g, h)
               /\ ClassOf[g] = ClassOf[h] /\ result'[<<g, 1>>] = "queued"
                    => \/ result'[<<h, 1>>] = "idle"
                       \/ Precedes(queue'[ClassOf[g]], <<g, 1>>, <<h, 1>>)
    <3>1. CASE Precedes(order, g, h)
      <4>1. g # f
        BY <2>3, <3>1 DEF Precedes, Holds
      <4> QED
        BY <1>t, <2>1, <2>4, <3>1, <4>1 DEF LaneInv
    <3>2. CASE Holds(order, g) /\ h = f
      <4>1. g # f
        BY <2>3, <3>2
      <4> QED
        BY <2>1, <2>3, <2>4, <3>2, <4>1
    <3> QED
      BY <2>5, <2>7, <3>1, <3>2
  <2> QED
    BY <2>4, <2>5, <2>6, <2>7 DEF LaneInv
<1>2. ASSUME NEW f \in Frame, Submit(f) PROVE LaneInv'
  <2>1. /\ lane # <<>> /\ f = Head(lane) /\ lane' = Tail(lane)
        /\ call' = [call EXCEPT ![f] = "submitted"]
        /\ UNCHANGED order /\ Flow!SvcSubmit(<<f, 1>>)
    BY <1>2 DEF Submit
  <2>2. call'[f] = "submitted" /\ \A g \in Frame : g # f => call'[g] = call[g]
    BY <1>t, <2>1
  <2>3. /\ NoRepeats(lane') /\ ~Holds(lane', f)
        /\ \A g : Holds(lane, g) <=> g = f \/ Holds(lane', g)
        /\ \A g, h : Precedes(lane, g, h)
                       <=> Precedes(lane', g, h) \/ (g = f /\ Holds(lane', h))
    BY <1>t, <2>1, TailOrder DEF LaneInv
  <2>4. /\ result[<<f, 1>>] = "idle" /\ result'[<<f, 1>>] = "queued"
        /\ \A g \in Frame : g # f => result'[<<g, 1>>] = result[<<g, 1>>]
        /\ \A l \in Flow!Lane : \A t, u :
             Precedes(queue[l], t, u) => Precedes(queue'[l], t, u)
        /\ \A t : Holds(queue[ClassOf[f]], t) => Precedes(queue'[ClassOf[f]], t, <<f, 1>>)
    <3>1. /\ result[<<f, 1>>] = "idle" /\ result'[<<f, 1>>] = "queued"
          /\ \A u \in Tx : u # <<f, 1>> => result'[u] = result[u]
          /\ \A l \in Flow!Lane : \A t, u :
               Precedes(queue[l], t, u) => Precedes(queue'[l], t, u)
          /\ \A t : Holds(queue[ClassOf[f]], t) => Precedes(queue'[ClassOf[f]], t, <<f, 1>>)
      BY <1>t, <1>c, <2>1, SubmitQueue, TxFirst
    <3>2. \A g \in Frame : g # f => <<g, 1>> \in Tx /\ <<g, 1>> # <<f, 1>>
      BY TxFirst
    <3> QED
      BY <3>1, <3>2
  <2>5. ASSUME NEW g \in Frame
        PROVE  /\ Holds(order', g) <=> call'[g] # "idle"
               /\ Holds(lane', g) <=> call'[g] = "lane"
               /\ result'[<<g, 1>>] = "idle" <=> call'[g] \in {"idle", "lane"}
    <3>1. CASE g = f
      <4>1. call[f] = "lane"
        BY <1>t, <2>3 DEF LaneInv
      <4>2. Holds(order, f)
        BY <1>t, <4>1 DEF LaneInv
      <4> QED
        BY <2>1, <2>2, <2>3, <2>4, <3>1, <4>2
    <3>2. CASE g # f
      <4>1. /\ call'[g] = call[g] /\ order' = order
            /\ Holds(lane', g) <=> Holds(lane, g)
            /\ result'[<<g, 1>>] = result[<<g, 1>>]
        BY <2>1, <2>2, <2>3, <2>4, <3>2, Zenon
      <4> QED
        BY <1>t, <4>1 DEF LaneInv
    <3> QED
      BY <3>1, <3>2
  <2>6. ASSUME NEW g \in Frame, NEW h \in Frame, Precedes(order, g, h)
        PROVE  /\ Holds(lane', g) => Precedes(lane', g, h)
               /\ ClassOf[g] = ClassOf[h] /\ result'[<<g, 1>>] = "queued"
                    => \/ result'[<<h, 1>>] = "idle"
                       \/ Precedes(queue'[ClassOf[g]], <<g, 1>>, <<h, 1>>)
    <3>1. Holds(lane', g) => Precedes(lane', g, h)
      BY <1>t, <2>3, <2>6 DEF LaneInv
    <3>2. CASE g = f
      <4>1. h # f
        <5>1. Precedes(lane, f, h)
          BY <1>t, <2>3, <2>6, <3>2 DEF LaneInv
        <5>2. Holds(lane', h)
          BY <2>3, <5>1 DEF Precedes, Holds
        <5> QED
          BY <2>3, <5>2
      <4>2. Holds(lane, h)
        <5>1. Precedes(lane, f, h)
          BY <1>t, <2>3, <2>6, <3>2 DEF LaneInv
        <5> QED
          BY <5>1 DEF Precedes, Holds
      <4>3. result[<<h, 1>>] = "idle"
        BY <1>t, <4>2 DEF LaneInv
      <4> QED
        BY <2>4, <3>1, <4>1, <4>3
    <3>3. CASE g # f /\ h = f
      <4>1. ASSUME ClassOf[g] = ClassOf[h], result'[<<g, 1>>] = "queued"
            PROVE  Precedes(queue'[ClassOf[g]], <<g, 1>>, <<h, 1>>)
        <5>1. result[<<g, 1>>] = "queued"
          BY <2>4, <3>3, <4>1
        <5>2. Holds(queue[ClassOf[f]], <<g, 1>>)
          BY <1>t, <1>c, <3>3, <4>1, <5>1, TxFirst DEF QueueInv
        <5> QED
          BY <2>4, <3>3, <4>1, <5>2
      <4> QED
        BY <3>1, <4>1
    <3>4. CASE g # f /\ h # f
      BY <1>t, <1>c, <2>4, <2>6, <3>1, <3>4 DEF LaneInv
    <3> QED
      BY <3>2, <3>3, <3>4
  <2> QED
    BY <1>t, <2>1, <2>3, <2>5, <2>6 DEF LaneInv
<1>3. ASSUME NEW f \in Frame, Register(f) \/ SendFails(f) PROVE LaneInv'
  <2>1. PICK r \in {"returned", "failed"} : call' = [call EXCEPT ![f] = r]
    BY <1>3 DEF Register, SendFails
  <2>2. call[f] = "submitted" /\ UNCHANGED <<lane, order, queue, result>>
    BY <1>3 DEF Register, SendFails, flowVars
  <2>3. call'[f] = r /\ \A g \in Frame : g # f => call'[g] = call[g]
    BY <1>t, <2>1
  <2>4. ASSUME NEW g \in Frame
        PROVE  /\ Holds(order', g) <=> call'[g] # "idle"
               /\ Holds(lane', g) <=> call'[g] = "lane"
               /\ result'[<<g, 1>>] = "idle" <=> call'[g] \in {"idle", "lane"}
    <3>1. CASE g = f
      BY <1>t, <2>2, <2>3, <3>1 DEF LaneInv
    <3>2. CASE g # f
      BY <1>t, <2>2, <2>3, <3>2 DEF LaneInv
    <3> QED
      BY <3>1, <3>2
  <2> QED
    BY <1>t, <2>2, <2>4 DEF LaneInv
<1>4. ASSUME NEW l \in Flow!Lane, Answer(l) PROVE LaneInv'
  <2> DEFINE tx == Head(queue[l])
  <2>1. UNCHANGED <<lane, order, call>>
    BY <1>4 DEF Answer, gateVars
  <2>2. /\ tx \in Tx /\ result[tx] = "queued" /\ result'[tx] \in {"ok", "err"}
        /\ \A u \in Tx : u # tx => result'[u] = result[u]
        /\ \A m \in Flow!Lane : \A t, u :
             Precedes(queue[m], t, u) => t = tx \/ Precedes(queue'[m], t, u)
        /\ \A m \in Flow!Lane : \A t : ~Precedes(queue[m], t, tx)
    BY <1>4, <1>t, AnswerQueue DEF Answer
  <2> HIDE DEF tx
  <2>3. \A g \in Frame : result'[<<g, 1>>] = "idle" <=> result[<<g, 1>>] = "idle"
    BY <2>2, TxFirst
  <2>4. ASSUME NEW g \in Frame, NEW h \in Frame, Precedes(order, g, h),
               ClassOf[g] = ClassOf[h], result'[<<g, 1>>] = "queued"
        PROVE  \/ result'[<<h, 1>>] = "idle"
               \/ Precedes(queue'[ClassOf[g]], <<g, 1>>, <<h, 1>>)
    <3>1. <<g, 1>> # tx /\ result[<<g, 1>>] = "queued"
      BY <2>2, <2>4, TxFirst
    <3>2. \/ result[<<h, 1>>] = "idle"
          \/ Precedes(queue[ClassOf[g]], <<g, 1>>, <<h, 1>>)
      BY <1>t, <2>4, <3>1 DEF LaneInv
    <3> QED
      BY <1>c, <2>2, <2>3, <3>1, <3>2
  <2> QED
    BY <1>t, <2>1, <2>3, <2>4 DEF LaneInv
<1>5. ASSUME NEW tx \in Tx, Resend(tx) PROVE LaneInv'
  <2>1. UNCHANGED <<lane, order, call>> /\ Flow!SvcSubmit(tx)
    BY <1>5 DEF Resend, gateVars
  <2>2. \A g \in Frame : result'[<<g, 1>>] = result[<<g, 1>>]
    <3>1. tx[2] \in 2..MaxAttempts
      BY <1>5 DEF Resend, PciInv, RetryInv
    <3>2. \A g \in Frame : <<g, 1>> # tx
      BY <3>1
    <3>3. \A u \in Tx : u # tx => result'[u] = result[u]
      BY <1>t, <2>1, SubmitQueue
    <3> QED
      BY <3>2, <3>3, TxFirst
  <2>3. \A l \in Flow!Lane : \A t, u :
             Precedes(queue[l], t, u) => Precedes(queue'[l], t, u)
    BY <1>t, <2>1, SubmitQueue
  <2> QED
    BY <1>t, <1>c, <2>1, <2>2, <2>3 DEF LaneInv
<1>6. CASE UNCHANGED <<lane, order, call, flowVars>>
  BY <1>6, <1>t DEF LaneInv, flowVars
<1>7. \/ \E f \in Frame : Call(f) \/ Submit(f) \/ Register(f) \/ SendFails(f)
      \/ \E l \in Flow!Lane : Answer(l)
      \/ \E tx \in Tx : Resend(tx)
      \/ UNCHANGED <<lane, order, call, flowVars>>
  BY DEF Next, Caller, RetryTask, InitFrame, OpenGate, Confirm, Sweep, Resent,
     BackoffOver, CodeExpires, Over, vars, gateVars
<1> QED
  BY <1>1, <1>2, <1>3, <1>4, <1>5, <1>6, <1>7

-----------------------------------------------------------------------------
(* Pending frames, resends and late resends *)

\* A code is given to a frame once, and the frame is registered under it once.
LEMMA NextPending == PciInv /\ [Next]_vars => PendingInv'
<1> SUFFICES ASSUME PciInv, [Next]_vars PROVE PendingInv'
  OBVIOUS
<1> USE PciAssumption
<1>t. /\ TypeOK /\ PendingInv /\ LaneInv
      /\ call \in [Frame -> {"idle", "lane", "submitted", "returned", "failed"}]
      /\ code \in [Frame -> Code \cup {NoCode}]
      /\ pending \in [Code -> [frame : Frame, attempts : 1..MaxAttempts + 1] \cup {NoEntry}]
  BY DEF PciInv, TypeOK
<1>p. \A c \in Code : pending[c] # NoEntry => pending[c].frame \in Frame
  BY <1>t
<1>r. \A f \in Frame : result[<<f, 1>>] = "ok" => result'[<<f, 1>>] = "ok"
  BY FirstResults
<1>1. ASSUME NEW f \in Frame, Call(f) \/ SendFails(f) PROVE PendingInv'
  <2>1. PICK r \in {"lane", "failed"} :
          /\ call' = [call EXCEPT ![f] = r]
          /\ call[f] = IF r = "lane" THEN "idle" ELSE "submitted"
    BY <1>1 DEF Call, SendFails
  <2>2. UNCHANGED <<code, pending>>
    BY <1>1 DEF Call, SendFails
  <2>3. call'[f] = r /\ \A g \in Frame : g # f => call'[g] = call[g]
    BY <1>t, <2>1
  <2> QED
    BY <1>t, <1>p, <1>r, <2>1, <2>2, <2>3 DEF PendingInv
<1>2. ASSUME NEW f \in Frame, Submit(f) PROVE PendingInv'
  <2>1. call' = [call EXCEPT ![f] = "submitted"] /\ lane # <<>> /\ f = Head(lane)
    BY <1>2 DEF Submit
  <2>2. call'[f] = "submitted" /\ \A g \in Frame : g # f => call'[g] = call[g]
    BY <1>t, <2>1
  <2>3. call[f] = "lane"
    <3>1. Holds(lane, f)
      BY <2>1, TailOrder DEF PciInv, TypeOK
    <3> QED
      BY <1>t, <3>1 DEF LaneInv
  <2>4. /\ \A g \in Frame : g # f => code'[g] = code[g]
        /\ f \in Coded => code'[f] \in Code
        /\ \A c \in Code : pending'[c] = pending[c] \/ pending'[c] = NoEntry
    BY <1>t, <1>2, SubmitEffect
  <2>5. ASSUME NEW g \in Frame
        PROVE  /\ call'[g] = "returned" => result'[<<g, 1>>] = "ok"
               /\ g \in Coded /\ call'[g] \notin {"idle", "lane"} => code'[g] \in Code
    BY <1>t, <1>r, <2>2, <2>4 DEF PendingInv
  <2>6. ASSUME NEW c \in Code, pending'[c] # NoEntry
        PROVE  code'[pending'[c].frame] = c /\ call'[pending'[c].frame] = "returned"
    <3>1. pending'[c] = pending[c] /\ pending[c] # NoEntry
      BY <2>4, <2>6
    <3>2. /\ pending[c].frame \in Frame /\ code[pending[c].frame] = c
          /\ call[pending[c].frame] = "returned"
      BY <1>t, <1>p, <3>1 DEF PendingInv
    <3>3. pending[c].frame # f
      BY <2>3, <3>2
    <3> QED
      BY <2>2, <2>4, <3>1, <3>2, <3>3
  <2> QED
    BY <2>5, <2>6 DEF PendingInv
<1>3. ASSUME NEW f \in Frame, Register(f) PROVE PendingInv'
  <2>1. /\ call[f] = "submitted" /\ result[<<f, 1>>] = "ok" /\ UNCHANGED code
        /\ call' = [call EXCEPT ![f] = "returned"]
    BY <1>3 DEF Register
  <2>2. call'[f] = "returned" /\ \A g \in Frame : g # f => call'[g] = call[g]
    BY <1>t, <2>1
  <2>3. ASSUME NEW c \in Code
        PROVE  \/ pending'[c] = pending[c]
               \/ c = code[f] /\ pending'[c] = [frame |-> f, attempts |-> 1]
    <3>1. CASE f \in Coded
      <4>1. pending' = [pending EXCEPT ![code[f]] = [frame |-> f, attempts |-> 1]]
        BY <1>3, <3>1 DEF Register
      <4> QED
        BY <1>t, <4>1
    <3>2. CASE f \notin Coded
      BY <1>3, <3>2 DEF Register
    <3> QED
      BY <3>1, <3>2
  <2>4. ASSUME NEW c \in Code, pending'[c] # NoEntry
        PROVE  code'[pending'[c].frame] = c /\ call'[pending'[c].frame] = "returned"
    <3>1. CASE pending'[c] = pending[c]
      BY <1>t, <1>p, <2>1, <2>2, <2>4, <3>1 DEF PendingInv
    <3>2. CASE c = code[f] /\ pending'[c] = [frame |-> f, attempts |-> 1]
      BY <2>1, <2>2, <3>2
    <3> QED
      BY <2>3, <3>1, <3>2
  <2>5. ASSUME NEW g \in Frame
        PROVE  /\ call'[g] = "returned" => result'[<<g, 1>>] = "ok"
               /\ g \in Coded /\ call'[g] \notin {"idle", "lane"} => code'[g] \in Code
    BY <1>t, <1>r, <2>1, <2>2 DEF PendingInv
  <2> QED
    BY <2>4, <2>5 DEF PendingInv
<1>4. ASSUME NEW tx \in Tx, Confirm(tx) PROVE PendingInv'
  <2>1. Forget({code[tx[1]]}) /\ UNCHANGED <<call, code>>
    BY <1>4 DEF Confirm, gateVars
  <2>2. \A c \in Code : pending'[c] = pending[c] \/ pending'[c] = NoEntry
    BY <1>t, <2>1, ForgetType
  <2> QED
    BY <1>t, <1>r, <2>1, <2>2 DEF PendingInv
<1>5. CASE Sweep
  <2>1. UNCHANGED <<call, code>>
    BY <1>5 DEF Sweep, gateVars
  <2>2. \A c \in Code : pending'[c] # NoEntry =>
              pending[c] # NoEntry /\ pending'[c].frame = pending[c].frame
    BY <1>t, <1>5, SweepEffect
  <2> QED
    BY <1>t, <1>r, <2>1, <2>2 DEF PendingInv
<1>6. CASE UNCHANGED <<call, code, pending>>
  BY <1>t, <1>r, <1>6 DEF PendingInv
<1>7. \/ \E f \in Frame : Call(f) \/ Submit(f) \/ Register(f) \/ SendFails(f)
      \/ \E tx \in Tx : Confirm(tx)
      \/ Sweep
      \/ UNCHANGED <<call, code, pending>>
  BY DEF Next, Caller, RetryTask, InitFrame, OpenGate, Answer, Resend, Resent,
     BackoffOver, CodeExpires, Over, vars, gateVars
<1> QED
  BY <1>1, <1>2, <1>3, <1>4, <1>5, <1>6, <1>7

\* Only a resend makes a retransmission queued, only an answer ends it.
LEMMA LaterResults ==
  ASSUME PciInv, [Next]_vars
  PROVE  \A tx \in Tx : tx[2] > 1 =>
           \/ result'[tx] = result[tx]
           \/ Resend(tx) /\ result'[tx] = "queued" /\ result[tx] = "idle"
           \/ \E l \in Flow!Lane : /\ Answer(l) /\ tx = Head(queue[l])
                                   /\ result[tx] = "queued" /\ result'[tx] \in {"ok", "err"}
<1> SUFFICES ASSUME NEW tx \in Tx, tx[2] > 1
             PROVE  \/ result'[tx] = result[tx]
                    \/ Resend(tx) /\ result'[tx] = "queued" /\ result[tx] = "idle"
                    \/ \E l \in Flow!Lane :
                         /\ Answer(l) /\ tx = Head(queue[l])
                         /\ result[tx] = "queued" /\ result'[tx] \in {"ok", "err"}
  OBVIOUS
<1>t. Flow!SvcTypeOK /\ QueueInv
  BY DEF PciInv, TypeOK
<1>1. ASSUME NEW f \in Frame, Flow!SvcSubmit(<<f, 1>>) PROVE result'[tx] = result[tx]
  <2>1. \A u \in Tx : u # <<f, 1>> => result'[u] = result[u]
    BY <1>1, <1>t, SubmitQueue, TxFirst
  <2>2. tx # <<f, 1>>
    OBVIOUS
  <2> QED
    BY <2>1, <2>2
<1>2. ASSUME NEW u \in Tx, Resend(u), Flow!SvcSubmit(u)
      PROVE  \/ result'[tx] = result[tx]
             \/ Resend(tx) /\ result'[tx] = "queued" /\ result[tx] = "idle"
  <2>1. /\ result[u] = "idle" /\ result'[u] = "queued"
        /\ \A v \in Tx : v # u => result'[v] = result[v]
    BY <1>2, <1>t, SubmitQueue
  <2> QED
    BY <1>2, <2>1
<1>3. ASSUME NEW l \in Flow!Lane, Answer(l), Flow!SvcAnswer(l)
      PROVE  \/ result'[tx] = result[tx]
             \/ /\ tx = Head(queue[l])
                /\ result[tx] = "queued" /\ result'[tx] \in {"ok", "err"}
  <2>1. /\ result[Head(queue[l])] = "queued" /\ result'[Head(queue[l])] \in {"ok", "err"}
        /\ \A u \in Tx : u # Head(queue[l]) => result'[u] = result[u]
    BY <1>3, <1>t, AnswerQueue
  <2> QED
    BY <2>1
<1>4. CASE UNCHANGED flowVars
  BY <1>4 DEF flowVars
<1> QED
  BY <1>1, <1>2, <1>3, <1>4, FlowSteps

\* The answer of a call does not change once it has been given.
LEMMA ReturnedStays ==
  ASSUME PciInv, [Next]_vars
  PROVE  \A f \in Frame : call[f] \in {"returned", "failed"} => call'[f] = call[f]
<1>1. \/ UNCHANGED call
      \/ \E f \in Frame : /\ call[f] \notin {"returned", "failed"}
                          /\ \E r : call' = [call EXCEPT ![f] = r]
  <2>1. ASSUME NEW f \in Frame, Submit(f) PROVE call[f] \notin {"returned", "failed"}
    <3>1. Holds(lane, f)
      BY <2>1, TailOrder DEF Submit, PciInv, TypeOK
    <3> QED
      BY <3>1 DEF PciInv, LaneInv
  <2>2. \/ \E f \in Frame : Call(f) \/ Submit(f) \/ Register(f) \/ SendFails(f)
        \/ UNCHANGED call
    BY DEF Next, Caller, RetryTask, InitFrame, OpenGate, Answer, Confirm, Sweep,
       Resend, Resent, BackoffOver, CodeExpires, Over, vars, gateVars
  <2>3. ASSUME NEW f \in Frame, Call(f) \/ Submit(f) \/ Register(f) \/ SendFails(f)
        PROVE  call[f] \notin {"returned", "failed"} /\ \E r : call' = [call EXCEPT ![f] = r]
    <3>1. Call(f) \/ Register(f) \/ SendFails(f) => call[f] \notin {"returned", "failed"}
      BY DEF Call, Register, SendFails
    <3>2. \E r : call' = [call EXCEPT ![f] = r]
      BY <2>3 DEF Call, Submit, Register, SendFails
    <3> QED
      BY <2>1, <2>3, <3>1, <3>2
  <2> QED
    BY <2>2, <2>3
<1> QED
  BY <1>1 DEF PciInv, TypeOK

\* The retransmit task hands over one frame at a time.
LEMMA NextRetry == PciInv /\ [Next]_vars => RetryInv'
<1> SUFFICES ASSUME PciInv, [Next]_vars PROVE RetryInv'
  OBVIOUS
<1> USE PciAssumption
<1>t. /\ TypeOK /\ RetryInv /\ PendingInv /\ toRetry \subseteq Tx
      /\ retry \in {"sleep", "resend", "wait", "gone"}
      /\ pending \in [Code -> [frame : Frame, attempts : 1..MaxAttempts + 1] \cup {NoEntry}]
      /\ due \subseteq Code
  BY DEF PciInv, TypeOK
<1>m. \A tx \in Tx : tx[1] \in Frame
  BY TxLaneType
<1>r. ASSUME NEW tx \in Resends', ~Resend(tx) PROVE tx \in Resends
  <2>1. tx \in Tx /\ tx[2] > 1 /\ result'[tx] = "queued"
    BY <1>r DEF Resends
  <2> QED
    BY <1>r, <2>1, LaterResults DEF Resends
<1>n. NoFourthTransmission'
  <2> SUFFICES ASSUME NEW f \in Frame PROVE result'[<<f, MaxAttempts + 1>>] = "idle"
    BY DEF NoFourthTransmission
  <2> DEFINE tx == <<f, MaxAttempts + 1>>
  <2>1. tx \in Tx /\ tx[2] > 1 /\ tx[2] \notin 2..MaxAttempts
    BY DEF Tx
  <2>2. result[tx] = "idle"
    BY <1>t DEF RetryInv, NoFourthTransmission
  <2> HIDE DEF tx
  <2>3. ~Resend(tx)
    BY <1>t, <2>1 DEF RetryInv, Resend
  <2> QED
    BY <2>1, <2>2, <2>3, LaterResults DEF tx
<1>c. \A f \in Frame : call[f] = "returned" => call'[f] = "returned"
  BY ReturnedStays
<1>1. CASE Sweep
  <2>1. /\ retry = "sleep" /\ retry' \in {"sleep", "resend"}
        /\ retry' = "sleep" => toRetry' = {}
        /\ \A tx \in toRetry' : tx \in Tx /\ tx[2] \in 2..MaxAttempts
        /\ \A tx \in toRetry' : \E c \in due :
             /\ pending[c] # NoEntry
             /\ tx = <<pending[c].frame, pending[c].attempts + 1>>
    BY <1>1, <1>t, SweepEffect
  <2>2. Resends = {} /\ Resends' = {}
    <3>1. Resends = {}
      BY <1>t, <2>1 DEF RetryInv
    <3>2. \A tx \in Tx : ~Resend(tx)
      BY <2>1 DEF Resend
    <3>3. \A tx \in Resends' : tx \in Tx
      BY DEF Resends
    <3> QED
      BY <1>r, <3>1, <3>2, <3>3
  <2>3. \A tx \in toRetry' : \E c \in Code :
             /\ tx = <<pending[c].frame, pending[c].attempts + 1>>
             /\ pending[c].frame \in Frame
             /\ code[pending[c].frame] = c /\ call[pending[c].frame] = "returned"
    BY <1>t, <2>1 DEF PendingInv
  <2>4. ASSUME NEW t \in toRetry', NEW u \in toRetry', t[1] = u[1] PROVE t = u
    BY <2>3, <2>4
  <2>5. \A tx \in toRetry' : call'[tx[1]] = "returned"
    BY <1>c, <2>3
  <2> QED
    BY <1>n, <2>1, <2>2, <2>4, <2>5 DEF RetryInv
<1>2. ASSUME NEW tx \in Tx, Resend(tx) PROVE RetryInv'
  <2>1. /\ retry = "resend" /\ tx \in toRetry /\ toRetry' = toRetry \ {tx}
        /\ resending' = <<tx>> /\ retry' = "wait"
    BY <1>2 DEF Resend
  <2>2. Resends = {}
    BY <1>t, <2>1 DEF RetryInv
  <2>3. Resends' \subseteq {tx}
    <3>1. ASSUME NEW u \in Resends' PROVE u = tx
      <4>1. Resend(u)
        BY <1>r, <2>2
      <4>2. resending' = <<u>>
        BY <4>1 DEF Resend
      <4> QED
        BY <2>1, <4>2
    <3> QED
      BY <3>1
  <2>4. toRetry' \cup Resends' \subseteq toRetry
    BY <2>1, <2>3
  <2>5. \A u \in toRetry : call'[u[1]] = "returned"
    BY <1>t, <1>m, <1>c DEF RetryInv
  <2> QED
    BY <1>n, <1>t, <2>1, <2>3, <2>4, <2>5 DEF RetryInv
<1>3. CASE Resent
  <2>1. /\ retry = "wait" /\ result[resending[1]] # "queued"
        /\ retry' = "sleep" => toRetry = {}
        /\ retry' # "wait" /\ UNCHANGED <<toRetry, result>>
    BY <1>3 DEF Resent, flowVars
  <2>2. Resends = {} /\ Resends' = {}
    BY <1>t, <2>1 DEF RetryInv, Resends
  <2>3. \A u \in toRetry : call'[u[1]] = "returned"
    BY <1>t, <1>m, <1>c DEF RetryInv
  <2> QED
    BY <1>n, <1>t, <2>1, <2>2, <2>3 DEF RetryInv
<1>4. CASE UNCHANGED retryVars /\ \A tx \in Tx : ~Resend(tx)
  <2>1. Resends' \subseteq Resends
    <3>1. \A tx \in Resends' : tx \in Tx
      BY DEF Resends
    <3> QED
      BY <1>4, <1>r, <3>1
  <2>2. \A tx \in toRetry \cup Resends : tx[1] \in Frame
    BY <1>t, <1>m DEF Resends
  <2>3. \A tx \in toRetry' \cup Resends' : call'[tx[1]] = "returned"
    BY <1>4, <1>t, <1>c, <2>1, <2>2 DEF RetryInv, retryVars
  <2> QED
    BY <1>4, <1>n, <1>t, <2>1, <2>3 DEF RetryInv, retryVars
<1>5. Sweep \/ (\E tx \in Tx : Resend(tx)) \/ Resent \/ UNCHANGED retryVars
  BY DEF Next, Caller, RetryTask, InitFrame, OpenGate, Call, Submit, Register,
     SendFails, Answer, Confirm, BackoffOver, CodeExpires, Over, vars
<1> QED
  BY <1>1, <1>2, <1>3, <1>4, <1>5

LEMMA NextReply == PciInv /\ [Next]_vars => ReplyInv'
<1> SUFFICES ASSUME PciInv, [Next]_vars, NEW tx \in replies'
             PROVE  tx[1] \in Coded /\ call'[tx[1]] \notin {"idle", "lane"}
  BY DEF ReplyInv
<1>t. /\ call \in [Frame -> {"idle", "lane", "submitted", "returned", "failed"}]
      /\ replies \subseteq Tx /\ Flow!SvcTypeOK /\ QueueInv /\ RetryInv /\ LaneInv
  BY DEF PciInv, TypeOK
<1>c. ASSUME NEW f \in Frame, call[f] \notin {"idle", "lane"}
      PROVE  call'[f] \notin {"idle", "lane"}
  <2>1. \/ UNCHANGED call
        \/ \E g \in Frame : \/ call[g] = "idle" /\ call' = [call EXCEPT ![g] = "lane"]
                            \/ \E r \in {"submitted", "returned", "failed"} :
                                 call' = [call EXCEPT ![g] = r]
    <3>1. \/ \E g \in Frame : Call(g) \/ Submit(g) \/ Register(g) \/ SendFails(g)
          \/ UNCHANGED call
      BY DEF Next, Caller, RetryTask, InitFrame, OpenGate, Answer, Confirm, Sweep,
         Resend, Resent, BackoffOver, CodeExpires, Over, vars, gateVars
    <3> QED
      BY <3>1 DEF Call, Submit, Register, SendFails
  <2> QED
    BY <1>t, <1>c, <2>1
<1>1. CASE tx \in replies
  BY <1>1, <1>t, <1>c, TxLaneType DEF PciInv, ReplyInv
<1>2. CASE tx \notin replies
  <2>1. PICK l \in Flow!Lane : Answer(l)
    BY <1>2 DEF Next, Caller, RetryTask, InitFrame, OpenGate, Call, Submit, Register,
       SendFails, Confirm, Sweep, Resend, Resent, BackoffOver, CodeExpires, Over, vars
  <2>2. tx = Head(queue[l]) /\ tx[1] \in Coded
    BY <1>2, <2>1 DEF Answer
  <2>3. tx \in Tx /\ result[tx] = "queued"
    BY <1>t, <2>1, <2>2, AnswerQueue DEF Answer
  <2>4. tx[1] \in Frame /\ tx[2] \in Nat /\ tx = <<tx[1], tx[2]>> /\ tx[2] > 0
    BY <2>3, TxLaneType DEF Tx
  <2>5. CASE tx[2] = 1
    <3>1. result[<<tx[1], 1>>] # "idle"
      BY <2>3, <2>4, <2>5
    <3> QED
      BY <1>t, <1>c, <2>2, <2>4, <3>1 DEF LaneInv
  <2>6. CASE tx[2] > 1
    <3>1. tx \in Resends
      BY <2>3, <2>6 DEF Resends
    <3> QED
      BY <1>t, <1>c, <2>2, <2>4, <3>1 DEF RetryInv
  <2> QED
    BY <2>4, <2>5, <2>6
<1> QED
  BY <1>1, <1>2

\* Once settled a frame is not pending, and the one resend that may be on its
\* way uses up its late transmission.
LEMMA NextLate == PciInv /\ [Next]_vars => LateInv'
<1> SUFFICES ASSUME PciInv, [Next]_vars PROVE LateInv'
  OBVIOUS
<1> USE PciAssumption
<1>t. /\ TypeOK /\ Flow!SvcTypeOK /\ QueueInv /\ RetryInv /\ PendingInv /\ LateInv
      /\ LaneInv
      /\ pending \in [Code -> [frame : Frame, attempts : 1..MaxAttempts + 1] \cup {NoEntry}]
      /\ settled \subseteq Frame /\ late \in [Frame -> Nat] /\ due \subseteq Code
      /\ toRetry \subseteq Tx
  BY DEF PciInv, TypeOK
<1>n. \A f \in Frame : NoEntry.frame # f
  BY DEF NoEntry
<1>c. \A f \in settled : call'[f] = "returned"
  BY <1>t, ReturnedStays DEF LateInv
<1>r. ASSUME NEW tx \in Resends', ~Resend(tx) PROVE tx \in Resends
  <2>1. tx \in Tx /\ tx[2] > 1 /\ result'[tx] = "queued"
    BY <1>r DEF Resends
  <2> QED
    BY <1>r, <2>1, LaterResults DEF Resends
<1>s. ASSUME UNCHANGED toRetry, \A tx \in Tx : ~Resend(tx)
      PROVE  toRetry' \cup Resends' \subseteq toRetry \cup Resends
  <2>1. \A tx \in Resends' : tx \in Tx
    BY DEF Resends
  <2> QED
    BY <1>r, <1>s, <2>1
<1>1. ASSUME NEW l \in Flow!Lane, Answer(l) PROVE LateInv'
  <2> DEFINE tx == Head(queue[l])
             f == tx[1]
  <2>1. UNCHANGED <<settled, pending, toRetry, retry>>
    BY <1>1 DEF Answer, retryVars
  <2>2. /\ tx \in Tx /\ result[tx] = "queued" /\ result'[tx] \in {"ok", "err"}
    BY <1>1, <1>t, AnswerQueue DEF Answer
  <2>3. late' = late \/ (f \in settled /\ late' = [late EXCEPT ![f] = @ + 1])
    BY <1>1 DEF Answer
  <2>4. f \in Frame /\ tx[2] \in Nat /\ tx[2] > 0 /\ tx = <<f, tx[2]>>
    <3> HIDE DEF tx
    <3> QED
      BY <2>2, TxLaneType DEF Tx
  <2> HIDE DEF tx
  <2>5. toRetry' \cup Resends' \subseteq toRetry \cup Resends
    <3>1. \A u \in Resends' : u \in Resends
      <4> SUFFICES ASSUME NEW u \in Resends' PROVE u \in Resends
        OBVIOUS
      <4>1. ~Resend(u)
        <5>1. Resend(u) => retry' = "wait" /\ retry = "resend"
          BY DEF Resend
        <5> QED
          BY <2>1, <5>1
      <4> QED
        BY <1>r, <4>1
    <3> QED
      BY <2>1, <3>1
  <2>6. CASE late' = late
    BY <1>t, <1>c, <2>1, <2>5, <2>6 DEF LateInv
  <2>7. CASE f \in settled /\ late' = [late EXCEPT ![f] = @ + 1]
    <3>1. tx[2] # 1
      <4>1. result[<<f, 1>>] = "ok"
        BY <1>t, <2>4, <2>7 DEF LateInv, PendingInv
      <4> QED
        BY <2>2, <2>4, <4>1
    <3>2. tx \in Resends
      BY <2>2, <2>4, <3>1 DEF Resends
    <3>3. late[f] \in Nat /\ late[f] <= 1 /\ late[f] # 1
      BY <1>t, <2>4, <3>2 DEF LateInv
    <3>4. late'[f] = 1 /\ \A g \in Frame : g # f => late'[g] = late[g]
      BY <1>t, <2>4, <2>7, <3>3
    <3>5. ASSUME NEW u \in toRetry' \cup Resends', u[1] = f PROVE FALSE
      <4>1. u = tx
        BY <1>t, <2>5, <3>2, <3>5 DEF RetryInv
      <4>2. tx \notin toRetry
        BY <1>t, <3>2 DEF RetryInv
      <4>3. tx \notin Resends'
        BY <2>2 DEF Resends
      <4> QED
        BY <2>1, <4>1, <4>2, <4>3
    <3>6. ASSUME NEW g \in Frame
          PROVE  /\ late'[g] <= 1
                 /\ g \notin settled' => late'[g] = 0
                 /\ late'[g] = 1 => \A u \in toRetry' \cup Resends' : u[1] # g
      <4>1. CASE g = f
        BY <2>1, <2>7, <3>4, <3>5, <4>1
      <4>2. CASE g # f
        BY <1>t, <2>1, <2>5, <3>4, <4>2 DEF LateInv
      <4> QED
        BY <4>1, <4>2
    <3> QED
      BY <1>t, <1>c, <2>1, <3>6 DEF LateInv
  <2> QED
    BY <2>3, <2>6, <2>7
<1>2. ASSUME NEW tx \in Tx, Confirm(tx) PROVE LateInv'
  <2> DEFINE f == tx[1]
             c == code[f]
  <2>1. /\ tx \in replies /\ Forget({c})
        /\ settled' = IF pending[c].frame = f THEN settled \cup {f} ELSE settled
        /\ UNCHANGED <<late, toRetry, retry, call, result>>
    BY <1>2 DEF Confirm, retryVars, gateVars, flowVars
  <2>2. f \in Frame
    BY TxLaneType
  <2>3. c \in Code
    BY <1>t, <2>1, <2>2 DEF PciInv, ReplyInv, PendingInv
  <2>4. /\ \A d \in Code : pending'[d] = pending[d] \/ pending'[d] = NoEntry
        /\ pending'[c] = NoEntry
    BY <1>t, <2>1, <2>3, ForgetType
  <2>5. Resends' = Resends
    BY <2>1 DEF Resends
  <2>6. ASSUME pending[c].frame = f
        PROVE  call[f] = "returned" /\ \A d \in Code : pending'[d].frame # f
    <3>1. pending[c] # NoEntry
      BY <1>n, <2>2, <2>6
    <3>2. call[f] = "returned"
      BY <1>t, <2>3, <2>6, <3>1 DEF PendingInv
    <3>3. ASSUME NEW d \in Code, pending'[d].frame = f PROVE FALSE
      <4>1. pending'[d] # NoEntry /\ pending'[d] = pending[d]
        BY <1>n, <2>2, <2>4, <3>3
      <4>2. code[f] = d
        BY <1>t, <3>3, <4>1 DEF PendingInv
      <4> QED
        BY <2>4, <4>1, <4>2
    <3> QED
      BY <3>2, <3>3
  <2> HIDE DEF f, c
  <2>7. ASSUME NEW g \in settled' PROVE call'[g] = "returned" /\ \A d \in Code : pending'[d].frame # g
    <3>1. CASE g \in settled
      BY <1>t, <1>c, <1>n, <2>4, <3>1 DEF LateInv
    <3>2. CASE g \notin settled
      BY <2>1, <2>6, <2>7, <3>2
    <3> QED
      BY <3>1, <3>2
  <2>8. settled \subseteq settled'
    BY <2>1
  <2> QED
    BY <1>t, <2>1, <2>5, <2>7, <2>8 DEF LateInv
<1>3. ASSUME NEW f \in Frame, Register(f) PROVE LateInv'
  <2>1. call[f] = "submitted" /\ UNCHANGED <<settled, late, toRetry, result>>
    BY <1>3 DEF Register, retryVars, histVars, flowVars
  <2>2. ASSUME NEW c \in Code PROVE pending'[c] = pending[c] \/ pending'[c].frame = f
    <3>1. CASE f \in Coded
      <4>1. pending' = [pending EXCEPT ![code[f]] = [frame |-> f, attempts |-> 1]]
        BY <1>3, <3>1 DEF Register
      <4> QED
        BY <1>t, <4>1
    <3>2. CASE f \notin Coded
      BY <1>3, <3>2 DEF Register
    <3> QED
      BY <3>1, <3>2
  <2>3. f \notin settled
    BY <1>t, <2>1 DEF LateInv
  <2>4. Resends' = Resends
    BY <2>1 DEF Resends
  <2> QED
    BY <1>t, <1>c, <2>1, <2>2, <2>3, <2>4 DEF LateInv
<1>4. CASE Sweep
  <2>1. /\ retry = "sleep" /\ UNCHANGED <<settled, late, result>>
    BY <1>4 DEF Sweep, flowVars
  <2>2. /\ \A c \in Code : pending'[c] # NoEntry =>
             pending[c] # NoEntry /\ pending'[c].frame = pending[c].frame
        /\ \A tx \in toRetry' : \E c \in due :
             tx = <<pending[c].frame, pending[c].attempts + 1>>
    BY <1>4, <1>t, SweepEffect
  <2>3. Resends' = Resends /\ Resends = {}
    BY <1>t, <2>1 DEF Resends, RetryInv
  <2>4. \A f \in settled : \A c \in Code : pending'[c].frame # f
    BY <1>t, <1>n, <2>2 DEF LateInv
  <2>5. ASSUME NEW f \in settled, NEW tx \in toRetry' PROVE tx[1] # f
    BY <1>t, <2>2 DEF LateInv
  <2>6. \A f \in Frame : late[f] = 1 => f \in settled
    BY <1>t DEF LateInv
  <2> QED
    BY <1>t, <1>c, <2>1, <2>3, <2>4, <2>5, <2>6 DEF LateInv
<1>5. ASSUME NEW tx \in Tx, Resend(tx) PROVE LateInv'
  <2>1. /\ tx \in toRetry /\ toRetry' = toRetry \ {tx} /\ resending' = <<tx>>
        /\ UNCHANGED <<settled, late, pending>>
    BY <1>5 DEF Resend, histVars
  <2>2. ASSUME NEW u \in Resends' PROVE u \in toRetry \cup Resends
    <3>1. Resend(u) => u \in toRetry
      BY DEF Resend
    <3> QED
      BY <1>r, <3>1
  <2>3. toRetry' \cup Resends' \subseteq toRetry \cup Resends
    BY <2>1, <2>2
  <2> QED
    BY <1>t, <1>c, <2>1, <2>3 DEF LateInv
<1>6. CASE /\ UNCHANGED <<settled, late, toRetry>> /\ \A tx \in Tx : ~Resend(tx)
           /\ \A c \in Code : pending'[c] = pending[c] \/ pending'[c] = NoEntry
  <2>1. toRetry' \cup Resends' \subseteq toRetry \cup Resends
    BY <1>6, <1>s
  <2> QED
    BY <1>t, <1>c, <1>n, <1>6, <2>1 DEF LateInv
<1>7. \/ \E l \in Flow!Lane : Answer(l)
      \/ \E tx \in Tx : Confirm(tx) \/ Resend(tx)
      \/ \E f \in Frame : Register(f)
      \/ Sweep
      \/ /\ UNCHANGED <<settled, late, toRetry>>
         /\ \A c \in Code : pending'[c] = pending[c] \/ pending'[c] = NoEntry
  <2>1. ASSUME NEW f \in Frame, Submit(f)
        PROVE  /\ UNCHANGED <<settled, late, toRetry>>
               /\ \A c \in Code : pending'[c] = pending[c] \/ pending'[c] = NoEntry
    <3>1. UNCHANGED <<settled, late, toRetry>>
      BY <2>1 DEF Submit, histVars, retryVars
    <3> QED
      BY <1>t, <2>1, <3>1, SubmitEffect
  <2>2. \/ \E l \in Flow!Lane : Answer(l)
        \/ \E tx \in Tx : Confirm(tx) \/ Resend(tx)
        \/ \E f \in Frame : Register(f) \/ Submit(f)
        \/ Sweep
        \/ UNCHANGED <<settled, late, toRetry, pending>>
    BY DEF Next, Caller, RetryTask, InitFrame, OpenGate, Call, SendFails, Resent,
       BackoffOver, CodeExpires, Over, vars, histVars, retryVars
  <2> QED
    BY <2>1, <2>2
<1> QED
  BY <1>1, <1>2, <1>3, <1>4, <1>5, <1>6, <1>7

LEMMA PciInvCorrect == Spec => []PciInv
<1>1. PciInv /\ [Next]_vars => PciInv'
  <2> SUFFICES ASSUME PciInv, [Next]_vars PROVE PciInv'
    OBVIOUS
  <2>1. TypeOK' /\ QueueInv'
    BY NextType, NextQueue DEF PciInv
  <2> QED
    BY <2>1, NextGate, NextLane, NextPending, NextRetry, NextReply, NextLate DEF PciInv
<1> QED
  BY <1>1, InitPciInv, PTL DEF Spec

\* "init must lead the stream", for any number of init frames and callers:
\* nothing else is written before the whole init sequence (pci_reset, send).
THEOREM InitLeadsStreamCorrect == Spec => []InitLeadsStream
<1>1. PciInv => InitLeadsStream
  BY DEF PciInv, GateInv
<1> QED
  BY <1>1, PciInvCorrect, PTL

\* Frames of a class reach the wire in the order in which `send` was called,
\* through the fair lane, the gate and the controller (send).
THEOREM CallOrderCorrect == Spec => []CallOrderKept
<1>1. PciInv => CallOrderKept
  <2> SUFFICES ASSUME PciInv, NEW i \in 1..Len(order), NEW j \in 1..Len(order),
                      i < j, ClassOf[order[i]] = ClassOf[order[j]], Written(order[j])
               PROVE  result[<<order[i], 1>>] \in {"ok", "err"}
    BY DEF CallOrderKept
  <2> DEFINE f == order[i]
             g == order[j]
  <2>1. order \in Seq(Frame) /\ LaneInv /\ QueueInv /\ Flow!SvcTypeOK
    BY DEF PciInv, TypeOK
  <2>2. f \in Frame /\ g \in Frame /\ Precedes(order, f, g)
    BY <2>1 DEF Precedes
  <2> HIDE DEF f, g
  <2>3. result[<<g, 1>>] = "ok" /\ ClassOf[f] = ClassOf[g]
    BY DEF Written, f, g
  <2>4. ~Holds(lane, f)
    <3>1. Holds(lane, f) => Holds(lane, g)
      <4>1. Holds(lane, f) => Precedes(lane, f, g)
        BY <2>1, <2>2 DEF LaneInv
      <4>2. Precedes(lane, f, g) => Holds(lane, g)
        BY DEF Precedes, Holds
      <4> QED
        BY <4>1, <4>2
    <3>2. ~Holds(lane, g)
      BY <2>1, <2>2, <2>3 DEF LaneInv
    <3> QED
      BY <3>1, <3>2
  <2>5. result[<<f, 1>>] # "idle"
    <3>1. Holds(order, f)
      BY <2>2 DEF Precedes, Holds
    <3> QED
      BY <2>1, <2>2, <2>4, <3>1 DEF LaneInv
  <2>6. result[<<f, 1>>] # "queued"
    <3> SUFFICES ASSUME result[<<f, 1>>] = "queued" PROVE FALSE
      OBVIOUS
    <3>1. Precedes(queue[ClassOf[f]], <<f, 1>>, <<g, 1>>)
      BY <2>1, <2>2, <2>3 DEF LaneInv
    <3>2. Holds(queue[ClassOf[f]], <<g, 1>>)
      BY <3>1 DEF Precedes, Holds
    <3>3. ClassOf[f] \in Flow!Lane
      BY <2>2, PciAssumption DEF Flow!Lane
    <3> QED
      BY <2>1, <2>2, <2>3, <3>2, <3>3, TxFirst DEF QueueInv
  <2>7. result[<<f, 1>>] \in {"idle", "queued", "ok", "err"}
    BY <2>1, <2>2, TxFirst DEF Flow!SvcTypeOK, Flow!Result
  <2> QED
    BY <2>5, <2>6, <2>7 DEF f
<1> QED
  BY <1>1, PciInvCorrect, PTL

\* "no fourth transmission ever", whatever codes are released, taken over and
\* confirmed meanwhile (retry_task).
THEOREM NoFourthTransmissionCorrect == Spec => []NoFourthTransmission
<1>1. PciInv => NoFourthTransmission
  BY DEF PciInv, RetryInv
<1> QED
  BY <1>1, PciInvCorrect, PTL

\* A frame that is confirmed while it is pending is written at most once more,
\* however the confirmation, the sweep and the resends interleave (retry_task,
\* handle_cbus_packet).
THEOREM AtMostOneLateResendCorrect == Spec => []AtMostOneLateResend
<1>1. PciInv => AtMostOneLateResend
  BY DEF PciInv, LateInv, AtMostOneLateResend
<1> QED
  BY <1>1, PciInvCorrect, PTL

=============================================================================
