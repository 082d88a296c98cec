---------------------------- MODULE FlowService ----------------------------
(***************************************************************************)
(* What the flow controller of cbus-transport promises to its callers      *)
(* (Flow::submit and Flow::submit_unwindowed, rust/cbus-transport/src/     *)
(* flow.rs): a submitted frame is answered exactly once, frames of one     *)
(* lane are answered in the order in which they were submitted, and every  *)
(* submitted frame is answered in the end.  When a frame may go out        *)
(* (window, inter-frame floor, pause) is left open: the controller changes *)
(* when frames are sent, never what is sent.                               *)
(***************************************************************************)
EXTENDS Sequences

CONSTANTS
  Job,           \* the frames callers may submit, each once
  LaneOf         \* Job -> Lane: the queue `enqueue` chooses for the frame

\* The three VecDeques of `run`, highest priority first.
Lane == {"unwindowed", "commands", "background"}

\* What the oneshot receiver of a frame shows its submitter.
Result == {"idle", "queued", "ok", "err"}

VARIABLES
  queue,         \* Lane -> sequence of frames not answered yet
  result         \* Job -> Result

svcVars == <<queue, result>>

SvcTypeOK ==
  /\ queue \in [Lane -> Seq(Job)]
  /\ result \in [Job -> Result]

SvcInit ==
  /\ queue = [l \in Lane |-> <<>>]
  /\ result = [j \in Job |-> "idle"]

SvcSubmit(j) ==
  /\ result[j] = "idle"
  /\ result' = [result EXCEPT ![j] = "queued"]
  /\ queue' = [queue EXCEPT ![LaneOf[j]] = Append(@, j)]

\* The oldest frame of lane l is written, or its write fails.
SvcAnswer(l) ==
  /\ queue[l] # <<>>
  /\ \E r \in {"ok", "err"} : result' = [result EXCEPT ![Head(queue[l])] = r]
  /\ queue' = [queue EXCEPT ![l] = Tail(@)]

SvcNext == (\E j \in Job : SvcSubmit(j)) \/ (\E l \in Lane : SvcAnswer(l))

SvcSafety == SvcInit /\ [][SvcNext]_svcVars

SvcSpec == SvcSafety /\ \A l \in Lane : WF_svcVars(SvcAnswer(l))

=============================================================================
