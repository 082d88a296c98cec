------------------------------- MODULE MCFlow -------------------------------
(***************************************************************************)
(* FlowControl on small instances, and the refinement of FlowService.      *)
(***************************************************************************)
EXTENDS FlowControl, TLC

CONSTANTS c1, c2, c3, c4, b1, b2, r1

\* Commands that are confirmed, a status request that is reported, a silent
\* background frame and a retransmit.
MCLane == [j \in Job |-> CASE j \in {c1, c2, c3, c4} -> "commands"
                           [] j \in {b1, b2} -> "background"
                           [] j = r1 -> "unwindowed"]
MCKind == [j \in Job |-> CASE j \in {c1, c2, c3, c4} -> "conf"
                           [] j = b1 -> "report"
                           [] j \in {b2, r1} -> "silent"]

\* Commands are interchangeable: same lane, same response.
MCSymmetry == Permutations({c1, c2, c3, c4})

\* The controller implements the service it promises: per lane, frames are
\* answered once each and in submission order, and "a lost reply can never stall
\* the pipeline": in the end every submitted frame is written or fails, however
\* many responses are lost (Flow::submit, run, expire).
ImplementsService == Service!SvcSpec

=============================================================================
