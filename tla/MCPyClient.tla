----------------------------- MODULE MCPyClient -----------------------------
(***************************************************************************)
(* PyClient on small instances.  The calm client resets with r1, which     *)
(* asks for no confirmation, and r2.                                       *)
(***************************************************************************)
EXTENDS PyClient

CONSTANTS r1, r2, f1, f2

MCResetSeq == <<r1, r2>>

\* Nothing tells two lighting commands apart.
MCSymmetry == Permutations({f1, f2})

\* Frame 5 is longer than the buffer; the handlers of 2 and 6 raise.
MCSize == <<4, 2, 1, 4, 8, 2, 1, 6, 2, 2>>
MCKindOf == <<"on", "confirmation", "error", "level_report", "off", "confirmation",
              "power_on", "ramp", "empty", "confirmation">>
MCStream == FlattenSeq([f \in 1..10 |-> [i \in 1..MCSize[f] |-> <<f, i>>]])

ASSUME PyPciAssumption
ASSUME Burst!PyPciAssumption /\ Framing!FramingAssumption
=============================================================================
