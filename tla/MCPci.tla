------------------------------- MODULE MCPci -------------------------------
(***************************************************************************)
(* PciClient on small instances.                                           *)
(***************************************************************************)
EXTENDS PciClient

CONSTANTS f1, f2, f3

\* f1 and f2 are lighting commands, f3 is a clock update.
MCClass == [f \in Frame |-> IF f = f3 THEN "background" ELSE "commands"]

=============================================================================
