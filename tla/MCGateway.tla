----------------------------- MODULE MCGateway -----------------------------
(***************************************************************************)
(* Gateway on small instances.                                             *)
(***************************************************************************)
EXTENDS Gateway, TLC

CONSTANTS k1, k2

\* Broker connections are interchangeable.
MCSymmetry == Permutations({k1, k2})

\* A light event, and a status report block with a missing slot that
\* wraps around from the last group.
MCBlocks == {<<On>>, <<Missing, RampToZero>>}
MCLights == {<<On>>, <<Off>>}

=============================================================================
