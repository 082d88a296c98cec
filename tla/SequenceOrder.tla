--------------------------- MODULE SequenceOrder ---------------------------
(***************************************************************************)
(* What a queue without duplicates holds, and in which order, and what is  *)
(* left of one when elements are taken from its middle.                    *)
(***************************************************************************)
EXTENDS Integers, Sequences, FiniteSets

\* j is somewhere in s; j is ahead of k in s; nothing is in s twice.
Holds(s, j) == \E i \in DOMAIN s : s[i] = j
Precedes(s, j, k) == \E a, b \in DOMAIN s : a < b /\ s[a] = j /\ s[b] = k
NoRepeats(s) == \A a, b \in DOMAIN s : s[a] = s[b] => a = b

\* The elements of s at the positions I, in their order.
Subsequence(s, I) ==
  [k \in 1..Cardinality(I) |-> s[CHOOSE i \in I : Cardinality({j \in I : j <= i}) = k]]

\* s without the elements of S.  (SelectSeq, in a form one can prove about.)
Excluding(s, S) == Subsequence(s, {i \in DOMAIN s : s[i] \notin S})

=============================================================================
