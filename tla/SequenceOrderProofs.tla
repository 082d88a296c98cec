------------------------ MODULE SequenceOrderProofs ------------------------
(***************************************************************************)
(* What the two ends of a queue do to its order, that a subsequence keeps  *)
(* it, and what the operations on sequences do place by place.             *)
(***************************************************************************)
EXTENDS SequenceOrder, FiniteSetTheorems, NaturalsInduction,
        WellFoundedInduction, TLAPS

\* Appending x adds x behind everything else.
LEMMA AppendOrder ==
  ASSUME NEW S, NEW s \in Seq(S), NEW x \in S
  PROVE  /\ \A j : Holds(Append(s, x), j) <=> Holds(s, j) \/ j = x
         /\ \A j, k : Precedes(Append(s, x), j, k)
                        <=> Precedes(s, j, k) \/ (Holds(s, j) /\ k = x)
         /\ NoRepeats(s) /\ ~Holds(s, x) => NoRepeats(Append(s, x))
<1> DEFINE t == Append(s, x)
<1>1. /\ DOMAIN s = 1..Len(s) /\ Len(s) \in Nat
      /\ DOMAIN t = 1..(Len(s) + 1)
      /\ \A i \in 1..Len(s) : t[i] = s[i]
      /\ t[Len(s) + 1] = x
  OBVIOUS
<1> HIDE DEF t
<1>2. \A j : Holds(t, j) <=> Holds(s, j) \/ j = x
  BY <1>1 DEF Holds
<1>3. \A j, k : Precedes(t, j, k) <=> Precedes(s, j, k) \/ (Holds(s, j) /\ k = x)
  <2> SUFFICES ASSUME NEW j, NEW k
               PROVE  Precedes(t, j, k) <=> Precedes(s, j, k) \/ (Holds(s, j) /\ k = x)
    OBVIOUS
  <2>1. Precedes(t, j, k) => Precedes(s, j, k) \/ (Holds(s, j) /\ k = x)
    BY <1>1 DEF Holds, Precedes
  <2>2. Precedes(s, j, k) => Precedes(t, j, k)
    BY <1>1 DEF Precedes
  <2>3. Holds(s, j) /\ k = x => Precedes(t, j, k)
    BY <1>1 DEF Holds, Precedes
  <2> QED
    BY <2>1, <2>2, <2>3
<1>4. NoRepeats(s) /\ ~Holds(s, x) => NoRepeats(t)
  BY <1>1 DEF NoRepeats, Holds
<1> QED
  BY <1>2, <1>3, <1>4 DEF t

\* Taking the head away removes what was ahead of everything else.
LEMMA TailOrder ==
  ASSUME NEW S, NEW s \in Seq(S), s # <<>>
  PROVE  /\ Head(s) \in S /\ Tail(s) \in Seq(S)
         /\ \A j : Holds(s, j) <=> j = Head(s) \/ Holds(Tail(s), j)
         /\ \A j, k : Precedes(s, j, k)
                        <=> Precedes(Tail(s), j, k) \/ (j = Head(s) /\ Holds(Tail(s), k))
         /\ NoRepeats(s) => NoRepeats(Tail(s)) /\ ~Holds(Tail(s), Head(s))
<1> DEFINE t == Tail(s)
           h == Head(s)
<1>1. /\ h \in S /\ t \in Seq(S)
      /\ Len(s) \in Nat \ {0}
      /\ DOMAIN s = 1..Len(s)
      /\ DOMAIN t = 1..(Len(s) - 1)
      /\ \A i \in 1..(Len(s) - 1) : t[i] = s[i + 1]
      /\ h = s[1]
  OBVIOUS
<1>0. \A i \in 1..Len(s) : i = 1 \/ (i - 1 \in 1..(Len(s) - 1) /\ s[i] = t[i - 1])
  BY <1>1
<1> HIDE DEF t, h
<1>2. \A j : Holds(s, j) <=> j = h \/ Holds(t, j)
  <2> SUFFICES ASSUME NEW j PROVE Holds(s, j) <=> j = h \/ Holds(t, j)
    OBVIOUS
  <2>1. Holds(s, j) => j = h \/ Holds(t, j)
    BY <1>0, <1>1 DEF Holds
  <2>2. Holds(t, j) => Holds(s, j)
    <3> SUFFICES ASSUME NEW i \in DOMAIN t, t[i] = j PROVE Holds(s, j)
      BY DEF Holds
    <3>1. i + 1 \in DOMAIN s /\ s[i + 1] = j
      BY <1>1
    <3> QED
      BY <3>1 DEF Holds
  <2>3. Holds(s, h)
    BY <1>1 DEF Holds
  <2> QED
    BY <2>1, <2>2, <2>3
<1>3. \A j, k : Precedes(s, j, k) <=> Precedes(t, j, k) \/ (j = h /\ Holds(t, k))
  <2> SUFFICES ASSUME NEW j, NEW k
               PROVE  Precedes(s, j, k) <=> Precedes(t, j, k) \/ (j = h /\ Holds(t, k))
    OBVIOUS
  <2>1. Precedes(s, j, k) => Precedes(t, j, k) \/ (j = h /\ Holds(t, k))
    <3> SUFFICES ASSUME NEW a \in DOMAIN s, NEW b \in DOMAIN s, a < b, s[a] = j, s[b] = k
                 PROVE  Precedes(t, j, k) \/ (j = h /\ Holds(t, k))
      BY DEF Precedes
    <3>1. b - 1 \in DOMAIN t /\ t[b - 1] = k
      BY <1>0, <1>1
    <3>2. CASE a = 1
      BY <1>1, <3>1, <3>2 DEF Holds
    <3>3. CASE a # 1
      <4>1. a - 1 \in DOMAIN t /\ t[a - 1] = j /\ a - 1 < b - 1
        BY <1>0, <1>1, <3>3
      <4> QED
        BY <3>1, <4>1 DEF Precedes
    <3> QED
      BY <3>2, <3>3
  <2>2. Precedes(t, j, k) => Precedes(s, j, k)
    <3> SUFFICES ASSUME NEW a \in DOMAIN t, NEW b \in DOMAIN t, a < b, t[a] = j, t[b] = k
                 PROVE  Precedes(s, j, k)
      BY DEF Precedes
    <3>1. /\ a + 1 \in DOMAIN s /\ b + 1 \in DOMAIN s /\ a + 1 < b + 1
          /\ s[a + 1] = j /\ s[b + 1] = k
      BY <1>1
    <3> QED
      BY <3>1 DEF Precedes
  <2>3. Holds(t, k) => Precedes(s, h, k)
    <3> SUFFICES ASSUME NEW b \in DOMAIN t, t[b] = k PROVE Precedes(s, h, k)
      BY DEF Holds
    <3>1. 1 \in DOMAIN s /\ b + 1 \in DOMAIN s /\ 1 < b + 1 /\ s[1] = h /\ s[b + 1] = k
      BY <1>1
    <3> QED
      BY <3>1 DEF Precedes
  <2> QED
    BY <2>1, <2>2, <2>3
<1>4. NoRepeats(s) => NoRepeats(t) /\ ~Holds(t, h)
  <2> SUFFICES ASSUME NoRepeats(s) PROVE NoRepeats(t) /\ ~Holds(t, h)
    OBVIOUS
  <2>1. NoRepeats(t)
    <3> SUFFICES ASSUME NEW a \in DOMAIN t, NEW b \in DOMAIN t, t[a] = t[b] PROVE a = b
      BY DEF NoRepeats
    <3>1. a + 1 \in DOMAIN s /\ b + 1 \in DOMAIN s /\ s[a + 1] = s[b + 1]
      BY <1>1
    <3>2. a + 1 = b + 1
      BY <3>1 DEF NoRepeats
    <3> QED
      BY <3>2, <1>1
  <2>2. ~Holds(t, h)
    <3> SUFFICES ASSUME NEW b \in DOMAIN t, t[b] = h PROVE FALSE
      BY DEF Holds
    <3>1. 1 \in DOMAIN s /\ b + 1 \in DOMAIN s /\ s[b + 1] = s[1] /\ b + 1 # 1
      BY <1>1
    <3> QED
      BY <3>1 DEF NoRepeats
  <2> QED
    BY <2>1, <2>2
<1> QED
  BY <1>1, <1>2, <1>3, <1>4 DEF t, h

\* The positions I are those of the subsequence, in their order: each has a
\* rank in I, two never share one, and so every rank is taken.
LEMMA SubsequencePositions ==
  ASSUME NEW n \in Nat, NEW I \in SUBSET (1..n)
  PROVE  /\ IsFiniteSet(I) /\ Cardinality(I) \in Nat /\ Cardinality(I) <= n
         /\ LET g == [k \in 1..Cardinality(I) |->
                        CHOOSE i \in I : Cardinality({j \in I : j <= i}) = k]
            IN /\ g \in [1..Cardinality(I) -> I]
               /\ \A k, m \in 1..Cardinality(I) : k < m => g[k] < g[m]
               /\ \A i \in I : \E k \in 1..Cardinality(I) : g[k] = i
<1> DEFINE Upto(i) == {j \in I : j <= i}
           c == Cardinality(I)
           rank == [i \in I |-> Cardinality(Upto(i))]
           g == [k \in 1..c |-> CHOOSE i \in I : Cardinality(Upto(i)) = k]
<1>0. \A i \in I : i \in Nat
  OBVIOUS
<1>1. IsFiniteSet(I) /\ c \in Nat /\ c <= n
  <2>1. IsFiniteSet(1..n) /\ Cardinality(1..n) = n
    BY FS_Interval
  <2> QED
    BY <2>1, FS_Subset, FS_CardinalityType
<1>2. \A i \in I : IsFiniteSet(Upto(i)) /\ Cardinality(Upto(i)) \in 1..c
  <2> SUFFICES ASSUME NEW i \in I PROVE IsFiniteSet(Upto(i)) /\ Cardinality(Upto(i)) \in 1..c
    OBVIOUS
  <2>1. Upto(i) \in SUBSET I /\ i \in Upto(i)
    OBVIOUS
  <2> HIDE DEF Upto
  <2>2. IsFiniteSet(Upto(i)) /\ Cardinality(Upto(i)) <= c
    BY <1>1, <2>1, FS_Subset
  <2>3. Cardinality(Upto(i)) \in Nat
    BY <2>2, FS_CardinalityType
  <2>4. Cardinality(Upto(i)) # 0
    BY <2>1, <2>2, FS_EmptySet
  <2> QED
    BY <1>1, <2>2, <2>3, <2>4
<1>3. ASSUME NEW i \in I, NEW j \in I, i < j
      PROVE  Cardinality(Upto(i)) < Cardinality(Upto(j))
  <2>1. Upto(i) \in SUBSET Upto(j) /\ j \in Upto(j) /\ j \notin Upto(i)
    <3>1. i \in Nat /\ j \in Nat
      BY <1>0
    <3>2. ASSUME NEW k \in I, k <= i PROVE k <= j
      BY <1>0, <1>3, <3>1, <3>2
    <3>3. Upto(i) \in SUBSET Upto(j)
      BY <3>2
    <3>4. j <= j /\ ~(j <= i)
      BY <1>3, <3>1
    <3> QED
      BY <3>3, <3>4
  <2> HIDE DEF Upto
  <2>2. Cardinality(Upto(i)) <= Cardinality(Upto(j)) /\ Cardinality(Upto(j)) # Cardinality(Upto(i))
    BY <1>2, <2>1, FS_Subset
  <2> QED
    BY <1>1, <1>2, <2>2
<1>4. rank \in Injection(I, 1..c)
  <2>1. rank \in [I -> 1..c]
    BY <1>2
  <2>2. ASSUME NEW i \in I, NEW j \in I, rank[i] = rank[j] PROVE i = j
    <3>1. Cardinality(Upto(i)) = Cardinality(Upto(j))
      BY <2>2
    <3> HIDE DEF Upto
    <3>2. ~(i < j) /\ ~(j < i)
      BY <1>2, <1>3, <3>1
    <3> QED
      BY <3>2
  <2> HIDE DEF rank
  <2> QED
    BY <2>1, <2>2 DEF Injection, IsInjective
<1>5. ASSUME NEW k \in 1..c PROVE \E i \in I : Cardinality(Upto(i)) = k
  <2>1. IsFiniteSet(1..c) /\ Cardinality(1..c) = c
    BY <1>1, FS_Interval
  <2> HIDE DEF rank
  <2>2. rank \in Surjection(I, 1..c)
    BY <1>4, <2>1, FS_Injection
  <2>3. PICK i \in I : rank[i] = k
    BY <2>2 DEF Surjection
  <2> QED
    BY <2>3 DEF rank
<1> HIDE DEF Upto, c
<1>6. \A k \in 1..c : g[k] \in I /\ Cardinality(Upto(g[k])) = k
  BY <1>5
<1>7. g \in [1..c -> I]
  BY <1>5
<1> HIDE DEF g
<1>8. ASSUME NEW k \in 1..c, NEW m \in 1..c, k < m PROVE g[k] < g[m]
  <2>1. ~(g[m] < g[k])
    <3>1. ASSUME g[m] < g[k] PROVE FALSE
      <4>1. g[k] \in I /\ g[m] \in I /\ Cardinality(Upto(g[k])) = k /\ Cardinality(Upto(g[m])) = m
        BY <1>6
      <4>2. Cardinality(Upto(g[m])) < Cardinality(Upto(g[k]))
        BY <1>3, <3>1, <4>1
      <4>3. m < k
        BY <4>1, <4>2
      <4> QED
        BY <1>1, <1>8, <4>3
    <3> QED
      BY <3>1
  <2>2. g[m] # g[k]
    BY <1>1, <1>6, <1>8
  <2>3. g[m] \in Nat /\ g[k] \in Nat
    BY <1>0, <1>6
  <2> QED
    BY <2>1, <2>2, <2>3
<1>9. ASSUME NEW i \in I PROVE \E k \in 1..c : g[k] = i
  <2> DEFINE k == Cardinality(Upto(i))
  <2>1. k \in 1..c
    BY <1>2
  <2>2. g[k] \in I /\ Cardinality(Upto(g[k])) = k
    BY <1>6, <2>1
  <2>3. ~(g[k] < i) /\ ~(i < g[k])
    <3>1. g[k] < i => Cardinality(Upto(g[k])) < Cardinality(Upto(i))
      BY <1>3, <2>2
    <3>2. i < g[k] => Cardinality(Upto(i)) < Cardinality(Upto(g[k]))
      BY <1>3, <2>2
    <3> HIDE DEF k
    <3>3. k \in Nat /\ Cardinality(Upto(i)) = k
      BY <1>1, <2>1 DEF k
    <3> QED
      BY <2>2, <3>1, <3>2, <3>3
  <2> HIDE DEF k
  <2>4. g[k] = i
    <3> DEFINE x == g[k]
    <3>1. x \in Nat /\ i \in Nat
      BY <1>0, <2>2
    <3> HIDE DEF x
    <3>2. x = i
      BY <2>3, <3>1 DEF x
    <3> QED
      BY <3>2 DEF x
  <2> QED
    BY <2>1, <2>4
<1> QED
  BY <1>1, <1>7, <1>8, <1>9 DEF Upto, c, g

\* A subsequence has the elements at its positions, and no others, and keeps
\* their order.
LEMMA SubsequenceFacts ==
  ASSUME NEW S, NEW s \in Seq(S), NEW I \in SUBSET DOMAIN s
  PROVE  /\ Subsequence(s, I) \in Seq(S) /\ Len(Subsequence(s, I)) <= Len(s)
         /\ \A i \in I : \E k \in DOMAIN Subsequence(s, I) : Subsequence(s, I)[k] = s[i]
         /\ \A k \in DOMAIN Subsequence(s, I) : \E i \in I : Subsequence(s, I)[k] = s[i]
         /\ NoRepeats(s) => NoRepeats(Subsequence(s, I))
<1> DEFINE n == Len(s)
           c == Cardinality(I)
           g == [k \in 1..c |-> CHOOSE i \in I : Cardinality({j \in I : j <= i}) = k]
           u == Subsequence(s, I)
<1>1. n \in Nat /\ DOMAIN s = 1..n
  OBVIOUS
<1>2. /\ c \in Nat /\ c <= n /\ g \in [1..c -> I]
      /\ \A k, m \in 1..c : k < m => g[k] < g[m]
      /\ \A i \in I : \E k \in 1..c : g[k] = i
  BY <1>1, SubsequencePositions
<1>3. u = [k \in 1..c |-> s[g[k]]]
  BY DEF Subsequence
<1> HIDE DEF n, c, g, u
<1>4. \A k \in 1..c : g[k] \in I /\ g[k] \in DOMAIN s /\ u[k] = s[g[k]] /\ s[g[k]] \in S
  BY <1>1, <1>2, <1>3
<1>5. u \in Seq(S) /\ Len(u) = c /\ DOMAIN u = 1..c
  BY <1>2, <1>3, <1>4
<1>6. NoRepeats(s) => NoRepeats(u)
  <2> SUFFICES ASSUME NoRepeats(s), NEW k \in 1..c, NEW m \in 1..c, u[k] = u[m] PROVE k = m
    BY <1>5 DEF NoRepeats
  <2>1. g[k] = g[m]
    BY <1>4 DEF NoRepeats
  <2>2. ~(k < m) /\ ~(m < k)
    BY <1>1, <1>2, <1>4, <2>1
  <2> QED
    BY <1>2, <2>2
<1>7. \A i \in I : \E k \in DOMAIN u : u[k] = s[i]
  BY <1>2, <1>4, <1>5
<1>8. \A k \in DOMAIN u : \E i \in I : u[k] = s[i]
  BY <1>4, <1>5
<1> QED
  BY <1>2, <1>5, <1>6, <1>7, <1>8 DEF u, n

-----------------------------------------------------------------------------
(* Sets of numbers, and what the operations on sequences do place by place *)

\* A set of natural numbers has a least one.
LEMMA LeastNumber ==
  ASSUME NEW T, T \subseteq Nat, T # {}
  PROVE  \E n \in T : \A m \in T : n <= m
<1> DEFINE R == {ss \in Nat \X Nat : ss[1] < ss[2]}
<1>1. IsWellFoundedOn(R, Nat)
  BY NatLessThanWellFounded DEF OpToRel
<1> HIDE DEF R
<1>2. PICK x \in T : \A y \in T : ~(<<y, x>> \in R)
  BY <1>1, WFMin
<1>3. ASSUME NEW y \in T PROVE x <= y
  <2>1. <<y, x>> \notin R
    BY <1>2
  <2>2. ~(y < x)
    BY <2>1 DEF R
  <2> QED
    BY <2>2
<1> QED
  BY <1>3

\* What holds of 0, and of a number if of the one before it, holds of all.
LEMMA Upward ==
  ASSUME NEW n \in Nat, NEW S, 0 \in S, \A i \in 1..n : i - 1 \in S => i \in S
  PROVE  0..n \subseteq S
<1> DEFINE Bad == (0..n) \ S
<1> SUFFICES ASSUME Bad # {} PROVE FALSE
  OBVIOUS
<1>1. Bad \subseteq Nat
  OBVIOUS
<1>2. PICK m \in Bad : \A k \in Bad : m <= k
  <2> HIDE DEF Bad
  <2> QED
    BY <1>1, LeastNumber
<1>3. m \in 1..n /\ m \notin S
  BY <1>2
<1>4. m - 1 \in 0..n /\ ~(m <= m - 1)
  BY <1>3
<1>5. m - 1 \in S
  BY <1>2, <1>4
<1> QED
  BY <1>3, <1>5

\* What Append does, position by position.
LEMMA AppendAt ==
  ASSUME NEW S, NEW s \in Seq(S), NEW x \in S
  PROVE  /\ Append(s, x) \in Seq(S) /\ Len(s) \in Nat /\ Len(Append(s, x)) = Len(s) + 1
         /\ DOMAIN s = 1..Len(s) /\ DOMAIN Append(s, x) = 1..Len(s) + 1
         /\ \A i \in 1..Len(s) : Append(s, x)[i] = s[i]
         /\ Append(s, x)[Len(s) + 1] = x
OBVIOUS

\* What Tail and Head do.
LEMMA TailAt ==
  ASSUME NEW S, NEW s \in Seq(S), s # <<>>
  PROVE  /\ Tail(s) \in Seq(S) /\ Len(s) \in Nat \ {0} /\ Len(Tail(s)) = Len(s) - 1
         /\ DOMAIN s = 1..Len(s) /\ DOMAIN Tail(s) = 1..Len(s) - 1
         /\ \A i \in 1..Len(s) - 1 : Tail(s)[i] = s[i + 1]
         /\ Head(s) = s[1] /\ Head(s) \in S
OBVIOUS

\* What SubSeq does: n elements after the first k.
LEMMA SubSeqAt ==
  ASSUME NEW S, NEW s \in Seq(S), NEW k \in Nat, NEW n \in Nat, k + n <= Len(s)
  PROVE  /\ SubSeq(s, k + 1, k + n) \in Seq(S) /\ Len(SubSeq(s, k + 1, k + n)) = n
         /\ DOMAIN SubSeq(s, k + 1, k + n) = 1..n
         /\ \A i \in 1..n : SubSeq(s, k + 1, k + n)[i] = s[k + i]
OBVIOUS

\* What concatenation does.
LEMMA ConcatAt ==
  ASSUME NEW S, NEW s \in Seq(S), NEW t \in Seq(S)
  PROVE  /\ s \o t \in Seq(S) /\ Len(s) \in Nat /\ Len(t) \in Nat
         /\ Len(s \o t) = Len(s) + Len(t) /\ DOMAIN (s \o t) = 1..Len(s) + Len(t)
         /\ \A i \in 1..Len(s) : (s \o t)[i] = s[i]
         /\ \A j \in 1..Len(t) : (s \o t)[Len(s) + j] = t[j]
OBVIOUS

\* Sequences of the same elements are the same.
LEMMA SameSeq ==
  ASSUME NEW S, NEW s \in Seq(S), NEW t \in Seq(S), Len(s) = Len(t),
         \A i \in 1..Len(s) : s[i] = t[i]
  PROVE  s = t
OBVIOUS

\* A sequence over a set is one over a larger set.
LEMMA SeqGrows ==
  ASSUME NEW S, NEW T, S \subseteq T, NEW s \in Seq(S)
  PROVE  s \in Seq(T)
OBVIOUS

=============================================================================
