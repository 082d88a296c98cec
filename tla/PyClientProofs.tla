--------------------------- MODULE PyClientProofs ---------------------------
(***************************************************************************)
(* Proofs about what the Python daemon's client stands on, for any number  *)
(* of callers, losses, attempts, codes, frames and bytes: the allocation   *)
(* of confirmation codes never runs dry, retries end, one task dials at a  *)
(* time, no connection is left open that the transport does not refer to,  *)
(* CONNECTED means that there is one, and the byte buffer loses no frame   *)
(* but those that lost bytes.                                              *)
(***************************************************************************)
EXTENDS PyClient, SequenceOrderProofs, TLAPS

-----------------------------------------------------------------------------
(* The data: sets of numbers, codes, dictionaries *)

LEMMA CodeFacts ==
  ASSUME PyPciAssumption
  PROVE  /\ Codes \in Nat /\ Codes # 0 /\ MaxRetries \in Nat /\ MaxRetries # 0
         /\ Coded \subseteq Frame /\ IsFiniteSet(Code) /\ Cardinality(Code) = Codes
         /\ \A c : c \in Code <=> c \in Nat /\ c < Codes
<1>1. Codes \in Nat /\ Codes # 0
  BY DEF PyPciAssumption
<1>2. IsFiniteSet(Code) /\ Cardinality(Code) = Codes
  BY <1>1, FS_Interval DEF Code
<1> QED
  BY <1>1, <1>2 DEF PyPciAssumption, Code

\* The distance from nextIndex to a code is 0 only for the code nextIndex.
LEMMA DistanceFacts ==
  ASSUME PyPciAssumption, nextIndex \in Code
  PROVE  /\ \A c \in Code : Distance(c) \in Nat /\ (Distance(c) = 0 <=> c = nextIndex)
         /\ \A n \in Nat : n < Codes => (n + 1) % Codes = IF n + 1 = Codes THEN 0 ELSE n + 1
<1>1. Codes \in Nat /\ Codes # 0 /\ nextIndex \in Nat /\ nextIndex < Codes
  BY CodeFacts
<1>2. ASSUME NEW x \in Nat, x < Codes PROVE x % Codes = x
  BY <1>1, <1>2
<1>3. ASSUME NEW x \in Nat, Codes <= x, x < 2 * Codes PROVE x % Codes = x - Codes
  BY <1>1, <1>3
<1>4. ASSUME NEW c \in Code PROVE Distance(c) \in Nat /\ (Distance(c) = 0 <=> c = nextIndex)
  <2> DEFINE x == c - nextIndex + Codes
  <2>1. c \in Nat /\ c < Codes
    BY CodeFacts
  <2>2. x \in Nat /\ x > 0 /\ x < 2 * Codes
    BY <1>1, <2>1
  <2>3. x = Codes <=> c = nextIndex
    BY <1>1, <2>1
  <2>4. Distance(c) = x % Codes
    BY DEF Distance
  <2> HIDE DEF x
  <2>5. CASE x < Codes
    BY <1>1, <1>2, <2>2, <2>3, <2>4, <2>5
  <2>6. CASE Codes <= x
    BY <1>1, <1>3, <2>2, <2>3, <2>4, <2>6
  <2> QED
    BY <1>1, <2>2, <2>5, <2>6
<1>5. ASSUME NEW n \in Nat, n < Codes PROVE (n + 1) % Codes = IF n + 1 = Codes THEN 0 ELSE n + 1
  <2>1. CASE n + 1 < Codes
    BY <1>1, <1>2, <2>1
  <2>2. CASE n + 1 = Codes
    BY <1>1, <1>3, <2>2
  <2> QED
    BY <1>1, <1>5, <2>1, <2>2
<1> QED
  BY <1>4, <1>5

\* Different codes in a row are at most as many as there are codes, and if they
\* are fewer one is left over.
LEMMA SpareCode ==
  ASSUME PyPciAssumption, NEW s \in Seq(Code), NoRepeats(s)
  PROVE  Len(s) <= Codes /\ (Len(s) < Codes => Vacant(s) # {})
<1> DEFINE n == Len(s)
<1>1. n \in Nat /\ s \in [1..n -> Code] /\ DOMAIN s = 1..n
  OBVIOUS
<1>2. s \in Injection(1..n, Code)
  BY <1>1 DEF Injection, IsInjective, NoRepeats
<1>3. IsFiniteSet(1..n) /\ Cardinality(1..n) = n
  BY <1>1, FS_Interval
<1> HIDE DEF n
<1>4. n <= Codes /\ (n = Codes <=> s \in Surjection(1..n, Code))
  BY <1>2, <1>3, CodeFacts, FS_Injection
<1>5. ASSUME n < Codes PROVE Vacant(s) # {}
  <2>1. s \notin Surjection(1..n, Code)
    BY <1>1, <1>4, <1>5, CodeFacts
  <2>2. PICK c \in Code : \A i \in 1..n : s[i] # c
    BY <1>1, <2>1 DEF Surjection
  <2> QED
    BY <1>1, <2>2 DEF Vacant, ToSet
<1> QED
  BY <1>4, <1>5 DEF n

\* _check_and_release_timed_out_codes keeps some of the codes, in their order,
\* and never all there are.
LEMMA KeptFacts ==
  ASSUME PyPciAssumption, CodesInv
  PROVE  /\ Kept \in Seq(Code) /\ NoRepeats(Kept) /\ ToSet(Kept) \subseteq ToSet(inUse)
         /\ Vacant(Kept) # {}
<1> DEFINE n == Len(inUse)
           m == n - expired
           k == Kept
<1>1. n \in Nat /\ inUse \in Seq(Code) /\ NoRepeats(inUse) /\ DOMAIN inUse = 1..n
      /\ expired \in Nat /\ expired <= n
  BY DEF CodesInv
<1>2. n <= Codes /\ Codes \in Nat /\ Codes # 0
  BY <1>1, SpareCode, CodeFacts
<1>3. m \in Nat /\ m <= Codes
  BY <1>1, <1>2
<1> HIDE DEF m
<1>4. /\ ForceCount(m) \in Nat /\ ForceCount(m) <= m /\ m - ForceCount(m) < Codes
  BY <1>2, <1>3 DEF ForceCount
<1> DEFINE r == Released
<1>5. r \in Nat /\ r <= n /\ n - r < Codes
  BY <1>1, <1>3, <1>4 DEF Released, m
<1>6. k = SubSeq(inUse, r + 1, n)
  BY DEF Kept
<1> HIDE DEF r, k, n
<1>7. /\ k \in Seq(Code) /\ Len(k) = n - r /\ DOMAIN k = 1..(n - r)
      /\ \A i \in 1..(n - r) : i + r \in 1..n /\ k[i] = inUse[i + r]
  BY <1>1, <1>5, <1>6
<1>8. NoRepeats(k)
  <2> SUFFICES ASSUME NEW a \in 1..(n - r), NEW b \in 1..(n - r), k[a] = k[b] PROVE a = b
    BY <1>7 DEF NoRepeats
  <2>1. a + r = b + r
    BY <1>1, <1>7 DEF NoRepeats
  <2> QED
    BY <1>5, <2>1
<1>9. ToSet(k) \subseteq ToSet(inUse)
  BY <1>1, <1>7 DEF ToSet
<1>10. Vacant(k) # {}
  BY <1>5, <1>7, <1>8, SpareCode
<1> QED
  BY <1>7, <1>8, <1>9, <1>10 DEF k

\* The search finds a vacant code, and nextIndex itself if that is one.
LEMMA FirstVacantFacts ==
  ASSUME PyPciAssumption, nextIndex \in Code, NEW used, Vacant(used) # {}
  PROVE  /\ FirstVacant(used) \in Vacant(used)
         /\ nextIndex \in Vacant(used) => FirstVacant(used) = nextIndex
<1> DEFINE T == {Distance(d) : d \in Vacant(used)}
<1>1. Vacant(used) \subseteq Code
  BY DEF Vacant
<1>2. T \subseteq Nat /\ T # {}
  BY <1>1, DistanceFacts
<1>3. PICK t \in T : \A u \in T : t <= u
  BY <1>2, LeastNumber
<1>4. \E c \in Vacant(used) : \A d \in Vacant(used) : Distance(c) <= Distance(d)
  BY <1>3
<1>5. /\ FirstVacant(used) \in Vacant(used)
      /\ \A d \in Vacant(used) : Distance(FirstVacant(used)) <= Distance(d)
  BY <1>4 DEF FirstVacant
<1>6. ASSUME nextIndex \in Vacant(used) PROVE FirstVacant(used) = nextIndex
  <2> DEFINE c == FirstVacant(used)
  <2>1. c \in Code /\ Distance(c) <= Distance(nextIndex)
    BY <1>1, <1>5, <1>6
  <2> HIDE DEF c
  <2>2. Distance(c) \in Nat /\ Distance(nextIndex) = 0
    BY <2>1, DistanceFacts
  <2>3. Distance(c) = 0
    BY <2>1, <2>2
  <2> QED
    BY <2>1, <2>3, DistanceFacts DEF c
<1> QED
  BY <1>5, <1>6

\* A sequence without some elements.
LEMMA ExcludingFacts ==
  ASSUME NEW S, NEW s \in Seq(S), NEW X
  PROVE  /\ Excluding(s, X) \in Seq(S) /\ ToSet(Excluding(s, X)) = ToSet(s) \ X
         /\ NoRepeats(s) => NoRepeats(Excluding(s, X))
<1> DEFINE I == {i \in DOMAIN s : s[i] \notin X}
           u == Excluding(s, X)
<1>1. I \in SUBSET DOMAIN s /\ u = Subsequence(s, I)
  BY DEF Excluding
<1>2. \A i \in DOMAIN s : s[i] \notin X <=> i \in I
  OBVIOUS
<1> HIDE DEF I, u
<1>3. /\ u \in Seq(S) /\ (NoRepeats(s) => NoRepeats(u))
      /\ \A i \in I : \E k \in DOMAIN u : u[k] = s[i]
      /\ \A k \in DOMAIN u : \E i \in I : u[k] = s[i]
  BY <1>1, SubsequenceFacts
<1>4. ToSet(u) = ToSet(s) \ X
  BY <1>1, <1>2, <1>3 DEF ToSet
<1> QED
  BY <1>3, <1>4 DEF u

\* Some of the entries of a dictionary.
LEMMA PartFacts ==
  ASSUME NEW p \in Seq(Entry), KeysApart(p), NEW I \in SUBSET DOMAIN p
  PROVE  /\ Subsequence(p, I) \in Seq(Entry) /\ KeysApart(Subsequence(p, I))
         /\ ToSet(Subsequence(p, I)) = {p[i] : i \in I}
<1> DEFINE u == Subsequence(p, I)
<1>1. NoRepeats(p)
  BY DEF NoRepeats, KeysApart
<1>2. /\ u \in Seq(Entry) /\ NoRepeats(u)
      /\ \A i \in I : \E k \in DOMAIN u : u[k] = p[i]
      /\ \A k \in DOMAIN u : \E i \in I : u[k] = p[i]
  BY <1>1, SubsequenceFacts
<1> HIDE DEF u
<1>3. ASSUME NEW a \in DOMAIN u, NEW b \in DOMAIN u, u[a][1] = u[b][1] PROVE a = b
  <2>1. PICK i \in I : u[a] = p[i]
    BY <1>2
  <2>2. PICK j \in I : u[b] = p[j]
    BY <1>2
  <2>3. i = j
    BY <1>3, <2>1, <2>2 DEF KeysApart
  <2> QED
    BY <1>2, <2>1, <2>2, <2>3 DEF NoRepeats
<1> QED
  BY <1>2, <1>3 DEF KeysApart, ToSet, u

\* A dictionary without some keys.
LEMMA WithoutFacts ==
  ASSUME NEW p \in Seq(Entry), KeysApart(p), NEW X
  PROVE  /\ Without(p, X) \in Seq(Entry) /\ KeysApart(Without(p, X))
         /\ ToSet(Without(p, X)) = {e \in ToSet(p) : e[1] \notin X}
<1> DEFINE I == {i \in DOMAIN p : p[i][1] \notin X}
           u == Without(p, X)
<1>1. I \in SUBSET DOMAIN p /\ u = Subsequence(p, I)
  BY DEF Without
<1>2. \A i \in DOMAIN p : p[i][1] \notin X <=> i \in I
  OBVIOUS
<1> HIDE DEF I, u
<1>3. u \in Seq(Entry) /\ KeysApart(u) /\ ToSet(u) = {p[i] : i \in I}
  BY <1>1, PartFacts
<1>4. {p[i] : i \in I} = {e \in ToSet(p) : e[1] \notin X}
  BY <1>1, <1>2 DEF ToSet
<1> QED
  BY <1>3, <1>4 DEF u

\* A code taken from those in use: the expired ones stay the oldest.
LEMMA ReleaseFacts ==
  ASSUME CodesInv, NEW c
  PROVE  LET later == IF c \in ToSet(SubSeq(inUse, 1, expired)) THEN expired - 1 ELSE expired
         IN later \in 0..Len(Excluding(inUse, {c}))
<1> DEFINE n == Len(inUse)
           x == expired
           I == {i \in DOMAIN inUse : inUse[i] \notin {c}}
           k == Cardinality(I)
           u == Excluding(inUse, {c})
           old == SubSeq(inUse, 1, x)
<1>1. /\ n \in Nat /\ inUse \in Seq(Code) /\ NoRepeats(inUse) /\ DOMAIN inUse = 1..n
      /\ x \in Nat /\ x <= n
  BY DEF CodesInv
<1>2. IsFiniteSet(1..n) /\ Cardinality(1..n) = n
  <2>1. n \in Nat
    BY <1>1
  <2> HIDE DEF n
  <2> QED
    BY <2>1, FS_Interval
<1>3. k \in Nat /\ Len(u) = k
  <2>1. I \in SUBSET (1..n)
    BY <1>1
  <2> HIDE DEF I
  <2>2. k \in Nat
    BY <1>2, <2>1, FS_Subset, FS_CardinalityType
  <2>3. u = Subsequence(inUse, I)
    BY DEF Excluding, I
  <2>4. DOMAIN u = 1..k
    BY <2>3 DEF Subsequence
  <2>5. u \in Seq(Code)
    BY <1>1, ExcludingFacts
  <2> HIDE DEF u, k
  <2> QED
    BY <2>2, <2>4, <2>5
<1>4. old \in Seq(Code) /\ DOMAIN old = 1..x /\ \A i \in 1..x : old[i] = inUse[i]
  BY <1>1
<1>5. CASE \E i \in 1..n : inUse[i] = c
  <2>1. PICK a \in 1..n : inUse[a] = c
    BY <1>5
  <2>2. I = (1..n) \ {a}
    BY <1>1, <2>1 DEF NoRepeats
  <2>3. k = n - 1
    BY <1>2, <2>1, <2>2, FS_RemoveElement
  <2>4. c \in ToSet(old) <=> a <= x
    <3>1. c \in ToSet(old) <=> \E i \in 1..x : inUse[i] = c
      BY <1>4 DEF ToSet
    <3>2. \A i \in 1..x : i \in 1..n
      BY <1>1
    <3>3. (\E i \in 1..x : inUse[i] = c) <=> a \in 1..x
      BY <1>1, <2>1, <3>2 DEF NoRepeats
    <3> QED
      BY <1>1, <3>1, <3>3
  <2> HIDE DEF I, k, u, old
  <2>5. CASE a <= x
    BY <1>1, <1>3, <2>1, <2>3, <2>4, <2>5 DEF old, u
  <2>6. CASE ~(a <= x)
    BY <1>1, <1>3, <2>1, <2>3, <2>4, <2>6 DEF old, u
  <2> QED
    BY <2>5, <2>6
<1>6. CASE ~\E i \in 1..n : inUse[i] = c
  <2>1. I = 1..n
    BY <1>1, <1>6
  <2>2. c \notin ToSet(old)
    BY <1>1, <1>4, <1>6 DEF ToSet
  <2> HIDE DEF I, u, old
  <2>3. k = n
    BY <1>2, <2>1
  <2> HIDE DEF k
  <2> QED
    BY <1>1, <1>3, <2>2, <2>3 DEF old, u
<1> QED
  BY <1>5, <1>6

\* An entry stored under its key replaces the one it had.
LEMMA PutFacts ==
  ASSUME NEW p \in Seq(Entry), KeysApart(p), NEW c, NEW f, NEW n, <<c, f, n>> \in Entry
  PROVE  /\ Put(p, c, f, n) \in Seq(Entry) /\ KeysApart(Put(p, c, f, n))
         /\ ToSet(Put(p, c, f, n)) = {e \in ToSet(p) : e[1] # c} \cup {<<c, f, n>>}
<1> DEFINE e == <<c, f, n>>
           l == Len(p)
           q == Put(p, c, f, n)
<1>1. l \in Nat /\ DOMAIN p = 1..l /\ \A i \in 1..l : p[i] \in Entry
  OBVIOUS
<1>2. e \in Entry /\ e[1] = c
  OBVIOUS
<1> HIDE DEF l
<1>3. CASE c \in {d[1] : d \in ToSet(p)}
  <2>1. q = [i \in 1..l |-> IF p[i][1] = c THEN e ELSE p[i]]
    BY <1>1, <1>3 DEF Put
  <2>2. PICK a \in 1..l : p[a][1] = c
    BY <1>1, <1>3 DEF ToSet
  <2> HIDE DEF e, q
  <2>3. \A i \in 1..l : q[i] \in Entry /\ q[i] = IF i = a THEN e ELSE p[i]
    BY <1>1, <1>2, <2>1, <2>2 DEF KeysApart
  <2>4. q \in Seq(Entry) /\ DOMAIN q = 1..l
    BY <1>1, <2>1, <2>3
  <2>5. KeysApart(q)
    BY <1>1, <1>2, <2>2, <2>3, <2>4 DEF KeysApart
  <2>6. ToSet(q) = {d \in ToSet(p) : d[1] # c} \cup {e}
    BY <1>1, <1>2, <2>2, <2>3, <2>4 DEF ToSet, KeysApart
  <2> QED
    BY <2>4, <2>5, <2>6 DEF q, e
<1>4. CASE c \notin {d[1] : d \in ToSet(p)}
  <2>1. q = Append(p, e)
    BY <1>4 DEF Put
  <2>2. \A i \in 1..l : p[i][1] # c
    BY <1>1, <1>4 DEF ToSet
  <2> HIDE DEF e, q
  <2>3. q \in Seq(Entry) /\ DOMAIN q = 1..(l + 1) /\ q[l + 1] = e
        /\ \A i \in 1..l : q[i] = p[i]
    BY <1>1, <1>2, <2>1 DEF l
  <2>4. \A i \in 1..(l + 1) : i = l + 1 \/ i \in 1..l
    BY <1>1
  <2>5. KeysApart(q)
    <3> SUFFICES ASSUME NEW a \in 1..(l + 1), NEW b \in 1..(l + 1), q[a][1] = q[b][1] PROVE a = b
      BY <2>3 DEF KeysApart
    <3> QED
      BY <1>1, <1>2, <2>2, <2>3, <2>4 DEF KeysApart
  <2>6. ToSet(q) = {d \in ToSet(p) : d[1] # c} \cup {e}
    <3>1. \A i \in 1..l : i \in 1..(l + 1)
      BY <1>1
    <3>2. l + 1 \in 1..(l + 1)
      BY <1>1
    <3> QED
      BY <1>1, <1>2, <2>2, <2>3, <2>4, <3>1, <3>2 DEF ToSet
  <2> QED
    BY <2>3, <2>5, <2>6 DEF q, e
<1> QED
  BY <1>3, <1>4

-----------------------------------------------------------------------------
(* The allocation of codes *)

\* _get_confirmation_code finds a vacant code.
LEMMA GetCodeFacts ==
  ASSUME PyPciAssumption, CodesInv, NEW f \in Frame, GetCode(f)
  PROVE  /\ CodesInv'
         /\ pending' = Without(pending, Dropped)
         /\ \E c \in Code :
              /\ code' = [code EXCEPT ![f] = c]
              /\ shared' = (shared \/ \E g \in Holding(pending') : code[g] = c)
<1> DEFINE c == FirstVacant(Kept)
<1>1. Kept \in Seq(Code) /\ NoRepeats(Kept) /\ ToSet(Kept) \subseteq ToSet(inUse)
      /\ Vacant(Kept) # {}
  BY KeptFacts
<1>2. nextIndex \in Code /\ ~exhausted
  BY DEF CodesInv, NeverExhausted
<1>3. /\ inUse' = Append(Excluding(Kept, {}), c) /\ expired' = 0
      /\ pending' = Without(pending, Dropped \cup {})
      /\ nextIndex' = (c + 1) % Codes /\ code' = [code EXCEPT ![f] = c]
      /\ ~exhausted'
      /\ shared' = (shared \/ \E g \in Holding(Without(pending, Dropped \cup {})) : code[g] = c)
  <2> HIDE DEF c
  <2> QED
    BY <1>1, <1>2 DEF GetCode, c
<1>4. c \in Vacant(Kept)
  BY <1>1, <1>2, FirstVacantFacts
<1> HIDE DEF c
<1> DEFINE k == Excluding(Kept, {})
<1>5. k \in Seq(Code) /\ NoRepeats(k) /\ ToSet(k) = ToSet(Kept)
  <2>1. ToSet(Kept) \ {} = ToSet(Kept)
    OBVIOUS
  <2> QED
    BY <1>1, <2>1, ExcludingFacts
<1> HIDE DEF k
<1>6. c \in Code /\ c \notin ToSet(k) /\ inUse' = Append(k, c)
  BY <1>3, <1>4, <1>5 DEF Vacant, k
<1>7. /\ inUse' \in Seq(Code) /\ Len(inUse') \in Nat
      /\ NoRepeats(inUse') /\ ToSet(inUse') = ToSet(k) \cup {c}
  <2>1. ~Holds(k, c)
    BY <1>6 DEF Holds, ToSet
  <2>2. /\ \A x : Holds(Append(k, c), x) <=> Holds(k, x) \/ x = c
        /\ NoRepeats(Append(k, c))
    BY <1>5, <1>6, <2>1, AppendOrder
  <2>3. Append(k, c) \in Seq(Code) /\ Len(Append(k, c)) \in Nat
    BY <1>5, <1>6
  <2>4. \A s, x : Holds(s, x) <=> x \in ToSet(s)
    BY DEF Holds, ToSet
  <2>5. ToSet(Append(k, c)) = ToSet(k) \cup {c}
    BY <2>2, <2>4
  <2> QED
    BY <1>6, <2>2, <2>3, <2>5
<1>8. nextIndex' = IF c + 1 = Codes THEN 0 ELSE c + 1
  <2>1. c \in Nat /\ c < Codes
    BY <1>6, CodeFacts
  <2> QED
    BY <1>2, <1>3, <2>1, DistanceFacts
<1>9. nextIndex' \in Code
  <2>1. c \in Nat /\ c < Codes /\ Codes \in Nat /\ Codes # 0
    BY <1>6, CodeFacts
  <2>2. nextIndex' \in Nat /\ nextIndex' < Codes
    BY <1>8, <2>1
  <2> QED
    BY <2>2, CodeFacts
<1>10. CodesInv'
  <2>1. expired' \in 0..Len(inUse')
    BY <1>3, <1>7
  <2> QED
    BY <1>3, <1>7, <1>9, <2>1 DEF CodesInv, NeverExhausted
<1>11. pending' = Without(pending, Dropped)
  BY <1>3
<1>12. shared' = (shared \/ \E g \in Holding(pending') : code[g] = c)
  <2> HIDE DEF Holding, Without
  <2> QED
    BY <1>3
<1> HIDE DEF Holding, Without
<1> QED
  BY <1>3, <1>6, <1>10, <1>11, <1>12

\* A task takes at most its code from those in use.
LEMMA RunTaskCodes ==
  ASSUME CodesInv, RunTask
  PROVE  CodesInv' /\ ToSet(inUse') \subseteq ToSet(inUse)
<1> DEFINE c == Head(tasks)[2]
<1>1. inUse \in Seq(Code) /\ NoRepeats(inUse)
  BY DEF CodesInv
<1>2. nextIndex' = nextIndex /\ exhausted' = exhausted
  BY DEF RunTask, allotVars
<1>3. CASE UNCHANGED <<inUse, expired>>
  BY <1>2, <1>3 DEF CodesInv, NeverExhausted
<1>4. CASE ReleaseCode(c)
  <2> DEFINE u == Excluding(inUse, {c})
  <2>1. /\ inUse' = u
        /\ expired' = IF c \in ToSet(SubSeq(inUse, 1, expired)) THEN expired - 1 ELSE expired
    BY <1>4 DEF ReleaseCode
  <2> HIDE DEF c
  <2>2. u \in Seq(Code) /\ NoRepeats(u) /\ ToSet(u) = ToSet(inUse) \ {c}
    BY <1>1, ExcludingFacts
  <2>3. expired' \in 0..Len(u)
    BY <2>1, ReleaseFacts
  <2> HIDE DEF u
  <2> QED
    BY <1>2, <2>1, <2>2, <2>3 DEF CodesInv, NeverExhausted
<1>5. ReleaseCode(c) \/ UNCHANGED <<inUse, expired>>
  BY DEF RunTask
<1> QED
  BY <1>3, <1>4, <1>5

\* A pass of the retry task keeps some of the codes.
LEMMA RetryPassCodes ==
  ASSUME PyPciAssumption, CodesInv, RetryPass
  PROVE  CodesInv' /\ ToSet(inUse') \subseteq ToSet(inUse)
<1>1. PICK given : inUse' = Excluding(Kept, given)
  BY DEF RetryPass
<1>2. expired' = 0 /\ nextIndex' = nextIndex /\ exhausted' = exhausted
  BY DEF RetryPass, allotVars
<1>3. Kept \in Seq(Code) /\ NoRepeats(Kept) /\ ToSet(Kept) \subseteq ToSet(inUse)
  BY KeptFacts
<1>4. inUse' \in Seq(Code) /\ NoRepeats(inUse') /\ ToSet(inUse') = ToSet(Kept) \ given
  BY <1>1, <1>3, ExcludingFacts
<1>5. expired' \in 0..Len(inUse')
  BY <1>2, <1>4
<1> QED
  BY <1>2, <1>3, <1>4, <1>5 DEF CodesInv, NeverExhausted

LEMMA CleanupCodes ==
  ASSUME PyPciAssumption, CodesInv, Cleanup, UNCHANGED exhausted
  PROVE  CodesInv' /\ ToSet(inUse') = {}
<1>1. inUse' = <<>> /\ expired' = 0 /\ nextIndex' = 0
  BY DEF Cleanup
<1>2. 0 \in Code
  BY CodeFacts
<1> QED
  BY <1>1, <1>2 DEF CodesInv, NeverExhausted, NoRepeats, ToSet

LEMMA NextCodes ==
  ASSUME PyPciAssumption
  PROVE  CodesInv /\ [Next]_vars => CodesInv'
<1> SUFFICES ASSUME CodesInv, [Next]_vars PROVE CodesInv'
  OBVIOUS
<1>1. ASSUME NEW f \in Frame, Send(f) PROVE CodesInv'
  <2>1. CASE GetCode(f)
    BY <2>1, GetCodeFacts
  <2>2. CASE UNCHANGED <<codeVars, exhausted>>
    BY <2>2 DEF codeVars, CodesInv, NeverExhausted
  <2> QED
    BY <1>1, <2>1, <2>2 DEF Send, allotVars
<1>2. CASE RunTask
  BY <1>2, RunTaskCodes
<1>3. CASE RetryPass
  BY <1>3, RetryPassCodes
<1>4. CASE Age
  <2>1. /\ inUse' = inUse /\ expired' = expired + 1 /\ expired < Len(inUse)
        /\ nextIndex' = nextIndex /\ exhausted' = exhausted
    BY <1>4 DEF Age, allotVars
  <2>2. expired' \in 0..Len(inUse')
    BY <2>1 DEF CodesInv
  <2> QED
    BY <2>1, <2>2 DEF CodesInv, NeverExhausted
<1>5. CASE Cleanup /\ UNCHANGED exhausted
  BY <1>5, CleanupCodes
<1>6. CASE UNCHANGED <<codeVars, exhausted>>
  BY <1>6 DEF codeVars, CodesInv, NeverExhausted
<1>7. \/ \E f \in Frame : Send(f)
      \/ RunTask \/ RetryPass \/ Age \/ (Cleanup /\ UNCHANGED exhausted)
      \/ UNCHANGED <<codeVars, exhausted>>
  BY DEF Next, Written, OnConfirmation, LoseReply, RetryWritten, RetryError,
     ConnectionMade, ConnectionLost, vars, codeVars, allotVars
<1> QED
  BY <1>1, <1>2, <1>3, <1>4, <1>5, <1>6, <1>7

LEMMA InitCodes ==
  ASSUME PyPciAssumption
  PROVE  Init => CodesInv
<1> SUFFICES ASSUME Init PROVE CodesInv
  OBVIOUS
<1>1. inUse = <<>> /\ expired = 0 /\ nextIndex = 0 /\ ~exhausted
  BY DEF Init
<1>2. 0 \in Code
  BY CodeFacts
<1> QED
  BY <1>1, <1>2 DEF CodesInv, NeverExhausted, NoRepeats

\* However many codes there are, however many senders ask for one in a burst,
\* time out or are confirmed: the clean-up before every allocation leaves a
\* vacant code, and the fallbacks of _get_confirmation_code are never taken.
THEOREM NeverExhaustedCorrect == PyPciAssumption => (Spec => []NeverExhausted)
<1> SUFFICES ASSUME PyPciAssumption PROVE Spec => []NeverExhausted
  OBVIOUS
<1>1. Init => CodesInv
  BY InitCodes
<1>2. CodesInv /\ [Next]_vars => CodesInv'
  BY NextCodes
<1>3. CodesInv => NeverExhausted
  BY DEF CodesInv
<1> QED
  BY <1>1, <1>2, <1>3, PTL DEF Spec

-----------------------------------------------------------------------------
(* The entries, the transmissions they count and the late ones *)

\* TypeOK, without the codes in use (CodesInv covers them).
PartsOK ==
  /\ transport \in {"new", "open", "lost"}
  /\ pending \in Seq(Entry) /\ KeysApart(pending)
  /\ call \in [Frame -> {"idle", "delay", "sent", "failed"}]
  /\ code \in [Frame -> Code \cup {NoCode}]
  /\ retry \in {"off", "sleep", "delay", "error"}
  /\ toRetry \in Seq(Entry) /\ due \subseteq Code

\* What the steps have to keep, the codes apart.
FramesInv == PartsOK /\ PlaceInv /\ CountInv /\ LateInv

LEMMA EntryFacts ==
  ASSUME PyPciAssumption, NEW e \in Entry
  PROVE  /\ e[1] \in Code /\ e[2] \in Coded /\ e[2] \in Frame
         /\ e[3] \in Nat /\ e[3] <= MaxRetries /\ e = <<e[1], e[2], e[3]>>
<1>1. Coded \subseteq Frame /\ MaxRetries \in Nat
  BY CodeFacts
<1> QED
  BY <1>1 DEF Entry

LEMMA ElementFacts ==
  ASSUME NEW S, NEW s \in Seq(S)
  PROVE  /\ ToSet(s) \subseteq S
         /\ \A e \in ToSet(s) : \E i \in DOMAIN s : s[i] = e
         /\ \A i \in DOMAIN s : s[i] \in ToSet(s)
BY DEF ToSet

\* An entry in to_retry and a pending one of the same frame have the same key,
\* and the other way round.
LEMMA SameFrame ==
  ASSUME AllotInv, PlaceInv, NEW d, NEW e,
         d \in ToSet(pending) \cup ToSet(toRetry), e \in ToSet(pending) \cup ToSet(toRetry)
  PROVE  d[1] = e[1] <=> d[2] = e[2]
<1>1. Sent(d[2]) /\ d[1] = code[d[2]] /\ Sent(e[2]) /\ e[1] = code[e[2]]
  BY DEF PlaceInv
<1>2. d[2] \in Holding(pending) /\ e[2] \in Holding(pending)
  BY DEF Holding
<1> QED
  BY <1>1, <1>2 DEF AllotInv

\* A step that only takes entries away, if it touches them at all.
LEMMA FewerEntries ==
  ASSUME PyPciAssumption, FramesInv,
         pending' \in Seq(Entry), KeysApart(pending'), ToSet(pending') \subseteq ToSet(pending),
         UNCHANGED <<toRetry, wire, late, heard>>,
         toRetry # <<>> <=> retry' = "delay", retry' = "off" <=> transport' = "new",
         \A f \in Frame : call[f] # "idle" => call'[f] = call[f] /\ code'[f] = code[f],
         \A f \in Frame : call[f] = "idle" => call'[f] # "sent",
         tasks' \in Seq({"remove", "release"} \X Code \X Coded),
         \A t \in ToSet(tasks') : Sent(t[3]) /\ t[2] = code[t[3]],
         \A r \in replies' : Sent(r[1])
  PROVE  PlaceInv' /\ CountInv' /\ LateInv'
<1>1. Coded \subseteq Frame
  BY CodeFacts
<1>2. \A f \in Coded : Sent(f) => Sent(f)' /\ code'[f] = code[f]
  BY <1>1 DEF Sent
<1>3. \A f : Sent(f) => f \in Coded
  BY DEF Sent
<1>4. PlaceInv'
  <2>1. KeysApart(toRetry') /\ (toRetry' # <<>> <=> retry' = "delay")
    BY DEF FramesInv, PlaceInv
  <2>2. \A e \in ToSet(pending') \cup ToSet(toRetry') : Sent(e[2])' /\ e[1] = code'[e[2]]
    BY <1>2, <1>3 DEF FramesInv, PlaceInv
  <2>3. \A t \in ToSet(tasks') : Sent(t[3])' /\ t[2] = code'[t[3]]
    BY <1>2, <1>3
  <2>4. \A r \in replies' : Sent(r[1])'
    BY <1>2, <1>3
  <2>5. \A f \in heard' : Sent(f)' /\ f \notin PendingFrames'
    BY <1>2, <1>3 DEF FramesInv, PlaceInv, PendingFrames
  <2> QED
    BY <2>1, <2>2, <2>3, <2>4, <2>5 DEF PlaceInv
<1>5. CountInv'
  <2>1. \A f \in Frame : call'[f] # "sent" => wire'[f] = 0
    BY DEF FramesInv, CountInv
  <2> QED
    BY <2>1 DEF FramesInv, CountInv
<1>6. LateInv'
  BY DEF FramesInv, LateInv
<1> QED
  BY <1>4, <1>5, <1>6

\* The steps that send nothing and make no frame pending or heard.
LEMMA QuietSteps ==
  ASSUME PyPciAssumption, CodesInv, AllotInv, FramesInv,
         \/ \E f \in Frame : Send(f)
         \/ OnConfirmation \/ LoseReply \/ Age \/ RetryError
         \/ ConnectionMade \/ ConnectionLost \/ UNCHANGED vars
  PROVE  FramesInv'
<1>1. /\ PartsOK /\ PlaceInv /\ Coded \subseteq Frame
      /\ pending \in Seq(Entry) /\ KeysApart(pending)
      /\ tasks \in Seq({"remove", "release"} \X Code \X Coded)
      /\ \A t \in ToSet(tasks) : Sent(t[3]) /\ t[2] = code[t[3]]
      /\ \A r \in replies : Sent(r[1])
      /\ toRetry # <<>> <=> retry = "delay"
      /\ retry = "off" <=> transport = "new"
  BY CodeFacts DEF FramesInv, PartsOK, PlaceInv
<1>2. ASSUME NEW f \in Frame, Send(f) PROVE FramesInv'
  <2>1. /\ call[f] = "idle"
        /\ call' = [call EXCEPT ![f] = IF transport = "open" THEN "delay" ELSE "failed"]
        /\ UNCHANGED <<transport, tasks, retry, toRetry, due, replies, wire, heard, late>>
    BY <1>2 DEF Send, retryVars, histVars
  <2>2. \/ pending' = pending /\ code' = code
        \/ pending' = Without(pending, Dropped) /\ \E c \in Code : code' = [code EXCEPT ![f] = c]
    <3>1. CASE GetCode(f)
      BY <3>1, GetCodeFacts
    <3> QED
      BY <1>2, <3>1 DEF Send
  <2>3. pending' \in Seq(Entry) /\ KeysApart(pending') /\ ToSet(pending') \subseteq ToSet(pending)
    <3>1. /\ Without(pending, Dropped) \in Seq(Entry) /\ KeysApart(Without(pending, Dropped))
          /\ ToSet(Without(pending, Dropped)) \subseteq ToSet(pending)
      BY <1>1, WithoutFacts
    <3> QED
      BY <1>1, <2>2, <3>1
  <2>4. /\ call' \in [Frame -> {"idle", "delay", "sent", "failed"}]
        /\ \A g \in Frame : g # f => call'[g] = call[g]
        /\ call'[f] # "sent"
    BY <1>1, <2>1 DEF PartsOK
  <2>5. /\ code' \in [Frame -> Code \cup {NoCode}]
        /\ \A g \in Frame : g # f => code'[g] = code[g]
    BY <1>1, <2>2 DEF PartsOK
  <2>6. PartsOK'
    BY <1>1, <2>1, <2>3, <2>4, <2>5 DEF PartsOK
  <2>7. PlaceInv' /\ CountInv' /\ LateInv'
    BY <1>1, <2>1, <2>3, <2>4, <2>5, FewerEntries
  <2> QED
    BY <2>6, <2>7 DEF FramesInv
<1>3. ASSUME UNCHANGED <<call, code, wire, late, heard, toRetry>>,
             pending' = pending \/ pending' = <<>>,
             toRetry # <<>> <=> retry' = "delay", retry' = "off" <=> transport' = "new",
             transport' \in {"new", "open", "lost"},
             retry' \in {"off", "sleep", "delay", "error"}, due' \subseteq Code,
             tasks' \in Seq({"remove", "release"} \X Code \X Coded),
             \A t \in ToSet(tasks') : Sent(t[3]) /\ t[2] = code[t[3]],
             replies' \subseteq replies
      PROVE  FramesInv'
  <2>1. pending' \in Seq(Entry) /\ KeysApart(pending') /\ ToSet(pending') \subseteq ToSet(pending)
    <3>1. <<>> \in Seq(Entry) /\ KeysApart(<<>>) /\ ToSet(<<>>) = {}
      BY DEF KeysApart, ToSet
    <3> QED
      BY <1>1, <1>3, <3>1
  <2>2. \A f \in Frame : call[f] = "idle" => call'[f] # "sent"
    BY <1>3
  <2>3. PartsOK'
    BY <1>1, <1>3, <2>1 DEF PartsOK
  <2>4. PlaceInv' /\ CountInv' /\ LateInv'
    BY <1>1, <1>3, <2>1, <2>2, FewerEntries
  <2> QED
    BY <2>3, <2>4 DEF FramesInv
<1>4. CASE OnConfirmation
  <2>1. PICK r \in replies :
          /\ replies' = replies \ {r}
          /\ tasks' = tasks \o << <<"remove", code[r[1]], r[1]>>,
                                  <<"release", code[r[1]], r[1]>> >>
    BY <1>4 DEF OnConfirmation
  <2>2. UNCHANGED <<transport, pending, call, code, retry, toRetry, due, wire, heard, late>>
    BY <1>4 DEF OnConfirmation, callVars, retryVars, histVars
  <2> DEFINE f == r[1]
             a == <<"remove", code[f], f>>
             b == <<"release", code[f], f>>
             T == {"remove", "release"} \X Code \X Coded
  <2>3. Sent(f) /\ f \in Coded
    BY <1>1, <2>1 DEF Sent
  <2>4. code[f] \in Code
    BY <2>3 DEF Sent, AllotInv
  <2>5. a \in T /\ b \in T /\ a[3] = f /\ b[3] = f /\ a[2] = code[f] /\ b[2] = code[f]
    BY <2>3, <2>4
  <2>6. tasks' = tasks \o <<a, b>> /\ tasks \in Seq(T)
    BY <1>1, <2>1
  <2> HIDE DEF f, a, b, T
  <2>7. tasks' \in Seq(T) /\ \A t \in ToSet(tasks') : t \in ToSet(tasks) \/ t = a \/ t = b
    BY <2>5, <2>6 DEF ToSet
  <2>8. \A t \in ToSet(tasks') : Sent(t[3]) /\ t[2] = code[t[3]]
    BY <1>1, <2>3, <2>5, <2>7
  <2>9. tasks' \in Seq({"remove", "release"} \X Code \X Coded)
    BY <2>7 DEF T
  <2> QED
    BY <1>1, <1>3, <2>1, <2>2, <2>8, <2>9 DEF PartsOK
<1>5. CASE LoseReply
  <2>1. /\ UNCHANGED <<transport, pending, call, code, tasks, retry, toRetry, due, wire,
                      heard, late>>
        /\ replies' \subseteq replies
    BY <1>5 DEF LoseReply, callVars, retryVars, histVars
  <2> QED
    BY <1>1, <1>3, <2>1 DEF PartsOK
<1>6. CASE Age \/ UNCHANGED vars
  <2>1. /\ UNCHANGED <<transport, pending, call, code, tasks, retry, toRetry, due, wire,
                      heard, late, replies>>
    BY <1>6 DEF Age, vars, callVars, retryVars, histVars
  <2> QED
    BY <1>1, <1>3, <2>1 DEF PartsOK
<1>7. CASE RetryError
  <2>1. /\ UNCHANGED <<transport, pending, call, code, tasks, wire, heard, late, replies>>
        /\ retry = "error" /\ retry' = "sleep" /\ toRetry' = <<>>
        /\ due' = {e[1] : e \in ToSet(pending)}
    BY <1>7 DEF RetryError, BackToSleep, callVars, histVars
  <2>2. toRetry = <<>> /\ transport # "new"
    BY <1>1, <2>1
  <2>3. due' \subseteq Code
    BY <1>1, <2>1, ElementFacts, EntryFacts
  <2> QED
    BY <1>1, <1>3, <2>1, <2>2, <2>3 DEF PartsOK
<1>8. CASE ConnectionMade
  <2>1. /\ UNCHANGED <<toRetry, call, code, tasks, wire, heard, late, replies>>
        /\ transport = "new" /\ transport' = "open" /\ retry' = "sleep"
        /\ pending' = <<>> /\ due' = {}
    BY <1>8 DEF ConnectionMade, Cleanup, callVars, histVars
  <2>2. toRetry = <<>>
    BY <1>1, <2>1
  <2> QED
    BY <1>1, <1>3, <2>1, <2>2 DEF PartsOK
<1>9. CASE ConnectionLost
  <2>1. /\ UNCHANGED <<retry, toRetry, call, code, tasks, wire, heard, late>>
        /\ transport = "open" /\ transport' = "lost"
        /\ pending' = <<>> /\ due' = {} /\ replies' = {}
    BY <1>9 DEF ConnectionLost, Cleanup, callVars, histVars
  <2> QED
    BY <1>1, <1>3, <2>1 DEF PartsOK
<1> QED
  BY <1>2, <1>4, <1>5, <1>6, <1>7, <1>8, <1>9

\* A frame is written for the first time, and becomes pending.
LEMMA WrittenStep ==
  ASSUME PyPciAssumption, AllotInv, FramesInv, NEW f \in Frame, Written(f)
  PROVE  FramesInv'
<1>1. /\ PartsOK /\ PlaceInv /\ CountInv /\ LateInv /\ Coded \subseteq Frame
      /\ MaxRetries \in Nat /\ MaxRetries # 0
  BY CodeFacts DEF FramesInv
<1>2. /\ pending \in Seq(Entry) /\ KeysApart(pending) /\ toRetry \in Seq(Entry)
      /\ call \in [Frame -> {"idle", "delay", "sent", "failed"}]
      /\ wire \in [Frame -> Nat] /\ late \in [Frame -> Nat]
  BY <1>1 DEF PartsOK, CountInv, LateInv
<1>3. /\ call[f] = "delay" /\ call' = [call EXCEPT ![f] = "sent"] /\ Transmit(f)
      /\ UNCHANGED <<transport, code, tasks, retry, toRetry>>
  BY DEF Written
<1>4. wire[f] = 0 /\ f \notin heard /\ ~Sent(f)
  BY <1>1, <1>3 DEF CountInv, PlaceInv, Sent
<1>5. /\ wire' \in [Frame -> Nat] /\ wire'[f] <= 1
      /\ \A g \in Frame : g # f => wire'[g] = wire[g]
      /\ heard' = heard /\ late' = late
      /\ \A r \in replies' : r \in replies \/ (r[1] = f /\ f \in Coded)
  <2>1. CASE transport = "open"
    <3>1. /\ wire' = [wire EXCEPT ![f] = @ + 1] /\ heard' = heard
          /\ late' = [late EXCEPT ![f] = @]
          /\ \A r \in replies' : r \in replies \/ (r[1] = f /\ f \in Coded)
      BY <1>3, <1>4, <2>1 DEF Transmit
    <3> QED
      BY <1>2, <1>4, <3>1
  <2>2. CASE transport # "open"
    BY <1>2, <1>3, <1>4, <2>2 DEF Transmit, histVars
  <2> QED
    BY <2>1, <2>2
<1>6. /\ call' \in [Frame -> {"idle", "delay", "sent", "failed"}] /\ call'[f] = "sent"
      /\ \A g \in Frame : g # f => call'[g] = call[g]
  BY <1>2, <1>3
<1>7. \A g \in Coded : Sent(g) => Sent(g)' /\ g # f
  BY <1>1, <1>4, <1>6 DEF Sent
<1>8. \A e \in ToSet(pending) \cup ToSet(toRetry) : Sent(e[2]) /\ e[2] \in Coded /\ e[2] # f
  BY <1>1, <1>4 DEF PlaceInv, Sent
<1>9. /\ pending' \in Seq(Entry) /\ KeysApart(pending') /\ due' \subseteq Code
      /\ \A e \in ToSet(pending') : \/ e \in ToSet(pending)
                                    \/ f \in Coded /\ e = <<code[f], f, 1>>
  <2>1. CASE f \in Coded
    <3>1. code[f] \in Code
      BY <1>3, <2>1 DEF AllotInv
    <3>2. <<code[f], f, 1>> \in Entry
      BY <1>1, <2>1, <3>1 DEF Entry
    <3>3. pending' = Put(pending, code[f], f, 1) /\ due' = due \ {code[f]}
      BY <2>1 DEF Written
    <3>4. /\ Put(pending, code[f], f, 1) \in Seq(Entry) /\ KeysApart(Put(pending, code[f], f, 1))
          /\ ToSet(Put(pending, code[f], f, 1))
               = {e \in ToSet(pending) : e[1] # code[f]} \cup {<<code[f], f, 1>>}
      BY <1>2, <3>2, PutFacts
    <3> QED
      BY <1>1, <2>1, <3>3, <3>4 DEF PartsOK
  <2>2. CASE f \notin Coded
    BY <1>1, <1>2, <2>2 DEF Written, PartsOK
  <2> QED
    BY <2>1, <2>2
<1>10. PartsOK'
  BY <1>1, <1>3, <1>6, <1>9 DEF PartsOK
<1>11. PlaceInv'
  <2>1. \A e \in ToSet(pending') \cup ToSet(toRetry') : Sent(e[2])' /\ e[1] = code'[e[2]]
    <3> SUFFICES ASSUME NEW e \in ToSet(pending') \cup ToSet(toRetry')
                 PROVE  Sent(e[2])' /\ e[1] = code'[e[2]]
      OBVIOUS
    <3>1. CASE e \in ToSet(pending) \cup ToSet(toRetry)
      BY <1>1, <1>3, <1>7, <1>8, <3>1 DEF PlaceInv
    <3>2. CASE f \in Coded /\ e = <<code[f], f, 1>>
      BY <1>3, <1>6, <3>2 DEF Sent
    <3> QED
      BY <1>3, <1>9, <3>1, <3>2
  <2>2. \A t \in ToSet(tasks') : Sent(t[3])' /\ t[2] = code'[t[3]]
    BY <1>1, <1>3, <1>7 DEF PlaceInv, Sent
  <2>3. \A r \in replies' : Sent(r[1])'
    BY <1>1, <1>5, <1>6, <1>7 DEF PlaceInv, Sent
  <2>4. \A g \in heard' : Sent(g)' /\ g \notin PendingFrames'
    <3> SUFFICES ASSUME NEW g \in heard PROVE Sent(g)' /\ g \notin PendingFrames'
      BY <1>5
    <3>1. Sent(g) /\ g \in Coded /\ g # f /\ \A e \in ToSet(pending) : e[2] # g
      BY <1>1, <1>4 DEF PlaceInv, PendingFrames, Sent
    <3>2. \A e \in ToSet(pending') : e[2] # g
      BY <1>9, <3>1
    <3> QED
      BY <1>7, <3>1, <3>2 DEF PendingFrames
  <2> QED
    BY <1>1, <1>3, <2>1, <2>2, <2>3, <2>4 DEF PlaceInv
<1>12. CountInv'
  <2>1. \A g \in Frame : call'[g] # "sent" => wire'[g] = 0
    BY <1>1, <1>5, <1>6 DEF CountInv
  <2>2. /\ \A g \in Frame \ Coded : wire'[g] <= 1
        /\ \A g \in Coded : wire'[g] <= MaxRetries
    <3>1. wire'[f] <= MaxRetries
      BY <1>1, <1>5
    <3> QED
      BY <1>1, <1>5, <3>1 DEF CountInv
  <2>3. \A d \in ToSet(toRetry') : wire'[d[2]] < MaxRetries
    BY <1>1, <1>3, <1>5, <1>8 DEF CountInv
  <2>4. ASSUME NEW e \in ToSet(pending')
        PROVE  /\ wire'[e[2]] <= e[3]
               /\ \A i \in DOMAIN toRetry' : toRetry'[i][2] = e[2] =>
                    IF i = 1 THEN wire'[e[2]] < e[3] ELSE e[3] < MaxRetries
    <3>1. CASE e \in ToSet(pending)
      BY <1>1, <1>3, <1>5, <1>8, <3>1 DEF CountInv
    <3>2. CASE e = <<code[f], f, 1>>
      <4>1. \A i \in DOMAIN toRetry : toRetry[i][2] # f
        BY <1>2, <1>8, ElementFacts
      <4> QED
        BY <1>3, <1>5, <3>2, <4>1
    <3> QED
      BY <1>9, <3>1, <3>2
  <2> QED
    BY <1>5, <2>1, <2>2, <2>3, <2>4 DEF CountInv
<1>13. LateInv'
  BY <1>1, <1>3, <1>5 DEF LateInv
<1> QED
  BY <1>10, <1>11, <1>12, <1>13 DEF FramesInv

\* A task of on_confirmation: the frame it names is pending no more.
LEMMA RunTaskStep ==
  ASSUME PyPciAssumption, AllotInv, FramesInv, RunTask
  PROVE  FramesInv'
<1> DEFINE T == {"remove", "release"} \X Code \X Coded
           t == Head(tasks)
<1>1. /\ PartsOK /\ PlaceInv /\ CountInv /\ LateInv /\ Coded \subseteq Frame
      /\ pending \in Seq(Entry) /\ KeysApart(pending) /\ tasks \in Seq(T) /\ tasks # <<>>
  BY CodeFacts DEF FramesInv, PartsOK, PlaceInv, RunTask
<1>2. UNCHANGED <<transport, call, code, retry, toRetry, replies, wire, late>>
  BY DEF RunTask, callVars
<1>3. /\ \/ pending' = Without(pending, {t[2]})
         \/ pending' = pending /\ t[1] # "remove"
      /\ due' \subseteq due
      /\ heard' = IF t[1] = "remove" THEN heard \cup {t[3]} ELSE heard
      /\ tasks' = Tail(tasks)
  BY DEF RunTask
<1> HIDE DEF T
<1>4. /\ t \in ToSet(tasks) /\ tasks' \in Seq(T) /\ ToSet(tasks') \subseteq ToSet(tasks)
  BY <1>1, <1>3 DEF ToSet
<1>5. Sent(t[3]) /\ t[2] = code[t[3]]
  BY <1>1, <1>4 DEF PlaceInv
<1> HIDE DEF t
<1>6. /\ pending' \in Seq(Entry) /\ KeysApart(pending') /\ ToSet(pending') \subseteq ToSet(pending)
      /\ t[1] = "remove" => \A e \in ToSet(pending') : e[1] # t[2]
  <2>1. /\ Without(pending, {t[2]}) \in Seq(Entry) /\ KeysApart(Without(pending, {t[2]}))
        /\ ToSet(Without(pending, {t[2]})) = {e \in ToSet(pending) : e[1] \notin {t[2]}}
    BY <1>1, WithoutFacts
  <2> QED
    BY <1>1, <1>3, <2>1
<1>7. \A f : Sent(f)' <=> Sent(f)
  BY <1>2 DEF Sent
<1>8. PartsOK'
  BY <1>1, <1>2, <1>3, <1>6 DEF PartsOK
<1>9. PlaceInv'
  <2>1. \A e \in ToSet(pending') \cup ToSet(toRetry') : Sent(e[2])' /\ e[1] = code'[e[2]]
    BY <1>1, <1>2, <1>6, <1>7 DEF PlaceInv
  <2>2. /\ tasks' \in Seq({"remove", "release"} \X Code \X Coded)
        /\ \A u \in ToSet(tasks') : Sent(u[3])' /\ u[2] = code'[u[3]]
    BY <1>1, <1>2, <1>4, <1>7 DEF PlaceInv, T
  <2>3. ASSUME NEW f \in heard' PROVE Sent(f)' /\ f \notin PendingFrames'
    <3>1. CASE f \in heard
      BY <1>1, <1>6, <1>7, <3>1 DEF PlaceInv, PendingFrames
    <3>2. CASE t[1] = "remove" /\ f = t[3]
      <4>1. \A e \in ToSet(pending') : e[2] # f
        BY <1>1, <1>5, <1>6, <3>2 DEF PlaceInv
      <4> QED
        BY <1>5, <1>7, <3>2, <4>1 DEF PendingFrames
    <3> QED
      BY <1>3, <3>1, <3>2
  <2> QED
    BY <1>1, <1>2, <1>7, <2>1, <2>2, <2>3 DEF PlaceInv
<1>10. CountInv'
  BY <1>1, <1>2, <1>6 DEF CountInv
<1>11. LateInv'
  BY <1>1, <1>2, <1>3 DEF LateInv
<1> QED
  BY <1>8, <1>9, <1>10, <1>11 DEF FramesInv

\* The retry task turns to the next packet of its list, or goes back to sleep:
\* p are the pending entries, w the transmissions by then.
LEMMA NextResendFacts ==
  ASSUME PyPciAssumption, NEW list \in Seq(Entry), NEW p \in Seq(Entry),
         KeysApart(list), KeysApart(p), NEW w \in [Frame -> Nat],
         \A e \in ToSet(p), d \in ToSet(list) : e[1] = d[1] <=> e[2] = d[2],
         \A d \in ToSet(list) : w[d[2]] < MaxRetries,
         \A e \in ToSet(p) : /\ w[e[2]] <= e[3]
                             /\ \A d \in ToSet(list) : d[2] = e[2] => e[3] < MaxRetries,
         NextResend(list, p)
  PROVE  /\ pending' \in Seq(Entry) /\ KeysApart(pending') /\ due' \subseteq Code
         /\ toRetry' = <<>> \/ toRetry' = list
         /\ retry' \in {"sleep", "delay", "error"} /\ (toRetry' # <<>> <=> retry' = "delay")
         /\ \A e \in ToSet(pending') : \E d \in ToSet(p) : d[1] = e[1] /\ d[2] = e[2]
         /\ \A e \in ToSet(pending') :
              /\ w[e[2]] <= e[3]
              /\ \A i \in DOMAIN toRetry' : toRetry'[i][2] = e[2] =>
                   IF i = 1 THEN w[e[2]] < e[3] ELSE e[3] < MaxRetries
<1>1. \A e \in ToSet(p) \cup ToSet(list) :
        /\ e \in Entry /\ e[1] \in Code /\ e[2] \in Coded /\ e[2] \in Frame
        /\ e[3] \in Nat /\ e[3] <= MaxRetries /\ w[e[2]] \in Nat
  BY ElementFacts, EntryFacts
<1>2. MaxRetries \in Nat
  BY CodeFacts
<1>3. CASE list = <<>>
  <2>1. pending' = p /\ retry' = "sleep" /\ toRetry' = <<>> /\ due' = {e[1] : e \in ToSet(p)}
    BY <1>3 DEF NextResend, BackToSleep
  <2>2. due' \subseteq Code
    BY <1>1, <2>1
  <2> QED
    BY <2>1, <2>2
<1>4. CASE list # <<>>
  <2> DEFINE h == list[1]
             c == h[1]
             held == {e \in ToSet(p) : e[1] = c}
  <2>1. h = Head(list) /\ 1 \in DOMAIN list /\ h \in ToSet(list)
    BY <1>4 DEF ToSet
  <2>2. /\ pending' = IF held = {} THEN p
                      ELSE Put(p, c, h[2], (CHOOSE e \in held : TRUE)[3] + 1)
        /\ retry' = IF transport = "open" THEN "delay" ELSE "error"
        /\ toRetry' = IF transport = "open" THEN list ELSE <<>>
        /\ due' = {}
    BY <1>4, <2>1 DEF NextResend
  <2>3. /\ toRetry' = <<>> \/ toRetry' = list
        /\ retry' \in {"sleep", "delay", "error"} /\ (toRetry' # <<>> <=> retry' = "delay")
        /\ due' \subseteq Code
    BY <1>4, <2>2
  <2> HIDE DEF h
  <2>4. ASSUME NEW e \in ToSet(p), NEW i \in DOMAIN list, list[i][2] = e[2]
        PROVE  e[1] = list[i][1] /\ e[3] < MaxRetries /\ (i = 1 <=> e[1] = c)
    <3>1. list[i] \in ToSet(list)
      BY ElementFacts
    <3>2. e[1] = list[i][1] /\ e[3] < MaxRetries
      BY <2>4, <3>1
    <3>3. e[1] = c => i = 1
      BY <2>1, <3>2 DEF h, KeysApart
    <3> QED
      BY <3>2, <3>3 DEF h
  <2>5. CASE held = {}
    <3>1. pending' = p /\ \A e \in ToSet(p) : e[1] # c
      BY <2>2, <2>5
    <3>2. ASSUME NEW e \in ToSet(p), NEW i \in DOMAIN list, list[i][2] = e[2]
          PROVE  i # 1 /\ e[3] < MaxRetries
      BY <2>4, <3>1, <3>2
    <3>3. \A e \in ToSet(p) : \A i \in DOMAIN toRetry' : toRetry'[i][2] = e[2] =>
            IF i = 1 THEN w[e[2]] < e[3] ELSE e[3] < MaxRetries
      BY <2>3, <3>2
    <3> QED
      BY <2>3, <3>1, <3>3
  <2>6. CASE held # {}
    <3>1. PICK b \in ToSet(p) : b[1] = c /\ pending' = Put(p, c, h[2], b[3] + 1)
      BY <2>2, <2>6
    <3>2. b[2] = h[2] /\ b[3] < MaxRetries /\ b[3] \in Nat /\ b[1] \in Code /\ h[2] \in Coded
          /\ w[b[2]] <= b[3] /\ w[b[2]] \in Nat
      BY <1>1, <2>1, <3>1
    <3> DEFINE n == b[3] + 1
               q == <<c, h[2], n>>
    <3>3. n \in Nat /\ n <= MaxRetries /\ w[b[2]] < n
      BY <1>2, <3>2
    <3> HIDE DEF c, n
    <3>4. q \in Entry /\ q[1] = c /\ q[2] = h[2] /\ q[3] = n
      BY <1>2, <3>1, <3>2, <3>3 DEF Entry
    <3>5. /\ pending' \in Seq(Entry) /\ KeysApart(pending')
          /\ ToSet(pending') = {e \in ToSet(p) : e[1] # c} \cup {q}
      BY <3>1, <3>4, PutFacts DEF n
    <3> HIDE DEF q
    <3>6. \A e \in ToSet(pending') : \E d \in ToSet(p) : d[1] = e[1] /\ d[2] = e[2]
      BY <3>1, <3>2, <3>4, <3>5
    <3>7. ASSUME NEW e \in ToSet(pending'), NEW i \in DOMAIN toRetry', toRetry'[i][2] = e[2]
          PROVE  IF i = 1 THEN w[e[2]] < e[3] ELSE e[3] < MaxRetries
      <4>1. i \in DOMAIN list /\ list[i][2] = e[2]
        BY <2>3, <3>7
      <4>2. CASE e \in ToSet(p) /\ e[1] # c
        BY <2>4, <4>1, <4>2 DEF c
      <4>3. CASE e = q
        <5>1. i = 1
          BY <2>4, <3>1, <3>2, <3>4, <4>1, <4>3 DEF c
        <5> QED
          BY <3>2, <3>3, <3>4, <4>3, <5>1
      <4> QED
        BY <3>5, <4>2, <4>3
    <3>8. \A e \in ToSet(pending') : w[e[2]] <= e[3]
      <4>1. w[q[2]] <= q[3]
        BY <3>2, <3>3, <3>4
      <4> QED
        BY <3>5, <4>1
    <3> QED
      BY <2>3, <3>5, <3>6, <3>7, <3>8
  <2> QED
    BY <2>5, <2>6
<1> QED
  BY <1>3, <1>4

\* The entries and the list after NextResend, from those of before.
LEMMA ResentInvariant ==
  ASSUME PyPciAssumption, AllotInv, FramesInv, NEW list \in Seq(Entry), NEW p \in Seq(Entry),
         KeysApart(list), KeysApart(p),
         ToSet(p) \subseteq ToSet(pending),
         ToSet(list) \subseteq ToSet(pending) \cup ToSet(toRetry),
         wire' \in [Frame -> Nat],
         \A d \in ToSet(list) : wire'[d[2]] < MaxRetries /\ late'[d[2]] = 0,
         \A e \in ToSet(p) : /\ wire'[e[2]] <= e[3]
                             /\ \A d \in ToSet(list) : d[2] = e[2] => e[3] < MaxRetries,
         \A f \in Frame : call[f] # "sent" => wire'[f] = 0,
         \A f \in Frame \ Coded : wire'[f] <= 1,
         \A f \in Coded : wire'[f] <= MaxRetries,
         late' \in [Frame -> Nat],
         \A f \in Frame : late'[f] <= 1 /\ (f \notin heard => late'[f] = 0),
         retry # "off", UNCHANGED <<transport, call, code, tasks, heard>>,
         \A r \in replies' : Sent(r[1]),
         NextResend(list, p)
  PROVE  FramesInv'
<1>1. PartsOK /\ PlaceInv
  BY DEF FramesInv
<1>2. \A e \in ToSet(p), d \in ToSet(list) : e[1] = d[1] <=> e[2] = d[2]
  BY <1>1, SameFrame
<1>3. /\ pending' \in Seq(Entry) /\ KeysApart(pending') /\ due' \subseteq Code
      /\ toRetry' = <<>> \/ toRetry' = list
      /\ retry' \in {"sleep", "delay", "error"} /\ (toRetry' # <<>> <=> retry' = "delay")
      /\ \A e \in ToSet(pending') : \E d \in ToSet(p) : d[1] = e[1] /\ d[2] = e[2]
      /\ \A e \in ToSet(pending') :
           /\ wire'[e[2]] <= e[3]
           /\ \A i \in DOMAIN toRetry' : toRetry'[i][2] = e[2] =>
                IF i = 1 THEN wire'[e[2]] < e[3] ELSE e[3] < MaxRetries
  <2>1. \A d \in ToSet(list) : wire'[d[2]] < MaxRetries
    OBVIOUS
  <2> QED
    BY <1>2, <2>1, NextResendFacts
<1>4. toRetry' \in Seq(Entry) /\ KeysApart(toRetry') /\ ToSet(toRetry') \subseteq ToSet(list)
  <2>1. <<>> \in Seq(Entry) /\ KeysApart(<<>>) /\ ToSet(<<>>) = {}
    BY DEF KeysApart, ToSet
  <2> QED
    BY <1>3, <2>1
<1>5. \A f : Sent(f)' <=> Sent(f)
  BY DEF Sent
<1>6. PartsOK'
  BY <1>1, <1>3, <1>4 DEF PartsOK
<1>7. PlaceInv'
  <2>1. \A e \in ToSet(pending') : Sent(e[2])' /\ e[1] = code'[e[2]]
    BY <1>1, <1>3, <1>5 DEF PlaceInv
  <2>2. \A e \in ToSet(toRetry') : Sent(e[2])' /\ e[1] = code'[e[2]]
    BY <1>1, <1>4, <1>5 DEF PlaceInv
  <2>3. \A f \in heard' : Sent(f)' /\ f \notin PendingFrames'
    <3> SUFFICES ASSUME NEW f \in heard PROVE Sent(f) /\ f \notin PendingFrames'
      BY <1>5
    <3>1. Sent(f) /\ \A e \in ToSet(pending) : e[2] # f
      BY <1>1 DEF PlaceInv, PendingFrames
    <3>2. \A e \in ToSet(pending') : e[2] # f
      BY <1>3, <3>1
    <3> QED
      BY <3>1, <3>2 DEF PendingFrames
  <2>4. /\ tasks' \in Seq({"remove", "release"} \X Code \X Coded)
        /\ \A t \in ToSet(tasks') : Sent(t[3])' /\ t[2] = code'[t[3]]
        /\ \A r \in replies' : Sent(r[1])'
    BY <1>1, <1>5 DEF PlaceInv
  <2>5. retry' = "off" <=> transport' = "new"
    BY <1>1, <1>3 DEF PlaceInv
  <2> QED
    BY <1>3, <1>4, <2>1, <2>2, <2>3, <2>4, <2>5 DEF PlaceInv
<1>8. CountInv'
  BY <1>3, <1>4 DEF CountInv
<1>9. LateInv'
  BY <1>4 DEF LateInv
<1> QED
  BY <1>6, <1>7, <1>8, <1>9 DEF FramesInv

LEMMA RetryPassStep ==
  ASSUME PyPciAssumption, AllotInv, FramesInv, RetryPass
  PROVE  FramesInv'
<1> DEFINE old == {e \in ToSet(pending) : e[1] \in due \ Dropped}
           I == {i \in DOMAIN pending : pending[i] \in old /\ Retryable(pending[i])}
           again == Subsequence(pending, I)
           given == {e[1] : e \in {x \in old : ~Retryable(x)}}
           p == Without(pending, Dropped \cup given)
<1>1. /\ PartsOK /\ PlaceInv /\ CountInv /\ LateInv /\ MaxRetries \in Nat
      /\ pending \in Seq(Entry) /\ KeysApart(pending)
  BY CodeFacts DEF FramesInv, PartsOK
<1>2. /\ retry = "sleep" /\ NextResend(again, p)
      /\ UNCHANGED <<transport, call, code, tasks, replies, wire, heard, late>>
  BY DEF RetryPass, callVars, histVars
<1>3. p \in Seq(Entry) /\ KeysApart(p) /\ ToSet(p) \subseteq ToSet(pending)
  BY <1>1, WithoutFacts
<1> HIDE DEF p
<1>4. I \in SUBSET DOMAIN pending /\ \A i \in I : Retryable(pending[i])
  OBVIOUS
<1> HIDE DEF I
<1>5. again \in Seq(Entry) /\ KeysApart(again) /\ ToSet(again) = {pending[i] : i \in I}
  BY <1>1, <1>4, PartFacts
<1>6. \A d \in ToSet(again) : d \in ToSet(pending) /\ d[3] < MaxRetries
  BY <1>4, <1>5 DEF Retryable, ToSet
<1> HIDE DEF again
<1>7. \A e \in ToSet(pending) : e \in Entry /\ e[2] \in Frame /\ e[3] \in Nat /\ wire[e[2]] \in Nat
      /\ wire[e[2]] <= e[3]
  BY <1>1, ElementFacts, EntryFacts DEF CountInv
<1>8. ASSUME NEW d \in ToSet(again) PROVE wire'[d[2]] < MaxRetries /\ late'[d[2]] = 0
  <2>1. d[2] \notin heard
    BY <1>1, <1>6 DEF PlaceInv, PendingFrames
  <2>2. late[d[2]] = 0
    BY <1>1, <1>6, <1>7, <2>1 DEF LateInv
  <2>3. wire[d[2]] < MaxRetries
    BY <1>1, <1>6, <1>7
  <2> QED
    BY <1>2, <2>2, <2>3
<1>9. ASSUME NEW e \in ToSet(p), NEW d \in ToSet(again), d[2] = e[2] PROVE e[3] < MaxRetries
  <2>1. e \in ToSet(pending) /\ d \in ToSet(pending)
    BY <1>3, <1>6
  <2>2. e[1] = d[1]
    BY <1>1, <1>9, <2>1, SameFrame
  <2>3. e = d
    BY <1>1, <2>1, <2>2 DEF KeysApart, ToSet
  <2> QED
    BY <1>6, <2>3
<1>10. \A e \in ToSet(p) : wire'[e[2]] <= e[3]
  BY <1>2, <1>3, <1>7
<1>11. /\ ToSet(p) \subseteq ToSet(pending)
       /\ ToSet(again) \subseteq ToSet(pending) \cup ToSet(toRetry)
  BY <1>3, <1>6
<1>12. /\ wire' \in [Frame -> Nat]
       /\ \A f \in Frame : call[f] # "sent" => wire'[f] = 0
       /\ \A f \in Frame \ Coded : wire'[f] <= 1
       /\ \A f \in Coded : wire'[f] <= MaxRetries
  BY <1>1, <1>2 DEF CountInv
<1>13. /\ late' \in [Frame -> Nat]
       /\ \A f \in Frame : late'[f] <= 1 /\ (f \notin heard => late'[f] = 0)
  BY <1>1, <1>2 DEF LateInv
<1>14. \A r \in replies' : Sent(r[1])
  BY <1>1, <1>2 DEF PlaceInv
<1> QED
  BY <1>2, <1>3, <1>5, <1>8, <1>9, <1>10, <1>11, <1>12, <1>13, <1>14, ResentInvariant

LEMMA RetryWrittenStep ==
  ASSUME PyPciAssumption, AllotInv, FramesInv, RetryWritten
  PROVE  FramesInv'
<1> DEFINE h == toRetry[1]
           g == h[2]
           rest == Tail(toRetry)
<1>1. /\ PartsOK /\ PlaceInv /\ CountInv /\ LateInv /\ MaxRetries \in Nat /\ Coded \subseteq Frame
      /\ pending \in Seq(Entry) /\ KeysApart(pending) /\ toRetry \in Seq(Entry)
      /\ KeysApart(toRetry) /\ wire \in [Frame -> Nat] /\ late \in [Frame -> Nat]
  BY CodeFacts DEF FramesInv, PartsOK, PlaceInv, CountInv, LateInv
<1>2. /\ retry = "delay" /\ Transmit(Head(toRetry)[2]) /\ NextResend(Tail(toRetry), pending)
      /\ UNCHANGED <<transport, call, code, tasks>>
  BY DEF RetryWritten, callVars
<1>3. toRetry # <<>>
  BY <1>1, <1>2 DEF PlaceInv
<1>4. h = Head(toRetry) /\ 1 \in DOMAIN toRetry /\ h \in ToSet(toRetry)
  BY <1>1, <1>3 DEF ToSet
<1>5. /\ rest \in Seq(Entry)
      /\ \A i \in DOMAIN rest : i + 1 \in DOMAIN toRetry /\ i + 1 # 1 /\ rest[i] = toRetry[i + 1]
      /\ \A i \in DOMAIN rest : i \in Int
  BY <1>1, <1>3
<1> HIDE DEF h, rest
<1>6. KeysApart(rest)
  <2> SUFFICES ASSUME NEW a \in DOMAIN rest, NEW b \in DOMAIN rest, rest[a][1] = rest[b][1]
               PROVE  a = b
    BY DEF KeysApart
  <2>1. a + 1 = b + 1
    BY <1>1, <1>5 DEF KeysApart
  <2> QED
    BY <1>5, <2>1
<1>7. \A d \in ToSet(rest) : \E i \in DOMAIN toRetry : i # 1 /\ d = toRetry[i]
  BY <1>5 DEF ToSet
<1>8. ASSUME NEW d \in ToSet(rest) PROVE d \in ToSet(toRetry) /\ d[2] # g /\ d[2] \in Frame
  <2>1. PICK i \in DOMAIN toRetry : i # 1 /\ d = toRetry[i]
    BY <1>7
  <2>2. d \in ToSet(toRetry)
    BY <2>1 DEF ToSet
  <2>3. d[1] # h[1]
    BY <1>1, <1>4, <2>1 DEF KeysApart, h
  <2>4. d[2] # g
    BY <1>1, <1>4, <2>2, <2>3, SameFrame
  <2>5. d[2] \in Frame
    BY <1>1, <2>2, ElementFacts, EntryFacts
  <2> QED
    BY <2>2, <2>4, <2>5
<1>9. g \in Coded /\ g \in Frame /\ Sent(g) /\ wire[g] < MaxRetries /\ late[g] = 0
  BY <1>1, <1>4 DEF PlaceInv, CountInv, LateInv, Sent
<1>10. Transmit(g) /\ NextResend(rest, pending)
  BY <1>2, <1>4 DEF rest
<1> HIDE DEF g
<1>11. /\ wire' \in [Frame -> Nat] /\ wire'[g] <= wire[g] + 1
       /\ \A f \in Frame : f # g => wire'[f] = wire[f]
       /\ late' \in [Frame -> Nat] /\ late'[g] <= 1 /\ (g \notin heard => late'[g] = 0)
       /\ \A f \in Frame : f # g => late'[f] = late[f]
       /\ heard' = heard /\ \A r \in replies' : r \in replies \/ r[1] = g
  <2>1. CASE transport = "open"
    <3>1. /\ wire' = [wire EXCEPT ![g] = @ + 1] /\ heard' = heard
          /\ late' = [late EXCEPT ![g] = IF g \in heard THEN @ + 1 ELSE @]
          /\ \A r \in replies' : r \in replies \/ r[1] = g
      BY <1>10, <2>1 DEF Transmit
    <3> QED
      BY <1>1, <1>9, <3>1
  <2>2. CASE transport # "open"
    BY <1>1, <1>9, <1>10, <2>2 DEF Transmit, histVars
  <2> QED
    BY <2>1, <2>2
<1>12. wire[g] \in Nat /\ wire'[g] \in Nat /\ wire'[g] <= MaxRetries
  BY <1>1, <1>9, <1>11
<1>13. \A d \in ToSet(rest) : wire'[d[2]] < MaxRetries /\ late'[d[2]] = 0
  BY <1>1, <1>8, <1>11 DEF CountInv, LateInv
<1>14. ASSUME NEW e \in ToSet(pending) PROVE wire'[e[2]] <= e[3]
  <2>1. e[2] \in Frame /\ e[3] \in Nat
    BY <1>1, ElementFacts, EntryFacts
  <2>2. CASE e[2] = g
    <3>1. wire[g] < e[3]
      BY <1>1, <1>4, <2>2 DEF CountInv, g, h
    <3> QED
      BY <1>11, <1>12, <2>1, <2>2, <3>1
  <2>3. CASE e[2] # g
    BY <1>1, <1>11, <2>1, <2>3 DEF CountInv
  <2> QED
    BY <2>2, <2>3
<1>15. ASSUME NEW e \in ToSet(pending), NEW d \in ToSet(rest), d[2] = e[2]
       PROVE  e[3] < MaxRetries
  <2>1. PICK i \in DOMAIN toRetry : i # 1 /\ d = toRetry[i]
    BY <1>7
  <2> QED
    BY <1>1, <1>15, <2>1 DEF CountInv
<1>16. /\ \A f \in Frame : call[f] # "sent" => wire'[f] = 0
       /\ \A f \in Frame \ Coded : wire'[f] <= 1
       /\ \A f \in Coded : wire'[f] <= MaxRetries
  BY <1>1, <1>9, <1>11, <1>12 DEF CountInv, Sent
<1>17. \A f \in Frame : late'[f] <= 1 /\ (f \notin heard => late'[f] = 0)
  BY <1>1, <1>11 DEF LateInv
<1>18. \A r \in replies' : Sent(r[1])
  BY <1>1, <1>9, <1>11 DEF PlaceInv
<1>19. ToSet(rest) \subseteq ToSet(pending) \cup ToSet(toRetry)
  BY <1>8
<1> QED
  BY <1>1, <1>2, <1>5, <1>6, <1>10, <1>11, <1>13, <1>14, <1>15, <1>16, <1>17, <1>18, <1>19,
     ResentInvariant

-----------------------------------------------------------------------------
(* The codes that are held *)

\* A code that was shared stays so.
LEMMA SharedStays ==
  ASSUME PyPciAssumption, CodesInv, [Next]_vars
  PROVE  shared => shared'
<1>1. ASSUME NEW f \in Frame, Send(f) PROVE shared => shared'
  <2>1. CASE GetCode(f)
    BY <2>1, GetCodeFacts
  <2> QED
    BY <1>1, <2>1 DEF Send, allotVars
<1>2. \/ \E f \in Frame : Send(f)
      \/ UNCHANGED shared
  BY DEF Next, Written, OnConfirmation, LoseReply, RunTask, Age, RetryPass, RetryWritten,
     RetryError, ConnectionMade, ConnectionLost, vars, allotVars
<1> QED
  BY <1>1, <1>2

\* A step that gives no frame a code, and makes none hold its code that did not.
LEMMA AllotStays ==
  ASSUME AllotInv, Holding(pending)' \subseteq Holding(pending), code' = code,
         \A f \in Coded : call'[f] \in {"delay", "sent"} => call[f] \in {"delay", "sent"}
  PROVE  AllotInv'
<1> HIDE DEF Holding
<1> QED
  BY DEF AllotInv

LEMMA SendAllot ==
  ASSUME PyPciAssumption, CodesInv, FramesInv, AllotInv, ~shared', NEW f \in Frame, Send(f)
  PROVE  AllotInv'
<1>1. /\ call \in [Frame -> {"idle", "delay", "sent", "failed"}] /\ pending \in Seq(Entry)
      /\ code \in [Frame -> Code \cup {NoCode}] /\ Coded \subseteq Frame /\ KeysApart(pending)
      /\ \A e \in ToSet(pending) \cup ToSet(toRetry) : Sent(e[2])
  BY CodeFacts DEF FramesInv, PartsOK, PlaceInv
<1>2. /\ call[f] = "idle" /\ toRetry' = toRetry
      /\ call' = [call EXCEPT ![f] = IF transport = "open" THEN "delay" ELSE "failed"]
  BY DEF Send, retryVars
<1>3. /\ \A g \in Frame : g # f => call'[g] = call[g]
      /\ \A e \in ToSet(pending) \cup ToSet(toRetry) : e[2] # f
  BY <1>1, <1>2 DEF Sent
<1>4. CASE f \notin Coded
  <2>1. code' = code /\ pending' = pending
    BY <1>4 DEF Send
  <2>2. Holding(pending)' \subseteq Holding(pending)
    BY <1>1, <1>2, <1>3, <1>4, <2>1 DEF Holding
  <2>3. \A g \in Coded : call'[g] = call[g]
    BY <1>1, <1>3, <1>4
  <2> QED
    BY <2>1, <2>2, <2>3, AllotStays
<1>5. CASE f \in Coded
  <2>1. GetCode(f)
    BY <1>5 DEF Send
  <2>2. PICK c \in Code :
          /\ code' = [code EXCEPT ![f] = c]
          /\ shared' = (shared \/ \E g \in Holding(pending') : code[g] = c)
    BY <2>1, GetCodeFacts
  <2>3. ToSet(pending') \subseteq ToSet(pending)
    <3>1. ToSet(Without(pending, Dropped)) \subseteq ToSet(pending)
      BY <1>1, WithoutFacts
    <3>2. pending' = Without(pending, Dropped)
      BY <2>1, GetCodeFacts
    <3> QED
      BY <3>1, <3>2
  <2>4. /\ Holding(pending)' \subseteq Holding(pending') \cup {f}
        /\ Holding(pending') \subseteq Holding(pending) /\ f \notin Holding(pending')
    BY <1>1, <1>2, <1>3, <2>3 DEF Holding
  <2>5. Holding(pending) \subseteq Frame
    <3>1. \A e \in ToSet(pending) \cup ToSet(toRetry) : e[2] \in Coded
      BY <1>1 DEF Sent
    <3> QED
      BY <1>1, <3>1 DEF Holding
  <2>6. \A g \in Holding(pending') : code[g] # c
    BY <2>2
  <2> HIDE DEF Holding
  <2>7. code'[f] = c /\ \A g \in Frame : g # f => code'[g] = code[g]
    BY <1>1, <2>2
  <2>8. \A g, h \in Holding(pending)' : code'[g] = code'[h] => g = h
    <3>1. \A g \in Holding(pending') : code'[g] = code[g] /\ g \in Holding(pending)
      BY <2>4, <2>5, <2>7
    <3> QED
      BY <2>4, <2>6, <2>7, <3>1 DEF AllotInv
  <2>9. \A g \in Coded : call'[g] \in {"delay", "sent"} => code'[g] \in Code
    BY <1>1, <1>3, <2>7 DEF AllotInv
  <2> QED
    BY <2>8, <2>9 DEF AllotInv
<1> QED
  BY <1>4, <1>5

\* What the retry task resends, or leaves pending, held its code before.
LEMMA ResendHolds ==
  ASSUME NEW list \in Seq(Entry), NEW p \in Seq(Entry), NextResend(list, p)
  PROVE  \A e \in ToSet(pending') \cup ToSet(toRetry') :
           \E d \in ToSet(p) \cup ToSet(list) : d[2] = e[2]
<1>1. CASE list = <<>>
  <2>1. pending' = p /\ toRetry' = <<>>
    BY <1>1 DEF NextResend, BackToSleep
  <2>2. ToSet(toRetry') = {}
    BY <2>1 DEF ToSet
  <2> QED
    BY <2>1, <2>2
<1>2. CASE list # <<>>
  <2> DEFINE h == Head(list)
             held == {e \in ToSet(p) : e[1] = h[1]}
  <2>1. h \in ToSet(list)
    BY <1>2 DEF ToSet
  <2>2. /\ pending' = IF held = {} THEN p
                      ELSE Put(p, h[1], h[2], (CHOOSE e \in held : TRUE)[3] + 1)
        /\ toRetry' = IF transport = "open" THEN list ELSE <<>>
    BY <1>2 DEF NextResend
  <2>3. \A e \in ToSet(toRetry') : e \in ToSet(list)
    BY <2>2 DEF ToSet
  <2>4. \A e \in ToSet(pending') : e \in ToSet(p) \/ e[2] = h[2]
    <3>1. CASE held = {}
      BY <2>2, <3>1
    <3>2. CASE held # {}
      <4> DEFINE n == (CHOOSE e \in held : TRUE)[3] + 1
      <4>1. h[1] \in {e[1] : e \in ToSet(p)}
        BY <3>2
      <4>2. pending' = Put(p, h[1], h[2], n)
        BY <2>2, <3>2
      <4> HIDE DEF n, h
      <4>3. pending' = [i \in DOMAIN p |-> IF p[i][1] = h[1] THEN <<h[1], h[2], n>> ELSE p[i]]
        BY <4>1, <4>2 DEF Put
      <4> QED
        BY <4>3 DEF ToSet
    <3> QED
      BY <3>1, <3>2
  <2> HIDE DEF h
  <2> QED
    BY <2>1, <2>3, <2>4
<1> QED
  BY <1>1, <1>2

LEMMA NextAllot ==
  ASSUME PyPciAssumption, CodesInv, FramesInv, AllotInv, [Next]_vars, ~shared'
  PROVE  AllotInv'
<1>1. /\ call \in [Frame -> {"idle", "delay", "sent", "failed"}] /\ Coded \subseteq Frame
      /\ pending \in Seq(Entry) /\ KeysApart(pending) /\ toRetry \in Seq(Entry)
      /\ toRetry # <<>> <=> retry = "delay"
  BY CodeFacts DEF FramesInv, PartsOK, PlaceInv
<1>2. ASSUME NEW f \in Frame, Send(f) PROVE AllotInv'
  BY <1>2, SendAllot
<1>3. ASSUME NEW f \in Frame, Written(f) PROVE AllotInv'
  <2>1. /\ call[f] = "delay" /\ call' = [call EXCEPT ![f] = "sent"]
        /\ UNCHANGED <<code, toRetry>>
        /\ IF f \in Coded THEN pending' = Put(pending, code[f], f, 1) ELSE pending' = pending
    BY <1>3 DEF Written
  <2>2. /\ \A g \in Frame : g # f => call'[g] = call[g]
        /\ call'[f] = "sent"
    BY <1>1, <2>1
  <2>3. \A e \in ToSet(pending') : e \in ToSet(pending) \/ (f \in Coded /\ e[2] = f)
    <3>1. CASE f \in Coded
      <4>1. code[f] \in Code
        BY <2>1, <3>1 DEF AllotInv
      <4>2. MaxRetries \in Nat /\ MaxRetries # 0
        BY CodeFacts
      <4>3. <<code[f], f, 1>> \in Entry
        BY <3>1, <4>1, <4>2 DEF Entry
      <4>4. ToSet(Put(pending, code[f], f, 1))
              = {e \in ToSet(pending) : e[1] # code[f]} \cup {<<code[f], f, 1>>}
        BY <1>1, <4>3, PutFacts
      <4> QED
        BY <2>1, <3>1, <4>4
    <3>2. CASE f \notin Coded
      BY <2>1, <3>2
    <3> QED
      BY <3>1, <3>2
  <2>4. Holding(pending)' \subseteq Holding(pending)
    <3> SUFFICES ASSUME NEW g \in Holding(pending)' PROVE g \in Holding(pending)
      OBVIOUS
    <3>1. CASE g \in Coded /\ call'[g] = "delay"
      BY <1>1, <2>2, <3>1 DEF Holding
    <3>2. CASE \E e \in ToSet(pending') \cup ToSet(toRetry') : g = e[2]
      BY <2>1, <2>3, <3>2 DEF Holding
    <3> QED
      BY <3>1, <3>2 DEF Holding
  <2>5. \A g \in Coded : call'[g] \in {"delay", "sent"} => call[g] \in {"delay", "sent"}
    BY <1>1, <2>1, <2>2
  <2> QED
    BY <2>1, <2>4, <2>5, AllotStays
<1>4. ASSUME UNCHANGED <<call, code>>,
             \A e \in ToSet(pending') \cup ToSet(toRetry') :
               \E d \in ToSet(pending) \cup ToSet(toRetry) : d[2] = e[2]
      PROVE  AllotInv'
  <2>1. Holding(pending)' \subseteq Holding(pending)
    BY <1>4 DEF Holding
  <2> QED
    BY <1>4, <2>1, AllotStays
<1>5. CASE RunTask
  <2>1. UNCHANGED <<call, code, toRetry>>
    BY <1>5 DEF RunTask, callVars
  <2>2. ToSet(pending') \subseteq ToSet(pending)
    <3>1. ToSet(Without(pending, {Head(tasks)[2]})) \subseteq ToSet(pending)
      BY <1>1, WithoutFacts
    <3> QED
      BY <1>5, <3>1 DEF RunTask
  <2> QED
    BY <1>4, <2>1, <2>2
<1>6. CASE RetryPass
  <2> DEFINE old == {e \in ToSet(pending) : e[1] \in due \ Dropped}
             I == {i \in DOMAIN pending : pending[i] \in old /\ Retryable(pending[i])}
             again == Subsequence(pending, I)
             given == {e[1] : e \in {x \in old : ~Retryable(x)}}
             q == Without(pending, Dropped \cup given)
  <2>1. NextResend(again, q) /\ UNCHANGED <<call, code>>
    BY <1>6 DEF RetryPass, callVars
  <2>2. q \in Seq(Entry) /\ ToSet(q) \subseteq ToSet(pending)
    BY <1>1, WithoutFacts
  <2>3. I \in SUBSET DOMAIN pending
    OBVIOUS
  <2> HIDE DEF I, q
  <2>4. again \in Seq(Entry) /\ ToSet(again) \subseteq ToSet(pending)
    <3>1. again \in Seq(Entry) /\ ToSet(again) = {pending[i] : i \in I}
      BY <1>1, <2>3, PartFacts
    <3> QED
      BY <2>3, <3>1 DEF ToSet
  <2> HIDE DEF again
  <2>5. \A e \in ToSet(pending') \cup ToSet(toRetry') :
          \E d \in ToSet(q) \cup ToSet(again) : d[2] = e[2]
    BY <2>1, <2>2, <2>4, ResendHolds
  <2> QED
    BY <1>4, <2>1, <2>2, <2>4, <2>5
<1>7. CASE RetryWritten
  <2>1. /\ retry = "delay" /\ NextResend(Tail(toRetry), pending)
        /\ UNCHANGED <<call, code>>
    BY <1>7 DEF RetryWritten, callVars
  <2>2. Tail(toRetry) \in Seq(Entry) /\ ToSet(Tail(toRetry)) \subseteq ToSet(toRetry)
    BY <1>1, <2>1 DEF ToSet
  <2>3. \A e \in ToSet(pending') \cup ToSet(toRetry') :
          \E d \in ToSet(pending) \cup ToSet(Tail(toRetry)) : d[2] = e[2]
    BY <1>1, <2>1, <2>2, ResendHolds
  <2> QED
    BY <1>4, <2>1, <2>2, <2>3
<1>8. CASE /\ UNCHANGED <<call, code>>
           /\ pending' = pending \/ pending' = <<>>
           /\ toRetry' = toRetry \/ toRetry' = <<>>
  <2>1. ToSet(<<>>) = {}
    BY DEF ToSet
  <2>2. ToSet(pending') \subseteq ToSet(pending) /\ ToSet(toRetry') \subseteq ToSet(toRetry)
    BY <1>8, <2>1
  <2> QED
    BY <1>4, <1>8, <2>2
<1>9. \/ \E f \in Frame : Send(f)
      \/ \E f \in Frame : Written(f)
      \/ RunTask \/ RetryPass \/ RetryWritten
      \/ /\ UNCHANGED <<call, code>>
         /\ pending' = pending \/ pending' = <<>>
         /\ toRetry' = toRetry \/ toRetry' = <<>>
  BY DEF Next, OnConfirmation, LoseReply, Age, RetryError, BackToSleep, ConnectionMade,
     ConnectionLost, Cleanup, vars, callVars, retryVars
<1> QED
  BY <1>2, <1>3, <1>5, <1>6, <1>7, <1>8, <1>9

-----------------------------------------------------------------------------
(* The retries end *)

LEMMA TypeParts == TypeOK /\ NeverExhausted <=> CodesInv /\ PartsOK
BY DEF TypeOK, CodesInv, PartsOK

LEMMA InitRetries ==
  ASSUME PyPciAssumption
  PROVE  Init => RetriesInv
<1> SUFFICES ASSUME Init PROVE RetriesInv
  OBVIOUS
<1>1. CodesInv
  BY InitCodes
<1>2. /\ call = [f \in Frame |-> "idle"] /\ code = [f \in Frame |-> NoCode]
      /\ wire = [f \in Frame |-> 0] /\ late = [f \in Frame |-> 0]
      /\ transport = "new" /\ pending = <<>> /\ tasks = <<>> /\ retry = "off"
      /\ toRetry = <<>> /\ due = {} /\ replies = {} /\ heard = {}
  BY DEF Init
<1>3. Coded \subseteq Frame /\ MaxRetries \in Nat
  BY CodeFacts
<1>4. KeysApart(pending) /\ KeysApart(toRetry) /\ ToSet(pending) = {} /\ ToSet(toRetry) = {}
      /\ ToSet(tasks) = {}
  BY <1>2 DEF KeysApart, ToSet
<1>5. PartsOK
  BY <1>2, <1>4 DEF PartsOK
<1>6. Holding(pending) = {}
  BY <1>2, <1>3, <1>4 DEF Holding
<1>7. AllotInv
  BY <1>2, <1>3, <1>6 DEF AllotInv
<1>8. PlaceInv
  BY <1>2, <1>4 DEF PlaceInv
<1>9. CountInv
  BY <1>2, <1>3, <1>4 DEF CountInv
<1>10. LateInv
  BY <1>2, <1>4 DEF LateInv
<1> QED
  BY <1>1, <1>5, <1>7, <1>8, <1>9, <1>10, TypeParts DEF RetriesInv

LEMMA NextRetries ==
  ASSUME PyPciAssumption
  PROVE  RetriesInv /\ [Next]_vars => RetriesInv'
<1> SUFFICES ASSUME RetriesInv, [Next]_vars PROVE RetriesInv'
  OBVIOUS
<1>1. CodesInv /\ CodesInv'
  BY NextCodes DEF RetriesInv
<1>2. ASSUME ~shared' PROVE (TypeOK /\ AllotInv /\ PlaceInv /\ CountInv /\ LateInv)'
  <2>1. TypeOK /\ AllotInv /\ PlaceInv /\ CountInv /\ LateInv
    <3>1. ~shared
      BY <1>1, <1>2, SharedStays
    <3> QED
      BY <3>1 DEF RetriesInv
  <2>2. FramesInv
    BY <1>1, <2>1, TypeParts DEF CodesInv, FramesInv
  <2>3. AllotInv'
    BY <1>1, <1>2, <2>1, <2>2, NextAllot
  <2>4. FramesInv'
    <3>1. ASSUME NEW f \in Frame, Written(f) PROVE FramesInv'
      BY <2>1, <2>2, <3>1, WrittenStep
    <3>2. CASE RunTask
      BY <2>1, <2>2, <3>2, RunTaskStep
    <3>3. CASE RetryPass
      BY <2>1, <2>2, <3>3, RetryPassStep
    <3>4. CASE RetryWritten
      BY <2>1, <2>2, <3>4, RetryWrittenStep
    <3>5. CASE \/ \E f \in Frame : Send(f)
               \/ OnConfirmation \/ LoseReply \/ Age \/ RetryError
               \/ ConnectionMade \/ ConnectionLost \/ UNCHANGED vars
      BY <1>1, <2>1, <2>2, <3>5, QuietSteps
    <3> QED
      BY <3>1, <3>2, <3>3, <3>4, <3>5 DEF Next
  <2>5. TypeOK'
    <3>1. PartsOK'
      BY <2>4 DEF FramesInv
    <3> QED
      BY <1>1, <3>1 DEF TypeOK, CodesInv, PartsOK
  <2> QED
    BY <2>3, <2>4, <2>5 DEF FramesInv
<1> QED
  BY <1>1, <1>2 DEF RetriesInv

\* What the run checks follows.
LEMMA RetriesHold ==
  ASSUME PyPciAssumption, RetriesInv, ~shared
  PROVE  RetriesBounded
<1>1. MaxRetries \in Nat /\ MaxRetries # 0
  BY CodeFacts
<1>2. \A f \in Frame : wire[f] \in Nat
  BY DEF RetriesInv, CountInv
<1>3. TransmissionsBounded
  BY <1>1, <1>2 DEF RetriesInv, CountInv, TransmissionsBounded
<1>4. AtMostOneLateResend
  BY DEF RetriesInv, LateInv, AtMostOneLateResend
<1> QED
  BY <1>3, <1>4 DEF RetriesInv, RetriesBounded

-----------------------------------------------------------------------------
(* The transport: who dials, and what is open *)

\* Initially nobody dials and nothing is open.
LEMMA DialInit == Link!Init => Link!DialInv
<1> SUFFICES ASSUME Link!Init PROVE Link!DialInv
  OBVIOUS
<1> QED
  BY DEF Link!Init, Link!DialInv, Link!Where, Link!OneDials, Link!Settled, Link!Tracked,
       Link!Numbered, Link!Process, Link!NoSock

\* connect(), called with the lock free: whoever starts to dial holds the lock.
LEMMA EnterKeeps ==
  ASSUME Link!DialInv, NEW p \in Link!Process, lock = NoOne, Link!Enter(p),
         UNCHANGED Link!connVars
  PROVE  Link!DialInv'
<1> USE DEF Link!DialInv, Link!Where, Link!connVars, Link!NoSock, Link!Numbered,
     Link!Tracked
<1>1. \A q \in Link!Process : pc[q] # "dial"
  BY LinkAssumption DEF Link!TransportAssumption, Link!OneDials
<1>2. CASE state = "connected"
  BY <1>1, <1>2 DEF Link!Enter, Link!OneDials, Link!Settled, Link!Process
<1>3. CASE state # "connected"
  <2>1. sock = Link!NoSock
    BY <1>3 DEF Link!Settled
  <2> QED
    BY <1>1, <1>3, <2>1 DEF Link!Enter, Link!OneDials, Link!Settled
<1> QED
  BY <1>2, <1>3

\* A call that has to queue for the lock changes nothing but its caller.
LEMMA CallConnectKeeps ==
  ASSUME Link!DialInv, NEW p \in Link!Process, Link!CallConnect(p),
         UNCHANGED Link!connVars
  PROVE  Link!DialInv'
<1>1. CASE lock = NoOne
  BY <1>1, EnterKeeps DEF Link!CallConnect
<1>2. CASE lock # NoOne
  BY <1>2 DEF Link!CallConnect, Link!DialInv, Link!Where, Link!connVars, Link!NoSock,
       Link!Numbered, Link!Tracked, Link!OneDials, Link!Settled, Link!Process
<1> QED
  BY <1>1, <1>2

\* The head of a loop: it sleeps or ends, and writes the state, which is why
\* there must be no connection yet.
LEMMA LoopHeadKeeps ==
  ASSUME Link!DialInv, NEW l \in Link!Loop, NEW st, Link!LoopHead(l, st),
         sock = Link!NoSock,
         UNCHANGED Link!connVars, lock' = lock \/ pc[l] = "dial"
  PROVE  Link!DialInv'
<1> USE DEF Link!DialInv, Link!Where, Link!connVars, Link!NoSock, Link!Numbered,
     Link!Tracked
<1>1. pc' \in [Link!Process -> Link!Where]
      /\ \A q \in Link!Process : pc'[q] = "dial" => q # l /\ pc[q] = "dial"
  BY DEF Link!LoopHead, Link!Process
<1>2. Link!OneDials'
  BY <1>1 DEF Link!OneDials, Link!Process
<1> QED
  BY <1>1, <1>2 DEF Link!Settled

\* Every step keeps the invariant.
LEMMA DialStep == Link!DialInv /\ [Link!Next]_(Link!vars) => Link!DialInv'
<1> SUFFICES ASSUME Link!DialInv, [Link!Next]_(Link!vars) PROVE Link!DialInv'
  OBVIOUS
<1>1. ASSUME NEW c \in Caller, Link!Connect(c) PROVE Link!DialInv'
  BY <1>1, CallConnectKeeps DEF Link!Connect, Link!Process
<1>2. ASSUME NEW c \in Caller, Link!Disconnect(c) PROVE Link!DialInv'
  BY <1>2 DEF Link!Disconnect, Link!CloseNow, Link!DialInv, Link!Where, Link!NoSock,
       Link!Numbered, Link!Tracked, Link!OneDials, Link!Settled, Link!Process
<1>3. ASSUME NEW c \in Caller, Link!DisconnectResumes(c) PROVE Link!DialInv'
  BY <1>3 DEF Link!DisconnectResumes, Link!CloseNow, Link!DialInv, Link!Where,
       Link!NoSock, Link!Numbered, Link!Tracked, Link!OneDials, Link!Settled,
       Link!Process
<1>4. ASSUME NEW p \in Link!Process, Link!Acquire(p) PROVE Link!DialInv'
  BY <1>4, EnterKeeps DEF Link!Acquire
<1>5. ASSUME NEW p \in Link!Process, Link!DialOk(p) PROVE Link!DialInv'
  <2> USE DEF Link!DialInv, Link!NoSock
  <2>1. sock = Link!NoSock /\ open = {}
    BY <1>5 DEF Link!DialOk, Link!Settled, Link!Tracked, Link!Numbered
  <2>2. \A q \in Link!Process : pc'[q] # "dial"
    BY <1>5 DEF Link!DialOk, Link!OneDials, Link!Where
  <2>3. \A l \in Link!Loop : pc'[l] # "created"
    BY <1>5 DEF Link!DialOk, Link!Polls, Link!Where, Link!Process
  <2> QED
    BY <1>5, <2>1, <2>2, <2>3 DEF Link!DialOk, Link!Where, Link!OneDials, Link!Settled,
         Link!Tracked, Link!Numbered
<1>6. ASSUME NEW p \in Link!Process, Link!DialFail(p) PROVE Link!DialInv'
  <2>1. sock = Link!NoSock /\ pc[p] = "dial" /\ UNCHANGED Link!connVars
    BY <1>6 DEF Link!DialFail, Link!DialInv, Link!Settled
  <2>2. CASE p \in Link!Loop
    BY <1>6, <2>1, <2>2, LoopHeadKeeps DEF Link!DialFail
  <2>3. CASE p \notin Link!Loop
    BY <1>6, <2>1, <2>3 DEF Link!DialFail, Link!DialInv, Link!Where, Link!NoSock,
         Link!Numbered, Link!Tracked, Link!OneDials, Link!Settled, Link!connVars
  <2> QED
    BY <2>2, <2>3
<1>7. ASSUME NEW l \in Link!Loop, Link!Cancelled(l) PROVE Link!DialInv'
  <2> USE DEF Link!DialInv, Link!Where, Link!NoSock, Link!Numbered, Link!Tracked,
       Link!Process, Link!connVars
  <2>1. CASE pc[l] = "dial"
    BY <1>7, <2>1 DEF Link!Cancelled, Link!OneDials, Link!Settled
  <2>2. CASE pc[l] # "dial"
    BY <1>7, <2>2 DEF Link!Cancelled, Link!OneDials, Link!Settled
  <2> QED
    BY <2>1, <2>2
<1>8. ASSUME NEW l \in Link!Loop, Link!LoopStarts(l) PROVE Link!DialInv'
  <2>1. sock = Link!NoSock
    BY <1>8 DEF Link!LoopStarts, Link!DialInv, Link!Settled
  <2> QED
    BY <1>8, <2>1, LoopHeadKeeps DEF Link!LoopStarts
<1>9. ASSUME NEW l \in Link!Loop, Link!LoopWakes(l) PROVE Link!DialInv'
  <2>1. CASE state = "disconnected"
    BY <1>9, <2>1 DEF Link!LoopWakes, Link!DialInv, Link!Where, Link!NoSock,
         Link!Numbered, Link!Tracked, Link!OneDials, Link!Settled, Link!Process,
         Link!connVars
  <2>2. CASE state # "disconnected"
    BY <1>9, <2>2, CallConnectKeeps DEF Link!LoopWakes, Link!Process
  <2> QED
    BY <2>1, <2>2
<1>10. ASSUME Link!HandleConnectionLost PROVE Link!DialInv'
  BY <1>10 DEF Link!HandleConnectionLost, Link!DialInv, Link!Where, Link!NoSock,
       Link!Numbered, Link!Tracked, Link!OneDials, Link!Settled, Link!Process
<1>11. ASSUME UNCHANGED Link!vars PROVE Link!DialInv'
  BY <1>11 DEF Link!vars, Link!connVars, Link!DialInv, Link!Where, Link!NoSock,
       Link!Numbered, Link!Tracked, Link!OneDials, Link!Settled
<1>12. ASSUME Link!Break PROVE Link!DialInv'
  BY <1>12 DEF Link!Break, Link!DialInv, Link!Where, Link!NoSock,
       Link!Numbered, Link!Tracked, Link!OneDials, Link!Settled
<1> QED
  BY <1>1, <1>2, <1>3, <1>4, <1>5, <1>6, <1>7, <1>8, <1>9, <1>10, <1>11, <1>12
  DEF Link!Next

-----------------------------------------------------------------------------
(* The state and the connection *)

\* A loop counts one attempt, when it starts.
AttemptInv == attempts \in Nat /\ attempts <= Cardinality(Link!Started)

\* Inductive: the state agrees with the connection.
ConsistentInv == Link!DialInv /\ Link!RangeInv /\ AttemptInv /\ Link!CancelInv
                 /\ Link!ConnectedIsOpen

\* There are Loops loops.
LEMMA LoopFinite == IsFiniteSet(Link!Loop) /\ Cardinality(Link!Loop) = Loops
BY LinkAssumption, FS_Interval DEF Link!TransportAssumption, Link!Loop

\* Not more of them start than there are.
LEMMA StartedBound == /\ IsFiniteSet(Link!Started) /\ Cardinality(Link!Started) \in Nat
                      /\ Cardinality(Link!Started) <= Loops
<1>1. Link!Started \subseteq Link!Loop
  BY DEF Link!Started
<1> QED
  BY <1>1, LoopFinite, FS_Subset, FS_CardinalityType

\* No loop is started twice.
LEMMA StartedGrows ==
  ASSUME Link!DialInv, [Link!Next]_(Link!vars)
  PROVE  \A l \in Link!Loop : l \in Link!Started => l \in Link!Started'
<1> SUFFICES ASSUME NEW l \in Link!Loop, pc[l] \notin {"unused", "created"}
             PROVE  pc'[l] \notin {"unused", "created"}
  BY DEF Link!Started
<1>t. pc \in [Link!Process -> Link!Where] /\ l \in Link!Process
  BY DEF Link!DialInv, Link!Process
<1>1. \/ UNCHANGED pc
      \/ \E p \in Link!Process, w \in {"sleep", "lock", "dial", "await", "done"} :
           pc' = [pc EXCEPT ![p] = w]
      \/ \E k \in Link!Loop : pc[k] = "unused" /\ pc' = [pc EXCEPT ![k] = "created"]
  BY DEF Link!Next, Link!vars, Link!Connect, Link!CallConnect, Link!Enter,
       Link!Disconnect, Link!DisconnectResumes, Link!Acquire, Link!DialOk,
       Link!DialFail, Link!LoopHead, Link!Cancelled, Link!LoopStarts, Link!LoopWakes,
       Link!Break, Link!HandleConnectionLost, Link!Process
<1> QED
  BY <1>t, <1>1

\* An attempt is counted with the loop that makes it, and DialOk resets them.
LEMMA AttemptStep ==
  Link!DialInv /\ AttemptInv /\ [Link!Next]_(Link!vars) => AttemptInv'
<1> SUFFICES ASSUME Link!DialInv, AttemptInv, [Link!Next]_(Link!vars)
             PROVE  AttemptInv'
  OBVIOUS
<1>t. pc \in [Link!Process -> Link!Where]
  BY DEF Link!DialInv
<1>1. /\ IsFiniteSet(Link!Started')
      /\ Cardinality(Link!Started') \in Nat /\ Cardinality(Link!Started) \in Nat
      /\ Cardinality(Link!Started) <= Cardinality(Link!Started')
  <2>1. IsFiniteSet(Link!Started')
    <3>1. Link!Started' \subseteq Link!Loop
      BY DEF Link!Started
    <3> QED
      BY <3>1, LoopFinite, FS_Subset
  <2>2. Link!Started \subseteq Link!Started'
    BY StartedGrows DEF Link!Started
  <2> QED
    BY <2>1, <2>2, StartedBound, FS_Subset, FS_CardinalityType
<1>2. ASSUME NEW l \in Link!Loop, Link!LoopStarts(l)
             PROVE  AttemptInv'
  <2>1. attempts' = attempts + 1
    BY <1>2 DEF Link!LoopStarts, Link!LoopHead
  <2>2. Link!Started' = Link!Started \cup {l} /\ l \notin Link!Started
    <3>1. pc[l] = "created" /\ \E w \in {"sleep", "done"} : pc' = [pc EXCEPT ![l] = w]
      BY <1>2 DEF Link!LoopStarts, Link!LoopHead
    <3> QED
      BY <1>t, <3>1 DEF Link!Started, Link!Process
  <2>3. Cardinality(Link!Started') = Cardinality(Link!Started) + 1
    BY <2>2, StartedBound, FS_AddElement
  <2> QED
    BY <1>1, <2>1, <2>3 DEF AttemptInv
<1>3. attempts' \in {0, attempts} \/ \E l \in Link!Loop : Link!LoopStarts(l)
  BY DEF Link!Next, Link!vars, Link!Connect, Link!Disconnect, Link!DisconnectResumes,
       Link!Acquire, Link!DialOk, Link!DialFail, Link!LoopHead, Link!Cancelled,
       Link!LoopWakes, Link!Break, Link!HandleConnectionLost
<1> QED
  BY <1>1, <1>2, <1>3 DEF AttemptInv

\* Every step keeps the ranges.
LEMMA RangeStep ==
  Link!DialInv /\ Link!RangeInv /\ [Link!Next]_(Link!vars) => Link!RangeInv'
<1> SUFFICES ASSUME Link!DialInv, Link!RangeInv, [Link!Next]_(Link!vars)
             PROVE  Link!RangeInv'
  OBVIOUS
<1> USE LinkAssumption DEF Link!TransportAssumption, Link!RangeInv, Link!connVars
<1>1. ASSUME NEW p \in Link!Process, Link!CallConnect(p),
             UNCHANGED <<Link!connVars, task, cancelled>>
      PROVE  Link!RangeInv'
  BY <1>1 DEF Link!CallConnect, Link!Enter
<1>2. ASSUME NEW l \in Link!Loop, NEW st \in {"error", "reconnecting"},
             Link!LoopHead(l, st),
             UNCHANGED <<Link!connVars, task, cancelled>>, lock' \in {lock, NoOne}
      PROVE  Link!RangeInv'
  BY <1>2 DEF Link!LoopHead
<1>3. ASSUME NEW c \in Caller, Link!Connect(c) PROVE Link!RangeInv'
  BY <1>1, <1>3 DEF Link!Connect, Link!Process
<1>4. ASSUME NEW c \in Caller, Link!Disconnect(c) PROVE Link!RangeInv'
  <2>1. CASE task # NoOne /\ pc[task] # "done"
    BY <1>4, <2>1 DEF Link!Disconnect
  <2>2. CASE ~(task # NoOne /\ pc[task] # "done")
    <3>1. /\ state' = "disconnected" /\ open' = open \ {sock} /\ sock' = 0
          /\ UNCHANGED <<lock, task, cancelled, dialled>>
      BY <1>4, <2>2 DEF Link!Disconnect, Link!CloseNow, Link!NoSock
    <3> QED
      BY <3>1
  <2> QED
    BY <2>1, <2>2
<1>5. ASSUME NEW c \in Caller, Link!DisconnectResumes(c) PROVE Link!RangeInv'
  BY <1>5 DEF Link!DisconnectResumes, Link!CloseNow, Link!NoSock
<1>6. ASSUME NEW p \in Link!Process, Link!Acquire(p) PROVE Link!RangeInv'
  BY <1>1, <1>6 DEF Link!Acquire, Link!CallConnect
<1>7. ASSUME NEW p \in Link!Process, Link!DialOk(p) PROVE Link!RangeInv'
  BY <1>7 DEF Link!DialOk
<1>8. ASSUME NEW p \in Link!Process, Link!DialFail(p) PROVE Link!RangeInv'
  <2>1. CASE p \in Link!Loop
    BY <1>2, <1>8, <2>1 DEF Link!DialFail
  <2>2. CASE p \notin Link!Loop
    BY <1>8, <2>2 DEF Link!DialFail
  <2> QED
    BY <2>1, <2>2
<1>9. ASSUME NEW l \in Link!Loop, Link!Cancelled(l) PROVE Link!RangeInv'
  BY <1>9 DEF Link!Cancelled
<1>10. ASSUME NEW l \in Link!Loop, Link!LoopStarts(l) PROVE Link!RangeInv'
  BY <1>2, <1>10 DEF Link!LoopStarts
<1>11. ASSUME NEW l \in Link!Loop, Link!LoopWakes(l) PROVE Link!RangeInv'
  <2>1. l \in Link!Process
    BY DEF Link!Process
  <2> QED
    BY <1>1, <1>11, <2>1 DEF Link!LoopWakes
<1>12. CASE Link!HandleConnectionLost
  BY <1>12 DEF Link!HandleConnectionLost, Link!NoSock
<1>13. CASE UNCHANGED Link!vars
  BY <1>13 DEF Link!vars
<1>14. CASE Link!Break
  BY <1>14 DEF Link!Break
<1> QED
  BY <1>3, <1>4, <1>5, <1>6, <1>7, <1>8, <1>9, <1>10, <1>11, <1>12, <1>13, <1>14
  DEF Link!Next

\* A caller leaves the wait only when the loop it cancelled is done.
LEMMA CancelStep ==
  Link!DialInv /\ Link!RangeInv /\ Link!CancelInv /\ [Link!Next]_(Link!vars)
    => Link!CancelInv'
<1> SUFFICES ASSUME Link!DialInv, Link!RangeInv, Link!CancelInv, [Link!Next]_(Link!vars)
             PROVE  Link!CancelInv'
  OBVIOUS
<1> USE LinkAssumption DEF Link!TransportAssumption
<1>t. /\ pc \in [Link!Process -> Link!Where]
      /\ Caller \subseteq Link!Process /\ Link!Loop \subseteq Link!Process
      /\ Caller \cap Link!Loop = {} /\ cancelled \subseteq Link!Loop
      /\ task \in Link!Loop \cup {NoOne}
  BY DEF Link!DialInv, Link!RangeInv, Link!Process
<1>1. ASSUME NEW c \in Caller, Link!Disconnect(c) PROVE Link!CancelInv'
  <2>1. pc[c] = "done"
    BY <1>1 DEF Link!Disconnect
  <2>2. CASE task # NoOne /\ pc[task] # "done"
    <3>1. /\ cancelled' = cancelled \cup {task} /\ pc' = [pc EXCEPT ![c] = "await"]
          /\ awaits' = [awaits EXCEPT ![c] = task]
      BY <1>1, <2>2 DEF Link!Disconnect
    <3>2. /\ pc'[c] = "await" /\ awaits'[c] = task
          /\ \A d \in Caller : d # c => awaits'[d] = awaits[d]
          /\ \A p \in Link!Process : p # c => pc'[p] = pc[p]
          /\ awaits' \in [Caller -> Link!Loop \cup {NoOne}]
      BY <1>t, <2>2, <3>1 DEF Link!CancelInv
    <3>3. ASSUME NEW l \in cancelled', pc'[l] # "done"
          PROVE  \E d \in Caller : pc'[d] = "await" /\ awaits'[d] = l
      <4>1. CASE l = task
        BY <3>2, <4>1
      <4>2. CASE l # task
        <5>1. l \in cancelled /\ pc[l] # "done"
          BY <1>t, <3>1, <3>2, <3>3, <4>2
        <5>2. PICK d \in Caller : pc[d] = "await" /\ awaits[d] = l
          BY <5>1 DEF Link!CancelInv
        <5>3. d # c
          BY <2>1, <5>2
        <5> QED
          BY <1>t, <3>2, <5>2, <5>3
      <4> QED
        BY <4>1, <4>2
    <3> QED
      BY <3>2, <3>3 DEF Link!CancelInv
  <2>3. CASE ~(task # NoOne /\ pc[task] # "done")
    BY <1>1, <2>3 DEF Link!Disconnect, Link!CancelInv
  <2> QED
    BY <2>2, <2>3
<1>2. ASSUME NEW c \in Caller, Link!DisconnectResumes(c) PROVE Link!CancelInv'
  <2>1. /\ pc[c] = "await" /\ pc[awaits[c]] = "done" /\ UNCHANGED cancelled
        /\ pc' = [pc EXCEPT ![c] = "done"] /\ awaits' = [awaits EXCEPT ![c] = NoOne]
    BY <1>2 DEF Link!DisconnectResumes
  <2>2. /\ \A d \in Caller : d # c => awaits'[d] = awaits[d]
        /\ \A p \in Link!Process : p # c => pc'[p] = pc[p]
        /\ awaits' \in [Caller -> Link!Loop \cup {NoOne}]
    BY <1>t, <2>1 DEF Link!CancelInv
  <2>3. ASSUME NEW l \in cancelled, pc'[l] # "done"
        PROVE  \E d \in Caller : pc'[d] = "await" /\ awaits'[d] = l
    <3>1. pc[l] # "done"
      BY <1>t, <2>2, <2>3
    <3>2. PICK d \in Caller : pc[d] = "await" /\ awaits[d] = l
      BY <3>1 DEF Link!CancelInv
    <3>3. d # c
      BY <2>1, <3>1, <3>2
    <3> QED
      BY <1>t, <2>2, <3>2, <3>3
  <2> QED
    BY <2>1, <2>2, <2>3 DEF Link!CancelInv
<1>3. ASSUME UNCHANGED <<awaits, cancelled>>,
             \A c \in Caller : pc[c] = "await" => pc'[c] = "await",
             \A l \in cancelled : pc'[l] # "done" => pc[l] # "done"
      PROVE  Link!CancelInv'
  BY <1>3 DEF Link!CancelInv
<1>4. ASSUME NEW p \in Link!Process, pc[p] # "await", p \in cancelled => pc[p] # "done",
             \E w : pc' = [pc EXCEPT ![p] = w], UNCHANGED <<awaits, cancelled>>
      PROVE  Link!CancelInv'
  <2>1. \A q \in Link!Process : q # p => pc'[q] = pc[q]
    BY <1>t, <1>4
  <2> QED
    BY <1>3, <1>4, <1>t, <2>1
<1>5. ASSUME UNCHANGED <<pc, awaits, cancelled>> PROVE Link!CancelInv'
  BY <1>5 DEF Link!CancelInv
<1>6. ASSUME NEW p \in Link!Process, Link!CallConnect(p)
      PROVE  \E w : pc' = [pc EXCEPT ![p] = w]
  BY <1>6 DEF Link!CallConnect, Link!Enter
<1>7. ASSUME NEW c \in Caller, Link!Connect(c) PROVE Link!CancelInv'
  BY <1>4, <1>6, <1>7, <1>t DEF Link!Connect
<1>8. ASSUME NEW p \in Link!Process, Link!Acquire(p) PROVE Link!CancelInv'
  BY <1>4, <1>6, <1>8 DEF Link!Acquire, Link!CallConnect
<1>9. ASSUME NEW p \in Link!Process, Link!DialOk(p) \/ Link!DialFail(p)
      PROVE  Link!CancelInv'
  BY <1>4, <1>9 DEF Link!DialOk, Link!DialFail, Link!LoopHead
<1>10. ASSUME NEW l \in Link!Loop, Link!LoopStarts(l) PROVE Link!CancelInv'
  BY <1>4, <1>10, <1>t DEF Link!LoopStarts, Link!LoopHead
<1>11. ASSUME NEW l \in Link!Loop, Link!Cancelled(l) PROVE Link!CancelInv'
  <2>1. /\ pc' = [pc EXCEPT ![l] = "done"] /\ UNCHANGED <<awaits, cancelled>>
    BY <1>11 DEF Link!Cancelled
  <2>2. \A q \in Link!Process : q # l => pc'[q] = pc[q]
    BY <1>t, <2>1
  <2>3. pc'[l] = "done"
    BY <1>t, <2>1
  <2> QED
    BY <1>3, <1>t, <2>1, <2>2, <2>3
<1>12. ASSUME NEW l \in Link!Loop, Link!LoopWakes(l) PROVE Link!CancelInv'
  <2>1. /\ l \in Link!Process /\ pc[l] = "sleep" /\ UNCHANGED <<awaits, cancelled>>
        /\ \E w : pc' = [pc EXCEPT ![l] = w]
    BY <1>6, <1>12, <1>t DEF Link!LoopWakes
  <2> QED
    BY <1>4, <2>1
<1>13. CASE Link!HandleConnectionLost
  <2>1. \/ UNCHANGED pc
        \/ \E l \in Link!Loop : pc[l] = "unused" /\ pc' = [pc EXCEPT ![l] = "created"]
    BY <1>13 DEF Link!HandleConnectionLost
  <2>2. UNCHANGED <<awaits, cancelled>>
    BY <1>13 DEF Link!HandleConnectionLost
  <2> QED
    BY <1>4, <1>5, <1>t, <2>1, <2>2
<1>14. CASE UNCHANGED Link!vars
  BY <1>5, <1>14 DEF Link!vars
<1>15. CASE Link!Break
  BY <1>5, <1>15 DEF Link!Break
<1> QED
  BY <1>1, <1>2, <1>7, <1>8, <1>9, <1>10, <1>11, <1>12, <1>13, <1>14, <1>15 DEF Link!Next

\* A report of a loss finds the state CONNECTED, so with config.reconnect a loop
\* takes it back; a loop that is cancelled before it starts is awaited.
LEMMA ConnectedStep ==
  ASSUME Reconnect, Link!DialInv, Link!RangeInv, Link!CancelInv,
         Link!ConnectedIsOpen, [Link!Next]_(Link!vars)
  PROVE  Link!ConnectedIsOpen'
<1> USE LinkAssumption DEF Link!TransportAssumption
<1>t. /\ pc \in [Link!Process -> Link!Where]
      /\ Caller \subseteq Link!Process /\ Link!Loop \subseteq Link!Process
      /\ Caller \cap Link!Loop = {} /\ cancelled \subseteq Link!Loop
  BY DEF Link!DialInv, Link!RangeInv, Link!Process
<1>1. ASSUME state' # "connected" PROVE Link!ConnectedIsOpen'
  BY <1>1 DEF Link!ConnectedIsOpen
<1>2. ASSUME UNCHANGED <<state, sock>>, NEW p \in Link!Process,
             pc[p] \notin {"created", "await"},
             \E w : pc' = [pc EXCEPT ![p] = w]
      PROVE  Link!ConnectedIsOpen'
  <2>1. \A q \in Link!Process : q # p => pc'[q] = pc[q]
    BY <1>t, <1>2
  <2> QED
    BY <1>2, <1>t, <2>1 DEF Link!ConnectedIsOpen
<1>3. ASSUME NEW c \in Caller, pc'[c] = "await" PROVE Link!ConnectedIsOpen'
  BY <1>3 DEF Link!ConnectedIsOpen
<1>4. ASSUME NEW p \in Link!Process, pc[p] \notin {"created", "await"},
             Link!CallConnect(p),
             UNCHANGED Link!connVars
      PROVE  Link!ConnectedIsOpen'
  <2>1. \/ state' = "connecting"
        \/ UNCHANGED <<state, sock>> /\ \E w : pc' = [pc EXCEPT ![p] = w]
    BY <1>4 DEF Link!CallConnect, Link!Enter, Link!connVars
  <2> QED
    BY <1>1, <1>2, <1>4, <2>1
<1>5. ASSUME NEW c \in Caller, Link!Connect(c) PROVE Link!ConnectedIsOpen'
  BY <1>4, <1>5, <1>t DEF Link!Connect
<1>6. ASSUME NEW c \in Caller, Link!Disconnect(c) PROVE Link!ConnectedIsOpen'
  <2>1. state' = "disconnected" \/ pc' = [pc EXCEPT ![c] = "await"]
    BY <1>6 DEF Link!Disconnect, Link!CloseNow
  <2> QED
    BY <1>1, <1>3, <1>t, <2>1
<1>7. ASSUME NEW c \in Caller, Link!DisconnectResumes(c) PROVE Link!ConnectedIsOpen'
  BY <1>1, <1>7 DEF Link!DisconnectResumes, Link!CloseNow
<1>8. ASSUME NEW p \in Link!Process, Link!Acquire(p) PROVE Link!ConnectedIsOpen'
  BY <1>4, <1>8 DEF Link!Acquire, Link!CallConnect
<1>9. ASSUME NEW p \in Link!Process, Link!DialOk(p) PROVE Link!ConnectedIsOpen'
  <2>1. sock' # Link!NoSock
    BY <1>9 DEF Link!DialOk, Link!DialInv, Link!Numbered, Link!NoSock
  <2> QED
    BY <2>1 DEF Link!ConnectedIsOpen
<1>10. ASSUME NEW p \in Link!Process, Link!DialFail(p) PROVE Link!ConnectedIsOpen'
  BY <1>1, <1>10 DEF Link!DialFail, Link!LoopHead
<1>11. ASSUME NEW l \in Link!Loop, Link!Cancelled(l) PROVE Link!ConnectedIsOpen'
  <2>1. PICK c \in Caller : pc[c] = "await"
    BY <1>11 DEF Link!Cancelled, Link!CancelInv
  <2>2. pc'[c] = "await"
    BY <1>11, <1>t, <2>1 DEF Link!Cancelled
  <2> QED
    BY <1>3, <2>2
<1>12. ASSUME NEW l \in Link!Loop, Link!LoopStarts(l) PROVE Link!ConnectedIsOpen'
  BY <1>1, <1>12 DEF Link!LoopStarts, Link!LoopHead
<1>13. ASSUME NEW l \in Link!Loop, Link!LoopWakes(l) PROVE Link!ConnectedIsOpen'
  <2>1. pc[l] = "sleep" /\ l \in Link!Process /\ UNCHANGED Link!connVars
    BY <1>13, <1>t DEF Link!LoopWakes
  <2>2. state' = "disconnected" \/ Link!CallConnect(l)
    BY <1>13 DEF Link!LoopWakes
  <2> QED
    BY <1>1, <1>4, <2>1, <2>2
<1>14. CASE Link!HandleConnectionLost
  <2>1. state = "connected"
    BY <1>14 DEF Link!HandleConnectionLost, Link!DialInv, Link!Settled
  <2>2. PICK l \in Link!Loop : pc' = [pc EXCEPT ![l] = "created"]
    BY <1>14, <2>1 DEF Link!HandleConnectionLost
  <2>3. pc'[l] = "created"
    BY <1>t, <2>2
  <2> QED
    BY <2>3 DEF Link!ConnectedIsOpen
<1>15. CASE UNCHANGED Link!vars
  BY <1>15 DEF Link!vars, Link!connVars, Link!ConnectedIsOpen
<1>16. CASE Link!Break
  BY <1>16 DEF Link!Break, Link!ConnectedIsOpen
<1> QED
  BY <1>5, <1>6, <1>7, <1>8, <1>9, <1>10, <1>11, <1>12, <1>13, <1>14, <1>15, <1>16
  DEF Link!Next

\* Initially no loop has run and there is no connection.
LEMMA ConsistentInit == Link!Init => ConsistentInv
<1> SUFFICES ASSUME Link!Init PROVE ConsistentInv
  OBVIOUS
<1>1. Link!RangeInv
  BY LinkAssumption DEF Link!TransportAssumption, Link!Init, Link!RangeInv, Link!NoSock
<1>2. AttemptInv
  BY StartedBound DEF Link!Init, AttemptInv
<1>3. Link!CancelInv
  BY DEF Link!Init, Link!CancelInv
<1>4. Link!ConnectedIsOpen
  BY DEF Link!Init, Link!ConnectedIsOpen
<1> QED
  BY <1>1, <1>2, <1>3, <1>4, DialInit DEF ConsistentInv

\* What the run checks of the state follows.
LEMMA ConsistentHolds == ConsistentInv => Link!TransportConsistent
<1> SUFFICES ASSUME ConsistentInv PROVE Link!TransportConsistent
  OBVIOUS
<1>1. attempts \in 0..(Loops + 1)
  BY StartedBound, LinkAssumption
  DEF Link!TransportAssumption, ConsistentInv, AttemptInv
<1> QED
  BY <1>1 DEF ConsistentInv, Link!TransportConsistent, Link!TypeOK, Link!RangeInv,
       Link!DialInv, Link!Where

-----------------------------------------------------------------------------
(* The byte buffer *)

\* The bytes of a frame follow one another up to its last one, and frames come
\* in their order.
LEMMA StreamFacts ==
  ASSUME Framing!FramingAssumption
  PROVE  /\ Stream \in Seq(Framing!Byte) /\ Len(Stream) \in Nat
         /\ DOMAIN Stream = 1..Len(Stream)
         /\ \A k \in 1..Len(Stream) :
              /\ Stream[k] \in Framing!Byte /\ Stream[k][1] \in Framing!FrameNo
              /\ Stream[k][1] \in Nat /\ Stream[k][2] \in Nat
              /\ Stream[k][2] \in 1..Size[Stream[k][1]] /\ Size[Stream[k][1]] \in Nat
              /\ Stream[k] = <<Stream[k][1], Stream[k][2]>>
         /\ \A k \in 1..Len(Stream) - 1 : Framing!Follows(Stream[k], Stream[k + 1])
         /\ Len(Stream) > 0 => Stream[1] = <<1, 1>>
<1>1. /\ Stream \in Seq(Framing!Byte) /\ Len(Stream) \in Nat /\ DOMAIN Stream = 1..Len(Stream)
  BY DEF Framing!FramingAssumption
<1>2. ASSUME NEW k \in 1..Len(Stream)
      PROVE  /\ Stream[k] \in Framing!Byte /\ Stream[k][1] \in Framing!FrameNo
             /\ Stream[k][1] \in Nat /\ Stream[k][2] \in Nat
             /\ Stream[k][2] \in 1..Size[Stream[k][1]] /\ Size[Stream[k][1]] \in Nat
             /\ Stream[k] = <<Stream[k][1], Stream[k][2]>>
  <2>1. Stream[k] \in Framing!Byte
    BY <1>1
  <2>2. /\ Stream[k] \in Framing!FrameNo \X Nat /\ Stream[k][2] \in 1..Size[Stream[k][1]]
    BY <2>1 DEF Framing!Byte
  <2>3. Stream[k][1] \in Framing!FrameNo /\ Stream[k][2] \in Nat
        /\ Stream[k] = <<Stream[k][1], Stream[k][2]>>
    BY <2>2
  <2> QED
    BY <2>1, <2>2, <2>3 DEF Framing!FrameNo, Framing!FramingAssumption
<1>3. Len(Stream) > 0 => Stream[1] = <<1, 1>>
  BY <1>1 DEF Framing!FramingAssumption
<1> QED
  BY <1>1, <1>2, <1>3 DEF Framing!FramingAssumption

\* By induction on the distance.
LEMMA FramesInOrder ==
  ASSUME Framing!FramingAssumption
  PROVE  \A j, k \in 1..Len(Stream) : j <= k => Stream[j][1] <= Stream[k][1]
<1> DEFINE N == Len(Stream)
           F(k) == Stream[k][1]
           Bad == {d \in Nat : \E j \in 1..N : j + d \in 1..N /\ ~(F(j) <= F(j + d))}
<1>1. N \in Nat /\ \A k \in 1..N : F(k) \in Nat
  BY StreamFacts
<1>2. ASSUME NEW k \in 1..N - 1 PROVE F(k) <= F(k + 1)
  <2>1. Framing!Follows(Stream[k], Stream[k + 1]) /\ F(k) \in Nat
    BY <1>1, StreamFacts
  <2> QED
    BY <2>1 DEF Framing!Follows
<1>3. Bad = {}
  <2> SUFFICES ASSUME Bad # {} PROVE FALSE
    OBVIOUS
  <2>1. PICK d \in Bad : \A e \in Bad : d <= e
    BY LeastNumber
  <2>2. PICK j \in 1..N : j + d \in 1..N /\ ~(F(j) <= F(j + d))
    BY <2>1
  <2>3. d \in Nat /\ d # 0
    BY <1>1, <2>1, <2>2
  <2>4. d - 1 \in Nat /\ d - 1 \notin Bad
    <3> HIDE DEF Bad
    <3>1. d - 1 \in Nat /\ ~(d <= d - 1)
      BY <2>3
    <3> QED
      BY <2>1, <3>1
  <2>5. j + (d - 1) \in 1..N - 1 /\ j + (d - 1) \in 1..N /\ (j + (d - 1)) + 1 = j + d
    BY <1>1, <2>2, <2>3
  <2>6. F(j) <= F(j + (d - 1))
    BY <2>4, <2>5
  <2>7. F(j + (d - 1)) <= F((j + (d - 1)) + 1)
    BY <1>2, <2>5
  <2>8. F(j) \in Nat /\ F(j + (d - 1)) \in Nat /\ F(j + d) \in Nat
    BY <1>1, <2>2, <2>5
  <2> HIDE DEF F
  <2> QED
    BY <2>2, <2>5, <2>6, <2>7, <2>8
<1>4. ASSUME NEW j \in 1..N, NEW k \in 1..N, j <= k PROVE F(j) <= F(k)
  <2>1. k - j \in Nat /\ j + (k - j) = k
    BY <1>1, <1>4
  <2> QED
    BY <1>3, <2>1
<1> QED
  BY <1>4

\* As long as none ends a frame, consecutive bytes count up within one frame.
LEMMA SegmentCounts ==
  ASSUME Framing!FramingAssumption, NEW q \in Nat, NEW m \in Nat, q + m + 1 <= Len(Stream),
         \A i \in 1..m : ~Framing!EndsFrame(Stream[q + i])
  PROVE  \A i \in 0..m :
           Stream[q + 1 + i] = <<Stream[q + 1][1], Stream[q + 1][2] + i>>
<1> DEFINE N == Len(Stream)
           f == Stream[q + 1][1]
           c == Stream[q + 1][2]
           Bad == {i \in 0..m : Stream[q + 1 + i] # <<f, c + i>>}
<1>1. N \in Nat /\ q + 1 \in 1..N /\ f \in Nat /\ c \in Nat /\ Stream[q + 1] = <<f, c>>
  <2>1. N \in Nat
    BY StreamFacts
  <2>2. q + 1 \in 1..N
    BY <2>1
  <2> QED
    BY <2>1, <2>2, StreamFacts
<1> SUFFICES ASSUME Bad # {} PROVE FALSE
  OBVIOUS
<1>2. PICK i \in Bad : \A e \in Bad : i <= e
  <2>1. Bad \subseteq Nat
    OBVIOUS
  <2> HIDE DEF Bad
  <2> QED
    BY <2>1, LeastNumber
<1>3. i \in 0..m /\ Stream[q + 1 + i] # <<f, c + i>>
  BY <1>2
<1>4. i # 0
  BY <1>1, <1>3
<1> DEFINE h == i - 1
           k == q + i
<1>5. h \in 0..m /\ h \notin Bad /\ q + 1 + h = k /\ k + 1 = q + 1 + i
  <2>1. h \in 0..m /\ ~(i <= h) /\ q + 1 + h = k /\ k + 1 = q + 1 + i
    BY <1>3, <1>4
  <2> HIDE DEF Bad
  <2> QED
    BY <1>2, <2>1
<1>6. Stream[k] = <<f, c + h>> /\ k \in 1..N - 1 /\ i \in 1..m
  BY <1>1, <1>3, <1>4, <1>5
<1>7. Framing!Follows(Stream[k], Stream[k + 1]) /\ ~Framing!EndsFrame(Stream[k])
  BY <1>6, StreamFacts
<1>8. Stream[k + 1] = <<f, (c + h) + 1>>
  BY <1>6, <1>7 DEF Framing!Follows
<1>9. (c + h) + 1 = c + i
  BY <1>1, <1>3
<1> QED
  BY <1>3, <1>5, <1>8, <1>9

\* The states along a scan are those that Scan makes one by one.  That there is
\* such a function is by induction on the number of bytes.
LEMMA ScanSteps ==
  ASSUME NEW b, Len(b) \in Nat
  PROVE  /\ Framing!Scanned(b)[0] =
              [line |-> <<>>, events |-> events, lost |-> dropped, raised |-> FALSE]
         /\ \A i \in 1..Len(b) :
              Framing!Scanned(b)[i] = Framing!Scan(Framing!Scanned(b)[i - 1], b[i])
<1> DEFINE N == Len(b)
           B == [line |-> <<>>, events |-> events, lost |-> dropped, raised |-> FALSE]
           F(n, f) == f = [i \in 0..n |-> IF i = 0 THEN B ELSE Framing!Scan(f[i - 1], b[i])]
           Bad == {n \in Nat : ~\E f : F(n, f)}
<1>1. Bad = {}
  <2> SUFFICES ASSUME Bad # {} PROVE FALSE
    OBVIOUS
  <2> HIDE DEF B
  <2>1. PICK n \in Bad : \A m \in Bad : n <= m
    <3>1. Bad \subseteq Nat
      OBVIOUS
    <3> HIDE DEF Bad
    <3> QED
      BY <3>1, LeastNumber
  <2>2. n # 0
    <3>1. F(0, [i \in 0..0 |-> B])
      BY SMT
    <3> QED
      BY <3>1
  <2>3. n \in Nat /\ n - 1 \in Nat /\ n - 1 \notin Bad
    <3>1. n \in Nat
      OBVIOUS
    <3>2. n - 1 \in Nat /\ ~(n <= n - 1)
      BY <2>2, <3>1
    <3> HIDE DEF Bad
    <3> QED
      BY <2>1, <3>1, <3>2
  <2>4. PICK f : F(n - 1, f)
    BY <2>3
  <2> DEFINE g == [i \in 0..n |-> IF i = 0 THEN B ELSE Framing!Scan(f[i - 1], b[i])]
  <2>5. \A i \in 0..n - 1 : g[i] = f[i]
    BY <2>3, <2>4
  <2>6. \A i \in 0..n : i # 0 => i - 1 \in 0..n - 1
    BY <2>3
  <2>7. \A i \in 0..n : g[i] = IF i = 0 THEN B ELSE Framing!Scan(g[i - 1], b[i])
    BY <2>5, <2>6
  <2>8. g = [i \in 0..n |-> g[i]]
    OBVIOUS
  <2>9. F(n, g)
    <3> HIDE DEF g
    <3> QED
      BY <2>7, <2>8
  <2> QED
    BY <2>9
<1>2. PICK f : F(N, f)
  BY <1>1
<1>3. F(N, Framing!Scanned(b))
  BY <1>2 DEF Framing!Scanned
<1> DEFINE A == Framing!Scanned(b)
<1>4. A = [i \in 0..N |-> IF i = 0 THEN B ELSE Framing!Scan(A[i - 1], b[i])]
  BY <1>3
<1> HIDE DEF A, B
<1>5. A[0] = B /\ \A i \in 1..N : A[i] = Framing!Scan(A[i - 1], b[i])
  BY <1>4
<1> QED
  BY <1>5 DEF A, B

\* What the kinds of bytes say of their places.
LEMMA CharFacts ==
  ASSUME Framing!FramingAssumption, NEW b \in Framing!Byte
  PROVE  /\ Framing!Char(b) = "mark" => Size[b[1]] = 1
         /\ Framing!Char(b) = "code" => Size[b[1]] = 2 /\ b[2] = 1
         /\ Framing!Char(b) = "lf" => Size[b[1]] >= 2 /\ b[2] = Size[b[1]]
                                      /\ Framing!IsLine(b[1])
         /\ KindOf[b[1]] \in Framing!Mark => Framing!Char(b) = "mark"
         /\ KindOf[b[1]] = "confirmation" /\ b[2] = 1 => Framing!Char(b) = "code"
         /\ Framing!IsLine(b[1]) /\ b[2] = Size[b[1]] => Framing!Char(b) = "lf"
         /\ Framing!IsLine(b[1]) /\ b[2] = Size[b[1]] - 1 => Framing!Char(b) = "cr"
<1>1. /\ b[1] \in Framing!FrameNo /\ b[2] \in Nat /\ b[2] \in 1..Size[b[1]]
  BY DEF Framing!Byte
<1>2. Size[b[1]] \in Nat
  BY <1>1 DEF Framing!FramingAssumption
<1>3. /\ KindOf[b[1]] \in Framing!Mark => Size[b[1]] = 1
      /\ KindOf[b[1]] = "confirmation" => Size[b[1]] = 2
      /\ Framing!IsLine(b[1]) => Size[b[1]] >= 2
  BY <1>1 DEF Framing!FramingAssumption
<1>4. CASE KindOf[b[1]] \in Framing!Mark
  BY <1>3, <1>4 DEF Framing!Char, Framing!IsLine, Framing!Mark
<1>5. CASE KindOf[b[1]] = "confirmation"
  BY <1>3, <1>5 DEF Framing!Char, Framing!IsLine, Framing!Mark
<1>6. CASE Framing!IsLine(b[1])
  BY <1>1, <1>2, <1>3, <1>6 DEF Framing!Char, Framing!IsLine, Framing!Mark
<1> QED
  BY <1>4, <1>5, <1>6 DEF Framing!IsLine

\* A whole frame at the head is consumed.
LEMMA FrameCompletes ==
  ASSUME Framing!FramingAssumption, NEW f \in Framing!FrameNo, NEW line,
         \A i \in 1..Size[f] : line[i] = <<f, i>>
  PROVE  Framing!Complete(line, Size[f])
<1>1. Size[f] \in Nat \ {0}
  BY DEF Framing!FramingAssumption
<1>2. \A i \in 1..Size[f] : line[i] \in Framing!Byte /\ line[i][1] = f /\ line[i][2] = i
  BY <1>1 DEF Framing!Byte
<1>3. line[1] \in Framing!Byte /\ line[1][1] = f /\ line[1][2] = 1
  BY <1>1, <1>2
<1>4. CASE KindOf[f] \in Framing!Mark
  BY <1>3, <1>4, CharFacts DEF Framing!Complete
<1>5. CASE KindOf[f] = "confirmation"
  BY <1>3, <1>5, CharFacts DEF Framing!Complete
<1>6. CASE Framing!IsLine(f)
  <2> DEFINE c == line[Size[f] - 1]
             e == line[Size[f]]
  <2>1. Size[f] >= 2
    BY <1>6 DEF Framing!FramingAssumption
  <2>2. /\ c \in Framing!Byte /\ c[1] = f /\ c[2] = Size[f] - 1
        /\ e \in Framing!Byte /\ e[1] = f /\ e[2] = Size[f]
    BY <1>1, <1>2, <2>1
  <2> HIDE DEF c, e
  <2>3. Framing!Char(c) = "cr" /\ Framing!Char(e) = "lf"
    BY <1>6, <2>2, CharFacts
  <2> QED
    BY <2>1, <2>3 DEF Framing!Complete, c, e
<1> QED
  BY <1>4, <1>5, <1>6 DEF Framing!IsLine

\* An LF of the stream has its CR before it.
LEMMA BeforeLF ==
  ASSUME Framing!FramingAssumption, NEW k \in 1..Len(Stream) - 1,
         Framing!Char(Stream[k + 1]) = "lf"
  PROVE  Framing!Char(Stream[k]) = "cr"
<1> DEFINE b == Stream[k]
           c == Stream[k + 1]
<1>1. /\ b \in Framing!Byte /\ c \in Framing!Byte /\ Framing!Follows(b, c)
      /\ b[1] \in Nat /\ b[2] \in Nat /\ b = <<b[1], b[2]>> /\ Size[b[1]] \in Nat
      /\ b[2] \in 1..Size[b[1]]
  <2>1. k \in 1..Len(Stream) /\ k + 1 \in 1..Len(Stream)
    BY StreamFacts
  <2> QED
    BY <2>1, StreamFacts
<1> HIDE DEF b, c
<1>2. Size[c[1]] >= 2 /\ c[2] = Size[c[1]] /\ Framing!IsLine(c[1])
  BY <1>1, CharFacts DEF c
<1>3. ~Framing!EndsFrame(b)
  <2> SUFFICES ASSUME Framing!EndsFrame(b) PROVE FALSE
    OBVIOUS
  <2>1. c = <<b[1] + 1, 1>>
    BY <1>1 DEF Framing!Follows
  <2>2. c[2] = 1
    BY <2>1
  <2> QED
    BY <1>2, <2>2
<1>4. c = <<b[1], b[2] + 1>>
  BY <1>1, <1>3 DEF Framing!Follows
<1>5. c[1] = b[1] /\ c[2] = b[2] + 1
  BY <1>4
<1>6. Framing!IsLine(b[1]) /\ b[2] = Size[b[1]] - 1
  BY <1>1, <1>2, <1>5
<1> QED
  BY <1>1, <1>6, CharFacts DEF b

\* What is consumed leaves nothing to wait for.
LEMMA LineEnds ==
  ASSUME Framing!FramingAssumption, NEW line, NEW ev, NEW lost, NEW q,
         Framing!Sound(line, ev, lost, q), NEW n \in Nat, n = q + Len(line) + 1,
         NEW ev2, NEW lost2, lost \subseteq lost2, Framing!InOrder(ev2),
         \A i \in DOMAIN ev : \E j \in DOMAIN ev2 : ev2[j] = ev[i],
         \A j \in DOMAIN ev2 : \A k \in DOMAIN Stream : k > n => ev2[j][1] < Stream[k][1],
         Framing!EndsFrame(Stream[n]) \/ Stream[n] \in lost2,
         \A k \in q + 1..n : Framing!EndsFrame(Stream[k]) => Framing!Covered(k, ev2, lost2)
  PROVE  Framing!Sound(<<>>, ev2, lost2, n)
<1>1. /\ line \in Seq(Framing!Byte) /\ q \in Nat
      /\ \A k \in 1..q : Framing!EndsFrame(Stream[k]) => Framing!Covered(k, ev, lost)
  BY DEF Framing!Sound
<1>2. Len(line) \in Nat
  BY <1>1
<1>3. ASSUME NEW k \in 1..n, Framing!EndsFrame(Stream[k])
      PROVE  Framing!Covered(k, ev2, lost2)
  <2>1. CASE k \in 1..q
    <3>1. Framing!Covered(k, ev, lost)
      BY <1>1, <1>3, <2>1
    <3> QED
      BY <3>1 DEF Framing!Covered
  <2>2. CASE k \in q + 1..n
    BY <1>3, <2>2
  <2> QED
    BY <1>1, <1>2, <2>1, <2>2
<1> DEFINE e == <<>>
<1>4. e \in Seq(Framing!Byte) /\ DOMAIN e = {}
  OBVIOUS
<1>5. Framing!Ready(e) = {}
  BY <1>4 DEF Framing!Ready
<1> HIDE DEF e
<1>6. Framing!Sound(e, ev2, lost2, n)
  BY <1>3, <1>4, <1>5 DEF Framing!Sound
<1> QED
  BY <1>6 DEF e

\* A lost byte covers its own frame.
LEMMA LostCovers ==
  ASSUME NEW k \in Nat, k # 0, NEW ev, NEW lost, Stream[k] \in lost
  PROVE  Framing!Covered(k, ev, lost)
<1>1. k \in 1..k /\ (k + 2)..(k - 1) = {}
  OBVIOUS
<1> QED
  BY <1>1 DEF Framing!Covered

\* In step, what waits is the head of the frame that starts there.
LEMMA InStep ==
  ASSUME Framing!FramingAssumption, NEW line, NEW ev, NEW lost, NEW q,
         Framing!Sound(line, ev, lost, q), q + Len(line) <= Len(Stream),
         q = 0 \/ Framing!EndsFrame(Stream[q])
  PROVE  /\ \A i \in 1..Len(line) : ~Framing!EndsFrame(Stream[q + i])
         /\ q + Len(line) < Len(Stream) =>
              \A i \in 1..Len(line) + 1 : Stream[q + i] = <<Stream[q + 1][1], i>>
<1> DEFINE m == Len(line)
           N == Len(Stream)
           f == Stream[q + 1][1]
<1>1. /\ line \in Seq(Framing!Byte) /\ q \in Nat /\ Framing!Ready(line) = {}
      /\ \A i \in DOMAIN line : line[i] = Stream[q + i]
  BY DEF Framing!Sound
<1>2. m \in Nat /\ DOMAIN line = 1..m /\ N \in Nat
  BY <1>1, StreamFacts
<1> SUFFICES ASSUME q + 1 <= N
             PROVE  /\ \A i \in 1..m : ~Framing!EndsFrame(Stream[q + i])
                    /\ q + m < N => \A i \in 1..m + 1 : Stream[q + i] = <<f, i>>
  BY <1>1, <1>2
<1>3. q + 1 \in 1..N
  BY <1>1, <1>2
<1>4. /\ f \in Framing!FrameNo /\ f \in Nat /\ Size[f] \in Nat
  BY <1>3, StreamFacts
<1>5. Stream[q + 1][2] = 1
  <2>1. CASE q = 0
    BY <1>1, <1>3, <2>1, StreamFacts
  <2>2. CASE q # 0
    <3>1. q \in 1..N - 1
      BY <1>1, <1>2, <1>3, <2>2
    <3>2. Framing!Follows(Stream[q], Stream[q + 1]) /\ Framing!EndsFrame(Stream[q])
      BY <2>2, <3>1, StreamFacts
    <3> QED
      BY <3>2 DEF Framing!Follows
  <2> QED
    BY <2>1, <2>2
<1> HIDE DEF f
<1>6. ASSUME NEW e \in 0..m, q + e + 1 <= N, \A i \in 1..e : ~Framing!EndsFrame(Stream[q + i])
      PROVE  \A i \in 1..e + 1 : Stream[q + i] = <<f, i>>
  <2>1. e \in Nat
    BY <1>1, <1>2
  <2>2. \A i \in 0..e : Stream[q + 1 + i] = <<Stream[q + 1][1], Stream[q + 1][2] + i>>
    BY <1>1, <1>6, <2>1, SegmentCounts
  <2> SUFFICES ASSUME NEW i \in 1..e + 1 PROVE Stream[q + i] = <<f, i>>
    OBVIOUS
  <2>3. i - 1 \in 0..e /\ q + 1 + (i - 1) = q + i /\ 1 + (i - 1) = i
    BY <1>1, <2>1
  <2> QED
    BY <1>5, <2>2, <2>3 DEF f
<1>7. \A i \in 1..m : ~Framing!EndsFrame(Stream[q + i])
  <2> DEFINE Bad == {i \in 1..m : Framing!EndsFrame(Stream[q + i])}
  <2> SUFFICES ASSUME Bad # {} PROVE FALSE
    OBVIOUS
  <2>1. PICK e \in Bad : \A i \in Bad : e <= i
    <3>1. Bad \subseteq Nat
      OBVIOUS
    <3> HIDE DEF Bad
    <3> QED
      BY <3>1, LeastNumber
  <2>2. e \in 1..m /\ Framing!EndsFrame(Stream[q + e]) /\ e \in Nat
    OBVIOUS
  <2>3. \A i \in 1..e - 1 : ~Framing!EndsFrame(Stream[q + i])
    <3> SUFFICES ASSUME NEW i \in 1..e - 1, Framing!EndsFrame(Stream[q + i]) PROVE FALSE
      OBVIOUS
    <3>1. i \in Bad /\ ~(e <= i)
      BY <1>2, <2>2
    <3> HIDE DEF Bad
    <3> QED
      BY <2>1, <3>1
  <2>4. e - 1 \in 0..m /\ (e - 1) + 1 = e /\ q + (e - 1) + 1 <= N
    BY <1>1, <1>2, <2>2
  <2>5. \A i \in 1..e : Stream[q + i] = <<f, i>>
    BY <1>6, <2>3, <2>4
  <2>6. e \in 1..e
    BY <2>2
  <2>7. e = Size[f]
    BY <2>2, <2>5, <2>6 DEF Framing!EndsFrame
  <2>8. \A i \in 1..e : line[i] = <<f, i>>
    BY <1>1, <1>2, <2>2, <2>5
  <2>9. Framing!Complete(line, e)
    BY <1>4, <2>7, <2>8, FrameCompletes
  <2> QED
    BY <1>1, <1>2, <2>2, <2>9 DEF Framing!Ready
<1>8. ASSUME q + m < N PROVE \A i \in 1..m + 1 : Stream[q + i] = <<f, i>>
  <2>1. m \in 0..m /\ q + m + 1 <= N
    BY <1>1, <1>2, <1>8
  <2> QED
    BY <1>6, <1>7, <2>1
<1> QED
  BY <1>7, <1>8

\* In step, what is consumed is the frame that starts there.
LEMMA WholeLine ==
  ASSUME Framing!FramingAssumption, NEW line, NEW ev, NEW lost, NEW q,
         Framing!Sound(line, ev, lost, q), NEW n \in 1..Len(Stream), n = q + Len(line) + 1,
         Framing!Complete(Append(line, Stream[n]), Len(line) + 1),
         q = 0 \/ Framing!EndsFrame(Stream[q])
  PROVE  Framing!WholeFrame(Append(line, Stream[n]))
<1> DEFINE m == Len(line)
           N == Len(Stream)
           x == Stream[n]
           L == Append(line, x)
           f == Stream[q + 1][1]
<1>1. /\ line \in Seq(Framing!Byte) /\ q \in Nat
      /\ \A i \in DOMAIN line : line[i] = Stream[q + i]
  BY DEF Framing!Sound
<1>2. m \in Nat /\ DOMAIN line = 1..m /\ N \in Nat /\ x \in Framing!Byte
  BY <1>1, StreamFacts
<1>8. \A i \in 1..m + 1 : Stream[q + i] = <<f, i>>
  <2>1. q + m <= N /\ q + m < N
    BY <1>1, <1>2
  <2> QED
    BY <2>1, InStep
<1> HIDE DEF f
<1>9. /\ L \in Seq(Framing!Byte) /\ DOMAIN L = 1..m + 1
      /\ (\A i \in 1..m : L[i] = line[i]) /\ L[m + 1] = x
  BY <1>1, <1>2, AppendAt
<1>10. Framing!Complete(L, m + 1)
  OBVIOUS
<1> HIDE DEF L
<1>11. ASSUME NEW i \in 1..m + 1 PROVE L[i] = <<f, i>>
  <2>1. CASE i \in 1..m
    BY <1>1, <1>2, <1>8, <1>9, <2>1
  <2>2. CASE i = m + 1
    <3>1. q + i = n
      BY <1>1, <1>2, <2>2
    <3> QED
      BY <1>8, <1>9, <2>2, <3>1
  <2> QED
    BY <1>2, <2>1, <2>2
<1>12. Size[f] = m + 1
  <2>1. 1 \in 1..m + 1 /\ m + 1 \in 1..m + 1
    BY <1>2
  <2>2. /\ L[1] \in Framing!Byte /\ L[1][1] = f
        /\ L[m + 1] \in Framing!Byte /\ L[m + 1][1] = f /\ L[m + 1][2] = m + 1
    BY <1>9, <1>11, <2>1
  <2>3. CASE m + 1 = 1 /\ Framing!Char(L[1]) = "mark"
    BY <2>2, <2>3, CharFacts
  <2>4. CASE m + 1 = 2 /\ Framing!Char(L[1]) = "code"
    BY <2>2, <2>4, CharFacts
  <2>5. CASE Framing!Char(L[m + 1]) = "lf"
    BY <2>2, <2>5, CharFacts
  <2> QED
    BY <1>10, <2>3, <2>4, <2>5 DEF Framing!Complete
<1>13. L = [i \in 1..Size[L[1][1]] |-> <<L[1][1], i>>]
  <2>1. 1 \in 1..m + 1
    BY <1>2
  <2>2. L[1][1] = f
    BY <1>11, <2>1
  <2>3. L = [i \in 1..m + 1 |-> L[i]]
    BY <1>9
  <2> QED
    BY <1>11, <1>12, <2>2, <2>3
<1> QED
  BY <1>13 DEF Framing!WholeFrame, L

\* Out of step, what is consumed ends with an LF: a mark is a frame by itself, and
\* so is a code with the byte behind it.
LEMMA CutLine ==
  ASSUME Framing!FramingAssumption, NEW line, NEW ev, NEW lost, NEW q,
         Framing!Sound(line, ev, lost, q), NEW n \in 1..Len(Stream), n = q + Len(line) + 1,
         Framing!Complete(Append(line, Stream[n]), Len(line) + 1),
         ~Framing!WholeFrame(Append(line, Stream[n]))
  PROVE  Framing!EndsFrame(Stream[n])
<1> DEFINE m == Len(line)
           N == Len(Stream)
           x == Stream[n]
           L == Append(line, x)
<1>1. /\ line \in Seq(Framing!Byte) /\ q \in Nat
      /\ \A i \in DOMAIN line : line[i] = Stream[q + i]
  BY DEF Framing!Sound
<1>2. /\ m \in Nat /\ DOMAIN line = 1..m /\ N \in Nat /\ x \in Framing!Byte
      /\ x = <<x[1], x[2]>> /\ x[2] \in 1..Size[x[1]]
  BY <1>1, StreamFacts
<1>3. /\ L \in Seq(Framing!Byte) /\ DOMAIN L = 1..m + 1
      /\ (\A i \in 1..m : L[i] = line[i]) /\ L[m + 1] = x
  BY <1>1, <1>2, AppendAt
<1>4. Framing!Complete(L, m + 1) /\ ~Framing!WholeFrame(L)
  OBVIOUS
<1> HIDE DEF L
<1>5. CASE m + 1 = 1 /\ Framing!Char(L[1]) = "mark"
  <2>1. L[1] = x /\ Size[x[1]] = 1
    BY <1>2, <1>3, <1>5, CharFacts
  <2> QED
    BY <1>2, <2>1 DEF Framing!EndsFrame
<1>6. CASE m + 1 = 2 /\ Framing!Char(L[1]) = "code"
  <2> DEFINE c == Stream[q + 1]
  <2>1. m = 1 /\ 1 \in DOMAIN line /\ q + 1 \in 1..N - 1 /\ q + 1 \in 1..N /\ (q + 1) + 1 = n
    BY <1>1, <1>2, <1>6
  <2>2. L[1] = c /\ c \in Framing!Byte /\ c[2] \in Nat
    BY <1>1, <1>3, <2>1, StreamFacts
  <2>3. Size[c[1]] = 2 /\ c[2] = 1
    BY <1>6, <2>2, CharFacts
  <2>4. Framing!Follows(c, x)
    BY <2>1, StreamFacts
  <2> HIDE DEF c
  <2>5. x = <<c[1], 2>>
    BY <2>3, <2>4 DEF Framing!Follows, Framing!EndsFrame
  <2> QED
    BY <2>3, <2>5 DEF Framing!EndsFrame
<1>7. CASE Framing!Char(L[m + 1]) = "lf"
  BY <1>2, <1>3, <1>7, CharFacts DEF Framing!EndsFrame
<1> QED
  BY <1>4, <1>5, <1>6, <1>7 DEF Framing!Complete

\* Every frame that ends in such a piece is behind the loss, in its line.
LEMMA CutCovers ==
  ASSUME Framing!FramingAssumption, NEW line, NEW ev, NEW lost, NEW q,
         Framing!Sound(line, ev, lost, q), q + Len(line) <= Len(Stream),
         q # 0, Stream[q] \in lost, NEW k \in q + 1..q + Len(line) + 1
  PROVE  Framing!Covered(k, ev, lost)
<1>1. /\ line \in Seq(Framing!Byte) /\ q \in Nat /\ Framing!Ready(line) = {}
      /\ \A i \in DOMAIN line : line[i] = Stream[q + i]
  BY DEF Framing!Sound
<1>2. Len(line) \in Nat /\ DOMAIN line = 1..Len(line) /\ Len(Stream) \in Nat
  BY <1>1, StreamFacts
<1>3. ASSUME NEW p \in (q + 2)..(k - 1), Framing!Char(Stream[p]) = "lf" PROVE FALSE
  <2> DEFINE i == p - q
  <2>1. /\ i \in DOMAIN line /\ i - 1 \in DOMAIN line /\ i >= 2 /\ q + i = p
        /\ q + (i - 1) = p - 1 /\ p - 1 \in 1..Len(Stream) - 1 /\ (p - 1) + 1 = p
    BY <1>1, <1>2
  <2>2. Framing!Char(Stream[p - 1]) = "cr"
    BY <1>3, <2>1, BeforeLF
  <2>3. line[i] = Stream[p] /\ line[i - 1] = Stream[p - 1]
    BY <1>1, <2>1
  <2> HIDE DEF i
  <2>4. Framing!Complete(line, i)
    BY <1>3, <2>1, <2>2, <2>3 DEF Framing!Complete
  <2> QED
    BY <1>1, <2>1, <2>4 DEF Framing!Ready
<1>4. q \in 1..k
  BY <1>1, <1>2
<1> QED
  BY <1>3, <1>4 DEF Framing!Covered

\* Where a scan stands after n bytes of the stream, m of them scanned.
Stands(s, n, m) ==
  \E line, ev, lost, raised :
    /\ s = [line |-> line, events |-> ev, lost |-> lost, raised |-> raised]
    /\ raised \in BOOLEAN /\ (raised => line = <<>>) /\ Len(line) <= m
    /\ Framing!Sound(line, ev, lost, n - Len(line))

\* The next byte keeps it.
LEMMA ScanKeeps ==
  ASSUME Framing!FramingAssumption, NEW n \in Nat, NEW m \in Nat, n + 1 <= Len(Stream),
         NEW s, Stands(s, n, m)
  PROVE  Stands(Framing!Scan(s, Stream[n + 1]), n + 1, m + 1)
<1> DEFINE b == Stream[n + 1]
           N == Len(Stream)
<1>1. PICK line, ev, lost, raised :
        /\ s = [line |-> line, events |-> ev, lost |-> lost, raised |-> raised]
        /\ raised \in BOOLEAN /\ (raised => line = <<>>) /\ Len(line) <= m
        /\ Framing!Sound(line, ev, lost, n - Len(line))
  BY DEF Stands
<1> DEFINE q == n - Len(line)
           n1 == n + 1
<1>2. /\ line \in Seq(Framing!Byte) /\ q \in Nat /\ Framing!Ready(line) = {}
      /\ (\A i \in DOMAIN line : line[i] = Stream[q + i]) /\ Framing!InOrder(ev)
      /\ \A i \in DOMAIN ev : \A k \in DOMAIN Stream : k > q => ev[i][1] < Stream[k][1]
  BY <1>1 DEF Framing!Sound
<1>3. Len(line) \in Nat /\ DOMAIN line = 1..Len(line) /\ N \in Nat /\ DOMAIN Stream = 1..N
  BY <1>2, StreamFacts
<1>4. /\ n1 \in Nat /\ n1 = q + Len(line) + 1 /\ n1 \in 1..N /\ q <= n /\ n1 > q
  BY <1>2, <1>3
<1>5. /\ b \in Framing!Byte /\ b[1] \in Framing!FrameNo /\ b[1] \in Nat /\ b[2] \in 1..Size[b[1]]
      /\ b = <<b[1], b[2]>>
  BY <1>4, StreamFacts
<1>6. s.line = line /\ s.events = ev /\ s.lost = lost /\ s.raised = raised
  BY <1>1
<1>7. \A i \in DOMAIN ev : \A k \in DOMAIN Stream : k > n1 => ev[i][1] < Stream[k][1]
  <2> SUFFICES ASSUME NEW i \in DOMAIN ev, NEW k \in DOMAIN Stream, k > n1
               PROVE  ev[i][1] < Stream[k][1]
    OBVIOUS
  <2>1. k > q
    BY <1>2, <1>3, <1>4
  <2> QED
    BY <1>2, <2>1
<1>8. Framing!Sound(line, ev, lost, q)
  BY <1>1
<1> HIDE DEF q, b, n1
<1> SUFFICES Stands(Framing!Scan(s, b), n1, m + 1)
  BY DEF b, n1
<1>9. b = Stream[n1]
  BY DEF b, n1
<1>10. ASSUME NEW ev2, NEW lost2, NEW raised2 \in BOOLEAN, Framing!Sound(<<>>, ev2, lost2, n1)
       PROVE  Stands([line |-> <<>>, events |-> ev2, lost |-> lost2, raised |-> raised2],
                     n1, m + 1)
  <2> DEFINE e == <<>>
  <2>1. Len(e) = 0
    OBVIOUS
  <2> HIDE DEF e
  <2>2. n1 - Len(e) = n1 /\ Len(e) <= m + 1
    BY <1>4, <2>1
  <2>3. Framing!Sound(e, ev2, lost2, n1 - Len(e))
    BY <1>10, <2>2 DEF e
  <2> QED
    BY <2>2, <2>3 DEF Stands, e
<1>11. \A x \in DOMAIN ev : \E j \in DOMAIN ev : ev[j] = ev[x]
  OBVIOUS
<1>12. ASSUME NEW lost2, lost \subseteq lost2, \A k \in q + 1..n1 : Stream[k] \in lost2
       PROVE  Framing!Sound(<<>>, ev, lost2, n1)
  <2>1. ASSUME NEW k \in q + 1..n1 PROVE Framing!Covered(k, ev, lost2)
    <3>1. k \in Nat /\ k # 0
      BY <1>2, <1>4
    <3> QED
      BY <1>12, <3>1, LostCovers
  <2>2. Stream[n1] \in lost2
    BY <1>2, <1>4, <1>12
  <2> QED
    BY <1>2, <1>4, <1>7, <1>8, <1>11, <1>12, <2>1, <2>2, LineEnds
<1>13. CASE raised
  <2> DEFINE lost2 == lost \cup {b}
  <2>1. Framing!Scan(s, b) = [line |-> <<>>, events |-> ev, lost |-> lost2, raised |-> TRUE]
    BY <1>1, <1>6, <1>13 DEF Framing!Scan
  <2>2. /\ lost \subseteq lost2 /\ b \in lost2
    OBVIOUS
  <2> HIDE DEF lost2
  <2>3. \A k \in q + 1..n1 : k = n1
    <3>1. Len(line) = 0
      BY <1>1, <1>13
    <3> QED
      BY <1>2, <1>4, <3>1
  <2>4. Framing!Sound(<<>>, ev, lost2, n1)
    BY <1>9, <1>12, <2>2, <2>3
  <2> QED
    BY <1>10, <2>1, <2>4
<1> DEFINE L == Append(line, b)
<1>14. /\ L \in Seq(Framing!Byte) /\ Len(L) = Len(line) + 1 /\ DOMAIN L = 1..Len(line) + 1
       /\ (\A i \in 1..Len(line) : L[i] = line[i]) /\ L[Len(line) + 1] = b
  BY <1>2, <1>5, AppendAt
<1>15. ASSUME NEW i \in DOMAIN L PROVE L[i] = Stream[q + i]
  <2>1. CASE i \in 1..Len(line)
    BY <1>2, <1>3, <1>14, <2>1
  <2>2. CASE i = Len(line) + 1
    <3>1. q + i = n1
      BY <1>2, <1>3, <1>4, <2>2
    <3> QED
      BY <1>9, <1>14, <2>2, <3>1
  <2> QED
    BY <1>3, <1>14, <2>1, <2>2
<1>16. ASSUME NEW k \in q + 1..n1
       PROVE  k - q \in DOMAIN L /\ L[k - q] = Stream[k] /\ Stream[k] \in Framing!ToSet(L)
  <2>1. k - q \in DOMAIN L /\ q + (k - q) = k
    BY <1>2, <1>3, <1>4, <1>14
  <2>2. L[k - q] = Stream[k]
    BY <1>15, <2>1
  <2> QED
    BY <2>1, <2>2 DEF Framing!ToSet
<1>17. CASE ~raised /\ ~Framing!Complete(L, Len(L))
  <2>1. Framing!Scan(s, b) = [line |-> L, events |-> ev, lost |-> lost, raised |-> raised]
    BY <1>1, <1>6, <1>17 DEF Framing!Scan
  <2> HIDE DEF L
  <2>2. n1 - Len(L) = q /\ Len(L) <= m + 1
    BY <1>1, <1>2, <1>3, <1>4, <1>14
  <2>3. ASSUME NEW i \in DOMAIN L PROVE ~Framing!Complete(L, i)
    <3>1. CASE i \in 1..Len(line)
      <4>1. ~Framing!Complete(line, i)
        BY <1>2, <1>3, <3>1 DEF Framing!Ready
      <4>2. L[i] = line[i] /\ 1 \in 1..Len(line) /\ L[1] = line[1]
        BY <1>3, <1>14, <3>1
      <4>3. i >= 2 => L[i - 1] = line[i - 1]
        <5>1. i >= 2 => i - 1 \in 1..Len(line)
          BY <1>3, <3>1
        <5> QED
          BY <1>14, <5>1
      <4> QED
        BY <4>1, <4>2, <4>3 DEF Framing!Complete
    <3>2. CASE i = Len(line) + 1
      BY <1>14, <1>17, <3>2
    <3> QED
      BY <1>3, <1>14, <3>1, <3>2
  <2>4. Framing!Sound(L, ev, lost, q)
    <3>1. Framing!Ready(L) = {} /\ \A i \in DOMAIN L : L[i] = Stream[q + i]
      BY <1>15, <2>3 DEF Framing!Ready
    <3> QED
      BY <1>8, <1>14, <3>1 DEF Framing!Sound
  <2>5. Framing!Sound(L, ev, lost, n1 - Len(L))
    BY <2>2, <2>4
  <2> QED
    BY <1>1, <1>17, <2>1, <2>2, <2>5 DEF Stands
<1>18. CASE ~raised /\ Framing!Complete(L, Len(L))
  <2>1. Framing!Scan(s, b) = Framing!HandleData(s, L)
    BY <1>6, <1>18 DEF Framing!Scan
  <2>2. Framing!Complete(Append(line, Stream[n1]), Len(line) + 1) /\ n1 \in 1..Len(Stream)
    BY <1>4, <1>9, <1>14, <1>18
  <2> DEFINE F == L[1][1]
             Fails == \/ Framing!WholeFrame(L) /\ F \in Raises
                      \/ ~Framing!WholeFrame(L) /\ Framing!OddDigits(L)
  <2>3. CASE Fails
    <3> DEFINE lost2 == lost \cup Framing!ToSet(L)
    <3>1. Framing!Scan(s, b) = [line |-> <<>>, events |-> ev, lost |-> lost2, raised |-> TRUE]
      BY <1>1, <1>6, <2>1, <2>3 DEF Framing!HandleData
    <3>2. lost \subseteq lost2 /\ \A k \in q + 1..n1 : Stream[k] \in lost2
      BY <1>16
    <3> HIDE DEF lost2
    <3>3. Framing!Sound(<<>>, ev, lost2, n1)
      BY <1>12, <3>2
    <3> QED
      BY <1>10, <3>1, <3>3
  <2>4. CASE ~Fails /\ ~Framing!WholeFrame(L)
    <3>1. Framing!Scan(s, b) = [line |-> <<>>, events |-> ev, lost |-> lost, raised |-> raised]
      BY <1>1, <1>6, <2>1, <2>4 DEF Framing!HandleData
    <3>2. ~Framing!WholeFrame(Append(line, Stream[n1]))
      BY <1>9, <2>4
    <3>3. Framing!EndsFrame(Stream[n1])
      BY <1>4, <1>8, <2>2, <3>2, CutLine
    <3>4. ~(q = 0 \/ Framing!EndsFrame(Stream[q]))
      BY <1>4, <1>8, <2>2, <3>2, WholeLine
    <3>5. q # 0 /\ Stream[q] \in lost
      BY <1>8, <3>4 DEF Framing!Sound
    <3>6. \A k \in q + 1..n1 : Framing!Covered(k, ev, lost)
      <4>1. q + Len(line) <= Len(Stream)
        BY <1>2, <1>3, <1>4
      <4> QED
        BY <1>4, <1>8, <3>5, <4>1, CutCovers
    <3>7. Framing!Sound(<<>>, ev, lost, n1)
      BY <1>2, <1>4, <1>7, <1>8, <1>11, <3>3, <3>6, LineEnds
    <3> QED
      BY <1>1, <1>10, <3>1, <3>7
  <2>5. CASE Framing!WholeFrame(L) /\ F \notin Raises
    <3> DEFINE x == <<F, Framing!EventOf(KindOf[F])>>
               ev2 == Append(ev, x)
               E == Framing!FrameNo \X Framing!Event
    <3>1. Framing!Scan(s, b) = [line |-> <<>>, events |-> ev2, lost |-> lost, raised |-> raised]
      BY <1>1, <1>6, <2>1, <2>5 DEF Framing!HandleData
    <3>2. /\ 1 \in DOMAIN L /\ L[1] \in Framing!Byte /\ F \in Framing!FrameNo /\ F \in Nat
      <4>1. 1 \in DOMAIN L
        BY <1>3, <1>14
      <4>2. L[1] \in Framing!Byte
        BY <1>14, <4>1
      <4>3. F \in Framing!FrameNo
        BY <4>2 DEF Framing!Byte
      <4> QED
        BY <4>1, <4>2, <4>3 DEF Framing!FrameNo
    <3>3. /\ L = [i \in 1..Size[F] |-> <<F, i>>] /\ Size[F] \in Nat
      BY <2>5, <3>2 DEF Framing!WholeFrame, Framing!FramingAssumption
    <3> HIDE DEF F, L
    <3>4. /\ Size[F] = Len(line) + 1 /\ b = <<F, Size[F]>>
          /\ \A i \in DOMAIN L : L[i] = <<F, i>>
      <4>1. DOMAIN L = 1..Size[F]
        BY <3>3
      <4>2. Size[F] = Len(line) + 1
        BY <1>3, <1>14, <3>3, <4>1
      <4>3. Len(line) + 1 \in 1..Size[F]
        BY <1>3, <4>2
      <4> QED
        BY <1>14, <3>3, <4>1, <4>2, <4>3
    <3>5. b[1] = F /\ Framing!EndsFrame(b)
      BY <3>4 DEF Framing!EndsFrame
    <3>6. ev \in Seq(E) /\ x \in E /\ x[1] = F
      BY <1>2, <3>2 DEF Framing!InOrder, Framing!Event
    <3> HIDE DEF E, x
    <3>7. /\ ev2 \in Seq(E) /\ Len(ev) \in Nat /\ DOMAIN ev = 1..Len(ev)
          /\ DOMAIN ev2 = 1..Len(ev) + 1
          /\ (\A i \in 1..Len(ev) : ev2[i] = ev[i]) /\ ev2[Len(ev) + 1] = x
      BY <3>6, AppendAt
    <3> HIDE DEF ev2
    <3>8. \A i \in DOMAIN ev : ev[i][1] < F
      BY <1>2, <1>3, <1>4, <1>9, <3>5
    <3>9. Framing!InOrder(ev2)
      <4>1. ASSUME NEW i \in DOMAIN ev2, NEW j \in DOMAIN ev2, i < j PROVE ev2[i][1] < ev2[j][1]
        <5>1. i \in DOMAIN ev /\ ev2[i] = ev[i]
          BY <3>7, <4>1
        <5>2. CASE j \in DOMAIN ev
          BY <1>2, <3>7, <4>1, <5>1, <5>2 DEF Framing!InOrder
        <5>3. CASE j = Len(ev) + 1
          BY <3>6, <3>7, <3>8, <5>1, <5>3
        <5> QED
          BY <3>7, <5>2, <5>3
      <4> QED
        BY <3>7, <4>1 DEF Framing!InOrder, E
    <3>10. \A i \in DOMAIN ev : \E j \in DOMAIN ev2 : ev2[j] = ev[i]
      BY <3>7
    <3>11. \A k \in DOMAIN Stream : k > n1 => F < Stream[k][1]
      <4> SUFFICES ASSUME NEW k \in DOMAIN Stream, k > n1 PROVE F < Stream[k][1]
        OBVIOUS
      <4>1. n1 \in 1..N - 1 /\ n1 + 1 \in 1..N /\ n1 + 1 <= k /\ k \in 1..N
        BY <1>3, <1>4
      <4>2. Framing!Follows(Stream[n1], Stream[n1 + 1])
        BY <4>1, StreamFacts
      <4>3. Stream[n1 + 1] = <<F + 1, 1>>
        BY <1>9, <3>5, <4>2 DEF Framing!Follows
      <4>4. Stream[n1 + 1][1] <= Stream[k][1] /\ Stream[k][1] \in Nat
        BY <4>1, FramesInOrder, StreamFacts
      <4> QED
        BY <3>2, <4>3, <4>4
    <3>12. \A j \in DOMAIN ev2 : \A k \in DOMAIN Stream : k > n1 => ev2[j][1] < Stream[k][1]
      <4> SUFFICES ASSUME NEW j \in DOMAIN ev2, NEW k \in DOMAIN Stream, k > n1
                   PROVE  ev2[j][1] < Stream[k][1]
        OBVIOUS
      <4>1. CASE j \in DOMAIN ev
        BY <1>7, <3>7, <4>1
      <4>2. CASE j = Len(ev) + 1
        BY <3>6, <3>7, <3>11, <4>2
      <4> QED
        BY <3>7, <4>1, <4>2
    <3>13. \E i \in DOMAIN ev2 : ev2[i][1] = F
      BY <3>6, <3>7
    <3>14. ASSUME NEW k \in q + 1..n1, Framing!EndsFrame(Stream[k])
           PROVE  Framing!Covered(k, ev2, lost)
      <4>1. Stream[k] = <<F, k - q>>
        BY <1>16, <3>4
      <4>2. Stream[k][1] = F
        BY <4>1
      <4> QED
        BY <3>13, <4>2 DEF Framing!Covered
    <3>15. Framing!Sound(<<>>, ev2, lost, n1)
      BY <1>2, <1>4, <1>8, <1>9, <3>5, <3>9, <3>10, <3>12, <3>14, LineEnds
    <3> QED
      BY <1>1, <1>10, <3>1, <3>15
  <2> QED
    BY <2>3, <2>4, <2>5
<1> QED
  BY <1>1, <1>13, <1>17, <1>18

\* It stands after every number of bytes of the buffer.
LEMMA ScanHolds ==
  ASSUME Framing!FramingAssumption, NEW q, Framing!Sound(buf, events, dropped, q),
         NEW b, Len(b) \in Nat, \A i \in 1..Len(b) : b[i] = Stream[q + i],
         q + Len(b) <= Len(Stream)
  PROVE  Stands(Framing!Scanned(b)[Len(b)], q + Len(b), Len(b))
<1> DEFINE N == Len(b)
           A == Framing!Scanned(b)
           B == [line |-> <<>>, events |-> events, lost |-> dropped, raised |-> FALSE]
           H(i) == Stands(A[i], q + i, i)
           Bad == {i \in 0..N : ~H(i)}
<1>1. A[0] = B /\ \A i \in 1..N : A[i] = Framing!Scan(A[i - 1], b[i])
  BY ScanSteps
<1>2. q \in Nat /\ Len(Stream) \in Nat
  BY StreamFacts DEF Framing!Sound
<1>3. H(0)
  <2> DEFINE e == <<>>
  <2>1. e \in Seq(Framing!Byte) /\ DOMAIN e = {} /\ Len(e) = 0
    OBVIOUS
  <2>2. Framing!Ready(e) = {}
    BY <2>1 DEF Framing!Ready
  <2> HIDE DEF e
  <2>3. Framing!Sound(e, events, dropped, q)
    BY <2>1, <2>2 DEF Framing!Sound
  <2>4. (q + 0) - Len(e) = q /\ Len(e) <= 0
    BY <1>2, <2>1
  <2>5. Framing!Sound(e, events, dropped, (q + 0) - Len(e))
    BY <2>3, <2>4
  <2>6. A[0] = [line |-> e, events |-> events, lost |-> dropped, raised |-> FALSE]
    BY <1>1 DEF e
  <2> HIDE DEF A
  <2>7. PICK r \in BOOLEAN : r = FALSE
    OBVIOUS
  <2>8. /\ A[0] = [line |-> e, events |-> events, lost |-> dropped, raised |-> r]
        /\ r => e = <<>>
    BY <2>6, <2>7
  <2> QED
    BY <2>4, <2>5, <2>7, <2>8 DEF Stands
<1> HIDE DEF A
<1>4. Bad = {}
  <2> SUFFICES ASSUME Bad # {} PROVE FALSE
    OBVIOUS
  <2>1. PICK i \in Bad : \A j \in Bad : i <= j
    <3>1. Bad \subseteq Nat
      OBVIOUS
    <3> HIDE DEF Bad
    <3> QED
      BY <3>1, LeastNumber
  <2>2. i \in 0..N /\ ~H(i) /\ i # 0
    BY <1>3
  <2> DEFINE h == i - 1
  <2>3. h \in 0..N /\ h \in Nat /\ ~(i <= h) /\ h + 1 = i /\ i \in 1..N
    BY <2>2
  <2>4. H(h)
    <3>1. h \notin Bad
      <4> HIDE DEF Bad, h
      <4> QED
        BY <2>1, <2>3
    <3> QED
      BY <2>3, <3>1
  <2>5. /\ q + h \in Nat /\ (q + h) + 1 = q + i /\ (q + h) + 1 <= Len(Stream)
    BY <1>2, <2>3
  <2>6. A[i] = Framing!Scan(A[h], Stream[(q + h) + 1])
    BY <1>1, <2>3, <2>5
  <2> HIDE DEF h
  <2>7. Stands(Framing!Scan(A[h], Stream[(q + h) + 1]), (q + h) + 1, h + 1)
    BY <2>3, <2>4, <2>5, ScanKeeps
  <2> QED
    BY <2>2, <2>3, <2>5, <2>6, <2>7
<1>5. N \in 0..N
  OBVIOUS
<1>6. H(N)
  BY <1>4, <1>5
<1> QED
  BY <1>6 DEF A

\* A read that does not fit: every byte since the last frame is lost.
LEMMA OverflowKeeps ==
  ASSUME Framing!FramingAssumption, NEW line, NEW ev, NEW lost, NEW q,
         Framing!Sound(line, ev, lost, q), NEW n \in 1..Len(Stream), q < n,
         NEW lost2, lost \subseteq lost2, \A k \in q + 1..n : Stream[k] \in lost2
  PROVE  Framing!Sound(<<>>, ev, lost2, n)
<1>1. /\ q \in Nat /\ Framing!InOrder(ev)
      /\ \A i \in DOMAIN ev : \A k \in DOMAIN Stream : k > q => ev[i][1] < Stream[k][1]
      /\ \A k \in 1..q : Framing!EndsFrame(Stream[k]) => Framing!Covered(k, ev, lost)
  BY DEF Framing!Sound
<1>2. Len(Stream) \in Nat /\ DOMAIN Stream = 1..Len(Stream) /\ n \in Nat /\ n \in q + 1..n
  BY <1>1, StreamFacts
<1>3. ASSUME NEW k \in 1..n, Framing!EndsFrame(Stream[k])
      PROVE  Framing!Covered(k, ev, lost2)
  <2>1. CASE k \in 1..q
    <3>1. Framing!Covered(k, ev, lost)
      BY <1>1, <1>3, <2>1
    <3> QED
      BY <3>1 DEF Framing!Covered
  <2>2. CASE k \in q + 1..n
    <3>1. k \in Nat /\ k # 0 /\ Stream[k] \in lost2
      BY <1>2, <2>2
    <3> QED
      BY <3>1, LostCovers
  <2> QED
    BY <1>1, <1>2, <2>1, <2>2
<1>4. ASSUME NEW i \in DOMAIN ev, NEW k \in DOMAIN Stream, k > n PROVE ev[i][1] < Stream[k][1]
  <2>1. k > q
    BY <1>1, <1>2, <1>4
  <2> QED
    BY <1>1, <2>1
<1> DEFINE e == <<>>
<1>5. e \in Seq(Framing!Byte) /\ DOMAIN e = {}
  OBVIOUS
<1>6. Framing!Ready(e) = {}
  BY <1>5 DEF Framing!Ready
<1> HIDE DEF e
<1>7. Framing!Sound(e, ev, lost2, n)
  BY <1>1, <1>2, <1>3, <1>4, <1>5, <1>6 DEF Framing!Sound
<1> QED
  BY <1>7 DEF e

\* data_received: the buffer and the read are the next bytes of the stream.
LEMMA ReadSound ==
  ASSUME Framing!FramingAssumption, Framing!FramingInv, Framing!DataReceived
  PROVE  Framing!FramingInv'
<1> DEFINE N == Len(Stream)
           q == pos - Len(buf)
<1>1. PICK n \in 1..MaxRead :
        LET data == SubSeq(Stream, pos + 1, pos + n)
        IN /\ pos + n <= Len(Stream)
           /\ pos' = pos + n
           /\ CASE closed -> UNCHANGED <<buf, events, dropped>>
                [] ~closed /\ Len(buf) + n > Limit ->
                     /\ buf' = <<>>
                     /\ dropped' = dropped \cup Framing!ToSet(buf \o data)
                     /\ UNCHANGED events
                [] OTHER -> Framing!Process(buf \o data)
           /\ UNCHANGED closed
  BY DEF Framing!DataReceived
<1> DEFINE data == SubSeq(Stream, pos + 1, pos + n)
           b == buf \o data
<1>2. /\ pos \in 0..N /\ closed \in BOOLEAN /\ Len(buf) <= Limit /\ Framing!InOrder(events)
      /\ closed => buf = <<>>
      /\ ~closed => Framing!Sound(buf, events, dropped, q)
  BY DEF Framing!FramingInv
<1>3. /\ N \in Nat /\ n \in Nat /\ n >= 1 /\ Limit \in Nat /\ pos \in Nat
      /\ Stream \in Seq(Framing!Byte)
  BY <1>2, StreamFacts DEF Framing!FramingAssumption
<1>4. pos' \in 0..N /\ pos' \in 1..N /\ pos' = pos + n /\ closed' = closed
  BY <1>1, <1>3
<1>5. CASE closed
  BY <1>1, <1>2, <1>4, <1>5 DEF Framing!FramingInv, Framing!InOrder
<1>6. ASSUME ~closed
      PROVE  /\ Len(buf) \in Nat /\ q \in Nat /\ Len(b) = Len(buf) + n /\ DOMAIN b = 1..Len(b)
             /\ q + Len(b) = pos + n /\ \A i \in 1..Len(b) : b[i] = Stream[q + i]
  <2>1. /\ buf \in Seq(Framing!Byte) /\ q \in Nat /\ \A i \in DOMAIN buf : buf[i] = Stream[q + i]
    BY <1>2, <1>6 DEF Framing!Sound
  <2>2. Len(buf) \in Nat /\ DOMAIN buf = 1..Len(buf)
    BY <2>1
  <2>3. pos \in Nat /\ n \in Nat /\ Stream \in Seq(Framing!Byte) /\ pos + n <= Len(Stream)
    BY <1>1, <1>3
  <2>4. /\ data \in Seq(Framing!Byte) /\ Len(data) = n /\ \A i \in 1..n : data[i] = Stream[pos + i]
    BY ONLY <2>3, SubSeqAt
  <2> HIDE DEF data
  <2>5. /\ Len(b) = Len(buf) + Len(data) /\ DOMAIN b = 1..Len(buf) + Len(data)
        /\ \A i \in 1..Len(buf) : b[i] = buf[i]
        /\ \A j \in 1..Len(data) : b[Len(buf) + j] = data[j]
    <3>1. buf \in Seq(Framing!Byte) /\ data \in Seq(Framing!Byte)
      BY <2>1, <2>4
    <3> QED
      BY ONLY <3>1, ConcatAt
  <2> HIDE DEF b
  <2>6. Len(b) = Len(buf) + n /\ DOMAIN b = 1..Len(b) /\ q + Len(b) = pos + n
    BY <1>3, <2>2, <2>4, <2>5
  <2>7. ASSUME NEW i \in 1..Len(b) PROVE b[i] = Stream[q + i]
    <3>1. CASE i \in 1..Len(buf)
      BY <2>1, <2>2, <2>5, <3>1
    <3>2. CASE i \in Len(buf) + 1..Len(buf) + n
      <4> DEFINE j == i - Len(buf)
      <4>1. j \in 1..n /\ Len(buf) + j = i /\ pos + j = q + i
        BY <1>3, <2>2, <3>2
      <4>2. b[Len(buf) + j] = data[j] /\ data[j] = Stream[pos + j]
        BY <2>4, <2>5, <4>1
      <4> HIDE DEF j
      <4> QED
        BY <4>1, <4>2
    <3> QED
      BY <1>3, <2>2, <2>6, <3>1, <3>2
  <2> QED
    BY <2>1, <2>2, <2>6, <2>7
<1>7. CASE ~closed /\ Len(buf) + n > Limit
  <2>1. buf' = <<>> /\ dropped' = dropped \cup Framing!ToSet(b) /\ events' = events
    BY <1>1, <1>7
  <2> HIDE DEF b, q
  <2>2. \A k \in q + 1..pos + n : Stream[k] \in Framing!ToSet(b)
    <3> SUFFICES ASSUME NEW k \in q + 1..pos + n PROVE Stream[k] \in Framing!ToSet(b)
      OBVIOUS
    <3>0. q \in Nat /\ pos \in Nat /\ n \in Nat /\ Len(b) \in Nat /\ q + Len(b) = pos + n
      BY <1>3, <1>6, <1>7
    <3>1. k - q \in 1..Len(b) /\ q + (k - q) = k
      BY ONLY <3>0, k \in q + 1..pos + n
    <3>2. k - q \in DOMAIN b /\ b[k - q] = Stream[k]
      BY <1>6, <1>7, <3>1
    <3> QED
      BY <3>2 DEF Framing!ToSet
  <2>3. q < pos + n
    BY <1>3, <1>6, <1>7
  <2> HIDE DEF N
  <2>4. Framing!Sound(<<>>, events, dropped', pos')
    BY <1>2, <1>4, <1>7, <2>1, <2>2, <2>3, OverflowKeeps DEF N
  <2>5. Len(buf') = 0 /\ pos' - Len(buf') = pos'
    BY <1>3, <1>4, <2>1
  <2>6. Framing!Sound(buf', events', dropped', pos' - Len(buf'))
    BY <2>1, <2>4, <2>5
  <2>7. Len(buf') <= Limit /\ Framing!InOrder(events)' /\ pos' \in 0..Len(Stream)
    BY <1>2, <1>3, <1>4, <2>1, <2>5 DEF Framing!InOrder, N
  <2> QED
    BY <1>2, <1>4, <1>7, <2>6, <2>7
    DEF Framing!FramingInv, Framing!Sound, Framing!InOrder, Framing!Ready
<1>8. CASE ~closed /\ ~(Len(buf) + n > Limit)
  <2> DEFINE s == Framing!Scanned(b)[Len(b)]
  <2>1. buf' = s.line /\ events' = s.events /\ dropped' = s.lost
    BY <1>1, <1>8 DEF Framing!Process
  <2>2. pos + n <= N
    BY <1>1
  <2> HIDE DEF b, q
  <2>3. Stands(s, q + Len(b), Len(b))
    <3>1. Len(b) \in Nat /\ q + Len(b) <= N
      BY <1>3, <1>6, <1>8, <2>2
    <3> QED
      BY <1>2, <1>6, <1>8, <3>1, ScanHolds DEF N
  <2> HIDE DEF s
  <2>4. PICK line, ev, lost, raised :
          /\ s = [line |-> line, events |-> ev, lost |-> lost, raised |-> raised]
          /\ raised \in BOOLEAN /\ (raised => line = <<>>) /\ Len(line) <= Len(b)
          /\ Framing!Sound(line, ev, lost, (q + Len(b)) - Len(line))
    BY <2>3 DEF Stands
  <2>5. buf' = line /\ events' = ev /\ dropped' = lost
    BY <2>1, <2>4
  <2>6. Len(line) \in Nat /\ Len(line) <= Limit
    <3>1. line \in Seq(Framing!Byte)
      BY <2>4 DEF Framing!Sound
    <3>2. Len(line) \in Nat
      BY <3>1
    <3> QED
      BY <1>3, <1>6, <1>8, <2>4, <3>2
  <2>7. q + Len(b) = pos'
    BY <1>4, <1>6, <1>8
  <2>8. Framing!Sound(buf', events', dropped', pos' - Len(buf'))
    BY <2>4, <2>5, <2>7
  <2>9. Framing!InOrder(events')
    BY <2>8 DEF Framing!Sound
  <2> QED
    BY <1>2, <1>4, <1>8, <2>5, <2>6, <2>8, <2>9
    DEF Framing!FramingInv, Framing!Sound, Framing!InOrder, Framing!Ready
<1> QED
  BY <1>2, <1>5, <1>7, <1>8

\* Initially nothing was read.
LEMMA FramingInit == Framing!FramingAssumption /\ Framing!Init => Framing!FramingInv
<1> SUFFICES ASSUME Framing!FramingAssumption, Framing!Init PROVE Framing!FramingInv
  OBVIOUS
<1>1. pos = 0 /\ buf = <<>> /\ closed = FALSE /\ events = <<>>
  BY DEF Framing!Init
<1>2. /\ buf \in Seq(Framing!Byte) /\ Len(buf) = 0 /\ DOMAIN buf = {}
      /\ events \in Seq(Framing!FrameNo \X Framing!Event) /\ DOMAIN events = {}
  <2>1. \A S : <<>> \in Seq(S)
    OBVIOUS
  <2>2. Len(<<>>) = 0 /\ DOMAIN <<>> = {}
    OBVIOUS
  <2> QED
    BY <1>1, <2>1, <2>2, Zenon
<1>3. Framing!Ready(buf) = {} /\ Framing!InOrder(events)
  BY <1>2 DEF Framing!Ready, Framing!InOrder
<1>4. pos - Len(buf) = 0
  <2>1. pos = 0 /\ Len(buf) = 0
    BY <1>1, <1>2, Zenon
  <2> QED
    BY ONLY <2>1
<1>5. Framing!Sound(buf, events, dropped, 0)
  BY <1>2, <1>3 DEF Framing!Sound
<1>6. Framing!Sound(buf, events, dropped, pos - Len(buf))
  BY <1>4, <1>5
<1>7. 0 \in 0..Len(Stream) /\ 0 <= Limit
  BY StreamFacts DEF Framing!FramingAssumption
<1> QED
  BY <1>1, <1>2, <1>3, <1>6, <1>7 DEF Framing!FramingInv

\* Every step keeps the invariant.
LEMMA FramingStep ==
  ASSUME Framing!FramingAssumption, Framing!FramingInv, [Framing!Next]_(Framing!vars)
  PROVE  Framing!FramingInv'
<1>1. ASSUME Framing!Close PROVE Framing!FramingInv'
  <2>1. closed' = TRUE /\ buf' = <<>> /\ UNCHANGED <<pos, events>>
    BY <1>1 DEF Framing!Close
  <2>2. Len(buf') = 0 /\ 0 <= Limit
    BY <2>1 DEF Framing!FramingAssumption
  <2> QED
    BY <2>1, <2>2 DEF Framing!FramingInv, Framing!InOrder
<1>2. ASSUME UNCHANGED Framing!vars PROVE Framing!FramingInv'
  BY <1>2 DEF Framing!vars, Framing!FramingInv, Framing!InOrder, Framing!Sound, Framing!Ready
<1> QED
  BY <1>1, <1>2, ReadSound DEF Framing!Next, Framing!Done

\* What the run checks follows.
LEMMA FramingHolds ==
  ASSUME Framing!FramingAssumption, Framing!FramingInv
  PROVE  /\ Framing!TypeOK /\ Framing!NothingWaits /\ Framing!InOrderOnce
         /\ Framing!Resynchronises
<1> DEFINE N == Len(Stream)
           q == pos - Len(buf)
<1>1. /\ pos \in 0..N /\ closed \in BOOLEAN /\ Len(buf) <= Limit /\ Framing!InOrder(events)
      /\ closed => buf = <<>>
      /\ ~closed => Framing!Sound(buf, events, dropped, q)
  BY DEF Framing!FramingInv
<1>2. N \in Nat /\ DOMAIN Stream = 1..N
  BY StreamFacts
<1>3. ASSUME ~closed
      PROVE  /\ Len(buf) \in Nat /\ DOMAIN buf = 1..Len(buf) /\ q \in Nat
             /\ \A i \in DOMAIN buf : q + i \in 1..N /\ buf[i] = Stream[q + i]
  <2>1. /\ buf \in Seq(Framing!Byte) /\ q \in Nat
        /\ \A i \in DOMAIN buf : buf[i] = Stream[q + i]
    BY <1>1, <1>3 DEF Framing!Sound
  <2>2. Len(buf) \in Nat /\ DOMAIN buf = 1..Len(buf)
    BY <2>1
  <2>3. \A i \in 1..Len(buf) : q + i \in 1..N
    BY <1>1, <1>2, <2>1, <2>2
  <2> QED
    BY <2>1, <2>2, <2>3
<1>4. Framing!NothingWaits
  <2>1. CASE closed
    BY <1>1, <2>1 DEF Framing!NothingWaits, Framing!Ready
  <2>2. CASE ~closed
    BY <1>1, <2>2 DEF Framing!NothingWaits, Framing!Sound
  <2> QED
    BY <2>1, <2>2
<1>5. Framing!TypeOK
  <2>1. Framing!ToSet(buf) \subseteq Framing!ToSet(Stream)
    <3>1. CASE closed
      BY <1>1, <3>1 DEF Framing!ToSet
    <3>2. CASE ~closed
      <4> HIDE DEF q
      <4> QED
        BY <1>2, <1>3, <3>2 DEF Framing!ToSet
    <3> QED
      BY <3>1, <3>2
  <2>2. events \in Seq(Framing!FrameNo \X Framing!Event)
    BY <1>1 DEF Framing!InOrder
  <2>3. \A e \in Framing!ToSet(events) : e[1] \in Framing!FrameNo
    BY <2>2 DEF Framing!ToSet
  <2> QED
    BY <1>1, <2>1, <2>3 DEF Framing!TypeOK
<1>6. Framing!InOrderOnce
  BY <1>1 DEF Framing!InOrderOnce, Framing!InOrder
<1>7. Framing!Resynchronises
  <2> SUFFICES ASSUME ~closed, NEW k \in 1..pos, Framing!EndsFrame(Stream[k])
               PROVE  \/ Stream[k][1] \in Framing!EventFrames
                      \/ \E j \in 1..k :
                           /\ Stream[j] \in dropped
                           /\ \A p \in (j + 2)..(k - 1) : Framing!Char(Stream[p]) # "lf"
    BY DEF Framing!Resynchronises
  <2>1. Framing!Covered(k, events, dropped)
    <3>1. CASE k \in 1..q
      BY <1>1, <3>1 DEF Framing!Sound
    <3>2. CASE k \notin 1..q
      <4>1. q + Len(buf) <= N /\ k - q \in 1..Len(buf) /\ q + (k - q) = k
            /\ k \in q + 1..q + Len(buf) + 1
        BY <1>1, <1>2, <1>3, <3>2
      <4>2. Framing!Sound(buf, events, dropped, q)
        BY <1>1
      <4> HIDE DEF q
      <4>3. ~(q = 0 \/ Framing!EndsFrame(Stream[q]))
        BY <4>1, <4>2, InStep
      <4>4. q # 0 /\ Stream[q] \in dropped
        BY <4>2, <4>3 DEF Framing!Sound
      <4> QED
        BY <4>1, <4>2, <4>4, CutCovers
    <3> QED
      BY <3>1, <3>2
  <2> QED
    BY <2>1 DEF Framing!Covered, Framing!EventFrames, Framing!ToSet
<1> QED
  BY <1>4, <1>5, <1>6, <1>7

-----------------------------------------------------------------------------
(* The parts side by side *)

\* The exercised part takes its own steps and stays the exercised one.
LEMMA CalmMoves ==
  ASSUME scenario = "calm", [ClientNext]_clientVars
  PROVE  scenario' = "calm" /\ [Next]_vars
BY DEF ClientNext, clientVars

LEMMA LinkMoves ==
  ASSUME scenario = "transport", [ClientNext]_clientVars
  PROVE  scenario' = "transport" /\ [Link!Next]_(Link!vars)
BY DEF ClientNext, clientVars, transportVars, Link!vars, Link!connVars

LEMMA FramingMoves ==
  ASSUME scenario = "framing", [ClientNext]_clientVars
  PROVE  scenario' = "framing" /\ [Framing!Next]_(Framing!vars)
BY DEF ClientNext, clientVars, framingVars, Framing!vars

\* No step changes which part is exercised.
LEMMA PartStays == [ClientNext]_clientVars => scenario' = scenario
BY DEF ClientNext, clientVars

\* However many frames there are, however few codes, and whatever is lost,
\* confirmed late or twice, given up or cut off: as long as
\* _get_confirmation_code hands out no code that another frame still holds,
\* _check_pending_confirmations sends no frame more than MAX_PACKET_RETRIES times
\* in all, and a frame whose confirmation was handled at most once more.
THEOREM RetriesEndCorrect ==
  PyPciAssumption => (ClientSpec => []RetriesEnd)
<1> SUFFICES ASSUME PyPciAssumption PROVE ClientSpec => []RetriesEnd
  OBVIOUS
<1> DEFINE I == scenario = "calm" => RetriesInv
<1>1. ClientInit => I
  BY InitRetries DEF ClientInit
<1>2. I /\ [ClientNext]_clientVars => I'
  BY CalmMoves, NextRetries, PartStays
<1>3. I => RetriesEnd
  BY RetriesHold DEF RetriesEnd
<1> QED
  BY <1>1, <1>2, <1>3, PTL DEF ClientSpec

\* Whatever overlaps, connect() is in _do_connect for at most one task, the one
\* that holds _connect_lock.
THEOREM OneDialsCorrect == ClientSpec => []OneDials
<1> DEFINE I == scenario = "transport" => Link!DialInv
<1>1. ClientInit => I
  BY DialInit DEF ClientInit
<1>2. I /\ [ClientNext]_clientVars => I'
  BY LinkMoves, DialStep, PartStays
<1>3. I => OneDials
  BY DEF OneDials, Link!DialInv
<1> QED
  BY <1>1, <1>2, <1>3, PTL DEF ClientSpec

\* However connect, disconnect, losses and reconnect loops overlap, no open
\* connection is forgotten by the transport.
THEOREM TrackedCorrect == ClientSpec => []Tracked
<1> DEFINE I == scenario = "transport" => Link!DialInv
<1>1. ClientInit => I
  BY DialInit DEF ClientInit
<1>2. I /\ [ClientNext]_clientVars => I'
  BY LinkMoves, DialStep, PartStays
<1>3. I => Tracked
  BY DEF Tracked, Link!DialInv
<1> QED
  BY <1>1, <1>2, <1>3, PTL DEF ClientSpec

\* With config.reconnect, a transport whose state says CONNECTED refers to a
\* connection (one that is open, or one that broke and was not reported) unless a
\* reported loss or a disconnect is being dealt with, however calls, breaks,
\* reports and loops overlap; and all attempts and dials stay within their limits.
\* Without it handle_connection_lost leaves the state CONNECTED for good.
THEOREM TransportConsistentCorrect ==
  Reconnect => (ClientSpec => []TransportConsistent)
<1> SUFFICES ASSUME Reconnect PROVE ClientSpec => []TransportConsistent
  OBVIOUS
<1> DEFINE I == scenario = "transport" => ConsistentInv
<1>1. ClientInit => I
  BY ConsistentInit DEF ClientInit
<1>2. I /\ [ClientNext]_clientVars => I'
  <2>1. ASSUME ConsistentInv, [Link!Next]_(Link!vars) PROVE ConsistentInv'
    BY <2>1, DialStep, RangeStep, AttemptStep, CancelStep, ConnectedStep
    DEF ConsistentInv
  <2> QED
    BY <2>1, LinkMoves, PartStays
<1>3. I => TransportConsistent
  BY ConsistentHolds DEF TransportConsistent
<1> QED
  BY <1>1, <1>2, <1>3, PTL DEF ClientSpec

\* However the stream of lines, confirmations and marks is cut into reads, also
\* between CR and LF, and whatever overflows or raises: the events of data_received
\* are of frames of the stream, once each and in their order; nothing that
\* decode_packet would consume waits in the buffer; and until close() every frame
\* that has arrived raised its event, lost a byte, or is in the first line behind
\* a lost byte.
THEOREM StreamSurvivesCorrect ==
  Framing!FramingAssumption => (ClientSpec => []StreamSurvives)
<1> SUFFICES ASSUME Framing!FramingAssumption PROVE ClientSpec => []StreamSurvives
  OBVIOUS
<1> DEFINE I == scenario = "framing" => Framing!FramingInv
<1>1. ClientInit => I
  BY FramingInit DEF ClientInit
<1>2. I /\ [ClientNext]_clientVars => I'
  BY FramingMoves, FramingStep, PartStays
<1>3. I => StreamSurvives
  BY FramingHolds DEF StreamSurvives
<1> QED
  BY <1>1, <1>2, <1>3, PTL DEF ClientSpec

=============================================================================
