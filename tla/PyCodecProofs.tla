--------------------------- MODULE PyCodecProofs ---------------------------
(***************************************************************************)
(* Proof that the checksum of a packet catches every change of one byte,   *)
(* for packets of any length and any messages.                             *)
(*                                                                         *)
(* What a recursive function yields for every prefix is shown by the least *)
(* prefix for which it would not hold.                                     *)
(***************************************************************************)
EXTENDS PyCodec, SequenceOrderProofs, TLAPS

-----------------------------------------------------------------------------
(* Sums of bytes *)

\* The sum of a prefix is that of the one before it and its last byte.
LEMMA SumSteps ==
  ASSUME NEW s, Len(s) \in Nat
  PROVE  /\ Sums(s)[0] = 0
         /\ \A i \in 1..Len(s) : Sums(s)[i] = Sums(s)[i - 1] + s[i]
<1> DEFINE N == Len(s)
           F(n, f) == f = [i \in 0..n |-> IF i = 0 THEN 0 ELSE f[i - 1] + s[i]]
           S == {n \in 0..N : \E f : F(n, f)}
<1>1. 0 \in S
  <2>1. F(0, [i \in 0..0 |-> 0])
    BY SMT
  <2>2. 0 \in 0..N
    OBVIOUS
  <2> HIDE DEF F
  <2> QED
    BY <2>1, <2>2, Zenon
<1>2. ASSUME NEW n \in 1..N, n - 1 \in S PROVE n \in S
  <2>1. PICK f : F(n - 1, f)
    BY <1>2
  <2> DEFINE g == [i \in 0..n |-> IF i = 0 THEN 0 ELSE f[i - 1] + s[i]]
  <2>2. n \in Nat /\ n - 1 \in Nat
    OBVIOUS
  <2>3. \A i \in 0..n - 1 : g[i] = f[i]
    BY <2>1, <2>2
  <2>4. \A i \in 0..n : i # 0 => i - 1 \in 0..n - 1
    BY <2>2
  <2>5. \A i \in 0..n : g[i] = IF i = 0 THEN 0 ELSE g[i - 1] + s[i]
    BY <2>3, <2>4
  <2>6. g = [i \in 0..n |-> g[i]]
    OBVIOUS
  <2>7. F(n, g)
    <3> HIDE DEF g
    <3> QED
      BY <2>5, <2>6
  <2>8. n \in 0..N
    OBVIOUS
  <2> HIDE DEF F
  <2> QED
    BY <2>7, <2>8, Zenon
<1>3. N \in S
  <2>1. 0..N \subseteq S
    <3> HIDE DEF S
    <3> QED
      BY <1>1, <1>2, Upward
  <2> QED
    BY <2>1
<1>4. PICK f : F(N, f)
  BY <1>3
<1>5. F(N, Sums(s))
  BY <1>4 DEF Sums
<1> DEFINE A == Sums(s)
<1>6. A = [i \in 0..N |-> IF i = 0 THEN 0 ELSE A[i - 1] + s[i]]
  BY <1>5
<1> HIDE DEF A
<1>7. A[0] = 0 /\ \A i \in 1..N : A[i] = A[i - 1] + s[i]
  BY <1>6
<1> QED
  BY <1>7 DEF A

\* Bytes are added to a natural number.
LEMMA SumType ==
  ASSUME NEW s \in Seq(Byte)
  PROVE  /\ Len(s) \in Nat /\ \A i \in 1..Len(s) : s[i] \in Byte
         /\ \A i \in 0..Len(s) : Sums(s)[i] \in Nat
<1>1. Len(s) \in Nat /\ \A i \in 1..Len(s) : s[i] \in Byte
  <2> DEFINE B == Byte
  <2>1. s \in Seq(B)
    OBVIOUS
  <2> HIDE DEF B
  <2>2. Len(s) \in Nat /\ \A i \in 1..Len(s) : s[i] \in B
    BY ONLY <2>1
  <2> QED
    BY <2>2 DEF B
<1> DEFINE S == {i \in 0..Len(s) : Sums(s)[i] \in Nat}
<1>2. 0 \in S
  BY <1>1, SumSteps
<1>3. ASSUME NEW i \in 1..Len(s), i - 1 \in S PROVE i \in S
  <2>1. Sums(s)[i] = Sums(s)[i - 1] + s[i] /\ s[i] \in Byte
    BY <1>1, SumSteps
  <2>2. s[i] \in Nat /\ Sums(s)[i - 1] \in Nat /\ i \in 0..Len(s)
    <3>1. Byte \subseteq Nat
      BY DEF Byte
    <3>2. Sums(s)[i - 1] \in Nat
      BY <1>3, Zenon
    <3>3. s[i] \in Nat
      BY <2>1, <3>1, Zenon
    <3>4. i \in 0..Len(s)
      BY <1>1
    <3> QED
      BY <3>2, <3>3, <3>4, Zenon
  <2>3. Sums(s)[i] \in Nat
    BY <2>1, <2>2
  <2> QED
    BY <2>2, <2>3
<1>4. 0..Len(s) \subseteq S
  <2> HIDE DEF S
  <2> QED
    BY <1>1, <1>2, <1>3, Upward
<1> QED
  BY <1>1, <1>4

\* Changing one byte changes the sum by as much.
LEMMA SumChanges ==
  ASSUME NEW s \in Seq(Byte), NEW k \in 1..Len(s), NEW x \in Byte
  PROVE  LET t == [s EXCEPT ![k] = x]
         IN t \in Seq(Byte) /\ t # <<>> /\ Total(t) = (Total(s) - s[k]) + x
<1> DEFINE t == [s EXCEPT ![k] = x]
           N == Len(s)
<1>1. /\ N \in Nat /\ k \in 1..N /\ \A i \in 1..N : s[i] \in Byte
      /\ \A i \in 0..N : Sums(s)[i] \in Nat
  BY SumType
<1>2. t \in Seq(Byte) /\ Len(t) = N /\ \A i \in 1..N : t[i] = IF i = k THEN x ELSE s[i]
  <2> DEFINE B == Byte
  <2>1. s \in Seq(B) /\ k \in 1..Len(s) /\ x \in B
    OBVIOUS
  <2> HIDE DEF B
  <2>2. t \in Seq(B) /\ Len(t) = N /\ \A i \in 1..N : t[i] = IF i = k THEN x ELSE s[i]
    BY ONLY <2>1
  <2> QED
    BY <2>2 DEF B
<1> HIDE DEF t
<1>3. /\ Sums(s)[0] = 0 /\ \A i \in 1..N : Sums(s)[i] = Sums(s)[i - 1] + s[i]
      /\ Sums(t)[0] = 0 /\ \A i \in 1..N : Sums(t)[i] = Sums(t)[i - 1] + t[i]
  BY <1>1, <1>2, SumSteps
<1>4. \A i \in 0..N : Sums(t)[i] \in Nat
  BY <1>2, SumType
<1> DEFINE S == {i \in 0..N : Sums(t)[i] = IF i < k THEN Sums(s)[i]
                                          ELSE (Sums(s)[i] - s[k]) + x}
<1>5. 0 \in S
  BY <1>1, <1>3
<1>6. ASSUME NEW i \in 1..N, i - 1 \in S PROVE i \in S
  <2> DEFINE a == Sums(s)[i - 1]
             b == Sums(t)[i - 1]
             c == s[i]
             d == s[k]
  <2>1. a \in Nat /\ b \in Nat /\ c \in Nat /\ d \in Nat /\ x \in Nat
    <3>1. i - 1 \in 0..N
      BY <1>1
    <3>2. a \in Nat /\ b \in Nat
      BY <1>1, <1>4, <3>1
    <3>3. c \in Byte /\ d \in Byte
      BY <1>1
    <3> HIDE DEF a, b, c, d
    <3> QED
      BY <3>2, <3>3 DEF Byte
  <2>2. Sums(s)[i] = a + c /\ Sums(t)[i] = b + IF i = k THEN x ELSE c
    BY <1>2, <1>3
  <2>3. b = IF i - 1 < k THEN a ELSE (a - d) + x
    BY <1>6
  <2>4. i = k => c = d
    OBVIOUS
  <2> HIDE DEF a, b, c, d
  <2>5. Sums(t)[i] = IF i < k THEN Sums(s)[i] ELSE (Sums(s)[i] - d) + x
    BY <1>1, <2>1, <2>2, <2>3, <2>4
  <2> QED
    BY <2>5 DEF d
<1>7. 0..N \subseteq S
  <2> HIDE DEF S
  <2> QED
    BY <1>1, <1>5, <1>6, Upward
<1>8. Sums(t)[N] = (Sums(s)[N] - s[k]) + x
  BY <1>1, <1>7
<1>9. t # <<>>
  BY <1>1, <1>2
<1> QED
  BY <1>2, <1>8, <1>9 DEF Total, t

\* The bytes of a packet and its checksum add up to 0.
LEMMA SumAppends ==
  ASSUME NEW s \in Seq(Byte), NEW x \in Byte
  PROVE  Total(Append(s, x)) = Total(s) + x
<1> DEFINE t == Append(s, x)
           N == Len(s)
<1>1. /\ t \in Seq(Byte) /\ N \in Nat /\ Len(t) = N + 1
      /\ \A i \in 1..N : t[i] = s[i]
      /\ t[N + 1] = x
  BY AppendAt
<1> HIDE DEF t
<1>2. /\ Sums(s)[0] = 0 /\ \A i \in 1..N : Sums(s)[i] = Sums(s)[i - 1] + s[i]
      /\ Sums(t)[0] = 0 /\ \A i \in 1..(N + 1) : Sums(t)[i] = Sums(t)[i - 1] + t[i]
  BY <1>1, SumSteps
<1> DEFINE S == {i \in 0..N : Sums(t)[i] = Sums(s)[i]}
<1>3. 0 \in S
  BY <1>1, <1>2
<1>4. ASSUME NEW i \in 1..N, i - 1 \in S PROVE i \in S
  <2>1. i \in 1..(N + 1) /\ i \in 0..N
    BY <1>1
  <2>2. Sums(t)[i] = Sums(t)[i - 1] + t[i] /\ Sums(s)[i] = Sums(s)[i - 1] + s[i]
    BY <1>2, <2>1
  <2>3. Sums(t)[i - 1] = Sums(s)[i - 1] /\ t[i] = s[i]
    BY <1>1, <1>4
  <2> QED
    BY <2>1, <2>2, <2>3
<1>5. 0..N \subseteq S
  <2> HIDE DEF S
  <2> QED
    BY <1>1, <1>3, <1>4, Upward
<1>6. Sums(t)[N] = Sums(s)[N]
  BY <1>1, <1>5
<1>7. Sums(t)[N + 1] = Sums(t)[N] + x
  <2>1. N + 1 \in 1..(N + 1) /\ (N + 1) - 1 = N
    BY <1>1
  <2> QED
    BY <1>1, <1>2, <2>1
<1> QED
  BY <1>1, <1>6, <1>7 DEF Total, t

\* A packet is valid if its bytes add up to 0.
LEMMA ValidIsZero ==
  ASSUME NEW s \in Seq(Byte), s # <<>>
  PROVE  ValidChecksum(s) <=> Total(s) % 256 = 0
<1> DEFINE n == Len(s) - 1
           f == Front(s)
           x == s[Len(s)]
<1>1. Len(s) \in Nat /\ Len(s) # 0 /\ \A i \in 1..Len(s) : s[i] \in Byte
  BY SumType
<1>2. f \in Seq(Byte) /\ Len(f) = n /\ \A i \in 1..n : f[i] = s[i]
  <2>1. s \in Seq(Byte) /\ 0 \in Nat /\ n \in Nat /\ 0 + n <= Len(s)
    BY <1>1
  <2>2. f = SubSeq(s, 0 + 1, 0 + n)
    BY <1>1 DEF Front
  <2> DEFINE u == SubSeq(s, 0 + 1, 0 + n)
             B == Byte
             m == n
  <2>3. s \in Seq(B) /\ 0 \in Nat /\ m \in Nat /\ 0 + m <= Len(s)
    BY <2>1
  <2> HIDE DEF B, m
  <2>4. /\ SubSeq(s, 0 + 1, 0 + m) \in Seq(B) /\ Len(SubSeq(s, 0 + 1, 0 + m)) = m
        /\ \A i \in 1..m : SubSeq(s, 0 + 1, 0 + m)[i] = s[0 + i]
    BY ONLY <2>3, SubSeqAt
  <2> HIDE DEF f
  <2>5. f \in Seq(B) /\ Len(f) = m /\ \A i \in 1..m : f[i] = s[0 + i]
    BY <2>2, <2>4 DEF m
  <2>6. \A i \in 1..m : 0 + i = i
    BY <2>3
  <2> QED
    BY <2>5, <2>6 DEF B, m
<1>3. x \in Byte /\ s = Append(f, x)
  <2>1. x \in Byte /\ n \in Nat /\ n + 1 = Len(s)
    BY <1>1
  <2> HIDE DEF f, x
  <2> DEFINE t == Append(f, x)
  <2>2. /\ t \in Seq(Byte) /\ Len(t) = n + 1 /\ \A i \in 1..n : t[i] = f[i]
        /\ t[n + 1] = x
    BY <1>2, <2>1, AppendAt
  <2> HIDE DEF t
  <2>3. \A i \in 1..Len(s) : s[i] = t[i]
    BY <1>2, <2>1, <2>2 DEF x
  <2>4. s = t
    BY <2>1, <2>2, <2>3, SameSeq
  <2> QED
    BY <2>1, <2>4 DEF t
<1>4. Total(f) \in Nat
  BY <1>2, SumType DEF Total
<1>5. Total(s) = Total(f) + x
  BY <1>2, <1>3, SumAppends
<1>6. ValidChecksum(s) <=> x = (256 - (Total(f) % 256)) % 256
  BY DEF ValidChecksum, Checksum
<1> DEFINE a == Total(f)
<1> HIDE DEF f, x, a
<1>7. a \in Nat /\ x \in 0..255
  BY <1>3, <1>4 DEF Byte, a
<1>8. (x = (256 - (a % 256)) % 256) <=> (a + x) % 256 = 0
  BY ONLY <1>7
<1> QED
  BY <1>5, <1>6, <1>8 DEF a

-----------------------------------------------------------------------------
(* The bytes of a packet *)

\* A duration becomes the code of a ramp.
LEMMA RampBytes == ASSUME NEW d \in Nat PROVE DurationToRampRate(d) \in Byte
<1> DEFINE enough == {i \in 1..16 : d <= Durations[i]}
<1>1. \A i \in 1..16 : RampCode(i) \in Byte
  BY DEF RampCode, Byte
<1>2. CASE enough = {}
  BY <1>1, <1>2 DEF DurationToRampRate
<1>3. CASE enough # {}
  <2>1. enough \subseteq Nat /\ enough \subseteq 1..16
    OBVIOUS
  <2> DEFINE least == CHOOSE i \in enough : \A j \in enough : i <= j
  <2>2. DurationToRampRate(d) = RampCode(least)
    BY <1>3 DEF DurationToRampRate
  <2> HIDE DEF enough
  <2>3. \E i \in enough : \A j \in enough : i <= j
    BY <1>3, <2>1, LeastNumber
  <2>4. least \in enough
    BY <2>3
  <2> QED
    BY <1>1, <2>1, <2>2, <2>4
<1> QED
  BY <1>2, <1>3

\* Bytes one after another.
LEMMA Bytes1 == ASSUME NEW a \in Byte PROVE <<a>> \in Seq(Byte)
<1> DEFINE B == Byte
<1>1. a \in B
  OBVIOUS
<1> HIDE DEF B
<1>2. <<a>> \in Seq(B)
  BY ONLY <1>1
<1> QED
  BY <1>2 DEF B

LEMMA Bytes2 == ASSUME NEW a \in Byte, NEW b \in Byte PROVE <<a, b>> \in Seq(Byte)
<1> DEFINE B == Byte
<1>1. a \in B /\ b \in B
  OBVIOUS
<1> HIDE DEF B
<1>2. <<a, b>> \in Seq(B)
  BY ONLY <1>1
<1> QED
  BY <1>2 DEF B

LEMMA Bytes3 ==
  ASSUME NEW a \in Byte, NEW b \in Byte, NEW c \in Byte
  PROVE  <<a, b, c>> \in Seq(Byte)
<1> DEFINE B == Byte
<1>1. a \in B /\ b \in B /\ c \in B
  OBVIOUS
<1> HIDE DEF B
<1>2. <<a, b, c>> \in Seq(B)
  BY ONLY <1>1
<1> QED
  BY <1>2 DEF B

LEMMA BytesJoin ==
  ASSUME NEW s \in Seq(Byte), NEW t \in Seq(Byte)
  PROVE  s \o t \in Seq(Byte)
<1> DEFINE B == Byte
<1>1. s \in Seq(B) /\ t \in Seq(B)
  OBVIOUS
<1> HIDE DEF B
<1>2. s \o t \in Seq(B)
  BY ONLY <1>1
<1> QED
  BY <1>2 DEF B

\* A message of any kind becomes bytes.
LEMMA SalBytes == ASSUME NEW s \in Sal PROVE EncodeSal(s) \in Seq(Byte) /\ s.app \in Byte
<1> DEFINE R1 == [kind : {"on", "off", "stop"}, app : Lighting, group : Byte]
           R2 == [kind : {"ramp"}, app : Lighting, group : Byte, duration : Nat, level : Byte]
           R3 == [kind : {"time"}, app : {Clock}, h : 0..23, m : 0..59, s : 0..59]
           R4 == [kind : {"date"}, app : {Clock}, y : 1..9999, m : 1..12, d : 1..31]
           R5 == [kind : {"clock?"}, app : {Clock}]
           R6 == [kind : {"temperature"}, app : {Temperature}, group : Byte, t : 0..510]
           R7 == [kind : {"enable"}, app : {Enable}, variable : Byte, value : Byte]
           R8 == [kind : {"status"}, app : {StatusRequest}, level : BOOLEAN, child : Byte, group : Byte]
<1>0. \/ s \in R1 \/ s \in R2 \/ s \in R3 \/ s \in R4
      \/ s \in R5 \/ s \in R6 \/ s \in R7 \/ s \in R8
  BY DEF Sal
<1> USE DEF Byte, Lighting, Clock, Temperature, Enable, StatusRequest
<1>1. CASE s \in R1
  <2>1. s.app \in Lighting /\ s.app \in Byte /\ s.group \in Byte /\ s.kind \in {"on", "off", "stop"}
    BY <1>1
  <2>2. EncodeSal(s) = EncodeLighting(s)
    BY <2>1 DEF EncodeSal
  <2>3. EncodeLighting(s) \in {<<121, s.group>>, <<1, s.group>>, <<9, s.group>>}
    BY <2>1 DEF EncodeLighting
  <2>4. 121 \in Byte /\ 1 \in Byte /\ 9 \in Byte
    OBVIOUS
  <2> HIDE DEF Byte, Lighting, Clock, Temperature, Enable, StatusRequest
  <2> QED
    BY <2>1, <2>2, <2>3, <2>4, Bytes2, Zenon
<1>2. CASE s \in R2
  <2>1. /\ s.app \in Lighting /\ s.app \in Byte /\ s.group \in Byte /\ s.kind = "ramp"
        /\ s.duration \in Nat /\ s.level \in Byte
    BY <1>2
  <2>2. EncodeSal(s) = EncodeLighting(s)
    BY <2>1 DEF EncodeSal
  <2>3. EncodeLighting(s) = <<DurationToRampRate(s.duration), s.group, s.level>>
    BY <2>1 DEF EncodeLighting
  <2>4. DurationToRampRate(s.duration) \in Byte
    BY <2>1, RampBytes, Zenon
  <2> HIDE DEF Byte, Lighting, Clock, Temperature, Enable, StatusRequest
  <2> QED
    BY <2>1, <2>2, <2>3, <2>4, Bytes3, Zenon
<1>3. CASE s \in R3
  <2>1. /\ s.app = Clock /\ s.kind = "time"
        /\ s.app \in Byte /\ s.h \in Byte /\ s.m \in Byte /\ s.s \in Byte
    BY <1>3
  <2>2. EncodeSal(s) = EncodeClock(s)
    BY <2>1 DEF EncodeSal
  <2>3. EncodeClock(s) = <<13, 1, s.h, s.m, s.s, 255>>
    BY <2>1 DEF EncodeClock
  <2>4. 13 \in Byte /\ 1 \in Byte /\ 255 \in Byte
    OBVIOUS
  <2> DEFINE h == s.h
             m == s.m
             c == s.s
             B == Byte
  <2>5. h \in B /\ m \in B /\ c \in B /\ 13 \in B /\ 1 \in B /\ 255 \in B
    BY <2>1, <2>4
  <2> HIDE DEF h, m, c, B
  <2>6. <<13, 1, h, m, c, 255>> \in Seq(B)
    BY ONLY <2>5
  <2> HIDE DEF Byte, Lighting, Clock, Temperature, Enable, StatusRequest
  <2> QED
    BY <2>1, <2>2, <2>3, <2>6, Zenon DEF h, m, c, B
<1>4. CASE s \in R4
  <2>1. /\ s.app = Clock /\ s.kind = "date" /\ s.y \in 1..9999
        /\ s.app \in Byte /\ s.m \in Byte /\ s.d \in Byte
    BY <1>4
  <2>2. EncodeSal(s) = EncodeClock(s)
    BY <2>1 DEF EncodeSal
  <2>3. EncodeClock(s) = <<14, 2, s.y \div 256, s.y % 256, s.m, s.d, 0>>
    BY <2>1 DEF EncodeClock, Weekday
  <2>4. 14 \in Byte /\ 2 \in Byte /\ 0 \in Byte
    OBVIOUS
  <2>5. s.y \div 256 \in Byte /\ s.y % 256 \in Byte
    <3> DEFINE y == s.y
    <3>1. y \in 1..9999
      BY <2>1
    <3> HIDE DEF y
    <3>2. y % 256 \in 0..255
      BY ONLY <3>1
    <3>3. y \div 256 \in 0..255
      BY ONLY <3>1
    <3> QED
      BY <3>2, <3>3 DEF y, Byte
  <2> DEFINE h == s.y \div 256
             l == s.y % 256
             m == s.m
             d == s.d
             B == Byte
  <2>6. h \in B /\ l \in B /\ m \in B /\ d \in B /\ 14 \in B /\ 2 \in B /\ 0 \in B
    BY <2>1, <2>4, <2>5
  <2>8. EncodeClock(s) = <<14, 2, h, l, m, d, 0>>
    BY <2>3
  <2> HIDE DEF h, l, m, d, B
  <2>7. <<14, 2, h, l, m, d, 0>> \in Seq(B)
    BY ONLY <2>6
  <2> HIDE DEF Byte, Lighting, Clock, Temperature, Enable, StatusRequest
  <2> QED
    BY <2>1, <2>2, <2>7, <2>8 DEF B
<1>5. CASE s \in R5
  <2>1. s.app = Clock /\ s.kind = "clock?" /\ s.app \in Byte
    BY <1>5
  <2>2. EncodeSal(s) = EncodeClock(s)
    BY <2>1 DEF EncodeSal
  <2>3. EncodeClock(s) = <<17, 3>>
    BY <2>1 DEF EncodeClock
  <2>4. 17 \in Byte /\ 3 \in Byte
    OBVIOUS
  <2> HIDE DEF Byte, Lighting, Clock, Temperature, Enable, StatusRequest
  <2> QED
    BY <2>1, <2>2, <2>3, <2>4, Bytes2, Zenon
<1>6. CASE s \in R6
  <2>1. s.app = Temperature /\ s.t \in 0..510 /\ s.app \in Byte /\ s.group \in Byte
    BY <1>6
  <2>2. EncodeSal(s) = <<2, s.group, s.t \div 2>>
    BY <2>1 DEF EncodeSal, EncodeTemperature
  <2>3. 2 \in Byte /\ s.t \div 2 \in Byte
    BY <2>1
  <2> HIDE DEF Byte, Lighting, Clock, Temperature, Enable, StatusRequest
  <2> QED
    BY <2>1, <2>2, <2>3, Bytes3, Zenon
<1>7. CASE s \in R7
  <2>1. s.app = Enable /\ s.app \in Byte /\ s.variable \in Byte /\ s.value \in Byte
    BY <1>7
  <2>2. EncodeSal(s) = <<2, s.variable, s.value>>
    BY <2>1 DEF EncodeSal, EncodeEnable
  <2>3. 2 \in Byte
    OBVIOUS
  <2> HIDE DEF Byte, Lighting, Clock, Temperature, Enable, StatusRequest
  <2> QED
    BY <2>1, <2>2, <2>3, Bytes3, Zenon
<1>8. CASE s \in R8
  <2>1. s.app = StatusRequest /\ s.app \in Byte /\ s.child \in Byte /\ s.group \in Byte
    BY <1>8
  <2> DEFINE head == IF s.level THEN <<115, 7>> ELSE <<122>>
             rest == <<s.child, 32 * (s.group \div 32)>>
  <2>2. EncodeSal(s) = head \o rest
    BY <2>1 DEF EncodeSal, EncodeStatus
  <2>3. 115 \in Byte /\ 7 \in Byte /\ 122 \in Byte /\ 32 * (s.group \div 32) \in Byte
    BY <2>1
  <2>4. <<115, 7>> \in Seq(Byte) /\ <<122>> \in Seq(Byte)
    BY <2>3, Bytes1, Bytes2, Zenon
  <2> HIDE DEF Byte, Lighting, Clock, Temperature, Enable, StatusRequest
  <2>5. head \in Seq(Byte)
    BY <2>4, Zenon
  <2>6. rest \in Seq(Byte)
    BY <2>1, <2>3, Bytes2, Zenon
  <2> HIDE DEF head, rest
  <2> QED
    BY <2>1, <2>2, <2>5, <2>6, BytesJoin, Zenon
<1> HIDE DEF Byte, Lighting, Clock, Temperature, Enable, StatusRequest
<1> HIDE DEF R1, R2, R3, R4, R5, R6, R7, R8
<1> QED
  BY <1>1, <1>2, <1>3, <1>4, <1>5, <1>6, <1>7, <1>8, <1>0, Zenon

\* A packet's messages become bytes, whatever their number.
LEMMA EncodedBytes ==
  ASSUME NEW m, Len(m) \in Nat, \A i \in 1..Len(m) : m[i] \in Sal
  PROVE  Encoded(m)[Len(m)] \in Seq(Byte)
<1> DEFINE N == Len(m)
           e(i) == EncodeSal(m[i])
           F(n, f) == f = [i \in 0..n |-> IF i = 0 THEN <<>> ELSE f[i - 1] \o e(i)]
           S == {n \in 0..N : \E f : F(n, f) /\ f[n] \in Seq(Byte)}
<1>1. \A i \in 1..N : e(i) \in Seq(Byte)
  BY SalBytes
<1> HIDE DEF e
<1>2. 0 \in S
  <2> DEFINE f == [i \in 0..0 |-> <<>>]
  <2>1. F(0, f)
    BY SMT
  <2>2. f[0] = <<>>
    OBVIOUS
  <2>3. <<>> \in Seq(Byte)
    <3> DEFINE B == Byte
    <3> HIDE DEF B
    <3>1. <<>> \in Seq(B)
      OBVIOUS
    <3> QED
      BY <3>1 DEF B
  <2>4. f[0] \in Seq(Byte)
    BY <2>2, <2>3, Zenon
  <2>5. 0 \in 0..N
    OBVIOUS
  <2> HIDE DEF F, f
  <2> QED
    BY <2>1, <2>4, <2>5, Zenon
<1>3. ASSUME NEW n \in 1..N, n - 1 \in S PROVE n \in S
  <2>1. PICK f : F(n - 1, f) /\ f[n - 1] \in Seq(Byte)
    BY <1>3, Zenon
  <2> DEFINE g == [i \in 0..n |-> IF i = 0 THEN <<>> ELSE f[i - 1] \o e(i)]
  <2>2. n \in Nat /\ n - 1 \in Nat /\ n # 0 /\ n \in 0..n
    OBVIOUS
  <2>3. \A i \in 0..n - 1 : g[i] = f[i]
    <3>1. f = [i \in 0..n - 1 |-> IF i = 0 THEN <<>> ELSE f[i - 1] \o e(i)]
      BY <2>1, Zenon
    <3>2. \A i \in 0..n - 1 : f[i] = IF i = 0 THEN <<>> ELSE f[i - 1] \o e(i)
      BY ONLY <3>1, Zenon
    <3>3. \A i \in 0..n - 1 : i \in 0..n
      BY <2>2
    <3> QED
      BY <3>2, <3>3, Zenon
  <2>4. \A i \in 0..n : i # 0 => i - 1 \in 0..n - 1
    BY <2>2
  <2>5. \A i \in 0..n : g[i] = IF i = 0 THEN <<>> ELSE g[i - 1] \o e(i)
    BY <2>3, <2>4
  <2>6. g = [i \in 0..n |-> g[i]]
    OBVIOUS
  <2>7. g[n] = f[n - 1] \o e(n)
    BY <2>2
  <2>8. F(n, g)
    <3> HIDE DEF g
    <3> QED
      BY <2>5, <2>6
  <2>9. g[n] \in Seq(Byte)
    <3> HIDE DEF g
    <3> QED
      BY <1>1, <2>1, <2>7, BytesJoin, Zenon
  <2>10. n \in 0..N
    OBVIOUS
  <2> HIDE DEF F, g
  <2> QED
    BY <2>8, <2>9, <2>10, Zenon
<1>4. N \in S
  <2>1. 0..N \subseteq S
    <3> HIDE DEF S
    <3> QED
      BY <1>2, <1>3, Upward
  <2>2. N \in 0..N
    OBVIOUS
  <2> QED
    BY <2>1, <2>2, Zenon
<1>5. PICK f : F(N, f) /\ f[N] \in Seq(Byte)
  BY <1>4, Zenon
<1> DEFINE E == CHOOSE k : F(N, k)
<1>6. Encoded(m) = E
  BY DEF Encoded, e
<1>7. E = f
  <2>1. F(N, E)
    <3> HIDE DEF F
    <3> QED
      BY <1>5, Zenon
  <2> HIDE DEF E
  <2> DEFINE U == {i \in 0..N : E[i] = f[i]}
  <2>2. E = [i \in 0..N |-> E[i]] /\ f = [i \in 0..N |-> f[i]]
    BY <1>5, <2>1
  <2>3. /\ \A i \in 0..N : E[i] = IF i = 0 THEN <<>> ELSE E[i - 1] \o e(i)
        /\ \A i \in 0..N : f[i] = IF i = 0 THEN <<>> ELSE f[i - 1] \o e(i)
    BY <1>5, <2>1
  <2> HIDE DEF F
  <2>4. 0 \in U
    BY <2>3
  <2>5. ASSUME NEW i \in 1..N, i - 1 \in U PROVE i \in U
    <3>1. i \in 0..N /\ i # 0 /\ E[i - 1] = f[i - 1]
      BY <2>5
    <3> QED
      BY <2>3, <3>1
  <2>6. 0..N \subseteq U
    <3> HIDE DEF U
    <3> QED
      BY <2>4, <2>5, Upward
  <2>7. \A i \in 0..N : E[i] = f[i]
    BY <2>6
  <2> QED
    BY <2>2, <2>7
<1> QED
  BY <1>5, <1>6, <1>7, Zenon

\* Whatever the messages and the bytes appended, a packet adds up to 0.
LEMMA PacketIsZero ==
  ASSUME NEW m, Len(m) \in Nat \ {0}, \A i \in 1..Len(m) : m[i] \in Sal,
         NEW from \in Byte \cup {NoSource}, NEW tail \in Seq(Byte)
  PROVE  LET p == EncodePacket(from, m, tail)
         IN p \in Seq(Byte) /\ p # <<>> /\ Total(p) % 256 = 0
<1> DEFINE addressed == IF from = NoSource THEN <<>> ELSE <<from>>
           body == Encoded(m)[Len(m)]
           head == <<m[1].app, 0>>
           all == <<PointToMultipoint>> \o addressed \o head \o body \o tail
           c == Checksum(all)
           p == Append(all, c)
<1>1. PointToMultipoint \in Byte /\ 0 \in Byte
  BY DEF PointToMultipoint, Byte
<1>2. <<PointToMultipoint>> \in Seq(Byte)
  BY <1>1, Bytes1, Zenon
<1>3. addressed \in Seq(Byte)
  <2>1. CASE from = NoSource
    <3> DEFINE B == Byte
    <3> HIDE DEF B
    <3>1. <<>> \in Seq(B)
      OBVIOUS
    <3> QED
      BY <2>1, <3>1, Zenon DEF B
  <2>2. CASE from # NoSource
    BY <2>2, Bytes1, Zenon
  <2> QED
    BY <2>1, <2>2
<1>4. head \in Seq(Byte)
  <2>1. 1 \in 1..Len(m)
    OBVIOUS
  <2>2. m[1].app \in Byte
    BY <2>1, SalBytes, Zenon
  <2> QED
    BY <1>1, <2>2, Bytes2, Zenon
<1>5. body \in Seq(Byte)
  BY EncodedBytes
<1>6. EncodePacket(from, m, tail) = p
  BY DEF EncodePacket, AddChecksum
<1> HIDE DEF addressed, head, body
<1>7. all \in Seq(Byte)
  BY <1>2, <1>3, <1>4, <1>5, BytesJoin, Zenon
<1> HIDE DEF all
<1> DEFINE a == Total(all)
<1>8. a \in Nat
  BY <1>7, SumType DEF Total
<1>9. c = (256 - (a % 256)) % 256
  BY DEF Checksum
<1> HIDE DEF a, c
<1>10. c \in 0..255 /\ (a + c) % 256 = 0
  BY ONLY <1>8, <1>9
<1>11. c \in Byte
  BY <1>10 DEF Byte
<1>12. Total(p) = a + c
  BY <1>7, <1>11, SumAppends DEF a
<1>13. p \in Seq(Byte) /\ p # <<>>
  <2>1. p \in Seq(Byte) /\ Len(p) = Len(all) + 1 /\ Len(all) \in Nat
    BY <1>7, <1>11, AppendAt
  <2> HIDE DEF p
  <2> QED
    BY <2>1
<1> HIDE DEF p
<1> QED
  BY <1>6, <1>10, <1>12, <1>13, Zenon

-----------------------------------------------------------------------------
(* The checksum *)

\* Adding 1 to 255 to one byte of bytes that add up to 0 leaves a sum that is not 0.
LEMMA ChangeShows ==
  ASSUME NEW a \in Nat, NEW b \in Byte, NEW by \in 1..255, a % 256 = 0
  PROVE  /\ (b + by) % 256 \in Byte
         /\ ((a - b) + ((b + by) % 256)) % 256 # 0
BY DEF Byte

\* The steps of a packet's journey keep the invariant.
LEMMA NoiseSteps ==
  ASSUME PyCodecAssumption, NoiseInv, [Next]_vars
  PROVE  NoiseInv'
<1>1. /\ sals \in Seq(Sals) /\ noisy \in BOOLEAN /\ NoiseIsRefused
      /\ phase \in {"compose", "line", "done"} /\ (phase = "compose" => ~noisy)
  BY Zenon DEF NoiseInv
<1>2. phase = "line" => wire \in Seq(Byte) /\ wire # <<>> /\ (Total(wire) % 256 = 0 <=> ~noisy)
  BY Zenon DEF NoiseInv
<1> DEFINE Sent == wire' \in Seq(Byte) /\ wire' # <<>> /\ (Total(wire') % 256 = 0 <=> ~noisy')
           Goal == /\ sals' \in Seq(Sals) /\ noisy' \in BOOLEAN
                   /\ phase' \in {"compose", "line", "done"}
                   /\ phase' = "compose" => ~noisy'
                   /\ phase' = "line" => Sent
                   /\ phase' = "done" /\ noisy' => result'.sals = Invalid
<1> SUFFICES Goal
  BY Zenon DEF NoiseInv, NoiseIsRefused, Invalid
<1>3. ASSUME NEW s \in Sals, AppendSal(s) PROVE Goal
  <2>1. /\ phase = "compose" /\ sals' = Append(sals, s)
        /\ phase' = phase /\ noisy' = noisy
    BY <1>3 DEF AppendSal
  <2>2. sals' \in Seq(Sals)
    BY <1>1, <2>1, AppendAt
  <2> QED
    BY <1>1, <2>1, <2>2
<1>4. ASSUME NEW from \in Sources \cup {NoSource}, NEW tail \in Tails, Encode(from, tail)
      PROVE  Goal
  <2>1. /\ phase = "compose" /\ sals # <<>> /\ phase' = "line"
        /\ sals' = sals /\ noisy' = noisy /\ wire' = EncodePacket(from, sals, tail)
    BY <1>4 DEF Encode
  <2>2. Len(sals) \in Nat \ {0} /\ \A i \in 1..Len(sals) : sals[i] \in Sals
    BY <1>1, <2>1
  <2>3. /\ \A i \in 1..Len(sals) : sals[i] \in Sal
        /\ from \in Byte \cup {NoSource} /\ tail \in Seq(Byte)
    BY <2>2, Zenon DEF PyCodecAssumption
  <2> DEFINE p == EncodePacket(from, sals, tail)
  <2>4. p \in Seq(Byte) /\ p # <<>> /\ Total(p) % 256 = 0
    BY <2>2, <2>3, PacketIsZero, Zenon
  <2> HIDE DEF p
  <2>5. Sent
    BY <1>1, <2>1, <2>4, Zenon DEF p
  <2> HIDE DEF Sent
  <2> QED
    BY <1>1, <2>1, <2>5
<1>5. ASSUME NEW i \in DOMAIN wire, NEW by \in Noise, Disturb(i, by) PROVE Goal
  <2>1. /\ phase = "line" /\ ~noisy /\ noisy' = TRUE /\ phase' = phase /\ sals' = sals
        /\ wire' = [wire EXCEPT ![i] = (@ + by) % 256]
    BY <1>5 DEF Disturb
  <2>2. wire \in Seq(Byte) /\ Total(wire) % 256 = 0
    BY <1>2, <2>1, Zenon
  <2>3. i \in 1..Len(wire)
    BY <1>5, <2>2
  <2>4. by \in 1..255
    BY Zenon DEF PyCodecAssumption
  <2>5. wire' = [wire EXCEPT ![i] = (wire[i] + by) % 256]
    BY <2>1
  <2>6. wire' \in Seq(Byte) /\ wire' # <<>> /\ Total(wire') % 256 # 0
    <3> DEFINE a == Total(wire)
               b == wire[i]
               x == (b + by) % 256
    <3>1. a \in Nat /\ b \in Byte
      BY <2>2, <2>3, SumType DEF Total
    <3>2. a % 256 = 0
      BY <2>2
    <3> HIDE DEF a, b
    <3>3. x \in Byte /\ ((a - b) + x) % 256 # 0
      BY ONLY <2>4, <3>1, <3>2, ChangeShows
    <3> HIDE DEF x
    <3> DEFINE t == [wire EXCEPT ![i] = x]
    <3>4. t \in Seq(Byte) /\ t # <<>> /\ Total(t) = (Total(wire) - wire[i]) + x
      BY <2>2, <2>3, <3>3, SumChanges, Zenon
    <3>5. wire' = t
      BY <2>5 DEF b, x
    <3> HIDE DEF t
    <3> QED
      BY <3>3, <3>4, <3>5, Zenon DEF a, b
  <2>7. Sent
    BY <2>1, <2>6, Zenon
  <2> HIDE DEF Sent
  <2> QED
    BY <1>1, <2>1, <2>7
<1>6. ASSUME Decode PROVE Goal
  <2>1. /\ phase = "line" /\ phase' = "done" /\ sals' = sals /\ noisy' = noisy
        /\ result' = DecodePacket(wire, source # NoSource)
    BY <1>6 DEF Decode
  <2>2. noisy => ~ValidChecksum(wire)
    BY <1>2, <2>1, ValidIsZero
  <2>3. noisy => result'.sals = Invalid
    <3>1. SUFFICES ASSUME noisy PROVE result'.sals = Invalid
      OBVIOUS
    <3>2. result' = [source |-> NoSource, sals |-> Invalid]
      BY <2>1, <2>2, <3>1, Zenon DEF DecodePacket
    <3> QED
      BY <3>2, Zenon
  <2> HIDE DEF Sent
  <2> QED
    BY <1>1, <2>1, <2>3
<1>7. CASE UNCHANGED vars
  <2>1. /\ phase' = phase /\ sals' = sals /\ noisy' = noisy /\ wire' = wire /\ result' = result
    BY <1>7 DEF vars
  <2>2. phase = "line" => Sent
    BY <1>2, <2>1, Zenon
  <2>3. phase = "done" /\ noisy => result.sals = Invalid
    BY <1>1, Zenon DEF NoiseIsRefused
  <2> HIDE DEF Sent
  <2> QED
    BY <1>1, <2>1, <2>2, <2>3
<1> HIDE DEF Goal
<1> QED
  BY <1>3, <1>4, <1>5, <1>6, <1>7, Zenon DEF Next

\* validate_cbus_checksum: for packets of any messages that encode() accepts, from
\* any unit and with any bytes appended to them, a change of one byte on the line is
\* never decoded into messages.
THEOREM NoiseIsRefusedCorrect == PyCodecAssumption => (Spec => []NoiseIsRefused)
<1> SUFFICES ASSUME PyCodecAssumption PROVE Spec => []NoiseIsRefused
  OBVIOUS
<1>1. Init => NoiseInv
  <2> SUFFICES ASSUME Init PROVE NoiseInv
    OBVIOUS
  <2>1. sals = <<>> /\ noisy = FALSE /\ phase = "compose"
    BY DEF Init
  <2>2. sals \in Seq(Sals)
    BY <2>1
  <2> QED
    BY <2>1, <2>2 DEF NoiseInv, NoiseIsRefused
<1>2. NoiseInv /\ [Next]_vars => NoiseInv'
  BY NoiseSteps
<1>3. NoiseInv => NoiseIsRefused
  BY DEF NoiseInv
<1> QED
  BY <1>1, <1>2, <1>3, PTL DEF Spec

=============================================================================
