-------------------------- MODULE PyStandInsProofs --------------------------
(***************************************************************************)
(* Proofs about the programs that play or question a device: the inductive *)
(* invariant of each, and the run's properties for every value of the      *)
(* constants.                                                              *)
(***************************************************************************)
EXTENDS PyStandIns, SequenceOrderProofs, TLAPS

-----------------------------------------------------------------------------
(* The emulator *)

\* Initially nothing was sent and every group is off.
LEMMA EmulatorInit == Emulator!EmulatorAssumption /\ Emulator!Init => Emulator!EmulatorInv
BY DEF Emulator!EmulatorAssumption, Emulator!Init, Emulator!EmulatorInv,
       Emulator!EmulatorTypes, Emulator!LastConfirmedRules, Emulator!FollowsLast,
       Emulator!LightingOf, Emulator!ConfirmedInOrder, Emulator!NumbersInOrder

\* A command that was sent has the highest number and is the last of its stream.
LEMMA EmulatorSends ==
  ASSUME Emulator!EmulatorAssumption, Emulator!EmulatorInv,
         NEW c \in Client, NEW cmd \in EmuCommand, Emulator!SendCommand(c, cmd)
  PROVE  Emulator!EmulatorInv'
<1> DEFINE x == <<sent + 1, cmd>>
           S == Nat \X EmuCommand
<1>1. /\ sent \in Nat /\ sent' = sent + 1 /\ sent' \in 0..EmuCommands
      /\ stream \in [Client -> Seq(S)] /\ x \in S
      /\ stream' = [stream EXCEPT ![c] = Append(@, x)]
      /\ UNCHANGED <<level, busy, log, written>>
  BY DEF Emulator!SendCommand, Emulator!EmulatorInv, Emulator!EmulatorTypes,
         Emulator!EmulatorAssumption
<1>2. stream[c] \in Seq(S)
  BY <1>1
<1>3. /\ stream'[c] \in Seq(S) /\ Len(stream'[c]) = Len(stream[c]) + 1
      /\ Len(stream[c]) \in Nat /\ DOMAIN stream[c] = 1..Len(stream[c])
      /\ DOMAIN stream'[c] = 1..Len(stream[c]) + 1
      /\ \A i \in 1..Len(stream[c]) : stream'[c][i] = stream[c][i]
      /\ stream'[c][Len(stream[c]) + 1] = x
      /\ \A d \in Client : d # c => stream'[d] = stream[d]
      /\ stream' \in [Client -> Seq(S)]
  <2>1. stream'[c] = Append(stream[c], x)
    BY <1>1
  <2> HIDE DEF x, S
  <2> QED
    BY <1>1, <1>2, <2>1, AppendAt
<1> HIDE DEF S
<1>4. Emulator!EmulatorTypes'
  BY <1>1, <1>3 DEF Emulator!EmulatorTypes, Emulator!EmulatorInv, Emulator!Group, S
<1>5. Emulator!LastConfirmedRules' /\ Emulator!ConfirmedInOrder'
  BY <1>1 DEF Emulator!EmulatorInv, Emulator!LastConfirmedRules, Emulator!FollowsLast,
              Emulator!LightingOf, Emulator!ConfirmedInOrder
<1>6. ASSUME NEW d \in Client PROVE Emulator!NumbersInOrder(d)'
  <2>1. Emulator!NumbersInOrder(d)
    BY DEF Emulator!EmulatorInv
  <2>2. /\ busy[d] # <<>> => busy[d][1] \in Nat
        /\ \A k \in DOMAIN written : written[k][2] \in Nat
        /\ \A i \in DOMAIN stream[d] : stream[d][i][1] \in Nat
    BY DEF Emulator!EmulatorInv, Emulator!EmulatorTypes
  <2>3. CASE d # c
    BY <1>1, <1>3, <2>1, <2>2, <2>3 DEF Emulator!NumbersInOrder
  <2>4. CASE d = c
    BY <1>1, <1>3, <2>1, <2>2, <2>4 DEF Emulator!NumbersInOrder
  <2> QED
    BY <2>3, <2>4
<1> QED
  BY <1>4, <1>5, <1>6 DEF Emulator!EmulatorInv

\* The first command of a stream becomes the one that is delayed.
LEMMA EmulatorReceives ==
  ASSUME Emulator!EmulatorAssumption, Emulator!EmulatorInv,
         NEW c \in Client, NEW cut \in BOOLEAN, Emulator!Receive(c, cut)
  PROVE  Emulator!EmulatorInv'
<1> DEFINE S == Nat \X EmuCommand
           B == Nat \X Emulator!Read
           h == Head(stream[c])[1]
           cmd == Emulator!AsRead(c, Head(stream[c])[2])
<1>1. /\ sent \in Nat /\ stream \in [Client -> Seq(S)] /\ stream[c] # <<>>
      /\ stream[c] \in Seq(S) /\ busy[c] = <<>>
      /\ busy' = [busy EXCEPT ![c] = <<h, cmd>>]
      /\ stream' = [stream EXCEPT ![c] = Tail(@)]
      /\ UNCHANGED <<level, written, sent>>
  BY DEF Emulator!Receive, Emulator!EmulatorInv, Emulator!EmulatorTypes
<1>2. /\ stream'[c] \in Seq(S) /\ Len(stream'[c]) = Len(stream[c]) - 1
      /\ Len(stream[c]) \in Nat \ {0} /\ DOMAIN stream[c] = 1..Len(stream[c])
      /\ DOMAIN stream'[c] = 1..Len(stream[c]) - 1
      /\ \A i \in 1..Len(stream[c]) - 1 : stream'[c][i] = stream[c][i + 1]
      /\ \A d \in Client : d # c => stream'[d] = stream[d]
      /\ stream' \in [Client -> Seq(S)] /\ Head(stream[c]) = stream[c][1]
      /\ Head(stream[c]) \in S
  <2>1. stream'[c] = Tail(stream[c])
    BY <1>1
  <2> HIDE DEF S
  <2> QED
    BY <1>1, <2>1, TailAt
<1>3. /\ busy'[c][1] = stream[c][1][1] /\ \A d \in Client : d # c => busy'[d] = busy[d]
      /\ busy' \in [Client -> {<<>>} \cup B]
  <2>1. h \in Nat /\ h = stream[c][1][1] /\ Head(stream[c])[2] \in EmuCommand
    BY <1>2
  <2>2. cmd \in Emulator!Read
    BY <2>1 DEF Emulator!AsRead, Emulator!Read
  <2>3. busy \in [Client -> {<<>>} \cup B]
    BY DEF Emulator!EmulatorInv, Emulator!EmulatorTypes
  <2> HIDE DEF h, cmd
  <2> QED
    BY <1>1, <2>1, <2>2, <2>3
<1>4. log' \in Seq(Nat) /\ Len(log') <= LogMax
  <2>1. /\ log \in Seq(Nat) /\ Len(log) <= LogMax /\ LogMax \in Nat \ {0}
        /\ h \in Nat /\ log' = Emulator!Append1(h)
    BY <1>2 DEF Emulator!Receive, Emulator!EmulatorInv, Emulator!EmulatorTypes,
                Emulator!EmulatorAssumption
  <2> HIDE DEF h
  <2>2. CASE Len(log) = LogMax
    <3>1. log # <<>> /\ log' = Append(Tail(log), h)
      BY <2>1, <2>2 DEF Emulator!Append1
    <3>2. Tail(log) \in Seq(Nat) /\ Len(Tail(log)) = Len(log) - 1
      BY <2>1, <3>1, TailAt
    <3> QED
      BY <2>1, <2>2, <3>1, <3>2, AppendAt
  <2>3. CASE Len(log) # LogMax
    <3>1. log' = Append(log, h)
      BY <2>3, <2>1 DEF Emulator!Append1
    <3> QED
      BY <2>1, <2>3, <3>1, AppendAt
  <2> QED
    BY <2>2, <2>3
<1> HIDE DEF S, B, h, cmd
<1>5. Emulator!EmulatorTypes'
  BY <1>1, <1>2, <1>3, <1>4
     DEF Emulator!EmulatorTypes, Emulator!EmulatorInv, Emulator!Group, S, B, Emulator!Read,
         Emulator!HeadedByLF
<1>6. Emulator!LastConfirmedRules' /\ Emulator!ConfirmedInOrder'
  BY <1>1 DEF Emulator!EmulatorInv, Emulator!LastConfirmedRules, Emulator!FollowsLast,
              Emulator!LightingOf, Emulator!ConfirmedInOrder
<1>7. ASSUME NEW d \in Client PROVE Emulator!NumbersInOrder(d)'
  <2>1. Emulator!NumbersInOrder(d)
    BY DEF Emulator!EmulatorInv
  <2>2. CASE d # c
    BY <1>1, <1>2, <1>3, <2>1, <2>2 DEF Emulator!NumbersInOrder
  <2>3. CASE d = c
    <3>1. \A i \in DOMAIN stream'[c] : /\ i + 1 \in DOMAIN stream[c]
                                       /\ stream'[c][i] = stream[c][i + 1]
      BY <1>2
    <3>2. 1 \in DOMAIN stream[c] /\ \A i \in DOMAIN stream'[c] : 1 < i + 1 /\ i \in Nat
      BY <1>2
    <3>3. /\ \A i, j \in DOMAIN stream'[c] : i < j => stream'[c][i][1] < stream'[c][j][1]
          /\ \A i \in DOMAIN stream'[c] : stream'[c][i][1] <= sent
      BY <2>1, <2>3, <3>1, <3>2 DEF Emulator!NumbersInOrder
    <3>4. /\ busy'[c][1] <= sent
          /\ \A i \in DOMAIN stream'[c] : busy'[c][1] < stream'[c][i][1]
      BY <1>3, <2>1, <2>3, <3>1, <3>2 DEF Emulator!NumbersInOrder
    <3>5. \A k \in DOMAIN written : written[k][1] = c =>
            /\ written[k][2] <= sent
            /\ \A i \in DOMAIN stream'[c] : written[k][2] < stream'[c][i][1]
            /\ written[k][2] < busy'[c][1]
      BY <1>3, <2>1, <2>3, <3>1, <3>2 DEF Emulator!NumbersInOrder
    <3> QED
      BY <1>1, <2>3, <3>3, <3>4, <3>5 DEF Emulator!NumbersInOrder
  <2> QED
    BY <2>2, <2>3
<1> QED
  BY <1>5, <1>6, <1>7 DEF Emulator!EmulatorInv
\* The command that was delayed takes effect and is confirmed in one step.
LEMMA EmulatorHandles ==
  ASSUME Emulator!EmulatorAssumption, Emulator!EmulatorInv,
         NEW c \in Client, NEW raises \in BOOLEAN, Emulator!Handle(c, raises)
  PROVE  Emulator!EmulatorInv'
<1> DEFINE id == busy[c][1]
           cmd == busy[c][2]
           x == <<c, id, cmd>>
           W == Client \X Nat \X Emulator!Read
           S == Nat \X EmuCommand
           n == Len(written)
<1>1. /\ id \in Nat /\ cmd \in Emulator!Read /\ x \in W /\ written \in Seq(W)
      /\ busy[c] # <<>> /\ busy' = [busy EXCEPT ![c] = <<>>]
      /\ level' = Emulator!HandleLighting(cmd)
      /\ written' = IF Emulator!Confirms(cmd) THEN Append(written, x) ELSE written
      /\ UNCHANGED <<log, sent>>
      /\ level \in [Emulator!Group -> {0, 128, 255}]
  BY DEF Emulator!Handle, Emulator!EmulatorInv, Emulator!EmulatorTypes
<1> HIDE DEF id, cmd
<1>2. /\ busy'[c] = <<>> /\ \A d \in Client : d # c => busy'[d] = busy[d]
      /\ busy' \in [Client -> {<<>>} \cup (Nat \X Emulator!Read)]
  BY <1>1 DEF Emulator!EmulatorInv, Emulator!EmulatorTypes
<1>s. /\ stream' \in [Client -> Seq(S)] /\ \A d \in Client : Len(stream'[d]) <= sent
      /\ \A d \in Client : \A i \in DOMAIN stream'[d] :
           i \in DOMAIN stream[d] /\ stream'[d][i] = stream[d][i]
  <2>1. stream' = IF raises THEN [stream EXCEPT ![c] = <<>>] ELSE stream
    BY DEF Emulator!Handle
  <2>2. /\ stream \in [Client -> Seq(S)] /\ \A d \in Client : Len(stream[d]) <= sent
        /\ sent \in Nat
    BY DEF Emulator!EmulatorInv, Emulator!EmulatorTypes
  <2>3. <<>> \in Seq(S) /\ Len(<<>>) = 0 /\ DOMAIN <<>> = {}
    OBVIOUS
  <2> HIDE DEF S
  <2> QED
    BY <2>1, <2>2, <2>3
<1>3. /\ written' \in Seq(W) /\ n \in Nat /\ DOMAIN written = 1..n
      /\ DOMAIN written' = IF Emulator!Confirms(cmd) THEN 1..n + 1 ELSE 1..n
      /\ \A i \in 1..n : written'[i] = written[i]
      /\ Emulator!Confirms(cmd) => written'[n + 1] = x
  <2> HIDE DEF x, W
  <2> QED
    BY <1>1, AppendAt
<1>4. /\ \A k \in DOMAIN written' : k \in Nat
      /\ \A k \in DOMAIN written' : k \in 1..n \/ (k = n + 1 /\ written'[k] = x)
  <2> HIDE DEF n, x
  <2> QED
    BY <1>3, SMTT(30)
<1>5. level' \in [Emulator!Group -> {0, 128, 255}]
  BY <1>1 DEF Emulator!HandleLighting, Emulator!SetGroupLevel
<1>6. Emulator!EmulatorTypes'
  BY <1>1, <1>2, <1>3, <1>5, <1>s
     DEF Emulator!EmulatorTypes, Emulator!EmulatorInv, Emulator!Group, Emulator!Read,
         Emulator!HeadedByLF
<1>7. Emulator!NumbersInOrder(c) /\ busy[c][1] = id
  BY DEF Emulator!EmulatorInv, id
<1>8. Emulator!ConfirmedInOrder'
  <2> SUFFICES ASSUME NEW i \in DOMAIN written', NEW j \in DOMAIN written', i < j,
                      written'[i][1] = written'[j][1]
               PROVE  written'[i][2] < written'[j][2]
    BY DEF Emulator!ConfirmedInOrder
  <2>1. i \in 1..n /\ written'[i] = written[i] /\ i \in DOMAIN written
    BY <1>3, <1>4
  <2>2. CASE j \in 1..n
    BY <1>3, <2>1, <2>2 DEF Emulator!ConfirmedInOrder, Emulator!EmulatorInv
  <2>3. CASE j = n + 1 /\ written'[j] = x
    <3>1. written[i][1] = c /\ written'[j][2] = id
      BY <2>1, <2>3
    <3> QED
      BY <1>1, <1>7, <2>1, <3>1 DEF Emulator!NumbersInOrder
  <2> QED
    BY <1>4, <2>2, <2>3
<1>9. ASSUME NEW d \in Client PROVE Emulator!NumbersInOrder(d)'
  <2>1. Emulator!NumbersInOrder(d)
    BY DEF Emulator!EmulatorInv
  <2>2. ASSUME NEW k \in DOMAIN written', written'[k][1] = d
        PROVE  /\ written'[k][2] <= sent
               /\ \A i \in DOMAIN stream'[d] : written'[k][2] < stream'[d][i][1]
               /\ busy'[d] # <<>> => written'[k][2] < busy'[d][1]
    <3>1. CASE k \in 1..n
      <4>1. k \in DOMAIN written /\ written'[k] = written[k]
        BY <1>3, <3>1
      <4> QED
        BY <1>2, <1>s, <2>1, <2>2, <4>1 DEF Emulator!NumbersInOrder
    <3>2. CASE k = n + 1 /\ written'[k] = x
      <4>1. d = c /\ written'[k][2] = id
        BY <2>2, <3>2
      <4> QED
        BY <1>1, <1>2, <1>s, <1>7, <4>1 DEF Emulator!NumbersInOrder
    <3> QED
      BY <1>4, <3>1, <3>2
  <2>3. busy'[d] # <<>> => busy'[d] = busy[d]
    BY <1>2
  <2>4. /\ \A i, j \in DOMAIN stream'[d] : i < j => stream'[d][i][1] < stream'[d][j][1]
        /\ \A i \in DOMAIN stream'[d] : stream'[d][i][1] <= sent'
    BY <1>1, <1>s, <2>1 DEF Emulator!NumbersInOrder
  <2>5. busy'[d] # <<>> => /\ busy'[d][1] <= sent'
                           /\ \A i \in DOMAIN stream'[d] : busy'[d][1] < stream'[d][i][1]
    BY <1>1, <1>s, <2>1, <2>3 DEF Emulator!NumbersInOrder
  <2> HIDE DEF n, x
  <2> QED
    BY <1>1, <2>2, <2>4, <2>5 DEF Emulator!NumbersInOrder
<1>10. ASSUME \A cm \in EmuCommand : cm[1] \in {"on", "off", "ramp"} => Emulator!Confirms(cm),
              NEW g \in Emulator!Group
       PROVE  Emulator!FollowsLast(g)'
  <2>1. Emulator!FollowsLast(g)
    BY <1>10 DEF Emulator!EmulatorInv, Emulator!LastConfirmedRules
  <2>2. CASE Emulator!Lights(cmd, g)
    <3>1. Emulator!Confirms(cmd) /\ cmd[3] = g /\ cmd[1] \in {"on", "off", "ramp"}
      <4>1. cmd[1] \in {"on", "off", "ramp"} /\ cmd[3] = g
        BY <2>2 DEF Emulator!Lights
      <4>2. cmd \in EmuCommand
        BY <1>1, <4>1 DEF Emulator!Read, Emulator!HeadedByLF
      <4> QED
        BY <1>10, <4>1, <4>2
    <3>2. level'[g] = Emulator!LevelAsked(cmd)
      BY <1>1, <3>1 DEF Emulator!HandleLighting, Emulator!SetGroupLevel, Emulator!LevelAsked
    <3>3. n + 1 \in DOMAIN written' /\ written'[n + 1] = x /\ x[3] = cmd
      BY <1>3, <3>1
    <3>4. n + 1 \in Emulator!LightingOf(g)'
      BY <2>2, <3>3 DEF Emulator!LightingOf
    <3>5. \A j \in Emulator!LightingOf(g)' : j <= n + 1
      BY <1>3, <3>1 DEF Emulator!LightingOf
    <3>6. level'[g] = Emulator!LevelAsked(written'[n + 1][3])
      BY <3>2, <3>3
    <3> QED
      BY <3>4, <3>5, <3>6 DEF Emulator!FollowsLast, Emulator!LevelAsked
  <2>3. CASE ~Emulator!Lights(cmd, g)
    <3>1. level'[g] = level[g]
      BY <1>1, <2>3 DEF Emulator!HandleLighting, Emulator!SetGroupLevel, Emulator!Lights
    <3>2. Emulator!LightingOf(g)' = Emulator!LightingOf(g)
      <4>1. ASSUME NEW k \in DOMAIN written', Emulator!Lights(written'[k][3], g) PROVE k \in 1..n
        <5>1. x[3] = cmd
          OBVIOUS
        <5> QED
          BY <1>4, <2>3, <4>1, <5>1
      <4>2. /\ \A k \in DOMAIN written' : Emulator!Lights(written'[k][3], g) => k \in 1..n
            /\ \A k \in 1..n : /\ k \in DOMAIN written' /\ k \in DOMAIN written
                               /\ written'[k] = written[k]
            /\ DOMAIN written = 1..n
        BY <4>1, <1>3
      <4> HIDE DEF n, x
      <4> QED
        BY <4>2 DEF Emulator!LightingOf, Emulator!Lights
    <3>3. \A i \in Emulator!LightingOf(g) : written'[i] = written[i]
      BY <1>3 DEF Emulator!LightingOf
    <3> QED
      BY <2>1, <3>1, <3>2, <3>3 DEF Emulator!FollowsLast, Emulator!LevelAsked
  <2> QED
    BY <2>2, <2>3
<1>11. Emulator!LastConfirmedRules'
  BY <1>10 DEF Emulator!LastConfirmedRules, Emulator!Group, Emulator!Confirms
<1> QED
  BY <1>6, <1>8, <1>9, <1>11 DEF Emulator!EmulatorInv

\* A client that leaves takes the end of its stream with it.
LEMMA EmulatorLeaves ==
  ASSUME Emulator!EmulatorAssumption, Emulator!EmulatorInv,
         NEW c \in Client, NEW n \in 0..Len(stream[c]), Emulator!Leave(c, n)
  PROVE  Emulator!EmulatorInv'
<1> DEFINE S == Nat \X EmuCommand
<1>1. /\ stream \in [Client -> Seq(S)] /\ sent \in Nat
      /\ \A d \in Client : Len(stream[d]) <= sent
      /\ stream' = [stream EXCEPT ![c] = SubSeq(@, 1, n)]
      /\ UNCHANGED <<level, busy, log, written, sent>>
  BY DEF Emulator!Leave, Emulator!EmulatorInv, Emulator!EmulatorTypes
<1> HIDE DEF S
<1>2. /\ stream'[c] \in Seq(S) /\ Len(stream'[c]) <= Len(stream[c])
      /\ Len(stream[c]) \in Nat /\ Len(stream'[c]) \in Nat
      /\ \A i \in DOMAIN stream'[c] : i \in DOMAIN stream[c] /\ stream'[c][i] = stream[c][i]
  <2>1. stream[c] \in Seq(S) /\ stream'[c] = SubSeq(stream[c], 1, n) /\ n \in Nat
    BY <1>1
  <2> QED
    BY <2>1
<1>3. /\ stream' \in [Client -> Seq(S)] /\ \A d \in Client : Len(stream'[d]) <= sent
      /\ \A d \in Client : \A i \in DOMAIN stream'[d] :
           i \in DOMAIN stream[d] /\ stream'[d][i] = stream[d][i]
  BY <1>1, <1>2
<1>4. Emulator!EmulatorTypes'
  BY <1>1, <1>3 DEF Emulator!EmulatorTypes, Emulator!EmulatorInv, Emulator!Group, S,
       Emulator!Read, Emulator!HeadedByLF
<1>5. Emulator!LastConfirmedRules' /\ Emulator!ConfirmedInOrder'
  BY <1>1 DEF Emulator!EmulatorInv, Emulator!LastConfirmedRules, Emulator!FollowsLast,
              Emulator!LightingOf, Emulator!ConfirmedInOrder
<1>6. ASSUME NEW d \in Client PROVE Emulator!NumbersInOrder(d)'
  BY <1>1, <1>3 DEF Emulator!EmulatorInv, Emulator!NumbersInOrder
<1> QED
  BY <1>4, <1>5, <1>6 DEF Emulator!EmulatorInv

\* Every step of the emulator keeps its invariant.
LEMMA EmulatorStep ==
  ASSUME Emulator!EmulatorAssumption, Emulator!EmulatorInv, [Emulator!Next]_(Emulator!vars)
  PROVE  Emulator!EmulatorInv'
<1>1. ASSUME UNCHANGED Emulator!vars PROVE Emulator!EmulatorInv'
  BY <1>1 DEF Emulator!vars, Emulator!EmulatorInv, Emulator!EmulatorTypes,
       Emulator!LastConfirmedRules, Emulator!FollowsLast, Emulator!LightingOf,
       Emulator!ConfirmedInOrder, Emulator!NumbersInOrder
<1> QED
  BY <1>1, EmulatorSends, EmulatorReceives, EmulatorHandles, EmulatorLeaves
     DEF Emulator!Next, Emulator!Done

\* What the run checks follows.
LEMMA EmulatorHolds ==
  ASSUME Emulator!EmulatorAssumption, Emulator!EmulatorInv
  PROVE  Emulator!TypeOK /\ Emulator!LastConfirmedRules /\ Emulator!ConfirmedInOrder
<1>1. ASSUME NEW c \in Client PROVE Len(stream[c]) <= EmuCommands
  <2>1. stream[c] \in Seq(Nat \X EmuCommand)
    BY DEF Emulator!EmulatorInv, Emulator!EmulatorTypes
  <2>2. Len(stream[c]) \in Nat
    BY <2>1
  <2> QED
    BY <2>2 DEF Emulator!EmulatorInv, Emulator!EmulatorTypes, Emulator!EmulatorAssumption
<1> QED
  BY <1>1 DEF Emulator!EmulatorInv, Emulator!EmulatorTypes, Emulator!TypeOK
-----------------------------------------------------------------------------
(* The simulator *)

\* The next code, without the remainder.
LEMMA CodeTurns ==
  ASSUME Codes \in Nat \ {0}, NEW i \in 0..Codes - 1
  PROVE  Sim!NextCode(i) = IF i + 1 = Codes THEN 0 ELSE i + 1
<1>1. CASE i + 1 = Codes
  BY <1>1 DEF Sim!NextCode
<1>2. CASE i + 1 < Codes
  BY <1>2 DEF Sim!NextCode
<1> QED
  BY <1>1, <1>2

\* Setting a level keeps both records of a configured group together; another
\* group is marked as stray.
LEMMA LevelSet ==
  ASSUME Sim!SimAssumption, Sim!LevelsInv, NEW a, NEW g, NEW v \in Sim!Level,
         Sim!SetGroupLevel(a, g, v)
  PROVE  Sim!LevelsInv'
<1>1. /\ hier \in [Known -> Sim!Level] /\ light \in [Sim!Group -> Sim!Level \cup {Sim!Absent}]
      /\ hier' = IF <<a, g>> \in Known THEN [hier EXCEPT ![<<a, g>>] = v] ELSE hier
      /\ light' = [light EXCEPT ![g] = v]
      /\ strayed' = (strayed \/ <<a, g>> \notin Known)
      /\ Known \subseteq App \X Sim!Group
  BY DEF Sim!LevelsInv, Sim!SetGroupLevel, Sim!SetHier, Sim!SimAssumption
<1>2. /\ hier' \in [Known -> Sim!Level] /\ light' \in [Sim!Group -> Sim!Level \cup {Sim!Absent}]
      /\ strayed' \in BOOLEAN
  BY <1>1 DEF Sim!LevelsInv
<1>3. Sim!LightsAgree'
  <2> SUFFICES ASSUME ~strayed', NEW k \in Known,
                      \A b \in App : <<b, k[2]>> \in Known => b = k[1]
               PROVE  light'[k[2]] = hier'[k]
    BY DEF Sim!LightsAgree
  <2>0. <<a, g>> \in Known /\ ~strayed
    BY <1>1, Zenon
  <2>1. k = <<k[1], k[2]>> /\ k[2] \in Sim!Group /\ a \in App
    BY <1>1, <2>0
  <2>2. light[k[2]] = hier[k]
    BY <2>0, <2>1 DEF Sim!LevelsInv, Sim!LightsAgree
  <2>3. CASE k[2] = g
    <3>1. k = <<a, g>>
      BY <2>0, <2>1, <2>3
    <3> QED
      BY <1>1, <2>0, <2>1, <2>3, <3>1
  <2>4. CASE k[2] # g
    BY <1>1, <2>0, <2>1, <2>2, <2>4
  <2> QED
    BY <2>3, <2>4
<1> QED
  BY <1>2, <1>3 DEF Sim!LevelsInv, Sim!Level, Sim!Group, Sim!Absent

\* A reset clears both records.
LEMMA LevelsReset ==
  ASSUME Sim!SimAssumption, Sim!LevelsInv, Sim!Reset
  PROVE  Sim!LevelsInv'
<1>1. /\ hier \in [Known -> Sim!Level] /\ light \in [Sim!Group -> Sim!Level \cup {Sim!Absent}]
      /\ hier' = [k \in Known |-> 0]
      /\ light' = [g \in Sim!Group |-> IF light[g] = Sim!Absent THEN Sim!Absent ELSE 0]
      /\ strayed' = strayed /\ Known \subseteq App \X Sim!Group
  BY DEF Sim!LevelsInv, Sim!Reset, Sim!SimAssumption
<1>2. /\ hier' \in [Known -> Sim!Level] /\ light' \in [Sim!Group -> Sim!Level \cup {Sim!Absent}]
      /\ strayed' \in BOOLEAN
  BY <1>1 DEF Sim!LevelsInv, Sim!Level
<1>3. Sim!LightsAgree'
  <2> SUFFICES ASSUME ~strayed', NEW k \in Known,
                      \A b \in App : <<b, k[2]>> \in Known => b = k[1]
               PROVE  light'[k[2]] = hier'[k]
    BY DEF Sim!LightsAgree
  <2>1. light[k[2]] = hier[k] /\ hier[k] \in Sim!Level /\ k[2] \in Sim!Group
    BY <1>1 DEF Sim!LevelsInv, Sim!LightsAgree
  <2>2. light[k[2]] # Sim!Absent
    BY <2>1 DEF Sim!Level, Sim!Absent
  <2> QED
    BY <1>1, <2>1, <2>2
<1> QED
  BY <1>2, <1>3 DEF Sim!LevelsInv, Sim!Level, Sim!Group, Sim!Absent

\* A command that is logged is the newest of the history, which drops its
\* oldest when it is full.
LEMMA HistoryLogs ==
  ASSUME Sim!SimAssumption, Sim!HistoryInv, Len(history) <= HistoryMax, Sim!LogCommand,
         received' \in Nat
  PROVE  Sim!HistoryInv' /\ Len(history') <= HistoryMax
<1> DEFINE x == received + 1
           h == Append(history, x)
           n == Len(logged)
           m == Len(history)
           k == n - m
<1>1. /\ history \in Seq(Nat) /\ logged \in Seq(Nat) /\ x \in Nat
      /\ m <= n /\ (n < HistoryMax => m = n) /\ HistoryMax \in Nat \ {0}
      /\ (n >= HistoryMax => m = HistoryMax)
      /\ m \in Nat /\ n \in Nat /\ m <= HistoryMax
      /\ history = SubSeq(logged, k + 1, n)
      /\ logged' = Append(logged, x)
      /\ history' = IF Len(h) > HistoryMax THEN SubSeq(h, Len(h) - HistoryMax + 1, Len(h)) ELSE h
  BY DEF Sim!HistoryInv, Sim!EndOfLog, Sim!LogCommand, Sim!SimAssumption
<1> HIDE DEF x
<1>2. /\ h \in Seq(Nat) /\ Len(h) = m + 1 /\ h[m + 1] = x /\ \A i \in 1..m : h[i] = history[i]
      /\ logged' \in Seq(Nat) /\ Len(logged') = n + 1 /\ logged'[n + 1] = x
      /\ \A i \in 1..n : logged'[i] = logged[i]
  BY <1>1, AppendAt
<1>3. k \in Nat /\ n = k + m
  BY <1>1
<1> HIDE DEF h, n, m, k
<1>4. \A i \in 1..m : history[i] = logged[k + i]
  <2>1. history = SubSeq(logged, k + 1, k + m) /\ k + m <= Len(logged)
    BY <1>1, <1>3 DEF n
  <2>2. \A i \in 1..m : SubSeq(logged, k + 1, k + m)[i] = logged[k + i]
    <3>1. logged \in Seq(Nat) /\ k \in Nat /\ m \in Nat /\ k + m <= Len(logged)
      BY <1>1, <1>3, <2>1, Zenon
    <3> QED
      BY ONLY <3>1, SubSeqAt
  <2> QED
    BY <2>1, <2>2, Zenon
<1>5. \A i \in 1..m + 1 : h[i] = logged'[k + i]
  <2> TAKE i \in 1..m + 1
  <2>1. CASE i \in 1..m
    <3>1. k + i \in 1..n
      BY <1>1, <1>3, <2>1
    <3> QED
      BY <1>2, <1>4, <2>1, <3>1
  <2>2. CASE i = m + 1
    <3>1. k + i = n + 1
      BY <1>1, <1>3, <2>2
    <3> QED
      BY <1>2, <2>2, <3>1
  <2>3. i \in 1..m \/ i = m + 1
    BY <1>1
  <2> QED
    BY <2>1, <2>2, <2>3
<1>6. CASE m = HistoryMax
  <2> DEFINE k1 == k + 1
             s == SubSeq(logged', k1 + 1, k1 + m)
  <2>1. history' = SubSeq(h, 1 + 1, 1 + m) /\ 1 + m <= Len(h)
    BY <1>1, <1>2, <1>6
  <2>2. history' \in Seq(Nat) /\ Len(history') = m /\ \A i \in 1..m : history'[i] = h[1 + i]
    <3>1. h \in Seq(Nat) /\ 1 \in Nat /\ m \in Nat /\ 1 + m <= Len(h)
      BY <1>1, <1>2, <2>1, Zenon
    <3> DEFINE u == SubSeq(h, 1 + 1, 1 + m)
    <3>2. u \in Seq(Nat) /\ Len(u) = m /\ \A i \in 1..m : u[i] = h[1 + i]
      BY ONLY <3>1, SubSeqAt
    <3> HIDE DEF u
    <3>3. history' = u
      BY <2>1 DEF u
    <3> QED
      BY <3>2, <3>3, Zenon
  <2>3. k1 \in Nat /\ k1 + m <= Len(logged') /\ k1 + m = n + 1
    BY <1>1, <1>2, <1>3
  <2> HIDE DEF k1
  <2>4. s \in Seq(Nat) /\ Len(s) = m /\ \A i \in 1..m : s[i] = logged'[k1 + i]
    <3>1. logged' \in Seq(Nat) /\ k1 \in Nat /\ m \in Nat /\ k1 + m <= Len(logged')
      BY <1>1, <1>2, <2>3, Zenon
    <3> QED
      BY ONLY <3>1, SubSeqAt DEF s
  <2>5. ASSUME NEW i \in 1..m PROVE s[i] = history'[i]
    <3>1. 1 + i \in 1..m + 1 /\ k + (1 + i) = k1 + i
      BY <1>1, <1>3 DEF k1
    <3> QED
      BY <1>5, <2>2, <2>4, <3>1
  <2> HIDE DEF s
  <2>6. history' = s
    BY <2>2, <2>4, <2>5, SameSeq
  <2>7. /\ Len(logged') - Len(history') + 1 = k1 + 1
        /\ Len(history') <= Len(logged') /\ Len(history') = HistoryMax
        /\ ~(Len(logged') < HistoryMax)
    <3>1. /\ m \in Nat /\ k \in Nat /\ n = k + m /\ HistoryMax \in Nat
          /\ Len(logged') = n + 1 /\ Len(history') = m
      BY <1>1, <1>2, <1>3, <2>2, Zenon
    <3> QED
      BY <1>6, <3>1 DEF k1
  <2>8. history' = SubSeq(logged', Len(logged') - Len(history') + 1, Len(logged'))
    BY <1>2, <2>3, <2>6, <2>7 DEF s
  <2> QED
    BY <1>1, <1>2, <2>2, <2>7, <2>8 DEF Sim!HistoryInv, Sim!EndOfLog
<1>7. CASE m < HistoryMax
  <2> DEFINE s == SubSeq(logged', 0 + 1, 0 + (n + 1))
  <2>1. history' = h /\ m = n /\ k = 0
    BY <1>1, <1>2, <1>3, <1>7
  <2>2. s \in Seq(Nat) /\ Len(s) = n + 1 /\ \A i \in 1..n + 1 : s[i] = logged'[0 + i]
    <3>1. n + 1 \in Nat /\ 0 + (n + 1) <= Len(logged')
      BY <1>1, <1>2
    <3> QED
      BY <1>2, <3>1, SubSeqAt
  <2> HIDE DEF s
  <2>3. \A i \in 1..n + 1 : s[i] = history'[i]
    BY <1>5, <2>1, <2>2
  <2>4. history' \in Seq(Nat) /\ Len(history') = n + 1
    BY <1>2, <2>1
  <2>5. history' = s
    BY <2>2, <2>3, <2>4, SameSeq
  <2>6. /\ Len(logged') - Len(history') + 1 = 0 + 1 /\ Len(logged') = 0 + (n + 1)
        /\ Len(history') <= HistoryMax /\ Len(history') <= Len(logged')
        /\ Len(logged') >= HistoryMax => Len(history') = HistoryMax
        /\ Len(logged') < HistoryMax => Len(history') = Len(logged')
    BY <1>1, <1>2, <1>7, <2>1, <2>4
  <2>7. history' = SubSeq(logged', Len(logged') - Len(history') + 1, Len(logged'))
    BY <2>5, <2>6 DEF s
  <2> QED
    BY <1>1, <1>2, <2>4, <2>6, <2>7 DEF Sim!HistoryInv, Sim!EndOfLog
<1> QED
  BY <1>1, <1>6, <1>7

\* Of the commands of a read the first is in the history, if it is a text command.
LEMMA RecordsGrow ==
  ASSUME Sim!RecordInv, Sim!EndOfLog', logged \in Seq(Nat), received \in Nat,
         NEW n \in Nat, NEW T \in SUBSET (1..n), Sim!Swallow(n, T),
         NEW shift, shift = {received + 1 + i : i \in T},
         \/ logged' = logged /\ texts' = texts \cup shift
         \/ /\ logged' = Append(logged, received + 1)
            /\ texts' = texts \cup {received + 1} \cup shift
  PROVE  Sim!RecordInv' /\ received' \in Nat
<1> DEFINE x == received + 1
           L == Sim!ToSet(logged)
<1>1. /\ texts \cup swallowed \subseteq 1..received /\ L = texts \ swallowed
      /\ \A i, j \in DOMAIN logged : i < j => logged[i] < logged[j]
  BY DEF Sim!RecordInv, Sim!HistoryIsRecent
<1>2. received' = received + 1 + n /\ swallowed' = swallowed \cup shift
  BY DEF Sim!Swallow
<1>3. /\ \A y \in shift : y > x /\ y \in 1..received'
      /\ x \in 1..received' /\ 1..received \subseteq 1..received' /\ received' \in Nat
      /\ x \in Nat /\ \A y \in 1..received : y < x
  BY <1>2
<1> HIDE DEF x
<1>4. texts' \cup swallowed' \subseteq 1..received'
  BY <1>1, <1>2, <1>3 DEF x
<1>5. x \notin shift /\ x \notin 1..received /\ \A y \in shift : y \notin 1..received
  BY <1>3
<1>6. CASE logged' = logged /\ texts' = texts \cup shift
  <2>1. texts' \ swallowed' = texts \ swallowed
    BY <1>1, <1>2, <1>5, <1>6
  <2>2. Sim!ToSet(logged') = L
    BY <1>6
  <2> QED
    BY <1>1, <1>3, <1>4, <1>6, <2>1, <2>2 DEF Sim!RecordInv, Sim!HistoryIsRecent
<1>7. CASE logged' = Append(logged, x) /\ texts' = texts \cup {x} \cup shift
  <2> DEFINE k == Len(logged)
             t == Append(logged, x)
  <2>1. /\ DOMAIN logged = 1..k /\ DOMAIN t = 1..k + 1 /\ k \in Nat
        /\ \A i \in 1..k : t[i] = logged[i]
        /\ t[k + 1] = x
    BY <1>3, AppendAt
  <2> HIDE DEF k, t
  <2>2. \A i \in DOMAIN logged : logged[i] \in L
    BY DEF Sim!ToSet
  <2>3. \A i \in DOMAIN logged : logged[i] < x
    BY <1>1, <1>3, <2>2
  <2>4. ASSUME NEW i \in DOMAIN t, NEW j \in DOMAIN t, i < j PROVE t[i] < t[j]
    <3>1. i \in 1..k /\ (j \in 1..k \/ j = k + 1)
      BY <2>1, <2>4
    <3> QED
      BY <1>1, <2>1, <2>3, <2>4, <3>1
  <2>5. Sim!ToSet(t) = L \cup {x}
    <3>1. \A y : y \in Sim!ToSet(t) <=> \E i \in 1..k + 1 : t[i] = y
      BY <2>1 DEF Sim!ToSet
    <3>2. \A y : y \in L <=> \E i \in 1..k : logged[i] = y
      BY <2>1 DEF Sim!ToSet
    <3>3. 1..k \subseteq 1..k + 1 /\ k + 1 \in 1..k + 1 /\ \A i \in 1..k + 1 : i \in 1..k \/ i = k + 1
      BY <2>1
    <3> HIDE DEF L
    <3> QED
      BY <2>1, <3>1, <3>2, <3>3
  <2>6. texts' \ swallowed' = (texts \ swallowed) \cup {x}
    BY <1>1, <1>2, <1>5, <1>7
  <2>7. logged' = t
    BY <1>7 DEF t
  <2> QED
    BY <1>1, <1>3, <1>4, <2>4, <2>5, <2>6, <2>7 DEF Sim!RecordInv, Sim!HistoryIsRecent
<1> QED
  BY <1>6, <1>7 DEF x

\* Codes of a cycle of N: x is d codes after v and y comes next.
LEMMA CodesApart ==
  ASSUME NEW N \in Nat \ {0}, NEW v \in 0..N - 1, NEW x \in 0..N - 1, NEW d \in Nat,
         d < N, x = v + d \/ x = v + d - N,
         NEW y, y = IF x + 1 = N THEN 0 ELSE x + 1
  PROVE  /\ d > 0 => x # v
         /\ d + 1 < N => y = v + (d + 1) \/ y = v + (d + 1) - N
OBVIOUS

\* A code that is given is the next one in turn.
LEMMA CodeGiven ==
  ASSUME Sim!SimAssumption, Sim!CodesInv, NEW c \in Client, NEW asked, Sim!Confirm(c, asked)
  PROVE  Sim!CodesInv'
<1>1. CASE ~asked
  BY <1>1 DEF Sim!Confirm, Sim!CodesInv, Sim!CodesCycle
<1>2. CASE asked
  <2> DEFINE S == 0..Codes - 1
             x == index[c]
             n == Len(given[c])
  <2>1. /\ Codes \in Nat \ {0} /\ x \in S /\ given[c] \in Seq(S)
        /\ index \in [Client -> S] /\ given \in [Client -> Seq(S)]
        /\ index' = [index EXCEPT ![c] = Sim!NextCode(x)]
        /\ given' = [given EXCEPT ![c] = Append(given[c], x)]
    BY <1>2 DEF Sim!Confirm, Sim!CodesInv, Sim!SimAssumption
  <2>2. Sim!NextCode(x) = IF x + 1 = Codes THEN 0 ELSE x + 1
    BY <2>1, CodeTurns
  <2>3. Sim!NextCode(x) \in S
    BY <2>1, <2>2
  <2>4. /\ Append(given[c], x) \in Seq(S) /\ n \in Nat /\ DOMAIN given[c] = 1..n
        /\ DOMAIN Append(given[c], x) = 1..n + 1 /\ Len(Append(given[c], x)) = n + 1
        /\ \A i \in 1..n : Append(given[c], x)[i] = given[c][i] /\ given[c][i] \in S
        /\ Append(given[c], x)[n + 1] = x
    <3> HIDE DEF S
    <3> QED
      BY <2>1, AppendAt
  <2>5. /\ index' \in [Client -> S] /\ given' \in [Client -> Seq(S)]
        /\ index'[c] = Sim!NextCode(x) /\ given'[c] = Append(given[c], x)
        /\ \A e \in Client : e # c => index'[e] = index[e] /\ given'[e] = given[e]
    BY <2>1, <2>3, <2>4
  <2>6. \A i \in 1..n : n + 1 - i < Codes =>
          x = given[c][i] + (n + 1 - i) \/ x = given[c][i] + (n + 1 - i) - Codes
    BY <2>4 DEF Sim!CodesInv
  <2>61. \A i, j \in 1..n : (i < j /\ j < i + Codes) => given[c][i] # given[c][j]
    BY <2>4 DEF Sim!CodesInv, Sim!CodesCycle
  <2>62. /\ Codes \in Nat \ {0} /\ x \in 0..Codes - 1 /\ n \in Nat
         /\ index'[c] = IF x + 1 = Codes THEN 0 ELSE x + 1
         /\ \A i \in 1..n : given'[c][i] = given[c][i] /\ given[c][i] \in 0..Codes - 1
         /\ given'[c][n + 1] = x
    BY <2>1, <2>2, <2>4, <2>5
  <2> HIDE DEF x, n, S
  <2>7. \A i \in 1..n + 1 : n + 1 + 1 - i < Codes =>
          \/ index'[c] = given'[c][i] + (n + 1 + 1 - i)
          \/ index'[c] = given'[c][i] + (n + 1 + 1 - i) - Codes
    <3> TAKE i \in 1..n + 1
    <3>1. CASE i \in 1..n
      <4> DEFINE d == n + 1 - i
      <4>1. d \in Nat /\ n + 1 + 1 - i = d + 1 /\ (d + 1 < Codes => d < Codes)
        BY <2>62, <3>1
      <4>2. d < Codes => x = given[c][i] + d \/ x = given[c][i] + d - Codes
        BY <2>6, <3>1
      <4> HIDE DEF d
      <4>3. d + 1 < Codes => \/ index'[c] = given[c][i] + (d + 1)
                             \/ index'[c] = given[c][i] + (d + 1) - Codes
        BY <2>62, <3>1, <4>1, <4>2, CodesApart
      <4> QED
        BY <2>62, <3>1, <4>1, <4>3
    <3>2. CASE i = n + 1
      <4>1. n + 1 + 1 - i = 1 /\ given'[c][i] = x
        BY <2>62, <3>2
      <4>2. index'[c] = x + 1 \/ index'[c] = x + 1 - Codes
        BY <2>62
      <4> QED
        BY <4>1, <4>2
    <3> QED
      BY <2>62, <3>1, <3>2
  <2>8. \A i, j \in 1..n + 1 : (i < j /\ j < i + Codes) => given'[c][i] # given'[c][j]
    <3> SUFFICES ASSUME NEW i \in 1..n + 1, NEW j \in 1..n + 1, i < j, j < i + Codes
                 PROVE  given'[c][i] # given'[c][j]
      OBVIOUS
    <3>1. i \in 1..n /\ given'[c][i] = given[c][i] /\ given[c][i] \in 0..Codes - 1
      BY <2>62
    <3>2. CASE j \in 1..n
      BY <2>61, <2>62, <3>1, <3>2
    <3>3. CASE j = n + 1
      <4> DEFINE d == n + 1 - i
      <4>1. d \in Nat /\ d > 0 /\ d < Codes
        BY <2>62, <3>1, <3>3
      <4>2. x = given[c][i] + d \/ x = given[c][i] + d - Codes
        BY <2>6, <3>1, <4>1
      <4> HIDE DEF d
      <4>3. x # given[c][i]
        BY <2>62, <3>1, <4>1, <4>2, CodesApart
      <4> QED
        BY <2>62, <3>1, <3>3, <4>3
    <3> QED
      BY <2>62, <3>2, <3>3
  <2>9. ASSUME NEW e \in Client, NEW i \in DOMAIN given'[e]
        PROVE  Len(given'[e]) + 1 - i < Codes =>
                 index'[e] \in {given'[e][i] + (Len(given'[e]) + 1 - i),
                                given'[e][i] + (Len(given'[e]) + 1 - i) - Codes}
    <3>1. CASE e = c
      BY <2>4, <2>5, <2>7, <3>1
    <3>2. CASE e # c
      BY <2>5, <3>2 DEF Sim!CodesInv
    <3> QED
      BY <3>1, <3>2
  <2>10. ASSUME NEW e \in Client, NEW i \in DOMAIN given'[e], NEW j \in DOMAIN given'[e],
                i < j, j < i + Codes
         PROVE  given'[e][i] # given'[e][j]
    <3>1. CASE e = c
      BY <2>4, <2>5, <2>8, <2>10, <3>1
    <3>2. CASE e # c
      BY <2>5, <2>10, <3>2 DEF Sim!CodesInv, Sim!CodesCycle
    <3> QED
      BY <3>1, <3>2
  <2> QED
    BY <2>5, <2>9, <2>10 DEF Sim!CodesInv, Sim!CodesCycle, S
<1> QED
  BY <1>1, <1>2

\* Initially the network is off and no client is connected.
LEMMA SimInit == Sim!SimAssumption /\ Sim!Init => Sim!SimInv
<1> SUFFICES ASSUME Sim!SimAssumption, Sim!Init PROVE Sim!SimInv
  OBVIOUS
<1>1. Sim!TypeOK
  BY DEF Sim!SimAssumption, Sim!Init, Sim!TypeOK, Sim!Level, Sim!Absent
<1>2. Sim!HistoryInv
  BY DEF Sim!SimAssumption, Sim!Init, Sim!HistoryInv, Sim!EndOfLog
<1>5. Sim!RecordInv
  BY <1>2 DEF Sim!Init, Sim!HistoryInv, Sim!RecordInv, Sim!HistoryIsRecent, Sim!ToSet
<1>3. Sim!CodesInv
  BY DEF Sim!SimAssumption, Sim!Init, Sim!CodesInv, Sim!CodesCycle
<1>4. Sim!LevelsInv
  <2>1. \A k \in Known : k[1] \in App /\ k[2] \in Sim!Group /\ <<k[1], k[2]>> \in Known
    BY DEF Sim!SimAssumption
  <2>2. /\ hier = [k \in Known |-> 0] /\ strayed = FALSE
        /\ light = [g \in Sim!Group |-> IF \E a \in App : <<a, g>> \in Known THEN 0
                                        ELSE Sim!Absent]
    BY DEF Sim!Init
  <2>3. hier \in [Known -> Sim!Level] /\ light \in [Sim!Group -> Sim!Level \cup {Sim!Absent}]
    BY <2>2 DEF Sim!Level
  <2>4. \A k \in Known : light[k[2]] = 0 /\ hier[k] = 0
    BY <2>1, <2>2
  <2> QED
    BY <2>2, <2>3, <2>4 DEF Sim!LevelsInv, Sim!LightsAgree
<1> QED
  BY <1>1, <1>2, <1>3, <1>4, <1>5 DEF Sim!SimInv

\* Connections come and go without touching the records.
LEMMA SimConnects ==
  ASSUME Sim!SimAssumption, Sim!SimInv,
         \/ \E c \in Client : \/ Sim!Accept(c) \/ Sim!HandleClient(c)
                              \/ Sim!Eof(c) \/ Sim!Leave(c)
         \/ Sim!Shutdown \/ Sim!Stopped \/ UNCHANGED Sim!vars
  PROVE  Sim!SimInv'
<1>1. /\ UNCHANGED <<hier, light, history, received, logged, texts, swallowed, errors,
                     strayed, job>>
      /\ phase' \in [Client -> {"none", "accepted", "open", "eof", "closing"}]
      /\ smart' \in [Client -> BOOLEAN]
  BY DEF Sim!SimInv, Sim!TypeOK, Sim!Accept, Sim!HandleClient, Sim!Eof, Sim!Leave,
         Sim!Shutdown, Sim!Stopped, Sim!vars, Sim!recordVars
<1>2. \/ UNCHANGED <<index, given>>
      \/ \E c \in Client : /\ index' = [index EXCEPT ![c] = 0]
                           /\ given' = [given EXCEPT ![c] = <<>>]
  BY DEF Sim!Accept, Sim!HandleClient, Sim!Eof, Sim!Leave, Sim!Shutdown, Sim!Stopped, Sim!vars
<1>3. Sim!CodesInv'
  <2>1. CASE UNCHANGED <<index, given>>
    BY <2>1 DEF Sim!SimInv, Sim!CodesInv, Sim!CodesCycle
  <2>2. CASE \E c \in Client : /\ index' = [index EXCEPT ![c] = 0]
                               /\ given' = [given EXCEPT ![c] = <<>>]
    <3>1. PICK c \in Client : /\ index' = [index EXCEPT ![c] = 0]
                              /\ given' = [given EXCEPT ![c] = <<>>]
      BY <2>2
    <3>2. /\ Codes \in Nat \ {0} /\ index \in [Client -> 0..Codes - 1]
          /\ given \in [Client -> Seq(0..Codes - 1)]
      BY DEF Sim!SimInv, Sim!CodesInv, Sim!SimAssumption
    <3>3. /\ index' \in [Client -> 0..Codes - 1] /\ given' \in [Client -> Seq(0..Codes - 1)]
          /\ index'[c] = 0 /\ given'[c] = <<>> /\ DOMAIN given'[c] = {}
          /\ \A e \in Client : e # c => index'[e] = index[e] /\ given'[e] = given[e]
      BY <3>1, <3>2
    <3>4. Sim!CodesCycle'
      <4> SUFFICES ASSUME NEW e \in Client, NEW i \in DOMAIN given'[e],
                          NEW j \in DOMAIN given'[e], i < j, j < i + Codes
                   PROVE  given'[e][i] # given'[e][j]
        BY DEF Sim!CodesCycle
      <4>1. e # c /\ given'[e] = given[e]
        BY <3>3
      <4> QED
        BY <4>1 DEF Sim!SimInv, Sim!CodesInv, Sim!CodesCycle
    <3>5. ASSUME NEW e \in Client, NEW i \in DOMAIN given'[e]
          PROVE  Len(given'[e]) + 1 - i < Codes =>
                   index'[e] \in {given'[e][i] + (Len(given'[e]) + 1 - i),
                                  given'[e][i] + (Len(given'[e]) + 1 - i) - Codes}
      <4>1. e # c
        BY <3>3
      <4> QED
        BY <3>3, <4>1 DEF Sim!SimInv, Sim!CodesInv
    <3> QED
      BY <3>3, <3>4, <3>5 DEF Sim!CodesInv
  <2> QED
    BY <1>2, <2>1, <2>2
<1>4. Sim!HistoryInv' /\ Sim!RecordInv' /\ Sim!LevelsInv'
  BY <1>1 DEF Sim!SimInv, Sim!HistoryInv, Sim!RecordInv, Sim!HistoryIsRecent, Sim!EndOfLog,
     Sim!LevelsInv, Sim!LightsAgree
<1>5. Sim!TypeOK'
  BY <1>1, <1>3 DEF Sim!SimInv, Sim!TypeOK, Sim!CodesInv
<1> QED
  BY <1>3, <1>4, <1>5 DEF Sim!SimInv

\* A command that is read is logged and delayed.
LEMMA SimReads ==
  ASSUME Sim!SimAssumption, Sim!SimInv, NEW c \in Client, NEW n \in 0..Behind,
         NEW T \in SUBSET (1..n),
         \/ \E cmd \in Text, split \in BOOLEAN : Sim!TextCommand(c, cmd, n, T, split)
         \/ \E b \in Binary : Sim!BinaryAsText(c, b, n, T)
  PROVE  Sim!SimInv'
<1> DEFINE shift == {received + 1 + i : i \in T}
<1>1. /\ Sim!LogCommand /\ Sim!Swallow(n, T)
      /\ texts' = texts \cup {received + 1} \cup shift
      /\ UNCHANGED <<hier, light, errors, phase, smart, index, given, strayed>>
  BY DEF Sim!TextCommand, Sim!BinaryAsText
<1>2. job' \in [Client -> Text \cup {NoJob, Sim!Unknown}]
  BY DEF Sim!TextCommand, Sim!BinaryAsText, Sim!SimInv, Sim!TypeOK
<1>3. n \in Nat /\ received \in Nat /\ logged \in Seq(Nat) /\ received' \in Nat
  BY <1>1 DEF Sim!SimInv, Sim!HistoryInv, Sim!SimAssumption, Sim!Swallow
<1>4. Sim!HistoryInv' /\ Len(history') <= HistoryMax
  BY <1>1, <1>3, HistoryLogs DEF Sim!SimInv, Sim!TypeOK
<1>5. logged' = Append(logged, received + 1) /\ Sim!EndOfLog' /\ Sim!RecordInv
  BY <1>1, <1>4 DEF Sim!LogCommand, Sim!HistoryInv, Sim!SimInv
<1>6. shift = {received + 1 + i : i \in T}
  OBVIOUS
<1> HIDE DEF shift
<1>7. Sim!RecordInv'
  BY <1>1, <1>3, <1>5, <1>6, RecordsGrow
<1>8. Sim!CodesInv' /\ Sim!LevelsInv'
  BY <1>1 DEF Sim!SimInv, Sim!CodesInv, Sim!CodesCycle, Sim!LevelsInv, Sim!LightsAgree
<1>9. Sim!TypeOK'
  BY <1>1, <1>2, <1>4 DEF Sim!SimInv, Sim!TypeOK
<1> QED
  BY <1>4, <1>7, <1>8, <1>9 DEF Sim!SimInv

\* A text command is carried out after its delay.
LEMMA SimProcesses ==
  ASSUME Sim!SimAssumption, Sim!SimInv, NEW c \in Client, Sim!ProcessCommand(c)
  PROVE  Sim!SimInv'
<1> DEFINE cmd == job[c]
<1>1. /\ job' = [job EXCEPT ![c] = NoJob]
      /\ UNCHANGED <<history, received, logged, texts, swallowed, phase>>
      /\ \/ Sim!HandleLighting(c, cmd) \/ Sim!HandleRequest(c, cmd) \/ Sim!HandleReset(c, cmd)
         \/ Sim!HandleMode(c, cmd) \/ Sim!SendError(c, cmd)
  BY DEF Sim!ProcessCommand, Sim!recordVars
<1> HIDE DEF cmd
<1>2. job' \in [Client -> Text \cup {NoJob, Sim!Unknown}]
  BY <1>1 DEF Sim!SimInv, Sim!TypeOK
<1>3. /\ errors' \in Nat /\ smart' \in [Client -> BOOLEAN]
  <2>1. errors' \in Nat
    BY <1>1 DEF Sim!SimInv, Sim!TypeOK, Sim!HandleLighting, Sim!HandleRequest,
                Sim!HandleReset, Sim!Reset, Sim!HandleMode, Sim!SendError
  <2>2. \/ smart' = smart
        \/ smart' = [smart EXCEPT ![c] = (cmd[1] = "smart")]
    BY <1>1 DEF Sim!HandleLighting, Sim!HandleRequest, Sim!HandleReset, Sim!HandleMode,
                Sim!SendError
  <2>3. \/ smart' = smart \/ smart' = [smart EXCEPT ![c] = TRUE]
        \/ smart' = [smart EXCEPT ![c] = FALSE]
    BY <2>2, Zenon
  <2>4. smart' \in [Client -> BOOLEAN]
    BY <2>3 DEF Sim!SimInv, Sim!TypeOK
  <2> QED
    BY <2>1, <2>4
<1>4. Sim!LevelsInv /\ Sim!CodesInv
  BY DEF Sim!SimInv
<1>5. Sim!LevelsInv'
  <2>1. CASE UNCHANGED <<hier, light, strayed>>
    BY <1>4, <2>1 DEF Sim!LevelsInv, Sim!LightsAgree
  <2>2. CASE Sim!Reset
    BY <1>4, <2>2, LevelsReset
  <2>3. CASE Sim!HandleLighting(c, cmd)
    <3>1. Sim!LevelOf(cmd[1]) \in Sim!Level
      BY <2>3 DEF Sim!HandleLighting, Sim!LevelOf, Sim!Level
    <3> QED
      BY <1>4, <2>3, <3>1, LevelSet DEF Sim!HandleLighting
  <2> QED
    BY <1>1, <2>1, <2>2, <2>3
       DEF Sim!HandleRequest, Sim!HandleReset, Sim!HandleMode, Sim!SendError
<1>6. Sim!CodesInv'
  <2>1. CASE UNCHANGED <<index, given>>
    BY <1>4, <2>1 DEF Sim!CodesInv, Sim!CodesCycle
  <2>2. CASE Sim!Confirm(c, cmd[2])
    BY <1>4, <2>2, CodeGiven
  <2> QED
    BY <1>1, <2>1, <2>2 DEF Sim!HandleLighting, Sim!HandleRequest, Sim!HandleReset,
                            Sim!HandleMode, Sim!SendError
<1>7. Sim!HistoryInv' /\ Sim!RecordInv'
  BY <1>1 DEF Sim!SimInv, Sim!HistoryInv, Sim!RecordInv, Sim!HistoryIsRecent, Sim!EndOfLog
<1>8. Sim!TypeOK'
  BY <1>1, <1>2, <1>3, <1>5, <1>6 DEF Sim!SimInv, Sim!TypeOK, Sim!LevelsInv, Sim!CodesInv
<1> QED
  BY <1>5, <1>6, <1>7, <1>8 DEF Sim!SimInv

\* A binary frame is carried out at once, on the group its opcode names.
LEMMA SimBinary ==
  ASSUME Sim!SimAssumption, Sim!SimInv, NEW c \in Client, NEW b \in Binary,
         NEW n \in 0..Behind, NEW T \in SUBSET (1..n), NEW code, NEW split \in BOOLEAN,
         Sim!BinaryCommand(c, b, n, T, code, split)
  PROVE  Sim!SimInv'
<1> DEFINE shift == {received + 1 + i : i \in T}
<1>1. /\ UNCHANGED <<history, logged, errors, phase, smart, index, job, given>>
      /\ Sim!Swallow(n, T) /\ texts' = texts \cup shift
  BY DEF Sim!BinaryCommand
<1>2. b[3] \in Sim!Level
  BY DEF Sim!SimAssumption
<1>3. Sim!LevelsInv'
  <2>1. CASE b[1] # "b_clock"
    <3>1. Sim!SetGroupLevel(56, Sim!OpOf(b[1]), b[3])
      BY <2>1 DEF Sim!BinaryCommand
    <3> QED
      BY <1>2, <3>1, LevelSet DEF Sim!SimInv
  <2>2. CASE b[1] = "b_clock"
    BY <2>2 DEF Sim!BinaryCommand, Sim!OtherBinary, Sim!SimInv, Sim!LevelsInv, Sim!LightsAgree
  <2> QED
    BY <2>1, <2>2
<1>4. n \in Nat /\ received \in Nat /\ logged \in Seq(Nat) /\ received' \in Nat
  BY <1>1 DEF Sim!SimInv, Sim!HistoryInv, Sim!SimAssumption, Sim!Swallow
<1>5. Sim!HistoryInv' /\ Sim!EndOfLog' /\ Sim!CodesInv' /\ Sim!RecordInv
  BY <1>1, <1>4 DEF Sim!SimInv, Sim!HistoryInv, Sim!EndOfLog, Sim!CodesInv, Sim!CodesCycle
<1>6. shift = {received + 1 + i : i \in T}
  OBVIOUS
<1> HIDE DEF shift
<1>7. Sim!RecordInv'
  BY <1>1, <1>4, <1>5, <1>6, RecordsGrow
<1>8. Sim!TypeOK'
  BY <1>1, <1>3 DEF Sim!SimInv, Sim!TypeOK, Sim!LevelsInv
<1> QED
  BY <1>3, <1>5, <1>7, <1>8 DEF Sim!SimInv

\* Every step of the simulator keeps its invariant.
LEMMA SimStep ==
  ASSUME Sim!SimAssumption, Sim!SimInv, [Sim!Next]_(Sim!vars)
  PROVE  Sim!SimInv'
BY SimConnects, SimReads, SimProcesses, SimBinary DEF Sim!Next
-----------------------------------------------------------------------------
(* The interrogator *)

\* The plan: the addresses first, then the attributes of the target.
LEMMA PlanAt ==
  ASSUME Interrogator!InterrogatorAssumption
  PROVE  /\ Len(Interrogator!Plan) = MaxAddress + 1 + Len(Attrs)
         /\ DOMAIN Interrogator!Plan = 1..MaxAddress + 1 + Len(Attrs)
         /\ Len(Attrs) \in Nat /\ DOMAIN Attrs = 1..Len(Attrs)
         /\ \A i \in 1..MaxAddress + 1 :
              Interrogator!Plan[i] = <<i - 1, "type_name", "discover">>
         /\ \A j \in 1..Len(Attrs) :
              Interrogator!Plan[MaxAddress + 1 + j] = <<Target, Attrs[j], "interrogate">>
<1> DEFINE n == MaxAddress + 1
           A == Interrogator!ToSet(Attrs)
           p == [i \in 1..n |-> <<i - 1, "type_name", "discover">>]
           q == [j \in DOMAIN Attrs |-> <<Target, Attrs[j], "interrogate">>]
           U == (Int \X {"type_name"} \X {"discover"}) \cup ({Target} \X A \X {"interrogate"})
<1>1. n \in Nat /\ Attrs \in Seq(A) /\ Interrogator!Plan = p \o q
  BY DEF Interrogator!InterrogatorAssumption, Interrogator!Plan, Interrogator!TypeName
<1> HIDE DEF A, n
<1>2. Len(Attrs) \in Nat /\ DOMAIN Attrs = 1..Len(Attrs) /\ \A j \in 1..Len(Attrs) : Attrs[j] \in A
  BY <1>1
<1>3. p \in Seq(U) /\ Len(p) = n /\ \A i \in 1..n : p[i] = <<i - 1, "type_name", "discover">>
  BY <1>1
<1>4. /\ q \in Seq(U) /\ Len(q) = Len(Attrs)
      /\ \A j \in 1..Len(Attrs) : q[j] = <<Target, Attrs[j], "interrogate">>
  BY <1>1, <1>2
<1> HIDE DEF p, q, U
<1>5. /\ Len(p \o q) = n + Len(q) /\ DOMAIN (p \o q) = 1..n + Len(q)
      /\ \A i \in 1..n : (p \o q)[i] = p[i]
      /\ \A j \in 1..Len(q) : (p \o q)[n + j] = q[j]
  <2>1. p \in Seq(U) /\ q \in Seq(U)
    BY <1>3, <1>4
  <2>2. /\ Len(p \o q) = Len(p) + Len(q) /\ DOMAIN (p \o q) = 1..Len(p) + Len(q)
        /\ \A i \in 1..Len(p) : (p \o q)[i] = p[i]
        /\ \A j \in 1..Len(q) : (p \o q)[Len(p) + j] = q[j]
    BY ONLY <2>1, ConcatAt
  <2> QED
    BY <1>3, <2>2
<1> QED
  BY <1>1, <1>2, <1>3, <1>4, <1>5 DEF n

\* What a request of the plan can be, and that every unit and attribute has one.
LEMMA PlanParts ==
  ASSUME Interrogator!InterrogatorAssumption
  PROVE  /\ Len(Interrogator!Plan) \in Nat \ {0}
         /\ DOMAIN Interrogator!Plan = 1..Len(Interrogator!Plan)
         /\ \A i \in 1..Len(Interrogator!Plan) :
              \/ /\ Interrogator!Plan[i][3] = "discover" /\ Interrogator!Plan[i][2] = "type_name"
                 /\ Interrogator!Plan[i][1] \in 0..MaxAddress
              \/ /\ Interrogator!Plan[i][3] = "interrogate" /\ Interrogator!Plan[i][1] = Target
                 /\ Interrogator!Plan[i][2] \in Interrogator!ToSet(Attrs)
         /\ \A u \in 0..MaxAddress : \E i \in 1..Len(Interrogator!Plan) :
              Interrogator!Plan[i] = <<u, "type_name", "discover">>
         /\ \A a \in Interrogator!ToSet(Attrs) : \E i \in 1..Len(Interrogator!Plan) :
              Interrogator!Plan[i] = <<Target, a, "interrogate">>
<1> DEFINE P == Interrogator!Plan
           n == MaxAddress + 1
<1>1. /\ n \in Nat \ {0} /\ Len(Attrs) \in Nat /\ DOMAIN Attrs = 1..Len(Attrs)
      /\ Len(P) = n + Len(Attrs) /\ DOMAIN P = 1..n + Len(Attrs)
      /\ \A i \in 1..n : P[i] = <<i - 1, "type_name", "discover">>
      /\ \A j \in 1..Len(Attrs) : P[n + j] = <<Target, Attrs[j], "interrogate">>
  BY PlanAt DEF Interrogator!InterrogatorAssumption
<1> HIDE DEF P
<1>2. ASSUME NEW i \in 1..Len(P)
      PROVE  \/ P[i][3] = "discover" /\ P[i][2] = "type_name" /\ P[i][1] \in 0..MaxAddress
             \/ /\ P[i][3] = "interrogate" /\ P[i][1] = Target
                /\ P[i][2] \in Interrogator!ToSet(Attrs)
  <2>1. CASE i \in 1..n
    BY <1>1, <2>1 DEF Interrogator!InterrogatorAssumption
  <2>2. CASE i \notin 1..n
    <3>1. i - n \in 1..Len(Attrs) /\ n + (i - n) = i
      BY <1>1, <2>2
    <3>2. P[i] = <<Target, Attrs[i - n], "interrogate">>
      BY <1>1, <3>1
    <3>3. Attrs[i - n] \in Interrogator!ToSet(Attrs)
      BY <1>1, <3>1 DEF Interrogator!ToSet
    <3> QED
      BY <3>2, <3>3
  <2> QED
    BY <2>1, <2>2
<1>3. ASSUME NEW u \in 0..MaxAddress
      PROVE  \E i \in 1..Len(P) : P[i] = <<u, "type_name", "discover">>
  <2>1. u + 1 \in 1..n /\ u + 1 \in 1..Len(P) /\ u + 1 - 1 = u
    BY <1>1 DEF Interrogator!InterrogatorAssumption
  <2> QED
    BY <1>1, <2>1
<1>4. ASSUME NEW a \in Interrogator!ToSet(Attrs)
      PROVE  \E i \in 1..Len(P) : P[i] = <<Target, a, "interrogate">>
  <2>1. PICK j \in 1..Len(Attrs) : a = Attrs[j]
    BY <1>1 DEF Interrogator!ToSet
  <2>2. n + j \in 1..Len(P)
    BY <1>1
  <2> QED
    BY <1>1, <2>1, <2>2
<1>5. Len(P) \in Nat \ {0} /\ DOMAIN P = 1..Len(P)
  BY <1>1
<1> QED
  BY <1>2, <1>3, <1>4, <1>5 DEF P

\* Initially nothing was asked.
LEMMA InterrogatorInit ==
  Interrogator!InterrogatorAssumption /\ Interrogator!Init => Interrogator!InterrogatorInv
<1> SUFFICES ASSUME Interrogator!InterrogatorAssumption, Interrogator!Init
             PROVE  Interrogator!InterrogatorInv
  OBVIOUS
<1>1. Len(Interrogator!Plan) \in Nat \ {0}
  BY PlanParts
<1>2. /\ asking = 1 /\ waiting = FALSE /\ left = 0 /\ device = <<>> /\ lines = <<>>
      /\ closed = FALSE /\ found = {}
      /\ info = [a \in Interrogator!ToSet(Attrs) |-> NoData]
  BY DEF Interrogator!Init
<1>3. Interrogator!FoundExist /\ Interrogator!InfoIsRight
  BY <1>2 DEF Interrogator!FoundExist, Interrogator!InfoIsRight
<1>4. asking \in 1..Len(Interrogator!Plan) + 1 /\ 1..asking - 1 = {}
  BY <1>1, <1>2
<1>5. Interrogator!ResultInv
  BY <1>2, <1>3, <1>4 DEF Interrogator!ResultInv
<1>6. left \in 0..Timeout /\ lines \in Seq(Interrogator!Line) /\ DOMAIN lines = {}
  BY <1>2 DEF Interrogator!InterrogatorAssumption
<1>7. Interrogator!TrafficInv
  BY <1>2, <1>6 DEF Interrogator!TrafficInv
<1> QED
  BY <1>5, <1>7 DEF Interrogator!InterrogatorInv

\* A reply to the request in hand goes where it belongs, and silence is right
\* when there is nothing to read.
LEMMA InterrogatorRecords ==
  ASSUME Interrogator!InterrogatorAssumption, Interrogator!ResultInv, ~Interrogator!Finished,
         NEW data, Interrogator!Record(data), closed' = closed,
         \/ data = NoData /\ (closed \/ ~Interrogator!Answerable(asking))
         \/ /\ data = <<Interrogator!Plan[asking][1], Interrogator!Plan[asking][2]>>
            /\ Interrogator!Answerable(asking)
  PROVE  Interrogator!ResultInv'
<1> DEFINE P == Interrogator!Plan
           n == Len(P)
           u == P[asking][1]
           a == P[asking][2]
           A == Interrogator!ToSet(Attrs)
<1>1. /\ n \in Nat \ {0} /\ asking \in 1..n /\ asking' = asking + 1
      /\ asking' \in 1..n + 1 /\ DOMAIN P = 1..n
      /\ \/ P[asking][3] = "discover" /\ u \in 0..MaxAddress
         \/ P[asking][3] = "interrogate" /\ u = Target /\ a \in A
  BY PlanParts DEF Interrogator!ResultInv, Interrogator!Finished, Interrogator!Record
<1>2. <<u, a>> # NoData
  BY <1>1 DEF Interrogator!InterrogatorAssumption
<1>3. /\ found \subseteq Present \ Nameless /\ found \subseteq 0..MaxAddress /\ DOMAIN info = A
      /\ \A b \in A : info[b] \in {NoData, <<Target, b>>}
      /\ closed \in BOOLEAN
  BY DEF Interrogator!ResultInv, Interrogator!FoundExist, Interrogator!InfoIsRight
<1>4. /\ P[asking][3] = "discover" =>
           /\ found' = IF data = NoData \/ data[1] \in Nameless THEN found ELSE found \cup {u}
           /\ info' = info
      /\ P[asking][3] # "discover" =>
           /\ info' = IF data = NoData THEN info ELSE [info EXCEPT ![a] = data]
           /\ found' = found
  BY DEF Interrogator!Record, Interrogator!Blank
<1>5. data # NoData => data = <<u, a>> /\ data[1] = u /\ u \in Present
  BY DEF Interrogator!Answerable, Interrogator!HasAttribute
<1> HIDE DEF P, n, u, a, A
<1>6. /\ found' \subseteq Present \ Nameless /\ found' \subseteq 0..MaxAddress /\ DOMAIN info' = A
      /\ \A b \in A : info'[b] \in {NoData, <<Target, b>>}
  BY <1>1, <1>3, <1>4, <1>5
<1>7. /\ found \subseteq found'
      /\ \A b \in A : info[b] # NoData => info'[b] = info[b]
  BY <1>1, <1>3, <1>4, <1>5
<1>8. ASSUME ~closed, NEW i \in 1..asking' - 1 PROVE Interrogator!Recorded(i)'
  <2>1. CASE i = asking
    <3>1. CASE data = NoData
      <4>1. ~Interrogator!Answerable(i)
        BY <1>2, <1>8, <2>1, <3>1 DEF u, a, P
      <4> QED
        BY <4>1 DEF Interrogator!Recorded, Interrogator!Answerable
    <3>2. CASE data # NoData
      <4>1. P[i][3] = "discover" => u \in found' \cup Nameless
        BY <1>4, <1>5, <2>1, <3>2
      <4>2. P[i][3] # "discover" => info'[a] = <<u, a>>
        BY <1>1, <1>3, <1>4, <1>5, <2>1, <3>2
      <4> QED
        BY <2>1, <4>1, <4>2 DEF Interrogator!Recorded, P, u, a
    <3> QED
      BY <3>1, <3>2
  <2>2. CASE i # asking
    <3>1. i \in 1..asking - 1 /\ i \in 1..n
      BY <1>1, <2>2
    <3>2. Interrogator!Recorded(i)
      BY <1>8, <3>1 DEF Interrogator!ResultInv
    <3>3. \/ P[i][3] = "discover"
          \/ P[i][3] = "interrogate" /\ P[i][2] \in A
      BY <3>1, PlanParts DEF P, n, A
    <3>4. <<P[i][1], P[i][2]>> # NoData
      BY <1>1, <3>1 DEF Interrogator!InterrogatorAssumption, P
    <3> QED
      BY <1>7, <3>2, <3>3, <3>4 DEF Interrogator!Recorded, Interrogator!Answerable, P
  <2> QED
    BY <2>1, <2>2
<1>9. asking' \in 1..Len(Interrogator!Plan) + 1
  BY <1>1 DEF n, P
<1> QED
  BY <1>3, <1>6, <1>8, <1>9
     DEF Interrogator!ResultInv, Interrogator!FoundExist, Interrogator!InfoIsRight, A

\* _read_reply takes the first reply of a chunk, if there is one.
LEMMA FirstReplyAt ==
  ASSUME NEW chunk \in Seq(Interrogator!Line)
  PROVE  \/ /\ Interrogator!FirstReply(chunk) = 0
            /\ \A i \in 1..Len(chunk) : ~Interrogator!IsReply(chunk[i])
         \/ /\ Interrogator!FirstReply(chunk) \in 1..Len(chunk)
            /\ Interrogator!IsReply(chunk[Interrogator!FirstReply(chunk)])
<1> DEFINE I == {i \in 1..Len(chunk) : chunk[i][1] = "reply"}
<1>1. Interrogator!FirstReply(chunk) = IF I # {} THEN Interrogator!Min(I) ELSE 0
  BY DEF Interrogator!FirstReply, Interrogator!SelectInSeq
<1>2. CASE I = {}
  BY <1>1, <1>2 DEF Interrogator!IsReply
<1>3. CASE I # {}
  <2>0. I \subseteq Nat
    OBVIOUS
  <2>1. \E n \in I : \A m \in I : n <= m
    <3> HIDE DEF I
    <3> QED
      BY <1>3, <2>0, LeastNumber
  <2>2. Interrogator!Min(I) \in I
    BY <2>1 DEF Interrogator!Min
  <2> QED
    BY <1>1, <1>3, <2>2 DEF Interrogator!IsReply
<1> QED
  BY <1>2, <1>3

\* The result is kept by the steps that do not record, even when the
\* connection is lost.
LEMMA ResultKept ==
  ASSUME Interrogator!ResultInv, UNCHANGED <<asking, found, info>>,
         closed' = closed \/ closed' = TRUE
  PROVE  Interrogator!ResultInv'
BY DEF Interrogator!ResultInv, Interrogator!FoundExist, Interrogator!InfoIsRight,
       Interrogator!Recorded

\* Without a request in hand the CNI has nothing to do and no reply is in the
\* socket.
LEMMA NothingPending ==
  ASSUME Interrogator!TrafficInv, ~waiting
  PROVE  device = <<>> /\ \A i \in DOMAIN lines : ~Interrogator!IsReply(lines[i])
BY DEF Interrogator!TrafficInv

\* The interrogator's own steps between two requests.
LEMMA InterrogatorAsks ==
  ASSUME Interrogator!InterrogatorAssumption, Interrogator!InterrogatorInv,
         Interrogator!Ask \/ Interrogator!AskFails
  PROVE  Interrogator!InterrogatorInv'
<1>1. Interrogator!ResultInv /\ Interrogator!TrafficInv /\ ~waiting /\ ~Interrogator!Finished
  BY DEF Interrogator!InterrogatorInv, Interrogator!Ask, Interrogator!AskFails
<1>2. device = <<>> /\ \A i \in DOMAIN lines : ~Interrogator!IsReply(lines[i])
  BY <1>1, NothingPending
<1>3. CASE Interrogator!Ask
  <2> DEFINE x == <<Interrogator!Plan[asking][1], Interrogator!Plan[asking][2], "new">>
  <2>1. /\ waiting' = TRUE /\ left' = Timeout /\ ~closed /\ device' = Append(device, x)
        /\ UNCHANGED <<asking, lines, closed, found, info>>
    BY <1>3 DEF Interrogator!Ask
  <2>2. device' = <<x>> /\ device' # <<>>
    BY <1>2, <2>1
  <2>3. left' \in 0..Timeout /\ left' > 0
    BY <2>1 DEF Interrogator!InterrogatorAssumption
  <2>4. Interrogator!TrafficInv'
    BY <1>1, <1>2, <2>1, <2>2, <2>3 DEF Interrogator!TrafficInv, Interrogator!Finished,
       Interrogator!IsReply
  <2> QED
    BY <1>1, <2>1, <2>4, ResultKept DEF Interrogator!InterrogatorInv
<1>4. CASE Interrogator!AskFails
  <2>1. /\ closed /\ asking' = asking + 1 /\ UNCHANGED <<waiting, left, device, lines, closed, found, info>>
    BY <1>4 DEF Interrogator!AskFails
  <2>2. Interrogator!TrafficInv'
    BY <1>1, <1>2, <2>1 DEF Interrogator!TrafficInv, Interrogator!IsReply
  <2>3. asking' \in 1..Len(Interrogator!Plan) + 1
    BY <1>1, <2>1, PlanParts DEF Interrogator!ResultInv, Interrogator!Finished
  <2>4. Interrogator!ResultInv'
    BY <1>1, <2>1, <2>3 DEF Interrogator!ResultInv, Interrogator!FoundExist,
                            Interrogator!InfoIsRight
  <2> QED
    BY <2>2, <2>4 DEF Interrogator!InterrogatorInv
<1> QED
  BY <1>3, <1>4

\* A line that is no reply may come at any time.
LEMMA LineArrives ==
  ASSUME NEW l \in Interrogator!Line, lines \in Seq(Interrogator!Line),
         lines' = Append(lines, l)
  PROVE  /\ lines' \in Seq(Interrogator!Line) /\ Len(lines) \in Nat
         /\ DOMAIN lines = 1..Len(lines) /\ DOMAIN lines' = 1..Len(lines) + 1
         /\ \A i \in 1..Len(lines) : lines'[i] = lines[i]
         /\ lines'[Len(lines) + 1] = l
BY AppendAt

\* The CNI confirms a request.
LEMMA CniConfirms ==
  ASSUME Interrogator!InterrogatorInv, Interrogator!DeviceConfirms
  PROVE  Interrogator!InterrogatorInv'
<1> DEFINE u == Interrogator!Plan[asking][1]
           a == Interrogator!Plan[asking][2]
           l == <<"confirmation">>
<1>1. /\ Interrogator!ResultInv /\ Interrogator!TrafficInv /\ device # <<>>
      /\ Head(device)[3] = "new" /\ lines' = Append(lines, l)
      /\ UNCHANGED <<asking, waiting, left, closed, found, info>>
  BY DEF Interrogator!InterrogatorInv, Interrogator!DeviceConfirms
<1>2. device = <<<<u, a, "new">>>> /\ waiting /\ ~closed /\ left > 0
  BY <1>1 DEF Interrogator!TrafficInv
<1>3. device' = IF Interrogator!Answerable(asking) THEN <<<<u, a, "confirmed">>>> ELSE <<>>
  <2>1. Head(device) = <<u, a, "new">> /\ Tail(device) = <<>>
    BY <1>2
  <2>2. device' = IF Interrogator!HasAttribute(Head(device)[1], Head(device)[2])
                  THEN <<<<Head(device)[1], Head(device)[2], "confirmed">>>> \o Tail(device)
                  ELSE Tail(device)
    BY DEF Interrogator!DeviceConfirms
  <2>3. Head(device)[1] = u /\ Head(device)[2] = a
    BY <2>1
  <2>4. \A y : <<y>> \o <<>> = <<y>>
    OBVIOUS
  <2> HIDE DEF u, a
  <2> QED
    BY <2>1, <2>2, <2>3, <2>4 DEF Interrogator!Answerable, u, a
<1>4. \A i \in DOMAIN lines : ~Interrogator!IsReply(lines[i])
  BY <1>1 DEF Interrogator!TrafficInv
<1>5. l \in Interrogator!Line /\ lines \in Seq(Interrogator!Line) /\ ~Interrogator!IsReply(l)
  BY <1>1 DEF Interrogator!Line, Interrogator!IsReply, Interrogator!TrafficInv
<1> HIDE DEF l
<1>6. lines' \in Seq(Interrogator!Line) /\ \A i \in DOMAIN lines' : ~Interrogator!IsReply(lines'[i])
  <2>1. \A i \in DOMAIN lines' : (i \in DOMAIN lines /\ lines'[i] = lines[i]) \/ lines'[i] = l
    BY <1>1, <1>5, LineArrives
  <2>2. lines' \in Seq(Interrogator!Line)
    BY <1>1, <1>5, LineArrives
  <2> QED
    BY <1>4, <1>5, <2>1, <2>2
<1>7. Interrogator!TrafficInv'
  BY <1>1, <1>2, <1>3, <1>6 DEF Interrogator!TrafficInv, Interrogator!IsReply,
     Interrogator!Finished, Interrogator!Answerable
<1> QED
  BY <1>1, <1>7, ResultKept DEF Interrogator!InterrogatorInv

\* The CNI replies to the request that waits.
LEMMA CniReplies ==
  ASSUME Interrogator!InterrogatorAssumption, Interrogator!InterrogatorInv,
         Interrogator!DeviceReplies
  PROVE  Interrogator!InterrogatorInv'
<1> DEFINE u == Interrogator!Plan[asking][1]
           a == Interrogator!Plan[asking][2]
           l == <<"reply", u, a>>
           n == Len(lines)
<1>1. /\ Interrogator!ResultInv /\ Interrogator!TrafficInv /\ device # <<>>
      /\ Head(device)[3] = "confirmed" /\ device' = Tail(device)
      /\ lines' = Append(lines, <<"reply", Head(device)[1], Head(device)[2]>>)
      /\ UNCHANGED <<asking, waiting, left, closed, found, info>>
  BY DEF Interrogator!InterrogatorInv, Interrogator!DeviceReplies
<1>2. /\ device = <<<<u, a, "confirmed">>>> /\ waiting /\ ~closed /\ left > 0
      /\ Interrogator!Answerable(asking) /\ ~Interrogator!Finished
  BY <1>1 DEF Interrogator!TrafficInv
<1>3. device' = <<>> /\ lines' = Append(lines, l)
  BY <1>1, <1>2
<1>4. \A i \in DOMAIN lines : ~Interrogator!IsReply(lines[i])
  BY <1>1 DEF Interrogator!TrafficInv
<1>5. asking \in DOMAIN Interrogator!Plan
  BY <1>1, <1>2, PlanParts DEF Interrogator!ResultInv, Interrogator!Finished
<1>6. l \in Interrogator!Line /\ lines \in Seq(Interrogator!Line) /\ Interrogator!IsReply(l)
  BY <1>1, <1>5 DEF Interrogator!Line, Interrogator!IsReply, Interrogator!TrafficInv
<1> HIDE DEF l
<1>7. /\ lines' \in Seq(Interrogator!Line) /\ n \in Nat
      /\ n + 1 \in DOMAIN lines' /\ lines'[n + 1] = l
      /\ \A i \in DOMAIN lines' : (i \in DOMAIN lines /\ lines'[i] = lines[i]) \/ i = n + 1
  BY <1>3, <1>6, LineArrives
<1> HIDE DEF n
<1>8. \A i \in DOMAIN lines' : Interrogator!IsReply(lines'[i]) => i = n + 1 /\ lines'[i] = l
  BY <1>4, <1>7
<1>9. Interrogator!TrafficInv'
  BY <1>1, <1>2, <1>3, <1>6, <1>7, <1>8 DEF Interrogator!TrafficInv, Interrogator!IsReply,
     Interrogator!Finished, Interrogator!Answerable, l
<1> QED
  BY <1>1, <1>9, ResultKept DEF Interrogator!InterrogatorInv

\* Other traffic and the loss of the connection.
LEMMA CniEvents ==
  ASSUME Interrogator!InterrogatorInv, Interrogator!BusEvent \/ Interrogator!CniCloses
  PROVE  Interrogator!InterrogatorInv'
<1>1. Interrogator!ResultInv /\ Interrogator!TrafficInv
  BY DEF Interrogator!InterrogatorInv
<1>2. CASE Interrogator!BusEvent
  <2> DEFINE l == <<"event">>
             n == Len(lines)
  <2>1. lines' = Append(lines, l) /\ UNCHANGED <<asking, waiting, left, device, closed, found, info>>
    BY <1>2 DEF Interrogator!BusEvent
  <2>2. l \in Interrogator!Line /\ lines \in Seq(Interrogator!Line) /\ ~Interrogator!IsReply(l)
    BY <1>1 DEF Interrogator!Line, Interrogator!IsReply, Interrogator!TrafficInv
  <2> HIDE DEF l
  <2>3. /\ lines' \in Seq(Interrogator!Line)
        /\ \A i \in DOMAIN lines : i \in DOMAIN lines' /\ lines'[i] = lines[i]
        /\ \A i \in DOMAIN lines' : (i \in DOMAIN lines /\ lines'[i] = lines[i]) \/ lines'[i] = l
    BY <2>1, <2>2, LineArrives
  <2>4. \A i \in DOMAIN lines' : Interrogator!IsReply(lines'[i]) =>
          i \in DOMAIN lines /\ lines'[i] = lines[i] /\ Interrogator!IsReply(lines[i])
    BY <2>2, <2>3
  <2>5. (\E i \in DOMAIN lines : Interrogator!IsReply(lines[i])) =>
          \E i \in DOMAIN lines' : Interrogator!IsReply(lines'[i])
    BY <2>3
  <2>6. Interrogator!TrafficInv'
    BY <1>1, <2>1, <2>3, <2>4, <2>5 DEF Interrogator!TrafficInv, Interrogator!IsReply,
       Interrogator!Finished, Interrogator!Answerable
  <2> QED
    BY <1>1, <2>1, <2>6, ResultKept DEF Interrogator!InterrogatorInv
<1>3. CASE Interrogator!CniCloses
  <2>1. closed' = TRUE /\ device' = <<>> /\ UNCHANGED <<asking, waiting, left, lines, found, info>>
    BY <1>3 DEF Interrogator!CniCloses
  <2>2. Interrogator!TrafficInv'
    BY <1>1, <2>1 DEF Interrogator!TrafficInv, Interrogator!IsReply,
       Interrogator!Finished, Interrogator!Answerable
  <2> QED
    BY <1>1, <2>1, <2>2, ResultKept DEF Interrogator!InterrogatorInv
<1> QED
  BY <1>2, <1>3

\* The wait goes on: a tick of a network that answers in time.
LEMMA InterrogatorTicks ==
  ASSUME Interrogator!InterrogatorAssumption, ~Late, Interrogator!InterrogatorInv,
         Interrogator!Tick
  PROVE  Interrogator!InterrogatorInv'
<1>1. /\ Interrogator!ResultInv /\ Interrogator!TrafficInv /\ left > 0
      /\ left > 1 \/ (device = <<>> /\ lines = <<>>)
      /\ left' = left - 1 /\ UNCHANGED <<asking, waiting, device, lines, closed, found, info>>
  BY DEF Interrogator!InterrogatorInv, Interrogator!Tick
<1>2. left' \in 0..Timeout /\ (left > 1 => left' > 0)
  BY <1>1 DEF Interrogator!TrafficInv, Interrogator!InterrogatorAssumption
<1>3. lines = <<>> => DOMAIN lines = {}
  OBVIOUS
<1>4. Interrogator!TrafficInv'
  BY <1>1, <1>2, <1>3 DEF Interrogator!TrafficInv, Interrogator!IsReply,
     Interrogator!Finished, Interrogator!Answerable
<1> QED
  BY <1>1, <1>4, ResultKept DEF Interrogator!InterrogatorInv

\* The wait ends without a reply.
LEMMA InterrogatorGivesUp ==
  ASSUME Interrogator!InterrogatorAssumption, Interrogator!InterrogatorInv,
         Interrogator!ReadEof \/ Interrogator!TimedOut
  PROVE  Interrogator!InterrogatorInv'
<1>1. /\ Interrogator!ResultInv /\ Interrogator!TrafficInv /\ waiting
      /\ Interrogator!Record(NoData) /\ UNCHANGED <<left, device, lines, closed>>
      /\ (closed /\ lines = <<>>) \/ left = 0
  BY DEF Interrogator!InterrogatorInv, Interrogator!ReadEof, Interrogator!TimedOut
<1>2. ~Interrogator!Finished /\ waiting' = FALSE
  BY <1>1 DEF Interrogator!TrafficInv, Interrogator!Record
<1>3. lines = <<>> => DOMAIN lines = {}
  OBVIOUS
<1>4. /\ device = <<>> /\ \A i \in DOMAIN lines : ~Interrogator!IsReply(lines[i])
      /\ closed \/ ~Interrogator!Answerable(asking)
  BY <1>1, <1>3 DEF Interrogator!TrafficInv
<1>5. Interrogator!TrafficInv'
  BY <1>1, <1>2, <1>4 DEF Interrogator!TrafficInv, Interrogator!IsReply
<1>6. Interrogator!ResultInv'
  BY <1>1, <1>2, <1>4, InterrogatorRecords
<1> QED
  BY <1>5, <1>6 DEF Interrogator!InterrogatorInv

\* A chunk is read: the reply that is in it is the answer, and none is left.
LEMMA InterrogatorReads ==
  ASSUME Interrogator!InterrogatorAssumption, Interrogator!InterrogatorInv,
         NEW n \in DOMAIN lines, Interrogator!ReadChunk(n)
  PROVE  Interrogator!InterrogatorInv'
<1> DEFINE chunk == SubSeq(lines, 1, n)
           r == Interrogator!FirstReply(chunk)
           k == Len(lines) - n
<1>1. /\ Interrogator!ResultInv /\ Interrogator!TrafficInv /\ waiting /\ left > 0
      /\ lines \in Seq(Interrogator!Line) /\ ~Interrogator!Finished
      /\ lines' = SubSeq(lines, n + 1, Len(lines)) /\ UNCHANGED <<device, closed, left>>
      /\ n \in 1..Len(lines)
  BY DEF Interrogator!InterrogatorInv, Interrogator!TrafficInv, Interrogator!ReadChunk
<1>2. /\ chunk \in Seq(Interrogator!Line) /\ Len(chunk) = n /\ n \in Nat
      /\ \A i \in 1..n : chunk[i] = lines[i]
  <2>1. chunk = SubSeq(lines, 0 + 1, 0 + n) /\ n \in Nat /\ 0 + n <= Len(lines) /\ 0 \in Nat
    BY <1>1
  <2>2. lines \in Seq(Interrogator!Line)
    BY <1>1
  <2> HIDE DEF chunk
  <2>3. /\ chunk \in Seq(Interrogator!Line) /\ Len(chunk) = n
        /\ \A i \in 1..n : chunk[i] = lines[0 + i]
    BY <2>1, <2>2, SubSeqAt
  <2> QED
    BY <2>1, <2>3
<1>3. n + k = Len(lines) /\ k \in Nat /\ Len(lines) \in Nat /\ DOMAIN lines = 1..Len(lines)
  <2>1. lines \in Seq(Interrogator!Line) /\ n \in 1..Len(lines)
    BY <1>1
  <2>2. Len(lines) \in Nat /\ DOMAIN lines = 1..Len(lines)
    BY ONLY <2>1
  <2> QED
    BY ONLY <2>1, <2>2
<1> HIDE DEF chunk, k
<1>4. /\ lines' \in Seq(Interrogator!Line) /\ DOMAIN lines' = 1..k
      /\ \A i \in 1..k : lines'[i] = lines[n + i]
  <2>1. lines' = SubSeq(lines, n + 1, Len(lines)) /\ lines \in Seq(Interrogator!Line)
    BY <1>1
  <2>2. n + k <= Len(lines) /\ n \in Nat /\ k \in Nat /\ n + k = Len(lines)
    BY <1>2, <1>3
  <2>3. lines' = SubSeq(lines, n + 1, n + k)
    BY ONLY <2>1, <2>2
  <2>4. lines \in Seq(Interrogator!Line) /\ n \in Nat /\ k \in Nat /\ n + k <= Len(lines)
    BY <2>1, <2>2
  <2>5. /\ SubSeq(lines, n + 1, n + k) \in Seq(Interrogator!Line)
        /\ DOMAIN SubSeq(lines, n + 1, n + k) = 1..k
        /\ \A i \in 1..k : SubSeq(lines, n + 1, n + k)[i] = lines[n + i]
    BY ONLY <2>4, SubSeqAt, SMTT(30)
  <2> QED
    BY ONLY <2>3, <2>5
<1>5. \A i \in DOMAIN lines' : /\ n + i \in DOMAIN lines /\ lines'[i] = lines[n + i]
                               /\ n + i > n /\ i \in Nat
  <2> TAKE i \in DOMAIN lines'
  <2>1. i \in 1..k /\ DOMAIN lines = 1..Len(lines)
    BY <1>3, <1>4
  <2>2. n + i \in 1..Len(lines) /\ n + i > n /\ i \in Nat
    BY <1>2, <1>3, <2>1
  <2> QED
    BY <1>4, <2>1, <2>2
<1>6. \A i \in DOMAIN lines : i \in 1..n \/ (i - n \in DOMAIN lines' /\ lines'[i - n] = lines[i])
  <2> TAKE i \in DOMAIN lines
  <2>1. i \in 1..Len(lines)
    BY <1>1
  <2>2. i \in 1..n \/ (i - n \in 1..k /\ n + (i - n) = i)
    BY <1>2, <1>3, <2>1
  <2> QED
    BY <1>4, <2>2
<1>7. CASE r = 0
  <2>1. UNCHANGED <<asking, waiting, found, info>>
    BY <1>7 DEF Interrogator!ReadChunk, chunk, r
  <2>2. \A i \in 1..n : ~Interrogator!IsReply(lines[i])
    BY <1>2, <1>7, FirstReplyAt
  <2>3. \A i, j \in DOMAIN lines' : n + i = n + j => i = j
    BY <1>2, <1>5
  <2>4. (\E i \in DOMAIN lines : Interrogator!IsReply(lines[i])) =>
          \E i \in DOMAIN lines' : Interrogator!IsReply(lines'[i])
    BY <1>6, <2>2
  <2>5. \A i \in DOMAIN lines' : Interrogator!IsReply(lines'[i]) =>
       /\ device = <<>> /\ Interrogator!Answerable(asking)
       /\ lines'[i] = <<"reply", Interrogator!Plan[asking][1], Interrogator!Plan[asking][2]>>
       /\ \A j \in DOMAIN lines' : Interrogator!IsReply(lines'[j]) => i = j
    BY <1>1, <1>5, <2>3 DEF Interrogator!TrafficInv
  <2>6. Interrogator!TrafficInv'
    BY <1>1, <1>4, <2>1, <2>4, <2>5 DEF Interrogator!TrafficInv, Interrogator!IsReply,
       Interrogator!Finished, Interrogator!Answerable
  <2> QED
    BY <1>1, <2>1, <2>6, ResultKept DEF Interrogator!InterrogatorInv
<1>8. CASE r # 0
  <2>1. r \in 1..n /\ Interrogator!IsReply(lines[r]) /\ r \in DOMAIN lines /\ chunk[r] = lines[r]
    <3>1. r \in 1..Len(chunk) /\ Interrogator!IsReply(chunk[r])
      BY <1>2, <1>8, FirstReplyAt
    <3>2. r \in 1..n /\ r \in DOMAIN lines
      BY <1>1, <1>2, <3>1
    <3>3. chunk[r] = lines[r]
      BY <1>2, <3>2
    <3> QED
      BY <3>1, <3>2, <3>3
  <2>2. /\ device = <<>> /\ Interrogator!Answerable(asking)
        /\ lines[r] = <<"reply", Interrogator!Plan[asking][1], Interrogator!Plan[asking][2]>>
        /\ \A j \in DOMAIN lines : Interrogator!IsReply(lines[j]) => r = j
    BY <1>1, <2>1 DEF Interrogator!TrafficInv
  <2>3. Interrogator!Record(<<chunk[r][2], chunk[r][3]>>)
    BY <1>8 DEF Interrogator!ReadChunk, chunk, r
  <2>4. /\ chunk[r][2] = Interrogator!Plan[asking][1]
        /\ chunk[r][3] = Interrogator!Plan[asking][2]
    BY <2>1, <2>2
  <2>5. Interrogator!Record(<<Interrogator!Plan[asking][1], Interrogator!Plan[asking][2]>>)
    BY <2>3, <2>4
  <2>6. Interrogator!ResultInv'
    BY <1>1, <2>2, <2>5, InterrogatorRecords
  <2>7. \A i \in DOMAIN lines' : ~Interrogator!IsReply(lines'[i])
    <3> SUFFICES ASSUME NEW i \in DOMAIN lines', Interrogator!IsReply(lines'[i]) PROVE FALSE
      OBVIOUS
    <3>1. r = n + i
      BY <1>5, <2>2
    <3> QED
      BY <1>2, <1>5, <2>1, <3>1
  <2>8. waiting' = FALSE
    BY <2>3 DEF Interrogator!Record
  <2>9. Interrogator!TrafficInv'
    BY <1>1, <1>4, <2>2, <2>7, <2>8 DEF Interrogator!TrafficInv, Interrogator!IsReply
  <2> QED
    BY <2>6, <2>9 DEF Interrogator!InterrogatorInv
<1> QED
  BY <1>7, <1>8

\* Every step keeps the invariant in a network that answers in time.
LEMMA InterrogatorStep ==
  ASSUME Interrogator!InterrogatorAssumption, ~Late, Interrogator!InterrogatorInv,
         [Interrogator!Next]_(Interrogator!vars)
  PROVE  Interrogator!InterrogatorInv'
<1>1. ASSUME UNCHANGED Interrogator!vars PROVE Interrogator!InterrogatorInv'
  <2>1. UNCHANGED <<asking, waiting, left, device, lines, closed, found, info>>
    BY <1>1 DEF Interrogator!vars
  <2>2. Interrogator!ResultInv'
    BY <2>1, ResultKept DEF Interrogator!InterrogatorInv
  <2>3. Interrogator!TrafficInv'
    BY <2>1 DEF Interrogator!InterrogatorInv, Interrogator!TrafficInv, Interrogator!IsReply,
       Interrogator!Finished, Interrogator!Answerable
  <2> QED
    BY <2>2, <2>3 DEF Interrogator!InterrogatorInv
<1> QED
  BY <1>1, InterrogatorAsks, CniConfirms, CniReplies, CniEvents, InterrogatorTicks,
     InterrogatorGivesUp, InterrogatorReads DEF Interrogator!Next, Interrogator!Over

\* What the run checks follows.
LEMMA InterrogatorHolds ==
  ASSUME Interrogator!InterrogatorAssumption, Interrogator!InterrogatorInv
  PROVE  /\ Interrogator!TypeOK /\ Interrogator!FoundExist
         /\ Interrogator!InfoIsRight /\ Interrogator!NothingMissed
<1> DEFINE P == Interrogator!Plan
<1>1. Interrogator!ResultInv /\ Interrogator!TrafficInv
  BY DEF Interrogator!InterrogatorInv
<1>2. Len(P) \in Nat \ {0}
  BY PlanParts
<1>3. Len(device) <= Len(P)
  <2>1. device = <<>> \/ \E x : device = <<x>>
    BY <1>1 DEF Interrogator!TrafficInv
  <2>2. Len(device) \in {0, 1}
    BY <2>1
  <2> QED
    BY <1>2, <2>2
<1>4. Interrogator!TypeOK
  BY <1>1, <1>3 DEF Interrogator!ResultInv, Interrogator!TrafficInv, Interrogator!TypeOK
<1>5. ASSUME Interrogator!Finished, ~closed
      PROVE  /\ "type_name" \in Readable => found = Present \ Nameless
             /\ \A a \in Interrogator!ToSet(Attrs) :
                  Interrogator!HasAttribute(Target, a) => info[a] = <<Target, a>>
  <2>1. \A i \in 1..Len(P) : Interrogator!Recorded(i)
    <3>1. 1..Len(P) = 1..asking - 1
      BY <1>1, <1>2, <1>5 DEF Interrogator!ResultInv, Interrogator!Finished
    <3> QED
      BY <1>1, <1>5, <3>1 DEF Interrogator!ResultInv
  <2>2. ASSUME "type_name" \in Readable PROVE found = Present \ Nameless
    <3>1. ASSUME NEW u \in Present PROVE u \in found \cup Nameless
      <4>1. PICK i \in 1..Len(P) : P[i] = <<u, "type_name", "discover">>
        BY PlanParts DEF Interrogator!InterrogatorAssumption
      <4> QED
        BY <2>1, <2>2, <4>1 DEF Interrogator!Recorded, Interrogator!Answerable,
                                Interrogator!HasAttribute
    <3> QED
      BY <1>1, <3>1 DEF Interrogator!ResultInv, Interrogator!FoundExist
  <2>3. ASSUME NEW a \in Interrogator!ToSet(Attrs), Interrogator!HasAttribute(Target, a)
        PROVE  info[a] = <<Target, a>>
    <3>1. PICK i \in 1..Len(P) : P[i] = <<Target, a, "interrogate">>
      BY PlanParts
    <3> QED
      BY <2>1, <2>3, <3>1 DEF Interrogator!Recorded, Interrogator!Answerable
  <2> QED
    BY <2>2, <2>3
<1>6. Interrogator!NothingMissed
  BY <1>5 DEF Interrogator!NothingMissed, Interrogator!TypeName
<1> QED
  BY <1>1, <1>4, <1>6 DEF Interrogator!ResultInv

-----------------------------------------------------------------------------
(* The PCI server *)

\* The server's state before the first frame of a read.
Before == [mode |-> mode, out |-> out, seen |-> seen, eaten |-> eaten, dropped |-> dropped,
           cut |-> FALSE, raised |-> FALSE]

\* The states along a read are those that HandleFrame makes one by one.  That
\* there is such a function is by induction on the number of frames.
LEMMA AfterSteps ==
  ASSUME Len(wire) \in Nat
  PROVE  /\ After[0] = Before
         /\ \A i \in 1..Len(wire) : After[i] = HandleFrame(After[i - 1], wire[i])
<1> DEFINE N == Len(wire)
           F(n, f) == f = [i \in 0..n |-> IF i = 0 THEN Before
                                          ELSE HandleFrame(f[i - 1], wire[i])]
           Bad == {n \in Nat : ~\E f : F(n, f)}
<1>1. Bad = {}
  <2> SUFFICES ASSUME Bad # {} PROVE FALSE
    OBVIOUS
  <2>1. PICK n \in Bad : \A m \in Bad : n <= m
    <3>1. Bad \subseteq Nat
      OBVIOUS
    <3> HIDE DEF Bad
    <3> QED
      BY <3>1, LeastNumber
  <2>2. n # 0
    <3>1. F(0, [i \in 0..0 |-> Before])
      BY SMT
    <3> QED
      BY <3>1
  <2>3. n \in Nat /\ n - 1 \in Nat /\ n - 1 \notin Bad
    <3>1. n \in Nat
      OBVIOUS
    <3>2. n - 1 \in Nat /\ ~(n <= n - 1)
      BY <2>2, <3>1
    <3> HIDE DEF Bad
    <3> QED
      BY <2>1, <3>1, <3>2
  <2>4. PICK f : F(n - 1, f)
    BY <2>3
  <2> DEFINE g == [i \in 0..n |-> IF i = 0 THEN Before ELSE HandleFrame(f[i - 1], wire[i])]
  <2>5. \A i \in 0..n - 1 : g[i] = f[i]
    BY <2>3, <2>4
  <2>6. \A i \in 0..n : i # 0 => i - 1 \in 0..n - 1
    BY <2>3
  <2>7. \A i \in 0..n : g[i] = IF i = 0 THEN Before ELSE HandleFrame(g[i - 1], wire[i])
    BY <2>5, <2>6
  <2>8. g = [i \in 0..n |-> g[i]]
    OBVIOUS
  <2>9. F(n, g)
    <3> HIDE DEF g
    <3> QED
      BY <2>7, <2>8
  <2> QED
    BY <2>9
<1>2. PICK f : F(N, f)
  BY <1>1
<1>3. F(N, After)
  BY <1>2 DEF After, Before
<1> QED
  BY <1>3

\* t is o and after it nothing that carries a number but id, in the last place.
Answered(t, o, id, k) ==
  /\ t \in Seq(Output) /\ Len(o) \in Nat /\ Len(t) \in Nat
  /\ DOMAIN o = 1..Len(o) /\ DOMAIN t = 1..Len(t)
  /\ \A i \in DOMAIN o : i \in DOMAIN t /\ t[i] = o[i]
  /\ \A i \in DOMAIN t : \/ i \in DOMAIN o
                         \/ t[i][2] = 0
                         \/ i = Len(t) /\ t[i][2] = id /\ ~Unanswered(k)

\* This is what the server writes on a frame.
LEMMA OutGrows ==
  ASSUME NEW o \in Seq(Output), NEW id \in DOMAIN kindOf, NEW k,
         NEW t, t = o \o Reports(k) \o Answer(id, k)
  PROVE  Answered(t, o, id, k)
<1> DEFINE r == Reports(k)
           a == Answer(id, k)
           p == o \o r
           O == Output
<1>1. r \in Seq(O) /\ Len(r) \in Nat /\ DOMAIN r = 1..Len(r) /\ \A i \in DOMAIN r : r[i][2] = 0
  <2> DEFINE x == <<"report", 0>>
  <2>1. x \in O /\ x[2] = 0
    BY DEF Output
  <2>2. r = (IF k = "status" THEN [i \in 1..3 |-> x] ELSE <<>>)
    BY DEF Reports
  <2> HIDE DEF x, O, r
  <2>3. CASE k = "status"
    <3>1. r \in Seq(O) /\ Len(r) = 3 /\ \A i \in 1..3 : r[i] = x
      BY <2>1, <2>2, <2>3
    <3> QED
      BY <2>1, <3>1
  <2>4. CASE k # "status"
    BY <2>2, <2>4
  <2> QED
    BY <2>3, <2>4
<1>2. /\ a \in Seq(O) /\ Len(a) \in Nat /\ DOMAIN a = 1..Len(a) /\ Len(a) \in {0, 1}
      /\ \A i \in DOMAIN a : a[i][2] = id /\ ~Unanswered(k)
  <2> DEFINE x == <<"confirmation", id>>
  <2>1. x \in O /\ x[2] = id
    BY DEF Output
  <2>2. a = (IF Unanswered(k) THEN <<>> ELSE <<x>>)
    BY DEF Answer
  <2> HIDE DEF x, O, a
  <2>3. CASE Unanswered(k)
    BY <2>2, <2>3
  <2>4. CASE ~Unanswered(k)
    <3>1. a \in Seq(O) /\ Len(a) = 1 /\ a[1] = x
      BY <2>1, <2>2, <2>4
    <3> QED
      BY <2>1, <2>4, <3>1
  <2> QED
    BY <2>3, <2>4
<1> HIDE DEF O, r, a
<1>3. /\ o \o r \in Seq(O) /\ Len(o) \in Nat /\ Len(o \o r) = Len(o) + Len(r)
      /\ DOMAIN (o \o r) = 1..Len(o) + Len(r)
      /\ \A i \in 1..Len(o) : (o \o r)[i] = o[i]
      /\ \A j \in 1..Len(r) : (o \o r)[Len(o) + j] = r[j]
  BY <1>1, ConcatAt DEF O
<1>4. /\ t \in Seq(O) /\ Len(t) = Len(p) + Len(a) /\ DOMAIN t = 1..Len(p) + Len(a)
      /\ \A i \in 1..Len(p) : t[i] = p[i]
      /\ \A j \in 1..Len(a) : t[Len(p) + j] = a[j]
  <2>1. p \in Seq(O) /\ a \in Seq(O)
    BY <1>2, <1>3
  <2>2. t = p \o a
    BY DEF r, a
  <2> HIDE DEF p
  <2> QED
    BY <2>1, <2>2, ConcatAt
<1>5. Len(p) = Len(o) + Len(r) /\ Len(p) \in Nat
  BY <1>1, <1>3
<1> HIDE DEF p
<1>6. DOMAIN o = 1..Len(o)
  OBVIOUS
<1>7. ASSUME NEW i \in 1..Len(o) PROVE i \in 1..Len(p) + Len(a) /\ t[i] = o[i]
  <2>1. i \in 1..Len(p) /\ i \in 1..Len(p) + Len(a)
    BY <1>1, <1>2, <1>3, <1>5
  <2> QED
    BY <1>3, <1>4, <2>1 DEF p
<1>8. ASSUME NEW i \in 1..Len(p) + Len(a)
      PROVE  \/ i \in 1..Len(o) \/ t[i][2] = 0
             \/ i = Len(p) + Len(a) /\ t[i][2] = id /\ ~Unanswered(k)
  <2>1. CASE i \in 1..Len(p) /\ i \notin 1..Len(o)
    <3>1. i - Len(o) \in 1..Len(r) /\ Len(o) + (i - Len(o)) = i
      BY <1>1, <1>3, <1>5, <2>1
    <3>2. p[i] = r[i - Len(o)]
      BY <1>3, <3>1 DEF p
    <3>3. t[i] = p[i] /\ r[i - Len(o)][2] = 0
      BY <1>1, <1>4, <2>1, <3>1
    <3> QED
      BY <3>2, <3>3
  <2>2. CASE i \notin 1..Len(p)
    <3>1. i = Len(p) + 1 /\ Len(a) = 1
      <4> DEFINE lp == Len(p)
                 la == Len(a)
      <4>1. lp \in Nat /\ la \in {0, 1} /\ i \in 1..(lp + la) /\ i \notin 1..lp
        BY <1>2, <1>5, <2>2
      <4> HIDE DEF lp, la
      <4>2. i = lp + 1 /\ la = 1
        BY ONLY <4>1
      <4> QED
        BY <4>2 DEF lp, la
    <3>2. 1 \in DOMAIN a /\ 1 \in 1..Len(a)
      BY <1>2, <3>1
    <3>3. t[i] = a[1]
      BY <1>4, <3>1, <3>2
    <3> QED
      BY <1>2, <3>1, <3>2, <3>3
  <2> QED
    BY <2>1, <2>2
<1>9. Len(t) \in Nat
  BY <1>2, <1>4, <1>5
<1> QED
  BY <1>3, <1>4, <1>6, <1>7, <1>8, <1>9 DEF O, Answered

\* A state of the server along a read.
ServerState ==
  [mode : SUBSET Option, out : Seq(Output), seen : Seq(DOMAIN kindOf),
   eaten : SUBSET DOMAIN kindOf, dropped : Nat, cut : BOOLEAN, raised : BOOLEAN]

\* A frame keeps what holds of the options and the confirmations.
LEMMA FrameKeeps ==
  ASSUME CommandAssumption, ServerTypes, StreamInv, NEW n \in DOMAIN wire,
         NEW s \in ServerState, Good(s.mode, s.out, n - 1)
  PROVE  /\ HandleFrame(s, wire[n]) \in ServerState
         /\ Good(HandleFrame(s, wire[n]).mode, HandleFrame(s, wire[n]).out, n)
<1> DEFINE f == wire[n]
           k == Decode(f[2], f[3], s.mode)
           h == HandleFrame(s, f)
           D == DOMAIN kindOf
<1>1. f[1] \in D /\ f[2] \in Kind /\ f[2] = kindOf[f[1]] /\ n \in Nat /\ DOMAIN wire \subseteq Nat
  BY DEF ServerTypes, StreamInv
<1>2. k \in {f[2], "invalid"}
  BY DEF Decode
<1>3. /\ s.mode \subseteq Option /\ s.out \in Seq(Output) /\ s.seen \in Seq(D)
      /\ s.eaten \subseteq D /\ s.cut \in BOOLEAN /\ s.raised \in BOOLEAN
      /\ s.dropped \in Nat /\ OneIfOptions(f) \in Nat
  BY DEF ServerState, OneIfOptions
<1>4. Good(s.mode, s.out, n)
  <2>1. \A j \in DOMAIN wire : j > n => j > n - 1
    BY <1>1
  <2> QED
    BY <2>1 DEF Good
<1>5. CASE s.raised \/ s.cut \/ Raises(k, s.mode)
  <2>1. /\ h \in ServerState /\ h.mode = s.mode /\ h.out = s.out
    <3> DEFINE d == s.dropped + OneIfOptions(f)
    <3>0. d \in Nat
      BY <1>3
    <3>1. CASE s.raised
      <4>1. h = [s EXCEPT !.dropped = d]
        BY <3>1 DEF HandleFrame
      <4> HIDE DEF d, h
      <4> QED
        BY <1>3, <3>0, <4>1 DEF ServerState
    <3>2. CASE ~s.raised /\ s.cut
      <4> DEFINE b == HasSum(f[2]) \/ f[2] = "cal"
      <4>1. b \in BOOLEAN
        OBVIOUS
      <4>2. h = [s EXCEPT !.cut = FALSE, !.eaten = @ \cup {f[1]}, !.dropped = d,
                             !.raised = b]
        BY <3>2 DEF HandleFrame
      <4> HIDE DEF b, d, h
      <4> QED
        BY <1>1, <1>3, <3>0, <4>1, <4>2 DEF ServerState
    <3>3. CASE ~s.raised /\ ~s.cut /\ Raises(k, s.mode)
      <4>1. h = [s EXCEPT !.raised = TRUE]
        BY <3>3 DEF HandleFrame
      <4> HIDE DEF h
      <4> QED
        BY <4>1 DEF ServerState
    <3> QED
      BY <1>5, <3>1, <3>2, <3>3
  <2> QED
    BY <1>4, <2>1
<1>6. CASE ~s.raised /\ ~s.cut /\ ~Raises(k, s.mode)
  <2> DEFINE o == s.out \o Reports(k) \o Answer(f[1], k)
             m == Options(k, s.mode)
             e == IF k \in Lighting THEN Append(s.seen, f[1]) ELSE s.seen
             b == k = "cal"
  <2>1. h = [s EXCEPT !.mode = m, !.out = o, !.seen = e, !.cut = b]
    BY <1>6 DEF HandleFrame
  <2>2. /\ o \in Seq(Output) /\ DOMAIN s.out = 1..Len(s.out) /\ DOMAIN o = 1..Len(o)
        /\ Len(o) \in Nat /\ Len(s.out) \in Nat
        /\ \A i \in DOMAIN s.out : i \in DOMAIN o /\ o[i] = s.out[i]
        /\ \A i \in DOMAIN o : \/ i \in DOMAIN s.out \/ o[i][2] = 0
                               \/ i = Len(o) /\ o[i][2] = f[1] /\ ~Unanswered(k)
    <3> HIDE DEF f, k
    <3>1. o = s.out \o Reports(k) \o Answer(f[1], k)
      OBVIOUS
    <3>2. s.out \in Seq(Output) /\ f[1] \in DOMAIN kindOf
      BY <1>1, <1>3
    <3> HIDE DEF o
    <3>3. Answered(o, s.out, f[1], k)
      BY <3>1, <3>2, OutGrows
    <3> QED
      BY <3>3 DEF Answered
  <2>3. m \subseteq Option
    BY <1>3 DEF Options, Option, Default, FullOptions
  <2>4. e \in Seq(D)
    <3> HIDE DEF f, k, D
    <3> QED
      BY <1>1, <1>3, AppendAt
  <2>5. b \in BOOLEAN
    OBVIOUS
  <2> HIDE DEF o, m, e, b, h
  <2>6. h \in ServerState /\ h.mode = m /\ h.out = o
    BY <1>3, <2>1, <2>2, <2>3, <2>4, <2>5 DEF ServerState
  <2>7. ASSUME NEW i \in DOMAIN o, o[i][2] \in Dm30
        PROVE  m = FullOptions /\ \A j \in DOMAIN wire : j > n => ~Sets(wire[j][2])
    <3>1. CASE i \in DOMAIN s.out
      <4>1. s.out[i][2] \in Dm30
        BY <2>2, <2>7, <3>1
      <4>2. s.mode = FullOptions /\ \A j \in DOMAIN wire : j > n - 1 => ~Sets(wire[j][2])
        BY <3>1, <4>1 DEF Good
      <4>3. ~Sets(f[2]) /\ \A j \in DOMAIN wire : j > n => ~Sets(wire[j][2])
        <5>1. n > n - 1 /\ \A j \in DOMAIN wire : j > n => j > n - 1
          BY <1>1
        <5> QED
          BY <4>2, <5>1
      <4>4. k \notin {"reset", "smart"}
        BY <1>2, <4>3 DEF Sets
      <4>5. m = FullOptions
        BY <4>2, <4>4 DEF m, Options
      <4> QED
        BY <4>3, <4>5
    <3>2. CASE o[i][2] = 0
      <4>1. 0 \notin DOMAIN kindOf
        BY DEF ServerTypes
      <4> QED
        BY <2>7, <3>2, <4>1 DEF Dm30
    <3>3. CASE o[i][2] = f[1] /\ ~Unanswered(k)
      <4>1. f[2] = "dm30" /\ k = "dm30"
        BY <1>1, <1>2, <2>7, <3>3 DEF Dm30, Unanswered
      <4>2. m = FullOptions
        BY <4>1 DEF m, Options
      <4>3. ASSUME NEW j \in DOMAIN wire, j > n PROVE ~Sets(wire[j][2])
        BY <1>1, <4>1, <4>3 DEF StreamInv
      <4> QED
        BY <4>2, <4>3
    <3> QED
      BY <2>2, <3>1, <3>2, <3>3
  <2>8. ASSUME nretry = 0
        PROVE  /\ \A i, j \in DOMAIN o :
                    (i < j /\ o[i][2] # 0 /\ o[j][2] # 0) => o[i][2] < o[j][2]
               /\ \A i \in DOMAIN o : \A j \in DOMAIN wire : j > n => o[i][2] < wire[j][1]
    <3>1. /\ \A i, j \in DOMAIN s.out :
               (i < j /\ s.out[i][2] # 0 /\ s.out[j][2] # 0) => s.out[i][2] < s.out[j][2]
          /\ \A i \in DOMAIN s.out : \A j \in DOMAIN wire : j > n - 1 => s.out[i][2] < wire[j][1]
      BY <2>8 DEF Good
    <3>2. \A i \in DOMAIN s.out : s.out[i][2] < f[1]
      <4>1. n > n - 1
        BY <1>1
      <4> QED
        BY <3>1, <4>1
    <3>3. ASSUME NEW i \in DOMAIN o, NEW j \in DOMAIN o, i < j, o[i][2] # 0, o[j][2] # 0
          PROVE  o[i][2] < o[j][2]
      <4>1. CASE j \in DOMAIN s.out
        <5>1. i \in DOMAIN s.out
          BY <2>2, <3>3, <4>1
        <5> QED
          BY <2>2, <3>1, <3>3, <4>1, <5>1
      <4>2. CASE j = Len(o) /\ o[j][2] = f[1]
        <5>1. i # Len(o)
          BY <2>2, <3>3, <4>2
        <5>2. i \in DOMAIN s.out
          BY <2>2, <3>3, <5>1
        <5> QED
          BY <2>2, <3>2, <4>2, <5>2
      <4> QED
        BY <2>2, <3>3, <4>1, <4>2
    <3>4. ASSUME NEW i \in DOMAIN o, NEW j \in DOMAIN wire, j > n PROVE o[i][2] < wire[j][1]
      <4>1. wire[j][1] \in D /\ D \subseteq Nat \ {0}
        BY SMTT(30) DEF ServerTypes
      <4>2. f[1] < wire[j][1]
        BY <2>8, <3>4, <1>1 DEF StreamInv
      <4>3. CASE i \in DOMAIN s.out
        <5>1. j > n - 1
          BY <1>1, <3>4
        <5> QED
          BY <2>2, <3>1, <4>3, <5>1
      <4>4. CASE o[i][2] = 0
        BY <4>1, <4>4
      <4>5. CASE o[i][2] = f[1]
        BY <4>2, <4>5
      <4> QED
        BY <2>2, <4>3, <4>4, <4>5
    <3> QED
      BY <3>3, <3>4
  <2>9. Good(m, o, n)
    BY <2>7, <2>8 DEF Good
  <2> QED
    BY <2>6, <2>9 DEF h
<1> QED
  BY <1>5, <1>6

\* It holds after every number of frames.
LEMMA ReadKeeps ==
  ASSUME CommandAssumption, ServerInv, NEW n \in 0..Len(wire)
  PROVE  After[n] \in ServerState /\ Good(After[n].mode, After[n].out, n)
<1> DEFINE N == Len(wire)
           H(i) == After[i] \in ServerState /\ Good(After[i].mode, After[i].out, i)
           Bad == {i \in 0..N : ~H(i)}
<1>1. ServerTypes /\ StreamInv /\ Good(mode, out, 0) /\ N \in Nat /\ DOMAIN wire = 1..N
  BY DEF ServerInv, ServerTypes
<1>2. After[0] = Before /\ \A i \in 1..N : After[i] = HandleFrame(After[i - 1], wire[i])
  BY <1>1, AfterSteps
<1>3. Bad = {}
  <2> SUFFICES ASSUME Bad # {} PROVE FALSE
    OBVIOUS
  <2>1. PICK i \in Bad : \A j \in Bad : i <= j
    <3>1. Bad \subseteq Nat
      BY <1>1
    <3> HIDE DEF Bad
    <3> QED
      BY <3>1, LeastNumber
  <2>2. i \in 0..N /\ ~H(i)
    OBVIOUS
  <2>3. H(0)
    <3>1. Before \in ServerState
      BY <1>1 DEF Before, ServerState, ServerTypes
    <3>2. Before.mode = mode /\ Before.out = out
      BY DEF Before
    <3> QED
      BY <1>1, <1>2, <3>1, <3>2
  <2>4. i \in 1..N /\ i - 1 \in 0..N /\ ~(i <= i - 1)
    BY <1>1, <2>2, <2>3
  <2>5. H(i - 1)
    BY <2>1, <2>4
  <2>6. H(i)
    BY <1>1, <1>2, <2>4, <2>5, FrameKeeps
  <2> QED
    BY <2>2, <2>6
<1> QED
  BY <1>3

\* A read: what is left of the stream comes after the frames it took.
LEMMA ServerReads ==
  ASSUME CommandAssumption, ServerInv, NEW n \in DOMAIN wire, DataReceived(n)
  PROVE  ServerInv'
<1> DEFINE N == Len(wire)
           m == N - n
           s == After[n]
           W == (DOMAIN kindOf) \X Kind \X BOOLEAN
<1>1. /\ ServerTypes /\ StreamInv /\ wire \in Seq(W)
      /\ mode' = s.mode /\ out' = s.out /\ seen' = s.seen /\ eaten' = s.eaten
      /\ dropped' = s.dropped
      /\ wire' = SubSeq(wire, n + 1, N) /\ UNCHANGED <<at, ncmd, nretry, kindOf>>
  BY DEF ServerInv, ServerTypes, DataReceived
<1>2. N \in Nat /\ n \in Nat /\ m \in Nat /\ n + m = N /\ n \in 0..N /\ DOMAIN wire = 1..N
  <2>1. N \in Nat /\ DOMAIN wire = 1..N
    BY <1>1
  <2> QED
    BY <2>1
<1>3. s \in ServerState /\ Good(s.mode, s.out, n)
  BY <1>2, ReadKeeps
<1> HIDE DEF m, s, W
<1>4. /\ wire' \in Seq(W) /\ DOMAIN wire' = 1..m /\ \A i \in 1..m : wire'[i] = wire[n + i]
  <2>1. wire' = SubSeq(wire, n + 1, n + m) /\ n + m <= Len(wire)
    BY <1>1, <1>2, SMTT(30)
  <2>2. wire \in Seq(W) /\ n \in Nat /\ m \in Nat /\ n + m <= Len(wire)
    BY <1>1, <1>2, <2>1
  <2>3. /\ SubSeq(wire, n + 1, n + m) \in Seq(W) /\ DOMAIN SubSeq(wire, n + 1, n + m) = 1..m
        /\ \A i \in 1..m : SubSeq(wire, n + 1, n + m)[i] = wire[n + i]
    BY ONLY <2>2, SubSeqAt
  <2> QED
    BY ONLY <2>1, <2>3
<1>5. ASSUME NEW i \in DOMAIN wire'
      PROVE  n + i \in DOMAIN wire /\ wire'[i] = wire[n + i] /\ n + i > n /\ i \in Nat
  <2>1. i \in 1..m
    BY <1>4
  <2>2. n + i \in 1..N /\ n + i > n /\ i \in Nat
    BY <1>2, <2>1
  <2> QED
    BY <1>2, <1>4, <2>1, <2>2
<1>6. \A i, j \in DOMAIN wire' : /\ (n + i < n + j) = (i < j) /\ n + i \in DOMAIN wire
                                 /\ n + j \in DOMAIN wire
  BY <1>2, <1>5
<1>7. ServerTypes'
  BY <1>1, <1>3, <1>4 DEF ServerTypes, ServerState, W, Kind, Output
<1>8. StreamInv'
  <2>1. Dm30' = Dm30
    BY <1>1 DEF Dm30
  <2>2. \A i \in DOMAIN wire' : wire'[i][2] = kindOf'[wire'[i][1]]
    BY <1>1, <1>5 DEF StreamInv
  <2>3. \A i, j \in DOMAIN wire' : wire'[i][2] = "dm30" /\ Sets(wire'[j][2]) => j < i
    BY <1>1, <1>5, <1>6 DEF StreamInv
  <2>4. nretry = 0 => \A i, j \in DOMAIN wire' : i < j => wire'[i][1] < wire'[j][1]
    BY <1>1, <1>5, <1>6 DEF StreamInv
  <2> QED
    BY <1>1, <2>1, <2>2, <2>3, <2>4 DEF StreamInv, Sets
<1>9. Good(mode, out, 0)'
  <2>1. Dm30' = Dm30
    BY <1>1 DEF Dm30
  <2>2. (\E i \in DOMAIN s.out : s.out[i][2] \in Dm30) =>
          s.mode = FullOptions /\ \A j \in DOMAIN wire' : j > 0 => ~Sets(wire'[j][2])
    BY <1>3, <1>5 DEF Good
  <2>3. nretry = 0 =>
          /\ \A i, j \in DOMAIN s.out : (i < j /\ s.out[i][2] # 0 /\ s.out[j][2] # 0) =>
               s.out[i][2] < s.out[j][2]
          /\ \A i \in DOMAIN s.out : \A j \in DOMAIN wire' : j > 0 => s.out[i][2] < wire'[j][1]
    BY <1>3, <1>5 DEF Good
  <2> QED
    BY <1>1, <2>1, <2>2, <2>3 DEF Good, Sets
<1> QED
  BY <1>7, <1>8, <1>9 DEF ServerInv

\* Initially only the power-up notification was written.
LEMMA ServerInit == Init => ServerInv
<1> SUFFICES ASSUME Init PROVE ServerInv
  OBVIOUS
<1>1. /\ mode = {"basic"} /\ wire = <<>> /\ seen = <<>> /\ eaten = {} /\ kindOf = <<>>
      /\ out = <<<<"power_on", 0>>>> /\ at = 0 /\ ncmd = 0 /\ nretry = 0 /\ dropped = 0
  BY DEF Init, Default
<1>2. out \in Seq(Output)
  <2> DEFINE x == <<"power_on", 0>>
  <2>1. x \in Output /\ out = <<x>>
    BY <1>1 DEF Output
  <2> HIDE DEF x
  <2> QED
    BY <2>1
<1>3. ServerTypes
  BY <1>1, <1>2 DEF ServerTypes, Option, Script
<1>4. Dm30 = {} /\ StreamInv
  BY <1>1 DEF StreamInv, Dm30
<1>5. Good(mode, out, 0)
  <2>1. DOMAIN out = {1} /\ DOMAIN wire = {}
    BY <1>1
  <2> QED
    BY <1>4, <2>1 DEF Good
<1> QED
  BY <1>3, <1>4, <1>5 DEF ServerInv

\* The client's packets: the interface options are the last one of pci_reset,
\* the resets and the shortcut are the first four.
LEMMA ScriptFacts ==
  /\ Len(Script) = 8
  /\ \A i \in 1..8 : /\ Script[i] \in ToSet(Script) /\ (Script[i] = "dm30" => i = 8)
                     /\ (Sets(Script[i]) => i <= 4)
<1>1. Len(Script) = 8 /\ DOMAIN Script = 1..8
  BY DEF Script
<1>2. \A i \in 1..8 : Script[i] \in ToSet(Script)
  BY <1>1 DEF ToSet
<1>3. ASSUME NEW i \in 1..8
      PROVE  (Script[i] = "dm30" => i = 8) /\ (Sets(Script[i]) => i <= 4)
  <2>1. i = 1 \/ i = 2 \/ i = 3 \/ i = 4 \/ i = 5 \/ i = 6 \/ i = 7 \/ i = 8
    OBVIOUS
  <2> QED
    BY <2>1 DEF Script, Sets
<1> QED
  BY <1>1, <1>2, <1>3

\* A frame joins the stream, sent for the first time or repeated.  A reset or
\* the shortcut is only sent before the interface options are.
LEMMA StreamGrows ==
  ASSUME ServerInv, NEW id, NEW k \in Kind,
         wire' = Append(wire, <<id, k, HasSum(k)>>), UNCHANGED <<mode, out, seen, eaten, dropped>>,
         kindOf' \in Seq(Kind), DOMAIN kindOf \subseteq DOMAIN kindOf',
         \A i \in DOMAIN kindOf : kindOf'[i] = kindOf[i],
         id \in DOMAIN kindOf', kindOf'[id] = k,
         at' \in 0..Len(Script), ncmd' \in Nat, nretry' \in Nat,
         Dm30' # {} => at' = Len(Script), Sets(k) => Dm30 = {},
         nretry' = 0 => nretry = 0 /\ \A i \in DOMAIN kindOf : i < id
  PROVE  ServerInv'
<1> DEFINE W == (DOMAIN kindOf') \X Kind \X BOOLEAN
           x == <<id, k, HasSum(k)>>
           n == Len(wire)
<1>1. ServerTypes /\ StreamInv /\ Good(mode, out, 0)
  BY DEF ServerInv
<1>2. /\ wire \in Seq(W) /\ out \in Seq(Output') /\ seen \in Seq(DOMAIN kindOf')
      /\ eaten \subseteq DOMAIN kindOf'
  <2>1. wire \in Seq(W)
    <3>1. (DOMAIN kindOf) \X Kind \X BOOLEAN \subseteq W
      OBVIOUS
    <3> QED
      BY <1>1, <3>1, SeqGrows DEF ServerTypes
  <2>2. out \in Seq(Output')
    <3>1. Output \subseteq Output'
      BY DEF Output
    <3> QED
      BY <1>1, <3>1, SeqGrows DEF ServerTypes
  <2>3. seen \in Seq(DOMAIN kindOf')
    BY <1>1, SeqGrows DEF ServerTypes
  <2> QED
    BY <1>1, <2>1, <2>2, <2>3 DEF ServerTypes
<1>3. x \in W /\ x[1] = id /\ x[2] = k
  BY DEF HasSum
<1> HIDE DEF W, x
<1>4. /\ wire' \in Seq(W) /\ n \in Nat /\ DOMAIN wire = 1..n /\ DOMAIN wire' = 1..n + 1
      /\ \A i \in 1..n : wire'[i] = wire[i]
      /\ wire'[n + 1] = x
  BY <1>2, <1>3, AppendAt DEF x
<1> HIDE DEF n
<1>5. ASSUME NEW i \in DOMAIN wire'
      PROVE  \/ i \in DOMAIN wire /\ wire'[i] = wire[i] /\ i \in Nat /\ i < n + 1
             \/ i = n + 1 /\ wire'[i] = x
  BY <1>4
<1>6. ServerTypes'
  BY <1>1, <1>2, <1>4 DEF ServerTypes, W, Kind
<1>7. \A i \in DOMAIN wire : wire[i][1] \in DOMAIN kindOf
  BY <1>1 DEF ServerTypes
<1>8. \A i \in DOMAIN wire : wire[i][2] = "dm30" => wire[i][1] \in Dm30
  BY <1>1, <1>7 DEF StreamInv, Dm30
<1>9. StreamInv'
  <2>1. \A i \in DOMAIN wire' : wire'[i][2] = kindOf'[wire'[i][1]]
    BY <1>1, <1>3, <1>5, <1>7 DEF StreamInv
  <2>2. ASSUME NEW i \in DOMAIN wire', NEW j \in DOMAIN wire',
               wire'[i][2] = "dm30", Sets(wire'[j][2])
        PROVE  j < i
    <3>1. CASE i \in DOMAIN wire /\ wire'[i] = wire[i] /\ i \in Nat /\ i < n + 1
      <4>1. wire[i][1] \in Dm30
        BY <1>8, <2>2, <3>1
      <4>2. ~Sets(k)
        BY <4>1
      <4> QED
        BY <1>1, <1>3, <1>5, <2>2, <3>1, <4>2 DEF StreamInv
    <3>2. CASE i = n + 1 /\ wire'[i] = x
      <4>1. ~Sets(x[2])
        BY <2>2, <3>2 DEF Sets
      <4> QED
        BY <1>5, <2>2, <3>2, <4>1
    <3> QED
      BY <1>5, <3>1, <3>2
  <2>3. ASSUME nretry' = 0, NEW i \in DOMAIN wire', NEW j \in DOMAIN wire', i < j
        PROVE  wire'[i][1] < wire'[j][1]
    <3>1. i \in DOMAIN wire /\ wire'[i] = wire[i]
      BY <1>4, <1>5, <2>3
    <3>2. CASE j \in DOMAIN wire /\ wire'[j] = wire[j]
      BY <1>1, <2>3, <3>1, <3>2 DEF StreamInv
    <3>3. CASE j = n + 1 /\ wire'[j] = x
      BY <1>3, <1>7, <2>3, <3>1, <3>3
    <3> QED
      BY <1>5, <3>2, <3>3
  <2> QED
    BY <2>1, <2>2, <2>3 DEF StreamInv, Sets
<1>10. \A i \in DOMAIN out : out[i][2] \in {0} \cup DOMAIN kindOf
  BY <1>1 DEF ServerTypes, Output
<1>11. Good(mode, out, 0)'
  <2>1. ASSUME NEW i \in DOMAIN out, out[i][2] \in Dm30'
        PROVE  mode = FullOptions /\ \A j \in DOMAIN wire' : j > 0 => ~Sets(wire'[j][2])
    <3>1. out[i][2] \in DOMAIN kindOf' /\ kindOf'[out[i][2]] = "dm30"
      BY <2>1 DEF Dm30
    <3>2. out[i][2] # 0
      BY <3>1
    <3>3. out[i][2] \in Dm30
      BY <1>10, <3>1, <3>2 DEF Dm30
    <3>4. ~Sets(x[2])
      BY <1>3, <3>3
    <3>5. mode = FullOptions /\ \A j \in DOMAIN wire : j > 0 => ~Sets(wire[j][2])
      BY <1>1, <3>3 DEF Good
    <3> QED
      BY <1>5, <3>4, <3>5
  <2>2. ASSUME nretry' = 0, NEW i \in DOMAIN out, NEW j \in DOMAIN wire', j > 0
        PROVE  out[i][2] < wire'[j][1]
    <3>1. CASE j \in DOMAIN wire /\ wire'[j] = wire[j]
      BY <1>1, <2>2, <3>1 DEF Good
    <3>2. CASE j = n + 1 /\ wire'[j] = x
      <4>1. id \in Nat /\ id > 0
        BY SMTT(30)
      <4>2. out[i][2] = 0 \/ out[i][2] < id
        BY <1>10, <2>2
      <4> QED
        BY <1>3, <3>2, <4>1, <4>2
    <3> QED
      BY <1>5, <3>1, <3>2
  <2>3. nretry' = 0 =>
          \A i, j \in DOMAIN out : (i < j /\ out[i][2] # 0 /\ out[j][2] # 0) => out[i][2] < out[j][2]
    BY <1>1 DEF Good
  <2> QED
    BY <2>1, <2>2, <2>3 DEF Good, Sets
<1> QED
  BY <1>6, <1>9, <1>11 DEF ServerInv

\* Transmit: the new frame has the next id.
LEMMA Transmitted ==
  ASSUME ServerInv, NEW k \in Kind, Transmit(k), UNCHANGED <<mode, out, seen, nretry, eaten, dropped>>,
         at' \in 0..Len(Script), ncmd' \in Nat,
         Dm30 # {} \/ k = "dm30" => at' = Len(Script), Sets(k) => Dm30 = {}
  PROVE  ServerInv'
<1> DEFINE id == Len(kindOf) + 1
<1>1. kindOf \in Seq(Kind) /\ nretry \in Nat
  BY DEF ServerInv, ServerTypes
<1>2. kindOf' = Append(kindOf, k) /\ wire' = Append(wire, <<id, k, HasSum(k)>>)
  BY DEF Transmit
<1>3. /\ Append(kindOf, k) \in Seq(Kind) /\ Len(kindOf) \in Nat
      /\ DOMAIN kindOf = 1..Len(kindOf) /\ DOMAIN Append(kindOf, k) = 1..Len(kindOf) + 1
      /\ \A i \in 1..Len(kindOf) : Append(kindOf, k)[i] = kindOf[i]
      /\ Append(kindOf, k)[Len(kindOf) + 1] = k
  BY <1>1, AppendAt
<1>4. /\ kindOf' \in Seq(Kind) /\ DOMAIN kindOf \subseteq DOMAIN kindOf'
      /\ \A i \in DOMAIN kindOf : kindOf'[i] = kindOf[i]
      /\ id \in DOMAIN kindOf' /\ kindOf'[id] = k /\ \A i \in DOMAIN kindOf : i < id
  BY <1>2, <1>3
<1>5. DOMAIN kindOf' = DOMAIN kindOf \cup {id}
  BY <1>2, <1>3
<1> HIDE DEF id
<1>6. Dm30' # {} => at' = Len(Script)
  BY <1>4, <1>5 DEF Dm30
<1> QED
  BY <1>1, <1>2, <1>4, <1>6, StreamGrows

\* The client sends a packet of pci_reset, or a command.
LEMMA ServerSends ==
  ASSUME CommandAssumption, ServerInv, SendScript \/ \E k \in Command : SendCommand(k)
  PROVE  ServerInv'
<1>1. /\ at \in 0..8 /\ ncmd \in Nat /\ Len(Script) = 8 /\ (Dm30 # {} => at = 8)
  BY ScriptFacts DEF ServerInv, ServerTypes, StreamInv
<1>2. ASSUME SendScript PROVE ServerInv'
  <2> DEFINE k == Script[at + 1]
  <2>1. /\ at < 8 /\ at' = at + 1 /\ Transmit(k)
        /\ UNCHANGED <<mode, out, seen, ncmd, nretry, eaten, dropped>>
    BY <1>1, <1>2 DEF SendScript
  <2>2. Dm30 = {} /\ at + 1 \in 1..8
    BY <1>1, <2>1
  <2>3. k \in Kind /\ (k = "dm30" => at + 1 = 8)
    BY <2>2, ScriptFacts DEF Kind
  <2> HIDE DEF k
  <2> QED
    BY <1>1, <2>1, <2>2, <2>3, Transmitted
<1>3. ASSUME NEW k \in Command, SendCommand(k) PROVE ServerInv'
  <2>1. /\ ncmd' = ncmd + 1 /\ Transmit(k)
        /\ UNCHANGED <<mode, out, seen, at, nretry, eaten, dropped>>
    BY <1>3 DEF SendCommand
  <2>2. k \in Kind /\ k # "dm30" /\ ~Sets(k)
    BY DEF Kind, CommandAssumption, Lighting, Sets
  <2> QED
    BY <1>1, <2>1, <2>2, Transmitted
<1> QED
  BY <1>2, <1>3

\* The client repeats a frame that asked for a confirmation.
LEMMA ServerRepeats ==
  ASSUME ServerInv, NEW id \in DOMAIN kindOf, Repeat(id)
  PROVE  ServerInv'
<1> DEFINE k == kindOf[id]
<1>1. /\ nretry' = nretry + 1 /\ k \notin {"reset", "smart", "cal"}
      /\ wire' = Append(wire, <<id, k, HasSum(k)>>)
      /\ UNCHANGED <<mode, out, seen, at, ncmd, kindOf, eaten, dropped>>
  BY DEF Repeat
<1>2. /\ kindOf \in Seq(Kind) /\ nretry \in Nat /\ at \in 0..Len(Script) /\ ncmd \in Nat
      /\ (Dm30 # {} => at = Len(Script))
  BY DEF ServerInv, ServerTypes, StreamInv
<1>3. k \in Kind /\ kindOf'[id] = k /\ Dm30' = Dm30 /\ ~Sets(k)
  BY <1>1, <1>2 DEF Dm30, Sets
<1>4. nretry' \in Nat /\ nretry' # 0
  BY <1>1, <1>2
<1> HIDE DEF k
<1> QED
  BY <1>1, <1>2, <1>3, <1>4, StreamGrows

\* Every step of the server and its client keeps the invariant.
LEMMA ServerStep ==
  ASSUME CommandAssumption, ServerInv, [Next]_vars
  PROVE  ServerInv'
<1>1. ASSUME UNCHANGED vars PROVE ServerInv'
  BY <1>1 DEF vars, ServerInv, ServerTypes, StreamInv, Good, Dm30, Sets, Kind, Output
<1> QED
  BY <1>1, ServerSends, ServerRepeats, ServerReads DEF Next, Quiet

\* What the run checks follows.
LEMMA ServerHolds ==
  ASSUME ServerInv
  PROVE  TypeOK /\ ReadyWhenConfirmed /\ ConfirmedInOrder
<1>1. \A i \in DOMAIN out : out[i][2] \in {0} \cup DOMAIN kindOf
  BY DEF ServerInv, ServerTypes, Output
<1>2. TypeOK
  <2>1. seen \in Seq(DOMAIN kindOf)
    BY DEF ServerInv, ServerTypes
  <2>2. ToSet(seen) \subseteq DOMAIN kindOf
    BY <2>1 DEF ToSet
  <2> QED
    BY <1>1, <2>2 DEF TypeOK, Confirmed, ServerInv, ServerTypes
<1>3. ReadyWhenConfirmed
  BY DEF ReadyWhenConfirmed, Confirmed, ServerInv, Good
<1>4. ConfirmedInOrder
  BY DEF ConfirmedInOrder, ServerInv, Good
<1> QED
  BY <1>2, <1>3, <1>4

-----------------------------------------------------------------------------
(* The broker *)

\* Nobody has connected.
LEMMA BrokerInit == Broker!Init => Broker!BrokerInv
<1> SUFFICES ASSUME Broker!Init PROVE Broker!BrokerInv
  OBVIOUS
<1>1. /\ sock = [c \in Client |-> "none"]
      /\ subs = [c \in Client |-> <<>>] /\ publishes = <<>>
      /\ retained = [t \in Topic |-> 0]
      /\ inbox = [c \in Client |-> <<>>] /\ messages = <<>>
  BY DEF Broker!Init
<1>2. /\ \A S : <<>> \in Seq(S)
      /\ DOMAIN <<>> = {}
  OBVIOUS
<1>3. \A c \in Client : inbox[c] = <<>> /\ DOMAIN inbox[c] = {}
  BY <1>1, <1>2, Zenon
<1>4. Broker!BrokerTypes
  BY <1>1, <1>2 DEF Broker!BrokerTypes
<1>5. Broker!GivenInv /\ Broker!UnheardInv /\ Broker!OnceInOrder /\ Broker!NoGaps
  BY <1>3 DEF Broker!GivenInv, Broker!UnheardInv, Broker!OnceInOrder, Broker!NoGaps
<1>6. Broker!RetainedIsLast
  BY <1>1, <1>2 DEF Broker!RetainedIsLast
<1> QED
  BY <1>4, <1>5, <1>6 DEF Broker!BrokerInv

\* A client whose filters name the topic is given the message at the end, others
\* nothing.
LEMMA FanoutGives ==
  ASSUME Broker!BrokerTypes, NEW c \in Client, NEW topic \in Topic,
         Broker!Fanout(topic, Len(messages) + 1)
  PROVE  \/ /\ sock[c] = "open"
            /\ \E k \in DOMAIN subs[c] : Broker!TopicMatches(subs[c][k], topic)
            /\ inbox'[c] = Append(inbox[c], Len(messages) + 1)
         \/ /\ \/ sock[c] # "open"
               \/ \A k \in DOMAIN subs[c] : ~Broker!TopicMatches(subs[c][k], topic)
            /\ inbox'[c] = inbox[c]
<1> DEFINE n == Len(messages) + 1
           d == Broker!Deliveries(c, topic, n)
<1>1. inbox'[c] = IF sock[c] = "open" THEN inbox[c] \o d ELSE inbox[c]
  BY DEF Broker!Fanout
<1>2. d = IF \E k \in DOMAIN subs[c] : Broker!TopicMatches(subs[c][k], topic)
          THEN <<n>> ELSE <<>>
  BY DEF Broker!Deliveries
<1>3. inbox[c] \in Seq(Nat)
  <2>1. inbox[c] \in Seq(1..Len(messages)) /\ Len(messages) \in Nat
    BY DEF Broker!BrokerTypes
  <2>2. 1..Len(messages) \subseteq Nat
    OBVIOUS
  <2> QED
    BY <2>1, <2>2, SeqGrows
<1>4. n \in Nat
  BY DEF Broker!BrokerTypes
<1> HIDE DEF d, n
<1>5. inbox[c] \o <<n>> = Append(inbox[c], n) /\ inbox[c] \o <<>> = inbox[c]
  BY ONLY <1>3, <1>4
<1>6. CASE sock[c] # "open"
  BY <1>1, <1>6
<1>7. CASE sock[c] = "open"
  <2>1. CASE \E k \in DOMAIN subs[c] : Broker!TopicMatches(subs[c][k], topic)
    <3>1. inbox'[c] = Append(inbox[c], n)
      BY <1>1, <1>2, <1>5, <1>7, <2>1, Zenon
    <3> QED
      BY <1>7, <2>1, <3>1 DEF n
  <2>2. CASE \A k \in DOMAIN subs[c] : ~Broker!TopicMatches(subs[c][k], topic)
    <3>1. inbox'[c] = inbox[c]
      BY <1>1, <1>2, <1>5, <1>7, <2>2, Zenon
    <3> QED
      BY <2>2, <3>1
  <2> QED
    BY <2>1, <2>2
<1> QED
  BY <1>6, <1>7

\* A message is the last one of every client that it is given to, and it is given
\* to every client that was given an earlier one of its topic.
LEMMA FanoutKeeps ==
  ASSUME Broker!BrokerInv, NEW topic \in Topic,
         messages' = Append(messages, topic),
         Broker!Fanout(topic, Len(messages) + 1), UNCHANGED <<sock, subs>>
  PROVE  /\ messages' \in Seq(Topic) /\ inbox' \in [Client -> Seq(1..Len(messages'))]
         /\ Broker!GivenInv' /\ Broker!UnheardInv' /\ Broker!OnceInOrder'
         /\ Broker!NoGaps'
<1> DEFINE n == Len(messages)
<1>1. /\ messages \in Seq(Topic) /\ inbox \in [Client -> Seq(1..n)]
      /\ subs \in [Client -> Seq(Filter)] /\ Broker!BrokerTypes
  BY DEF Broker!BrokerInv, Broker!BrokerTypes
<1>2. /\ messages' \in Seq(Topic) /\ n \in Nat /\ Len(messages') = n + 1
      /\ \A i \in 1..n : messages'[i] = messages[i]
      /\ messages'[n + 1] = topic
  BY <1>1, AppendAt
<1>0. sock' = sock /\ subs' = subs
  OBVIOUS
<1>3. /\ 1..n \subseteq 1..(n + 1) /\ n + 1 \in 1..(n + 1)
  BY <1>2
<1> HIDE DEF n
<1> DEFINE Given(c) == /\ sock[c] = "open"
                       /\ \E k \in DOMAIN subs[c] : Broker!TopicMatches(subs[c][k], topic)
           Box(c) == /\ Len(inbox[c]) \in Nat /\ DOMAIN inbox[c] = 1..Len(inbox[c])
                     /\ \A i \in DOMAIN inbox[c] : inbox[c][i] \in 1..n
                     /\ inbox'[c] \in Seq(1..(n + 1))
                     /\ \A i \in DOMAIN inbox[c] :
                          i \in DOMAIN inbox'[c] /\ inbox'[c][i] = inbox[c][i]
                     /\ ~Given(c) => DOMAIN inbox'[c] = DOMAIN inbox[c]
                     /\ Given(c) => /\ DOMAIN inbox'[c] = 1..(Len(inbox[c]) + 1)
                                    /\ inbox'[c][Len(inbox[c]) + 1] = n + 1
<1>4. ASSUME NEW c \in Client PROVE Box(c)
  <2>1. inbox[c] \in Seq(1..n)
    BY <1>1
  <2>2. /\ Len(inbox[c]) \in Nat /\ DOMAIN inbox[c] = 1..Len(inbox[c])
        /\ \A i \in DOMAIN inbox[c] : inbox[c][i] \in 1..n
    <3> DEFINE S == 1..n
    <3>1. inbox[c] \in Seq(S)
      BY <2>1
    <3> HIDE DEF S
    <3>2. /\ Len(inbox[c]) \in Nat /\ DOMAIN inbox[c] = 1..Len(inbox[c])
          /\ \A i \in DOMAIN inbox[c] : inbox[c][i] \in S
      BY ONLY <3>1
    <3> QED
      BY <3>2 DEF S
  <2>3. inbox[c] \in Seq(1..(n + 1))
    BY <1>3, <2>1, SeqGrows
  <2>4. \/ Given(c) /\ inbox'[c] = Append(inbox[c], n + 1)
        \/ ~Given(c) /\ inbox'[c] = inbox[c]
    BY <1>1, FanoutGives DEF n
  <2> HIDE DEF Given
  <2>5. CASE Given(c) /\ inbox'[c] = Append(inbox[c], n + 1)
    <3> DEFINE b == Append(inbox[c], n + 1)
               l == Len(inbox[c])
    <3>1. /\ b \in Seq(1..(n + 1)) /\ DOMAIN b = 1..(l + 1)
          /\ \A i \in 1..l : b[i] = inbox[c][i]
          /\ b[l + 1] = n + 1
      BY <1>3, <2>3, AppendAt
    <3>2. 1..l \subseteq 1..(l + 1)
      BY <2>2
    <3> HIDE DEF b, l
    <3>3. inbox'[c] = b /\ DOMAIN inbox[c] = 1..l
      BY <2>2, <2>5 DEF b, l
    <3>4. /\ \A i \in DOMAIN inbox[c] : i \in DOMAIN inbox'[c] /\ inbox'[c][i] = inbox[c][i]
          /\ inbox'[c] \in Seq(1..(n + 1)) /\ DOMAIN inbox'[c] = 1..(l + 1)
          /\ inbox'[c][l + 1] = n + 1
      BY <3>1, <3>2, <3>3, Zenon
    <3> QED
      BY <2>2, <2>5, <3>4 DEF l
  <2>6. CASE ~Given(c) /\ inbox'[c] = inbox[c]
    BY <2>2, <2>3, <2>6
  <2> QED
    BY <2>4, <2>5, <2>6
<1>5. inbox' \in [Client -> Seq(1..(n + 1))]
  <2>1. DOMAIN inbox' = Client /\ inbox' = [c \in Client |-> inbox'[c]]
    BY DEF Broker!Fanout
  <2> QED
    BY <1>4, <2>1
<1>6. Broker!GivenInv'
  <2> SUFFICES ASSUME NEW c \in Client, NEW i \in DOMAIN inbox'[c]
               PROVE  \E k \in DOMAIN subs[c] :
                        Broker!TopicMatches(subs[c][k], messages'[inbox'[c][i]])
    BY <1>0 DEF Broker!GivenInv
  <2>1. Box(c)
    BY <1>4
  <2>2. CASE i \in DOMAIN inbox[c]
    <3>1. \E k \in DOMAIN subs[c] : Broker!TopicMatches(subs[c][k], messages[inbox[c][i]])
      BY <2>2 DEF Broker!BrokerInv, Broker!GivenInv
    <3>2. inbox'[c][i] = inbox[c][i] /\ inbox[c][i] \in 1..n
      BY <2>1, <2>2
    <3>3. messages'[inbox'[c][i]] = messages[inbox[c][i]]
      BY <1>2, <3>2
    <3> QED
      BY <3>1, <3>3
  <2>3. CASE i \notin DOMAIN inbox[c]
    <3>1. Given(c) /\ i = Len(inbox[c]) + 1
      BY <2>1, <2>3
    <3> QED
      BY <1>2, <2>1, <3>1
  <2> QED
    BY <2>2, <2>3
<1>7. Broker!OnceInOrder'
  <2> SUFFICES ASSUME NEW c \in Client, NEW i \in DOMAIN inbox'[c],
                      NEW j \in DOMAIN inbox'[c], i < j
               PROVE  inbox'[c][i] < inbox'[c][j]
    BY DEF Broker!OnceInOrder
  <2>1. Box(c)
    BY <1>4
  <2> HIDE DEF Given
  <2>2. i \in DOMAIN inbox[c]
    BY <2>1
  <2>3. CASE j \in DOMAIN inbox[c]
    <3>1. inbox[c][i] < inbox[c][j]
      BY <2>2, <2>3 DEF Broker!BrokerInv, Broker!OnceInOrder
    <3> QED
      BY <2>1, <2>2, <2>3, <3>1
  <2>4. CASE j \notin DOMAIN inbox[c]
    <3>1. inbox'[c][j] = n + 1
      BY <2>1, <2>4
    <3>2. inbox'[c][i] \in 1..n
      BY <2>1, <2>2
    <3> QED
      BY <1>2, <3>1, <3>2
  <2> QED
    BY <2>3, <2>4
<1>8. Broker!NoGaps'
  <2> SUFFICES ASSUME NEW c \in Client, sock[c] = "open", NEW i \in DOMAIN inbox'[c],
                      NEW m \in inbox'[c][i]..Len(messages'),
                      messages'[m] = messages'[inbox'[c][i]]
               PROVE  \E j \in DOMAIN inbox'[c] : inbox'[c][j] = m
    BY <1>0, Zenon DEF Broker!NoGaps
  <2>0. m \in inbox'[c][i]..(n + 1)
    BY <1>2
  <2>1. Box(c)
    BY <1>4
  <2>2. CASE Given(c) /\ m = n + 1
    <3>1. Len(inbox[c]) + 1 \in DOMAIN inbox'[c]
      BY <2>1, <2>2
    <3> QED
      BY <2>1, <2>2, <3>1
  <2>3. CASE ~(Given(c) /\ m = n + 1)
    <3> HIDE DEF Given
    <3>1. i \in DOMAIN inbox[c]
      BY <1>2, <2>1, <2>3
    <3>2. inbox'[c][i] = inbox[c][i] /\ inbox[c][i] \in 1..n
      BY <2>1, <3>1
    <3>3. messages'[m] = messages[inbox[c][i]]
      BY <1>2, <3>2
    <3>4. m # n + 1
      <4> SUFFICES ASSUME m = n + 1 PROVE FALSE
        OBVIOUS
      <4>1. \E k \in DOMAIN subs[c] : Broker!TopicMatches(subs[c][k], messages[inbox[c][i]])
        BY <3>1 DEF Broker!BrokerInv, Broker!GivenInv
      <4>2. messages[inbox[c][i]] = topic
        BY <1>2, <3>3
      <4>3. Given(c)
        BY <4>1, <4>2 DEF Given
      <4> QED
        BY <2>3, <4>3
    <3>5. m \in inbox[c][i]..n /\ m \in 1..n
      BY <1>2, <3>2, <3>4
    <3>6. messages[m] = messages[inbox[c][i]]
      BY <1>2, <3>3, <3>5
    <3>7. PICK j \in DOMAIN inbox[c] : inbox[c][j] = m
      BY <3>1, <3>5, <3>6 DEF Broker!BrokerInv, Broker!NoGaps, n
    <3> QED
      BY <2>1, <3>7
  <2> QED
    BY <2>2, <2>3
<1>9. Broker!UnheardInv'
  <2> SUFFICES ASSUME NEW c \in Client, sock[c] = "none" PROVE inbox'[c] = <<>>
    BY <1>0 DEF Broker!UnheardInv
  <2>1. inbox'[c] = inbox[c]
    BY <1>1, FanoutGives
  <2> QED
    BY <2>1 DEF Broker!BrokerInv, Broker!UnheardInv
<1> QED
  BY <1>2, <1>5, <1>6, <1>7, <1>8, <1>9

\* Only a message published for retention replaces what is retained.
LEMMA RetainKeeps ==
  ASSUME Broker!BrokerInv, NEW topic \in Topic, NEW retain \in BOOLEAN,
         publishes' = Append(publishes, <<topic, Len(messages) + 1, retain>>),
         retained' = Broker!Retain(topic, Len(messages) + 1, retain)
  PROVE  /\ publishes' \in Seq(Topic \X Nat \X BOOLEAN) /\ retained' \in [Topic -> Nat]
         /\ Broker!RetainedIsLast'
<1> DEFINE n == Len(messages) + 1
           e == <<topic, n, retain>>
           l == Len(publishes)
<1>1. /\ publishes \in Seq(Topic \X Nat \X BOOLEAN) /\ retained \in [Topic -> Nat]
      /\ n \in Nat
  BY DEF Broker!BrokerInv, Broker!BrokerTypes
<1>2. e \in Topic \X Nat \X BOOLEAN
  BY <1>1
<1>3. /\ publishes' \in Seq(Topic \X Nat \X BOOLEAN) /\ l \in Nat
      /\ DOMAIN publishes = 1..l /\ DOMAIN publishes' = 1..(l + 1)
      /\ \A i \in 1..l : publishes'[i] = publishes[i]
      /\ publishes'[l + 1] = e
  BY <1>1, <1>2, AppendAt
<1>4. e[1] = topic /\ e[2] = n /\ e[3] = retain
  OBVIOUS
<1>5. retained' = IF retain THEN [retained EXCEPT ![topic] = n] ELSE retained
  BY DEF Broker!Retain
<1> HIDE DEF n, e, l
<1>6. retained' \in [Topic -> Nat]
  BY <1>1, <1>5
<1>7. Broker!RetainedIsLast'
  <2> DEFINE Kept(i, t) == publishes'[i][1] = t /\ publishes'[i][3]
  <2> SUFFICES ASSUME NEW t \in Topic
               PROVE  \/ retained'[t] = 0 /\ \A i \in DOMAIN publishes' : ~Kept(i, t)
                      \/ \E i \in DOMAIN publishes' :
                           /\ Kept(i, t) /\ retained'[t] = publishes'[i][2]
                           /\ \A j \in DOMAIN publishes' : Kept(j, t) => j <= i
    BY Zenon DEF Broker!RetainedIsLast, Broker!Kept
  <2>1. CASE retain /\ t = topic
    <3>1. retained'[t] = n /\ Kept(l + 1, t) /\ publishes'[l + 1][2] = n
      BY <1>1, <1>3, <1>4, <1>5, <2>1
    <3>2. l + 1 \in DOMAIN publishes' /\ \A j \in DOMAIN publishes' : j <= l + 1
      BY <1>3
    <3> QED
      BY <3>1, <3>2
  <2>2. CASE ~(retain /\ t = topic)
    <3>1. retained'[t] = retained[t]
      BY <1>1, <1>5, <2>2
    <3>2. ~Kept(l + 1, t)
      BY <1>3, <1>4, <2>2
    <3>3. \A i \in DOMAIN publishes : /\ i \in DOMAIN publishes'
                                     /\ publishes'[i] = publishes[i]
                                     /\ Kept(i, t) <=> Broker!Kept(i, t)
      BY <1>3 DEF Broker!Kept
    <3>4. \A i \in DOMAIN publishes' : i \in DOMAIN publishes \/ i = l + 1
      BY <1>3
    <3>5. \/ retained[t] = 0 /\ \A i \in DOMAIN publishes : ~Broker!Kept(i, t)
          \/ \E i \in DOMAIN publishes :
               /\ Broker!Kept(i, t) /\ retained[t] = publishes[i][2]
               /\ \A j \in DOMAIN publishes : Broker!Kept(j, t) => j <= i
      BY DEF Broker!BrokerInv, Broker!RetainedIsLast
    <3> HIDE DEF Kept
    <3>6. CASE retained[t] = 0 /\ \A i \in DOMAIN publishes : ~Broker!Kept(i, t)
      BY <3>1, <3>2, <3>3, <3>4, <3>6
    <3>7. ASSUME NEW i \in DOMAIN publishes, Broker!Kept(i, t),
                 retained[t] = publishes[i][2],
                 \A j \in DOMAIN publishes : Broker!Kept(j, t) => j <= i
          PROVE  /\ i \in DOMAIN publishes' /\ Kept(i, t)
                 /\ retained'[t] = publishes'[i][2]
                 /\ \A j \in DOMAIN publishes' : Kept(j, t) => j <= i
      <4>1. i \in DOMAIN publishes' /\ publishes'[i] = publishes[i] /\ Kept(i, t)
        BY <3>3, <3>7
      <4>2. \A j \in DOMAIN publishes' : Kept(j, t) => j <= i
        <5> SUFFICES ASSUME NEW j \in DOMAIN publishes', Kept(j, t) PROVE j <= i
          OBVIOUS
        <5>1. j \in DOMAIN publishes
          BY <3>2, <3>4
        <5> QED
          BY <3>3, <3>7, <5>1
      <4> QED
        BY <3>1, <3>7, <4>1, <4>2
    <3> QED
      BY <3>5, <3>6, <3>7
  <2> QED
    BY <2>1, <2>2
<1> QED
  BY <1>3, <1>6, <1>7

\* Subscriptions are added behind the others.
LEMMA SubscribeKeeps ==
  ASSUME Broker!BrokerInv, NEW c \in Client, NEW f \in Filter, Broker!Subscribe(c, f)
  PROVE  Broker!BrokerInv'
<1>1. /\ subs' = [subs EXCEPT ![c] = Append(@, f)]
      /\ UNCHANGED <<sock, publishes, retained, inbox, messages>>
  BY DEF Broker!Subscribe
<1>2. subs \in [Client -> Seq(Filter)]
  BY DEF Broker!BrokerInv, Broker!BrokerTypes
<1>3. /\ subs' \in [Client -> Seq(Filter)]
      /\ \A d \in Client : \A k \in DOMAIN subs[d] :
           k \in DOMAIN subs'[d] /\ subs'[d][k] = subs[d][k]
  <2>1. subs[c] \in Seq(Filter)
    BY <1>2
  <2> DEFINE s == Append(subs[c], f)
  <2>2. /\ s \in Seq(Filter)
        /\ \A k \in DOMAIN subs[c] : k \in DOMAIN s /\ s[k] = subs[c][k]
    BY ONLY <2>1, f \in Filter
  <2> HIDE DEF s
  <2>3. subs' = [subs EXCEPT ![c] = s]
    BY <1>1 DEF s
  <2> QED
    BY <1>2, <2>2, <2>3
<1>4. Broker!GivenInv'
  <2> SUFFICES ASSUME NEW d \in Client, NEW i \in DOMAIN inbox[d]
               PROVE  \E k \in DOMAIN subs'[d] :
                        Broker!TopicMatches(subs'[d][k], messages[inbox[d][i]])
    BY <1>1 DEF Broker!GivenInv
  <2>1. PICK k \in DOMAIN subs[d] :
             Broker!TopicMatches(subs[d][k], messages[inbox[d][i]])
    BY DEF Broker!BrokerInv, Broker!GivenInv
  <2> QED
    BY <1>3, <2>1
<1>5. Broker!BrokerTypes'
  BY <1>1, <1>3 DEF Broker!BrokerInv, Broker!BrokerTypes
<1>6. Broker!OnceInOrder' /\ Broker!NoGaps' /\ Broker!RetainedIsLast'
  BY <1>1 DEF Broker!BrokerInv, Broker!OnceInOrder, Broker!NoGaps,
              Broker!RetainedIsLast, Broker!Kept
<1>7. Broker!UnheardInv'
  BY <1>1 DEF Broker!BrokerInv, Broker!UnheardInv
<1> QED
  BY <1>4, <1>5, <1>6, <1>7 DEF Broker!BrokerInv

\* A connection that opens or closes changes nobody's messages.
LEMMA SocketKeeps ==
  ASSUME Broker!BrokerInv, NEW c \in Client, NEW s \in {"open", "closed"},
         sock[c] # "closed", sock' = [sock EXCEPT ![c] = s],
         UNCHANGED <<subs, publishes, retained, inbox, messages>>
  PROVE  Broker!BrokerInv'
<1>1. sock \in [Client -> {"none", "open", "closed"}]
  BY DEF Broker!BrokerInv, Broker!BrokerTypes
<1>2. /\ sock' \in [Client -> {"none", "open", "closed"}]
      /\ \A d \in Client : sock'[d] = IF d = c THEN s ELSE sock[d]
  BY <1>1
<1>3. /\ subs' = subs /\ publishes' = publishes /\ retained' = retained
      /\ inbox' = inbox /\ messages' = messages
  OBVIOUS
<1>4. Broker!BrokerTypes' /\ Broker!GivenInv' /\ Broker!OnceInOrder'
  BY <1>2, <1>3 DEF Broker!BrokerInv, Broker!BrokerTypes, Broker!GivenInv,
                    Broker!OnceInOrder
<1>5. Broker!RetainedIsLast'
  BY <1>3 DEF Broker!BrokerInv, Broker!RetainedIsLast, Broker!Kept
<1>6. Broker!UnheardInv'
  BY <1>2, <1>3 DEF Broker!BrokerInv, Broker!UnheardInv
<1>7. Broker!NoGaps'
  <2> SUFFICES ASSUME NEW d \in Client, sock'[d] = "open", NEW i \in DOMAIN inbox'[d],
                      NEW n \in inbox'[d][i]..Len(messages'),
                      messages'[n] = messages'[inbox'[d][i]]
               PROVE  \E j \in DOMAIN inbox'[d] : inbox'[d][j] = n
    BY Zenon DEF Broker!NoGaps
  <2>0. /\ i \in DOMAIN inbox[d] /\ n \in inbox[d][i]..Len(messages)
        /\ messages[n] = messages[inbox[d][i]]
    BY <1>3
  <2>1. sock[d] # "none"
    <3> SUFFICES ASSUME sock[d] = "none" PROVE FALSE
      OBVIOUS
    <3>1. inbox[d] = <<>>
      BY DEF Broker!BrokerInv, Broker!UnheardInv
    <3> QED
      BY <2>0, <3>1
  <2>2. sock[d] = "open"
    BY <1>1, <1>2, <2>1
  <2>3. \E j \in DOMAIN inbox[d] : inbox[d][j] = n
    BY <2>0, <2>2 DEF Broker!BrokerInv, Broker!NoGaps
  <2> QED
    BY <1>3, <2>3
<1> QED
  BY <1>4, <1>5, <1>6, <1>7 DEF Broker!BrokerInv

\* Every step keeps the invariant.
LEMMA BrokerStep ==
  ASSUME Broker!BrokerInv, [Broker!Next]_(Broker!vars)
  PROVE  Broker!BrokerInv'
<1>1. ASSUME UNCHANGED <<sock, subs, publishes, retained, inbox, messages>>
      PROVE  Broker!BrokerInv'
  <2>1. /\ sock' = sock /\ subs' = subs /\ publishes' = publishes
        /\ retained' = retained /\ inbox' = inbox /\ messages' = messages
    BY <1>1
  <2>2. Broker!BrokerTypes' /\ Broker!GivenInv' /\ Broker!UnheardInv'
    BY <2>1 DEF Broker!BrokerInv, Broker!BrokerTypes, Broker!GivenInv, Broker!UnheardInv
  <2>3. Broker!OnceInOrder' /\ Broker!NoGaps' /\ Broker!RetainedIsLast'
    BY <2>1 DEF Broker!BrokerInv, Broker!OnceInOrder, Broker!NoGaps,
                Broker!RetainedIsLast, Broker!Kept
  <2> QED
    BY <2>2, <2>3 DEF Broker!BrokerInv
<1>2. ASSUME NEW c \in Client, Broker!OnClient(c) PROVE Broker!BrokerInv'
  BY <1>2, SocketKeeps DEF Broker!OnClient
<1>3. ASSUME NEW c \in Client, Broker!ConnectRefused(c) PROVE Broker!BrokerInv'
  BY <1>3, SocketKeeps DEF Broker!ConnectRefused
<1>4. ASSUME NEW c \in Client, Broker!Disconnect(c) PROVE Broker!BrokerInv'
  BY <1>4, SocketKeeps DEF Broker!Disconnect
<1>5. ASSUME NEW c \in Client, NEW t \in Topic, NEW retain \in BOOLEAN,
             Broker!Publish(c, t, retain)
      PROVE  Broker!BrokerInv'
  <2>1. /\ messages' = Append(messages, t) /\ UNCHANGED <<sock, subs>>
        /\ publishes' = Append(publishes, <<t, Len(messages'), retain>>)
        /\ retained' = Broker!Retain(t, Len(messages'), retain)
        /\ Broker!Fanout(t, Len(messages'))
    BY <1>5 DEF Broker!Publish
  <2>2. Len(messages') = Len(messages) + 1
    BY <2>1, AppendAt DEF Broker!BrokerInv, Broker!BrokerTypes
  <2>3. /\ publishes' = Append(publishes, <<t, Len(messages) + 1, retain>>)
        /\ retained' = Broker!Retain(t, Len(messages) + 1, retain)
        /\ Broker!Fanout(t, Len(messages) + 1)
    BY <2>1, <2>2
  <2>4. /\ messages' \in Seq(Topic) /\ inbox' \in [Client -> Seq(1..Len(messages'))]
        /\ Broker!GivenInv' /\ Broker!UnheardInv' /\ Broker!OnceInOrder'
        /\ Broker!NoGaps'
    BY <2>1, <2>3, FanoutKeeps
  <2>5. /\ publishes' \in Seq(Topic \X Nat \X BOOLEAN) /\ retained' \in [Topic -> Nat]
        /\ Broker!RetainedIsLast'
    BY <2>3, RetainKeeps
  <2> QED
    BY <2>1, <2>4, <2>5 DEF Broker!BrokerInv, Broker!BrokerTypes
<1>6. ASSUME NEW t \in Topic, Broker!Inject(t) PROVE Broker!BrokerInv'
  <2>1. /\ messages' = Append(messages, t) /\ UNCHANGED <<sock, subs>>
        /\ publishes' = publishes /\ retained' = retained
        /\ Broker!Fanout(t, Len(messages'))
    BY <1>6 DEF Broker!Inject
  <2>2. Len(messages') = Len(messages) + 1
    BY <2>1, AppendAt DEF Broker!BrokerInv, Broker!BrokerTypes
  <2>3. Broker!Fanout(t, Len(messages) + 1)
    BY <2>1, <2>2
  <2>4. /\ messages' \in Seq(Topic) /\ inbox' \in [Client -> Seq(1..Len(messages'))]
        /\ Broker!GivenInv' /\ Broker!UnheardInv' /\ Broker!OnceInOrder'
        /\ Broker!NoGaps'
    BY <2>1, <2>3, FanoutKeeps
  <2>5. Broker!RetainedIsLast'
    BY <2>1 DEF Broker!BrokerInv, Broker!RetainedIsLast, Broker!Kept
  <2> QED
    BY <2>1, <2>4, <2>5 DEF Broker!BrokerInv, Broker!BrokerTypes
<1>7. ASSUME NEW c \in Client, Broker!Unhandled(c) PROVE Broker!BrokerInv'
  BY <1>1, <1>7 DEF Broker!Unhandled
<1>8. ASSUME UNCHANGED Broker!vars PROVE Broker!BrokerInv'
  BY <1>1, <1>8 DEF Broker!vars
<1> QED
  BY <1>2, <1>3, <1>4, <1>5, <1>6, <1>7, <1>8, SubscribeKeeps
  DEF Broker!Next, Broker!Acknowledge, Broker!Done

\* A client whose filters hold no # was given topics as long as one of them.
LEMMA BrokerHolds ==
  ASSUME Broker!BrokerAssumption, Broker!BrokerInv
  PROVE  /\ Broker!OnceInOrder /\ Broker!NoGaps /\ Broker!RetainedIsLast
         /\ Broker!PlusIsOneLevel
<1>1. Broker!PlusIsOneLevel
  <2> SUFFICES ASSUME NEW c \in Client,
                      \A i \in DOMAIN subs[c] : \A l \in DOMAIN subs[c][i] :
                        subs[c][i][l] # Hash,
                      NEW i \in DOMAIN inbox[c]
               PROVE  \E k \in DOMAIN subs[c] :
                        Len(messages[inbox[c][i]]) = Len(subs[c][k])
    BY DEF Broker!PlusIsOneLevel
  <2>1. PICK k \in DOMAIN subs[c] :
             Broker!TopicMatches(subs[c][k], messages[inbox[c][i]])
    BY DEF Broker!BrokerInv, Broker!GivenInv
  <2> DEFINE f == subs[c][k]
             m == messages[inbox[c][i]]
  <2>2. PICK n \in 0..Len(f) : \/ n < Len(f) /\ f[n + 1] = Hash
                               \/ n = Len(f) /\ n = Len(m)
    BY <2>1 DEF Broker!TopicMatches
  <2>3. \A l \in DOMAIN f : f[l] # Hash
    OBVIOUS
  <2>4. Len(f) \in Nat /\ DOMAIN f = 1..Len(f)
    <3>1. subs[c] \in Seq(Filter)
      BY DEF Broker!BrokerInv, Broker!BrokerTypes
    <3>2. f \in Filter
      BY <3>1
    <3>3. f \in Seq(Segment \cup {Plus, Hash})
      BY <3>2 DEF Broker!BrokerAssumption
    <3> HIDE DEF f
    <3> QED
      BY ONLY <3>3
  <2> HIDE DEF f, m
  <2>5. n < Len(f) => n + 1 \in DOMAIN f
    BY <2>4
  <2>6. Len(m) = Len(f)
    BY <2>2, <2>3, <2>5
  <2> QED
    BY <2>6 DEF f, m
<1> QED
  BY <1>1 DEF Broker!BrokerInv

-----------------------------------------------------------------------------
(* The programs side by side *)

\* The exercised program takes its own steps and stays the exercised one.
LEMMA ServerMoves ==
  ASSUME scenario = "server", [StandInNext]_standInVars
  PROVE  scenario' = "server" /\ [Next]_vars
BY DEF StandInNext, standInVars

LEMMA SimMoves ==
  ASSUME scenario = "simulator", [StandInNext]_standInVars
  PROVE  scenario' = "simulator" /\ [Sim!Next]_(Sim!vars)
BY DEF StandInNext, standInVars, simVars, Sim!vars, Sim!recordVars

LEMMA EmulatorMoves ==
  ASSUME scenario = "emulator", [StandInNext]_standInVars
  PROVE  scenario' = "emulator" /\ [Emulator!Next]_(Emulator!vars)
BY DEF StandInNext, standInVars, emulatorVars, Emulator!vars

LEMMA InterrogatorMoves ==
  ASSUME scenario = "interrogator", [StandInNext]_standInVars
  PROVE  scenario' = "interrogator" /\ [Interrogator!Next]_(Interrogator!vars)
BY DEF StandInNext, standInVars, interrogatorVars, Interrogator!vars

LEMMA BrokerMoves ==
  ASSUME scenario = "broker", [StandInNext]_standInVars
  PROVE  scenario' = "broker" /\ [Broker!Next]_(Broker!vars)
BY DEF StandInNext, standInVars, brokerVars, Broker!vars

\* No step changes which program is exercised.
LEMMA ScenarioStays == [StandInNext]_standInVars => scenario' = scenario
BY DEF StandInNext, standInVars

\* Whatever the stream cuts together, the handlers raise and the client repeats,
\* the server's confirmations come in the client's order while nothing is
\* repeated, and once the interface options were confirmed they are in force.
THEOREM ConfirmedMeansDoneCorrect ==
  CommandAssumption => (StandInSpec => []ConfirmedMeansDone)
<1> SUFFICES ASSUME CommandAssumption PROVE StandInSpec => []ConfirmedMeansDone
  OBVIOUS
<1> DEFINE I == scenario = "server" => ServerInv
<1>1. StandInInit => I
  BY ServerInit DEF StandInInit
<1>2. I /\ [StandInNext]_standInVars => I'
  BY ServerMoves, ServerStep, ScenarioStays
<1>3. I => ConfirmedMeansDone
  BY ServerHolds DEF ConfirmedMeansDone
<1> QED
  BY <1>1, <1>2, <1>3, PTL DEF StandInSpec

\* The simulator's history is the latest commands of all clients, both levels of
\* a configured group agree across resets, and a connection's confirmation codes
\* go round in turn, for any number of clients, codes and entries.
THEOREM SimulatorRecordsCorrect ==
  Sim!SimAssumption => (StandInSpec => []SimulatorRecords)
<1> SUFFICES ASSUME Sim!SimAssumption PROVE StandInSpec => []SimulatorRecords
  OBVIOUS
<1> DEFINE I == scenario = "simulator" => Sim!SimInv
<1>1. StandInInit => I
  BY SimInit DEF StandInInit
<1>2. I /\ [StandInNext]_standInVars => I'
  BY SimMoves, SimStep, ScenarioStays
<1>3. I => SimulatorRecords
  BY DEF SimulatorRecords, Sim!SimInv, Sim!RecordInv, Sim!CodesInv, Sim!LevelsInv
<1> QED
  BY <1>1, <1>2, <1>3, PTL DEF StandInSpec

\* A group of the emulator follows the lighting command confirmed last, and each
\* client's commands are confirmed in order, however the clients interleave.
THEOREM EmulatorObeysCorrect ==
  Emulator!EmulatorAssumption => (StandInSpec => []EmulatorObeys)
<1> SUFFICES ASSUME Emulator!EmulatorAssumption PROVE StandInSpec => []EmulatorObeys
  OBVIOUS
<1> DEFINE I == scenario = "emulator" => Emulator!EmulatorInv
<1>1. StandInInit => I
  BY EmulatorInit DEF StandInInit
<1>2. I /\ [StandInNext]_standInVars => I'
  BY EmulatorMoves, EmulatorStep, ScenarioStays
<1>3. I => EmulatorObeys
  BY EmulatorHolds DEF EmulatorObeys
<1> QED
  BY <1>1, <1>2, <1>3, PTL DEF StandInSpec

\* While replies are in time the interrogator's report is right and complete,
\* for any units, attributes and traffic in between.
THEOREM InterrogationRightCorrect ==
  Interrogator!InterrogatorAssumption => (StandInSpec => []InterrogationRight)
<1> SUFFICES ASSUME Interrogator!InterrogatorAssumption
             PROVE  StandInSpec => []InterrogationRight
  OBVIOUS
<1> DEFINE I == scenario = "interrogator" /\ ~Late => Interrogator!InterrogatorInv
<1>1. StandInInit => I
  BY InterrogatorInit DEF StandInInit
<1>2. I /\ [StandInNext]_standInVars => I'
  BY InterrogatorMoves, InterrogatorStep, ScenarioStays
<1>3. I => InterrogationRight
  BY InterrogatorHolds DEF InterrogationRight
<1> QED
  BY <1>1, <1>2, <1>3, PTL DEF StandInSpec

\* For any topics, filters and number of clients and messages: a client of the
\* broker is given each message that its filters name once, in order and without
\* a gap, whoever else subscribes, is refused or leaves; what is retained is what
\* was last published for retention; a + stands for one level.
THEOREM BrokerDeliversCorrect ==
  Broker!BrokerAssumption => (StandInSpec => []BrokerDelivers)
<1> SUFFICES ASSUME Broker!BrokerAssumption PROVE StandInSpec => []BrokerDelivers
  OBVIOUS
<1> DEFINE I == scenario = "broker" => Broker!BrokerInv
<1>1. StandInInit => I
  BY BrokerInit DEF StandInInit
<1>2. I /\ [StandInNext]_standInVars => I'
  BY BrokerMoves, BrokerStep, ScenarioStays
<1>3. I => BrokerDelivers
  BY BrokerHolds DEF BrokerDelivers
<1> QED
  BY <1>1, <1>2, <1>3, PTL DEF StandInSpec

=============================================================================
