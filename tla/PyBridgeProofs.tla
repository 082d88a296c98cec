--------------------------- MODULE PyBridgeProofs ---------------------------
(***************************************************************************)
(* PyBridge for every value of its constants.  The MQTT daemon: what the   *)
(* broker retains of a light fits together, commands settle on the last    *)
(* one accepted, and a daemon that has ended leaves nothing behind.  The   *)
(* web interface: no connection is stray.  The proxy: a registered client  *)
(* hears every response since it registered.  The analyzer: its summary is *)
(* right.                                                                  *)
(***************************************************************************)
EXTENDS PyBridge, SequenceOrderProofs, FiniteSetTheorems, TLAPS

(* The MQTT daemon *)

Reports == [word : {"none", "ON", "OFF"}, level : 0..255]

\* The parts of DaemonInv: the control state, what waits to be sent, confirmed
\* or published, and what the broker retains.
ControlInv ==
  /\ main \in {"broker", "serving", "waiting", "closing", "stopping", "done"}
  /\ broker \in {"none", "up", "gone"}
  /\ dispatcher \in {"none", "running", "crashed", "cancelled"}
  /\ {running, api, closing, open, lost, answered} \subseteq BOOLEAN

WorkInv ==
  /\ queue \in Seq(Item) /\ Len(queue) <= QueueCap /\ sleeping \in Seq(Item)
  /\ outbox \in Seq(Publications) /\ unconfirmed \subseteq CommandItem

TopicTypes ==
  /\ db \subseteq Exists /\ conf \in [Exists -> {"none", "default", "label"}]
  /\ state \in [Exists -> Reports] /\ sensor \in [Exists -> {"none", "ON", "OFF"}]

TopicInv ==
  TopicTypes /\ AnnouncedFirst /\ SensorFollowsLight /\ GroupsAnnounced /\ TasksPair

\* These parts are the invariant.
LEMMA DaemonParts ==
  DaemonInv <=> ControlInv /\ WorkInv /\ TopicInv /\ NetInv /\ PhaseInv /\ CommandInv
BY DEF DaemonInv, RetainedTopicsAgree, TypeOK, ControlInv, WorkInv, TopicInv, TopicTypes,
       Reports

-----------------------------------------------------------------------------
(* Items, reports and publications *)

\* An item that is a command is for a known pair and asks for ON or OFF.
LEMMA ItemFacts ==
  ASSUME NEW item \in Item
  PROVE  /\ item.kind \in {"command", "status", "clock"}
         /\ item.kind = "command" => /\ item \in CommandItem
                                     /\ item.to \in Exists /\ item.report \in Switched
BY DEF Item, CommandItem, Clock, Status

\* What a publication may be.
LEMMA PublicationFacts ==
  ASSUME NEW p \in Publications
  PROVE  /\ p.kind \in {"default", "label", "state", "sensor"} /\ p.to \in Exists
         /\ p.kind \in {"state", "sensor"} => p.report \in Switched
BY DEF Publications

\* ON and OFF are reports, and not Unknown.
LEMMA SwitchedFacts ==
  ASSUME NEW r \in Switched
  PROVE  r \in Reports /\ r # Unknown /\ r.level \in 0..255 /\ SensorOf(r) \in {"ON", "OFF"}
BY DEF Switched, Reports, Unknown, Report, SensorOf

\* What a payload asks for is ON or OFF at a level in range, also for a
\* brightness out of range.
LEMMA AskedFacts == ASSUME NEW p \in Payloads PROVE Asked(p) \in Switched
<1>1. p.on \in BOOLEAN /\ p.brightness \in Int
  BY PyGatewayAssumption
<1>2. Clamp(p.brightness) \in 0..255
  BY <1>1 DEF Clamp
<1> QED
  BY <1>2 DEF Asked, Report, Switched

LEMMA ReportOfFacts == ASSUME NEW n \in 0..255 PROVE ReportOf(n) \in Switched
BY DEF ReportOf, Report, Switched

\* A listing of a finite set is a sequence of its items, all of them.
LEMMA ListingFacts ==
  ASSUME NEW S, IsFiniteSet(S)
  PROVE  /\ Listing(S) \in Seq(S)
         /\ \A x \in S : \E i \in DOMAIN Listing(S) : Listing(S)[i] = x
<1> DEFINE n == Cardinality(S)
<1>1. n \in Nat /\ ExistsBijection(1..n, S)
  BY FS_CardinalityType
<1>2. PICK f \in [1..n -> S] : \A a \in S : \E i \in 1..n : f[i] = a
  BY <1>1 DEF ExistsBijection, Bijection, Surjection
<1>3. {f[i] : i \in DOMAIN f} = S
  <2> HIDE DEF n
  <2> QED
    BY <1>2
<1>4. /\ Listing(S) \in [1..n -> S]
      /\ {Listing(S)[i] : i \in DOMAIN Listing(S)} = S
  <2> HIDE DEF n
  <2>1. \E s \in [1..n -> S] : {s[i] : i \in DOMAIN s} = S
    BY <1>2, <1>3
  <2>2. Listing(S) = CHOOSE s \in [1..n -> S] : {s[i] : i \in DOMAIN s} = S
    BY DEF Listing, n
  <2> HIDE DEF Listing
  <2> QED
    BY <2>1, <2>2
<1> HIDE DEF n
<1> QED
  BY <1>1, <1>4

\* The sweep is a sequence of status requests.
LEMMA StatusFacts ==
  /\ StatusRequests \in Seq(Item)
  /\ \A i \in DOMAIN StatusRequests : StatusRequests[i].kind = "status"
<1> DEFINE S == {Status(app) : app \in App}
           f == [app \in App |-> Status(app)]
<1>1. f \in Surjection(App, S)
  BY DEF Surjection
<1>2. IsFiniteSet(S)
  <2> HIDE DEF S, f
  <2> QED
    BY <1>1, PyGatewayAssumption, FS_Surjection DEF ExistsSurjection
<1>3. S \subseteq Item /\ \A s \in S : s.kind = "status"
  BY DEF Item, Status
<1>4. StatusRequests = Listing(S)
  BY DEF StatusRequests
<1> HIDE DEF S
<1>5. StatusRequests \in Seq(S)
  BY <1>2, <1>4, ListingFacts
<1> QED
  BY <1>3, <1>5

\* The groups of the project file are announced with their labels.
LEMMA LabelFacts ==
  LET S == {Publication("label", a, Unknown) : a \in Labelled}
  IN /\ Listing(S) \in Seq(Publications) /\ Listing(S) \in Seq(S)
     /\ \A a \in Labelled : \E i \in DOMAIN Listing(S) :
          Listing(S)[i].to = a /\ Listing(S)[i].kind = "label"
     /\ \A i \in DOMAIN Listing(S) : Listing(S)[i].kind = "label"
<1> DEFINE S == {Publication("label", a, Unknown) : a \in Labelled}
           f == [a \in Labelled |-> Publication("label", a, Unknown)]
<1>1. IsFiniteSet(Labelled)
  <2>0. IsFiniteSet(0..255)
    <3>1. 0 \in Int /\ 255 \in Int
      OBVIOUS
    <3> QED
      BY ONLY <3>1, FS_Interval
  <2>1. IsFiniteSet(App) /\ IsFiniteSet(Group)
    BY <2>0, PyGatewayAssumption DEF Group
  <2>2. IsFiniteSet(App \X Group)
    BY <2>1, FS_Product
  <2>3. Labelled \in SUBSET (App \X Group)
    BY PyGatewayAssumption
  <2> QED
    BY <2>2, <2>3, FS_Subset
<1>2. f \in Surjection(Labelled, S)
  BY DEF Surjection
<1>3. IsFiniteSet(S)
  <2> HIDE DEF S, f
  <2> QED
    BY <1>1, <1>2, FS_Surjection DEF ExistsSurjection
<1>4. S \subseteq Publications /\ \A p \in S : p.kind = "label"
  BY PyGatewayAssumption DEF Publications, Publication
<1>5. \A a \in Labelled : Publication("label", a, Unknown) \in S
  OBVIOUS
<1>6. \A a \in Labelled : Publication("label", a, Unknown).to = a
  BY DEF Publication
<1> HIDE DEF S
<1>7. /\ Listing(S) \in Seq(S)
      /\ \A x \in S : \E i \in DOMAIN Listing(S) : Listing(S)[i] = x
  BY <1>3, ListingFacts
<1>8. \A i \in DOMAIN Listing(S) : Listing(S)[i] \in S
  BY <1>7
<1>9. Listing(S) \in Seq(Publications)
  BY <1>4, <1>7, SeqGrows
<1>10. \A a \in Labelled : \E i \in DOMAIN Listing(S) :
          Listing(S)[i].to = a /\ Listing(S)[i].kind = "label"
  BY <1>4, <1>5, <1>6, <1>7
<1>11. \A i \in DOMAIN Listing(S) : Listing(S)[i].kind = "label"
  BY <1>4, <1>8
<1> QED
  BY <1>7, <1>9, <1>10, <1>11 DEF S

-----------------------------------------------------------------------------
(* What the broker retains *)

\* A publish adds its tasks at the end: the state and the sensor, and before them
\* the config of a group that groupDB does not know.
LEMMA PublishTasks ==
  ASSUME WorkInv, NEW a \in Exists, NEW r \in Switched, Publish(a, r)
  PROVE  \E c \in Nat :
           /\ outbox' \in Seq(Publications)
           /\ DOMAIN outbox = 1..Len(outbox) /\ DOMAIN outbox' = 1..(c + 2)
           /\ Len(outbox) \in Nat /\ Len(outbox') = c + 2
           /\ \A i \in DOMAIN outbox : outbox'[i] = outbox[i]
           /\ a \in db => c = Len(outbox)
           /\ a \notin db => /\ c = Len(outbox) + 1
                             /\ outbox'[c] = Publication("default", a, Unknown)
           /\ outbox'[c + 1] = Publication("state", a, r)
           /\ outbox'[c + 2] = Publication("sensor", a, r)
<1> DEFINE S == Publication("state", a, r)
           Z == Publication("sensor", a, r)
           D == Publication("default", a, Unknown)
           n == Len(outbox)
<1>1. S \in Publications /\ Z \in Publications /\ D \in Publications
  BY DEF Publications, Publication
<1>2. outbox \in Seq(Publications) /\ n \in Nat
  BY DEF WorkInv
<1>3. CASE a \in db
  <2>1. outbox' = (outbox \o << >>) \o << S, Z >>
    BY <1>3 DEF Publish, CheckPublished
  <2> HIDE DEF S, Z, D
  <2>2. /\ outbox' \in Seq(Publications) /\ Len(outbox') = n + 2
        /\ DOMAIN outbox = 1..n /\ DOMAIN outbox' = 1..(n + 2)
        /\ \A i \in 1..n : outbox'[i] = outbox[i]
        /\ outbox'[n + 1] = S /\ outbox'[n + 2] = Z
    BY <1>1, <1>2, <2>1
  <2> HIDE DEF n
  <2> QED
    BY <1>2, <1>3, <2>2 DEF S, Z, n
<1>4. CASE a \notin db
  <2>1. outbox' = (outbox \o << D >>) \o << S, Z >>
    BY <1>4 DEF Publish, CheckPublished
  <2> DEFINE c == n + 1
  <2> HIDE DEF S, Z, D
  <2>2. /\ outbox' \in Seq(Publications) /\ Len(outbox') = n + 3
        /\ DOMAIN outbox = 1..n /\ DOMAIN outbox' = 1..(n + 3)
        /\ \A i \in 1..n : outbox'[i] = outbox[i]
        /\ outbox'[n + 1] = D /\ outbox'[n + 2] = S /\ outbox'[n + 3] = Z
    BY <1>1, <1>2, <2>1
  <2> HIDE DEF n
  <2>3. c \in Nat /\ c + 1 = n + 2 /\ c + 2 = n + 3
    BY <1>2
  <2>4. /\ DOMAIN outbox' = 1..(c + 2) /\ Len(outbox') = c + 2
        /\ outbox'[c] = D /\ outbox'[c + 1] = S /\ outbox'[c + 2] = Z
    BY <2>2, <2>3
  <2>5. c = Len(outbox) + 1
    BY DEF n
  <2> HIDE DEF c
  <2> QED
    BY <1>2, <1>4, <2>2, <2>3, <2>4, <2>5 DEF S, Z, D, n
<1> QED
  BY <1>3, <1>4

\* A publish keeps the retained topics, and what the tasks promise of them.
LEMMA PublishKeeps ==
  ASSUME TopicInv, WorkInv, NEW a \in Exists, NEW r \in Switched, Publish(a, r),
         UNCHANGED <<broker, retainedVars>>
  PROVE  /\ TopicInv' /\ outbox' \in Seq(Publications)
<1> DEFINE n == Len(outbox)
<1>1. PICK c \in Nat :
           /\ outbox' \in Seq(Publications)
           /\ DOMAIN outbox = 1..n /\ DOMAIN outbox' = 1..(c + 2)
           /\ n \in Nat /\ Len(outbox') = c + 2
           /\ \A i \in DOMAIN outbox : outbox'[i] = outbox[i]
           /\ a \in db => c = n
           /\ a \notin db => c = n + 1 /\ outbox'[c] = Publication("default", a, Unknown)
           /\ outbox'[c + 1] = Publication("state", a, r)
           /\ outbox'[c + 2] = Publication("sensor", a, r)
  BY PublishTasks
<1>2. TopicTypes /\ UNCHANGED <<conf, state, sensor>> /\ db' = db \cup {a}
  BY DEF TopicInv, Publish, retainedVars
<1>3. TopicTypes'
  BY <1>2 DEF TopicTypes
<1>4. AnnouncedFirst'
  BY <1>2 DEF TopicInv, AnnouncedFirst
<1>h. outbox \in Seq(Publications)
  BY DEF WorkInv
<1>5. SensorFollowsLight'
  <2> SUFFICES ASSUME broker # "gone", NEW b \in Exists
               PROVE  SensorNext(b)' \/ SensorAgrees(b)'
    BY DEF SensorFollowsLight
  <2>1. SensorNext(b) \/ SensorAgrees(b)
    BY DEF TopicInv, SensorFollowsLight
  <2>2. SensorAgrees(b) => SensorAgrees(b)'
    BY <1>2 DEF SensorAgrees
  <2>3. outbox # <<>> => outbox' # <<>> /\ Head(outbox') = Head(outbox)
    <3> SUFFICES ASSUME outbox # <<>> PROVE outbox' # <<>> /\ Head(outbox') = Head(outbox)
      OBVIOUS
    <3>1. 1 \in DOMAIN outbox /\ Head(outbox) = outbox[1]
      BY <1>h
    <3>2. outbox' # <<>> /\ Head(outbox') = outbox'[1]
      <4> DEFINE more == outbox'
      <4>1. more \in Seq(Publications) /\ Len(more) = c + 2
        BY <1>1
      <4> HIDE DEF more
      <4>2. more # <<>> /\ Head(more) = more[1]
        BY <4>1
      <4> QED
        BY <4>2 DEF more
    <3> QED
      BY <1>1, <3>1, <3>2
  <2>4. SensorNext(b) => SensorNext(b)'
    BY <2>3 DEF SensorNext
  <2> QED
    BY <2>1, <2>2, <2>4
<1> HIDE DEF n
<1>6. \A i \in 1..(c + 2) : \/ i \in 1..n \/ (a \notin db /\ i = c)
                            \/ i = c + 1 \/ i = c + 2
  BY <1>1
<1>7. /\ Publication("default", a, Unknown).kind = "default"
      /\ Publication("state", a, r).kind = "state"
      /\ Publication("sensor", a, r).kind = "sensor"
      /\ Publication("default", a, Unknown).to = a /\ Publication("state", a, r).to = a
      /\ Publication("sensor", a, r).to = a
      /\ Publication("state", a, r).report = r /\ Publication("sensor", a, r).report = r
  BY DEF Publication
<1>8. GroupsAnnounced'
  <2> SUFFICES ASSUME broker # "gone"
               PROVE  /\ \A b \in db' : Announced(b, Len(outbox) + 1)'
                      /\ \A i \in DOMAIN outbox' :
                           outbox'[i].kind = "state" => Announced(outbox[i].to, i)'
    BY DEF GroupsAnnounced
  <2>1. ASSUME NEW b, NEW k \in 1..(n + 1), NEW m \in Nat, k <= m, Announced(b, k)
        PROVE  Announced(b, m)'
    <3>1. CASE conf[b] # "none"
      BY <1>2, <3>1 DEF Announced
    <3>2. ASSUME NEW j \in DOMAIN outbox, j < k, outbox[j].to = b,
                 outbox[j].kind \in {"default", "label"}
          PROVE  Announced(b, m)'
      <4>1. j \in DOMAIN outbox' /\ j < m /\ outbox'[j] = outbox[j]
        BY <1>1, <2>1, <3>2
      <4> QED
        BY <3>2, <4>1 DEF Announced
    <3> QED
      BY <2>1, <3>1, <3>2 DEF Announced
  <2>2. \A b \in db : Announced(b, n + 1)
    BY DEF TopicInv, GroupsAnnounced, n
  <2>3. a \notin db => \A m \in Nat : m > c => Announced(a, m)'
    BY <1>1, <1>7 DEF Announced
  <2>4. ASSUME NEW b \in db' PROVE Announced(b, Len(outbox) + 1)'
    <3>1. Len(outbox') + 1 = c + 3 /\ n + 1 \in 1..(n + 1) /\ n + 1 <= c + 3 /\ c + 3 > c
      BY <1>1
    <3>2. CASE b \in db
      BY <2>1, <2>2, <3>1, <3>2
    <3>3. CASE b \notin db
      BY <1>2, <2>3, <2>4, <3>1, <3>3
    <3> QED
      BY <3>2, <3>3
  <2>5. ASSUME NEW i \in DOMAIN outbox', outbox'[i].kind = "state"
        PROVE  Announced(outbox[i].to, i)'
    <3>1. CASE i \in 1..n
      <4>1. Announced(outbox[i].to, i)
        BY <1>1, <2>5, <3>1 DEF TopicInv, GroupsAnnounced
      <4>2. i \in 1..(n + 1) /\ i \in Nat /\ i <= i
        BY <1>1, <3>1
      <4>3. outbox'[i].to = outbox[i].to
        BY <1>1, <3>1
      <4> DEFINE x == outbox[i].to
      <4>4. Announced(x, i)
        BY <4>1
      <4>5. x = outbox'[i].to
        BY <4>3
      <4> HIDE DEF x
      <4> QED
        BY <1>1, <1>2, <2>5, <3>1, <4>2, <4>4, <4>5 DEF Announced
    <3>2. CASE i = c + 1
      <4>1. outbox'[i].to = a
        BY <1>1, <1>7, <3>2
      <4>2. a \in db => \/ conf'[a] # "none"
                        \/ \E j \in DOMAIN outbox' : /\ j < i /\ outbox'[j].to = a
                                                     /\ outbox'[j].kind \in {"default", "label"}
        <5> SUFFICES ASSUME a \in db, conf[a] = "none"
                     PROVE  \E j \in DOMAIN outbox' : /\ j < i /\ outbox'[j].to = a
                                             /\ outbox'[j].kind \in {"default", "label"}
          BY <1>2
        <5>1. PICK j \in DOMAIN outbox : /\ j < n + 1 /\ outbox[j].to = a
                                         /\ outbox[j].kind \in {"default", "label"}
          BY <2>2 DEF Announced
        <5>2. j \in DOMAIN outbox' /\ j < i /\ outbox'[j] = outbox[j]
          BY <1>1, <3>2, <5>1
        <5> QED
          BY <5>1, <5>2
      <4>3. a \notin db => \E j \in DOMAIN outbox' :
                              /\ j < i /\ outbox'[j].to = a
                              /\ outbox'[j].kind \in {"default", "label"}
        BY <1>1, <1>7, <3>2
      <4> QED
        BY <4>1, <4>2, <4>3 DEF Announced
    <3>3. CASE i = c + 2 \/ (a \notin db /\ i = c)
      BY <1>1, <1>7, <2>5, <3>3
    <3> QED
      BY <1>1, <1>6, <2>5, <3>1, <3>2, <3>3
  <2> QED
    BY <2>4, <2>5
<1>9. TasksPair'
  <2> SUFFICES ASSUME broker # "gone", NEW i \in DOMAIN outbox'
               PROVE  /\ outbox'[i].kind = "state" =>
                           /\ i + 1 \in DOMAIN outbox'
                           /\ outbox'[i + 1] =
                                Publication("sensor", outbox'[i].to, outbox'[i].report)
                      /\ outbox'[i].kind = "sensor" =>
                           IF i = 1 THEN state'[outbox'[i].to] = outbox'[i].report
                           ELSE outbox'[i - 1] =
                                  Publication("state", outbox'[i].to, outbox'[i].report)
    BY DEF TasksPair
  <2>1. CASE i \in 1..n
    <3>1. /\ outbox[i].kind = "state" =>
               /\ i + 1 \in DOMAIN outbox
               /\ outbox[i + 1] = Publication("sensor", outbox[i].to, outbox[i].report)
          /\ outbox[i].kind = "sensor" =>
               IF i = 1 THEN state[outbox[i].to] = outbox[i].report
               ELSE outbox[i - 1] = Publication("state", outbox[i].to, outbox[i].report)
      BY <1>1, <2>1 DEF TopicInv, TasksPair
    <3>2. outbox'[i] = outbox[i] /\ (i # 1 => i - 1 \in DOMAIN outbox)
      BY <1>1, <2>1
    <3>3. \A j \in DOMAIN outbox : j \in DOMAIN outbox' /\ outbox'[j] = outbox[j]
      BY <1>1
    <3> QED
      BY <1>2, <3>1, <3>2, <3>3
  <2>2. CASE i = c + 1
    <3>1. (c + 1) + 1 = c + 2 /\ c + 2 \in DOMAIN outbox'
      BY <1>1
    <3> QED
      BY <1>1, <1>7, <2>2, <3>1
  <2>3. CASE i = c + 2
    <3>1. (c + 2) - 1 = c + 1 /\ c + 2 # 1
      BY <1>1
    <3> QED
      BY <1>1, <1>7, <2>3, <3>1
  <2>4. CASE a \notin db /\ i = c
    BY <1>1, <1>7, <2>4
  <2> QED
    BY <1>1, <1>6, <2>1, <2>2, <2>3, <2>4
<1> QED
  BY <1>1, <1>3, <1>4, <1>5, <1>8, <1>9 DEF TopicInv

\* The oldest task runs: what it publishes was promised by the tasks before it.
LEMMA RunKeeps ==
  ASSUME TopicInv, WorkInv, ControlInv, PhaseInv, RunPublish
  PROVE  TopicInv'
<1> DEFINE p == outbox[1]
           n == Len(outbox)
<1>1. /\ outbox \in Seq(Publications) /\ outbox # <<>> /\ outbox' = Tail(outbox)
      /\ UNCHANGED <<broker, db>>
  BY DEF RunPublish, WorkInv
<1>2. /\ n \in Nat \ {0} /\ DOMAIN outbox = 1..n /\ DOMAIN outbox' = 1..(n - 1)
      /\ \A i \in 1..(n - 1) : outbox'[i] = outbox[i + 1]
      /\ Head(outbox) = p /\ p \in Publications /\ outbox' \in Seq(Publications)
  BY <1>1
<1>3. /\ p.kind \in {"default", "label", "state", "sensor"} /\ p.to \in Exists
      /\ p.kind \in {"state", "sensor"} =>
           /\ p.report \in Reports /\ p.report # Unknown
           /\ SensorOf(p.report) \in {"ON", "OFF"}
  BY <1>2, PublicationFacts, SwitchedFacts
<1>4. CASE broker = "gone"
  <2>1. UNCHANGED <<conf, state, sensor>>
    BY <1>4 DEF RunPublish, retainedVars
  <2> QED
    BY <1>1, <1>4, <2>1 DEF TopicInv, TopicTypes, AnnouncedFirst, SensorFollowsLight,
           GroupsAnnounced, TasksPair
<1>5. CASE broker # "gone"
  <2>1. broker = "up"
    BY <1>1, <1>5 DEF ControlInv, PhaseInv
  <2>2. /\ conf' = IF p.kind \in {"default", "label"} THEN [conf EXCEPT ![p.to] = p.kind]
                                                       ELSE conf
        /\ state' = IF p.kind = "state" THEN [state EXCEPT ![p.to] = p.report] ELSE state
        /\ sensor' = IF p.kind = "sensor" THEN [sensor EXCEPT ![p.to] = SensorOf(p.report)]
                                          ELSE sensor
    BY <1>2, <2>1 DEF RunPublish
  <2>3. TopicTypes
    BY DEF TopicInv
  <2>4. /\ \A i \in DOMAIN outbox :
             outbox[i].kind = "state" => Announced(outbox[i].to, i)
        /\ \A b \in db : Announced(b, n + 1)
    BY <1>5 DEF TopicInv, GroupsAnnounced, n
  <2>5. \A i \in DOMAIN outbox :
          /\ outbox[i].kind = "state" =>
               /\ i + 1 \in DOMAIN outbox
               /\ outbox[i + 1] = Publication("sensor", outbox[i].to, outbox[i].report)
          /\ outbox[i].kind = "sensor" =>
               IF i = 1 THEN state[outbox[i].to] = outbox[i].report
               ELSE outbox[i - 1] = Publication("state", outbox[i].to, outbox[i].report)
    BY <1>5 DEF TopicInv, TasksPair
  <2>6. 1 \in DOMAIN outbox
    BY <1>2
  <2>7. p.kind = "state" => /\ conf[p.to] # "none" /\ 2 \in DOMAIN outbox
                            /\ outbox[2] = Publication("sensor", p.to, p.report)
    <3>1. p.kind = "state" => Announced(p.to, 1)
      BY <2>4, <2>6
    <3>2. \A j \in DOMAIN outbox : ~(j < 1)
      BY <1>2
    <3>3. 1 + 1 = 2
      OBVIOUS
    <3> QED
      BY <2>5, <2>6, <3>1, <3>2, <3>3 DEF Announced
  <2>8. p.kind = "sensor" => state[p.to] = p.report
    BY <2>5, <2>6
  <2> HIDE DEF p, n
  <2>9. TopicTypes'
    <3>1. conf' \in [Exists -> {"none", "default", "label"}]
      BY <2>2, <2>3 DEF TopicTypes
    <3>2. state' \in [Exists -> Reports]
      BY <1>3, <2>2, <2>3 DEF TopicTypes
    <3>3. sensor' \in [Exists -> {"none", "ON", "OFF"}]
      BY <1>3, <2>2, <2>3 DEF TopicTypes
    <3> QED
      BY <1>1, <2>3, <3>1, <3>2, <3>3 DEF TopicTypes
  <2>10. \A b \in Exists : /\ conf[b] # "none" => conf'[b] # "none"
                           /\ p.to = b /\ p.kind \in {"default", "label"} => conf'[b] # "none"
                           /\ ~(p.kind = "state" /\ p.to = b) => state'[b] = state[b]
                           /\ ~(p.kind = "sensor" /\ p.to = b) => sensor'[b] = sensor[b]
    BY <2>2, <2>3 DEF TopicTypes
  <2>11. AnnouncedFirst'
    BY <1>3, <2>2, <2>3, <2>7, <2>10 DEF TopicInv, TopicTypes, AnnouncedFirst
  <2>12. SensorFollowsLight'
    <3> SUFFICES ASSUME NEW b \in Exists PROVE SensorNext(b)' \/ SensorAgrees(b)'
      BY DEF SensorFollowsLight
    <3>1. CASE p.kind = "state" /\ p.to = b
      <4> DEFINE more == outbox'
      <4>1. more \in Seq(Publications) /\ Len(more) > 0 /\ more[1] = outbox[2]
        BY <1>2, <2>7, <3>1
      <4> HIDE DEF more
      <4>2. more # <<>> /\ Head(more) = more[1]
        BY <4>1
      <4>3. outbox[2].kind = "sensor" /\ outbox[2].to = b
        BY <2>7, <3>1 DEF Publication
      <4>4. more # <<>> /\ Head(more).kind = "sensor" /\ Head(more).to = b
        BY <4>1, <4>2, <4>3
      <4> QED
        BY <4>4 DEF SensorNext, more
    <3>2. CASE p.kind = "sensor" /\ p.to = b
      <4>1. state'[b] = p.report /\ sensor'[b] = SensorOf(p.report)
        BY <2>2, <2>3, <2>8, <3>2 DEF TopicTypes
      <4> QED
        BY <1>3, <3>2, <4>1 DEF SensorAgrees
    <3>3. CASE ~(p.kind \in {"state", "sensor"} /\ p.to = b)
      <4>1. ~SensorNext(b)
        BY <1>2, <3>3 DEF SensorNext
      <4>2. SensorAgrees(b)
        BY <1>5, <4>1 DEF TopicInv, SensorFollowsLight
      <4>3. state'[b] = state[b] /\ sensor'[b] = sensor[b]
        BY <2>10, <3>3
      <4> QED
        BY <4>2, <4>3 DEF SensorAgrees
    <3> QED
      BY <3>1, <3>2, <3>3
  <2>13. ASSUME NEW b \in Exists, NEW k \in 1..n, Announced(b, k + 1)
         PROVE  \/ conf'[b] # "none"
                \/ \E j \in DOMAIN outbox' : /\ j < k /\ outbox'[j].to = b
                                             /\ outbox'[j].kind \in {"default", "label"}
    <3>1. CASE conf[b] # "none"
      BY <2>10, <3>1
    <3>2. ASSUME NEW j \in DOMAIN outbox, j < k + 1, outbox[j].to = b,
                 outbox[j].kind \in {"default", "label"}
          PROVE  \/ conf'[b] # "none"
                 \/ \E i \in DOMAIN outbox' : /\ i < k /\ outbox'[i].to = b
                                              /\ outbox'[i].kind \in {"default", "label"}
      <4>1. CASE j = 1
        BY <2>10, <3>2, <4>1 DEF p
      <4>2. CASE j # 1
        <5> DEFINE i == j - 1
        <5>1. i \in 1..(n - 1) /\ i + 1 = j /\ i < k
          BY <1>2, <2>13, <3>2, <4>2
        <5> HIDE DEF i
        <5>2. i \in DOMAIN outbox' /\ outbox'[i] = outbox[j]
          BY <1>2, <5>1
        <5> QED
          BY <3>2, <5>1, <5>2
      <4> QED
        BY <4>1, <4>2
    <3> QED
      BY <2>13, <3>1, <3>2 DEF Announced
  <2>14. GroupsAnnounced'
    <3>0. \A i \in DOMAIN outbox : outbox[i].to \in Exists
      BY <1>1, PublicationFacts
    <3>1. ASSUME NEW b \in db' PROVE Announced(b, Len(outbox) + 1)'
      <4>1. b \in Exists /\ n \in 1..n /\ Announced(b, n + 1)
        BY <1>1, <1>2, <2>3, <2>4, <3>1 DEF TopicTypes
      <4>2. Len(outbox') + 1 = n
        BY <1>1, <1>2 DEF n
      <4> QED
        BY <2>13, <4>1, <4>2 DEF Announced
    <3>2. ASSUME NEW i \in DOMAIN outbox', outbox'[i].kind = "state"
          PROVE  Announced(outbox[i].to, i)'
      <4>1. i \in 1..(n - 1) /\ i \in 1..n /\ i + 1 \in DOMAIN outbox
        BY <1>2, <3>2
      <4> DEFINE b == outbox[i + 1].to
      <4>2. outbox'[i] = outbox[i + 1] /\ b \in Exists
        BY <1>2, <3>0, <4>1
      <4>3. Announced(b, i + 1)
        BY <2>4, <3>2, <4>1, <4>2
      <4>4. outbox'[i].to = b
        BY <4>2
      <4> HIDE DEF b
      <4> QED
        BY <2>13, <4>1, <4>2, <4>3, <4>4 DEF Announced
    <3> QED
      BY <3>1, <3>2 DEF GroupsAnnounced
  <2>15. TasksPair'
    <3> SUFFICES ASSUME NEW i \in DOMAIN outbox'
                 PROVE  /\ outbox'[i].kind = "state" =>
                             /\ i + 1 \in DOMAIN outbox'
                             /\ outbox'[i + 1] =
                                  Publication("sensor", outbox'[i].to, outbox'[i].report)
                        /\ outbox'[i].kind = "sensor" =>
                             IF i = 1 THEN state'[outbox'[i].to] = outbox'[i].report
                             ELSE outbox'[i - 1] =
                                    Publication("state", outbox'[i].to, outbox'[i].report)
      BY DEF TasksPair
    <3>1. i \in 1..(n - 1) /\ i + 1 \in DOMAIN outbox /\ outbox'[i] = outbox[i + 1] /\ i + 1 # 1
      BY <1>2
    <3>2. ASSUME outbox'[i].kind = "state"
          PROVE  /\ i + 1 \in DOMAIN outbox'
                 /\ outbox'[i + 1] = Publication("sensor", outbox'[i].to, outbox'[i].report)
      <4>1. /\ (i + 1) + 1 \in DOMAIN outbox
            /\ outbox[(i + 1) + 1] =
                 Publication("sensor", outbox[i + 1].to, outbox[i + 1].report)
        BY <2>5, <3>1, <3>2
      <4>2. i + 1 \in 1..(n - 1)
        BY <1>2, <3>1, <4>1
      <4> QED
        BY <1>2, <3>1, <4>1, <4>2
    <3>3. ASSUME outbox'[i].kind = "sensor"
          PROVE  IF i = 1 THEN state'[outbox'[i].to] = outbox'[i].report
                 ELSE outbox'[i - 1] =
                        Publication("state", outbox'[i].to, outbox'[i].report)
      <4>1. (i + 1) - 1 = i
        BY <3>1
      <4>2. outbox[i] = Publication("state", outbox[i + 1].to, outbox[i + 1].report)
        BY <2>5, <3>1, <3>3, <4>1
      <4>3. CASE i = 1
        <5>1. p.kind = "state" /\ p.to = outbox'[i].to /\ p.report = outbox'[i].report
          BY <3>1, <4>2, <4>3 DEF Publication, p
        <5>2. state'[p.to] = p.report
          BY <1>3, <2>2, <2>3, <5>1 DEF TopicTypes
        <5> QED
          BY <4>3, <5>1, <5>2
      <4>4. CASE i # 1
        <5>1. i - 1 \in 1..(n - 1) /\ (i - 1) + 1 = i
          BY <1>2, <3>1, <4>4
        <5>2. outbox'[i - 1] = outbox[i]
          BY <1>2, <5>1
        <5> QED
          BY <3>1, <4>2, <4>4, <5>2
      <4> QED
        BY <4>3, <4>4
    <3> QED
      BY <3>2, <3>3
  <2> QED
    BY <2>9, <2>11, <2>12, <2>14, <2>15 DEF TopicInv
<1> QED
  BY <1>4, <1>5

\* Clearing groupDB, or losing the broker, leaves the retained topics alone.
LEMMA TopicRest ==
  ASSUME TopicInv, UNCHANGED <<retainedVars, outbox>>, db' \subseteq db,
         broker' # "gone" => broker # "gone"
  PROVE  TopicInv'
<1> USE DEF retainedVars
<1>1. TopicTypes' /\ AnnouncedFirst'
  BY DEF TopicInv, TopicTypes, AnnouncedFirst
<1>2. SensorFollowsLight'
  BY DEF TopicInv, SensorFollowsLight, SensorNext, SensorAgrees
<1>3. GroupsAnnounced'
  BY DEF TopicInv, GroupsAnnounced, Announced
<1>4. TasksPair'
  BY DEF TopicInv, TasksPair
<1> QED
  BY <1>1, <1>2, <1>3, <1>4 DEF TopicInv

\* What a send delay that ends does, by the kind of its item.
LEMMA WriteKinds ==
  ASSUME WorkInv, Write
  PROVE  /\ sleeping # <<>> /\ sleeping' = Tail(sleeping) /\ Head(sleeping) \in Item
         /\ Head(sleeping).kind \in {"command", "status", "clock"}
         /\ Head(sleeping).kind = "command" =>
              /\ WriteCommand(Head(sleeping)) /\ Head(sleeping) \in CommandItem
              /\ Head(sleeping).to \in Exists /\ Head(sleeping).report \in Switched
         /\ Head(sleeping).kind = "status" => WriteStatus(Head(sleeping))
         /\ Head(sleeping).kind = "clock" => WriteClock
<1>1. sleeping # <<>> /\ sleeping \in Seq(Item)
  BY DEF Write, WorkInv
<1>2. Head(sleeping) \in Item
  BY <1>1
<1> QED
  BY <1>1, <1>2, ItemFacts DEF Write

\* A command in its send delay publishes its report for its pair.
LEMMA WritePublishes ==
  ASSUME TopicInv, WorkInv, Write
  PROVE  /\ TopicInv' /\ outbox' \in Seq(Publications)
         /\ Head(sleeping).kind # "command" => UNCHANGED outbox
<1>1. UNCHANGED <<broker, retainedVars>>
  BY DEF Write
<1>2. CASE Head(sleeping).kind = "command"
  <2>1. /\ Publish(Head(sleeping).to, Head(sleeping).report)
        /\ Head(sleeping).to \in Exists /\ Head(sleeping).report \in Switched
    BY <1>2, WriteKinds DEF WriteCommand
  <2> QED
    BY <1>1, <1>2, <2>1, PublishKeeps
<1>3. CASE Head(sleeping).kind # "command"
  <2>1. UNCHANGED <<db, outbox>>
    BY <1>3, WriteKinds DEF WriteStatus, WriteClock
  <2> QED
    BY <1>1, <2>1, TopicRest DEF WorkInv
<1> QED
  BY <1>2, <1>3

\* A report that is relayed is published for the pair it tells of.
LEMMA RelayPublishes ==
  ASSUME TopicInv, WorkInv, NetInv, Relay
  PROVE  /\ TopicInv' /\ outbox' \in Seq(Publications)
         /\ \/ UNCHANGED <<outbox, asked>>
            \/ \E b \in Exists, r \in Switched :
                 Publish(b, r) /\ asked' = [asked EXCEPT ![b] = Unknown]
<1>0. UNCHANGED <<broker, retainedVars>>
  BY DEF Relay
<1>1. CASE api /\ ~closing
  <2> DEFINE b == Head(inbound)[1]
             r == ReportOf(Head(inbound)[2])
  <2>1. Head(inbound) \in Exists \X (0..255)
    BY DEF Relay, NetInv
  <2>2. b \in Exists /\ r \in Switched
    BY <2>1, ReportOfFacts
  <2>3. Publish(b, r) /\ asked' = [asked EXCEPT ![b] = Unknown]
    BY <1>1 DEF Relay, Forget
  <2> HIDE DEF b, r
  <2> QED
    BY <1>0, <2>2, <2>3, PublishKeeps
<1>2. CASE ~(api /\ ~closing)
  <2>1. UNCHANGED <<db, outbox, asked>>
    BY <1>2 DEF Relay
  <2> QED
    BY <1>0, <2>1, TopicRest DEF WorkInv
<1> QED
  BY <1>1, <1>2

\* Nothing was published before the broker accepts; then the labels are.
LEMMA AcceptsPublishes ==
  ASSUME TopicInv, WorkInv, PhaseInv, BrokerAccepts
  PROVE  TopicInv' /\ outbox' \in Seq(Publications)
<1> DEFINE S == {Publication("label", a, Unknown) : a \in Labelled}
           more == Listing(S)
<1>1. /\ outbox = <<>> /\ db = {} /\ broker = "none"
      /\ db' = db \cup Labelled /\ UNCHANGED <<conf, state, sensor>>
      /\ outbox' = outbox \o more
  BY DEF BrokerAccepts, PublishAllLights, PhaseInv, retainedVars
<1>2. /\ more \in Seq(Publications)
      /\ \A a \in Labelled : \E i \in DOMAIN more : more[i].to = a /\ more[i].kind = "label"
      /\ \A i \in DOMAIN more : more[i].kind = "label"
  BY LabelFacts
<1> HIDE DEF more
<1>3. outbox' = more /\ db' = Labelled
  BY <1>1, <1>2
<1>4. TopicTypes' /\ AnnouncedFirst'
  BY <1>1, <1>3, PyGatewayAssumption DEF TopicInv, TopicTypes, AnnouncedFirst
<1>5. SensorFollowsLight'
  <2>1. \A a \in Exists : SensorAgrees(a)
    BY <1>1 DEF TopicInv, SensorFollowsLight, SensorNext
  <2> QED
    BY <1>1, <2>1 DEF SensorFollowsLight, SensorAgrees
<1>6. GroupsAnnounced'
  <2>1. ASSUME NEW a \in db' PROVE Announced(a, Len(outbox) + 1)'
    <3>1. PICK i \in DOMAIN more : more[i].to = a /\ more[i].kind = "label"
      BY <1>2, <1>3, <2>1
    <3>2. i < Len(more) + 1
      BY <1>2
    <3> QED
      BY <1>3, <3>1, <3>2 DEF Announced
  <2>2. \A i \in DOMAIN outbox' : outbox'[i].kind # "state"
    BY <1>2, <1>3
  <2> QED
    BY <2>1, <2>2 DEF GroupsAnnounced
<1>7. TasksPair'
  <2>1. \A i \in DOMAIN outbox' : outbox'[i].kind # "state" /\ outbox'[i].kind # "sensor"
    BY <1>2, <1>3
  <2> QED
    BY <2>1 DEF TasksPair
<1> QED
  BY <1>2, <1>3, <1>4, <1>5, <1>6, <1>7 DEF TopicInv

\* Every step keeps the retained topics in agreement.
LEMMA TopicStep ==
  ASSUME TopicInv, WorkInv, ControlInv, NetInv, PhaseInv, [Next]_vars
  PROVE  TopicInv'
<1> USE DEF mqttVars
<1>1. CASE Work
  BY <1>1, TopicRest DEF Work
<1>2. CASE Write
  BY <1>2, WritePublishes
<1>3. CASE Relay
  BY <1>3, RelayPublishes
<1>4. CASE RunPublish
  BY <1>4, RunKeeps
<1>5. ASSUME NEW item \in unconfirmed, Resend(item) \/ Settle(item) PROVE TopicInv'
  BY <1>5, TopicRest DEF Resend, Settle
<1>6. ASSUME NEW t \in Topics, NEW p \in Payloads, HandleMessage(t, p) PROVE TopicInv'
  BY <1>6, TopicRest DEF HandleMessage
<1>7. ASSUME NEW a \in Exists, NEW level \in Levels, UnitSets(a, level) PROVE TopicInv'
  BY <1>7, TopicRest DEF UnitSets
<1>8. ASSUME NEW a \in Exists, UnitReports(a) PROVE TopicInv'
  BY <1>8, TopicRest DEF UnitReports
<1>9. CASE OnClockRequest
  BY <1>9, TopicRest DEF OnClockRequest
<1>10. CASE BrokerAccepts
  BY <1>10, AcceptsPublishes
<1>11. CASE BrokerRefuses \/ FutureDone \/ Rebind \/ Interrupt
  BY <1>11, TopicRest DEF BrokerRefuses, FutureDone, Rebind, Interrupt
<1>12. CASE BrokerLost
  BY <1>12, TopicRest DEF BrokerLost
<1>13. CASE LinkDrops
  BY <1>13, TopicRest DEF LinkDrops, ConnectionLost
<1>14. CASE CleanUp
  BY <1>14, TopicRest DEF CleanUp
<1>15. CASE CancelTasks
  <2>1. UNCHANGED <<broker, db, conf, state, sensor>> /\ outbox' = <<>>
    BY <1>15 DEF CancelTasks, retainedVars
  <2>2. broker # "gone" => outbox = <<>>
    BY <1>15 DEF CancelTasks, PhaseInv, ControlInv
  <2>3. CASE broker = "gone"
    BY <2>1, <2>3 DEF TopicInv, TopicTypes, AnnouncedFirst, SensorFollowsLight,
           GroupsAnnounced, TasksPair
  <2>4. CASE broker # "gone"
    BY <2>1, <2>2, <2>4, TopicRest DEF retainedVars
  <2> QED
    BY <2>3, <2>4
<1>16. CASE UNCHANGED vars
  BY <1>16, TopicRest DEF vars
<1> QED
  BY <1>1, <1>2, <1>3, <1>4, <1>5, <1>6, <1>7, <1>8, <1>9, <1>10, <1>11, <1>12, <1>13,
     <1>14, <1>15, <1>16 DEF Next

-----------------------------------------------------------------------------
(* Control, what waits, and the network *)

\* Every step keeps the control state's types.
LEMMA ControlStep ==
  ASSUME ControlInv, WorkInv, [Next]_vars
  PROVE  ControlInv'
<1> USE DEF ControlInv, handlerVars
<1>1. CASE Work
  BY <1>1 DEF Work
<1>2. CASE Write
  <2>1. answered' \in BOOLEAN
    BY <1>2, WriteKinds DEF WriteCommand, WriteStatus, WriteClock
  <2>2. UNCHANGED <<main, broker, dispatcher, running, handlerVars>>
    BY <1>2 DEF Write
  <2> QED
    BY <2>1, <2>2
<1>3. CASE Relay
  BY <1>3 DEF Relay
<1>4. CASE RunPublish
  BY <1>4 DEF RunPublish
<1>5. ASSUME NEW item \in unconfirmed, Resend(item) \/ Settle(item) PROVE ControlInv'
  BY <1>5 DEF Resend, Settle
<1>6. ASSUME NEW t \in Topics, NEW p \in Payloads, HandleMessage(t, p) PROVE ControlInv'
  BY <1>6 DEF HandleMessage
<1>7. ASSUME NEW a \in Exists, NEW level \in Levels, UnitSets(a, level) PROVE ControlInv'
  BY <1>7 DEF UnitSets
<1>8. ASSUME NEW a \in Exists, UnitReports(a) PROVE ControlInv'
  BY <1>8 DEF UnitReports
<1>9. CASE OnClockRequest
  BY <1>9 DEF OnClockRequest
<1>10. CASE BrokerAccepts
  BY <1>10 DEF BrokerAccepts
<1>11. CASE BrokerRefuses \/ FutureDone \/ Rebind \/ Interrupt
  BY <1>11 DEF BrokerRefuses, FutureDone, Rebind, Interrupt
<1>12. CASE BrokerLost
  BY <1>12 DEF BrokerLost
<1>13. CASE LinkDrops
  BY <1>13 DEF LinkDrops, ConnectionLost
<1>14. CASE CleanUp
  BY <1>14 DEF CleanUp
<1>15. CASE CancelTasks
  BY <1>15 DEF CancelTasks
<1>16. CASE UNCHANGED vars
  BY <1>16 DEF vars
<1> QED
  BY <1>1, <1>2, <1>3, <1>4, <1>5, <1>6, <1>7, <1>8, <1>9, <1>10, <1>11, <1>12, <1>13,
     <1>14, <1>15, <1>16 DEF Next

\* Periodic.enqueue keeps what is queued in its place and stays within its limit.
LEMMA EnqueueKeeps ==
  ASSUME WorkInv, running \in BOOLEAN, NEW items \in Seq(Item), Enqueue(items)
  PROVE  /\ queue' \in Seq(Item) /\ Len(queue') <= QueueCap
         /\ \A i \in DOMAIN queue : i \in DOMAIN queue' /\ queue'[i] = queue[i]
         /\ \A i \in DOMAIN queue' : i > Len(queue) => /\ i - Len(queue) \in DOMAIN items
                                                       /\ queue'[i] = items[i - Len(queue)]
<1> DEFINE all == queue \o items
<1>q. QueueCap \in Nat /\ QueueCap > 0
  BY PyGatewayAssumption
<1>t. queue \in Seq(Item) /\ Len(queue) <= QueueCap /\ Len(queue) \in Nat
  BY DEF WorkInv
<1>1. /\ all \in Seq(Item) /\ Len(all) = Len(queue) + Len(items)
      /\ \A i \in 1..Len(queue) : all[i] = queue[i]
      /\ \A i \in (Len(queue) + 1)..Len(all) : all[i] = items[i - Len(queue)]
  BY <1>t
<1>2. CASE ~running
  <2>1. queue' = queue
    BY <1>2 DEF Enqueue
  <2> QED
    BY <1>t, <2>1
<1>3. CASE running /\ Len(all) <= QueueCap
  <2>1. queue' = all
    BY <1>1, <1>3, <1>q DEF Enqueue
  <2> HIDE DEF all
  <2>2. DOMAIN queue = 1..Len(queue) /\ DOMAIN queue' = 1..Len(all) /\ DOMAIN items = 1..Len(items)
    BY <1>1, <1>t, <2>1
  <2>3. Len(items) \in Nat
    OBVIOUS
  <2>4. \A i \in 1..Len(all) : i > Len(queue) => i - Len(queue) \in 1..Len(items)
    BY <1>1, <1>t, <2>3
  <2>5. ASSUME NEW i \in 1..Len(all), i > Len(queue) PROVE all[i] = items[i - Len(queue)]
    <3>1. i \in (Len(queue) + 1)..Len(all)
      BY <1>1, <1>t, <2>3, <2>5
    <3> QED
      BY <1>1, <3>1
  <2>6. \A i \in 1..Len(queue) : i \in 1..Len(all)
    BY <1>1, <1>t, <2>3
  <2>7. Len(queue') <= QueueCap
    BY <1>3, <2>1
  <2> QED
    BY <1>1, <2>1, <2>2, <2>4, <2>5, <2>6, <2>7
<1>4. CASE running /\ Len(all) > QueueCap
  <2>1. queue' = SubSeq(all, 1, QueueCap)
    BY <1>1, <1>q, <1>4 DEF Enqueue
  <2> HIDE DEF all
  <2>2. /\ queue' \in Seq(Item) /\ Len(queue') = QueueCap
        /\ \A i \in 1..QueueCap : queue'[i] = all[i]
    BY <1>1, <1>4, <1>q, <2>1
  <2>3. DOMAIN queue = 1..Len(queue) /\ DOMAIN queue' = 1..QueueCap /\ DOMAIN items = 1..Len(items)
    BY <1>t, <1>q, <2>2
  <2>4. Len(items) \in Nat /\ QueueCap < Len(queue) + Len(items)
    BY <1>1, <1>4
  <2>5. \A i \in 1..QueueCap : i > Len(queue) => i - Len(queue) \in 1..Len(items)
    BY <1>t, <1>q, <2>4
  <2> QED
    BY <1>1, <1>t, <1>q, <2>2, <2>3, <2>4, <2>5
<1> QED
  BY <1>1, <1>2, <1>3, <1>4, <1>q

\* The item that a message enqueues.
LEMMA AcceptedItem ==
  ASSUME NEW t \in Topics, GoodTopic(t), NEW p \in Payloads
  PROVE  /\ GetTopicGroupAddress(t) \in Exists
         /\ Command(GetTopicGroupAddress(t), Asked(p)) \in Item
<1>1. GetTopicGroupAddress(t) \in Exists
  BY PyGatewayAssumption
<1> QED
  BY <1>1, AskedFacts DEF Item, CommandItem, Command

\* Every step keeps what waits: items, and no more of them than the limit.
LEMMA WorkStep ==
  ASSUME ControlInv, TopicInv, WorkInv, NetInv, PhaseInv, [Next]_vars
  PROVE  WorkInv'
<1>r. running \in BOOLEAN
  BY DEF ControlInv
<1>q. QueueCap \in Nat
  BY PyGatewayAssumption
<1>t. /\ queue \in Seq(Item) /\ Len(queue) <= QueueCap /\ sleeping \in Seq(Item)
      /\ outbox \in Seq(Publications) /\ unconfirmed \subseteq CommandItem
  BY DEF WorkInv
<1>p. ASSUME queue' \in Seq(Item), Len(queue') <= QueueCap, sleeping' \in Seq(Item),
             outbox' \in Seq(Publications), unconfirmed' \subseteq CommandItem
      PROVE  WorkInv'
  BY <1>p DEF WorkInv
<1>0. ASSUME UNCHANGED <<queue, sleeping, outbox>>, unconfirmed' \subseteq unconfirmed
      PROVE  WorkInv'
  BY <1>0, <1>t DEF WorkInv
<1> USE DEF mqttVars, sentVars
<1>1. CASE Work
  <2>1. /\ queue # <<>> /\ queue' = Tail(queue) /\ UNCHANGED <<outbox, unconfirmed>>
        /\ sleeping' = sleeping \/ sleeping' = Append(sleeping, Head(queue))
    BY <1>1 DEF Work
  <2>2. Head(queue) \in Item /\ Tail(queue) \in Seq(Item) /\ Len(Tail(queue)) = Len(queue) - 1
    BY <1>t, <2>1
  <2>3. sleeping' \in Seq(Item)
    BY <1>t, <2>1, <2>2
  <2> QED
    BY <1>q, <1>t, <2>1, <2>2, <2>3 DEF WorkInv
<1>2. CASE Write
  <2>1. sleeping # <<>> /\ sleeping' = Tail(sleeping) /\ UNCHANGED queue
    BY <1>2 DEF Write
  <2>2. outbox' \in Seq(Publications)
    BY <1>2, WritePublishes
  <2>3. unconfirmed' \subseteq CommandItem
    BY <1>2, <1>t, WriteKinds DEF WriteCommand, WriteStatus, WriteClock
  <2>4. sleeping' \in Seq(Item)
    BY <1>t, <2>1
  <2> QED
    BY <1>p, <1>t, <2>1, <2>2, <2>3, <2>4
<1>3. CASE Relay
  <2>1. UNCHANGED <<queue, sleeping, unconfirmed>>
    BY <1>3 DEF Relay
  <2>2. outbox' \in Seq(Publications)
    BY <1>3, RelayPublishes
  <2> QED
    BY <1>p, <1>t, <2>1, <2>2
<1>4. CASE RunPublish
  <2>1. outbox # <<>> /\ outbox' = Tail(outbox) /\ UNCHANGED <<queue, sleeping, unconfirmed>>
    BY <1>4 DEF RunPublish
  <2>2. outbox' \in Seq(Publications)
    BY <1>t, <2>1
  <2> QED
    BY <1>p, <1>t, <2>1, <2>2
<1>5. ASSUME NEW item \in unconfirmed, Resend(item) \/ Settle(item) PROVE WorkInv'
  BY <1>0, <1>5 DEF Resend, Settle
<1>6. ASSUME NEW t \in Topics, NEW p \in Payloads, HandleMessage(t, p) PROVE WorkInv'
  <2>1. CASE GoodTopic(t) /\ p.parses = "yes"
    <3>1. /\ Enqueue(<<Command(GetTopicGroupAddress(t), Asked(p))>>)
          /\ UNCHANGED <<sleeping, outbox, unconfirmed>>
      BY <1>6, <2>1 DEF HandleMessage
    <3>2. <<Command(GetTopicGroupAddress(t), Asked(p))>> \in Seq(Item)
      BY <2>1, AcceptedItem
    <3>3. queue' \in Seq(Item) /\ Len(queue') <= QueueCap
      BY <1>r, <3>1, <3>2, EnqueueKeeps
    <3> QED
      BY <1>p, <1>t, <3>1, <3>3
  <2>2. CASE ~(GoodTopic(t) /\ p.parses = "yes")
    BY <1>0, <1>6, <2>2 DEF HandleMessage
  <2> QED
    BY <2>1, <2>2
<1>7. ASSUME NEW a \in Exists, NEW level \in Levels, UnitSets(a, level) PROVE WorkInv'
  BY <1>0, <1>7 DEF UnitSets
<1>8. ASSUME NEW a \in Exists, UnitReports(a) PROVE WorkInv'
  BY <1>0, <1>8 DEF UnitReports
<1>9. CASE OnClockRequest
  <2>1. /\ UNCHANGED <<queue, outbox, unconfirmed>>
        /\ sleeping' = sleeping \/ sleeping' = Append(sleeping, Clock)
    BY <1>9 DEF OnClockRequest
  <2>2. Clock \in Item
    BY DEF Item
  <2>3. sleeping' \in Seq(Item)
    BY <1>t, <2>1, <2>2
  <2> QED
    BY <1>p, <1>t, <2>1, <2>3
<1>10. CASE BrokerAccepts
  <2>1. queue' \in Seq(Item) /\ Len(queue') <= QueueCap
    BY <1>10, <1>r, StatusFacts, EnqueueKeeps DEF BrokerAccepts
  <2>2. outbox' \in Seq(Publications)
    BY <1>10, AcceptsPublishes
  <2>3. UNCHANGED <<sleeping, unconfirmed>>
    BY <1>10 DEF BrokerAccepts
  <2> QED
    BY <1>p, <1>t, <2>1, <2>2, <2>3
<1>11. CASE BrokerRefuses \/ BrokerLost \/ FutureDone \/ Rebind \/ Interrupt
  BY <1>0, <1>11 DEF BrokerRefuses, BrokerLost, FutureDone, Rebind, Interrupt
<1>12. CASE LinkDrops
  BY <1>0, <1>12 DEF LinkDrops, ConnectionLost
<1>13. CASE CleanUp
  BY <1>0, <1>13 DEF CleanUp
<1>14. CASE CancelTasks
  <2>1. queue' = <<>> /\ sleeping' = <<>> /\ outbox' = <<>> /\ UNCHANGED unconfirmed
    BY <1>14 DEF CancelTasks
  <2> QED
    BY <1>q, <1>t, <2>1 DEF WorkInv
<1>15. CASE UNCHANGED vars
  BY <1>0, <1>15 DEF vars
<1> QED
  BY <1>1, <1>2, <1>3, <1>4, <1>5, <1>6, <1>7, <1>8, <1>9, <1>10, <1>11, <1>12, <1>13,
     <1>14, <1>15 DEF Next

\* Every step keeps the levels of the network and of its reports in range.
LEMMA NetStep ==
  ASSUME TopicInv, WorkInv, NetInv, [Next]_vars
  PROVE  NetInv'
<1> DEFINE Said == Exists \X (0..255)
<1>t. /\ bus \in [Exists -> 0..255] /\ inbound \in Seq(Said)
      /\ asked \in [Exists -> Reports] /\ amiss \in [Exists -> BOOLEAN]
  BY DEF NetInv, Reports
<1>u. Unknown \in Reports
  BY DEF Unknown, Report, Reports
<1>p. ASSUME bus' \in [Exists -> 0..255], inbound' \in Seq(Said),
             asked' \in [Exists -> Reports], amiss' \in [Exists -> BOOLEAN]
      PROVE  NetInv'
  BY <1>p DEF NetInv, Reports
<1>0. ASSUME UNCHANGED <<bus, inbound, amiss, asked>> PROVE NetInv'
  BY <1>0, <1>p, <1>t
<1>s. \A a \in Exists, level \in 0..255 : <<a, level>> \in Said
  OBVIOUS
<1> HIDE DEF Said
<1> USE DEF netVars, sentVars
<1>1. CASE Work
  <2>1. UNCHANGED <<bus, inbound, amiss>>
    BY <1>1 DEF Work
  <2>2. asked' = asked \/ asked' = [asked EXCEPT ![Head(queue).to] = Unknown]
    BY <1>1 DEF Work, Forget
  <2>3. asked' \in [Exists -> Reports]
    BY <1>t, <1>u, <2>2
  <2> QED
    BY <1>p, <1>t, <2>1, <2>3
<1>2. CASE Write
  <2> DEFINE item == Head(sleeping)
  <2>1. UNCHANGED asked
    BY <1>2 DEF Write
  <2>2. CASE item.kind = "command"
    <3>1. item.to \in Exists /\ item.report.level \in 0..255 /\ WriteCommand(item)
      BY <1>2, <2>2, WriteKinds, SwitchedFacts
    <3>2. UNCHANGED inbound /\ (bus' = bus \/ bus' = [bus EXCEPT ![item.to] = item.report.level])
      BY <3>1 DEF WriteCommand
    <3>3. \E v \in BOOLEAN : amiss' = [amiss EXCEPT ![item.to] = v]
      BY <3>1 DEF WriteCommand
    <3> HIDE DEF item
    <3>4. bus' \in [Exists -> 0..255] /\ amiss' \in [Exists -> BOOLEAN]
      BY <1>t, <3>1, <3>2, <3>3
    <3> QED
      BY <1>p, <1>t, <2>1, <3>2, <3>4
  <2>3. CASE item.kind # "command"
    <3>1. UNCHANGED <<bus, inbound, amiss>>
      BY <1>2, <2>3, WriteKinds DEF WriteStatus, WriteClock
    <3> QED
      BY <1>0, <2>1, <3>1
  <2> QED
    BY <2>2, <2>3
<1>3. CASE Relay
  <2>1. inbound # <<>> /\ inbound' = Tail(inbound) /\ UNCHANGED <<bus, amiss>>
    BY <1>3 DEF Relay
  <2>2. asked' \in [Exists -> Reports]
    BY <1>3, <1>t, <1>u, RelayPublishes
  <2>3. inbound' \in Seq(Said)
    BY <1>t, <2>1
  <2> QED
    BY <1>p, <1>t, <2>1, <2>2, <2>3
<1>4. CASE RunPublish
  BY <1>0, <1>4 DEF RunPublish
<1>5. ASSUME NEW item \in unconfirmed, Resend(item) \/ Settle(item) PROVE NetInv'
  <2>1. item.to \in Exists /\ item.report.level \in 0..255
    BY SwitchedFacts DEF WorkInv, CommandItem
  <2>2. UNCHANGED <<inbound, asked>>
    BY <1>5 DEF Resend, Settle
  <2>3. bus' = bus \/ bus' = [bus EXCEPT ![item.to] = item.report.level]
    BY <1>5 DEF Resend, Settle
  <2>4. amiss' = amiss \/ \E v \in BOOLEAN : amiss' = [amiss EXCEPT ![item.to] = v]
    BY <1>5 DEF Resend, Settle
  <2>5. bus' \in [Exists -> 0..255] /\ amiss' \in [Exists -> BOOLEAN]
    BY <1>t, <2>1, <2>3, <2>4
  <2> QED
    BY <1>p, <1>t, <2>2, <2>5
<1>6. ASSUME NEW t \in Topics, NEW p \in Payloads, HandleMessage(t, p) PROVE NetInv'
  <2>1. UNCHANGED <<bus, inbound, amiss>>
    BY <1>6 DEF HandleMessage
  <2>2. \/ asked' = asked
        \/ asked' = [asked EXCEPT ![GetTopicGroupAddress(t)] =
                       IF Len(queue) < QueueCap THEN Asked(p) ELSE @]
    BY <1>6 DEF HandleMessage
  <2>3. Asked(p) \in Reports
    BY AskedFacts, SwitchedFacts
  <2>4. asked' \in [Exists -> Reports]
    BY <1>t, <2>2, <2>3
  <2> QED
    BY <1>p, <1>t, <2>1, <2>4
<1>7. ASSUME NEW a \in Exists, NEW level \in Levels, UnitSets(a, level) PROVE NetInv'
  <2>1. /\ bus' = [bus EXCEPT ![a] = level] /\ asked' = [asked EXCEPT ![a] = Unknown]
        /\ inbound' = inbound \/ inbound' = Append(inbound, <<a, level>>)
        /\ UNCHANGED amiss
    BY <1>7 DEF UnitSets, Forget
  <2>2. level \in 0..255
    BY PyGatewayAssumption
  <2> DEFINE said == <<a, level>>
  <2>3. said \in Said
    BY <1>s, <2>2
  <2>4. inbound' = inbound \/ inbound' = Append(inbound, said)
    BY <2>1
  <2> HIDE DEF said
  <2>5. inbound' \in Seq(Said)
    BY <1>t, <2>3, <2>4
  <2>6. bus' \in [Exists -> 0..255] /\ asked' \in [Exists -> Reports]
    BY <1>t, <1>u, <2>1, <2>2
  <2> QED
    BY <1>p, <1>t, <2>1, <2>5, <2>6
<1>8. ASSUME NEW a \in Exists, UnitReports(a) PROVE NetInv'
  <2> DEFINE said == <<a, bus[a]>>
  <2>1. inbound' = Append(inbound, said) /\ UNCHANGED <<bus, asked, amiss>>
    BY <1>8 DEF UnitReports
  <2>2. said \in Said
    BY <1>s, <1>t
  <2> HIDE DEF said
  <2>3. inbound' \in Seq(Said)
    BY <1>t, <2>1, <2>2
  <2> QED
    BY <1>p, <1>t, <2>1, <2>3
<1>9. ASSUME UNCHANGED <<bus, amiss>>, inbound' = <<>>, asked' = [a \in Exists |-> Unknown]
      PROVE  NetInv'
  <2>1. inbound' \in Seq(Said)
    BY <1>9
  <2>2. asked' \in [Exists -> Reports]
    BY <1>u, <1>9
  <2> QED
    BY <1>p, <1>t, <1>9, <2>1, <2>2
<1>10. CASE LinkDrops
  BY <1>9, <1>10 DEF LinkDrops, ConnectionLost
<1>11. CASE CleanUp
  BY <1>9, <1>11 DEF CleanUp
<1>12. CASE OnClockRequest \/ BrokerAccepts \/ BrokerRefuses \/ BrokerLost \/ FutureDone
  BY <1>0, <1>12 DEF OnClockRequest, BrokerAccepts, BrokerRefuses, BrokerLost, FutureDone
<1>13. CASE Rebind \/ Interrupt \/ CancelTasks
  BY <1>0, <1>13 DEF Rebind, Interrupt, CancelTasks
<1>14. CASE UNCHANGED vars
  BY <1>0, <1>14 DEF vars
<1> QED
  BY <1>1, <1>2, <1>3, <1>4, <1>5, <1>6, <1>7, <1>8, <1>10, <1>11, <1>12, <1>13, <1>14
     DEF Next

-----------------------------------------------------------------------------
(* The phases of _main *)

\* Every step keeps what the phases promise.
LEMMA PhaseStep ==
  ASSUME ControlInv, WorkInv, NetInv, PhaseInv, [Next]_vars
  PROVE  PhaseInv'
<1>t. asked \in [Exists -> Reports]
  BY DEF NetInv, Reports
<1>w. queue \in Seq(Item) /\ sleeping \in Seq(Item)
  BY DEF WorkInv
<1>n. broker = "none" => \A a \in Exists : NoneTells(sleeping, a)
  BY DEF PhaseInv
<1> USE DEF handlerVars, mqttVars, netVars
<1>0. ASSUME UNCHANGED <<main, running, broker, dispatcher, api, open, db, outbox, queue>>,
             inbound = <<>> => inbound' = <<>>,
             sleeping # <<>> => main # "done",
             \A a \in Exists : asked[a] = Unknown => asked'[a] = Unknown,
             broker = "none" => \A a \in Exists : NoneTells(sleeping', a),
             main = "done" => sleeping' = <<>>
      PROVE  PhaseInv'
  BY <1>0 DEF PhaseInv
<1>1. CASE Work
  <2>1. broker # "none" /\ main \notin {"broker", "stopping", "done"}
    BY <1>1 DEF Work, PhaseInv
  <2>2. UNCHANGED <<main, running, broker>>
    BY <1>1 DEF Work
  <2> QED
    BY <2>1, <2>2 DEF PhaseInv
<1>2. CASE Write
  <2>1. /\ sleeping # <<>> /\ sleeping' = Tail(sleeping)
        /\ UNCHANGED <<main, running, open, queue, asked, broker, dispatcher, api, inbound>>
    <3>1. UNCHANGED inbound
      BY <1>2, WriteKinds DEF WriteCommand, WriteStatus, WriteClock
    <3> QED
      BY <1>2, <3>1 DEF Write
  <2>2. main # "done"
    BY <2>1 DEF PhaseInv
  <2>3. CASE broker = "none"
    <3>1. 1 \in DOMAIN sleeping /\ Head(sleeping) = sleeping[1]
      BY <1>w, <2>1
    <3>2. Head(sleeping).kind # "command"
      BY <1>2, <1>n, <2>3, <3>1, WriteKinds DEF NoneTells, Tells
    <3>3. UNCHANGED <<db, outbox>>
      BY <1>2, <3>2, WriteKinds DEF WriteStatus, WriteClock
    <3>4. \A i \in DOMAIN sleeping' : i + 1 \in DOMAIN sleeping /\ sleeping'[i] = sleeping[i + 1]
      BY <1>w, <2>1
    <3>5. \A a \in Exists : NoneTells(sleeping', a)
      BY <1>n, <2>3, <3>4 DEF NoneTells, Tells
    <3> QED
      BY <1>0, <2>1, <2>2, <3>3, <3>5
  <2>4. CASE broker # "none"
    BY <2>1, <2>2, <2>4 DEF PhaseInv
  <2> QED
    BY <2>3, <2>4
<1>3. CASE Relay
  <2>1. UNCHANGED <<main, running, open, queue, sleeping, broker, dispatcher, api>>
    BY <1>3 DEF Relay
  <2>2. ~api => UNCHANGED <<db, outbox>>
    BY <1>3 DEF Relay
  <2>3. \A a \in Exists : asked[a] = Unknown => asked'[a] = Unknown
    BY <1>3, <1>t DEF Relay, Forget
  <2>4. main \notin {"stopping", "done"}
    BY <1>3 DEF Relay, PhaseInv
  <2> QED
    BY <2>1, <2>2, <2>3, <2>4 DEF PhaseInv
<1>4. CASE RunPublish
  <2>1. /\ outbox # <<>>
        /\ UNCHANGED <<main, running, open, queue, sleeping, broker, dispatcher, api, asked,
                      inbound>>
    BY <1>4 DEF RunPublish
  <2> QED
    BY <2>1 DEF PhaseInv
<1>5. ASSUME NEW item \in unconfirmed, Resend(item) \/ Settle(item) PROVE PhaseInv'
  <2>1. UNCHANGED <<main, running, broker, dispatcher, api, open, db, outbox, queue, sleeping,
                    asked, inbound>>
    BY <1>5 DEF Resend, Settle
  <2> QED
    BY <2>1 DEF PhaseInv
<1>6. ASSUME NEW t \in Topics, NEW p \in Payloads, HandleMessage(t, p) PROVE PhaseInv'
  <2>1. /\ main \notin {"broker", "stopping", "done"} /\ UNCHANGED <<main, running, broker>>
        /\ broker = "up"
    BY <1>6 DEF HandleMessage, PhaseInv
  <2> QED
    BY <2>1 DEF PhaseInv
<1>7. ASSUME NEW a \in Exists, NEW level \in Levels, UnitSets(a, level) PROVE PhaseInv'
  <2>1. /\ UNCHANGED <<main, running, open, queue, sleeping, broker, dispatcher, api, db, outbox>>
        /\ asked' = [asked EXCEPT ![a] = Unknown] /\ (~open => UNCHANGED inbound)
    BY <1>7 DEF UnitSets, Forget
  <2>2. \A b \in Exists : asked[b] = Unknown => asked'[b] = Unknown
    BY <1>t, <2>1
  <2> QED
    BY <2>1, <2>2 DEF PhaseInv
<1>8. ASSUME NEW a \in Exists, UnitReports(a) PROVE PhaseInv'
  <2>1. /\ UNCHANGED <<main, running, open, queue, sleeping, broker, dispatcher, api, db, outbox,
                       asked>>
        /\ open
    BY <1>8 DEF UnitReports
  <2> QED
    BY <2>1 DEF PhaseInv
<1>9. CASE OnClockRequest
  <2>1. /\ UNCHANGED <<main, running, open, queue, asked, broker, dispatcher, api, db, outbox,
                       inbound>>
        /\ open /\ (sleeping' = sleeping \/ sleeping' = Append(sleeping, Clock))
    BY <1>9 DEF OnClockRequest
  <2>2. \A a \in Exists : NoneTells(sleeping, a) => NoneTells(sleeping', a)
    <3>1. ASSUME NEW i \in DOMAIN sleeping'
          PROVE  (i \in DOMAIN sleeping /\ sleeping'[i] = sleeping[i]) \/ sleeping'[i] = Clock
      BY <1>w, <2>1, <3>1
    <3>2. Clock.kind = "clock"
      BY DEF Clock
    <3> QED
      BY <3>1, <3>2 DEF NoneTells, Tells
  <2>3. main \notin {"stopping", "done"}
    BY <2>1 DEF PhaseInv
  <2> QED
    BY <1>0, <1>n, <2>1, <2>2, <2>3
<1>10. CASE BrokerAccepts
  <2>1. /\ main = "broker" /\ main' = "serving" /\ broker' = "up" /\ UNCHANGED running
    BY <1>10 DEF BrokerAccepts
  <2> QED
    BY <2>1 DEF PhaseInv
<1>11. CASE BrokerRefuses \/ FutureDone \/ Interrupt
  <2>1. /\ main \in {"broker", "serving", "waiting"} /\ main' \in {"waiting", "closing"}
        /\ main' = "waiting" => main = "serving"
        /\ UNCHANGED <<running, open, queue, sleeping, broker, dispatcher, api, db, outbox, asked,
                       inbound>>
    BY <1>11 DEF BrokerRefuses, FutureDone, Interrupt
  <2> QED
    BY <2>1 DEF PhaseInv
<1>12. CASE Rebind
  <2>1. main = "waiting" /\ main' = "serving" /\ UNCHANGED <<running, broker>>
    BY <1>12 DEF Rebind
  <2> QED
    BY <2>1 DEF PhaseInv
<1>13. CASE BrokerLost
  <2>1. /\ main \in {"serving", "waiting"} /\ broker' = "gone" /\ UNCHANGED <<main, running>>
    BY <1>13 DEF BrokerLost
  <2> QED
    BY <2>1 DEF PhaseInv
<1>14. CASE LinkDrops
  <2>1. /\ main \notin {"stopping", "done"} /\ open' = FALSE /\ db' \in {{}, db} /\ api' = FALSE
        /\ UNCHANGED <<main, running, queue, sleeping, broker, dispatcher, outbox>>
        /\ asked' = [a \in Exists |-> Unknown]
    BY <1>14 DEF LinkDrops, ConnectionLost
  <2> QED
    BY <2>1 DEF PhaseInv
<1>15. CASE CleanUp
  <2>1. /\ main' = "stopping" /\ running' = FALSE /\ open' = FALSE /\ dispatcher' # "running"
        /\ broker' # "up" /\ asked' = [a \in Exists |-> Unknown]
        /\ dispatcher = "none" => dispatcher' = "none"
        /\ ~api => ~api' /\ db' = db
        /\ broker' = "none" => broker = "none"
        /\ inbound' = <<>> /\ UNCHANGED <<queue, sleeping, outbox>>
    BY <1>15 DEF CleanUp
  <2> QED
    BY <2>1 DEF PhaseInv
<1>16. CASE CancelTasks
  <2>1. /\ main = "stopping" /\ main' = "done" /\ queue' = <<>> /\ sleeping' = <<>>
        /\ outbox' = <<>> /\ UNCHANGED <<running, open, dispatcher, asked, broker, api, db, inbound>>
    BY <1>16 DEF CancelTasks
  <2>2. \A a \in Exists : NoneTells(sleeping', a)
    BY <2>1 DEF NoneTells
  <2> QED
    BY <2>1, <2>2 DEF PhaseInv
<1>17. CASE UNCHANGED vars
  BY <1>17 DEF vars, PhaseInv
<1> QED
  BY <1>1, <1>2, <1>3, <1>4, <1>5, <1>6, <1>7, <1>8, <1>9, <1>10, <1>11, <1>12, <1>13,
     <1>14, <1>15, <1>16, <1>17 DEF Next

-----------------------------------------------------------------------------
(* Commands settle on the last one *)

\* What the end of a queue tells once an item is appended.
LEMMA AppendTells ==
  ASSUME NEW S, NEW s \in Seq(S), NEW x \in S, NEW a
  PROVE  /\ NoneTells(s, a) /\ ~Tells(x, a) => NoneTells(Append(s, x), a)
         /\ Tells(x, a) => LastTells(Append(s, x), a, x.report)
         /\ \A r : LastTells(s, a, r) /\ ~Tells(x, a) => LastTells(Append(s, x), a, r)
<1> DEFINE u == Append(s, x)
           n == Len(s)
<1>1. /\ n \in Nat /\ DOMAIN s = 1..n /\ DOMAIN u = 1..(n + 1)
      /\ u[n + 1] = x /\ \A i \in 1..n : u[i] = s[i]
  OBVIOUS
<1> HIDE DEF u, n
<1>2. ASSUME NEW i \in DOMAIN u, i # n + 1 PROVE i \in DOMAIN s /\ u[i] = s[i]
  <2>1. i \in 1..n
    BY <1>1, <1>2
  <2> QED
    BY <1>1, <2>1
<1>3. NoneTells(s, a) /\ ~Tells(x, a) => NoneTells(u, a)
  BY <1>1, <1>2 DEF NoneTells
<1>4. Tells(x, a) => LastTells(u, a, x.report)
  <2> SUFFICES ASSUME Tells(x, a) PROVE LastTells(u, a, x.report)
    OBVIOUS
  <2>1. n + 1 \in DOMAIN u /\ Tells(u[n + 1], a) /\ u[n + 1].report = x.report
    BY <1>1
  <2>2. \A j \in DOMAIN u : ~(j > n + 1)
    BY <1>1
  <2> QED
    BY <2>1, <2>2 DEF LastTells
<1>5. ASSUME NEW r, LastTells(s, a, r), ~Tells(x, a) PROVE LastTells(u, a, r)
  <2>1. PICK i \in DOMAIN s : /\ Tells(s[i], a) /\ s[i].report = r
                              /\ \A j \in DOMAIN s : j > i => ~Tells(s[j], a)
    BY <1>5 DEF LastTells
  <2>2. i \in DOMAIN u /\ u[i] = s[i]
    BY <1>1
  <2>3. \A j \in DOMAIN u : j > i => ~Tells(u[j], a)
    BY <1>1, <1>2, <1>5, <2>1
  <2> QED
    BY <2>1, <2>2, <2>3 DEF LastTells
<1> QED
  BY <1>3, <1>4, <1>5 DEF u

\* What the end of a queue tells once its head is taken.
LEMMA TailTells ==
  ASSUME NEW S, NEW s \in Seq(S), s # <<>>, NEW a
  PROVE  /\ NoneTells(s, a) => NoneTells(Tail(s), a) /\ ~Tells(Head(s), a)
         /\ \A r : LastTells(s, a, r) =>
              \/ LastTells(Tail(s), a, r)
              \/ NoneTells(Tail(s), a) /\ Tells(Head(s), a) /\ Head(s).report = r
<1> DEFINE u == Tail(s)
           n == Len(s)
           h == Head(s)
<1>1. /\ n \in Nat /\ n > 0 /\ DOMAIN s = 1..n /\ DOMAIN u = 1..(n - 1)
      /\ h = s[1] /\ \A i \in 1..(n - 1) : u[i] = s[i + 1]
  OBVIOUS
<1> HIDE DEF u, n, h
<1>2. \A i \in DOMAIN u : i + 1 \in DOMAIN s /\ i + 1 > 1 /\ u[i] = s[i + 1]
  BY <1>1
<1>3. NoneTells(s, a) => NoneTells(u, a) /\ ~Tells(h, a)
  BY <1>1, <1>2 DEF NoneTells
<1>4. ASSUME NEW r, LastTells(s, a, r)
      PROVE  \/ LastTells(u, a, r)
             \/ NoneTells(u, a) /\ Tells(h, a) /\ h.report = r
  <2>1. PICK i \in DOMAIN s : /\ Tells(s[i], a) /\ s[i].report = r
                              /\ \A j \in DOMAIN s : j > i => ~Tells(s[j], a)
    BY <1>4 DEF LastTells
  <2>2. CASE i = 1
    <3>1. NoneTells(u, a)
      BY <1>2, <2>1, <2>2 DEF NoneTells
    <3> QED
      BY <1>1, <2>1, <2>2, <3>1
  <2>3. CASE i # 1
    <3> DEFINE k == i - 1
    <3>1. k \in DOMAIN u /\ k + 1 = i /\ k \in Nat
      BY <1>1, <2>3
    <3> HIDE DEF k
    <3>2. u[k] = s[i]
      BY <1>2, <3>1
    <3>3. ASSUME NEW j \in DOMAIN u, j > k PROVE ~Tells(u[j], a)
      <4>1. j + 1 \in DOMAIN s /\ j + 1 > i /\ u[j] = s[j + 1]
        BY <1>1, <1>2, <3>1, <3>3
      <4> QED
        BY <2>1, <4>1
    <3>4. Tells(u[k], a) /\ u[k].report = r
      BY <2>1, <3>2
    <3> QED
      BY <3>1, <3>3, <3>4 DEF LastTells
  <2> QED
    BY <2>2, <2>3
<1> QED
  BY <1>3, <1>4 DEF u, h

\* A publish tells of its own pair last, and of no other.
LEMMA PublishTells ==
  ASSUME WorkInv, NEW b \in Exists, NEW x \in Switched, Publish(b, x), UNCHANGED state,
         NEW a \in Exists
  PROVE  /\ a = b => Published(a, x)'
         /\ a # b => \A r : Published(a, r) => Published(a, r)'
<1> DEFINE n == Len(outbox)
<1>1. PICK c \in Nat :
           /\ outbox' \in Seq(Publications)
           /\ DOMAIN outbox = 1..n /\ DOMAIN outbox' = 1..(c + 2)
           /\ n \in Nat /\ Len(outbox') = c + 2
           /\ \A i \in DOMAIN outbox : outbox'[i] = outbox[i]
           /\ b \in db => c = n
           /\ b \notin db => c = n + 1 /\ outbox'[c] = Publication("default", b, Unknown)
           /\ outbox'[c + 1] = Publication("state", b, x)
           /\ outbox'[c + 2] = Publication("sensor", b, x)
  BY PublishTasks
<1> HIDE DEF n
<1>2. /\ Tells(Publication("state", b, x), b) /\ Publication("state", b, x).report = x
      /\ \A d : ~Tells(Publication("sensor", b, x), d)
      /\ \A d : ~Tells(Publication("default", b, Unknown), d)
      /\ a # b => ~Tells(Publication("state", b, x), a)
  BY DEF Tells, Publication
<1>3. a = b => Published(a, x)'
  <2>1. c + 1 \in DOMAIN outbox' /\ \A j \in DOMAIN outbox' : j > c + 1 => j = c + 2
    BY <1>1
  <2>2. LastTells(outbox', b, x)
    BY <1>1, <1>2, <2>1 DEF LastTells
  <2> QED
    BY <2>2 DEF Published
<1>4. ASSUME a # b, NEW r, Published(a, r) PROVE Published(a, r)'
  <2>1. \A j \in DOMAIN outbox' : j \notin DOMAIN outbox => ~Tells(outbox'[j], a)
    <3>1. \A j \in 1..(c + 2) : \/ j \in 1..n \/ (b \notin db /\ j = c)
                                \/ j = c + 1 \/ j = c + 2
      BY <1>1
    <3> QED
      BY <1>1, <1>2, <1>4, <3>1
  <2>2. \A j \in DOMAIN outbox : j \in DOMAIN outbox' /\ outbox'[j] = outbox[j]
    BY <1>1
  <2>3. NoneTells(outbox, a) => NoneTells(outbox', a)
    BY <2>1, <2>2 DEF NoneTells
  <2>4. LastTells(outbox, a, r) => LastTells(outbox', a, r)
    BY <2>1, <2>2 DEF LastTells
  <2> QED
    BY <1>4, <2>3, <2>4 DEF Published
<1> QED
  BY <1>3, <1>4

\* What CommandInv says of one pair.
Settles(a) ==
  asked[a] # Unknown =>
    \/ LastTells(queue, a, asked[a])
    \/ /\ NoneTells(queue, a) /\ open
       /\ \/ LastTells(sleeping, a, asked[a])
          \/ /\ NoneTells(sleeping, a) /\ (~amiss[a] => bus[a] = asked[a].level)
             /\ broker = "up" => Published(a, asked[a])

\* The throttler hands its oldest item on; without a transport that is the last
\* that is heard of it.
LEMMA WorkSettles ==
  ASSUME WorkInv, NetInv, NEW a \in Exists, Settles(a), Work
  PROVE  Settles(a)'
<1> DEFINE item == Head(queue)
           rest == Tail(queue)
<1>1. /\ queue # <<>> /\ queue \in Seq(Item) /\ sleeping \in Seq(Item) /\ item \in Item
      /\ queue' = rest /\ UNCHANGED <<open, bus, amiss, broker, state, outbox>>
  BY DEF Work, WorkInv, handlerVars, mqttVars, netVars, sentVars, retainedVars
<1>2. /\ NoneTells(queue, a) => NoneTells(rest, a) /\ ~Tells(item, a)
      /\ \A r : LastTells(queue, a, r) =>
           \/ LastTells(rest, a, r)
           \/ NoneTells(rest, a) /\ Tells(item, a) /\ item.report = r
  BY <1>1, TailTells
<1>3. CASE open
  <2>1. sleeping' = Append(sleeping, item) /\ UNCHANGED asked
    BY <1>3 DEF Work
  <2> DEFINE more == Append(sleeping, item)
  <2>2. /\ NoneTells(sleeping, a) /\ ~Tells(item, a) => NoneTells(more, a)
        /\ Tells(item, a) => LastTells(more, a, item.report)
        /\ \A r : LastTells(sleeping, a, r) /\ ~Tells(item, a) => LastTells(more, a, r)
    BY <1>1, AppendTells
  <2>3. sleeping' = more
    BY <2>1
  <2>4. Published(a, asked[a]) => Published(a, asked[a])'
    BY <1>1, <2>1 DEF Published
  <2> HIDE DEF item, rest, more
  <2> QED
    BY <1>1, <1>2, <1>3, <2>1, <2>2, <2>3, <2>4 DEF Settles
<1>4. CASE ~open
  <2>1. /\ UNCHANGED sleeping
        /\ asked' = IF item.kind = "command" THEN [asked EXCEPT ![item.to] = Unknown] ELSE asked
    BY <1>4 DEF Work, Forget
  <2>2. ~(item.kind = "state")
    BY <1>1, ItemFacts
  <2> HIDE DEF item, rest
  <2>3. asked'[a] # Unknown => asked'[a] = asked[a] /\ ~Tells(item, a)
    BY <2>1, <2>2 DEF NetInv, Tells
  <2> QED
    BY <1>1, <1>2, <1>4, <2>3 DEF Settles
<1> QED
  BY <1>3, <1>4

\* A send delay ends: a command is carried out, or lost, and published.
LEMMA WriteSettles ==
  ASSUME WorkInv, NetInv, NEW a \in Exists, Settles(a), Write
  PROVE  Settles(a)'
<1> DEFINE item == Head(sleeping)
           rest == Tail(sleeping)
<1>1. /\ sleeping # <<>> /\ sleeping \in Seq(Item) /\ item \in Item
      /\ sleeping' = rest /\ UNCHANGED <<open, queue, broker, asked, state>>
  BY DEF Write, WorkInv, handlerVars, retainedVars
<1>2. /\ NoneTells(sleeping, a) => NoneTells(rest, a) /\ ~Tells(item, a)
      /\ \A r : LastTells(sleeping, a, r) =>
           \/ LastTells(rest, a, r)
           \/ NoneTells(rest, a) /\ Tells(item, a) /\ item.report = r
  BY <1>1, TailTells
<1>t. bus \in [Exists -> 0..255] /\ amiss \in [Exists -> BOOLEAN]
  BY DEF NetInv
<1>3. ~Tells(item, a) => /\ UNCHANGED <<bus[a], amiss[a]>>
                         /\ \A r : Published(a, r) => Published(a, r)'
  <2> SUFFICES ASSUME ~Tells(item, a)
               PROVE  /\ UNCHANGED <<bus[a], amiss[a]>>
                      /\ \A r : Published(a, r) => Published(a, r)'
    OBVIOUS
  <2>1. CASE item.kind = "command"
    <3>1. item.to # a
      BY <2>1 DEF Tells
    <3>2. item.to \in Exists /\ item.report \in Switched /\ WriteCommand(item)
      BY <2>1, WriteKinds
    <3>3. /\ bus' = bus \/ bus' = [bus EXCEPT ![item.to] = item.report.level]
          /\ \E v \in BOOLEAN : amiss' = [amiss EXCEPT ![item.to] = v]
      BY <3>2 DEF WriteCommand
    <3>4. Publish(item.to, item.report)
      BY <3>2 DEF WriteCommand
    <3> HIDE DEF item
    <3>5. bus'[a] = bus[a] /\ amiss'[a] = amiss[a]
      BY <1>t, <3>1, <3>2, <3>3
    <3>6. \A r : Published(a, r) => Published(a, r)'
      BY <1>1, <3>1, <3>2, <3>4, PublishTells
    <3> QED
      BY <3>5, <3>6
  <2>2. CASE item.kind # "command"
    <3>1. UNCHANGED <<bus, amiss, outbox>>
      BY <2>2, WriteKinds DEF WriteStatus, WriteClock, netVars, sentVars
    <3> QED
      BY <1>1, <3>1 DEF Published
  <2> QED
    BY <2>1, <2>2
<1>4. Tells(item, a) => /\ ~amiss'[a] => bus'[a] = item.report.level
                        /\ \A r : r = item.report => Published(a, r)'
  <2> SUFFICES ASSUME Tells(item, a)
               PROVE  /\ ~amiss'[a] => bus'[a] = item.report.level
                      /\ \A r : r = item.report => Published(a, r)'
    OBVIOUS
  <2>1. item.kind = "command" /\ item.to = a
    BY <1>1, ItemFacts DEF Tells
  <2>2. item.report \in Switched /\ WriteCommand(item)
    BY <2>1, WriteKinds
  <2>3. PICK reached \in BOOLEAN :
          /\ bus' = IF open /\ reached THEN [bus EXCEPT ![item.to] = item.report.level] ELSE bus
          /\ amiss' = [amiss EXCEPT ![item.to] = ~(open /\ reached)]
    BY <2>2 DEF WriteCommand
  <2>4. Publish(item.to, item.report)
    BY <2>2 DEF WriteCommand
  <2>5. ASSUME NEW r, r = item.report PROVE Published(a, r)'
    <3>1. r \in Switched /\ Publish(a, r)
      BY <2>1, <2>2, <2>4, <2>5
    <3> QED
      BY <1>1, <3>1, PublishTells
  <2> HIDE DEF item
  <2>6. ~amiss'[a] => bus'[a] = item.report.level
    BY <1>t, <2>1, <2>3
  <2> QED
    BY <2>5, <2>6
<1> HIDE DEF item, rest
<1> SUFFICES ASSUME asked[a] # Unknown
             PROVE  \/ LastTells(queue, a, asked[a])
                    \/ /\ NoneTells(queue, a) /\ open
                       /\ \/ LastTells(rest, a, asked[a])
                          \/ /\ NoneTells(rest, a) /\ (~amiss'[a] => bus'[a] = asked[a].level)
                             /\ broker = "up" => Published(a, asked[a])'
  BY <1>1 DEF Settles
<1>5. \A r : r = asked[a] => (Published(a, r)' <=> Published(a, asked[a])')
  BY <1>1
<1> QED
  BY <1>1, <1>2, <1>3, <1>4, <1>5 DEF Settles

\* A message that is accepted becomes the last command of its pair.
LEMMA MessageSettles ==
  ASSUME ControlInv, WorkInv, NetInv, PhaseInv, NEW b \in Exists, Settles(b),
         NEW t \in Topics, NEW p \in Payloads, HandleMessage(t, p)
  PROVE  Settles(b)'
<1>1. UNCHANGED <<open, sleeping, bus, amiss, broker, state, outbox>>
  BY DEF HandleMessage, handlerVars, mqttVars, retainedVars, netVars, sentVars
<1>p. asked'[b] = asked[b] => (Published(b, asked[b]) => Published(b, asked[b])')
  BY <1>1 DEF Published
<1>2. CASE ~(GoodTopic(t) /\ p.parses = "yes")
  <2>1. UNCHANGED <<queue, asked>>
    BY <1>2 DEF HandleMessage
  <2> QED
    BY <1>1, <1>p, <2>1 DEF Settles
<1>3. CASE GoodTopic(t) /\ p.parses = "yes"
  <2> DEFINE a == GetTopicGroupAddress(t)
             r == Asked(p)
             item == Command(a, r)
             all == queue \o <<item>>
  <2>1. /\ Enqueue(<<item>>)
        /\ asked' = [asked EXCEPT ![a] = IF Len(queue) < QueueCap THEN r ELSE @]
    BY <1>3 DEF HandleMessage
  <2>2. a \in Exists /\ item \in Item /\ r \in Switched
    BY <1>3, AcceptedItem, AskedFacts
  <2>3. running
    BY DEF HandleMessage, PhaseInv
  <2>4. /\ queue \in Seq(Item) /\ Len(queue) \in Nat /\ Len(queue) <= QueueCap /\ QueueCap \in Nat
        /\ asked \in [Exists -> Reports]
    BY PyGatewayAssumption DEF WorkInv, NetInv, Reports
  <2>5. item.kind = "command" /\ item.to = a /\ item.report = r
    BY DEF Command
  <2>6. Tells(item, a) /\ \A c : c # a => ~Tells(item, c)
    BY <2>5 DEF Tells
  <2> HIDE DEF item, a, r
  <2>7. all = Append(queue, item) /\ Len(all) = Len(queue) + 1
    BY <2>2, <2>4
  <2>8. CASE Len(queue) < QueueCap
    <3>1. queue' = Append(queue, item)
      BY <2>1, <2>3, <2>4, <2>7, <2>8 DEF Enqueue
    <3>2. asked'[a] = r /\ (b # a => asked'[b] = asked[b])
      BY <2>1, <2>2, <2>4, <2>8
    <3> DEFINE more == Append(queue, item)
    <3>3. /\ NoneTells(queue, b) /\ ~Tells(item, b) => NoneTells(more, b)
          /\ Tells(item, b) => LastTells(more, b, item.report)
          /\ \A x : LastTells(queue, b, x) /\ ~Tells(item, b) => LastTells(more, b, x)
      BY <2>2, <2>4, AppendTells
    <3> HIDE DEF more
    <3>4. queue' = more
      BY <3>1 DEF more
    <3>5. CASE b = a
      BY <2>5, <2>6, <3>2, <3>3, <3>4, <3>5 DEF Settles
    <3>6. CASE b # a
      BY <1>1, <1>p, <2>6, <3>2, <3>3, <3>4, <3>6 DEF Settles
    <3> QED
      BY <3>5, <3>6
  <2>9. CASE Len(queue) >= QueueCap
    <3>1. asked' = asked
      BY <2>1, <2>4, <2>9
    <3>2. queue' = SubSeq(all, 1, QueueCap) /\ Len(queue) = QueueCap
      BY <2>1, <2>3, <2>4, <2>7, <2>9 DEF Enqueue
    <3>3. SubSeq(Append(queue, item), 1, Len(queue)) = queue
      BY <2>2, <2>4
    <3> HIDE DEF all
    <3>4. queue' = queue
      BY <2>7, <3>2, <3>3
    <3> QED
      BY <1>1, <1>p, <3>1, <3>4 DEF Settles
  <2> QED
    BY <2>4, <2>8, <2>9
<1> QED
  BY <1>2, <1>3

\* A publish task that runs leaves of its report what is to be told.
LEMMA RunSettles ==
  ASSUME WorkInv, TopicInv, NEW a \in Exists, Settles(a), RunPublish
  PROVE  Settles(a)'
<1> DEFINE p == Head(outbox)
<1>1. /\ outbox \in Seq(Publications) /\ outbox # <<>> /\ outbox' = Tail(outbox)
      /\ UNCHANGED <<broker, queue, sleeping, open, bus, amiss, asked>>
  BY DEF RunPublish, WorkInv, handlerVars, netVars, sentVars
<1>2. p \in Publications
  BY <1>1
<1>3. /\ NoneTells(outbox, a) => NoneTells(outbox', a) /\ ~Tells(p, a)
      /\ \A r : LastTells(outbox, a, r) =>
           \/ LastTells(outbox', a, r)
           \/ NoneTells(outbox', a) /\ Tells(p, a) /\ p.report = r
  BY <1>1, TailTells
<1>4. broker = "up" =>
        state' = IF p.kind = "state" THEN [state EXCEPT ![p.to] = p.report] ELSE state
  BY DEF RunPublish
<1>5. p.kind # "command" /\ state \in [Exists -> Reports]
  BY <1>2, PublicationFacts DEF TopicInv, TopicTypes
<1> HIDE DEF p
<1>6. broker = "up" => /\ ~Tells(p, a) => state'[a] = state[a]
                       /\ Tells(p, a) => state'[a] = p.report
  BY <1>4, <1>5 DEF Tells
<1>7. broker = "up" /\ Published(a, asked[a]) => Published(a, asked[a])'
  BY <1>1, <1>3, <1>6 DEF Published
<1> QED
  BY <1>1, <1>7 DEF Settles

\* Every step keeps the last command's way to the network.
LEMMA CommandStep ==
  ASSUME ControlInv, WorkInv, TopicInv, NetInv, PhaseInv, CommandInv, [Next]_vars
  PROVE  CommandInv'
<1> SUFFICES ASSUME NEW a \in Exists, Settles(a) PROVE Settles(a)'
  BY DEF CommandInv, Settles
<1>0. ASSUME asked'[a] = Unknown PROVE Settles(a)'
  BY <1>0 DEF Settles
<1>t. /\ bus \in [Exists -> 0..255] /\ amiss \in [Exists -> BOOLEAN]
      /\ asked \in [Exists -> Reports]
  BY DEF NetInv, Reports
<1>p. ASSUME UNCHANGED <<state, outbox, asked[a]>>
      PROVE  Published(a, asked[a]) => Published(a, asked[a])'
  BY <1>p DEF Published
<1>q. ASSUME UNCHANGED <<queue, sleeping, open, state, outbox, bus[a], amiss[a], asked[a]>>,
             broker' = "up" => broker = "up"
      PROVE  Settles(a)'
  BY <1>p, <1>q DEF Settles
<1> USE DEF handlerVars, mqttVars, retainedVars, netVars, sentVars
<1>1. CASE Work
  BY <1>1, WorkSettles
<1>2. CASE Write
  BY <1>2, WriteSettles
<1>3. CASE Relay
  <2>1. UNCHANGED <<queue, open, sleeping, bus, amiss, broker, state>>
    BY <1>3 DEF Relay
  <2>2. CASE UNCHANGED <<outbox, asked>>
    BY <1>q, <2>1, <2>2
  <2>3. ASSUME NEW b \in Exists, NEW r \in Switched, Publish(b, r),
               asked' = [asked EXCEPT ![b] = Unknown]
        PROVE  Settles(a)'
    <3>1. CASE a = b
      BY <1>0, <1>t, <2>3, <3>1
    <3>2. CASE a # b
      <4>1. asked'[a] = asked[a]
        BY <1>t, <2>3, <3>2
      <4>2. \A x : Published(a, x) => Published(a, x)'
        BY <2>1, <2>3, <3>2, PublishTells
      <4>3. Published(a, asked[a]) => Published(a, asked[a])'
        BY <4>1, <4>2
      <4> QED
        BY <2>1, <4>1, <4>3 DEF Settles
    <3> QED
      BY <3>1, <3>2
  <2> QED
    BY <1>3, <2>2, <2>3, RelayPublishes
<1>4. CASE RunPublish
  BY <1>4, RunSettles
<1>5. ASSUME NEW item \in unconfirmed, Resend(item) PROVE Settles(a)'
  <2>1. /\ bus' = [bus EXCEPT ![item.to] = item.report.level]
        /\ amiss' = [amiss EXCEPT ![item.to] = asked[item.to] # item.report]
        /\ UNCHANGED <<queue, open, sleeping, broker, state, outbox, asked>>
    BY <1>5 DEF Resend
  <2>2. CASE item.to = a
    <3>1. bus'[a] = item.report.level /\ (~amiss'[a] => asked[a] = item.report)
      BY <1>t, <2>1, <2>2
    <3> QED
      BY <1>p, <2>1, <3>1 DEF Settles
  <2>3. CASE item.to # a
    <3>1. UNCHANGED <<bus[a], amiss[a]>>
      BY <1>t, <2>1, <2>3
    <3> QED
      BY <1>q, <2>1, <3>1
  <2> QED
    BY <2>2, <2>3
<1>6. ASSUME NEW item \in unconfirmed, Settle(item) PROVE Settles(a)'
  BY <1>q, <1>6 DEF Settle
<1>7. ASSUME NEW t \in Topics, NEW p \in Payloads, HandleMessage(t, p) PROVE Settles(a)'
  BY <1>7, MessageSettles
<1>8. ASSUME NEW b \in Exists, NEW level \in Levels, UnitSets(b, level) PROVE Settles(a)'
  <2>1. /\ bus' = [bus EXCEPT ![b] = level] /\ asked' = [asked EXCEPT ![b] = Unknown]
        /\ UNCHANGED <<queue, open, sleeping, broker, state, outbox, amiss>>
    BY <1>8 DEF UnitSets, Forget
  <2>2. CASE a = b
    BY <1>0, <1>t, <2>1, <2>2
  <2>3. CASE a # b
    <3>1. UNCHANGED <<bus[a], asked[a]>>
      BY <1>t, <2>1, <2>3
    <3> QED
      BY <1>q, <2>1, <3>1
  <2> QED
    BY <2>2, <2>3
<1>9. ASSUME NEW b \in Exists, UnitReports(b) PROVE Settles(a)'
  BY <1>q, <1>9 DEF UnitReports
<1>10. CASE OnClockRequest
  <2>1. /\ UNCHANGED <<queue, open, broker, state, outbox, bus, amiss, asked>>
        /\ sleeping' = sleeping \/ sleeping' = Append(sleeping, Clock)
    BY <1>10 DEF OnClockRequest
  <2>2. Clock \in Item /\ ~Tells(Clock, a) /\ sleeping \in Seq(Item)
    BY DEF Item, Clock, Tells, WorkInv
  <2> DEFINE more == Append(sleeping, Clock)
  <2>3. /\ NoneTells(sleeping, a) => NoneTells(more, a)
        /\ \A r : LastTells(sleeping, a, r) => LastTells(more, a, r)
    BY <2>2, AppendTells
  <2>4. sleeping' = sleeping \/ sleeping' = more
    BY <2>1
  <2> HIDE DEF more
  <2> QED
    BY <1>p, <2>1, <2>3, <2>4 DEF Settles
<1>11. CASE BrokerAccepts
  <2>1. asked'[a] = Unknown
    BY <1>11 DEF BrokerAccepts, PhaseInv
  <2> QED
    BY <1>0, <2>1
<1>12. CASE LinkDrops
  BY <1>0, <1>12 DEF LinkDrops, ConnectionLost
<1>13. CASE CleanUp
  BY <1>0, <1>13 DEF CleanUp
<1>14. CASE CancelTasks
  <2>1. asked'[a] = Unknown
    BY <1>14 DEF CancelTasks, PhaseInv
  <2> QED
    BY <1>0, <2>1
<1>15. CASE BrokerRefuses \/ BrokerLost \/ FutureDone \/ Rebind \/ Interrupt
  BY <1>q, <1>15 DEF BrokerRefuses, BrokerLost, FutureDone, Rebind, Interrupt
<1>16. CASE UNCHANGED vars
  BY <1>q, <1>16 DEF vars
<1> QED
  BY <1>1, <1>2, <1>3, <1>4, <1>5, <1>6, <1>7, <1>8, <1>9, <1>10, <1>11, <1>12, <1>13,
     <1>14, <1>15, <1>16 DEF Next

-----------------------------------------------------------------------------
(* The theorems *)

\* Initially nothing is queued, published or asked for.
LEMMA DaemonInit == Init => DaemonInv
<1> SUFFICES ASSUME Init PROVE DaemonInv
  OBVIOUS
<1>0. Unknown \in Reports
  BY DEF Unknown, Report, Reports
<1>1. ControlInv
  BY DEF Init, ControlInv
<1>2. WorkInv
  BY PyGatewayAssumption DEF Init, WorkInv
<1>3. TopicInv
  BY <1>0 DEF Init, TopicInv, TopicTypes, AnnouncedFirst, SensorFollowsLight, SensorAgrees,
         GroupsAnnounced, TasksPair
<1>4. NetInv
  BY <1>0 DEF Init, NetInv, Reports
<1>5. PhaseInv
  BY DEF Init, PhaseInv, NoneTells
<1>6. CommandInv
  BY DEF Init, CommandInv
<1> QED
  BY <1>1, <1>2, <1>3, <1>4, <1>5, <1>6, DaemonParts

\* Every step keeps the invariant.
LEMMA DaemonStep == DaemonInv /\ [Next]_vars => DaemonInv'
<1> SUFFICES ASSUME DaemonInv, [Next]_vars PROVE DaemonInv'
  OBVIOUS
<1>1. ControlInv /\ WorkInv /\ TopicInv /\ NetInv /\ PhaseInv /\ CommandInv
  BY DaemonParts
<1>2. ControlInv' /\ WorkInv' /\ TopicInv' /\ NetInv' /\ PhaseInv' /\ CommandInv'
  BY <1>1, ControlStep, WorkStep, TopicStep, NetStep, PhaseStep, CommandStep
<1> QED
  BY <1>2 DEF DaemonInv, RetainedTopicsAgree, TypeOK, ControlInv, WorkInv, TopicInv,
              TopicTypes, Reports

\* What Home Assistant reads of a light fits together, whatever messages,
\* events and faults come, in whatever order the publish tasks run among them and
\* whenever groupDB is cleared: its config is there before its state, and as long
\* as the broker is there its binary sensor says what its state says, or is the
\* next to be published.
THEOREM RetainedTopicsAgreeCorrect == Spec => []RetainedTopicsAgree
<1>1. DaemonInv => RetainedTopicsAgree
  BY DEF DaemonInv
<1> QED
  BY <1>1, DaemonInit, DaemonStep, PTL DEF Spec

\* Once nothing is under way, the retained state of a light is the last command
\* accepted for it, unless an event or a fault came since, and the network
\* holds it too, unless it was lost on its way or an older command has been sent
\* again after it.
THEOREM SettledOnLastCommandCorrect == Spec => []SettledOnLastCommand
<1>1. DaemonInv => SettledOnLastCommand
  <2> SUFFICES ASSUME DaemonInv, Quiet, NEW a \in Exists, asked[a] # Unknown
               PROVE  /\ broker = "up" => state[a] = asked[a]
                      /\ ~amiss[a] => bus[a] = asked[a].level
    BY DEF SettledOnLastCommand
  <2>1. /\ ~LastTells(queue, a, asked[a]) /\ ~LastTells(sleeping, a, asked[a])
        /\ ~LastTells(outbox, a, asked[a])
    BY DEF Quiet, LastTells
  <2> QED
    BY <2>1 DEF DaemonInv, CommandInv, Published
<1> QED
  BY <1>1, DaemonInit, DaemonStep, PTL DEF Spec

\* A daemon that has ended has no send, no queued work, no publish task, no
\* dispatcher and no connection left.
LEMMA DaemonEnds == DaemonInv => NothingLeftBehind
BY DEF DaemonInv, PhaseInv, NothingLeftBehind

-----------------------------------------------------------------------------
(* The proxy *)

\* The numbers k + 1, k + 2, ... of n broadcasts.
Run(k, n) == [i \in 1..n |-> k + i]

\* One more broadcast is one more number.
LEMMA RunGrows ==
  ASSUME NEW k \in Nat, NEW n \in Nat
  PROVE  Append(Run(k, n), k + n + 1) = Run(k, n + 1)
<1>1. Run(k, n) \in Seq(Nat) /\ Len(Run(k, n)) = n
  BY DEF Run
<1> QED
  BY <1>1 DEF Run

\* No broadcast is the empty sequence.
LEMMA RunEmpty == ASSUME NEW k \in Nat PROVE Run(k, 0) = <<>>
BY DEF Run

\* Initially nobody is registered and nothing was broadcast.
LEMMA RelayInit == Proxy!ProxyAssumption /\ Proxy!Init => Proxy!RelayInv
<1> SUFFICES ASSUME Proxy!ProxyAssumption, Proxy!Init PROVE Proxy!RelayInv
  OBVIOUS
<1>1. Proxy!ReaderInv
  BY DEF Proxy!Init, Proxy!ProxyAssumption, Proxy!ReaderInv, Proxy!NoConn
<1>5. Proxy!LockInv
  BY DEF Proxy!Init, Proxy!LockInv
<1>2. Proxy!ClientInv
  BY DEF Proxy!Init, Proxy!ClientInv, Proxy!Place, Proxy!running
<1>3. Proxy!HeardInv
  BY DEF Proxy!Init, Proxy!HeardInv
<1>4. Proxy!EveryClientHears
  BY DEF Proxy!Init, Proxy!EveryClientHears
<1> QED
  BY <1>1, <1>2, <1>3, <1>4, <1>5 DEF Proxy!RelayInv

\* A connection that is made gets the next number.
LEMMA DialKeeps ==
  ASSUME Proxy!ProxyAssumption, Proxy!ReaderInv, Proxy!Dialled \/ Proxy!DialFailed
  PROVE  cur' \in 0..Conns /\ proxyOpen' \subseteq 1..Conns /\ dialled' \in 0..Conns
<1>1. CASE Proxy!Dialled
  <2>1. dialled + 1 \in 1..Conns
    BY <1>1 DEF Proxy!Dialled, Proxy!ProxyAssumption, Proxy!ReaderInv
  <2> QED
    BY <1>1, <2>1 DEF Proxy!Dialled, Proxy!ReaderInv, Proxy!ProxyAssumption
<1>2. CASE Proxy!DialFailed
  BY <1>2 DEF Proxy!DialFailed, Proxy!ReaderInv
<1> QED
  BY <1>1, <1>2

\* Every step keeps the reader's types.
LEMMA ReaderStep ==
  Proxy!ProxyAssumption /\ Proxy!ReaderInv /\ [Proxy!Next]_(Proxy!vars) => Proxy!ReaderInv'
<1> SUFFICES ASSUME Proxy!ProxyAssumption, Proxy!ReaderInv, [Proxy!Next]_(Proxy!vars)
             PROVE Proxy!ReaderInv'
  OBVIOUS
<1> USE DEF Proxy!ProxyAssumption, Proxy!ReaderInv, Proxy!cniVars, Proxy!readVars,
       Proxy!histVars, Proxy!NoConn
<1>1. CASE Proxy!StartDial
  BY <1>1, DialKeeps DEF Proxy!StartDial
<1>2. CASE Proxy!StartInit
  BY <1>2 DEF Proxy!StartInit, Proxy!StartReader
<1>3. CASE Proxy!CniDrops
  BY <1>3 DEF Proxy!CniDrops
<1>4. ASSUME NEW c \in Client, Proxy!Register(c) PROVE Proxy!ReaderInv'
  BY <1>4 DEF Proxy!Register
<1>5. ASSUME NEW c \in Client, Proxy!ClientDial(c) PROVE Proxy!ReaderInv'
  BY <1>5, DialKeeps DEF Proxy!ClientDial
<1>6. ASSUME NEW c \in Client, Proxy!ClientInit(c) PROVE Proxy!ReaderInv'
  BY <1>6 DEF Proxy!ClientInit, Proxy!StartReader
<1>7. ASSUME NEW c \in Client, Proxy!Command(c) PROVE Proxy!ReaderInv'
  BY <1>7 DEF Proxy!Command
<1>8. ASSUME NEW c \in Client, Proxy!ClientLeaves(c) \/ Proxy!Unregister(c)
      PROVE Proxy!ReaderInv'
  BY <1>8 DEF Proxy!ClientLeaves, Proxy!Unregister
<1>9. CASE Proxy!ReaderGets
  BY <1>9 DEF Proxy!ReaderGets
<1>10. CASE Proxy!BcastStart
  BY <1>10 DEF Proxy!BcastStart
<1>11. ASSUME NEW c \in Client, Proxy!BcastSend(c) PROVE Proxy!ReaderInv'
  BY <1>11 DEF Proxy!BcastSend
<1>12. CASE Proxy!BcastEnd
  BY <1>12 DEF Proxy!BcastEnd
<1>13. CASE Proxy!BcastRemove
  <2>1. CASE UNCHANGED Proxy!cniVars
    BY <1>13, <2>1 DEF Proxy!BcastRemove, Proxy!ReaderEnds
  <2>2. CASE Proxy!ReaderEnds
    BY <1>13, <2>2 DEF Proxy!BcastRemove, Proxy!ReaderEnds
  <2> QED
    BY <1>13, <2>1, <2>2 DEF Proxy!BcastRemove
<1>14. CASE Proxy!ReaderEof
  BY <1>14 DEF Proxy!ReaderEof, Proxy!ReaderEnds
<1>15. CASE Proxy!ShutdownCancel
  BY <1>15 DEF Proxy!ShutdownCancel
<1>16. CASE Proxy!ShutdownClients
  BY <1>16 DEF Proxy!ShutdownClients
<1>17. CASE UNCHANGED Proxy!vars
  BY <1>17 DEF Proxy!vars
<1> QED
  BY <1>1, <1>2, <1>3, <1>4, <1>5, <1>6, <1>7, <1>8, <1>9, <1>10, <1>11, <1>12, <1>13,
     <1>14, <1>15, <1>16, <1>17 DEF Proxy!Next, Proxy!Stopped
\* The lock is taken for a broadcast, and a cancelled broadcast releases it.
LEMMA LockStep == Proxy!LockInv /\ [Proxy!Next]_(Proxy!vars) => Proxy!LockInv'
<1> SUFFICES ASSUME Proxy!LockInv, [Proxy!Next]_(Proxy!vars) PROVE Proxy!LockInv'
  OBVIOUS
<1> USE DEF Proxy!LockInv, Proxy!cniVars, Proxy!readVars, Proxy!histVars, Proxy!NoConn
<1>1. CASE Proxy!StartDial
  BY <1>1 DEF Proxy!StartDial, Proxy!Dialled, Proxy!DialFailed
<1>2. CASE Proxy!StartInit
  BY <1>2 DEF Proxy!StartInit, Proxy!StartReader
<1>3. CASE Proxy!CniDrops
  BY <1>3 DEF Proxy!CniDrops
<1>4. ASSUME NEW c \in Client, Proxy!Register(c) PROVE Proxy!LockInv'
  BY <1>4 DEF Proxy!Register
<1>5. ASSUME NEW c \in Client, Proxy!ClientDial(c) PROVE Proxy!LockInv'
  BY <1>5 DEF Proxy!ClientDial, Proxy!Dialled, Proxy!DialFailed
<1>6. ASSUME NEW c \in Client, Proxy!ClientInit(c) PROVE Proxy!LockInv'
  BY <1>6 DEF Proxy!ClientInit, Proxy!StartReader
<1>7. ASSUME NEW c \in Client, Proxy!Command(c) PROVE Proxy!LockInv'
  BY <1>7 DEF Proxy!Command
<1>8. ASSUME NEW c \in Client, Proxy!ClientLeaves(c) \/ Proxy!Unregister(c)
      PROVE Proxy!LockInv'
  BY <1>8 DEF Proxy!ClientLeaves, Proxy!Unregister
<1>9. CASE Proxy!ReaderGets
  BY <1>9 DEF Proxy!ReaderGets
<1>10. CASE Proxy!BcastStart
  BY <1>10 DEF Proxy!BcastStart
<1>11. ASSUME NEW c \in Client, Proxy!BcastSend(c) PROVE Proxy!LockInv'
  BY <1>11 DEF Proxy!BcastSend
<1>12. CASE Proxy!BcastEnd
  BY <1>12 DEF Proxy!BcastEnd
<1>13. CASE Proxy!BcastRemove
  BY <1>13 DEF Proxy!BcastRemove, Proxy!ReaderEnds
<1>14. CASE Proxy!ReaderEof
  BY <1>14 DEF Proxy!ReaderEof, Proxy!ReaderEnds
<1>15. CASE Proxy!ShutdownCancel
  BY <1>15 DEF Proxy!ShutdownCancel
<1>16. CASE Proxy!ShutdownClients
  BY <1>16 DEF Proxy!ShutdownClients
<1>17. CASE UNCHANGED Proxy!vars
  BY <1>17 DEF Proxy!vars
<1> QED
  BY <1>1, <1>2, <1>3, <1>4, <1>5, <1>6, <1>7, <1>8, <1>9, <1>10, <1>11, <1>12, <1>13,
     <1>14, <1>15, <1>16, <1>17 DEF Proxy!Next, Proxy!Stopped

\* Only the broadcast in progress has clients left to serve, and clients come
\* and go only while there is none.
LEMMA ClientStep ==
  Proxy!LockInv /\ Proxy!ClientInv /\ [Proxy!Next]_(Proxy!vars) => Proxy!ClientInv'
<1> SUFFICES ASSUME Proxy!LockInv, Proxy!ClientInv, [Proxy!Next]_(Proxy!vars)
             PROVE Proxy!ClientInv'
  OBVIOUS
<1> USE DEF Proxy!ClientInv, Proxy!Place, Proxy!running, Proxy!cniVars, Proxy!readVars,
       Proxy!histVars
<1>l. locked <=> task = "send"
  BY DEF Proxy!LockInv
<1>1. CASE Proxy!StartDial
  BY <1>1 DEF Proxy!StartDial
<1>2. CASE Proxy!StartInit
  BY <1>2 DEF Proxy!StartInit, Proxy!StartReader
<1>3. CASE Proxy!CniDrops
  BY <1>3 DEF Proxy!CniDrops
<1>4. ASSUME NEW c \in Client, Proxy!Register(c) PROVE Proxy!ClientInv'
  BY <1>4 DEF Proxy!Register
<1>5. ASSUME NEW c \in Client, Proxy!ClientDial(c) PROVE Proxy!ClientInv'
  BY <1>5 DEF Proxy!ClientDial
<1>6. ASSUME NEW c \in Client, Proxy!ClientInit(c) PROVE Proxy!ClientInv'
  BY <1>6 DEF Proxy!ClientInit, Proxy!StartReader
<1>7. ASSUME NEW c \in Client, Proxy!Command(c) PROVE Proxy!ClientInv'
  BY <1>7 DEF Proxy!Command
<1>8. ASSUME NEW c \in Client, Proxy!ClientLeaves(c) PROVE Proxy!ClientInv'
  BY <1>8 DEF Proxy!ClientLeaves
<1>18. ASSUME NEW c \in Client, Proxy!Unregister(c) PROVE Proxy!ClientInv'
  BY <1>l, <1>18 DEF Proxy!Unregister
<1>9. CASE Proxy!ReaderGets
  BY <1>9 DEF Proxy!ReaderGets
<1>10. CASE Proxy!BcastStart
  BY <1>10 DEF Proxy!BcastStart
<1>11. ASSUME NEW c \in Client, Proxy!BcastSend(c) PROVE Proxy!ClientInv'
  BY <1>11 DEF Proxy!BcastSend
<1>12. CASE Proxy!BcastEnd
  BY <1>12 DEF Proxy!BcastEnd
<1>13. CASE Proxy!BcastRemove
  BY <1>13 DEF Proxy!BcastRemove, Proxy!ReaderEnds
<1>14. CASE Proxy!ReaderEof
  BY <1>14 DEF Proxy!ReaderEof, Proxy!ReaderEnds
<1>15. CASE Proxy!ShutdownCancel
  BY <1>15 DEF Proxy!ShutdownCancel
<1>16. CASE Proxy!ShutdownClients
  BY <1>l, <1>16 DEF Proxy!ShutdownClients
<1>17. CASE UNCHANGED Proxy!vars
  BY <1>17 DEF Proxy!vars
<1> QED
  BY <1>1, <1>2, <1>3, <1>4, <1>5, <1>6, <1>7, <1>8, <1>9, <1>10, <1>11, <1>12, <1>13,
     <1>14, <1>15, <1>16, <1>17, <1>18 DEF Proxy!Next, Proxy!Stopped

\* The steps that leave the broadcasts and their receivers alone.
LEMMA QuietStep ==
  ASSUME Proxy!ClientInv, Proxy!HeardInv, Proxy!EveryClientHears, UNCHANGED Proxy!histVars,
         proxyLeft' \subseteq proxyLeft, clients' \subseteq clients,
         \A c \in Client : pc'[c] = "new" => pc[c] = "new",
         proxyMain' = "serve" => \/ proxyMain = "serve" /\ proxyLeft' = proxyLeft /\ failed' = failed
                            \/ clients' = {}
  PROVE  Proxy!HeardInv' /\ Proxy!EveryClientHears'
<1>1. Proxy!HeardInv'
  BY DEF Proxy!ClientInv, Proxy!HeardInv, Proxy!histVars
<1>2. Proxy!EveryClientHears'
  BY DEF Proxy!EveryClientHears, Proxy!histVars
<1> QED
  BY <1>1, <1>2

\* A client that registers has heard nothing and is owed nothing yet.
LEMMA RegisterKeeps ==
  ASSUME Proxy!LockInv, Proxy!ClientInv, Proxy!HeardInv, Proxy!EveryClientHears,
         NEW c \in Client, Proxy!Register(c)
  PROVE  Proxy!HeardInv' /\ Proxy!EveryClientHears'
<1>1. /\ pc[c] = "new" /\ clients' = clients \cup {c} /\ since' = [since EXCEPT ![c] = bcasts]
      /\ UNCHANGED <<proxyMain, bcasts, got, proxyLeft, failed>>
      /\ proxyLeft = {} /\ proxyMain = "serve"
  BY DEF Proxy!Register, Proxy!ClientInv, Proxy!LockInv, Proxy!readVars
<1>2. /\ since' \in [Client -> Nat] /\ since'[c] = bcasts
      /\ \A d \in Client : d # c => since'[d] = since[d]
  BY <1>1 DEF Proxy!HeardInv
<1>3. \A d \in Client : pc'[d] = "new" => pc[d] = "new"
  BY DEF Proxy!Register, Proxy!ClientInv
<1>4. Proxy!HeardInv'
  BY <1>1, <1>2, <1>3 DEF Proxy!HeardInv
<1>5. ASSUME NEW d \in clients' \ failed'
      PROVE  got'[d] = Run(since'[d], bcasts' - since'[d] - IF d \in proxyLeft' THEN 1 ELSE 0)
  <2>1. CASE d = c
    <3>1. got'[d] = <<>> /\ since'[d] = bcasts /\ bcasts \in Nat
      BY <1>1, <1>2, <2>1 DEF Proxy!HeardInv
    <3>2. bcasts' - since'[d] - (IF d \in proxyLeft' THEN 1 ELSE 0) = 0
      BY <1>1, <3>1
    <3> QED
      BY <3>1, <3>2, RunEmpty
  <2>2. CASE d # c
    <3>1. d \in clients \ failed /\ d \in Client
      BY <1>1, <1>5, <2>2 DEF Proxy!ClientInv
    <3> QED
      BY <1>1, <1>2, <2>2, <3>1 DEF Proxy!EveryClientHears, Run
  <2> QED
    BY <2>1, <2>2
<1> QED
  BY <1>4, <1>5 DEF Proxy!EveryClientHears, Run

\* A broadcast starts with every registered client owed its number.
LEMMA StartKeeps ==
  ASSUME Proxy!ClientInv, Proxy!HeardInv, Proxy!EveryClientHears, Proxy!BcastStart
  PROVE  Proxy!HeardInv' /\ Proxy!EveryClientHears'
<1>1. /\ task = "bcast" /\ proxyLeft' = clients /\ failed' = {} /\ bcasts' = bcasts + 1
      /\ UNCHANGED <<proxyMain, clients, pc, since, got>>
  BY DEF Proxy!BcastStart
<1>2. proxyLeft = {} /\ (proxyMain = "serve" => failed = {}) /\ clients \subseteq Client
  BY <1>1 DEF Proxy!ClientInv, Proxy!running
<1>3. Proxy!HeardInv'
  BY <1>1, <1>2 DEF Proxy!HeardInv
<1>4. ASSUME proxyMain = "serve", NEW c \in clients
      PROVE  got'[c] = Run(since'[c], bcasts' - since'[c] - 1)
  <2>1. got[c] = Run(since[c], bcasts - since[c] - 0)
    BY <1>2, <1>4 DEF Proxy!EveryClientHears, Run
  <2>2. bcasts - since[c] - 0 = bcasts' - since'[c] - 1
    BY <1>1, <1>2 DEF Proxy!HeardInv
  <2> QED
    BY <1>1, <2>1, <2>2
<1> QED
  BY <1>1, <1>3, <1>4 DEF Proxy!EveryClientHears, Run

\* A client is served its broadcast once; one whose write fails is set apart.
LEMMA SendKeeps ==
  ASSUME Proxy!ClientInv, Proxy!HeardInv, Proxy!EveryClientHears, NEW c \in Client,
         Proxy!BcastSend(c)
  PROVE  Proxy!HeardInv' /\ Proxy!EveryClientHears'
<1>1. /\ c \in proxyLeft /\ proxyLeft' = proxyLeft \ {c}
      /\ UNCHANGED <<proxyMain, clients, pc, bcasts, since>>
  BY DEF Proxy!BcastSend
<1>2. \/ got' = [got EXCEPT ![c] = Append(@, bcasts)] /\ UNCHANGED failed
      \/ failed' = failed \cup {c} /\ UNCHANGED got
  BY DEF Proxy!BcastSend
<1>3. /\ c \in clients /\ pc[c] # "new" /\ bcasts \in Nat /\ since[c] \in Nat /\ since[c] < bcasts
      /\ got[c] \in Seq(Nat) /\ got \in [Client -> Seq(Nat)]
  BY <1>1 DEF Proxy!ClientInv, Proxy!HeardInv
<1>4. Proxy!HeardInv'
  <2>1. Append(got[c], bcasts) \in Seq(Nat)
    BY <1>3
  <2>2. got' \in [Client -> Seq(Nat)] /\ \A d \in Client : d # c => got'[d] = got[d]
    BY <1>2, <1>3, <2>1
  <2> QED
    BY <1>1, <1>3, <2>2 DEF Proxy!HeardInv
<1>5. ASSUME proxyMain = "serve", NEW d \in clients \ failed'
      PROVE  got'[d] = Run(since[d], bcasts - since[d] - IF d \in proxyLeft' THEN 1 ELSE 0)
  <2>1. d \in Client /\ d \notin failed
    BY <1>2, <1>5 DEF Proxy!ClientInv
  <2>2. got[d] = Run(since[d], bcasts - since[d] - IF d \in proxyLeft THEN 1 ELSE 0)
    BY <1>5, <2>1 DEF Proxy!EveryClientHears, Run
  <2>3. CASE d # c
    <3>1. got'[d] = got[d] /\ (d \in proxyLeft' <=> d \in proxyLeft)
      BY <1>1, <1>2, <1>3, <2>1, <2>3
    <3> QED
      BY <2>2, <3>1
  <2>4. CASE d = c
    <3>1. got[c] = Run(since[c], bcasts - since[c] - 1)
      BY <1>1, <2>2, <2>4
    <3>2. got'[c] = Append(got[c], bcasts)
      BY <1>2, <1>3, <1>5, <2>4
    <3>3. PICK n \in Nat : bcasts - since[c] - 1 = n
      BY <1>3
    <3>4. bcasts = since[c] + n + 1 /\ bcasts - since[c] - 0 = n + 1
      BY <1>3, <3>3
    <3>5. Append(Run(since[c], n), since[c] + n + 1) = Run(since[c], n + 1)
      BY <1>3, RunGrows
    <3> QED
      BY <1>1, <2>4, <3>1, <3>2, <3>3, <3>4, <3>5
  <2> QED
    BY <2>3, <2>4
<1> QED
  BY <1>1, <1>4, <1>5 DEF Proxy!EveryClientHears, Run

\* Every step keeps what the clients have heard.
LEMMA HeardStep ==
  ASSUME Proxy!LockInv, Proxy!ClientInv, Proxy!HeardInv, Proxy!EveryClientHears,
         [Proxy!Next]_(Proxy!vars)
  PROVE  Proxy!HeardInv' /\ Proxy!EveryClientHears'
<1> USE DEF Proxy!cniVars, Proxy!readVars
<1>1. CASE Proxy!StartDial \/ Proxy!StartInit
  <2>1. proxyMain \in {"dial", "init"} /\ UNCHANGED <<proxyLeft, clients, pc, Proxy!histVars>>
    BY <1>1 DEF Proxy!StartDial, Proxy!StartInit
  <2>2. clients' = {}
    BY <2>1 DEF Proxy!ClientInv
  <2> QED
    BY <2>1, <2>2, QuietStep
<1>2. CASE Proxy!CniDrops
  BY <1>2, QuietStep DEF Proxy!CniDrops
<1>3. ASSUME NEW c \in Client, Proxy!Register(c)
      PROVE Proxy!HeardInv' /\ Proxy!EveryClientHears'
  BY <1>3, RegisterKeeps
<1>4. ASSUME NEW c \in Client, NEW w \in Proxy!Place \ {"new"}, pc' = [pc EXCEPT ![c] = w],
             UNCHANGED <<proxyMain, proxyLeft, failed, Proxy!histVars>>, clients' \subseteq clients
      PROVE  Proxy!HeardInv' /\ Proxy!EveryClientHears'
  <2>1. \A d \in Client : pc'[d] = "new" => pc[d] = "new"
    BY <1>4 DEF Proxy!ClientInv
  <2> QED
    BY <1>4, <2>1, QuietStep
<1>5. ASSUME NEW c \in Client, Proxy!ClientDial(c)
      PROVE Proxy!HeardInv' /\ Proxy!EveryClientHears'
  <2>1. \E w \in Proxy!Place \ {"new"} : pc' = [pc EXCEPT ![c] = w]
    BY <1>5 DEF Proxy!ClientDial, Proxy!Place
  <2> QED
    BY <1>4, <1>5, <2>1 DEF Proxy!ClientDial
<1>6. ASSUME NEW c \in Client, Proxy!ClientInit(c)
      PROVE Proxy!HeardInv' /\ Proxy!EveryClientHears'
  BY <1>4, <1>6 DEF Proxy!ClientInit, Proxy!Place
<1>7. ASSUME NEW c \in Client, Proxy!Command(c)
      PROVE Proxy!HeardInv' /\ Proxy!EveryClientHears'
  BY <1>7, QuietStep DEF Proxy!Command
<1>8. ASSUME NEW c \in Client, Proxy!ClientLeaves(c)
      PROVE Proxy!HeardInv' /\ Proxy!EveryClientHears'
  BY <1>4, <1>8 DEF Proxy!ClientLeaves, Proxy!Place
<1>9. ASSUME NEW c \in Client, Proxy!Unregister(c)
      PROVE Proxy!HeardInv' /\ Proxy!EveryClientHears'
  BY <1>4, <1>9 DEF Proxy!Unregister, Proxy!Place
<1>10. CASE Proxy!ReaderGets \/ Proxy!BcastEnd \/ Proxy!ReaderEof
  BY <1>10, QuietStep DEF Proxy!ReaderGets, Proxy!BcastEnd, Proxy!ReaderEof
<1>11. CASE Proxy!BcastStart
  BY <1>11, StartKeeps
<1>12. ASSUME NEW c \in Client, Proxy!BcastSend(c)
       PROVE Proxy!HeardInv' /\ Proxy!EveryClientHears'
  BY <1>12, SendKeeps
<1>13. CASE Proxy!BcastRemove
  <2>1. /\ clients' = clients \ failed /\ failed' = {}
        /\ UNCHANGED <<proxyMain, proxyLeft, pc, Proxy!histVars>>
    BY <1>13 DEF Proxy!BcastRemove
  <2>2. clients' \ failed' = clients \ failed
    BY <2>1
  <2> QED
    BY <2>1, <2>2 DEF Proxy!HeardInv, Proxy!EveryClientHears, Proxy!histVars
<1>14. CASE Proxy!ShutdownCancel
  BY <1>14, QuietStep DEF Proxy!ShutdownCancel
<1>15. CASE Proxy!ShutdownClients
  <2>1. \A d \in Client : pc'[d] = "new" => pc[d] = "new"
    BY <1>15 DEF Proxy!ShutdownClients
  <2> QED
    BY <1>15, <2>1, QuietStep DEF Proxy!ShutdownClients
<1>16. CASE UNCHANGED Proxy!vars
  BY <1>16, QuietStep DEF Proxy!vars
<1> QED
  BY <1>1, <1>2, <1>3, <1>5, <1>6, <1>7, <1>8, <1>9, <1>10, <1>11, <1>12, <1>13, <1>14,
     <1>15, <1>16 DEF Proxy!Next, Proxy!Stopped

\* Every step of the proxy keeps the invariant ...
LEMMA RelayStep ==
  Proxy!ProxyAssumption /\ Proxy!RelayInv /\ [Proxy!Next]_(Proxy!vars) => Proxy!RelayInv'
BY ReaderStep, LockStep, ClientStep, HeardStep DEF Proxy!RelayInv

\* ... which says that every response is relayed.
LEMMA RelayHolds == Proxy!RelayInv => Proxy!RelayIsComplete
<1> SUFFICES ASSUME Proxy!RelayInv PROVE Proxy!RelayIsComplete
  OBVIOUS
<1>1. locked = (task = "send")
  BY DEF Proxy!RelayInv, Proxy!LockInv
<1>2. Proxy!TypeOK
  BY <1>1 DEF Proxy!RelayInv, Proxy!ReaderInv, Proxy!LockInv, Proxy!ClientInv, Proxy!Place,
     Proxy!TypeOK
<1>3. Proxy!GoneIsUnregistered
  BY DEF Proxy!RelayInv, Proxy!ClientInv, Proxy!GoneIsUnregistered
<1> QED
  BY <1>2, <1>3 DEF Proxy!RelayInv, Proxy!RelayIsComplete

-----------------------------------------------------------------------------
(* The web interface *)

\* Initially there is no connection.
LEMMA WebInit == Web!PyWebAssumption /\ Web!Init => Web!WebInv
BY DEF Web!PyWebAssumption, Web!Init, Web!WebInv, Web!TypeOK, Web!NoStrayConnection,
       Web!Dialling

\* A level that was asked for is stored as a byte.
LEMMA ClampFacts == ASSUME NEW n \in Int PROVE Web!Clamp(n) \in 0..255
BY DEF Web!Clamp

\* An answer leaves no new dial behind.
LEMMA WebAnswers ==
  ASSUME Web!WebInv, NEW r \in Req, NEW w \in {"sending", "listening", "ok", "error"},
         Web!Answer(r, w), UNCHANGED Web!connVars, UNCHANGED <<overlapped, drops>>,
         config' \in Host \cup {NoHost}, webLevel' \in [Web!Group -> 0..255]
  PROVE  Web!WebInv'
<1>1. /\ step' \in [Req -> {"new", "dialling", "sending", "listening", "ok", "error"}]
      /\ \A q \in Req : step'[q] = "dialling" => step[q] = "dialling"
  BY DEF Web!WebInv, Web!TypeOK, Web!Answer
<1>2. Web!TypeOK'
  BY <1>1 DEF Web!WebInv, Web!TypeOK, Web!connVars
<1> QED
  BY <1>1, <1>2 DEF Web!WebInv, Web!NoStrayConnection, Web!Dialling, Web!connVars

\* Every step of the web interface keeps the invariant.
LEMMA WebStep ==
  ASSUME Web!PyWebAssumption, Web!WebInv, [Web!Next]_(Web!vars)
  PROVE  Web!WebInv'
<1> USE DEF Web!connVars
<1>1. /\ Web!TypeOK /\ None \notin Req /\ MaxDrops \in Nat
      /\ GroupIds \subseteq Int /\ LevelsIn \subseteq Int
  BY DEF Web!WebInv, Web!PyWebAssumption
<1>2. ASSUME NEW r \in Req, NEW host \in Host, Web!SetConfig(r, host) PROVE Web!WebInv'
  BY <1>1, <1>2, WebAnswers DEF Web!SetConfig, Web!TypeOK
<1>3. ASSUME NEW r \in Req, Web!BadRequest(r) \/ Web!Sent(r) \/ Web!HandleDiscover(r)
      PROVE  Web!WebInv'
  BY <1>1, <1>3, WebAnswers
     DEF Web!BadRequest, Web!Sent, Web!HandleDiscover, Web!TypeOK
<1>4. ASSUME NEW r \in Req, NEW g \in GroupIds, NEW n \in LevelsIn,
             Web!HandleSetGroup(r, g, n)
      PROVE  Web!WebInv'
  <2>1. Web!Clamp(n) \in 0..255
    BY <1>1, ClampFacts
  <2>2. webLevel' \in [Web!Group -> 0..255] /\ config' \in Host \cup {NoHost}
    BY <1>1, <1>4, <2>1 DEF Web!HandleSetGroup, Web!TypeOK
  <2>3. PICK w \in {"sending", "ok", "error"} : Web!Answer(r, w)
    BY <1>4 DEF Web!HandleSetGroup
  <2> QED
    BY <1>4, <2>2, <2>3, WebAnswers DEF Web!HandleSetGroup
<1>5. ASSUME NEW r \in Req, Web!HandleConnect(r) PROVE Web!WebInv'
  <2> DEFINE old == IF current = None THEN r ELSE current
  <2>1. /\ step' = [step EXCEPT ![r] = "dialling"] /\ current' = r
        /\ target' = [target EXCEPT ![r] = config]
        /\ webState' = [webState EXCEPT ![old] = "disconnected", ![r] = "connecting"]
        /\ protocol' = [protocol EXCEPT ![old] = FALSE]
        /\ link' = [link EXCEPT ![old] = IF @ = "up" THEN "down" ELSE @]
        /\ overlapped' = (overlapped \/ Web!Dialling # {})
        /\ UNCHANGED <<config, webLevel, drops>>
    BY <1>5 DEF Web!HandleConnect, Web!Answer
  <2>2. old \in Req
    BY <1>1 DEF Web!TypeOK
  <2> HIDE DEF old
  <2>3. Web!TypeOK'
    BY <1>1, <2>1, <2>2 DEF Web!TypeOK
  <2>4. ~overlapped' => \A q \in Req : link'[q] # "up"
    <3> SUFFICES ASSUME ~overlapped', NEW q \in Req, link'[q] = "up" PROVE FALSE
      OBVIOUS
    <3>1. q # old /\ link[q] = "up"
      BY <1>1, <2>1, <2>2 DEF Web!TypeOK
    <3>2. q = current
      BY <2>1, <3>1 DEF Web!WebInv, Web!NoStrayConnection
    <3> QED
      BY <1>1, <3>1, <3>2 DEF old
  <2>5. ~overlapped' => \A q \in Req : step'[q] = "dialling" => q = r
    BY <1>1, <2>1 DEF Web!Dialling, Web!TypeOK
  <2> QED
    BY <2>1, <2>3, <2>4, <2>5 DEF Web!WebInv, Web!NoStrayConnection, Web!Dialling
<1>6. ASSUME NEW r \in Req, Web!DialSucceeds(r) PROVE Web!WebInv'
  <2>1. Web!TypeOK'
    BY <1>1, <1>6 DEF Web!DialSucceeds, Web!Answer, Web!TypeOK
  <2>2. ~overlapped => r = current
    BY <1>6 DEF Web!WebInv, Web!DialSucceeds, Web!Dialling
  <2> QED
    BY <1>1, <1>6, <2>1, <2>2
       DEF Web!DialSucceeds, Web!Answer, Web!WebInv, Web!NoStrayConnection, Web!Dialling,
           Web!TypeOK
<1>7. ASSUME NEW r \in Req, Web!DialFails(r) PROVE Web!WebInv'
  <2>1. Web!TypeOK'
    BY <1>1, <1>7 DEF Web!DialFails, Web!Answer, Web!TypeOK
  <2> QED
    BY <1>1, <1>7, <2>1
       DEF Web!DialFails, Web!Answer, Web!WebInv, Web!NoStrayConnection, Web!Dialling,
           Web!TypeOK
<1>8. ASSUME NEW r \in Req, Web!HandleDisconnect(r) PROVE Web!WebInv'
  <2>1. /\ step' = [step EXCEPT ![r] = "ok"]
        /\ overlapped' = (overlapped \/ Web!Dialling # {})
        /\ UNCHANGED <<config, webLevel, drops>>
    BY <1>8 DEF Web!HandleDisconnect, Web!Answer
  <2>2. ~overlapped' => \A q \in Req : step'[q] # "dialling"
    BY <1>1, <2>1 DEF Web!Dialling, Web!TypeOK
  <2>3. CASE current = None
    <3>1. UNCHANGED Web!connVars
      BY <1>8, <2>3 DEF Web!HandleDisconnect
    <3> QED
      BY <1>1, <2>1, <3>1, WebAnswers DEF Web!Answer, Web!WebInv, Web!Dialling, Web!TypeOK,
         Web!NoStrayConnection
  <2>4. CASE current # None
    <3>1. Web!Disconnected(current) /\ current' = None /\ UNCHANGED target
      BY <1>8, <2>4 DEF Web!HandleDisconnect
    <3>2. current \in Req
      BY <1>1, <2>4 DEF Web!TypeOK
    <3>3. Web!TypeOK'
      BY <1>1, <2>1, <3>1, <3>2 DEF Web!Disconnected, Web!TypeOK
    <3>4. ~overlapped' => \A q \in Req : link'[q] # "up"
      BY <1>1, <2>1, <3>1, <3>2
         DEF Web!Disconnected, Web!TypeOK, Web!WebInv, Web!NoStrayConnection
    <3> QED
      BY <2>2, <3>3, <3>4 DEF Web!WebInv, Web!NoStrayConnection, Web!Dialling
  <2> QED
    BY <2>3, <2>4
<1>9. ASSUME NEW r \in Req, Web!LinkDrops(r) PROVE Web!WebInv'
  BY <1>1, <1>9 DEF Web!LinkDrops, Web!WebInv, Web!NoStrayConnection, Web!Dialling, Web!TypeOK
<1>10. CASE UNCHANGED Web!vars
  BY <1>10 DEF Web!vars, Web!WebInv, Web!NoStrayConnection, Web!Dialling, Web!TypeOK
<1> QED
  BY <1>2, <1>3, <1>4, <1>5, <1>6, <1>7, <1>8, <1>9, <1>10 DEF Web!Next

-----------------------------------------------------------------------------
(* The packet analyzer *)

\* Nothing has been analysed yet.
LEMMA AnalyzerInit == Analyzer!Init => Analyzer!AnalyzerInv
<1> SUFFICES ASSUME Analyzer!Init PROVE Analyzer!AnalyzerInv
  OBVIOUS
<1>1. /\ packets = 0 /\ sent = <<>> /\ confirmed = {} /\ map = [code \in Code |-> NoRecord]
      /\ latest = [code \in Code |-> 0]
  BY DEF Analyzer!Init
<1>2. latest \in [Code -> 0..packets] /\ DOMAIN sent = {} /\ packets \in Nat
  BY <1>1
<1>3. sent \in Seq((1..packets) \X Code \X Analyzer!Kind \X Client)
  BY <1>1
<1>4. Analyzer!ListedIsUnconfirmed /\ Analyzer!UnconfirmedIsListed
  BY <1>1 DEF Analyzer!ListedIsUnconfirmed, Analyzer!UnconfirmedIsListed
<1> QED
  BY <1>1, <1>2, <1>3, <1>4 DEF Analyzer!AnalyzerInv

\* The commands at the CNI as AnalyzerInv has them.
Wires(n) == (1..n) \X Code \X Analyzer!Kind \X Client

\* A new number grows every range of numbers.
LEMMA NumbersGrow ==
  ASSUME Analyzer!AnalyzerInv, packets' = packets + 1
  PROVE  /\ packets \in Nat /\ packets' \in Nat /\ latest \in [Code -> 0..packets']
         /\ confirmed \subseteq 1..packets' /\ sent \in Seq(Wires(packets'))
<1>1. packets \in Nat /\ latest \in [Code -> 0..packets] /\ confirmed \subseteq 1..packets
  BY DEF Analyzer!AnalyzerInv
<1>2. 0..packets \subseteq 0..packets' /\ 1..packets \subseteq 1..packets' /\ packets' \in Nat
  BY <1>1
<1>3. latest \in [Code -> 0..packets'] /\ confirmed \subseteq 1..packets'
  BY <1>1, <1>2
<1>4. sent \in Seq(Wires(packets))
  BY DEF Analyzer!AnalyzerInv, Wires
<1> DEFINE S == Wires(packets)
           T == Wires(packets')
<1>5. S \subseteq T
  BY <1>2 DEF Wires
<1> HIDE DEF S, T
<1>6. sent \in Seq(T)
  BY <1>4, <1>5, SeqGrows DEF S
<1> QED
  BY <1>1, <1>2, <1>3, <1>6 DEF T

\* A command at the CNI: its fields.
LEMMA WireAt ==
  ASSUME Analyzer!AnalyzerInv, NEW i \in DOMAIN sent
  PROVE  /\ sent[i] \in Wires(packets) /\ sent[i][1] \in 1..packets /\ sent[i][2] \in Code
         /\ i \in 1..Len(sent) /\ Len(sent) \in Nat
<1>1. sent \in Seq(Wires(packets))
  BY DEF Analyzer!AnalyzerInv, Wires
<1> DEFINE S == Wires(packets)
<1>2. sent \in Seq(S)
  BY <1>1
<1> HIDE DEF S
<1>3. sent[i] \in S /\ i \in 1..Len(sent) /\ Len(sent) \in Nat
  BY <1>2
<1> QED
  BY <1>3 DEF S, Wires

\* The numbers of AnalyzerInv' without its quantified parts.
AnalyzerTypes ==
  /\ packets \in Nat /\ DOMAIN map = Code
  /\ latest \in [Code -> 0..packets] /\ confirmed \subseteq 1..packets
  /\ sent \in Seq(Wires(packets))

OwnCode ==
  \A i \in DOMAIN sent, code \in Code : sent[i][2] # code => latest[code] # sent[i][1]

OnlyOne ==
  \A i \in DOMAIN sent : sent[i][2] \notin clashed =>
    latest[sent[i][2]] \in {0, sent[i][1]} \cup confirmed

LEMMA AnalyzerParts ==
  Analyzer!AnalyzerInv <=> /\ AnalyzerTypes /\ OwnCode /\ OnlyOne
                           /\ Analyzer!ListedIsUnconfirmed /\ Analyzer!UnconfirmedIsListed
BY DEF Analyzer!AnalyzerInv, AnalyzerTypes, OwnCode, OnlyOne, Wires

\* A client's packet is numbered after everything the map and the CNI know.
LEMMA FromClientKeeps ==
  ASSUME Analyzer!AnalyzerAssumption, Analyzer!AnalyzerInv,
         NEW c \in Client, NEW k \in Analyzer!Kind, NEW code \in Code,
         NEW forwarded \in BOOLEAN, Analyzer!FromClient(c, k, code, forwarded)
  PROVE  Analyzer!AnalyzerInv'
<1> DEFINE n == packets'
           new == <<n, code, k, c>>
           rec == <<k, c, n>>
<1>1. /\ n = packets + 1 /\ confirmed' = confirmed
      /\ map' = IF Analyzer!Recorded(k) THEN [map EXCEPT ![code] = rec] ELSE map
      /\ latest' = IF Analyzer!Recorded(k) THEN [latest EXCEPT ![code] = n] ELSE latest
      /\ sent' = IF Analyzer!HasCode(k) /\ forwarded THEN Append(sent, new) ELSE sent
      /\ clashed' = IF Analyzer!HasCode(k) /\ (Analyzer!AtCni(code) \/ map[code] # NoRecord)
                    THEN clashed \cup {code} ELSE clashed
  BY DEF Analyzer!FromClient, Analyzer!CountPacket
<1>2. /\ AnalyzerTypes /\ OwnCode /\ OnlyOne
      /\ Analyzer!ListedIsUnconfirmed /\ Analyzer!UnconfirmedIsListed
  BY AnalyzerParts
<1>3. /\ packets \in Nat /\ n \in Nat /\ latest \in [Code -> 0..n]
      /\ confirmed \subseteq 1..n /\ sent \in Seq(Wires(n))
  BY <1>1, NumbersGrow
<1>4. rec # NoRecord
  BY <1>3 DEF Analyzer!AnalyzerAssumption
<1>5. new \in Wires(n)
  BY <1>1, <1>3 DEF Wires
<1>6. Analyzer!Recorded(k) => Analyzer!HasCode(k)
  BY DEF Analyzer!HasCode
<1> DEFINE S == Wires(n)
<1>7. sent \in Seq(S) /\ new \in S
  BY <1>3, <1>5
<1> HIDE DEF S, new, rec, n
<1>8. /\ Append(sent, new) \in Seq(S) /\ Len(sent) \in Nat /\ DOMAIN sent = 1..Len(sent)
      /\ DOMAIN Append(sent, new) = 1..Len(sent) + 1
      /\ \A j \in 1..Len(sent) : Append(sent, new)[j] = sent[j]
      /\ Append(sent, new)[Len(sent) + 1] = new
  BY <1>7, AppendAt
<1>9. \A j \in DOMAIN Append(sent, new) :
        \/ j \in DOMAIN sent /\ Append(sent, new)[j] = sent[j]
        \/ Append(sent, new)[j] = new
  BY <1>8
<1>10. \A j \in DOMAIN sent' : \/ j \in DOMAIN sent /\ sent'[j] = sent[j]
                               \/ sent'[j] = new /\ Analyzer!HasCode(k)
  BY <1>1, <1>9
<1>11. sent' \in Seq(S)
  BY <1>1, <1>7, <1>8
<1>12. DOMAIN map = Code /\ latest \in [Code -> 0..packets] /\ confirmed \subseteq 1..packets
  BY <1>2 DEF AnalyzerTypes
<1>13. /\ \A d \in Code : d # code => latest'[d] = latest[d] /\ map'[d] = map[d]
       /\ Analyzer!Recorded(k) => latest'[code] = n /\ map'[code] = rec
       /\ ~Analyzer!Recorded(k) => latest' = latest /\ map' = map
       /\ DOMAIN map' = Code
  BY <1>1, <1>12
<1>14. latest' \in [Code -> 0..n]
  BY <1>1, <1>3, <1>13
<1>15. /\ \A d \in Code : latest[d] \in 0..packets
       /\ \A j \in DOMAIN sent : sent[j][1] \in 1..packets /\ sent[j][2] \in Code
  BY <1>12, WireAt
<1>16. new[1] = n /\ new[2] = code /\ rec[3] = n
  BY DEF new, rec
<1>17. n \notin confirmed /\ \A d \in Code : latest[d] # n
  BY <1>1, <1>3, <1>12, <1>15
<1>18. \A j \in DOMAIN sent : sent[j][1] # n
  BY <1>1, <1>3, <1>15
<1>19. AnalyzerTypes'
  BY <1>1, <1>3, <1>11, <1>13, <1>14 DEF AnalyzerTypes, n, S, Wires
<1>20. OwnCode'
  <2> SUFFICES ASSUME NEW j \in DOMAIN sent', NEW d \in Code, sent'[j][2] # d
               PROVE  latest'[d] # sent'[j][1]
    BY Zenon DEF OwnCode
  <2>1. CASE j \in DOMAIN sent /\ sent'[j] = sent[j]
    <3>1. latest[d] # sent[j][1]
      BY <1>2, <2>1 DEF OwnCode
    <3> QED
      BY <1>13, <1>18, <2>1, <3>1
  <2>2. CASE sent'[j] = new
    BY <1>13, <1>16, <1>17, <2>2
  <2> QED
    BY <1>10, <2>1, <2>2
<1>21. OnlyOne'
  <2> SUFFICES ASSUME NEW j \in DOMAIN sent', sent'[j][2] \notin clashed'
               PROVE  latest'[sent'[j][2]] \in {0, sent'[j][1]} \cup confirmed'
    BY Zenon DEF OnlyOne
  <2>1. CASE j \in DOMAIN sent /\ sent'[j] = sent[j]
    <3>1. sent[j][2] \notin clashed
      BY <1>1, <2>1
    <3>2. latest[sent[j][2]] \in {0, sent[j][1]} \cup confirmed
      BY <1>2, <2>1, <3>1 DEF OnlyOne
    <3>3. CASE sent[j][2] = code /\ Analyzer!HasCode(k)
      BY <1>1, <2>1, <3>3 DEF Analyzer!AtCni
    <3>4. CASE ~(sent[j][2] = code /\ Analyzer!HasCode(k))
      <4>1. latest'[sent[j][2]] = latest[sent[j][2]]
        BY <1>6, <1>13, <1>15, <2>1, <3>4
      <4> QED
        BY <1>1, <2>1, <3>2, <4>1
    <3> QED
      BY <3>3, <3>4
  <2>2. CASE sent'[j] = new /\ Analyzer!HasCode(k)
    <3>1. code \notin clashed /\ map[code] = NoRecord
      BY <1>1, <1>16, <2>2
    <3>2. latest[code] = 0 \/ latest[code] \in confirmed
      BY <1>2, <3>1 DEF Analyzer!UnconfirmedIsListed
    <3> QED
      BY <1>1, <1>13, <1>16, <2>2, <3>2
  <2> QED
    BY <1>10, <2>1, <2>2
<1>22. Analyzer!ListedIsUnconfirmed'
  <2> SUFFICES ASSUME NEW d \in Code, map'[d] # NoRecord
               PROVE  map'[d][3] = latest'[d] /\ map'[d][3] \notin confirmed'
    BY Zenon DEF Analyzer!ListedIsUnconfirmed
  <2>1. CASE d = code /\ Analyzer!Recorded(k)
    BY <1>1, <1>13, <1>16, <1>17, <2>1
  <2>2. CASE ~(d = code /\ Analyzer!Recorded(k))
    <3>1. map'[d] = map[d] /\ latest'[d] = latest[d]
      BY <1>13, <2>2
    <3> QED
      BY <1>1, <1>2, <3>1 DEF Analyzer!ListedIsUnconfirmed
  <2> QED
    BY <2>1, <2>2
<1>23. Analyzer!UnconfirmedIsListed'
  <2> SUFFICES ASSUME NEW d \in Code, d \notin clashed',
                      latest'[d] # 0, latest'[d] \notin confirmed'
               PROVE  map'[d] # NoRecord
    BY Zenon DEF Analyzer!UnconfirmedIsListed
  <2>1. CASE d = code /\ Analyzer!Recorded(k)
    BY <1>4, <1>13, <2>1
  <2>2. CASE ~(d = code /\ Analyzer!Recorded(k))
    <3>1. map'[d] = map[d] /\ latest'[d] = latest[d] /\ d \notin clashed
      BY <1>1, <1>13, <2>2
    <3> QED
      BY <1>1, <1>2, <3>1 DEF Analyzer!UnconfirmedIsListed
  <2> QED
    BY <2>1, <2>2
<1>24. (/\ AnalyzerTypes /\ OwnCode /\ OnlyOne
        /\ Analyzer!ListedIsUnconfirmed /\ Analyzer!UnconfirmedIsListed)'
  BY <1>19, <1>20, <1>21, <1>22, <1>23
<1> QED
  BY <1>24 DEF Analyzer!AnalyzerInv, AnalyzerTypes, OwnCode, OnlyOne, Wires

\* A confirmation removes the entry of its own code, and no other code's last
\* command is the confirmed one.
LEMMA ConfirmationKeeps ==
  ASSUME Analyzer!AnalyzerInv, NEW i \in DOMAIN sent, Analyzer!FromCniConfirmation(i)
  PROVE  Analyzer!AnalyzerInv'
<1> DEFINE n == packets'
           cmd == sent[i]
<1>1. /\ n = packets + 1 /\ confirmed' = confirmed \cup {cmd[1]}
      /\ map' = [map EXCEPT ![cmd[2]] = NoRecord]
      /\ latest' = latest /\ clashed' = clashed
      /\ sent' = SubSeq(sent, i + 1, Len(sent))
  BY DEF Analyzer!FromCniConfirmation, Analyzer!CountPacket
<1>2. /\ AnalyzerTypes /\ OwnCode /\ OnlyOne
      /\ Analyzer!ListedIsUnconfirmed /\ Analyzer!UnconfirmedIsListed
  BY AnalyzerParts
<1>3. /\ packets \in Nat /\ n \in Nat /\ latest \in [Code -> 0..n]
      /\ confirmed \subseteq 1..n /\ sent \in Seq(Wires(n))
  BY <1>1, NumbersGrow
<1>4. cmd[1] \in 1..packets /\ cmd[2] \in Code /\ i \in 1..Len(sent) /\ Len(sent) \in Nat
  BY WireAt
<1> DEFINE S == Wires(n)
           r == Len(sent) - i
<1>5. sent \in Seq(S)
  BY <1>3
<1>6. r \in Nat /\ i \in Nat /\ i + r = Len(sent)
  BY <1>4
<1> HIDE DEF S, r
<1>7. /\ SubSeq(sent, i + 1, i + r) \in Seq(S) /\ DOMAIN SubSeq(sent, i + 1, i + r) = 1..r
      /\ \A j \in 1..r : SubSeq(sent, i + 1, i + r)[j] = sent[i + j]
  BY <1>5, <1>6, SubSeqAt
<1>8. sent' = SubSeq(sent, i + 1, i + r)
  BY <1>1, <1>6
<1>9. \A j \in 1..r : i + j \in 1..Len(sent)
  BY <1>4, <1>6
<1>10. DOMAIN sent = 1..Len(sent)
  BY <1>5
<1>11. sent' \in Seq(S) /\ \A j \in DOMAIN sent' : \E h \in DOMAIN sent : sent'[j] = sent[h]
  BY <1>7, <1>8, <1>9, <1>10
<1> HIDE DEF cmd, n
<1>12. /\ DOMAIN map' = Code /\ map'[cmd[2]] = NoRecord
       /\ \A d \in Code : d # cmd[2] => map'[d] = map[d]
  BY <1>1, <1>2, <1>4 DEF AnalyzerTypes
<1>13. confirmed' \subseteq 1..n
  <2>1. cmd[1] \in 1..n
    BY <1>1, <1>3, <1>4
  <2> QED
    BY <1>1, <1>3, <2>1
<1>14. AnalyzerTypes'
  BY <1>1, <1>3, <1>11, <1>12, <1>13 DEF AnalyzerTypes, n, S, Wires
<1>15. OwnCode'
  <2> SUFFICES ASSUME NEW j \in DOMAIN sent', NEW d \in Code, sent'[j][2] # d
               PROVE  latest'[d] # sent'[j][1]
    BY Zenon DEF OwnCode
  <2>1. PICK h \in DOMAIN sent : sent'[j] = sent[h]
    BY <1>11
  <2> QED
    BY <1>1, <1>2, <2>1 DEF OwnCode
<1>16. OnlyOne'
  <2> SUFFICES ASSUME NEW j \in DOMAIN sent', sent'[j][2] \notin clashed'
               PROVE  latest'[sent'[j][2]] \in {0, sent'[j][1]} \cup confirmed'
    BY Zenon DEF OnlyOne
  <2>1. PICK h \in DOMAIN sent : sent'[j] = sent[h]
    BY <1>11
  <2>2. latest[sent[h][2]] \in {0, sent[h][1]} \cup confirmed
    BY <1>1, <1>2, <2>1 DEF OnlyOne
  <2> QED
    BY <1>1, <2>1, <2>2
<1>17. Analyzer!ListedIsUnconfirmed'
  <2> SUFFICES ASSUME NEW d \in Code, map'[d] # NoRecord
               PROVE  map'[d][3] = latest'[d] /\ map'[d][3] \notin confirmed'
    BY Zenon DEF Analyzer!ListedIsUnconfirmed
  <2>1. d # cmd[2] /\ map'[d] = map[d]
    BY <1>12
  <2>2. map[d][3] = latest[d] /\ map[d][3] \notin confirmed
    BY <1>2, <2>1 DEF Analyzer!ListedIsUnconfirmed
  <2>3. latest[d] # cmd[1]
    BY <1>2, <2>1 DEF OwnCode, cmd
  <2> QED
    BY <1>1, <2>1, <2>2, <2>3
<1>18. Analyzer!UnconfirmedIsListed'
  <2> SUFFICES ASSUME NEW d \in Code, d \notin clashed',
                      latest'[d] # 0, latest'[d] \notin confirmed'
               PROVE  map'[d] # NoRecord
    BY Zenon DEF Analyzer!UnconfirmedIsListed
  <2>1. latest[d] # 0 /\ latest[d] \notin confirmed /\ latest[d] # cmd[1] /\ d \notin clashed
    BY <1>1
  <2>2. d # cmd[2]
    <3>1. cmd[2] \notin clashed => latest[cmd[2]] \in {0, cmd[1]} \cup confirmed
      BY <1>2 DEF OnlyOne, cmd
    <3> QED
      BY <2>1, <3>1
  <2>3. map[d] # NoRecord
    BY <1>2, <2>1 DEF Analyzer!UnconfirmedIsListed
  <2> QED
    BY <1>12, <2>2, <2>3
<1>19. (/\ AnalyzerTypes /\ OwnCode /\ OnlyOne
        /\ Analyzer!ListedIsUnconfirmed /\ Analyzer!UnconfirmedIsListed)'
  BY <1>14, <1>15, <1>16, <1>17, <1>18
<1> QED
  BY <1>19 DEF Analyzer!AnalyzerInv, AnalyzerTypes, OwnCode, OnlyOne, Wires

\* Every packet keeps the invariant.
LEMMA AnalyzerStep ==
  ASSUME Analyzer!AnalyzerAssumption, Analyzer!AnalyzerInv, [Analyzer!Next]_(Analyzer!vars)
  PROVE  Analyzer!AnalyzerInv'
<1>1. ASSUME NEW e \in Analyzer!Event, Analyzer!FromCni(e) PROVE Analyzer!AnalyzerInv'
  <2>1. packets' = packets + 1 /\ UNCHANGED <<map, sent, latest, confirmed, clashed>>
    BY <1>1 DEF Analyzer!FromCni, Analyzer!CountPacket
  <2>2. /\ packets' \in Nat /\ latest \in [Code -> 0..packets']
        /\ confirmed \subseteq 1..packets' /\ sent \in Seq(Wires(packets'))
    BY <2>1, NumbersGrow
  <2>3. AnalyzerTypes'
    BY <2>1, <2>2, AnalyzerParts DEF AnalyzerTypes, Wires
  <2>4. OwnCode' /\ OnlyOne' /\ (Analyzer!ListedIsUnconfirmed /\ Analyzer!UnconfirmedIsListed)'
    BY <2>1, AnalyzerParts DEF OwnCode, OnlyOne, Analyzer!ListedIsUnconfirmed,
       Analyzer!UnconfirmedIsListed
  <2> QED
    BY <2>3, <2>4 DEF Analyzer!AnalyzerInv, AnalyzerTypes, OwnCode, OnlyOne, Wires
<1>2. CASE UNCHANGED Analyzer!vars
  BY <1>2 DEF Analyzer!vars, Analyzer!AnalyzerInv, Analyzer!ListedIsUnconfirmed,
     Analyzer!UnconfirmedIsListed
<1> QED
  BY <1>1, <1>2, FromClientKeeps, ConfirmationKeeps DEF Analyzer!Next, Analyzer!Done

-----------------------------------------------------------------------------
(* The programs side by side *)

\* The exercised program takes its own steps and stays the exercised one.
LEMMA DaemonSteps ==
  ASSUME scenario = "daemon", [BridgeNext]_bridgeVars
  PROVE  scenario' = "daemon" /\ [Next]_vars
BY DEF BridgeNext, bridgeVars

LEMMA WebSteps ==
  ASSUME scenario = "web", [BridgeNext]_bridgeVars
  PROVE  scenario' = "web" /\ [Web!Next]_(Web!vars)
BY DEF BridgeNext, bridgeVars, webVars, Web!vars, Web!connVars

LEMMA ProxySteps ==
  ASSUME scenario = "proxy", [BridgeNext]_bridgeVars
  PROVE  scenario' = "proxy" /\ [Proxy!Next]_(Proxy!vars)
BY DEF BridgeNext, bridgeVars, proxyVars, Proxy!vars, Proxy!cniVars, Proxy!readVars,
       Proxy!histVars

LEMMA AnalyzerSteps ==
  ASSUME scenario = "analyzer", [BridgeNext]_bridgeVars
  PROVE  scenario' = "analyzer" /\ [Analyzer!Next]_(Analyzer!vars)
BY DEF BridgeNext, bridgeVars, analyzerVars, Analyzer!vars

\* No step changes which program is exercised.
LEMMA ScenarioStays == [BridgeNext]_bridgeVars => scenario' = scenario
BY DEF BridgeNext, bridgeVars

\* A daemon that has ended has no send, no queued work and no connection left,
\* and as long as nobody connects or disconnects during a dial every open socket
\* of the web interface is one that a user can close.
THEOREM NothingLeftOpenCorrect ==
  Web!PyWebAssumption => (BridgeSpec => []NothingLeftOpen)
<1> SUFFICES ASSUME Web!PyWebAssumption PROVE BridgeSpec => []NothingLeftOpen
  OBVIOUS
<1> DEFINE I == /\ scenario = "daemon" => DaemonInv
                /\ scenario = "web" => Web!WebInv
<1>1. BridgeInit => I
  BY DaemonInit, WebInit DEF BridgeInit
<1>2. I /\ [BridgeNext]_bridgeVars => I'
  <2> SUFFICES ASSUME I, [BridgeNext]_bridgeVars PROVE I'
    OBVIOUS
  <2>1. scenario = "daemon" => DaemonInv'
    BY DaemonSteps, DaemonStep
  <2>2. scenario = "web" => Web!WebInv'
    BY WebSteps, WebStep
  <2> QED
    BY <2>1, <2>2, ScenarioStays
<1>3. I => NothingLeftOpen
  BY DaemonEnds DEF NothingLeftOpen, Web!WebInv
<1> QED
  BY <1>1, <1>2, <1>3, PTL DEF BridgeSpec

\* Whatever clients, the CNI and shutdown do, a registered client of the proxy
\* hears every response since it registered, once and in order, and one whose
\* handler has returned hears nothing more.
THEOREM RelayIsCompleteCorrect ==
  Proxy!ProxyAssumption => (BridgeSpec => []RelayIsComplete)
<1> SUFFICES ASSUME Proxy!ProxyAssumption PROVE BridgeSpec => []RelayIsComplete
  OBVIOUS
<1> DEFINE I == scenario = "proxy" => Proxy!RelayInv
<1>1. BridgeInit => I
  BY RelayInit DEF BridgeInit
<1>2. I /\ [BridgeNext]_bridgeVars => I'
  BY ProxySteps, RelayStep, ScenarioStays
<1>3. I => RelayIsComplete
  BY RelayHolds DEF RelayIsComplete
<1> QED
  BY <1>1, <1>2, <1>3, PTL DEF BridgeSpec

\* However clients share codes and commands are dropped, the analyzer lists no
\* command that was confirmed, and every unconfirmed one that was the last recorded
\* under a code not used again before its confirmation.
THEOREM SummaryIsRightCorrect ==
  Analyzer!AnalyzerAssumption => (BridgeSpec => []SummaryIsRight)
<1> SUFFICES ASSUME Analyzer!AnalyzerAssumption PROVE BridgeSpec => []SummaryIsRight
  OBVIOUS
<1> DEFINE I == scenario = "analyzer" => Analyzer!AnalyzerInv
<1>1. BridgeInit => I
  BY AnalyzerInit DEF BridgeInit
<1>2. I /\ [BridgeNext]_bridgeVars => I'
  BY AnalyzerSteps, AnalyzerStep, ScenarioStays
<1>3. I => SummaryIsRight
  BY DEF SummaryIsRight, Analyzer!AnalyzerInv
<1> QED
  BY <1>1, <1>2, <1>3, PTL DEF BridgeSpec

=============================================================================
