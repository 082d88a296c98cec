------------------------------ MODULE PyBroker ------------------------------
(***************************************************************************)
(* MiniBroker of the behavioural harness                                   *)
(* (rust-migration-harness/lib/mini_broker.py): the MQTT broker the daemons *)
(* are tested with.  _on_client handles one packet of a client per turn of *)
(* its loop, without suspending in between, so each kind of packet is one  *)
(* action.                                                                 *)
(*                                                                         *)
(* A topic is a sequence of levels; a filter may hold + and #.  Packet ids, *)
(* lengths and the text of acknowledgements are left out.                  *)
(***************************************************************************)
EXTENDS Integers, Sequences, FiniteSets

CONSTANTS
  Client,       \* connections, one per accepted socket
  Segment,      \* what topics are made of
  Topic,        \* topics published to
  Filter,       \* filters subscribed to
  Plus, Hash,   \* the two wildcards
  MaxMessages,  \* bound: messages published or injected
  MaxSubs,      \* bound: subscriptions of one client
  MaxErrors     \* bound: packets refused

BrokerAssumption ==
  /\ Topic \subseteq Seq(Segment) /\ Filter \subseteq Seq(Segment \cup {Plus, Hash})
  /\ MaxMessages \in Nat /\ MaxSubs \in Nat /\ MaxErrors \in Nat

VARIABLES
  sock,       \* of each client: none, open, or closed by either side
  subs,       \* client.subscriptions
  publishes,  \* MiniBroker.publishes: <<topic, message, retain>>
  retained,   \* MiniBroker.retained, 0 for a topic without an entry
  errors,     \* len(MiniBroker.errors)
  inbox,      \* history: the messages written to each client
  messages    \* history: the topics of all messages, which are numbered

vars == <<sock, subs, publishes, retained, errors, inbox, messages>>

\* topic_matches: the levels before the first #, or all levels, agree.
TopicMatches(filt, topic) ==
  \E n \in 0..Len(filt) :
     /\ n <= Len(topic)
     /\ \A i \in 1..n : filt[i] \in {Plus, topic[i]}
     /\ \/ n < Len(filt) /\ filt[n + 1] = Hash
        \/ n = Len(filt) /\ n = Len(topic)

\* Mutant of Deliveries: once per subscription that matches.
DeliveriesPerFilter(c, topic, message) ==
  [i \in 1..Cardinality({j \in DOMAIN subs[c] : TopicMatches(subs[c][j], topic)})
     |-> message]

\* What _fanout writes to one client, however many of its filters match.
Deliveries(c, topic, message) ==
  IF \E i \in DOMAIN subs[c] : TopicMatches(subs[c][i], topic)
  THEN <<message>> ELSE <<>>

\* _fanout, to the sender too.  The list of clients never shrinks; a write to a
\* closed socket is discarded by its transport.
Fanout(topic, message) ==
  inbox' = [c \in Client |->
    IF sock[c] = "open" THEN inbox[c] \o Deliveries(c, topic, message) ELSE inbox[c]]

\* _on_client starts: the client is listed before it has said anything.
OnClient(c) ==
  /\ sock[c] = "none" /\ sock' = [sock EXCEPT ![c] = "open"]
  /\ UNCHANGED <<subs, publishes, retained, errors, inbox, messages>>

\* CONNECT with another level: refused, and the connection is closed.
ConnectRefused(c) ==
  /\ sock[c] = "open" /\ errors < MaxErrors /\ errors' = errors + 1
  /\ sock' = [sock EXCEPT ![c] = "closed"]
  /\ UNCHANGED <<subs, publishes, retained, inbox, messages>>

\* A packet of an unknown kind is an error and nothing else.
Unhandled(c) ==
  /\ sock[c] = "open" /\ errors < MaxErrors /\ errors' = errors + 1
  /\ UNCHANGED <<sock, subs, publishes, retained, inbox, messages>>

Retain(topic, message, retain) ==
  IF retain THEN [retained EXCEPT ![topic] = message] ELSE retained

\* PUBLISH at any QoS: recorded, retained, acknowledged and fanned out.
Publish(c, topic, retain) ==
  /\ sock[c] = "open" /\ Len(messages) < MaxMessages
  /\ messages' = Append(messages, topic)
  /\ publishes' = Append(publishes, <<topic, Len(messages'), retain>>)
  /\ retained' = Retain(topic, Len(messages'), retain)
  /\ Fanout(topic, Len(messages'))
  /\ UNCHANGED <<sock, subs, errors>>

\* inject: a test delivers a message nobody published.
Inject(topic) ==
  /\ Len(messages) < MaxMessages
  /\ messages' = Append(messages, topic)
  /\ Fanout(topic, Len(messages'))
  /\ UNCHANGED <<sock, subs, publishes, retained, errors>>

\* SUBSCRIBE, one filter; what is retained is not sent.
Subscribe(c, filt) ==
  /\ sock[c] = "open" /\ Len(subs[c]) < MaxSubs
  /\ subs' = [subs EXCEPT ![c] = Append(@, filt)]
  /\ UNCHANGED <<sock, publishes, retained, errors, inbox, messages>>

\* CONNECT (which sets a flag nothing reads), PUBREL, PINGREQ, PUBACK, and
\* UNSUBSCRIBE, which is acknowledged and leaves the subscription where it is.
Acknowledge(c) == sock[c] = "open" /\ UNCHANGED vars

\* DISCONNECT, end of file or a reset connection: the finally clause.
Disconnect(c) ==
  /\ sock[c] = "open" /\ sock' = [sock EXCEPT ![c] = "closed"]
  /\ UNCHANGED <<subs, publishes, retained, errors, inbox, messages>>

\* Everybody has left and nothing is injected any more.
Done ==
  /\ \A c \in Client : sock[c] = "closed"
  /\ Len(messages) = MaxMessages /\ UNCHANGED vars

Init ==
  /\ sock = [c \in Client |-> "none"]
  /\ subs = [c \in Client |-> <<>>] /\ publishes = <<>>
  /\ retained = [t \in Topic |-> 0] /\ errors = 0
  /\ inbox = [c \in Client |-> <<>>] /\ messages = <<>>

Next ==
  \/ \E c \in Client : OnClient(c)
  \/ \E c \in Client : ConnectRefused(c)
  \/ \E c \in Client : Unhandled(c)
  \/ \E c \in Client, t \in Topic, retain \in BOOLEAN : Publish(c, t, retain)
  \/ \E t \in Topic : Inject(t)
  \/ \E c \in Client, f \in Filter : Subscribe(c, f)
  \/ \E c \in Client : Acknowledge(c)
  \/ \E c \in Client : Disconnect(c)
  \/ Done

Spec == Init /\ [][Next]_vars

-----------------------------------------------------------------------------
(* Properties *)

\* Filters overlap, a client may subscribe twice, and tests inject between the
\* daemon's messages: still a client is given each message at most once and in
\* the order the broker took them.
OnceInOrder ==
  \A c \in Client : \A i, j \in DOMAIN inbox[c] : i < j => inbox[c][i] < inbox[c][j]

\* Once a client has been given a message of a topic it is given every later one
\* of that topic for as long as its connection is open: no event of another
\* client, refusals and disconnections included, makes it miss one.
NoGaps ==
  \A c \in Client : sock[c] = "open" =>
    \A i \in DOMAIN inbox[c] : \A n \in inbox[c][i]..Len(messages) :
       messages[n] = messages[inbox[c][i]] => \E j \in DOMAIN inbox[c] : inbox[c][j] = n

\* What is retained for a topic is what was last published to it for retention:
\* an injected or an ordinary message after it does not replace it.
Kept(i, topic) == publishes[i][1] = topic /\ publishes[i][3]
RetainedIsLast ==
  \A t \in Topic :
    \/ retained[t] = 0 /\ \A i \in DOMAIN publishes : ~Kept(i, t)
    \/ \E i \in DOMAIN publishes :
         /\ Kept(i, t) /\ retained[t] = publishes[i][2]
         /\ \A j \in DOMAIN publishes : Kept(j, t) => j <= i

\* A + stands for exactly one level: a client none of whose filters holds a #
\* hears of no topic deeper or shallower than all of them (a light's state topic
\* is not taken for its command topic).
PlusIsOneLevel ==
  \A c \in Client :
    (\A i \in DOMAIN subs[c] : \A l \in DOMAIN subs[c][i] : subs[c][i][l] # Hash)
      => \A i \in DOMAIN inbox[c] : \E k \in DOMAIN subs[c] :
            Len(messages[inbox[c][i]]) = Len(subs[c][k])

-----------------------------------------------------------------------------
(* Why, as an inductive invariant *)

BrokerTypes ==
  /\ sock \in [Client -> {"none", "open", "closed"}]
  /\ subs \in [Client -> Seq(Filter)] /\ messages \in Seq(Topic)
  /\ publishes \in Seq(Topic \X Nat \X BOOLEAN) /\ retained \in [Topic -> Nat]
  /\ inbox \in [Client -> Seq(1..Len(messages))]

\* A client was only given what one of its filters names, and filters stay.
GivenInv ==
  \A c \in Client : \A i \in DOMAIN inbox[c] :
    \E k \in DOMAIN subs[c] : TopicMatches(subs[c][k], messages[inbox[c][i]])

\* Nothing is given to a client before it connects.
UnheardInv == \A c \in Client : sock[c] = "none" => inbox[c] = <<>>

\* Inductive.
BrokerInv ==
  BrokerTypes /\ GivenInv /\ UnheardInv /\ OnceInOrder /\ NoGaps /\ RetainedIsLast

=============================================================================
