---------------------------- MODULE PyTransport ----------------------------
(***************************************************************************)
(* CBusTransport (python-legacy/cbus/transport/base.py) with the TCP and   *)
(* serial implementations of _do_connect and _do_disconnect: connect,      *)
(* disconnect and handle_connection_lost called by concurrent tasks, and   *)
(* the reconnect loops the last one starts. A break of the connection and  *)
(* the report of it are two steps: the transport has no callback of its    *)
(* own on the connection, and waits for a user of it to report.            *)
(*                                                                         *)
(* A step extends to the next real suspension: waiting for _connect_lock,  *)
(* the dialling of _do_connect, the sleep between attempts, and the wait   *)
(* of disconnect for the reconnect task it has cancelled.                  *)
(***************************************************************************)
EXTENDS Integers, FiniteSets

CONSTANTS
  Caller,        \* tasks that call connect and disconnect
  Loops,         \* how many losses are reported, each starts a loop
  Reconnect,     \* config.reconnect
  MaxAttempts,   \* config.max_reconnect_attempts, 0 for unlimited
  Dials,         \* bound: how often a connection is established
  NoOne

Loop == 1..Loops
Process == Caller \cup Loop
NoSock == 0

TransportAssumption ==
  /\ Caller \cap Loop = {} /\ NoOne \notin Process
  /\ Reconnect \in BOOLEAN /\ MaxAttempts \in Nat /\ Dials \in Nat /\ Loops \in Nat

VARIABLES
  state,      \* _state
  sock,       \* _asyncio_transport, NoSock for None; _protocol goes with it
  lock,       \* who holds _connect_lock
  task,       \* _reconnect_task: a loop, or NoOne
  attempts,   \* _reconnect_attempts
  pc,         \* Process -> where it is suspended
  awaits,     \* Caller -> the loop its disconnect is waiting for
  cancelled,  \* loops that disconnect has cancelled
  open,       \* connections the operating system has open
  dialled,    \* connections established so far
  quit        \* history: loops that ended in ERROR, with their attempts

connVars == <<sock, open, dialled>>
vars == <<state, connVars, lock, task, attempts, pc, awaits, cancelled, quit>>

\* The event loop polls for I/O and timers only when no task is ready to run.
Polls ==
  /\ \A l \in Loop : pc[l] # "created" /\ (l \in cancelled => pc[l] = "done")
  /\ \A c \in Caller : pc[c] = "await" => pc[awaits[c]] # "done"
  /\ lock = NoOne => \A p \in Process : pc[p] # "lock"

-----------------------------------------------------------------------------
(* connect *)

\* connect() with the lock free: nothing to do, or start to dial.
Enter(p) ==
  IF state = "connected"
  THEN /\ pc' = [pc EXCEPT ![p] = "done"]
       /\ UNCHANGED <<state, lock>>
  ELSE /\ pc' = [pc EXCEPT ![p] = "dial"]
       /\ state' = "connecting"
       /\ lock' = p

\* The call of connect, which queues for the lock if it is taken.
CallConnect(p) ==
  IF lock = NoOne
  THEN Enter(p)
  ELSE pc' = [pc EXCEPT ![p] = "lock"] /\ UNCHANGED <<state, lock>>

Connect(c) ==
  /\ pc[c] = "done"
  /\ CallConnect(c)
  /\ UNCHANGED <<connVars, task, attempts, awaits, cancelled, quit>>

\* Mutant of Acquire: a waiter finds the transport connected and waits on.
AcquireUnlessConnected(p) ==
  /\ pc[p] = "lock" /\ lock = NoOne /\ p \notin cancelled /\ state # "connected"
  /\ Enter(p)
  /\ UNCHANGED <<connVars, task, attempts, awaits, cancelled, quit>>

Acquire(p) ==
  /\ pc[p] = "lock" /\ lock = NoOne /\ p \notin cancelled
  /\ Enter(p)
  /\ UNCHANGED <<connVars, task, attempts, awaits, cancelled, quit>>

\* _do_connect succeeds.
DialOk(p) ==
  /\ Polls /\ pc[p] = "dial" /\ dialled < Dials
  /\ dialled' = dialled + 1
  /\ sock' = dialled + 1
  /\ open' = open \cup {dialled + 1}
  /\ state' = "connected" /\ lock' = NoOne /\ attempts' = 0
  /\ pc' = [pc EXCEPT ![p] = "done"]
  /\ UNCHANGED <<task, awaits, cancelled, quit>>

\* The head of the while loop of _reconnect_loop, with st the state it sees.
LoopHead(l, st) ==
  IF st # "reconnecting"
  THEN /\ pc' = [pc EXCEPT ![l] = "done"]
       /\ state' = st
       /\ quit' = IF st = "error" THEN quit \cup {attempts} ELSE quit
       /\ UNCHANGED attempts
  ELSE /\ attempts' = attempts + 1
       /\ IF MaxAttempts > 0 /\ attempts + 1 > MaxAttempts
          THEN /\ pc' = [pc EXCEPT ![l] = "done"]
               /\ state' = "error"
               /\ quit' = quit \cup {attempts + 1}
          ELSE /\ pc' = [pc EXCEPT ![l] = "sleep"]
               /\ state' = st
               /\ UNCHANGED quit

\* _do_connect fails or connect_timeout passes: the state is ERROR and the
\* call raises; a loop catches that and tests its condition again.
DialFail(p) ==
  /\ Polls /\ pc[p] = "dial"
  /\ lock' = NoOne
  /\ IF p \in Loop
     THEN LoopHead(p, "error")
     ELSE state' = "error" /\ pc' = [pc EXCEPT ![p] = "done"] /\ UNCHANGED <<attempts, quit>>
  /\ UNCHANGED <<connVars, task, awaits, cancelled>>

-----------------------------------------------------------------------------
(* disconnect *)

\* Mutant of CloseNow: _asyncio_transport is dropped and not closed.
CloseNowLeaks ==
  /\ state' = "disconnected"
  /\ sock' = NoSock
  /\ UNCHANGED open

\* Mutant of CloseNow: the state is left to the next connect.
CloseNowKeepsState ==
  /\ open' = open \ {sock}
  /\ sock' = NoSock
  /\ UNCHANGED state

\* The state, _do_disconnect and the references, with no suspension.
CloseNow ==
  /\ state' = "disconnected"
  /\ open' = open \ {sock}
  /\ sock' = NoSock

\* disconnect: nothing if DISCONNECTED; a reconnect task that is not done is
\* cancelled and awaited first.
Disconnect(c) ==
  /\ pc[c] = "done" /\ state # "disconnected"
  /\ IF task # NoOne /\ pc[task] # "done"
     THEN /\ cancelled' = cancelled \cup {task}
          /\ pc' = [pc EXCEPT ![c] = "await"]
          /\ awaits' = [awaits EXCEPT ![c] = task]
          /\ UNCHANGED <<state, sock, open, task>>
     ELSE /\ CloseNow
          /\ UNCHANGED <<task, pc, awaits, cancelled>>
  /\ UNCHANGED <<dialled, lock, attempts, quit>>

\* The CancelledError reaches the loop: inside connect it also sets
\* DISCONNECTED and releases the lock.
Cancelled(l) ==
  /\ l \in cancelled /\ pc[l] # "done"
  /\ pc' = [pc EXCEPT ![l] = "done"]
  /\ IF pc[l] = "dial"
     THEN state' = "disconnected" /\ lock' = NoOne
     ELSE UNCHANGED <<state, lock>>
  /\ UNCHANGED <<connVars, task, attempts, awaits, cancelled, quit>>

\* disconnect goes on once the loop it cancelled is done, even if a newer one
\* has been started: that one is forgotten, not cancelled.
DisconnectResumes(c) ==
  /\ pc[c] = "await" /\ pc[awaits[c]] = "done"
  /\ task' = NoOne
  /\ CloseNow
  /\ pc' = [pc EXCEPT ![c] = "done"]
  /\ awaits' = [awaits EXCEPT ![c] = NoOne]
  /\ UNCHANGED <<dialled, lock, attempts, cancelled, quit>>

-----------------------------------------------------------------------------
(* handle_connection_lost and _reconnect_loop *)

\* The connection breaks. The transport does not learn of it: the protocols of
\* src/ do not call handle_connection_lost from their connection_lost.
Break ==
  /\ Polls /\ sock \in open
  /\ open' = open \ {sock}
  /\ UNCHANGED <<state, sock, dialled, lock, task, attempts, pc, awaits, cancelled, quit>>

\* A user of the transport reports the loss of its connection, some time after
\* the break or never.
HandleConnectionLost ==
  /\ Polls /\ sock # NoSock /\ sock \notin open
  /\ sock' = NoSock
  /\ IF Reconnect /\ state # "disconnected"
     THEN \E l \in Loop :
            /\ pc[l] = "unused" /\ \A k \in 1..(l - 1) : pc[k] # "unused"
            /\ pc' = [pc EXCEPT ![l] = "created"]
            /\ task' = l
     ELSE UNCHANGED <<pc, task>>
  /\ UNCHANGED <<state, open, dialled, lock, attempts, awaits, cancelled, quit>>

LoopStarts(l) ==
  /\ pc[l] = "created" /\ l \notin cancelled
  /\ LoopHead(l, "reconnecting")
  /\ UNCHANGED <<connVars, lock, task, awaits, cancelled>>

\* Mutant of LoopWakes: it dials without connect() and its lock and tests.
LoopWakesUnchecked(l) ==
  /\ Polls /\ pc[l] = "sleep"
  /\ pc' = [pc EXCEPT ![l] = "dial"]
  /\ state' = "connecting" /\ lock' = l
  /\ UNCHANGED <<connVars, task, attempts, awaits, cancelled, quit>>

\* The interval is over: unless disconnect was called, connect again.
LoopWakes(l) ==
  /\ Polls /\ pc[l] = "sleep"
  /\ IF state = "disconnected"
     THEN pc' = [pc EXCEPT ![l] = "done"] /\ UNCHANGED <<state, lock>>
     ELSE CallConnect(l)
  /\ UNCHANGED <<connVars, task, attempts, awaits, cancelled, quit>>

-----------------------------------------------------------------------------
Init ==
  /\ state = "disconnected" /\ sock = NoSock /\ lock = NoOne /\ task = NoOne
  /\ attempts = 0 /\ cancelled = {} /\ open = {} /\ dialled = 0 /\ quit = {}
  /\ awaits = [c \in Caller |-> NoOne]
  /\ pc = [p \in Process |-> IF p \in Caller THEN "done" ELSE "unused"]

Next ==
  \/ \E c \in Caller : Connect(c)
  \/ \E c \in Caller : Disconnect(c)
  \/ \E c \in Caller : DisconnectResumes(c)
  \/ \E p \in Process : Acquire(p)
  \/ \E p \in Process : DialOk(p)
  \/ \E p \in Process : DialFail(p)
  \/ \E l \in Loop : Cancelled(l)
  \/ \E l \in Loop : LoopStarts(l)
  \/ \E l \in Loop : LoopWakes(l)
  \/ Break
  \/ HandleConnectionLost

Spec == Init /\ [][Next]_vars

\* Timers fire, dialling ends (connect_timeout), a cancelled task is run, and
\* asyncio.Lock serves its waiters in turn.
Fairness ==
  /\ \A c \in Caller : WF_vars(DisconnectResumes(c))
  /\ \A p \in Process : SF_vars(Acquire(p)) /\ WF_vars(DialOk(p) \/ DialFail(p))
  /\ \A l \in Loop : WF_vars(Cancelled(l)) /\ WF_vars(LoopStarts(l)) /\ WF_vars(LoopWakes(l))

FairSpec == Spec /\ Fairness

-----------------------------------------------------------------------------
(* Properties *)

TypeOK ==
  /\ state \in {"disconnected", "connecting", "connected", "reconnecting", "error"}
  /\ sock \in 0..Dials /\ lock \in Process \cup {NoOne} /\ task \in Loop \cup {NoOne}
  /\ attempts \in 0..(Loops + 1) /\ cancelled \subseteq Loop
  /\ pc \in [Process -> {"unused", "created", "sleep", "lock", "dial", "await", "done"}]
  /\ open \subseteq 1..Dials /\ dialled \in 0..Dials

\* No connection is forgotten: however connect, disconnect and the loops
\* overlap, what is open is what the transport refers to.
Tracked == open \subseteq {sock}

\* A transport that is CONNECTED refers to a connection, one that is open or one
\* that has broken and nobody has reported; without one, a reported loss is about
\* to be acted upon, by the reconnect loop or by the disconnect that cancelled it.
ConnectedIsOpen ==
  state = "connected" => \/ sock # NoSock
                         \/ \E l \in Loop : pc[l] = "created"
                         \/ \E c \in Caller : pc[c] = "await"

\* A transport whose state says CONNECTED has not dropped its connection: it
\* refers to one, broken perhaps and not reported, or a reported loss or a
\* disconnect is being dealt with; attempts and dials stay within their limits
\* (transport/base.py).
TransportConsistent == TypeOK /\ ConnectedIsOpen

\* Only one task dials at a time, and it holds the lock.
OneDials == \A p \in Process : pc[p] = "dial" => lock = p

\* Every call of connect and disconnect returns or raises.
CallsReturn == \A c \in Caller : pc[c] # "done" ~> pc[c] = "done"

\* The code does not keep this one (README, "Where the code departs"):
\* A reconnect loop gives up only at max_reconnect_attempts, and never if that
\* is 0 (unlimited).
GivesUpAtLimit == \A n \in quit : MaxAttempts > 0 /\ n > MaxAttempts

\* Nor this one: a transport that is CONNECTED is connected ("built-in
\* reconnection, state management, and health monitoring", transport/base.py:4).
ConnectedIsUp == state = "connected" /\ sock # NoSock => sock \in open

-----------------------------------------------------------------------------
(* Why the transport keeps track, as inductive invariants *)

Where == {"unused", "created", "sleep", "lock", "dial", "await", "done"}

\* A transport that has a connection is CONNECTED, and no task is about to give
\* it another one: none dials, and none is about to overwrite the state.
Settled ==
  sock # NoSock => /\ state = "connected"
                   /\ \A p \in Process : pc[p] # "dial"
                   /\ \A l \in Loop : pc[l] # "created"

\* Connections are numbered from 1, so NoSock is none of them.
Numbered == dialled \in Nat /\ NoSock \notin open

\* Inductive.
DialInv == pc \in [Process -> Where] /\ OneDials /\ Settled /\ Tracked /\ Numbered

\* Loops that have counted their attempt.
Started == {l \in Loop : pc[l] \notin {"unused", "created"}}

\* A loop that was cancelled is awaited until it is done.
CancelInv ==
  /\ awaits \in [Caller -> Loop \cup {NoOne}]
  /\ \A l \in cancelled : pc[l] # "done" => \E c \in Caller : pc[c] = "await" /\ awaits[c] = l

\* The rest of the types.
RangeInv ==
  /\ state \in {"disconnected", "connecting", "connected", "reconnecting", "error"}
  /\ sock \in 0..Dials /\ lock \in Process \cup {NoOne} /\ task \in Loop \cup {NoOne}
  /\ cancelled \subseteq Loop /\ open \subseteq 1..Dials /\ dialled \in 0..Dials

=============================================================================
