------------------------------ MODULE PyProxy ------------------------------
(***************************************************************************)
(* CBusProxy (python-legacy/cbus-proxy/proxy.py): clients that connect and *)
(* leave, the single reader task that broadcasts what the CNI says, the    *)
(* clients' tasks that forward commands, the connection to the CNI that    *)
(* any client may re-establish, and shutdown.                              *)
(*                                                                         *)
(* A step extends to the next real suspension: dialling, the pauses of     *)
(* initialize_cni, a read, a drain, and clients_lock when it is taken.     *)
(***************************************************************************)
EXTENDS Integers, Sequences, FiniteSets

CONSTANTS
  Client,       \* each connects once
  Conns,        \* bound: connections to the CNI that succeed
  Responses,    \* bound: responses the CNI sends
  Commands      \* bound: commands a client sends

NoConn == 0

ProxyAssumption == Conns \in Nat /\ Responses \in Nat /\ Commands \in Nat

VARIABLES
  main,        \* start: "dial", "init", "serve", then "stopping", "stopped"
  cur,         \* cni_reader and cni_writer: a connection, or NoConn
  connected,   \* cni_connected
  task,        \* cni_task: "none", "read", "bcast", "send", "remove", "done"
  reading,     \* the connection whose reader the task waits on
  left,        \* clients the broadcast in progress has still to serve
  failed,      \* disconnected_clients of that broadcast
  locked,      \* clients_lock is held (by the broadcast)
  clients,     \* keys of clients
  pc,          \* Client -> where its handle_client is
  cmds,        \* Client -> commands taken from it
  open,        \* CNI connections the operating system has open
  dialled,     \* CNI connections made so far
  bcasts,      \* history: broadcasts started
  since,       \* history: Client -> broadcasts before it registered
  got          \* history: Client -> the broadcasts it received, in order

cniVars == <<cur, connected, open, dialled>>
readVars == <<task, reading, left, failed, locked>>
histVars == <<bcasts, since, got>>
vars == <<main, cniVars, readVars, clients, pc, cmds, histVars>>

running == main \in {"dial", "init", "serve"}

-----------------------------------------------------------------------------
(* The connection to the CNI *)

\* connect_to_cni, on success and on failure.
Dialled ==
  /\ dialled < Conns
  /\ dialled' = dialled + 1
  /\ cur' = dialled + 1 /\ open' = open \cup {dialled + 1}
  /\ connected' = TRUE

DialFailed == connected' = FALSE /\ UNCHANGED <<cur, open, dialled>>

\* The reader task is created only if there has never been one.
StartReader ==
  IF task = "none"
  THEN task' = "read" /\ reading' = cur
  ELSE UNCHANGED <<task, reading>>

StartDial ==
  /\ main = "dial"
  /\ \/ Dialled /\ main' = "init"
     \/ DialFailed /\ main' = "serve"
  /\ UNCHANGED <<readVars, clients, pc, cmds, histVars>>

\* initialize_cni is over (an error ends it too); the server starts to listen.
StartInit ==
  /\ main = "init"
  /\ main' = "serve"
  /\ IF connected THEN StartReader ELSE UNCHANGED <<task, reading>>
  /\ UNCHANGED <<cniVars, left, failed, locked, clients, pc, cmds, histVars>>

\* The CNI or the network closes a connection.
CniDrops ==
  \E k \in open :
    /\ open' = open \ {k}
    /\ UNCHANGED <<main, cur, connected, dialled, readVars, clients, pc, cmds,
                   histVars>>

-----------------------------------------------------------------------------
(* handle_client and forward_client_to_cni *)

\* A client connects and is registered; without a CNI it dials.
Register(c) ==
  /\ main = "serve" /\ pc[c] = "new" /\ ~locked
  /\ clients' = clients \cup {c}
  /\ since' = [since EXCEPT ![c] = bcasts]
  /\ pc' = [pc EXCEPT ![c] = IF connected THEN "forward" ELSE "dial"]
  /\ UNCHANGED <<main, cniVars, readVars, cmds, bcasts, got>>

ClientDial(c) ==
  /\ pc[c] = "dial"
  /\ \/ Dialled /\ pc' = [pc EXCEPT ![c] = "init"]
     \/ DialFailed /\ pc' = [pc EXCEPT ![c] = "forward"]
  /\ UNCHANGED <<main, readVars, clients, cmds, histVars>>

ClientInit(c) ==
  /\ pc[c] = "init"
  /\ StartReader
  /\ pc' = [pc EXCEPT ![c] = "forward"]
  /\ UNCHANGED <<main, cniVars, left, failed, locked, clients, cmds, histVars>>

\* A command: written to the CNI, dropped with a warning if there is none, and
\* if the write fails the CNI is declared gone.
Command(c) ==
  /\ running /\ pc[c] = "forward" /\ cmds[c] < Commands
  /\ cmds' = [cmds EXCEPT ![c] = @ + 1]
  /\ connected' = (connected /\ cur \in open)
  /\ UNCHANGED <<main, cur, open, dialled, readVars, clients, pc, histVars>>

ClientLeaves(c) ==
  /\ pc[c] = "forward"
  /\ pc' = [pc EXCEPT ![c] = "leaving"]
  /\ UNCHANGED <<main, cniVars, readVars, clients, cmds, histVars>>

\* The finally block of handle_client.
Unregister(c) ==
  /\ pc[c] = "leaving" /\ ~locked
  /\ clients' = clients \ {c}
  /\ pc' = [pc EXCEPT ![c] = "gone"]
  /\ UNCHANGED <<main, cniVars, readVars, cmds, histVars>>

-----------------------------------------------------------------------------
(* cni_reader_task and broadcast_to_clients *)

\* A response arrives on the connection the task reads.
ReaderGets ==
  /\ task = "read" /\ reading \in open /\ bcasts < Responses
  /\ task' = "bcast"
  /\ UNCHANGED <<main, cniVars, reading, left, failed, locked, clients, pc, cmds,
                 histVars>>

BcastStart ==
  /\ task = "bcast" /\ ~locked
  /\ task' = "send" /\ locked' = TRUE
  /\ left' = clients /\ failed' = {}
  /\ bcasts' = bcasts + 1
  /\ UNCHANGED <<main, cniVars, reading, clients, pc, cmds, since, got>>

\* Mutant of BcastSend: the exception of one write ends the loop.
BcastSendAborts(c) ==
  /\ task = "send" /\ c \in left
  /\ \/ /\ got' = [got EXCEPT ![c] = Append(@, bcasts)]
        /\ left' = left \ {c}
        /\ UNCHANGED failed
     \/ /\ pc[c] \in {"leaving", "gone"}
        /\ failed' = failed \cup {c}
        /\ left' = {}
        /\ UNCHANGED got
  /\ UNCHANGED <<main, cniVars, task, reading, locked, clients, pc, cmds, bcasts,
                 since>>

\* One client's write and drain: it succeeds, or fails if the client has left.
\* A client that does not read keeps the task, and the lock, in the drain.
BcastSend(c) ==
  /\ task = "send" /\ c \in left
  /\ left' = left \ {c}
  /\ \/ /\ got' = [got EXCEPT ![c] = Append(@, bcasts)]
        /\ UNCHANGED failed
     \/ /\ pc[c] \in {"leaving", "gone"}
        /\ failed' = failed \cup {c}
        /\ UNCHANGED got
  /\ UNCHANGED <<main, cniVars, task, reading, locked, clients, pc, cmds, bcasts,
                 since>>

BcastEnd ==
  /\ task = "send" /\ left = {}
  /\ task' = "remove" /\ locked' = FALSE
  /\ UNCHANGED <<main, cniVars, reading, left, failed, clients, pc, cmds, histVars>>

\* The end of the task: it closes the writer of the moment.
ReaderEnds ==
  /\ connected' = FALSE
  /\ open' = open \ {cur}
  /\ task' = "done" /\ reading' = NoConn
  /\ UNCHANGED <<cur, dialled>>

\* The failed clients are removed; the loop goes on with the next packet of the
\* buffer, then with the reader of the moment, or it ends if the CNI has been
\* declared gone.
BcastRemove ==
  /\ task = "remove" /\ ~locked
  /\ clients' = clients \ failed
  /\ failed' = {}
  /\ \/ /\ bcasts < Responses
        /\ task' = "bcast" /\ UNCHANGED <<reading, cniVars>>
     \/ IF running /\ connected
        THEN task' = "read" /\ reading' = cur /\ UNCHANGED cniVars
        ELSE ReaderEnds
  /\ UNCHANGED <<main, left, locked, pc, cmds, histVars>>

ReaderEof ==
  /\ task = "read" /\ reading \notin open
  /\ ReaderEnds
  /\ UNCHANGED <<main, left, failed, locked, clients, pc, cmds, histVars>>

-----------------------------------------------------------------------------
(* shutdown *)

\* The reader task is cancelled, which releases the lock it holds, and the CNI
\* connection is closed.
ShutdownCancel ==
  /\ main = "serve"
  /\ main' = "stopping"
  /\ IF task \in {"none", "done"}
     THEN UNCHANGED <<connected, task, reading>>
     ELSE connected' = FALSE /\ task' = "done" /\ reading' = NoConn
  /\ open' = open \ {cur}
  /\ left' = {} /\ locked' = FALSE
  /\ UNCHANGED <<cur, dialled, failed, clients, pc, cmds, histVars>>

\* Every client is disconnected.
ShutdownClients ==
  /\ main = "stopping" /\ ~locked
  /\ main' = "stopped"
  /\ clients' = {}
  /\ pc' = [c \in Client |-> IF pc[c] = "forward" THEN "leaving" ELSE pc[c]]
  /\ UNCHANGED <<cniVars, readVars, cmds, histVars>>

-----------------------------------------------------------------------------
Init ==
  /\ main = "dial" /\ cur = NoConn /\ connected = FALSE /\ open = {} /\ dialled = 0
  /\ task = "none" /\ reading = NoConn /\ left = {} /\ failed = {} /\ locked = FALSE
  /\ clients = {} /\ pc = [c \in Client |-> "new"] /\ cmds = [c \in Client |-> 0]
  /\ bcasts = 0 /\ since = [c \in Client |-> 0] /\ got = [c \in Client |-> <<>>]

\* The process is ending.
Stopped == ~running /\ UNCHANGED vars

Next ==
  \/ StartDial
  \/ StartInit
  \/ CniDrops
  \/ \E c \in Client : Register(c)
  \/ \E c \in Client : ClientDial(c)
  \/ \E c \in Client : ClientInit(c)
  \/ \E c \in Client : Command(c)
  \/ \E c \in Client : ClientLeaves(c)
  \/ \E c \in Client : Unregister(c)
  \/ ReaderGets
  \/ BcastStart
  \/ \E c \in Client : BcastSend(c)
  \/ BcastEnd
  \/ BcastRemove
  \/ ReaderEof
  \/ ShutdownCancel
  \/ ShutdownClients
  \/ Stopped

Spec == Init /\ [][Next]_vars

\* Timers fire, dialling ends, data and end of file are seen; every client
\* reads what it is sent.
Fairness ==
  /\ WF_vars(StartDial) /\ WF_vars(StartInit)
  /\ \A c \in Client : /\ SF_vars(Register(c)) /\ SF_vars(Unregister(c))
                       /\ WF_vars(ClientDial(c)) /\ WF_vars(ClientInit(c))
                       /\ WF_vars(BcastSend(c))
  /\ SF_vars(BcastStart) /\ WF_vars(BcastEnd) /\ SF_vars(BcastRemove)
  /\ WF_vars(ReaderEof) /\ SF_vars(ShutdownClients)

FairSpec == Spec /\ Fairness

-----------------------------------------------------------------------------
(* Properties *)

TypeOK ==
  /\ main \in {"dial", "init", "serve", "stopping", "stopped"}
  /\ cur \in 0..Conns /\ connected \in BOOLEAN /\ open \subseteq 1..Conns
  /\ task \in {"none", "read", "bcast", "send", "remove", "done"}
  /\ reading \in 0..Conns /\ left \subseteq Client /\ failed \subseteq Client
  /\ locked = (task = "send")
  /\ clients \subseteq Client
  /\ pc \in [Client -> {"new", "dial", "init", "forward", "leaving", "gone"}]

\* broadcast_to_clients holds the lock for the whole broadcast, so a client
\* receives every broadcast since it registered, once and in order, whatever
\* other clients do in the meantime.
EveryClientHears ==
  main = "serve" => \A c \in clients \ failed :
    got[c] = [i \in 1..(bcasts - since[c] - IF c \in left THEN 1 ELSE 0) |-> since[c] + i]

\* A client whose handler has returned is not registered.
GoneIsUnregistered == \A c \in Client : pc[c] = "gone" => c \notin clients

\* A registered client hears every response since it registered, once and in
\* order, while others come, go and fail; one whose handler has returned hears
\* nothing more (broadcast_to_clients, handle_client).
RelayIsComplete == TypeOK /\ EveryClientHears /\ GoneIsUnregistered

\* A client that has left is unregistered in the end, even while the CNI talks.
LeaversUnregister == \A c \in Client : pc[c] = "leaving" ~> pc[c] = "gone"

\* The code does not keep this one (README, "Where the code departs"):
\* While the proxy has a CNI connection that no client is setting up, a task
\* reads it: connected clients receive the CNI's responses.
ClientsAreServed ==
  /\ main = "serve" /\ connected
  /\ \E c \in Client : pc[c] = "forward"
  /\ \A c \in Client : pc[c] \notin {"dial", "init"}
  => task \notin {"none", "done"}

\* The code does not keep this one (README, "Where the code departs"):
\* The proxy has a single connection to the CNI.
SingleConnection == Cardinality(open) <= 1

-----------------------------------------------------------------------------
(* Why the relay is complete, as an inductive invariant. *)

Place == {"new", "dial", "init", "forward", "leaving", "gone"}

\* The connection and the reader task.
ReaderInv ==
  /\ main \in {"dial", "init", "serve", "stopping", "stopped"}
  /\ cur \in 0..Conns /\ open \subseteq 1..Conns
  /\ dialled \in 0..Conns /\ reading \in 0..Conns
  /\ task \in {"none", "read", "bcast", "send", "remove", "done"}

\* The lock is held by the reader in a broadcast.
LockInv ==
  /\ connected \in BOOLEAN /\ locked \in BOOLEAN
  /\ locked <=> task = "send"

\* The clients: who is being served is registered, nobody is served or failed
\* outside a broadcast, nobody is registered before the proxy serves, before it
\* arrives or after it is gone.
ClientInv ==
  /\ pc \in [Client -> Place] /\ clients \subseteq Client
  /\ left \subseteq clients /\ failed \subseteq Client
  /\ task # "send" => left = {}
  /\ running /\ task \notin {"send", "remove"} => failed = {}
  /\ main \in {"dial", "init"} => clients = {}
  /\ \A c \in clients : pc[c] \notin {"new", "gone"}

\* What a client has received: nothing before it registers, and then all but
\* the broadcast it has still to be served with.
HeardInv ==
  /\ bcasts \in Nat /\ since \in [Client -> Nat] /\ got \in [Client -> Seq(Nat)]
  /\ \A c \in Client : since[c] <= bcasts /\ (pc[c] = "new" => got[c] = <<>>)
  /\ \A c \in left : since[c] < bcasts

\* The inductive invariant.
RelayInv == ReaderInv /\ LockInv /\ ClientInv /\ HeardInv /\ EveryClientHears

=============================================================================
