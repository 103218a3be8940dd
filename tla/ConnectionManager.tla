-------------------------- MODULE ConnectionManager --------------------------
(***************************************************************************)
(* The engine's server process (interface/socket/server.cpp): the main     *)
(* thread's poll loop, the table of connections with one worker thread     *)
(* each, the queue through which ended workers ask to be cleaned up, and   *)
(* the stop by signal or by CMD_TERMINATESERVER.                           *)
(*                                                                         *)
(* A worker is at the top of its loop ("loop"), waits in Receive for a     *)
(* command ("receive"), waits in a handler for the rest of the request     *)
(* ("request") or for its client to take the answer ("answer"), works      *)
(* ("acting"), is past its loop ("leaving": it still has to push its id)   *)
(* or gone ("ended").  The server's sockets have no timeout, and closing   *)
(* one does not wake a thread that waits on it: only the client does, by   *)
(* going on or by closing its end.                                         *)
(*                                                                         *)
(* The names of the specification begin with Manager: a module that        *)
(* extends WireProtocol can extend this one too.                           *)
(***************************************************************************)
EXTENDS Naturals, FiniteSets

CONSTANTS
    Conns,            \* bound: connections clients open, each once
    MAX_CONNECTIONS   \* entries connections_ may hold

ASSUME ConnectionManagerAssumption ==
    /\ IsFiniteSet(Conns)
    /\ MAX_CONNECTIONS \in Nat \ {0}

VARIABLES
    running,      \* g_running
    looper,       \* main thread: "poll", "drain", "shutdown", "stopped"
    joining,      \* connections whose worker Remove() waits for (at most one)
    arrived,      \* connections clients have opened
    backlog,      \* those the listener has not accepted yet
    connections,  \* connections_
    cleanup,      \* g_cleanup_queue; a worker pushes its id once
    sockets,      \* accepted sockets the server has not closed
    peers,        \* sockets the clients have not closed
    worker,       \* state of each connection's thread
    info          \* ConnectionInfo objects that exist

managerVars == <<running, looper, joining, arrived, backlog, connections, cleanup, sockets, peers, worker,
                 info>>

\* The main thread holds g_cleanup_mutex while it empties the queue, the joins
\* of Remove included.
CleanupMutexFree == looper # "drain"

\* The worker waits for a client that has not closed its socket.
Blocked(c) == worker[c] \in {"receive", "request", "answer"} /\ c \in peers

\* A client connects: the listener's backlog takes it until main() closes it.
Connect(c) ==
    /\ c \notin arrived /\ looper # "stopped"
    /\ arrived' = arrived \cup {c}
    /\ backlog' = backlog \cup {c}
    /\ peers' = peers \cup {c}
    /\ UNCHANGED <<running, looper, joining, connections, cleanup, sockets, worker, info>>

\* A client closes its socket.
Disconnect(c) ==
    /\ c \in peers
    /\ peers' = peers \ {c}
    /\ UNCHANGED <<running, looper, joining, arrived, backlog, connections, cleanup, sockets, worker, info>>

\* Register: past the limit it returns 0 and accept_callback deletes the socket.
Register(c) ==
    IF Cardinality(connections) >= MAX_CONNECTIONS
    THEN UNCHANGED <<connections, sockets, worker, info>>
    ELSE /\ connections' = connections \cup {c}
         /\ sockets' = sockets \cup {c}
         /\ worker' = [worker EXCEPT ![c] = "loop"]
         /\ info' = info \cup {c}

\* accept_callback, run by ALooper_pollOnce.
Accept(c) ==
    /\ looper = "poll" /\ c \in backlog
    /\ backlog' = backlog \ {c}
    /\ Register(c)
    /\ UNCHANGED <<running, looper, joining, arrived, cleanup, peers>>

\* WorkerThread goes on while it is not stopped and its socket is valid.
WorkerLoops(c) ==
    /\ worker[c] = "loop"
    /\ worker' = [worker EXCEPT ![c] = IF c \in sockets THEN "receive" ELSE "leaving"]
    /\ UNCHANGED <<running, looper, joining, arrived, backlog, connections, cleanup, sockets, peers, info>>

\* A command has arrived and is dispatched, also when the socket was closed on
\* this side meanwhile: then the handler cannot read a parameter.
WorkerDispatches(c) ==
    /\ worker[c] = "receive" /\ c \in peers
    /\ \E next \in IF c \in sockets THEN {"request", "acting"} ELSE {"loop", "acting"} :
         worker' = [worker EXCEPT ![c] = next]
    /\ UNCHANGED <<running, looper, joining, arrived, backlog, connections, cleanup, sockets, peers, info>>

\* The client sends the rest of its request, or takes the answer.
ClientServes(c) ==
    /\ worker[c] \in {"request", "answer"} /\ c \in peers
    /\ worker' = [worker EXCEPT ![c] = IF @ = "request" THEN "acting" ELSE "loop"]
    /\ UNCHANGED <<running, looper, joining, arrived, backlog, connections, cleanup, sockets, peers, info>>

\* The handler has done its work, -1 included, and has an answer to send or has
\* not; CMD_CLOSECONNECTION has closed the socket, CMD_TERMINATESERVER has
\* closed it and stops the server.
WorkerReturns(c) ==
    /\ worker[c] = "acting"
    /\ \E closes, terminates, answers \in BOOLEAN :
         /\ terminates => closes
         /\ answers => c \in sockets /\ ~closes
         /\ worker' = [worker EXCEPT ![c] = IF answers THEN "answer" ELSE "loop"]
         /\ sockets' = IF closes THEN sockets \ {c} ELSE sockets
         /\ running' = (running /\ ~terminates)
    /\ UNCHANGED <<looper, joining, arrived, backlog, connections, cleanup, peers, info>>

\* The client is gone: Receive fails and the loop ends; a handler that waited
\* returns to it.
WorkerLeaves(c) ==
    /\ worker[c] \in {"receive", "request", "answer"} /\ c \notin peers
    /\ worker' = [worker EXCEPT ![c] = IF @ = "receive" THEN "leaving" ELSE "loop"]
    /\ UNCHANGED <<running, looper, joining, arrived, backlog, connections, cleanup, sockets, peers, info>>

\* Mutant: the thread ends without asking to be cleaned up.
WorkerEndsSilently(c) ==
    /\ worker[c] = "leaving"
    /\ worker' = [worker EXCEPT ![c] = "ended"]
    /\ UNCHANGED <<running, looper, joining, arrived, backlog, connections, cleanup, sockets, peers, info>>

\* WorkerThread: the id goes to the cleanup queue, the thread ends.
WorkerEnds(c) ==
    /\ worker[c] = "leaving" /\ CleanupMutexFree
    /\ worker' = [worker EXCEPT ![c] = "ended"]
    /\ cleanup' = cleanup \cup {c}
    /\ UNCHANGED <<running, looper, joining, arrived, backlog, connections, sockets, peers, info>>

\* Remove: off the table, stopped, socket closed; then the join.
RemoveConnection(c) ==
    /\ connections' = connections \ {c}
    /\ sockets' = sockets \ {c}
    /\ joining' = {c}

\* ALooper_pollOnce returns and the main thread takes g_cleanup_mutex.
PollReturns ==
    /\ looper = "poll" /\ (cleanup # {} \/ ~running)
    /\ looper' = "drain"
    /\ UNCHANGED <<running, joining, arrived, backlog, connections, cleanup, sockets, peers, worker, info>>

\* ALooper_pollOnce reports an error: out of the loop.
PollFails ==
    /\ looper = "poll" /\ looper' = "shutdown"
    /\ UNCHANGED <<running, joining, arrived, backlog, connections, cleanup, sockets, peers, worker, info>>

\* One entry of the queue; an id that is no longer in the table is skipped.
Drain(c) ==
    /\ looper = "drain" /\ joining = {} /\ c \in cleanup
    /\ cleanup' = cleanup \ {c}
    /\ RemoveConnection(c)
    /\ UNCHANGED <<running, looper, arrived, backlog, peers, worker, info>>

\* Mutant: the thread is detached instead of joined.
JoinDetached(c) ==
    /\ joining' = {}
    /\ info' = info \ {c}

\* The join returns once the thread has ended; ~ConnectionInfo follows.
JoinReturns(c) ==
    /\ worker[c] = "ended"
    /\ joining' = {}
    /\ info' = info \ {c}

Join(c) ==
    /\ c \in joining
    /\ JoinReturns(c)
    /\ UNCHANGED <<running, looper, arrived, backlog, connections, cleanup, sockets, peers, worker>>

\* The queue is empty: on with the loop, or out of it.
Drained ==
    /\ looper = "drain" /\ joining = {} /\ cleanup = {}
    /\ looper' = IF running THEN "poll" ELSE "shutdown"
    /\ UNCHANGED <<running, joining, arrived, backlog, connections, cleanup, sockets, peers, worker, info>>

\* handle_signal.
Signal ==
    /\ running
    /\ running' = FALSE
    /\ UNCHANGED <<looper, joining, arrived, backlog, connections, cleanup, sockets, peers, worker, info>>

\* ShutdownAll removes the connections one after the other.
ShutdownAll(c) ==
    /\ looper = "shutdown" /\ joining = {} /\ c \in connections
    /\ RemoveConnection(c)
    /\ UNCHANGED <<running, looper, arrived, backlog, cleanup, peers, worker, info>>

\* The listener is closed last.
Stop ==
    /\ looper = "shutdown" /\ joining = {} /\ connections = {}
    /\ looper' = "stopped" /\ backlog' = {}
    /\ UNCHANGED <<running, joining, arrived, connections, cleanup, sockets, peers, worker, info>>

ManagerInit ==
    /\ running = TRUE /\ looper = "poll" /\ joining = {}
    /\ arrived = {} /\ backlog = {} /\ connections = {} /\ cleanup = {} /\ sockets = {}
    /\ peers = {}
    /\ worker = [c \in Conns |-> "none"] /\ info = {}

Main ==
    \/ PollReturns \/ Drained \/ Stop
    \/ \E c \in Conns : Accept(c) \/ Drain(c) \/ Join(c) \/ ShutdownAll(c)

Thread(c) == WorkerLoops(c) \/ WorkerReturns(c) \/ WorkerLeaves(c) \/ WorkerEnds(c)

ManagerNext ==
    \/ Main \/ PollFails \/ Signal
    \/ \E c \in Conns :
        Thread(c) \/ WorkerDispatches(c) \/ ClientServes(c) \/ Connect(c) \/ Disconnect(c)

ManagerSpec == ManagerInit /\ [][ManagerNext]_managerVars

\* Threads keep running and the work of a handler ends (the longest, the UXN
\* wait, after 60 s).  Clients may do nothing at all, not even close.
FairManager ==
    /\ ManagerSpec
    /\ WF_managerVars(Main)
    /\ \A c \in Conns : WF_managerVars(Thread(c))

-----------------------------------------------------------------------------
\* Every variable stays in its domain.
ManagerTypeOK ==
    /\ running \in BOOLEAN
    /\ looper \in {"poll", "drain", "shutdown", "stopped"}
    /\ \A s \in {joining, arrived, backlog, connections, cleanup, sockets, peers, info} : s \subseteq Conns
    /\ Cardinality(joining) <= 1
    /\ worker \in [Conns -> {"none", "loop", "receive", "request", "acting", "answer", "leaving",
                           "ended"}]

\* At most MAX_CONNECTIONS threads and sockets exist besides the one being
\* joined: an ended connection counts until the main loop has cleaned it up.
ThreadsBounded == Cardinality(info) <= MAX_CONNECTIONS + Cardinality(joining)

\* ~ConnectionInfo, which deletes the socket, never runs under a thread that still
\* uses it.
InfoOutlivesWorker == \A c \in Conns : worker[c] \notin {"none", "ended"} => c \in info

\* Remove() waits for a thread that waits for its client.
JoinHangs == \E c \in joining : Blocked(c)

\* A connection that either side has closed gives its place back, however often
\* clients come and go.  Only a stopping server may fail to get there: it hangs
\* in the join of a worker whose client neither goes on nor closes.
ClosedIsReaped ==
    \/ <>[]JoinHangs
    \/ \A c \in Conns : (c \in connections /\ c \notin sockets \cap peers) ~> c \notin connections

\* A stop by signal or command ends the process under the same exception, also
\* inside a long command and with clients that keep connecting.
StopEnds == <>[]JoinHangs \/ (~running ~> looper = "stopped")

=============================================================================
