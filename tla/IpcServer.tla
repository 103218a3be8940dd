----------------------------- MODULE IpcServer -----------------------------
(***************************************************************************)
(* The GUI's HTTP server (IpcServer.cpp) and the MCP bridges that call it  *)
(* (ipc_client.py and the tools): accept thread, queue of accepted         *)
(* connections, workers, the dispatch of a request to the memory service,  *)
(* the symbol table kept for symbol_list, the bridge's timeouts and        *)
(* retries, and Stop().                                                    *)
(*                                                                         *)
(* A connection is a record: who called, with which method, what the       *)
(* client has sent of it and what came back.  The service is what its own  *)
(* modules show of it: an operation is carried out on the target of its    *)
(* context, or refused.  A target is named by its revision, a UXN event by *)
(* its sequence number.                                                    *)
(***************************************************************************)
EXTENDS Naturals, Sequences, FiniteSets

CONSTANTS
    Bridges, NoBridge,   \* MCP processes; no bridge: any other local client
    Scenes,              \* who may do what, and how often: see Init
    Workers,             \* the kIpcWorkerCount threads; a scene starts some of them
    MaxPending,          \* kMaxPendingIpcClients
    MaxRevs              \* bound: process selections

ASSUME BoundsAssumption ==
    /\ IsFiniteSet(Workers) /\ Workers # {} /\ NoBridge \notin Bridges
    /\ MaxPending \in Nat \ {0}

\* The methods of the server that the bridges call, and the bridges' tools:
\* "resume" is resume_uxn_breakpoint(set_x0), two calls.
Methods == {"open_process", "symbol_init", "symbol_list", "read_memory", "read_bp_info",
            "uxn_wait", "uxn_status", "uxn_resume"}
Tools == (Methods \ {"uxn_resume"}) \cup {"resume"}

ASSUME SceneAssumption == \A s \in Scenes :
    /\ s.workers \subseteq Workers
    /\ s.tools \in [Bridges -> SUBSET Tools] /\ s.calls \in [Bridges -> Nat]

VARIABLES
    scene,      \* the scene that is played
    running, listening, stopping,   \* running_, listenSocket_, stopClientWorkers_
    stop,       \* Stop(): "no", "wake", "close", "join", "swap", "notify", "done"
    server,     \* accept thread: "load", "enter", "accept", "push", "notify", "done"
    taken,      \* the connection the accept thread holds, 0: none
    backlog, queue,
    worker,     \* each worker: its step, connection, context, result
    conn,       \* the connections made so far
    bridge,     \* each bridge: its tool, step, attempt, connection, event cache
    rev,        \* revision of the selected process
    table,      \* legacySymbolTable_: the revision it is of, 0: none
    slot,       \* the UXN slot: installed, paused, sequence, number of resumes
    executed,   \* history: how often a tool call has changed something
    drained,    \* history: how often a tool call has taken hits from the device
    written     \* history: the last registers written back: stale? after a rival's resume?

vars == <<scene, running, listening, stopping, stop, server, taken, backlog, queue, worker, conn, bridge,
          rev, table, slot, executed, drained, written>>
control == <<scene, running, listening, stopping, stop>>
accepts == <<server, taken, backlog>>
device  == <<rev, table, slot, executed, drained, written>>

\* Mutant: everything is worth a second try.
RetryableAll == Methods
_RETRYABLE_METHODS == {"symbol_list", "read_memory", "read_bp_info", "uxn_status"}
_DEFAULT_RETRIES == 1       \* 2 in the code

\* The wait and the calls of a resume pass retries=0.
_effective_retries(tool, method) ==
    IF method \in _RETRYABLE_METHODS /\ tool = method THEN _DEFAULT_RETRIES ELSE 0

NoAnswer == [is |-> "none", rev |-> 0, seq |-> 0]
Answer(k, r, s) == [is |-> k, rev |-> r, seq |-> s]
Error == Answer("error", 0, 0)

Closed(c) == conn[c].state = "closed"
InSeq(q) == {q[i] : i \in DOMAIN q}
CloseAll(cs, S) == [c \in DOMAIN cs |-> IF c \in S THEN [cs[c] EXCEPT !.state = "closed"] ELSE cs[c]]

\* regs: the event whose registers the request carries; mark: history, the
\* resumes of the slot when its state was asked for; from: history, the target
\* when the request was made.
NewConn(who, method, id, sent, regs, mark) ==
    [who |-> who, method |-> method, id |-> id, sent |-> sent, regs |-> regs, mark |-> mark,
     from |-> rev, state |-> "open", answer |-> NoAnswer, left |-> FALSE]

\* A connection both sides are done with.
Over == [NewConn(NoBridge, "none", 0, "part", 0, 0) EXCEPT !.state = "closed", !.from = 0]

-----------------------------------------------------------------------------
(* The bridge: one tool at a time, over one connection per attempt.        *)

Idle == [tool |-> "none", method |-> "none", at |-> "idle", attempt |-> 0, conn |-> 0,
         id |-> 0, event |-> 0, mark |-> 0, out |-> "none"]

\* connect() is refused once nobody listens: no retry.
Connect(b, br, method) ==
    IF listening
    THEN /\ Len(conn) < scene.conns
         /\ conn' = Append(conn, NewConn(b, method, br.id, "whole", br.event, br.mark))
         /\ backlog' = Append(backlog, Len(conn) + 1)
         /\ bridge' = [bridge EXCEPT ![b] = [br EXCEPT !.method = method, !.at = "waiting",
                                                       !.conn = Len(conn) + 1]]
    ELSE /\ bridge' = [bridge EXCEPT ![b] = [br EXCEPT !.at = "idle", !.out = "error"]]
         /\ UNCHANGED <<conn, backlog>>

\* A tool is called.  resume_uxn_breakpoint(set_x0) needs a cached event.
CallTool(b, t) ==
    LET br == [bridge[b] EXCEPT !.tool = t, !.id = @ + 1, !.attempt = 0, !.out = "none"]
    IN  /\ bridge[b].at = "idle" /\ bridge[b].id < scene.calls[b]
        /\ t = "resume" => bridge[b].event # 0
        /\ Connect(b, br, IF t = "resume" THEN "uxn_status" ELSE t)
        /\ UNCHANGED <<control, server, taken, queue, worker, device>>

\* The status has been asked for and matches the cached event: the registers
\* of that event go back with the resume.
ThenResume(b) ==
    /\ bridge[b].at = "checked"
    /\ Connect(b, bridge[b], "uxn_resume")
    /\ UNCHANGED <<control, server, taken, queue, worker, device>>

\* Mutant: any paused event will do.
TakenAnyPaused(br, a) ==
    CASE a.is = "error" -> [br EXCEPT !.at = "idle", !.out = "error"]
      [] a.is = "event" -> [br EXCEPT !.at = "idle", !.out = "ok", !.event = a.seq]
      [] a.is = "status" /\ br.tool = "resume" ->
             IF a.seq # 0 THEN [br EXCEPT !.at = "checked", !.mark = a.rev]
             ELSE [br EXCEPT !.at = "idle", !.out = "error"]
      [] a.is = "resumed" -> [br EXCEPT !.at = "idle", !.out = "ok", !.event = 0]
      [] OTHER -> [br EXCEPT !.at = "idle", !.out = "ok"]

\* What the tool does with a whole answer.
Taken(br, a) ==
    CASE a.is = "error" -> [br EXCEPT !.at = "idle", !.out = "error"]
      [] a.is = "event" -> [br EXCEPT !.at = "idle", !.out = "ok", !.event = a.seq]
      [] a.is = "status" /\ br.tool = "resume" ->
             IF a.seq = br.event THEN [br EXCEPT !.at = "checked", !.mark = a.rev]
             ELSE [br EXCEPT !.at = "idle", !.out = "error"]
      [] a.is = "resumed" -> [br EXCEPT !.at = "idle", !.out = "ok", !.event = 0]
      [] OTHER -> [br EXCEPT !.at = "idle", !.out = "ok"]

Reply(b) ==
    LET c == bridge[b].conn
    IN  /\ bridge[b].at = "waiting" /\ Closed(c) /\ conn[c].answer # NoAnswer
        /\ bridge' = [bridge EXCEPT ![b] = Taken(bridge[b], conn[c].answer)]
        /\ conn' = [conn EXCEPT ![c] = Over]
        /\ UNCHANGED <<control, accepts, queue, worker, device>>

\* The wait for the answer ends without one: the time is up (a late answer is
\* lost), or the connection was closed on the bridge's side of the exchange.
GiveUp(b) ==
    LET br == bridge[b]
    IN  /\ br.at = "waiting" /\ ~(Closed(br.conn) /\ conn[br.conn].answer # NoAnswer)
        /\ conn' = [conn EXCEPT ![br.conn] = IF Closed(br.conn) THEN Over ELSE [@ EXCEPT !.left = TRUE]]
        /\ bridge' = [bridge EXCEPT ![b] =
              IF br.attempt < _effective_retries(br.tool, br.method)
              THEN [br EXCEPT !.at = "retry", !.attempt = @ + 1]
              ELSE [br EXCEPT !.at = "idle", !.out = "error"]]
        /\ UNCHANGED <<control, accepts, queue, worker, device>>

\* A connection closed without an answer may also surface as an exception
\* that call() does not catch (RemoteDisconnected): the tool fails at once.
Disconnected(b) ==
    LET br == bridge[b]
    IN  /\ br.at = "waiting" /\ Closed(br.conn) /\ conn[br.conn].answer = NoAnswer
        /\ bridge' = [bridge EXCEPT ![b] = [br EXCEPT !.at = "idle", !.out = "raised"]]
        /\ conn' = [conn EXCEPT ![br.conn] = Over]
        /\ UNCHANGED <<control, accepts, queue, worker, device>>

Retry(b) ==
    /\ bridge[b].at = "retry"
    /\ Connect(b, bridge[b], bridge[b].method)
    /\ UNCHANGED <<control, server, taken, queue, worker, device>>

\* Some other local client: its head is refused, its request never comes, or it
\* asks for much and does not read the answer.
Stranger(sent) ==
    /\ scene.strangers /\ listening /\ Len(conn) < scene.conns
    /\ conn' = Append(conn, NewConn(NoBridge, IF sent = "whole" THEN "read_memory" ELSE "none",
                                     0, sent, 0, 0))
    /\ backlog' = Append(backlog, Len(conn) + 1)
    /\ UNCHANGED <<control, server, taken, queue, worker, bridge, device>>

\* It may go away, at any time or never.
StrangerLeaves(c) ==
    /\ c \in DOMAIN conn /\ conn[c].who = NoBridge /\ conn[c].sent = "whole" /\ ~conn[c].left
    /\ conn' = [conn EXCEPT ![c] = IF Closed(c) THEN Over ELSE [@ EXCEPT !.left = TRUE]]
    /\ UNCHANGED <<control, accepts, queue, worker, bridge, device>>

-----------------------------------------------------------------------------
(* The accept thread.  Closing the listening socket does not wake a thread *)
(* that is already inside accept(): the socket lives on until it returns.  *)

ServerLoads ==
    /\ server = "load"
    /\ server' = IF listening THEN "enter" ELSE "done"
    /\ UNCHANGED <<control, taken, backlog, queue, worker, conn, bridge, device>>

ServerEnters ==
    /\ server = "enter"
    /\ server' = IF listening THEN "accept" ELSE "done"
    /\ UNCHANGED <<control, taken, backlog, queue, worker, conn, bridge, device>>

\* accept() returns; with running_ gone the loop ends, and what is left in the
\* backlog goes with the listening socket.
ServerAccepts ==
    /\ server = "accept" /\ backlog # <<>>
    /\ IF running
       THEN /\ server' = "push" /\ taken' = Head(backlog) /\ backlog' = Tail(backlog)
            /\ UNCHANGED conn
       ELSE /\ server' = "done" /\ taken' = 0
            /\ IF listening
               THEN backlog' = Tail(backlog) /\ conn' = CloseAll(conn, {Head(backlog)})
               ELSE /\ backlog' = <<>>
                    /\ conn' = CloseAll(conn, InSeq(backlog))
    /\ UNCHANGED <<control, queue, worker, bridge, device>>

\* Mutant: a full queue keeps the connection and forgets it.
ServerPushesKeeps ==
    /\ server = "push"
    /\ IF ~stopping /\ Len(queue) < MaxPending
       THEN queue' = Append(queue, taken) /\ server' = "notify"
       ELSE UNCHANGED queue /\ server' = "load"
    /\ taken' = 0
    /\ UNCHANGED <<control, backlog, worker, conn, bridge, device>>

ServerPushes ==
    /\ server = "push"
    /\ IF ~stopping /\ Len(queue) < MaxPending
       THEN queue' = Append(queue, taken) /\ server' = "notify" /\ UNCHANGED conn
       ELSE conn' = CloseAll(conn, {taken}) /\ server' = "load" /\ UNCHANGED queue
    /\ taken' = 0
    /\ UNCHANGED <<control, backlog, worker, bridge, device>>

\* notify_one: one waiting worker, if any.
ServerNotifies ==
    /\ server = "notify" /\ server' = "load"
    /\ IF \E w \in scene.workers : worker[w].at = "waiting"
       THEN \E w \in scene.workers : /\ worker[w].at = "waiting"
                               /\ worker' = [worker EXCEPT ![w].at = "ready"]
       ELSE UNCHANGED worker
    /\ UNCHANGED <<control, taken, backlog, queue, conn, bridge, device>>

-----------------------------------------------------------------------------
(* The workers.                                                            *)

Free == [at |-> "ready", conn |-> 0, ctx |-> 0, answer |-> NoAnswer]

\* Mutant: a worker that finds the queue empty goes, stopping or not.
WorkerTakesOrLeaves(w) ==
    /\ worker[w].at = "ready"
    /\ IF queue = <<>>
       THEN worker' = [worker EXCEPT ![w].at = "exited"] /\ UNCHANGED queue
       ELSE /\ worker' = [worker EXCEPT ![w] = [Free EXCEPT !.at = "receive", !.conn = Head(queue)]]
            /\ queue' = Tail(queue)
    /\ UNCHANGED <<control, accepts, conn, bridge, device>>

\* The predicate of the wait, under the queue's mutex.
WorkerTakes(w) ==
    /\ worker[w].at = "ready"
    /\ IF queue = <<>>
       THEN /\ worker' = [worker EXCEPT ![w].at = IF stopping THEN "exited" ELSE "waiting"]
            /\ UNCHANGED queue
       ELSE /\ worker' = [worker EXCEPT ![w] = [Free EXCEPT !.at = "receive", !.conn = Head(queue)]]
            /\ queue' = Tail(queue)
    /\ UNCHANGED <<control, accepts, conn, bridge, device>>

\* HandleClient: the request is whole, and its handler takes the context; or
\* it is refused, or ends early: the client closed, or a receive timed out.
WorkerReceives(w) ==
    LET c == worker[w].conn
    IN  /\ worker[w].at = "receive"
        /\ worker' = [worker EXCEPT ![w] =
              IF conn[c].sent = "whole" THEN [@ EXCEPT !.at = "operate", !.ctx = rev]
              ELSE [@ EXCEPT !.at = "answer", !.answer = Error]]
        /\ UNCHANGED <<control, accepts, queue, conn, bridge, device>>

Counted(c) == executed' = [executed EXCEPT ![conn[c].who][conn[c].id] = @ + 1]
Result(w, a) == worker' = [worker EXCEPT ![w].at = "answer", ![w].answer = a]
Fails(w) == Result(w, Error) /\ UNCHANGED device

open_process(w, c) ==
    IF worker[w].ctx = rev /\ rev < MaxRevs
    THEN /\ rev' = rev + 1 /\ Counted(c)
         /\ slot' = [slot EXCEPT !.installed = FALSE, !.paused = FALSE]
         /\ Result(w, Answer("opened", rev + 1, 0)) /\ UNCHANGED <<table, drained, written>>
    ELSE Fails(w)

\* The table is loaded, then stored under symbolCacheMutex_.
symbol_init(w, c) ==
    IF worker[w].ctx = rev
    THEN /\ worker' = [worker EXCEPT ![w].at = "store"] /\ Counted(c)
         /\ UNCHANGED <<rev, table, slot, drained, written>>
    ELSE Fails(w)

StoreSymbols(w) ==
    /\ worker[w].at = "store"
    /\ table' = worker[w].ctx
    /\ Result(w, Answer("loaded", worker[w].ctx, 0))
    /\ UNCHANGED <<control, accepts, queue, conn, bridge, rev, slot, executed, drained, written>>

\* Mutant: a table is a table.
symbol_listAny(w, c) == IF table # 0 THEN Result(w, Answer("page", table, 0)) ELSE Result(w, Error)

\* The page of the kept table, if it is of the target of the context.
symbol_list(w, c) ==
    Result(w, IF table # 0 /\ table = worker[w].ctx THEN Answer("page", table, 0) ELSE Error)

\* A large answer that changes nothing.
read_memory(w, c) ==
    Result(w, IF worker[w].ctx = rev THEN Answer("bulk", 0, 0) ELSE Error)

\* The device forgets the hits it hands out.
read_bp_info(w, c) ==
    IF worker[w].ctx = rev
    THEN /\ drained' = [drained EXCEPT ![conn[c].who][conn[c].id] = @ + 1]
         /\ Result(w, Answer("hits", 0, 0)) /\ UNCHANGED <<rev, table, slot, executed, written>>
    ELSE Fails(w)

\* Waits for an event newer than the one the bridge knows.
uxn_wait(w, c) ==
    Result(w, IF worker[w].ctx = rev /\ slot.paused /\ slot.seq # conn[c].regs
              THEN Answer("event", 0, slot.seq) ELSE Error)

\* The sequence of the paused event; 0 when the slot is not paused.
uxn_status(w, c) ==
    Result(w, IF worker[w].ctx = rev
              THEN Answer("status", slot.resumes, IF slot.paused THEN slot.seq ELSE 0) ELSE Error)

\* Resuming a slot that is not paused is an error of the driver.
uxn_resume(w, c) ==
    IF worker[w].ctx = rev /\ slot.paused
    THEN /\ Counted(c) /\ Result(w, Answer("resumed", 0, slot.seq))
         /\ written' = [stale |-> conn[c].regs # slot.seq, rival |-> conn[c].mark # slot.resumes]
         /\ slot' = [slot EXCEPT !.paused = FALSE, !.resumes = @ + 1]
         /\ UNCHANGED <<rev, table, drained>>
    ELSE Fails(w)

WorkerOperates(w) ==
    LET c == worker[w].conn
    IN  /\ worker[w].at = "operate"
        /\ CASE conn[c].method = "open_process" -> open_process(w, c)
             [] conn[c].method = "symbol_init"  -> symbol_init(w, c)
             [] conn[c].method = "symbol_list"  -> symbol_list(w, c) /\ UNCHANGED device
             [] conn[c].method = "read_memory"  -> read_memory(w, c) /\ UNCHANGED device
             [] conn[c].method = "read_bp_info" -> read_bp_info(w, c)
             [] conn[c].method = "uxn_wait"     -> uxn_wait(w, c) /\ UNCHANGED device
             [] conn[c].method = "uxn_status"   -> uxn_status(w, c) /\ UNCHANGED device
             [] conn[c].method = "uxn_resume"   -> uxn_resume(w, c)
        /\ UNCHANGED <<control, accepts, queue, conn, bridge>>

\* send() has no timeout: an answer that the socket's buffers do not hold waits
\* for a client that reads, or goes away.
Stuck(w) ==
    LET c == conn[worker[w].conn]
    IN  /\ worker[w].at = "answer" /\ worker[w].answer.is = "bulk"
        /\ c.who = NoBridge /\ ~c.left

\* The answer is sent and the socket closed.
WorkerAnswers(w) ==
    LET c == worker[w].conn
    IN  /\ worker[w].at = "answer" /\ ~Stuck(w)
        /\ conn' = [conn EXCEPT ![c] = IF @.left \/ @.who = NoBridge THEN Over
                       ELSE [@ EXCEPT !.state = "closed", !.answer = worker[w].answer]]
        /\ worker' = [worker EXCEPT ![w] = Free]
        /\ UNCHANGED <<control, accepts, queue, bridge, device>>

\* The breakpoint is hit: the thread stays in the slot until it is resumed.
Hit ==
    /\ slot.installed /\ ~slot.paused /\ slot.seq < scene.hits
    /\ slot' = [slot EXCEPT !.paused = TRUE, !.seq = @ + 1]
    /\ UNCHANGED <<control, accepts, queue, worker, conn, bridge, rev, table, executed, drained, written>>

\* The GUI's own UXN window, or a script, resumes the thread.
OtherResumes ==
    /\ slot.paused
    /\ slot' = [slot EXCEPT !.paused = FALSE, !.resumes = @ + 1]
    /\ UNCHANGED <<control, accepts, queue, worker, conn, bridge, rev, table, executed, drained, written>>

-----------------------------------------------------------------------------
(* Stop(), step by step.                                                   *)

StopBegins ==
    /\ scene.stops /\ stop = "no" /\ stop' = "wake" /\ running' = FALSE
    /\ UNCHANGED <<scene, listening, stopping, accepts, queue, worker, conn, bridge, device>>

StopWakes ==
    /\ stop = "wake" /\ stop' = "close"
    /\ conn' = Append(conn, NewConn(NoBridge, "none", 0, "part", 0, 0))
    /\ backlog' = Append(backlog, Len(conn) + 1)
    /\ UNCHANGED <<scene, running, listening, stopping, server, taken, queue, worker, bridge, device>>

\* The backlog goes with the socket, unless a thread is inside accept().
StopCloses ==
    /\ stop = "close" /\ stop' = "join" /\ listening' = FALSE
    /\ IF server = "accept" THEN UNCHANGED <<backlog, conn>>
       ELSE backlog' = <<>> /\ conn' = CloseAll(conn, InSeq(backlog))
    /\ UNCHANGED <<scene, running, stopping, server, taken, queue, worker, bridge, device>>

StopJoins ==
    /\ stop = "join" /\ server = "done" /\ stop' = "swap"
    /\ UNCHANGED <<scene, running, listening, stopping, accepts, queue, worker, conn, bridge, device>>

StopSwaps ==
    /\ stop = "swap" /\ stop' = "notify" /\ stopping' = TRUE
    /\ queue' = <<>> /\ conn' = CloseAll(conn, InSeq(queue))
    /\ UNCHANGED <<scene, running, listening, accepts, worker, bridge, device>>

StopNotifies ==
    /\ stop = "notify" /\ stop' = "workers"
    /\ worker' = [w \in scene.workers |-> IF worker[w].at = "waiting"
                                    THEN [worker[w] EXCEPT !.at = "ready"] ELSE worker[w]]
    /\ UNCHANGED <<scene, running, listening, stopping, accepts, queue, conn, bridge, device>>

StopReturns ==
    /\ stop = "workers" /\ \A w \in scene.workers : worker[w].at = "exited"
    /\ stop' = "done"
    /\ UNCHANGED <<scene, running, listening, stopping, accepts, queue, worker, conn, bridge, device>>

-----------------------------------------------------------------------------
\* Start() has bound the port and started the threads.
Init ==
    /\ scene \in Scenes
    /\ running = TRUE /\ listening = TRUE /\ stopping = FALSE /\ stop = "no"
    /\ server = "load" /\ taken = 0 /\ backlog = <<>> /\ queue = <<>>
    /\ worker = [w \in scene.workers |-> Free]
    /\ conn = <<>>
    /\ bridge = [b \in Bridges |-> Idle]
    /\ rev = 1 /\ table = 0
    /\ slot = [installed |-> TRUE, paused |-> FALSE, seq |-> 0, resumes |-> 0]
    /\ executed = [b \in Bridges |-> [i \in 1..scene.calls[b] |-> 0]]
    /\ drained = executed
    /\ written = [stale |-> FALSE, rival |-> FALSE]

WorkerStep(w) ==
    \/ WorkerTakes(w) \/ WorkerReceives(w) \/ WorkerOperates(w)
    \/ StoreSymbols(w) \/ WorkerAnswers(w)

ServerStep == ServerLoads \/ ServerEnters \/ ServerAccepts \/ ServerPushes \/ ServerNotifies

StopStep ==
    \/ StopWakes \/ StopCloses \/ StopJoins \/ StopSwaps \/ StopNotifies \/ StopReturns

Next ==
    \/ \E b \in Bridges :
        \/ \E t \in scene.tools[b] : CallTool(b, t)
        \/ ThenResume(b) \/ Reply(b) \/ GiveUp(b) \/ Disconnected(b) \/ Retry(b)
    \/ \E sent \in {"refused", "part", "whole"} : Stranger(sent)
    \/ \E c \in DOMAIN conn : StrangerLeaves(c)
    \/ \E w \in scene.workers : WorkerStep(w)
    \/ ServerStep
    \/ Hit
    \/ OtherResumes
    \/ StopBegins
    \/ StopStep

Spec == Init /\ [][Next]_vars

\* The server's threads run.  Nobody has to call, to read an answer, to go away
\* or to stop it.
FairSpec ==
    /\ Spec
    /\ WF_vars(ServerStep) /\ WF_vars(StopStep)
    /\ \A w \in Workers : WF_vars(w \in scene.workers /\ WorkerStep(w))

-----------------------------------------------------------------------------
\* Every variable stays in its domain.
TypeOK ==
    /\ {running, listening, stopping} \subseteq BOOLEAN
    /\ server \in {"load", "enter", "accept", "push", "notify", "done"}
    /\ Len(queue) <= MaxPending /\ Len(conn) <= scene.conns + 1
    /\ rev \in 1..MaxRevs /\ table \in 0..MaxRevs
    /\ \A w \in scene.workers :
        worker[w].at \in {"ready", "waiting", "receive", "operate", "store", "answer",
                          "exited"}

\* A tool that selects a process, loads symbols or resumes a thread does so at
\* most once, whatever times out and whoever retries: ipc_client.py retries
\* none of them.
MutatesOnce == \A b \in Bridges : \A i \in DOMAIN executed[b] : executed[b][i] <= 1

\* The page symbol_list gives out of the kept table is of a process that was
\* selected while the request was under way, also when other requests select
\* processes and store tables in between.
PageOfSelected ==
    \A c \in DOMAIN conn :
        conn[c].answer.is = "page" => conn[c].answer.rev \in conn[c].from..rev

\* resume_uxn_breakpoint(set_x0) writes back the registers of the event the
\* thread is stopped at, unless another client resumed the slot after this
\* one had asked for its state.
StaleOnlyAfterRival == written.stale => written.rival

\* The same without the exception.
NoStaleRegisters == ~written.stale

\* When Stop() has returned no handler is running and no accepted connection
\* is left open: neither queued, nor held by the accept thread, nor in the
\* backlog.
StoppedIsQuiet ==
    stop = "done" => /\ queue = <<>> /\ backlog = <<>> /\ taken = 0
                     /\ \A c \in DOMAIN conn : Closed(c)

\* Every connection is answered or closed, except those of clients that never
\* read a large answer: no wake-up of a worker is lost, a full queue turns the
\* connection away, and silent clients cannot keep the workers.  The others have
\* to wait only if clients that do not read hold every worker.  (A behaviour has
\* finitely many connections.)
ConnectionsEnd ==
    \/ <>[](\A w \in scene.workers : Stuck(w))
    \/ <>[](\A c \in DOMAIN conn :
               Closed(c) \/ \E w \in scene.workers : worker[w].conn = c /\ Stuck(w))

\* What a tool has done to the device is not done again: the HTTP client
\* retries read-only operations (mcp/README.md:185).  This does not hold:
\* read_bp_info is retried.
RetriesReadOnly ==
    \A b \in Bridges : bridge[b].attempt > 0 =>
        executed[b][bridge[b].id] = 0 /\ drained[b][bridge[b].id] = 0

\* Stop() returns, unless a client that does not read keeps a worker: the accept
\* thread and every waiting worker are woken.
StopEnds == (stop = "wake") ~> (stop = "done" \/ \E w \in scene.workers : Stuck(w))
=============================================================================
