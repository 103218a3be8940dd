----------------------------- MODULE ServiceOps -----------------------------
(***************************************************************************)
(* The operations of MemService over SystemMemService, each as the program *)
(* of the steps its function takes: validate the context, lock a service   *)
(* mutex, open a transaction, ask the server, drop the transaction, account *)
(* and validate again.  TargetService has one operation at a time at the   *)
(* granularity of loads and stores; here every operation runs against      *)
(* every other one, with the state the service itself keeps (hit counters, *)
(* symbol sessions, tracked breakpoints) and what the server keeps for it. *)
(* A process is named by the revision that published it.                   *)
(***************************************************************************)
EXTENDS Naturals, Sequences, FiniteSets

CONSTANTS
    Threads, NoThread,   \* callers: GUI, IPC workers, Lua
    Timed,               \* callers with a budget or a cancellation flag
    Scenes,              \* who may call what and how often: see Init
    Modules, NoModule,   \* modules (bases) whose symbols are asked for
    MaxHits,             \* bound: hits of the breakpoint
    MaxGen,              \* bound: connections
    Limit                \* hits a poll asks for

ASSUME CallerAssumption == NoThread \notin Threads /\ Timed \subseteq Threads
ASSUME LimitAssumption == Limit \in Nat \ {0} /\ MaxHits \in Nat /\ MaxGen \in Nat

VARIABLES
    gen, up,          \* connection generation; the session is connected
    rev, attached,    \* AppContext's target: revision and whether there is one
    dev,              \* server: the revision whose process is open, 0: none
    holder,           \* who holds each mutex
    th,               \* each caller's operation
    left,             \* calls each caller may still make (the bound's counter)
    scene,            \* the scene that is played
    counter,          \* breakpointCounterTarget_ and breakpointHitTotals_
    bp,               \* server: the breakpoint at the address in question
    tracked,          \* client: the address is in g_trackedBreakpointAddresses
    symtab,           \* server: module of the cached symbols, and their process
    shown             \* history: the last poll the caller got to see

vars == <<gen, up, rev, attached, dev, holder, th, left, scene, counter, bp, tracked, symtab,
          shown>>
target == <<rev, attached, dev>>
server == <<bp, symtab>>
books  == <<counter, tracked, shown>>

Mutexes == {"process", "state", "breakpoint", "uxn", "symbol", "main", "debug"}
NoTotal == MaxHits + 1      \* no entry in breakpointHitTotals_

-----------------------------------------------------------------------------
(* Steps.  A scope says what is asked of the context: "gen" the generation *)
(* only, "conn" a connected session too, "tgt" its target too, "any" just  *)
(* a live session.  fail says where a failed step leads: "recheck" and     *)
(* "recheckCancel" validate once the transaction is dropped, "held" and    *)
(* "heldError" while it is still held; "retry" and "error" return, "skip"  *)
(* goes on after the transaction.                                          *)

Check(s)       == [do |-> "check", scope |-> s]
Verify(s)      == [do |-> "verify", scope |-> s]     \* past cancellation
Guard(s)       == [do |-> "guard", scope |-> s, fail |-> "recheck"]
Lock(m)        == [do |-> "lock", mutex |-> m]
Begin(p, s, f) == [do |-> "begin", port |-> p, scope |-> s, fail |-> f]
Ask(w, f)      == [do |-> "ask", what |-> w, fail |-> f]
Effect(w, f)   == [do |-> "effect", what |-> w, fail |-> f]
Drop           == [do |-> "drop"]
Inspect        == [do |-> "inspect"]
Confirm(s)     == [do |-> "confirm", scope |-> s]
Snapshot       == [do |-> "snapshot"]
Compare        == [do |-> "compare"]
Sync           == [do |-> "sync"]
Account        == [do |-> "account"]
Store          == [do |-> "store"]
Forget         == [do |-> "forget"]

Status == <<Check("gen"), Snapshot, Snapshot, Check("gen"), Compare>>

ServerVersion ==
    <<Check("conn"), Begin("main", "any", "recheck"), Ask("version", "recheck"),
      Drop, Check("conn")>>

MemoryType ==
    <<Check("conn"), Begin("main", "any", "recheck"), Ask("memType", "recheck"),
      Drop, Check("conn")>>

InitializeDriver ==
    <<Check("conn"), Begin("main", "gen", "recheckCancel"),
      Effect("driver", "recheckCancel"), Effect("reclaim", "retry"), Drop,
      Confirm("conn")>>

ListProcesses ==
    <<Check("conn"), Begin("main", "gen", "recheck"), Ask("processes", "recheck"),
      Drop, Inspect, Check("conn")>>

\* Scope "open" also compares the target, attached or not.  Looking up the
\* name of the process may fail without consequences.
OpenProcess ==
    <<Check("open"), Begin("main", "gen", "skip"), Ask("processes", "skip"), Drop,
      Lock("process"), Check("open"), [do |-> "mutate", fail |-> "recheckError"],
      [do |-> "switch", fail |-> "recheckError"], Verify("conn"), Verify("opened")>>

\* listModules and resolveModule look for the reason of a failed fetch with
\* the transaction in their hands.
ListModules ==
    <<Check("tgt"), Begin("main", "tgt", "recheck"), Ask("modules", "held"),
      Drop, Check("tgt"), Inspect, Check("tgt")>>

ResolveModule ==
    <<Check("tgt"), Begin("main", "tgt", "recheck"), Ask("modules", "held"),
      Drop, Check("tgt"), Inspect, Check("tgt")>>

\* Two dereferences of the chain.
ResolvePointer ==
    <<Check("tgt"), Begin("main", "tgt", "recheck"), Ask("modules", "retry"), Inspect,
      Guard("conn"), Ask("memory", "recheck"),
      Guard("conn"), Ask("memory", "recheck"),
      Drop, Check("tgt")>>

ReadMemory ==
    <<Check("tgt"), Begin("main", "tgt", "recheck"), Ask("memory", "recheck"),
      Drop, Inspect, Check("tgt")>>

ReadMemoryBatch ==
    <<Check("tgt"), Begin("main", "tgt", "recheck"), Ask("memory", "recheck"),
      Drop, Inspect, Check("tgt")>>

\* Mutant: the transaction is opened for the connection, not for the target.
WriteMemoryAnyTarget ==
    <<Check("tgt"), Begin("main", "gen", "recheck"), Effect("write", "recheck"),
      Drop, Confirm("tgt")>>

WriteMemory ==
    <<Check("tgt"), Begin("main", "tgt", "recheck"), Effect("write", "recheck"),
      Drop, Confirm("tgt")>>

MutateBreakpoint(what) ==
    <<Check("tgt"), Lock("breakpoint"), Check("tgt"), Sync,
      Begin("main", "tgt", "recheckCancel"), Effect(what, "recheckCancel"), Drop,
      Confirm("tgt")>>

SetBreakpoint == Append(MutateBreakpoint("set"), Forget)
RemoveBreakpoint == Append(MutateBreakpoint("remove"), Forget)
SuspendBreakpoint == MutateBreakpoint("suspend")
ResumeBreakpoint == MutateBreakpoint("resume")

\* The only breakpoint operation that does not validate again once it has
\* breakpointMutex_.
BreakpointHits ==
    <<Check("tgt"), Lock("breakpoint"), Sync, Begin("debug", "tgt", "recheck"),
      Ask("hits", "recheck"), Drop, Account, Check("tgt"), Store>>

BreakpointSlots ==
    <<Check("tgt"), Begin("main", "any", "retry"), Ask("memType", "retry"), Drop,
      Inspect, Check("tgt"), Lock("breakpoint"), Check("tgt"),
      Begin("main", "tgt", "recheck"), Ask("slots", "recheck"), Drop,
      Inspect, Check("tgt")>>

RequireKernelMemoryMode(s) ==
    <<Begin("main", "any", "recheck"), Ask("memType", "recheck"), Drop, Inspect,
      Check(s)>>

\* Mutant: the answer of the server is taken for granted and not confirmed.
InstallUxnUnconfirmed ==
    <<Check("tgt")>> \o RequireKernelMemoryMode("tgt") \o
    <<Lock("uxn"), Check("tgt"), Begin("main", "tgt", "recheck"),
      Effect("uxnInstall", "recheck"), Drop, Inspect, Check("tgt")>>

InstallUxnBreakpoint ==
    <<Check("tgt")>> \o RequireKernelMemoryMode("tgt") \o
    <<Lock("uxn"), Check("tgt"), Begin("main", "tgt", "recheck"),
      Effect("uxnInstall", "recheck"), Drop, Inspect, Confirm("tgt")>>

RemoveUxnBreakpoint ==
    <<Check("tgt")>> \o RequireKernelMemoryMode("tgt") \o
    <<Lock("uxn"), Check("tgt"), Begin("main", "tgt", "recheck"),
      Effect("uxnRemove", "recheck"), Drop, Confirm("tgt")>>

\* On the DEBUG port and without uxnControlMutex_: it may last a minute.
WaitUxnBreakpoint ==
    <<Check("tgt")>> \o RequireKernelMemoryMode("tgt") \o
    <<Begin("debug", "tgt", "recheck"), Effect("uxnWait", "recheck"), Drop,
      Inspect, Confirm("tgt")>>

ResumeUxnBreakpoint ==
    <<Check("tgt")>> \o RequireKernelMemoryMode("tgt") \o
    <<Lock("uxn"), Check("tgt"), Begin("main", "tgt", "recheck"),
      Effect("uxnResume", "recheck"), Drop, Confirm("tgt")>>

QueryUxnBreakpointStatus ==
    <<Check("tgt")>> \o RequireKernelMemoryMode("tgt") \o
    <<Lock("uxn"), Begin("main", "tgt", "recheck"), Effect("uxnStatus", "recheck"),
      Drop, Inspect, Check("tgt")>>

ClearUxnBreakpoints ==
    <<Check("conn")>> \o RequireKernelMemoryMode("conn") \o
    <<Lock("uxn"), Begin("main", "gen", "recheck"), Effect("uxnClear", "recheck"),
      Drop, Confirm("conn")>>

\* A table of two pages; a page that fails is SymbolSessionChanged.
LoadSymbolTable ==
    <<Check("tgt"), Lock("symbol"), Begin("main", "tgt", "recheck"),
      Ask("modules", "retry"), Inspect, Ask("init", "retry"),
      Ask("page", "error"), Ask("page", "error"), Drop, Inspect, Check("tgt")>>

ListSymbols ==
    <<Check("tgt"), Lock("symbol"), Begin("main", "tgt", "recheck"),
      Ask("modules", "retry"), Inspect, Ask("init", "retry"), Ask("page", "error"),
      Inspect, Drop, Check("tgt")>>

ResolveSymbol ==
    <<Check("tgt"), Lock("symbol"), Begin("main", "tgt", "retry"),
      Ask("modules", "retry"), Inspect, Ask("find", "heldError"), Drop, Check("tgt")>>

Program ==
    [status |-> Status, serverVersion |-> ServerVersion, memoryType |-> MemoryType,
     initializeDriver |-> InitializeDriver, listProcesses |-> ListProcesses,
     openProcess |-> OpenProcess, listModules |-> ListModules,
     resolveModule |-> ResolveModule, resolvePointer |-> ResolvePointer,
     readMemory |-> ReadMemory, readMemoryBatch |-> ReadMemoryBatch,
     writeMemory |-> WriteMemory, setBreakpoint |-> SetBreakpoint,
     removeBreakpoint |-> RemoveBreakpoint, suspendBreakpoint |-> SuspendBreakpoint,
     resumeBreakpoint |-> ResumeBreakpoint, breakpointHits |-> BreakpointHits,
     breakpointSlots |-> BreakpointSlots, installUxnBreakpoint |-> InstallUxnBreakpoint,
     removeUxnBreakpoint |-> RemoveUxnBreakpoint,
     waitUxnBreakpoint |-> WaitUxnBreakpoint,
     resumeUxnBreakpoint |-> ResumeUxnBreakpoint,
     queryUxnBreakpointStatus |-> QueryUxnBreakpointStatus,
     clearUxnBreakpoints |-> ClearUxnBreakpoints, loadSymbolTable |-> LoadSymbolTable,
     listSymbols |-> ListSymbols, resolveSymbol |-> ResolveSymbol]

Operations == DOMAIN Program
SymbolOperations == {"loadSymbolTable", "listSymbols", "resolveSymbol"}

\* A scene gives each caller its operations and the number of its calls, and
\* says whether breakpoints were set and polled before, by this client or by
\* an earlier one.
ASSUME SceneAssumption ==
    Scenes \subseteq [roles : [Threads -> SUBSET Operations],
                     calls : [Threads -> Nat], polled : BOOLEAN]
-----------------------------------------------------------------------------
(* What the programs have in common *)

\* ctx is the OperationContext, lease the generation of the transaction, saw
\* what was collected, applied and touched the history of side effects.
Idle == [op |-> "none", pos |-> 0, failed |-> FALSE, gen |-> 0, rev |-> 0,
         att |-> FALSE, mod |-> NoModule, lease |-> 0, saw |-> {}, hits |-> 0,
         total |-> 0, applied |-> FALSE, touched |-> {}, result |-> "none"]

\* by is the connection over which it was set, 0: an earlier client's.
NoBreakpoint == [armed |-> FALSE, total |-> 0, pending |-> 0, by |-> 0]

\* What a process may be found with when it is opened: the server keeps the
\* records of a client that went away and hands them out again.  Hits that were
\* not fetched then are as good as hits that come now (Hit).
Leftovers ==
    {NoBreakpoint} \cup
    IF scene.polled THEN [armed : {TRUE}, total : 0..MaxHits, pending : {0}, by : {0}] ELSE {}

Init ==
    /\ scene \in Scenes
    /\ gen = 1 /\ up = TRUE
    /\ rev = 2 /\ attached = TRUE /\ dev = 2
    /\ holder = [m \in Mutexes |-> NoThread]
    /\ th = [t \in Threads |-> Idle] /\ left = scene.calls
    /\ counter = IF scene.polled THEN [rev |-> 2, total |-> 1]
                 ELSE [rev |-> 0, total |-> NoTotal]
    /\ bp = IF scene.polled THEN [armed |-> TRUE, total |-> 1, pending |-> 0, by |-> 1]
            ELSE NoBreakpoint
    /\ tracked = scene.polled
    /\ symtab = [mod |-> NoModule, of |-> 0]
    /\ shown = [rev |-> counter.rev, total |-> bp.total, exact |-> TRUE, stray |-> FALSE]

Free(m)     == holder[m] = NoThread
Running(t)  == th[t].pos > 0
Steps(t)    == Program[th[t].op]
Here(t)     == Steps(t)[th[t].pos]
At(t, what) == Running(t) /\ ~th[t].failed /\ Here(t).do = what
Without(t, ms) == [m \in Mutexes |-> IF m \in ms /\ holder[m] = t THEN NoThread ELSE holder[m]]
Ports       == {"main", "debug"}

\* The call returns r and whatever it holds is released.
Finish(t, rec, r) ==
    /\ th' = [th EXCEPT ![t] = [rec EXCEPT !.pos = 0, !.failed = FALSE, !.lease = 0,
                                           !.hits = 0, !.total = 0, !.result = r]]
    /\ holder' = Without(t, Mutexes)

Goto(t, rec, hold) ==
    /\ th' = [th EXCEPT ![t] = [rec EXCEPT !.pos = @ + 1]]
    /\ holder' = hold

Advance(t, rec) ==
    IF rec.pos = Len(Steps(t)) THEN Finish(t, rec, "ok") ELSE Goto(t, rec, holder)

\* A step failed.
Fail(t, rec) ==
    CASE Here(t).fail \in {"retry", "error"} -> Finish(t, rec, Here(t).fail)
      [] Here(t).fail \in {"held", "heldError"} ->
            /\ th' = [th EXCEPT ![t] = [rec EXCEPT !.failed = TRUE]]
            /\ UNCHANGED holder
      [] Here(t).fail = "skip" ->
            /\ th' = [th EXCEPT ![t] = [rec EXCEPT !.lease = 0,
                        !.pos = CHOOSE i \in DOMAIN Steps(t) : Steps(t)[i].do = "lock"]]
            /\ holder' = Without(t, Ports)
      [] OTHER ->
            /\ th' = [th EXCEPT ![t] = [rec EXCEPT !.failed = TRUE, !.lease = 0]]
            /\ holder' = Without(t, Ports \cup {"state"})

\* validateContext: "ok", or whether its error is retryable.
ConnectionValid(t, s) == gen = th[t].gen /\ (s # "gen" => up)

ValidateContext(t, s) ==
    IF ~ConnectionValid(t, s) THEN "retry"
    ELSE IF \/ s = "tgt" /\ ~th[t].att
            \/ s \in {"tgt", "open"} /\ rev # th[t].rev
            \/ s = "opened" /\ ~attached
    THEN "error"
    ELSE "ok"

\* targetSnapshot waits for processStateMutex_.
CanSnapshot(t, s) == s \in {"gen", "conn"} \/ ~ConnectionValid(t, s) \/ Free("state")

\* contextMatches (scope "tgt") and the weaker tests of other transactions.
ContextMatches(t, s) ==
    /\ up /\ gen = th[t].lease
    /\ s \in {"gen", "tgt"} => gen = th[t].gen
    /\ s = "tgt" => rev = th[t].rev /\ th[t].att

\* A failed exchange ends the session.
Poison == gen < MaxGen /\ up' = FALSE /\ gen' = gen + 1

-----------------------------------------------------------------------------
(* Steps *)

\* A caller captures a context and calls o; arguments out of range are refused
\* before anything else.
Call(t, o, m) ==
    /\ ~Running(t) /\ left[t] > 0 /\ o \in scene.roles[t]
    /\ (m # NoModule) = (o \in SymbolOperations)
    /\ Free("state")
    /\ left' = [left EXCEPT ![t] = @ - 1]
    /\ th' = [th EXCEPT ![t] = [Idle EXCEPT !.op = o, !.pos = 1, !.gen = gen,
                                            !.rev = rev, !.att = attached, !.mod = m]]
    /\ UNCHANGED <<gen, up, target, holder, scene, server, books>>

DoCheck(t) ==
    /\ At(t, "check") /\ CanSnapshot(t, Here(t).scope)
    /\ LET v == ValidateContext(t, Here(t).scope) IN
       \/ v = "ok" /\ Advance(t, th[t])
       \/ v # "ok" /\ Finish(t, th[t], v)
       \/ t \in Timed /\ Finish(t, th[t], "error")      \* cancelled
       \/ t \in Timed /\ Finish(t, th[t], "retry")      \* out of time
    /\ UNCHANGED <<gen, up, target, left, scene, server, books>>

DoVerify(t) ==
    /\ At(t, "verify") /\ CanSnapshot(t, Here(t).scope)
    /\ LET v == ValidateContext(t, Here(t).scope) IN
       IF v = "ok" THEN Advance(t, th[t]) ELSE Finish(t, th[t], v)
    /\ UNCHANGED <<gen, up, target, left, scene, server, books>>

DoGuard(t) ==
    /\ At(t, "guard")
    /\ \/ ConnectionValid(t, Here(t).scope) /\ Advance(t, th[t])
       \/ ~ConnectionValid(t, Here(t).scope) /\ Fail(t, th[t])
       \/ t \in Timed /\ Fail(t, th[t])
    /\ UNCHANGED <<gen, up, target, left, scene, server, books>>

\* The effect was confirmed; the context must still hold, cancelled or not.
DoConfirm(t) ==
    /\ At(t, "confirm") /\ CanSnapshot(t, Here(t).scope)
    /\ IF ValidateContext(t, Here(t).scope) = "ok" THEN Advance(t, th[t])
       ELSE Finish(t, th[t], "unknown")
    /\ UNCHANGED <<gen, up, target, left, scene, server, books>>

DoLock(t) ==
    /\ At(t, "lock") /\ Free(Here(t).mutex)
    /\ Goto(t, th[t], [holder EXCEPT ![Here(t).mutex] = t])
    /\ UNCHANGED <<gen, up, target, left, scene, server, books>>

\* Mutant: the budget does not bound the wait for a port.
NeverTimedOut(t, p) == FALSE

\* try_lock_for ran out of the caller's budget.
TimedOut(t, p) == t \in Timed /\ ~Free(p)

\* TransactionLease: the request lease, then the port, at most for the budget.
TakeLease(t) ==
    /\ At(t, "begin") /\ th[t].lease = 0
    /\ \/ /\ up
          /\ th' = [th EXCEPT ![t].lease = gen]
          /\ UNCHANGED holder
       \/ ~up /\ Fail(t, th[t])
    /\ UNCHANGED <<gen, up, target, left, scene, server, books>>

TakePort(t) ==
    /\ At(t, "begin") /\ th[t].lease # 0
    /\ \/ /\ Free(Here(t).port)
          /\ IF ContextMatches(t, Here(t).scope)
             THEN Goto(t, th[t], [holder EXCEPT ![Here(t).port] = t])
             ELSE Fail(t, th[t])
       \/ TimedOut(t, Here(t).port) /\ Fail(t, th[t])
    /\ UNCHANGED <<gen, up, target, left, scene, server, books>>

DoDrop(t) ==
    /\ At(t, "drop")
    /\ Goto(t, [th[t] EXCEPT !.lease = 0], Without(t, Ports))
    /\ UNCHANGED <<gen, up, target, left, scene, server, books>>

\* The content of an answer is validated, after which nothing is sent.
DoInspect(t) ==
    /\ At(t, "inspect")
    /\ Advance(t, th[t]) \/ Finish(t, th[t], "error")
    /\ UNCHANGED <<gen, up, target, left, scene, server, books>>

\* Requests of a read or symbol transaction match the context once more.
Sendable(t) ==
    ContextMatches(t, IF Here(t).what \in {"modules", "memory", "init", "page", "find"}
                      THEN "tgt" ELSE "any")

\* CApi::SymbolInit keeps the symbols it has when the base is the same.
SymbolInit(t) ==
    IF symtab.mod = th[t].mod THEN symtab ELSE [mod |-> th[t].mod, of |-> dev]

\* A complete answer, and what the server changes for it.
Served(t) ==
    CASE Here(t).what = "init" -> symtab' = SymbolInit(t) /\ UNCHANGED bp /\ Advance(t, th[t])
      [] Here(t).what = "find" ->
            /\ symtab' = SymbolInit(t) /\ UNCHANGED bp
            /\ Advance(t, [th[t] EXCEPT !.saw = @ \cup {SymbolInit(t)}])
      [] Here(t).what = "page" ->
            UNCHANGED server /\ Advance(t, [th[t] EXCEPT !.saw = @ \cup {symtab}])
      [] Here(t).what = "hits" ->
            /\ bp' = [bp EXCEPT !.pending = 0] /\ UNCHANGED symtab
            /\ Advance(t, [th[t] EXCEPT !.total = bp.total,
                             !.hits = IF bp.pending < Limit THEN bp.pending ELSE Limit])
      [] OTHER -> UNCHANGED server /\ Advance(t, th[t])

DoAsk(t) ==
    /\ At(t, "ask")
    /\ \/ ~Sendable(t) /\ Fail(t, th[t]) /\ UNCHANGED <<gen, up, server>>
       \/ Sendable(t) /\ Served(t) /\ UNCHANGED <<gen, up>>
       \/ /\ Sendable(t) /\ Fail(t, th[t])          \* refused
          /\ symtab' = IF Here(t).what = "init" THEN [mod |-> NoModule, of |-> 0] ELSE symtab
          /\ UNCHANGED <<gen, up, bp>>
       \/ /\ Sendable(t) /\ Poison /\ Fail(t, th[t])    \* no complete answer
          /\ bp' = IF Here(t).what = "hits" THEN [bp EXCEPT !.pending = 0] ELSE bp
          /\ UNCHANGED symtab
    /\ UNCHANGED <<target, left, scene, books>>

\* Effects that are not repeated unawares: initializing the same driver again
\* changes nothing and a status query never does.
Counts(w)  == w \notin {"driver", "uxnStatus"}
OnTarget(w) == w \in {"write", "set", "remove", "suspend", "resume", "uxnInstall",
                      "uxnRemove", "uxnResume"}

\* The server's breakpoint after an effect: a set puts a fresh handle, which
\* counts from 0, in the place of the one it had.
Replaced(w) ==
    CASE w = "set" -> [armed |-> TRUE, total |-> 0, pending |-> 0, by |-> gen]
      [] w = "remove" -> NoBreakpoint [] OTHER -> bp

\* What a confirmed effect leaves: the server's breakpoint and the addresses the
\* client tracks.
Applied(t, w) ==
    /\ bp' = Replaced(w)
    /\ tracked' = CASE w = "set" -> TRUE [] w = "remove" -> FALSE [] OTHER -> tracked
    /\ shown' = IF w \in {"set", "remove"} THEN [shown EXCEPT !.rev = 0] ELSE shown

Marked(t, w, done) ==
    [th[t] EXCEPT !.applied = @ \/ (done /\ Counts(w)),
                  !.touched = IF done /\ OnTarget(w) THEN @ \cup {dev} ELSE @]

\* requestStarted, responseReceived and applied of an operation with an effect.
DoEffect(t) ==
    LET w == Here(t).what IN
    /\ At(t, "effect")
    /\ \/ ~Sendable(t) /\ Fail(t, th[t]) /\ UNCHANGED <<gen, up, bp, tracked, shown>>
       \/ /\ Sendable(t) /\ (w = "remove" => bp.armed)
          /\ Applied(t, w) /\ Advance(t, Marked(t, w, TRUE)) /\ UNCHANGED <<gen, up>>
       \/ /\ Sendable(t)                            \* refused, or a short write
          /\ Finish(t, Marked(t, w, w = "write"), IF w = "write" THEN "partial" ELSE "error")
          /\ UNCHANGED <<gen, up, bp, tracked, shown>>
       \/ /\ Sendable(t) /\ w \in {"uxnInstall", "uxnRemove", "uxnWait", "uxnResume",
                                   "uxnStatus", "uxnClear"}
          /\ Finish(t, th[t], "retry")              \* ETIMEDOUT of the driver
          /\ UNCHANGED <<gen, up, bp, tracked, shown>>
       \/ /\ Sendable(t) /\ Poison                  \* sent, no complete answer
          /\ \E done \in BOOLEAN :
                /\ bp' = IF done THEN Replaced(w) ELSE bp
                /\ Finish(t, Marked(t, w, done), "unknown")
          /\ UNCHANGED <<tracked, shown>>
       \/ /\ Sendable(t) /\ Poison /\ Fail(t, th[t])    \* the command was not sent
          /\ UNCHANGED <<bp, tracked, shown>>
    /\ UNCHANGED <<target, left, scene, counter, symtab>>

\* The validation that explains a failure; "ok" leaves the failure itself.
Recheck(t) ==
    LET f == Here(t).fail
        s == IF Steps(t)[1].scope = "open" THEN "conn" ELSE Steps(t)[1].scope
        v == ValidateContext(t, s)
    IN
    /\ Running(t) /\ th[t].failed /\ CanSnapshot(t, s)
    /\ \/ v # "ok" /\ Finish(t, th[t], v)
       \/ v = "ok" /\ Finish(t, th[t], IF f \in {"heldError", "recheckError"}
                                       THEN "error" ELSE "retry")
       \/ f = "recheckCancel" /\ t \in Timed /\ Finish(t, th[t], "error")
    /\ UNCHANGED <<gen, up, target, left, scene, server, books>>

DoSnapshot(t) ==
    /\ At(t, "snapshot") /\ Free("state")
    /\ Advance(t, [th[t] EXCEPT !.saw = @ \cup {[mod |-> NoModule, of |-> rev]}])
    /\ UNCHANGED <<gen, up, target, left, scene, server, books>>

DoCompare(t) ==
    /\ At(t, "compare")
    /\ IF Cardinality(th[t].saw) = 1 THEN Advance(t, th[t]) ELSE Finish(t, th[t], "retry")
    /\ UNCHANGED <<gen, up, target, left, scene, server, books>>

-----------------------------------------------------------------------------
(* Hit accounting under breakpointMutex_ *)

\* The counters belong to one target; another one starts from nothing.
DoSync(t) ==
    /\ At(t, "sync")
    /\ counter' = IF counter.rev = th[t].rev THEN counter
                  ELSE [rev |-> th[t].rev, total |-> NoTotal]
    /\ Advance(t, th[t])
    /\ UNCHANGED <<gen, up, target, left, scene, server, tracked, shown>>

\* Hits since the poll that stored `before`.
NewHits(total, before) ==
    IF before # NoTotal /\ total >= before THEN total - before ELSE total

DoAccount(t) ==
    /\ At(t, "account")
    /\ IF NewHits(th[t].total, counter.total) < th[t].hits
       THEN Finish(t, th[t], "inconsistent") ELSE Advance(t, th[t])
    /\ UNCHANGED <<gen, up, target, left, scene, server, books>>

DoStore(t) ==
    LET r == th[t]
        before == IF shown.rev = r.rev THEN shown.total ELSE NoTotal
    IN
    /\ At(t, "store")
    /\ counter' = [counter EXCEPT !.total = r.total]
    /\ shown' = [shown EXCEPT !.rev = r.rev, !.total = r.total,
                   !.exact = NewHits(r.total, counter.total) = NewHits(r.total, before)]
    /\ Advance(t, r)
    /\ UNCHANGED <<gen, up, target, left, scene, server, tracked>>

\* Mutant: a new breakpoint keeps the total of the old one.
ForgetNothing(t) ==
    /\ At(t, "forget")
    /\ Advance(t, th[t])
    /\ UNCHANGED <<gen, up, target, left, scene, server, books>>

DoForget(t) ==
    /\ At(t, "forget")
    /\ counter' = [counter EXCEPT !.total = NoTotal]
    /\ Advance(t, th[t])
    /\ UNCHANGED <<gen, up, target, left, scene, server, tracked, shown>>

-----------------------------------------------------------------------------
(* Selecting a process, and the world around the callers *)

\* AcquireRequestLease and beginTargetMutation.
DoMutate(t) ==
    /\ At(t, "mutate")
    /\ \/ /\ up /\ gen = th[t].gen /\ Free("state") /\ rev = th[t].rev
          /\ rev' = rev + 1
          /\ Goto(t, [th[t] EXCEPT !.lease = gen], [holder EXCEPT !["state"] = t])
       \/ /\ ~up \/ gen # th[t].gen \/ (Free("state") /\ rev # th[t].rev)
          /\ Fail(t, th[t]) /\ UNCHANGED rev
    /\ UNCHANGED <<gen, up, attached, dev, left, scene, server, books>>

\* The old target's breakpoints and handle go and the new process is opened in
\* one transaction; without one the target is cleared, and the server keeps
\* what it has.  Without an old target nothing goes, and the process may be the
\* one that was open before.
DoSwitch(t) ==
    /\ At(t, "switch")
    /\ rev' = rev + 1
    /\ \/ /\ Free("main") /\ ContextMatches(t, "gen")
          /\ tracked' = (tracked /\ ~attached)
          /\ \/ /\ dev' = rev + 1 /\ attached' = TRUE
                /\ bp' \in Leftovers \cup (IF attached THEN {} ELSE {bp})
                /\ shown' = [shown EXCEPT !.stray =
                                @ \/ (bp.armed /\ bp.by = gen /\ ~attached /\ bp' # bp)]
                /\ Goto(t, [th[t] EXCEPT !.lease = 0], Without(t, {"state"}))
                /\ UNCHANGED <<gen, up>>
             \/ /\ attached' = FALSE                \* refused or no answer
                /\ \/ /\ dev' = 0 /\ bp' = IF attached THEN NoBreakpoint ELSE bp
                      /\ Poison \/ UNCHANGED <<gen, up>>
                   \/ UNCHANGED <<dev, bp>> /\ Poison
                /\ Fail(t, th[t])
                /\ UNCHANGED shown
       \/ /\ ~ContextMatches(t, "gen") \/ TimedOut(t, "main")
          /\ attached' = FALSE
          /\ Fail(t, th[t])
          /\ UNCHANGED <<gen, up, dev, bp, tracked, shown>>
    /\ UNCHANGED <<left, scene, symtab, counter>>

\* connect waits until no transaction is open, then everything local is reset;
\* the server keeps the process and its breakpoints.
Reconnect ==
    /\ gen < MaxGen
    /\ \A t \in Threads : th[t].lease = 0
    /\ Free("state")
    /\ gen' = gen + 1 /\ up' = TRUE
    /\ rev' = rev + 2 /\ attached' = FALSE /\ tracked' = FALSE
    /\ UNCHANGED <<dev, bp, holder, th, left, scene, counter, symtab, shown>>

\* The breakpoint is hit.
Hit ==
    /\ bp.armed /\ bp.total < MaxHits
    /\ bp' = [bp EXCEPT !.total = @ + 1, !.pending = @ + 1]
    /\ UNCHANGED <<gen, up, target, holder, th, left, scene, symtab, books>>

StepOf(t) ==
    \/ DoCheck(t) \/ DoVerify(t) \/ DoGuard(t) \/ DoConfirm(t) \/ DoLock(t)
    \/ TakeLease(t) \/ TakePort(t) \/ DoDrop(t) \/ DoInspect(t) \/ DoAsk(t)
    \/ DoEffect(t) \/ Recheck(t) \/ DoSnapshot(t) \/ DoCompare(t) \/ DoSync(t)
    \/ DoAccount(t) \/ DoStore(t) \/ DoForget(t) \/ DoMutate(t) \/ DoSwitch(t)

Next ==
    \/ \E t \in Threads : StepOf(t)
    \/ \E t \in Threads, o \in Operations, m \in Modules \cup {NoModule} : Call(t, o, m)
    \/ Reconnect \/ Hit

Spec == Init /\ [][Next]_vars

\* Every caller is scheduled, and every exchange ends within its socket timeout.
FairSpec == Spec /\ \A t \in Threads : WF_vars(StepOf(t))
-----------------------------------------------------------------------------
\* Every variable stays in its domain.
TypeOK ==
    /\ gen \in 1..MaxGen /\ up \in BOOLEAN
    /\ rev \in Nat /\ attached \in BOOLEAN /\ dev \in 0..rev + 1
    /\ holder \in [Mutexes -> Threads \cup {NoThread}]
    /\ \A t \in Threads :
        /\ th[t].op \in Operations \cup {"none"}
        /\ th[t].pos > 0 => th[t].pos \in DOMAIN Steps(t)
        /\ th[t].result \in {"none", "ok", "error", "retry", "unknown", "partial",
                             "inconsistent"}
        /\ th[t].lease \in 0..gen /\ left[t] \in Nat
    /\ counter \in [rev : 0..rev, total : 0..NoTotal]
    /\ bp \in [armed : BOOLEAN, total : 0..MaxHits, pending : 0..MaxHits, by : 0..gen]
    /\ tracked \in BOOLEAN
    /\ symtab \in [mod : Modules \cup {NoModule}, of : 0..rev + 1]

\* A caller that is told to retry repeats nothing that happened, and one that
\* is told "done" gets it done: requestStarted, responseReceived and applied are
\* told apart in every operation with an effect, through lost answers,
\* deadlines and switches in the middle.
OutcomeHonest ==
    \A t \in Threads :
        /\ th[t].result = "retry" => ~th[t].applied
        /\ th[t].result = "ok" /\ th[t].op \in {"writeMemory", "setBreakpoint",
              "removeBreakpoint", "installUxnBreakpoint", "removeUxnBreakpoint",
              "resumeUxnBreakpoint"} => th[t].applied

\* No effect on the target reaches another process than the context's, whatever
\* was waited for between the validation and the request.  Clearing the UXN
\* breakpoints, which is for the whole device, and initializing the driver have
\* no target.
EffectsOnContextTarget ==
    \A t \in Threads : th[t].touched \subseteq {th[t].rev}

\* The pages of one symbol call are of the module it names, although the server
\* has one table for all of its clients.
SymbolPagesOfOneModule ==
    \A t \in Threads :
        th[t].result = "ok" /\ th[t].op \in SymbolOperations
            => \A p \in th[t].saw : p.mod = th[t].mod

\* They are also of the process the context names (docs/api_design.md: an
\* operation on the target commits only what is of its snapshot).
SymbolsOfContextTarget ==
    \A t \in Threads :
        th[t].result = "ok" /\ th[t].op \in SymbolOperations
            => \A p \in th[t].saw : p.of = th[t].rev

\* A poll is rejected as inconsistent only if its target was replaced while it
\* was under way: breakpointHitTotals_ is reset whenever the server's count is,
\* by a removal, by a second set of the same address, or because the process was
\* opened anew and has an earlier client's breakpoint.
PollConsistent ==
    \A t \in Threads : th[t].result = "inconsistent" => th[t].rev # rev

\* Between transactions, a breakpoint that this connection armed on the selected
\* process is tracked, so that selecting another process removes it.  One that
\* an earlier connection left is not: a reconnection resets the tracking only
\* (docs/api_design.md:91).
ArmedIsTracked ==
    up /\ attached /\ dev = rev /\ Free("main") /\ bp.armed /\ bp.by = gen => tracked

\* Selecting another process in the same connection leaves no breakpoint armed
\* on the old one (docs/api_design.md: the breakpoints of the old target are
\* removed first).
NoStrayBreakpoint == ~shown.stray

\* dropped is what was added since the last successful poll of the same target
\* and address and not returned.
DroppedExact == shown.exact

\* Every call returns, with every other operation competing for the mutexes and
\* ports, as long as the callers that hold processStateMutex_ have a budget.
EveryCallReturns == \A t \in Threads : Running(t) ~> ~Running(t)
=============================================================================
