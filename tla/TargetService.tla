---------------------------- MODULE TargetService ----------------------------
(***************************************************************************)
(* The client's operations on the selected process: MemService over        *)
(* SystemMemService, AppContext's seqlock-protected target, the per-port   *)
(* transaction mutexes and the handle table of the Android server.         *)
(*                                                                         *)
(* Threads of the GUI, the IPC server and Lua run operations concurrently: *)
(*   read, modules   a MAIN transaction whose data is returned             *)
(*   write           a MAIN transaction with a side effect                 *)
(*   hits            a DEBUG transaction that drains breakpoint hits       *)
(*   open            selects a process: closes the old handle, opens a new *)
(*                   one and publishes it, all under one mutation          *)
(*   connect, disconnect   replace the session                             *)
(* The session is at the granularity DeviceSession justifies: a generation *)
(* and its state change together.                                          *)
(***************************************************************************)
EXTENDS Naturals

CONSTANTS
    Threads,    \* threads that call the service
    NoThread,   \* nobody holds a mutex
    Timed,      \* threads with a budget or a cancellation flag (IPC, Lua)
    Roles,      \* the operations each thread calls
    Pids,       \* processes of the device
    NoPid,      \* pid 0
    Handles,    \* process handles of the server
    NoHandle,   \* handle 0
    MaxOps      \* bound: operations each thread begins

Ops == {"read", "write", "modules", "hits", "open", "connect", "disconnect"}
Lifecycles == {"connect", "disconnect"}

ASSUME ThreadAssumption == NoThread \notin Threads /\ Timed \subseteq Threads
ASSUME RoleAssumption   == Roles \in [Threads -> SUBSET Ops]
ASSUME TargetAssumption == NoPid \notin Pids /\ NoHandle \notin Handles
ASSUME BoundAssumption  == MaxOps \in [Threads -> Nat]

VARIABLES
    state, generation,       \* DeviceSession
    writer,                  \* who holds lifecycleGate_ exclusively
    lease,                   \* generation of each thread's RequestLease, 0: none
    holder,                  \* who holds each mutex
    pid, handle, revision,   \* AppContext: selectedPid, processHandle,
                             \* processRevision
    table,                   \* server: the process behind each handle
    ioPid,                   \* server: the process g_memIO works on
    pc, op, want,            \* each thread: location, operation, pid to open
    ctx,                     \* its OperationContext
    round,                   \* contextMatches calls passed in this operation
    sent,                    \* the handle it sends, or was given by the server
    seen,                    \* the revision of the target it opened
    io,                      \* what it knows of its exchange
    effect,                  \* history: the process the exchange touched
    result,                  \* the Result it returned last
    begun                    \* operations begun (the bound's counter)

session == <<state, generation>>
target  == <<pid, handle, revision>>
device  == <<table, ioPid>>
local   == <<op, want, ctx, round, sent, seen, io, effect, result, begun>>
vars    == <<session, writer, lease, holder, target, device, pc, local>>

\* connectionMutex_, processMutex_, processStateMutex_ and the two
\* transaction mutexes.
Mutexes == {"connection", "process", "state", "main", "debug"}

Snapshots == [pid : Pids \cup {NoPid}, handle : Handles \cup {NoHandle},
              revision : Nat, gen : Nat]

OperationContexts == [gen : Nat, tgt : Snapshots]

NoTarget == [pid |-> NoPid, handle |-> NoHandle, revision |-> 0, gen |-> 0]

Locations == {"idle", "capture", "snapshot", "validate", "validateTarget",
    "lockProcess", "revalidate", "revalidateTarget", "acquire",
    "begin", "lockTx", "matchRev", "matchPid", "matchHandle", "matchAgain",
    "loadHandle", "exchange", "heldValidate", "heldTarget", "drop",
    "closeOld", "openNew", "publishPid", "publishHandle", "unlockTx",
    "finish", "post", "postTarget", "final",
    "lockConnection", "recheck", "gate", "replace", "clearTarget",
    "finishConnect", "leave"}

\* Mutant: openProcess works in a transaction of another port.
PortOfOpenIsDebug(t) == IF op[t] \in {"hits", "open"} THEN "debug" ELSE "main"

Port(t) == IF op[t] = "hits" THEN "debug" ELSE "main"

Free(m)       == holder[m] = NoThread
Lock(t, m)    == Free(m) /\ holder' = [holder EXCEPT ![m] = t]
Goto(t, l)    == pc' = [pc EXCEPT ![t] = l]
Set(f, t, v)  == [f EXCEPT ![t] = v]

\* RequestLease::isCurrent
IsCurrent(t) == state = "Connected" /\ lease[t] = generation

Attached(s) == s.pid # NoPid /\ s.handle # NoHandle

\* A session that just started, or one whose first process is selected:
\* connecting and selecting a process each advance the revision by two.
Init ==
    /\ \/ /\ state = "Disconnected" /\ generation = 0
          /\ pid = NoPid /\ handle = NoHandle /\ revision = 0
          /\ table = [h \in Handles |-> NoPid]
          /\ ioPid = NoPid
       \/ \E p \in Pids, h \in Handles :
            /\ state = "Connected" /\ generation = 1
            /\ pid = p /\ handle = h /\ revision = 4
            /\ table = [[k \in Handles |-> NoPid] EXCEPT ![h] = p]
            /\ ioPid = p
    /\ writer = NoThread
    /\ lease = [t \in Threads |-> 0]
    /\ holder = [m \in Mutexes |-> NoThread]
    /\ pc = [t \in Threads |-> "idle"]
    /\ op = [t \in Threads |-> "none"]
    /\ want = [t \in Threads |-> NoPid]
    /\ ctx = [t \in Threads |-> [gen |-> 0, tgt |-> NoTarget]]
    /\ round = [t \in Threads |-> 0]
    /\ sent = [t \in Threads |-> NoHandle]
    /\ seen = [t \in Threads |-> 0]
    /\ io = [t \in Threads |-> "none"]
    /\ effect = [t \in Threads |-> NoPid]
    /\ result = [t \in Threads |-> "none"]
    /\ begun = [t \in Threads |-> 0]

-----------------------------------------------------------------------------
(* Contexts: MemService::captureContext and validateContext *)

\* A caller starts an operation; captureContext loads the generation first.
Begin(t, o, p) ==
    /\ pc[t] = "idle"
    /\ begun[t] < MaxOps[t]
    /\ o \in Roles[t]
    /\ begun' = [begun EXCEPT ![t] = @ + 1]
    /\ op' = Set(op, t, o)
    /\ want' = Set(want, t, IF o = "open" THEN p ELSE NoPid)
    /\ ctx' = Set(ctx, t, [gen |-> generation, tgt |-> NoTarget])
    /\ round' = Set(round, t, 0)
    /\ sent' = Set(sent, t, NoHandle)
    /\ seen' = Set(seen, t, 0)
    /\ io' = Set(io, t, "none")
    /\ effect' = Set(effect, t, NoPid)
    /\ result' = Set(result, t, "none")
    /\ Goto(t, IF o \in Lifecycles THEN "validate" ELSE "capture")
    /\ UNCHANGED <<session, writer, lease, holder, target, device>>

\* targetSnapshot() evaluates connectionGeneration() before snapshotTarget
\* takes processStateMutex_.
CaptureGeneration(t) ==
    /\ pc[t] = "capture"
    /\ ctx' = [ctx EXCEPT ![t].tgt.gen = generation]
    /\ Goto(t, "snapshot")
    /\ UNCHANGED <<session, writer, lease, holder, target, device, op, want,
                   round, sent, seen, io, effect, result, begun>>

CaptureTarget(t) ==
    /\ pc[t] = "snapshot"
    /\ Free("state")
    /\ ctx' = [ctx EXCEPT ![t].tgt = [pid |-> pid, handle |-> handle,
                                      revision |-> revision, gen |-> @.gen]]
    /\ Goto(t, "validate")
    /\ UNCHANGED <<session, writer, lease, holder, target, device, op, want,
                   round, sent, seen, io, effect, result, begun>>

\* What validateContext asks of the connection, per operation: connect and
\* disconnect need the generation only, the others a connected session, and
\* all but open an attached target of the same generation.
ConnectionValid(t) ==
    /\ generation = ctx[t].gen
    /\ op[t] \in Lifecycles \/ state = "Connected"
    /\ op[t] \in Lifecycles \/ ctx[t].tgt.gen = generation
    /\ op[t] \in Lifecycles \cup {"open"} \/ Attached(ctx[t].tgt)

\* Mutant: the revision is not compared, so a target that was switched away
\* and back passes for the same one.
TargetLooksUnchanged(t) ==
    /\ pid = ctx[t].tgt.pid
    /\ handle = ctx[t].tgt.handle

\* snapshotTarget under processStateMutex_ against the context.
TargetUnchanged(t) ==
    /\ pid = ctx[t].tgt.pid
    /\ handle = ctx[t].tgt.handle
    /\ revision = ctx[t].tgt.revision

\* The operation returns r.  Whatever it still holds is released with it.
Return(t, r) ==
    /\ result' = Set(result, t, r)
    /\ holder' = [m \in Mutexes |-> IF holder[m] = t THEN NoThread ELSE holder[m]]
    /\ lease' = Set(lease, t, 0)
    /\ Goto(t, "idle")

Keep(t, l) == Goto(t, l) /\ UNCHANGED <<result, holder, lease>>

\* Before anything is sent; openProcess validates again under processMutex_.
Validate(t) ==
    /\ pc[t] \in {"validate", "revalidate"}
    /\ \/ /\ ConnectionValid(t)
          /\ Keep(t, IF op[t] \in Lifecycles THEN "lockConnection"
                     ELSE IF pc[t] = "validate" THEN "validateTarget"
                     ELSE "revalidateTarget")
       \/ ~ConnectionValid(t) /\ Return(t, "error")
       \/ t \in Timed /\ Return(t, "error")      \* cancelled or out of time
    /\ UNCHANGED <<session, writer, target, device, op, want, ctx, round,
                   sent, seen, io, effect, begun>>

ValidateTarget(t) ==
    /\ pc[t] \in {"validateTarget", "revalidateTarget"}
    /\ Free("state")
    /\ \/ /\ TargetUnchanged(t)
          /\ Keep(t, IF op[t] = "open" /\ pc[t] = "validateTarget"
                     THEN "lockProcess" ELSE "acquire")
       \/ ~TargetUnchanged(t) /\ Return(t, "error")
    /\ UNCHANGED <<session, writer, target, device, op, want, ctx, round,
                   sent, seen, io, effect, begun>>

-----------------------------------------------------------------------------
(* Transactions: SocketCommand::TransactionLease and contextMatches *)

\* AcquireRequest.  openProcess also compares the lease with its context;
\* clearUxnIfKernel, before a connect or disconnect, goes on without it.
AcquireRequest(t) ==
    /\ pc[t] = "acquire"
    /\ writer = NoThread
    /\ \/ /\ state = "Connected"
          /\ op[t] = "open" => generation = ctx[t].gen
          /\ lease' = Set(lease, t, generation)
          /\ Goto(t, IF op[t] = "open" THEN "begin" ELSE "lockTx")
       \/ /\ state # "Connected" \/ (op[t] = "open" /\ generation # ctx[t].gen)
          /\ Goto(t, IF op[t] \in Lifecycles THEN "gate" ELSE "post")
          /\ UNCHANGED lease
    /\ UNCHANGED <<session, writer, holder, target, device, local>>

\* The port's transaction mutex.
LockTransaction(t) ==
    /\ pc[t] = "lockTx"
    /\ Lock(t, Port(t))
    /\ Goto(t, CASE op[t] = "open" -> "closeOld"
                 [] op[t] \in Lifecycles -> "exchange"
                 [] OTHER -> "matchRev")
    /\ UNCHANGED <<session, writer, lease, target, device, local>>

\* try_lock_for runs out: only threads with a budget give up.  openProcess
\* clears the target then (sent is still NoHandle).
LockTimeout(t) ==
    /\ pc[t] = "lockTx"
    /\ t \in Timed
    /\ ~Free(Port(t))
    /\ Goto(t, IF op[t] = "open" THEN "publishPid" ELSE "drop")
    /\ UNCHANGED <<session, writer, lease, holder, target, device, local>>

\* contextMatches is called once by write and hits, and by read and modules
\* when the transaction begins and again right before the command.
Rounds(t) == IF op[t] \in {"read", "modules"} THEN 2 ELSE 1

\* Where an operation goes when a check inside its transaction fails: the
\* transaction goes out of scope, but listModules (and resolveModule and the
\* symbol calls) still holds it while it looks for the reason.
Fail(t) == Goto(t, IF op[t] = "modules" /\ round[t] > 0 THEN "heldValidate"
                   ELSE "drop")

\* matchesStableTarget reads revision, pid, handle and revision again, with
\* no lock.
MatchRevision(t) ==
    /\ pc[t] = "matchRev"
    /\ IF /\ IsCurrent(t)
          /\ lease[t] = ctx[t].gen /\ lease[t] = ctx[t].tgt.gen
          /\ revision % 2 = 0
          /\ revision = ctx[t].tgt.revision
       THEN Goto(t, "matchPid") ELSE Fail(t)
    /\ UNCHANGED <<session, writer, lease, holder, target, device, local>>

MatchPid(t) ==
    /\ pc[t] = "matchPid"
    /\ IF pid = ctx[t].tgt.pid THEN Goto(t, "matchHandle") ELSE Fail(t)
    /\ UNCHANGED <<session, writer, lease, holder, target, device, local>>

MatchHandle(t) ==
    /\ pc[t] = "matchHandle"
    /\ IF handle = ctx[t].tgt.handle THEN Goto(t, "matchAgain") ELSE Fail(t)
    /\ UNCHANGED <<session, writer, lease, holder, target, device, local>>

MatchAgain(t) ==
    /\ pc[t] = "matchAgain"
    /\ \/ /\ revision = ctx[t].tgt.revision
          /\ round' = [round EXCEPT ![t] = @ + 1]
          /\ Goto(t, IF round[t] + 1 < Rounds(t) THEN "matchRev" ELSE "loadHandle")
       \/ revision # ctx[t].tgt.revision /\ Fail(t) /\ UNCHANGED round
    /\ UNCHANGED <<session, writer, lease, holder, target, device, op, want,
                   ctx, sent, seen, io, effect, result, begun>>

\* EnsureOpenHandle loads processHandle again: it is this value that is sent.
EnsureOpenHandle(t) ==
    /\ pc[t] = "loadHandle"
    /\ sent' = Set(sent, t, handle)
    /\ IF handle # NoHandle THEN Goto(t, "exchange") ELSE Fail(t)
    /\ UNCHANGED <<session, writer, lease, holder, target, device, op, want,
                   ctx, round, seen, io, effect, result, begun>>

\* The server finds the process of a breakpoint in the handle; memory and
\* modules go through g_memIO once the handle is known to be a process.
Touched(t) ==
    CASE op[t] \in Lifecycles -> NoPid
      [] table[sent[t]] = NoPid -> NoPid
      [] op[t] = "hits" -> table[sent[t]]
      [] OTHER -> ioPid

\* PoisonAndClose: any failed send or receive ends the session.
Poison == state' = "Poisoned" /\ generation' = generation + 1

\* One request and its response.  io records what the client learns: "none"
\* (nothing was sent), "ok", "refused" (a complete answer that is a failure),
\* "lost" (sent, no complete answer), "short" (only part was written) or
\* "absurd" (a byte count that makes no sense).
Exchange(t) ==
    /\ pc[t] = "exchange"
    /\ \/ ~IsCurrent(t) /\ UNCHANGED <<session, io, effect>> /\ Fail(t)
       \/ /\ IsCurrent(t)
          /\ \/ /\ op[t] \in {"read", "modules"} => Touched(t) # NoPid
                /\ effect' = Set(effect, t, Touched(t))
                /\ \E r \in IF op[t] = "write" THEN {"ok", "short"} ELSE {"ok"} :
                      io' = Set(io, t, r)
                /\ Goto(t, "drop")
                /\ UNCHANGED session
             \/ /\ op[t] \in {"read", "modules"}
                /\ io' = Set(io, t, "refused")
                /\ Fail(t)
                /\ UNCHANGED <<session, effect>>
             \/ \* the command could not be sent
                /\ Poison
                /\ Fail(t)
                /\ UNCHANGED <<io, effect>>
             \/ \* the command was sent and no complete response arrived, or
                \* rejectMalformedResponse rejects the answer to a write
                /\ Poison
                /\ \E r \in IF op[t] = "write" THEN {"lost", "absurd"} ELSE {"lost"} :
                      io' = Set(io, t, r)
                /\ \E p \in {Touched(t), NoPid} : effect' = Set(effect, t, p)
                /\ Fail(t)
    /\ UNCHANGED <<writer, lease, holder, target, device, op, want, ctx,
                   round, sent, seen, result, begun>>

\* validateContext while the transaction is held.
HeldValidate(t) ==
    /\ pc[t] = "heldValidate"
    /\ \/ ConnectionValid(t) /\ Keep(t, "heldTarget")
       \/ ~ConnectionValid(t) /\ Return(t, "error")
    /\ UNCHANGED <<session, writer, target, device, op, want, ctx, round,
                   sent, seen, io, effect, begun>>

HeldTarget(t) ==
    /\ pc[t] = "heldTarget"
    /\ Free("state")
    /\ Return(t, "error")
    /\ UNCHANGED <<session, writer, target, device, op, want, ctx, round,
                   sent, seen, io, effect, begun>>

\* The transaction goes out of scope: mutex first, request lease second.
DropTransaction(t) ==
    /\ pc[t] = "drop"
    /\ holder' = [holder EXCEPT ![Port(t)] = IF @ = t THEN NoThread ELSE @]
    /\ lease' = Set(lease, t, 0)
    /\ Goto(t, IF op[t] \in Lifecycles THEN "gate" ELSE "post")
    /\ UNCHANGED <<session, writer, target, device, local>>

-----------------------------------------------------------------------------
(* Results *)

\* A write whose answer never came, came short or makes no sense says so at
\* once: completion_unknown, partial_write, or a protocol error that is not
\* retryable.
Immediate(t) == op[t] = "write" /\ io[t] \in {"lost", "short", "absurd"}
Incomplete == [lost |-> "unknown", short |-> "partial", absurd |-> "invalid"]

\* What the operation returns when its last validation fails or passes.
Rejected(t) == IF op[t] = "write" /\ io[t] = "ok" THEN "unknown" ELSE "error"
Accepted(t) == IF io[t] = "ok" THEN "ok" ELSE "error"

Post(t) ==
    /\ pc[t] = "post"
    /\ \/ /\ Immediate(t)
          /\ Return(t, Incomplete[io[t]])
       \/ /\ ~Immediate(t)
          /\ op[t] = "open" /\ io[t] # "ok"
          /\ Return(t, "error")
       \/ /\ ~Immediate(t)
          /\ ~(op[t] = "open" /\ io[t] # "ok")
          /\ IF IF op[t] = "open" THEN generation = ctx[t].gen /\ state = "Connected"
                ELSE ConnectionValid(t)
             THEN Keep(t, "postTarget") ELSE Return(t, Rejected(t))
       \/ \* cancelled or out of time; a write is past that
          /\ t \in Timed
          /\ op[t] \in {"read", "modules", "hits"} /\ io[t] = "ok"
          /\ Return(t, "error")
    /\ UNCHANGED <<session, writer, target, device, op, want, ctx, round,
                   sent, seen, io, effect, begun>>

PostTarget(t) ==
    /\ pc[t] = "postTarget"
    /\ Free("state")
    /\ \/ /\ op[t] = "open"
          /\ seen' = Set(seen, t, revision)
          /\ IF pid = want[t] /\ handle # NoHandle /\ generation = ctx[t].gen
             THEN Keep(t, "final") ELSE Return(t, "error")
       \/ /\ op[t] # "open"
          /\ Return(t, IF TargetUnchanged(t) THEN Accepted(t) ELSE Rejected(t))
          /\ UNCHANGED seen
    /\ UNCHANGED <<session, writer, target, device, op, want, ctx, round,
                   sent, io, effect, begun>>

\* openProcess looks at the target a second time before it answers.
Final(t) ==
    /\ pc[t] = "final"
    /\ Free("state")
    /\ Return(t, IF /\ generation = ctx[t].gen /\ state = "Connected"
                    /\ revision = seen[t]
                 THEN "ok" ELSE "error")
    /\ UNCHANGED <<session, writer, target, device, op, want, ctx, round,
                   sent, seen, io, effect, begun>>

-----------------------------------------------------------------------------
(* MemService::openProcess and SystemMemService::openProcess *)

LockProcess(t) ==
    /\ pc[t] = "lockProcess"
    /\ Lock(t, "process")
    /\ Goto(t, "revalidate")
    /\ UNCHANGED <<session, writer, lease, target, device, local>>

\* AppContext::beginTargetMutation: an odd revision or another target than
\* the expected one refuses; the revision is odd from here on.
BeginTargetMutation(t) ==
    /\ pc[t] = "begin"
    /\ Free("state")
    /\ \/ /\ revision % 2 = 0
          /\ TargetUnchanged(t)
          /\ ctx[t].tgt.gen = lease[t]
          /\ holder' = [holder EXCEPT !["state"] = t]
          /\ revision' = revision + 1
          /\ Goto(t, "lockTx")
          /\ UNCHANGED lease
       \/ /\ revision % 2 # 0 \/ ~TargetUnchanged(t) \/ ctx[t].tgt.gen # lease[t]
          /\ lease' = Set(lease, t, 0)
          /\ Goto(t, "post")
          /\ UNCHANGED <<holder, revision>>
    /\ UNCHANGED <<session, writer, pid, handle, device, local>>

\* The old target's breakpoints and handle are removed on the server; a
\* failure is ignored unless it ends the session.
CloseOld(t) ==
    /\ pc[t] = "closeOld"
    /\ \/ /\ IsCurrent(t) /\ Attached(ctx[t].tgt)
          /\ \/ /\ table' = [table EXCEPT ![ctx[t].tgt.handle] = NoPid]
                /\ ioPid' = NoPid
                /\ UNCHANGED session \/ Poison
             \/ Poison /\ UNCHANGED device
       \/ /\ ~(IsCurrent(t) /\ Attached(ctx[t].tgt))
          /\ UNCHANGED <<session, device>>
    /\ Goto(t, "openNew")
    /\ UNCHANGED <<writer, lease, holder, target, local>>

\* The server keeps one handle per process and points g_memIO at a process
\* even when it then cannot open it.
OpenHandle(p, h) ==
    /\ IF \E k \in Handles : table[k] = p THEN table[h] = p ELSE table[h] = NoPid
    /\ table' = [table EXCEPT ![h] = p]
    /\ ioPid' = p

OpenNew(t) ==
    /\ pc[t] = "openNew"
    /\ \/ \* isCurrent failed: nothing is sent
          ~IsCurrent(t) /\ UNCHANGED <<session, device, sent, io>>
       \/ /\ IsCurrent(t)
          /\ \/ \E h \in Handles :
                  /\ OpenHandle(want[t], h)
                  /\ \/ /\ sent' = Set(sent, t, h)
                        /\ io' = Set(io, t, "ok")
                        /\ UNCHANGED session
                     \/ Poison /\ UNCHANGED <<sent, io>>
             \/ \* the server cannot open the process
                /\ ioPid' = want[t]
                /\ io' = Set(io, t, "refused")
                /\ UNCHANGED <<session, table, sent>>
             \/ Poison /\ UNCHANGED <<device, sent, io>>
    /\ Goto(t, "publishPid")
    /\ UNCHANGED <<writer, lease, holder, target, op, want, ctx, round, seen,
                   effect, result, begun>>

\* TargetMutation::publish, or clear when there is no handle or the session
\* ended meanwhile: two stores, one after the other.
PublishPid(t) ==
    /\ pc[t] = "publishPid"
    /\ \/ /\ sent[t] # NoHandle /\ IsCurrent(t)
          /\ pid' = want[t]
          /\ UNCHANGED <<sent, io>>
       \/ /\ ~(sent[t] # NoHandle /\ IsCurrent(t))
          /\ pid' = NoPid
          /\ sent' = Set(sent, t, NoHandle)
          /\ io' = Set(io, t, "none")
    /\ Goto(t, "publishHandle")
    /\ UNCHANGED <<session, writer, lease, holder, handle, revision, device,
                   op, want, ctx, round, seen, effect, result, begun>>

\* Mutant: clearing the target leaves the old handle in place.
PublishHandleIfAny(t) ==
    /\ pc[t] = "publishHandle"
    /\ handle' = IF sent[t] = NoHandle THEN handle ELSE sent[t]
    /\ Goto(t, "unlockTx")
    /\ UNCHANGED <<session, writer, lease, holder, pid, revision, device,
                   local>>

PublishHandle(t) ==
    /\ pc[t] = "publishHandle"
    /\ handle' = sent[t]
    /\ Goto(t, "unlockTx")
    /\ UNCHANGED <<session, writer, lease, holder, pid, revision, device,
                   local>>

\* Destructors run in reverse order: the transaction goes first, with the
\* revision still odd.
UnlockTransaction(t) ==
    /\ pc[t] = "unlockTx"
    /\ holder' = [holder EXCEPT !["main"] = IF @ = t THEN NoThread ELSE @]
    /\ Goto(t, "finish")
    /\ UNCHANGED <<session, writer, lease, target, device, local>>

\* TargetMutation::finish, then processStateMutex_ and the request lease.
FinishMutation(t) ==
    /\ pc[t] = "finish"
    /\ revision' = revision + 1
    /\ holder' = [holder EXCEPT !["state"] = NoThread]
    /\ lease' = Set(lease, t, 0)
    /\ Goto(t, "post")
    /\ UNCHANGED <<session, writer, pid, handle, device, local>>

-----------------------------------------------------------------------------
(* MemService::connect and disconnect *)

LockConnection(t) ==
    /\ pc[t] = "lockConnection"
    /\ Lock(t, "connection")
    /\ Goto(t, "recheck")
    /\ UNCHANGED <<session, writer, lease, target, device, local>>

\* The generation again under connectionMutex_; a connected session is asked
\* to clear its UXN breakpoints first, in a MAIN transaction.
Recheck(t) ==
    /\ pc[t] = "recheck"
    /\ \/ /\ generation = ctx[t].gen
          /\ Keep(t, IF state = "Connected" THEN "acquire" ELSE "gate")
       \/ generation # ctx[t].gen /\ Return(t, "error")
    /\ UNCHANGED <<session, writer, target, device, op, want, ctx, round,
                   sent, seen, io, effect, begun>>

AcquireLifecycle(t) ==
    /\ pc[t] = "gate"
    /\ writer = NoThread
    /\ \A u \in Threads : lease[u] = 0
    /\ writer' = t
    /\ Goto(t, "replace")
    /\ UNCHANGED <<session, lease, holder, target, device, local>>

\* BeginConnect or Disconnect.
ReplaceSession(t) ==
    /\ pc[t] = "replace"
    /\ state' = IF op[t] = "connect" THEN "Connecting" ELSE "Disconnected"
    /\ generation' = IF op[t] = "connect" \/ state # "Disconnected"
                     THEN generation + 1 ELSE generation
    /\ Goto(t, "clearTarget")
    /\ UNCHANGED <<writer, lease, holder, target, device, local>>

\* clearProcessForDisconnect: a mutation nobody without processStateMutex_
\* can watch, since requests are held back by the gate.
ClearTarget(t) ==
    /\ pc[t] = "clearTarget"
    /\ Free("state")
    /\ \/ /\ revision % 2 = 0
          /\ pid' = NoPid
          /\ handle' = NoHandle
          /\ revision' = revision + 2
       \/ revision % 2 # 0 /\ UNCHANGED target
    /\ Goto(t, IF op[t] = "connect" THEN "finishConnect" ELSE "leave")
    /\ UNCHANGED <<session, writer, lease, holder, device, local>>

FinishConnect(t) ==
    /\ pc[t] = "finishConnect"
    /\ state' \in {"Connected", "Disconnected"}
    /\ Goto(t, "leave")
    /\ UNCHANGED <<generation, writer, lease, holder, target, device, local>>

\* lifecycleGate_ and connectionMutex_ are released.
LeaveLifecycle(t) ==
    /\ pc[t] = "leave"
    /\ writer' = NoThread
    /\ Return(t, IF op[t] = "disconnect" \/ state = "Connected"
                 THEN "ok" ELSE "error")
    /\ UNCHANGED <<session, target, device, op, want, ctx, round, sent, seen,
                   io, effect, begun>>

-----------------------------------------------------------------------------
\* Everything a thread does by itself once an operation has begun.
Step(t) ==
    \/ CaptureGeneration(t) \/ CaptureTarget(t)
    \/ Validate(t) \/ ValidateTarget(t)
    \/ AcquireRequest(t) \/ LockTransaction(t) \/ LockTimeout(t)
    \/ MatchRevision(t) \/ MatchPid(t) \/ MatchHandle(t) \/ MatchAgain(t)
    \/ EnsureOpenHandle(t) \/ Exchange(t)
    \/ HeldValidate(t) \/ HeldTarget(t) \/ DropTransaction(t)
    \/ Post(t) \/ PostTarget(t) \/ Final(t)
    \/ LockProcess(t) \/ BeginTargetMutation(t) \/ CloseOld(t) \/ OpenNew(t)
    \/ PublishPid(t) \/ PublishHandle(t) \/ UnlockTransaction(t)
    \/ FinishMutation(t)
    \/ LockConnection(t) \/ Recheck(t) \/ AcquireLifecycle(t)
    \/ ReplaceSession(t) \/ ClearTarget(t) \/ FinishConnect(t)
    \/ LeaveLifecycle(t)

Next ==
    \E t \in Threads :
        \/ \E o \in Ops, p \in Pids : Begin(t, o, p)
        \/ Step(t)

Spec == Init /\ [][Next]_vars

\* Every thread is scheduled; exchanges end because every socket operation
\* has a timeout of at least its 5 s default.
FairSpec == Spec /\ \A t \in Threads : WF_vars(Step(t))
-----------------------------------------------------------------------------
\* Every variable stays in its domain.
TypeOK ==
    /\ state \in {"Disconnected", "Connecting", "Connected", "Poisoned"}
    /\ generation \in Nat
    /\ writer \in Threads \cup {NoThread}
    /\ lease \in [Threads -> Nat]
    /\ holder \in [Mutexes -> Threads \cup {NoThread}]
    /\ pid \in Pids \cup {NoPid}
    /\ handle \in Handles \cup {NoHandle}
    /\ revision \in Nat
    /\ table \in [Handles -> Pids \cup {NoPid}]
    /\ ioPid \in Pids \cup {NoPid}
    /\ pc \in [Threads -> Locations]
    /\ op \in [Threads -> Ops \cup {"none"}]
    /\ want \in [Threads -> Pids \cup {NoPid}]
    /\ ctx \in [Threads -> OperationContexts]
    /\ round \in [Threads -> 0..2]
    /\ sent \in [Threads -> Handles \cup {NoHandle}]
    /\ seen \in [Threads -> Nat]
    /\ io \in [Threads -> {"none", "ok", "refused", "lost", "short", "absurd"}]
    /\ effect \in [Threads -> Pids \cup {NoPid}]
    /\ result \in [Threads -> {"none", "ok", "error", "unknown", "partial", "invalid"}]
    /\ begun \in [Threads -> Nat]
    /\ \A t \in Threads : begun[t] <= MaxOps[t]

\* Data that an operation returns, and a write it confirms, is of the process
\* its context names, however the target and the session changed while it ran
\* (docs/api_design.md: every target operation validates the snapshot before
\* it sends and before it commits the result).
AcceptedFromTarget ==
    \A t \in Threads :
        result[t] = "ok" /\ op[t] \in {"read", "write", "modules", "hits"}
            => effect[t] = ctx[t].tgt.pid

\* A MAIN command touches no other process than the context's, not even when
\* its result is thrown away: contextMatches runs before processHandle is
\* loaded again, and only the transaction mutex keeps openProcess from
\* publishing another handle in between.
MainTouchesOnlyTarget ==
    \A t \in Threads :
        op[t] \in {"read", "write", "modules"} =>
            effect[t] \in {NoPid, ctx[t].tgt.pid}

\* The same of a DEBUG command, unless the server itself gave the context's
\* handle number to another process (docs/api_design.md: when another thread
\* switches the process, an operation fails instead of turning to the new
\* target).
DebugTouchesOnlyTarget ==
    \A t \in Threads :
        op[t] = "hits" =>
            \/ effect[t] \in {NoPid, ctx[t].tgt.pid}
            \/ sent[t] = ctx[t].tgt.handle

\* A write that is reported as a plain error, which callers may retry, never
\* reached memory, and one reported as done did; everything else is
\* completion_unknown, partial or a protocol error that is not retryable.
WriteOutcomeHonest ==
    \A t \in Threads : op[t] = "write" =>
        /\ result[t] = "error" => effect[t] = NoPid
        /\ result[t] = "ok" => effect[t] # NoPid

\* A stable published target of a live session is open on the server and is
\* the process g_memIO works on: close, open and publish are one transaction
\* through every failure in the middle of it.
PublishedTargetIsOpen ==
    state = "Connected" /\ revision % 2 = 0 /\ writer = NoThread =>
        \/ pid = NoPid /\ handle = NoHandle
        \/ handle # NoHandle /\ table[handle] = pid /\ ioPid = pid

\* Every operation returns.
OperationEnds == \A t \in Threads : pc[t] # "idle" ~> pc[t] = "idle"
=============================================================================
