---------------------------- MODULE DeviceSession ----------------------------
(***************************************************************************)
(* gui/socket/DeviceSession: the session state and the connection          *)
(* generation shared by every GUI, IPC and Lua thread of the client.       *)
(*                                                                         *)
(* Requests hold the shared side of lifecycleGate_ (a RequestLease) and    *)
(* connect/disconnect hold the exclusive side (a LifecycleLease).  state_  *)
(* and generation_ are two separate atomics, so every load and store of    *)
(* them is a step of its own here.                                         *)
(*                                                                         *)
(* A thread also keeps the generation of the OperationContext it captured  *)
(* before it started (MemService::captureContext); a request goes to the   *)
(* wire only when its lease is current and of that generation.             *)
(***************************************************************************)
EXTENDS Naturals

CONSTANTS
    Threads,         \* the client's threads
    NoThread,        \* nobody holds the exclusive side of the gate
    MaxConnects,     \* bound: connection attempts in a behaviour
    MaxNested,       \* bound: commands nested in one request
    WriterPriority   \* whether a waiting lifecycle holds new requests back
                     \* (std::shared_mutex leaves it to the platform)

ASSUME ThreadAssumption == NoThread \notin Threads
ASSUME BoundAssumption  == MaxConnects \in Nat /\ MaxNested \in Nat
ASSUME WriterPriorityAssumption == WriterPriority \in BOOLEAN

VARIABLES
    state,        \* state_
    generation,   \* generation_
    readers,      \* threads holding lifecycleGate_ shared
    writer,       \* the thread holding lifecycleGate_ exclusively
    pc,           \* where each thread is
    seen,         \* the state_ value a thread loaded last
    lease,        \* SharedRequestLease::generation of a thread's active lease
    nested,       \* commands nested in a thread's request so far
    ctx,          \* OperationContext::connectionGeneration of each thread
    attempts,     \* connection attempts so far (the bound's counter)
    epoch,        \* history: connections established so far
    connGen,      \* history: generation_ when the last one was established
    ctxEpoch      \* history: the connection a context was captured on

vars == <<state, generation, readers, writer, pc, seen, lease, nested, ctx,
          attempts, epoch, connGen, ctxEpoch>>

history == <<epoch, connGen, ctxEpoch>>

States == {"Disconnected", "Connecting", "Connected", "Poisoned"}

\* Inside AcquireRequest, with the shared lock but no lease yet.
Acquiring == {"acqState", "acqGen"}
\* Holding a RequestLease.
Leased == {"leased", "curState", "curGen", "granted", "poisonBump"}
Requesting == Acquiring \cup Leased
\* Holding the LifecycleLease.
ConnectSteps    == {"connBump", "connState", "connFinish"}
DisconnectSteps == {"discLoad", "discBump", "discStore"}
Lifecycle == ConnectSteps \cup DisconnectSteps \cup {"unlock"}
Waiting == {"wantConnect", "wantDisconnect"}
Locations == {"idle"} \cup Requesting \cup Waiting \cup Lifecycle

Goto(t, l) == pc' = [pc EXCEPT ![t] = l]

\* A thread's loaded values go out of scope.
ForgetSeen(t)  == seen' = [seen EXCEPT ![t] = "Disconnected"]
ForgetLease(t) ==
    /\ lease' = [lease EXCEPT ![t] = 0]
    /\ nested' = [nested EXCEPT ![t] = 0]

Init ==
    /\ state = "Disconnected"
    /\ generation = 0
    /\ readers = {}
    /\ writer = NoThread
    /\ pc = [t \in Threads |-> "idle"]
    /\ seen = [t \in Threads |-> "Disconnected"]
    /\ lease = [t \in Threads |-> 0]
    /\ nested = [t \in Threads |-> 0]
    /\ ctx = [t \in Threads |-> 0]
    /\ attempts = 0
    /\ epoch = 0
    /\ connGen = 0
    /\ ctxEpoch = [t \in Threads |-> 0]

-----------------------------------------------------------------------------
(* Contexts *)

\* The connection a caller looks at when it reads generation_: the one being
\* established once its generation is out, the established one while the
\* session is Connected, and none (0) otherwise.
ConnectionInView ==
    IF \E t \in Threads : pc[t] \in {"connState", "connFinish"} THEN epoch + 1
    ELSE IF state = "Connected" THEN epoch
    ELSE 0

\* MemService::captureContext takes no lock.
CaptureContext(t) ==
    /\ pc[t] = "idle"
    /\ ctx' = [ctx EXCEPT ![t] = generation]
    /\ ctxEpoch' = [ctxEpoch EXCEPT ![t] = ConnectionInView]
    /\ UNCHANGED <<state, generation, readers, writer, pc, seen, lease,
                   nested, attempts, epoch, connGen>>

-----------------------------------------------------------------------------
(* Requests *)

\* AcquireRequest, first half: the thread has no active lease and takes the
\* shared side of the gate.
AcquireShared(t) ==
    /\ pc[t] = "idle"
    /\ writer = NoThread
    /\ WriterPriority => \A u \in Threads : pc[u] \notin Waiting
    /\ readers' = readers \cup {t}
    /\ Goto(t, "acqState")
    /\ UNCHANGED <<state, generation, writer, seen, lease, nested, ctx,
                   attempts, history>>

AcquireLoadState(t) ==
    /\ pc[t] = "acqState"
    /\ seen' = [seen EXCEPT ![t] = state]
    /\ Goto(t, "acqGen")
    /\ UNCHANGED <<state, generation, readers, writer, lease, nested, ctx,
                   attempts, history>>

\* An invalid lease keeps no lock; a valid one becomes the thread's active
\* lease and is checked by the TransactionLease around it.
AcquireLoadGeneration(t) ==
    /\ pc[t] = "acqGen"
    /\ \/ /\ seen[t] # "Connected"
          /\ readers' = readers \ {t}
          /\ Goto(t, "idle")
          /\ UNCHANGED <<lease, nested>>
       \/ /\ seen[t] = "Connected"
          /\ lease' = [lease EXCEPT ![t] = generation]
          /\ nested' = [nested EXCEPT ![t] = 0]
          /\ Goto(t, "curState")
          /\ UNCHANGED readers
    /\ ForgetSeen(t)
    /\ UNCHANGED <<state, generation, writer, ctx, attempts, history>>

\* AcquireRequest on a thread whose lease is active: it shares that lease and
\* does not touch the gate.
AcquireNested(t) ==
    /\ pc[t] = "leased"
    /\ nested[t] < MaxNested
    /\ nested' = [nested EXCEPT ![t] = @ + 1]
    /\ Goto(t, "curState")
    /\ UNCHANGED <<state, generation, readers, writer, seen, lease, ctx,
                   attempts, history>>

\* RequestLease::isCurrent loads state_, then generation_.
CurrentLoadState(t) ==
    /\ pc[t] = "curState"
    /\ seen' = [seen EXCEPT ![t] = state]
    /\ Goto(t, "curGen")
    /\ UNCHANGED <<state, generation, readers, writer, lease, nested, ctx,
                   attempts, history>>

\* Mutant: the generation is not looked at again.
IsCurrentByState(t) == seen[t] = "Connected"

\* A caller goes to the wire when the lease is current and of the generation
\* its context names.
IsCurrent(t) ==
    /\ seen[t] = "Connected"
    /\ generation = lease[t]

CurrentLoadGeneration(t) ==
    /\ pc[t] = "curGen"
    /\ Goto(t, IF IsCurrent(t) /\ lease[t] = ctx[t] THEN "granted" ELSE "leased")
    /\ ForgetSeen(t)
    /\ UNCHANGED <<state, generation, readers, writer, lease, nested, ctx,
                   attempts, history>>

\* The request-response exchange completes.
ExchangeOk(t) ==
    /\ pc[t] = "granted"
    /\ Goto(t, "leased")
    /\ UNCHANGED <<state, generation, readers, writer, seen, lease, nested,
                   ctx, attempts, history>>

\* Mutant: a failed exchange disconnects through the lifecycle gate while it
\* still holds its own request lease.
PoisonThroughGate(t) ==
    /\ pc[t] = "granted"
    /\ Goto(t, "wantDisconnect")
    /\ UNCHANGED <<state, generation, readers, writer, seen, lease, nested,
                   ctx, attempts, history>>

\* The exchange fails (send or receive error, EOF, timeout, malformed
\* response): PoisonAndClose calls MarkPoisoned, whose compare-exchange
\* succeeds only from Connected and is followed by a separate increment.
MarkPoisonedSwap(t) ==
    /\ pc[t] = "granted"
    /\ \/ /\ state = "Connected"
          /\ state' = "Poisoned"
          /\ Goto(t, "poisonBump")
       \/ /\ state # "Connected"
          /\ Goto(t, "leased")
          /\ UNCHANGED state
    /\ UNCHANGED <<generation, readers, writer, seen, lease, nested, ctx,
                   attempts, history>>

\* Mutant: poisoning does not retire the generation.
MarkPoisonedNoBump(t) ==
    /\ pc[t] = "poisonBump"
    /\ Goto(t, "leased")
    /\ UNCHANGED <<state, generation, readers, writer, seen, lease, nested,
                   ctx, attempts, history>>

MarkPoisonedBump(t) ==
    /\ pc[t] = "poisonBump"
    /\ generation' = generation + 1
    /\ Goto(t, "leased")
    /\ UNCHANGED <<state, readers, writer, seen, lease, nested, ctx,
                   attempts, history>>

\* The last reference to the shared lease goes away and unlocks the gate.
ReleaseRequest(t) ==
    /\ pc[t] = "leased"
    /\ readers' = readers \ {t}
    /\ ForgetLease(t)
    /\ Goto(t, "idle")
    /\ UNCHANGED <<state, generation, writer, seen, ctx, attempts, history>>

-----------------------------------------------------------------------------
(* Lifecycle *)

WantConnect(t) ==
    /\ pc[t] = "idle"
    /\ attempts < MaxConnects
    /\ attempts' = attempts + 1
    /\ Goto(t, "wantConnect")
    /\ UNCHANGED <<state, generation, readers, writer, seen, lease, nested,
                   ctx, history>>

WantDisconnect(t) ==
    /\ pc[t] = "idle"
    /\ Goto(t, "wantDisconnect")
    /\ UNCHANGED <<state, generation, readers, writer, seen, lease, nested,
                   ctx, attempts, history>>

\* Mutant: the exclusive lock does not wait for requests in flight.
GateIgnoresReaders == writer = NoThread

GateFree == writer = NoThread /\ readers = {}

AcquireLifecycle(t) ==
    /\ pc[t] \in Waiting
    /\ GateFree
    /\ writer' = t
    /\ Goto(t, IF pc[t] = "wantConnect" THEN "connBump" ELSE "discLoad")
    /\ UNCHANGED <<state, generation, readers, seen, lease, nested, ctx,
                   attempts, history>>

\* Mutant: a new connection keeps the generation of the last one.
BeginConnectNoBump(t) ==
    /\ pc[t] = "connBump"
    /\ Goto(t, "connState")
    /\ UNCHANGED <<state, generation, readers, writer, seen, lease, nested,
                   ctx, attempts, history>>

\* BeginConnect increments generation_ first and stores Connecting second.
BeginConnectBump(t) ==
    /\ pc[t] = "connBump"
    /\ generation' = generation + 1
    /\ Goto(t, "connState")
    /\ UNCHANGED <<state, readers, writer, seen, lease, nested, ctx,
                   attempts, history>>

BeginConnectStore(t) ==
    /\ pc[t] = "connState"
    /\ state' = "Connecting"
    /\ Goto(t, "connFinish")
    /\ UNCHANGED <<generation, readers, writer, seen, lease, nested, ctx,
                   attempts, history>>

\* FinishConnect, after the three ports connected or one of them did not.
FinishConnect(t) ==
    /\ pc[t] = "connFinish"
    /\ \/ /\ state' = "Connected"
          /\ epoch' = epoch + 1
          /\ connGen' = generation
       \/ /\ state' = "Disconnected"
          /\ UNCHANGED <<epoch, connGen>>
    /\ Goto(t, "unlock")
    /\ UNCHANGED <<generation, readers, writer, seen, lease, nested, ctx,
                   attempts, ctxEpoch>>

DisconnectLoad(t) ==
    /\ pc[t] = "discLoad"
    /\ Goto(t, IF state = "Disconnected" THEN "discStore" ELSE "discBump")
    /\ UNCHANGED <<state, generation, readers, writer, seen, lease, nested, ctx,
                   attempts, history>>

DisconnectBump(t) ==
    /\ pc[t] = "discBump"
    /\ generation' = generation + 1
    /\ Goto(t, "discStore")
    /\ UNCHANGED <<state, readers, writer, seen, lease, nested, ctx,
                   attempts, history>>

DisconnectStore(t) ==
    /\ pc[t] = "discStore"
    /\ state' = "Disconnected"
    /\ Goto(t, "unlock")
    /\ UNCHANGED <<generation, readers, writer, seen, lease, nested, ctx,
                   attempts, history>>

ReleaseLifecycle(t) ==
    /\ pc[t] = "unlock"
    /\ writer' = NoThread
    /\ Goto(t, "idle")
    /\ UNCHANGED <<state, generation, readers, seen, lease, nested, ctx,
                   attempts, history>>

-----------------------------------------------------------------------------
\* The steps a thread takes by itself once it has begun something.
RequestStep(t) ==
    \/ AcquireLoadState(t)
    \/ AcquireLoadGeneration(t)
    \/ AcquireNested(t)
    \/ CurrentLoadState(t)
    \/ CurrentLoadGeneration(t)
    \/ ExchangeOk(t)
    \/ MarkPoisonedSwap(t)
    \/ MarkPoisonedBump(t)
    \/ ReleaseRequest(t)

LifecycleStep(t) ==
    \/ AcquireLifecycle(t)
    \/ BeginConnectBump(t)
    \/ BeginConnectStore(t)
    \/ FinishConnect(t)
    \/ DisconnectLoad(t)
    \/ DisconnectBump(t)
    \/ DisconnectStore(t)
    \/ ReleaseLifecycle(t)

\* What a caller may decide to begin.
Begin(t) ==
    \/ CaptureContext(t)
    \/ AcquireShared(t)
    \/ WantConnect(t)
    \/ WantDisconnect(t)

Next == \E t \in Threads : RequestStep(t) \/ LifecycleStep(t) \/ Begin(t)

Spec == Init /\ [][Next]_vars

\* A thread that has begun is scheduled again and its exchanges end (every
\* socket operation has a timeout); nobody has to begin anything.
Fairness ==
    \A t \in Threads : WF_vars(RequestStep(t)) /\ WF_vars(LifecycleStep(t))

FairSpec == Spec /\ Fairness

-----------------------------------------------------------------------------
\* Every variable stays in its domain.
TypeOK ==
    /\ state \in States
    /\ generation \in Nat
    /\ readers \subseteq Threads
    /\ writer \in Threads \cup {NoThread}
    /\ pc \in [Threads -> Locations]
    /\ seen \in [Threads -> States]
    /\ lease \in [Threads -> Nat]
    /\ nested \in [Threads -> 0..MaxNested]
    /\ ctx \in [Threads -> Nat]
    /\ attempts \in 0..MaxConnects
    /\ epoch \in Nat
    /\ connGen \in Nat
    /\ ctxEpoch \in [Threads -> Nat]

\* A request that passed isCurrent (SocketCommand.h operator bool) goes to the
\* very connection its context was captured on: never to a later one that a
\* reconnect put in its place, and never at all when the context was captured
\* while the session was Disconnected or Poisoned.
GrantedOnCapturedConnection ==
    \A t \in Threads : pc[t] = "granted" => ctxEpoch[t] = epoch

\* A lease never survives into another connection.  Its generation is the one
\* the current connection was established with or, when AcquireRequest loads
\* state_ before and generation_ after another thread poisons the session, the
\* next one, in which case the session is no longer Connected.
LeaseOfThisConnection ==
    \A t \in Threads : pc[t] \in Leased =>
        \/ lease[t] = connGen
        \/ lease[t] = connGen + 1 /\ state = "Poisoned"

\* With the gate free, an ended connection's generation is retired: poisoning
\* and disconnecting advance generation_ (DeviceSessionTests, "poisoning
\* advances the generation"), so a context captured before the end is told so
\* even by operations that need no connection.
EndedConnectionIsRetired ==
    GateFree /\ state # "Connected" /\ epoch > 0 => generation > connGen

\* No request is held for ever: a nested command reuses the thread's lease
\* instead of queueing behind a lifecycle that is itself waiting for it.
RequestEnds ==
    \A t \in Threads : pc[t] \in Requesting ~> pc[t] = "idle"

\* No connection ever shares a generation with an earlier one, and one is
\* established only when no request holds a lease.
FreshConnection ==
    [][epoch' > epoch => generation > connGen /\ readers = {}]_vars

\* The two atomics and the gate implement the abstract session: a connection
\* is up from FinishConnect until the first step that retires its generation
\* (a poisoning, a disconnect or the next BeginConnect), a request is let
\* through only while it is up and to the connection its context was captured
\* on, and the next connection starts with no request on the last one.
Abstract ==
    INSTANCE AbstractSession WITH
        last    <- epoch,
        up      <- epoch > 0 /\ generation = connGen,
        granted <- [t \in Threads |-> IF pc[t] = "granted" THEN ctxEpoch[t] ELSE 0]

ImplementsAbstractSession == Abstract!Spec
=============================================================================
