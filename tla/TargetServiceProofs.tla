------------------------- MODULE TargetServiceProofs -------------------------
(***************************************************************************)
(* What the client's operations on the selected process promise for any    *)
(* number of threads, processes, handles and operations: a MAIN command    *)
(* touches no process but its context's, an accepted result is of that     *)
(* process, and a stable published target is open on the server.           *)
(***************************************************************************)
EXTENDS TargetService, TLAPS

Data == {"read", "write", "modules", "hits"}
Main == {"read", "write", "modules"}

\* The locations of each kind of operation.
LifecyclePath == {"validate", "lockConnection", "recheck", "acquire", "lockTx", "exchange", "drop",
                  "gate", "replace", "clearTarget", "finishConnect", "leave"}
Mutating == {"lockTx", "closeOld", "openNew", "publishPid", "publishHandle", "unlockTx", "finish"}
OpenPath == {"capture", "snapshot", "validate", "validateTarget", "lockProcess", "revalidate",
             "revalidateTarget", "acquire", "begin", "post", "postTarget", "final"} \cup Mutating
Matching == {"matchRev", "matchPid", "matchHandle", "matchAgain"}
InTransaction == Matching \cup {"loadHandle", "exchange", "heldValidate", "heldTarget"}
DataPath == {"capture", "snapshot", "validate", "validateTarget", "acquire", "lockTx", "drop", "post",
             "postTarget"} \cup InTransaction
Exclusive == {"replace", "clearTarget", "finishConnect", "leave"}
Leased == InTransaction \cup Mutating \cup {"drop", "begin"}

\* A thread is where its operation can be; a result belongs to an operation
\* that has ended.
Where ==
    \A t \in Threads :
        /\ pc[t] # "idle" => /\ result[t] = "none"
                             /\ \/ op[t] \in Lifecycles /\ pc[t] \in LifecyclePath
                                \/ op[t] = "open" /\ pc[t] \in OpenPath /\ want[t] \in Pids
                                \/ op[t] \in Data /\ pc[t] \in DataPath
        /\ pc[t] \in {"capture", "snapshot"} => io[t] = "none" /\ effect[t] = NoPid
        /\ pc[t] \in {"capture", "snapshot", "validate", "validateTarget", "acquire", "lockTx"}
           \/ op[t] \notin Data => round[t] = 0
        /\ pc[t] \in Matching => round[t] < Rounds(t)

-----------------------------------------------------------------------------
(* Locks and leases.                                                        *)

Mutates(t) == op[t] = "open" /\ pc[t] \in Mutating

Stable == revision % 2 = 0 <=> holder["state"] = NoThread

\* Requests and lifecycles exclude each other; processStateMutex_ is held, and
\* the revision odd, exactly while a thread mutates the target.
Locked ==
    /\ \A t \in Threads : writer = t <=> pc[t] \in Exclusive
    /\ \A t \in Threads : lease[t] # 0 <=> pc[t] \in Leased
    /\ writer # NoThread => \A t \in Threads : lease[t] = 0
    /\ state = "Connected" => generation # 0
    /\ \A t \in Threads :
          pc[t] = "finishConnect" \/ (pc[t] = "clearTarget" /\ op[t] = "connect") => generation # 0
    /\ \A t \in Threads : holder["state"] = t <=> Mutates(t)
    /\ Stable
    /\ \A t \in Threads : op[t] \in Data /\ pc[t] \in InTransaction => holder[Port(t)] = t
    /\ \A t \in Threads : pc[t] \in {"closeOld", "openNew"} => holder["main"] = t

-----------------------------------------------------------------------------
(* Contexts.  A snapshot whose revision is still the current one is still   *)
(* the target: the revision of a stable target names it.                    *)

Snapped(s) ==
    /\ s.revision % 2 = 0 /\ s.revision <= revision
    /\ s.revision = revision => s.pid = pid /\ s.handle = handle

\* No operation on a process goes past its validation without one.
AttachedPast ==
    \A t \in Threads :
        op[t] \in Data /\ pc[t] \notin {"idle", "capture", "snapshot", "validate"} =>
            Attached(ctx[t].tgt)

Contexts ==
    /\ \A t \in Threads : Snapped(ctx[t].tgt)
    /\ revision = 0 => pid = NoPid /\ handle = NoHandle
    /\ AttachedPast

-----------------------------------------------------------------------------
(* The target and the server.                                               *)

Cleared == pid = NoPid /\ handle = NoHandle
Open(h, p) == h # NoHandle /\ table[h] = p /\ ioPid = p
Agrees == Cleared \/ Open(handle, pid)

\* A lifecycle that has cleared the target keeps it cleared to its end.
ClearedForGood == \A t \in Threads : pc[t] \in {"finishConnect", "leave"} => Cleared

\* openProcess has no handle to publish before the server gave it one.
Unsent ==
    \A t \in Threads :
        op[t] = "open" /\ pc[t] \notin {"idle", "publishPid", "publishHandle", "unlockTx", "finish",
                                        "post", "postTarget", "final"} => sent[t] = NoHandle

\* What a mutation has done so far, as long as the session lives.
Midway ==
    \A t \in Threads : Mutates(t) /\ state = "Connected" =>
        /\ pc[t] \in {"lockTx", "closeOld", "unlockTx", "finish"} => Agrees
        /\ pc[t] = "publishPid" => sent[t] = NoHandle \/ Open(sent[t], want[t])
        /\ pc[t] = "publishHandle" =>
              \/ sent[t] = NoHandle /\ pid = NoPid
              \/ pid = want[t] /\ Open(sent[t], want[t])

Published == PublishedTargetIsOpen /\ ClearedForGood /\ Unsent /\ Midway

-----------------------------------------------------------------------------
(* Commands and their effects.                                              *)

\* The handle that is sent is the context's while the revision is.
SentMatches ==
    \A t \in Threads : op[t] \in Data /\ pc[t] = "exchange" =>
        /\ sent[t] # NoHandle
        /\ ctx[t].tgt.revision = revision => sent[t] = ctx[t].tgt.handle

\* With the MAIN mutex held g_memIO stays on the process that was matched.
IoMatches ==
    \A t \in Threads :
        /\ op[t] \in Main /\ pc[t] \in {"loadHandle", "exchange"}
        /\ state = "Connected"
        => ioPid = ctx[t].tgt.pid

Matched == SentMatches /\ IoMatches

\* A completed exchange was with the context's process if the revision is
\* still the context's.
Vouched ==
    \A t \in Threads :
        op[t] \in Data /\ io[t] = "ok" /\ ctx[t].tgt.revision = revision => effect[t] = ctx[t].tgt.pid

Effects == MainTouchesOnlyTarget /\ AcceptedFromTarget /\ Vouched

TargetInv == TypeOK /\ Where /\ Locked /\ Contexts /\ Published /\ Matched /\ Effects

-----------------------------------------------------------------------------
\* A mutation makes the revision odd and then even again.
LEMMA Parity ==
  ASSUME NEW n \in Nat
  PROVE  /\ n % 2 \in {0, 1}
         /\ n % 2 = 0 <=> (n + 1) % 2 # 0
         /\ (n + 2) % 2 = n % 2
  OBVIOUS

\* Every step keeps every variable in its domain.
LEMMA TypeStep ==
  ASSUME TypeOK, Where, Matched, [Next]_vars
  PROVE  TypeOK'
PROOF
<1>. USE ThreadAssumption, TargetAssumption DEF TypeOK, Locations
<1>1. CASE UNCHANGED vars
  BY <1>1 DEF vars, session, target, device, local
<1>2. ASSUME NEW t \in Threads, NEW o \in Ops, NEW p \in Pids, Begin(t, o, p)
      PROVE  TypeOK'
  <2>1. [gen |-> generation, tgt |-> NoTarget] \in OperationContexts
    BY DEF OperationContexts, Snapshots, NoTarget
  <2>2. ctx' \in [Threads -> OperationContexts]
    BY <1>2, <2>1 DEF Begin, Set
  <2>3. begun' \in [Threads -> Nat] /\ (\A u \in Threads : begun'[u] <= MaxOps[u])
    <3>1. begun[t] \in Nat /\ MaxOps[t] \in Nat /\ begun[t] < MaxOps[t]
      BY <1>2, BoundAssumption DEF Begin
    <3>2. PICK k \in Nat : k = begun[t] + 1 /\ k <= MaxOps[t]
      BY <3>1
    <3>3. begun' = [begun EXCEPT ![t] = k]
      BY <1>2, <3>2 DEF Begin
    <3>. QED
      BY <3>2, <3>3
  <2>4. pc' \in [Threads -> Locations] /\ op' \in [Threads -> Ops \cup {"none"}]
    BY <1>2 DEF Begin, Goto, Set
  <2>5. want' \in [Threads -> Pids \cup {NoPid}] /\ round' \in [Threads -> 0..2]
        /\ sent' \in [Threads -> Handles \cup {NoHandle}] /\ seen' \in [Threads -> Nat]
    BY <1>2 DEF Begin, Set
  <2>6. /\ io' \in [Threads -> {"none", "ok", "refused", "lost", "short", "absurd"}]
        /\ effect' \in [Threads -> Pids \cup {NoPid}]
        /\ result' \in [Threads -> {"none", "ok", "error", "unknown", "partial", "invalid"}]
    BY <1>2 DEF Begin, Set
  <2>. QED
    BY <1>2, <2>2, <2>3, <2>4, <2>5, <2>6 DEF Begin, session, target, device
<1>3. ASSUME NEW t \in Threads, Step(t)
      PROVE  TypeOK'
  <2>1. CASE CaptureGeneration(t)
    <3>1. ctx[t] \in OperationContexts
      OBVIOUS
    <3>2. [ctx[t] EXCEPT !.tgt.gen = generation] \in OperationContexts
      BY <3>1 DEF OperationContexts, Snapshots
    <3>3. ctx' \in [Threads -> OperationContexts]
      BY <2>1, <3>2 DEF CaptureGeneration
    <3>. QED
      BY <2>1, <3>3 DEF CaptureGeneration, Goto, session, target, device
  <2>2. CASE CaptureTarget(t)
    <3>1. [ctx[t] EXCEPT !.tgt = [pid |-> pid, handle |-> handle, revision |-> revision, gen |-> ctx[t].tgt.gen]]
            \in OperationContexts
      BY ctx[t] \in OperationContexts DEF OperationContexts, Snapshots
    <3>2. ctx' \in [Threads -> OperationContexts]
      BY <2>2, <3>1 DEF CaptureTarget
    <3>. QED
      BY <2>2, <3>2 DEF CaptureTarget, Goto, session, target, device
  <2>3. CASE Validate(t)
    BY <2>3 DEF Validate, Keep, Return, Goto, Set, session, target, device, local
  <2>4. CASE ValidateTarget(t)
    BY <2>4 DEF ValidateTarget, Keep, Return, Goto, Set, Free, session, target, device, local
  <2>5. CASE AcquireRequest(t)
    BY <2>5 DEF AcquireRequest, Goto, Set, session, target, device, local
  <2>6. CASE LockTransaction(t)
    BY <2>6 DEF LockTransaction, Lock, Goto, Free, Port, session, target, device, local
  <2>7. CASE LockTimeout(t)
    BY <2>7 DEF LockTimeout, Goto, Free, Port, session, target, device, local
  <2>8. CASE MatchRevision(t)
    BY <2>8 DEF MatchRevision, Goto, Fail, session, target, device, local
  <2>9. CASE MatchPid(t)
    BY <2>9 DEF MatchPid, Goto, Fail, session, target, device, local
  <2>10. CASE MatchHandle(t)
    BY <2>10 DEF MatchHandle, Goto, Fail, session, target, device, local
  <2>11. CASE MatchAgain(t)
    BY <2>11 DEF MatchAgain, Goto, Fail, Rounds, session, target, device, local, Where,
       Matching, Rounds
  <2>12. CASE EnsureOpenHandle(t)
    BY <2>12 DEF EnsureOpenHandle, Goto, Fail, Set, session, target, device, local
  <2>13. CASE Exchange(t)
    <3>1. pc' \in [Threads -> Locations]
      BY <2>13 DEF Exchange, Goto, Fail
    <3>2. state' \in {"Disconnected", "Connecting", "Connected", "Poisoned"} /\ generation' \in Nat
      BY <2>13 DEF Exchange, Poison, session
    <3>3. io' \in [Threads -> {"none", "ok", "refused", "lost", "short", "absurd"}]
      BY <2>13 DEF Exchange, Set
    <3>4. Touched(t) \in Pids \cup {NoPid}
      <4>1. op[t] \in Lifecycles \/ sent[t] # NoHandle
        BY <2>13 DEF Exchange, Where, Matched, SentMatches, Data, LifecyclePath, OpenPath,
           Mutating, Ops, Lifecycles
      <4>2. CASE op[t] \in Lifecycles
        BY <4>2 DEF Touched, Lifecycles
      <4>3. CASE op[t] \notin Lifecycles
        <5>1. table[sent[t]] \in Pids \cup {NoPid}
          BY <4>1, <4>3
        <5>. QED
          BY <4>3, <5>1 DEF Touched
      <4>. QED
        BY <4>2, <4>3
    <3>5. effect' \in [Threads -> Pids \cup {NoPid}]
      BY <2>13, <3>4 DEF Exchange, Set
    <3>. QED
      BY <2>13, <3>1, <3>2, <3>3, <3>5 DEF Exchange, target, device
  <2>14. CASE HeldValidate(t)
    BY <2>14 DEF HeldValidate, Keep, Return, Goto, Set, session, target, device, local
  <2>15. CASE HeldTarget(t)
    BY <2>15 DEF HeldTarget, Return, Goto, Set, Free, session, target, device, local
  <2>16. CASE DropTransaction(t)
    BY <2>16 DEF DropTransaction, Goto, Set, Port, session, target, device, local
  <2>17. CASE Post(t)
    <3>1. ASSUME NEW r \in {"none", "ok", "error", "unknown", "partial", "invalid"}, Return(t, r)
          PROVE  /\ result' \in [Threads -> {"none", "ok", "error", "unknown", "partial", "invalid"}]
                 /\ pc' \in [Threads -> Locations] /\ lease' \in [Threads -> Nat]
                 /\ holder' \in [Mutexes -> Threads \cup {NoThread}]
      BY <3>1 DEF Return, Goto, Set
    <3>2. Keep(t, "postTarget") \/ \E r \in {"none", "ok", "error", "unknown", "partial", "invalid"} : Return(t, r)
      BY <2>17 DEF Post, Rejected, Immediate, Incomplete
    <3>3. /\ result' \in [Threads -> {"none", "ok", "error", "unknown", "partial", "invalid"}]
          /\ pc' \in [Threads -> Locations] /\ lease' \in [Threads -> Nat]
          /\ holder' \in [Mutexes -> Threads \cup {NoThread}]
      BY <3>1, <3>2 DEF Keep, Goto
    <3>. QED
      BY <2>17, <3>3 DEF Post, session, target, device
  <2>18. CASE PostTarget(t)
    <3>1. ASSUME NEW r \in {"none", "ok", "error", "unknown", "partial", "invalid"}, Return(t, r)
          PROVE  /\ result' \in [Threads -> {"none", "ok", "error", "unknown", "partial", "invalid"}]
                 /\ pc' \in [Threads -> Locations] /\ lease' \in [Threads -> Nat]
                 /\ holder' \in [Mutexes -> Threads \cup {NoThread}]
      BY <3>1 DEF Return, Goto, Set
    <3>2. Keep(t, "final") \/ \E r \in {"none", "ok", "error", "unknown", "partial", "invalid"} : Return(t, r)
      BY <2>18 DEF PostTarget, Rejected, Accepted
    <3>3. /\ result' \in [Threads -> {"none", "ok", "error", "unknown", "partial", "invalid"}]
          /\ pc' \in [Threads -> Locations] /\ lease' \in [Threads -> Nat]
          /\ holder' \in [Mutexes -> Threads \cup {NoThread}]
      BY <3>1, <3>2 DEF Keep, Goto
    <3>4. seen' \in [Threads -> Nat]
      BY <2>18 DEF PostTarget, Set
    <3>. QED
      BY <2>18, <3>3, <3>4 DEF PostTarget, session, target, device
  <2>19. CASE Final(t)
    BY <2>19 DEF Final, Return, Goto, Set, Free, session, target, device, local
  <2>20. CASE LockProcess(t)
    BY <2>20 DEF LockProcess, Lock, Goto, Free, session, target, device, local
  <2>21. CASE BeginTargetMutation(t)
    BY <2>21 DEF BeginTargetMutation, Goto, Set, Free, session, target, device, local
  <2>22. CASE CloseOld(t)
    BY <2>22 DEF CloseOld, Goto, Poison, Attached, session, target, device, local
  <2>23. CASE OpenNew(t)
    BY <2>23 DEF OpenNew, Goto, Set, Poison, OpenHandle, session, target, device, local, Where,
       OpenPath, Mutating, DataPath, LifecyclePath, InTransaction, Matching, Data, Lifecycles
  <2>24. CASE PublishPid(t)
    BY <2>24 DEF PublishPid, Goto, Set, session, target, device, local, Where, OpenPath,
       Mutating, DataPath, LifecyclePath, InTransaction, Matching, Data, Lifecycles
  <2>25. CASE PublishHandle(t)
    BY <2>25 DEF PublishHandle, Goto, session, target, device, local
  <2>26. CASE UnlockTransaction(t)
    BY <2>26 DEF UnlockTransaction, Goto, session, target, device, local
  <2>27. CASE FinishMutation(t)
    <3>1. revision' \in Nat
      BY <2>27 DEF FinishMutation
    <3>2. holder' \in [Mutexes -> Threads \cup {NoThread}] /\ lease' \in [Threads -> Nat]
      BY <2>27 DEF FinishMutation, Set, Mutexes
    <3>3. pc' \in [Threads -> Locations]
      BY <2>27 DEF FinishMutation, Goto
    <3>. QED
      BY <2>27, <3>1, <3>2, <3>3 DEF FinishMutation, session, device, local
  <2>28. CASE LockConnection(t)
    BY <2>28 DEF LockConnection, Lock, Goto, Free, session, target, device, local
  <2>29. CASE Recheck(t)
    BY <2>29 DEF Recheck, Keep, Return, Goto, Set, session, target, device, local
  <2>30. CASE AcquireLifecycle(t)
    BY <2>30 DEF AcquireLifecycle, Goto, session, target, device, local
  <2>31. CASE ReplaceSession(t)
    BY <2>31 DEF ReplaceSession, Goto, session, target, device, local
  <2>32. CASE ClearTarget(t)
    BY <2>32 DEF ClearTarget, Goto, Free, session, target, device, local
  <2>33. CASE FinishConnect(t)
    BY <2>33 DEF FinishConnect, Goto, session, target, device, local
  <2>34. CASE LeaveLifecycle(t)
    BY <2>34 DEF LeaveLifecycle, Return, Goto, Set, session, target, device, local
  <2>35. QED
    BY <1>3, <2>1, <2>2, <2>3, <2>4, <2>5, <2>6, <2>7, <2>8, <2>9, <2>10, <2>11, <2>12, <2>13,
       <2>14, <2>15, <2>16, <2>17, <2>18, <2>19, <2>20, <2>21, <2>22, <2>23, <2>24, <2>25, <2>26,
       <2>27, <2>28, <2>29, <2>30, <2>31, <2>32, <2>33, <2>34
    DEF Step
<1>4. QED
  BY <1>1, <1>2, <1>3 DEF Next


\* Every step leaves every thread where its operation can be.
LEMMA WhereStep ==
  ASSUME TypeOK, Where, [Next]_vars
  PROVE  Where'
PROOF
<1>. USE ThreadAssumption, TargetAssumption DEF TypeOK, Where, OpenPath, Mutating, DataPath,
   LifecyclePath, InTransaction, Matching, Data, Lifecycles, Ops, Rounds
<1>1. CASE UNCHANGED vars
  BY <1>1 DEF vars, session, target, device, local
<1>2. ASSUME NEW t \in Threads, NEW o \in Ops, NEW p \in Pids, Begin(t, o, p)
      PROVE  Where'
  BY <1>2, RoleAssumption, BoundAssumption DEF Begin, Goto, Set, session, target, device, local
<1>3. ASSUME NEW t \in Threads, Step(t)
      PROVE  Where'
  <2>1. CASE CaptureGeneration(t)
    BY <2>1 DEF CaptureGeneration, Goto, session, target, device, local
  <2>2. CASE CaptureTarget(t)
    BY <2>2 DEF CaptureTarget, Goto, Free, session, target, device, local
  <2>3. CASE Validate(t)
    BY <2>3 DEF Validate, Keep, Return, Goto, Set, session, target, device, local
  <2>4. CASE ValidateTarget(t)
    BY <2>4 DEF ValidateTarget, Keep, Return, Goto, Set, Free, session, target, device, local
  <2>5. CASE AcquireRequest(t)
    BY <2>5 DEF AcquireRequest, Goto, Set, session, target, device, local
  <2>6. CASE LockTransaction(t)
    BY <2>6 DEF LockTransaction, Lock, Goto, Free, Port, session, target, device, local
  <2>7. CASE LockTimeout(t)
    BY <2>7 DEF LockTimeout, Goto, Free, Port, session, target, device, local
  <2>8. CASE MatchRevision(t)
    BY <2>8 DEF MatchRevision, Goto, Fail, session, target, device, local
  <2>9. CASE MatchPid(t)
    BY <2>9 DEF MatchPid, Goto, Fail, session, target, device, local
  <2>10. CASE MatchHandle(t)
    BY <2>10 DEF MatchHandle, Goto, Fail, session, target, device, local
  <2>11. CASE MatchAgain(t)
    BY <2>11 DEF MatchAgain, Goto, Fail, Rounds, session, target, device, local
  <2>12. CASE EnsureOpenHandle(t)
    BY <2>12 DEF EnsureOpenHandle, Goto, Fail, Set, session, target, device, local
  <2>13. CASE Exchange(t)
    BY <2>13 DEF Exchange, Goto, Fail, Set, Poison, session, target, device, local
  <2>14. CASE HeldValidate(t)
    BY <2>14 DEF HeldValidate, Keep, Return, Goto, Set, session, target, device, local
  <2>15. CASE HeldTarget(t)
    BY <2>15 DEF HeldTarget, Return, Goto, Set, Free, session, target, device, local
  <2>16. CASE DropTransaction(t)
    BY <2>16 DEF DropTransaction, Goto, Set, Port, session, target, device, local
  <2>17. CASE Post(t)
    BY <2>17 DEF Post, Keep, Return, Goto, Set, session, target, device, local
  <2>18. CASE PostTarget(t)
    BY <2>18 DEF PostTarget, Keep, Return, Goto, Set, Free, session, target, device, local
  <2>19. CASE Final(t)
    BY <2>19 DEF Final, Return, Goto, Set, Free, session, target, device, local
  <2>20. CASE LockProcess(t)
    BY <2>20 DEF LockProcess, Lock, Goto, Free, session, target, device, local
  <2>21. CASE BeginTargetMutation(t)
    BY <2>21 DEF BeginTargetMutation, Goto, Set, Free, session, target, device, local
  <2>22. CASE CloseOld(t)
    BY <2>22 DEF CloseOld, Goto, Poison, Attached, session, target, device, local
  <2>23. CASE OpenNew(t)
    BY <2>23 DEF OpenNew, Goto, Set, Poison, OpenHandle, session, target, device, local
  <2>24. CASE PublishPid(t)
    BY <2>24 DEF PublishPid, Goto, Set, session, target, device, local
  <2>25. CASE PublishHandle(t)
    BY <2>25 DEF PublishHandle, Goto, session, target, device, local
  <2>26. CASE UnlockTransaction(t)
    BY <2>26 DEF UnlockTransaction, Goto, session, target, device, local
  <2>27. CASE FinishMutation(t)
    BY <2>27 DEF FinishMutation, Goto, Set, session, target, device, local
  <2>28. CASE LockConnection(t)
    BY <2>28 DEF LockConnection, Lock, Goto, Free, session, target, device, local
  <2>29. CASE Recheck(t)
    BY <2>29 DEF Recheck, Keep, Return, Goto, Set, session, target, device, local
  <2>30. CASE AcquireLifecycle(t)
    BY <2>30 DEF AcquireLifecycle, Goto, session, target, device, local
  <2>31. CASE ReplaceSession(t)
    BY <2>31 DEF ReplaceSession, Goto, session, target, device, local
  <2>32. CASE ClearTarget(t)
    BY <2>32 DEF ClearTarget, Goto, Free, session, target, device, local
  <2>33. CASE FinishConnect(t)
    BY <2>33 DEF FinishConnect, Goto, session, target, device, local
  <2>34. CASE LeaveLifecycle(t)
    BY <2>34 DEF LeaveLifecycle, Return, Goto, Set, session, target, device, local
  <2>35. QED
    BY <1>3, <2>1, <2>2, <2>3, <2>4, <2>5, <2>6, <2>7, <2>8, <2>9, <2>10, <2>11, <2>12, <2>13,
       <2>14, <2>15, <2>16, <2>17, <2>18, <2>19, <2>20, <2>21, <2>22, <2>23, <2>24, <2>25, <2>26,
       <2>27, <2>28, <2>29, <2>30, <2>31, <2>32, <2>33, <2>34
    DEF Step
<1>4. QED
  BY <1>1, <1>2, <1>3 DEF Next


\* Requests exclude lifecycles, and the revision is odd exactly within a mutation.
LEMMA LockedStep ==
  ASSUME TypeOK, Where, Locked, [Next]_vars
  PROVE  Locked'
PROOF
<1>. USE ThreadAssumption, TargetAssumption DEF TypeOK, Locked, Mutates, Mutexes, Exclusive,
   Leased, Port, IsCurrent, Where, OpenPath, Mutating, DataPath, LifecyclePath, InTransaction,
   Matching, Data, Lifecycles, Ops
<1>1. CASE UNCHANGED vars
  BY <1>1 DEF vars, session, target, device, local, Stable
<1>2. ASSUME NEW t \in Threads, NEW o \in Ops, NEW p \in Pids, Begin(t, o, p)
      PROVE  Locked'
  BY <1>2, RoleAssumption, BoundAssumption DEF Begin, Goto, Set, session, target, device, local,
     Stable
<1>3. ASSUME NEW t \in Threads, Step(t)
      PROVE  Locked'
  <2>1. CASE CaptureGeneration(t)
    BY <2>1 DEF CaptureGeneration, Goto, session, target, device, local, Stable
  <2>2. CASE CaptureTarget(t)
    BY <2>2 DEF CaptureTarget, Goto, Free, session, target, device, local, Stable
  <2>3. CASE Validate(t)
    BY <2>3 DEF Validate, Keep, Return, Goto, Set, session, target, device, local, Stable
  <2>4. CASE ValidateTarget(t)
    BY <2>4 DEF ValidateTarget, Keep, Return, Goto, Set, Free, session, target, device, local,
       Stable
  <2>5. CASE AcquireRequest(t)
    BY <2>5 DEF AcquireRequest, Goto, Set, session, target, device, local, Stable
  <2>6. CASE LockTransaction(t)
    BY <2>6 DEF LockTransaction, Lock, Goto, Free, Port, session, target, device, local, Stable
  <2>7. CASE LockTimeout(t)
    BY <2>7 DEF LockTimeout, Goto, Free, Port, session, target, device, local, Stable
  <2>8. CASE MatchRevision(t)
    BY <2>8 DEF MatchRevision, Goto, Fail, session, target, device, local, Stable
  <2>9. CASE MatchPid(t)
    BY <2>9 DEF MatchPid, Goto, Fail, session, target, device, local, Stable
  <2>10. CASE MatchHandle(t)
    BY <2>10 DEF MatchHandle, Goto, Fail, session, target, device, local, Stable
  <2>11. CASE MatchAgain(t)
    BY <2>11 DEF MatchAgain, Goto, Fail, Rounds, session, target, device, local, Stable
  <2>12. CASE EnsureOpenHandle(t)
    BY <2>12 DEF EnsureOpenHandle, Goto, Fail, Set, session, target, device, local, Stable
  <2>13. CASE Exchange(t)
    BY <2>13 DEF Exchange, Goto, Fail, Set, Poison, session, target, device, local, Stable
  <2>14. CASE HeldValidate(t)
    BY <2>14 DEF HeldValidate, Keep, Return, Goto, Set, session, target, device, local, Stable
  <2>15. CASE HeldTarget(t)
    BY <2>15 DEF HeldTarget, Return, Goto, Set, Free, session, target, device, local, Stable
  <2>16. CASE DropTransaction(t)
    BY <2>16 DEF DropTransaction, Goto, Set, Port, session, target, device, local, Stable
  <2>17. CASE Post(t)
    BY <2>17 DEF Post, Keep, Return, Goto, Set, session, target, device, local, Stable
  <2>18. CASE PostTarget(t)
    BY <2>18 DEF PostTarget, Keep, Return, Goto, Set, Free, session, target, device, local,
       Stable
  <2>19. CASE Final(t)
    BY <2>19 DEF Final, Return, Goto, Set, Free, session, target, device, local, Stable
  <2>20. CASE LockProcess(t)
    BY <2>20 DEF LockProcess, Lock, Goto, Free, session, target, device, local, Stable
  <2>21. CASE BeginTargetMutation(t)
    <3>1. Stable'
      <4>1. revision % 2 = 0 <=> (revision + 1) % 2 # 0
        BY Parity
      <4>2. \/ revision' = revision + 1 /\ revision % 2 = 0 /\ holder'["state"] = t
            \/ revision' = revision /\ holder' = holder
        BY <2>21 DEF BeginTargetMutation
      <4>3. CASE revision' = revision + 1 /\ revision % 2 = 0 /\ holder'["state"] = t
        <5>1. revision' % 2 # 0
          BY <4>1, <4>3
        <5>. QED
          BY <4>3, <5>1 DEF Stable
      <4>4. CASE revision' = revision /\ holder' = holder
        BY <4>4 DEF Stable
      <4>. QED
        BY <4>2, <4>3, <4>4
    <3>. QED
      BY <2>21, <3>1 DEF BeginTargetMutation, Goto, Set, Free, session, device, local
  <2>22. CASE CloseOld(t)
    BY <2>22 DEF CloseOld, Goto, Poison, Attached, session, target, device, local, Stable
  <2>23. CASE OpenNew(t)
    BY <2>23 DEF OpenNew, Goto, Set, Poison, OpenHandle, session, target, device, local, Stable
  <2>24. CASE PublishPid(t)
    BY <2>24 DEF PublishPid, Goto, Set, session, target, device, local, Stable
  <2>25. CASE PublishHandle(t)
    BY <2>25 DEF PublishHandle, Goto, session, target, device, local, Stable
  <2>26. CASE UnlockTransaction(t)
    BY <2>26 DEF UnlockTransaction, Goto, session, target, device, local, Stable
  <2>27. CASE FinishMutation(t)
    <3>1. Stable'
      <4>1. revision % 2 = 0 <=> (revision + 1) % 2 # 0
        BY Parity
      <4>2. revision' = revision + 1 /\ holder["state"] = t /\ holder'["state"] = NoThread
        BY <2>27 DEF FinishMutation
      <4>3. revision % 2 # 0
        BY <4>2 DEF Stable
      <4>4. revision' % 2 = 0
        BY <4>1, <4>2, <4>3
      <4>. QED
        BY <4>2, <4>4 DEF Stable
    <3>. QED
      BY <2>27, <3>1 DEF FinishMutation, Goto, Set, session, device, local
  <2>28. CASE LockConnection(t)
    BY <2>28 DEF LockConnection, Lock, Goto, Free, session, target, device, local, Stable
  <2>29. CASE Recheck(t)
    BY <2>29 DEF Recheck, Keep, Return, Goto, Set, session, target, device, local, Stable
  <2>30. CASE AcquireLifecycle(t)
    BY <2>30 DEF AcquireLifecycle, Goto, session, target, device, local, Stable
  <2>31. CASE ReplaceSession(t)
    BY <2>31 DEF ReplaceSession, Goto, session, target, device, local, Stable
  <2>32. CASE ClearTarget(t)
    <3>1. Stable'
      <4>1. revision % 2 \in {0, 1} /\ (revision + 2) % 2 = revision % 2
        BY Parity
      <4>. QED
        BY <2>32, <4>1 DEF ClearTarget, Goto, Free, Stable, target
    <3>. QED
      BY <2>32, <3>1 DEF ClearTarget, Goto, Free, session, target, device, local
  <2>33. CASE FinishConnect(t)
    BY <2>33 DEF FinishConnect, Goto, session, target, device, local, Stable
  <2>34. CASE LeaveLifecycle(t)
    BY <2>34 DEF LeaveLifecycle, Return, Goto, Set, session, target, device, local, Stable
  <2>35. QED
    BY <1>3, <2>1, <2>2, <2>3, <2>4, <2>5, <2>6, <2>7, <2>8, <2>9, <2>10, <2>11, <2>12, <2>13,
       <2>14, <2>15, <2>16, <2>17, <2>18, <2>19, <2>20, <2>21, <2>22, <2>23, <2>24, <2>25, <2>26,
       <2>27, <2>28, <2>29, <2>30, <2>31, <2>32, <2>33, <2>34
    DEF Step
<1>4. QED
  BY <1>1, <1>2, <1>3 DEF Next


\* What a step may do to the target: between two equal even revisions nothing.
TargetMoves ==
    /\ revision <= revision'
    /\ revision' = revision /\ revision % 2 = 0 => pid' = pid /\ handle' = handle

\* What a step may do to a context: it is begun, or completed from a stable target.
ContextMoves ==
    \A t \in Threads :
        \/ ctx'[t] = ctx[t]
        \/ ctx'[t].tgt = NoTarget
        \/ ctx'[t].tgt.revision = ctx[t].tgt.revision /\ ctx'[t].tgt.pid = ctx[t].tgt.pid
           /\ ctx'[t].tgt.handle = ctx[t].tgt.handle
        \/ /\ ctx'[t].tgt.revision = revision /\ ctx'[t].tgt.pid = pid /\ ctx'[t].tgt.handle = handle
           /\ revision % 2 = 0 /\ UNCHANGED target


\* The target changes only within a mutation.
LEMMA TargetMovesStep ==
  ASSUME TypeOK, Where, Locked, [Next]_vars
  PROVE  TargetMoves
PROOF
<1>. USE ThreadAssumption, TargetAssumption DEF TypeOK, TargetMoves
<1>1. CASE UNCHANGED vars
  BY <1>1 DEF vars, session, target, device, local
<1>2. ASSUME NEW t \in Threads, NEW o \in Ops, NEW p \in Pids, Begin(t, o, p)
      PROVE  TargetMoves
  BY <1>2, RoleAssumption, BoundAssumption DEF Begin, Goto, Set, session, target, device, local
<1>3. ASSUME NEW t \in Threads, Step(t)
      PROVE  TargetMoves
  <2>1. CASE CaptureGeneration(t)
    BY <2>1 DEF CaptureGeneration, Goto, session, target, device, local
  <2>2. CASE CaptureTarget(t)
    BY <2>2 DEF CaptureTarget, Goto, Free, session, target, device, local
  <2>3. CASE Validate(t)
    BY <2>3 DEF Validate, Keep, Return, Goto, Set, session, target, device, local
  <2>4. CASE ValidateTarget(t)
    BY <2>4 DEF ValidateTarget, Keep, Return, Goto, Set, Free, session, target, device, local
  <2>5. CASE AcquireRequest(t)
    BY <2>5 DEF AcquireRequest, Goto, Set, session, target, device, local
  <2>6. CASE LockTransaction(t)
    BY <2>6 DEF LockTransaction, Lock, Goto, Free, Port, session, target, device, local
  <2>7. CASE LockTimeout(t)
    BY <2>7 DEF LockTimeout, Goto, Free, Port, session, target, device, local
  <2>8. CASE MatchRevision(t)
    BY <2>8 DEF MatchRevision, Goto, Fail, session, target, device, local
  <2>9. CASE MatchPid(t)
    BY <2>9 DEF MatchPid, Goto, Fail, session, target, device, local
  <2>10. CASE MatchHandle(t)
    BY <2>10 DEF MatchHandle, Goto, Fail, session, target, device, local
  <2>11. CASE MatchAgain(t)
    BY <2>11 DEF MatchAgain, Goto, Fail, Rounds, session, target, device, local
  <2>12. CASE EnsureOpenHandle(t)
    BY <2>12 DEF EnsureOpenHandle, Goto, Fail, Set, session, target, device, local
  <2>13. CASE Exchange(t)
    BY <2>13 DEF Exchange, Goto, Fail, Set, Poison, session, target, device, local
  <2>14. CASE HeldValidate(t)
    BY <2>14 DEF HeldValidate, Keep, Return, Goto, Set, session, target, device, local
  <2>15. CASE HeldTarget(t)
    BY <2>15 DEF HeldTarget, Return, Goto, Set, Free, session, target, device, local
  <2>16. CASE DropTransaction(t)
    BY <2>16 DEF DropTransaction, Goto, Set, Port, session, target, device, local
  <2>17. CASE Post(t)
    BY <2>17 DEF Post, Keep, Return, Goto, Set, session, target, device, local
  <2>18. CASE PostTarget(t)
    BY <2>18 DEF PostTarget, Keep, Return, Goto, Set, Free, session, target, device, local
  <2>19. CASE Final(t)
    BY <2>19 DEF Final, Return, Goto, Set, Free, session, target, device, local
  <2>20. CASE LockProcess(t)
    BY <2>20 DEF LockProcess, Lock, Goto, Free, session, target, device, local
  <2>21. CASE BeginTargetMutation(t)
    BY <2>21 DEF BeginTargetMutation, Goto, Set, Free, session, target, device, local
  <2>22. CASE CloseOld(t)
    BY <2>22 DEF CloseOld, Goto, Poison, Attached, session, target, device, local
  <2>23. CASE OpenNew(t)
    BY <2>23 DEF OpenNew, Goto, Set, Poison, OpenHandle, session, target, device, local
  <2>24. CASE PublishPid(t)
    <3>1. holder["state"] = t
      BY <2>24 DEF PublishPid, Where, Locked, Mutates, Mutating, LifecyclePath, DataPath,
         InTransaction, Matching
    <3>2. revision % 2 # 0
      BY <3>1 DEF Locked, Stable
    <3>. QED
      BY <2>24, <3>2 DEF PublishPid
  <2>25. CASE PublishHandle(t)
    <3>1. holder["state"] = t
      BY <2>25 DEF PublishHandle, Where, Locked, Mutates, Mutating, LifecyclePath, DataPath,
         InTransaction, Matching
    <3>2. revision % 2 # 0
      BY <3>1 DEF Locked, Stable
    <3>. QED
      BY <2>25, <3>2 DEF PublishHandle
  <2>26. CASE UnlockTransaction(t)
    BY <2>26 DEF UnlockTransaction, Goto, session, target, device, local
  <2>27. CASE FinishMutation(t)
    BY <2>27 DEF FinishMutation, Goto, Set, session, target, device, local
  <2>28. CASE LockConnection(t)
    BY <2>28 DEF LockConnection, Lock, Goto, Free, session, target, device, local
  <2>29. CASE Recheck(t)
    BY <2>29 DEF Recheck, Keep, Return, Goto, Set, session, target, device, local
  <2>30. CASE AcquireLifecycle(t)
    BY <2>30 DEF AcquireLifecycle, Goto, session, target, device, local
  <2>31. CASE ReplaceSession(t)
    BY <2>31 DEF ReplaceSession, Goto, session, target, device, local
  <2>32. CASE ClearTarget(t)
    BY <2>32 DEF ClearTarget, Goto, Free, session, target, device, local
  <2>33. CASE FinishConnect(t)
    BY <2>33 DEF FinishConnect, Goto, session, target, device, local
  <2>34. CASE LeaveLifecycle(t)
    BY <2>34 DEF LeaveLifecycle, Return, Goto, Set, session, target, device, local
  <2>35. QED
    BY <1>3, <2>1, <2>2, <2>3, <2>4, <2>5, <2>6, <2>7, <2>8, <2>9, <2>10, <2>11, <2>12, <2>13,
       <2>14, <2>15, <2>16, <2>17, <2>18, <2>19, <2>20, <2>21, <2>22, <2>23, <2>24, <2>25, <2>26,
       <2>27, <2>28, <2>29, <2>30, <2>31, <2>32, <2>33, <2>34
    DEF Step
<1>4. QED
  BY <1>1, <1>2, <1>3 DEF Next


\* Contexts are built from a stable target.
LEMMA ContextMovesStep ==
  ASSUME TypeOK, Locked, [Next]_vars
  PROVE  ContextMoves
PROOF
<1>. USE ThreadAssumption, TargetAssumption DEF TypeOK, ContextMoves
<1>1. CASE UNCHANGED vars
  BY <1>1 DEF vars, session, target, device, local
<1>2. ASSUME NEW t \in Threads, NEW o \in Ops, NEW p \in Pids, Begin(t, o, p)
      PROVE  ContextMoves
  BY <1>2, RoleAssumption, BoundAssumption DEF Begin, Goto, Set, session, target, device, local
<1>3. ASSUME NEW t \in Threads, Step(t)
      PROVE  ContextMoves
  <2>1. CASE CaptureGeneration(t)
    <3>1. ctx[t] \in OperationContexts
      OBVIOUS
    <3>2. ctx' = [ctx EXCEPT ![t].tgt.gen = generation]
      BY <2>1 DEF CaptureGeneration
    <3>. QED
      BY <3>1, <3>2 DEF OperationContexts, Snapshots
  <2>2. CASE CaptureTarget(t)
    <3>1. ctx[t] \in OperationContexts
      OBVIOUS
    <3>2. revision % 2 = 0
      BY <2>2 DEF CaptureTarget, Free, Locked, Stable
    <3>3. UNCHANGED target
      BY <2>2 DEF CaptureTarget
    <3>. QED
      BY <2>2, <3>1, <3>2, <3>3 DEF CaptureTarget, OperationContexts, Snapshots
  <2>3. CASE Validate(t)
    BY <2>3 DEF Validate, Keep, Return, Goto, Set, session, target, device, local
  <2>4. CASE ValidateTarget(t)
    BY <2>4 DEF ValidateTarget, Keep, Return, Goto, Set, Free, session, target, device, local
  <2>5. CASE AcquireRequest(t)
    BY <2>5 DEF AcquireRequest, Goto, Set, session, target, device, local
  <2>6. CASE LockTransaction(t)
    BY <2>6 DEF LockTransaction, Lock, Goto, Free, Port, session, target, device, local
  <2>7. CASE LockTimeout(t)
    BY <2>7 DEF LockTimeout, Goto, Free, Port, session, target, device, local
  <2>8. CASE MatchRevision(t)
    BY <2>8 DEF MatchRevision, Goto, Fail, session, target, device, local
  <2>9. CASE MatchPid(t)
    BY <2>9 DEF MatchPid, Goto, Fail, session, target, device, local
  <2>10. CASE MatchHandle(t)
    BY <2>10 DEF MatchHandle, Goto, Fail, session, target, device, local
  <2>11. CASE MatchAgain(t)
    BY <2>11 DEF MatchAgain, Goto, Fail, Rounds, session, target, device, local
  <2>12. CASE EnsureOpenHandle(t)
    BY <2>12 DEF EnsureOpenHandle, Goto, Fail, Set, session, target, device, local
  <2>13. CASE Exchange(t)
    BY <2>13 DEF Exchange, Goto, Fail, Set, Poison, session, target, device, local
  <2>14. CASE HeldValidate(t)
    BY <2>14 DEF HeldValidate, Keep, Return, Goto, Set, session, target, device, local
  <2>15. CASE HeldTarget(t)
    BY <2>15 DEF HeldTarget, Return, Goto, Set, Free, session, target, device, local
  <2>16. CASE DropTransaction(t)
    BY <2>16 DEF DropTransaction, Goto, Set, Port, session, target, device, local
  <2>17. CASE Post(t)
    BY <2>17 DEF Post, Keep, Return, Goto, Set, session, target, device, local
  <2>18. CASE PostTarget(t)
    BY <2>18 DEF PostTarget, Keep, Return, Goto, Set, Free, session, target, device, local
  <2>19. CASE Final(t)
    BY <2>19 DEF Final, Return, Goto, Set, Free, session, target, device, local
  <2>20. CASE LockProcess(t)
    BY <2>20 DEF LockProcess, Lock, Goto, Free, session, target, device, local
  <2>21. CASE BeginTargetMutation(t)
    BY <2>21 DEF BeginTargetMutation, Goto, Set, Free, session, target, device, local
  <2>22. CASE CloseOld(t)
    BY <2>22 DEF CloseOld, Goto, Poison, Attached, session, target, device, local
  <2>23. CASE OpenNew(t)
    BY <2>23 DEF OpenNew, Goto, Set, Poison, OpenHandle, session, target, device, local
  <2>24. CASE PublishPid(t)
    BY <2>24 DEF PublishPid, Goto, Set, session, target, device, local
  <2>25. CASE PublishHandle(t)
    BY <2>25 DEF PublishHandle, Goto, session, target, device, local
  <2>26. CASE UnlockTransaction(t)
    BY <2>26 DEF UnlockTransaction, Goto, session, target, device, local
  <2>27. CASE FinishMutation(t)
    BY <2>27 DEF FinishMutation, Goto, Set, session, target, device, local
  <2>28. CASE LockConnection(t)
    BY <2>28 DEF LockConnection, Lock, Goto, Free, session, target, device, local
  <2>29. CASE Recheck(t)
    BY <2>29 DEF Recheck, Keep, Return, Goto, Set, session, target, device, local
  <2>30. CASE AcquireLifecycle(t)
    BY <2>30 DEF AcquireLifecycle, Goto, session, target, device, local
  <2>31. CASE ReplaceSession(t)
    BY <2>31 DEF ReplaceSession, Goto, session, target, device, local
  <2>32. CASE ClearTarget(t)
    BY <2>32 DEF ClearTarget, Goto, Free, session, target, device, local
  <2>33. CASE FinishConnect(t)
    BY <2>33 DEF FinishConnect, Goto, session, target, device, local
  <2>34. CASE LeaveLifecycle(t)
    BY <2>34 DEF LeaveLifecycle, Return, Goto, Set, session, target, device, local
  <2>35. QED
    BY <1>3, <2>1, <2>2, <2>3, <2>4, <2>5, <2>6, <2>7, <2>8, <2>9, <2>10, <2>11, <2>12, <2>13,
       <2>14, <2>15, <2>16, <2>17, <2>18, <2>19, <2>20, <2>21, <2>22, <2>23, <2>24, <2>25, <2>26,
       <2>27, <2>28, <2>29, <2>30, <2>31, <2>32, <2>33, <2>34
    DEF Step
<1>4. QED
  BY <1>1, <1>2, <1>3 DEF Next


\* A context's revision is even and not from the future, and names the target
\* for as long as it is the current one.
LEMMA SnappedStep ==
  ASSUME TypeOK, TypeOK', Contexts, TargetMoves, ContextMoves
  PROVE  /\ \A t \in Threads : Snapped(ctx[t].tgt)'
         /\ (revision = 0 => pid = NoPid /\ handle = NoHandle)'
PROOF
<1>1. revision \in Nat /\ revision' \in Nat
  BY DEF TypeOK
<1>2. (revision = 0 => pid = NoPid /\ handle = NoHandle)'
  <2>1. ASSUME revision' = 0
        PROVE  revision = 0 /\ revision % 2 = 0
    BY <1>1, <2>1 DEF TargetMoves
  <2>. QED
    BY <2>1 DEF TargetMoves, Contexts
<1>3. ASSUME NEW t \in Threads
      PROVE  Snapped(ctx[t].tgt)'
  <2>1. /\ ctx[t].tgt.revision \in Nat
        /\ ctx[t].tgt.revision % 2 = 0 /\ ctx[t].tgt.revision <= revision
        /\ ctx[t].tgt.revision = revision => ctx[t].tgt.pid = pid /\ ctx[t].tgt.handle = handle
    BY ctx[t] \in OperationContexts DEF TypeOK, Contexts, Snapped, OperationContexts, Snapshots
  <2>2. ASSUME ctx'[t].tgt.revision = ctx[t].tgt.revision, ctx'[t].tgt.pid = ctx[t].tgt.pid,
               ctx'[t].tgt.handle = ctx[t].tgt.handle
        PROVE  Snapped(ctx[t].tgt)'
    <3>1. ctx'[t].tgt.revision <= revision'
      BY <1>1, <2>1, <2>2 DEF TargetMoves
    <3>2. ASSUME ctx'[t].tgt.revision = revision'
          PROVE  ctx[t].tgt.revision = revision /\ revision' = revision /\ revision % 2 = 0
      <4>1. PICK k \in Nat : k = ctx[t].tgt.revision
        BY <2>1
      <4>2. k <= revision /\ revision <= revision' /\ k = revision'
        BY <2>1, <2>2, <3>2, <4>1 DEF TargetMoves
      <4>3. k = revision /\ revision' = revision
        BY <1>1, <4>1, <4>2
      <4>. QED
        BY <2>1, <4>1, <4>3
    <3>. QED
      BY <2>1, <2>2, <3>1, <3>2 DEF TargetMoves, Snapped
  <2>3. CASE ctx'[t] = ctx[t]
    BY <2>2, <2>3
  <2>4. CASE ctx'[t].tgt = NoTarget
    BY <1>1, <1>2, <2>4 DEF NoTarget, Snapped
  <2>5. CASE /\ ctx'[t].tgt.revision = revision /\ ctx'[t].tgt.pid = pid /\ ctx'[t].tgt.handle = handle
             /\ revision % 2 = 0 /\ UNCHANGED target
    BY <1>1, <2>5 DEF Snapped, target
  <2>. QED
    BY <2>2, <2>3, <2>4, <2>5 DEF ContextMoves
<1>. QED
  BY <1>2, <1>3

\* No operation on a process goes past its validation without one.
LEMMA AttachedStep ==
  ASSUME TypeOK, Where, AttachedPast, [Next]_vars
  PROVE  AttachedPast'
PROOF
<1>. USE ThreadAssumption, TargetAssumption DEF TypeOK, AttachedPast, Data, Lifecycles
<1>1. CASE UNCHANGED vars
  BY <1>1 DEF vars, session, target, device, local
<1>2. ASSUME NEW t \in Threads, NEW o \in Ops, NEW p \in Pids, Begin(t, o, p)
      PROVE  AttachedPast'
  BY <1>2, RoleAssumption, BoundAssumption DEF Begin, Goto, Set, session, target, device, local,
     OpenPath, DataPath
<1>3. ASSUME NEW t \in Threads, Step(t)
      PROVE  AttachedPast'
  <2>1. CASE CaptureGeneration(t)
    BY <2>1 DEF CaptureGeneration, Goto, session, target, device, local
  <2>2. CASE CaptureTarget(t)
    BY <2>2 DEF CaptureTarget, Goto, Free, session, target, device, local
  <2>3. CASE Validate(t)
    BY <2>3 DEF Validate, Keep, Return, Goto, Set, session, target, device, local,
       ConnectionValid
  <2>4. CASE ValidateTarget(t)
    BY <2>4 DEF ValidateTarget, Keep, Return, Goto, Set, Free, session, target, device, local
  <2>5. CASE AcquireRequest(t)
    BY <2>5 DEF AcquireRequest, Goto, Set, session, target, device, local
  <2>6. CASE LockTransaction(t)
    BY <2>6 DEF LockTransaction, Lock, Goto, Free, Port, session, target, device, local
  <2>7. CASE LockTimeout(t)
    BY <2>7 DEF LockTimeout, Goto, Free, Port, session, target, device, local
  <2>8. CASE MatchRevision(t)
    BY <2>8 DEF MatchRevision, Goto, Fail, session, target, device, local
  <2>9. CASE MatchPid(t)
    BY <2>9 DEF MatchPid, Goto, Fail, session, target, device, local
  <2>10. CASE MatchHandle(t)
    BY <2>10 DEF MatchHandle, Goto, Fail, session, target, device, local
  <2>11. CASE MatchAgain(t)
    BY <2>11 DEF MatchAgain, Goto, Fail, Rounds, session, target, device, local
  <2>12. CASE EnsureOpenHandle(t)
    BY <2>12 DEF EnsureOpenHandle, Goto, Fail, Set, session, target, device, local
  <2>13. CASE Exchange(t)
    BY <2>13 DEF Exchange, Goto, Fail, Set, Poison, session, target, device, local
  <2>14. CASE HeldValidate(t)
    BY <2>14 DEF HeldValidate, Keep, Return, Goto, Set, session, target, device, local
  <2>15. CASE HeldTarget(t)
    BY <2>15 DEF HeldTarget, Return, Goto, Set, Free, session, target, device, local
  <2>16. CASE DropTransaction(t)
    BY <2>16 DEF DropTransaction, Goto, Set, Port, session, target, device, local
  <2>17. CASE Post(t)
    BY <2>17 DEF Post, Keep, Return, Goto, Set, session, target, device, local
  <2>18. CASE PostTarget(t)
    BY <2>18 DEF PostTarget, Keep, Return, Goto, Set, Free, session, target, device, local
  <2>19. CASE Final(t)
    BY <2>19 DEF Final, Return, Goto, Set, Free, session, target, device, local
  <2>20. CASE LockProcess(t)
    BY <2>20 DEF LockProcess, Lock, Goto, Free, session, target, device, local, Where, OpenPath,
       DataPath, LifecyclePath, Mutating, Matching, InTransaction
  <2>21. CASE BeginTargetMutation(t)
    BY <2>21 DEF BeginTargetMutation, Goto, Set, Free, session, target, device, local
  <2>22. CASE CloseOld(t)
    BY <2>22 DEF CloseOld, Goto, Poison, Attached, session, target, device, local
  <2>23. CASE OpenNew(t)
    BY <2>23 DEF OpenNew, Goto, Set, Poison, OpenHandle, session, target, device, local
  <2>24. CASE PublishPid(t)
    BY <2>24 DEF PublishPid, Goto, Set, session, target, device, local
  <2>25. CASE PublishHandle(t)
    BY <2>25 DEF PublishHandle, Goto, session, target, device, local
  <2>26. CASE UnlockTransaction(t)
    BY <2>26 DEF UnlockTransaction, Goto, session, target, device, local
  <2>27. CASE FinishMutation(t)
    BY <2>27 DEF FinishMutation, Goto, Set, session, target, device, local
  <2>28. CASE LockConnection(t)
    BY <2>28 DEF LockConnection, Lock, Goto, Free, session, target, device, local
  <2>29. CASE Recheck(t)
    BY <2>29 DEF Recheck, Keep, Return, Goto, Set, session, target, device, local
  <2>30. CASE AcquireLifecycle(t)
    BY <2>30 DEF AcquireLifecycle, Goto, session, target, device, local
  <2>31. CASE ReplaceSession(t)
    BY <2>31 DEF ReplaceSession, Goto, session, target, device, local
  <2>32. CASE ClearTarget(t)
    BY <2>32 DEF ClearTarget, Goto, Free, session, target, device, local
  <2>33. CASE FinishConnect(t)
    BY <2>33 DEF FinishConnect, Goto, session, target, device, local
  <2>34. CASE LeaveLifecycle(t)
    BY <2>34 DEF LeaveLifecycle, Return, Goto, Set, session, target, device, local
  <2>35. QED
    BY <1>3, <2>1, <2>2, <2>3, <2>4, <2>5, <2>6, <2>7, <2>8, <2>9, <2>10, <2>11, <2>12, <2>13,
       <2>14, <2>15, <2>16, <2>17, <2>18, <2>19, <2>20, <2>21, <2>22, <2>23, <2>24, <2>25, <2>26,
       <2>27, <2>28, <2>29, <2>30, <2>31, <2>32, <2>33, <2>34
    DEF Step
<1>4. QED
  BY <1>1, <1>2, <1>3 DEF Next


\* Who excludes whom: one mutation at a time, at an odd revision, and none
\* beside a lifecycle that holds the gate.
LEMMA Exclusion ==
  ASSUME TypeOK, Where, Locked, NEW t \in Threads
  PROVE  /\ pc[t] \in {"closeOld", "openNew", "publishPid", "publishHandle", "unlockTx", "finish"} =>
               Mutates(t)
         /\ Mutates(t) => /\ writer = NoThread /\ revision % 2 # 0
                          /\ \A u \in Threads : Mutates(u) => u = t
                          /\ \A u \in Threads : pc[u] \notin Exclusive
         /\ pc[t] \in Exclusive => /\ writer = t
                                   /\ \A u \in Threads : ~Mutates(u) /\ (pc[u] \in Exclusive => u = t)
PROOF
<1>1. pc[t] \in {"closeOld", "openNew", "publishPid", "publishHandle", "unlockTx", "finish"} => Mutates(t)
  BY DEF Where, Mutates, OpenPath, Mutating, DataPath, LifecyclePath, InTransaction, Matching,
     Data, Lifecycles, Ops
<1>2. \A u \in Threads : Mutates(u) => pc[u] \in Leased
  BY DEF Mutates, Leased
<1>3. \A u \in Threads : Mutates(u) => writer = NoThread
  BY <1>2 DEF Locked, TypeOK
<1>4. \A u \in Threads : pc[u] \in Exclusive => writer = u
  BY DEF Locked
<1>5. \A u \in Threads : Mutates(u) => holder["state"] = u
  BY DEF Locked
<1>. QED
  BY <1>1, <1>3, <1>4, <1>5, ThreadAssumption DEF Locked, Stable


\* A lifecycle that has cleared the target keeps it cleared.
LEMMA ClearedStep ==
  ASSUME TypeOK, Where, Locked, ClearedForGood, [Next]_vars
  PROVE  ClearedForGood'
PROOF
<1>. USE ThreadAssumption, TargetAssumption, Exclusion DEF TypeOK, ClearedForGood, Cleared
<1>1. CASE UNCHANGED vars
  BY <1>1 DEF vars, session, target, device, local
<1>2. ASSUME NEW t \in Threads, NEW o \in Ops, NEW p \in Pids, Begin(t, o, p)
      PROVE  ClearedForGood'
  BY <1>2, RoleAssumption, BoundAssumption DEF Begin, Goto, Set, session, target, device, local,
     Lifecycles
<1>3. ASSUME NEW t \in Threads, Step(t)
      PROVE  ClearedForGood'
  <2>1. CASE CaptureGeneration(t)
    BY <2>1 DEF CaptureGeneration, Goto, session, target, device, local
  <2>2. CASE CaptureTarget(t)
    BY <2>2 DEF CaptureTarget, Goto, Free, session, target, device, local
  <2>3. CASE Validate(t)
    BY <2>3 DEF Validate, Keep, Return, Goto, Set, session, target, device, local
  <2>4. CASE ValidateTarget(t)
    BY <2>4 DEF ValidateTarget, Keep, Return, Goto, Set, Free, session, target, device, local
  <2>5. CASE AcquireRequest(t)
    BY <2>5 DEF AcquireRequest, Goto, Set, session, target, device, local
  <2>6. CASE LockTransaction(t)
    BY <2>6 DEF LockTransaction, Lock, Goto, Free, Port, session, target, device, local
  <2>7. CASE LockTimeout(t)
    BY <2>7 DEF LockTimeout, Goto, Free, Port, session, target, device, local
  <2>8. CASE MatchRevision(t)
    BY <2>8 DEF MatchRevision, Goto, Fail, session, target, device, local
  <2>9. CASE MatchPid(t)
    BY <2>9 DEF MatchPid, Goto, Fail, session, target, device, local
  <2>10. CASE MatchHandle(t)
    BY <2>10 DEF MatchHandle, Goto, Fail, session, target, device, local
  <2>11. CASE MatchAgain(t)
    BY <2>11 DEF MatchAgain, Goto, Fail, Rounds, session, target, device, local
  <2>12. CASE EnsureOpenHandle(t)
    BY <2>12 DEF EnsureOpenHandle, Goto, Fail, Set, session, target, device, local
  <2>13. CASE Exchange(t)
    BY <2>13 DEF Exchange, Goto, Fail, Set, Poison, session, target, device, local
  <2>14. CASE HeldValidate(t)
    BY <2>14 DEF HeldValidate, Keep, Return, Goto, Set, session, target, device, local
  <2>15. CASE HeldTarget(t)
    BY <2>15 DEF HeldTarget, Return, Goto, Set, Free, session, target, device, local
  <2>16. CASE DropTransaction(t)
    BY <2>16 DEF DropTransaction, Goto, Set, Port, session, target, device, local
  <2>17. CASE Post(t)
    BY <2>17 DEF Post, Keep, Return, Goto, Set, session, target, device, local
  <2>18. CASE PostTarget(t)
    BY <2>18 DEF PostTarget, Keep, Return, Goto, Set, Free, session, target, device, local
  <2>19. CASE Final(t)
    BY <2>19 DEF Final, Return, Goto, Set, Free, session, target, device, local
  <2>20. CASE LockProcess(t)
    BY <2>20 DEF LockProcess, Lock, Goto, Free, session, target, device, local
  <2>21. CASE BeginTargetMutation(t)
    BY <2>21 DEF BeginTargetMutation, Goto, Set, Free, session, target, device, local
  <2>22. CASE CloseOld(t)
    BY <2>22 DEF CloseOld, Goto, Poison, Attached, session, target, device, local
  <2>23. CASE OpenNew(t)
    BY <2>23 DEF OpenNew, Goto, Set, Poison, OpenHandle, session, target, device, local
  <2>24. CASE PublishPid(t)
    BY <2>24 DEF PublishPid, Goto, Set, session, target, device, local, Exclusive
  <2>25. CASE PublishHandle(t)
    BY <2>25 DEF PublishHandle, Goto, session, target, device, local, Exclusive
  <2>26. CASE UnlockTransaction(t)
    BY <2>26 DEF UnlockTransaction, Goto, session, target, device, local
  <2>27. CASE FinishMutation(t)
    BY <2>27 DEF FinishMutation, Goto, Set, session, target, device, local
  <2>28. CASE LockConnection(t)
    BY <2>28 DEF LockConnection, Lock, Goto, Free, session, target, device, local
  <2>29. CASE Recheck(t)
    BY <2>29 DEF Recheck, Keep, Return, Goto, Set, session, target, device, local
  <2>30. CASE AcquireLifecycle(t)
    BY <2>30 DEF AcquireLifecycle, Goto, session, target, device, local
  <2>31. CASE ReplaceSession(t)
    BY <2>31 DEF ReplaceSession, Goto, session, target, device, local
  <2>32. CASE ClearTarget(t)
    BY <2>32 DEF ClearTarget, Goto, Free, session, target, device, local, Exclusive, Locked,
       Stable
  <2>33. CASE FinishConnect(t)
    BY <2>33 DEF FinishConnect, Goto, session, target, device, local, Exclusive
  <2>34. CASE LeaveLifecycle(t)
    BY <2>34 DEF LeaveLifecycle, Return, Goto, Set, session, target, device, local
  <2>35. QED
    BY <1>3, <2>1, <2>2, <2>3, <2>4, <2>5, <2>6, <2>7, <2>8, <2>9, <2>10, <2>11, <2>12, <2>13,
       <2>14, <2>15, <2>16, <2>17, <2>18, <2>19, <2>20, <2>21, <2>22, <2>23, <2>24, <2>25, <2>26,
       <2>27, <2>28, <2>29, <2>30, <2>31, <2>32, <2>33, <2>34
    DEF Step
<1>4. QED
  BY <1>1, <1>2, <1>3 DEF Next


\* openProcess has no handle before the server gave it one.
LEMMA UnsentStep ==
  ASSUME TypeOK, Where, Unsent, [Next]_vars
  PROVE  Unsent'
PROOF
<1>. USE ThreadAssumption, TargetAssumption DEF TypeOK, Unsent, Where, OpenPath, Mutating,
   DataPath, LifecyclePath, InTransaction, Matching, Data, Lifecycles, Ops
<1>1. CASE UNCHANGED vars
  BY <1>1 DEF vars, session, target, device, local
<1>2. ASSUME NEW t \in Threads, NEW o \in Ops, NEW p \in Pids, Begin(t, o, p)
      PROVE  Unsent'
  BY <1>2, RoleAssumption, BoundAssumption DEF Begin, Goto, Set, session, target, device, local
<1>3. ASSUME NEW t \in Threads, Step(t)
      PROVE  Unsent'
  <2>1. CASE CaptureGeneration(t)
    BY <2>1 DEF CaptureGeneration, Goto, session, target, device, local
  <2>2. CASE CaptureTarget(t)
    BY <2>2 DEF CaptureTarget, Goto, Free, session, target, device, local
  <2>3. CASE Validate(t)
    BY <2>3 DEF Validate, Keep, Return, Goto, Set, session, target, device, local
  <2>4. CASE ValidateTarget(t)
    BY <2>4 DEF ValidateTarget, Keep, Return, Goto, Set, Free, session, target, device, local
  <2>5. CASE AcquireRequest(t)
    BY <2>5 DEF AcquireRequest, Goto, Set, session, target, device, local
  <2>6. CASE LockTransaction(t)
    BY <2>6 DEF LockTransaction, Lock, Goto, Free, Port, session, target, device, local
  <2>7. CASE LockTimeout(t)
    BY <2>7 DEF LockTimeout, Goto, Free, Port, session, target, device, local
  <2>8. CASE MatchRevision(t)
    BY <2>8 DEF MatchRevision, Goto, Fail, session, target, device, local
  <2>9. CASE MatchPid(t)
    BY <2>9 DEF MatchPid, Goto, Fail, session, target, device, local
  <2>10. CASE MatchHandle(t)
    BY <2>10 DEF MatchHandle, Goto, Fail, session, target, device, local
  <2>11. CASE MatchAgain(t)
    BY <2>11 DEF MatchAgain, Goto, Fail, Rounds, session, target, device, local
  <2>12. CASE EnsureOpenHandle(t)
    BY <2>12 DEF EnsureOpenHandle, Goto, Fail, Set, session, target, device, local
  <2>13. CASE Exchange(t)
    BY <2>13 DEF Exchange, Goto, Fail, Set, Poison, session, target, device, local
  <2>14. CASE HeldValidate(t)
    BY <2>14 DEF HeldValidate, Keep, Return, Goto, Set, session, target, device, local
  <2>15. CASE HeldTarget(t)
    BY <2>15 DEF HeldTarget, Return, Goto, Set, Free, session, target, device, local
  <2>16. CASE DropTransaction(t)
    BY <2>16 DEF DropTransaction, Goto, Set, Port, session, target, device, local
  <2>17. CASE Post(t)
    BY <2>17 DEF Post, Keep, Return, Goto, Set, session, target, device, local
  <2>18. CASE PostTarget(t)
    BY <2>18 DEF PostTarget, Keep, Return, Goto, Set, Free, session, target, device, local
  <2>19. CASE Final(t)
    BY <2>19 DEF Final, Return, Goto, Set, Free, session, target, device, local
  <2>20. CASE LockProcess(t)
    BY <2>20 DEF LockProcess, Lock, Goto, Free, session, target, device, local
  <2>21. CASE BeginTargetMutation(t)
    BY <2>21 DEF BeginTargetMutation, Goto, Set, Free, session, target, device, local
  <2>22. CASE CloseOld(t)
    BY <2>22 DEF CloseOld, Goto, Poison, Attached, session, target, device, local
  <2>23. CASE OpenNew(t)
    BY <2>23 DEF OpenNew, Goto, Set, Poison, OpenHandle, session, target, device, local
  <2>24. CASE PublishPid(t)
    BY <2>24 DEF PublishPid, Goto, Set, session, target, device, local
  <2>25. CASE PublishHandle(t)
    BY <2>25 DEF PublishHandle, Goto, session, target, device, local
  <2>26. CASE UnlockTransaction(t)
    BY <2>26 DEF UnlockTransaction, Goto, session, target, device, local
  <2>27. CASE FinishMutation(t)
    BY <2>27 DEF FinishMutation, Goto, Set, session, target, device, local
  <2>28. CASE LockConnection(t)
    BY <2>28 DEF LockConnection, Lock, Goto, Free, session, target, device, local
  <2>29. CASE Recheck(t)
    BY <2>29 DEF Recheck, Keep, Return, Goto, Set, session, target, device, local
  <2>30. CASE AcquireLifecycle(t)
    BY <2>30 DEF AcquireLifecycle, Goto, session, target, device, local
  <2>31. CASE ReplaceSession(t)
    BY <2>31 DEF ReplaceSession, Goto, session, target, device, local
  <2>32. CASE ClearTarget(t)
    BY <2>32 DEF ClearTarget, Goto, Free, session, target, device, local
  <2>33. CASE FinishConnect(t)
    BY <2>33 DEF FinishConnect, Goto, session, target, device, local
  <2>34. CASE LeaveLifecycle(t)
    BY <2>34 DEF LeaveLifecycle, Return, Goto, Set, session, target, device, local
  <2>35. QED
    BY <1>3, <2>1, <2>2, <2>3, <2>4, <2>5, <2>6, <2>7, <2>8, <2>9, <2>10, <2>11, <2>12, <2>13,
       <2>14, <2>15, <2>16, <2>17, <2>18, <2>19, <2>20, <2>21, <2>22, <2>23, <2>24, <2>25, <2>26,
       <2>27, <2>28, <2>29, <2>30, <2>31, <2>32, <2>33, <2>34
    DEF Step
<1>4. QED
  BY <1>1, <1>2, <1>3 DEF Next


\* A stable published target of a live session is open on the server.
LEMMA PublishedStep ==
  ASSUME TypeOK, Where, Locked, Published, [Next]_vars
  PROVE  PublishedTargetIsOpen'
PROOF
<1>. USE ThreadAssumption, TargetAssumption, Exclusion DEF TypeOK, PublishedTargetIsOpen
<1>1. CASE UNCHANGED vars
  BY <1>1 DEF vars, session, target, device, local, Published
<1>2. ASSUME NEW t \in Threads, NEW o \in Ops, NEW p \in Pids, Begin(t, o, p)
      PROVE  PublishedTargetIsOpen'
  BY <1>2, RoleAssumption, BoundAssumption DEF Begin, Goto, Set, session, target, device, local,
     Published
<1>3. ASSUME NEW t \in Threads, Step(t)
      PROVE  PublishedTargetIsOpen'
  <2>1. CASE CaptureGeneration(t)
    BY <2>1 DEF CaptureGeneration, Goto, session, target, device, local, Published
  <2>2. CASE CaptureTarget(t)
    BY <2>2 DEF CaptureTarget, Goto, Free, session, target, device, local, Published
  <2>3. CASE Validate(t)
    BY <2>3 DEF Validate, Keep, Return, Goto, Set, session, target, device, local, Published
  <2>4. CASE ValidateTarget(t)
    BY <2>4 DEF ValidateTarget, Keep, Return, Goto, Set, Free, session, target, device, local,
       Published
  <2>5. CASE AcquireRequest(t)
    BY <2>5 DEF AcquireRequest, Goto, Set, session, target, device, local, Published
  <2>6. CASE LockTransaction(t)
    BY <2>6 DEF LockTransaction, Lock, Goto, Free, Port, session, target, device, local,
       Published
  <2>7. CASE LockTimeout(t)
    BY <2>7 DEF LockTimeout, Goto, Free, Port, session, target, device, local, Published
  <2>8. CASE MatchRevision(t)
    BY <2>8 DEF MatchRevision, Goto, Fail, session, target, device, local, Published
  <2>9. CASE MatchPid(t)
    BY <2>9 DEF MatchPid, Goto, Fail, session, target, device, local, Published
  <2>10. CASE MatchHandle(t)
    BY <2>10 DEF MatchHandle, Goto, Fail, session, target, device, local, Published
  <2>11. CASE MatchAgain(t)
    BY <2>11 DEF MatchAgain, Goto, Fail, Rounds, session, target, device, local, Published
  <2>12. CASE EnsureOpenHandle(t)
    BY <2>12 DEF EnsureOpenHandle, Goto, Fail, Set, session, target, device, local, Published
  <2>13. CASE Exchange(t)
    BY <2>13 DEF Exchange, Goto, Fail, Set, Poison, session, target, device, local, Published
  <2>14. CASE HeldValidate(t)
    BY <2>14 DEF HeldValidate, Keep, Return, Goto, Set, session, target, device, local,
       Published
  <2>15. CASE HeldTarget(t)
    BY <2>15 DEF HeldTarget, Return, Goto, Set, Free, session, target, device, local, Published
  <2>16. CASE DropTransaction(t)
    BY <2>16 DEF DropTransaction, Goto, Set, Port, session, target, device, local, Published
  <2>17. CASE Post(t)
    BY <2>17 DEF Post, Keep, Return, Goto, Set, session, target, device, local, Published
  <2>18. CASE PostTarget(t)
    BY <2>18 DEF PostTarget, Keep, Return, Goto, Set, Free, session, target, device, local,
       Published
  <2>19. CASE Final(t)
    BY <2>19 DEF Final, Return, Goto, Set, Free, session, target, device, local, Published
  <2>20. CASE LockProcess(t)
    BY <2>20 DEF LockProcess, Lock, Goto, Free, session, target, device, local, Published
  <2>21. CASE BeginTargetMutation(t)
    BY <2>21 DEF BeginTargetMutation, Goto, Set, Free, session, target, device, local, Published
  <2>22. CASE CloseOld(t)
    BY <2>22 DEF CloseOld, Goto, Poison, Attached, session, target, device, local, Exclusive,
       Mutates
  <2>23. CASE OpenNew(t)
    BY <2>23 DEF OpenNew, Goto, Set, Poison, OpenHandle, session, target, device, local,
       Exclusive, Mutates
  <2>24. CASE PublishPid(t)
    BY <2>24 DEF PublishPid, Goto, Set, session, target, device, local, Exclusive, Mutates
  <2>25. CASE PublishHandle(t)
    BY <2>25 DEF PublishHandle, Goto, session, target, device, local, Exclusive, Mutates
  <2>26. CASE UnlockTransaction(t)
    BY <2>26 DEF UnlockTransaction, Goto, session, target, device, local, Published
  <2>27. CASE FinishMutation(t)
    BY <2>27 DEF FinishMutation, Goto, Set, session, target, device, local, Published, Midway,
       Agrees, Cleared, Open
  <2>28. CASE LockConnection(t)
    BY <2>28 DEF LockConnection, Lock, Goto, Free, session, target, device, local, Published
  <2>29. CASE Recheck(t)
    BY <2>29 DEF Recheck, Keep, Return, Goto, Set, session, target, device, local, Published
  <2>30. CASE AcquireLifecycle(t)
    BY <2>30 DEF AcquireLifecycle, Goto, session, target, device, local, Exclusive
  <2>31. CASE ReplaceSession(t)
    BY <2>31 DEF ReplaceSession, Goto, session, target, device, local, Exclusive
  <2>32. CASE ClearTarget(t)
    BY <2>32 DEF ClearTarget, Goto, Free, session, target, device, local, Exclusive
  <2>33. CASE FinishConnect(t)
    BY <2>33 DEF FinishConnect, Goto, session, target, device, local, Exclusive
  <2>34. CASE LeaveLifecycle(t)
    BY <2>34 DEF LeaveLifecycle, Return, Goto, Set, session, target, device, local, Published,
       ClearedForGood, Cleared
  <2>35. QED
    BY <1>3, <2>1, <2>2, <2>3, <2>4, <2>5, <2>6, <2>7, <2>8, <2>9, <2>10, <2>11, <2>12, <2>13,
       <2>14, <2>15, <2>16, <2>17, <2>18, <2>19, <2>20, <2>21, <2>22, <2>23, <2>24, <2>25, <2>26,
       <2>27, <2>28, <2>29, <2>30, <2>31, <2>32, <2>33, <2>34
    DEF Step
<1>4. QED
  BY <1>1, <1>2, <1>3 DEF Next


\* What a mutation has done so far stays true while nobody else mutates.
LEMMA MidwayStep ==
  ASSUME TypeOK, Where, Locked, Published, [Next]_vars
  PROVE  Midway'
PROOF
<1>. USE ThreadAssumption, TargetAssumption, Exclusion DEF TypeOK, Where, Midway, Mutates,
   Published, Agrees, Cleared, Open, OpenPath, Mutating, DataPath, LifecyclePath, InTransaction,
   Matching, Data, Lifecycles, Ops
<1>1. CASE UNCHANGED vars
  BY <1>1 DEF vars, session, target, device, local
<1>2. ASSUME NEW t \in Threads, NEW o \in Ops, NEW p \in Pids, Begin(t, o, p)
      PROVE  Midway'
  BY <1>2, RoleAssumption, BoundAssumption DEF Begin, Goto, Set, session, target, device, local
<1>3. ASSUME NEW t \in Threads, Step(t)
      PROVE  Midway'
  <2>1. CASE CaptureGeneration(t)
    BY <2>1 DEF CaptureGeneration, Goto, session, target, device, local
  <2>2. CASE CaptureTarget(t)
    BY <2>2 DEF CaptureTarget, Goto, Free, session, target, device, local
  <2>3. CASE Validate(t)
    BY <2>3 DEF Validate, Keep, Return, Goto, Set, session, target, device, local
  <2>4. CASE ValidateTarget(t)
    BY <2>4 DEF ValidateTarget, Keep, Return, Goto, Set, Free, session, target, device, local
  <2>5. CASE AcquireRequest(t)
    BY <2>5 DEF AcquireRequest, Goto, Set, session, target, device, local
  <2>6. CASE LockTransaction(t)
    BY <2>6 DEF LockTransaction, Lock, Goto, Free, Port, session, target, device, local
  <2>7. CASE LockTimeout(t)
    BY <2>7 DEF LockTimeout, Goto, Free, Port, session, target, device, local, Unsent
  <2>8. CASE MatchRevision(t)
    BY <2>8 DEF MatchRevision, Goto, Fail, session, target, device, local
  <2>9. CASE MatchPid(t)
    BY <2>9 DEF MatchPid, Goto, Fail, session, target, device, local
  <2>10. CASE MatchHandle(t)
    BY <2>10 DEF MatchHandle, Goto, Fail, session, target, device, local
  <2>11. CASE MatchAgain(t)
    BY <2>11 DEF MatchAgain, Goto, Fail, Rounds, session, target, device, local
  <2>12. CASE EnsureOpenHandle(t)
    BY <2>12 DEF EnsureOpenHandle, Goto, Fail, Set, session, target, device, local
  <2>13. CASE Exchange(t)
    BY <2>13 DEF Exchange, Goto, Fail, Set, Poison, session, target, device, local
  <2>14. CASE HeldValidate(t)
    BY <2>14 DEF HeldValidate, Keep, Return, Goto, Set, session, target, device, local
  <2>15. CASE HeldTarget(t)
    BY <2>15 DEF HeldTarget, Return, Goto, Set, Free, session, target, device, local
  <2>16. CASE DropTransaction(t)
    BY <2>16 DEF DropTransaction, Goto, Set, Port, session, target, device, local
  <2>17. CASE Post(t)
    BY <2>17 DEF Post, Keep, Return, Goto, Set, session, target, device, local
  <2>18. CASE PostTarget(t)
    BY <2>18 DEF PostTarget, Keep, Return, Goto, Set, Free, session, target, device, local
  <2>19. CASE Final(t)
    BY <2>19 DEF Final, Return, Goto, Set, Free, session, target, device, local
  <2>20. CASE LockProcess(t)
    BY <2>20 DEF LockProcess, Lock, Goto, Free, session, target, device, local
  <2>21. CASE BeginTargetMutation(t)
    BY <2>21 DEF BeginTargetMutation, Goto, Set, Free, session, target, device, local,
       PublishedTargetIsOpen, Locked, Leased
  <2>22. CASE CloseOld(t)
    BY <2>22 DEF CloseOld, Goto, Poison, Attached, session, target, device, local
  <2>23. CASE OpenNew(t)
    BY <2>23 DEF OpenNew, Goto, Set, Poison, OpenHandle, session, target, device, local, Unsent
  <2>24. CASE PublishPid(t)
    BY <2>24 DEF PublishPid, Goto, Set, session, target, device, local, IsCurrent
  <2>25. CASE PublishHandle(t)
    BY <2>25 DEF PublishHandle, Goto, session, target, device, local
  <2>26. CASE UnlockTransaction(t)
    BY <2>26 DEF UnlockTransaction, Goto, session, target, device, local
  <2>27. CASE FinishMutation(t)
    BY <2>27 DEF FinishMutation, Goto, Set, session, target, device, local
  <2>28. CASE LockConnection(t)
    BY <2>28 DEF LockConnection, Lock, Goto, Free, session, target, device, local
  <2>29. CASE Recheck(t)
    BY <2>29 DEF Recheck, Keep, Return, Goto, Set, session, target, device, local
  <2>30. CASE AcquireLifecycle(t)
    BY <2>30 DEF AcquireLifecycle, Goto, session, target, device, local
  <2>31. CASE ReplaceSession(t)
    BY <2>31 DEF ReplaceSession, Goto, session, target, device, local, Exclusive
  <2>32. CASE ClearTarget(t)
    BY <2>32 DEF ClearTarget, Goto, Free, session, target, device, local, Exclusive
  <2>33. CASE FinishConnect(t)
    BY <2>33 DEF FinishConnect, Goto, session, target, device, local, Exclusive
  <2>34. CASE LeaveLifecycle(t)
    BY <2>34 DEF LeaveLifecycle, Return, Goto, Set, session, target, device, local, Exclusive
  <2>35. QED
    BY <1>3, <2>1, <2>2, <2>3, <2>4, <2>5, <2>6, <2>7, <2>8, <2>9, <2>10, <2>11, <2>12, <2>13,
       <2>14, <2>15, <2>16, <2>17, <2>18, <2>19, <2>20, <2>21, <2>22, <2>23, <2>24, <2>25, <2>26,
       <2>27, <2>28, <2>29, <2>30, <2>31, <2>32, <2>33, <2>34
    DEF Step
<1>4. QED
  BY <1>1, <1>2, <1>3 DEF Next


\* An operation whose context's revision is the current one, with a process
\* attached and a lease held, finds that process open on the server.
LEMMA CurrentIsOpen ==
  ASSUME TypeOK, Locked, Contexts, Published, NEW t \in Threads, op[t] \in Data,
   pc[t] \in InTransaction,
         state = "Connected", ctx[t].tgt.revision = revision
  PROVE  /\ pid = ctx[t].tgt.pid /\ handle = ctx[t].tgt.handle
         /\ handle # NoHandle /\ pid # NoPid /\ table[handle] = pid /\ ioPid = pid
PROOF
<1>1. Attached(ctx[t].tgt)
  BY DEF Contexts, AttachedPast, InTransaction, Matching
<1>2. pid = ctx[t].tgt.pid /\ handle = ctx[t].tgt.handle /\ revision % 2 = 0
  BY DEF Contexts, Snapped
<1>3. writer = NoThread
  BY DEF Locked, Leased, TypeOK
<1>. QED
  BY <1>1, <1>2, <1>3 DEF Attached, Published, PublishedTargetIsOpen

\* A context keeps its revision, and that revision is the current one only if
\* it already was.
LEMMA StillCurrent ==
  ASSUME TypeOK, TypeOK', Contexts, TargetMoves, NEW t \in Threads, ctx'[t] = ctx[t],
         ctx'[t].tgt.revision = revision'
  PROVE  ctx[t].tgt.revision = revision
PROOF
<1>1. PICK k \in Nat : k = ctx[t].tgt.revision
  BY ctx[t] \in OperationContexts DEF TypeOK, OperationContexts, Snapshots
<1>2. k <= revision /\ revision <= revision' /\ k = revision' /\ revision \in Nat /\ revision' \in Nat
  BY <1>1 DEF Contexts, Snapped, TargetMoves, TypeOK
<1>. QED
  BY <1>1, <1>2


\* The handle that is sent is the context's while the revision is.
LEMMA SentStep ==
  ASSUME TypeOK, TypeOK', Where, Contexts, TargetMoves, SentMatches, [Next]_vars
  PROVE  SentMatches'
PROOF
<1>. USE ThreadAssumption, TargetAssumption, StillCurrent DEF SentMatches, Where, TypeOK,
   OpenPath, Mutating, DataPath, LifecyclePath, InTransaction, Matching, Data, Lifecycles, Ops
<1>1. CASE UNCHANGED vars
  BY <1>1 DEF vars, session, target, device, local
<1>2. ASSUME NEW t \in Threads, NEW o \in Ops, NEW p \in Pids, Begin(t, o, p)
      PROVE  SentMatches'
  BY <1>2, RoleAssumption, BoundAssumption DEF Begin, Goto, Set, session, target, device, local
<1>3. ASSUME NEW t \in Threads, Step(t)
      PROVE  SentMatches'
  <2>1. CASE CaptureGeneration(t)
    BY <2>1 DEF CaptureGeneration, Goto, session, target, device, local
  <2>2. CASE CaptureTarget(t)
    BY <2>2 DEF CaptureTarget, Goto, Free, session, target, device, local
  <2>3. CASE Validate(t)
    BY <2>3 DEF Validate, Keep, Return, Goto, Set, session, target, device, local
  <2>4. CASE ValidateTarget(t)
    BY <2>4 DEF ValidateTarget, Keep, Return, Goto, Set, Free, session, target, device, local
  <2>5. CASE AcquireRequest(t)
    BY <2>5 DEF AcquireRequest, Goto, Set, session, target, device, local
  <2>6. CASE LockTransaction(t)
    BY <2>6 DEF LockTransaction, Lock, Goto, Free, Port, session, target, device, local
  <2>7. CASE LockTimeout(t)
    BY <2>7 DEF LockTimeout, Goto, Free, Port, session, target, device, local
  <2>8. CASE MatchRevision(t)
    BY <2>8 DEF MatchRevision, Goto, Fail, session, target, device, local
  <2>9. CASE MatchPid(t)
    BY <2>9 DEF MatchPid, Goto, Fail, session, target, device, local
  <2>10. CASE MatchHandle(t)
    BY <2>10 DEF MatchHandle, Goto, Fail, session, target, device, local
  <2>11. CASE MatchAgain(t)
    BY <2>11 DEF MatchAgain, Goto, Fail, Rounds, session, target, device, local
  <2>12. CASE EnsureOpenHandle(t)
    <3>1. \A u \in Threads : u # t => sent'[u] = sent[u] /\ pc'[u] = pc[u]
      BY <2>12 DEF EnsureOpenHandle, Goto, Fail, Set
    <3>2. \A u \in Threads : ctx[u].tgt.revision = revision => ctx[u].tgt.handle = handle
      BY DEF Contexts, Snapped
    <3>3. /\ sent'[t] = handle
          /\ pc'[t] = "exchange" => handle # NoHandle
          /\ revision' = revision /\ ctx' = ctx /\ op' = op
      BY <2>12 DEF EnsureOpenHandle, Goto, Fail, Set, target
    <3>4. ASSUME NEW u \in Threads, op'[u] \in Data, pc'[u] = "exchange"
          PROVE  sent'[u] # NoHandle /\ (ctx'[u].tgt.revision = revision' => sent'[u] = ctx'[u].tgt.handle)
      <4>1. CASE u = t
        BY <3>2, <3>3, <3>4, <4>1
      <4>2. CASE u # t
        BY <3>1, <3>3, <3>4, <4>2
      <4>. QED
        BY <4>1, <4>2
    <3>. QED
      BY <3>4
  <2>13. CASE Exchange(t)
    BY <2>13 DEF Exchange, Goto, Fail, Set, Poison, session, target, device, local
  <2>14. CASE HeldValidate(t)
    BY <2>14 DEF HeldValidate, Keep, Return, Goto, Set, session, target, device, local
  <2>15. CASE HeldTarget(t)
    BY <2>15 DEF HeldTarget, Return, Goto, Set, Free, session, target, device, local
  <2>16. CASE DropTransaction(t)
    BY <2>16 DEF DropTransaction, Goto, Set, Port, session, target, device, local
  <2>17. CASE Post(t)
    BY <2>17 DEF Post, Keep, Return, Goto, Set, session, target, device, local
  <2>18. CASE PostTarget(t)
    BY <2>18 DEF PostTarget, Keep, Return, Goto, Set, Free, session, target, device, local
  <2>19. CASE Final(t)
    BY <2>19 DEF Final, Return, Goto, Set, Free, session, target, device, local
  <2>20. CASE LockProcess(t)
    BY <2>20 DEF LockProcess, Lock, Goto, Free, session, target, device, local
  <2>21. CASE BeginTargetMutation(t)
    BY <2>21 DEF BeginTargetMutation, Goto, Set, Free, session, target, device, local
  <2>22. CASE CloseOld(t)
    BY <2>22 DEF CloseOld, Goto, Poison, Attached, session, target, device, local
  <2>23. CASE OpenNew(t)
    BY <2>23 DEF OpenNew, Goto, Set, Poison, OpenHandle, session, target, device, local
  <2>24. CASE PublishPid(t)
    BY <2>24 DEF PublishPid, Goto, Set, session, target, device, local
  <2>25. CASE PublishHandle(t)
    BY <2>25 DEF PublishHandle, Goto, session, target, device, local
  <2>26. CASE UnlockTransaction(t)
    BY <2>26 DEF UnlockTransaction, Goto, session, target, device, local
  <2>27. CASE FinishMutation(t)
    BY <2>27 DEF FinishMutation, Goto, Set, session, target, device, local
  <2>28. CASE LockConnection(t)
    BY <2>28 DEF LockConnection, Lock, Goto, Free, session, target, device, local
  <2>29. CASE Recheck(t)
    BY <2>29 DEF Recheck, Keep, Return, Goto, Set, session, target, device, local
  <2>30. CASE AcquireLifecycle(t)
    BY <2>30 DEF AcquireLifecycle, Goto, session, target, device, local
  <2>31. CASE ReplaceSession(t)
    BY <2>31 DEF ReplaceSession, Goto, session, target, device, local
  <2>32. CASE ClearTarget(t)
    BY <2>32 DEF ClearTarget, Goto, Free, session, target, device, local
  <2>33. CASE FinishConnect(t)
    BY <2>33 DEF FinishConnect, Goto, session, target, device, local
  <2>34. CASE LeaveLifecycle(t)
    BY <2>34 DEF LeaveLifecycle, Return, Goto, Set, session, target, device, local
  <2>35. QED
    BY <1>3, <2>1, <2>2, <2>3, <2>4, <2>5, <2>6, <2>7, <2>8, <2>9, <2>10, <2>11, <2>12, <2>13,
       <2>14, <2>15, <2>16, <2>17, <2>18, <2>19, <2>20, <2>21, <2>22, <2>23, <2>24, <2>25, <2>26,
       <2>27, <2>28, <2>29, <2>30, <2>31, <2>32, <2>33, <2>34
    DEF Step
<1>4. QED
  BY <1>1, <1>2, <1>3 DEF Next


\* With the MAIN mutex held g_memIO stays on the process that was matched.
LEMMA IoStep ==
  ASSUME TypeOK, Where, Locked, Contexts, Published, IoMatches, [Next]_vars
  PROVE  IoMatches'
PROOF
<1>. USE ThreadAssumption, TargetAssumption, Exclusion, CurrentIsOpen DEF TypeOK, IoMatches,
   Main
<1>1. CASE UNCHANGED vars
  BY <1>1 DEF vars, session, target, device, local
<1>2. ASSUME NEW t \in Threads, NEW o \in Ops, NEW p \in Pids, Begin(t, o, p)
      PROVE  IoMatches'
  BY <1>2, RoleAssumption, BoundAssumption DEF Begin, Goto, Set, session, target, device, local
<1>3. ASSUME NEW t \in Threads, Step(t)
      PROVE  IoMatches'
  <2>1. CASE CaptureGeneration(t)
    BY <2>1 DEF CaptureGeneration, Goto, session, target, device, local
  <2>2. CASE CaptureTarget(t)
    BY <2>2 DEF CaptureTarget, Goto, Free, session, target, device, local
  <2>3. CASE Validate(t)
    BY <2>3 DEF Validate, Keep, Return, Goto, Set, session, target, device, local
  <2>4. CASE ValidateTarget(t)
    BY <2>4 DEF ValidateTarget, Keep, Return, Goto, Set, Free, session, target, device, local
  <2>5. CASE AcquireRequest(t)
    BY <2>5 DEF AcquireRequest, Goto, Set, session, target, device, local
  <2>6. CASE LockTransaction(t)
    BY <2>6 DEF LockTransaction, Lock, Goto, Free, Port, session, target, device, local,
       Lifecycles
  <2>7. CASE LockTimeout(t)
    BY <2>7 DEF LockTimeout, Goto, Free, Port, session, target, device, local
  <2>8. CASE MatchRevision(t)
    BY <2>8 DEF MatchRevision, Goto, Fail, session, target, device, local
  <2>9. CASE MatchPid(t)
    BY <2>9 DEF MatchPid, Goto, Fail, session, target, device, local
  <2>10. CASE MatchHandle(t)
    BY <2>10 DEF MatchHandle, Goto, Fail, session, target, device, local
  <2>11. CASE MatchAgain(t)
    <3>1. \A u \in Threads : u # t => pc'[u] = pc[u]
      BY <2>11 DEF MatchAgain, Goto, Fail
    <3>2. UNCHANGED <<ctx, op, state, ioPid>>
      BY <2>11 DEF MatchAgain, session, device
    <3>3. ASSUME pc'[t] \in {"loadHandle", "exchange"}, op[t] \in Main, state = "Connected"
          PROVE  ioPid = ctx[t].tgt.pid
      <4>1. ctx[t].tgt.revision = revision /\ pc[t] \in InTransaction /\ op[t] \in Data
        BY <2>11, <3>3 DEF MatchAgain, Goto, Fail, InTransaction, Matching, Data
      <4>. QED
        BY <3>3, <4>1
    <3>. QED
      BY <3>1, <3>2, <3>3
  <2>12. CASE EnsureOpenHandle(t)
    BY <2>12 DEF EnsureOpenHandle, Goto, Fail, Set, session, target, device, local
  <2>13. CASE Exchange(t)
    BY <2>13 DEF Exchange, Goto, Fail, Set, Poison, session, target, device, local
  <2>14. CASE HeldValidate(t)
    BY <2>14 DEF HeldValidate, Keep, Return, Goto, Set, session, target, device, local
  <2>15. CASE HeldTarget(t)
    BY <2>15 DEF HeldTarget, Return, Goto, Set, Free, session, target, device, local
  <2>16. CASE DropTransaction(t)
    BY <2>16 DEF DropTransaction, Goto, Set, Port, session, target, device, local
  <2>17. CASE Post(t)
    BY <2>17 DEF Post, Keep, Return, Goto, Set, session, target, device, local
  <2>18. CASE PostTarget(t)
    BY <2>18 DEF PostTarget, Keep, Return, Goto, Set, Free, session, target, device, local
  <2>19. CASE Final(t)
    BY <2>19 DEF Final, Return, Goto, Set, Free, session, target, device, local
  <2>20. CASE LockProcess(t)
    BY <2>20 DEF LockProcess, Lock, Goto, Free, session, target, device, local
  <2>21. CASE BeginTargetMutation(t)
    BY <2>21 DEF BeginTargetMutation, Goto, Set, Free, session, target, device, local
  <2>22. CASE CloseOld(t)
    <3>1. holder["main"] = t /\ \A u \in Threads : pc'[u] \in {"loadHandle", "exchange"} => u # t /\ pc[u] = pc'[u]
      BY <2>22 DEF CloseOld, Goto, Locked
    <3>2. \A u \in Threads : op[u] \in Main => pc'[u] \notin {"loadHandle", "exchange"}
      BY <3>1 DEF Locked, Port, Data, InTransaction
    <3>. QED
      BY <2>22, <3>2 DEF CloseOld, local
  <2>23. CASE OpenNew(t)
    <3>1. holder["main"] = t /\ \A u \in Threads : pc'[u] \in {"loadHandle", "exchange"} => u # t /\ pc[u] = pc'[u]
      BY <2>23 DEF OpenNew, Goto, Locked
    <3>2. \A u \in Threads : op[u] \in Main => pc'[u] \notin {"loadHandle", "exchange"}
      BY <3>1 DEF Locked, Port, Data, InTransaction
    <3>. QED
      BY <2>23, <3>2 DEF OpenNew
  <2>24. CASE PublishPid(t)
    BY <2>24 DEF PublishPid, Goto, Set, session, target, device, local
  <2>25. CASE PublishHandle(t)
    BY <2>25 DEF PublishHandle, Goto, session, target, device, local
  <2>26. CASE UnlockTransaction(t)
    BY <2>26 DEF UnlockTransaction, Goto, session, target, device, local
  <2>27. CASE FinishMutation(t)
    BY <2>27 DEF FinishMutation, Goto, Set, session, target, device, local
  <2>28. CASE LockConnection(t)
    BY <2>28 DEF LockConnection, Lock, Goto, Free, session, target, device, local
  <2>29. CASE Recheck(t)
    BY <2>29 DEF Recheck, Keep, Return, Goto, Set, session, target, device, local
  <2>30. CASE AcquireLifecycle(t)
    BY <2>30 DEF AcquireLifecycle, Goto, session, target, device, local
  <2>31. CASE ReplaceSession(t)
    BY <2>31 DEF ReplaceSession, Goto, session, target, device, local
  <2>32. CASE ClearTarget(t)
    BY <2>32 DEF ClearTarget, Goto, Free, session, target, device, local
  <2>33. CASE FinishConnect(t)
    <3>1. \A u \in Threads : pc'[u] \in {"loadHandle", "exchange"} => u # t /\ pc[u] = pc'[u]
      BY <2>33 DEF FinishConnect, Goto
    <3>2. writer = t
      BY <2>33 DEF FinishConnect, Exclusive
    <3>3. \A u \in Threads : pc'[u] \notin {"loadHandle", "exchange"}
      BY <3>1, <3>2 DEF Locked, Leased, InTransaction
    <3>. QED
      BY <3>3
  <2>34. CASE LeaveLifecycle(t)
    BY <2>34 DEF LeaveLifecycle, Return, Goto, Set, session, target, device, local
  <2>35. QED
    BY <1>3, <2>1, <2>2, <2>3, <2>4, <2>5, <2>6, <2>7, <2>8, <2>9, <2>10, <2>11, <2>12, <2>13,
       <2>14, <2>15, <2>16, <2>17, <2>18, <2>19, <2>20, <2>21, <2>22, <2>23, <2>24, <2>25, <2>26,
       <2>27, <2>28, <2>29, <2>30, <2>31, <2>32, <2>33, <2>34
    DEF Step
<1>4. QED
  BY <1>1, <1>2, <1>3 DEF Next


\* An exchange of an operation on a process is with the process its context
\* names, if it is with any, and with no other if the revision still holds.
LEMMA TouchedStep ==
  ASSUME TypeOK, Where, Locked, Contexts, Published, Matched, NEW t \in Threads, Exchange(t),
   IsCurrent(t),
         op[t] \in Data
  PROVE  /\ op[t] \in Main => Touched(t) \in {NoPid, ctx[t].tgt.pid}
         /\ ctx[t].tgt.revision = revision => Touched(t) = ctx[t].tgt.pid
PROOF
<1>1. pc[t] = "exchange" /\ state = "Connected" /\ op[t] \notin Lifecycles /\ pc[t] \in InTransaction
  BY DEF Exchange, IsCurrent, Data, Lifecycles, InTransaction
<1>2. op[t] \in Main => ioPid = ctx[t].tgt.pid
  BY <1>1 DEF Matched, IoMatches
<1>3. op[t] \in Main => Touched(t) \in {NoPid, ctx[t].tgt.pid}
  BY <1>1, <1>2 DEF Touched, Main
<1>4. ASSUME ctx[t].tgt.revision = revision
      PROVE  Touched(t) = ctx[t].tgt.pid
  <2>1. /\ pid = ctx[t].tgt.pid /\ handle = ctx[t].tgt.handle
        /\ handle # NoHandle /\ pid # NoPid /\ table[handle] = pid /\ ioPid = pid
    BY <1>1, <1>4, CurrentIsOpen
  <2>2. sent[t] = handle
    BY <1>1, <1>4, <2>1 DEF Matched, SentMatches
  <2>. QED
    BY <1>1, <2>1, <2>2 DEF Touched
<1>. QED
  BY <1>3, <1>4



\* A MAIN command touches no process but its context's.
LEMMA TouchesStep ==
  ASSUME TypeOK, Where, Locked, Contexts, Published, Matched, MainTouchesOnlyTarget, [Next]_vars
  PROVE  MainTouchesOnlyTarget'
PROOF
<1>. USE ThreadAssumption, TargetAssumption DEF TypeOK, MainTouchesOnlyTarget
<1>1. CASE UNCHANGED vars
  BY <1>1 DEF vars, session, target, device, local
<1>2. ASSUME NEW t \in Threads, NEW o \in Ops, NEW p \in Pids, Begin(t, o, p)
      PROVE  MainTouchesOnlyTarget'
  BY <1>2, RoleAssumption, BoundAssumption DEF Begin, Goto, Set, session, target, device, local
<1>3. ASSUME NEW t \in Threads, Step(t)
      PROVE  MainTouchesOnlyTarget'
  <2>1. CASE CaptureGeneration(t)
    BY <2>1 DEF CaptureGeneration, Goto, session, target, device, local, Where
  <2>2. CASE CaptureTarget(t)
    BY <2>2 DEF CaptureTarget, Goto, Free, session, target, device, local, Where
  <2>3. CASE Validate(t)
    BY <2>3 DEF Validate, Keep, Return, Goto, Set, session, target, device, local
  <2>4. CASE ValidateTarget(t)
    BY <2>4 DEF ValidateTarget, Keep, Return, Goto, Set, Free, session, target, device, local
  <2>5. CASE AcquireRequest(t)
    BY <2>5 DEF AcquireRequest, Goto, Set, session, target, device, local
  <2>6. CASE LockTransaction(t)
    BY <2>6 DEF LockTransaction, Lock, Goto, Free, Port, session, target, device, local
  <2>7. CASE LockTimeout(t)
    BY <2>7 DEF LockTimeout, Goto, Free, Port, session, target, device, local
  <2>8. CASE MatchRevision(t)
    BY <2>8 DEF MatchRevision, Goto, Fail, session, target, device, local
  <2>9. CASE MatchPid(t)
    BY <2>9 DEF MatchPid, Goto, Fail, session, target, device, local
  <2>10. CASE MatchHandle(t)
    BY <2>10 DEF MatchHandle, Goto, Fail, session, target, device, local
  <2>11. CASE MatchAgain(t)
    BY <2>11 DEF MatchAgain, Goto, Fail, Rounds, session, target, device, local
  <2>12. CASE EnsureOpenHandle(t)
    BY <2>12 DEF EnsureOpenHandle, Goto, Fail, Set, session, target, device, local
  <2>13. CASE Exchange(t)
    <3>1. UNCHANGED <<op, ctx>> /\ \A u \in Threads : u # t => effect'[u] = effect[u]
      BY <2>13 DEF Exchange, Set
    <3>2. effect'[t] \in {effect[t], NoPid} \/ (IsCurrent(t) /\ effect'[t] = Touched(t))
      BY <2>13 DEF Exchange, Set
    <3>3. op[t] \in Main => effect'[t] \in {NoPid, ctx[t].tgt.pid}
      BY <2>13, <3>2, TouchedStep DEF Main, Data
    <3>. QED
      BY <3>1, <3>3 DEF Main
  <2>14. CASE HeldValidate(t)
    BY <2>14 DEF HeldValidate, Keep, Return, Goto, Set, session, target, device, local
  <2>15. CASE HeldTarget(t)
    BY <2>15 DEF HeldTarget, Return, Goto, Set, Free, session, target, device, local
  <2>16. CASE DropTransaction(t)
    BY <2>16 DEF DropTransaction, Goto, Set, Port, session, target, device, local
  <2>17. CASE Post(t)
    BY <2>17 DEF Post, Keep, Return, Goto, Set, session, target, device, local
  <2>18. CASE PostTarget(t)
    BY <2>18 DEF PostTarget, Keep, Return, Goto, Set, Free, session, target, device, local
  <2>19. CASE Final(t)
    BY <2>19 DEF Final, Return, Goto, Set, Free, session, target, device, local
  <2>20. CASE LockProcess(t)
    BY <2>20 DEF LockProcess, Lock, Goto, Free, session, target, device, local
  <2>21. CASE BeginTargetMutation(t)
    BY <2>21 DEF BeginTargetMutation, Goto, Set, Free, session, target, device, local
  <2>22. CASE CloseOld(t)
    BY <2>22 DEF CloseOld, Goto, Poison, Attached, session, target, device, local
  <2>23. CASE OpenNew(t)
    BY <2>23 DEF OpenNew, Goto, Set, Poison, OpenHandle, session, target, device, local
  <2>24. CASE PublishPid(t)
    BY <2>24 DEF PublishPid, Goto, Set, session, target, device, local
  <2>25. CASE PublishHandle(t)
    BY <2>25 DEF PublishHandle, Goto, session, target, device, local
  <2>26. CASE UnlockTransaction(t)
    BY <2>26 DEF UnlockTransaction, Goto, session, target, device, local
  <2>27. CASE FinishMutation(t)
    BY <2>27 DEF FinishMutation, Goto, Set, session, target, device, local
  <2>28. CASE LockConnection(t)
    BY <2>28 DEF LockConnection, Lock, Goto, Free, session, target, device, local
  <2>29. CASE Recheck(t)
    BY <2>29 DEF Recheck, Keep, Return, Goto, Set, session, target, device, local
  <2>30. CASE AcquireLifecycle(t)
    BY <2>30 DEF AcquireLifecycle, Goto, session, target, device, local
  <2>31. CASE ReplaceSession(t)
    BY <2>31 DEF ReplaceSession, Goto, session, target, device, local
  <2>32. CASE ClearTarget(t)
    BY <2>32 DEF ClearTarget, Goto, Free, session, target, device, local
  <2>33. CASE FinishConnect(t)
    BY <2>33 DEF FinishConnect, Goto, session, target, device, local
  <2>34. CASE LeaveLifecycle(t)
    BY <2>34 DEF LeaveLifecycle, Return, Goto, Set, session, target, device, local
  <2>35. QED
    BY <1>3, <2>1, <2>2, <2>3, <2>4, <2>5, <2>6, <2>7, <2>8, <2>9, <2>10, <2>11, <2>12, <2>13,
       <2>14, <2>15, <2>16, <2>17, <2>18, <2>19, <2>20, <2>21, <2>22, <2>23, <2>24, <2>25, <2>26,
       <2>27, <2>28, <2>29, <2>30, <2>31, <2>32, <2>33, <2>34
    DEF Step
<1>4. QED
  BY <1>1, <1>2, <1>3 DEF Next


\* A completed exchange was with the context's process if the revision still holds.
LEMMA VouchedStep ==
  ASSUME TypeOK, TypeOK', Where, Locked, Contexts, Published, Matched, TargetMoves, Vouched,
   [Next]_vars
  PROVE  Vouched'
PROOF
<1>. USE ThreadAssumption, TargetAssumption, StillCurrent DEF TypeOK, Vouched, Where, OpenPath,
   Mutating, DataPath, LifecyclePath, InTransaction, Matching, Data, Lifecycles, Ops
<1>1. CASE UNCHANGED vars
  BY <1>1 DEF vars, session, target, device, local
<1>2. ASSUME NEW t \in Threads, NEW o \in Ops, NEW p \in Pids, Begin(t, o, p)
      PROVE  Vouched'
  BY <1>2, RoleAssumption, BoundAssumption DEF Begin, Goto, Set, session, target, device, local
<1>3. ASSUME NEW t \in Threads, Step(t)
      PROVE  Vouched'
  <2>1. CASE CaptureGeneration(t)
    BY <2>1 DEF CaptureGeneration, Goto, session, target, device, local
  <2>2. CASE CaptureTarget(t)
    BY <2>2 DEF CaptureTarget, Goto, Free, session, target, device, local
  <2>3. CASE Validate(t)
    BY <2>3 DEF Validate, Keep, Return, Goto, Set, session, target, device, local
  <2>4. CASE ValidateTarget(t)
    BY <2>4 DEF ValidateTarget, Keep, Return, Goto, Set, Free, session, target, device, local
  <2>5. CASE AcquireRequest(t)
    BY <2>5 DEF AcquireRequest, Goto, Set, session, target, device, local
  <2>6. CASE LockTransaction(t)
    BY <2>6 DEF LockTransaction, Lock, Goto, Free, Port, session, target, device, local
  <2>7. CASE LockTimeout(t)
    BY <2>7 DEF LockTimeout, Goto, Free, Port, session, target, device, local
  <2>8. CASE MatchRevision(t)
    BY <2>8 DEF MatchRevision, Goto, Fail, session, target, device, local
  <2>9. CASE MatchPid(t)
    BY <2>9 DEF MatchPid, Goto, Fail, session, target, device, local
  <2>10. CASE MatchHandle(t)
    BY <2>10 DEF MatchHandle, Goto, Fail, session, target, device, local
  <2>11. CASE MatchAgain(t)
    BY <2>11 DEF MatchAgain, Goto, Fail, Rounds, session, target, device, local
  <2>12. CASE EnsureOpenHandle(t)
    BY <2>12 DEF EnsureOpenHandle, Goto, Fail, Set, session, target, device, local
  <2>13. CASE Exchange(t)
    <3>1. UNCHANGED <<op, ctx, revision>> /\ \A u \in Threads : u # t => effect'[u] = effect[u] /\ io'[u] = io[u]
      BY <2>13 DEF Exchange, Set, target
    <3>2. \/ effect'[t] = effect[t] /\ io'[t] = io[t]
          \/ io'[t] # "ok"
          \/ IsCurrent(t) /\ effect'[t] = Touched(t)
      BY <2>13 DEF Exchange, Set
    <3>3. op[t] \in Data /\ io'[t] = "ok" /\ ctx[t].tgt.revision = revision => effect'[t] = ctx[t].tgt.pid
      BY <2>13, <3>2, TouchedStep
    <3>. QED
      BY <3>1, <3>3
  <2>14. CASE HeldValidate(t)
    BY <2>14 DEF HeldValidate, Keep, Return, Goto, Set, session, target, device, local
  <2>15. CASE HeldTarget(t)
    BY <2>15 DEF HeldTarget, Return, Goto, Set, Free, session, target, device, local
  <2>16. CASE DropTransaction(t)
    BY <2>16 DEF DropTransaction, Goto, Set, Port, session, target, device, local
  <2>17. CASE Post(t)
    BY <2>17 DEF Post, Keep, Return, Goto, Set, session, target, device, local
  <2>18. CASE PostTarget(t)
    BY <2>18 DEF PostTarget, Keep, Return, Goto, Set, Free, session, target, device, local
  <2>19. CASE Final(t)
    BY <2>19 DEF Final, Return, Goto, Set, Free, session, target, device, local
  <2>20. CASE LockProcess(t)
    BY <2>20 DEF LockProcess, Lock, Goto, Free, session, target, device, local
  <2>21. CASE BeginTargetMutation(t)
    BY <2>21 DEF BeginTargetMutation, Goto, Set, Free, session, target, device, local
  <2>22. CASE CloseOld(t)
    BY <2>22 DEF CloseOld, Goto, Poison, Attached, session, target, device, local
  <2>23. CASE OpenNew(t)
    BY <2>23 DEF OpenNew, Goto, Set, Poison, OpenHandle, session, target, device, local
  <2>24. CASE PublishPid(t)
    BY <2>24 DEF PublishPid, Goto, Set, session, target, device, local
  <2>25. CASE PublishHandle(t)
    BY <2>25 DEF PublishHandle, Goto, session, target, device, local
  <2>26. CASE UnlockTransaction(t)
    BY <2>26 DEF UnlockTransaction, Goto, session, target, device, local
  <2>27. CASE FinishMutation(t)
    BY <2>27 DEF FinishMutation, Goto, Set, session, target, device, local
  <2>28. CASE LockConnection(t)
    BY <2>28 DEF LockConnection, Lock, Goto, Free, session, target, device, local
  <2>29. CASE Recheck(t)
    BY <2>29 DEF Recheck, Keep, Return, Goto, Set, session, target, device, local
  <2>30. CASE AcquireLifecycle(t)
    BY <2>30 DEF AcquireLifecycle, Goto, session, target, device, local
  <2>31. CASE ReplaceSession(t)
    BY <2>31 DEF ReplaceSession, Goto, session, target, device, local
  <2>32. CASE ClearTarget(t)
    BY <2>32 DEF ClearTarget, Goto, Free, session, target, device, local
  <2>33. CASE FinishConnect(t)
    BY <2>33 DEF FinishConnect, Goto, session, target, device, local
  <2>34. CASE LeaveLifecycle(t)
    BY <2>34 DEF LeaveLifecycle, Return, Goto, Set, session, target, device, local
  <2>35. QED
    BY <1>3, <2>1, <2>2, <2>3, <2>4, <2>5, <2>6, <2>7, <2>8, <2>9, <2>10, <2>11, <2>12, <2>13,
       <2>14, <2>15, <2>16, <2>17, <2>18, <2>19, <2>20, <2>21, <2>22, <2>23, <2>24, <2>25, <2>26,
       <2>27, <2>28, <2>29, <2>30, <2>31, <2>32, <2>33, <2>34
    DEF Step
<1>4. QED
  BY <1>1, <1>2, <1>3 DEF Next


\* An accepted result is of the context's process.
LEMMA AcceptedStep ==
  ASSUME TypeOK, Where, Vouched, AcceptedFromTarget, [Next]_vars
  PROVE  AcceptedFromTarget'
PROOF
<1>. USE ThreadAssumption, TargetAssumption DEF TypeOK, AcceptedFromTarget, Where, OpenPath,
   Mutating, DataPath, LifecyclePath, InTransaction, Matching, Data, Lifecycles, Ops
<1>1. CASE UNCHANGED vars
  BY <1>1 DEF vars, session, target, device, local
<1>2. ASSUME NEW t \in Threads, NEW o \in Ops, NEW p \in Pids, Begin(t, o, p)
      PROVE  AcceptedFromTarget'
  BY <1>2, RoleAssumption, BoundAssumption DEF Begin, Goto, Set, session, target, device, local
<1>3. ASSUME NEW t \in Threads, Step(t)
      PROVE  AcceptedFromTarget'
  <2>1. CASE CaptureGeneration(t)
    BY <2>1 DEF CaptureGeneration, Goto, session, target, device, local
  <2>2. CASE CaptureTarget(t)
    BY <2>2 DEF CaptureTarget, Goto, Free, session, target, device, local
  <2>3. CASE Validate(t)
    BY <2>3 DEF Validate, Keep, Return, Goto, Set, session, target, device, local
  <2>4. CASE ValidateTarget(t)
    BY <2>4 DEF ValidateTarget, Keep, Return, Goto, Set, Free, session, target, device, local
  <2>5. CASE AcquireRequest(t)
    BY <2>5 DEF AcquireRequest, Goto, Set, session, target, device, local
  <2>6. CASE LockTransaction(t)
    BY <2>6 DEF LockTransaction, Lock, Goto, Free, Port, session, target, device, local
  <2>7. CASE LockTimeout(t)
    BY <2>7 DEF LockTimeout, Goto, Free, Port, session, target, device, local
  <2>8. CASE MatchRevision(t)
    BY <2>8 DEF MatchRevision, Goto, Fail, session, target, device, local
  <2>9. CASE MatchPid(t)
    BY <2>9 DEF MatchPid, Goto, Fail, session, target, device, local
  <2>10. CASE MatchHandle(t)
    BY <2>10 DEF MatchHandle, Goto, Fail, session, target, device, local
  <2>11. CASE MatchAgain(t)
    BY <2>11 DEF MatchAgain, Goto, Fail, Rounds, session, target, device, local
  <2>12. CASE EnsureOpenHandle(t)
    BY <2>12 DEF EnsureOpenHandle, Goto, Fail, Set, session, target, device, local
  <2>13. CASE Exchange(t)
    BY <2>13 DEF Exchange, Goto, Fail, Set, Poison, session, target, device, local
  <2>14. CASE HeldValidate(t)
    BY <2>14 DEF HeldValidate, Keep, Return, Goto, Set, session, target, device, local
  <2>15. CASE HeldTarget(t)
    BY <2>15 DEF HeldTarget, Return, Goto, Set, Free, session, target, device, local
  <2>16. CASE DropTransaction(t)
    BY <2>16 DEF DropTransaction, Goto, Set, Port, session, target, device, local
  <2>17. CASE Post(t)
    BY <2>17 DEF Post, Keep, Return, Goto, Set, session, target, device, local, Rejected,
       Immediate, Incomplete
  <2>18. CASE PostTarget(t)
    <3>1. UNCHANGED <<op, ctx, effect>> /\ \A u \in Threads : u # t => result'[u] = result[u]
      BY <2>18 DEF PostTarget, Keep, Return, Goto, Set
    <3>2. op[t] \in Data => result'[t] = IF TargetUnchanged(t) THEN Accepted(t) ELSE Rejected(t)
      BY <2>18 DEF PostTarget, Keep, Return, Goto, Set
    <3>3. op[t] \in Data /\ result'[t] = "ok" => effect[t] = ctx[t].tgt.pid
      BY <3>2 DEF Accepted, Rejected, TargetUnchanged, Vouched
    <3>. QED
      BY <3>1, <3>3
  <2>19. CASE Final(t)
    BY <2>19 DEF Final, Return, Goto, Set, Free, session, target, device, local
  <2>20. CASE LockProcess(t)
    BY <2>20 DEF LockProcess, Lock, Goto, Free, session, target, device, local
  <2>21. CASE BeginTargetMutation(t)
    BY <2>21 DEF BeginTargetMutation, Goto, Set, Free, session, target, device, local
  <2>22. CASE CloseOld(t)
    BY <2>22 DEF CloseOld, Goto, Poison, Attached, session, target, device, local
  <2>23. CASE OpenNew(t)
    BY <2>23 DEF OpenNew, Goto, Set, Poison, OpenHandle, session, target, device, local
  <2>24. CASE PublishPid(t)
    BY <2>24 DEF PublishPid, Goto, Set, session, target, device, local
  <2>25. CASE PublishHandle(t)
    BY <2>25 DEF PublishHandle, Goto, session, target, device, local
  <2>26. CASE UnlockTransaction(t)
    BY <2>26 DEF UnlockTransaction, Goto, session, target, device, local
  <2>27. CASE FinishMutation(t)
    BY <2>27 DEF FinishMutation, Goto, Set, session, target, device, local
  <2>28. CASE LockConnection(t)
    BY <2>28 DEF LockConnection, Lock, Goto, Free, session, target, device, local
  <2>29. CASE Recheck(t)
    BY <2>29 DEF Recheck, Keep, Return, Goto, Set, session, target, device, local
  <2>30. CASE AcquireLifecycle(t)
    BY <2>30 DEF AcquireLifecycle, Goto, session, target, device, local
  <2>31. CASE ReplaceSession(t)
    BY <2>31 DEF ReplaceSession, Goto, session, target, device, local
  <2>32. CASE ClearTarget(t)
    BY <2>32 DEF ClearTarget, Goto, Free, session, target, device, local
  <2>33. CASE FinishConnect(t)
    BY <2>33 DEF FinishConnect, Goto, session, target, device, local
  <2>34. CASE LeaveLifecycle(t)
    BY <2>34 DEF LeaveLifecycle, Return, Goto, Set, session, target, device, local
  <2>35. QED
    BY <1>3, <2>1, <2>2, <2>3, <2>4, <2>5, <2>6, <2>7, <2>8, <2>9, <2>10, <2>11, <2>12, <2>13,
       <2>14, <2>15, <2>16, <2>17, <2>18, <2>19, <2>20, <2>21, <2>22, <2>23, <2>24, <2>25, <2>26,
       <2>27, <2>28, <2>29, <2>30, <2>31, <2>32, <2>33, <2>34
    DEF Step
<1>4. QED
  BY <1>1, <1>2, <1>3 DEF Next


-----------------------------------------------------------------------------
\* The invariant holds in a fresh session and in one with a process selected.
LEMMA InitInv == Init => TargetInv
PROOF
<1>. SUFFICES ASSUME Init PROVE TargetInv
  OBVIOUS
<1>. USE ThreadAssumption, TargetAssumption
<1>1. [gen |-> 0, tgt |-> NoTarget] \in OperationContexts
  BY DEF OperationContexts, Snapshots, NoTarget
<1>2. TypeOK
  <2>1. /\ state \in {"Disconnected", "Connecting", "Connected", "Poisoned"} /\ generation \in Nat
        /\ pid \in Pids \cup {NoPid} /\ handle \in Handles \cup {NoHandle} /\ revision \in Nat
        /\ ioPid \in Pids \cup {NoPid}
    BY DEF Init
  <2>2. table \in [Handles -> Pids \cup {NoPid}]
    BY DEF Init
  <2>3. ctx \in [Threads -> OperationContexts]
    BY <1>1 DEF Init
  <2>4. begun \in [Threads -> Nat] /\ \A t \in Threads : begun[t] <= MaxOps[t]
    BY BoundAssumption DEF Init
  <2>5. /\ writer \in Threads \cup {NoThread} /\ lease \in [Threads -> Nat]
        /\ holder \in [Mutexes -> Threads \cup {NoThread}]
        /\ pc \in [Threads -> Locations] /\ op \in [Threads -> Ops \cup {"none"}]
    BY DEF Init, Locations
  <2>6. /\ want \in [Threads -> Pids \cup {NoPid}] /\ round \in [Threads -> 0..2]
        /\ sent \in [Threads -> Handles \cup {NoHandle}] /\ seen \in [Threads -> Nat]
    BY DEF Init
  <2>7. /\ io \in [Threads -> {"none", "ok", "refused", "lost", "short", "absurd"}]
        /\ effect \in [Threads -> Pids \cup {NoPid}]
        /\ result \in [Threads -> {"none", "ok", "error", "unknown", "partial", "invalid"}]
    BY DEF Init
  <2>. QED
    BY <2>1, <2>2, <2>3, <2>4, <2>5, <2>6, <2>7 DEF TypeOK
<1>3. \A t \in Threads : /\ pc[t] = "idle" /\ op[t] = "none" /\ round[t] = 0 /\ lease[t] = 0
                         /\ result[t] = "none" /\ io[t] = "none" /\ ctx[t].tgt = NoTarget
  BY DEF Init
<1>4. Where
  BY <1>3 DEF Where, Matching
<1>5. Locked
  <2>1. \A t \in Threads : pc[t] \notin Exclusive /\ pc[t] \notin Leased /\ ~Mutates(t)
                           /\ pc[t] \notin InTransaction
    BY <1>3 DEF Exclusive, Leased, Mutates, Mutating, InTransaction, Matching
  <2>2. writer = NoThread /\ holder["state"] = NoThread /\ (state = "Connected" => generation # 0)
    BY DEF Init, Mutexes
  <2>3. revision % 2 = 0
    BY DEF Init
  <2>. QED
    BY <1>3, <2>1, <2>2, <2>3 DEF Locked, Stable
<1>6. Contexts
  <2>1. revision \in Nat /\ (revision = 0 => pid = NoPid /\ handle = NoHandle)
    BY DEF Init
  <2>2. \A t \in Threads : Snapped(ctx[t].tgt)
    <3>1. Snapped(NoTarget)
      <4>1. 0 % 2 = 0 /\ 0 <= revision
        BY <2>1
      <4>. QED
        BY <2>1, <4>1 DEF Snapped, NoTarget
    <3>. QED
      BY <1>3, <3>1
  <2>. QED
    BY <1>3, <2>1, <2>2 DEF Contexts, AttachedPast
<1>7. Published
  <2>1. PublishedTargetIsOpen
    BY DEF Init, PublishedTargetIsOpen
  <2>2. ClearedForGood /\ Unsent /\ Midway
    BY <1>3 DEF ClearedForGood, Unsent, Midway, Mutates
  <2>. QED
    BY <2>1, <2>2 DEF Published
<1>8. Matched /\ Effects
  BY <1>3 DEF Matched, SentMatches, IoMatches, Effects, MainTouchesOnlyTarget,
     AcceptedFromTarget, Vouched,
     Data, Main
<1>. QED
  BY <1>2, <1>4, <1>5, <1>6, <1>7, <1>8 DEF TargetInv

\* Every step of every thread keeps the invariant.
LEMMA StepInv == TargetInv /\ [Next]_vars => TargetInv'
PROOF
<1>. SUFFICES ASSUME TargetInv, [Next]_vars PROVE TargetInv'
  OBVIOUS
<1>1. TypeOK /\ Where /\ Locked /\ Contexts /\ Published /\ Matched /\ Effects
  BY DEF TargetInv
<1>2. TypeOK' /\ Where'
  BY <1>1, TypeStep, WhereStep
<1>3. Locked' /\ TargetMoves /\ ContextMoves
  BY <1>1, LockedStep, TargetMovesStep, ContextMovesStep
<1>4. Contexts'
  <2>1. AttachedPast'
    BY <1>1, AttachedStep DEF Contexts
  <2>2. /\ \A t \in Threads : Snapped(ctx[t].tgt)'
        /\ (revision = 0 => pid = NoPid /\ handle = NoHandle)'
    BY <1>1, <1>2, <1>3, SnappedStep
  <2>. QED
    BY <2>1, <2>2 DEF Contexts
<1>5. Published'
  BY <1>1, PublishedStep, ClearedStep, UnsentStep, MidwayStep DEF Published
<1>6. Matched'
  BY <1>1, <1>2, <1>3, SentStep, IoStep DEF Matched
<1>7. Effects'
  BY <1>1, <1>2, <1>3, TouchesStep, AcceptedStep, VouchedStep DEF Effects
<1>. QED
  BY <1>2, <1>3, <1>4, <1>5, <1>6, <1>7 DEF TargetInv

\* TargetInv is an inductive invariant of the specification: it holds whatever
\* the threads, processes, handles and bounds are.
THEOREM TargetInvariance == Spec => []TargetInv
  BY InitInv, StepInv, PTL DEF Spec

\* Every variable stays in its domain.
THEOREM TargetTypeCorrect == Spec => []TypeOK
PROOF
<1>1. TargetInv => TypeOK
  BY DEF TargetInv
<1>. QED
  BY <1>1, TargetInvariance, PTL

\* A read, a write or a module list never touches a process other than the one
\* its context names, not even when the result is thrown away: contextMatches
\* and the transaction mutex keep openProcess out until the command is sent.
THEOREM MainConfined == Spec => []MainTouchesOnlyTarget
PROOF
<1>1. TargetInv => MainTouchesOnlyTarget
  BY DEF TargetInv, Effects
<1>. QED
  BY <1>1, TargetInvariance, PTL

\* A result that validateContext accepts is of the process of the context,
\* however the session and the target changed while the operation ran.
THEOREM AcceptedIsOfTarget == Spec => []AcceptedFromTarget
PROOF
<1>1. TargetInv => AcceptedFromTarget
  BY DEF TargetInv, Effects
<1>. QED
  BY <1>1, TargetInvariance, PTL

\* The target that openProcess publishes is open on the server, through every
\* failure between closing the old one and publishing the new one.
THEOREM PublishedIsOpen == Spec => []PublishedTargetIsOpen
PROOF
<1>1. TargetInv => PublishedTargetIsOpen
  BY DEF TargetInv, Published
<1>. QED
  BY <1>1, TargetInvariance, PTL

-----------------------------------------------------------------------------
(* Writes.                                                                  *)

\* What a write knows of its exchange tells whether it reached memory.
WriteKnown ==
    \A t \in Threads : op[t] = "write" =>
        /\ io[t] # "refused" /\ pc[t] \notin {"heldValidate", "heldTarget"}
        /\ io[t] = "none" => effect[t] = NoPid
        /\ pc[t] \in DataPath \ {"drop", "post", "postTarget"} => io[t] = "none"
        /\ pc[t] = "postTarget" => io[t] \in {"none", "ok"}


\* A write that may have reached memory is known to.
LEMMA WriteKnownStep ==
  ASSUME TypeOK, Where, WriteKnown, [Next]_vars
  PROVE  WriteKnown'
PROOF
<1>. USE ThreadAssumption, TargetAssumption DEF TypeOK, WriteKnown, Where, OpenPath, Mutating,
   DataPath, LifecyclePath, InTransaction, Matching, Data, Lifecycles, Ops
<1>1. CASE UNCHANGED vars
  BY <1>1 DEF vars, session, target, device, local
<1>2. ASSUME NEW t \in Threads, NEW o \in Ops, NEW p \in Pids, Begin(t, o, p)
      PROVE  WriteKnown'
  BY <1>2, RoleAssumption, BoundAssumption DEF Begin, Goto, Set, session, target, device, local
<1>3. ASSUME NEW t \in Threads, Step(t)
      PROVE  WriteKnown'
  <2>1. CASE CaptureGeneration(t)
    BY <2>1 DEF CaptureGeneration, Goto, session, target, device, local
  <2>2. CASE CaptureTarget(t)
    BY <2>2 DEF CaptureTarget, Goto, Free, session, target, device, local
  <2>3. CASE Validate(t)
    BY <2>3 DEF Validate, Keep, Return, Goto, Set, session, target, device, local
  <2>4. CASE ValidateTarget(t)
    BY <2>4 DEF ValidateTarget, Keep, Return, Goto, Set, Free, session, target, device, local
  <2>5. CASE AcquireRequest(t)
    BY <2>5 DEF AcquireRequest, Goto, Set, session, target, device, local
  <2>6. CASE LockTransaction(t)
    BY <2>6 DEF LockTransaction, Lock, Goto, Free, Port, session, target, device, local
  <2>7. CASE LockTimeout(t)
    BY <2>7 DEF LockTimeout, Goto, Free, Port, session, target, device, local
  <2>8. CASE MatchRevision(t)
    BY <2>8 DEF MatchRevision, Goto, Fail, session, target, device, local
  <2>9. CASE MatchPid(t)
    BY <2>9 DEF MatchPid, Goto, Fail, session, target, device, local
  <2>10. CASE MatchHandle(t)
    BY <2>10 DEF MatchHandle, Goto, Fail, session, target, device, local
  <2>11. CASE MatchAgain(t)
    BY <2>11 DEF MatchAgain, Goto, Fail, Rounds, session, target, device, local
  <2>12. CASE EnsureOpenHandle(t)
    BY <2>12 DEF EnsureOpenHandle, Goto, Fail, Set, session, target, device, local
  <2>13. CASE Exchange(t)
    BY <2>13 DEF Exchange, Goto, Fail, Set, Poison, session, target, device, local
  <2>14. CASE HeldValidate(t)
    BY <2>14 DEF HeldValidate, Keep, Return, Goto, Set, session, target, device, local
  <2>15. CASE HeldTarget(t)
    BY <2>15 DEF HeldTarget, Return, Goto, Set, Free, session, target, device, local
  <2>16. CASE DropTransaction(t)
    BY <2>16 DEF DropTransaction, Goto, Set, Port, session, target, device, local
  <2>17. CASE Post(t)
    BY <2>17 DEF Post, Keep, Return, Goto, Set, session, target, device, local, Immediate
  <2>18. CASE PostTarget(t)
    BY <2>18 DEF PostTarget, Keep, Return, Goto, Set, Free, session, target, device, local
  <2>19. CASE Final(t)
    BY <2>19 DEF Final, Return, Goto, Set, Free, session, target, device, local
  <2>20. CASE LockProcess(t)
    BY <2>20 DEF LockProcess, Lock, Goto, Free, session, target, device, local
  <2>21. CASE BeginTargetMutation(t)
    BY <2>21 DEF BeginTargetMutation, Goto, Set, Free, session, target, device, local
  <2>22. CASE CloseOld(t)
    BY <2>22 DEF CloseOld, Goto, Poison, Attached, session, target, device, local
  <2>23. CASE OpenNew(t)
    BY <2>23 DEF OpenNew, Goto, Set, Poison, OpenHandle, session, target, device, local
  <2>24. CASE PublishPid(t)
    BY <2>24 DEF PublishPid, Goto, Set, session, target, device, local
  <2>25. CASE PublishHandle(t)
    BY <2>25 DEF PublishHandle, Goto, session, target, device, local
  <2>26. CASE UnlockTransaction(t)
    BY <2>26 DEF UnlockTransaction, Goto, session, target, device, local
  <2>27. CASE FinishMutation(t)
    BY <2>27 DEF FinishMutation, Goto, Set, session, target, device, local
  <2>28. CASE LockConnection(t)
    BY <2>28 DEF LockConnection, Lock, Goto, Free, session, target, device, local
  <2>29. CASE Recheck(t)
    BY <2>29 DEF Recheck, Keep, Return, Goto, Set, session, target, device, local
  <2>30. CASE AcquireLifecycle(t)
    BY <2>30 DEF AcquireLifecycle, Goto, session, target, device, local
  <2>31. CASE ReplaceSession(t)
    BY <2>31 DEF ReplaceSession, Goto, session, target, device, local
  <2>32. CASE ClearTarget(t)
    BY <2>32 DEF ClearTarget, Goto, Free, session, target, device, local
  <2>33. CASE FinishConnect(t)
    BY <2>33 DEF FinishConnect, Goto, session, target, device, local
  <2>34. CASE LeaveLifecycle(t)
    BY <2>34 DEF LeaveLifecycle, Return, Goto, Set, session, target, device, local
  <2>35. QED
    BY <1>3, <2>1, <2>2, <2>3, <2>4, <2>5, <2>6, <2>7, <2>8, <2>9, <2>10, <2>11, <2>12, <2>13,
       <2>14, <2>15, <2>16, <2>17, <2>18, <2>19, <2>20, <2>21, <2>22, <2>23, <2>24, <2>25, <2>26,
       <2>27, <2>28, <2>29, <2>30, <2>31, <2>32, <2>33, <2>34
    DEF Step
<1>4. QED
  BY <1>1, <1>2, <1>3 DEF Next


\* A write that is reported as an error never reached memory.
LEMMA HonestStep ==
  ASSUME TypeOK, Where, AttachedPast, Vouched, WriteKnown, WriteOutcomeHonest, [Next]_vars
  PROVE  WriteOutcomeHonest'
PROOF
<1>. USE ThreadAssumption, TargetAssumption DEF TypeOK, WriteKnown, WriteOutcomeHonest, Where,
   OpenPath, Mutating, DataPath, LifecyclePath, InTransaction, Matching, Data, Lifecycles, Ops
<1>1. CASE UNCHANGED vars
  BY <1>1 DEF vars, session, target, device, local
<1>2. ASSUME NEW t \in Threads, NEW o \in Ops, NEW p \in Pids, Begin(t, o, p)
      PROVE  WriteOutcomeHonest'
  BY <1>2, RoleAssumption, BoundAssumption DEF Begin, Goto, Set, session, target, device, local
<1>3. ASSUME NEW t \in Threads, Step(t)
      PROVE  WriteOutcomeHonest'
  <2>1. CASE CaptureGeneration(t)
    BY <2>1 DEF CaptureGeneration, Goto, session, target, device, local
  <2>2. CASE CaptureTarget(t)
    BY <2>2 DEF CaptureTarget, Goto, Free, session, target, device, local
  <2>3. CASE Validate(t)
    BY <2>3 DEF Validate, Keep, Return, Goto, Set, session, target, device, local
  <2>4. CASE ValidateTarget(t)
    BY <2>4 DEF ValidateTarget, Keep, Return, Goto, Set, Free, session, target, device, local
  <2>5. CASE AcquireRequest(t)
    BY <2>5 DEF AcquireRequest, Goto, Set, session, target, device, local
  <2>6. CASE LockTransaction(t)
    BY <2>6 DEF LockTransaction, Lock, Goto, Free, Port, session, target, device, local
  <2>7. CASE LockTimeout(t)
    BY <2>7 DEF LockTimeout, Goto, Free, Port, session, target, device, local
  <2>8. CASE MatchRevision(t)
    BY <2>8 DEF MatchRevision, Goto, Fail, session, target, device, local
  <2>9. CASE MatchPid(t)
    BY <2>9 DEF MatchPid, Goto, Fail, session, target, device, local
  <2>10. CASE MatchHandle(t)
    BY <2>10 DEF MatchHandle, Goto, Fail, session, target, device, local
  <2>11. CASE MatchAgain(t)
    BY <2>11 DEF MatchAgain, Goto, Fail, Rounds, session, target, device, local
  <2>12. CASE EnsureOpenHandle(t)
    BY <2>12 DEF EnsureOpenHandle, Goto, Fail, Set, session, target, device, local
  <2>13. CASE Exchange(t)
    BY <2>13 DEF Exchange, Goto, Fail, Set, Poison, session, target, device, local
  <2>14. CASE HeldValidate(t)
    BY <2>14 DEF HeldValidate, Keep, Return, Goto, Set, session, target, device, local
  <2>15. CASE HeldTarget(t)
    BY <2>15 DEF HeldTarget, Return, Goto, Set, Free, session, target, device, local
  <2>16. CASE DropTransaction(t)
    BY <2>16 DEF DropTransaction, Goto, Set, Port, session, target, device, local
  <2>17. CASE Post(t)
    BY <2>17 DEF Post, Keep, Return, Goto, Set, session, target, device, local, Immediate,
       Incomplete, Rejected
  <2>18. CASE PostTarget(t)
    <3>1. UNCHANGED <<op, ctx, effect>> /\ \A u \in Threads : u # t => result'[u] = result[u]
      BY <2>18 DEF PostTarget, Keep, Return, Goto, Set
    <3>2. op[t] = "write" =>
            /\ result'[t] = IF TargetUnchanged(t) THEN Accepted(t) ELSE Rejected(t)
            /\ io[t] \in {"none", "ok"} /\ ctx[t].tgt.pid # NoPid
      BY <2>18 DEF PostTarget, Keep, Return, Goto, Set, AttachedPast, Attached
    <3>3. op[t] = "write" /\ result'[t] = "ok" => effect[t] # NoPid
      BY <3>2 DEF Accepted, Rejected, TargetUnchanged, Vouched
    <3>4. op[t] = "write" /\ result'[t] = "error" => effect[t] = NoPid
      BY <3>2 DEF Accepted, Rejected
    <3>. QED
      BY <3>1, <3>3, <3>4
  <2>19. CASE Final(t)
    BY <2>19 DEF Final, Return, Goto, Set, Free, session, target, device, local
  <2>20. CASE LockProcess(t)
    BY <2>20 DEF LockProcess, Lock, Goto, Free, session, target, device, local
  <2>21. CASE BeginTargetMutation(t)
    BY <2>21 DEF BeginTargetMutation, Goto, Set, Free, session, target, device, local
  <2>22. CASE CloseOld(t)
    BY <2>22 DEF CloseOld, Goto, Poison, Attached, session, target, device, local
  <2>23. CASE OpenNew(t)
    BY <2>23 DEF OpenNew, Goto, Set, Poison, OpenHandle, session, target, device, local
  <2>24. CASE PublishPid(t)
    BY <2>24 DEF PublishPid, Goto, Set, session, target, device, local
  <2>25. CASE PublishHandle(t)
    BY <2>25 DEF PublishHandle, Goto, session, target, device, local
  <2>26. CASE UnlockTransaction(t)
    BY <2>26 DEF UnlockTransaction, Goto, session, target, device, local
  <2>27. CASE FinishMutation(t)
    BY <2>27 DEF FinishMutation, Goto, Set, session, target, device, local
  <2>28. CASE LockConnection(t)
    BY <2>28 DEF LockConnection, Lock, Goto, Free, session, target, device, local
  <2>29. CASE Recheck(t)
    BY <2>29 DEF Recheck, Keep, Return, Goto, Set, session, target, device, local
  <2>30. CASE AcquireLifecycle(t)
    BY <2>30 DEF AcquireLifecycle, Goto, session, target, device, local
  <2>31. CASE ReplaceSession(t)
    BY <2>31 DEF ReplaceSession, Goto, session, target, device, local
  <2>32. CASE ClearTarget(t)
    BY <2>32 DEF ClearTarget, Goto, Free, session, target, device, local
  <2>33. CASE FinishConnect(t)
    BY <2>33 DEF FinishConnect, Goto, session, target, device, local
  <2>34. CASE LeaveLifecycle(t)
    BY <2>34 DEF LeaveLifecycle, Return, Goto, Set, session, target, device, local
  <2>35. QED
    BY <1>3, <2>1, <2>2, <2>3, <2>4, <2>5, <2>6, <2>7, <2>8, <2>9, <2>10, <2>11, <2>12, <2>13,
       <2>14, <2>15, <2>16, <2>17, <2>18, <2>19, <2>20, <2>21, <2>22, <2>23, <2>24, <2>25, <2>26,
       <2>27, <2>28, <2>29, <2>30, <2>31, <2>32, <2>33, <2>34
    DEF Step
<1>4. QED
  BY <1>1, <1>2, <1>3 DEF Next


\* A write reported as a plain error, which callers may retry, never reached
\* memory, and one reported as done did, whatever was cancelled, lost, poisoned
\* or switched while it ran.
THEOREM WriteReportsHonest == Spec => []WriteOutcomeHonest
PROOF
<1>1. Init => WriteKnown /\ WriteOutcomeHonest
  BY DEF Init, WriteKnown, WriteOutcomeHonest
<1>2. TargetInv /\ WriteKnown /\ WriteOutcomeHonest /\ [Next]_vars => WriteKnown' /\ WriteOutcomeHonest'
  BY WriteKnownStep, HonestStep DEF TargetInv, Contexts, Effects
<1>. QED
  BY <1>1, <1>2, TargetInvariance, PTL DEF Spec

=============================================================================
