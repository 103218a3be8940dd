-------------------------- MODULE ServiceOpsProofs --------------------------
(***************************************************************************)
(* What every operation of MemService promises against every other one,    *)
(* for any number of callers, calls and connections: a caller that is told *)
(* to retry repeats nothing that happened, no effect on MAIN reaches        *)
(* another process than the context's, no poll is ever rejected as          *)
(* inconsistent, the symbols of a call are of one module, and an armed      *)
(* breakpoint is one the client knows of.  The argument has two halves:     *)
(* what holds of the 27 programs (Sound), and what the steps make of any    *)
(* sound program.                                                           *)
(***************************************************************************)
EXTENDS ServiceOps, TLAPS

-----------------------------------------------------------------------------
(* The programs.                                                            *)

\* What may still come after an effect that counts: none of these steps can
\* answer "retry", or fail.
After == {"drop", "inspect", "confirm", "forget"}

Failing == {"guard", "begin", "ask", "effect", "mutate", "switch"}

Confirmed == {"writeMemory", "setBreakpoint", "removeBreakpoint", "installUxnBreakpoint",
              "removeUxnBreakpoint", "resumeUxnBreakpoint"}

Acts(p, i) == p[i].do = "effect" /\ Counts(p[i].what)

Sound(p) ==
    /\ Len(p) \in Nat /\ Len(p) > 1 /\ DOMAIN p = 1..Len(p) /\ p[1].do = "check"
    /\ p[Len(p)].do \notin {"lock", "begin", "drop", "effect", "mutate", "switch"}
    /\ \A i \in 1..Len(p) : p[i].do = "effect" /\ OnTarget(p[i].what) =>
          i > 1 /\ p[i - 1].do = "begin" /\ p[i - 1].port = "main" /\ p[i - 1].scope = "tgt"
    /\ \A i \in 1..Len(p) : Acts(p, i) => \A j \in i + 1 .. Len(p) : p[j].do \in After
    /\ \A i \in 1..Len(p) : p[i].do = "switch" => i > 1 /\ p[i - 1].do = "mutate"
    /\ \A i \in 1..Len(p) : p[i].do = "mutate" => p[i + 1].do = "switch"
    /\ \A i \in 1..Len(p) : p[i].do \in {"mutate", "switch"} => p[i].fail = "recheckError"
    /\ \A i \in 1..Len(p) : p[i].do = "lock" => p[i].mutex \notin {"main", "debug", "state"}
    /\ \A i \in 1..Len(p) : p[i].do = "begin" => p[i].port \in Ports
    /\ \A i \in 1..Len(p) : p[i].do \in Failing /\ p[i].fail = "skip" =>
          /\ \E j \in 1..Len(p) : p[j].do = "lock"
          /\ \A j \in 1..Len(p) :
                /\ p[j].do # "sync" /\ ~Acts(p, j)
                /\ p[j].do = "lock" => p[j].mutex # "breakpoint"

-----------------------------------------------------------------------------
(* Callers.                                                                 *)

Records == [op : Operations \cup {"none"}, pos : Nat, failed : BOOLEAN, gen : Nat, rev : Nat,
            att : BOOLEAN, mod : Modules \cup {NoModule}, lease : Nat,
            saw : SUBSET [mod : Modules \cup {NoModule}, of : Nat], hits : Nat, total : Nat,
            applied : BOOLEAN, touched : SUBSET Nat,
            result : {"none", "ok", "error", "retry", "unknown", "partial", "inconsistent"}]

Typed ==
    /\ gen \in Nat /\ up \in BOOLEAN /\ rev \in Nat /\ attached \in BOOLEAN /\ dev \in Nat
    /\ holder \in [Mutexes -> Threads \cup {NoThread}]
    /\ th \in [Threads -> Records]
    /\ counter \in [rev : Nat, total : Nat]
    /\ bp \in [armed : BOOLEAN, total : Nat, pending : Nat, by : Nat]
    /\ symtab \in [mod : Modules \cup {NoModule}, of : Nat]
    /\ scene \in Scenes

\* A caller is within its program until it has a result.
Placed ==
    \A t \in Threads :
        /\ Running(t) => /\ th[t].op \in Operations /\ th[t].pos <= Len(Steps(t))
                         /\ th[t].result = "none"
        /\ ~Running(t) => th[t].lease = 0 /\ ~th[t].failed

-----------------------------------------------------------------------------
(* Effects.                                                                 *)

Owned ==
    \A t \in Threads : holder["state"] = t <=> At(t, "switch")

\* Contexts are of the present or the past; a target that has changed since
\* has another revision, and so has a session that was replaced.
Contexts ==
    /\ \A t \in Threads : th[t].rev <= rev /\ th[t].gen <= gen
    /\ \A t \in Threads : Running(t) /\ th[t].rev = rev => th[t].att = attached /\ Free("state")
    /\ \A t \in Threads : Running(t) /\ th[t].gen # gen => ~up \/ th[t].rev # rev

\* A stable target of a live session is what is open on the server.
Opened == up /\ attached /\ Free("state") => dev = rev

\* An effect on the target is asked for with the MAIN port in hand, on the
\* process that was matched when the port was taken.
Aimed ==
    \A t \in Threads : At(t, "effect") /\ OnTarget(Here(t).what) =>
        /\ th[t].lease # 0 /\ holder["main"] = t
        /\ up /\ th[t].lease = gen => dev = th[t].rev

-----------------------------------------------------------------------------
(* Outcomes.                                                                *)

Settled(o, i) == \A j \in i .. Len(Program[o]) : Program[o][j].do \in After
Passed(o, i)  == \E j \in 1 .. i - 1 : Acts(Program[o], j)

Outcomes ==
    \A t \in Threads : Running(t) =>
        /\ th[t].applied => ~th[t].failed /\ Settled(th[t].op, th[t].pos)
        /\ Passed(th[t].op, th[t].pos) => th[t].applied

-----------------------------------------------------------------------------
(* Polls.                                                                   *)

\* The operations that have to do with the breakpoint and its hit counter.
Trackers == {"setBreakpoint", "removeBreakpoint", "suspendBreakpoint", "resumeBreakpoint",
             "breakpointHits"}

SyncAt(o) == IF o = "breakpointHits" THEN 3 ELSE 4

\* They hold breakpointMutex_ from their second step on, and the counters are
\* of their context's target once they have been synchronised.
Guarded ==
    \A t \in Threads : Running(t) /\ th[t].op \in Trackers =>
        /\ th[t].pos > 1 => th[t].att
        /\ th[t].pos > 2 => holder["breakpoint"] = t
        /\ th[t].pos > SyncAt(th[t].op) => counter.rev = th[t].rev

\* The server has counted at least what was accounted and what is pending.
Consistent == counter.total = NoTotal \/ bp.total >= counter.total + bp.pending

\* Set and Remove start the server's count again; they have yet to forget the
\* total that was kept of the old one.
Replacers == {"setBreakpoint", "removeBreakpoint"}

Replacing(t) == Running(t) /\ th[t].op \in Replacers /\ th[t].applied

Counted ==
    /\ counter.rev <= rev
    /\ bp.pending <= bp.total
    /\ up /\ counter.rev = rev => Consistent \/ \E t \in Threads : Replacing(t)

Polls ==
    \A t \in Threads : Running(t) /\ ~th[t].failed /\ th[t].op = "breakpointHits" =>
        /\ th[t].pos = 5 => Consistent \/ th[t].rev # rev
        /\ th[t].pos \in {6, 7} =>
              /\ th[t].hits <= th[t].total
              /\ \/ counter.total = NoTotal
                 \/ th[t].total >= counter.total + th[t].hits
                 \/ th[t].rev # rev
        /\ th[t].pos \in 6..9 /\ up /\ th[t].rev = rev => bp.total >= th[t].total + bp.pending

ServiceInv ==
    /\ Typed /\ Placed /\ Owned /\ Contexts /\ Opened /\ Aimed /\ Outcomes
    /\ Guarded /\ Counted /\ Polls
    /\ EffectsOnContextTarget /\ OutcomeHonest /\ PollConsistent

-----------------------------------------------------------------------------
\* Each program by itself: the prover runs through its steps.
LEMMA EachSound ==
  /\ Sound(Status)
  /\ Sound(ServerVersion)
  /\ Sound(MemoryType)
  /\ Sound(InitializeDriver)
  /\ Sound(ListProcesses)
  /\ Sound(OpenProcess)
  /\ Sound(ListModules)
  /\ Sound(ResolveModule)
  /\ Sound(ResolvePointer)
  /\ Sound(ReadMemory)
  /\ Sound(ReadMemoryBatch)
  /\ Sound(WriteMemory)
  /\ Sound(SetBreakpoint)
  /\ Sound(RemoveBreakpoint)
  /\ Sound(SuspendBreakpoint)
  /\ Sound(ResumeBreakpoint)
  /\ Sound(BreakpointHits)
  /\ Sound(BreakpointSlots)
  /\ Sound(InstallUxnBreakpoint)
  /\ Sound(RemoveUxnBreakpoint)
  /\ Sound(WaitUxnBreakpoint)
  /\ Sound(ResumeUxnBreakpoint)
  /\ Sound(QueryUxnBreakpointStatus)
  /\ Sound(ClearUxnBreakpoints)
  /\ Sound(LoadSymbolTable)
  /\ Sound(ListSymbols)
  /\ Sound(ResolveSymbol)
PROOF
<1>. USE DEF Sound, Acts, Counts, OnTarget, After, Ports, Failing,
       Check, Verify, Guard, Lock, Begin, Ask, Effect, Drop, Inspect, Confirm, Snapshot, Compare,
       Sync, Account, Store, Forget
<1>1. Sound(Status)
  BY DEF Status
<1>2. Sound(ServerVersion)
  BY DEF ServerVersion
<1>3. Sound(MemoryType)
  BY DEF MemoryType
<1>4. Sound(InitializeDriver)
  BY DEF InitializeDriver
<1>5. Sound(ListProcesses)
  BY DEF ListProcesses
<1>6. Sound(OpenProcess)
  BY DEF OpenProcess
<1>7. Sound(ListModules)
  BY DEF ListModules
<1>8. Sound(ResolveModule)
  BY DEF ResolveModule
<1>9. Sound(ResolvePointer)
  BY DEF ResolvePointer
<1>10. Sound(ReadMemory)
  BY DEF ReadMemory
<1>11. Sound(ReadMemoryBatch)
  BY DEF ReadMemoryBatch
<1>12. Sound(WriteMemory)
  BY DEF WriteMemory
<1>13. Sound(SetBreakpoint)
  BY DEF SetBreakpoint, MutateBreakpoint
<1>14. Sound(RemoveBreakpoint)
  BY DEF RemoveBreakpoint, MutateBreakpoint
<1>15. Sound(SuspendBreakpoint)
  BY DEF SuspendBreakpoint, MutateBreakpoint
<1>16. Sound(ResumeBreakpoint)
  BY DEF ResumeBreakpoint, MutateBreakpoint
<1>17. Sound(BreakpointHits)
  BY DEF BreakpointHits
<1>18. Sound(BreakpointSlots)
  BY DEF BreakpointSlots
<1>19. Sound(InstallUxnBreakpoint)
  BY DEF InstallUxnBreakpoint, RequireKernelMemoryMode
<1>20. Sound(RemoveUxnBreakpoint)
  BY DEF RemoveUxnBreakpoint, RequireKernelMemoryMode
<1>21. Sound(WaitUxnBreakpoint)
  BY DEF WaitUxnBreakpoint, RequireKernelMemoryMode
<1>22. Sound(ResumeUxnBreakpoint)
  BY DEF ResumeUxnBreakpoint, RequireKernelMemoryMode
<1>23. Sound(QueryUxnBreakpointStatus)
  BY DEF QueryUxnBreakpointStatus, RequireKernelMemoryMode
<1>24. Sound(ClearUxnBreakpoints)
  BY DEF ClearUxnBreakpoints, RequireKernelMemoryMode
<1>25. Sound(LoadSymbolTable)
  BY DEF LoadSymbolTable
<1>26. Sound(ListSymbols)
  BY DEF ListSymbols
<1>27. Sound(ResolveSymbol)
  BY DEF ResolveSymbol
<1>. HIDE DEF Sound
<1>. QED
  BY <1>1, <1>2, <1>3, <1>4, <1>5, <1>6, <1>7, <1>8, <1>9, <1>10, <1>11, <1>12, <1>13, <1>14,
     <1>15, <1>16, <1>17, <1>18, <1>19, <1>20, <1>21, <1>22, <1>23, <1>24, <1>25, <1>26, <1>27

\* Every operation runs a sound program.
LEMMA ProgramSound ==
  ASSUME NEW o \in Operations
  PROVE  Sound(Program[o])
  BY EachSound DEF Operations, Program

-----------------------------------------------------------------------------
(* What a step does to its caller.                                          *)

Results == {"none", "ok", "error", "retry", "unknown", "partial", "inconsistent"}

\* Only t's record changes; it keeps rec's context and history.
Only(t, rec) ==
    /\ th' \in [Threads -> Records] /\ holder' \in [Mutexes -> Threads \cup {NoThread}]
    /\ \A u \in Threads : u # t => th'[u] = th[u]
    /\ th'[t].op = rec.op /\ th'[t].gen = rec.gen /\ th'[t].rev = rec.rev /\ th'[t].att = rec.att
    /\ th'[t].applied = rec.applied /\ th'[t].touched = rec.touched

Ended(t, r) ==
    /\ th'[t].pos = 0 /\ ~th'[t].failed /\ th'[t].lease = 0 /\ th'[t].result = r
    /\ holder' = Without(t, Mutexes)

Moved(t, rec) ==
    /\ th[t].pos < Len(Steps(t)) /\ th'[t].pos = th[t].pos + 1 /\ ~th'[t].failed
    /\ th'[t].result = th[t].result /\ th'[t].lease = rec.lease
    /\ th'[t].hits = rec.hits /\ th'[t].total = rec.total

Flagged(t) ==
    /\ th'[t].pos = th[t].pos /\ th'[t].failed /\ th'[t].result = th[t].result
    /\ \/ th'[t].lease = th[t].lease /\ holder' = holder
       \/ th'[t].lease = 0 /\ holder' = Without(t, Ports \cup {"state"})

Skipped(t) ==
    /\ Here(t).fail = "skip"
    /\ th'[t].pos \in 1..Len(Steps(t)) /\ Steps(t)[th'[t].pos].do = "lock"
    /\ ~th'[t].failed /\ th'[t].result = th[t].result /\ th'[t].lease = 0
    /\ holder' = Without(t, Ports)

\* What a return leaves of the record and of the mutexes.
LEMMA FinishShape ==
  ASSUME Typed, NEW t \in Threads, NEW rec \in Records, NEW r \in Results, Finish(t, rec, r)
  PROVE  Only(t, rec) /\ Ended(t, r)
PROOF
<1>1. PICK q : q = [rec EXCEPT !.pos = 0, !.failed = FALSE, !.lease = 0, !.hits = 0, !.total = 0, !.result = r]
  OBVIOUS
<1>2. /\ q \in Records
      /\ q.op = rec.op /\ q.gen = rec.gen /\ q.rev = rec.rev /\ q.att = rec.att
      /\ q.applied = rec.applied /\ q.touched = rec.touched
      /\ q.pos = 0 /\ q.failed = FALSE /\ q.lease = 0 /\ q.result = r
  BY <1>1 DEF Records, Results
<1>3. th' = [th EXCEPT ![t] = q] /\ holder' = Without(t, Mutexes)
  BY <1>1 DEF Finish
<1>4. holder' \in [Mutexes -> Threads \cup {NoThread}]
  BY <1>3 DEF Without, Typed
<1>. QED
  BY <1>2, <1>3, <1>4 DEF Typed, Only, Ended

\* What a move to the next step leaves.
LEMMA GotoShape ==
  ASSUME Typed, Placed, NEW t \in Threads, NEW rec \in Records, rec.pos = th[t].pos,
   rec.op = th[t].op,
         ~rec.failed, rec.result = th[t].result, th[t].pos < Len(Steps(t)),
         NEW hold \in [Mutexes -> Threads \cup {NoThread}], Goto(t, rec, hold)
  PROVE  Only(t, rec) /\ Moved(t, rec) /\ holder' = hold
PROOF
<1>1. th[t].pos \in Nat /\ th[t].pos + 1 \in Nat
  BY DEF Typed, Records
<1>2. PICK q : q = [rec EXCEPT !.pos = th[t].pos + 1]
  OBVIOUS
<1>3. /\ q \in Records
      /\ q.op = rec.op /\ q.gen = rec.gen /\ q.rev = rec.rev /\ q.att = rec.att
      /\ q.applied = rec.applied /\ q.touched = rec.touched /\ q.result = rec.result
      /\ q.pos = th[t].pos + 1 /\ q.failed = rec.failed /\ q.lease = rec.lease
      /\ q.hits = rec.hits /\ q.total = rec.total
  BY <1>1, <1>2 DEF Records
<1>4. th' = [th EXCEPT ![t] = q] /\ holder' = hold
  BY <1>2 DEF Goto
<1>. QED
  BY <1>3, <1>4 DEF Typed, Only, Moved

\* The last step returns, every other one moves on.
LEMMA AdvanceShape ==
  ASSUME Typed, Placed, NEW t \in Threads, Running(t), NEW rec \in Records, rec.pos = th[t].pos,
         rec.op = th[t].op, ~rec.failed, rec.result = th[t].result, Advance(t, rec)
  PROVE  /\ Only(t, rec)
         /\ \/ Ended(t, "ok") /\ th[t].pos = Len(Steps(t))
            \/ Moved(t, rec) /\ holder' = holder
PROOF
<1>1. CASE th[t].pos = Len(Steps(t))
  <2>1. Finish(t, rec, "ok")
    BY <1>1 DEF Advance
  <2>. QED
    BY <1>1, <2>1, FinishShape DEF Results
<1>2. CASE th[t].pos # Len(Steps(t))
  <2>1. th[t].pos \in Nat /\ Len(Steps(t)) \in Nat /\ th[t].pos <= Len(Steps(t))
    BY ProgramSound DEF Placed, Typed, Records, Steps, Sound
  <2>2. th[t].pos < Len(Steps(t))
    BY <1>2, <2>1
  <2>3. Goto(t, rec, holder)
    BY <1>2 DEF Advance
  <2>4. holder \in [Mutexes -> Threads \cup {NoThread}]
    BY DEF Typed
  <2>. QED
    BY <2>2, <2>3, <2>4, GotoShape
<1>. QED
  BY <1>1, <1>2

\* A step that failed returns, is flagged for its recheck, or skips.
LEMMA FailShape ==
  ASSUME Typed, Placed, NEW t \in Threads, Running(t), ~th[t].failed, Here(t).do \in Failing,
         Fail(t, th[t])
  PROVE  /\ Only(t, th[t])
         /\ \/ \E r \in {"retry", "error"} : Ended(t, r)
            \/ Flagged(t)
            \/ Skipped(t)
PROOF
<1>0. th[t] \in Records
  BY DEF Typed
<1>1. CASE Here(t).fail \in {"retry", "error"}
  <2>1. Finish(t, th[t], Here(t).fail)
    BY <1>1 DEF Fail
  <2>. QED
    BY <1>0, <1>1, <2>1, FinishShape DEF Results
<1>2. CASE Here(t).fail \in {"held", "heldError"}
  <2>1. th' = [th EXCEPT ![t] = [th[t] EXCEPT !.failed = TRUE]] /\ holder' = holder
    BY <1>2 DEF Fail
  <2>2. PICK q : q = [th[t] EXCEPT !.failed = TRUE]
    OBVIOUS
  <2>3. /\ q \in Records
        /\ q.op = th[t].op /\ q.gen = th[t].gen /\ q.rev = th[t].rev /\ q.att = th[t].att
        /\ q.applied = th[t].applied /\ q.touched = th[t].touched /\ q.result = th[t].result
        /\ q.pos = th[t].pos /\ q.failed = TRUE /\ q.lease = th[t].lease
    BY <1>0, <2>2 DEF Records
  <2>. QED
    BY <2>1, <2>2, <2>3 DEF Typed, Only, Flagged
<1>3. CASE Here(t).fail = "skip"
  <2>1. PICK i : i = CHOOSE j \in DOMAIN Steps(t) : Steps(t)[j].do = "lock"
    OBVIOUS
  <2>2. i \in 1..Len(Steps(t)) /\ Steps(t)[i].do = "lock" /\ i \in Nat
    <3>1. Sound(Steps(t)) /\ th[t].pos \in 1..Len(Steps(t)) /\ DOMAIN Steps(t) = 1..Len(Steps(t))
      <4>1. /\ th[t].op \in Operations /\ th[t].pos > 0 /\ th[t].pos \in Nat
            /\ th[t].pos <= Len(Steps(t))
        BY <1>0 DEF Placed, Running, Records
      <4>2. Sound(Steps(t))
        BY <4>1, ProgramSound DEF Steps
      <4>3. Len(Steps(t)) \in Nat /\ DOMAIN Steps(t) = 1..Len(Steps(t))
        BY <4>2 DEF Sound
      <4>. QED
        BY <4>1, <4>2, <4>3
    <3>2. \E j \in 1..Len(Steps(t)) : Steps(t)[j].do = "lock"
      BY <1>3, <3>1 DEF Sound, Here
    <3>. QED
      BY <2>1, <3>1, <3>2
  <2>3. /\ th' = [th EXCEPT ![t] = [th[t] EXCEPT !.lease = 0, !.pos = i]]
        /\ holder' = Without(t, Ports)
    BY <1>3, <2>1 DEF Fail
  <2>4. PICK q : q = [th[t] EXCEPT !.lease = 0, !.pos = i]
    OBVIOUS
  <2>5. /\ q \in Records
        /\ q.op = th[t].op /\ q.gen = th[t].gen /\ q.rev = th[t].rev /\ q.att = th[t].att
        /\ q.applied = th[t].applied /\ q.touched = th[t].touched /\ q.result = th[t].result
        /\ q.pos = i /\ q.failed = th[t].failed /\ q.lease = 0
    BY <1>0, <2>2, <2>4 DEF Records
  <2>6. holder' \in [Mutexes -> Threads \cup {NoThread}]
    BY <2>3 DEF Without, Typed
  <2>. QED
    BY <1>3, <2>2, <2>3, <2>4, <2>5, <2>6 DEF Typed, Only, Skipped
<1>4. CASE Here(t).fail \notin {"retry", "error", "held", "heldError", "skip"}
  <2>1. /\ th' = [th EXCEPT ![t] = [th[t] EXCEPT !.failed = TRUE, !.lease = 0]]
        /\ holder' = Without(t, Ports \cup {"state"})
    BY <1>4 DEF Fail
  <2>2. PICK q : q = [th[t] EXCEPT !.failed = TRUE, !.lease = 0]
    OBVIOUS
  <2>3. /\ q \in Records
        /\ q.op = th[t].op /\ q.gen = th[t].gen /\ q.rev = th[t].rev /\ q.att = th[t].att
        /\ q.applied = th[t].applied /\ q.touched = th[t].touched /\ q.result = th[t].result
        /\ q.pos = th[t].pos /\ q.failed = TRUE /\ q.lease = 0
    BY <1>0, <2>2 DEF Records
  <2>4. holder' \in [Mutexes -> Threads \cup {NoThread}]
    BY <2>1 DEF Without, Typed
  <2>. QED
    BY <2>1, <2>2, <2>3, <2>4 DEF Typed, Only, Flagged
<1>. QED
  BY <1>1, <1>2, <1>3, <1>4

\* A running caller is at a step of a sound program.
LEMMA Standing ==
  ASSUME Typed, Placed, NEW t \in Threads, Running(t)
  PROVE  /\ th[t] \in Records /\ th[t].op \in Operations /\ th[t].pos \in 1..Len(Steps(t))
         /\ th[t].pos \in Nat /\ th[t].pos > 0 /\ th[t].result = "none"
         /\ Sound(Steps(t)) /\ Len(Steps(t)) \in Nat
PROOF
<1>1. th[t] \in Records /\ th[t].op \in Operations /\ th[t].pos > 0 /\ th[t].pos \in Nat
      /\ th[t].pos <= Len(Steps(t)) /\ th[t].result = "none"
  BY DEF Typed, Placed, Running, Records
<1>2. Sound(Steps(t))
  BY <1>1, ProgramSound DEF Steps
<1>3. Len(Steps(t)) \in Nat
  BY <1>2 DEF Sound
<1>. QED
  BY <1>1, <1>2, <1>3

-----------------------------------------------------------------------------
(* What any step of a caller amounts to.                                    *)

Ends(t) ==
    \E r \in Results \ {"none"} :
        /\ Ended(t, r) /\ (th[t].applied => th'[t].applied)
        /\ r = "ok" => ~th[t].failed /\ th[t].pos = Len(Steps(t))
        /\ r = "retry" => /\ th[t].failed \/ Here(t).do \notin After
                          /\ th'[t].applied = th[t].applied
        /\ r = "inconsistent" => At(t, "account") /\ NewHits(th[t].total, counter.total) < th[t].hits

\* The next step, with the mutex, port or processStateMutex_ it was about.
Goes(t) ==
    /\ ~th[t].failed /\ th[t].pos < Len(Steps(t))
    /\ th'[t].pos = th[t].pos + 1 /\ ~th'[t].failed /\ th'[t].result = th[t].result
    /\ Here(t).do \in {"drop", "switch", "mutate"} \/ th'[t].lease = th[t].lease
    /\ Here(t).do = "ask" \/ (th'[t].hits = th[t].hits /\ th'[t].total = th[t].total)
    /\ th'[t].applied <=> (th[t].applied \/ Acts(Steps(t), th[t].pos))
    /\ \/ /\ Here(t).do = "lock" /\ Free(Here(t).mutex)
          /\ holder' = [holder EXCEPT ![Here(t).mutex] = t]
       \/ /\ Here(t).do = "begin" /\ Free(Here(t).port) /\ th[t].lease # 0
          /\ ContextMatches(t, Here(t).scope)
          /\ holder' = [holder EXCEPT ![Here(t).port] = t]
       \/ /\ Here(t).do = "mutate" /\ Free("state") /\ rev' = rev + 1
          /\ holder' = [holder EXCEPT !["state"] = t]
       \/ Here(t).do = "switch" /\ holder' = Without(t, {"state"})
       \/ Here(t).do = "drop" /\ holder' = Without(t, Ports)
       \/ Here(t).do \notin {"lock", "begin", "mutate", "switch", "drop"} /\ holder' = holder

\* A failure, a lease, or a jump over the rest of the transaction.
Stays(t) ==
    /\ ~th[t].failed /\ Here(t).do \in Failing /\ th'[t].applied = th[t].applied
    /\ \/ Flagged(t) /\ (Here(t).do = "switch" => holder' = Without(t, Ports \cup {"state"}))
       \/ Skipped(t)
       \/ /\ Here(t).do = "begin" /\ holder' = holder
          /\ th'[t].pos = th[t].pos /\ ~th'[t].failed /\ th'[t].result = th[t].result

Stepped(t) ==
    /\ Running(t)
    /\ th' \in [Threads -> Records] /\ holder' \in [Mutexes -> Threads \cup {NoThread}]
    /\ \A u \in Threads : u # t => th'[u] = th[u]
    /\ th'[t].op = th[t].op /\ th'[t].gen = th[t].gen /\ th'[t].rev = th[t].rev
    /\ th'[t].att = th[t].att
    /\ \/ th'[t].touched = th[t].touched
       \/ /\ At(t, "effect") /\ OnTarget(Here(t).what) /\ up /\ gen = th[t].lease
          /\ th'[t].touched = th[t].touched \cup {dev}
    /\ Ends(t) \/ Goes(t) \/ Stays(t)

\* Most steps are a move to the next one or an end, with everything else of
\* the record as it was.
LEMMA PlainStep ==
  ASSUME Typed, Placed, NEW t \in Threads, NEW rec \in Records, Running(t), ~th[t].failed,
         rec.op = th[t].op, rec.gen = th[t].gen, rec.rev = th[t].rev, rec.att = th[t].att,
         rec.pos = th[t].pos, ~rec.failed, rec.result = th[t].result, rec.lease = th[t].lease,
         rec.applied = th[t].applied, rec.touched = th[t].touched,
         Here(t).do = "ask" \/ (rec.hits = th[t].hits /\ rec.total = th[t].total),
         Here(t).do \notin {"lock", "begin", "mutate", "switch", "drop", "effect"},
         Advance(t, rec)
  PROVE  Stepped(t)
PROOF
<1>1. /\ Only(t, rec)
      /\ \/ Ended(t, "ok") /\ th[t].pos = Len(Steps(t))
         \/ Moved(t, rec) /\ holder' = holder
  BY AdvanceShape
<1>2. CASE Ended(t, "ok") /\ th[t].pos = Len(Steps(t))
  <2>1. Ends(t)
    BY <1>1, <1>2 DEF Ends, Results, Only
  <2>. QED
    BY <1>1, <2>1 DEF Stepped, Only
<1>3. CASE Moved(t, rec) /\ holder' = holder
  <2>1. th[t].applied \in BOOLEAN
    BY DEF Typed, Records
  <2>2. Goes(t)
    BY <1>1, <1>3, <2>1 DEF Goes, Moved, Only, Acts, Here
  <2>. QED
    BY <1>1, <2>2 DEF Stepped, Only
<1>. QED
  BY <1>1, <1>2, <1>3

\* A return with any other result than "ok" is a step of this kind.
LEMMA EndStep ==
  ASSUME Typed, Placed, NEW t \in Threads, NEW r \in Results \ {"none"}, Running(t),
         r \notin {"ok", "inconsistent"}, r = "retry" => th[t].failed \/ Here(t).do \notin After,
         Finish(t, th[t], r)
  PROVE  Stepped(t)
PROOF
<1>1. Only(t, th[t]) /\ Ended(t, r)
  BY FinishShape DEF Typed
<1>2. Ends(t)
  BY <1>1 DEF Ends, Only
<1>. QED
  BY <1>1, <1>2 DEF Stepped, Only

\* So is a failure.
LEMMA FailStep ==
  ASSUME Typed, Placed, NEW t \in Threads, Running(t), ~th[t].failed, Here(t).do \in Failing,
         Fail(t, th[t])
  PROVE  Stepped(t)
PROOF
<1>1. Only(t, th[t]) /\ ((\E r \in {"retry", "error"} : Ended(t, r)) \/ Flagged(t) \/ Skipped(t))
  BY FailShape
<1>2. ASSUME NEW r \in {"retry", "error"}, Ended(t, r)
      PROVE  Ends(t)
  BY <1>1, <1>2 DEF Ends, Results, Only, Failing, After
<1>3. ASSUME Flagged(t) \/ Skipped(t)
      PROVE  Stays(t)
  <2>1. Here(t).do = "switch" => Flagged(t) /\ holder' = Without(t, Ports \cup {"state"})
    <3>1. ASSUME Here(t).do = "switch"
          PROVE  Here(t).fail = "recheckError"
      BY <3>1, Standing DEF Sound, Here
    <3>. QED
      BY <3>1, <1>3 DEF Fail, Flagged, Skipped
  <2>. QED
    BY <1>1, <1>3, <2>1 DEF Stays, Only
<1>. QED
  BY <1>1, <1>2, <1>3 DEF Stepped, Only


\* A step that takes or releases something is never the last one.
LEMMA NotLast ==
  ASSUME Typed, Placed, NEW t \in Threads, Running(t),
         Here(t).do \in {"lock", "begin", "drop", "effect", "mutate", "switch"}
  PROVE  th[t].pos < Len(Steps(t))
PROOF
<1>1. /\ th[t].pos \in Nat /\ Len(Steps(t)) \in Nat /\ th[t].pos \in 1..Len(Steps(t))
      /\ Sound(Steps(t))
  BY Standing
<1>2. th[t].pos # Len(Steps(t))
  BY <1>1 DEF Sound, Here
<1>. QED
  BY <1>1, <1>2

\* An effect: what is marked is what may have happened.
LEMMA MarkedShape ==
  ASSUME Typed, NEW t \in Threads, NEW w, NEW done \in BOOLEAN
  PROVE  /\ Marked(t, w, done) \in Records
         /\ Marked(t, w, done).op = th[t].op /\ Marked(t, w, done).gen = th[t].gen
         /\ Marked(t, w, done).rev = th[t].rev /\ Marked(t, w, done).att = th[t].att
         /\ Marked(t, w, done).result = th[t].result /\ Marked(t, w, done).pos = th[t].pos
         /\ Marked(t, w, done).failed = th[t].failed /\ Marked(t, w, done).lease = th[t].lease
         /\ Marked(t, w, done).hits = th[t].hits /\ Marked(t, w, done).total = th[t].total
         /\ Marked(t, w, done).applied <=> (th[t].applied \/ (done /\ Counts(w)))
         /\ Marked(t, w, done).touched = IF done /\ OnTarget(w) THEN th[t].touched \cup {dev}
                                         ELSE th[t].touched
PROOF
<1>0. th[t] \in Records
  BY DEF Typed
<1>1. (IF done /\ OnTarget(w) THEN th[t].touched \cup {dev} ELSE th[t].touched) \in SUBSET Nat
  BY <1>0 DEF Records, Typed
<1>2. th[t].applied \in BOOLEAN /\ (th[t].applied \/ (done /\ Counts(w))) \in BOOLEAN
  BY <1>0 DEF Records
<1>3. PICK a \in BOOLEAN : a = (th[t].applied \/ (done /\ Counts(w)))
  BY <1>2
<1>4. PICK s \in SUBSET Nat : s = IF done /\ OnTarget(w) THEN th[t].touched \cup {dev} ELSE th[t].touched
  BY <1>1
<1>5. Marked(t, w, done) = [th[t] EXCEPT !.applied = a, !.touched = s]
  BY <1>3, <1>4 DEF Marked
<1>6. PICK q : q = [th[t] EXCEPT !.applied = a, !.touched = s]
  OBVIOUS
<1>7. /\ q \in Records
      /\ q.op = th[t].op /\ q.gen = th[t].gen /\ q.rev = th[t].rev /\ q.att = th[t].att
      /\ q.applied = a /\ q.touched = s /\ q.result = th[t].result
      /\ q.pos = th[t].pos /\ q.failed = th[t].failed /\ q.lease = th[t].lease
      /\ q.hits = th[t].hits /\ q.total = th[t].total
  BY <1>0, <1>6 DEF Records
<1>. QED
  BY <1>3, <1>4, <1>5, <1>6, <1>7

\* So is a step with an effect, whatever became of it.
LEMMA EffectShape ==
  ASSUME Typed, Placed, NEW t \in Threads, DoEffect(t)
  PROVE  Stepped(t)
PROOF
<1>. DEFINE w == Here(t).what
<1>1. Running(t) /\ ~th[t].failed /\ Here(t).do = "effect" /\ th[t] \in Records
  BY DEF DoEffect, At, Typed
<1>2. ASSUME NEW done \in BOOLEAN
      PROVE  /\ Marked(t, w, done) \in Records
             /\ Marked(t, w, done).op = th[t].op /\ Marked(t, w, done).gen = th[t].gen
             /\ Marked(t, w, done).rev = th[t].rev /\ Marked(t, w, done).att = th[t].att
             /\ Marked(t, w, done).result = th[t].result /\ Marked(t, w, done).pos = th[t].pos
             /\ Marked(t, w, done).failed = th[t].failed /\ Marked(t, w, done).lease = th[t].lease
             /\ Marked(t, w, done).hits = th[t].hits /\ Marked(t, w, done).total = th[t].total
             /\ Marked(t, w, done).applied <=> (th[t].applied \/ (done /\ Counts(w)))
             /\ Marked(t, w, done).touched = IF done /\ OnTarget(w) THEN th[t].touched \cup {dev}
                                             ELSE th[t].touched
  BY MarkedShape
<1>3. ASSUME Sendable(t)
      PROVE  up /\ gen = th[t].lease
  BY <1>3 DEF Sendable, ContextMatches
<1>4. CASE Fail(t, th[t])
  BY <1>1, <1>4, FailStep DEF Failing
<1>5. CASE Finish(t, th[t], "retry")
  BY <1>1, <1>5, EndStep DEF Results, After
<1>6. CASE Sendable(t) /\ Advance(t, Marked(t, w, TRUE))
  <2>1. PICK q : q = Marked(t, w, TRUE)
    OBVIOUS
  <2>2. /\ q \in Records
        /\ q.op = th[t].op /\ q.gen = th[t].gen /\ q.rev = th[t].rev /\ q.att = th[t].att
        /\ q.result = th[t].result /\ q.pos = th[t].pos /\ q.failed = th[t].failed
        /\ q.lease = th[t].lease /\ q.hits = th[t].hits /\ q.total = th[t].total
        /\ q.applied <=> (th[t].applied \/ Counts(w))
        /\ q.touched = IF OnTarget(w) THEN th[t].touched \cup {dev} ELSE th[t].touched
    BY <1>2, <2>1
  <2>3. /\ Only(t, q)
        /\ \/ Ended(t, "ok") /\ th[t].pos = Len(Steps(t))
           \/ Moved(t, q) /\ holder' = holder
    BY <1>1, <1>6, <2>1, <2>2, AdvanceShape
  <2>4. th[t].pos # Len(Steps(t))
    BY <1>1, NotLast, Standing
  <2>5. Goes(t)
    BY <1>1, <2>2, <2>3, <2>4 DEF Goes, Only, Moved, Acts, Here
  <2>. QED
    BY <1>1, <1>3, <1>6, <2>2, <2>3, <2>5 DEF Stepped, Only, At
<1>7. ASSUME NEW done \in BOOLEAN, NEW r \in {"partial", "error", "unknown"}, Sendable(t),
             Finish(t, Marked(t, w, done), r)
      PROVE  Stepped(t)
  <2>1. PICK q : q = Marked(t, w, done)
    OBVIOUS
  <2>2. /\ q \in Records
        /\ q.op = th[t].op /\ q.gen = th[t].gen /\ q.rev = th[t].rev /\ q.att = th[t].att
        /\ q.touched = IF done /\ OnTarget(w) THEN th[t].touched \cup {dev} ELSE th[t].touched
        /\ th[t].applied => q.applied
    BY <1>2, <2>1
  <2>3. Only(t, q) /\ Ended(t, r)
    BY <1>7, <2>1, <2>2, FinishShape DEF Results
  <2>4. Ends(t)
    BY <2>2, <2>3 DEF Ends, Results, Only
  <2>. QED
    BY <1>1, <1>3, <1>7, <2>2, <2>3, <2>4 DEF Stepped, Only, At
<1>8. CASE Sendable(t) /\ Finish(t, Marked(t, w, w = "write"), IF w = "write" THEN "partial" ELSE "error")
  BY <1>7, <1>8
<1>9. CASE Sendable(t) /\ \E done \in BOOLEAN : Finish(t, Marked(t, w, done), "unknown")
  BY <1>7, <1>9
<1>. QED
  BY <1>4, <1>5, <1>6, <1>8, <1>9 DEF DoEffect

\* Every step of a caller is one of these.
LEMMA StepShape ==
  ASSUME Typed, Placed, NEW t \in Threads, StepOf(t)
  PROVE  Stepped(t)
PROOF
<1>0. th[t] \in Records
  BY DEF Typed
<1>. USE <1>0
<1>1. CASE DoCheck(t)
  <2>1. Running(t) /\ ~th[t].failed /\ Here(t).do = "check"
    BY <1>1 DEF DoCheck, At
  <2>2. ValidateContext(t, Here(t).scope) \in {"ok", "error", "retry"}
    BY DEF ValidateContext
  <2>3. Advance(t, th[t]) \/ Finish(t, th[t], "error") \/ Finish(t, th[t], "retry")
    BY <1>1, <2>2 DEF DoCheck
  <2>. QED
    BY <2>1, <2>3, PlainStep, EndStep DEF Results, After
<1>2. CASE DoVerify(t)
  <2>1. Running(t) /\ ~th[t].failed /\ Here(t).do = "verify"
    BY <1>2 DEF DoVerify, At
  <2>2. ValidateContext(t, Here(t).scope) \in {"ok", "error", "retry"}
    BY DEF ValidateContext
  <2>3. Advance(t, th[t]) \/ Finish(t, th[t], "error") \/ Finish(t, th[t], "retry")
    BY <1>2, <2>2 DEF DoVerify
  <2>. QED
    BY <2>1, <2>3, PlainStep, EndStep DEF Results, After
<1>3. CASE DoGuard(t)
  <2>1. Running(t) /\ ~th[t].failed /\ Here(t).do = "guard"
    BY <1>3 DEF DoGuard, At
  <2>2. Advance(t, th[t]) \/ Fail(t, th[t])
    BY <1>3 DEF DoGuard
  <2>. QED
    BY <2>1, <2>2, PlainStep, FailStep DEF Failing
<1>4. CASE DoConfirm(t)
  <2>1. Running(t) /\ ~th[t].failed /\ Here(t).do = "confirm"
    BY <1>4 DEF DoConfirm, At
  <2>2. Advance(t, th[t]) \/ Finish(t, th[t], "unknown")
    BY <1>4 DEF DoConfirm
  <2>. QED
    BY <2>1, <2>2, PlainStep, EndStep DEF Results
<1>5. CASE DoLock(t)
  <2>1. Running(t) /\ ~th[t].failed /\ Here(t).do = "lock" /\ Free(Here(t).mutex)
    BY <1>5 DEF DoLock, At
  <2>2. [holder EXCEPT ![Here(t).mutex] = t] \in [Mutexes -> Threads \cup {NoThread}]
    BY DEF Typed
  <2>3. Goto(t, th[t], [holder EXCEPT ![Here(t).mutex] = t])
    BY <1>5 DEF DoLock
  <2>4. Only(t, th[t]) /\ Moved(t, th[t]) /\ holder' = [holder EXCEPT ![Here(t).mutex] = t]
    BY <2>1, <2>2, <2>3, GotoShape, NotLast
  <2>5. Goes(t)
    BY <2>1, <2>4 DEF Goes, Only, Moved, Acts, Here
  <2>. QED
    BY <2>1, <2>4, <2>5 DEF Stepped, Only
<1>6. CASE TakeLease(t)
  <2>1. Running(t) /\ ~th[t].failed /\ Here(t).do = "begin"
    BY <1>6 DEF TakeLease, At
  <2>2. CASE Fail(t, th[t])
    BY <2>1, <2>2, FailStep DEF Failing
  <2>3. CASE th' = [th EXCEPT ![t].lease = gen] /\ holder' = holder
    <3>1. PICK q : q = [th[t] EXCEPT !.lease = gen]
      OBVIOUS
    <3>2. /\ q \in Records
          /\ q.op = th[t].op /\ q.gen = th[t].gen /\ q.rev = th[t].rev /\ q.att = th[t].att
          /\ q.applied = th[t].applied /\ q.touched = th[t].touched /\ q.result = th[t].result
          /\ q.pos = th[t].pos /\ q.failed = th[t].failed /\ q.lease = gen
      BY <3>1 DEF Records, Typed
    <3>3. th' = [th EXCEPT ![t] = q]
      BY <2>3, <3>1 DEF Typed
    <3>4. Stays(t)
      BY <2>1, <2>3, <3>2, <3>3 DEF Stays, Typed, Failing
    <3>. QED
      BY <2>1, <2>3, <3>2, <3>3, <3>4 DEF Stepped, Typed
  <2>. QED
    BY <1>6, <2>2, <2>3 DEF TakeLease
<1>7. CASE TakePort(t)
  <2>1. Running(t) /\ ~th[t].failed /\ Here(t).do = "begin" /\ th[t].lease # 0
    BY <1>7 DEF TakePort, At
  <2>2. CASE Fail(t, th[t])
    BY <2>1, <2>2, FailStep DEF Failing
  <2>3. CASE /\ Free(Here(t).port) /\ ContextMatches(t, Here(t).scope)
             /\ Goto(t, th[t], [holder EXCEPT ![Here(t).port] = t])
    <3>1. [holder EXCEPT ![Here(t).port] = t] \in [Mutexes -> Threads \cup {NoThread}]
      BY DEF Typed
    <3>2. Only(t, th[t]) /\ Moved(t, th[t]) /\ holder' = [holder EXCEPT ![Here(t).port] = t]
      BY <2>1, <2>3, <3>1, GotoShape, NotLast
    <3>3. Goes(t)
      BY <2>1, <2>3, <3>2 DEF Goes, Only, Moved, Acts, Here
    <3>. QED
      BY <2>1, <3>2, <3>3 DEF Stepped, Only
  <2>. QED
    BY <1>7, <2>2, <2>3 DEF TakePort
<1>8. CASE DoDrop(t)
  <2>1. Running(t) /\ ~th[t].failed /\ Here(t).do = "drop"
    BY <1>8 DEF DoDrop, At
  <2>2. PICK q : q = [th[t] EXCEPT !.lease = 0]
    OBVIOUS
  <2>3. /\ q \in Records
        /\ q.op = th[t].op /\ q.gen = th[t].gen /\ q.rev = th[t].rev /\ q.att = th[t].att
        /\ q.applied = th[t].applied /\ q.touched = th[t].touched /\ q.result = th[t].result
        /\ q.pos = th[t].pos /\ q.failed = th[t].failed
        /\ q.hits = th[t].hits /\ q.total = th[t].total
    BY <2>2 DEF Records
  <2>4. Without(t, Ports) \in [Mutexes -> Threads \cup {NoThread}]
    BY DEF Without, Typed
  <2>5. Goto(t, q, Without(t, Ports))
    BY <1>8, <2>2 DEF DoDrop
  <2>6. Only(t, q) /\ Moved(t, q) /\ holder' = Without(t, Ports)
    BY <2>1, <2>3, <2>4, <2>5, GotoShape, NotLast
  <2>7. Goes(t)
    BY <2>1, <2>3, <2>6 DEF Goes, Only, Moved, Acts, Here
  <2>. QED
    BY <2>1, <2>3, <2>6, <2>7 DEF Stepped, Only
<1>9. CASE DoInspect(t)
  <2>1. Running(t) /\ ~th[t].failed /\ Here(t).do = "inspect"
    BY <1>9 DEF DoInspect, At
  <2>2. Advance(t, th[t]) \/ Finish(t, th[t], "error")
    BY <1>9 DEF DoInspect
  <2>. QED
    BY <2>1, <2>2, PlainStep, EndStep DEF Results
<1>10. CASE DoAsk(t)
  <2>1. Running(t) /\ ~th[t].failed /\ Here(t).do = "ask"
    BY <1>10 DEF DoAsk, At
  <2>2. CASE Fail(t, th[t])
    BY <2>1, <2>2, FailStep DEF Failing
  <2>3. CASE Served(t)
    <3>1. /\ symtab \in [mod : Modules \cup {NoModule}, of : Nat]
          /\ SymbolInit(t) \in [mod : Modules \cup {NoModule}, of : Nat]
      BY DEF Typed, SymbolInit, Records
    <3>2. Limit \in Nat /\ bp.total \in Nat /\ bp.pending \in Nat
      BY LimitAssumption DEF Typed
    <3>3. \E s \in SUBSET [mod : Modules \cup {NoModule}, of : Nat], m \in Nat, n \in Nat :
             Advance(t, [th[t] EXCEPT !.saw = s, !.total = m, !.hits = n])
      <4>1. /\ th[t].saw \in SUBSET [mod : Modules \cup {NoModule}, of : Nat]
            /\ th[t].total \in Nat /\ th[t].hits \in Nat
        BY DEF Records
      <4>2. th[t] = [th[t] EXCEPT !.saw = th[t].saw, !.total = th[t].total, !.hits = th[t].hits]
        BY DEF Records
      <4>3. \A x : [th[t] EXCEPT !.saw = x] = [th[t] EXCEPT !.saw = x, !.total = th[t].total, !.hits = th[t].hits]
        BY DEF Records
      <4>4. \A x, y : [th[t] EXCEPT !.total = x, !.hits = y]
                        = [th[t] EXCEPT !.saw = th[t].saw, !.total = x, !.hits = y]
        BY DEF Records
      <4>5. CASE Advance(t, th[t])
        <5>1. Advance(t, [th[t] EXCEPT !.saw = th[t].saw, !.total = th[t].total, !.hits = th[t].hits])
          BY <4>2, <4>5 DEF Advance, Goto, Finish
        <5>. QED
          BY <4>1, <5>1
      <4>6. CASE \E x \in [mod : Modules \cup {NoModule}, of : Nat] :
                    Advance(t, [th[t] EXCEPT !.saw = th[t].saw \cup {x}])
        <5>1. PICK x \in [mod : Modules \cup {NoModule}, of : Nat] :
                Advance(t, [th[t] EXCEPT !.saw = th[t].saw \cup {x}])
          BY <4>6
        <5>2. th[t].saw \cup {x} \in SUBSET [mod : Modules \cup {NoModule}, of : Nat]
          BY <4>1
        <5>3. [th[t] EXCEPT !.saw = th[t].saw \cup {x}] = [th[t] EXCEPT !.saw = th[t].saw \cup {x}, !.total = th[t].total, !.hits = th[t].hits]
          BY DEF Records
        <5>4. Advance(t, [th[t] EXCEPT !.saw = th[t].saw \cup {x}, !.total = th[t].total, !.hits = th[t].hits])
          BY <5>1, <5>3
        <5>. QED
          BY <4>1, <5>2, <5>4
      <4>7. CASE \E m \in Nat, n \in Nat : Advance(t, [th[t] EXCEPT !.total = m, !.hits = n])
        BY <4>1, <4>4, <4>7
      <4>8. (IF bp.pending < Limit THEN bp.pending ELSE Limit) \in Nat
        BY <3>2
      <4>. QED
        BY <2>3, <3>1, <3>2, <4>5, <4>6, <4>7, <4>8 DEF Served
    <3>4. PICK s \in SUBSET [mod : Modules \cup {NoModule}, of : Nat], m \in Nat, n \in Nat :
             Advance(t, [th[t] EXCEPT !.saw = s, !.total = m, !.hits = n])
      BY <3>3
    <3>5. PICK q : q = [th[t] EXCEPT !.saw = s, !.total = m, !.hits = n]
      OBVIOUS
    <3>6. /\ q \in Records
          /\ q.op = th[t].op /\ q.gen = th[t].gen /\ q.rev = th[t].rev /\ q.att = th[t].att
          /\ q.applied = th[t].applied /\ q.touched = th[t].touched /\ q.result = th[t].result
          /\ q.pos = th[t].pos /\ q.failed = th[t].failed /\ q.lease = th[t].lease
      BY <3>5 DEF Records
    <3>. QED
      BY <2>1, <3>4, <3>5, <3>6, PlainStep
  <2>. QED
    BY <1>10, <2>2, <2>3 DEF DoAsk
<1>11. CASE DoEffect(t)
  BY <1>11, EffectShape
<1>12. CASE Recheck(t)
  <2>1. Running(t) /\ th[t].failed
    BY <1>12 DEF Recheck
  <2>2. \E r \in {"error", "retry"} : Finish(t, th[t], r)
    BY <1>12 DEF Recheck, ValidateContext
  <2>. QED
    BY <2>1, <2>2, EndStep DEF Results
<1>13. CASE DoSnapshot(t)
  <2>1. Running(t) /\ ~th[t].failed /\ Here(t).do = "snapshot"
    BY <1>13 DEF DoSnapshot, At
  <2>2. PICK q : q = [th[t] EXCEPT !.saw = th[t].saw \cup {[mod |-> NoModule, of |-> rev]}]
    OBVIOUS
  <2>3. /\ q \in Records
        /\ q.op = th[t].op /\ q.gen = th[t].gen /\ q.rev = th[t].rev /\ q.att = th[t].att
        /\ q.applied = th[t].applied /\ q.touched = th[t].touched /\ q.result = th[t].result
        /\ q.pos = th[t].pos /\ q.failed = th[t].failed /\ q.lease = th[t].lease
        /\ q.hits = th[t].hits /\ q.total = th[t].total
    <3>1. [mod |-> NoModule, of |-> rev] \in [mod : Modules \cup {NoModule}, of : Nat]
      BY DEF Typed
    <3>2. th[t].saw \cup {[mod |-> NoModule, of |-> rev]} \in SUBSET [mod : Modules \cup {NoModule}, of : Nat]
      BY <3>1 DEF Records
    <3>. QED
      BY <2>2, <3>2 DEF Records
  <2>4. Advance(t, q)
    BY <1>13, <2>2 DEF DoSnapshot
  <2>. QED
    BY <2>1, <2>3, <2>4, PlainStep
<1>14. CASE DoCompare(t)
  <2>1. Running(t) /\ ~th[t].failed /\ Here(t).do = "compare"
    BY <1>14 DEF DoCompare, At
  <2>2. Advance(t, th[t]) \/ Finish(t, th[t], "retry")
    BY <1>14 DEF DoCompare
  <2>. QED
    BY <2>1, <2>2, PlainStep, EndStep DEF Results, After
<1>15. CASE DoSync(t)
  <2>1. Running(t) /\ ~th[t].failed /\ Here(t).do = "sync" /\ Advance(t, th[t])
    BY <1>15 DEF DoSync, At
  <2>. QED
    BY <2>1, PlainStep
<1>16. CASE DoAccount(t)
  <2>1. Running(t) /\ ~th[t].failed /\ Here(t).do = "account"
    BY <1>16 DEF DoAccount, At
  <2>2. CASE Advance(t, th[t])
    BY <2>1, <2>2, PlainStep
  <2>3. CASE /\ NewHits(th[t].total, counter.total) < th[t].hits
             /\ Finish(t, th[t], "inconsistent")
    <3>1. Only(t, th[t]) /\ Ended(t, "inconsistent")
      BY <2>3, FinishShape DEF Results
    <3>2. Ends(t)
      BY <2>1, <2>3, <3>1 DEF Ends, Results, At, Only
    <3>. QED
      BY <2>1, <3>1, <3>2 DEF Stepped, Only
  <2>. QED
    BY <1>16, <2>2, <2>3 DEF DoAccount
<1>17. CASE DoStore(t)
  <2>1. Running(t) /\ ~th[t].failed /\ Here(t).do = "store" /\ Advance(t, th[t])
    BY <1>17 DEF DoStore, At
  <2>. QED
    BY <2>1, PlainStep
<1>18. CASE DoForget(t)
  <2>1. Running(t) /\ ~th[t].failed /\ Here(t).do = "forget" /\ Advance(t, th[t])
    BY <1>18 DEF DoForget, At
  <2>. QED
    BY <2>1, PlainStep
<1>19. CASE DoMutate(t)
  <2>1. Running(t) /\ ~th[t].failed /\ Here(t).do = "mutate"
    BY <1>19 DEF DoMutate, At
  <2>2. CASE Fail(t, th[t])
    BY <2>1, <2>2, FailStep DEF Failing
  <2>3. CASE /\ Free("state") /\ rev' = rev + 1
             /\ Goto(t, [th[t] EXCEPT !.lease = gen], [holder EXCEPT !["state"] = t])
    <3>1. PICK q : q = [th[t] EXCEPT !.lease = gen]
      OBVIOUS
    <3>2. /\ q \in Records
          /\ q.op = th[t].op /\ q.gen = th[t].gen /\ q.rev = th[t].rev /\ q.att = th[t].att
          /\ q.applied = th[t].applied /\ q.touched = th[t].touched /\ q.result = th[t].result
          /\ q.pos = th[t].pos /\ q.failed = th[t].failed
          /\ q.hits = th[t].hits /\ q.total = th[t].total
      BY <3>1 DEF Records, Typed
    <3>3. [holder EXCEPT !["state"] = t] \in [Mutexes -> Threads \cup {NoThread}]
      BY DEF Typed
    <3>4. Only(t, q) /\ Moved(t, q) /\ holder' = [holder EXCEPT !["state"] = t]
      BY <2>1, <2>3, <3>1, <3>2, <3>3, GotoShape, NotLast
    <3>5. Goes(t)
      BY <2>1, <2>3, <3>2, <3>4 DEF Goes, Only, Moved, Acts, Here
    <3>. QED
      BY <2>1, <3>2, <3>4, <3>5 DEF Stepped, Only
  <2>. QED
    BY <1>19, <2>2, <2>3 DEF DoMutate
<1>20. CASE DoSwitch(t)
  <2>1. Running(t) /\ ~th[t].failed /\ Here(t).do = "switch"
    BY <1>20 DEF DoSwitch, At
  <2>2. CASE Fail(t, th[t])
    BY <2>1, <2>2, FailStep DEF Failing
  <2>3. CASE Goto(t, [th[t] EXCEPT !.lease = 0], Without(t, {"state"}))
    <3>1. PICK q : q = [th[t] EXCEPT !.lease = 0]
      OBVIOUS
    <3>2. /\ q \in Records
          /\ q.op = th[t].op /\ q.gen = th[t].gen /\ q.rev = th[t].rev /\ q.att = th[t].att
          /\ q.applied = th[t].applied /\ q.touched = th[t].touched /\ q.result = th[t].result
          /\ q.pos = th[t].pos /\ q.failed = th[t].failed
          /\ q.hits = th[t].hits /\ q.total = th[t].total
      BY <3>1 DEF Records
    <3>3. Without(t, {"state"}) \in [Mutexes -> Threads \cup {NoThread}]
      BY DEF Without, Typed
    <3>4. Only(t, q) /\ Moved(t, q) /\ holder' = Without(t, {"state"})
      BY <2>1, <2>3, <3>1, <3>2, <3>3, GotoShape, NotLast
    <3>5. Goes(t)
      BY <2>1, <3>2, <3>4 DEF Goes, Only, Moved, Acts, Here
    <3>. QED
      BY <2>1, <3>2, <3>4, <3>5 DEF Stepped, Only
  <2>. QED
    BY <1>20, <2>2, <2>3 DEF DoSwitch
<1>. QED
  BY <1>1, <1>2, <1>3, <1>4, <1>5, <1>6, <1>7, <1>8, <1>9, <1>10, <1>11, <1>12, <1>13, <1>14,
     <1>15, <1>16, <1>17, <1>18, <1>19, <1>20
  DEF StepOf


-----------------------------------------------------------------------------
(* Outcomes: from the shape of a step alone.                                *)

\* A step leads to a step of the same program, or to a result.
LEMMA PlacedStep ==
  ASSUME Typed, Placed, NEW t \in Threads, Stepped(t)
  PROVE  Placed'
PROOF
<1>1. ASSUME NEW u \in Threads, u # t
      PROVE  /\ Running(u)' => /\ th'[u].op \in Operations /\ th'[u].pos <= Len(Steps(u)')
                               /\ th'[u].result = "none"
             /\ ~Running(u)' => th'[u].lease = 0 /\ ~th'[u].failed
  <2>1. th'[u] = th[u]
    BY <1>1 DEF Stepped
  <2>. QED
    BY <2>1 DEF Placed, Running, Steps
<1>2. Steps(t)' = Steps(t) /\ th'[t].op \in Operations
  BY Standing DEF Stepped, Steps
<1>3. /\ th[t].pos \in Nat /\ Len(Steps(t)) \in Nat /\ th[t].pos <= Len(Steps(t))
      /\ th[t].result = "none" /\ th[t].pos > 0
  BY Standing DEF Stepped
<1>4. CASE Ends(t)
  <2>1. th'[t].pos = 0 /\ th'[t].lease = 0 /\ ~th'[t].failed
    BY <1>4 DEF Ends, Ended
  <2>. QED
    BY <1>1, <2>1 DEF Placed, Running
<1>5. CASE Goes(t)
  <2>1. th'[t].pos <= Len(Steps(t)) /\ th'[t].pos > 0 /\ th'[t].result = "none"
    BY <1>3, <1>5 DEF Goes
  <2>. QED
    BY <1>1, <1>2, <2>1 DEF Placed, Running
<1>6. CASE Stays(t)
  <2>1. th'[t].pos <= Len(Steps(t)) /\ th'[t].pos > 0 /\ th'[t].result = "none"
    BY <1>3, <1>6 DEF Stays, Flagged, Skipped
  <2>. QED
    BY <1>1, <1>2, <2>1 DEF Placed, Running
<1>. QED
  BY <1>4, <1>5, <1>6 DEF Stepped

\* Every program that confirms an effect has one before its last step.
LEMMA ConfirmedActs ==
  ASSUME NEW o \in Confirmed
  PROVE  o \in Operations /\ Passed(o, Len(Program[o]))
PROOF
<1>. USE DEF Acts, Counts, Check, Lock, Begin, Ask, Effect, Drop, Inspect, Confirm, Sync, Forget
<1>1. Acts(WriteMemory, 3) /\ Len(WriteMemory) = 5
  BY DEF WriteMemory
<1>2. /\ Acts(SetBreakpoint, 6) /\ Len(SetBreakpoint) = 9
      /\ Acts(RemoveBreakpoint, 6) /\ Len(RemoveBreakpoint) = 9
  BY DEF SetBreakpoint, RemoveBreakpoint, MutateBreakpoint
<1>3. /\ Acts(InstallUxnBreakpoint, 10) /\ Len(InstallUxnBreakpoint) = 13
      /\ Acts(RemoveUxnBreakpoint, 10) /\ Len(RemoveUxnBreakpoint) = 12
      /\ Acts(ResumeUxnBreakpoint, 10) /\ Len(ResumeUxnBreakpoint) = 12
  BY DEF InstallUxnBreakpoint, RemoveUxnBreakpoint, ResumeUxnBreakpoint, RequireKernelMemoryMode
<1>4. /\ Program["writeMemory"] = WriteMemory /\ Program["setBreakpoint"] = SetBreakpoint
      /\ Program["removeBreakpoint"] = RemoveBreakpoint
      /\ Program["installUxnBreakpoint"] = InstallUxnBreakpoint
      /\ Program["removeUxnBreakpoint"] = RemoveUxnBreakpoint
      /\ Program["resumeUxnBreakpoint"] = ResumeUxnBreakpoint
      /\ Confirmed \subseteq Operations
  BY DEF Program, Operations, Confirmed
<1>. HIDE DEF Acts
<1>5. CASE o = "writeMemory"
  BY <1>1, <1>4, <1>5, 3 \in 1 .. 5 - 1 DEF Passed
<1>6. CASE o \in {"setBreakpoint", "removeBreakpoint"}
  BY <1>2, <1>4, <1>6, 6 \in 1 .. 9 - 1 DEF Passed
<1>7. CASE o = "installUxnBreakpoint"
  BY <1>3, <1>4, <1>7, 10 \in 1 .. 13 - 1 DEF Passed
<1>8. CASE o \in {"removeUxnBreakpoint", "resumeUxnBreakpoint"}
  BY <1>3, <1>4, <1>8, 10 \in 1 .. 12 - 1 DEF Passed
<1>. QED
  BY <1>4, <1>5, <1>6, <1>7, <1>8 DEF Confirmed

\* A caller that has acted is past every step that could tell it to retry.
LEMMA OutcomesStep ==
  ASSUME Typed, Placed, Outcomes, OutcomeHonest, NEW t \in Threads, Stepped(t)
  PROVE  Outcomes' /\ OutcomeHonest'
PROOF
<1>1. \A u \in Threads : u # t => th'[u] = th[u]
  BY DEF Stepped
<1>2. /\ th[t].op \in Operations /\ th[t].pos \in Nat /\ th[t].pos > 0 /\ Len(Steps(t)) \in Nat
      /\ th[t].pos \in 1..Len(Steps(t)) /\ Sound(Steps(t)) /\ th[t].result = "none"
      /\ th[t] \in Records /\ th'[t] \in Records
  BY Standing DEF Stepped
<1>3. /\ th'[t].op = th[t].op /\ Steps(t) = Program[th[t].op] /\ th[t].applied \in BOOLEAN
      /\ th'[t].applied \in BOOLEAN
  BY <1>2 DEF Stepped, Steps, Records
<1>4. /\ th[t].applied => ~th[t].failed /\ Settled(th[t].op, th[t].pos)
      /\ Passed(th[t].op, th[t].pos) => th[t].applied
  BY DEF Outcomes, Stepped
<1>5. th[t].applied => Here(t).do \in After
  BY <1>2, <1>3, <1>4 DEF Settled, Here
<1>6. Running(t)' => /\ th'[t].applied => ~th'[t].failed /\ Settled(th[t].op, th'[t].pos)
                     /\ Passed(th[t].op, th'[t].pos) => th'[t].applied
  <2>1. CASE Ends(t)
    BY <2>1 DEF Ends, Ended, Running
  <2>2. CASE Goes(t)
    <3>1. th'[t].pos = th[t].pos + 1 /\ ~th'[t].failed
      BY <2>2 DEF Goes
    <3>2. ASSUME th[t].applied
          PROVE  Settled(th[t].op, th[t].pos + 1)
      BY <1>2, <1>4, <3>2 DEF Settled
    <3>3. ASSUME Acts(Steps(t), th[t].pos)
          PROVE  Settled(th[t].op, th[t].pos + 1)
      BY <1>2, <1>3, <3>3 DEF Sound, Settled
    <3>4. ASSUME Passed(th[t].op, th[t].pos + 1)
          PROVE  Passed(th[t].op, th[t].pos) \/ Acts(Steps(t), th[t].pos)
      <4>1. PICK j \in 1 .. (th[t].pos + 1) - 1 : Acts(Program[th[t].op], j)
        BY <3>4 DEF Passed
      <4>2. j = th[t].pos \/ j \in 1 .. th[t].pos - 1
        BY <1>2, <4>1
      <4>. QED
        BY <1>3, <4>1, <4>2 DEF Passed
    <3>5. th'[t].applied <=> (th[t].applied \/ Acts(Steps(t), th[t].pos))
      BY <2>2 DEF Goes
    <3>. QED
      BY <1>4, <3>1, <3>2, <3>3, <3>4, <3>5
  <2>3. CASE Stays(t)
    <3>1. th'[t].applied = th[t].applied /\ Here(t).do \in Failing
      BY <2>3 DEF Stays
    <3>2. ~th'[t].applied
      BY <1>5, <3>1 DEF After, Failing
    <3>3. ASSUME Passed(th[t].op, th'[t].pos)
          PROVE  FALSE
      <4>1. CASE th'[t].pos = th[t].pos
        BY <1>4, <3>1, <3>2, <3>3, <4>1
      <4>2. CASE Skipped(t)
        <5>1. \A j \in 1..Len(Steps(t)) : ~Acts(Steps(t), j)
          BY <1>2, <3>1, <4>2 DEF Sound, Skipped, Here
        <5>2. th'[t].pos \in 1..Len(Steps(t))
          BY <4>2 DEF Skipped
        <5>. QED
          BY <1>2, <1>3, <3>3, <5>1, <5>2 DEF Passed
      <4>. QED
        BY <2>3, <4>1, <4>2 DEF Stays, Flagged
    <3>. QED
      BY <3>2, <3>3
  <2>. QED
    BY <2>1, <2>2, <2>3 DEF Stepped
<1>7. Outcomes'
  BY <1>1, <1>3, <1>6 DEF Outcomes, Running
<1>8. /\ th'[t].result = "retry" => ~th'[t].applied
      /\ th'[t].result = "ok" /\ th[t].op \in Confirmed => th'[t].applied
  <2>1. CASE Ends(t)
    <3>1. PICK r \in Results \ {"none"} :
            /\ Ended(t, r) /\ (th[t].applied => th'[t].applied)
            /\ r = "ok" => ~th[t].failed /\ th[t].pos = Len(Steps(t))
            /\ r = "retry" => /\ th[t].failed \/ Here(t).do \notin After
                              /\ th'[t].applied = th[t].applied
      BY <2>1 DEF Ends
    <3>2. th'[t].result = r
      BY <3>1 DEF Ended
    <3>3. r = "retry" => ~th'[t].applied
      BY <1>4, <1>5, <3>1
    <3>4. ASSUME r = "ok", th[t].op \in Confirmed
          PROVE  th'[t].applied
      <4>1. Passed(th[t].op, th[t].pos)
        BY <3>1, <3>4, ConfirmedActs, <1>3
      <4>2. th[t].applied
        BY <4>1, <1>4
      <4>. QED
        BY <3>1, <4>2
    <3>. QED
      BY <3>2, <3>3, <3>4
  <2>2. CASE Goes(t) \/ Stays(t)
    <3>1. th'[t].result = "none"
      BY <1>2, <2>2 DEF Goes, Stays, Flagged, Skipped
    <3>. QED
      BY <3>1
  <2>. QED
    BY <2>1, <2>2 DEF Stepped
<1>9. OutcomeHonest'
  BY <1>1, <1>3, <1>8 DEF OutcomeHonest, Confirmed
<1>. QED
  BY <1>7, <1>9


-----------------------------------------------------------------------------
(* The session and the target under a step.                                 *)

World(t) ==
    \/ ~At(t, "switch") /\ UNCHANGED <<gen, up, rev, attached, dev>>
    \/ ~At(t, "switch") /\ gen' = gen + 1 /\ up' = FALSE /\ UNCHANGED <<rev, attached, dev>>
    \/ /\ At(t, "mutate") /\ rev' = rev + 1 /\ UNCHANGED <<gen, up, attached, dev>>
       /\ holder'["state"] = t
    \/ /\ At(t, "switch") /\ rev' = rev + 1
       /\ UNCHANGED <<gen, up>> \/ (gen' = gen + 1 /\ up' = FALSE)
       /\ Free("main") \/ dev' = dev
       /\ attached' \in BOOLEAN /\ dev' \in Nat
       /\ attached' => dev' = rev'

\* Only mutate and switch change the target, only a poisoned exchange the session.
LEMMA WorldStep ==
  ASSUME Typed, NEW t \in Threads, StepOf(t)
  PROVE  World(t)
PROOF
<1>. USE DEF World, target
<1>1. CASE DoCheck(t)
  BY <1>1 DEF DoCheck, At
<1>2. CASE DoVerify(t)
  BY <1>2 DEF DoVerify, At
<1>3. CASE DoGuard(t)
  BY <1>3 DEF DoGuard, At
<1>4. CASE DoConfirm(t)
  BY <1>4 DEF DoConfirm, At
<1>5. CASE DoLock(t)
  BY <1>5 DEF DoLock, At
<1>6. CASE TakeLease(t)
  BY <1>6 DEF TakeLease, At
<1>7. CASE TakePort(t)
  BY <1>7 DEF TakePort, At
<1>8. CASE DoDrop(t)
  BY <1>8 DEF DoDrop, At
<1>9. CASE DoInspect(t)
  BY <1>9 DEF DoInspect, At
<1>10. CASE DoAsk(t)
  BY <1>10 DEF DoAsk, At, Poison
<1>11. CASE DoEffect(t)
  BY <1>11 DEF DoEffect, At, Poison
<1>12. CASE Recheck(t)
  BY <1>12 DEF Recheck, At
<1>13. CASE DoSnapshot(t)
  BY <1>13 DEF DoSnapshot, At
<1>14. CASE DoCompare(t)
  BY <1>14 DEF DoCompare, At
<1>15. CASE DoSync(t)
  BY <1>15 DEF DoSync, At
<1>16. CASE DoAccount(t)
  BY <1>16 DEF DoAccount, At
<1>17. CASE DoStore(t)
  BY <1>17 DEF DoStore, At
<1>18. CASE DoForget(t)
  BY <1>18 DEF DoForget, At
<1>19. CASE DoMutate(t)
  BY <1>19 DEF DoMutate, At, Goto, Typed, Mutexes
<1>20. CASE DoSwitch(t)
  <2>1. At(t, "switch") /\ rev' = rev + 1
    BY <1>20 DEF DoSwitch
  <2>2. CASE Free("main") /\ dev' = rev + 1 /\ attached' = TRUE /\ UNCHANGED <<gen, up>>
    <3>1. dev' \in Nat /\ rev + 1 \in Nat
      BY <2>2 DEF Typed
    <3>2. attached' \in BOOLEAN /\ dev' = rev'
      BY <2>1, <2>2
    <3>. QED
      BY <2>1, <2>2, <3>1, <3>2
  <2>3. CASE /\ Free("main") /\ attached' = FALSE /\ (dev' = 0 \/ dev' = dev)
             /\ Poison \/ UNCHANGED <<gen, up>>
    <3>1. dev' \in Nat
      BY <2>3 DEF Typed
    <3>2. attached' \in BOOLEAN /\ ~attached'
      BY <2>3
    <3>3. UNCHANGED <<gen, up>> \/ (gen' = gen + 1 /\ up' = FALSE)
      BY <2>3 DEF Poison
    <3>. QED
      BY <2>1, <2>3, <3>1, <3>2, <3>3
  <2>4. CASE attached' = FALSE /\ UNCHANGED <<gen, up, dev>>
    BY <2>1, <2>4 DEF Typed
  <2>. QED
    BY <1>20, <2>2, <2>3, <2>4 DEF DoSwitch
<1>. QED
  BY <1>1, <1>2, <1>3, <1>4, <1>5, <1>6, <1>7, <1>8, <1>9, <1>10, <1>11, <1>12, <1>13, <1>14,
     <1>15, <1>16, <1>17, <1>18, <1>19, <1>20
  DEF StepOf

\* processStateMutex_ is held exactly between mutate and the end of switch.
LEMMA OwnedStep ==
  ASSUME Typed, Placed, Owned, NEW t \in Threads, Stepped(t)
  PROVE  Owned'
PROOF
<1>. USE CallerAssumption
<1>1. /\ th[t].pos \in Nat /\ th[t].pos > 0 /\ Len(Steps(t)) \in Nat
      /\ th[t].pos \in 1..Len(Steps(t))
      /\ Sound(Steps(t)) /\ Steps(t)' = Steps(t)
  BY Standing DEF Stepped, Steps
<1>2. holder["state"] = t <=> ~th[t].failed /\ Here(t).do = "switch"
  BY <1>1 DEF Owned, At, Running
<1>3. ASSUME NEW u \in Threads, u # t
      PROVE  holder'["state"] = u <=> holder["state"] = u
  <2>1. CASE Ends(t)
    BY <1>3, <2>1 DEF Ends, Ended, Without, Typed, Mutexes
  <2>2. CASE Goes(t)
    <3>1. /\ Here(t).do = "lock" => Here(t).mutex # "state"
          /\ Here(t).do = "begin" => Here(t).port # "state"
      BY <1>1 DEF Sound, Here, Ports
    <3>. QED
      BY <1>3, <2>2, <3>1 DEF Goes, Without, Typed, Mutexes, Free
  <2>3. CASE Stays(t)
    BY <1>3, <2>3 DEF Stays, Flagged, Skipped, Without, Typed, Mutexes
  <2>. QED
    BY <2>1, <2>2, <2>3 DEF Stepped
<1>4. holder'["state"] = t <=> At(t, "switch")'
  <2>1. CASE Ends(t)
    BY <2>1 DEF Ends, Ended, Without, Typed, Mutexes, At, Running
  <2>2. CASE Goes(t)
    <3>1. /\ Here(t).do = "lock" => Here(t).mutex # "state"
          /\ Here(t).do = "begin" => Here(t).port # "state"
      BY <1>1 DEF Sound, Here, Ports
    <3>2. holder'["state"] = t <=> Here(t).do = "mutate"
      BY <1>2, <2>2, <3>1 DEF Goes, Without, Typed, Mutexes, Free
    <3>3. Here(t)' = Steps(t)[th[t].pos + 1] /\ (At(t, "switch")' <=> Here(t)'.do = "switch")
      BY <1>1, <2>2 DEF Goes, Here, At, Running
    <3>4. Here(t).do = "mutate" <=> Steps(t)[th[t].pos + 1].do = "switch"
      <4>1. th[t].pos + 1 \in 1..Len(Steps(t)) /\ (th[t].pos + 1) - 1 = th[t].pos
        BY <1>1, <2>2 DEF Goes
      <4>. QED
        BY <1>1, <4>1 DEF Sound, Here
    <3>. QED
      BY <3>2, <3>3, <3>4
  <2>3. CASE Stays(t)
    <3>1. ~At(t, "switch")'
      <4>1. CASE th'[t].failed
        BY <4>1 DEF At
      <4>2. CASE Skipped(t)
        BY <1>1, <4>2 DEF Skipped, At, Here
      <4>3. CASE th'[t].pos = th[t].pos /\ Here(t).do = "begin"
        BY <1>1, <4>3 DEF At, Here
      <4>. QED
        BY <2>3, <4>1, <4>2, <4>3 DEF Stays, Flagged
    <3>2. holder'["state"] # t
      <4>1. CASE Here(t).do = "switch"
        <5>1. Here(t).fail # "skip"
          BY <1>1, <4>1 DEF Sound, Here
        <5>. QED
          BY <2>3, <4>1, <5>1 DEF Stays, Skipped, Without, Typed, Mutexes
      <4>2. CASE Here(t).do # "switch"
        BY <1>2, <2>3, <4>2 DEF Stays, Flagged, Skipped, Without, Typed, Mutexes
      <4>. QED
        BY <4>1, <4>2
    <3>. QED
      BY <3>1, <3>2
  <2>. QED
    BY <2>1, <2>2, <2>3 DEF Stepped
<1>5. \A u \in Threads : u # t => (At(u, "switch")' <=> At(u, "switch"))
  BY DEF Stepped, At, Running, Here, Steps
<1>. QED
  BY <1>3, <1>4, <1>5 DEF Owned


-----------------------------------------------------------------------------
(* Effects reach the process of the context.                                *)

\* A step leaves alone what others hold, and lets the state mutex change
\* hands only where the target changes.
LEMMA KeepsStep ==
  ASSUME Typed, Placed, Owned, NEW t \in Threads, Stepped(t)
  PROVE  /\ \A m \in Mutexes, u \in Threads : u # t /\ holder[m] = u => holder'[m] = u
         /\ Free("state") /\ ~Free("state")' => At(t, "mutate") /\ rev' = rev + 1
         /\ ~Free("state") /\ Free("state")' => At(t, "switch")
PROOF
<1>. USE CallerAssumption
<1>1. /\ th[t].pos \in 1..Len(Steps(t)) /\ Sound(Steps(t))
  BY Standing DEF Stepped
<1>2. /\ Here(t).do = "lock" => Here(t).mutex # "state"
      /\ Here(t).do = "begin" => Here(t).port # "state"
  BY <1>1 DEF Sound, Here, Ports
<1>3. ASSUME NEW m \in Mutexes, NEW u \in Threads, u # t, holder[m] = u
      PROVE  holder'[m] = u
  <2>1. CASE Ends(t)
    BY <1>3, <2>1 DEF Ends, Ended, Without
  <2>2. CASE Goes(t)
    BY <1>3, <2>2 DEF Goes, Without, Typed, Free
  <2>3. CASE Stays(t)
    BY <1>3, <2>3 DEF Stays, Flagged, Skipped, Without
  <2>. QED
    BY <2>1, <2>2, <2>3 DEF Stepped
<1>4. Free("state") /\ ~Free("state")' => At(t, "mutate") /\ rev' = rev + 1
  <2>1. CASE Ends(t)
    BY <2>1 DEF Ends, Ended, Without, Mutexes, Free
  <2>2. CASE Goes(t)
    BY <1>2, <2>2 DEF Goes, Without, Typed, Mutexes, Free, At, Stepped
  <2>3. CASE Stays(t)
    BY <2>3 DEF Stays, Flagged, Skipped, Without, Mutexes, Free
  <2>. QED
    BY <2>1, <2>2, <2>3 DEF Stepped
<1>5. ASSUME ~Free("state"), Free("state")'
      PROVE  At(t, "switch")
  <2>1. PICK u \in Threads : holder["state"] = u
    BY <1>5 DEF Free, Typed, Mutexes
  <2>2. u = t
    BY <1>3, <1>5, <2>1 DEF Free, Mutexes
  <2>. QED
    BY <2>1, <2>2 DEF Owned
<1>. QED
  BY <1>3, <1>4, <1>5

\* A context that is not of the present target never becomes so again.
LEMMA ContextsStep ==
  ASSUME Typed, Placed, Owned, Contexts, NEW t \in Threads, Stepped(t), World(t)
  PROVE  Contexts'
PROOF
<1>1. /\ gen \in Nat /\ rev \in Nat
      /\ \A u \in Threads : th[u].rev \in Nat /\ th[u].gen \in Nat
  BY DEF Typed, Records
<1>2. \A u \in Threads : th'[u].rev = th[u].rev /\ th'[u].gen = th[u].gen /\ th'[u].att = th[u].att
                         /\ (Running(u)' => Running(u))
  BY DEF Stepped, Running
<1>3. \A u \in Threads : th[u].rev <= rev /\ th[u].gen <= gen
  BY DEF Contexts
<1>4. CASE UNCHANGED <<gen, up, rev, attached, dev>>
  <2>1. Free("state") => Free("state")'
    BY <1>1, <1>4, KeepsStep
  <2>. QED
    BY <1>2, <1>4, <2>1 DEF Contexts
<1>5. CASE gen' = gen + 1 /\ up' = FALSE /\ UNCHANGED <<rev, attached, dev>>
  <2>1. Free("state") => Free("state")'
    BY <1>1, <1>5, KeepsStep
  <2>2. \A u \in Threads : th[u].gen <= gen'
    BY <1>1, <1>3, <1>5
  <2>. QED
    BY <1>2, <1>5, <2>1, <2>2 DEF Contexts
<1>6. CASE rev' = rev + 1 /\ (gen' = gen \/ gen' = gen + 1)
  <2>1. \A u \in Threads : th[u].gen <= gen' /\ th[u].rev <= rev' /\ th[u].rev # rev'
    BY <1>1, <1>3, <1>6
  <2>. QED
    BY <1>2, <2>1 DEF Contexts
<1>. QED
  BY <1>4, <1>5, <1>6 DEF World

\* Whoever publishes a target has opened it.
LEMMA OpenedStep ==
  ASSUME Typed, Placed, Owned, Opened, NEW t \in Threads, Stepped(t), World(t)
  PROVE  Opened'
PROOF
<1>. USE CallerAssumption
<1>1. ~At(t, "switch") /\ Free("state")' => Free("state")
  BY KeepsStep
<1>2. CASE ~At(t, "switch") /\ UNCHANGED <<gen, up, rev, attached, dev>>
  BY <1>1, <1>2 DEF Opened
<1>3. CASE up' = FALSE
  BY <1>3 DEF Opened
<1>4. CASE holder'["state"] = t
  BY <1>4 DEF Opened, Free
<1>5. CASE attached' => dev' = rev'
  BY <1>5 DEF Opened
<1>. QED
  BY <1>2, <1>3, <1>4, <1>5 DEF World

\* The port is taken with the target matched, which is the open one; it stays
\* open as long as the port is held.
LEMMA AimedStep ==
  ASSUME Typed, Placed, Contexts, Opened, Owned, Aimed, NEW t \in Threads, Stepped(t), World(t)
  PROVE  Aimed'
PROOF
<1>. USE CallerAssumption
<1>1. ASSUME NEW u \in Threads, u # t, At(u, "effect")', OnTarget(Here(u).what)'
      PROVE  /\ th'[u].lease # 0 /\ holder'["main"] = u
             /\ up' /\ th'[u].lease = gen' => dev' = th'[u].rev
  <2>1. th'[u] = th[u]
    BY <1>1 DEF Stepped
  <2>2. At(u, "effect") /\ OnTarget(Here(u).what)
    BY <1>1, <2>1 DEF At, Here, Steps, Running, OnTarget
  <2>3. /\ th[u].lease # 0 /\ holder["main"] = u
        /\ up /\ th[u].lease = gen => dev = th[u].rev
    BY <2>2 DEF Aimed
  <2>4. holder'["main"] = u
    BY <1>1, <2>3, KeepsStep DEF Mutexes
  <2>5. ~Free("main")
    BY <2>3 DEF Free
  <2>. QED
    BY <2>1, <2>3, <2>4, <2>5 DEF World
<1>2. ASSUME At(t, "effect")', OnTarget(Here(t).what)'
      PROVE  /\ th'[t].lease # 0 /\ holder'["main"] = t
             /\ up' /\ th'[t].lease = gen' => dev' = th'[t].rev
  <2>1. /\ Running(t) /\ th[t].pos \in Nat /\ th[t].pos \in 1..Len(Steps(t))
        /\ Len(Steps(t)) \in Nat
        /\ Sound(Steps(t)) /\ Steps(t)' = Steps(t) /\ th'[t].rev = th[t].rev
    BY Standing DEF Stepped, Steps
  <2>2. Running(t)' /\ ~th'[t].failed /\ Steps(t)[th'[t].pos].do = "effect"
        /\ OnTarget(Steps(t)[th'[t].pos].what)
    BY <1>2, <2>1 DEF At, Here, OnTarget
  <2>3. Goes(t)
    <3>1. ~Ends(t)
      BY <2>2 DEF Ends, Ended, Running
    <3>2. ~Stays(t)
      BY <2>2 DEF Stays, Flagged, Skipped, Here
    <3>. QED
      BY <3>1, <3>2 DEF Stepped
  <2>4. /\ th'[t].pos = th[t].pos + 1 /\ th[t].pos + 1 \in 1..Len(Steps(t))
        /\ (th[t].pos + 1) - 1 = th[t].pos
    BY <2>1, <2>3 DEF Goes
  <2>5. Here(t).do = "begin" /\ Here(t).port = "main" /\ Here(t).scope = "tgt"
    BY <2>1, <2>2, <2>4 DEF Sound, Here
  <2>6. /\ th'[t].lease = th[t].lease /\ th[t].lease # 0 /\ ContextMatches(t, "tgt")
        /\ holder' = [holder EXCEPT !["main"] = t]
    BY <2>3, <2>5 DEF Goes
  <2>7. up /\ gen = th[t].lease /\ rev = th[t].rev /\ th[t].att
    BY <2>6 DEF ContextMatches
  <2>8. attached /\ Free("state")
    BY <2>1, <2>7 DEF Contexts
  <2>9. dev = th[t].rev
    BY <2>7, <2>8 DEF Opened
  <2>10. ~At(t, "switch") /\ ~At(t, "mutate")
    BY <2>5 DEF At
  <2>11. holder'["main"] = t
    BY <2>6 DEF Typed, Mutexes
  <2>. QED
    BY <2>1, <2>6, <2>9, <2>10, <2>11 DEF World
<1>. QED
  BY <1>1, <1>2 DEF Aimed

\* An effect that happens, happens to the process that was aimed at.
LEMMA TouchedStep ==
  ASSUME Aimed, EffectsOnContextTarget, NEW t \in Threads, Stepped(t)
  PROVE  EffectsOnContextTarget'
PROOF
<1>1. \A u \in Threads : u # t => th'[u] = th[u]
  BY DEF Stepped
<1>2. th'[t].touched \subseteq {th'[t].rev}
  <2>1. th'[t].rev = th[t].rev /\ th[t].touched \subseteq {th[t].rev}
    BY DEF Stepped, EffectsOnContextTarget
  <2>2. CASE th'[t].touched = th[t].touched
    BY <2>1, <2>2
  <2>3. CASE /\ At(t, "effect") /\ OnTarget(Here(t).what) /\ up /\ gen = th[t].lease
             /\ th'[t].touched = th[t].touched \cup {dev}
    <3>1. dev = th[t].rev
      BY <2>3 DEF Aimed
    <3>. QED
      BY <2>1, <2>3, <3>1
  <2>. QED
    BY <2>2, <2>3 DEF Stepped
<1>. QED
  BY <1>1, <1>2 DEF EffectsOnContextTarget


-----------------------------------------------------------------------------
(* The hit counter.                                                         *)

\* No step of p is about the breakpoint or its counter.
Unrelated(p) ==
    \A i \in 1..Len(p) :
        /\ p[i].do \notin {"sync", "account", "store", "forget"}
        /\ p[i].do = "effect" => p[i].what \notin {"set", "remove"}
        /\ p[i].do = "ask" => p[i].what # "hits"

\* The other 22 operations leave the breakpoint and its counter alone.
LEMMA OthersUnrelated ==
  ASSUME NEW o \in Operations \ Trackers
  PROVE  Unrelated(Program[o])
PROOF
<1>. USE DEF Unrelated,
       Check, Verify, Guard, Lock, Begin, Ask, Effect, Drop, Inspect, Confirm, Snapshot, Compare,
       Sync, Account, Store, Forget
<1>1. Unrelated(Status)
  BY DEF Status
<1>2. Unrelated(ServerVersion)
  BY DEF ServerVersion
<1>3. Unrelated(MemoryType)
  BY DEF MemoryType
<1>4. Unrelated(InitializeDriver)
  BY DEF InitializeDriver
<1>5. Unrelated(ListProcesses)
  BY DEF ListProcesses
<1>6. Unrelated(OpenProcess)
  BY DEF OpenProcess
<1>7. Unrelated(ListModules)
  BY DEF ListModules
<1>8. Unrelated(ResolveModule)
  BY DEF ResolveModule
<1>9. Unrelated(ResolvePointer)
  BY DEF ResolvePointer
<1>10. Unrelated(ReadMemory)
  BY DEF ReadMemory
<1>11. Unrelated(ReadMemoryBatch)
  BY DEF ReadMemoryBatch
<1>12. Unrelated(WriteMemory)
  BY DEF WriteMemory
<1>13. Unrelated(BreakpointSlots)
  BY DEF BreakpointSlots
<1>14. Unrelated(InstallUxnBreakpoint)
  BY DEF InstallUxnBreakpoint, RequireKernelMemoryMode
<1>15. Unrelated(RemoveUxnBreakpoint)
  BY DEF RemoveUxnBreakpoint, RequireKernelMemoryMode
<1>16. Unrelated(WaitUxnBreakpoint)
  BY DEF WaitUxnBreakpoint, RequireKernelMemoryMode
<1>17. Unrelated(ResumeUxnBreakpoint)
  BY DEF ResumeUxnBreakpoint, RequireKernelMemoryMode
<1>18. Unrelated(QueryUxnBreakpointStatus)
  BY DEF QueryUxnBreakpointStatus, RequireKernelMemoryMode
<1>19. Unrelated(ClearUxnBreakpoints)
  BY DEF ClearUxnBreakpoints, RequireKernelMemoryMode
<1>20. Unrelated(LoadSymbolTable)
  BY DEF LoadSymbolTable
<1>21. Unrelated(ListSymbols)
  BY DEF ListSymbols
<1>22. Unrelated(ResolveSymbol)
  BY DEF ResolveSymbol
<1>. HIDE DEF Unrelated
<1>. QED
  BY <1>1, <1>2, <1>3, <1>4, <1>5, <1>6, <1>7, <1>8, <1>9, <1>10, <1>11, <1>12, <1>13, <1>14,
     <1>15, <1>16, <1>17, <1>18, <1>19, <1>20, <1>21, <1>22
  DEF Operations, Program, Trackers

\* The five that are, step by step.
MutateShape(o, p) ==
    /\ Len(p) \in {8, 9} /\ (o \in Replacers => Len(p) = 9)
    /\ p[1].do = "check" /\ p[1].scope = "tgt"
    /\ p[2].do = "lock" /\ p[2].mutex = "breakpoint"
    /\ p[3].do = "check" /\ p[3].scope = "tgt" /\ p[4].do = "sync"
    /\ p[5].do = "begin" /\ p[5].port = "main" /\ p[5].scope = "tgt" /\ p[5].fail = "recheckCancel"
    /\ p[6].do = "effect" /\ (p[6].what \in {"set", "remove"} <=> o \in Replacers)
    /\ p[6].fail = "recheckCancel" /\ Counts(p[6].what)
    /\ p[7].do = "drop" /\ p[8].do = "confirm" /\ p[8].scope = "tgt"
    /\ Len(p) = 9 => p[9].do = "forget"

\* The steps of the four operations that change a breakpoint.
LEMMA MutateSteps ==
  ASSUME NEW o \in Trackers \ {"breakpointHits"}, NEW p, p = Program[o]
  PROVE  o \in Operations /\ MutateShape(o, p)
PROOF
<1>. USE DEF MutateShape, MutateBreakpoint, Check, Lock, Sync, Begin, Effect, Drop, Confirm,
   Forget, Counts, Replacers
<1>1. o \in Operations
  BY DEF Trackers, Operations, Program
<1>2. /\ Program["setBreakpoint"] = SetBreakpoint /\ Program["removeBreakpoint"] = RemoveBreakpoint
      /\ Program["suspendBreakpoint"] = SuspendBreakpoint
      /\ Program["resumeBreakpoint"] = ResumeBreakpoint
  BY DEF Program
<1>3. CASE o = "setBreakpoint"
  <2>1. p = SetBreakpoint
    BY <1>2, <1>3
  <2>2. Len(p) = 9 /\ p[6] = Effect("set", "recheckCancel")
    BY <2>1 DEF SetBreakpoint
  <2>3. /\ p[6].what = "set" /\ Counts(p[6].what) /\ p[6].do = "effect"
        /\ p[6].fail = "recheckCancel"
    BY <2>2
  <2>4. /\ p[1] = Check("tgt") /\ p[2] = Lock("breakpoint") /\ p[3] = Check("tgt") /\ p[4] = Sync
        /\ p[5] = Begin("main", "tgt", "recheckCancel") /\ p[7] = Drop
        /\ p[8] = Confirm("tgt") /\ p[9] = Forget
    BY <2>1 DEF SetBreakpoint
  <2>. QED
    BY <1>1, <1>3, <2>2, <2>3, <2>4
<1>4. CASE o = "removeBreakpoint"
  <2>1. p = RemoveBreakpoint
    BY <1>2, <1>4
  <2>2. Len(p) = 9 /\ p[6] = Effect("remove", "recheckCancel")
    BY <2>1 DEF RemoveBreakpoint
  <2>3. /\ p[6].what = "remove" /\ Counts(p[6].what) /\ p[6].do = "effect"
        /\ p[6].fail = "recheckCancel"
    BY <2>2
  <2>4. /\ p[1] = Check("tgt") /\ p[2] = Lock("breakpoint") /\ p[3] = Check("tgt") /\ p[4] = Sync
        /\ p[5] = Begin("main", "tgt", "recheckCancel") /\ p[7] = Drop
        /\ p[8] = Confirm("tgt") /\ p[9] = Forget
    BY <2>1 DEF RemoveBreakpoint
  <2>. QED
    BY <1>1, <1>4, <2>2, <2>3, <2>4
<1>5. CASE o = "suspendBreakpoint"
  BY <1>1, <1>2, <1>5 DEF SuspendBreakpoint
<1>6. CASE o = "resumeBreakpoint"
  BY <1>1, <1>2, <1>6 DEF ResumeBreakpoint
<1>. QED
  BY <1>3, <1>4, <1>5, <1>6 DEF Trackers

\* The steps of a poll.
LEMMA HitsSteps ==
  ASSUME NEW p, p = Program["breakpointHits"]
  PROVE  /\ "breakpointHits" \in Operations /\ Len(p) = 9
         /\ p[1].do = "check" /\ p[1].scope = "tgt"
         /\ p[2].do = "lock" /\ p[2].mutex = "breakpoint" /\ p[3].do = "sync"
         /\ p[4].do = "begin" /\ p[4].port = "debug" /\ p[4].scope = "tgt" /\ p[4].fail = "recheck"
         /\ p[5].do = "ask" /\ p[5].what = "hits" /\ p[5].fail = "recheck"
         /\ p[6].do = "drop" /\ p[7].do = "account" /\ p[8].do = "check" /\ p[9].do = "store"
PROOF
<1>1. "breakpointHits" \in Operations /\ p = BreakpointHits
  BY DEF Operations, Program
<1>. QED
  BY <1>1 DEF BreakpointHits, Check, Lock, Sync, Begin, Ask, Drop, Account, Store


\* Where a caller stands says which action it takes.
LEMMA Which ==
  ASSUME NEW t \in Threads, StepOf(t), ~th[t].failed
  PROVE  /\ Here(t).do = "check" => DoCheck(t)
         /\ Here(t).do = "confirm" => DoConfirm(t)
         /\ Here(t).do = "drop" => DoDrop(t)
         /\ Here(t).do = "ask" => DoAsk(t)
         /\ Here(t).do = "sync" => DoSync(t)
         /\ Here(t).do = "forget" => DoForget(t)
PROOF
<1>1. DoCheck(t) => Here(t).do = "check"
  BY DEF DoCheck, At
<1>2. DoVerify(t) => Here(t).do = "verify"
  BY DEF DoVerify, At
<1>3. DoGuard(t) => Here(t).do = "guard"
  BY DEF DoGuard, At
<1>4. DoConfirm(t) => Here(t).do = "confirm"
  BY DEF DoConfirm, At
<1>5. DoLock(t) => Here(t).do = "lock"
  BY DEF DoLock, At
<1>6. TakeLease(t) => Here(t).do = "begin"
  BY DEF TakeLease, At
<1>7. TakePort(t) => Here(t).do = "begin"
  BY DEF TakePort, At
<1>8. DoDrop(t) => Here(t).do = "drop"
  BY DEF DoDrop, At
<1>9. DoInspect(t) => Here(t).do = "inspect"
  BY DEF DoInspect, At
<1>10. DoAsk(t) => Here(t).do = "ask"
  BY DEF DoAsk, At
<1>11. DoEffect(t) => Here(t).do = "effect"
  BY DEF DoEffect, At
<1>12. DoSnapshot(t) => Here(t).do = "snapshot"
  BY DEF DoSnapshot, At
<1>13. DoCompare(t) => Here(t).do = "compare"
  BY DEF DoCompare, At
<1>14. DoSync(t) => Here(t).do = "sync"
  BY DEF DoSync, At
<1>15. DoAccount(t) => Here(t).do = "account"
  BY DEF DoAccount, At
<1>16. DoStore(t) => Here(t).do = "store"
  BY DEF DoStore, At
<1>17. DoForget(t) => Here(t).do = "forget"
  BY DEF DoForget, At
<1>18. DoMutate(t) => Here(t).do = "mutate"
  BY DEF DoMutate, At
<1>19. DoSwitch(t) => Here(t).do = "switch"
  BY DEF DoSwitch, At
<1>20. ~Recheck(t)
  BY DEF Recheck
<1>. QED
  BY <1>1, <1>2, <1>3, <1>4, <1>5, <1>6, <1>7, <1>8, <1>9, <1>10, <1>11, <1>12, <1>13, <1>14,
     <1>15, <1>16, <1>17, <1>18, <1>19, <1>20 DEF StepOf

\* The server's breakpoint is one of which nothing is pending, or that counts
\* from 0.
Fetched ==
    bp' \in [armed : BOOLEAN, total : Nat, pending : Nat, by : Nat] /\ bp'.pending = 0

Fresh == Fetched /\ bp'.total = 0

\* The counter and the server's breakpoint under a step.
Books(t) ==
    \/ UNCHANGED <<counter, bp>>
    \/ At(t, "sync") /\ bp' = bp /\ counter' = [rev |-> th[t].rev, total |-> NoTotal]
    \/ At(t, "store") /\ bp' = bp /\ counter' = [counter EXCEPT !.total = th[t].total]
    \/ At(t, "forget") /\ bp' = bp /\ counter' = [counter EXCEPT !.total = NoTotal]
    \/ /\ At(t, "ask") /\ Here(t).what = "hits"
       /\ counter' = counter /\ bp' = [bp EXCEPT !.pending = 0]
    \/ /\ At(t, "effect") /\ Here(t).what \in {"set", "remove"} /\ counter' = counter /\ Fresh
       /\ ~up' \/ (th'[t].pos = th[t].pos + 1 /\ th'[t].applied)
    \/ At(t, "switch") /\ rev' = rev + 1 /\ counter' = counter /\ Fetched

\* Every step is one of these.
LEMMA BooksStep ==
  ASSUME Typed, Placed, NEW t \in Threads, StepOf(t)
  PROVE  Books(t)
PROOF
<1>. USE DEF Books, server, books
<1>1. CASE DoCheck(t)
  BY <1>1 DEF DoCheck
<1>2. CASE DoVerify(t)
  BY <1>2 DEF DoVerify
<1>3. CASE DoGuard(t)
  BY <1>3 DEF DoGuard
<1>4. CASE DoConfirm(t)
  BY <1>4 DEF DoConfirm
<1>5. CASE DoLock(t)
  BY <1>5 DEF DoLock
<1>6. CASE TakeLease(t)
  BY <1>6 DEF TakeLease
<1>7. CASE TakePort(t)
  BY <1>7 DEF TakePort
<1>8. CASE DoDrop(t)
  BY <1>8 DEF DoDrop
<1>9. CASE DoInspect(t)
  BY <1>9 DEF DoInspect
<1>10. CASE DoAsk(t)
  <2>1. At(t, "ask") /\ counter' = counter
    BY <1>10 DEF DoAsk
  <2>2. \/ bp' = bp
        \/ Here(t).what = "hits" /\ bp' = [bp EXCEPT !.pending = 0]
    BY <1>10 DEF DoAsk, Served
  <2>. QED
    BY <2>1, <2>2
<1>11. CASE DoEffect(t)
  <2>1. At(t, "effect") /\ counter' = counter
    BY <1>11 DEF DoEffect
  <2>2. \/ bp' = bp
        \/ /\ Here(t).what \in {"set", "remove"} /\ bp' = Replaced(Here(t).what)
           /\ ~up' \/ Advance(t, Marked(t, Here(t).what, TRUE))
    BY <1>11 DEF DoEffect, Applied, Replaced, Poison
  <2>4. Here(t).what \in {"set", "remove"} /\ bp' = Replaced(Here(t).what) => Fresh
    BY DEF Replaced, NoBreakpoint, Fresh, Fetched, Typed
  <2>3. ASSUME Here(t).what \in {"set", "remove"}, Advance(t, Marked(t, Here(t).what, TRUE))
        PROVE  th'[t].pos = th[t].pos + 1 /\ th'[t].applied
    <3>1. PICK q : q = Marked(t, Here(t).what, TRUE)
      OBVIOUS
    <3>2. Running(t) /\ ~th[t].failed /\ Here(t).do = "effect" /\ Counts(Here(t).what)
      BY <2>1, <2>3 DEF At, Counts
    <3>3. /\ q \in Records /\ q.op = th[t].op /\ q.result = th[t].result /\ q.pos = th[t].pos
          /\ q.failed = th[t].failed /\ q.applied
      BY <3>1, <3>2, MarkedShape
    <3>4. Only(t, q) /\ (th[t].pos = Len(Steps(t)) \/ Moved(t, q))
      BY <2>3, <3>1, <3>2, <3>3, AdvanceShape
    <3>5. th[t].pos # Len(Steps(t))
      BY <3>2, NotLast, Standing
    <3>. QED
      BY <3>3, <3>4, <3>5 DEF Only, Moved
  <2>. QED
    BY <2>1, <2>2, <2>3, <2>4
<1>12. CASE DoSnapshot(t)
  BY <1>12 DEF DoSnapshot
<1>13. CASE DoCompare(t)
  BY <1>13 DEF DoCompare
<1>14. CASE DoSync(t)
  BY <1>14 DEF DoSync
<1>15. CASE DoAccount(t)
  BY <1>15 DEF DoAccount
<1>16. CASE DoStore(t)
  BY <1>16 DEF DoStore
<1>17. CASE DoForget(t)
  BY <1>17 DEF DoForget
<1>18. CASE DoMutate(t)
  BY <1>18 DEF DoMutate
<1>19. CASE DoSwitch(t)
  <2>1. At(t, "switch") /\ rev' = rev + 1 /\ counter' = counter
    BY <1>19 DEF DoSwitch
  <2>2. bp' = bp \/ bp' \in Leftovers
    BY <1>19 DEF DoSwitch, Leftovers
  <2>3. ASSUME bp' \in Leftovers
        PROVE  Fetched
    <3>1. CASE bp' = NoBreakpoint
      BY <3>1 DEF Fetched, NoBreakpoint
    <3>2. CASE bp' \in [armed : {TRUE}, total : 0..MaxHits, pending : {0}, by : {0}]
      <4>1. bp'.armed = TRUE /\ bp'.total \in 0..MaxHits /\ bp'.pending = 0 /\ bp'.by = 0
        BY <3>2
      <4>2. bp'.total \in Nat
        BY <4>1, LimitAssumption
      <4>3. PICK n \in Nat : n = bp'.total
        BY <4>2
      <4>4. bp' = [armed |-> TRUE, total |-> n, pending |-> 0, by |-> 0]
        BY <3>2, <4>3
      <4>. QED
        BY <4>4 DEF Fetched
    <3>. QED
      BY <2>3, <3>1, <3>2 DEF Leftovers
  <2>. QED
    BY <2>1, <2>2, <2>3
<1>20. CASE Recheck(t)
  BY <1>20 DEF Recheck
<1>. QED
  BY <1>1, <1>2, <1>3, <1>4, <1>5, <1>6, <1>7, <1>8, <1>9, <1>10, <1>11, <1>12, <1>13, <1>14,
     <1>15, <1>16, <1>17, <1>18, <1>19, <1>20
  DEF StepOf

\* A poll takes the server's count and what was pending of it.
LEMMA PolledStep ==
  ASSUME Typed, Placed, NEW t \in Threads, DoAsk(t), Here(t).what = "hits",
         Here(t).fail = "recheck"
  PROVE  \/ Ends(t) \/ th'[t].failed
         \/ /\ th'[t].total = bp.total /\ th'[t].hits \in Nat /\ th'[t].hits <= bp.pending
            /\ bp' = [bp EXCEPT !.pending = 0]
PROOF
<1>1. Running(t) /\ ~th[t].failed /\ Here(t).do = "ask" /\ th[t] \in Records
  BY DEF DoAsk, At, Typed
<1>2. CASE Fail(t, th[t])
  <2>1. th' = [th EXCEPT ![t] = [th[t] EXCEPT !.failed = TRUE, !.lease = 0]]
    BY <1>2 DEF Fail
  <2>. QED
    BY <1>1, <2>1 DEF Typed, Records
<1>3. CASE Served(t)
  <2>1. PICK n : n = IF bp.pending < Limit THEN bp.pending ELSE Limit
    OBVIOUS
  <2>2. n \in Nat /\ n <= bp.pending /\ bp.total \in Nat
    BY <2>1, LimitAssumption DEF Typed
  <2>3. bp' = [bp EXCEPT !.pending = 0] /\ Advance(t, [th[t] EXCEPT !.total = bp.total, !.hits = n])
    BY <1>3, <2>1 DEF Served
  <2>4. PICK q : q = [th[t] EXCEPT !.total = bp.total, !.hits = n]
    OBVIOUS
  <2>5. /\ q \in Records /\ q.op = th[t].op /\ q.result = th[t].result /\ q.pos = th[t].pos
        /\ q.failed = th[t].failed /\ q.total = bp.total /\ q.hits = n /\ q.applied = th[t].applied
    BY <1>1, <2>2, <2>4 DEF Records
  <2>6. Only(t, q) /\ ((Ended(t, "ok") /\ th[t].pos = Len(Steps(t))) \/ Moved(t, q))
    BY <1>1, <2>3, <2>4, <2>5, AdvanceShape
  <2>7. CASE Ended(t, "ok") /\ th[t].pos = Len(Steps(t))
    BY <1>1, <2>5, <2>6, <2>7 DEF Ends, Only, Results
  <2>8. CASE Moved(t, q)
    BY <2>2, <2>3, <2>5, <2>8 DEF Moved
  <2>. QED
    BY <2>6, <2>7, <2>8
<1>. QED
  BY <1>2, <1>3 DEF DoAsk


\* Who touches the counter or the breakpoint, and where it stands.
LEMMA Located ==
  ASSUME Typed, Placed, NEW t \in Threads, Running(t)
  PROVE  /\ Here(t).do = "sync" => th[t].op \in Trackers /\ th[t].pos = SyncAt(th[t].op)
         /\ Here(t).do = "store" => th[t].op = "breakpointHits" /\ th[t].pos = 9
         /\ Here(t).do = "account" => th[t].op = "breakpointHits" /\ th[t].pos = 7
         /\ Here(t).do = "forget" => th[t].op \in Trackers \ {"breakpointHits"} /\ th[t].pos = 9
         /\ Here(t).do = "ask" /\ Here(t).what = "hits" => th[t].op = "breakpointHits" /\ th[t].pos = 5
         /\ Here(t).do = "effect" /\ Here(t).what \in {"set", "remove"} =>
               th[t].op \in Trackers \ {"breakpointHits"} /\ th[t].pos = 6
         /\ Here(t).do = "effect" /\ Here(t).what \in {"set", "remove"} => th[t].op \in Replacers
PROOF
<1>1. /\ th[t].op \in Operations /\ th[t].pos \in Nat /\ th[t].pos \in 1..Len(Steps(t))
      /\ Len(Steps(t)) \in Nat
  BY Standing
<1>2. CASE th[t].op \notin Trackers
  <2>1. Unrelated(Steps(t))
    BY <1>1, <1>2, OthersUnrelated DEF Steps
  <2>. QED
    BY <1>1, <2>1 DEF Unrelated, Here
<1>3. CASE th[t].op \in Trackers \ {"breakpointHits"}
  <2>1. PICK p : p = Program[th[t].op] /\ Here(t) = p[th[t].pos] /\ Len(Steps(t)) = Len(p)
    BY DEF Steps, Here
  <2>2. MutateShape(th[t].op, p)
    BY <1>3, <2>1, MutateSteps
  <2>3. th[t].pos \in {1, 2, 3, 4, 5, 6, 7, 8, 9} /\ (th[t].pos = 9 => Len(p) = 9)
    <3>1. Len(p) = 8 \/ Len(p) = 9
      BY <2>2 DEF MutateShape
    <3>2. CASE Len(p) = 8
      BY <1>1, <2>1, <3>2
    <3>3. CASE Len(p) = 9
      BY <1>1, <2>1, <3>3
    <3>. QED
      BY <3>1, <3>2, <3>3
  <2>4. SyncAt(th[t].op) = 4
    BY <1>3 DEF SyncAt
  <2>5. CASE th[t].pos = 1
    BY <1>3, <2>1, <2>2, <2>3, <2>4, <2>5 DEF MutateShape
  <2>6. CASE th[t].pos = 2
    BY <1>3, <2>1, <2>2, <2>3, <2>4, <2>6 DEF MutateShape
  <2>7. CASE th[t].pos = 3
    BY <1>3, <2>1, <2>2, <2>3, <2>4, <2>7 DEF MutateShape
  <2>8. CASE th[t].pos = 4
    BY <1>3, <2>1, <2>2, <2>3, <2>4, <2>8 DEF MutateShape
  <2>9. CASE th[t].pos = 5
    BY <1>3, <2>1, <2>2, <2>3, <2>4, <2>9 DEF MutateShape
  <2>10. CASE th[t].pos = 6
    BY <1>3, <2>1, <2>2, <2>3, <2>4, <2>10 DEF MutateShape
  <2>11. CASE th[t].pos = 7
    BY <1>3, <2>1, <2>2, <2>3, <2>4, <2>11 DEF MutateShape
  <2>12. CASE th[t].pos = 8
    BY <1>3, <2>1, <2>2, <2>3, <2>4, <2>12 DEF MutateShape
  <2>13. CASE th[t].pos = 9
    BY <1>3, <2>1, <2>2, <2>3, <2>4, <2>13 DEF MutateShape
  <2>. QED
    BY <2>3, <2>5, <2>6, <2>7, <2>8, <2>9, <2>10, <2>11, <2>12, <2>13
<1>4. CASE th[t].op = "breakpointHits"
  <2>1. PICK p : p = Program[th[t].op] /\ Here(t) = p[th[t].pos] /\ Len(Steps(t)) = Len(p)
    BY DEF Steps, Here
  <2>2. /\ Len(p) = 9
        /\ p[1].do = "check" /\ p[1].scope = "tgt"
        /\ p[2].do = "lock" /\ p[2].mutex = "breakpoint" /\ p[3].do = "sync"
        /\ p[4].do = "begin" /\ p[4].fail = "recheck"
        /\ p[5].do = "ask" /\ p[5].fail = "recheck"
        /\ p[6].do = "drop" /\ p[7].do = "account" /\ p[8].do = "check" /\ p[9].do = "store"
    BY <1>4, <2>1, HitsSteps
  <2>3. th[t].pos \in {1, 2, 3, 4, 5, 6, 7, 8, 9}
    BY <1>1, <2>1, <2>2
  <2>4. SyncAt(th[t].op) = 3 /\ th[t].op \in Trackers
    BY <1>4 DEF SyncAt, Trackers
  <2>5. CASE th[t].pos = 1
    BY <1>4, <2>1, <2>2, <2>4, <2>5
  <2>6. CASE th[t].pos = 2
    BY <1>4, <2>1, <2>2, <2>4, <2>6
  <2>7. CASE th[t].pos = 3
    BY <1>4, <2>1, <2>2, <2>4, <2>7
  <2>8. CASE th[t].pos = 4
    BY <1>4, <2>1, <2>2, <2>4, <2>8
  <2>9. CASE th[t].pos = 5
    BY <1>4, <2>1, <2>2, <2>4, <2>9
  <2>10. CASE th[t].pos = 6
    BY <1>4, <2>1, <2>2, <2>4, <2>10
  <2>11. CASE th[t].pos = 7
    BY <1>4, <2>1, <2>2, <2>4, <2>11
  <2>12. CASE th[t].pos = 8
    BY <1>4, <2>1, <2>2, <2>4, <2>12
  <2>13. CASE th[t].pos = 9
    BY <1>4, <2>1, <2>2, <2>4, <2>13
  <2>. QED
    BY <2>3, <2>5, <2>6, <2>7, <2>8, <2>9, <2>10, <2>11, <2>12, <2>13
<1>. QED
  BY <1>2, <1>3, <1>4

\* A tracker never skips, and takes the mutex at its second step.
LEMMA Tracking ==
  ASSUME Typed, Placed, NEW t \in Threads, Running(t), th[t].op \in Trackers
  PROVE  /\ Here(t).do \in Failing => Here(t).fail # "skip"
         /\ th[t].pos = 1 => Here(t).do = "check" /\ Here(t).scope = "tgt"
         /\ th[t].pos = 2 => Here(t).do = "lock" /\ Here(t).mutex = "breakpoint"
         /\ th[t].pos = SyncAt(th[t].op) => Here(t).do = "sync"
         /\ th[t].pos \in Nat /\ th[t].pos > 0 /\ SyncAt(th[t].op) \in {3, 4}
PROOF
<1>1. /\ th[t].op \in Operations /\ th[t].pos \in Nat /\ th[t].pos > 0
      /\ th[t].pos \in 1..Len(Steps(t)) /\ Len(Steps(t)) \in Nat
  BY Standing
<1>3. CASE th[t].op \in Trackers \ {"breakpointHits"}
  <2>1. PICK p : p = Program[th[t].op] /\ Here(t) = p[th[t].pos] /\ Len(Steps(t)) = Len(p)
    BY DEF Steps, Here
  <2>2. MutateShape(th[t].op, p)
    BY <1>3, <2>1, MutateSteps
  <2>3. th[t].pos \in {1, 2, 3, 4, 5, 6, 7, 8, 9} /\ (th[t].pos = 9 => Len(p) = 9)
    <3>1. Len(p) = 8 \/ Len(p) = 9
      BY <2>2 DEF MutateShape
    <3>2. CASE Len(p) = 8
      BY <1>1, <2>1, <3>2
    <3>3. CASE Len(p) = 9
      BY <1>1, <2>1, <3>3
    <3>. QED
      BY <3>1, <3>2, <3>3
  <2>4. SyncAt(th[t].op) = 4
    BY <1>3 DEF SyncAt
  <2>5. CASE th[t].pos = 1
    BY <1>1, <1>3, <2>1, <2>2, <2>3, <2>4, <2>5 DEF MutateShape, Failing
  <2>6. CASE th[t].pos = 2
    BY <1>1, <1>3, <2>1, <2>2, <2>3, <2>4, <2>6 DEF MutateShape, Failing
  <2>7. CASE th[t].pos = 3
    BY <1>1, <1>3, <2>1, <2>2, <2>3, <2>4, <2>7 DEF MutateShape, Failing
  <2>8. CASE th[t].pos = 4
    BY <1>1, <1>3, <2>1, <2>2, <2>3, <2>4, <2>8 DEF MutateShape, Failing
  <2>9. CASE th[t].pos = 5
    BY <1>1, <1>3, <2>1, <2>2, <2>3, <2>4, <2>9 DEF MutateShape, Failing
  <2>10. CASE th[t].pos = 6
    BY <1>1, <1>3, <2>1, <2>2, <2>3, <2>4, <2>10 DEF MutateShape, Failing
  <2>11. CASE th[t].pos = 7
    BY <1>1, <1>3, <2>1, <2>2, <2>3, <2>4, <2>11 DEF MutateShape, Failing
  <2>12. CASE th[t].pos = 8
    BY <1>1, <1>3, <2>1, <2>2, <2>3, <2>4, <2>12 DEF MutateShape, Failing
  <2>13. CASE th[t].pos = 9
    BY <1>1, <1>3, <2>1, <2>2, <2>3, <2>4, <2>13 DEF MutateShape, Failing
  <2>. QED
    BY <2>3, <2>5, <2>6, <2>7, <2>8, <2>9, <2>10, <2>11, <2>12, <2>13
<1>4. CASE th[t].op = "breakpointHits"
  <2>1. PICK p : p = Program[th[t].op] /\ Here(t) = p[th[t].pos] /\ Len(Steps(t)) = Len(p)
    BY DEF Steps, Here
  <2>2. /\ Len(p) = 9
        /\ p[1].do = "check" /\ p[1].scope = "tgt"
        /\ p[2].do = "lock" /\ p[2].mutex = "breakpoint" /\ p[3].do = "sync"
        /\ p[4].do = "begin" /\ p[4].fail = "recheck"
        /\ p[5].do = "ask" /\ p[5].fail = "recheck"
        /\ p[6].do = "drop" /\ p[7].do = "account" /\ p[8].do = "check" /\ p[9].do = "store"
    BY <1>4, <2>1, HitsSteps
  <2>3. th[t].pos \in {1, 2, 3, 4, 5, 6, 7, 8, 9}
    BY <1>1, <2>1, <2>2
  <2>4. SyncAt(th[t].op) = 3 /\ th[t].op \in Trackers
    BY <1>4 DEF SyncAt, Trackers
  <2>5. CASE th[t].pos = 1
    BY <1>1, <1>4, <2>1, <2>2, <2>4, <2>5 DEF Failing
  <2>6. CASE th[t].pos = 2
    BY <1>1, <1>4, <2>1, <2>2, <2>4, <2>6 DEF Failing
  <2>7. CASE th[t].pos = 3
    BY <1>1, <1>4, <2>1, <2>2, <2>4, <2>7 DEF Failing
  <2>8. CASE th[t].pos = 4
    BY <1>1, <1>4, <2>1, <2>2, <2>4, <2>8 DEF Failing
  <2>9. CASE th[t].pos = 5
    BY <1>1, <1>4, <2>1, <2>2, <2>4, <2>9 DEF Failing
  <2>10. CASE th[t].pos = 6
    BY <1>1, <1>4, <2>1, <2>2, <2>4, <2>10 DEF Failing
  <2>11. CASE th[t].pos = 7
    BY <1>1, <1>4, <2>1, <2>2, <2>4, <2>11 DEF Failing
  <2>12. CASE th[t].pos = 8
    BY <1>1, <1>4, <2>1, <2>2, <2>4, <2>12 DEF Failing
  <2>13. CASE th[t].pos = 9
    BY <1>1, <1>4, <2>1, <2>2, <2>4, <2>13 DEF Failing
  <2>. QED
    BY <2>3, <2>5, <2>6, <2>7, <2>8, <2>9, <2>10, <2>11, <2>12, <2>13
<1>. QED
  BY <1>3, <1>4

\* As long as u has breakpointMutex_, no other step touches the counter, and
\* only a switch of the target touches the breakpoint.
LEMMA Excluded ==
  ASSUME Typed, Placed, Guarded, NEW t \in Threads, NEW u \in Threads, u # t,
         Running(u), th[u].op \in Trackers, th[u].pos > 2, Running(t), Books(t)
  PROVE  \/ UNCHANGED <<counter, bp>>
         \/ At(t, "switch") /\ rev' = rev + 1 /\ counter' = counter /\ Fetched
PROOF
<1>1. holder["breakpoint"] = u
  BY DEF Guarded
<1>2. ~(th[t].op \in Trackers /\ th[t].pos > 2)
  BY <1>1 DEF Guarded
<1>3. /\ Here(t).do \notin {"sync", "store", "forget"}
      /\ ~(Here(t).do = "ask" /\ Here(t).what = "hits")
      /\ ~(Here(t).do = "effect" /\ Here(t).what \in {"set", "remove"})
  BY <1>2, Located DEF Trackers, SyncAt
<1>. QED
  BY <1>3 DEF Books, At

\* The mutex is kept, and so is the target of the counters under it.
LEMMA GuardedStep ==
  ASSUME Typed, Placed, Owned, Guarded, NEW t \in Threads, StepOf(t)
  PROVE  Guarded'
PROOF
<1>0. Stepped(t) /\ Books(t) /\ Running(t)
  BY StepShape, BooksStep DEF Stepped
<1>1. ASSUME NEW u \in Threads, u # t, Running(u)', th'[u].op \in Trackers
      PROVE  /\ th'[u].pos > 1 => th'[u].att
             /\ th'[u].pos > 2 => holder'["breakpoint"] = u
             /\ th'[u].pos > SyncAt(th'[u].op) => counter'.rev = th'[u].rev
  <2>1. th'[u] = th[u] /\ Running(u)
    BY <1>0, <1>1 DEF Stepped, Running
  <2>2. /\ th[u].pos > 1 => th[u].att
        /\ th[u].pos > 2 => holder["breakpoint"] = u
        /\ th[u].pos > SyncAt(th[u].op) => counter.rev = th[u].rev
    BY <1>1, <2>1 DEF Guarded
  <2>3. th[u].pos > 2 => holder'["breakpoint"] = u
    BY <1>0, <1>1, <2>2, KeepsStep DEF Mutexes
  <2>4. th[u].pos > SyncAt(th[u].op) => th[u].pos > 2
    BY <1>1, <2>1, Tracking
  <2>5. th[u].pos > 2 => counter' = counter
    BY <1>0, <1>1, <2>1, Excluded
  <2>. QED
    BY <2>1, <2>2, <2>3, <2>4, <2>5
<1>2. ASSUME Running(t)', th'[t].op \in Trackers
      PROVE  /\ th'[t].pos > 1 => th'[t].att
             /\ th'[t].pos > 2 => holder'["breakpoint"] = t
             /\ th'[t].pos > SyncAt(th'[t].op) => counter'.rev = th'[t].rev
  <2>1. th'[t].op = th[t].op /\ th'[t].rev = th[t].rev /\ th'[t].att = th[t].att
    BY <1>0 DEF Stepped
  <2>2. /\ th[t].pos > 1 => th[t].att
        /\ th[t].pos > 2 => holder["breakpoint"] = t
        /\ th[t].pos > SyncAt(th[t].op) => counter.rev = th[t].rev
    BY <1>0, <1>2, <2>1 DEF Guarded
  <2>3. /\ Here(t).do \in Failing => Here(t).fail # "skip"
        /\ th[t].pos = 1 => Here(t).do = "check" /\ Here(t).scope = "tgt"
        /\ th[t].pos = 2 => Here(t).do = "lock" /\ Here(t).mutex = "breakpoint"
        /\ th[t].pos = SyncAt(th[t].op) => Here(t).do = "sync"
        /\ th[t].pos \in Nat /\ th[t].pos > 0 /\ SyncAt(th[t].op) \in {3, 4}
    BY <1>0, <1>2, <2>1, Tracking
  <2>4. counter'.rev = counter.rev \/ counter'.rev = th[t].rev
    BY <1>0 DEF Books, Typed
  <2>5. CASE Ends(t)
    BY <1>2, <2>5 DEF Ends, Ended, Running
  <2>6. CASE Stays(t)
    <3>1. th'[t].pos = th[t].pos /\ (holder'["breakpoint"] = holder["breakpoint"])
      BY <2>3, <2>6 DEF Stays, Flagged, Skipped, Without, Mutexes, Ports
    <3>. QED
      BY <2>1, <2>2, <2>4, <3>1
  <2>7. CASE Goes(t)
    <3>1. th'[t].pos = th[t].pos + 1 /\ ~th[t].failed
      BY <2>7 DEF Goes
    <3>2. holder["breakpoint"] = t => holder'["breakpoint"] = t
      BY <2>7, CallerAssumption DEF Goes, Typed, Free, Without, Ports, Mutexes
    <3>3. th[t].pos = 2 => holder'["breakpoint"] = t
      BY <2>3, <2>7 DEF Goes, Typed, Mutexes
    <3>4. ASSUME th[t].pos = 1
          PROVE  th[t].att
      <4>1. Here(t).do = "check" /\ Here(t).scope = "tgt"
        BY <2>3, <3>4
      <4>2. DoCheck(t)
        BY <3>1, <4>1, Which
      <4>3. ASSUME NEW r, Finish(t, th[t], r)
            PROVE  FALSE
        <5>1. th'[t].pos = 0
          BY <4>3, <1>0 DEF Finish, Typed, Records
        <5>. QED
          BY <5>1, <3>1, <2>3
      <4>4. ValidateContext(t, "tgt") = "ok"
        BY <4>1, <4>2, <4>3 DEF DoCheck
      <4>. QED
        BY <4>4 DEF ValidateContext
    <3>5. ASSUME th[t].pos = SyncAt(th[t].op)
          PROVE  counter'.rev = th[t].rev
      <4>1. DoSync(t)
        BY <2>3, <3>1, <3>5, Which
      <4>. QED
        BY <4>1 DEF DoSync
    <3>6. th'[t].pos > 1 => th[t].pos = 1 \/ th[t].pos > 1
      BY <2>3, <3>1
    <3>7. th'[t].pos > 2 => th[t].pos = 2 \/ th[t].pos > 2
      BY <2>3, <3>1
    <3>8. th'[t].pos > SyncAt(th[t].op) => th[t].pos = SyncAt(th[t].op) \/ th[t].pos > SyncAt(th[t].op)
      BY <2>3, <3>1
    <3>. QED
      BY <2>1, <2>2, <2>4, <3>2, <3>3, <3>4, <3>5, <3>6, <3>7, <3>8
  <2>. QED
    BY <1>0, <2>5, <2>6, <2>7 DEF Stepped
<1>. QED
  BY <1>1, <1>2 DEF Guarded


\* One that has replaced or removed the breakpoint is about to forget its total.
LEMMA ReplacerAt ==
  ASSUME Typed, Placed, Outcomes, NEW t \in Threads, Replacing(t)
  PROVE  /\ ~th[t].failed /\ Len(Steps(t)) = 9 /\ th[t].pos \in {7, 8, 9}
         /\ th[t].pos = 7 => Here(t).do = "drop"
         /\ th[t].pos = 8 => Here(t).do = "confirm" /\ Here(t).scope = "tgt"
         /\ th[t].pos = 9 => Here(t).do = "forget"
PROOF
<1>1. Running(t) /\ th[t].op \in Replacers /\ th[t].applied
  BY DEF Replacing
<1>2. th[t].pos \in Nat /\ th[t].pos \in 1..Len(Steps(t)) /\ Len(Steps(t)) \in Nat
  BY <1>1, Standing
<1>3. ~th[t].failed /\ Settled(th[t].op, th[t].pos)
  BY <1>1 DEF Outcomes
<1>4. PICK p : p = Program[th[t].op] /\ Here(t) = p[th[t].pos] /\ Len(Steps(t)) = Len(p)
  BY DEF Steps, Here
<1>5. MutateShape(th[t].op, p)
  BY <1>1, <1>4, MutateSteps DEF Trackers, Replacers
<1>6. Len(p) = 9
  BY <1>1, <1>5 DEF MutateShape
<1>7. p[th[t].pos].do \in After
  BY <1>2, <1>3, <1>4 DEF Settled
<1>8. th[t].pos \in {1, 2, 3, 4, 5, 6, 7, 8, 9}
  BY <1>2, <1>4, <1>6
<1>9. th[t].pos \notin {1, 2, 3, 4, 5, 6}
  BY <1>5, <1>7 DEF MutateShape, After
<1>10. th[t].pos \in {7, 8, 9}
  BY <1>8, <1>9
<1>. QED
  BY <1>3, <1>4, <1>5, <1>6, <1>10 DEF MutateShape

\* It forgets it, or its target is gone.
LEMMA ReplacerStep ==
  ASSUME Typed, Placed, Outcomes, Guarded, Contexts, NEW t \in Threads, Replacing(t), StepOf(t)
  PROVE  \/ Replacing(t)'
         \/ counter'.total = NoTotal
         \/ ~up \/ counter.rev # rev
PROOF
<1>1. /\ Running(t) /\ th[t].op \in Replacers /\ th[t].applied /\ th[t] \in Records
      /\ th[t].op \in Trackers /\ th[t].op # "breakpointHits"
  BY DEF Replacing, Typed, Trackers, Replacers
<1>2. /\ ~th[t].failed /\ Len(Steps(t)) = 9 /\ th[t].pos \in {7, 8, 9}
      /\ th[t].pos = 7 => Here(t).do = "drop"
      /\ th[t].pos = 8 => Here(t).do = "confirm" /\ Here(t).scope = "tgt"
      /\ th[t].pos = 9 => Here(t).do = "forget"
  BY ReplacerAt
<1>3. counter.rev = th[t].rev /\ th[t].att
  BY <1>1, <1>2 DEF Guarded, SyncAt
<1>4. CASE th[t].pos = 7
  <2>1. Goto(t, [th[t] EXCEPT !.lease = 0], Without(t, Ports))
    BY <1>2, <1>4, Which DEF DoDrop
  <2>2. PICK q : q = [th[t] EXCEPT !.lease = 0]
    OBVIOUS
  <2>3. q \in Records /\ q.op = th[t].op /\ q.applied = th[t].applied /\ q.pos = 7
    BY <1>1, <1>4, <2>2 DEF Records
  <2>4. th' = [th EXCEPT ![t] = [q EXCEPT !.pos = 8]]
    <3>1. th' = [th EXCEPT ![t] = [q EXCEPT !.pos = q.pos + 1]]
      BY <2>1, <2>2 DEF Goto
    <3>2. q.pos + 1 = 8
      BY <2>3
    <3>. QED
      BY <3>1, <3>2
  <2>5. [q EXCEPT !.pos = 8].op = q.op /\ [q EXCEPT !.pos = 8].applied = q.applied
        /\ [q EXCEPT !.pos = 8].pos = 8
    BY <2>3 DEF Records
  <2>6. th'[t].op \in Replacers /\ th'[t].applied /\ th'[t].pos = 8
    BY <1>1, <2>3, <2>4, <2>5 DEF Typed
  <2>. QED
    BY <2>6 DEF Replacing, Running
<1>5. CASE th[t].pos = 8
  <2>1. DoConfirm(t) /\ Here(t).scope = "tgt"
    BY <1>2, <1>5, Which
  <2>2. CASE ValidateContext(t, "tgt") = "ok"
    <3>1. Goto(t, th[t], holder)
      BY <1>2, <1>5, <2>1, <2>2 DEF DoConfirm, Advance
    <3>2. th' = [th EXCEPT ![t] = [th[t] EXCEPT !.pos = 9]]
      BY <1>5, <3>1 DEF Goto
    <3>3. [th[t] EXCEPT !.pos = 9].op = th[t].op /\ [th[t] EXCEPT !.pos = 9].applied = th[t].applied
          /\ [th[t] EXCEPT !.pos = 9].pos = 9
      BY <1>1 DEF Records
    <3>4. th'[t].op \in Replacers /\ th'[t].applied /\ th'[t].pos = 9
      BY <1>1, <3>2, <3>3 DEF Typed
    <3>. QED
      BY <3>4 DEF Replacing, Running
  <2>3. CASE ValidateContext(t, "tgt") # "ok"
    <3>1. gen # th[t].gen \/ ~up \/ rev # th[t].rev
      BY <1>3, <2>3 DEF ValidateContext, ConnectionValid
    <3>2. gen # th[t].gen => ~up \/ th[t].rev # rev
      BY <1>1 DEF Contexts
    <3>. QED
      BY <1>3, <3>1, <3>2
  <2>. QED
    BY <2>2, <2>3
<1>6. CASE th[t].pos = 9
  <2>1. DoForget(t)
    BY <1>2, <1>6, Which
  <2>2. counter' = [counter EXCEPT !.total = NoTotal]
    BY <2>1 DEF DoForget
  <2>. QED
    BY <2>2 DEF Typed
<1>. QED
  BY <1>2, <1>4, <1>5, <1>6

\* The target and the session last as long as neither the revision nor the
\* connection changes.
LEMMA SameTarget ==
  ASSUME Typed, NEW t \in Threads, World(t), NEW n \in Nat, n <= rev, up', rev' = n
  PROVE  up /\ rev = n /\ ~At(t, "switch")
PROOF
<1>1. rev \in Nat
  BY DEF Typed
<1>2. rev' # rev + 1
  BY <1>1
<1>. QED
  BY <1>2 DEF World

\* The total that is kept never gets ahead of the server's count, except while a
\* new set or a removal is about to forget it.
LEMMA CountedStep ==
  ASSUME Typed, Placed, Owned, Contexts, Outcomes, Guarded, Counted, Polls,
         NEW t \in Threads, StepOf(t)
  PROVE  Counted'
PROOF
<1>0. Stepped(t) /\ Books(t) /\ Running(t) /\ World(t)
  BY StepShape, BooksStep, WorldStep DEF Stepped
<1>1. /\ rev \in Nat /\ counter.rev \in Nat /\ counter.total \in Nat /\ bp.total \in Nat
      /\ bp.pending \in Nat /\ NoTotal \in Nat /\ th[t].rev \in Nat /\ th[t].total \in Nat
      /\ counter \in [rev : Nat, total : Nat]
      /\ bp \in [armed : BOOLEAN, total : Nat, pending : Nat, by : Nat]
  BY LimitAssumption DEF Typed, Records, NoTotal
<1>2. counter.rev <= rev /\ bp.pending <= bp.total /\ th[t].rev <= rev
  BY DEF Counted, Contexts
<1>3. rev' = rev \/ rev' = rev + 1
  BY <1>0 DEF World
<1>4. counter'.rev \in Nat /\ counter'.rev <= rev
  <2>1. counter'.rev = counter.rev \/ counter'.rev = th[t].rev
    BY <1>0, <1>1 DEF Books
  <2>. QED
    BY <1>1, <1>2, <2>1
<1>5. counter'.rev <= rev'
  BY <1>1, <1>3, <1>4
<1>6. bp'.pending <= bp'.total
  BY <1>0, <1>1, <1>2 DEF Books, Fetched, Fresh
<1>7. ASSUME up', counter'.rev = rev'
      PROVE  Consistent' \/ \E v \in Threads : Replacing(v)'
  <2>1. up /\ rev = counter'.rev /\ ~At(t, "switch")
    BY <1>0, <1>4, <1>7, SameTarget
  <2>2. ASSUME counter.rev = rev
        PROVE  Consistent \/ counter'.total = NoTotal \/ \E v \in Threads : Replacing(v)'
    <3>1. CASE Consistent
      BY <3>1
    <3>2. CASE \E v \in Threads : Replacing(v)
      <4>1. PICK v \in Threads : Replacing(v)
        BY <3>2
      <4>2. CASE v = t
        BY <2>1, <2>2, <4>1, <4>2, ReplacerStep
      <4>3. CASE v # t
        <5>1. Replacing(v)'
          BY <1>0, <4>1, <4>3 DEF Replacing, Running, Stepped
        <5>. QED
          BY <5>1
      <4>. QED
        BY <4>2, <4>3
    <3>. QED
      BY <2>1, <2>2, <3>1, <3>2 DEF Counted
  <2>3. counter'.total = NoTotal => Consistent'
    BY DEF Consistent, NoTotal
  <2>4. CASE UNCHANGED <<counter, bp>>
    <3>1. Consistent => Consistent'
      BY <2>4 DEF Consistent, NoTotal
    <3>. QED
      BY <2>1, <2>2, <2>3, <2>4, <3>1
  <2>5. CASE counter' = [rev |-> th[t].rev, total |-> NoTotal]
    BY <2>3, <2>5
  <2>6. CASE At(t, "store") /\ bp' = bp /\ counter' = [counter EXCEPT !.total = th[t].total]
    <3>1. th[t].op = "breakpointHits" /\ th[t].pos = 9 /\ ~th[t].failed
      BY <1>0, <2>6, Located DEF At
    <3>2. counter.rev = th[t].rev
      BY <1>0, <3>1 DEF Guarded, SyncAt, Trackers
    <3>3. th[t].rev = rev /\ counter'.total = th[t].total
      BY <1>1, <2>1, <2>6, <3>2
    <3>4. bp.total >= th[t].total + bp.pending
      BY <1>0, <2>1, <3>1, <3>3 DEF Polls
    <3>. QED
      BY <2>6, <3>3, <3>4 DEF Consistent
  <2>7. CASE counter' = [counter EXCEPT !.total = NoTotal]
    BY <1>1, <2>3, <2>7
  <2>8. CASE /\ counter' = counter
             /\ bp' = [bp EXCEPT !.pending = 0]
    <3>1. bp'.total = bp.total /\ bp'.pending = 0
      BY <1>1, <2>8
    <3>2. ASSUME Consistent
          PROVE  Consistent'
      <4>1. CASE counter.total = NoTotal
        BY <2>3, <2>8, <4>1
      <4>2. CASE bp.total >= counter.total + bp.pending
        <5>1. bp'.total >= counter'.total + bp'.pending
          BY <1>1, <2>8, <3>1, <4>2
        <5>. QED
          BY <5>1 DEF Consistent
      <4>. QED
        BY <3>2, <4>1, <4>2 DEF Consistent
    <3>. QED
      BY <2>1, <2>2, <2>3, <2>8, <3>2
  <2>9. CASE /\ At(t, "effect") /\ Here(t).what \in {"set", "remove"}
             /\ th'[t].pos = th[t].pos + 1 /\ th'[t].applied
    <3>1. th[t].op \in Replacers /\ th[t].pos = 6
      BY <1>0, <2>9, Located DEF At
    <3>2. Replacing(t)'
      BY <1>0, <2>9, <3>1 DEF Replacing, Running, Stepped
    <3>. QED
      BY <3>2
  <2>. QED
    BY <1>0, <1>7, <2>1, <2>4, <2>5, <2>6, <2>7, <2>8, <2>9 DEF Books
<1>. QED
  BY <1>5, <1>6, <1>7 DEF Counted


\* As long as its target stays, a poll finds the server's count at the total it
\* keeps and remembers a count that later ones do not fall below.
LEMMA PollsStep ==
  ASSUME Typed, Placed, Owned, Contexts, Outcomes, Guarded, Counted, Polls,
         NEW t \in Threads, StepOf(t)
  PROVE  Polls'
PROOF
<1>0. Stepped(t) /\ Books(t) /\ Running(t) /\ World(t) /\ th[t] \in Records
  BY StepShape, BooksStep, WorldStep DEF Stepped, Typed
<1>1. /\ rev \in Nat /\ counter.rev \in Nat /\ counter.total \in Nat /\ bp.total \in Nat
      /\ bp.pending \in Nat /\ NoTotal \in Nat /\ th[t].hits \in Nat /\ th[t].total \in Nat
      /\ counter \in [rev : Nat, total : Nat]
      /\ bp \in [armed : BOOLEAN, total : Nat, pending : Nat, by : Nat]
  BY <1>0, LimitAssumption DEF Typed, Records, NoTotal
<1>2. bp.pending <= bp.total
  BY DEF Counted
<1>3. ASSUME NEW u \in Threads, up', th[u].rev = rev'
      PROVE  up /\ th[u].rev = rev /\ ~At(t, "switch")
  <2>1. th[u].rev \in Nat /\ th[u].rev <= rev
    BY DEF Typed, Records, Contexts
  <2>. QED
    BY <1>0, <1>3, <2>1, SameTarget
<1>8. ASSUME NEW u \in Threads, th[u].rev # rev
      PROVE  th[u].rev # rev'
  <2>1. th[u].rev \in Nat /\ th[u].rev < rev /\ (rev' = rev \/ rev' = rev + 1)
    BY <1>0, <1>1, <1>8 DEF Typed, Records, Contexts, World
  <2>. QED
    BY <1>1, <2>1
<1>4. ASSUME NEW u \in Threads, u # t, Running(u)', ~th'[u].failed, th'[u].op = "breakpointHits"
      PROVE  /\ th'[u].pos = 5 => Consistent' \/ th'[u].rev # rev'
             /\ th'[u].pos \in {6, 7} =>
                  /\ th'[u].hits <= th'[u].total
                  /\ \/ counter'.total = NoTotal
                     \/ th'[u].total >= counter'.total + th'[u].hits
                     \/ th'[u].rev # rev'
             /\ th'[u].pos \in 6..9 /\ up' /\ th'[u].rev = rev' =>
                  bp'.total >= th'[u].total + bp'.pending
  <2>1. /\ th'[u] = th[u] /\ Running(u) /\ ~th[u].failed /\ th[u].op = "breakpointHits"
        /\ th[u].pos \in Nat
    BY <1>0, <1>4 DEF Stepped, Running, Typed, Records
  <2>2. /\ th[u].pos = 5 => Consistent \/ th[u].rev # rev
        /\ th[u].pos \in {6, 7} =>
             /\ th[u].hits <= th[u].total
             /\ \/ counter.total = NoTotal
                \/ th[u].total >= counter.total + th[u].hits
                \/ th[u].rev # rev
        /\ th[u].pos \in 6..9 /\ up /\ th[u].rev = rev =>
             bp.total >= th[u].total + bp.pending
    BY <2>1 DEF Polls
  <2>3. CASE th[u].pos <= 2
    BY <2>1, <2>3
  <2>4. CASE th[u].pos > 2
    <3>1. \/ UNCHANGED <<counter, bp>>
          \/ At(t, "switch") /\ counter' = counter /\ rev' = rev + 1
      BY <1>0, <1>4, <2>1, <2>4, Excluded DEF Trackers
    <3>2. CASE UNCHANGED <<counter, bp>>
      <4>1. Consistent => Consistent'
        BY <3>2 DEF Consistent, NoTotal
      <4>. QED
        BY <1>3, <1>8, <2>1, <2>2, <3>2, <4>1
    <3>3. CASE At(t, "switch") /\ counter' = counter /\ rev' = rev + 1
      <4>1. th[u].rev # rev'
        BY <1>1, <3>3 DEF Contexts, Typed, Records
      <4>. QED
        BY <2>1, <2>2, <4>1
    <3>. QED
      BY <3>1, <3>2, <3>3
  <2>. QED
    BY <2>1, <2>3, <2>4
<1>5. ASSUME Running(t)', ~th'[t].failed, th'[t].op = "breakpointHits", th'[t].pos \in 5..9
      PROVE  /\ th'[t].pos = 5 => Consistent' \/ th'[t].rev # rev'
             /\ th'[t].pos \in {6, 7} =>
                  /\ th'[t].hits <= th'[t].total
                  /\ \/ counter'.total = NoTotal
                     \/ th'[t].total >= counter'.total + th'[t].hits
                     \/ th'[t].rev # rev'
             /\ th'[t].pos \in 6..9 /\ up' /\ th'[t].rev = rev' =>
                  bp'.total >= th'[t].total + bp'.pending
  <2>1. th[t].op = "breakpointHits" /\ th'[t].rev = th[t].rev /\ th[t].op \in Trackers
    BY <1>0, <1>5 DEF Stepped, Trackers
  <2>2. PICK p : p = Program["breakpointHits"] /\ Here(t) = p[th[t].pos] /\ Steps(t) = p
    BY <2>1 DEF Steps, Here
  <2>3. /\ Len(p) = 9 /\ p[1].do = "check" /\ p[2].do = "lock" /\ p[3].do = "sync"
        /\ p[4].do = "begin" /\ p[4].port = "debug" /\ p[4].scope = "tgt" /\ p[4].fail = "recheck"
        /\ p[5].do = "ask" /\ p[5].what = "hits" /\ p[5].fail = "recheck"
        /\ p[6].do = "drop" /\ p[7].do = "account" /\ p[8].do = "check" /\ p[9].do = "store"
    BY <2>2, HitsSteps
  <2>4. th[t].pos \in {1, 2, 3, 4, 5, 6, 7, 8, 9}
    <3>1. th[t].pos \in Nat /\ th[t].pos \in 1..9
      BY <1>0, <2>2, <2>3, Standing
    <3>. QED
      BY <3>1
  <2>5. Goes(t) /\ ~Ends(t)
    <3>1. ~Ends(t)
      BY <1>5 DEF Ends, Ended, Running
    <3>2. ASSUME Stays(t)
          PROVE  FALSE
      <4>1. Here(t).do \in Failing /\ ~Skipped(t)
        <5>1. Here(t).do \in Failing
          BY <3>2 DEF Stays
        <5>. QED
          BY <1>0, <2>1, <5>1, Tracking DEF Skipped
      <4>2. Here(t).do = "begin" /\ th'[t].pos = th[t].pos
        BY <1>5, <3>2, <4>1 DEF Stays, Flagged
      <4>3. th[t].pos = 4
        BY <2>2, <2>3, <2>4, <4>2
      <4>. QED
        BY <1>5, <4>2, <4>3
    <3>. QED
      BY <1>0, <3>1, <3>2 DEF Stepped
  <2>6. th'[t].pos = th[t].pos + 1 /\ ~th[t].failed
        /\ (Here(t).do = "ask" \/ (th'[t].hits = th[t].hits /\ th'[t].total = th[t].total))
    BY <2>5 DEF Goes
  <2>7. th[t].pos \in {4, 5, 6, 7, 8}
    BY <1>5, <2>4, <2>6
  <2>8. /\ th[t].pos = 5 => Consistent \/ th[t].rev # rev
        /\ th[t].pos \in {6, 7} =>
             /\ th[t].hits <= th[t].total
             /\ \/ counter.total = NoTotal
                \/ th[t].total >= counter.total + th[t].hits
                \/ th[t].rev # rev
        /\ th[t].pos \in 6..9 /\ up /\ th[t].rev = rev =>
             bp.total >= th[t].total + bp.pending
    BY <1>0, <2>1, <2>6 DEF Polls
  <2>9. th[t].pos # 5 => UNCHANGED <<counter, bp>>
    <3>1. th[t].pos # 5 => Here(t).do \in {"begin", "drop", "account", "check"}
      BY <2>2, <2>3, <2>7
    <3>. QED
      BY <1>0, <3>1 DEF Books, At
  <2>10. CASE th[t].pos = 4
    <3>1. Here(t).do = "begin" /\ Here(t).scope = "tgt"
      BY <2>2, <2>3, <2>10
    <3>2. ContextMatches(t, "tgt")
      BY <2>5, <3>1 DEF Goes
    <3>3. up /\ rev = th[t].rev /\ counter.rev = th[t].rev /\ holder["breakpoint"] = t
      BY <1>0, <2>1, <2>10, <3>2 DEF ContextMatches, Guarded, SyncAt
    <3>4. ASSUME NEW v \in Threads, Replacing(v)
          PROVE  FALSE
      <4>1. th[v].pos \in {7, 8, 9} /\ Running(v) /\ th[v].op \in Replacers
        BY <3>4, ReplacerAt DEF Replacing
      <4>2. holder["breakpoint"] = v
        BY <4>1 DEF Guarded, Trackers, Replacers
      <4>. QED
        BY <2>1, <3>3, <4>1, <4>2 DEF Replacers
    <3>5. Consistent
      BY <3>3, <3>4 DEF Counted
    <3>6. Consistent' /\ th'[t].pos = 5
      BY <2>6, <2>9, <2>10, <3>5 DEF Consistent, NoTotal
    <3>. QED
      BY <3>6
  <2>11. CASE th[t].pos = 5
    <3>1. Here(t).do = "ask" /\ Here(t).what = "hits" /\ Here(t).fail = "recheck"
      BY <2>2, <2>3, <2>11
    <3>2. DoAsk(t)
      BY <2>6, <3>1, Which
    <3>3. /\ th'[t].total = bp.total /\ th'[t].hits \in Nat /\ th'[t].hits <= bp.pending
          /\ bp' = [bp EXCEPT !.pending = 0]
      BY <1>5, <2>5, <3>1, <3>2, PolledStep
    <3>4. counter' = counter /\ th'[t].pos = 6
      BY <2>6, <2>11, <3>2 DEF DoAsk, books
    <3>5. bp'.total = bp.total /\ bp'.pending = 0
      BY <1>1, <3>3
    <3>6. th'[t].hits <= th'[t].total
      BY <1>1, <1>2, <3>3
    <3>7. \/ counter'.total = NoTotal
          \/ th'[t].total >= counter'.total + th'[t].hits
          \/ th'[t].rev # rev'
      BY <1>1, <1>8, <2>1, <2>8, <2>11, <3>3, <3>4 DEF Consistent
    <3>8. bp'.total >= th'[t].total + bp'.pending
      BY <1>1, <3>3, <3>5
    <3>. QED
      BY <3>4, <3>6, <3>7, <3>8
  <2>12. CASE th[t].pos \in {6, 7, 8}
    <3>1. Here(t).do # "ask" /\ UNCHANGED <<counter, bp>>
      BY <2>2, <2>3, <2>9, <2>12
    <3>2. th'[t].hits = th[t].hits /\ th'[t].total = th[t].total
      BY <2>6, <3>1
    <3>3. th'[t].pos \in {6, 7} => th[t].pos = 6
      BY <2>6, <2>12
    <3>4. up' /\ th[t].rev = rev' => up /\ th[t].rev = rev
      BY <1>3
    <3>5. th'[t].pos # 5 /\ th[t].pos \in 6..9
      BY <2>6, <2>12
    <3>. QED
      BY <1>8, <2>1, <2>8, <3>1, <3>2, <3>3, <3>4, <3>5
  <2>. QED
    BY <2>7, <2>10, <2>11, <2>12
<1>6. ASSUME Running(t)', ~th'[t].failed, th'[t].op = "breakpointHits", th'[t].pos \notin 5..9
      PROVE  th'[t].pos # 5 /\ th'[t].pos \notin {6, 7} /\ th'[t].pos \notin 6..9
  <2>1. th'[t].pos \in Nat
    BY <1>0 DEF Stepped, Records
  <2>. QED
    BY <1>6, <2>1
<1>. QED
  BY <1>4, <1>5, <1>6 DEF Polls

\* What a poll accounts for was added since the total it starts from, unless the
\* target has moved.
LEMMA AccountStep ==
  ASSUME Typed, Placed, Contexts, Polls, PollConsistent, NEW t \in Threads, StepOf(t)
  PROVE  PollConsistent'
PROOF
<1>1. Stepped(t) /\ Running(t) /\ World(t)
  BY StepShape, WorldStep DEF Stepped
<1>3. ASSUME NEW u \in Threads, th[u].rev # rev
      PROVE  th[u].rev # rev'
  <2>1. th[u].rev \in Nat /\ rev \in Nat /\ th[u].rev <= rev /\ (rev' = rev \/ rev' = rev + 1)
    BY <1>1 DEF Typed, Records, Contexts, World
  <2>. QED
    BY <1>3, <2>1
<1>2. th'[t].result = "inconsistent" => th'[t].rev # rev'
  <2>0. th'[t].rev = th[t].rev
    BY <1>1 DEF Stepped
  <2>1. CASE Ends(t)
    <3>1. PICK r \in Results \ {"none"} :
            /\ Ended(t, r)
            /\ r = "inconsistent" => At(t, "account") /\ NewHits(th[t].total, counter.total) < th[t].hits
      BY <2>1 DEF Ends
    <3>2. ASSUME r = "inconsistent", th[t].rev = rev
          PROVE  FALSE
      <4>1. At(t, "account") /\ NewHits(th[t].total, counter.total) < th[t].hits
        BY <3>1, <3>2
      <4>2. th[t].op = "breakpointHits" /\ th[t].pos = 7 /\ ~th[t].failed
        BY <1>1, <4>1, Located DEF At
      <4>3. /\ th[t].hits <= th[t].total
            /\ \/ counter.total = NoTotal
               \/ th[t].total >= counter.total + th[t].hits
        BY <1>1, <3>2, <4>2 DEF Polls
      <4>4. th[t].hits \in Nat /\ th[t].total \in Nat /\ counter.total \in Nat /\ NoTotal \in Nat
        BY LimitAssumption DEF Typed, Records, NoTotal
      <4>. QED
        BY <4>1, <4>3, <4>4 DEF NewHits
    <3>. QED
      BY <1>3, <2>0, <3>1, <3>2 DEF Ended
  <2>2. CASE Goes(t) \/ Stays(t)
    BY <1>3, <2>0, <2>2 DEF Goes, Stays, Flagged, Skipped, PollConsistent
  <2>. QED
    BY <1>1, <2>1, <2>2 DEF Stepped
<1>. QED
  BY <1>1, <1>2, <1>3 DEF Stepped, PollConsistent


-----------------------------------------------------------------------------
(* The invariant.                                                           *)

\* The record of a server without a breakpoint is well-formed.
LEMMA NoBreakpointTyped ==
  NoBreakpoint \in [armed : BOOLEAN, total : Nat, pending : Nat, by : Nat]
  BY DEF NoBreakpoint

\* Every variable stays in its domain.
LEMMA TypedStep ==
  ASSUME Typed, Placed, NEW t \in Threads, StepOf(t)
  PROVE  Typed'
PROOF
<1>1. Stepped(t) /\ Books(t) /\ World(t) /\ th[t] \in Records
  BY StepShape, BooksStep, WorldStep DEF Typed
<1>2. th' \in [Threads -> Records] /\ holder' \in [Mutexes -> Threads \cup {NoThread}]
  BY <1>1 DEF Stepped
<1>3. gen' \in Nat /\ rev' \in Nat /\ dev' \in Nat
  BY <1>1 DEF World, Typed
<1>4. up' \in BOOLEAN /\ attached' \in BOOLEAN
  BY <1>1 DEF World, Typed
<1>5. counter' \in [rev : Nat, total : Nat]
  <2>1. th[t].rev \in Nat /\ th[t].total \in Nat /\ NoTotal \in Nat
    BY <1>1, LimitAssumption DEF Records, NoTotal
  <2>. QED
    BY <1>1, <2>1 DEF Books, Typed
<1>6. bp' \in [armed : BOOLEAN, total : Nat, pending : Nat, by : Nat]
  <2>1. bp \in [armed : BOOLEAN, total : Nat, pending : Nat, by : Nat]
    BY DEF Typed
  <2>2. [bp EXCEPT !.pending = 0] \in [armed : BOOLEAN, total : Nat, pending : Nat, by : Nat]
    BY <2>1
  <2>. QED
    BY <1>1, <2>1, <2>2 DEF Books, Fetched, Fresh
<1>7. symtab' \in [mod : Modules \cup {NoModule}, of : Nat] /\ scene' \in Scenes
  <2>. USE DEF Typed, server
  <2>1. CASE DoCheck(t)
    BY <2>1 DEF DoCheck
  <2>2. CASE DoVerify(t)
    BY <2>2 DEF DoVerify
  <2>3. CASE DoGuard(t)
    BY <2>3 DEF DoGuard
  <2>4. CASE DoConfirm(t)
    BY <2>4 DEF DoConfirm
  <2>5. CASE DoLock(t)
    BY <2>5 DEF DoLock
  <2>6. CASE TakeLease(t)
    BY <2>6 DEF TakeLease
  <2>7. CASE TakePort(t)
    BY <2>7 DEF TakePort
  <2>8. CASE DoDrop(t)
    BY <2>8 DEF DoDrop
  <2>9. CASE DoInspect(t)
    BY <2>9 DEF DoInspect
  <2>10. CASE DoEffect(t)
    BY <2>10 DEF DoEffect
  <2>11. CASE DoSnapshot(t)
    BY <2>11 DEF DoSnapshot
  <2>12. CASE DoCompare(t)
    BY <2>12 DEF DoCompare
  <2>13. CASE DoSync(t)
    BY <2>13 DEF DoSync
  <2>14. CASE DoAccount(t)
    BY <2>14 DEF DoAccount
  <2>15. CASE DoStore(t)
    BY <2>15 DEF DoStore
  <2>16. CASE DoForget(t)
    BY <2>16 DEF DoForget
  <2>17. CASE DoMutate(t)
    BY <2>17 DEF DoMutate
  <2>18. CASE DoSwitch(t)
    BY <2>18 DEF DoSwitch
  <2>19. CASE Recheck(t)
    BY <2>19 DEF Recheck
  <2>20. CASE DoAsk(t)
    <3>1. /\ scene' = scene
          /\ \/ symtab' = symtab \/ symtab' = SymbolInit(t) \/ symtab' = [mod |-> NoModule, of |-> 0]
      BY <2>20 DEF DoAsk, Served
    <3>2. SymbolInit(t) \in [mod : Modules \cup {NoModule}, of : Nat]
      BY <1>1 DEF SymbolInit, Records
    <3>. QED
      BY <3>1, <3>2
  <2>. QED
    BY <2>1, <2>2, <2>3, <2>4, <2>5, <2>6, <2>7, <2>8, <2>9, <2>10, <2>11, <2>12, <2>13, <2>14,
       <2>15, <2>16, <2>17, <2>18, <2>19, <2>20
    DEF StepOf
<1>. QED
  BY <1>2, <1>3, <1>4, <1>5, <1>6, <1>7 DEF Typed

\* A caller's step keeps the invariant.
LEMMA StepInvariant ==
  ASSUME ServiceInv, NEW t \in Threads, StepOf(t)
  PROVE  ServiceInv'
PROOF
<1>. USE DEF ServiceInv
<1>1. Stepped(t) /\ World(t)
  BY StepShape, WorldStep
<1>2. Typed' /\ Placed'
  BY <1>1, TypedStep, PlacedStep
<1>3. Owned' /\ Contexts' /\ Opened' /\ Aimed' /\ EffectsOnContextTarget'
  BY <1>1, OwnedStep, ContextsStep, OpenedStep, AimedStep, TouchedStep
<1>4. Outcomes' /\ OutcomeHonest'
  BY <1>1, OutcomesStep
<1>5. Guarded' /\ Counted' /\ Polls' /\ PollConsistent'
  BY GuardedStep, CountedStep, PollsStep, AccountStep
<1>. QED
  BY <1>2, <1>3, <1>4, <1>5

\* A call starts at the first step of its program, with nothing behind it.
LEMMA CallInvariant ==
  ASSUME ServiceInv, NEW t \in Threads, NEW o \in Operations, NEW m \in Modules \cup {NoModule},
         Call(t, o, m)
  PROVE  ServiceInv'
PROOF
<1>. USE CallerAssumption
<1>1. /\ Typed /\ Placed /\ Owned /\ Contexts /\ Opened /\ Aimed /\ Outcomes /\ Guarded
      /\ Counted /\ Polls
      /\ EffectsOnContextTarget /\ OutcomeHonest /\ PollConsistent
  BY DEF ServiceInv
<1>2. PICK q : q = [Idle EXCEPT !.op = o, !.pos = 1, !.gen = gen, !.rev = rev, !.att = attached, !.mod = m]
  OBVIOUS
<1>3. /\ q \in Records /\ q.op = o /\ q.pos = 1 /\ ~q.failed /\ q.gen = gen /\ q.rev = rev
      /\ q.att = attached /\ ~q.applied /\ q.touched = {} /\ q.result = "none"
  <2>1. gen \in Nat /\ rev \in Nat /\ attached \in BOOLEAN
    BY <1>1 DEF Typed
  <2>. QED
    BY <1>2, <2>1 DEF Idle, Records
<1>4. /\ th' = [th EXCEPT ![t] = q] /\ Free("state") /\ ~Running(t)
      /\ UNCHANGED <<gen, up, rev, attached, dev, holder, scene, bp, symtab, counter>>
  BY <1>2 DEF Call, target, server, books
<1>5. th' \in [Threads -> Records] /\ th'[t] = q /\ \A u \in Threads : u # t => th'[u] = th[u]
  BY <1>1, <1>3, <1>4 DEF Typed
<1>6. Sound(Program[o]) /\ Program[o][1].do = "check" /\ 1 <= Len(Program[o])
  <2>1. PICK p : p = Program[o]
    OBVIOUS
  <2>2. Sound(p)
    BY <2>1, ProgramSound
  <2>3. p[1].do = "check" /\ Len(p) >= 1 /\ Len(p) \in Nat
    BY <2>2 DEF Sound
  <2>. QED
    BY <2>1, <2>2, <2>3
<1>7. Running(t)' /\ Here(t)' = Program[o][1] /\ Steps(t)' = Program[o]
  BY <1>3, <1>5 DEF Running, Here, Steps
<1>8. \A u \in Threads : u # t => /\ Running(u)' <=> Running(u)
                                  /\ Here(u)' = Here(u) /\ Steps(u)' = Steps(u)
  BY <1>5 DEF Running, Here, Steps
<1>9. Typed'
  BY <1>1, <1>4, <1>5 DEF Typed
<1>10. Placed'
  BY <1>1, <1>3, <1>5, <1>6, <1>7, <1>8 DEF Placed
<1>11. Owned'
  <2>1. holder'["state"] = NoThread /\ holder["state"] = NoThread
    BY <1>4 DEF Free
  <2>2. ~At(t, "switch")'
    BY <1>6, <1>7 DEF At
  <2>3. \A u \in Threads : u # t => ~At(u, "switch")'
    BY <1>1, <1>5, <1>8, <2>1 DEF At, Owned
  <2>. QED
    BY <2>1, <2>2, <2>3 DEF Owned
<1>12. Contexts'
  <2>1. rev <= rev /\ gen <= gen
    BY <1>1 DEF Typed
  <2>2. Free("state")'
    BY <1>4 DEF Free
  <2>3. ASSUME NEW u \in Threads, u # t
        PROVE  /\ th'[u].rev <= rev /\ th'[u].gen <= gen
               /\ Running(u)' /\ th'[u].rev = rev => th'[u].att = attached
               /\ Running(u)' /\ th'[u].gen # gen => ~up \/ th'[u].rev # rev
    BY <1>1, <1>5, <1>8, <2>3 DEF Contexts
  <2>. QED
    BY <1>3, <1>4, <1>5, <2>1, <2>2, <2>3 DEF Contexts
<1>13. Opened'
  BY <1>1, <1>4 DEF Opened, Free
<1>14. Aimed'
  <2>1. ~At(t, "effect")'
    BY <1>6, <1>7 DEF At
  <2>2. ASSUME NEW u \in Threads, u # t, At(u, "effect")', OnTarget(Here(u).what)'
        PROVE  At(u, "effect") /\ OnTarget(Here(u).what)
    BY <1>5, <1>8, <2>2 DEF At, OnTarget
  <2>. QED
    BY <1>1, <1>4, <1>5, <2>1, <2>2 DEF Aimed
<1>15. Outcomes' /\ OutcomeHonest' /\ EffectsOnContextTarget' /\ PollConsistent'
  <2>1. ~Passed(o, 1)
    BY DEF Passed
  <2>. QED
    BY <1>1, <1>3, <1>4, <1>5, <1>8, <2>1
    DEF Outcomes, OutcomeHonest, EffectsOnContextTarget, PollConsistent
<1>16. Guarded'
  <2>1. ~(q.pos > 1) /\ ~(q.pos > 2) /\ ~(q.pos > SyncAt(q.op))
    BY <1>3 DEF SyncAt
  <2>. QED
    BY <1>1, <1>4, <1>5, <1>8, <2>1 DEF Guarded
<1>17. Counted'
  <2>1. Consistent => Consistent'
    BY <1>4 DEF Consistent, NoTotal
  <2>2. ASSUME NEW u \in Threads, Replacing(u)
        PROVE  Replacing(u)'
    <3>1. u # t
      BY <1>4, <2>2 DEF Replacing
    <3>. QED
      BY <1>5, <1>8, <2>2, <3>1 DEF Replacing
  <2>. QED
    BY <1>1, <1>4, <2>1, <2>2 DEF Counted
<1>18. Polls'
  <2>1. Consistent => Consistent'
    BY <1>4 DEF Consistent, NoTotal
  <2>2. q.pos # 5 /\ q.pos \notin {6, 7} /\ q.pos \notin 6..9
    BY <1>3
  <2>3. ASSUME NEW u \in Threads, u # t, Running(u)', ~th'[u].failed, th'[u].op = "breakpointHits"
        PROVE  /\ th'[u].pos = 5 => Consistent' \/ th'[u].rev # rev'
               /\ th'[u].pos \in {6, 7} =>
                    /\ th'[u].hits <= th'[u].total
                    /\ \/ counter'.total = NoTotal
                       \/ th'[u].total >= counter'.total + th'[u].hits
                       \/ th'[u].rev # rev'
               /\ th'[u].pos \in 6..9 /\ up' /\ th'[u].rev = rev' =>
                    bp'.total >= th'[u].total + bp'.pending
    BY <1>1, <1>4, <1>5, <1>8, <2>1, <2>3 DEF Polls
  <2>. QED
    BY <1>5, <2>2, <2>3 DEF Polls
<1>. QED
  BY <1>9, <1>10, <1>11, <1>12, <1>13, <1>14, <1>15, <1>16, <1>17, <1>18 DEF ServiceInv

\* A reconnection leaves every context behind.
LEMMA ReconnectInvariant ==
  ASSUME ServiceInv, Reconnect
  PROVE  ServiceInv'
PROOF
<1>1. /\ Typed /\ Placed /\ Owned /\ Contexts /\ Opened /\ Aimed /\ Outcomes /\ Guarded
      /\ Counted /\ Polls
      /\ EffectsOnContextTarget /\ OutcomeHonest /\ PollConsistent
  BY DEF ServiceInv
<1>2. /\ th' = th /\ holder' = holder /\ counter' = counter /\ symtab' = symtab /\ scene' = scene
      /\ gen' = gen + 1 /\ up' = TRUE /\ rev' = rev + 2 /\ attached' = FALSE /\ dev' = dev
      /\ bp' = bp /\ \A t \in Threads : th[t].lease = 0
  BY DEF Reconnect
<1>3. gen \in Nat /\ rev \in Nat /\ counter.rev \in Nat
      /\ \A t \in Threads : th[t].rev \in Nat /\ th[t].gen \in Nat
  BY <1>1 DEF Typed, Records
<1>4. Typed'
  <2>1. gen' \in Nat /\ rev' \in Nat
    BY <1>2, <1>3
  <2>2. up' \in BOOLEAN /\ attached' \in BOOLEAN
    BY <1>2
  <2>. QED
    BY <1>1, <1>2, <2>1, <2>2 DEF Typed
<1>5. Placed' /\ Owned'
  BY <1>1, <1>2 DEF Placed, Owned, At, Running, Here, Steps
<1>6. Contexts'
  <2>1. \A t \in Threads : th[t].rev <= rev' /\ th[t].gen <= gen' /\ th[t].rev # rev'
    BY <1>1, <1>2, <1>3 DEF Contexts
  <2>. QED
    BY <1>2, <2>1 DEF Contexts
<1>7. Opened'
  BY <1>2 DEF Opened
<1>8. Aimed'
  <2>1. ASSUME NEW t \in Threads, At(t, "effect")', OnTarget(Here(t).what)'
        PROVE  FALSE
    <3>1. At(t, "effect") /\ OnTarget(Here(t).what)
      BY <1>2, <2>1 DEF At, Running, Here, Steps, OnTarget
    <3>. QED
      BY <1>1, <1>2, <3>1 DEF Aimed
  <2>. QED
    BY <2>1 DEF Aimed
<1>9. Outcomes' /\ OutcomeHonest' /\ EffectsOnContextTarget' /\ Guarded'
  BY <1>1, <1>2
  DEF Outcomes, OutcomeHonest, EffectsOnContextTarget, Guarded, Running
<1>12. PollConsistent'
  <2>1. \A t \in Threads : th[t].rev # rev'
    BY <1>1, <1>2, <1>3 DEF Contexts
  <2>. QED
    BY <1>2, <2>1 DEF PollConsistent
<1>10. Counted'
  <2>1. counter'.rev <= rev' /\ counter'.rev # rev'
    BY <1>1, <1>2, <1>3 DEF Counted
  <2>2. bp'.pending <= bp'.total
    BY <1>1, <1>2 DEF Counted
  <2>. QED
    BY <2>1, <2>2 DEF Counted
<1>11. Polls'
  <2>1. \A t \in Threads : th[t].rev # rev'
    BY <1>1, <1>2, <1>3 DEF Contexts
  <2>. QED
    BY <1>1, <1>2, <2>1 DEF Polls, Running
<1>. QED
  BY <1>4, <1>5, <1>6, <1>7, <1>8, <1>9, <1>10, <1>11, <1>12 DEF ServiceInv

\* A hit is counted and pending at once.
LEMMA HitInvariant ==
  ASSUME ServiceInv, Hit
  PROVE  ServiceInv'
PROOF
<1>1. /\ Typed /\ Placed /\ Owned /\ Contexts /\ Opened /\ Aimed /\ Outcomes /\ Guarded
      /\ Counted /\ Polls
      /\ EffectsOnContextTarget /\ OutcomeHonest /\ PollConsistent
  BY DEF ServiceInv
<1>2. /\ th' = th /\ holder' = holder /\ counter' = counter /\ symtab' = symtab /\ scene' = scene
      /\ UNCHANGED <<gen, up, rev, attached, dev>> /\ bp.armed
      /\ bp' = [bp EXCEPT !.total = bp.total + 1, !.pending = bp.pending + 1]
  BY DEF Hit, target, books
<1>3. /\ bp \in [armed : BOOLEAN, total : Nat, pending : Nat, by : Nat] /\ bp.total \in Nat
      /\ bp.pending \in Nat
      /\ counter.total \in Nat /\ \A t \in Threads : th[t].total \in Nat
  BY <1>1 DEF Typed, Records
<1>4. /\ bp' \in [armed : BOOLEAN, total : Nat, pending : Nat, by : Nat] /\ bp'.total = bp.total + 1
      /\ bp'.pending = bp.pending + 1
  <2>1. PICK m \in Nat, n \in Nat : m = bp.total + 1 /\ n = bp.pending + 1
    BY <1>3
  <2>2. bp' = [bp EXCEPT !.total = m, !.pending = n]
    BY <1>2, <2>1
  <2>. QED
    BY <1>3, <2>1, <2>2
<1>5. Typed'
  BY <1>1, <1>2, <1>4 DEF Typed
<1>6. Placed' /\ Owned' /\ Contexts' /\ Opened'
  BY <1>1, <1>2 DEF Placed, Owned, Contexts, Opened, Free, At, Running, Here, Steps
<1>7. Aimed'
  <2>1. ASSUME NEW t \in Threads, At(t, "effect")', OnTarget(Here(t).what)'
        PROVE  At(t, "effect") /\ OnTarget(Here(t).what)
    BY <1>2, <2>1 DEF At, Running, Here, Steps, OnTarget
  <2>. QED
    BY <1>1, <1>2, <2>1 DEF Aimed
<1>8. Outcomes' /\ OutcomeHonest' /\ EffectsOnContextTarget' /\ PollConsistent' /\ Guarded'
  BY <1>1, <1>2
  DEF Outcomes, OutcomeHonest, EffectsOnContextTarget, PollConsistent, Guarded, Running
<1>9. ASSUME NEW n \in Nat, bp.total >= n + bp.pending
      PROVE  bp'.total >= n + bp'.pending
  BY <1>3, <1>4, <1>9
<1>10. Consistent => Consistent'
  BY <1>2, <1>3, <1>9 DEF Consistent, NoTotal
<1>11. Counted'
  <2>1. bp'.pending <= bp'.total
    BY <1>1, <1>3, <1>4 DEF Counted
  <2>2. \A t \in Threads : Replacing(t) => Replacing(t)'
    BY <1>2 DEF Replacing, Running
  <2>. QED
    BY <1>1, <1>2, <1>10, <2>1, <2>2 DEF Counted
<1>12. Polls'
  BY <1>1, <1>2, <1>3, <1>9, <1>10 DEF Polls, Running
<1>. QED
  BY <1>5, <1>6, <1>7, <1>8, <1>11, <1>12 DEF ServiceInv

\* The invariant holds at the start, polled breakpoint or not.
LEMMA InitInvariant ==
  ASSUME Init
  PROVE  ServiceInv
PROOF
<1>. USE CallerAssumption
<1>1. /\ gen = 1 /\ up = TRUE /\ rev = 2 /\ attached = TRUE /\ dev = 2 /\ scene \in Scenes
      /\ holder = [m \in Mutexes |-> NoThread] /\ th = [t \in Threads |-> Idle]
      /\ symtab = [mod |-> NoModule, of |-> 0]
  BY DEF Init
<1>2. \/ /\ counter = [rev |-> 2, total |-> 1]
         /\ bp = [armed |-> TRUE, total |-> 1, pending |-> 0, by |-> 1]
      \/ counter = [rev |-> 0, total |-> NoTotal] /\ bp = NoBreakpoint
  BY DEF Init
<1>3. NoTotal \in Nat
  BY LimitAssumption DEF NoTotal
<1>4. /\ Idle \in Records /\ Idle.pos = 0 /\ ~Idle.failed /\ Idle.lease = 0 /\ Idle.rev = 0
      /\ Idle.gen = 0
      /\ Idle.touched = {} /\ Idle.result = "none"
  BY DEF Idle, Records
<1>5. \A t \in Threads : th[t] = Idle /\ ~Running(t)
  BY <1>1, <1>4 DEF Running
<1>6. Typed
  <2>1. gen \in Nat /\ rev \in Nat /\ dev \in Nat
    BY <1>1
  <2>2. up \in BOOLEAN /\ attached \in BOOLEAN
    BY <1>1
  <2>3. holder \in [Mutexes -> Threads \cup {NoThread}] /\ th \in [Threads -> Records]
    BY <1>1, <1>4
  <2>4. /\ [rev |-> 2, total |-> 1] \in [rev : Nat, total : Nat]
        /\ [rev |-> 0, total |-> NoTotal] \in [rev : Nat, total : Nat]
    BY <1>3
  <2>5. [armed |-> TRUE, total |-> 1, pending |-> 0, by |-> 1] \in [armed : BOOLEAN, total : Nat, pending : Nat, by : Nat]
    OBVIOUS
  <2>6. symtab \in [mod : Modules \cup {NoModule}, of : Nat]
    BY <1>1
  <2>. QED
    BY <1>1, <1>2, <2>1, <2>2, <2>3, <2>4, <2>5, <2>6, NoBreakpointTyped DEF Typed
<1>7. /\ Placed /\ Outcomes /\ OutcomeHonest /\ EffectsOnContextTarget /\ PollConsistent
      /\ Guarded /\ Polls
  BY <1>4, <1>5
  DEF Placed, Outcomes, OutcomeHonest, EffectsOnContextTarget, PollConsistent, Guarded, Polls
<1>8. Owned /\ Aimed
  BY <1>1, <1>5 DEF Owned, Aimed, At, Mutexes
<1>9. Contexts /\ Opened
  <2>1. \A t \in Threads : th[t].rev <= rev /\ th[t].gen <= gen
    BY <1>1, <1>4, <1>5
  <2>. QED
    BY <1>1, <1>5, <2>1 DEF Contexts, Opened
<1>10. Counted
  BY <1>1, <1>2, <1>3 DEF Counted, Consistent, NoBreakpoint
<1>. QED
  BY <1>6, <1>7, <1>8, <1>9, <1>10 DEF ServiceInv

\* The invariant of the service, whatever the callers, the scenes, the bounds
\* and the number of connections are.
THEOREM ServiceInvariance == Spec => []ServiceInv
PROOF
<1>1. Init => ServiceInv
  BY InitInvariant
<1>2. ServiceInv /\ [Next]_vars => ServiceInv'
  <2>. SUFFICES ASSUME ServiceInv, [Next]_vars
                PROVE  ServiceInv'
    OBVIOUS
  <2>1. ASSUME NEW t \in Threads, StepOf(t)
        PROVE  ServiceInv'
    BY <2>1, StepInvariant
  <2>2. ASSUME NEW t \in Threads, NEW o \in Operations, NEW m \in Modules \cup {NoModule}, Call(t, o, m)
        PROVE  ServiceInv'
    BY <2>2, CallInvariant
  <2>3. CASE Reconnect
    BY <2>3, ReconnectInvariant
  <2>4. CASE Hit
    BY <2>4, HitInvariant
  <2>5. CASE UNCHANGED vars
    <3>1. /\ Typed' /\ Placed' /\ Owned' /\ Contexts' /\ Opened' /\ Outcomes' /\ Guarded'
          /\ Counted'
      BY <2>5
      DEF ServiceInv, vars, Typed, Placed, Owned, Contexts, Opened, Outcomes, Guarded, Counted,
          Consistent, Replacing, Free, At, Running, Here, Steps
    <3>2. Aimed' /\ Polls' /\ EffectsOnContextTarget' /\ OutcomeHonest' /\ PollConsistent'
      BY <2>5
      DEF ServiceInv, vars, Aimed, Polls, EffectsOnContextTarget, OutcomeHonest,
          PollConsistent, Consistent, At, Running, Here, Steps
    <3>. QED
      BY <3>1, <3>2 DEF ServiceInv
  <2>. QED
    BY <2>1, <2>2, <2>3, <2>4, <2>5 DEF Next
<1>. QED
  BY <1>1, <1>2, PTL DEF Spec

\* OutcomeHonest: in all 27 operations, through lost answers, budgets that run
\* out and targets that change on the way, "retry" is only answered when no
\* effect took place and "ok" only when it did.
THEOREM OutcomesAreHonest == Spec => []OutcomeHonest
  BY ServiceInvariance, PTL DEF ServiceInv

\* EffectsOnContextTarget: an effect asked for over MAIN acts on the process the
\* caller's context names, because the port is taken with the target matched
\* and a switch needs the same port.
THEOREM EffectsReachContext == Spec => []EffectsOnContextTarget
  BY ServiceInvariance, PTL DEF ServiceInv

\* PollConsistent: breakpointHits rejects an answer as inconsistent only if its
\* target moved meanwhile: every other way the server's count starts again (a
\* removal, a second set) forgets the total that was kept.
THEOREM PollsConsistent == Spec => []PollConsistent
  BY ServiceInvariance, PTL DEF ServiceInv

-----------------------------------------------------------------------------
(* The server's one symbol table.                                           *)

\* An operation on symbols holds symbolMutex_ from its second step on; what it
\* has seen is of its module, and so is the table once it has been initialised.
Symbols ==
    \A t \in Threads : th[t].op \in SymbolOperations =>
        /\ \A p \in th[t].saw : p.mod = th[t].mod
        /\ Running(t) /\ th[t].pos > 2 => holder["symbol"] = t
        /\ Running(t) /\ th[t].pos > 6 /\ th[t].op # "resolveSymbol" => symtab.mod = th[t].mod

\* No step of p reads or changes the table.
Silent(p) == \A i \in 1..Len(p) : p[i].do = "ask" => p[i].what \notin {"init", "find", "page"}

\* The other 24 operations leave the table alone.
LEMMA OthersSilent ==
  ASSUME NEW o \in Operations \ SymbolOperations
  PROVE  Silent(Program[o])
PROOF
<1>. USE DEF Silent,
       Check, Verify, Guard, Lock, Begin, Ask, Effect, Drop, Inspect, Confirm, Snapshot, Compare,
       Sync, Account, Store, Forget
<1>1. Silent(Status)
  BY DEF Status
<1>2. Silent(ServerVersion)
  BY DEF ServerVersion
<1>3. Silent(MemoryType)
  BY DEF MemoryType
<1>4. Silent(InitializeDriver)
  BY DEF InitializeDriver
<1>5. Silent(ListProcesses)
  BY DEF ListProcesses
<1>6. Silent(OpenProcess)
  BY DEF OpenProcess
<1>7. Silent(ListModules)
  BY DEF ListModules
<1>8. Silent(ResolveModule)
  BY DEF ResolveModule
<1>9. Silent(ResolvePointer)
  BY DEF ResolvePointer
<1>10. Silent(ReadMemory)
  BY DEF ReadMemory
<1>11. Silent(ReadMemoryBatch)
  BY DEF ReadMemoryBatch
<1>12. Silent(WriteMemory)
  BY DEF WriteMemory
<1>13. Silent(SetBreakpoint)
  BY DEF SetBreakpoint, MutateBreakpoint
<1>14. Silent(RemoveBreakpoint)
  BY DEF RemoveBreakpoint, MutateBreakpoint
<1>15. Silent(SuspendBreakpoint)
  BY DEF SuspendBreakpoint, MutateBreakpoint
<1>16. Silent(ResumeBreakpoint)
  BY DEF ResumeBreakpoint, MutateBreakpoint
<1>17. Silent(BreakpointHits)
  BY DEF BreakpointHits
<1>18. Silent(BreakpointSlots)
  BY DEF BreakpointSlots
<1>19. Silent(InstallUxnBreakpoint)
  BY DEF InstallUxnBreakpoint, RequireKernelMemoryMode
<1>20. Silent(RemoveUxnBreakpoint)
  BY DEF RemoveUxnBreakpoint, RequireKernelMemoryMode
<1>21. Silent(WaitUxnBreakpoint)
  BY DEF WaitUxnBreakpoint, RequireKernelMemoryMode
<1>22. Silent(ResumeUxnBreakpoint)
  BY DEF ResumeUxnBreakpoint, RequireKernelMemoryMode
<1>23. Silent(QueryUxnBreakpointStatus)
  BY DEF QueryUxnBreakpointStatus, RequireKernelMemoryMode
<1>24. Silent(ClearUxnBreakpoints)
  BY DEF ClearUxnBreakpoints, RequireKernelMemoryMode
<1>. HIDE DEF Silent
<1>. QED
  BY <1>1, <1>2, <1>3, <1>4, <1>5, <1>6, <1>7, <1>8, <1>9, <1>10, <1>11, <1>12, <1>13, <1>14,
     <1>15, <1>16, <1>17, <1>18, <1>19, <1>20, <1>21, <1>22, <1>23, <1>24
  DEF Operations, Program, SymbolOperations

\* The three that do: symbolMutex_ first, then the table is initialised, then
\* its pages are read; resolveSymbol does it in one request.
SymbolShape(o, p) ==
    /\ p[2].do = "lock" /\ p[2].mutex = "symbol" /\ p[6].do = "ask"
    /\ o # "resolveSymbol" => p[6].what = "init" /\ p[6].fail = "retry"
    /\ \A i \in 1..Len(p) :
          /\ p[i].do # "snapshot"
          /\ p[i].do \in Failing => p[i].fail # "skip"
          /\ p[i].do = "ask" /\ p[i].what \in {"init", "find"} => i = 6
          /\ p[i].do = "ask" /\ p[i].what = "init" => p[i].fail = "retry"
          /\ p[i].do = "ask" /\ p[i].what = "page" => i > 6 /\ o # "resolveSymbol"

\* The steps of the operations on symbols.
LEMMA SymbolSteps ==
  ASSUME NEW o \in SymbolOperations
  PROVE  o \in Operations /\ SymbolShape(o, Program[o])
PROOF
<1>. USE DEF SymbolShape, Failing, Check, Lock, Begin, Ask, Inspect, Drop
<1>1. SymbolShape("loadSymbolTable", LoadSymbolTable)
  BY DEF LoadSymbolTable
<1>2. SymbolShape("listSymbols", ListSymbols)
  BY DEF ListSymbols
<1>3. SymbolShape("resolveSymbol", ResolveSymbol)
  BY DEF ResolveSymbol
<1>. HIDE DEF SymbolShape
<1>. QED
  BY <1>1, <1>2, <1>3 DEF SymbolOperations, Operations, Program

\* Where a caller that asks for symbols stands.
LEMMA SymbolAt ==
  ASSUME Typed, Placed, NEW t \in Threads, Running(t)
  PROVE  /\ Here(t).do = "ask" /\ Here(t).what \in {"init", "find", "page"} =>
               th[t].op \in SymbolOperations
         /\ th[t].op \in SymbolOperations =>
               /\ th[t].pos = 2 => Here(t).do = "lock" /\ Here(t).mutex = "symbol"
               /\ th[t].pos = 6 => Here(t).do = "ask"
               /\ th[t].pos = 6 /\ th[t].op # "resolveSymbol" => Here(t).what = "init"
               /\ Here(t).do # "snapshot" /\ (Here(t).do \in Failing => Here(t).fail # "skip")
               /\ Here(t).do = "ask" /\ Here(t).what \in {"init", "find"} => th[t].pos = 6
               /\ Here(t).do = "ask" /\ Here(t).what = "init" => Here(t).fail = "retry"
               /\ Here(t).do = "ask" /\ Here(t).what = "page" =>
                     th[t].pos > 6 /\ th[t].op # "resolveSymbol"
PROOF
<1>1. /\ th[t].op \in Operations /\ th[t].pos \in Nat /\ th[t].pos \in 1..Len(Steps(t))
      /\ Steps(t) = Program[th[t].op]
  BY Standing DEF Steps
<1>2. CASE th[t].op \notin SymbolOperations
  <2>1. Silent(Steps(t))
    BY <1>1, <1>2, OthersSilent
  <2>. QED
    BY <1>1, <1>2, <2>1 DEF Silent, Here
<1>3. CASE th[t].op \in SymbolOperations
  <2>1. SymbolShape(th[t].op, Steps(t))
    BY <1>1, <1>3, SymbolSteps
  <2>. QED
    BY <1>1, <1>3, <2>1 DEF SymbolShape, Here
<1>. QED
  BY <1>2, <1>3

\* What a call has collected is kept by every way to go on.
LEMMA Collected ==
  ASSUME Typed, NEW t \in Threads, NEW rec \in Records,
         \/ \E r : Finish(t, rec, r)
         \/ \E hold : Goto(t, rec, hold)
         \/ Advance(t, rec) \/ Fail(t, rec)
  PROVE  th'[t].mod = rec.mod /\ th'[t].saw = rec.saw
PROOF
<1>0. th \in [Threads -> Records]
  BY DEF Typed
<1>1. ASSUME NEW r, Finish(t, rec, r)
      PROVE  th'[t].mod = rec.mod /\ th'[t].saw = rec.saw
  BY <1>0, <1>1 DEF Finish, Records
<1>2. ASSUME NEW hold, Goto(t, rec, hold)
      PROVE  th'[t].mod = rec.mod /\ th'[t].saw = rec.saw
  BY <1>0, <1>2 DEF Goto, Records
<1>3. CASE Advance(t, rec)
  BY <1>1, <1>2, <1>3 DEF Advance
<1>4. CASE Fail(t, rec)
  <2>1. CASE Here(t).fail \in {"retry", "error"}
    BY <1>1, <1>4, <2>1 DEF Fail
  <2>2. CASE Here(t).fail \notin {"retry", "error"}
    <3>1. \/ th' = [th EXCEPT ![t] = [rec EXCEPT !.failed = TRUE]]
          \/ \E i : th' = [th EXCEPT ![t] = [rec EXCEPT !.lease = 0, !.pos = i]]
          \/ th' = [th EXCEPT ![t] = [rec EXCEPT !.failed = TRUE, !.lease = 0]]
      BY <1>4, <2>2 DEF Fail
    <3>2. ASSUME NEW q, th' = [th EXCEPT ![t] = q]
          PROVE  th'[t] = q
      BY <1>0, <3>2
    <3>3. [rec EXCEPT !.failed = TRUE].mod = rec.mod /\ [rec EXCEPT !.failed = TRUE].saw = rec.saw
      BY DEF Records
    <3>4. ASSUME NEW i
          PROVE  [rec EXCEPT !.lease = 0, !.pos = i].mod = rec.mod
                 /\ [rec EXCEPT !.lease = 0, !.pos = i].saw = rec.saw
      BY DEF Records
    <3>5. [rec EXCEPT !.failed = TRUE, !.lease = 0].mod = rec.mod
          /\ [rec EXCEPT !.failed = TRUE, !.lease = 0].saw = rec.saw
      BY DEF Records
    <3>6. CASE th' = [th EXCEPT ![t] = [rec EXCEPT !.failed = TRUE]]
      BY <3>2, <3>3, <3>6
    <3>7. ASSUME NEW i, th' = [th EXCEPT ![t] = [rec EXCEPT !.lease = 0, !.pos = i]]
          PROVE  th'[t].mod = rec.mod /\ th'[t].saw = rec.saw
      BY <3>2, <3>4, <3>7
    <3>8. CASE th' = [th EXCEPT ![t] = [rec EXCEPT !.failed = TRUE, !.lease = 0]]
      BY <3>2, <3>5, <3>8
    <3>. QED
      BY <3>1, <3>6, <3>7, <3>8
  <2>. QED
    BY <2>1, <2>2
<1>. QED
  BY <1>1, <1>2, <1>3, <1>4

\* The table, and what the caller has collected of it, under a step.
Shows(t) ==
    /\ th'[t].mod = th[t].mod
    /\ \/ symtab' = symtab /\ th'[t].saw = th[t].saw
       \/ symtab' = symtab /\ At(t, "snapshot")
       \/ /\ At(t, "ask") /\ Here(t).what = "page"
          /\ symtab' = symtab /\ th'[t].saw = th[t].saw \cup {symtab}
       \/ /\ At(t, "ask") /\ Here(t).what = "find"
          /\ symtab' = SymbolInit(t) /\ th'[t].saw = th[t].saw \cup {SymbolInit(t)}
       \/ /\ At(t, "ask") /\ Here(t).what = "init" /\ th'[t].saw = th[t].saw
          /\ symtab' = SymbolInit(t) \/ Fail(t, th[t])

\* Every step is one of these.
LEMMA ShowsStep ==
  ASSUME Typed, NEW t \in Threads, StepOf(t)
  PROVE  Shows(t)
PROOF
<1>0. th[t] \in Records /\ th \in [Threads -> Records]
  BY DEF Typed
<1>1. ASSUME symtab' = symtab,
             \/ \E r : Finish(t, th[t], r)
             \/ \E hold : Goto(t, th[t], hold)
             \/ Advance(t, th[t]) \/ Fail(t, th[t])
      PROVE  Shows(t)
  BY <1>0, <1>1, Collected DEF Shows
<1>. USE DEF server
<1>2. CASE DoCheck(t)
  BY <1>1, <1>2 DEF DoCheck
<1>3. CASE DoVerify(t)
  BY <1>1, <1>3 DEF DoVerify
<1>4. CASE DoGuard(t)
  BY <1>1, <1>4 DEF DoGuard
<1>5. CASE DoConfirm(t)
  BY <1>1, <1>5 DEF DoConfirm
<1>6. CASE DoLock(t)
  BY <1>1, <1>6 DEF DoLock
<1>7. CASE TakeLease(t)
  <2>1. ASSUME th' = [th EXCEPT ![t].lease = gen]
        PROVE  th'[t].mod = th[t].mod /\ th'[t].saw = th[t].saw
    BY <1>0, <2>1 DEF Records
  <2>. QED
    BY <1>1, <1>7, <2>1 DEF TakeLease, Shows
<1>8. CASE TakePort(t)
  BY <1>1, <1>8 DEF TakePort
<1>9. CASE DoDrop(t)
  <2>1. [th[t] EXCEPT !.lease = 0] \in Records /\ [th[t] EXCEPT !.lease = 0].mod = th[t].mod
        /\ [th[t] EXCEPT !.lease = 0].saw = th[t].saw
    BY <1>0 DEF Records
  <2>2. Goto(t, [th[t] EXCEPT !.lease = 0], Without(t, Ports)) /\ symtab' = symtab
    BY <1>9 DEF DoDrop
  <2>. QED
    BY <2>1, <2>2, Collected DEF Shows
<1>10. CASE DoInspect(t)
  BY <1>1, <1>10 DEF DoInspect
<1>11. CASE DoAsk(t)
  <2>0. At(t, "ask")
    BY <1>11 DEF DoAsk
  <2>1. CASE Fail(t, th[t]) /\ ~Served(t)
    <3>1. symtab' = symtab \/ Here(t).what = "init"
      BY <1>11, <2>1 DEF DoAsk
    <3>2. th'[t].mod = th[t].mod /\ th'[t].saw = th[t].saw
      BY <1>0, <2>1, Collected
    <3>. QED
      BY <2>0, <2>1, <3>1, <3>2 DEF Shows
  <2>2. CASE Served(t)
    <3>1. \A x \in [mod : Modules \cup {NoModule}, of : Nat] :
             /\ [th[t] EXCEPT !.saw = th[t].saw \cup {x}] \in Records
             /\ [th[t] EXCEPT !.saw = th[t].saw \cup {x}].mod = th[t].mod
             /\ [th[t] EXCEPT !.saw = th[t].saw \cup {x}].saw = th[t].saw \cup {x}
      <4>1. TAKE x \in [mod : Modules \cup {NoModule}, of : Nat]
      <4>2. th[t].saw \cup {x} \in SUBSET [mod : Modules \cup {NoModule}, of : Nat]
        BY <1>0 DEF Records
      <4>3. \A s \in SUBSET [mod : Modules \cup {NoModule}, of : Nat] :
               /\ [th[t] EXCEPT !.saw = s] \in Records
               /\ [th[t] EXCEPT !.saw = s].mod = th[t].mod /\ [th[t] EXCEPT !.saw = s].saw = s
        BY <1>0 DEF Records
      <4>. QED
        BY <4>2, <4>3
    <3>2. symtab \in [mod : Modules \cup {NoModule}, of : Nat]
          /\ SymbolInit(t) \in [mod : Modules \cup {NoModule}, of : Nat]
      BY <1>0 DEF SymbolInit, Typed, Records
    <3>3. CASE Here(t).what = "init"
      BY <1>0, <2>0, <2>2, <3>3, Collected DEF Served, Shows
    <3>4. CASE Here(t).what = "find"
      <4>1. symtab' = SymbolInit(t) /\ Advance(t, [th[t] EXCEPT !.saw = th[t].saw \cup {SymbolInit(t)}])
        BY <2>2, <3>4 DEF Served
      <4>2. th'[t].mod = th[t].mod /\ th'[t].saw = th[t].saw \cup {SymbolInit(t)}
        BY <3>1, <3>2, <4>1, Collected
      <4>. QED
        BY <2>0, <3>4, <4>1, <4>2 DEF Shows
    <3>5. CASE Here(t).what = "page"
      <4>1. symtab' = symtab /\ Advance(t, [th[t] EXCEPT !.saw = th[t].saw \cup {symtab}])
        BY <2>2, <3>5 DEF Served
      <4>2. th'[t].mod = th[t].mod /\ th'[t].saw = th[t].saw \cup {symtab}
        BY <3>1, <3>2, <4>1, Collected
      <4>. QED
        BY <2>0, <3>5, <4>1, <4>2 DEF Shows
    <3>6. CASE Here(t).what = "hits"
      <4>1. PICK n, k : /\ symtab' = symtab /\ n = bp.total
                        /\ k = IF bp.pending < Limit THEN bp.pending ELSE Limit
                        /\ Advance(t, [th[t] EXCEPT !.total = n, !.hits = k])
        BY <2>2, <3>6 DEF Served
      <4>2. n \in Nat /\ k \in Nat
        BY <4>1, LimitAssumption DEF Typed
      <4>3. /\ [th[t] EXCEPT !.total = n, !.hits = k] \in Records
            /\ [th[t] EXCEPT !.total = n, !.hits = k].mod = th[t].mod
            /\ [th[t] EXCEPT !.total = n, !.hits = k].saw = th[t].saw
        BY <1>0, <4>2 DEF Records
      <4>. QED
        BY <4>1, <4>3, Collected DEF Shows
    <3>7. CASE Here(t).what \notin {"init", "find", "page", "hits"}
      BY <1>1, <2>2, <3>7 DEF Served
    <3>. QED
      BY <3>3, <3>4, <3>5, <3>6, <3>7
  <2>. QED
    BY <1>11, <2>1, <2>2 DEF DoAsk
<1>12. CASE DoEffect(t)
  <2>1. symtab' = symtab
    BY <1>12 DEF DoEffect
  <2>2. ASSUME NEW w, NEW done \in BOOLEAN
        PROVE  /\ Marked(t, w, done) \in Records
               /\ Marked(t, w, done).mod = th[t].mod /\ Marked(t, w, done).saw = th[t].saw
    <3>1. PICK a, s : Marked(t, w, done) = [th[t] EXCEPT !.applied = a, !.touched = s]
      BY DEF Marked
    <3>2. [th[t] EXCEPT !.applied = a, !.touched = s].mod = th[t].mod
          /\ [th[t] EXCEPT !.applied = a, !.touched = s].saw = th[t].saw
      BY <1>0 DEF Records
    <3>. QED
      BY <3>1, <3>2, MarkedShape
  <2>3. \/ Fail(t, th[t]) \/ \E r : Finish(t, th[t], r)
        \/ \E w : \E done \in BOOLEAN : \E r : Finish(t, Marked(t, w, done), r)
        \/ \E w : Advance(t, Marked(t, w, TRUE))
    BY <1>12 DEF DoEffect
  <2>4. ASSUME NEW w, NEW done \in BOOLEAN, NEW r,
               Finish(t, Marked(t, w, done), r) \/ Advance(t, Marked(t, w, done))
        PROVE  Shows(t)
    <3>1. th'[t].mod = th[t].mod /\ th'[t].saw = th[t].saw
      BY <2>2, <2>4, Collected
    <3>. QED
      BY <2>1, <3>1 DEF Shows
  <2>. QED
    BY <1>1, <2>1, <2>3, <2>4
<1>13. CASE Recheck(t)
  BY <1>1, <1>13 DEF Recheck
<1>14. CASE DoSnapshot(t)
  <2>1. /\ At(t, "snapshot") /\ symtab' = symtab
        /\ Advance(t, [th[t] EXCEPT !.saw = th[t].saw \cup {[mod |-> NoModule, of |-> rev]}])
    BY <1>14 DEF DoSnapshot
  <2>2. th[t].saw \cup {[mod |-> NoModule, of |-> rev]}
           \in SUBSET [mod : Modules \cup {NoModule}, of : Nat]
    BY <1>0 DEF Records, Typed
  <2>3. \A s \in SUBSET [mod : Modules \cup {NoModule}, of : Nat] :
           [th[t] EXCEPT !.saw = s] \in Records /\ [th[t] EXCEPT !.saw = s].mod = th[t].mod
    BY <1>0 DEF Records
  <2>4. th'[t].mod = th[t].mod
    BY <2>1, <2>2, <2>3, Collected
  <2>. QED
    BY <2>1, <2>4 DEF Shows
<1>15. CASE DoCompare(t)
  BY <1>1, <1>15 DEF DoCompare
<1>16. CASE DoSync(t)
  BY <1>1, <1>16 DEF DoSync
<1>17. CASE DoAccount(t)
  BY <1>1, <1>17 DEF DoAccount
<1>18. CASE DoStore(t)
  BY <1>1, <1>18 DEF DoStore
<1>19. CASE DoForget(t)
  BY <1>1, <1>19 DEF DoForget
<1>20. ASSUME NEW n \in Nat, NEW hold, symtab' = symtab, Goto(t, [th[t] EXCEPT !.lease = n], hold)
       PROVE  Shows(t)
  <2>1. [th[t] EXCEPT !.lease = n] \in Records /\ [th[t] EXCEPT !.lease = n].mod = th[t].mod
        /\ [th[t] EXCEPT !.lease = n].saw = th[t].saw
    BY <1>0 DEF Records
  <2>. QED
    BY <1>20, <2>1, Collected DEF Shows
<1>21. CASE DoMutate(t)
  <2>1. gen \in Nat
    BY DEF Typed
  <2>. QED
    BY <1>1, <1>20, <1>21, <2>1 DEF DoMutate
<1>22. CASE DoSwitch(t)
  <2>1. symtab' = symtab
    BY <1>22 DEF DoSwitch
  <2>2. Fail(t, th[t]) \/ Goto(t, [th[t] EXCEPT !.lease = 0], Without(t, {"state"}))
    BY <1>22 DEF DoSwitch
  <2>. QED
    BY <1>1, <1>20, <2>1, <2>2
<1>. QED
  BY <1>2, <1>3, <1>4, <1>5, <1>6, <1>7, <1>8, <1>9, <1>10, <1>11, <1>12, <1>13, <1>14, <1>15,
     <1>16, <1>17, <1>18, <1>19, <1>21, <1>22
  DEF StepOf

\* The mutex is kept, and under it the table stays of the module asked for.
LEMMA SymbolsStep ==
  ASSUME Typed, Placed, Owned, Symbols, NEW t \in Threads, StepOf(t)
  PROVE  Symbols'
PROOF
<1>0. Stepped(t) /\ Shows(t) /\ Running(t)
  BY StepShape, ShowsStep DEF Stepped
<1>1. symtab' = symtab \/ (th[t].op \in SymbolOperations /\ th[t].pos = 6 /\ holder["symbol"] = t)
  BY <1>0, SymbolAt DEF Shows, At, Symbols
<1>2. ASSUME NEW u \in Threads, u # t, th'[u].op \in SymbolOperations
      PROVE  /\ \A p \in th'[u].saw : p.mod = th'[u].mod
             /\ Running(u)' /\ th'[u].pos > 2 => holder'["symbol"] = u
             /\ Running(u)' /\ th'[u].pos > 6 /\ th'[u].op # "resolveSymbol" =>
                   symtab'.mod = th'[u].mod
  <2>1. th'[u] = th[u] /\ (Running(u)' <=> Running(u)) /\ th[u].pos \in Nat
    BY <1>0, <1>2 DEF Stepped, Running, Typed, Records
  <2>2. holder["symbol"] = u => holder'["symbol"] = u /\ symtab' = symtab
    BY <1>0, <1>1, <1>2, KeepsStep DEF Mutexes
  <2>3. /\ \A p \in th[u].saw : p.mod = th[u].mod
        /\ Running(u) /\ th[u].pos > 2 => holder["symbol"] = u
        /\ Running(u) /\ th[u].pos > 6 /\ th[u].op # "resolveSymbol" => symtab.mod = th[u].mod
    BY <1>2, <2>1 DEF Symbols
  <2>4. th[u].pos > 6 => th[u].pos > 2
    BY <2>1
  <2>. QED
    BY <2>1, <2>2, <2>3, <2>4
<1>3. ASSUME th'[t].op \in SymbolOperations
      PROVE  /\ \A p \in th'[t].saw : p.mod = th'[t].mod
             /\ Running(t)' /\ th'[t].pos > 2 => holder'["symbol"] = t
             /\ Running(t)' /\ th'[t].pos > 6 /\ th'[t].op # "resolveSymbol" =>
                   symtab'.mod = th'[t].mod
  <2>1. th'[t].op = th[t].op /\ th'[t].mod = th[t].mod /\ th[t].pos \in Nat
    BY <1>0, Standing DEF Stepped, Shows
  <2>2. /\ \A p \in th[t].saw : p.mod = th[t].mod
        /\ th[t].pos > 2 => holder["symbol"] = t
        /\ th[t].pos > 6 /\ th[t].op # "resolveSymbol" => symtab.mod = th[t].mod
    BY <1>0, <1>3, <2>1 DEF Symbols
  <2>3. /\ th[t].pos = 2 => Here(t).do = "lock" /\ Here(t).mutex = "symbol"
        /\ th[t].pos = 6 => Here(t).do = "ask"
        /\ th[t].pos = 6 /\ th[t].op # "resolveSymbol" => Here(t).what = "init"
        /\ Here(t).do # "snapshot" /\ (Here(t).do \in Failing => Here(t).fail # "skip")
        /\ Here(t).do = "ask" /\ Here(t).what \in {"init", "find"} => th[t].pos = 6
        /\ Here(t).do = "ask" /\ Here(t).what = "init" => Here(t).fail = "retry"
        /\ Here(t).do = "ask" /\ Here(t).what = "page" => th[t].pos > 6 /\ th[t].op # "resolveSymbol"
    BY <1>0, <1>3, <2>1, SymbolAt
  <2>4. SymbolInit(t).mod = th[t].mod
    BY DEF SymbolInit
  <2>5. \A p \in th'[t].saw : p.mod = th'[t].mod
    BY <1>0, <2>1, <2>2, <2>3, <2>4 DEF Shows, At
  <2>6. CASE Ends(t)
    BY <2>5, <2>6 DEF Ends, Ended, Running
  <2>7. CASE Stays(t)
    <3>1. th'[t].pos = th[t].pos /\ holder'["symbol"] = holder["symbol"]
      BY <2>3, <2>7 DEF Stays, Flagged, Skipped, Without, Mutexes, Ports
    <3>2. th[t].pos > 6 => symtab' = symtab
      BY <1>1, <2>1
    <3>. QED
      BY <2>1, <2>2, <2>5, <3>1, <3>2
  <2>8. CASE Goes(t)
    <3>1. th'[t].pos = th[t].pos + 1 /\ ~th[t].failed
      BY <2>8 DEF Goes
    <3>2. holder["symbol"] = t => holder'["symbol"] = t
      BY <2>8, CallerAssumption DEF Goes, Typed, Free, Without, Ports, Mutexes
    <3>3. th[t].pos = 2 => holder'["symbol"] = t
      BY <2>3, <2>8 DEF Goes, Typed, Mutexes
    <3>4. ASSUME th[t].pos = 6, th[t].op # "resolveSymbol"
          PROVE  symtab'.mod = th[t].mod
      <4>1. Here(t).do = "ask" /\ Here(t).what = "init" /\ Here(t).fail = "retry"
        BY <2>3, <3>4
      <4>2. ~Fail(t, th[t])
        <5>1. SUFFICES ASSUME Fail(t, th[t]) PROVE FALSE
          OBVIOUS
        <5>2. Finish(t, th[t], "retry")
          BY <4>1, <5>1 DEF Fail
        <5>3. th'[t].pos = 0
          BY <5>2 DEF Finish, Typed, Records
        <5>. QED
          BY <2>1, <3>1, <5>3
      <4>3. DoAsk(t)
        BY <3>1, <4>1, Which
      <4>4. symtab' = SymbolInit(t)
        BY <4>1, <4>2, <4>3 DEF DoAsk, Served
      <4>. QED
        BY <2>4, <4>4
    <3>5. th'[t].pos > 2 => th[t].pos = 2 \/ th[t].pos > 2
      BY <2>1, <3>1
    <3>6. th'[t].pos > 6 => th[t].pos = 6 \/ th[t].pos > 6
      BY <2>1, <3>1
    <3>7. th[t].pos > 6 => symtab' = symtab
      BY <1>1, <2>1
    <3>. QED
      BY <2>1, <2>2, <2>5, <3>2, <3>3, <3>4, <3>5, <3>6, <3>7
  <2>. QED
    BY <1>0, <2>6, <2>7, <2>8 DEF Stepped
<1>. QED
  BY <1>2, <1>3 DEF Symbols

\* A call starts with nothing collected, and whoever does not step keeps its part.
LEMMA SymbolsRest ==
  ASSUME Typed, Symbols, holder' = holder, symtab' = symtab,
         \/ th' = th
         \/ \E t \in Threads, o \in Operations, m \in Modules \cup {NoModule} : Call(t, o, m)
  PROVE  Symbols'
PROOF
<1>1. CASE th' = th
  BY <1>1 DEF Symbols, Running
<1>2. ASSUME NEW t \in Threads, NEW o \in Operations, NEW m \in Modules \cup {NoModule}, Call(t, o, m)
      PROVE  Symbols'
  <2>1. PICK q : q = [Idle EXCEPT !.op = o, !.pos = 1, !.gen = gen, !.rev = rev, !.att = attached,
                                  !.mod = m]
    OBVIOUS
  <2>2. q.pos = 1 /\ q.saw = {}
    BY <2>1 DEF Idle
  <2>3. th'[t] = q /\ \A u \in Threads : u # t => th'[u] = th[u]
    BY <1>2, <2>1 DEF Call, Typed
  <2>. QED
    BY <2>2, <2>3 DEF Symbols, Running
<1>. QED
  BY <1>1, <1>2

\* Symbols holds throughout.
THEOREM SymbolsInvariance == Spec => []Symbols
PROOF
<1>1. Init => Symbols
  BY DEF Init, Idle, Symbols, SymbolOperations
<1>2. ServiceInv /\ Symbols /\ [Next]_vars => Symbols'
  <2>. SUFFICES ASSUME ServiceInv, Symbols, [Next]_vars
                PROVE  Symbols'
    OBVIOUS
  <2>1. Typed /\ Placed /\ Owned
    BY DEF ServiceInv
  <2>2. ASSUME NEW t \in Threads, StepOf(t)
        PROVE  Symbols'
    BY <2>1, <2>2, SymbolsStep
  <2>3. CASE Reconnect \/ Hit \/ UNCHANGED vars
    BY <2>1, <2>3, SymbolsRest DEF Reconnect, Hit, vars
  <2>4. ASSUME NEW t \in Threads, NEW o \in Operations, NEW m \in Modules \cup {NoModule}, Call(t, o, m)
        PROVE  Symbols'
    BY <2>1, <2>4, SymbolsRest DEF Call, server
  <2>. QED
    BY <2>2, <2>3, <2>4 DEF Next
<1>. QED
  BY ServiceInvariance, <1>1, <1>2, PTL DEF Spec

\* SymbolPagesOfOneModule: what a symbol operation returns is of the module it
\* was asked for, because symbolMutex_ is held from before the initialisation
\* of the server's table until the last page has been read.
THEOREM PagesOfOneModule == Spec => []SymbolPagesOfOneModule
PROOF
<1>1. Symbols => SymbolPagesOfOneModule
  BY DEF Symbols, SymbolPagesOfOneModule
<1>. QED
  BY SymbolsInvariance, <1>1, PTL

-----------------------------------------------------------------------------
(* Breakpoints to be removed.                                               *)

\* In a live session, a breakpoint that was set over this connection is one the
\* client knows of; none was set over a connection to come.
Known ==
    /\ gen # 0 /\ bp.by <= gen
    /\ up /\ bp.armed /\ bp.by = gen => tracked

\* The session and the breakpoint change together.
LEMMA KnownStep ==
  ASSUME Typed, Known, NEW t \in Threads, StepOf(t)
  PROVE  Known'
PROOF
<1>0. gen \in Nat /\ bp \in [armed : BOOLEAN, total : Nat, pending : Nat, by : Nat]
  BY DEF Typed
<1>1. ASSUME UNCHANGED <<gen, up, bp, tracked>>
      PROVE  Known'
  BY <1>1 DEF Known
<1>2. ASSUME Poison, bp'.by \in Nat, bp'.by <= gen
      PROVE  Known'
  BY <1>0, <1>2 DEF Poison, Known
<1>3. CASE DoAsk(t)
  <2>1. tracked' = tracked /\ (UNCHANGED <<gen, up>> \/ Poison)
    BY <1>3 DEF DoAsk, books
  <2>2. bp' = bp \/ bp' = [bp EXCEPT !.pending = 0]
    BY <1>3 DEF DoAsk, Served, server
  <2>3. bp'.armed = bp.armed /\ bp'.by = bp.by /\ bp.by \in Nat
    BY <1>0, <2>2
  <2>. QED
    BY <1>2, <2>1, <2>3 DEF Known
<1>4. CASE DoEffect(t)
  <2>1. CASE UNCHANGED <<gen, up, bp, tracked>>
    BY <1>1, <2>1
  <2>2. CASE Poison /\ (bp' = bp \/ bp' = Replaced(Here(t).what))
    <3>1. bp'.by \in Nat /\ bp'.by <= gen
      BY <1>0, <2>2 DEF Replaced, NoBreakpoint, Known
    <3>. QED
      BY <1>2, <2>2, <3>1
  <2>3. CASE Applied(t, Here(t).what) /\ UNCHANGED <<gen, up>>
    <3>1. CASE Here(t).what = "set"
      BY <1>0, <2>3, <3>1 DEF Applied, Replaced, Known
    <3>2. CASE Here(t).what = "remove"
      BY <1>0, <2>3, <3>2 DEF Applied, Replaced, Known, NoBreakpoint
    <3>3. CASE Here(t).what \notin {"set", "remove"}
      BY <2>3, <3>3 DEF Applied, Replaced, Known
    <3>. QED
      BY <3>1, <3>2, <3>3
  <2>. QED
    BY <1>4, <2>1, <2>2, <2>3 DEF DoEffect
<1>5. CASE DoSwitch(t)
  <2>1. \/ (bp' \in Leftovers \/ bp' = NoBreakpoint) /\ UNCHANGED <<gen, up>>
        \/ bp' = bp /\ (tracked => tracked') /\ UNCHANGED <<gen, up>>
        \/ (bp' = bp \/ bp' = NoBreakpoint) /\ Poison
    BY <1>5 DEF DoSwitch
  <2>2. CASE (bp' \in Leftovers \/ bp' = NoBreakpoint) /\ UNCHANGED <<gen, up>>
    <3>1. bp'.by = 0
      <4>1. CASE bp' = NoBreakpoint
        BY <4>1 DEF NoBreakpoint
      <4>2. CASE bp' \in [armed : {TRUE}, total : 0..MaxHits, pending : {0}, by : {0}]
        BY <4>2
      <4>. QED
        BY <2>2, <4>1, <4>2 DEF Leftovers
    <3>2. gen # 0
      BY DEF Known
    <3>. QED
      BY <1>0, <2>2, <3>1, <3>2 DEF Known
  <2>3. CASE bp' = bp /\ (tracked => tracked') /\ UNCHANGED <<gen, up>>
    BY <2>3 DEF Known
  <2>4. CASE (bp' = bp \/ bp' = NoBreakpoint) /\ Poison
    <3>1. bp'.by \in Nat /\ bp'.by <= gen
      BY <1>0, <2>4 DEF NoBreakpoint, Known
    <3>. QED
      BY <1>2, <2>4, <3>1
  <2>. QED
    BY <2>1, <2>2, <2>3, <2>4
<1>6. CASE DoMutate(t)
  BY <1>1, <1>6 DEF DoMutate, server, books
<1>7. CASE DoSync(t) \/ DoStore(t) \/ DoForget(t)
  BY <1>1, <1>7 DEF DoSync, DoStore, DoForget, server
<1>8. CASE DoCheck(t) \/ DoVerify(t) \/ DoGuard(t) \/ DoConfirm(t) \/ DoLock(t)
  BY <1>1, <1>8 DEF DoCheck, DoVerify, DoGuard, DoConfirm, DoLock, server, books
<1>9. CASE TakeLease(t) \/ TakePort(t) \/ DoDrop(t) \/ DoInspect(t) \/ Recheck(t)
  BY <1>1, <1>9 DEF TakeLease, TakePort, DoDrop, DoInspect, Recheck, server, books
<1>10. CASE DoSnapshot(t) \/ DoCompare(t) \/ DoAccount(t)
  BY <1>1, <1>10 DEF DoSnapshot, DoCompare, DoAccount, server, books
<1>. QED
  BY <1>3, <1>4, <1>5, <1>6, <1>7, <1>8, <1>9, <1>10 DEF StepOf

\* ArmedIsTracked: a breakpoint that this connection armed on the selected
\* process is in the client's list, so that selecting another process removes it.
\* Breakpoints an earlier connection left are outside of it: a reconnection
\* resets the list, and the server keeps what is armed.
THEOREM ArmedAreTracked == Spec => []ArmedIsTracked
PROOF
<1>1. Init => Known
  BY DEF Init, Known, NoBreakpoint
<1>2. ServiceInv /\ Known /\ [Next]_vars => Known'
  <2>. SUFFICES ASSUME ServiceInv, Known, [Next]_vars
                PROVE  Known'
    OBVIOUS
  <2>1. ASSUME NEW t \in Threads, StepOf(t)
        PROVE  Known'
    BY <2>1, KnownStep DEF ServiceInv
  <2>2. ASSUME NEW t \in Threads, NEW o \in Operations, NEW m \in Modules \cup {NoModule}, Call(t, o, m)
        PROVE  Known'
    BY <2>2 DEF Call, Known, server, books
  <2>3. CASE Reconnect
    <3>1. /\ gen \in Nat /\ bp \in [armed : BOOLEAN, total : Nat, pending : Nat, by : Nat]
          /\ bp.by <= gen /\ gen' = gen + 1 /\ bp' = bp
      BY <2>3 DEF Reconnect, ServiceInv, Typed, Known
    <3>2. bp.by \in Nat
      BY <3>1
    <3>3. bp'.by <= gen' /\ bp'.by # gen' /\ gen' # 0
      BY <3>1, <3>2
    <3>. QED
      BY <3>3 DEF Known
  <2>4. CASE UNCHANGED vars
    BY <2>4 DEF vars, Known
  <2>5. CASE Hit
    <3>1. bp.armed /\ UNCHANGED <<gen, up, tracked>>
      BY <2>5 DEF Hit, books
    <3>2. bp' = [bp EXCEPT !.total = bp.total + 1, !.pending = bp.pending + 1]
      BY <2>5 DEF Hit
    <3>3. bp'.armed = bp.armed /\ bp'.by = bp.by
      BY <3>2 DEF ServiceInv, Typed
    <3>. QED
      BY <3>1, <3>3 DEF Known
  <2>. QED
    BY <2>1, <2>2, <2>3, <2>4, <2>5 DEF Next
<1>3. Known => ArmedIsTracked
  BY DEF Known, ArmedIsTracked
<1>. QED
  BY ServiceInvariance, <1>1, <1>2, <1>3, PTL DEF Spec
=============================================================================
