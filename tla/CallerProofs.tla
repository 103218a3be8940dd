---------------------------- MODULE CallerProofs ----------------------------
(***************************************************************************)
(* What callers meet, for every value of the constants.                    *)
(*                                                                         *)
(* The Lua engine: who is inside it, what its execution is bound to, which *)
(* scopes it has open and which windows it may name, for any number of IPC *)
(* workers.                                                                *)
(*                                                                         *)
(* The algorithms below and above it, for inputs of any size: reads, lists,*)
(* names, batches and pointer chains, and the requests, functions and      *)
(* tools that ask for them.  Loops are recursive functions; what they come *)
(* to is shown by induction in the form of a statement about sets of       *)
(* naturals (Induction, Recursion).                                        *)
(***************************************************************************)
EXTENDS LuaEngine, Algorithms, WellFoundedInduction, FiniteSetTheorems, SequenceTheorems, TLAPS

-----------------------------------------------------------------------------
(* The Lua engine.                                                         *)

Phases == Results \cup {"idle", "drawing", "init", "enter", "run", "attached", "closing", "closed"}
Modes == {"None", "GuiFrame", "GuiScript", "Ipc"}

Typed ==
    /\ mutex \in Executors \cup {"none"}
    /\ initialized \in BOOLEAN /\ loaded \in BOOLEAN /\ cancel \in BOOLEAN /\ running \in BOOLEAN
    /\ phase \in [Executors -> Phases]
    /\ binding \in [mode : Modes, by : Executors \cup {"none"}, gen : Nat, target : Nat]
    /\ expired \subseteq Executors
    /\ device \in [gen : Nat, target : Nat]
    /\ targets \in 0..MaxTargets /\ opened \in Nat /\ told \in Nat
    /\ shelter \in Shelters /\ made \in 0..MaxWindows
    /\ scopes \in Seq(Kinds)

\* Targets are numbered in the order in which they were selected.
Numbered ==
    opened <= targets /\ told <= targets /\ device.gen <= targets /\ device.target <= targets

\* The one executor inside the engine is the one that holds the mutex.
InEngine(e) == phase[e] \in {"run", "attached"}
Held ==
    /\ \A e \in Executors : InEngine(e) <=> mutex = e
    /\ ~running => phase["script"] = "idle"

\* What is bound is what the executor inside the engine bound, and the target
\* bound is the target its script was told.
Bound ==
    /\ binding.by = mutex
    /\ mutex # "none" => binding.mode = Mode(mutex)
    /\ told = binding.target

\* Until the GUI is closed, every window Lua can name or is about to exists;
\* the script task has ended before it is closed.
Windows ==
    /\ phase["gui"] # "closed" => registered \cup pending \subseteq alive
    /\ phase["gui"] = "closed" => phase["script"] \in Results \cup {"idle"}
    /\ touched = "gui"

LuaInv == Typed /\ Numbered /\ Held /\ Bound /\ ActsWhereTold /\ ScopesBalanced /\ Windows

-----------------------------------------------------------------------------
\* The names of the phases and of the three kinds of executor.
LEMMA Names ==
  /\ {"ok", "interrupted", "failed", "idle", "drawing", "init", "enter", "run", "attached",
      "closing", "closed"} \subseteq Phases
  /\ Results \subseteq Phases
  /\ "gui" \in Executors /\ "script" \in Executors /\ "none" \notin Executors
  /\ \A e \in Executors : Mode(e) \in Modes
  /\ \A e \in Executors : Mode(e) = "GuiFrame" => e = "gui"
  /\ \A e \in Workers : e \in Executors /\ e # "gui" /\ e # "script"
  /\ \A r \in Results : r \notin {"run", "attached", "closed", "idle"}
  BY LuaAssumption DEF Phases, Results, Executors, Mode, Modes

\* What leaving the engine reports.
LEMMA LeaveEffect ==
  ASSUME NEW e, NEW raised, Leave(e, raised)
  PROVE  /\ Running(e) /\ mutex' = "none" /\ binding' = Unbound
         /\ \E r \in Results : /\ phase' = [phase EXCEPT ![e] = r]
                               /\ r = "ok" => ~Interrupted(e)
                               /\ loaded' = (loaded \/ (e = "script" /\ r = "ok"))
         /\ expired' = expired \ {e}
         /\ opened' = 0 /\ told' = 0 /\ shelter' = "open"
         /\ e = "gui" => scopes' = <<>> /\ imgui' = <<>>
         /\ e # "gui" => scopes' = scopes /\ imgui' = imgui
         /\ UNCHANGED <<initialized, cancel, running, device, targets, strayed, touched,
                        made, pending, registered, alive>>
PROOF
<1>1. PICK r : /\ r = IF ExecutionInterruption(e, raised) THEN "interrupted"
                      ELSE IF raised \/ (e = "gui" /\ scopes # <<>>) THEN "failed" ELSE "ok"
               /\ Ended(e, r)
               /\ loaded' = (loaded \/ (e = "script" /\ r = "ok"))
  BY DEF Leave
<1>2. r \in Results /\ (r = "ok" => ~Interrupted(e))
  BY <1>1 DEF Results, ExecutionInterruption
<1>3. QED
  BY <1>1, <1>2 DEF Leave, Ended, ErrorRecovery, task, service, windows

\* Every step keeps every variable in its domain.
LEMMA TypedStep ==
  ASSUME Typed, ScopesBalanced, [Next]_vars
  PROVE  Typed'
PROOF
<1>. USE LuaAssumption DEF Typed
<1>1. CASE UNCHANGED vars
  BY <1>1 DEF vars, engine, script, task, service, frame, windows
<1>2. ASSUME NEW e \in Executors, Initialize(e)
      PROVE  Typed'
  BY <1>2, Names DEF Initialize, script, task, service, frame, windows
<1>3. ASSUME NEW e \in Executors, LockTimeout(e)
      PROVE  Typed'
  BY <1>3, Names DEF LockTimeout, Ended, engine, script, task, service, frame, windows
<1>4. ASSUME NEW e \in Executors, RefusedEntry(e)
      PROVE  Typed'
  BY <1>4, Names DEF RefusedEntry, Ended, engine, script, task, service, frame, windows
<1>5. ASSUME NEW e \in Executors, Execute(e)
      PROVE  Typed'
  BY <1>5, Names DEF Execute, Bind, Shelters, task, service, frame, windows
<1>6. ASSUME NEW e \in Executors, NEW raised \in BOOLEAN, Leave(e, raised)
      PROVE  Typed'
  <2>1. PICK r \in Results : /\ phase' = [phase EXCEPT ![e] = r]
                             /\ loaded' = (loaded \/ (e = "script" /\ r = "ok"))
    BY <1>6, LeaveEffect
  <2>2. phase' \in [Executors -> Phases] /\ loaded' \in BOOLEAN
    BY <2>1, Names
  <2>3. binding' \in [mode : Modes, by : Executors \cup {"none"}, gen : Nat, target : Nat]
    BY <1>6, LeaveEffect DEF Unbound, Modes
  <2>4. scopes' = scopes \/ scopes' = <<>>
    BY <1>6, LeaveEffect
  <2>5. scopes' \in Seq(Kinds)
    <3>1. CASE scopes' = scopes
      BY <3>1
    <3>2. CASE scopes' = <<>>
      BY <3>2
    <3>3. QED
      BY <2>4, <3>1, <3>2
  <2>6. /\ mutex' = "none" /\ expired' = expired \ {e} /\ opened' = 0 /\ told' = 0 /\ shelter' = "open"
        /\ UNCHANGED <<initialized, cancel, running, device, targets, made>>
    BY <1>6, LeaveEffect
  <2>7. QED
    BY <2>2, <2>3, <2>5, <2>6 DEF Shelters
<1>7. ASSUME NEW e \in Executors, Swallow(e) \/ Shelter(e)
      PROVE  Typed'
  BY <1>7, Names DEF Swallow, Shelter, Shelters, engine, task, service, frame, windows
<1>8. ASSUME NEW e \in Executors, Operate(e)
      PROVE  Typed'
  BY <1>8, Names DEF Operate, engine, script, task, frame, windows
<1>9. ASSUME NEW e \in Executors, AttachOpens(e)
      PROVE  Typed'
  BY <1>9, Names DEF AttachOpens, engine, task, frame, windows
<1>10. ASSUME NEW e \in Executors, AttachFails(e)
       PROVE  Typed'
  BY <1>10, Names DEF AttachFails, engine, script, task, frame, windows
<1>11. ASSUME NEW e \in Executors, AttachCommits(e)
       PROVE  Typed'
  BY <1>11, Names DEF AttachCommits, task, service, frame, windows
<1>12. ASSUME NEW e \in Executors, NEW kind \in Kinds, BeginScope(e, kind)
       PROVE  Typed'
  <2>1. scopes' = scopes \/ scopes' = Append(scopes, kind)
    BY <1>12 DEF BeginScope
  <2>2. scopes' \in Seq(Kinds)
    <3>1. CASE scopes' = scopes
      BY <3>1
    <3>2. CASE scopes' = Append(scopes, kind)
      BY <3>2
    <3>3. QED
      BY <2>1, <3>1, <3>2
  <2>3. QED
    BY <1>12, <2>2 DEF BeginScope, engine, script, task, service, windows
<1>13. ASSUME NEW e \in Executors, NEW kind \in Kinds, EndScope(e, kind)
       PROVE  Typed'
  BY <1>13, Names DEF EndScope, engine, script, task, service, windows
<1>14. ASSUME NEW e \in Executors, CreateWindow(e)
       PROVE  Typed'
  BY <1>14, Names DEF CreateWindow, engine, script, task, service, frame
<1>15. ASSUME NEW e \in Executors, NEW w \in registered, TouchWindow(e, w)
       PROVE  Typed'
  BY <1>15, Names DEF TouchWindow, engine, script, task, service
<1>16. ASSUME NEW e \in Executors, Expire(e)
       PROVE  Typed'
  BY <1>16, Names DEF Expire, engine, script, task, service, frame, windows
<1>17. ASSUME NEW e \in Executors, Report(e)
       PROVE  Typed'
  BY <1>17, Names DEF Report, engine, script, task, service, frame, windows
<1>18. ASSUME NEW e \in Workers, IpcRequest(e)
       PROVE  Typed'
  BY <1>18, Names DEF IpcRequest, engine, script, task, service, frame, windows
<1>19. CASE StartScript
  BY <1>19, Names DEF StartScript, engine, script, service, frame, windows
<1>20. CASE StopScript
  BY <1>20, Names DEF StopScript, engine, script, service, frame, windows
<1>21. CASE PollScript
  BY <1>21, Names DEF PollScript, engine, script, service, frame, windows
<1>22. CASE RunPendingTasks
  BY <1>22, Names DEF RunPendingTasks, engine, script, task, service
<1>23. CASE DrawWindow
  BY <1>23, Names DEF DrawWindow, engine, script, task, service, frame, windows
<1>24. CASE FrameSkipped
  BY <1>24, Names DEF FrameSkipped, engine, script, task, service, frame, windows
<1>25. CASE InvokeGuiCallback
  BY <1>25, Names DEF InvokeGuiCallback, Bind, Shelters, task, service, windows
<1>26. CASE CloseBegins
  BY <1>26, Names DEF CloseBegins, engine, script, service, frame
<1>27. CASE CloseReturns
  BY <1>27, Names DEF CloseReturns, engine, script, task, service, frame
<1>28. CASE OtherSelects
  BY <1>28, Names DEF OtherSelects, engine, script, task, frame, windows
<1>29. QED
  BY <1>1, <1>2, <1>3, <1>4, <1>5, <1>6, <1>7, <1>8, <1>9, <1>10, <1>11, <1>12, <1>13, <1>14,
     <1>15, <1>16, <1>17, <1>18, <1>19, <1>20, <1>21, <1>22, <1>23, <1>24, <1>25, <1>26, <1>27,
     <1>28
  DEF Next, Step, GuiStep, Return, Raise, Interrupt

\* No number is used before it was counted.
LEMMA NumberedStep ==
  ASSUME Typed, Numbered, [Next]_vars
  PROVE  Numbered'
PROOF
<1>. USE DEF Typed
<1>1. CASE UNCHANGED <<opened, told, device, targets>>
  BY <1>1 DEF Numbered
<1>2. ASSUME NEW e \in Executors, Execute(e)
      PROVE  Numbered'
  BY <1>2, Names DEF Execute, Bind, service, Numbered
<1>3. ASSUME NEW e \in Executors, NEW raised \in BOOLEAN, Leave(e, raised)
      PROVE  Numbered'
  BY <1>3, LeaveEffect, Names DEF Numbered
<1>4. ASSUME NEW e \in Executors, AttachOpens(e)
      PROVE  Numbered'
  BY <1>4, Names DEF AttachOpens, Numbered
<1>5. ASSUME NEW e \in Executors, AttachFails(e)
      PROVE  Numbered'
  BY <1>5, Names DEF AttachFails, script, Numbered
<1>6. ASSUME NEW e \in Executors, AttachCommits(e)
      PROVE  Numbered'
  BY <1>6, Names DEF AttachCommits, service, Numbered
<1>7. CASE InvokeGuiCallback
  BY <1>7, Names DEF InvokeGuiCallback, Bind, service, Numbered
<1>8. CASE OtherSelects
  BY <1>8, Names DEF OtherSelects, script, Numbered
<1>9. QED
  <2>1. CASE \E e \in Executors :
               \/ Initialize(e) \/ LockTimeout(e) \/ RefusedEntry(e) \/ Swallow(e) \/ Shelter(e)
               \/ Operate(e) \/ (\E kind \in Kinds : BeginScope(e, kind) \/ EndScope(e, kind))
               \/ CreateWindow(e) \/ (\E w \in registered : TouchWindow(e, w)) \/ Expire(e)
               \/ Report(e)
    BY <1>1, <2>1 DEF Initialize, LockTimeout, Ended, RefusedEntry, Swallow, Shelter, Operate,
       BeginScope, EndScope, CreateWindow, TouchWindow, Expire, Report, script, service
  <2>2. CASE \/ StartScript \/ StopScript \/ PollScript \/ RunPendingTasks \/ DrawWindow
             \/ FrameSkipped \/ CloseBegins \/ CloseReturns
             \/ (\E e \in Workers : IpcRequest(e))
    BY <1>1, <2>2 DEF StartScript, StopScript, PollScript, RunPendingTasks, DrawWindow,
       FrameSkipped, CloseBegins, CloseReturns, IpcRequest, script, service
  <2>3. CASE UNCHANGED vars
    BY <1>1, <2>3 DEF vars, script, service
  <2>4. QED
    BY <1>2, <1>3, <1>4, <1>5, <1>6, <1>7, <1>8, <2>1, <2>2, <2>3
    DEF Next, Step, GuiStep, Return, Raise, Interrupt

\* Entering and leaving the engine goes with the mutex.
LEMMA HeldStep ==
  ASSUME Typed, Held, [Next]_vars
  PROVE  Held'
PROOF
<1>. USE DEF Typed
<1>1. CASE UNCHANGED <<mutex, phase, running>>
  BY <1>1 DEF Held, InEngine, Running
<1>2. ASSUME NEW e \in Executors, Initialize(e)
      PROVE  Held'
  BY <1>2, Names DEF Initialize, task, Held, InEngine, Running
<1>3. ASSUME NEW e \in Executors, LockTimeout(e)
      PROVE  Held'
  BY <1>3, Names DEF LockTimeout, Ended, engine, task, Held, InEngine, Running
<1>4. ASSUME NEW e \in Executors, RefusedEntry(e)
      PROVE  Held'
  BY <1>4, Names DEF RefusedEntry, Ended, engine, task, Held, InEngine, Running
<1>5. ASSUME NEW e \in Executors, Execute(e)
      PROVE  Held'
  BY <1>5, Names DEF Execute, Bind, task, Held, InEngine, Running
<1>6. ASSUME NEW e \in Executors, NEW raised \in BOOLEAN, Leave(e, raised)
      PROVE  Held'
  BY <1>6, LeaveEffect, Names DEF Held, InEngine, Running
<1>7. ASSUME NEW e \in Executors, AttachOpens(e)
      PROVE  Held'
  BY <1>7, Names DEF AttachOpens, engine, task, Held, InEngine, Running
<1>8. ASSUME NEW e \in Executors, AttachCommits(e)
      PROVE  Held'
  BY <1>8, Names DEF AttachCommits, task, Held, InEngine, Running
<1>9. ASSUME NEW e \in Executors, Report(e)
      PROVE  Held'
  BY <1>9, Names DEF Report, engine, task, Held, InEngine, Running
<1>10. ASSUME NEW e \in Workers, IpcRequest(e)
       PROVE  Held'
  BY <1>10, Names DEF IpcRequest, engine, task, Held, InEngine, Running
<1>11. CASE StartScript
  BY <1>11, Names DEF StartScript, engine, Held, InEngine, Running
<1>12. CASE PollScript
  BY <1>12, Names DEF PollScript, engine, Held, InEngine, Running
<1>13. CASE DrawWindow
  BY <1>13, Names DEF DrawWindow, engine, task, Held, InEngine, Running
<1>14. CASE FrameSkipped
  BY <1>14, Names DEF FrameSkipped, engine, task, Held, InEngine, Running
<1>15. CASE InvokeGuiCallback
  BY <1>15, Names DEF InvokeGuiCallback, Bind, task, Held, InEngine, Running
<1>16. CASE CloseBegins
  BY <1>16, Names DEF CloseBegins, engine, Held, InEngine, Running
<1>17. CASE CloseReturns
  BY <1>17, Names DEF CloseReturns, engine, task, Held, InEngine, Running
<1>18. QED
  <2>1. CASE \E e \in Executors :
               \/ Swallow(e) \/ Shelter(e) \/ Operate(e) \/ AttachFails(e)
               \/ (\E kind \in Kinds : BeginScope(e, kind) \/ EndScope(e, kind))
               \/ CreateWindow(e) \/ (\E w \in registered : TouchWindow(e, w)) \/ Expire(e)
    BY <1>1, <2>1 DEF Swallow, Shelter, Operate, AttachFails, BeginScope, EndScope, CreateWindow,
       TouchWindow, Expire, engine, task
  <2>2. CASE StopScript \/ RunPendingTasks \/ OtherSelects
    BY <1>1, <2>2 DEF StopScript, RunPendingTasks, OtherSelects, engine, task
  <2>3. CASE UNCHANGED vars
    BY <1>1, <2>3 DEF vars, engine, task
  <2>4. QED
    BY <1>2, <1>3, <1>4, <1>5, <1>6, <1>7, <1>8, <1>9, <1>10, <1>11, <1>12, <1>13, <1>14,
       <1>15, <1>16, <1>17, <2>1, <2>2, <2>3
    DEF Next, Step, GuiStep, Return, Raise, Interrupt

\* Nobody but the executor inside the engine changes what is bound.
LEMMA BoundStep ==
  ASSUME Typed, Held, Bound, [Next]_vars
  PROVE  Bound'
PROOF
<1>. USE DEF Typed
<1>1. CASE UNCHANGED <<binding, mutex, told>>
  BY <1>1 DEF Bound, Held, InEngine, Running, Unbound
<1>2. ASSUME NEW e \in Executors, Execute(e)
      PROVE  Bound'
  BY <1>2, Names DEF Execute, Bind, Bound, Held, InEngine, Running, Unbound
<1>3. ASSUME NEW e \in Executors, NEW raised \in BOOLEAN, Leave(e, raised)
      PROVE  Bound'
  BY <1>3, LeaveEffect, Names DEF Bound, Held, InEngine, Running, Unbound
<1>4. ASSUME NEW e \in Executors, AttachCommits(e)
      PROVE  Bound'
  BY <1>4, Names DEF AttachCommits, Bound, Held, InEngine, Running, Unbound
<1>5. CASE InvokeGuiCallback
  BY <1>5, Names DEF InvokeGuiCallback, Bind, Bound, Held, InEngine, Running, Unbound
<1>6. QED
  <2>1. CASE \E e \in Executors :
               \/ Initialize(e) \/ LockTimeout(e) \/ RefusedEntry(e) \/ Swallow(e) \/ Shelter(e)
               \/ Operate(e) \/ AttachOpens(e) \/ AttachFails(e)
               \/ (\E kind \in Kinds : BeginScope(e, kind) \/ EndScope(e, kind))
               \/ CreateWindow(e) \/ (\E w \in registered : TouchWindow(e, w)) \/ Expire(e)
               \/ Report(e)
    BY <1>1, <2>1 DEF Initialize, LockTimeout, Ended, RefusedEntry, Swallow, Shelter, Operate,
       AttachOpens, AttachFails, BeginScope, EndScope, CreateWindow, TouchWindow, Expire, Report,
       script, engine
  <2>2. CASE \/ StartScript \/ StopScript \/ PollScript \/ RunPendingTasks \/ DrawWindow
             \/ FrameSkipped \/ CloseBegins \/ CloseReturns \/ OtherSelects
             \/ (\E e \in Workers : IpcRequest(e))
    BY <1>1, <2>2 DEF StartScript, StopScript, PollScript, RunPendingTasks, DrawWindow,
       FrameSkipped, CloseBegins, CloseReturns, OtherSelects, IpcRequest, engine, script
  <2>3. CASE UNCHANGED vars
    BY <1>1, <2>3 DEF vars, engine, script
  <2>4. QED
    BY <1>2, <1>3, <1>4, <1>5, <2>1, <2>2, <2>3
    DEF Next, Step, GuiStep, Return, Raise, Interrupt

\* No operation reaches another target.
LEMMA ActsStep ==
  ASSUME Typed, Bound, ActsWhereTold, [Next]_vars
  PROVE  ActsWhereTold'
PROOF
<1>1. CASE UNCHANGED <<strayed>>
  BY <1>1 DEF ActsWhereTold, Bound, OperationContext
<1>2. ASSUME NEW e \in Executors, NEW raised \in BOOLEAN, Leave(e, raised)
      PROVE  ActsWhereTold'
  BY <1>2, LeaveEffect, Names DEF ActsWhereTold, Bound, OperationContext
<1>3. ASSUME NEW e \in Executors, Operate(e)
      PROVE  ActsWhereTold'
  BY <1>3, Names DEF Operate, ActsWhereTold, Bound, OperationContext
<1>4. QED
  <2>1. CASE \E e \in Executors :
               \/ Initialize(e) \/ LockTimeout(e) \/ RefusedEntry(e) \/ Execute(e)
               \/ Swallow(e) \/ Shelter(e) \/ AttachOpens(e) \/ AttachFails(e) \/ AttachCommits(e)
               \/ (\E kind \in Kinds : BeginScope(e, kind) \/ EndScope(e, kind))
               \/ CreateWindow(e) \/ (\E w \in registered : TouchWindow(e, w)) \/ Expire(e)
               \/ Report(e)
    BY <1>1, <2>1 DEF Initialize, LockTimeout, Ended, RefusedEntry, Execute, Bind, Swallow, Shelter,
       AttachOpens, AttachFails, AttachCommits, BeginScope, EndScope, CreateWindow, TouchWindow,
       Expire, Report, service
  <2>2. CASE \/ StartScript \/ StopScript \/ PollScript \/ RunPendingTasks \/ DrawWindow
             \/ FrameSkipped \/ InvokeGuiCallback \/ CloseBegins \/ CloseReturns
             \/ OtherSelects \/ (\E e \in Workers : IpcRequest(e))
    BY <1>1, <2>2 DEF StartScript, StopScript, PollScript, RunPendingTasks, DrawWindow,
       FrameSkipped, InvokeGuiCallback, Bind, CloseBegins, CloseReturns, OtherSelects,
       IpcRequest, service
  <2>3. CASE UNCHANGED vars
    BY <1>1, <2>3 DEF vars, service
  <2>4. QED
    BY <1>2, <1>3, <2>1, <2>2, <2>3
    DEF Next, Step, GuiStep, Return, Raise, Interrupt

\* Every step keeps the mirror of the scopes exact.
LEMMA ScopesStep ==
  ASSUME Typed, Held, Bound, ScopesBalanced, [Next]_vars
  PROVE  ScopesBalanced'
PROOF
<1>. USE DEF Typed
<1>1. CASE UNCHANGED <<imgui, scopes, mutex>>
  BY <1>1 DEF ScopesBalanced, Bound, Held, InEngine, Running, FrameModes, HasTopScope,
     ImGuiClose
<1>2. ASSUME NEW e \in Executors, Execute(e)
      PROVE  ScopesBalanced'
  BY <1>2, Names DEF Execute, Bind, frame, ScopesBalanced, Bound, Held, InEngine, Running,
     FrameModes, HasTopScope, ImGuiClose
<1>3. ASSUME NEW e \in Executors, NEW raised \in BOOLEAN, Leave(e, raised)
      PROVE  ScopesBalanced'
  BY <1>3, LeaveEffect, Names DEF ScopesBalanced, Bound, Held, InEngine, Running, FrameModes,
     HasTopScope, ImGuiClose
<1>4. ASSUME NEW e \in Executors, NEW kind \in Kinds, BeginScope(e, kind)
      PROVE  ScopesBalanced'
  BY <1>4, Names DEF BeginScope, engine, ScopesBalanced, Bound, Held, InEngine, Running,
     FrameModes, HasTopScope, ImGuiClose
<1>5. ASSUME NEW e \in Executors, NEW kind \in Kinds, EndScope(e, kind)
      PROVE  ScopesBalanced'
  BY <1>5, Names DEF EndScope, engine, ScopesBalanced, Bound, Held, InEngine, Running,
     FrameModes, HasTopScope, ImGuiClose
<1>6. CASE InvokeGuiCallback
  BY <1>6, Names DEF InvokeGuiCallback, Bind, ScopesBalanced, Bound, Held, InEngine, Running,
     FrameModes, HasTopScope, ImGuiClose
<1>7. QED
  <2>1. CASE \E e \in Executors :
               \/ Initialize(e) \/ LockTimeout(e) \/ RefusedEntry(e) \/ Swallow(e) \/ Shelter(e)
               \/ Operate(e) \/ AttachOpens(e) \/ AttachFails(e) \/ AttachCommits(e)
               \/ CreateWindow(e) \/ (\E w \in registered : TouchWindow(e, w)) \/ Expire(e)
               \/ Report(e)
    BY <1>1, <2>1 DEF Initialize, LockTimeout, Ended, RefusedEntry, Swallow, Shelter, Operate,
       AttachOpens, AttachFails, AttachCommits, CreateWindow, TouchWindow, Expire, Report, frame,
       engine
  <2>2. CASE \/ StartScript \/ StopScript \/ PollScript \/ RunPendingTasks \/ DrawWindow
             \/ FrameSkipped \/ CloseBegins \/ CloseReturns \/ OtherSelects
             \/ (\E e \in Workers : IpcRequest(e))
    BY <1>1, <2>2 DEF StartScript, StopScript, PollScript, RunPendingTasks, DrawWindow,
       FrameSkipped, CloseBegins, CloseReturns, OtherSelects, IpcRequest, engine, frame
  <2>3. CASE UNCHANGED vars
    BY <1>1, <2>3 DEF vars, engine, frame
  <2>4. QED
    BY <1>2, <1>3, <1>4, <1>5, <1>6, <2>1, <2>2, <2>3
    DEF Next, Step, GuiStep, Return, Raise, Interrupt

\* Windows are touched by the GUI thread and outlive the Lua code that names them.
LEMMA WindowsStep ==
  ASSUME Typed, Held, Bound, Windows, [Next]_vars
  PROVE  Windows'
PROOF
<1>. USE DEF Typed
<1>1. CASE UNCHANGED <<phase, registered, pending, alive, touched>>
  BY <1>1 DEF Windows, Bound, Held, InEngine, Running, FrameModes, FutureReady, Results
<1>2. ASSUME NEW e \in Executors, Initialize(e)
      PROVE  Windows'
  BY <1>2, Names DEF Initialize, frame, windows, Windows, Bound, Held, InEngine, Running,
     FrameModes, FutureReady, Results
<1>3. ASSUME NEW e \in Executors, LockTimeout(e)
      PROVE  Windows'
  BY <1>3, Names DEF LockTimeout, Ended, frame, windows, Windows, Bound, Held, InEngine,
     Running, FrameModes, FutureReady, Results
<1>4. ASSUME NEW e \in Executors, RefusedEntry(e)
      PROVE  Windows'
  BY <1>4, Names DEF RefusedEntry, Ended, frame, windows, Windows, Bound, Held, InEngine,
     Running, FrameModes, FutureReady, Results
<1>5. ASSUME NEW e \in Executors, Execute(e)
      PROVE  Windows'
  BY <1>5, Names DEF Execute, Bind, frame, windows, Windows, Bound, Held, InEngine, Running,
     FrameModes, FutureReady, Results
<1>6. ASSUME NEW e \in Executors, NEW raised \in BOOLEAN, Leave(e, raised)
      PROVE  Windows'
  BY <1>6, LeaveEffect, Names DEF Windows, Bound, Held, InEngine, Running, FrameModes,
     FutureReady, Results
<1>7. ASSUME NEW e \in Executors, AttachOpens(e)
      PROVE  Windows'
  BY <1>7, Names DEF AttachOpens, frame, windows, Windows, Bound, Held, InEngine, Running,
     FrameModes, FutureReady, Results
<1>8. ASSUME NEW e \in Executors, AttachCommits(e)
      PROVE  Windows'
  BY <1>8, Names DEF AttachCommits, frame, windows, Windows, Bound, Held, InEngine, Running,
     FrameModes, FutureReady, Results
<1>9. ASSUME NEW e \in Executors, NEW kind \in Kinds, BeginScope(e, kind)
      PROVE  Windows'
  BY <1>9, Names DEF BeginScope, windows, Windows, Bound, Held, InEngine, Running, FrameModes,
     FutureReady, Results
<1>10. ASSUME NEW e \in Executors, NEW kind \in Kinds, EndScope(e, kind)
       PROVE  Windows'
  BY <1>10, Names DEF EndScope, windows, Windows, Bound, Held, InEngine, Running, FrameModes,
     FutureReady, Results
<1>11. ASSUME NEW e \in Executors, CreateWindow(e)
       PROVE  Windows'
  BY <1>11, Names DEF CreateWindow, frame, Windows, Bound, Held, InEngine, Running,
     FrameModes, FutureReady, Results
<1>12. ASSUME NEW e \in Executors, NEW w \in registered, TouchWindow(e, w)
       PROVE  Windows'
  BY <1>12, Names DEF TouchWindow, Windows, Bound, Held, InEngine, Running, FrameModes,
     FutureReady, Results
<1>13. ASSUME NEW e \in Executors, Report(e)
       PROVE  Windows'
  BY <1>13, Names DEF Report, frame, windows, Windows, Bound, Held, InEngine, Running,
     FrameModes, FutureReady, Results
<1>14. ASSUME NEW e \in Workers, IpcRequest(e)
       PROVE  Windows'
  BY <1>14, Names DEF IpcRequest, frame, windows, Windows, Bound, Held, InEngine, Running,
     FrameModes, FutureReady, Results
<1>15. CASE StartScript
  BY <1>15, Names DEF StartScript, frame, windows, Windows, Bound, Held, InEngine, Running,
     FrameModes, FutureReady, Results
<1>16. CASE PollScript
  BY <1>16, Names DEF PollScript, frame, windows, Windows, Bound, Held, InEngine, Running,
     FrameModes, FutureReady, Results
<1>17. CASE RunPendingTasks
  BY <1>17, Names DEF RunPendingTasks, Windows, Bound, Held, InEngine, Running, FrameModes,
     FutureReady, Results
<1>18. CASE DrawWindow
  BY <1>18, Names DEF DrawWindow, frame, windows, Windows, Bound, Held, InEngine, Running,
     FrameModes, FutureReady, Results
<1>19. CASE FrameSkipped
  BY <1>19, Names DEF FrameSkipped, frame, windows, Windows, Bound, Held, InEngine, Running,
     FrameModes, FutureReady, Results
<1>20. CASE InvokeGuiCallback
  BY <1>20, Names DEF InvokeGuiCallback, Bind, windows, Windows, Bound, Held, InEngine,
     Running, FrameModes, FutureReady, Results
<1>21. CASE CloseBegins
  BY <1>21, Names DEF CloseBegins, frame, Windows, Bound, Held, InEngine, Running, FrameModes,
     FutureReady, Results
<1>22. CASE CloseReturns
  BY <1>22, Names DEF CloseReturns, frame, Windows, Bound, Held, InEngine, Running,
     FrameModes, FutureReady, Results
<1>23. QED
  <2>1. CASE \E e \in Executors : Swallow(e) \/ Shelter(e) \/ Operate(e) \/ AttachFails(e) \/ Expire(e)
    BY <1>1, <2>1 DEF Swallow, Shelter, Operate, AttachFails, Expire, frame, windows
  <2>2. CASE StopScript \/ OtherSelects
    BY <1>1, <2>2 DEF StopScript, OtherSelects, frame, windows
  <2>3. CASE UNCHANGED vars
    BY <1>1, <2>3 DEF vars, frame, windows
  <2>4. QED
    BY <1>2, <1>3, <1>4, <1>5, <1>6, <1>7, <1>8, <1>9, <1>10, <1>11, <1>12, <1>13, <1>14,
       <1>15, <1>16, <1>17, <1>18, <1>19, <1>20, <1>21, <1>22, <2>1, <2>2, <2>3
    DEF Next, Step, GuiStep, Return, Raise, Interrupt

\* Only leaving the engine reports a success, and then nothing has interrupted it.
LEMMA ReportsHonestly ==
  ASSUME Typed, [Next]_vars
  PROVE  HonestReports
PROOF
<1>. USE DEF Typed
<1>1. CASE UNCHANGED <<phase, loaded>>
  BY <1>1 DEF HonestReports, Interrupted, Results
<1>2. ASSUME NEW e \in Executors, Initialize(e)
      PROVE  HonestReports
  BY <1>2, Names DEF Initialize, HonestReports, Interrupted, Results
<1>3. ASSUME NEW e \in Executors, LockTimeout(e)
      PROVE  HonestReports
  BY <1>3, Names DEF LockTimeout, Ended, engine, HonestReports, Interrupted, Results
<1>4. ASSUME NEW e \in Executors, RefusedEntry(e)
      PROVE  HonestReports
  BY <1>4, Names DEF RefusedEntry, Ended, engine, HonestReports, Interrupted, Results
<1>5. ASSUME NEW e \in Executors, Execute(e)
      PROVE  HonestReports
  BY <1>5, Names DEF Execute, Bind, HonestReports, Interrupted, Results
<1>6. ASSUME NEW e \in Executors, NEW raised \in BOOLEAN, Leave(e, raised)
      PROVE  HonestReports
  BY <1>6, LeaveEffect, Names DEF HonestReports, Interrupted, Results
<1>7. ASSUME NEW e \in Executors, AttachOpens(e)
      PROVE  HonestReports
  BY <1>7, Names DEF AttachOpens, engine, HonestReports, Interrupted, Results
<1>8. ASSUME NEW e \in Executors, AttachCommits(e)
      PROVE  HonestReports
  BY <1>8, Names DEF AttachCommits, HonestReports, Interrupted, Results
<1>9. ASSUME NEW e \in Executors, Report(e)
      PROVE  HonestReports
  BY <1>9, Names DEF Report, engine, HonestReports, Interrupted, Results
<1>10. ASSUME NEW e \in Workers, IpcRequest(e)
       PROVE  HonestReports
  BY <1>10, Names DEF IpcRequest, engine, HonestReports, Interrupted, Results
<1>11. CASE StartScript
  BY <1>11, Names DEF StartScript, engine, HonestReports, Interrupted, Results
<1>12. CASE PollScript
  BY <1>12, Names DEF PollScript, engine, HonestReports, Interrupted, Results
<1>13. CASE DrawWindow
  BY <1>13, Names DEF DrawWindow, engine, HonestReports, Interrupted, Results
<1>14. CASE FrameSkipped
  BY <1>14, Names DEF FrameSkipped, engine, HonestReports, Interrupted, Results
<1>15. CASE InvokeGuiCallback
  BY <1>15, Names DEF InvokeGuiCallback, Bind, HonestReports, Interrupted, Results
<1>16. CASE CloseBegins
  BY <1>16, Names DEF CloseBegins, engine, HonestReports, Interrupted, Results
<1>17. CASE CloseReturns
  BY <1>17, Names DEF CloseReturns, engine, HonestReports, Interrupted, Results
<1>18. QED
  <2>1. CASE \E e \in Executors :
               \/ Swallow(e) \/ Shelter(e) \/ Operate(e) \/ AttachFails(e)
               \/ (\E kind \in Kinds : BeginScope(e, kind) \/ EndScope(e, kind))
               \/ CreateWindow(e) \/ (\E w \in registered : TouchWindow(e, w)) \/ Expire(e)
    BY <1>1, <2>1 DEF Swallow, Shelter, Operate, AttachFails, BeginScope, EndScope, CreateWindow,
       TouchWindow, Expire, engine
  <2>2. CASE StopScript \/ RunPendingTasks \/ OtherSelects
    BY <1>1, <2>2 DEF StopScript, RunPendingTasks, OtherSelects, engine
  <2>3. CASE UNCHANGED vars
    BY <1>1, <2>3 DEF vars, engine
  <2>4. QED
    BY <1>2, <1>3, <1>4, <1>5, <1>6, <1>7, <1>8, <1>9, <1>10, <1>11, <1>12, <1>13, <1>14,
       <1>15, <1>16, <1>17, <2>1, <2>2, <2>3
    DEF Next, Step, GuiStep, Return, Raise, Interrupt

-----------------------------------------------------------------------------
\* The invariant holds at the start.
LEMMA LuaInit == Init => LuaInv
PROOF
<1>1. SUFFICES ASSUME Init PROVE LuaInv
  OBVIOUS
<1>2. phase \in [Executors -> Phases] /\ \A e \in Executors : phase[e] = "idle"
  BY <1>1, Names DEF Init
<1>3. Typed
  <2>1. MaxTargets \in Nat /\ MaxWindows \in Nat
    BY LuaAssumption
  <2>2. binding \in [mode : Modes, by : Executors \cup {"none"}, gen : Nat, target : Nat]
    BY <1>1 DEF Init, Unbound, Modes
  <2>3. scopes \in Seq(Kinds) /\ device \in [gen : Nat, target : Nat]
    BY <1>1 DEF Init
  <2>4. /\ initialized \in BOOLEAN /\ loaded \in BOOLEAN /\ cancel \in BOOLEAN
        /\ running \in BOOLEAN
    BY <1>1 DEF Init
  <2>5. targets \in 0..MaxTargets /\ shelter \in Shelters /\ made \in 0..MaxWindows
    BY <1>1, <2>1 DEF Init, Shelters
  <2>6. QED
    BY <1>1, <1>2, <2>2, <2>3, <2>4, <2>5 DEF Init, Typed
<1>4. Numbered /\ Held /\ Bound
  BY <1>1, <1>2, Names DEF Init, Numbered, Held, InEngine, Bound, Unbound
<1>5. ActsWhereTold /\ ScopesBalanced /\ Windows
  BY <1>1, <1>2, Names DEF Init, ActsWhereTold, ScopesBalanced, Windows
<1>6. QED
  BY <1>3, <1>4, <1>5 DEF LuaInv

\* The invariant is preserved by every step of the executors and the GUI.
THEOREM LuaInvariance == Spec => []LuaInv
PROOF
<1>1. LuaInv /\ [Next]_vars => LuaInv'
  BY TypedStep, NumberedStep, HeldStep, BoundStep, ActsStep, ScopesStep, WindowsStep DEF LuaInv
<1>2. QED
  BY <1>1, LuaInit, PTL DEF Spec

\* Every variable stays in its domain.
THEOREM LuaTypeCorrect == Spec => []TypeOK
PROOF
<1>1. LuaInv => TypeOK
  <2>1. SUFFICES ASSUME LuaInv PROVE TypeOK
    OBVIOUS
  <2>2. touched \in Executors
    BY <2>1, Names DEF LuaInv, Windows
  <2>3. device.gen \in Nat /\ device.target \in Nat /\ targets \in Nat
    BY <2>1, LuaAssumption DEF LuaInv, Typed
  <2>4. {opened, told, device.gen, device.target} \subseteq 0..targets
    BY <2>1, <2>3 DEF LuaInv, Typed, Numbered
  <2>5. QED
    BY <2>1, <2>2, <2>4 DEF LuaInv, Typed, Bound, TypeOK, Phases
<1>2. QED
  BY <1>1, LuaInvariance, PTL

\* Whoever moves the connection or the target in between, what a script does
\* on the device happens to the target the script was last told it has.
THEOREM ScriptsActWhereTold == Spec => []ActsWhereTold
PROOF
<1>1. LuaInv => ActsWhereTold
  BY DEF LuaInv
<1>2. QED
  BY <1>1, LuaInvariance, PTL

\* The scopes open in ImGui are the ones Lua's mirror knows, and none is open
\* once the callback is over.
THEOREM FramesLeaveNoScope == Spec => []ScopesBalanced
PROOF
<1>1. LuaInv => ScopesBalanced
  BY DEF LuaInv
<1>2. QED
  BY <1>1, LuaInvariance, PTL

\* ImGui and the windows are used by the GUI thread alone, and a window that
\* running Lua code can name exists.
THEOREM WindowsSafe == Spec => []WindowsOnGuiThread
PROOF
<1>1. LuaInv => WindowsOnGuiThread
  BY Names DEF LuaInv, Windows, WindowsOnGuiThread, Results
<1>2. QED
  BY <1>1, LuaInvariance, PTL

\* An interrupted script is never reported or remembered as a success.
THEOREM SuccessIsHonest == Spec => InterruptedNeverSucceeds
PROOF
<1>1. Typed /\ [Next]_vars => [HonestReports]_vars
  BY ReportsHonestly
<1>2. Spec => [][HonestReports]_vars
  <2>1. LuaInv => Typed
    BY DEF LuaInv
  <2>2. QED
    BY <1>1, <2>1, LuaInvariance, PTL DEF Spec
<1>3. QED
  BY <1>2, PTL DEF InterruptedNeverSucceeds

-----------------------------------------------------------------------------
(* Induction and recursion, as statements about sets and functions.         *)

\* A set of naturals has a least member.
LEMMA LeastNatural ==
    ASSUME NEW T \in SUBSET Nat, T # {}
    PROVE  \E x \in T : \A y \in T : x <= y
<1> DEFINE R == OpToRel(<, Nat)
<1>1. IsWellFoundedOn(R, Nat)
  BY NatLessThanWellFounded
<1>2. PICK x \in T : \A y \in T : ~(<<y, x>> \in R)
  <2> HIDE DEF R
  <2> QED BY <1>1, WFMin, Zenon
<1>3. \A y \in T : ~(y < x)
  BY <1>2 DEF OpToRel
<1> QED BY <1>3

\* A set that holds 0 and with a number the next one holds all naturals.
LEMMA Induction ==
    ASSUME NEW S, 0 \in S, \A n \in Nat : n \in S => n + 1 \in S
    PROVE  Nat \subseteq S
<1> SUFFICES ASSUME Nat \ S # {} PROVE FALSE
  OBVIOUS
<1>1. PICK x \in Nat \ S : \A y \in Nat \ S : x <= y
  BY LeastNatural
<1>2. x # 0 /\ x - 1 \in Nat
  BY <1>1
<1>3. x - 1 \in S
  BY <1>1, <1>2
<1> QED BY <1>1, <1>2, <1>3

\* A loop of n steps has a history: step i maps v to G[i][v].
Closed(G, n, V) == \A i \in 1..n : \A v \in V : G[i][v] \in V
History(f, G, n, V, b) ==
    f \in [0..n -> V] /\ f[0] = b /\ \A i \in 1..n : f[i] = G[i][f[i - 1]]

\* What a loop of n steps goes through exists: the values of a recursive function
\* whose steps stay in V.
LEMMA Recursion ==
    ASSUME NEW n \in Nat, NEW V, NEW b \in V, NEW G, Closed(G, n, V)
    PROVE  \E f : History(f, G, n, V, b)
<1> DEFINE Upto(m, f) == f[0] = b /\ \A i \in 1..m : f[i] = G[i][f[i - 1]]
           S == {m \in Nat : m <= n => \E f \in [0..m -> V] : Upto(m, f)}
<1>1. 0 \in S
  <2>1. [i \in 0..0 |-> b] \in [0..0 -> V] /\ Upto(0, [i \in 0..0 |-> b])
    OBVIOUS
  <2> QED BY <2>1
<1>2. ASSUME NEW m \in Nat, m \in S, m + 1 <= n PROVE \E f \in [0..m + 1 -> V] : Upto(m + 1, f)
  <2>1. PICK f \in [0..m -> V] : Upto(m, f)
    BY <1>2
  <2> DEFINE g == [i \in 0..m + 1 |-> IF i <= m THEN f[i] ELSE G[m + 1][f[m]]]
  <2>2. g \in [0..m + 1 -> V]
    BY <1>2 DEF Closed
  <2>3. g[0] = b
    BY <2>1
  <2>4. ASSUME NEW i \in 1..m + 1 PROVE g[i] = G[i][g[i - 1]]
    <3>1. CASE i <= m
      BY <2>1, <3>1
    <3>2. CASE i = m + 1
      BY <2>1, <3>2
    <3> QED BY <3>1, <3>2
  <2> QED BY <2>2, <2>3, <2>4
<1>3. Nat \subseteq S
  <2>1. \A m \in Nat : m \in S => m + 1 \in S
    BY <1>2
  <2> HIDE DEF S
  <2> QED BY <1>1, <2>1, Induction
<1>4. PICK f \in [0..n -> V] : Upto(n, f)
  BY <1>3
<1> QED BY <1>4 DEF History

-----------------------------------------------------------------------------
(* What the algorithms are given.                                           *)

Given ==
    /\ input.kind = "read" =>
           input.mem \in Memories /\ input.address \in 0..MaxAddress /\ input.len \in 0..MaxLen
    /\ input.kind = "maps" => input.maps \in Mappings
    /\ input.kind = "module" => input.modules \in ModuleLists /\ input.query \in Queries
    /\ input.kind = "pages" =>
           input.items \in Lists /\ input.limit \in 1..MaxPage /\ input.got \in 1..MaxPage
    /\ input.kind = "batch" =>
           \E b \in Batches : input.items = b.items /\ input.blocks = b.blocks
    /\ input.kind = "chain" =>
           /\ input.pointers \in PointerMaps /\ input.base \in BaseAddresses
           /\ input.offset \in BaseOffsets /\ input.offsets \in Offsets /\ input.final \in BOOLEAN
    /\ input.kind = "request" =>
           \E r \in Requests : input.method = r.method /\ input.params = r.params
    /\ input.kind = "budget" => input.scopes \in Scopes /\ input.pause \in Pauses
    /\ input.kind = "lua" => \E c \in LuaCalls : input.function = c.function /\ input.args = c.args
    /\ input.kind = "tool" => \E c \in ToolCalls : input.tool = c.tool /\ input.args = c.args
    /\ input.kind = "scalar" => \E s \in Scalars : input.type = s.type /\ input.v = s.v
    /\ input.kind = "head" => input.head \in Heads

\* Every input is of the sets the algorithms are checked over.
THEOREM GivenInvariance == AlgorithmsSpec => []Given
<1>1. AlgorithmsInit => Given
  BY DEF AlgorithmsInit, Nothing, Given
<1>2. Given /\ [AlgorithmsNext]_input => Given'
  <2> SUFFICES ASSUME Given, [AlgorithmsNext]_input PROVE Given'
    OBVIOUS
  <2>1. CASE Read
    BY <2>1 DEF Read, Given
  <2>2. CASE List
    BY <2>2 DEF List, Given
  <2>3. CASE Resolve
    BY <2>3 DEF Resolve, Given
  <2>4. CASE Paging
    BY <2>4 DEF Paging, Given
  <2>5. CASE Batch
    BY <2>5 DEF Batch, Given
  <2>6. CASE Chain
    BY <2>6 DEF Chain, Given
  <2>7. CASE Request
    BY <2>7 DEF Request, Given
  <2>8. CASE RequestHead
    BY <2>8 DEF RequestHead, Given
  <2>9. CASE Script
    BY <2>9 DEF Script, Given
  <2>10. CASE UseTool
    BY <2>10 DEF UseTool, Given
  <2>11. CASE Scalar
    BY <2>11 DEF Scalar, Given
  <2>12. CASE Budget
    BY <2>12 DEF Budget, Given
  <2>13. CASE UNCHANGED input
    BY <2>13 DEF Given
  <2> QED BY <2>1, <2>2, <2>3, <2>4, <2>5, <2>6, <2>7, <2>8, <2>9, <2>10, <2>11, <2>12, <2>13
          DEF AlgorithmsNext
<1> QED BY <1>1, <1>2, PTL DEF AlgorithmsSpec

-----------------------------------------------------------------------------
(* Pointer chains.                                                          *)

Address == 0..MaxAddress
Maybe == Address \cup {NoAddress}
Readable(pointers) == \A a \in Address : pointers[a] \in Address \cup {Unmapped}

\* A step of the chain ends in the address space or nowhere.
LEMMA FollowTyped ==
    ASSUME NEW pointers, Readable(pointers), NEW at \in Maybe, NEW offset \in Address
    PROVE  /\ FollowOffset(pointers, at, offset) \in Maybe
           /\ at = NoAddress => FollowOffset(pointers, at, offset) = NoAddress
           /\ FollowOffset(pointers, at, offset) # NoAddress =>
                  /\ pointers[at] # Unmapped
                  /\ FollowOffset(pointers, at, offset) = pointers[at] + offset
           /\ at # NoAddress /\ pointers[at] # Unmapped /\ pointers[at] + offset \in Address =>
                  FollowOffset(pointers, at, offset) = pointers[at] + offset
BY SizeAssumption DEF FollowOffset, Dereference, addAddressOffset, NoAddress, Address, Maybe, Readable

\* The places the loop of resolvePointer passes.
LEMMA ChainHistory ==
    ASSUME NEW pointers, Readable(pointers), NEW start \in Maybe, NEW offsets \in Seq(Address)
    PROVE  LET at == CHOOSE at : at = [i \in 0..Len(offsets) |->
                        IF i = 0 THEN start ELSE FollowOffset(pointers, at[i - 1], offsets[i])]
           IN  /\ at \in [0..Len(offsets) -> Maybe] /\ at[0] = start
               /\ \A i \in 1..Len(offsets) : at[i] = FollowOffset(pointers, at[i - 1], offsets[i])
<1> DEFINE n == Len(offsets)
           G == [i \in 1..n |-> [v \in Maybe |-> FollowOffset(pointers, v, offsets[i])]]
           Good(f) == f = [i \in 0..n |-> IF i = 0 THEN start
                                          ELSE FollowOffset(pointers, f[i - 1], offsets[i])]
           at == CHOOSE f : Good(f)
<1>1. n \in Nat /\ \A i \in 1..n : offsets[i] \in Address
  OBVIOUS
<1>2. Closed(G, n, Maybe)
  BY <1>1, FollowTyped DEF Closed
<1>3. PICK f : History(f, G, n, Maybe, start)
  <2> HIDE DEF G, n
  <2> QED BY <1>1, <1>2, Recursion
<1>4. Good(f)
  <2>1. ASSUME NEW i \in 1..n PROVE G[i][f[i - 1]] = FollowOffset(pointers, f[i - 1], offsets[i])
    <3>1. f[i - 1] \in Maybe
      BY <1>1, <1>3 DEF History
    <3> QED BY <3>1
  <2> HIDE DEF G
  <2> QED BY <1>3, <2>1 DEF History
<1>5. Good(at)
  <2> HIDE DEF Good
  <2> QED BY <1>4, Zenon
<1> HIDE DEF at
<1>6. at[0] = start /\ \A i \in 1..n : at[i] = FollowOffset(pointers, at[i - 1], offsets[i])
  BY <1>5, <1>1
<1>7. \A i \in 0..n : at[i] \in Maybe
  <2> DEFINE S == {i \in Nat : i <= n => at[i] \in Maybe}
  <2>1. 0 \in S
    BY <1>6
  <2>2. ASSUME NEW i \in Nat, i \in S, i + 1 <= n PROVE at[i + 1] \in Maybe
    BY <2>2, <1>1, <1>6, FollowTyped
  <2>3. Nat \subseteq S
    <3>1. \A i \in Nat : i \in S => i + 1 \in S
      BY <2>2, <1>1
    <3> HIDE DEF S
    <3> QED BY <2>1, <3>1, Induction
  <2> QED BY <2>3
<1>8. at \in [0..n -> Maybe]
  BY <1>5, <1>7
<1> QED BY <1>6, <1>8 DEF at

\* Every path from the start is the one the loop took.
Hop(pointers, offsets, path, i) ==
    /\ pointers[path[i]] # Unmapped
    /\ path[i + 1] = pointers[path[i]] + offsets[i]
Paths(pointers, start, offsets) ==
    {path \in [1..(Len(offsets) + 1) -> Address] :
        path[1] = start /\ \A i \in 1..Len(offsets) : Hop(pointers, offsets, path, i)}

\* The chain is followed to the end exactly when there is a path, and to its end.
LEMMA ChainExact ==
    ASSUME NEW pointers, Readable(pointers), NEW base \in Address, NEW offset \in Address,
           NEW offsets \in Seq(Address)
    PROVE  LET last == resolvePointer(pointers, base, offset, offsets, FALSE)
               ends == {path[Len(offsets) + 1] : path \in Paths(pointers, base + offset, offsets)}
           IN  /\ last \in Maybe
               /\ last = NoAddress => ends = {}
               /\ last # NoAddress => ends = {last}
<1> DEFINE n == Len(offsets)
           start == addAddressOffset(base, offset)
           at == CHOOSE at : at = [i \in 0..Len(offsets) |->
                    IF i = 0 THEN start ELSE FollowOffset(pointers, at[i - 1], offsets[i])]
           last == at[n]
           P == Paths(pointers, base + offset, offsets)
<1>0. resolvePointer(pointers, base, offset, offsets, FALSE) = last
  BY DEF resolvePointer
<1>1. /\ n \in Nat /\ \A i \in 1..n : offsets[i] \in Address
      /\ start \in Maybe /\ (start # NoAddress => start = base + offset)
      /\ base + offset \in Address => start = base + offset
  BY SizeAssumption DEF addAddressOffset, Maybe, Address, NoAddress
<1>2. /\ at \in [0..n -> Maybe] /\ at[0] = start
      /\ \A i \in 1..n : at[i] = FollowOffset(pointers, at[i - 1], offsets[i])
  <2> HIDE DEF start
  <2> QED BY <1>1, ChainHistory
<1> HIDE DEF at, start
<1>3. ASSUME NEW path \in P PROVE \A i \in 0..n : path[i + 1] = at[i]
  <2> DEFINE S == {i \in Nat : i <= n => path[i + 1] = at[i]}
  <2>0. /\ path \in [1..(n + 1) -> Address] /\ path[1] = base + offset
        /\ \A i \in 1..n : Hop(pointers, offsets, path, i)
    BY DEF Paths
  <2>1. 0 \in S
    BY <2>0, <1>1, <1>2
  <2>2. ASSUME NEW i \in Nat, i \in S, i + 1 <= n PROVE path[i + 2] = at[i + 1]
    <3>1. at[i] = path[i + 1] /\ at[i] \in Address /\ path[i + 2] \in Address /\ i + 1 \in 1..n
      BY <2>0, <2>2, <1>1
    <3>2. pointers[at[i]] # Unmapped /\ path[i + 2] = pointers[at[i]] + offsets[i + 1]
      <4>1. Hop(pointers, offsets, path, i + 1)
        BY <2>0, <3>1
      <4> QED BY <4>1, <3>1 DEF Hop
    <3>3. at[i + 1] = FollowOffset(pointers, at[i], offsets[i + 1]) /\ offsets[i + 1] \in Address
      BY <1>2, <1>1, <3>1
    <3>4. at[i] # NoAddress /\ at[i] \in Maybe
      BY <3>1, SizeAssumption DEF Address, NoAddress, Maybe
    <3> QED BY <3>1, <3>2, <3>3, <3>4, FollowTyped
  <2>3. Nat \subseteq S
    <3>1. \A i \in Nat : i \in S => i + 1 \in S
      BY <2>2, <1>1
    <3> HIDE DEF S
    <3> QED BY <2>1, <3>1, Induction
  <2> QED BY <2>3, <1>1
<1>4. last = NoAddress => P = {}
  <2> SUFFICES ASSUME last = NoAddress, NEW path \in P PROVE FALSE
    OBVIOUS
  <2>1. path[n + 1] \in Address
    BY <1>1 DEF Paths
  <2>2. path[n + 1] = last
    BY <1>3, <1>1
  <2> QED BY <2>1, <2>2 DEF Address, NoAddress
<1>5. ASSUME last # NoAddress PROVE \A i \in 0..n : at[i] # NoAddress
  <2> DEFINE S == {k \in Nat : k <= n => at[n - k] # NoAddress}
  <2>1. 0 \in S
    BY <1>5, <1>1
  <2>2. ASSUME NEW k \in Nat, k \in S, k + 1 <= n PROVE at[n - (k + 1)] # NoAddress
    <3>1. n - k \in 1..n /\ n - (k + 1) = (n - k) - 1 /\ n - (k + 1) \in 0..n
      BY <1>1, <2>2
    <3>2. at[n - k] = FollowOffset(pointers, at[n - (k + 1)], offsets[n - k]) /\ at[n - k] # NoAddress
      BY <1>2, <2>2, <3>1
    <3>3. at[n - (k + 1)] \in Maybe /\ offsets[n - k] \in Address
      BY <1>1, <1>2, <3>1
    <3> QED BY <3>2, <3>3, FollowTyped
  <2>3. Nat \subseteq S
    <3>1. \A k \in Nat : k \in S => k + 1 \in S
      BY <2>2, <1>1
    <3> HIDE DEF S
    <3> QED BY <2>1, <3>1, Induction
  <2>4. ASSUME NEW i \in 0..n PROVE at[i] # NoAddress
    <3>1. n - i \in S /\ n - i <= n /\ n - (n - i) = i
      BY <2>3, <1>1
    <3> QED BY <3>1
  <2> QED BY <2>4
<1>6. ASSUME last # NoAddress PROVE \E path \in P : path[n + 1] = last
  <2> DEFINE path == [i \in 1..(n + 1) |-> at[i - 1]]
  <2>1. ASSUME NEW i \in 0..n PROVE at[i] \in Address
    BY <1>2, <1>5, <1>6 DEF Maybe
  <2>2. path \in [1..(n + 1) -> Address]
    BY <2>1, <1>1
  <2>3. path[1] = base + offset
    BY <1>1, <1>2, <1>5, <1>6
  <2>4. ASSUME NEW i \in 1..n PROVE Hop(pointers, offsets, path, i)
    <3>1. path[i] = at[i - 1] /\ path[i + 1] = at[i] /\ i - 1 \in 0..n
      BY <1>1
    <3>2. at[i] = FollowOffset(pointers, at[i - 1], offsets[i]) /\ at[i] # NoAddress
      BY <1>2, <1>5, <1>6
    <3>3. at[i - 1] \in Maybe /\ offsets[i] \in Address
      BY <1>1, <1>2, <3>1
    <3> HIDE DEF path
    <3> QED BY <3>1, <3>2, <3>3, FollowTyped DEF Hop
  <2>5. path \in P
    <3> HIDE DEF path
    <3> QED BY <2>2, <2>3, <2>4 DEF Paths
  <2>6. path[n + 1] = last
    BY <1>1
  <2> QED BY <2>5, <2>6
<1>7. \A path \in P : path[n + 1] = last
  BY <1>1, <1>3
<1> HIDE DEF P
<1>8. last # NoAddress => {path[n + 1] : path \in P} = {last}
  BY <1>6, <1>7
<1>9. last = NoAddress => {path[n + 1] : path \in P} = {}
  BY <1>4
<1>10. last \in Maybe
  BY <1>1, <1>2
<1> QED BY <1>0, <1>8, <1>9, <1>10 DEF P

\* Of every input of the sets, with the last dereference or without.
LEMMA ChainsHold == Given => ChainsNeverWrap
<1> SUFFICES ASSUME Given, input.kind = "chain" PROVE ChainsNeverWrap
  BY DEF ChainsNeverWrap
<1> DEFINE pointers == input.pointers
           base == input.base
           offset == input.offset
           offsets == input.offsets
           ends == {path[Len(offsets) + 1] : path \in Paths(pointers, base + offset, offsets)}
           last == resolvePointer(pointers, base, offset, offsets, FALSE)
           found == resolvePointer(pointers, base, offset, offsets, input.final)
           yields == IF input.final THEN {pointers[a] : a \in ends} \ {Unmapped} ELSE ends
<1>1. /\ Readable(pointers) /\ base \in Address /\ offset \in Address
      /\ offsets \in Seq(Address) /\ input.final \in BOOLEAN
  BY PointerAssumption DEF Given, Readable, Address
<1>2. /\ last \in Maybe
      /\ last = NoAddress => ends = {}
      /\ last # NoAddress => ends = {last}
  <2> HIDE DEF pointers, base, offset, offsets
  <2> QED BY <1>1, ChainExact
<1>3. found = IF input.final THEN Dereference(pointers, last) ELSE last
  BY <1>1 DEF resolvePointer
<1>4. IF found = NoAddress THEN yields = {} ELSE yields = {found}
  <2> HIDE DEF ends, last, found
  <2>1. CASE ~input.final
    BY <2>1, <1>2, <1>3
  <2>2. CASE input.final /\ last = NoAddress
    BY <2>2, <1>2, <1>3 DEF Dereference
  <2>3. CASE input.final /\ last # NoAddress
    <3>1. last \in Address /\ pointers[last] \in Address \cup {Unmapped}
      BY <2>3, <1>1, <1>2 DEF Maybe, Readable
    <3>2. {pointers[a] : a \in ends} = {pointers[last]}
      BY <2>3, <1>2
    <3>3. pointers[last] # Unmapped => pointers[last] # NoAddress
      BY <3>1 DEF Address, NoAddress
    <3> QED BY <2>3, <1>3, <3>1, <3>2, <3>3 DEF Dereference
  <2> QED BY <2>1, <2>2, <2>3, <1>1
<1> QED BY <1>4 DEF ChainsNeverWrap, Paths, Hop, Address

-----------------------------------------------------------------------------
(* Batches.                                                                 *)

Sized(items) == \A i \in 1..Len(items) : items[i].size \in Nat
Counted(blocks) == \A i \in 1..Len(blocks) : blocks[i].count \in Nat
Free(items) == (SUBSET (1..Len(items))) \cup {{0}}

\* The smallest item that fits exists and is found.
LEMMA BestExists ==
    ASSUME NEW items, Len(items) \in Nat, Sized(items), NEW free \in SUBSET (1..Len(items)), NEW block,
           \E i \in free : Fits(block, items[i])
    PROVE  LET b == BestMatch(items, free, block)
           IN  /\ b \in free /\ Fits(block, items[b])
               /\ \A j \in free : Fits(block, items[j]) => items[b].size <= items[j].size
<1> DEFINE F == {i \in free : Fits(block, items[i])}
           Z == {items[i].size : i \in F}
           Best(i) == /\ Fits(block, items[i])
                      /\ \A j \in free : Fits(block, items[j]) =>
                             \/ items[i].size < items[j].size
                             \/ items[i].size = items[j].size /\ i <= j
<1>1. Z \in SUBSET Nat /\ Z # {}
  BY DEF Sized
<1>2. PICK z \in Z : \A y \in Z : z <= y
  <2> HIDE DEF Z
  <2> QED BY <1>1, LeastNatural
<1> DEFINE E == {i \in F : items[i].size = z}
<1>3. E \in SUBSET Nat /\ E # {}
  <2>1. PICK f \in F : z = items[f].size
    BY <1>2
  <2>2. F \subseteq Nat
    <3>1. free \subseteq 1..Len(items)
      OBVIOUS
    <3>2. 1..Len(items) \subseteq Nat
      OBVIOUS
    <3>3. F \subseteq free
      OBVIOUS
    <3> HIDE DEF F
    <3> QED BY <3>1, <3>2, <3>3, Zenon
  <2> HIDE DEF F
  <2> QED BY <2>1, <2>2
<1>4. PICK e \in E : \A i \in E : e <= i
  <2> HIDE DEF E
  <2> QED BY <1>3, LeastNatural
<1>5. e \in free /\ Best(e)
  <2>1. e \in F /\ items[e].size = z /\ z \in Nat /\ e \in Nat
    BY <1>1, <1>4
  <2>2. ASSUME NEW j \in free, Fits(block, items[j])
        PROVE  items[e].size < items[j].size \/ (items[e].size = items[j].size /\ e <= j)
    <3>1. items[j].size \in Z /\ items[j].size \in Nat /\ z <= items[j].size /\ j \in F
      BY <2>2, <1>1, <1>2
    <3>2. items[j].size = z => j \in E
      BY <3>1
    <3> HIDE DEF E, Z
    <3> QED BY <2>1, <3>1, <3>2, <1>4
  <2> QED BY <2>1, <2>2
<1>6. \E i \in free : Best(i)
  BY <1>5
<1>7. BestMatch(items, free, block) \in free /\ Best(BestMatch(items, free, block))
  <2>1. BestMatch(items, free, block) = CHOOSE i \in free : Best(i)
    BY DEF BestMatch
  <2> HIDE DEF Best
  <2> QED BY <2>1, <1>6
<1>8. \A j \in free : items[j].size \in Nat
  BY DEF Sized
<1> DEFINE b == BestMatch(items, free, block)
<1>9. ASSUME NEW j \in free, Fits(block, items[j]) PROVE items[b].size <= items[j].size
  <2>1. b \in free /\ (items[b].size < items[j].size \/ items[b].size = items[j].size)
    BY <1>7, <1>9
  <2> HIDE DEF b
  <2> QED BY <2>1, <1>8
<1> QED BY <1>7, <1>9

\* Taking an item leaves a set of items, or the mark of a block that fits none.
LEMMA TakeTyped ==
    ASSUME NEW items, Len(items) \in Nat, Sized(items), NEW free \in Free(items), NEW block
    PROVE  /\ TakeItem(items, free, block) \in Free(items)
           /\ free = {0} => TakeItem(items, free, block) = {0}
           /\ TakeItem(items, free, block) # {0} =>
                  /\ free \in SUBSET (1..Len(items))
                  /\ BestMatch(items, free, block) \in free
                  /\ Fits(block, items[BestMatch(items, free, block)])
                  /\ TakeItem(items, free, block) = free \ {BestMatch(items, free, block)}
<1>1. CASE \E i \in free : i # 0 /\ Fits(block, items[i])
  <2>1. free \in SUBSET (1..Len(items)) /\ free # {0}
    BY <1>1 DEF Free
  <2>2. BestMatch(items, free, block) \in free /\ Fits(block, items[BestMatch(items, free, block)])
    BY <1>1, <2>1, BestExists
  <2> QED BY <1>1, <2>1, <2>2 DEF TakeItem, Free
<1>2. CASE ~\E i \in free : i # 0 /\ Fits(block, items[i])
  BY <1>2 DEF TakeItem, Free
<1> QED BY <1>1, <1>2

\* The loop over the blocks goes through a history of sets of free items.
LEMMA BatchHistory ==
    ASSUME NEW items, Len(items) \in Nat, Sized(items), DOMAIN items = 1..Len(items),
           NEW blocks, Len(blocks) \in Nat
    PROVE  LET free == CHOOSE free : free = [k \in 0..Len(blocks) |->
                          IF k = 0 THEN DOMAIN items ELSE TakeItem(items, free[k - 1], blocks[k])]
           IN  /\ free \in [0..Len(blocks) -> Free(items)] /\ free[0] = 1..Len(items)
               /\ \A k \in 1..Len(blocks) : free[k] = TakeItem(items, free[k - 1], blocks[k])
<1> DEFINE n == Len(blocks)
           V == Free(items)
           G == [k \in 1..n |-> [v \in V |-> TakeItem(items, v, blocks[k])]]
           Good(f) == f = [k \in 0..n |-> IF k = 0 THEN DOMAIN items
                                          ELSE TakeItem(items, f[k - 1], blocks[k])]
           free == CHOOSE f : Good(f)
<1>1. Closed(G, n, V)
  BY TakeTyped DEF Closed
<1>2. 1..Len(items) \in V
  BY DEF Free
<1>3. PICK f : History(f, G, n, V, 1..Len(items))
  <2> HIDE DEF G, n, V
  <2> QED BY <1>1, <1>2, Recursion DEF n
<1>4. Good(f)
  <2>1. ASSUME NEW k \in 1..n PROVE G[k][f[k - 1]] = TakeItem(items, f[k - 1], blocks[k])
    <3>1. f[k - 1] \in V
      BY <1>3 DEF History
    <3> QED BY <3>1
  <2> HIDE DEF G, V
  <2> QED BY <1>3, <2>1 DEF History
<1>5. Good(free)
  <2> HIDE DEF Good
  <2> QED BY <1>4, Zenon
<1> HIDE DEF free
<1>6. free[0] = 1..Len(items) /\ \A k \in 1..n : free[k] = TakeItem(items, free[k - 1], blocks[k])
  BY <1>5
<1>7. \A k \in 0..n : free[k] \in V
  <2> DEFINE S == {k \in Nat : k <= n => free[k] \in V}
  <2> HIDE DEF V
  <2>1. 0 \in S
    BY <1>6, <1>2
  <2>2. ASSUME NEW k \in Nat, k \in S, k + 1 <= n PROVE free[k + 1] \in V
    <3>1. free[k] \in V /\ free[k + 1] = TakeItem(items, free[k], blocks[k + 1])
      BY <2>2, <1>6
    <3> QED BY <3>1, TakeTyped DEF V
  <2>3. Nat \subseteq S
    <3>1. \A k \in Nat : k \in S => k + 1 \in S
      BY <2>2
    <3> HIDE DEF S
    <3> QED BY <2>1, <3>1, Induction
  <2> QED BY <2>3
<1>8. free \in [0..n -> V]
  <2> HIDE DEF V
  <2> QED BY <1>5, <1>7
<1> QED BY <1>6, <1>8 DEF free

\* A full match pairs every block with the item it took.
LEMMA MatchedIsPaired ==
    ASSUME NEW items, Len(items) \in Nat, Sized(items), NEW blocks, Len(blocks) \in Nat,
           NEW free \in [0..Len(blocks) -> Free(items)],
           \A k \in 1..Len(blocks) : free[k] = TakeItem(items, free[k - 1], blocks[k]),
           free[Len(blocks)] # {0}
    PROVE  \E pairing \in [1..Len(blocks) -> 1..Len(items)] :
               /\ \A i, j \in 1..Len(blocks) : i # j => pairing[i] # pairing[j]
               /\ \A i \in 1..Len(blocks) : Fits(blocks[i], items[pairing[i]])
<1> DEFINE n == Len(blocks)
           best(k) == BestMatch(items, free[k - 1], blocks[k])
<1>1. \A i \in 0..n : free[i] # {0}
  <2> DEFINE S == {k \in Nat : k <= n => free[n - k] # {0}}
  <2>1. 0 \in S
    OBVIOUS
  <2>2. ASSUME NEW k \in Nat, k \in S, k + 1 <= n PROVE free[n - (k + 1)] # {0}
    <3>1. n - k \in 1..n /\ n - (k + 1) = (n - k) - 1 /\ n - (k + 1) \in 0..n
      BY <2>2
    <3>2. free[n - k] = TakeItem(items, free[n - (k + 1)], blocks[n - k]) /\ free[n - k] # {0}
      BY <2>2, <3>1
    <3>3. free[n - (k + 1)] \in Free(items)
      BY <3>1
    <3> QED BY <3>2, <3>3, TakeTyped
  <2>3. Nat \subseteq S
    <3>1. \A k \in Nat : k \in S => k + 1 \in S
      BY <2>2
    <3> HIDE DEF S
    <3> QED BY <2>1, <3>1, Induction
  <2>4. ASSUME NEW i \in 0..n PROVE free[i] # {0}
    <3>1. n - i \in Nat /\ n - i <= n /\ n - (n - i) = i
      OBVIOUS
    <3>2. n - i \in S
      <4> HIDE DEF S
      <4> QED BY <2>3, <3>1
    <3> QED BY <3>1, <3>2
  <2> QED BY <2>4
<1>2. ASSUME NEW k \in 1..n
      PROVE  /\ free[k - 1] \subseteq 1..Len(items)
             /\ best(k) \in free[k - 1] /\ Fits(blocks[k], items[best(k)])
             /\ free[k] = free[k - 1] \ {best(k)}
  <2>1. free[k - 1] \in Free(items) /\ free[k] = TakeItem(items, free[k - 1], blocks[k]) /\ free[k] # {0}
    BY <1>1
  <2> QED BY <2>1, TakeTyped
<1> HIDE DEF best
<1>3. ASSUME NEW i \in 0..n PROVE \A j \in i..n : free[j] \subseteq free[i]
  <2> DEFINE S == {d \in Nat : i + d <= n => free[i + d] \subseteq free[i]}
  <2>1. 0 \in S
    OBVIOUS
  <2>2. ASSUME NEW d \in Nat, d \in S, i + (d + 1) <= n PROVE free[i + (d + 1)] \subseteq free[i]
    <3>1. i + (d + 1) \in 1..n /\ (i + (d + 1)) - 1 = i + d /\ i + d <= n
      BY <2>2
    <3>2. free[i + (d + 1)] \subseteq free[i + d]
      BY <1>2, <3>1
    <3> QED BY <3>1, <3>2, <2>2
  <2>3. Nat \subseteq S
    <3>1. \A d \in Nat : d \in S => d + 1 \in S
      BY <2>2
    <3> HIDE DEF S
    <3> QED BY <2>1, <3>1, Induction
  <2>4. ASSUME NEW j \in i..n PROVE free[j] \subseteq free[i]
    <3>1. j - i \in Nat /\ i + (j - i) = j /\ j <= n
      OBVIOUS
    <3>2. j - i \in S
      <4> HIDE DEF S
      <4> QED BY <2>3, <3>1
    <3> QED BY <3>1, <3>2
  <2> QED BY <2>4
<1>4. ASSUME NEW i \in 1..n, NEW j \in 1..n, i < j PROVE best(i) # best(j)
  <2>1. j - 1 \in i..n /\ i \in 0..n
    BY <1>4
  <2>2. best(j) \in free[i]
    BY <2>1, <1>2, <1>3
  <2> QED BY <2>2, <1>2
<1> DEFINE pairing == [i \in 1..n |-> best(i)]
<1>5. pairing \in [1..n -> 1..Len(items)]
  BY <1>2
<1>6. ASSUME NEW i \in 1..n, NEW j \in 1..n, i # j PROVE pairing[i] # pairing[j]
  <2>1. best(i) # best(j)
    BY <1>4, <1>6
  <2> QED BY <2>1
<1>7. \A i \in 1..n : Fits(blocks[i], items[pairing[i]])
  BY <1>2
<1> QED BY <1>5, <1>6, <1>7

\* Pairings of the blocks after the first k with free items.
Pairing(q, items, blocks, free, k) ==
    /\ q \in [(k + 1)..Len(blocks) -> free]
    /\ \A i, j \in (k + 1)..Len(blocks) : i # j => q[i] # q[j]
    /\ \A i \in (k + 1)..Len(blocks) : Fits(blocks[i], items[q[i]])

Exchanged(items, blocks, free, k) ==
    LET b == BestMatch(items, free, blocks[k + 1])
    IN  /\ b \in free
        /\ TakeItem(items, free, blocks[k + 1]) = free \ {b}
        /\ \E r : Pairing(r, items, blocks, free \ {b}, k + 1)

\* Exchange: who was to have the item taken has the one set free.
LEMMA Exchange ==
    ASSUME NEW items, Len(items) \in Nat, Sized(items), NEW blocks, Len(blocks) \in Nat,
           Counted(blocks),
           NEW k \in Nat, k + 1 <= Len(blocks), NEW free \in SUBSET (1..Len(items)),
           NEW q, Pairing(q, items, blocks, free, k)
    PROVE  Exchanged(items, blocks, free, k)
<1> DEFINE n == Len(blocks)
           b == BestMatch(items, free, blocks[k + 1])
           c == q[k + 1]
<1>1. c \in free /\ Fits(blocks[k + 1], items[c]) /\ k + 1 \in (k + 1)..n
  BY DEF Pairing
<1>2. /\ b \in free /\ Fits(blocks[k + 1], items[b])
      /\ \A j \in free : Fits(blocks[k + 1], items[j]) => items[b].size <= items[j].size
  <2>1. \E i \in free : Fits(blocks[k + 1], items[i])
    BY <1>1
  <2> QED BY <2>1, BestExists
<1>3. TakeItem(items, free, blocks[k + 1]) = free \ {b}
  <2>1. c # 0
    BY <1>1
  <2> QED BY <1>1, <2>1 DEF TakeItem
<1> HIDE DEF b
<1> DEFINE r == [m \in (k + 2)..n |-> IF q[m] = b THEN c ELSE q[m]]
<1>4. ASSUME NEW m \in (k + 2)..n
      PROVE  /\ r[m] = (IF q[m] = b THEN c ELSE q[m])
             /\ m \in (k + 1)..n /\ q[m] \in free /\ q[m] # c /\ m \in 1..n
  BY <1>1 DEF Pairing
<1>5. \A m \in (k + 2)..n : r[m] \in free \ {b}
  BY <1>1, <1>4
<1>6. ASSUME NEW i \in (k + 2)..n, NEW j \in (k + 2)..n, i # j PROVE r[i] # r[j]
  <2>1. q[i] # q[j]
    BY <1>4, <1>6 DEF Pairing
  <2> HIDE DEF r, c
  <2> QED BY <2>1, <1>4
<1>7. ASSUME NEW m \in (k + 2)..n PROVE Fits(blocks[m], items[r[m]])
  <2>1. Fits(blocks[m], items[q[m]])
    BY <1>4 DEF Pairing
  <2>2. CASE q[m] = b
    <3>1. items[b].size <= items[c].size /\ items[b].size \in Nat /\ items[c].size \in Nat
          /\ blocks[m].count \in Nat
      BY <1>1, <1>2, <1>4 DEF Sized, Counted
    <3>2. r[m] = c
      BY <2>2, <1>4
    <3> HIDE DEF r, c
    <3> QED BY <2>1, <2>2, <3>1, <3>2, <1>1, <1>2 DEF Fits
  <2>3. CASE q[m] # b
    BY <2>1, <2>3, <1>4
  <2> QED BY <2>2, <2>3
<1>8. Pairing(r, items, blocks, free \ {b}, k + 1)
  <2>1. k + 1 + 1 = k + 2
    OBVIOUS
  <2>2. r \in [(k + 2)..n -> free \ {b}]
    BY <1>5
  <2> HIDE DEF r
  <2> QED BY <2>1, <2>2, <1>6, <1>7 DEF Pairing
<1> QED BY <1>2, <1>3, <1>8 DEF b, Exchanged

\* If the blocks can be paired with the items, every block finds one.
LEMMA PairedIsMatched ==
    ASSUME NEW items, Len(items) \in Nat, Sized(items), NEW blocks, Len(blocks) = Len(items),
           Counted(blocks),
           NEW free, free[0] = 1..Len(items),
           \A k \in 1..Len(blocks) : free[k] = TakeItem(items, free[k - 1], blocks[k]),
           NEW pairing, Pairing(pairing, items, blocks, 1..Len(items), 0)
    PROVE  free[Len(blocks)] = {}
<1> DEFINE n == Len(items)
           Left(k) == /\ free[k] \in SUBSET (1..n) /\ IsFiniteSet(free[k])
                      /\ Cardinality(free[k]) = n - k
                      /\ \E q : Pairing(q, items, blocks, free[k], k)
           S == {k \in Nat : k <= n => Left(k)}
<1>0. n \in Nat /\ Len(blocks) = n /\ Len(blocks) \in Nat
  OBVIOUS
<1>1. 0 \in S
  <2>1. IsFiniteSet(1..n) /\ Cardinality(1..n) = n
    <3> HIDE DEF n
    <3>1. /\ IsFiniteSet(1..n)
          /\ Cardinality(1..n) = IF 1 > n THEN 0 ELSE n - 1 + 1
      BY <1>0, FS_Interval
    <3> QED BY <1>0, <3>1
  <2> QED BY <2>1
<1>2. ASSUME NEW k \in Nat, k \in S, k + 1 <= n PROVE Left(k + 1)
  <2> DEFINE b == BestMatch(items, free[k], blocks[k + 1])
  <2>1. PICK q : Pairing(q, items, blocks, free[k], k)
    BY <1>2
  <2>2. /\ free[k] \in SUBSET (1..n) /\ IsFiniteSet(free[k]) /\ Cardinality(free[k]) = n - k
        /\ k + 1 <= Len(blocks)
    BY <1>2
  <2>3. /\ b \in free[k] /\ TakeItem(items, free[k], blocks[k + 1]) = free[k] \ {b}
        /\ \E r : Pairing(r, items, blocks, free[k] \ {b}, k + 1)
    <3>1. Exchanged(items, blocks, free[k], k)
      BY <2>1, <2>2, <1>0, Exchange
    <3> QED BY <3>1 DEF Exchanged
  <2>4. free[k + 1] = free[k] \ {b}
    <3>1. k + 1 \in 1..Len(blocks) /\ (k + 1) - 1 = k
      BY <1>2
    <3> QED BY <3>1, <2>3
  <2> HIDE DEF b
  <2>5. IsFiniteSet(free[k] \ {b}) /\ Cardinality(free[k] \ {b}) = (n - k) - 1
    <3>1. IsFiniteSet(free[k] \ {b}) /\ Cardinality(free[k] \ {b}) = Cardinality(free[k]) - 1
      BY <2>2, <2>3, FS_RemoveElement
    <3> QED BY <3>1, <2>2
  <2>6. (n - k) - 1 = n - (k + 1)
    BY <1>0
  <2> QED BY <2>2, <2>3, <2>4, <2>5, <2>6
<1>3. Nat \subseteq S
  <2>1. \A k \in Nat : k \in S => k + 1 \in S
    <3> HIDE DEF Left
    <3> QED BY <1>2, <1>0
  <2> HIDE DEF S
  <2> QED BY <1>1, <2>1, Induction
<1>4. IsFiniteSet(free[n]) /\ Cardinality(free[n]) = n - n
  BY <1>3
<1> QED BY <1>4, FS_EmptySet

\* Of every request and answer of the sets.
LEMMA BatchesHold == Given => BatchesMatchExactly
<1> SUFFICES ASSUME Given, input.kind = "batch" PROVE BatchesMatchExactly
  BY DEF BatchesMatchExactly
<1> DEFINE items == input.items
           blocks == input.blocks
           n == Len(blocks)
           free == CHOOSE free : free = [k \in 0..Len(blocks) |->
                      IF k = 0 THEN DOMAIN items ELSE TakeItem(items, free[k - 1], blocks[k])]
           Paired == \E pairing \in [1..n -> 1..Len(items)] :
                        /\ \A i, j \in 1..n : i # j => pairing[i] # pairing[j]
                        /\ \A i \in 1..n : Fits(blocks[i], items[pairing[i]])
<1>1. /\ Len(items) \in Nat /\ DOMAIN items = 1..Len(items) /\ Sized(items)
      /\ Len(blocks) \in Nat /\ DOMAIN blocks = 1..Len(blocks)
      /\ Counted(blocks)
  <2>1. PICK b \in Batches : items = b.items /\ blocks = b.blocks
    BY DEF Given
  <2>2. /\ items \in Seq(Range(items)) /\ blocks \in Seq(Range(blocks))
        /\ \A i \in DOMAIN items : items[i].size \in Nat
        /\ \A i \in DOMAIN blocks : blocks[i].count \in Nat
    BY <2>1, BatchAssumption
  <2> HIDE DEF items, blocks
  <2> QED BY <2>2 DEF Sized, Counted
<1>2. MatchBatch(items, blocks) = free[n]
  BY DEF MatchBatch
<1> HIDE DEF items, blocks
<1>3. /\ free \in [0..n -> Free(items)] /\ free[0] = 1..Len(items)
      /\ \A k \in 1..n : free[k] = TakeItem(items, free[k - 1], blocks[k])
  BY <1>1, BatchHistory
<1> HIDE DEF free
<1>4. ASSUME AcceptsBatch(items, blocks) PROVE n = Len(items) /\ Paired
  <2>1. free[n] # {0} /\ n = Len(items)
    BY <1>2, <1>4 DEF AcceptsBatch
  <2> QED BY <2>1, <1>1, <1>3, MatchedIsPaired
<1>5. ASSUME n = Len(items), Paired PROVE AcceptsBatch(items, blocks)
  <2>1. PICK q : Pairing(q, items, blocks, 1..Len(items), 0)
    BY <1>1, <1>5 DEF Pairing
  <2>2. free[n] = {}
    BY <2>1, <1>1, <1>3, <1>5, PairedIsMatched
  <2> QED BY <2>2, <1>2, <1>5 DEF AcceptsBatch
<1>6. AcceptsBatch(items, blocks) <=> n = Len(items) /\ Paired
  BY <1>4, <1>5
<1> QED BY <1>1, <1>6 DEF BatchesMatchExactly, items, blocks

-----------------------------------------------------------------------------
(* Lists.                                                                   *)

\* Where a page that starts inside the list ends.
LEMMA PageShape ==
    ASSUME NEW S, NEW items \in Seq(S), NEW offset \in 0..Len(items),
           NEW limit \in Nat \ {0}, NEW got \in Nat \ {0}
    PROVE  \E end \in offset..Len(items) :
               LET p == Page(items, offset, limit, got)
               IN  /\ p.items = SubSeq(items, offset + 1, end)
                   /\ end = Len(items) => p.next = NoOffset
                   /\ end < Len(items) => p.next = end /\ p.next # NoOffset /\ end > offset
<1> DEFINE L == Len(items)
           n == Lesser(Lesser(limit, L - offset), got)
<1>1. L \in Nat
  OBVIOUS
<1> HIDE DEF L
<1>2. Lesser(offset, L) = offset
  BY <1>1 DEF Lesser, L
<1>3. n \in 0..(L - offset) /\ (offset < L => n > 0)
  BY <1>1 DEF Lesser, L
<1> HIDE DEF n
<1>4. /\ Page(items, offset, limit, got).items = SubSeq(items, offset + 1, offset + n)
      /\ Page(items, offset, limit, got).next = IF offset + n < L THEN offset + n ELSE NoOffset
  BY <1>2 DEF Page, NextOffset, L, n
<1>5. offset + n \in offset..L
  BY <1>1, <1>3 DEF L
<1>6. offset + n < L => offset + n # NoOffset /\ offset + n > offset
  BY <1>1, <1>3 DEF NoOffset, L
<1> QED BY <1>1, <1>4, <1>5, <1>6 DEF L

\* Following nextOffset collects the rest of the list.
LEMMA PagesCollect ==
    ASSUME NEW S, NEW items \in Seq(S), NEW limit \in Nat \ {0}, NEW got \in Nat \ {0}
    PROVE  LET from[offset \in 0..Len(items)] ==
                   LET p == Page(items, offset, limit, got)
                   IN  IF p.next = NoOffset THEN p.items ELSE p.items \o from[p.next]
           IN  from[0] = items
<1> DEFINE L == Len(items)
           P(o) == Page(items, o, limit, got)
           Good(f) == f = [o \in 0..L |-> IF P(o).next = NoOffset THEN P(o).items
                                          ELSE P(o).items \o f[P(o).next]]
           rest(o) == SubSeq(items, o + 1, L)
           g == [o \in 0..L |-> rest(o)]
           from == CHOOSE f : Good(f)
<1>1. L \in Nat
  OBVIOUS
<1>2. ASSUME NEW o \in 0..L
      PROVE  \/ P(o).next = NoOffset /\ P(o).items = rest(o)
             \/ /\ P(o).next # NoOffset /\ P(o).next \in (o + 1)..L
                /\ rest(o) = P(o).items \o rest(P(o).next)
  <2>1. PICK end \in o..L : /\ P(o).items = SubSeq(items, o + 1, end)
                            /\ end = L => P(o).next = NoOffset
                            /\ end < L => P(o).next = end /\ P(o).next # NoOffset /\ end > o
    BY PageShape
  <2> HIDE DEF P
  <2>2. CASE end = L
    BY <2>1, <2>2
  <2>3. CASE end < L
    <3>1. o + 1 \in 1..L + 1 /\ end \in (o + 1) - 1..L /\ L \in end..L
      BY <1>1, <2>3
    <3>2. SubSeq(items, o + 1, end) \o SubSeq(items, end + 1, L) = SubSeq(items, o + 1, L)
      BY <3>1, ConcatAdjacentSubSeq
    <3>3. end \in (o + 1)..L
      BY <1>1, <2>1, <2>3
    <3> QED BY <2>1, <2>3, <3>2, <3>3
  <2>4. end = L \/ end < L
    BY <1>1
  <2> QED BY <2>2, <2>3, <2>4
<1> HIDE DEF P, rest
<1>3. Good(g)
  <2>1. ASSUME NEW o \in 0..L
        PROVE  g[o] = IF P(o).next = NoOffset THEN P(o).items ELSE P(o).items \o g[P(o).next]
    <3>1. CASE P(o).next = NoOffset
      BY <1>2, <3>1
    <3>2. CASE P(o).next # NoOffset
      <4>1. P(o).next \in 0..L /\ rest(o) = P(o).items \o rest(P(o).next)
        <5>1. P(o).next \in (o + 1)..L /\ rest(o) = P(o).items \o rest(P(o).next)
          BY <1>2, <3>2
        <5>2. \A x \in (o + 1)..L : x \in 0..L
          BY <1>1
        <5> QED BY <5>1, <5>2
      <4> QED BY <3>2, <4>1
    <3> QED BY <3>1, <3>2
  <2> QED BY <2>1
<1>4. Good(from)
  <2> HIDE DEF Good, g
  <2> QED BY <1>3, Zenon
<1> HIDE DEF from
<1>5. ASSUME NEW o \in 0..L
      PROVE  from[o] = IF P(o).next = NoOffset THEN P(o).items ELSE P(o).items \o from[P(o).next]
  BY <1>4
<1>6. from[0] = rest(0)
  <2> DEFINE T == {d \in Nat : \A e \in 0..d : e <= L => from[L - e] = rest(L - e)}
  <2>0. ASSUME NEW d \in Nat, d <= L, \A e \in 0..(d - 1) : from[L - e] = rest(L - e)
        PROVE  from[L - d] = rest(L - d)
    <3> DEFINE o == L - d
    <3>1. o \in 0..L
      BY <1>1, <2>0
    <3>2. CASE P(o).next = NoOffset
      BY <1>2, <1>5, <3>1, <3>2
    <3>3. CASE P(o).next # NoOffset
      <4> DEFINE x == P(o).next
      <4>1. x \in (o + 1)..L /\ rest(o) = P(o).items \o rest(x)
        BY <1>2, <3>1, <3>3
      <4>2. L - x \in 0..(d - 1) /\ L - (L - x) = x
        <5> HIDE DEF x
        <5> QED BY <1>1, <2>0, <4>1
      <4>3. from[x] = rest(x)
        <5> HIDE DEF x
        <5> QED BY <2>0, <4>2
      <4> QED BY <1>5, <3>1, <3>3, <4>1, <4>3
    <3> QED BY <3>2, <3>3
  <2>1. 0 \in T
    <3>1. from[L - 0] = rest(L - 0)
      BY <2>0, <1>1
    <3> QED BY <3>1
  <2>2. ASSUME NEW d \in Nat, d \in T PROVE d + 1 \in T
    <3> SUFFICES ASSUME NEW e \in 0..(d + 1), e <= L PROVE from[L - e] = rest(L - e)
      OBVIOUS
    <3>1. CASE e <= d
      BY <2>2, <3>1
    <3>2. CASE e = d + 1
      <4>1. \A y \in 0..(e - 1) : from[L - y] = rest(L - y)
        BY <2>2, <3>2, <1>1
      <4> QED BY <4>1, <2>0, <3>2
    <3> QED BY <3>1, <3>2
  <2>3. Nat \subseteq T
    <3>1. \A d \in Nat : d \in T => d + 1 \in T
      BY <2>2
    <3> HIDE DEF T
    <3> QED BY <2>1, <3>1, Induction
  <2>4. L \in T
    <3> HIDE DEF T
    <3> QED BY <1>1, <2>3
  <2>5. from[L - L] = rest(L - L)
    BY <1>1, <2>4
  <2> QED BY <1>1, <2>5
<1>7. rest(0) = items
  BY SubSeqFull DEF rest
<1> QED BY <1>6, <1>7 DEF from, P

\* What of an entry arrives: it, with its size on the wire.
Received(entry) == [entry EXCEPT !.size = Lesser(entry.size, MaxSize)]

\* A mapping under a name.
Entry(m, name) == [base |-> m.start, size |-> m.end - m.start, name |-> name, flag |-> m.perms]

\* One mapping, as either backend reports it, reaches the client with its size cut
\* to what the wire can say.
LEMMA MappingArrives ==
    ASSUME NEW m, m.start \in 1..MaxAddress, m.end \in (m.start + 1)..MaxAddress,
           m.perms \in Protections
    PROVE  /\ \A name : AcceptedModule(Received(Entry(m, name)))
           /\ SystemMap(m) = Entry(m, Scanned(m.name))
           /\ "r" \in m.perms => KernelMap(m) = Entry(m, m.name)
<1>1. ASSUME NEW name PROVE AcceptedModule(Received(Entry(m, name)))
  <2>1. /\ Received(Entry(m, name)).base = m.start
        /\ Received(Entry(m, name)).size = Lesser(m.end - m.start, MaxSize)
    BY DEF Entry, Received
  <2>2. Lesser(m.end - m.start, MaxSize) \in 1..(m.end - m.start)
    BY SizeAssumption DEF Lesser
  <2> QED BY <2>1, <2>2, SizeAssumption DEF AcceptedModule
<1>2. ASSUME "r" \in m.perms PROVE KernelMap(m) = Entry(m, m.name)
  <2>1. PICK access \in SUBSET {"r", "w", "x"}, kind \in {"p", "s"} : m.perms = access \cup {kind}
    BY DEF Protections
  <2> DEFINE r == ConvertMapEntry(m)
  <2>2. /\ r.base = m.start /\ r.size = m.end - m.start /\ r.name = m.name
        /\ r.type = IF "s" \in m.perms THEN "MEM_MAPPED" ELSE "MEM_PRIVATE"
        /\ r.protection = IF "x" \in m.perms
                          THEN IF "w" \in m.perms THEN "PAGE_EXECUTE_READWRITE" ELSE "PAGE_EXECUTE_READ"
                          ELSE IF "w" \in m.perms THEN "PAGE_READWRITE" ELSE "PAGE_READONLY"
    <3>1. r.size = m.end - m.start
      <4>1. m.end > m.start
        BY SizeAssumption
      <4> QED BY <4>1 DEF ConvertMapEntry
    <3>2. CASE "x" \in m.perms /\ "w" \in m.perms
      BY <3>1, <3>2 DEF ConvertMapEntry
    <3>3. CASE "x" \in m.perms /\ "w" \notin m.perms
      BY <3>1, <3>3 DEF ConvertMapEntry
    <3>4. CASE "x" \notin m.perms /\ "w" \in m.perms
      BY <3>1, <3>4 DEF ConvertMapEntry
    <3>5. CASE "x" \notin m.perms /\ "w" \notin m.perms
      BY <1>2, <3>1, <3>5 DEF ConvertMapEntry
    <3> QED BY <3>2, <3>3, <3>4, <3>5
  <2> DEFINE flag == KernelMap(m).flag
  <2>3. flag = {IF "s" \in m.perms THEN "s" ELSE "p"} \cup {"r"}
                  \cup (IF "w" \in m.perms THEN {"w"} ELSE {}) \cup (IF "x" \in m.perms THEN {"x"} ELSE {})
    <3> HIDE DEF r
    <3> QED BY <2>2 DEF KernelMap, r
  <2>4. flag = m.perms
    <3> HIDE DEF flag
    <3> QED BY <1>2, <2>1, <2>3
  <2>5. KernelMap(m) = [base |-> m.start, size |-> m.end - m.start, name |-> m.name, flag |-> flag]
    <3> HIDE DEF r
    <3> QED BY <2>2 DEF KernelMap, r
  <2> QED BY <2>4, <2>5 DEF Entry
<1>3. SystemMap(m) = Entry(m, Scanned(m.name))
  BY DEF SystemMap, Entry
<1> QED BY <1>1, <1>2, <1>3

\* A list of acceptable entries is received as it was sent.
LEMMA ListArrives ==
    ASSUME NEW maps, NEW sent, DOMAIN sent = DOMAIN maps, sent = [i \in DOMAIN maps |-> sent[i]],
           \A i \in DOMAIN maps : AcceptedModule(Received(sent[i]))
    PROVE  FetchModuleList(sent) = [i \in DOMAIN maps |-> Received(sent[i])]
<1> DEFINE modules == [i \in DOMAIN sent |->
                         [sent[i] EXCEPT !.size = decodeModuleSize(ClampUint32Size(@))]]
<1>1. modules = [i \in DOMAIN maps |-> Received(sent[i])]
  BY DEF Received, decodeModuleSize, ClampUint32Size
<1>2. FetchModuleList(sent) = IF \A i \in DOMAIN modules : AcceptedModule(modules[i]) THEN modules ELSE <<>>
  BY DEF FetchModuleList
<1> HIDE DEF modules
<1> QED BY <1>1, <1>2

\* Of every list of mappings and every list to be paged.
LEMMA ListsHold == Given => ListsArriveWhole
<1> SUFFICES ASSUME Given PROVE ListsArriveWhole
  OBVIOUS
<1>1. ASSUME input.kind = "maps"
      PROVE  LET maps == input.maps
                 exact(Name(_)) ==
                     [i \in DOMAIN maps |->
                         [base |-> maps[i].start, size |-> Lesser(maps[i].end - maps[i].start, MaxSize),
                          name |-> Name(maps[i].name), flag |-> maps[i].perms]]
                 whole(name) == name
             IN  /\ (\A i \in DOMAIN maps : Leftover(maps[i].name) = <<>>) =>
                        FetchModuleList(SystemMaps(maps)) = exact(Scanned)
                 /\ (\A i \in DOMAIN maps : "r" \in maps[i].perms) =>
                        FetchModuleList(KernelMaps(maps)) = exact(whole)
  <2> DEFINE maps == input.maps
             system == [i \in DOMAIN maps |-> Entry(maps[i], Scanned(maps[i].name))]
             kernel == [i \in DOMAIN maps |-> Entry(maps[i], maps[i].name)]
             exact(Name(_)) ==
                 [i \in DOMAIN maps |->
                     [base |-> maps[i].start, size |-> Lesser(maps[i].end - maps[i].start, MaxSize),
                      name |-> Name(maps[i].name), flag |-> maps[i].perms]]
             whole(name) == name
  <2>1. ASSUME NEW i \in DOMAIN maps
        PROVE  /\ \A name : AcceptedModule(Received(Entry(maps[i], name)))
               /\ SystemMap(maps[i]) = Entry(maps[i], Scanned(maps[i].name))
               /\ "r" \in maps[i].perms => KernelMap(maps[i]) = Entry(maps[i], maps[i].name)
    <3>1. /\ maps[i].start \in 1..MaxAddress /\ maps[i].end \in (maps[i].start + 1)..MaxAddress
          /\ maps[i].perms \in Protections
      BY <1>1, MemoryAssumption DEF Given
    <3> QED BY <3>1, MappingArrives
  <2> HIDE DEF maps
  <2>2. FetchModuleList(system) = exact(Scanned)
    <3>1. /\ DOMAIN system = DOMAIN maps /\ system = [i \in DOMAIN maps |-> system[i]]
          /\ \A i \in DOMAIN maps : AcceptedModule(Received(system[i]))
      BY <2>1
    <3>2. exact(Scanned) = [i \in DOMAIN maps |-> Received(system[i])]
      BY DEF Received, Entry
    <3> HIDE DEF system, exact
    <3>3. FetchModuleList(system) = [i \in DOMAIN maps |-> Received(system[i])]
      BY <3>1, ListArrives
    <3> QED BY <3>2, <3>3
  <2>3. FetchModuleList(kernel) = exact(whole)
    <3>1. /\ DOMAIN kernel = DOMAIN maps /\ kernel = [i \in DOMAIN maps |-> kernel[i]]
          /\ \A i \in DOMAIN maps : AcceptedModule(Received(kernel[i]))
      BY <2>1
    <3>2. exact(whole) = [i \in DOMAIN maps |-> Received(kernel[i])]
      BY DEF Received, Entry
    <3> HIDE DEF kernel, exact
    <3>3. FetchModuleList(kernel) = [i \in DOMAIN maps |-> Received(kernel[i])]
      BY <3>1, ListArrives
    <3> QED BY <3>2, <3>3
  <2>4. (\A i \in DOMAIN maps : Leftover(maps[i].name) = <<>>) => SystemMaps(maps) = system
    BY <2>1 DEF SystemMaps
  <2>5. (\A i \in DOMAIN maps : "r" \in maps[i].perms) => KernelMaps(maps) = kernel
    BY <2>1 DEF KernelMaps
  <2>6. /\ (\A i \in DOMAIN maps : Leftover(maps[i].name) = <<>>) =>
               FetchModuleList(SystemMaps(maps)) = exact(Scanned)
        /\ (\A i \in DOMAIN maps : "r" \in maps[i].perms) =>
               FetchModuleList(KernelMaps(maps)) = exact(whole)
    <3> HIDE DEF system, kernel, exact
    <3> QED BY <2>2, <2>3, <2>4, <2>5
  <2> QED BY <2>6 DEF maps
<1>2. ASSUME input.kind = "pages"
      PROVE  LET items == input.items
                 from[offset \in 0..Len(items)] ==
                     LET p == Page(items, offset, input.limit, input.got)
                     IN  IF p.next = NoOffset THEN p.items ELSE p.items \o from[p.next]
             IN  from[0] = items
  <2> DEFINE items == input.items
             limit == input.limit
             got == input.got
  <2>1. /\ items \in Seq(Range(items)) /\ limit \in Nat \ {0} /\ got \in Nat \ {0}
    BY <1>2, MemoryAssumption DEF Given
  <2> HIDE DEF items, limit, got
  <2>2. LET from[offset \in 0..Len(items)] ==
                LET p == Page(items, offset, limit, got)
                IN  IF p.next = NoOffset THEN p.items ELSE p.items \o from[p.next]
        IN  from[0] = items
    BY <2>1, PagesCollect
  <2> QED BY <2>2 DEF items, limit, got
<1> QED BY <1>1, <1>2 DEF ListsArriveWhole

-----------------------------------------------------------------------------
(* Modules.                                                                 *)

Key(modules, i) == lowerAscii(modules[i].name)
Keys(modules) == {Key(modules, i) : i \in DOMAIN modules}
Spread(modules) ==
    /\ \A i \in DOMAIN modules : modules[i].base \in Nat
    /\ \A i, j \in DOMAIN modules : modules[i].base = modules[j].base => i = j

\* The lowest segment of a name is one segment, whatever the order.
IsLowest(modules, k, i) ==
    /\ i \in DOMAIN modules /\ Key(modules, i) = k
    /\ \A j \in DOMAIN modules : Key(modules, j) = k => modules[i].base <= modules[j].base

\* Every module has a segment with the lowest base.
LEMMA LowestFound ==
    ASSUME NEW modules, DOMAIN modules \subseteq Nat, Spread(modules), NEW k \in Keys(modules)
    PROVE  \E i : IsLowest(modules, k, i) /\ LowestOf(modules, k) = modules[i]
<1> DEFINE B == {modules[i].base : i \in {i \in DOMAIN modules : Key(modules, i) = k}}
           P(i) == /\ lowerAscii(modules[i].name) = k
                   /\ \A j \in DOMAIN modules : lowerAscii(modules[j].name) = k =>
                          \/ modules[i].base < modules[j].base
                          \/ modules[i].base = modules[j].base /\ i <= j
           c == CHOOSE i \in DOMAIN modules : P(i)
<1>1. B \in SUBSET Nat /\ B # {}
  BY DEF Keys, Spread
<1>2. PICK b \in B : \A x \in B : b <= x
  <2> HIDE DEF B
  <2> QED BY <1>1, LeastNatural
<1>3. PICK i \in DOMAIN modules : Key(modules, i) = k /\ modules[i].base = b
  BY <1>2
<1>4. ASSUME NEW j \in DOMAIN modules, Key(modules, j) = k PROVE b <= modules[j].base
  BY <1>2, <1>4
<1>5. P(i)
  <2> SUFFICES ASSUME NEW j \in DOMAIN modules, Key(modules, j) = k
               PROVE  modules[i].base < modules[j].base \/ (modules[i].base = modules[j].base /\ i <= j)
    BY <1>3 DEF Key
  <2>1. b <= modules[j].base /\ b \in Nat /\ modules[j].base \in Nat
    BY <1>1, <1>4 DEF Spread
  <2>2. modules[j].base = b => i = j
    BY <1>3 DEF Spread
  <2>3. i \in Nat
    OBVIOUS
  <2> HIDE DEF B
  <2> QED BY <1>3, <2>1, <2>2, <2>3
<1>6. c \in DOMAIN modules /\ P(c)
  <2> HIDE DEF P
  <2> QED BY <1>5, Zenon
<1>7. LowestOf(modules, k) = modules[c]
  BY DEF LowestOf
<1> HIDE DEF c
<1>8. IsLowest(modules, k, c)
  <2>1. ASSUME NEW j \in DOMAIN modules, Key(modules, j) = k PROVE modules[c].base <= modules[j].base
    <3>1. modules[c].base \in Nat /\ modules[j].base \in Nat
      BY <1>6 DEF Spread
    <3>2. modules[c].base < modules[j].base \/ modules[c].base = modules[j].base
      BY <1>6, <2>1 DEF Key
    <3> QED BY <3>1, <3>2
  <2> QED BY <2>1, <1>6 DEF IsLowest, Key
<1> QED BY <1>7, <1>8

\* Two lists of the same segments have the same lowest ones.
LEMMA LowestUnique ==
    ASSUME NEW m1, NEW m2, DOMAIN m1 \subseteq Nat, DOMAIN m2 \subseteq Nat, Spread(m1), Spread(m2),
           \A i \in DOMAIN m1 : \E j \in DOMAIN m2 : m1[i] = m2[j],
           \A i \in DOMAIN m2 : \E j \in DOMAIN m1 : m2[i] = m1[j],
           NEW k \in Keys(m1)
    PROVE  k \in Keys(m2) /\ LowestOf(m1, k) = LowestOf(m2, k)
<1>1. k \in Keys(m2)
  <2>1. PICK i \in DOMAIN m1 : k = Key(m1, i)
    BY DEF Keys
  <2>2. PICK j \in DOMAIN m2 : m1[i] = m2[j]
    OBVIOUS
  <2> QED BY <2>1, <2>2 DEF Keys, Key
<1>2. PICK a : IsLowest(m1, k, a) /\ LowestOf(m1, k) = m1[a]
  BY LowestFound
<1>3. PICK b : IsLowest(m2, k, b) /\ LowestOf(m2, k) = m2[b]
  BY <1>1, LowestFound
<1>4. PICK a2 \in DOMAIN m2 : m1[a] = m2[a2]
  BY <1>2 DEF IsLowest
<1>5. PICK b1 \in DOMAIN m1 : m2[b] = m1[b1]
  BY <1>3 DEF IsLowest
<1>6. m2[b].base <= m1[a].base
  BY <1>2, <1>3, <1>4 DEF IsLowest, Key
<1>7. m1[a].base <= m2[b].base
  BY <1>2, <1>3, <1>5 DEF IsLowest, Key
<1>8. m1[a].base \in Nat /\ m2[b].base \in Nat
  BY <1>2, <1>3 DEF IsLowest, Spread
<1>9. m2[a2].base = m2[b].base
  BY <1>4, <1>6, <1>7, <1>8
<1>10. a2 = b
  BY <1>3, <1>9 DEF Spread, IsLowest
<1> QED BY <1>1, <1>2, <1>3, <1>4, <1>10

\* What a name is resolved to is a group, and it depends on the groups alone.
LEMMA ResolvedIsGroup ==
    ASSUME NEW modules, NEW query, resolveModuleByName(modules, query) # NoMatch
    PROVE  \E k \in Keys(modules) : resolveModuleByName(modules, query) = Found(LowestOf(modules, k))
<1> DEFINE q         == lowerAscii(query)
           groups    == groupModules(modules)
           full      == {g \in groups : g.key = q}
           base      == {g \in groups : lowerAscii(moduleBaseName(g.module.name)) = q}
           substring == {g \in groups : Occurs(q, g.key)}
           matches   == IF full # {} THEN full ELSE IF base # {} THEN base ELSE substring
           g         == CHOOSE g \in matches : TRUE
<1>1. resolveModuleByName(modules, query) =
          IF \E m \in matches : matches = {m} THEN Found(g.module) ELSE NoMatch
  BY DEF resolveModuleByName
<1>2. matches \subseteq groups
  <2> HIDE DEF groups
  <2> QED OBVIOUS
<1> HIDE DEF matches, groups
<1>3. \E m \in matches : matches = {m}
  BY <1>1
<1>4. g \in groups
  BY <1>2, <1>3
<1> HIDE DEF g
<1>5. PICK k \in Keys(modules) : g = [key |-> k, module |-> LowestOf(modules, k)]
  BY <1>4 DEF groups, groupModules, Keys, Key
<1> QED BY <1>1, <1>3, <1>5

\* Two lists of the same segments name the same modules.
LEMMA SameGroups ==
    ASSUME NEW m1, NEW m2, NEW query, groupModules(m1) = groupModules(m2)
    PROVE  resolveModuleByName(m1, query) = resolveModuleByName(m2, query)
BY DEF resolveModuleByName

\* The whole name is found before anything else.
LEMMA WholeNameFound ==
    ASSUME NEW modules, NEW query, lowerAscii(query) \in Keys(modules)
    PROVE  resolveModuleByName(modules, query) = Found(LowestOf(modules, lowerAscii(query)))
<1> DEFINE q         == lowerAscii(query)
           groups    == groupModules(modules)
           full      == {g \in groups : g.key = q}
           base      == {g \in groups : lowerAscii(moduleBaseName(g.module.name)) = q}
           substring == {g \in groups : Occurs(q, g.key)}
           matches   == IF full # {} THEN full ELSE IF base # {} THEN base ELSE substring
           g         == CHOOSE g \in matches : TRUE
           e         == [key |-> q, module |-> LowestOf(modules, q)]
<1>1. resolveModuleByName(modules, query) =
          IF \E m \in matches : matches = {m} THEN Found(g.module) ELSE NoMatch
  BY DEF resolveModuleByName
<1>2. full = {e}
  <2>1. e \in groups
    BY DEF groupModules, Keys, Key
  <2>2. ASSUME NEW x \in groups, x.key = q PROVE x = e
    <3>1. PICK k \in Keys(modules) : x = [key |-> k, module |-> LowestOf(modules, k)]
      BY DEF groupModules, Keys, Key
    <3> HIDE DEF groups
    <3> QED BY <2>2, <3>1
  <2> HIDE DEF groups
  <2>3. e.key = q
    OBVIOUS
  <2> HIDE DEF e
  <2> QED BY <2>1, <2>2, <2>3
<1> HIDE DEF full, base, substring
<1>3. matches = {e}
  BY <1>2
<1> HIDE DEF matches
<1>4. g = e
  BY <1>3
<1> HIDE DEF g
<1>5. \E m \in matches : matches = {m}
  BY <1>3
<1> QED BY <1>1, <1>4, <1>5

\* Any base of a module leads to its lowest segment.
LEMMA BaseResolves ==
    ASSUME NEW modules, DOMAIN modules \subseteq Nat, Spread(modules), NEW i \in DOMAIN modules
    PROVE  resolveModuleByBase(modules, modules[i].base) = Found(LowestOf(modules, Key(modules, i)))
<1> DEFINE exact == {j \in DOMAIN modules : modules[j].base = modules[i].base}
           first == CHOOSE x \in exact : \A j \in exact : x <= j
<1>1. exact = {i}
  BY DEF Spread
<1>2. resolveModuleByBase(modules, modules[i].base) =
          IF exact = {} THEN NoMatch ELSE Found(LowestOf(modules, lowerAscii(modules[first].name)))
  BY DEF resolveModuleByBase
<1>3. first \in exact
  <2>1. i <= i
    OBVIOUS
  <2> HIDE DEF exact
  <2> QED BY <1>1, <2>1
<1> HIDE DEF exact, first
<1> QED BY <1>1, <1>2, <1>3 DEF Key

\* Of every list of modules and every name.
LEMMA ResolutionHolds == Given => ResolutionIsOfOneModule
<1> SUFFICES ASSUME Given, input.kind = "module" PROVE ResolutionIsOfOneModule
  BY DEF ResolutionIsOfOneModule
<1> DEFINE modules == input.modules
           query == input.query
           turned == Reverse(modules)
           found == resolveModuleByName(modules, query)
<1>1. modules \in Seq(Range(modules)) /\ Spread(modules)
  BY MemoryAssumption DEF Given, Spread
<1> HIDE DEF modules, query
<1>2. DOMAIN modules \subseteq Nat /\ DOMAIN modules = 1..Len(modules) /\ Len(modules) \in Nat
  BY <1>1
<1>3. groupModules(modules) = groupModules(turned)
  <2>1. DOMAIN turned = 1..Len(modules) /\ \A i \in 1..Len(modules) : turned[i] = modules[Len(modules) - i + 1]
    BY <1>2 DEF Reverse
  <2> HIDE DEF turned
  <2>2. \A i \in DOMAIN modules : \E j \in DOMAIN turned : modules[i] = turned[j]
    <3> TAKE i \in DOMAIN modules
    <3>1. Len(modules) - i + 1 \in DOMAIN turned /\ Len(modules) - (Len(modules) - i + 1) + 1 = i
      BY <1>2, <2>1
    <3> QED BY <2>1, <3>1
  <2>3. ASSUME NEW i \in DOMAIN turned
        PROVE  Len(modules) - i + 1 \in DOMAIN modules /\ turned[i] = modules[Len(modules) - i + 1]
    BY <1>2, <2>1
  <2>4. Spread(turned) /\ DOMAIN turned \subseteq Nat
    <3>1. \A i \in DOMAIN turned : turned[i].base \in Nat
      BY <2>3, <1>1 DEF Spread
    <3>2. ASSUME NEW i \in DOMAIN turned, NEW j \in DOMAIN turned, turned[i].base = turned[j].base
          PROVE  i = j
      <4>1. Len(modules) - i + 1 = Len(modules) - j + 1
        BY <2>3, <1>1, <3>2 DEF Spread
      <4> QED BY <4>1, <1>2, <2>1
    <3> QED BY <3>1, <3>2, <2>1 DEF Spread
  <2>5. \A i \in DOMAIN turned : \E j \in DOMAIN modules : turned[i] = modules[j]
    BY <2>3
  <2>6. \A k \in Keys(modules) : k \in Keys(turned) /\ LowestOf(modules, k) = LowestOf(turned, k)
    BY <1>1, <1>2, <2>2, <2>4, <2>5, LowestUnique
  <2>7. \A k \in Keys(turned) : k \in Keys(modules)
    BY <1>1, <1>2, <2>2, <2>4, <2>5, LowestUnique
  <2> QED BY <2>6, <2>7 DEF groupModules, Keys, Key
<1>4. found = resolveModuleByName(turned, query)
  BY <1>3, SameGroups
<1>5. ASSUME NEW k \in Keys(modules), found = Found(LowestOf(modules, k))
      PROVE  /\ lowerAscii(found.module.name) = k
             /\ \A i \in DOMAIN modules : Key(modules, i) = k => found.module.base <= modules[i].base
  <2>1. PICK i : IsLowest(modules, k, i) /\ LowestOf(modules, k) = modules[i]
    BY <1>1, <1>2, LowestFound
  <2>2. found.module = modules[i]
    BY <1>5, <2>1 DEF Found
  <2> HIDE DEF found
  <2> QED BY <2>1, <2>2 DEF IsLowest, Key
<1>6. ASSUME found # NoMatch, NEW i \in DOMAIN modules,
             lowerAscii(modules[i].name) = lowerAscii(found.module.name)
      PROVE  /\ found.module.base <= modules[i].base
             /\ resolveModuleByBase(modules, modules[i].base) = found
  <2>1. PICK k \in Keys(modules) : found = Found(LowestOf(modules, k))
    BY <1>6, ResolvedIsGroup
  <2>2. Key(modules, i) = k
    BY <1>5, <1>6, <2>1 DEF Key
  <2>3. resolveModuleByBase(modules, modules[i].base) = Found(LowestOf(modules, k))
    BY <1>1, <1>2, <2>2, BaseResolves
  <2> QED BY <1>5, <2>1, <2>2, <2>3
<1>7. ASSUME NEW i \in DOMAIN modules, modules[i].name = query
      PROVE  found # NoMatch /\ lowerAscii(found.module.name) = lowerAscii(query)
  <2>1. lowerAscii(query) \in Keys(modules)
    BY <1>7 DEF Keys, Key
  <2>2. found = Found(LowestOf(modules, lowerAscii(query)))
    BY <2>1, WholeNameFound
  <2>3. found # NoMatch
    BY <2>2 DEF Found, NoMatch
  <2> QED BY <1>5, <2>1, <2>2, <2>3
<1> QED BY <1>4, <1>6, <1>7 DEF ResolutionIsOfOneModule, modules, query

-----------------------------------------------------------------------------
(* Reading, page by page.                                                   *)

\* A page that holds an address ends inside the address space.
LEMMA PageEnds ==
    ASSUME NEW at \in 0..MaxAddress
    PROVE  /\ at % PageSize \in 0..(PageSize - 1)
           /\ at + PageSize - (at % PageSize) <= MaxAddress + 1
<1> DEFINE P == PageSize  N == MaxAddress + 1
           r == at % P  q == at \div P  Q == N \div P
<1>1. P \in Nat \ {0} /\ N \in Nat \ {0} /\ N % P = 0 /\ at \in Nat /\ at < N
  BY SizeAssumption
<1> HIDE DEF P, N
<1>2. r \in 0..(P - 1) /\ q \in Int /\ at = P * q + r
  BY <1>1
<1>3. Q \in Int /\ N = P * Q
  BY <1>1
<1> HIDE DEF r, q, Q
<1>4. q < Q
  <2> SUFFICES ASSUME Q <= q PROVE FALSE
    BY <1>2, <1>3
  <2>1. P * Q <= P * q
    BY <1>1, <1>2, <1>3
  <2> QED BY <1>1, <1>2, <1>3, <2>1
<1>5. P * (q + 1) <= P * Q
  BY <1>1, <1>2, <1>3, <1>4
<1>6. P * (q + 1) = P * q + P
  BY <1>1, <1>2
<1> QED BY <1>1, <1>2, <1>3, <1>5, <1>6 DEF r, P, N

\* What follows a wrapped address inside the address space.
LEMMA WrappedNext ==
    ASSUME NEW a \in Nat, NEW k \in Nat, Wrapped(a) + k <= MaxAddress
    PROVE  Wrapped(a) \in 0..MaxAddress /\ Wrapped(a + k) = Wrapped(a) + k
<1> DEFINE N == MaxAddress + 1
<1>1. N \in Nat \ {0} /\ Wrapped(a) = a % N /\ Wrapped(a + k) = (a + k) % N
  BY SizeAssumption DEF Wrapped
<1> HIDE DEF N
<1>2. a % N \in 0..(N - 1) /\ (a % N) + k < N
  BY <1>1, SizeAssumption DEF N
<1>3. (a + k) % N = (a % N) + k
  <2> DEFINE r == a % N  q == a \div N  s == (a + k) % N  u == (a + k) \div N
  <2>1. r \in 0..(N - 1) /\ q \in Int /\ a = N * q + r
    BY <1>1
  <2>2. s \in 0..(N - 1) /\ u \in Int /\ a + k = N * u + s
    BY <1>1
  <2>3. r + k < N
    BY <1>2
  <2> HIDE DEF r, q, s, u
  <2>4. q = u
    <3>1. N * u - N * q = r + k - s
      BY <1>1, <2>1, <2>2
    <3>2. CASE u >= q + 1
      <4>1. N * u >= N * (q + 1)
        BY <1>1, <2>1, <2>2, <3>2
      <4>2. N * (q + 1) = N * q + N
        BY <1>1, <2>1
      <4> QED BY <1>1, <2>1, <2>2, <2>3, <3>1, <4>1, <4>2
    <3>3. CASE q >= u + 1
      <4>1. N * q >= N * (u + 1)
        BY <1>1, <2>1, <2>2, <3>3
      <4>2. N * (u + 1) = N * u + N
        BY <1>1, <2>2
      <4> QED BY <1>1, <2>1, <2>2, <2>3, <3>1, <4>1, <4>2
    <3> QED BY <2>1, <2>2, <3>2, <3>3
  <2>5. s = r + k
    BY <1>1, <2>1, <2>2, <2>4
  <2> QED BY <2>5 DEF r, s
<1>4. a % N \in 0..MaxAddress
  BY <1>2, SizeAssumption DEF N
<1> QED BY <1>1, <1>3, <1>4, Zenon

\* A chunk that is not read to its end is cut at the first address that
\* cannot be read.
LEMMA ChunkRead ==
    ASSUME NEW mem, NEW at \in Nat, NEW n \in Nat
    PROVE  /\ ReadChunk(mem, at, n) \in 0..n
           /\ \A k \in Nat : k < ReadChunk(mem, at, n) => mem[at + k] # Unmapped
           /\ ReadChunk(mem, at, n) < n => mem[at + ReadChunk(mem, at, n)] = Unmapped
<1> DEFINE blocked == {k \in 0..(n - 1) : mem[at + k] = Unmapped}
<1>1. CASE blocked = {}
  <2>1. ReadChunk(mem, at, n) = n
    BY <1>1 DEF ReadChunk
  <2>2. ASSUME NEW k \in Nat, k < n PROVE mem[at + k] # Unmapped
    <3>1. k \in 0..(n - 1)
      BY <2>2
    <3> QED BY <1>1, <3>1, Zenon
  <2> QED BY <2>1, <2>2
<1>2. CASE blocked # {}
  <2>1. PICK x \in blocked : \A j \in blocked : x <= j
    <3>1. blocked \in SUBSET Nat
      OBVIOUS
    <3> HIDE DEF blocked
    <3> QED BY <1>2, <3>1, LeastNatural
  <2> DEFINE first == CHOOSE k \in blocked : \A j \in blocked : k <= j
  <2>2. first \in blocked /\ \A j \in blocked : first <= j
    <3> HIDE DEF blocked
    <3> QED BY <2>1, Zenon
  <2>3. ReadChunk(mem, at, n) = first
    BY <1>2 DEF ReadChunk
  <2> HIDE DEF first
  <2>4. first \in 0..(n - 1) /\ mem[at + first] = Unmapped
    BY <2>2
  <2>5. ASSUME NEW k \in Nat, k < first PROVE mem[at + k] # Unmapped
    BY <2>2, <2>4, <2>5
  <2> QED BY <2>3, <2>4, <2>5
<1> QED BY <1>1, <1>2

\* The k-th byte of a range can be read.
MappedAt(mem, a, k) == mem[Wrapped(a + k - 1)] # Unmapped

\* The prefix that can be read from some byte on ends at e.
EndsAt(mem, a, n, done, e) ==
    /\ e \in done..n
    /\ \A j \in (done + 1)..e : MappedAt(mem, a, j)
    /\ e < n => ~MappedAt(mem, a, e + 1)

\* It ends somewhere, and at one place only.
LEMMA EndUnique ==
    ASSUME NEW mem, NEW a, NEW n \in Nat, NEW done \in 0..n
    PROVE  /\ \E e : EndsAt(mem, a, n, done, e)
           /\ \A e, f : EndsAt(mem, a, n, done, e) /\ EndsAt(mem, a, n, done, f) => e = f
<1>1. \E e : EndsAt(mem, a, n, done, e)
  <2> DEFINE T == {k \in done..n : k = n \/ ~MappedAt(mem, a, k + 1)}
  <2>1. T \in SUBSET Nat /\ n \in T
    OBVIOUS
  <2>2. PICK e \in T : \A k \in T : e <= k
    <3> HIDE DEF T
    <3> QED BY <2>1, LeastNatural
  <2>3. e \in done..n /\ (e < n => ~MappedAt(mem, a, e + 1))
    BY <2>2
  <2>4. ASSUME NEW j \in (done + 1)..e PROVE MappedAt(mem, a, j)
    <3>1. j - 1 \in done..n /\ j - 1 < e /\ (j - 1) + 1 = j
      BY <2>3
    <3>2. j - 1 \notin T
      <4> HIDE DEF T
      <4> QED BY <2>2, <2>3, <3>1
    <3> QED BY <3>1, <3>2
  <2> QED BY <2>3, <2>4 DEF EndsAt
<1>2. ASSUME NEW e, NEW f, EndsAt(mem, a, n, done, e), EndsAt(mem, a, n, done, f) PROVE e = f
  <2>1. e \in done..n /\ f \in done..n
    BY <1>2 DEF EndsAt
  <2>2. CASE e < f
    <3>1. e + 1 \in (done + 1)..f /\ e < n
      BY <2>1, <2>2
    <3> QED BY <1>2, <3>1 DEF EndsAt
  <2>3. CASE f < e
    <3>1. f + 1 \in (done + 1)..e /\ f < n
      BY <2>1, <2>3
    <3> QED BY <1>2, <3>1 DEF EndsAt
  <2> QED BY <2>1, <2>2, <2>3
<1> QED BY <1>1, <1>2

\* One turn of the loop: where it reads, how much and where that lies.
LEMMA PageTurn ==
    ASSUME NEW a \in 0..MaxAddress, NEW n \in Nat, NEW done \in 0..n, done < n,
           NEW at, at = Wrapped(a + done),
           NEW chunk, chunk = Lesser(n - done, PageSize - (at % PageSize))
    PROVE  /\ at \in 0..MaxAddress /\ chunk \in 1..(n - done)
           /\ \A k \in Nat : k < chunk => Wrapped(a + done + k) = at + k
<1>1. MaxAddress \in Nat /\ PageSize \in Nat /\ a \in Nat /\ done \in Nat /\ a + done \in Nat
  BY SizeAssumption
<1>2. at \in 0..MaxAddress
  <2>1. a + done >= 0 /\ MaxAddress + 1 > 0
    BY <1>1
  <2> QED BY <1>1, <2>1 DEF Wrapped
<1>3. at % PageSize \in 0..(PageSize - 1) /\ at + PageSize - (at % PageSize) <= MaxAddress + 1
  BY <1>2, PageEnds
<1>4. chunk \in 1..(n - done) /\ chunk <= PageSize - (at % PageSize)
  BY <1>1, <1>3 DEF Lesser
<1>5. ASSUME NEW k \in Nat, k < chunk PROVE Wrapped(a + done + k) = at + k
  <2>1. Wrapped(a + done) + k <= MaxAddress
    BY <1>1, <1>2, <1>3, <1>4, <1>5
  <2> QED BY <1>1, <2>1, WrappedNext
<1> QED BY <1>2, <1>4, <1>5

\* What it reads of the prefix: all of the chunk, and the prefix goes on after
\* it, or up to its end.
LEMMA PageTurnRead ==
    ASSUME NEW mem, NEW a \in 0..MaxAddress, NEW n \in Nat, NEW done \in 0..n, done < n,
           NEW at, at = Wrapped(a + done),
           NEW chunk, chunk = Lesser(n - done, PageSize - (at % PageSize)),
           NEW got, got = ReadChunk(mem, at, chunk)
    PROVE  /\ got \in 0..chunk /\ chunk \in 1..(n - done)
           /\ got < chunk => EndsAt(mem, a, n, done, done + got)
           /\ \A e : EndsAt(mem, a, n, done + chunk, e) /\ got = chunk => EndsAt(mem, a, n, done, e)
<1>1. /\ at \in 0..MaxAddress /\ chunk \in 1..(n - done)
      /\ \A k \in Nat : k < chunk => Wrapped(a + done + k) = at + k
  BY PageTurn
<1>2. /\ got \in 0..chunk
      /\ \A k \in Nat : k < got => mem[at + k] # Unmapped
      /\ got < chunk => mem[at + got] = Unmapped
  <2>1. at \in Nat /\ chunk \in Nat
    BY <1>1
  <2>2. ASSUME NEW x \in Nat, NEW y \in Nat, NEW z, z = ReadChunk(mem, x, y)
        PROVE  /\ z \in 0..y /\ \A k \in Nat : k < z => mem[x + k] # Unmapped
               /\ z < y => mem[x + z] = Unmapped
    BY <2>2, ChunkRead
  <2> QED BY <2>1, <2>2, Zenon
<1>3. a \in Int /\ done \in Int
  BY SizeAssumption
<1>4. ASSUME NEW j \in (done + 1)..(done + got) PROVE MappedAt(mem, a, j)
  <2>1. j - done - 1 \in Nat /\ j - done - 1 < got /\ j - done - 1 < chunk
        /\ a + done + (j - done - 1) = a + j - 1
    BY <1>1, <1>2, <1>3, <1>4
  <2>2. Wrapped(a + j - 1) = at + (j - done - 1)
    BY <1>1, <2>1
  <2> QED BY <1>2, <2>1, <2>2 DEF MappedAt
<1>5. ASSUME got < chunk PROVE EndsAt(mem, a, n, done, done + got)
  <2>1. got \in Nat /\ Wrapped(a + done + got) = at + got /\ mem[at + got] = Unmapped
    BY <1>1, <1>2, <1>5
  <2>2. a + (done + got + 1) - 1 = a + done + got
    BY <1>3, <2>1
  <2>3. ~MappedAt(mem, a, done + got + 1)
    BY <2>1, <2>2 DEF MappedAt
  <2>4. done + got \in done..n
    BY <1>1, <1>2
  <2> QED BY <1>4, <2>3, <2>4 DEF EndsAt
<1>6. ASSUME NEW e, EndsAt(mem, a, n, done + chunk, e), got = chunk PROVE EndsAt(mem, a, n, done, e)
  <2>1. e \in done..n /\ (e < n => ~MappedAt(mem, a, e + 1))
    BY <1>1, <1>3, <1>6 DEF EndsAt
  <2>2. ASSUME NEW j \in (done + 1)..e PROVE MappedAt(mem, a, j)
    <3>1. CASE j <= done + got
      <4>1. j \in (done + 1)..(done + got)
        BY <1>2, <1>3, <2>1, <3>1
      <4> QED BY <4>1, <1>4
    <3>2. CASE j > done + got
      <4>1. j \in (done + chunk + 1)..e
        BY <1>1, <1>3, <1>6, <2>1, <3>2
      <4> QED BY <1>6, <4>1 DEF EndsAt
    <3> QED BY <1>2, <1>3, <2>1, <3>1, <3>2
  <2> QED BY <2>1, <2>2 DEF EndsAt
<1> QED BY <1>1, <1>2, <1>5, <1>6

\* The loop over the pages reads the prefix, whatever pages it crosses.
LEMMA PagesRead ==
    ASSUME NEW mem, NEW a \in 0..MaxAddress, NEW n \in Nat
    PROVE  EndsAt(mem, a, n, 0, ReadPages(mem, a, n))
<1> DEFINE Turn(f, done) ==
             LET at    == Wrapped(a + done)
                 chunk == Lesser(n - done, PageSize - (at % PageSize))
                 got   == ReadChunk(mem, at, chunk)
             IN  IF got < chunk THEN done + got ELSE f[done + got]
           Good(f) == f = [done \in 0..n |-> IF done = n THEN n ELSE Turn(f, done)]
           read == CHOOSE f : Good(f)
           end == [done \in 0..n |-> CHOOSE e : EndsAt(mem, a, n, done, e)]
<1>1. \A done \in 0..n : EndsAt(mem, a, n, done, end[done])
  <2> SUFFICES ASSUME NEW done \in 0..n PROVE EndsAt(mem, a, n, done, CHOOSE e : EndsAt(mem, a, n, done, e))
    OBVIOUS
  <2>1. \E e : EndsAt(mem, a, n, done, e)
    BY EndUnique
  <2> QED BY <2>1, Zenon
<1>2. end = [done \in 0..n |-> end[done]]
  OBVIOUS
<1> HIDE DEF end
\* A turn yields the end if what it goes on with does.
<1>3. ASSUME NEW f, NEW done \in 0..n, done < n,
             \A later \in 0..n : later > done => EndsAt(mem, a, n, later, f[later])
      PROVE  EndsAt(mem, a, n, done, Turn(f, done))
  <2> DEFINE at    == Wrapped(a + done)
             chunk == Lesser(n - done, PageSize - (at % PageSize))
             got   == ReadChunk(mem, at, chunk)
  <2>1. /\ got \in 0..chunk /\ chunk \in 1..(n - done)
        /\ got < chunk => EndsAt(mem, a, n, done, done + got)
        /\ \A e : EndsAt(mem, a, n, done + chunk, e) /\ got = chunk => EndsAt(mem, a, n, done, e)
    BY <1>3, PageTurnRead
  <2>2. Turn(f, done) = IF got < chunk THEN done + got ELSE f[done + got]
    OBVIOUS
  <2> HIDE DEF at, chunk, got, Turn
  <2>3. CASE got < chunk
    BY <2>1, <2>2, <2>3
  <2>4. CASE got = chunk
    <3>1. done + chunk \in 0..n /\ done + chunk > done
      BY <2>1
    <3>2. EndsAt(mem, a, n, done + chunk, f[done + chunk])
      BY <1>3, <3>1
    <3>3. Turn(f, done) = f[done + chunk]
      BY <2>1, <2>2, <2>4
    <3> QED BY <2>1, <2>4, <3>2, <3>3
  <2> QED BY <2>1, <2>3, <2>4
<1>4. EndsAt(mem, a, n, n, n)
  BY DEF EndsAt
<1>5. Good(end)
  <2>1. ASSUME NEW done \in 0..n PROVE end[done] = IF done = n THEN n ELSE Turn(end, done)
    <3> HIDE DEF Turn
    <3>1. CASE done = n
      BY <1>1, <1>4, <3>1, EndUnique
    <3>2. CASE done # n
      <4>1. done < n
        BY <3>2
      <4>2. EndsAt(mem, a, n, done, Turn(end, done))
        BY <1>1, <1>3, <4>1
      <4> QED BY <1>1, <3>2, <4>2, EndUnique
    <3> QED BY <3>1, <3>2
  <2> HIDE DEF Turn
  <2> QED BY <1>2, <2>1, Zenon
<1>6. Good(read)
  <2> HIDE DEF Good
  <2> QED BY <1>5, Zenon
<1> HIDE DEF read
<1>7. \A done \in 0..n : read[done] = IF done = n THEN n ELSE Turn(read, done)
  <2> HIDE DEF Turn
  <2> QED BY <1>6
<1> HIDE DEF Turn, Good
<1>8. \A done \in 0..n : EndsAt(mem, a, n, done, read[done])
  <2> DEFINE T == {left \in 0..n : ~EndsAt(mem, a, n, n - left, read[n - left])}
  <2>1. CASE T = {}
    <3>1. ASSUME NEW done \in 0..n PROVE EndsAt(mem, a, n, done, read[done])
      <4>1. n - done \in 0..n /\ n - (n - done) = done
        OBVIOUS
      <4>2. n - done \notin T
        BY <2>1
      <4> QED BY <4>1, <4>2
    <3> QED BY <3>1
  <2>2. CASE T # {}
    <3>1. T \in SUBSET Nat
      OBVIOUS
    <3>2. PICK left \in T : \A x \in T : left <= x
      <4> HIDE DEF T
      <4> QED BY <2>2, <3>1, LeastNatural
    <3>3. left \in 0..n /\ n - left \in 0..n /\ ~EndsAt(mem, a, n, n - left, read[n - left])
      BY <3>2
    <3>4. ASSUME NEW later \in 0..n, later > n - left PROVE EndsAt(mem, a, n, later, read[later])
      <4>1. n - later \in 0..n /\ n - later < left /\ n - (n - later) = later
        BY <3>3, <3>4
      <4>2. n - later \notin T
        <5> HIDE DEF T
        <5> QED BY <3>2, <3>3, <4>1
      <4> QED BY <4>1, <4>2
    <3>5. CASE n - left = n
      BY <1>4, <1>7, <3>3, <3>5
    <3>6. CASE n - left # n
      <4>1. n - left < n
        BY <3>3, <3>6
      <4>2. EndsAt(mem, a, n, n - left, Turn(read, n - left))
        BY <1>3, <3>3, <3>4, <4>1
      <4> QED BY <1>7, <3>3, <3>6, <4>2
    <3> QED BY <3>5, <3>6
  <2> QED BY <2>1, <2>2
<1>9. ReadPages(mem, a, n) = read[0]
  BY DEF ReadPages, read, Good, Turn
<1> QED BY <1>8, <1>9

\* The end is the longest prefix.
LEMMA EndIsLongest ==
    ASSUME NEW mem, NEW a, NEW n \in Nat, NEW e, EndsAt(mem, a, n, 0, e)
    PROVE  Max({k \in 0..n : \A j \in 1..k : MappedAt(mem, a, j)}) = e
<1> DEFINE S == {k \in 0..n : \A j \in 1..k : MappedAt(mem, a, j)}
<1>1. e \in S
  BY DEF EndsAt
<1>2. \A k \in S : k <= e
  <2> SUFFICES ASSUME NEW k \in S, k > e PROVE FALSE
    BY <1>1
  <2>1. e + 1 \in 1..k /\ e < n
    BY <1>1
  <2> QED BY <2>1 DEF EndsAt
<1>3. S \subseteq Int
  OBVIOUS
<1> HIDE DEF S
<1> DEFINE m == CHOOSE x \in S : \A y \in S : x >= y
<1>4. m \in S /\ \A y \in S : m >= y
  <2>1. \A y \in S : e >= y
    BY <1>1, <1>2, <1>3
  <2> HIDE DEF m
  <2> QED BY <1>1, <2>1, Zenon DEF m
<1>5. Max(S) = m
  BY DEF Max
<1> HIDE DEF m
<1>6. m = e
  BY <1>1, <1>2, <1>3, <1>4
<1> QED BY <1>5, <1>6 DEF S

\* A range inside one page is read by one call, also where the address space
\* ends.
LEMMA OneCall ==
    ASSUME NEW mem, NEW a \in 0..MaxAddress, NEW n \in 1..MaxLen,
           Wrapped(a) \div PageSize = Wrapped(a + n - 1) \div PageSize
    PROVE  EndsAt(mem, a, n, 0, ReadChunk(mem, a, n))
<1> DEFINE N == MaxAddress + 1
<1>1. /\ MaxAddress \in Nat /\ N \in Nat \ {0} /\ PageSize \in Nat \ {0} /\ MaxLen \in Nat
      /\ MaxLen + PageSize <= N /\ a \in Nat /\ n \in Nat \ {0} /\ a < N /\ n <= MaxLen
  BY SizeAssumption, MemoryAssumption
<1>2. Wrapped(a) = a
  BY <1>1 DEF Wrapped
<1>3. a + n - 1 <= MaxAddress
  <2> SUFFICES ASSUME a + n - 1 >= N PROVE FALSE
    BY <1>1
  <2> DEFINE b == a + n - 1 - N
  <2>1. b \in Nat /\ b < N /\ b + N = a + n - 1
    BY <1>1
  <2> HIDE DEF b
  <2>2. Wrapped(a + n - 1) = b
    <3>1. (b + N) % N = b
      BY <1>1, <2>1
    <3> QED BY <2>1, <3>1 DEF Wrapped
  <2>3. a \div PageSize = b \div PageSize
    BY <1>2, <2>2
  <2>4. a - b < PageSize
    <3> DEFINE q == a \div PageSize
    <3>1. q \in Int /\ a < PageSize * q + PageSize /\ PageSize * q <= a
      BY <1>1
    <3>2. PageSize * q <= b
      <4>1. PageSize * (b \div PageSize) <= b
        BY <1>1, <2>1
      <4> QED BY <2>3, <4>1
    <3> HIDE DEF q
    <3> QED BY <1>1, <2>1, <3>1, <3>2
  <2> QED BY <1>1, <2>1, <2>4
<1> DEFINE got == ReadChunk(mem, a, n)
<1>4. /\ got \in 0..n
      /\ \A k \in Nat : k < got => mem[a + k] # Unmapped
      /\ got < n => mem[a + got] = Unmapped
  <2>1. a \in Nat /\ n \in Nat
    BY <1>1
  <2> QED BY <2>1, ChunkRead
<1> HIDE DEF got
<1>5. ASSUME NEW k \in Nat, k < n PROVE Wrapped(a + (k + 1) - 1) = a + k
  <2>1. a + (k + 1) - 1 = a + k /\ a + k \in Nat /\ a + k < N
    BY <1>1, <1>3, <1>5
  <2>2. (a + k) % N = a + k
    BY <1>1, <2>1
  <2> QED BY <2>1, <2>2 DEF Wrapped
<1>6. ASSUME NEW j \in (0 + 1)..got PROVE MappedAt(mem, a, j)
  <2>1. j - 1 \in Nat /\ j - 1 < n /\ j - 1 < got /\ (j - 1) + 1 = j
    BY <1>1, <1>4
  <2> QED BY <1>4, <1>5, <2>1 DEF MappedAt
<1>7. got < n => ~MappedAt(mem, a, got + 1)
  BY <1>1, <1>4, <1>5 DEF MappedAt
<1>8. EndsAt(mem, a, n, 0, got)
  BY <1>4, <1>6, <1>7 DEF EndsAt
<1> QED BY <1>8 DEF got

\* A page is answered exactly when its first byte can be read.
LEMMA PageAnswered ==
    ASSUME NEW mem, NEW b \in 1..MaxAddress
    PROVE  KernelRead(mem, b, PageSize).count > 0 <=> mem[b] # Unmapped
<1>1. PageSize \in Nat \ {0} /\ MaxAddress \in Nat /\ b \in 0..MaxAddress /\ b # 0
  BY SizeAssumption
<1> DEFINE c == ReadPages(mem, b, PageSize)
<1>2. EndsAt(mem, b, PageSize, 0, c)
  BY <1>1, PagesRead
<1>3. KernelRead(mem, b, PageSize).count = c
  BY <1>1 DEF KernelRead, Buffer
<1> HIDE DEF c
<1>4. MappedAt(mem, b, 1) <=> mem[b] # Unmapped
  <2>1. b + 1 - 1 = b /\ b % (MaxAddress + 1) = b
    BY <1>1
  <2> QED BY <2>1 DEF MappedAt, Wrapped
<1>5. c \in 0..PageSize
  BY <1>2 DEF EndsAt
<1>6. CASE c > 0
  <2>1. 1 \in (0 + 1)..c
    BY <1>5, <1>6
  <2> QED BY <1>2, <1>3, <1>4, <1>6, <2>1 DEF EndsAt
<1>7. CASE c = 0
  <2>1. c < PageSize /\ c + 1 = 1
    BY <1>1, <1>7
  <2>2. ~(c > 0)
    BY <1>7
  <2> QED BY <1>2, <1>3, <1>4, <2>1, <2>2 DEF EndsAt
<1> QED BY <1>5, <1>6, <1>7

\* Steps of one page: they grow, the first at or past n is less than a page past
\* it, and the multiples of the page are the steps.
LEMMA PageSteps ==
    ASSUME NEW n \in Nat
    PROVE  /\ \A j, k \in Nat : j <= k => j * PageSize <= k * PageSize
           /\ \A k \in Nat : k * PageSize \in Nat /\ k <= k * PageSize
           /\ \E k \in Nat : k * PageSize >= n /\ k * PageSize < n + PageSize
           /\ \A m \in Nat : m % PageSize = 0 <=> \E k \in Nat : m = k * PageSize
<1>1. PageSize \in Nat \ {0}
  BY SizeAssumption
<1>2. ASSUME NEW j \in Nat, NEW k \in Nat, j <= k PROVE j * PageSize <= k * PageSize
  BY <1>1, <1>2
<1>3. ASSUME NEW k \in Nat PROVE k * PageSize \in Nat /\ k <= k * PageSize
  BY <1>1
<1>4. \E k \in Nat : k * PageSize >= n /\ k * PageSize < n + PageSize
  <2> DEFINE m == n + PageSize - 1
             k == m \div PageSize
  <2>1. m \in Nat
    BY <1>1
  <2>2. k \in Nat /\ PageSize * k <= m /\ m < PageSize * k + PageSize
    <3> HIDE DEF m
    <3> QED BY <1>1, <2>1
  <2>3. PageSize * k = k * PageSize
    <3> HIDE DEF k
    <3> QED BY <1>1, <2>2
  <2> HIDE DEF k
  <2>4. k * PageSize >= n /\ k * PageSize < n + PageSize
    <3> DEFINE x == k * PageSize
    <3>1. x \in Int /\ x <= m /\ m < x + PageSize
      BY <1>1, <2>2, <2>3
    <3> HIDE DEF x
    <3>2. x >= n /\ x < n + PageSize
      BY <1>1, <3>1
    <3> QED BY <3>2 DEF x
  <2> QED BY <2>2, <2>4
<1>5. ASSUME NEW m \in Nat PROVE m % PageSize = 0 <=> \E k \in Nat : m = k * PageSize
  <2>1. ASSUME m % PageSize = 0 PROVE \E k \in Nat : m = k * PageSize
    <3> DEFINE k == m \div PageSize
               r == m % PageSize
    <3>1. k \in Int /\ m = PageSize * k + r
      BY <1>1
    <3>2. r = 0
      BY <2>1
    <3> HIDE DEF k, r
    <3>3. m = PageSize * k
      BY <1>1, <3>1, <3>2
    <3>4. PageSize * k = k * PageSize
      BY <1>1, <3>1
    <3>5. k >= 0
      <4> SUFFICES ASSUME k <= -1 PROVE FALSE
        BY <3>1
      <4>1. PageSize * k <= -1
        BY <1>1, <3>1
      <4> QED BY <3>3, <4>1
    <3> QED BY <3>1, <3>3, <3>4, <3>5
  <2>2. ASSUME NEW k \in Nat, m = k * PageSize PROVE m % PageSize = 0
    BY <1>1, <2>2
  <2> QED BY <2>1, <2>2
<1> QED BY <1>2, <1>3, <1>4, <1>5

\* A read by pages that stays below the last page lists the pages it should.
LEMMA PagesListed ==
    ASSUME NEW mem, NEW a \in 1..MaxAddress, NEW n \in Nat, a + n + PageSize <= MaxAddress + 1
    PROVE  ReadBratchMemory(mem, a, n) =
               {b \in a..(a + n - 1) : (b - a) % PageSize = 0 /\ mem[b] # Unmapped}
<1> DEFINE N == MaxAddress + 1
           end == Wrapped(a + n)
           at(k) == Wrapped(a + k * PageSize)
           visited == {k \in 0..(Pages - 1) : \A j \in 0..k : at(j) < end}
           listed == {at(k) : k \in {i \in visited : KernelRead(mem, at(i), PageSize).count > 0}}
           expected == {b \in a..(a + n - 1) : (b - a) % PageSize = 0 /\ mem[b] # Unmapped}
<1>1. /\ PageSize \in Nat \ {0} /\ MaxAddress \in Nat /\ N \in Nat \ {0} /\ a \in Nat /\ a # 0
      /\ a + n + PageSize <= N
  BY SizeAssumption
<1>2. /\ \A j, k \in Nat : j <= k => j * PageSize <= k * PageSize
      /\ \A k \in Nat : k * PageSize \in Nat /\ k <= k * PageSize
      /\ \A m \in Nat : m % PageSize = 0 <=> \E k \in Nat : m = k * PageSize
  BY PageSteps
<1>3. \A x \in Nat : x < N => Wrapped(x) = x
  BY <1>1 DEF Wrapped
<1>4. end = a + n
  BY <1>1, <1>3
<1>5. \A k \in Nat : a + k * PageSize < N => at(k) = a + k * PageSize
  BY <1>1, <1>2, <1>3
<1>6. Pages \in Nat /\ Pages * PageSize = N
  <2>1. Pages = N \div PageSize
    BY DEF Pages
  <2>2. N % PageSize = 0
    BY SizeAssumption
  <2> HIDE DEF N
  <2> DEFINE Q == N \div PageSize
  <2>3. Q \in Int /\ N = PageSize * Q
    BY <1>1, <2>2
  <2> HIDE DEF Q
  <2>4. Q >= 0
    <3> SUFFICES ASSUME Q <= -1 PROVE FALSE
      BY <2>3
    <3>1. PageSize * Q <= -1
      BY <1>1, <2>3
    <3> QED BY <1>1, <2>3, <3>1
  <2>5. PageSize * Q = Q * PageSize
    BY <1>1, <2>3
  <2> QED BY <2>1, <2>3, <2>4, <2>5 DEF Q
<1>7. PICK K \in Nat : K * PageSize >= n /\ K * PageSize < n + PageSize
  BY PageSteps
<1> HIDE DEF N, end, at
<1>8. K \in 0..(Pages - 1) /\ ~(at(K) < end)
  <2>1. K * PageSize \in Nat
    BY <1>2
  <2>2. a + K * PageSize < N
    BY <1>1, <1>7, <2>1
  <2>3. K < Pages
    <3> SUFFICES ASSUME Pages <= K PROVE FALSE
      BY <1>6
    <3>1. Pages * PageSize <= K * PageSize
      BY <1>2, <1>6
    <3> QED BY <1>1, <1>6, <2>1, <2>2, <3>1
  <2>4. at(K) = a + K * PageSize
    BY <1>5, <2>2
  <2> QED BY <1>1, <1>4, <1>6, <1>7, <2>1, <2>3, <2>4
<1>9. visited # 0..(Pages - 1)
  <2>1. K \notin visited
    BY <1>8
  <2> HIDE DEF visited
  <2> QED BY <1>8, <2>1
<1>10. ASSUME NEW k \in Nat, k * PageSize < n
       PROVE  k \in visited /\ at(k) = a + k * PageSize
  <2>1. ASSUME NEW j \in 0..k PROVE at(j) = a + j * PageSize /\ at(j) < end
    <3>1. j \in Nat /\ j * PageSize \in Nat /\ k * PageSize \in Nat /\ j * PageSize <= k * PageSize
      BY <1>2
    <3>2. a + j * PageSize < N
      BY <1>1, <1>10, <3>1
    <3>3. at(j) = a + j * PageSize
      BY <1>5, <3>1, <3>2
    <3> QED BY <1>1, <1>4, <1>10, <3>1, <3>3
  <2>2. k < K
    <3> SUFFICES ASSUME K <= k PROVE FALSE
      OBVIOUS
    <3>1. K * PageSize <= k * PageSize /\ K * PageSize \in Nat /\ k * PageSize \in Nat
      BY <1>2
    <3> QED BY <1>7, <1>10, <3>1
  <2>3. k \in 0..(Pages - 1)
    BY <1>6, <1>8, <2>2
  <2> QED BY <2>1, <2>3
<1>11. ASSUME NEW k \in visited PROVE k \in Nat /\ k * PageSize < n
  <2>1. k \in Nat /\ \A j \in 0..k : at(j) < end
    BY <1>6
  <2>2. k < K
    <3> SUFFICES ASSUME K <= k PROVE FALSE
      BY <2>1
    <3>1. K \in 0..k
      BY <2>1
    <3> QED BY <1>8, <2>1, <3>1
  <2>3. at(k) < end
    BY <2>1
  <2>4. /\ k * PageSize \in Nat /\ K * PageSize \in Nat
        /\ k * PageSize <= K * PageSize
    BY <1>2, <2>1, <2>2
  <2>5. at(k) = a + k * PageSize
    <3>1. a + k * PageSize < N
      BY <1>1, <1>7, <2>4
    <3> QED BY <1>5, <2>1, <3>1
  <2> QED BY <1>1, <1>4, <2>1, <2>3, <2>4, <2>5
<1>12. ASSUME NEW b PROVE b \in listed <=> b \in expected
  <2>1. ASSUME b \in listed PROVE b \in expected
    <3>1. PICK k \in visited : b = at(k) /\ KernelRead(mem, at(k), PageSize).count > 0
      <4> HIDE DEF visited
      <4> QED BY <2>1
    <3>2. k \in Nat /\ k * PageSize < n /\ k * PageSize \in Nat
      BY <1>2, <1>11
    <3>3. b = a + k * PageSize
      BY <1>10, <3>1, <3>2
    <3> DEFINE x == k * PageSize
    <3>4. x \in Nat /\ x < n /\ b = a + x /\ x % PageSize = 0
      BY <1>2, <3>2, <3>3
    <3> HIDE DEF x
    <3>5. b \in a..(a + n - 1) /\ b - a = x /\ b \in 1..MaxAddress
      BY <1>1, <3>4 DEF N
    <3>6. mem[b] # Unmapped
      BY <3>1, <3>5, PageAnswered
    <3> QED BY <3>4, <3>5, <3>6
  <2>2. ASSUME b \in expected PROVE b \in listed
    <3>1. b \in a..(a + n - 1) /\ (b - a) % PageSize = 0 /\ mem[b] # Unmapped
      BY <2>2
    <3>2. b - a \in Nat /\ b - a < n /\ b \in 1..MaxAddress
      BY <1>1, <3>1 DEF N
    <3>3. PICK k \in Nat : b - a = k * PageSize
      BY <1>2, <3>1, <3>2
    <3>4. k * PageSize < n
      BY <3>2, <3>3
    <3>5. k \in visited /\ at(k) = a + k * PageSize
      BY <1>10, <3>4
    <3>6. k * PageSize \in Nat
      BY <1>2
    <3>7. at(k) = b
      BY <1>1, <3>1, <3>3, <3>5, <3>6
    <3>8. KernelRead(mem, at(k), PageSize).count > 0
      BY <3>1, <3>2, <3>7, PageAnswered
    <3> HIDE DEF visited
    <3> QED BY <3>5, <3>7, <3>8
  <2> QED BY <2>1, <2>2
<1>13. ReadBratchMemory(mem, a, n) = IF visited = 0..(Pages - 1) THEN Endless ELSE listed
  BY DEF ReadBratchMemory, at, end
<1> HIDE DEF listed, expected, visited
<1>14. listed = expected
  BY <1>12
<1> QED BY <1>9, <1>13, <1>14 DEF expected

\* ReadsAreLongestPrefix for every input given.
LEMMA ReadsHold == Given => ReadsAreLongestPrefix
<1> SUFFICES ASSUME Given, input.kind = "read"
             PROVE  LET mem == input.mem  a == input.address  n == input.len
                        mapped(k) == mem[Wrapped(a + k - 1)] # Unmapped
                        prefix == Max({k \in 0..n : \A j \in 1..k : mapped(j)})
                        exact  == [count |-> prefix,
                                   bytes |-> [k \in 1..n |-> IF k <= prefix
                                                 THEN mem[Wrapped(a + k - 1)] ELSE 0]]
                    IN  /\ SystemRead(mem, a, n) = exact
                        /\ a # 0 => KernelRead(mem, a, n) = exact
                        /\ a # 0 => ReadBratchAddr(mem, <<[address |-> a, size |-> n]>>)[1].count = prefix
                        /\ a # 0 /\ a + n + PageSize <= MaxAddress + 1 =>
                               ReadBratchMemory(mem, a, n) =
                                   {b \in a..(a + n - 1) : (b - a) % PageSize = 0 /\ mem[b] # Unmapped}
  BY DEF ReadsAreLongestPrefix
<1> DEFINE mem == input.mem  a == input.address  n == input.len
           prefix == Max({k \in 0..n : \A j \in 1..k : MappedAt(mem, a, j)})
           exact  == Buffer(mem, a, n, prefix)
<1>1. a \in 0..MaxAddress /\ n \in 0..MaxLen /\ n \in Nat
  BY MemoryAssumption DEF Given
<1> HIDE DEF mem, a, n
<1>2. \A e : EndsAt(mem, a, n, 0, e) => prefix = e
  BY <1>1, EndIsLongest
<1>3. prefix \in 0..n
  <2>1. EndsAt(mem, a, n, 0, ReadPages(mem, a, n))
    BY <1>1, PagesRead
  <2>2. prefix = ReadPages(mem, a, n)
    BY <1>2, <2>1
  <2> HIDE DEF prefix
  <2> QED BY <2>1, <2>2 DEF EndsAt
<1>4. ReadPages(mem, a, n) = prefix
  BY <1>1, <1>2, PagesRead
<1> HIDE DEF prefix
<1>5. SystemRead(mem, a, n) = exact
  <2>1. CASE n = 0
    <3>1. prefix = 0
      BY <1>3, <2>1
    <3> QED BY <2>1, <3>1 DEF SystemRead
  <2>2. CASE n # 0 /\ Wrapped(a) \div PageSize = Wrapped(a + n - 1) \div PageSize
    <3>1. n \in 1..MaxLen
      BY <1>1, <2>2, MemoryAssumption
    <3>2. ReadChunk(mem, a, n) = prefix
      BY <1>1, <1>2, <2>2, <3>1, OneCall
    <3> QED BY <2>2, <3>2 DEF SystemRead
  <2>3. CASE n # 0 /\ Wrapped(a) \div PageSize # Wrapped(a + n - 1) \div PageSize
    BY <1>4, <2>3 DEF SystemRead
  <2> QED BY <2>1, <2>2, <2>3
<1>6. ASSUME a # 0 PROVE KernelRead(mem, a, n) = exact
  <2>1. CASE n = 0
    <3>1. prefix = 0
      BY <1>3, <2>1
    <3>2. [k \in 1..0 |-> IF k <= prefix THEN mem[Wrapped(a + k - 1)] ELSE 0] = <<>>
      OBVIOUS
    <3>3. exact = [count |-> 0, bytes |-> <<>>]
      BY <2>1, <3>1, <3>2 DEF Buffer
    <3> QED BY <2>1, <3>3 DEF KernelRead
  <2>2. CASE n # 0
    BY <1>4, <1>6, <2>2 DEF KernelRead
  <2> QED BY <2>1, <2>2
<1>7. exact.count = prefix
  BY DEF Buffer
<1>8. ASSUME a # 0 PROVE ReadBratchAddr(mem, <<[address |-> a, size |-> n]>>)[1].count = prefix
  <2>1. ReadBratchAddr(mem, <<[address |-> a, size |-> n]>>)[1].count = KernelRead(mem, a, n).count
    BY DEF ReadBratchAddr
  <2> QED BY <1>6, <1>7, <1>8, <2>1
<1>9. ASSUME a # 0, a + n + PageSize <= MaxAddress + 1
      PROVE  ReadBratchMemory(mem, a, n) =
                 {b \in a..(a + n - 1) : (b - a) % PageSize = 0 /\ mem[b] # Unmapped}
  <2>1. a \in 1..MaxAddress /\ n \in Nat
    BY <1>1, <1>9
  <2> QED BY <1>9, <2>1, PagesListed
<1> QED BY <1>5, <1>6, <1>8, <1>9 DEF mem, a, n, prefix, MappedAt, Buffer

\* Both backends read the longest readable prefix of a range and clear the
\* rest, for every memory, page size, address and length.
THEOREM ReadsAreExact == AlgorithmsSpec => []ReadsAreLongestPrefix
BY GivenInvariance, ReadsHold, PTL

-----------------------------------------------------------------------------
(* Time budgets.                                                            *)

\* The larger of two numbers is the maximum of their set.
LEMMA GreaterOfTwo ==
    ASSUME NEW a \in Int, NEW b \in Int
    PROVE  Max({a, b}) \in Int /\ Max({a, b}) >= a /\ Max({a, b}) >= b
<1>1. \E x \in {a, b} : \A y \in {a, b} : x >= y
  <2>1. CASE a >= b
    BY <2>1
  <2>2. CASE b >= a
    BY <2>2
  <2> QED BY <2>1, <2>2
<1>2. Max({a, b}) \in {a, b} /\ \A y \in {a, b} : Max({a, b}) >= y
  BY <1>1 DEF Max
<1> QED BY <1>2

\* A scope inside another ends no later than the one around it.
LEMMA ScopesNest ==
    ASSUME NEW nested \in Seq(Int), NEW pause \in Nat
    PROVE  LET at(i) == pause * i
               deadline[i \in 0..Len(nested)] ==
                   IF i = 0 THEN Forever
                   ELSE ScopedTimeout(deadline[i - 1], nested[i], at(i))
               last == Len(nested)
           IN  /\ \A i \in 1..last : deadline[i] <= deadline[i - 1]
               /\ deadline[last] # Forever =>
                      IoTimeout(deadline[last], at(last))
                          <= Max({kMinIoTimeoutMs, deadline[1] - at(last)})
<1> DEFINE n == Len(nested)
           at(i) == pause * i
           G == [i \in 1..n |-> [v \in Int |-> ScopedTimeout(v, nested[i], at(i))]]
           Good(f) == f = [i \in 0..n |-> IF i = 0 THEN Forever
                                          ELSE ScopedTimeout(f[i - 1], nested[i], at(i))]
           deadline == CHOOSE f : Good(f)
<1>1. n \in Nat /\ (\A i \in 1..n : nested[i] \in Int) /\ \A i \in Nat : at(i) \in Int
  OBVIOUS
<1> HIDE DEF n, at
<1>0. ASSUME NEW v \in Int, NEW i \in 1..n
      PROVE  ScopedTimeout(v, nested[i], at(i)) \in Int /\ ScopedTimeout(v, nested[i], at(i)) <= v
  <2>1. nested[i] \in Int /\ at(i) \in Int
    BY <1>1
  <2> QED BY <2>1, SMT DEF ScopedTimeout, ApplyDeadline, Least, Forever, kMaxTimeoutMs
<1>2. Closed(G, n, Int)
  BY <1>1, <1>0 DEF Closed
<1>3. PICK f : History(f, G, n, Int, Forever)
  <2>1. Forever \in Int
    BY SMT DEF Forever
  <2> HIDE DEF G
  <2> QED BY <1>1, <1>2, <2>1, Recursion
<1>4. Good(f)
  <2>1. ASSUME NEW i \in 1..n PROVE G[i][f[i - 1]] = ScopedTimeout(f[i - 1], nested[i], at(i))
    <3>1. f[i - 1] \in Int
      BY <1>1, <1>3 DEF History
    <3> QED BY <3>1
  <2>2. /\ f = [i \in 0..n |-> f[i]] /\ f[0] = Forever
        /\ \A i \in 1..n : f[i] = ScopedTimeout(f[i - 1], nested[i], at(i))
    <3> HIDE DEF G
    <3> QED BY <1>1, <1>3, <2>1 DEF History
  <2>3. ASSUME NEW i \in 0..n
        PROVE  f[i] = IF i = 0 THEN Forever ELSE ScopedTimeout(f[i - 1], nested[i], at(i))
    <3>1. CASE i = 0
      BY <2>2, <3>1
    <3>2. CASE i # 0
      <4>1. i \in 1..n
        BY <1>1, <3>2
      <4> QED BY <2>2, <3>2, <4>1, Zenon
    <3> QED BY <3>1, <3>2
  <2> QED BY <2>2, <2>3, Zenon
<1>5. Good(deadline)
  <2> HIDE DEF Good
  <2> QED BY <1>4, Zenon
<1> HIDE DEF deadline
<1>6. /\ deadline[0] = Forever
      /\ \A i \in 1..n : deadline[i] = ScopedTimeout(deadline[i - 1], nested[i], at(i))
  BY <1>1, <1>5
<1>7. ASSUME NEW i \in 0..n PROVE deadline[i] \in Int /\ (i > 0 => deadline[i] <= deadline[1])
  <2> DEFINE S == {k \in Nat : k <= n => deadline[k] \in Int /\ (k > 0 => deadline[k] <= deadline[1])}
  <2>1. 0 \in S
    BY <1>6, SMT DEF Forever
  <2>2. ASSUME NEW k \in Nat, k \in S, k + 1 <= n
        PROVE  deadline[k + 1] \in Int /\ deadline[k + 1] <= deadline[1]
    <3>1. k + 1 \in 1..n /\ (k + 1) - 1 = k /\ k <= n
      BY <1>1, <2>2
    <3>2. deadline[k + 1] = ScopedTimeout(deadline[k], nested[k + 1], at(k + 1)) /\ nested[k + 1] \in Int
      BY <1>1, <1>6, <3>1
    <3>3. deadline[k] \in Int /\ (k > 0 => deadline[k] <= deadline[1])
      BY <2>2, <3>1
    <3>4. deadline[k + 1] \in Int /\ deadline[k + 1] <= deadline[k]
      <4> DEFINE v == deadline[k]  j == k + 1
      <4>1. v \in Int /\ j \in 1..n /\ deadline[j] = ScopedTimeout(v, nested[j], at(j))
        BY <3>1, <3>2, <3>3
      <4> HIDE DEF v, j
      <4>2. deadline[j] \in Int /\ deadline[j] <= v
        BY <4>1, <1>0, Zenon
      <4> QED BY <4>2 DEF v, j
    <3>5. CASE k = 0
      BY <3>4, <3>5
    <3>6. CASE k > 0
      <4>1. deadline[1] \in Int
        <5>1. 1 \in 1..n /\ 1 - 1 = 0
          BY <1>1, <3>1
        <5>2. deadline[1] = ScopedTimeout(Forever, nested[1], at(1))
          BY <5>1, <1>6
        <5>3. Forever \in Int
          BY SMT DEF Forever
        <5> QED BY <5>1, <5>2, <5>3, <1>0, Zenon
      <4> QED BY <3>3, <3>4, <3>6, <4>1
    <3> QED BY <3>5, <3>6
  <2>3. Nat \subseteq S
    <3>1. \A k \in Nat : k \in S => k + 1 \in S
      BY <1>1, <2>2
    <3> HIDE DEF S
    <3> QED BY <2>1, <3>1, Induction
  <2>4. i \in S
    <3> HIDE DEF S
    <3> QED BY <1>1, <2>3
  <2> QED BY <1>1, <2>4
<1>8. ASSUME NEW i \in 1..n PROVE deadline[i] <= deadline[i - 1]
  <2>1. i - 1 \in 0..n
    BY <1>1
  <2> QED BY <1>1, <1>6, <1>7, <2>1, <1>0
<1>9. ASSUME deadline[n] # Forever
      PROVE  IoTimeout(deadline[n], at(n)) <= Max({kMinIoTimeoutMs, deadline[1] - at(n)})
  <2>1. n > 0
    BY <1>1, <1>6, <1>9
  <2>2. 1 \in 0..n /\ n \in 0..n
    BY <1>1, <2>1
  <2> DEFINE d == deadline[n]
             e == deadline[1]
             now == at(n)
             m == Max({kMinIoTimeoutMs, e - now})
  <2>3. d \in Int /\ e \in Int /\ d <= e /\ now \in Int
    BY <1>1, <1>7, <2>1, <2>2
  <2>4. m \in Int /\ m >= kMinIoTimeoutMs /\ m >= e - now
    <3> HIDE DEF e, now
    <3>1. e - now \in Int /\ kMinIoTimeoutMs \in Int
      BY <2>3, SMT DEF kMinIoTimeoutMs
    <3> QED BY <3>1, GreaterOfTwo
  <2> HIDE DEF d, e, now, m
  <2>5. d # Forever
    BY <1>9 DEF d
  <2>6. IoTimeout(d, now) <= m
    BY <2>3, <2>4, <2>5, SMT DEF IoTimeout, Clamp, Least, kMinIoTimeoutMs, kMaxTimeoutMs
  <2> QED BY <2>6 DEF d, e, now, m
<1> QED BY <1>8, <1>9 DEF deadline, n, at

\* Only uxn_wait and execute_lua wait on someone else's time.
LEMMA OperationOfMethod ==
    ASSUME NEW m, NEW p
    PROVE  /\ Route(m, p).op = "waitUxnBreakpoint" => m = "uxn_wait" /\ Route(m, p) = uxn_wait(p)
           /\ Route(m, p).op = "lua" => m = "execute_lua" /\ Route(m, p) = execute_lua(p)
<1>1. Refused.op = "refused"
  BY DEF Refused
<1>2. CASE m = "uxn_wait"
  <2>1. Route(m, p) = uxn_wait(p)
    BY <1>2 DEF Route
  <2> QED BY <2>1, <1>2 DEF uxn_wait, Call, Refused
<1>3. CASE m = "execute_lua"
  <2>1. Route(m, p) = execute_lua(p)
    BY <1>3 DEF Route
  <2> QED BY <2>1, <1>3 DEF execute_lua, Call, Refused
<1>4. CASE m \notin {"uxn_wait", "execute_lua"}
  <2> DEFINE Other == {"refused", "status", "serverVersion", "memoryType", "listProcesses", "openProcess",
                       "listModules", "readMemory", "writeMemory", "readMemoryBatch", "setBreakpoint",
                       "removeBreakpoint", "suspendBreakpoint", "resumeBreakpoint", "breakpointHits",
                       "breakpointSlots", "installUxnBreakpoint", "removeUxnBreakpoint",
                       "resumeUxnBreakpoint", "queryUxnBreakpointStatus", "clearUxnBreakpoints",
                       "resolveModule", "resolvePointer", "loadSymbolTable", "legacySymbols",
                       "listSymbols", "resolveSymbol"}
  <2>1. get_status(p).op \in Other
    BY DEF get_status, Call, Refused
  <2>2. get_version(p).op \in Other
    BY DEF get_version, Call, Refused
  <2>3. get_architecture(p).op \in Other
    BY DEF get_architecture, Call, Refused
  <2>4. list_processes(p).op \in Other
    BY DEF list_processes, Call, Refused
  <2>5. open_process(p).op \in Other
    BY DEF open_process, Call, Refused
  <2>6. list_modules(p).op \in Other
    BY DEF list_modules, Call, Refused
  <2>7. read_memory(p).op \in Other
    BY DEF read_memory, Call, Refused
  <2>8. write_memory(p).op \in Other
    BY DEF write_memory, Call, Refused
  <2>9. read_batch(p).op \in Other
    BY DEF read_batch, Call, Refused
  <2>10. set_breakpoint(p).op \in Other
    BY DEF set_breakpoint, Call, Refused
  <2>11. remove_breakpoint(p).op \in Other
    BY DEF remove_breakpoint, Call, Refused
  <2>12. suspend_breakpoint(p).op \in Other
    BY DEF suspend_breakpoint, Call, Refused
  <2>13. resume_breakpoint(p).op \in Other
    BY DEF resume_breakpoint, Call, Refused
  <2>14. read_bp_info(p).op \in Other
    BY DEF read_bp_info, Call, Refused
  <2>15. query_hwbp_slots(p).op \in Other
    BY DEF query_hwbp_slots, Call, Refused
  <2>16. uxn_install(p).op \in Other
    BY DEF uxn_install, Call, Refused
  <2>17. uxn_remove(p).op \in Other
    BY DEF uxn_remove, Call, Refused
  <2>18. uxn_resume(p).op \in Other
    BY DEF uxn_resume, Call, Refused
  <2>19. uxn_status(p).op \in Other
    BY DEF uxn_status, Call, Refused
  <2>20. uxn_clear(p).op \in Other
    BY DEF uxn_clear, Call, Refused
  <2>21. get_module_base(p).op \in Other
    BY DEF get_module_base, Call, Refused
  <2>22. resolve_offset_chain(p).op \in Other
    BY DEF resolve_offset_chain, Call, Refused
  <2>23. symbol_init(p).op \in Other
    BY DEF symbol_init, Call, Refused
  <2>24. symbol_list(p).op \in Other
    BY DEF symbol_list, Call, Refused
  <2>25. symbol_find(p).op \in Other
    BY DEF symbol_find, Call, Refused
  <2>26. Route(m, p) \in {
        get_status(p), get_version(p), get_architecture(p), list_processes(p), open_process(p),
        list_modules(p), read_memory(p), write_memory(p), read_batch(p), set_breakpoint(p),
        remove_breakpoint(p), suspend_breakpoint(p), resume_breakpoint(p), read_bp_info(p),
        query_hwbp_slots(p), uxn_install(p), uxn_remove(p), uxn_resume(p), uxn_status(p),
        uxn_clear(p), get_module_base(p), resolve_offset_chain(p), symbol_init(p),
        symbol_list(p), symbol_find(p), Refused}
    BY <1>4, SMT DEF Route
  <2>27. Route(m, p).op \in Other
    <3> HIDE DEF Other
    <3>1. Refused.op \in Other
      BY <1>1, Zenon DEF Other
    <3> QED BY <3>1, <2>1, <2>2, <2>3, <2>4, <2>5, <2>6, <2>7, <2>8, <2>9, <2>10, <2>11, <2>12, <2>13,
               <2>14, <2>15, <2>16, <2>17, <2>18, <2>19, <2>20, <2>21, <2>22, <2>23, <2>24, <2>25, <2>26, Zenon
  <2> QED BY <2>27
<1> QED BY <1>2, <1>3, <1>4

\* What an optional parameter yields.
LEMMA UintParam ==
    ASSUME NEW j, NEW default, NEW max \in Int
    PROVE  \/ j.t = "absent" /\ getOptionalPositiveUintParam(j, default, max) = Ok(default)
           \/ /\ j.t = "int" /\ j.v \in Int /\ 1 <= j.v /\ j.v <= max
              /\ getOptionalPositiveUintParam(j, default, max) = Ok(j.v)
           \/ getOptionalPositiveUintParam(j, default, max) = Throw
BY DEF getOptionalPositiveUintParam

\* The device's wait, the dispatch around it and the bridge's wait for both.
LEMMA WaitsNest ==
    ASSUME NEW p, uxn_wait(p).op = "waitUxnBreakpoint", p.timeout_ms.t # "absent"
    PROVE  /\ uxn_wait(p).args.timeoutMs < requestTimeout("uxn_wait", p)
           /\ requestTimeout("uxn_wait", p) < callTimeout("uxn_wait", p)
<1>1. /\ getOptionalPositiveUintParam(p.timeout_ms, 1000, kMaxUxnWaitTimeoutMs) # Throw
      /\ uxn_wait(p).args.timeoutMs
            = getOptionalPositiveUintParam(p.timeout_ms, 1000, kMaxUxnWaitTimeoutMs).v
  BY DEF uxn_wait, Call, Refused
<1>2. /\ p.timeout_ms.t = "int" /\ p.timeout_ms.v \in Int
      /\ 1 <= p.timeout_ms.v /\ p.timeout_ms.v <= kMaxUxnWaitTimeoutMs
      /\ getOptionalPositiveUintParam(p.timeout_ms, 1000, kMaxUxnWaitTimeoutMs) = Ok(p.timeout_ms.v)
  <2>1. kMaxUxnWaitTimeoutMs \in Int
    BY DEF kMaxUxnWaitTimeoutMs
  <2> QED BY <1>1, <2>1, UintParam
<1>3. uxn_wait(p).args.timeoutMs = p.timeout_ms.v
  BY <1>1, <1>2 DEF Ok
<1>4. PICK ms \in Int : ms = p.timeout_ms.v /\ 1 <= ms /\ ms <= 60000
  BY <1>2, SMT DEF kMaxUxnWaitTimeoutMs
<1>5. Seconds(ms) \in Int /\ ms <= 1000 * Seconds(ms) /\ 1000 * Seconds(ms) <= ms + 999
  BY SMT DEF Seconds
<1>6. requestTimeout("uxn_wait", p) = 1000 * Least(70, Seconds(ms) + 5)
  BY <1>2, <1>4, SMT DEF requestTimeout
<1>7. callTimeout("uxn_wait", p) = ms + 10000
  BY <1>4, SMT DEF callTimeout, _SLOW_METHODS
<1>8. ms < 1000 * Least(70, Seconds(ms) + 5) /\ 1000 * Least(70, Seconds(ms) + 5) < ms + 10000
  BY <1>4, <1>5, SMT DEF Least
<1> QED BY <1>3, <1>4, <1>6, <1>7, <1>8

\* A script that asked for time it may have fits into its dispatch.
LEMMA ScriptsNest ==
    ASSUME NEW p, execute_lua(p).op = "lua", NEW s, s = execute_lua(p).args.seconds,
           p.timeout_seconds = [t |-> "int", v |-> s], p.timeout_seconds.t = "int" => p.timeout_seconds.v \in Int
    PROVE  /\ 1000 * s <= requestTimeout("execute_lua", p)
           /\ 1000 * s < callTimeout("execute_lua", p)
<1> DEFINE code == getStringParam(p.code, TRUE, FALSE, kMaxIpcLuaCodeBytes)
           seconds == getClampedIntParam(p.timeout_seconds, 30, 1, 30)
<1>1. s = seconds.v
  <2> HIDE DEF code, seconds
  <2>1. execute_lua(p) = Call("lua", FALSE, [code |-> code, seconds |-> seconds])
    BY DEF execute_lua, code, seconds
  <2> QED BY <2>1 DEF Call, Refused
<1>2. p.timeout_seconds.t = "int" /\ p.timeout_seconds.v = s /\ s \in Int
  OBVIOUS
<1>3. seconds = Ok(Clamp(s, 1, 30))
  BY <1>2, SMT DEF getClampedIntParam
<1>4. s <= 30
  BY <1>1, <1>2, <1>3, SMT DEF Ok, Clamp, Least
<1>5. requestTimeout("execute_lua", p) = 30000
  BY SMT DEF requestTimeout
<1>6. callTimeout("execute_lua", p) = 1000 * s + 5000
  BY <1>2, SMT DEF callTimeout, _SLOW_METHODS
<1> QED BY <1>2, <1>4, <1>5, <1>6

\* BudgetsNest for every input given.
LEMMA BudgetsHold == Given => BudgetsNest
<1> SUFFICES ASSUME Given PROVE BudgetsNest
  OBVIOUS
<1>1. ASSUME input.kind = "request"
      PROVE  LET call == Route(input.method, input.params)
             IN  /\ call.op = "waitUxnBreakpoint" /\ input.params.timeout_ms.t # "absent" =>
                        /\ call.args.timeoutMs < requestTimeout(input.method, input.params)
                        /\ requestTimeout(input.method, input.params)
                               < callTimeout(input.method, input.params)
                 /\ call.op = "lua" /\ input.params.timeout_seconds = [t |-> "int", v |-> call.args.seconds] =>
                        /\ 1000 * call.args.seconds <= requestTimeout(input.method, input.params)
                        /\ 1000 * call.args.seconds < callTimeout(input.method, input.params)
  <2> DEFINE p == input.params
             call == Route(input.method, p)
  <2>1. ASSUME call.op = "waitUxnBreakpoint", p.timeout_ms.t # "absent"
        PROVE  /\ call.args.timeoutMs < requestTimeout(input.method, p)
               /\ requestTimeout(input.method, p) < callTimeout(input.method, p)
    BY <2>1, OperationOfMethod, WaitsNest
  <2>2. ASSUME call.op = "lua", p.timeout_seconds = [t |-> "int", v |-> call.args.seconds]
        PROVE  /\ 1000 * call.args.seconds <= requestTimeout(input.method, p)
               /\ 1000 * call.args.seconds < callTimeout(input.method, p)
    <3>1. input.method = "execute_lua" /\ call = execute_lua(p)
      BY <2>2, OperationOfMethod
    <3>2. p.timeout_seconds.t = "int" => p.timeout_seconds.v \in Int
      <4>1. PICK r \in Requests : input.method = r.method /\ p = r.params
        BY <1>1 DEF Given
      <4> QED BY <3>1, <4>1, RequestAssumption
    <3> QED BY <2>2, <3>1, <3>2, ScriptsNest
  <2> QED BY <2>1, <2>2
<1>2. ASSUME input.kind = "budget"
      PROVE  LET at(i) == input.pause * i
                 deadline[i \in 0..Len(input.scopes)] ==
                     IF i = 0 THEN Forever
                     ELSE ScopedTimeout(deadline[i - 1], input.scopes[i], at(i))
                 last == Len(input.scopes)
             IN  /\ \A i \in 1..last : deadline[i] <= deadline[i - 1]
                 /\ deadline[last] # Forever =>
                        IoTimeout(deadline[last], at(last))
                            <= Max({kMinIoTimeoutMs, deadline[1] - at(last)})
  <2>1. input.scopes \in Seq(Int) /\ input.pause \in Nat
    BY <1>2, BudgetAssumption DEF Given
  <2> QED BY <2>1, ScopesNest
<1> QED BY <1>1, <1>2 DEF BudgetsNest

\* A deadline inside another never ends later, whatever is asked for and however
\* much time passes in between; the device's wait, its dispatch and its caller
\* nest likewise.
THEOREM BudgetsAreNested == AlgorithmsSpec => []BudgetsNest
BY GivenInvariance, BudgetsHold, PTL

-----------------------------------------------------------------------------
(* Requests.                                                                *)

\* What the parameter helpers yield when they do not throw.
\* A size is positive and at most the limit.
LEMMA SizeParam ==
    ASSUME NEW j, NEW default \in Nat \ {0}, NEW max \in Nat, default <= max,
           j.v \in Int, getPositiveSizeParam(j, default, max) # Throw
    PROVE  getPositiveSizeParam(j, default, max).v \in 1..max
BY DEF getPositiveSizeParam, Ok, Least

\* A name that must be given is not empty and at most as long as the limit.
LEMMA NameParam ==
    ASSUME NEW j, NEW max \in Nat, Named(j), getStringParam(j, TRUE, FALSE, max) # Throw
    PROVE  getStringParam(j, TRUE, FALSE, max).v \in 1..max
BY DEF getStringParam, Named, Ok

\* A slot is any of them or one there is.
LEMMA SlotParam ==
    ASSUME NEW j, j.v \in Int, ParseUxnSlot(j) # Throw
    PROVE  /\ ParseUxnSlot(j).v = kUxnWaitAnySlot \/ ParseUxnSlot(j).v \in 0..(kMaxUxnSlots - 1)
           /\ ParseOneUxnSlot(j) # Throw => ParseOneUxnSlot(j).v \in 0..(kMaxUxnSlots - 1)
<1>1. kMaxUxnSlots \in Int
  BY DEF kMaxUxnSlots
<1> DEFINE slot == ParseAddress(j)
<1>2. slot # Throw => slot = Ok(slot.v) /\ slot.v \in Int /\ 0 <= slot.v
  BY DEF ParseAddress, Truncated, Ok
<1> HIDE DEF slot
<1>3. \/ ParseUxnSlot(j) = Ok(kUxnWaitAnySlot)
      \/ /\ ParseUxnSlot(j) = slot /\ slot # Throw
         /\ slot.v = kUxnWaitAnySlot \/ slot.v < kMaxUxnSlots
  BY DEF ParseUxnSlot, slot
<1> QED BY <1>1, <1>2, <1>3 DEF ParseOneUxnSlot, Ok

\* Operations the service takes as they come.
LEMMA Undemanding ==
    ASSUME NEW call, NEW p,
           call.op \in {"refused", "status", "serverVersion", "memoryType", "listProcesses",
                        "removeBreakpoint", "suspendBreakpoint", "resumeBreakpoint", "breakpointHits",
                        "installUxnBreakpoint", "removeUxnBreakpoint", "clearUxnBreakpoints",
                        "lua", "loadSymbolTable", "legacySymbols"}
    PROVE  Valued(call, p) /\ ServiceAccepts(call)
<1>1. ServiceAccepts(call)
  BY SMT DEF ServiceAccepts
<1> QED BY <1>1 DEF Valued

\* A sum of naturals is as large as each of them.
LEMMA SumOfNaturals ==
    ASSUME NEW n \in Nat, NEW f \in [1..n -> Nat]
    PROVE  SumOf(f) \in Nat /\ (\A i \in 1..n : f[i] <= SumOf(f)) /\ (n = 0 => SumOf(f) = 0)
<1> DEFINE G == [i \in 1..n |-> [v \in Nat |-> v + f[i]]]
           Good(s) == s = [i \in 0..n |-> IF i = 0 THEN 0 ELSE s[i - 1] + f[i]]
           sum == CHOOSE s : Good(s)
<1>1. Closed(G, n, Nat)
  BY DEF Closed
<1>2. PICK s : History(s, G, n, Nat, 0)
  <2> HIDE DEF G
  <2> QED BY <1>1, Recursion
<1>3. Good(s)
  <2>1. s \in [0..n -> Nat] /\ s[0] = 0
    BY <1>2 DEF History
  <2>2. ASSUME NEW i \in 1..n PROVE s[i] = s[i - 1] + f[i]
    <3>1. s[i] = G[i][s[i - 1]] /\ s[i - 1] \in Nat
      <4> HIDE DEF G
      <4> QED BY <1>2 DEF History
    <3> QED BY <3>1
  <2> QED BY <2>1, <2>2
<1>4. Good(sum)
  <2> HIDE DEF Good
  <2> QED BY <1>3, Zenon
<1>5. Len(f) = n
  BY LenProperties
<1>6. SumOf(f) = sum[n]
  BY <1>5 DEF SumOf
<1> HIDE DEF sum
<1>7. sum[0] = 0 /\ \A i \in 1..n : sum[i] = sum[i - 1] + f[i]
  BY <1>4
<1> DEFINE S == {k \in Nat : k <= n => sum[k] \in Nat /\ \A i \in 1..k : f[i] <= sum[k]}
<1>8. 0 \in S
  BY <1>7
<1>9. ASSUME NEW k \in Nat, k \in S PROVE k + 1 \in S
  <2> SUFFICES ASSUME k + 1 <= n PROVE sum[k + 1] \in Nat /\ \A i \in 1..(k + 1) : f[i] <= sum[k + 1]
    OBVIOUS
  <2>1. k + 1 \in 1..n /\ (k + 1) - 1 = k /\ f[k + 1] \in Nat
    OBVIOUS
  <2>2. sum[k] \in Nat /\ (\A i \in 1..k : f[i] <= sum[k]) /\ sum[k + 1] = sum[k] + f[k + 1]
    BY <1>7, <1>9, <2>1
  <2>3. ASSUME NEW i \in 1..(k + 1) PROVE f[i] <= sum[k + 1]
    <3>1. CASE i = k + 1
      BY <2>1, <2>2, <3>1
    <3>2. CASE i \in 1..k
      <4>1. f[i] \in Nat /\ f[i] <= sum[k]
        BY <2>1, <2>2, <3>2
      <4> QED BY <2>1, <2>2, <4>1
    <3> QED BY <3>1, <3>2
  <2> QED BY <2>1, <2>2, <2>3
<1>10. n \in S
  <2> HIDE DEF S
  <2> QED BY <1>8, <1>9, Induction
<1> QED BY <1>6, <1>7, <1>10

\* A batch that is let through reads at least a byte and no more than the limit.
LEMMA BatchRoute ==
    ASSUME NEW p, Runs(p.addresses), read_batch(p) # Refused
    PROVE  /\ read_batch(p).op = "readMemoryBatch"
           /\ read_batch(p).args.count \in 1..kMaxMemoryBatchCount
           /\ read_batch(p).args.bytes \in 1..kMaxMemoryBatchBytes
<1> DEFINE runs == p.addresses.v
           n == Len(runs)
           size(j) == getPositiveSizeParam(j, 4, kMaxIpcMemoryTransferBytes)
           sizes == [i \in DOMAIN runs |-> runs[i].times * size(runs[i].item).v]
           total == SumOf(sizes)
           bytes == BatchTotal(p.addresses, size)
           args == [count |-> Ok(Count(p.addresses)), bytes |-> bytes]
<1>1. /\ n \in Nat /\ DOMAIN runs = 1..n
      /\ \A i \in 1..n : runs[i].item.v \in Int /\ runs[i].times \in Nat \ {0}
  <2> DEFINE R == [item : [t : STRING, v : Int], times : Nat \ {0}]
  <2>1. runs \in Seq(R)
    BY DEF Runs
  <2>2. n \in Nat /\ DOMAIN runs = 1..n /\ \A i \in 1..n : runs[i] \in R
    <3> HIDE DEF R
    <3> QED BY <2>1
  <2> QED BY <2>2
<1>2. /\ Count(p.addresses) \in 1..kMaxMemoryBatchCount
      /\ Holds(p.addresses, size)
      /\ read_batch(p) = Call("readMemoryBatch", TRUE, args)
  BY DEF read_batch
<1>3. \A i \in 1..n : size(runs[i].item) # Throw
  BY <1>1, <1>2 DEF Holds
<1>4. kMaxIpcMemoryTransferBytes \in Nat /\ 4 <= kMaxIpcMemoryTransferBytes /\ kMaxMemoryBatchBytes \in Nat
  BY SMT DEF kMaxIpcMemoryTransferBytes, kMaxMemoryBatchBytes
<1>5. ASSUME NEW i \in 1..n PROVE sizes[i] \in Nat /\ sizes[i] > 0
  <2>1. size(runs[i].item).v \in 1..kMaxIpcMemoryTransferBytes
    BY <1>1, <1>3, <1>4, SizeParam
  <2> DEFINE x == runs[i].times  y == size(runs[i].item).v
  <2>2. x \in Nat \ {0} /\ y \in Nat \ {0} /\ sizes[i] = x * y
    BY <1>1, <1>4, <2>1
  <2> HIDE DEF x, y, sizes
  <2>3. x * y \in Nat /\ x * y > 0
    BY <2>2
  <2> QED BY <2>2, <2>3
<1>6. n > 0
  <2> SUFFICES ASSUME n = 0 PROVE FALSE
    BY <1>1
  <2> DEFINE f == [i \in DOMAIN runs |-> runs[i].times]
  <2>1. f \in [1..n -> Nat]
    BY <1>1
  <2>2. Count(p.addresses) = SumOf(f)
    BY DEF Count
  <2>3. SumOf(f) = 0
    <3>1. n \in Nat /\ n = 0
      BY <1>1
    <3> HIDE DEF f, n
    <3> QED BY <2>1, <3>1, SumOfNaturals
  <2> QED BY <1>2, <2>2, <2>3
<1>7. total \in Nat /\ total >= 1
  <2>1. sizes \in [1..n -> Nat]
    BY <1>1, <1>5
  <2>2. 1 \in 1..n
    BY <1>1, <1>6
  <2> HIDE DEF sizes
  <2>3. total \in Nat /\ sizes[1] <= total
    BY <1>1, <2>1, <2>2, SumOfNaturals
  <2>4. sizes[1] \in Nat /\ sizes[1] > 0
    BY <1>5, <2>2
  <2> HIDE DEF total
  <2> QED BY <2>3, <2>4
<1>8. bytes = IF total > kMaxMemoryBatchBytes THEN Throw ELSE Ok(total)
  BY DEF BatchTotal
<1> HIDE DEF bytes, total
<1>9. bytes # Throw /\ read_batch(p).op = "readMemoryBatch"
      /\ read_batch(p).args.count = Ok(Count(p.addresses)).v /\ read_batch(p).args.bytes = bytes.v
  BY <1>2 DEF Call, Refused
<1>10. bytes.v = total /\ total <= kMaxMemoryBatchBytes
  BY <1>4, <1>7, <1>8, <1>9 DEF Ok
<1>11. read_batch(p).args.count \in 1..kMaxMemoryBatchCount
  BY <1>2, <1>9 DEF Ok
<1>12. bytes.v \in 1..kMaxMemoryBatchBytes
  BY <1>4, <1>7, <1>10
<1> QED BY <1>9, <1>11, <1>12

\* What the routes of the demanding operations ask for.
LEMMA PageRoutes ==
    ASSUME NEW p, p.count.v \in Int
    PROVE  /\ list_modules(p) # Refused => Valued(list_modules(p), p)
           /\ symbol_list(p) # Refused => Valued(symbol_list(p), p)
<1>1. ASSUME list_modules(p) # Refused PROVE Valued(list_modules(p), p)
  <2> DEFINE filter == getStringParam(p.filter, FALSE, TRUE, kMaxIpcStringParamBytes)
             limit == getClampedIntParam(p.count, 200, 1, 1000)
  <2>1. /\ list_modules(p).op = "listModules" /\ limit # Throw /\ filter # Throw
        /\ list_modules(p).args.limit = limit.v /\ list_modules(p).args.filter = filter.v
    <3> DEFINE offset == getClampedIntParam(p.offset, 0, 0, INT_MAX)
    <3>1. list_modules(p)
            = Call("listModules", TRUE, [filter |-> filter, offset |-> offset, limit |-> limit])
      BY DEF list_modules
    <3> HIDE DEF filter, offset, limit
    <3> QED BY <1>1, <3>1 DEF Call, Refused
  <2>2. limit.v \in 1..kMaxModulePageSize
    <3>1. limit.v \in Int /\ 1 <= limit.v /\ limit.v <= 1000
      <4>1. limit # Throw
        BY <2>1
      <4> QED BY <4>1 DEF getClampedIntParam, Ok, Clamp, Least
    <3>2. kMaxModulePageSize = 1000
      BY DEF kMaxModulePageSize
    <3> HIDE DEF limit
    <3> QED BY <3>1, <3>2
  <2>3. filter.v <= kMaxTextBytes
    <3>1. filter.v = 0 \/ filter.v <= kMaxIpcStringParamBytes
      BY <2>1 DEF getStringParam, Ok
    <3> HIDE DEF filter
    <3> QED BY <3>1 DEF kMaxTextBytes, kMaxIpcStringParamBytes
  <2> HIDE DEF filter, limit
  <2>4. ServiceAccepts(list_modules(p))
    BY <2>1, <2>2, <2>3 DEF ServiceAccepts
  <2> QED BY <2>1, <2>4 DEF Valued
<1>2. ASSUME symbol_list(p) # Refused PROVE Valued(symbol_list(p), p)
  <2> DEFINE limit == getClampedIntParam(p.count, 100, 1, 1000)
             call == symbol_list(p)
  <2>1. \/ call.op = "legacySymbols"
        \/ call.op = "listSymbols" /\ limit # Throw /\ call.args.limit = limit.v
    BY <1>2 DEF symbol_list, Call, Refused
  <2>2. CASE call.op = "legacySymbols"
    BY <2>2, Undemanding
  <2>3. CASE call.op = "listSymbols" /\ limit # Throw /\ call.args.limit = limit.v
    <3>1. limit.v \in 1..kMaxSymbolPageSize
      <4>1. limit.v \in Int /\ 1 <= limit.v /\ limit.v <= 1000
        <5>1. limit # Throw
          BY <2>3
        <5> QED BY <5>1 DEF getClampedIntParam, Ok, Clamp, Least
      <4>2. kMaxSymbolPageSize = 1000
        BY DEF kMaxSymbolPageSize
      <4> HIDE DEF limit
      <4> QED BY <4>1, <4>2
    <3> HIDE DEF limit, call
    <3>2. ServiceAccepts(call)
      BY <2>3, <3>1 DEF ServiceAccepts
    <3>3. Valued(call, p)
      BY <2>3, <3>2 DEF Valued
    <3> QED BY <3>3 DEF call
  <2> QED BY <2>1, <2>2, <2>3
<1> QED BY <1>1, <1>2

\* read_memory, write_memory and read_batch.
LEMMA MemoryRoutes ==
    ASSUME NEW p
    PROVE  /\ p.size.v \in Int /\ read_memory(p) # Refused => Valued(read_memory(p), p)
           /\ write_memory(p) # Refused => Valued(write_memory(p), p)
           /\ Runs(p.addresses) /\ read_batch(p) # Refused => Valued(read_batch(p), p)
<1>1. ASSUME p.size.v \in Int, read_memory(p) # Refused PROVE Valued(read_memory(p), p)
  <2> DEFINE size == getPositiveSizeParam(p.size, 256, kMaxIpcMemoryTransferBytes)
  <2>1. read_memory(p).op = "readMemory" /\ size # Throw /\ read_memory(p).args.size = size.v
    BY <1>1 DEF read_memory, Call, Refused
  <2>2. size.v \in 1..kMaxIpcMemoryTransferBytes
    <3>1. kMaxIpcMemoryTransferBytes \in Nat /\ 256 <= kMaxIpcMemoryTransferBytes
      BY SMT DEF kMaxIpcMemoryTransferBytes
    <3> QED BY <1>1, <2>1, <3>1, SizeParam
  <2> HIDE DEF size
  <2>3. size.v \in 1..kMaxMemoryReadBytes
    <3>1. kMaxMemoryReadBytes \in Int /\ kMaxIpcMemoryTransferBytes \in Int
          /\ kMaxIpcMemoryTransferBytes <= kMaxMemoryReadBytes
      BY SMT DEF kMaxMemoryReadBytes, kMaxIpcMemoryTransferBytes
    <3> QED BY <2>2, <3>1
  <2>4. ServiceAccepts(read_memory(p))
    BY <2>1, <2>3 DEF ServiceAccepts
  <2> QED BY <2>1, <2>4 DEF Valued
<1>2. ASSUME write_memory(p) # Refused PROVE Valued(write_memory(p), p)
  <2>1. /\ write_memory(p).op = "writeMemory" /\ HexToBytes(p.hex) # Throw
        /\ HexToBytes(p.hex).v \in 1..kMaxIpcMemoryTransferBytes
        /\ write_memory(p).args.bytes = HexToBytes(p.hex).v
    BY <1>2 DEF write_memory, Call, Refused
  <2>2. HexToBytes(p.hex).v = p.hex.v
    BY <2>1 DEF HexToBytes, Ok
  <2>3. p.hex.v \in 1..kMaxMemoryWriteBytes
    <3>1. kMaxMemoryWriteBytes \in Int /\ kMaxIpcMemoryTransferBytes \in Int
          /\ kMaxIpcMemoryTransferBytes <= kMaxMemoryWriteBytes
      BY SMT DEF kMaxMemoryWriteBytes, kMaxIpcMemoryTransferBytes
    <3> QED BY <2>1, <2>2, <3>1
  <2>4. ServiceAccepts(write_memory(p))
    BY <2>1, <2>2, <2>3 DEF ServiceAccepts
  <2> QED BY <2>1, <2>2, <2>4 DEF Valued
<1>3. ASSUME Runs(p.addresses), read_batch(p) # Refused PROVE Valued(read_batch(p), p)
  <2>1. /\ read_batch(p).op = "readMemoryBatch"
        /\ read_batch(p).args.count \in 1..kMaxMemoryBatchCount
        /\ read_batch(p).args.bytes \in 1..kMaxMemoryBatchBytes
    BY <1>3, BatchRoute
  <2>2. ServiceAccepts(read_batch(p))
    BY <2>1 DEF ServiceAccepts
  <2> QED BY <2>1, <2>2 DEF Valued
<1> QED BY <1>1, <1>2, <1>3

\* set_breakpoint and query_hwbp_slots.
LEMMA BreakpointRoutes ==
    ASSUME NEW p
    PROVE  /\ set_breakpoint(p) # Refused => Valued(set_breakpoint(p), p)
           /\ p.capacity.v \in Int /\ query_hwbp_slots(p) # Refused => Valued(query_hwbp_slots(p), p)
<1>1. ASSUME set_breakpoint(p) # Refused PROVE Valued(set_breakpoint(p), p)
  <2> DEFINE access == getOptionalPositiveUintParam(p.bp_type, 2, 4)
             size == getOptionalPositiveUintParam(p.bp_size, 4, 8)
             call == set_breakpoint(p)
  <2>1. /\ call.op = "setBreakpoint" /\ access # Throw /\ size.v \in {1, 2, 4, 8}
        /\ call.args.access = access.v
        /\ call.args.size = (IF access = Ok(4) THEN Ok(4) ELSE size).v
        /\ access = Ok(4) \/ size # Throw
    BY <1>1 DEF set_breakpoint, Call, Refused
  <2>2. /\ access = Ok(access.v) /\ access.v \in 1..4
        /\ p.bp_type.t = "int" => access.v = p.bp_type.v
    BY <2>1, UintParam DEF Ok
  <2>3. size # Throw /\ p.bp_size.t = "int" => size.v = p.bp_size.v
    BY UintParam DEF Ok
  <2> HIDE DEF access, size, call
  <2>4. call.args.size \in {1, 2, 4, 8}
    BY <2>1 DEF Ok
  <2>5. access = Ok(4) <=> access.v = 4
    BY <2>2 DEF Ok
  <2>6. ServiceAccepts(call)
    BY <2>1, <2>2, <2>4 DEF ServiceAccepts
  <2>7. p.bp_size.t = "int" /\ call.args.access # 4 => call.args.size = p.bp_size.v
    BY <2>1, <2>3, <2>5
  <2>8. Valued(call, p)
    BY <2>1, <2>2, <2>6, <2>7 DEF Valued
  <2> QED BY <2>8 DEF call
<1>2. ASSUME p.capacity.v \in Int, query_hwbp_slots(p) # Refused PROVE Valued(query_hwbp_slots(p), p)
  <2> DEFINE k == kMaxBreakpointQueryEntries
             capacity == getPositiveSizeParam(p.capacity, k, k)
             call == query_hwbp_slots(p)
  <2>1. call.op = "breakpointSlots" /\ capacity # Throw /\ call.args.capacity = capacity.v
    BY <1>2 DEF query_hwbp_slots, Call, Refused
  <2>2. capacity.v \in 1..k
    <3>1. k \in Nat \ {0} /\ k <= k
      BY SMT DEF kMaxBreakpointQueryEntries
    <3> QED BY <1>2, <2>1, <3>1, SizeParam
  <2> HIDE DEF capacity, call
  <2>3. ServiceAccepts(call)
    BY <2>1, <2>2 DEF ServiceAccepts
  <2>4. Valued(call, p)
    BY <2>1, <2>3 DEF Valued
  <2> QED BY <2>4 DEF call
<1> QED BY <1>1, <1>2

\* uxn_wait, uxn_resume and uxn_status.
LEMMA UxnRoutes ==
    ASSUME NEW p, p.slot.v \in Int
    PROVE  /\ uxn_wait(p) # Refused => Valued(uxn_wait(p), p)
           /\ uxn_resume(p) # Refused => Valued(uxn_resume(p), p)
           /\ uxn_status(p) # Refused => Valued(uxn_status(p), p)
<1>1. ASSUME uxn_wait(p) # Refused PROVE Valued(uxn_wait(p), p)
  <2> DEFINE slot == ParseUxnSlot(p.slot)
             timeout == getOptionalPositiveUintParam(p.timeout_ms, 1000, kMaxUxnWaitTimeoutMs)
             call == uxn_wait(p)
  <2>1. /\ call.op = "waitUxnBreakpoint" /\ slot # Throw /\ timeout # Throw
        /\ call.args.slot = slot.v /\ call.args.timeoutMs = timeout.v
    BY <1>1 DEF uxn_wait, Call, Refused
  <2>2. slot.v = kUxnWaitAnySlot \/ slot.v \in 0..(kMaxUxnSlots - 1)
    BY <2>1, SlotParam
  <2>3. /\ timeout.v \in 1..kMaxUxnWaitTimeoutMs
        /\ p.timeout_ms.t # "absent" => timeout.v = p.timeout_ms.v
    <3>1. kMaxUxnWaitTimeoutMs \in Int /\ 1000 <= kMaxUxnWaitTimeoutMs
      BY SMT DEF kMaxUxnWaitTimeoutMs
    <3>2. \/ p.timeout_ms.t = "absent" /\ timeout = Ok(1000)
          \/ /\ p.timeout_ms.v \in Int /\ 1 <= p.timeout_ms.v /\ p.timeout_ms.v <= kMaxUxnWaitTimeoutMs
             /\ timeout = Ok(p.timeout_ms.v)
      BY <2>1, <3>1, UintParam
    <3> HIDE DEF timeout
    <3> QED BY <3>1, <3>2 DEF Ok
  <2> HIDE DEF slot, timeout, call
  <2>4. ServiceAccepts(call)
    BY <2>1, <2>2, <2>3 DEF ServiceAccepts
  <2>5. Valued(call, p)
    BY <2>1, <2>3, <2>4 DEF Valued
  <2> QED BY <2>5 DEF call
<1>2. ASSUME NEW call, call \in {uxn_resume(p), uxn_status(p)}, call # Refused PROVE Valued(call, p)
  <2> DEFINE slot == ParseOneUxnSlot(p.slot)
  <2>1. /\ call.op \in {"resumeUxnBreakpoint", "queryUxnBreakpointStatus"}
        /\ slot # Throw /\ call.args.slot = slot.v
    <3>1. CASE call = uxn_resume(p)
      BY <1>2, <3>1 DEF uxn_resume, Call, Refused
    <3>2. CASE call = uxn_status(p)
      BY <1>2, <3>2 DEF uxn_status, Call, Refused
    <3> QED BY <1>2, <3>1, <3>2
  <2>2. slot.v \in 0..(kMaxUxnSlots - 1)
    <3>1. ParseUxnSlot(p.slot) # Throw
      BY <2>1 DEF ParseOneUxnSlot
    <3> QED BY <2>1, <3>1, SlotParam
  <2> HIDE DEF slot
  <2>3. ServiceAccepts(call)
    BY <2>1, <2>2 DEF ServiceAccepts
  <2> QED BY <2>1, <2>3 DEF Valued
<1> QED BY <1>1, <1>2

\* Routes that name a module, a symbol or a process.
LEMMA NameRoutes ==
    ASSUME NEW p
    PROVE  /\ Named(p.name) /\ get_module_base(p) # Refused => Valued(get_module_base(p), p)
           /\ Named(p.name) /\ symbol_find(p) # Refused => Valued(symbol_find(p), p)
           /\ Named(p.module) /\ resolve_offset_chain(p) # Refused => Valued(resolve_offset_chain(p), p)
           /\ open_process(p) # Refused => Valued(open_process(p), p)
<1> DEFINE k == kMaxIpcStringParamBytes
<1>0. k \in Nat /\ k = kMaxTextBytes /\ k <= kMaxSymbolNameSize /\ kMaxSymbolNameSize \in Nat
  BY SMT DEF kMaxIpcStringParamBytes, kMaxTextBytes, kMaxSymbolNameSize
<1>1. ASSUME Named(p.name), get_module_base(p) # Refused PROVE Valued(get_module_base(p), p)
  <2> DEFINE name == getStringParam(p.name, TRUE, FALSE, k)
             call == get_module_base(p)
  <2>1. call.op = "resolveModule" /\ name # Throw /\ call.args.name = name.v
    BY <1>1 DEF get_module_base, Call, Refused
  <2>2. name.v \in 1..k
    BY <1>0, <1>1, <2>1, NameParam
  <2> HIDE DEF name, call, k
  <2>3. ServiceAccepts(call)
    BY <1>0, <2>1, <2>2 DEF ServiceAccepts
  <2>4. Valued(call, p)
    BY <2>1, <2>3 DEF Valued
  <2> QED BY <2>4 DEF call
<1>2. ASSUME Named(p.name), symbol_find(p) # Refused PROVE Valued(symbol_find(p), p)
  <2> DEFINE name == getStringParam(p.name, TRUE, FALSE, k)
             call == symbol_find(p)
  <2>1. call.op = "resolveSymbol" /\ name # Throw /\ call.args.name = name.v
    BY <1>2 DEF symbol_find, Call, Refused
  <2>2. name.v \in 1..k
    BY <1>0, <1>2, <2>1, NameParam
  <2> HIDE DEF name, call, k
  <2>3. name.v \in 1..kMaxSymbolNameSize
    BY <1>0, <2>2
  <2>4. ServiceAccepts(call)
    BY <2>1, <2>3 DEF ServiceAccepts
  <2>5. Valued(call, p)
    BY <2>1, <2>4 DEF Valued
  <2> QED BY <2>5 DEF call
<1>3. ASSUME Named(p.module), resolve_offset_chain(p) # Refused PROVE Valued(resolve_offset_chain(p), p)
  <2> DEFINE name == getStringParam(p.module, TRUE, FALSE, k)
             base == ParseAddress(p.base_offset)
             offsets == CASE p.offsets.t = "absent" -> Ok(0)
                          [] /\ p.offsets.t = "array" /\ Count(p.offsets) <= kMaxPointerOffsetCount
                             /\ Holds(p.offsets, ParseAddress) -> Ok(Count(p.offsets))
                          [] OTHER -> Throw
             final == getOptionalBoolParam(p.deref_final, 1)
             call == resolve_offset_chain(p)
  <2>1. call = Call("resolvePointer", TRUE, [name |-> name, baseOffset |-> base, offsets |-> offsets,
                                             dereference |-> final])
    BY DEF resolve_offset_chain
  <2>2. offsets # Throw => offsets.v = 0 \/ offsets.v <= kMaxPointerOffsetCount
    BY DEF Ok
  <2>3. name # Throw => name.v \in 1..k
    BY <1>0, <1>3, NameParam
  <2>4. call # Refused
    BY <1>3
  <2> HIDE DEF name, base, offsets, final, call, k
  <2>5. /\ call.op = "resolvePointer" /\ name # Throw /\ offsets # Throw
        /\ call.args.name = name.v /\ call.args.offsets = offsets.v
    BY <2>1, <2>4 DEF Call, Refused
  <2>6. offsets.v <= kMaxPointerOffsetCount
    BY <2>2, <2>5, SMT DEF kMaxPointerOffsetCount
  <2>7. ServiceAccepts(call)
    BY <1>0, <2>3, <2>5, <2>6 DEF ServiceAccepts
  <2>8. Valued(call, p)
    BY <2>5, <2>7 DEF Valued
  <2> QED BY <2>8 DEF call
<1>4. ASSUME open_process(p) # Refused PROVE Valued(open_process(p), p)
  <2> DEFINE pid == getRequiredPositiveIntParam(p.pid)
             call == open_process(p)
  <2>1. call.op = "openProcess" /\ pid # Throw /\ call.args.pid = pid.v
    BY <1>4 DEF open_process, Call, Refused
  <2>2. pid.v > 0
    <3>1. INT_MAX \in Int
      BY SMT DEF INT_MAX
    <3> QED BY <2>1, <3>1 DEF getRequiredPositiveIntParam, Ok
  <2> HIDE DEF pid, call
  <2>3. ServiceAccepts(call)
    BY <2>1, <2>2 DEF ServiceAccepts
  <2>4. Valued(call, p)
    BY <2>1, <2>3 DEF Valued
  <2> QED BY <2>4 DEF call
<1> QED BY <1>1, <1>2, <1>3, <1>4

\* Routes whose operation takes what it is given.
LEMMA PlainRoutes ==
    ASSUME NEW p, NEW call,
           call \in {get_status(p), get_version(p), get_architecture(p), list_processes(p),
                     remove_breakpoint(p), suspend_breakpoint(p), resume_breakpoint(p), read_bp_info(p),
                     uxn_install(p), uxn_remove(p), uxn_clear(p), execute_lua(p), symbol_init(p), Refused}
    PROVE  Valued(call, p)
<1>1. call.op \in {"refused", "status", "serverVersion", "memoryType", "listProcesses",
                   "removeBreakpoint", "suspendBreakpoint", "resumeBreakpoint", "breakpointHits",
                   "installUxnBreakpoint", "removeUxnBreakpoint", "clearUxnBreakpoints",
                   "lua", "loadSymbolTable", "legacySymbols"}
  BY DEF get_status, get_version, get_architecture, list_processes, remove_breakpoint,
         suspend_breakpoint, resume_breakpoint, read_bp_info, uxn_install, uxn_remove, uxn_clear,
         execute_lua, symbol_init, Call, Refused
<1> QED BY <1>1, Undemanding

\* What the fields of a request hold (RequestAssumption).
Fields(m, p) ==
    /\ m \in {"list_modules", "symbol_list"} => p.count.v \in Int
    /\ m = "read_memory" => p.size.v \in Int
    /\ m = "read_batch" => Runs(p.addresses)
    /\ m = "query_hwbp_slots" => p.capacity.v \in Int
    /\ m \in {"uxn_wait", "uxn_resume", "uxn_status"} => p.slot.v \in Int
    /\ m \in {"get_module_base", "symbol_find"} => Named(p.name)
    /\ m = "resolve_offset_chain" => Named(p.module)

\* A request that is let through is one the service accepts.
LEMMA RoutesAreFaithful ==
    ASSUME NEW m, NEW p, Fields(m, p), Route(m, p) # Refused
    PROVE  Valued(Route(m, p), p)
<1>1. CASE m \in {"list_modules", "symbol_list"}
  <2>1. Route("list_modules", p) = list_modules(p) /\ Route("symbol_list", p) = symbol_list(p)
    BY DEF Route
  <2> QED BY <1>1, <2>1, PageRoutes DEF Fields
<1>2. CASE m \in {"read_memory", "write_memory", "read_batch"}
  <2>1. /\ Route("read_memory", p) = read_memory(p) /\ Route("write_memory", p) = write_memory(p)
        /\ Route("read_batch", p) = read_batch(p)
    BY DEF Route
  <2> QED BY <1>2, <2>1, MemoryRoutes DEF Fields
<1>3. CASE m \in {"set_breakpoint", "query_hwbp_slots"}
  <2>1. Route("set_breakpoint", p) = set_breakpoint(p) /\ Route("query_hwbp_slots", p) = query_hwbp_slots(p)
    BY DEF Route
  <2> QED BY <1>3, <2>1, BreakpointRoutes DEF Fields
<1>4. CASE m \in {"uxn_wait", "uxn_resume", "uxn_status"}
  <2>1. /\ Route("uxn_wait", p) = uxn_wait(p) /\ Route("uxn_resume", p) = uxn_resume(p)
        /\ Route("uxn_status", p) = uxn_status(p)
    BY DEF Route
  <2> QED BY <1>4, <2>1, UxnRoutes DEF Fields
<1>5. CASE m \in {"get_module_base", "symbol_find", "resolve_offset_chain", "open_process"}
  <2>1. /\ Route("get_module_base", p) = get_module_base(p) /\ Route("symbol_find", p) = symbol_find(p)
        /\ Route("resolve_offset_chain", p) = resolve_offset_chain(p) /\ Route("open_process", p) = open_process(p)
    BY DEF Route
  <2> QED BY <1>5, <2>1, NameRoutes DEF Fields
<1>6. CASE m \notin {"list_modules", "symbol_list", "read_memory", "write_memory", "read_batch",
                     "set_breakpoint", "query_hwbp_slots", "uxn_wait", "uxn_resume", "uxn_status",
                     "get_module_base", "symbol_find", "resolve_offset_chain", "open_process"}
  <2>1. Route(m, p) \in {get_status(p), get_version(p), get_architecture(p), list_processes(p),
                         remove_breakpoint(p), suspend_breakpoint(p), resume_breakpoint(p), read_bp_info(p),
                         uxn_install(p), uxn_remove(p), uxn_clear(p), execute_lua(p), symbol_init(p), Refused}
    BY <1>6, SMT DEF Route
  <2> QED BY <2>1, PlainRoutes
<1> QED BY <1>1, <1>2, <1>3, <1>4, <1>5, <1>6

-----------------------------------------------------------------------------
(* Where a request asks for something.                                      *)

\* A number that was read stands for what was given.
LEMMA ParamStands ==
    ASSUME NEW j, j.t = "float" => j.v \in Int
    PROVE  /\ ParseAddress(j) # Throw => Stands(ParseAddress(j).v, j) /\ j.t # "absent"
           /\ ParseUxnSlot(j) # Throw /\ j.t # "absent" => Stands(ParseUxnSlot(j).v, j)
           /\ ParseOneUxnSlot(j) # Throw /\ j.t # "absent" => Stands(ParseOneUxnSlot(j).v, j)
<1>1. ParseAddress(j) # Throw => Stands(ParseAddress(j).v, j) /\ j.t # "absent"
  <2>1. CASE j.t = "float"
    BY <2>1 DEF ParseAddress, Truncated, Stands, Ok
  <2>2. CASE j.t # "float"
    BY <2>2 DEF ParseAddress, Stands, Ok
  <2> QED BY <2>1, <2>2
<1>2. ParseUxnSlot(j) # Throw /\ j.t # "absent" => ParseUxnSlot(j) = ParseAddress(j)
  BY DEF ParseUxnSlot
<1>3. ParseOneUxnSlot(j) # Throw => ParseOneUxnSlot(j) = ParseUxnSlot(j)
  BY DEF ParseOneUxnSlot
<1> QED BY <1>1, <1>2, <1>3

\* What the numbers of a request are (RequestAssumption).
Numbers(m, p) ==
    /\ m \in AddressMethods => (p.address.t = "float" => p.address.v \in Int)
    /\ m \in BaseMethods => (p.module_base.t = "float" => p.module_base.v \in Int)
    /\ m \in SlotMethods => (p.slot.t = "float" => p.slot.v \in Int)
    /\ m = "resolve_offset_chain" => (p.base_offset.t = "float" => p.base_offset.v \in Int)

\* The arguments of method m that say where are read from the fields that do.
Points(m, p, args) ==
    /\ "address" \in DOMAIN args => m \in AddressMethods /\ args["address"] = ParseAddress(p.address)
    /\ "base" \in DOMAIN args => m \in BaseMethods /\ args["base"] = ParseAddress(p.module_base)
    /\ "baseOffset" \in DOMAIN args =>
           m = "resolve_offset_chain" /\ args["baseOffset"] = ParseAddress(p.base_offset)
    /\ "pid" \in DOMAIN args =>
           m = "open_process" /\ args["pid"] = getRequiredPositiveIntParam(p.pid)
    /\ "slot" \in DOMAIN args =>
           m \in SlotMethods /\ args["slot"] \in {ParseUxnSlot(p.slot), ParseOneUxnSlot(p.slot)}

\* Placed, and which methods name what.
PlacedBy(m, call, p) ==
    LET given == DOMAIN call.args
    IN  /\ "address" \in given    => m \in AddressMethods /\ Stands(call.args["address"], p.address)
        /\ "base" \in given       =>
               m \in BaseMethods /\ Stands(call.args["base"], p.module_base) /\ p.module_base.t # "absent"
        /\ "baseOffset" \in given =>
               m = "resolve_offset_chain" /\ Stands(call.args["baseOffset"], p.base_offset)
        /\ "pid" \in given        => m = "open_process" /\ Stands(call.args["pid"], p.pid)
        /\ "slot" \in given       =>
               m \in SlotMethods /\ (p.slot.t # "absent" => Stands(call.args["slot"], p.slot))

\* A refused request names nothing.
LEMMA RefusedNames == DOMAIN Refused.args = {}
BY DEF Refused

\* The arguments of a call that is made.
LEMMA CallArgs ==
    ASSUME NEW op, NEW target, NEW args
    PROVE  \/ Call(op, target, args) = Refused
           \/ /\ DOMAIN Call(op, target, args).args = DOMAIN args
              /\ \A x \in DOMAIN args : args[x] # Throw /\ Call(op, target, args).args[x] = args[x].v
BY DEF Call

\* A call whose arguments are read from the fields is placed by them.
LEMMA CallPlaced ==
    ASSUME NEW m, NEW p, NEW op, NEW target, NEW args, NEW call, call = Call(op, target, args),
           Numbers(m, p), Points(m, p, args)
    PROVE  PlacedBy(m, call, p)
<1>1. CASE call = Refused
  BY <1>1, RefusedNames DEF PlacedBy
<1>2. CASE call # Refused
  <2>1. /\ DOMAIN call.args = DOMAIN args
        /\ \A x \in DOMAIN args : args[x] # Throw /\ call.args[x] = args[x].v
    BY <1>2, CallArgs
  <2>2. "address" \in DOMAIN args => m \in AddressMethods /\ Stands(call.args["address"], p.address)
    BY <2>1, ParamStands DEF Points, Numbers
  <2>3. "base" \in DOMAIN args =>
            m \in BaseMethods /\ Stands(call.args["base"], p.module_base) /\ p.module_base.t # "absent"
    BY <2>1, ParamStands DEF Points, Numbers
  <2>4. "baseOffset" \in DOMAIN args =>
            m = "resolve_offset_chain" /\ Stands(call.args["baseOffset"], p.base_offset)
    BY <2>1, ParamStands DEF Points, Numbers
  <2>5. "pid" \in DOMAIN args => m = "open_process" /\ Stands(call.args["pid"], p.pid)
    <3>1. getRequiredPositiveIntParam(p.pid) # Throw => Stands(getRequiredPositiveIntParam(p.pid).v, p.pid)
      BY DEF getRequiredPositiveIntParam, Stands, Ok
    <3> QED BY <2>1, <3>1 DEF Points
  <2>6. "slot" \in DOMAIN args =>
            m \in SlotMethods /\ (p.slot.t # "absent" => Stands(call.args["slot"], p.slot))
    BY <2>1, ParamStands DEF Points, Numbers
  <2> QED BY <2>1, <2>2, <2>3, <2>4, <2>5, <2>6 DEF PlacedBy
<1> QED BY <1>1, <1>2

\* Each kind of route: its arguments, where from.
LEMMA RoutesPlaced ==
    ASSUME NEW m, NEW p, Numbers(m, p)
    PROVE  PlacedBy(m, Route(m, p), p)
<1> DEFINE call == Route(m, p)
           P(c) == PlacedBy(m, c, p)
           A == ParseAddress(p.address)
           B == ParseAddress(p.module_base)
<1>1. P(Refused)
  BY RefusedNames DEF PlacedBy
\* Arguments that say nowhere.
<1>2. ASSUME NEW op, NEW target, NEW args,
             DOMAIN args \cap {"address", "base", "baseOffset", "pid", "slot"} = {}
      PROVE  P(Call(op, target, args))
  <2>1. Points(m, p, args)
    BY <1>2 DEF Points
  <2> QED BY <2>1, CallPlaced
<1>3. ASSUME m \in AddressMethods, NEW op, NEW x, NEW y
      PROVE  /\ P(Call(op, TRUE, [address |-> A])) /\ P(Call(op, TRUE, [address |-> A, size |-> x]))
             /\ P(Call(op, TRUE, [address |-> A, bytes |-> x]))
             /\ P(Call(op, TRUE, [address |-> A, access |-> x, size |-> y]))
  <2> HIDE DEF A
  <2>1. ASSUME NEW args, args \in {[address |-> A], [address |-> A, size |-> x], [address |-> A, bytes |-> x],
                                   [address |-> A, access |-> x, size |-> y]}
        PROVE  P(Call(op, TRUE, args))
    <3>1. /\ "address" \in DOMAIN args /\ args["address"] = A
          /\ DOMAIN args \cap {"base", "baseOffset", "pid", "slot"} = {}
      BY <2>1
    <3>2. Points(m, p, args)
      BY <1>3, <3>1 DEF Points, A
    <3> QED BY <3>2, CallPlaced
  <2> HIDE DEF P
  <2> QED BY <2>1
<1>4. ASSUME m \in BaseMethods, NEW op, NEW x, NEW y
      PROVE  /\ P(Call(op, TRUE, [base |-> B])) /\ P(Call(op, TRUE, [base |-> B, name |-> x]))
             /\ P(Call(op, TRUE, [base |-> B, offset |-> x, limit |-> y]))
  <2> HIDE DEF B
  <2>1. ASSUME NEW args, args \in {[base |-> B], [base |-> B, name |-> x], [base |-> B, offset |-> x, limit |-> y]}
        PROVE  P(Call(op, TRUE, args))
    <3>1. /\ "base" \in DOMAIN args /\ args["base"] = B
          /\ DOMAIN args \cap {"address", "baseOffset", "pid", "slot"} = {}
      BY <2>1
    <3>2. Points(m, p, args)
      BY <1>4, <3>1 DEF Points, B
    <3> QED BY <3>2, CallPlaced
  <2> HIDE DEF P
  <2> QED BY <2>1
<1>5. ASSUME m \in SlotMethods, NEW op, NEW slot \in {ParseUxnSlot(p.slot), ParseOneUxnSlot(p.slot)},
             NEW x, NEW y
      PROVE  /\ P(Call(op, TRUE, [slot |-> slot])) /\ P(Call(op, TRUE, [slot |-> slot, registers |-> x]))
             /\ P(Call(op, TRUE, [slot |-> slot, timeoutMs |-> x, lastSequence |-> y]))
  <2>1. ASSUME NEW args, args \in {[slot |-> slot], [slot |-> slot, registers |-> x],
                                   [slot |-> slot, timeoutMs |-> x, lastSequence |-> y]}
        PROVE  P(Call(op, TRUE, args))
    <3>1. /\ "slot" \in DOMAIN args /\ args["slot"] = slot
          /\ DOMAIN args \cap {"address", "base", "baseOffset", "pid"} = {}
      BY <2>1
    <3>2. Points(m, p, args)
      BY <1>5, <3>1 DEF Points
    <3> QED BY <3>2, CallPlaced
  <2> HIDE DEF P
  <2> QED BY <2>1
<1>6. ASSUME m = "open_process" PROVE P(open_process(p))
  <2> DEFINE args == [pid |-> getRequiredPositiveIntParam(p.pid)]
  <2>1. Points(m, p, args)
    BY <1>6 DEF Points
  <2>2. open_process(p) = Call("openProcess", TRUE, args)
    BY DEF open_process
  <2> HIDE DEF args
  <2> QED BY <2>1, <2>2, CallPlaced
<1>7. ASSUME m = "resolve_offset_chain" PROVE P(resolve_offset_chain(p))
  <2>1. PICK x, y, z : resolve_offset_chain(p) =
            Call("resolvePointer", TRUE, [name |-> x, baseOffset |-> ParseAddress(p.base_offset),
                                          offsets |-> y, dereference |-> z])
    BY DEF resolve_offset_chain
  <2> DEFINE args == [name |-> x, baseOffset |-> ParseAddress(p.base_offset), offsets |-> y, dereference |-> z]
  <2>2. Points(m, p, args)
    BY <1>7 DEF Points
  <2> HIDE DEF args
  <2> QED BY <2>1, <2>2, CallPlaced DEF args
<1> HIDE DEF P, A, B
<1>8. CASE m \in AddressMethods
  <2>1. /\ P(read_memory(p)) /\ P(write_memory(p)) /\ P(set_breakpoint(p))
        /\ P(remove_breakpoint(p)) /\ P(suspend_breakpoint(p)) /\ P(resume_breakpoint(p))
        /\ P(read_bp_info(p)) /\ P(uxn_install(p)) /\ P(uxn_remove(p))
    BY <1>1, <1>3, <1>8 DEF read_memory, write_memory, set_breakpoint, remove_breakpoint, suspend_breakpoint,
                            resume_breakpoint, read_bp_info, uxn_install, uxn_remove, A
  <2>2. call \in {read_memory(p), write_memory(p), set_breakpoint(p), remove_breakpoint(p),
                  suspend_breakpoint(p), resume_breakpoint(p), read_bp_info(p), uxn_install(p), uxn_remove(p)}
    BY <1>8 DEF Route, AddressMethods
  <2> HIDE DEF call
  <2>3. P(call)
    BY <2>1, <2>2
  <2> QED BY <2>3 DEF P, call
<1>9. CASE m \in BaseMethods
  <2>1. P(symbol_init(p)) /\ P(symbol_find(p))
    BY <1>4, <1>9 DEF symbol_init, symbol_find, B
  <2>2. P(symbol_list(p))
    <3> DEFINE x == getClampedIntParam(p.offset, 0, 0, INT_MAX)
               y == getClampedIntParam(p.count, 100, 1, 1000)
               page == [offset |-> x, limit |-> y]
    <3>1. symbol_list(p) \in {Call("legacySymbols", TRUE, page),
                              Call("listSymbols", TRUE, [base |-> B, offset |-> x, limit |-> y])}
      BY DEF symbol_list, B
    <3> HIDE DEF x, y
    <3>2. P(Call("legacySymbols", TRUE, page))
      <4>1. DOMAIN page \cap {"address", "base", "baseOffset", "pid", "slot"} = {}
        OBVIOUS
      <4> HIDE DEF page
      <4> QED BY <4>1, <1>2
    <3> HIDE DEF page
    <3>3. P(Call("listSymbols", TRUE, [base |-> B, offset |-> x, limit |-> y]))
      BY <1>4, <1>9
    <3> QED BY <3>1, <3>2, <3>3
  <2>3. call \in {symbol_init(p), symbol_find(p), symbol_list(p)}
    BY <1>9 DEF Route, BaseMethods
  <2> HIDE DEF call
  <2>4. P(call)
    BY <2>1, <2>2, <2>3
  <2> QED BY <2>4 DEF P, call
<1>10. CASE m \in SlotMethods
  <2> DEFINE any == ParseUxnSlot(p.slot)
             one == ParseOneUxnSlot(p.slot)
             timeout == getOptionalPositiveUintParam(p.timeout_ms, 1000, kMaxUxnWaitTimeoutMs)
             last == IF p.last_sequence.t = "absent" THEN Ok(0) ELSE ParseAddress(p.last_sequence)
             registers == ParseUxnRegisters(p.registers)
  <2>0. /\ uxn_wait(p) = Call("waitUxnBreakpoint", TRUE, [slot |-> any, timeoutMs |-> timeout, lastSequence |-> last])
        /\ uxn_resume(p) = Call("resumeUxnBreakpoint", TRUE, [slot |-> one, registers |-> registers])
        /\ uxn_status(p) = Call("queryUxnBreakpointStatus", TRUE, [slot |-> one])
    BY Zenon DEF uxn_wait, uxn_resume, uxn_status
  <2> HIDE DEF timeout, last, registers
  <2>1. P(uxn_wait(p)) /\ P(uxn_resume(p)) /\ P(uxn_status(p))
    BY <1>5, <1>10, <2>0, Zenon
  <2>2. call \in {uxn_wait(p), uxn_resume(p), uxn_status(p)}
    BY <1>10 DEF Route, SlotMethods
  <2> HIDE DEF call
  <2>3. P(call)
    BY <2>1, <2>2
  <2> QED BY <2>3 DEF P, call
<1>11. CASE m \in {"open_process", "resolve_offset_chain"}
  <2>1. \/ m = "open_process" /\ call = open_process(p)
        \/ m = "resolve_offset_chain" /\ call = resolve_offset_chain(p)
    <3>1. m = "open_process" => call = open_process(p)
      BY SMT DEF Route
    <3>2. m = "resolve_offset_chain" => call = resolve_offset_chain(p)
      BY SMT DEF Route
    <3> HIDE DEF call
    <3> QED BY <1>11, <3>1, <3>2, Zenon
  <2> HIDE DEF call
  <2>2. P(call)
    BY <1>6, <1>7, <2>1
  <2> QED BY <2>2 DEF P, call
<1>12. CASE m \notin AddressMethods \cup BaseMethods \cup SlotMethods \cup {"open_process", "resolve_offset_chain"}
  <2>1. ASSUME NEW op, NEW target PROVE P(Call(op, target, <<>>))
    BY <1>2
  <2>2. P(get_status(p)) /\ P(get_version(p)) /\ P(get_architecture(p)) /\ P(list_processes(p)) /\ P(uxn_clear(p))
    BY <2>1 DEF get_status, get_version, get_architecture, list_processes, uxn_clear
  <2>3. P(list_modules(p))
    <3> DEFINE args == [filter |-> getStringParam(p.filter, FALSE, TRUE, kMaxIpcStringParamBytes),
                        offset |-> getClampedIntParam(p.offset, 0, 0, INT_MAX),
                        limit  |-> getClampedIntParam(p.count, 200, 1, 1000)]
    <3>1. list_modules(p) = Call("listModules", TRUE, args)
      BY Zenon DEF list_modules
    <3>2. DOMAIN args \cap {"address", "base", "baseOffset", "pid", "slot"} = {}
      OBVIOUS
    <3> HIDE DEF args
    <3> QED BY <1>2, <3>1, <3>2
  <2>4. P(read_batch(p))
    BY <1>1, <1>2 DEF read_batch
  <2>5. P(query_hwbp_slots(p))
    BY <1>2 DEF query_hwbp_slots
  <2>6. P(execute_lua(p))
    BY <1>2 DEF execute_lua
  <2>7. P(get_module_base(p))
    BY <1>2 DEF get_module_base
  <2>8. call \in {get_status(p), get_version(p), get_architecture(p), list_processes(p), uxn_clear(p),
                  list_modules(p), read_batch(p), query_hwbp_slots(p), execute_lua(p), get_module_base(p), Refused}
    BY <1>12, SMT DEF Route, AddressMethods, BaseMethods, SlotMethods
  <2> HIDE DEF call
  <2>9. P(call)
    BY <1>1, <2>2, <2>3, <2>4, <2>5, <2>6, <2>7, <2>8, Zenon
  <2> QED BY <2>9 DEF P, call
<1> QED BY <1>8, <1>9, <1>10, <1>11, <1>12

-----------------------------------------------------------------------------
(* Lua functions.                                                           *)

\* What RequestsAreFaithful says of one call.
LuaFaithful(call, a) ==
    /\ call # Refused /\ call.op \notin {"readMemoryBatch", "resolveModule", "resolvePointer"} =>
           ServiceAccepts(call)
    /\ call.op = "setBreakpoint" =>
           /\ Ok(call.args.access) = AccessOf(a.bp_type)
           /\ a.bp_size.t = "int" /\ call.args.access # 4 => call.args.size = a.bp_size.v
    /\ call.op = "waitUxnBreakpoint" => call.args.timeoutMs <= a.remaining

\* mem.read and mem.readString.
LEMMA LuaReads ==
    ASSUME NEW a, NEW call, call \in {mem_read(a), mem_readString(a)}
    PROVE  LuaFaithful(call, a)
<1> SUFFICES ASSUME call # Refused PROVE LuaFaithful(call, a)
  BY DEF LuaFaithful, Refused
<1>1. PICK default : call = Call("readMemory", TRUE, [address |-> CheckAddress(a.address),
                                                      size |-> checkSize(a.size, default)])
  BY DEF mem_read, mem_readString
<1> DEFINE size == checkSize(a.size, default)
<1>2. call.op = "readMemory" /\ size # Throw /\ call.args.size = size.v
  BY <1>1 DEF Call, Refused
<1>3. size.v \in 1..kMaxLuaMemoryTransferSize
  <2> HIDE DEF checkinteger, optinteger
  <2> QED BY <1>2 DEF checkSize
<1> HIDE DEF size
<1>4. size.v \in 1..kMaxMemoryReadBytes
  <2>1. kMaxLuaMemoryTransferSize \in Int /\ kMaxMemoryReadBytes \in Int
        /\ kMaxLuaMemoryTransferSize <= kMaxMemoryReadBytes
    BY SMT DEF kMaxLuaMemoryTransferSize, kMaxMemoryReadBytes
  <2> QED BY <1>3, <2>1
<1>5. ServiceAccepts(call)
  BY <1>2, <1>4 DEF ServiceAccepts
<1> QED BY <1>2, <1>5 DEF LuaFaithful

\* mem.write and mem.writeString: at least a byte, and no more than the limit.
LEMMA LuaWrites ==
    ASSUME NEW a, NEW call,
           call = mem_write(a) \/ (call = mem_writeString(a) /\ a.text.v \in Nat)
    PROVE  LuaFaithful(call, a)
<1> SUFFICES ASSUME call # Refused PROVE LuaFaithful(call, a)
  BY DEF LuaFaithful, Refused
<1> DEFINE k == kMaxLuaMemoryTransferSize
<1>0. k \in Int /\ kMaxMemoryWriteBytes \in Int /\ k <= kMaxMemoryWriteBytes
  BY SMT DEF kMaxLuaMemoryTransferSize, kMaxMemoryWriteBytes
<1> HIDE DEF k
<1>1. call.op = "writeMemory" /\ call.args.bytes \in 1..k
  <2>1. CASE call = mem_write(a)
    <3>1. PICK bytes : call = Call("writeMemory", TRUE,
             [address |-> CheckAddress(a.address), bytes |-> IF bytes.v \in 1..k THEN bytes ELSE Throw])
      BY <2>1 DEF mem_write, k
    <3>2. call.op = "writeMemory" /\ bytes.v \in 1..k /\ call.args.bytes = bytes.v
      BY <3>1 DEF Call, Refused
    <3> QED BY <3>2
  <2>2. CASE call = mem_writeString(a) /\ a.text.v \in Nat
    <3> DEFINE text == checkstring(a.text)
               bytes == IF text # Throw /\ text.v < 65536 THEN Ok(text.v + 1) ELSE Throw
    <3>1. call = Call("writeMemory", TRUE, [address |-> CheckAddress(a.address), bytes |-> bytes])
      BY <2>2 DEF mem_writeString
    <3>2. text # Throw => text.v = a.text.v
      BY DEF checkstring, Ok
    <3> HIDE DEF text
    <3>3. bytes # Throw => text.v \in Nat /\ text.v < k /\ bytes.v = text.v + 1
      BY <2>2, <3>2, SMT DEF Ok, k, kMaxLuaMemoryTransferSize
    <3> HIDE DEF bytes
    <3>4. call.op = "writeMemory" /\ bytes # Throw /\ call.args.bytes = bytes.v
      BY <3>1 DEF Call, Refused
    <3> QED BY <1>0, <3>3, <3>4
  <2> QED BY <2>1, <2>2
<1>2. call.args.bytes \in 1..kMaxMemoryWriteBytes
  BY <1>0, <1>1
<1>3. ServiceAccepts(call)
  BY <1>1, <1>2 DEF ServiceAccepts
<1> QED BY <1>1, <1>3 DEF LuaFaithful

\* bp.set: the type and the size the script named.
LEMMA LuaBreakpoints ==
    ASSUME NEW a
    PROVE  LuaFaithful(bp_set(a), a)
<1> DEFINE call == bp_set(a)
<1> SUFFICES ASSUME call # Refused PROVE LuaFaithful(call, a)
  BY DEF LuaFaithful, Refused
<1> DEFINE access == AccessOf(a.bp_type)
           size == checkBreakpointSize(a.bp_size, 4)
<1>1. /\ call.op = "setBreakpoint" /\ access # Throw /\ size # Throw
      /\ call.args.access = access.v
      /\ call.args.size = (IF access = Ok(4) THEN Ok(4) ELSE size).v
  BY DEF bp_set, Call, Refused
<1>2. access = Ok(access.v) /\ access.v \in 1..4
  BY <1>1 DEF AccessOf, Ok
<1>3. size.v \in {1, 2, 4, 8} /\ (a.bp_size.t = "int" => size.v = a.bp_size.v)
  BY <1>1 DEF checkBreakpointSize, optinteger, checkinteger, Numeric, Ok
<1> HIDE DEF access, size, call
<1>4. call.args.size \in {1, 2, 4, 8}
  BY <1>1, <1>3 DEF Ok
<1>5. access = Ok(4) <=> access.v = 4
  BY <1>2 DEF Ok
<1>6. ServiceAccepts(call)
  BY <1>1, <1>2, <1>4 DEF ServiceAccepts
<1>7. Ok(call.args.access) = AccessOf(a.bp_type)
  BY <1>1, <1>2 DEF access
<1>8. a.bp_size.t = "int" /\ call.args.access # 4 => call.args.size = a.bp_size.v
  BY <1>1, <1>3, <1>5
<1> QED BY <1>1, <1>6, <1>7, <1>8 DEF LuaFaithful

\* An integer in a range is in that range.
LEMMA LuaRange ==
    ASSUME NEW j, NEW min, NEW max, checkIntegerRange(j, min, max) # Throw
    PROVE  checkIntegerRange(j, min, max).v \in min..max
BY DEF checkIntegerRange, Ok

\* uxn.wait, uxn.resume and uxn.status.
LEMMA LuaUxn ==
    ASSUME NEW a, NEW call,
           (call = uxn_wait_lua(a) /\ a.remaining \in Int) \/ call \in {uxn_resume_lua(a), uxn_status_lua(a)}
    PROVE  LuaFaithful(call, a)
<1> SUFFICES ASSUME call # Refused PROVE LuaFaithful(call, a)
  BY DEF LuaFaithful, Refused
<1> DEFINE slot == checkUxnSlot(a.slot)
<1>1. slot # Throw => slot.v \in 0..(kMaxUxnSlots - 1)
  BY LuaRange DEF checkUxnSlot
<1>2. CASE call = uxn_wait_lua(a) /\ a.remaining \in Int
  <2> DEFINE timeout == checkUxnWaitTimeout(a.timeout_ms)
             last == IF a.last_sequence.t = "absent" THEN Ok(0) ELSE CheckAddress(a.last_sequence)
  <2>1. /\ ~(timeout.v > a.remaining)
        /\ call = Call("waitUxnBreakpoint", TRUE, [slot |-> slot, timeoutMs |-> timeout, lastSequence |-> last])
    BY <1>2 DEF uxn_wait_lua
  <2>2. timeout # Throw => timeout.v \in 1..kMaxUxnWaitTimeoutMs
    <3>1. kMaxUxnWaitTimeoutMs \in Int /\ 1000 <= kMaxUxnWaitTimeoutMs
      BY SMT DEF kMaxUxnWaitTimeoutMs
    <3>2. timeout = Ok(1000) \/ timeout = checkIntegerRange(a.timeout_ms, 1, kMaxUxnWaitTimeoutMs)
      BY DEF checkUxnWaitTimeout
    <3> HIDE DEF timeout
    <3> QED BY <3>1, <3>2, LuaRange DEF Ok
  <2> HIDE DEF slot, timeout, last
  <2>3. /\ call.op = "waitUxnBreakpoint" /\ slot # Throw /\ timeout # Throw
        /\ call.args.slot = slot.v /\ call.args.timeoutMs = timeout.v
    BY <2>1 DEF Call, Refused
  <2>4. ServiceAccepts(call)
    BY <1>1, <2>2, <2>3 DEF ServiceAccepts
  <2>5. timeout.v <= a.remaining
    <3>1. kMaxUxnWaitTimeoutMs \in Int
      BY SMT DEF kMaxUxnWaitTimeoutMs
    <3> QED BY <1>2, <2>1, <2>2, <2>3, <3>1
  <2> QED BY <2>3, <2>4, <2>5 DEF LuaFaithful
<1>3. CASE call \in {uxn_resume_lua(a), uxn_status_lua(a)}
  <2>1. /\ call.op \in {"resumeUxnBreakpoint", "queryUxnBreakpointStatus"}
        /\ slot # Throw /\ call.args.slot = slot.v
    <3>1. CASE call = uxn_resume_lua(a)
      BY <3>1 DEF uxn_resume_lua, Call, Refused
    <3>2. CASE call = uxn_status_lua(a)
      BY <3>2 DEF uxn_status_lua, Call, Refused
    <3> QED BY <1>3, <3>1, <3>2
  <2> HIDE DEF slot
  <2>2. ServiceAccepts(call)
    BY <1>1, <2>1 DEF ServiceAccepts
  <2> QED BY <2>1, <2>2 DEF LuaFaithful
<1> QED BY <1>2, <1>3

\* The functions left.
LEMMA LuaOthers ==
    ASSUME NEW a, NEW call,
           call \in {mem_readBatch(a), module_list(a), module_getBase(a), module_resolveOffsetChain(a),
                     bp_remove(a), bp_suspend(a), bp_resume(a), bp_getInfo(a), uxn_install_lua(a),
                     uxn_remove_lua(a), uxn_clear_lua(a), Refused}
    PROVE  LuaFaithful(call, a)
<1>1. CASE call \in {mem_readBatch(a), module_getBase(a), module_resolveOffsetChain(a)}
  <2>1. call.op \in {"readMemoryBatch", "resolveModule", "resolvePointer", "refused"}
        /\ (call.op = "refused" => call = Refused)
    <3>1. CASE call = mem_readBatch(a)
      BY <3>1 DEF mem_readBatch, Call, Refused
    <3>2. CASE call = module_getBase(a)
      BY <3>2 DEF module_getBase, Call, Refused
    <3>3. CASE call = module_resolveOffsetChain(a)
      BY <3>3 DEF module_resolveOffsetChain, Call, Refused
    <3> QED BY <1>1, <3>1, <3>2, <3>3
  <2> QED BY <2>1 DEF LuaFaithful
<1>2. CASE call = module_list(a)
  <2> DEFINE k == kMaxModulePageSize
  <2>1. call.op = "listModules" /\ call.args.limit = k /\ call.args.filter = 0
    BY <1>2 DEF module_list, Call, Ok, Throw
  <2>2. k \in 1..k /\ 0 <= kMaxTextBytes
    BY SMT DEF kMaxModulePageSize, kMaxTextBytes
  <2>3. ServiceAccepts(call)
    BY <2>1, <2>2 DEF ServiceAccepts
  <2> QED BY <2>1, <2>3 DEF LuaFaithful
<1>3. CASE call \in {bp_remove(a), bp_suspend(a), bp_resume(a), bp_getInfo(a), uxn_install_lua(a),
                     uxn_remove_lua(a), uxn_clear_lua(a), Refused}
  <2>1. call.op \in {"refused", "removeBreakpoint", "suspendBreakpoint", "resumeBreakpoint", "breakpointHits",
                     "installUxnBreakpoint", "removeUxnBreakpoint", "clearUxnBreakpoints"}
    BY <1>3 DEF bp_remove, bp_suspend, bp_resume, bp_getInfo, uxn_install_lua, uxn_remove_lua,
                uxn_clear_lua, Call, Refused
  <2>2. ServiceAccepts(call)
    BY <2>1, Undemanding
  <2> QED BY <2>1, <2>2 DEF LuaFaithful
<1> QED BY <1>1, <1>2, <1>3

\* A script gets no operation the service would refuse, and waits no longer
\* than it may run.
LEMMA ScriptsAreFaithful ==
    ASSUME NEW f, NEW a, f = "mem.writeString" => a.text.v \in Nat, f = "uxn.wait" => a.remaining \in Int
    PROVE  LuaFaithful(LuaFunction(f, a), a)
<1> DEFINE call == LuaFunction(f, a)
<1>1. CASE f \in {"mem.read", "mem.readString"}
  <2>1. call \in {mem_read(a), mem_readString(a)}
    BY <1>1, SMT DEF LuaFunction
  <2> QED BY <2>1, LuaReads
<1>2. CASE f \in {"mem.write", "mem.writeString"}
  <2>1. call = mem_write(a) \/ (call = mem_writeString(a) /\ a.text.v \in Nat)
    <3>1. LuaFunction("mem.write", a) = mem_write(a) /\ LuaFunction("mem.writeString", a) = mem_writeString(a)
      BY SMT DEF LuaFunction
    <3> QED BY <1>2, <3>1
  <2> QED BY <2>1, LuaWrites
<1>3. CASE f = "bp.set"
  <2>1. call = bp_set(a)
    BY <1>3, SMT DEF LuaFunction
  <2> QED BY <2>1, LuaBreakpoints
<1>4. CASE f \in {"uxn.wait", "uxn.resume", "uxn.status"}
  <2>1. (call = uxn_wait_lua(a) /\ a.remaining \in Int) \/ call \in {uxn_resume_lua(a), uxn_status_lua(a)}
    BY <1>4, SMT DEF LuaFunction
  <2> QED BY <2>1, LuaUxn
<1>5. CASE f \notin {"mem.read", "mem.readString", "mem.write", "mem.writeString", "bp.set",
                     "uxn.wait", "uxn.resume", "uxn.status"}
  <2>1. call \in {mem_readBatch(a), module_list(a), module_getBase(a), module_resolveOffsetChain(a),
                  bp_remove(a), bp_suspend(a), bp_resume(a), bp_getInfo(a), uxn_install_lua(a),
                  uxn_remove_lua(a), uxn_clear_lua(a), Refused}
    BY <1>5, SMT DEF LuaFunction
  <2> QED BY <2>1, LuaOthers
<1> QED BY <1>1, <1>2, <1>3, <1>4, <1>5

\* Where a call asks for something.
LuaPlaced(call, a) ==
    /\ "address" \in DOMAIN call.args /\ ExactAsDouble(a.address) =>
           Stands(call.args["address"], a.address)
    /\ "slot" \in DOMAIN call.args => Stands(call.args["slot"], a.slot)

\* A number that a script gave stands for itself.
LEMMA LuaStands ==
    ASSUME NEW j, j.v \in Int
    PROVE  /\ CheckAddress(j) # Throw /\ ExactAsDouble(j) => Stands(CheckAddress(j).v, j)
           /\ checkUxnSlot(j) # Throw => Stands(checkUxnSlot(j).v, j)
<1>1. CheckAddress(j) # Throw /\ ExactAsDouble(j) => Stands(CheckAddress(j).v, j)
  <2>1. CASE j.t = "float"
    BY <2>1 DEF CheckAddress, Truncated, Stands, Ok
  <2>2. CASE j.t \in {"numeral", "padded"}
    <3> DEFINE r == Rounded(j.v)
    <3>1. /\ ExactAsDouble(j) => r = j.v
          /\ CheckAddress(j) # Throw => CheckAddress(j) = Ok(r)
      BY <2>2 DEF ExactAsDouble, CheckAddress
    <3> HIDE DEF r
    <3> QED BY <2>2, <3>1 DEF Stands, Ok
  <2>3. CASE j.t \notin {"float", "numeral", "padded"}
    BY <2>3 DEF CheckAddress, Stands, Ok
  <2> QED BY <2>1, <2>2, <2>3
<1>2. ASSUME checkUxnSlot(j) # Throw PROVE Stands(checkUxnSlot(j).v, j)
  <2>1. checkUxnSlot(j) = checkinteger(j) /\ checkinteger(j) # Throw /\ checkinteger(j).v \in 0..(kMaxUxnSlots - 1)
    BY <1>2 DEF checkUxnSlot, checkIntegerRange
  <2>2. kMaxUxnSlots \in Int
    BY SMT DEF kMaxUxnSlots
  <2>3. checkinteger(j).v >= 0
    BY <2>1, <2>2
  <2>4. CASE j.t = "float"
    BY <2>1, <2>3, <2>4 DEF checkinteger, Truncated, Stands, Ok
  <2>5. CASE j.t # "float"
    BY <2>1, <2>5 DEF checkinteger, Stands, Ok
  <2> QED BY <2>4, <2>5
<1> QED BY <1>1, <1>2

\* The arguments that say where are read from those of the script.
LuaPoints(args, a) ==
    /\ "address" \in DOMAIN args => a.address.v \in Int /\ args["address"] = CheckAddress(a.address)
    /\ "slot" \in DOMAIN args => a.slot.v \in Int /\ args["slot"] = checkUxnSlot(a.slot)

\* Such a call is placed where the script said.
LEMMA LuaCallPlaced ==
    ASSUME NEW a, NEW op, NEW target, NEW args, NEW call, call = Call(op, target, args), LuaPoints(args, a)
    PROVE  LuaPlaced(call, a)
<1>1. CASE call = Refused
  BY <1>1, RefusedNames DEF LuaPlaced
<1>2. CASE call # Refused
  <2>1. /\ DOMAIN call.args = DOMAIN args
        /\ \A x \in DOMAIN args : args[x] # Throw /\ call.args[x] = args[x].v
    BY <1>2, CallArgs
  <2>2. "address" \in DOMAIN args /\ ExactAsDouble(a.address) => Stands(call.args["address"], a.address)
    BY <2>1, LuaStands DEF LuaPoints
  <2>3. "slot" \in DOMAIN args => Stands(call.args["slot"], a.slot)
    BY <2>1, LuaStands DEF LuaPoints
  <2> QED BY <2>1, <2>2, <2>3 DEF LuaPlaced
<1> QED BY <1>1, <1>2

\* Every function a script may call.
LEMMA ScriptsArePlaced ==
    ASSUME NEW f, NEW a, f \in AddressFunctions => a.address.v \in Int, f \in SlotFunctions => a.slot.v \in Int
    PROVE  LuaPlaced(LuaFunction(f, a), a)
<1> DEFINE call == LuaFunction(f, a)
           P(c) == LuaPlaced(c, a)
           A == CheckAddress(a.address)
           S == checkUxnSlot(a.slot)
<1>1. P(Refused)
  BY RefusedNames DEF LuaPlaced
<1>2. ASSUME NEW op, NEW target, NEW args, DOMAIN args \cap {"address", "slot"} = {}
      PROVE  P(Call(op, target, args))
  <2>1. LuaPoints(args, a)
    BY <1>2 DEF LuaPoints
  <2> QED BY <2>1, LuaCallPlaced
<1>3. ASSUME f \in AddressFunctions, NEW op, NEW x, NEW y
      PROVE  /\ P(Call(op, TRUE, [address |-> A])) /\ P(Call(op, TRUE, [address |-> A, size |-> x]))
             /\ P(Call(op, TRUE, [address |-> A, bytes |-> x]))
             /\ P(Call(op, TRUE, [address |-> A, access |-> x, size |-> y]))
  <2> HIDE DEF A
  <2>1. ASSUME NEW args, args \in {[address |-> A], [address |-> A, size |-> x], [address |-> A, bytes |-> x],
                                   [address |-> A, access |-> x, size |-> y]}
        PROVE  P(Call(op, TRUE, args))
    <3>1. "address" \in DOMAIN args /\ args["address"] = A /\ "slot" \notin DOMAIN args
      BY <2>1
    <3>2. LuaPoints(args, a)
      BY <1>3, <3>1 DEF LuaPoints, A
    <3> QED BY <3>2, LuaCallPlaced
  <2> HIDE DEF P
  <2> QED BY <2>1
<1>4. ASSUME f \in SlotFunctions, NEW op, NEW x, NEW y
      PROVE  /\ P(Call(op, TRUE, [slot |-> S])) /\ P(Call(op, TRUE, [slot |-> S, registers |-> x]))
             /\ P(Call(op, TRUE, [slot |-> S, timeoutMs |-> x, lastSequence |-> y]))
  <2> HIDE DEF S
  <2>1. ASSUME NEW args, args \in {[slot |-> S], [slot |-> S, registers |-> x],
                                   [slot |-> S, timeoutMs |-> x, lastSequence |-> y]}
        PROVE  P(Call(op, TRUE, args))
    <3>1. "slot" \in DOMAIN args /\ args["slot"] = S /\ "address" \notin DOMAIN args
      BY <2>1
    <3>2. LuaPoints(args, a)
      BY <1>4, <3>1 DEF LuaPoints, S
    <3> QED BY <3>2, LuaCallPlaced
  <2> HIDE DEF P
  <2> QED BY <2>1
<1> HIDE DEF P
<1>5. CASE f \in AddressFunctions
  <2> DEFINE text == checkstring(a.text)
             size == checkBreakpointSize(a.bp_size, 4)
             access == AccessOf(a.bp_type)
  <2>1. P(mem_read(a)) /\ P(mem_readString(a))
    <3> DEFINE x == checkSize(a.size, 0)
               y == checkSize(a.size, 256)
    <3>1. /\ mem_read(a) = Call("readMemory", TRUE, [address |-> A, size |-> x])
          /\ mem_readString(a) = Call("readMemory", TRUE, [address |-> A, size |-> y])
      BY Zenon DEF mem_read, mem_readString
    <3> HIDE DEF A, x, y
    <3> QED BY <1>3, <1>5, <3>1, Zenon DEF A
  <2>2. P(mem_write(a))
    <3>1. PICK x : mem_write(a) = Call("writeMemory", TRUE, [address |-> A, bytes |-> x])
      BY DEF mem_write
    <3> HIDE DEF A
    <3> QED BY <1>3, <1>5, <3>1, Zenon DEF A
  <2>3. P(mem_writeString(a))
    <3> DEFINE x == IF text # Throw /\ text.v < 65536 THEN Ok(text.v + 1) ELSE Throw
    <3>1. mem_writeString(a) = Call("writeMemory", TRUE, [address |-> A, bytes |-> x])
      BY DEF mem_writeString
    <3> HIDE DEF A, x
    <3> QED BY <1>3, <1>5, <3>1, Zenon DEF A
  <2>4. P(bp_set(a))
    <3> DEFINE y == IF access = Ok(4) THEN Ok(4) ELSE size
    <3>1. bp_set(a) \in {Refused, Call("setBreakpoint", TRUE, [address |-> A, access |-> access, size |-> y])}
      BY DEF bp_set
    <3> HIDE DEF A, y, access
    <3> QED BY <1>1, <1>3, <1>5, <3>1 DEF A
  <2>5. /\ P(bp_remove(a)) /\ P(bp_suspend(a)) /\ P(bp_resume(a)) /\ P(bp_getInfo(a))
        /\ P(uxn_install_lua(a)) /\ P(uxn_remove_lua(a))
    BY <1>3, <1>5, Zenon DEF bp_remove, bp_suspend, bp_resume, bp_getInfo, uxn_install_lua, uxn_remove_lua
  <2>6. call \in {mem_read(a), mem_readString(a), mem_write(a), mem_writeString(a), bp_set(a), bp_remove(a),
                  bp_suspend(a), bp_resume(a), bp_getInfo(a), uxn_install_lua(a), uxn_remove_lua(a)}
    BY <1>5, SMT DEF LuaFunction, AddressFunctions
  <2> HIDE DEF call
  <2>7. P(call)
    BY <2>1, <2>2, <2>3, <2>4, <2>5, <2>6
  <2> QED BY <2>7 DEF P, call
<1>6. CASE f \in SlotFunctions
  <2>1. P(uxn_wait_lua(a))
    <3> DEFINE x == checkUxnWaitTimeout(a.timeout_ms)
               y == IF a.last_sequence.t = "absent" THEN Ok(0) ELSE CheckAddress(a.last_sequence)
    <3>1. uxn_wait_lua(a) \in {Refused, Call("waitUxnBreakpoint", TRUE,
                                             [slot |-> S, timeoutMs |-> x, lastSequence |-> y])}
      BY DEF uxn_wait_lua
    <3> HIDE DEF S, x, y
    <3> QED BY <1>1, <1>4, <1>6, <3>1 DEF S
  <2>2. P(uxn_resume_lua(a)) /\ P(uxn_status_lua(a))
    BY <1>4, <1>6, Zenon DEF uxn_resume_lua, uxn_status_lua
  <2>3. call \in {uxn_wait_lua(a), uxn_resume_lua(a), uxn_status_lua(a)}
    BY <1>6, SMT DEF LuaFunction, SlotFunctions
  <2> HIDE DEF call
  <2>4. P(call)
    BY <2>1, <2>2, <2>3
  <2> QED BY <2>4 DEF P, call
<1>7. CASE f \notin AddressFunctions \cup SlotFunctions
  <2>1. P(mem_readBatch(a))
    <3>1. PICK x, y : mem_readBatch(a) \in {Refused, Call("readMemoryBatch", TRUE, [count |-> x, bytes |-> y])}
      BY DEF mem_readBatch
    <3>2. DOMAIN [count |-> x, bytes |-> y] \cap {"address", "slot"} = {}
      OBVIOUS
    <3> QED BY <1>1, <1>2, <3>1, <3>2
  <2>2. P(module_list(a)) /\ P(module_getBase(a)) /\ P(uxn_clear_lua(a))
    <3> DEFINE x == checkstring(a.name)
               all == [filter |-> Ok(0), offset |-> Ok(0), limit |-> Ok(kMaxModulePageSize)]
    <3>1. /\ module_list(a) = Call("listModules", TRUE, all)
          /\ module_getBase(a) = Call("resolveModule", TRUE, [name |-> x])
          /\ uxn_clear_lua(a) = Call("clearUxnBreakpoints", FALSE, <<>>)
      BY Zenon DEF module_list, module_getBase, uxn_clear_lua
    <3> HIDE DEF x
    <3>2. /\ DOMAIN all \cap {"address", "slot"} = {}
          /\ DOMAIN [name |-> x] \cap {"address", "slot"} = {}
          /\ DOMAIN <<>> \cap {"address", "slot"} = {}
      OBVIOUS
    <3> HIDE DEF all
    <3> QED BY <1>2, <3>1, <3>2
  <2>3. P(module_resolveOffsetChain(a))
    <3>1. PICK x, y : module_resolveOffsetChain(a) = Call("resolvePointer", TRUE, [name |-> x, offsets |-> y])
      BY DEF module_resolveOffsetChain
    <3>2. DOMAIN [name |-> x, offsets |-> y] \cap {"address", "slot"} = {}
      OBVIOUS
    <3> QED BY <1>2, <3>1, <3>2
  <2>4. call \in {mem_readBatch(a), module_list(a), module_getBase(a), module_resolveOffsetChain(a),
                  uxn_clear_lua(a), Refused}
    BY <1>7, SMT DEF LuaFunction, AddressFunctions, SlotFunctions
  <2> HIDE DEF call
  <2>5. P(call)
    BY <1>1, <2>1, <2>2, <2>3, <2>4
  <2> QED BY <2>5 DEF P, call
<1> QED BY <1>5, <1>6, <1>7

-----------------------------------------------------------------------------
(* Tools of the bridge.                                                     *)

\* Nothing in a request is written in Python's own way, blank or too long.
PlainParams(params) ==
    \A f \in DOMAIN params :
        /\ params[f].t # "python"
        /\ f \in DOMAIN Longest => params[f].v <= Longest[f]
        /\ f = "code" => params[f].t # "blank"

\* That is, of each field.
LEMMA PlainFields ==
    ASSUME NEW p, PlainParams(p)
    PROVE  /\ \A f \in DOMAIN p : p[f].t # "python"
           /\ "code" \in DOMAIN p => p.code.t # "blank" /\ p.code.v <= kMaxIpcLuaCodeBytes
           /\ "filter" \in DOMAIN p => p.filter.v <= kMaxIpcStringParamBytes
           /\ "name" \in DOMAIN p => p.name.v <= kMaxIpcStringParamBytes
           /\ "module" \in DOMAIN p => p.module.v <= kMaxIpcStringParamBytes
           /\ "hex" \in DOMAIN p => p.hex.v <= kMaxIpcMemoryTransferBytes
           /\ "pid" \in DOMAIN p => p.pid.v <= INT_MAX
<1>1. /\ DOMAIN Longest = {"filter", "name", "module", "code", "hex", "pid"}
      /\ Longest["filter"] = kMaxIpcStringParamBytes /\ Longest["name"] = kMaxIpcStringParamBytes
      /\ Longest["module"] = kMaxIpcStringParamBytes /\ Longest["code"] = kMaxIpcLuaCodeBytes
      /\ Longest["hex"] = kMaxIpcMemoryTransferBytes /\ Longest["pid"] = INT_MAX
  BY DEF Longest
<1> QED BY <1>1 DEF PlainParams

\* What RequestsAreFaithful says of a request sent on behalf of a.
ToolFaithful(sent, a) ==
    LET call == Route(sent.method, sent.params)
    IN  /\ call # Refused => Valued(call, a)
        /\ sent # Raised /\ PlainParams(sent.params) => call # Refused

\* A tool that raises has asked for nothing.
LEMMA NothingSent ==
    ASSUME NEW a
    PROVE  ToolFaithful(Raised, a)
<1>1. Route(Raised.method, Raised.params) = Refused
  BY DEF Route, Raised
<1> QED BY <1>1 DEF ToolFaithful

\* A request is raised, or sent when everything checked was good.
LEMMA Sends ==
    ASSUME NEW method, NEW checked, NEW params
    PROVE  \/ Send(method, checked, params) = Raised
           \/ /\ Throw \notin checked
              /\ Send(method, checked, params).method = method /\ Send(method, checked, params).params = params
BY DEF Send

\* The service's demands do not depend on who asks; the values do.
LEMMA OnBehalf ==
    ASSUME NEW call, NEW p, NEW a, Valued(call, p),
           call.op \notin {"setBreakpoint", "writeMemory", "waitUxnBreakpoint"}
    PROVE  Valued(call, a)
BY DEF Valued

\* A request that is faithful to what was sent and let through if plain.
LEMMA SentFaithful ==
    ASSUME NEW sent, NEW a, NEW m, NEW p, NEW call, call = Route(m, p),
           sent.method = m, sent.params = p, Fields(m, p),
           call.op \notin {"setBreakpoint", "writeMemory", "waitUxnBreakpoint"},
           PlainParams(p) => call # Refused
    PROVE  ToolFaithful(sent, a)
<1>1. call # Refused => Valued(call, p)
  BY RoutesAreFaithful
<1>2. call # Refused => Valued(call, a)
  BY <1>1, OnBehalf
<1> QED BY <1>2 DEF ToolFaithful

\* read_memory and read_value.
LEMMA ReadTools ==
    ASSUME NEW a, NEW sent,
           (sent = read_memory_tool(a) /\ a.size.v \in Int) \/ sent = read_value(a)
    PROVE  ToolFaithful(sent, a)
<1> SUFFICES ASSUME sent # Raised PROVE ToolFaithful(sent, a)
  BY NothingSent
<1>1. PICK n \in Int : /\ 0 < n /\ parse_int(a.address) # Throw /\ sent.method = "read_memory"
                       /\ sent.params = [address |-> a.address, size |-> Number(n)]
  <2>1. CASE sent = read_memory_tool(a) /\ a.size.v \in Int
    <3> DEFINE size == parse_positive_int(Default(a.size, 256), 65536)
    <3>1. /\ parse_int(a.address) # Throw /\ size # Throw /\ sent.method = "read_memory"
          /\ sent.params = [address |-> a.address, size |-> Number(size.v)]
      <4> HIDE DEF size
      <4>1. sent = Send("read_memory", {parse_int(a.address), size},
                        [address |-> a.address, size |-> Number(size.v)])
        BY <2>1 DEF read_memory_tool, size
      <4> QED BY <4>1, Sends
    <3>2. Default(a.size, 256).v \in Int
      BY <2>1 DEF Default, Number
    <3>3. size.v \in Int /\ 0 < size.v
      BY <3>1, <3>2 DEF parse_positive_int, Least, Ok
    <3> QED BY <3>1, <3>3
  <2>2. CASE sent = read_value(a)
    <3>1. a.data_type \in {"byte", "word", "dword", "qword", "float", "double", "xor"}
      BY <2>2 DEF read_value, DATA_TYPE_SIZE
    <3> DEFINE n == DATA_TYPE_SIZE[a.data_type]
    <3>2. n \in Int /\ 0 < n
      BY <3>1 DEF DATA_TYPE_SIZE
    <3>3. sent = Send("read_memory", {parse_int(a.address)}, [address |-> a.address, size |-> Number(n)])
      BY <2>2 DEF read_value
    <3> HIDE DEF n
    <3>4. /\ parse_int(a.address) # Throw /\ sent.method = "read_memory"
          /\ sent.params = [address |-> a.address, size |-> Number(n)]
      BY <3>3, Sends
    <3> QED BY <3>2, <3>4
  <2> QED BY <2>1, <2>2
<1> DEFINE p == [address |-> a.address, size |-> Number(n)]
           call == read_memory(p)
<1>2. Route("read_memory", p) = call
  BY DEF Route
<1>3. call.op \in {"readMemory", "refused"}
  BY DEF read_memory, Call, Refused
<1>4. Fields("read_memory", p)
  BY DEF Fields, Number
<1>5. ASSUME PlainParams(p) PROVE call # Refused
  <2>1. a.address.t # "python"
    BY <1>5, PlainFields
  <2>2. ParseAddress(p.address) # Throw
    BY <1>1, <2>1 DEF parse_int, ParseAddress, Ok, Throw
  <2>3. getPositiveSizeParam(p.size, 256, kMaxIpcMemoryTransferBytes) # Throw
    BY <1>1 DEF getPositiveSizeParam, Number, Ok, Throw
  <2> QED BY <2>2, <2>3 DEF read_memory, Call, Refused
<1> HIDE DEF p, call
<1> QED BY <1>1, <1>2, <1>3, <1>4, <1>5, SentFaithful DEF p

\* An address the bridge could read is one the server reads.
LEMMA SentAddress ==
    ASSUME NEW j, parse_int(j) # Throw, j.t # "python"
    PROVE  ParseAddress(j) # Throw
BY DEF parse_int, ParseAddress, Ok, Throw

\* Nor is a text that is not too long.
LEMMA SentText ==
    ASSUME NEW j, NEW max, j.t = "text", j.v <= max
    PROVE  getStringParam(j, TRUE, FALSE, max) # Throw
BY DEF getStringParam, Ok, Throw

\* write_bytes: the bytes the caller gave.
LEMMA WriteTool ==
    ASSUME NEW a, a.hex.v \in Int
    PROVE  ToolFaithful(write_bytes(a), a)
<1> DEFINE sent == write_bytes(a)
           p == [address |-> a.address, hex |-> a.hex]
           call == write_memory(p)
<1> SUFFICES ASSUME sent # Raised PROVE ToolFaithful(sent, a)
  BY NothingSent
<1>1. /\ parse_int(a.address) # Throw /\ clean_hex_string(a.hex) # Throw
      /\ sent.method = "write_memory" /\ sent.params = p
  BY Sends DEF write_bytes
<1>2. Route("write_memory", p) = call
  BY DEF Route
<1>3. call # Refused => Valued(call, a)
  <2> SUFFICES ASSUME call # Refused PROVE Valued(call, a)
    OBVIOUS
  <2>1. Valued(call, p)
    BY MemoryRoutes
  <2>2. call.op = "writeMemory" /\ call.args.bytes = HexToBytes(p.hex).v /\ HexToBytes(p.hex) # Throw
    BY DEF write_memory, Call, Refused
  <2>3. call.args.bytes = a.hex.v
    BY <2>2 DEF HexToBytes, Ok
  <2> HIDE DEF call, p
  <2> QED BY <2>1, <2>2, <2>3 DEF Valued
<1>4. ASSUME PlainParams(p) PROVE call # Refused
  <2>1. a.address.t # "python" /\ a.hex.v <= kMaxIpcMemoryTransferBytes
    BY <1>4, PlainFields
  <2>2. a.hex.t = "hex" /\ a.hex.v > 0
    BY <1>1 DEF clean_hex_string
  <2>3. /\ HexToBytes(p.hex) # Throw /\ HexToBytes(p.hex).v = a.hex.v
        /\ 1 <= a.hex.v /\ a.hex.v <= kMaxIpcMemoryTransferBytes
    BY <2>1, <2>2, SMT
       DEF HexToBytes, Ok, Throw, kMaxIpcMemoryTransferBytes, kMaxRequestBytes
  <2>4. HexToBytes(p.hex).v \in 1..kMaxIpcMemoryTransferBytes
    <3>1. kMaxIpcMemoryTransferBytes \in Int
      BY DEF kMaxIpcMemoryTransferBytes
    <3> QED BY <2>3, <3>1
  <2>5. ParseAddress(p.address) # Throw
    BY <1>1, <2>1, SentAddress
  <2> QED BY <2>3, <2>4, <2>5 DEF write_memory, Call, Refused
<1> HIDE DEF sent, p, call
<1> QED BY <1>1, <1>2, <1>3, <1>4 DEF ToolFaithful

\* open_process and get_module_base.
LEMMA ProcessTools ==
    ASSUME NEW a
    PROVE  /\ a.pid.v \in Int => ToolFaithful(open_process_tool(a), a)
           /\ Named(a.name) => ToolFaithful(get_module_base_tool(a), a)
<1>1. ASSUME a.pid.v \in Int PROVE ToolFaithful(open_process_tool(a), a)
  <2> DEFINE sent == open_process_tool(a)
             p == [pid |-> Number(a.pid.v)]
             call == open_process(p)
  <2> SUFFICES ASSUME sent # Raised PROVE ToolFaithful(sent, a)
    BY NothingSent
  <2>1. /\ parse_int(a.pid) # Throw /\ parse_int(a.pid) # Ok(0)
        /\ sent.method = "open_process" /\ sent.params = p
    BY Sends DEF open_process_tool
  <2>2. Route("open_process", p) = call
    BY DEF Route
  <2>3. call.op \in {"openProcess", "refused"}
    BY DEF open_process, Call, Refused
  <2>4. Fields("open_process", p)
    BY DEF Fields
  <2>5. ASSUME PlainParams(p) PROVE call # Refused
    <3>1. a.pid.v <= INT_MAX
      BY <2>5, PlainFields DEF Number
    <3>2. a.pid.v > 0
      BY <1>1, <2>1 DEF parse_int
    <3>3. a.pid.v <= INT_MAX /\ INT_MAX \in Int
      BY <3>1, SMT DEF INT_MAX
    <3>4. a.pid.v \in 1..INT_MAX
      BY <1>1, <3>2, <3>3
    <3>5. getRequiredPositiveIntParam(p.pid) # Throw
      BY <3>4 DEF getRequiredPositiveIntParam, Number, Ok, Throw
    <3> QED BY <3>5 DEF open_process, Call, Refused
  <2> HIDE DEF p, call, sent
  <2> QED BY <2>1, <2>2, <2>3, <2>4, <2>5, SentFaithful
<1>2. ASSUME Named(a.name) PROVE ToolFaithful(get_module_base_tool(a), a)
  <2> DEFINE sent == get_module_base_tool(a)
             p == [name |-> [t |-> "text", v |-> a.name.v]]
             call == get_module_base(p)
  <2> SUFFICES ASSUME sent # Raised PROVE ToolFaithful(sent, a)
    BY NothingSent
  <2>1. _require_so_name(a.name) # Throw /\ sent.method = "get_module_base" /\ sent.params = p
    BY Sends DEF get_module_base_tool
  <2>2. Route("get_module_base", p) = call
    BY DEF Route
  <2>3. call.op \in {"resolveModule", "refused"}
    BY DEF get_module_base, Call, Refused
  <2>4. Fields("get_module_base", p)
    BY <1>2, <2>1 DEF Fields, Named, _require_so_name
  <2>5. ASSUME PlainParams(p) PROVE call # Refused
    <3>1. a.name.v <= kMaxIpcStringParamBytes
      BY <2>5, PlainFields
    <3>2. getStringParam(p.name, TRUE, FALSE, kMaxIpcStringParamBytes) # Throw
      <4>1. p.name.t = "text" /\ p.name.v <= kMaxIpcStringParamBytes
        BY <3>1
      <4> HIDE DEF p
      <4> QED BY <4>1, SentText
    <3> DEFINE name == getStringParam(p.name, TRUE, FALSE, kMaxIpcStringParamBytes)
    <3>3. name # Throw /\ call = Call("resolveModule", TRUE, [name |-> name])
      BY <3>2 DEF get_module_base
    <3> HIDE DEF name, call
    <3> QED BY <3>3 DEF Call, Refused
  <2> HIDE DEF p, call, sent
  <2> QED BY <2>1, <2>2, <2>3, <2>4, <2>5, SentFaithful
<1> QED BY <1>1, <1>2

\* Pages: the bridge caps what the server would cap.
LEMMA PageTools ==
    ASSUME NEW a, a.offset.v \in Int, a.count.v \in Int
    PROVE  /\ a.filter.t \in {"blank", "text"} => ToolFaithful(list_modules_tool(a), a)
           /\ ToolFaithful(symbol_list_tool(a), a)
<1>1. ASSUME NEW c \in Int, parse_positive_int(Default(a.count, c), 1000) # Throw
      PROVE  parse_positive_int(Default(a.count, c), 1000).v \in Int
  BY <1>1 DEF parse_positive_int, Default, Number, Least, Ok
<1>2. ASSUME NEW j, NEW default, NEW min, NEW max PROVE getClampedIntParam(Number(j), default, min, max) # Throw
  BY DEF getClampedIntParam, Number, Ok, Throw
<1>3. ASSUME a.filter.t \in {"blank", "text"} PROVE ToolFaithful(list_modules_tool(a), a)
  <2> DEFINE sent == list_modules_tool(a)
             offset == parse_int(Default(a.offset, 0))
             count == parse_positive_int(Default(a.count, 200), 1000)
             filter == IF a.filter = Empty THEN NotGiven ELSE a.filter
             p == [filter |-> filter, offset |-> Number(offset.v), count |-> Number(count.v)]
             call == list_modules(p)
  <2> SUFFICES ASSUME sent # Raised PROVE ToolFaithful(sent, a)
    BY NothingSent
  <2>1. count # Throw /\ sent.method = "list_modules" /\ sent.params = p
    <3>1. sent = Send("list_modules", {offset, count}, p)
      BY DEF list_modules_tool
    <3> HIDE DEF offset, count, p, sent
    <3> QED BY <3>1, Sends
  <2>2. count.v \in Int
    BY <1>1, <2>1
  <2>3. filter.t \in {"absent", "blank", "text"}
    BY <1>3 DEF NotGiven
  <2> HIDE DEF offset, count, filter
  <2>4. Route("list_modules", p) = call
    BY DEF Route
  <2>5. call.op \in {"listModules", "refused"}
    BY DEF list_modules, Call, Refused
  <2>6. Fields("list_modules", p)
    BY <2>2 DEF Fields, Number
  <2>7. ASSUME PlainParams(p) PROVE call # Refused
    <3>1. filter.v <= kMaxIpcStringParamBytes
      BY <2>7, PlainFields
    <3>2. getStringParam(filter, FALSE, TRUE, kMaxIpcStringParamBytes) # Throw
      BY <2>3, <3>1 DEF getStringParam, Ok, Throw
    <3>3. /\ getClampedIntParam(p.offset, 0, 0, INT_MAX) # Throw
          /\ getClampedIntParam(p.count, 200, 1, 1000) # Throw
      BY <1>2
    <3> DEFINE x == getClampedIntParam(p.offset, 0, 0, INT_MAX)
               y == getClampedIntParam(p.count, 200, 1, 1000)
               z == getStringParam(filter, FALSE, TRUE, kMaxIpcStringParamBytes)
    <3>4. call = Call("listModules", TRUE, [filter |-> z, offset |-> x, limit |-> y])
      BY DEF list_modules
    <3>5. x # Throw /\ y # Throw /\ z # Throw
      BY <3>2, <3>3
    <3> HIDE DEF x, y, z, call
    <3> QED BY <3>4, <3>5 DEF Call, Refused
  <2> HIDE DEF p, call, sent
  <2> QED BY <2>1, <2>4, <2>5, <2>6, <2>7, SentFaithful
<1>4. ToolFaithful(symbol_list_tool(a), a)
  <2> DEFINE sent == symbol_list_tool(a)
             offset == parse_int(Default(a.offset, 0))
             count == parse_positive_int(Default(a.count, 100), 1000)
             given == a.module_base \notin {NotGiven, Empty}
             base == IF given THEN a.module_base ELSE NotGiven
             checked == {offset, count} \cup (IF given THEN {parse_int(a.module_base)} ELSE {})
             p == [offset |-> Number(offset.v), count |-> Number(count.v), module_base |-> base]
             call == symbol_list(p)
  <2> SUFFICES ASSUME sent # Raised PROVE ToolFaithful(sent, a)
    BY NothingSent
  <2>1. Throw \notin checked /\ sent.method = "symbol_list" /\ sent.params = p
    <3>1. sent = Send("symbol_list", checked, p)
      BY DEF symbol_list_tool
    <3> HIDE DEF checked, p, sent
    <3> QED BY <3>1, Sends
  <2>2. count # Throw /\ (given => parse_int(a.module_base) # Throw)
    <3> HIDE DEF offset, count, given
    <3> QED BY <2>1
  <2>3. count.v \in Int
    BY <1>1, <2>2
  <2>4. base = NotGiven \/ parse_int(base) # Throw
    BY <2>2
  <2> HIDE DEF offset, count, base, given
  <2>5. Route("symbol_list", p) = call
    BY DEF Route
  <2>6. call.op \in {"legacySymbols", "listSymbols", "refused"}
    BY DEF symbol_list, Call, Refused
  <2>7. Fields("symbol_list", p)
    BY <2>3 DEF Fields, Number
  <2>8. ASSUME PlainParams(p) PROVE call # Refused
    <3> DEFINE x == getClampedIntParam(p.offset, 0, 0, INT_MAX)
               y == getClampedIntParam(p.count, 100, 1, 1000)
    <3>1. x # Throw /\ y # Throw
      BY <1>2
    <3>2. base.t # "python"
      BY <2>8, PlainFields
    <3>3. base.t = "absent" \/ ParseAddress(base) # Throw
      BY <2>4, <3>2, SentAddress DEF NotGiven
    <3> DEFINE legacy == Call("legacySymbols", TRUE, [offset |-> x, limit |-> y])
               listed(j) == Call("listSymbols", TRUE, [base |-> ParseAddress(j), offset |-> x, limit |-> y])
    <3>5. p.module_base = base
      OBVIOUS
    <3>6. \/ call = legacy
          \/ p.module_base.t # "absent" /\ call = listed(p.module_base)
      <4> HIDE DEF p
      <4> QED BY DEF symbol_list
    <3>4. call = legacy \/ (base.t # "absent" /\ call = listed(base))
      <4> HIDE DEF p, call, legacy, listed
      <4> QED BY <3>5, <3>6
    <3> HIDE DEF x, y, call
    <3> QED BY <3>1, <3>3, <3>4 DEF Call, Refused
  <2> HIDE DEF p, call, sent
  <2> QED BY <2>1, <2>5, <2>6, <2>7, <2>8, SentFaithful
<1> QED BY <1>3, <1>4

\* Tools that name an address and nothing else.
LEMMA AddressTools ==
    ASSUME NEW a, NEW sent,
           NEW m \in {"remove_breakpoint", "suspend_breakpoint", "resume_breakpoint", "read_bp_info",
                      "uxn_install", "uxn_remove"},
           sent = Raised \/ ( /\ parse_int(a.address) # Throw
                              /\ sent.method = m /\ sent.params = [address |-> a.address])
    PROVE  ToolFaithful(sent, a)
<1> SUFFICES ASSUME sent # Raised PROVE ToolFaithful(sent, a)
  BY NothingSent
<1> DEFINE p == [address |-> a.address]
           call == Route(m, p)
           address == ParseAddress(p.address)
           op == call.op
<1>1. PICK o \in {"removeBreakpoint", "suspendBreakpoint", "resumeBreakpoint", "breakpointHits",
                  "installUxnBreakpoint", "removeUxnBreakpoint"} : call = Call(o, TRUE, [address |-> address])
  <2> HIDE DEF p
  <2>1. /\ Route("remove_breakpoint", p) = remove_breakpoint(p)
        /\ Route("suspend_breakpoint", p) = suspend_breakpoint(p)
        /\ Route("resume_breakpoint", p) = resume_breakpoint(p)
        /\ Route("read_bp_info", p) = read_bp_info(p)
        /\ Route("uxn_install", p) = uxn_install(p)
        /\ Route("uxn_remove", p) = uxn_remove(p)
    BY DEF Route
  <2> QED BY <2>1 DEF remove_breakpoint, suspend_breakpoint, resume_breakpoint, read_bp_info,
                      uxn_install, uxn_remove
<1> HIDE DEF call, address
<1>2. call.op \in {o, "refused"}
  BY <1>1 DEF Call, Refused
<1>3. Fields(m, p)
  BY DEF Fields
<1>4. ASSUME PlainParams(p) PROVE call # Refused
  <2>1. a.address.t # "python"
    BY <1>4, PlainFields
  <2>2. address # Throw
    BY <2>1, SentAddress DEF address
  <2> QED BY <1>1, <2>2 DEF Call, Refused
<1>5. call.op \notin {"setBreakpoint", "writeMemory", "waitUxnBreakpoint"}
  BY <1>2
<1> HIDE DEF p
<1> QED BY <1>3, <1>4, <1>5, SentFaithful DEF call, p

\* The breakpoint tools that name an address.
LEMMA BreakpointTools ==
    ASSUME NEW a
    PROVE  /\ \A m \in {"remove_breakpoint", "suspend_breakpoint", "resume_breakpoint", "read_bp_info"} :
                  ToolFaithful(breakpoint_tool(m, a), a)
           /\ \A m \in {"uxn_install", "uxn_remove"} : ToolFaithful(uxn_address_tool(m, a), a)
<1>1. ASSUME NEW m \in {"remove_breakpoint", "suspend_breakpoint", "resume_breakpoint", "read_bp_info"}
      PROVE  ToolFaithful(breakpoint_tool(m, a), a)
  <2>1. \/ breakpoint_tool(m, a) = Raised
        \/ /\ parse_int(a.address) # Throw
           /\ breakpoint_tool(m, a).method = m /\ breakpoint_tool(m, a).params = [address |-> a.address]
    BY Sends DEF breakpoint_tool
  <2> QED BY <2>1, AddressTools
<1>2. ASSUME NEW m \in {"uxn_install", "uxn_remove"} PROVE ToolFaithful(uxn_address_tool(m, a), a)
  <2>1. \/ uxn_address_tool(m, a) = Raised
        \/ /\ parse_int(a.address) # Throw
           /\ uxn_address_tool(m, a).method = m /\ uxn_address_tool(m, a).params = [address |-> a.address]
    BY Sends DEF uxn_address_tool
  <2> QED BY <2>1, AddressTools
<1> QED BY <1>1, <1>2

\* symbol_init and symbol_find.
LEMMA SymbolTools ==
    ASSUME NEW a
    PROVE  /\ ToolFaithful(symbol_init_tool(a), a)
           /\ Named(a.name) /\ a.name.t \in {"blank", "text"} => ToolFaithful(symbol_find_tool(a), a)
<1>1. ToolFaithful(symbol_init_tool(a), a)
  <2> DEFINE sent == symbol_init_tool(a)
             p == [module_base |-> a.module_base]
             call == symbol_init(p)
             base == ParseAddress(p.module_base)
  <2> SUFFICES ASSUME sent # Raised PROVE ToolFaithful(sent, a)
    BY NothingSent
  <2>1. parse_int(a.module_base) # Throw /\ sent.method = "symbol_init" /\ sent.params = p
    BY Sends DEF symbol_init_tool
  <2>2. Route("symbol_init", p) = call
    BY DEF Route
  <2>3. call = Call("loadSymbolTable", TRUE, [base |-> base])
    BY DEF symbol_init
  <2>4. Fields("symbol_init", p)
    BY DEF Fields
  <2> HIDE DEF call, base
  <2>5. call.op \in {"loadSymbolTable", "refused"}
    BY <2>3 DEF Call, Refused
  <2>6. ASSUME PlainParams(p) PROVE call # Refused
    <3>1. a.module_base.t # "python"
      BY <2>6, PlainFields
    <3>2. base # Throw
      BY <2>1, <3>1, SentAddress DEF base
    <3> QED BY <2>3, <3>2 DEF Call, Refused
  <2> HIDE DEF p, sent
  <2> QED BY <2>1, <2>2, <2>4, <2>5, <2>6, SentFaithful
<1>2. ASSUME Named(a.name), a.name.t \in {"blank", "text"} PROVE ToolFaithful(symbol_find_tool(a), a)
  <2> DEFINE sent == symbol_find_tool(a)
             p == [module_base |-> a.module_base, name |-> a.name]
             call == symbol_find(p)
             base == ParseAddress(p.module_base)
             name == getStringParam(p.name, TRUE, FALSE, kMaxIpcStringParamBytes)
  <2> SUFFICES ASSUME sent # Raised PROVE ToolFaithful(sent, a)
    BY NothingSent
  <2>1. /\ parse_int(a.module_base) # Throw /\ a.name.t = "text"
        /\ sent.method = "symbol_find" /\ sent.params = p
    BY <1>2, Sends DEF symbol_find_tool
  <2>2. Route("symbol_find", p) = call
    BY DEF Route
  <2>3. call = Call("resolveSymbol", TRUE, [base |-> base, name |-> name])
    BY DEF symbol_find
  <2>4. Fields("symbol_find", p)
    BY <1>2 DEF Fields
  <2> HIDE DEF call, base, name
  <2>5. call.op \in {"resolveSymbol", "refused"}
    BY <2>3 DEF Call, Refused
  <2>6. ASSUME PlainParams(p) PROVE call # Refused
    <3>1. a.module_base.t # "python" /\ a.name.v <= kMaxIpcStringParamBytes
      BY <2>6, PlainFields
    <3>2. base # Throw
      BY <2>1, <3>1, SentAddress DEF base
    <3>3. name # Throw
      BY <2>1, <3>1, SentText DEF name
    <3> QED BY <2>3, <3>2, <3>3 DEF Call, Refused
  <2> HIDE DEF p, sent
  <2> QED BY <2>1, <2>2, <2>4, <2>5, <2>6, SentFaithful
<1> QED BY <1>1, <1>2

\* resolve_offset_chain: what reads as a number in Python and is one in JSON is an
\* offset to the server.
LEMMA ChainTool ==
    ASSUME NEW a, Named(a.name), a.deref_final.t \in {"absent", "bool"}, a.offsets.t = "array",
           \A i \in DOMAIN a.offsets.v : a.offsets.v[i].item.t = "int"
    PROVE  ToolFaithful(resolve_offset_chain_tool(a), a)
<1> DEFINE sent == resolve_offset_chain_tool(a)
           text == [t |-> "text", v |-> a.name.v]
           p == [module |-> text, base_offset |-> a.base_offset,
                 offsets |-> a.offsets, deref_final |-> a.deref_final]
           call == resolve_offset_chain(p)
           good == Count(a.offsets) <= 1024 /\ Holds(a.offsets, parse_int)
           checked == {_require_so_name(a.name), parse_int(a.base_offset),
                       IF good THEN Ok(Count(a.offsets)) ELSE Throw}
<1> SUFFICES ASSUME sent # Raised PROVE ToolFaithful(sent, a)
  BY NothingSent
<1>1. Throw \notin checked /\ sent.method = "resolve_offset_chain" /\ sent.params = p
  <2>1. sent = Send("resolve_offset_chain", checked, p)
    BY DEF resolve_offset_chain_tool
  <2> HIDE DEF checked, p, sent
  <2> QED BY <2>1, Sends
<1>2. _require_so_name(a.name) # Throw /\ parse_int(a.base_offset) # Throw /\ good
  <2> HIDE DEF good
  <2> QED BY <1>1
<1>3. a.name.t = "so" /\ a.name.v \in Int /\ a.name.v > 0
  BY <1>2 DEF _require_so_name, Named
<1> DEFINE name == getStringParam(p.module, TRUE, FALSE, kMaxIpcStringParamBytes)
           base == ParseAddress(p.base_offset)
           offsets == CASE p.offsets.t = "absent" -> Ok(0)
                        [] /\ p.offsets.t = "array" /\ Count(p.offsets) <= kMaxPointerOffsetCount
                           /\ Holds(p.offsets, ParseAddress) -> Ok(Count(p.offsets))
                        [] OTHER -> Throw
           final == getOptionalBoolParam(p.deref_final, 1)
           args == [name |-> name, baseOffset |-> base, offsets |-> offsets, dereference |-> final]
<1>4. call = Call("resolvePointer", TRUE, args)
  BY DEF resolve_offset_chain
<1>5. Route("resolve_offset_chain", p) = call
  BY DEF Route
<1>6. text.t = "text" /\ text.v = a.name.v
  OBVIOUS
<1> HIDE DEF text
<1>7. p.module = text /\ p.base_offset = a.base_offset /\ p.offsets = a.offsets /\ p.deref_final = a.deref_final
  OBVIOUS
<1>8. Fields("resolve_offset_chain", p)
  <2>1. Named(text)
    BY <1>3, <1>6 DEF Named
  <2> HIDE DEF p
  <2> QED BY <1>7, <2>1 DEF Fields
<1>9. ASSUME PlainParams(p)
      PROVE  text.v <= kMaxIpcStringParamBytes /\ a.base_offset.t # "python"
  <2>1. "module" \in DOMAIN p /\ "base_offset" \in DOMAIN p
    OBVIOUS
  <2>2. p["module"] = p.module /\ p["base_offset"] = p.base_offset
    OBVIOUS
  <2> HIDE DEF p
  <2> QED BY <1>7, <1>9, <2>1, <2>2, PlainFields
<1> HIDE DEF p, call
<1>10. ASSUME PlainParams(p) PROVE name # Throw /\ base # Throw /\ offsets # Throw /\ final # Throw
  <2>1. name # Throw
    BY <1>6, <1>7, <1>9, <1>10, SentText
  <2>2. base # Throw
    BY <1>2, <1>7, <1>9, <1>10, SentAddress
  <2>3. offsets # Throw
    <3>1. Holds(a.offsets, ParseAddress)
      BY <1>2 DEF Holds, parse_int, ParseAddress, Ok, Throw
    <3>2. Count(a.offsets) <= kMaxPointerOffsetCount
      BY <1>2 DEF kMaxPointerOffsetCount
    <3> QED BY <1>7, <3>1, <3>2 DEF Ok, Throw
  <2>4. final # Throw
    BY <1>7 DEF getOptionalBoolParam, Ok, Throw
  <2> QED BY <2>1, <2>2, <2>3, <2>4
<1> HIDE DEF name, base, offsets, final
<1>11. call.op \in {"resolvePointer", "refused"}
  BY <1>4 DEF Call, Refused
<1>12. ASSUME PlainParams(p) PROVE call # Refused
  BY <1>4, <1>10, <1>12 DEF Call, Refused
<1> HIDE DEF sent
<1> QED BY <1>1, <1>5, <1>8, <1>11, <1>12, SentFaithful

\* A breakpoint of the type and size asked for.
LEMMA SetTool ==
    ASSUME NEW a
    PROVE  ToolFaithful(set_breakpoint_tool(a), a)
<1> DEFINE sent == set_breakpoint_tool(a)
           access == _resolve_bp_type(Default(a.bp_type, 2))
           size == IF access = Ok(4) THEN Ok(4) ELSE parse_int(Default(a.bp_size, 4))
           p == [address |-> a.address, bp_type |-> Number(access.v), bp_size |-> Number(size.v)]
           call == set_breakpoint(p)
<1> SUFFICES ASSUME sent # Raised PROVE ToolFaithful(sent, a)
  BY NothingSent
<1>1. /\ parse_int(a.address) # Throw /\ access # Throw /\ size # Throw /\ size.v \in {1, 2, 4, 8}
      /\ sent.method = "set_breakpoint" /\ sent.params = p
  <2>1. /\ size.v \in {1, 2, 4, 8}
        /\ sent = Send("set_breakpoint", {parse_int(a.address), access, size}, p)
    BY DEF set_breakpoint_tool
  <2> HIDE DEF access, size, p, sent
  <2> QED BY <2>1, Sends
<1>2. /\ access = Ok(access.v) /\ access.v \in 1..4
      /\ a.bp_type.t = "int" => access.v = a.bp_type.v
  BY <1>1 DEF _resolve_bp_type, Default, Number, Ok
<1>3. a.bp_size.t = "int" /\ access.v # 4 => size.v = a.bp_size.v
  <2> SUFFICES ASSUME a.bp_size.t = "int", access.v # 4 PROVE size.v = a.bp_size.v
    OBVIOUS
  <2>1. access # Ok(4)
    BY <1>2 DEF Ok
  <2>2. size = parse_int(a.bp_size)
    BY <2>1 DEF Default
  <2> QED BY <1>1, <2>2 DEF parse_int, Ok
<1> HIDE DEF access, size
<1>4. Route("set_breakpoint", p) = call
  BY DEF Route
<1> DEFINE x == getOptionalPositiveUintParam(p.bp_type, 2, 4)
           y == getOptionalPositiveUintParam(p.bp_size, 4, 8)
           z == IF x = Ok(4) THEN Ok(4) ELSE y
           address == ParseAddress(p.address)
<1>5. x = Ok(access.v)
  BY <1>2 DEF getOptionalPositiveUintParam, Number
<1>6. y = Ok(size.v)
  BY <1>1 DEF getOptionalPositiveUintParam, Number
<1>7. y.v = size.v
  BY <1>6 DEF Ok
<1>8. call = Call("setBreakpoint", TRUE, [address |-> address, access |-> x, size |-> z])
  BY <1>1, <1>7 DEF set_breakpoint
<1>9. x # Throw /\ y # Throw /\ z # Throw /\ x.v = access.v /\ (access.v # 4 => z.v = size.v)
  BY <1>5, <1>6 DEF Ok, Throw
<1> HIDE DEF x, y, z, address
<1>10. call # Refused => Valued(call, a)
  <2> SUFFICES ASSUME call # Refused PROVE Valued(call, a)
    OBVIOUS
  <2>1. Valued(call, p)
    BY BreakpointRoutes
  <2> HIDE DEF call, p
  <2>2. call.op = "setBreakpoint" /\ call.args.access = x.v /\ call.args.size = z.v
    BY <1>8 DEF Call, Refused
  <2> QED BY <1>2, <1>3, <1>9, <2>1, <2>2 DEF Valued
<1>11. ASSUME PlainParams(p) PROVE call # Refused
  <2>1. a.address.t # "python"
    BY <1>11, PlainFields
  <2>2. address # Throw
    BY <1>1, <2>1, SentAddress DEF address
  <2> HIDE DEF call, p
  <2> QED BY <1>8, <1>9, <2>2 DEF Call, Refused
<1> HIDE DEF sent, p, call
<1> QED BY <1>1, <1>4, <1>10, <1>11 DEF ToolFaithful

\* The bridge waits for the slots and the times the server knows.
LEMMA SlotTools ==
    ASSUME NEW a, a.slot.v \in Int
    PROVE  /\ ToolFaithful(wait_uxn_breakpoint(a), a)
           /\ ToolFaithful(query_uxn_breakpoint_status(a), a)
<1>0. kMaxUxnSlots = 16 /\ kUxnWaitAnySlot = 99
  BY DEF kMaxUxnSlots, kUxnWaitAnySlot
<1>1. ASSUME _parse_uxn_slot(a.slot) # Throw
      PROVE  /\ ParseUxnSlot(Number(a.slot.v)) # Throw /\ ParseOneUxnSlot(Number(a.slot.v)) # Throw
  <2>1. 0 <= a.slot.v /\ a.slot.v < kMaxUxnSlots
    BY <1>1 DEF _parse_uxn_slot, parse_int
  <2>2. Number(a.slot.v).t = "int" /\ Number(a.slot.v).v = a.slot.v
    BY DEF Number
  <2>3. ParseUxnSlot(Number(a.slot.v)) = Ok(a.slot.v)
    BY <2>1, <2>2 DEF ParseUxnSlot, ParseAddress, Ok, Throw
  <2> QED BY <1>0, <2>1, <2>3 DEF ParseOneUxnSlot, Ok, Throw
<1>2. ToolFaithful(wait_uxn_breakpoint(a), a)
  <2> DEFINE sent == wait_uxn_breakpoint(a)
             timeout == parse_int(Default(a.timeout_ms, 1000))
             last == Default(a.last_sequence, 0)
             p == [slot |-> Number(a.slot.v), timeout_ms |-> Number(timeout.v), last_sequence |-> Number(last.v)]
             call == uxn_wait(p)
  <2> SUFFICES ASSUME sent # Raised PROVE ToolFaithful(sent, a)
    BY NothingSent
  <2>1. /\ _parse_uxn_slot(a.slot) # Throw /\ timeout # Throw /\ parse_int(last) # Throw
        /\ timeout.v \in 1.._UXN_MAX_TIMEOUT_MS
        /\ sent.method = "uxn_wait" /\ sent.params = p
    <3>1. /\ timeout.v \in 1.._UXN_MAX_TIMEOUT_MS
          /\ sent = Send("uxn_wait", {_parse_uxn_slot(a.slot), timeout, parse_int(last)}, p)
      BY DEF wait_uxn_breakpoint
    <3> HIDE DEF timeout, last, p, sent
    <3> QED BY <3>1, Sends
  <2>2. a.timeout_ms.t # "absent" => timeout.v = a.timeout_ms.v
    BY <2>1 DEF parse_int, Default, Ok
  <2>3. _UXN_MAX_TIMEOUT_MS = kMaxUxnWaitTimeoutMs /\ kMaxUxnWaitTimeoutMs \in Int
    BY DEF _UXN_MAX_TIMEOUT_MS, kMaxUxnWaitTimeoutMs
  <2> HIDE DEF timeout, last
  <2>4. Route("uxn_wait", p) = call
    BY DEF Route
  <2> DEFINE x == ParseUxnSlot(p.slot)
             y == getOptionalPositiveUintParam(p.timeout_ms, 1000, kMaxUxnWaitTimeoutMs)
             z == IF p.last_sequence.t = "absent" THEN Ok(0) ELSE ParseAddress(p.last_sequence)
  <2>5. x # Throw
    BY <1>1, <2>1
  <2>6. y = Ok(timeout.v)
    <3>1. p.timeout_ms.t = "int" /\ p.timeout_ms.v = timeout.v
      BY DEF Number
    <3> HIDE DEF p
    <3> QED BY <2>1, <2>3, <3>1 DEF getOptionalPositiveUintParam
  <2>7. z # Throw
    <3>1. p.last_sequence.t = "int" /\ p.last_sequence.v = last.v
      BY DEF Number
    <3>2. last.v >= 0
      BY <2>1 DEF parse_int
    <3> HIDE DEF p
    <3> QED BY <3>1, <3>2 DEF ParseAddress, Ok, Throw
  <2>8. call = Call("waitUxnBreakpoint", TRUE, [slot |-> x, timeoutMs |-> y, lastSequence |-> z])
    BY DEF uxn_wait
  <2>9. y # Throw /\ y.v = timeout.v
    BY <2>6 DEF Ok, Throw
  <2>10. p.slot.v \in Int
    BY DEF Number
  <2> HIDE DEF x, y, z, p
  <2>11. call # Refused
    <3> HIDE DEF call
    <3> QED BY <2>5, <2>7, <2>8, <2>9 DEF Call, Refused
  <2>12. Valued(call, a)
    <3>1. Valued(call, p)
      BY <2>10, <2>11, UxnRoutes
    <3> HIDE DEF call
    <3>2. call.op = "waitUxnBreakpoint" /\ call.args.timeoutMs = y.v
      BY <2>8, <2>11 DEF Call, Refused
    <3> QED BY <2>2, <2>9, <3>1, <3>2 DEF Valued
  <2> HIDE DEF sent, call
  <2> QED BY <2>1, <2>4, <2>11, <2>12 DEF ToolFaithful
<1>3. ToolFaithful(query_uxn_breakpoint_status(a), a)
  <2> DEFINE sent == query_uxn_breakpoint_status(a)
             p == [slot |-> Number(a.slot.v)]
             call == uxn_status(p)
             slot == ParseOneUxnSlot(p.slot)
  <2> SUFFICES ASSUME sent # Raised PROVE ToolFaithful(sent, a)
    BY NothingSent
  <2>1. _parse_uxn_slot(a.slot) # Throw /\ sent.method = "uxn_status" /\ sent.params = p
    BY Sends DEF query_uxn_breakpoint_status
  <2>2. Route("uxn_status", p) = call
    BY DEF Route
  <2>3. call = Call("queryUxnBreakpointStatus", TRUE, [slot |-> slot])
    BY DEF uxn_status
  <2>4. slot # Throw
    BY <1>1, <2>1
  <2>5. Fields("uxn_status", p)
    BY DEF Fields, Number
  <2> HIDE DEF call, slot, p, sent
  <2>6. call # Refused /\ call.op = "queryUxnBreakpointStatus"
    BY <2>3, <2>4 DEF Call, Refused
  <2> QED BY <2>1, <2>2, <2>5, <2>6, SentFaithful
<1> QED BY <1>2, <1>3

\* execute_lua: a script short enough for the bridge is so for the server.
LEMMA LuaTool ==
    ASSUME NEW a, a.code.t \in {"blank", "text"}, a.code.v \in Int, a.timeout_seconds.v \in Int
    PROVE  ToolFaithful(execute_lua_tool(a), a)
<1> DEFINE sent == execute_lua_tool(a)
           seconds == parse_positive_int(Default(a.timeout_seconds, 30), 30)
           p == [code |-> a.code, timeout_seconds |-> Number(seconds.v)]
           call == execute_lua(p)
<1> SUFFICES ASSUME sent # Raised PROVE ToolFaithful(sent, a)
  BY NothingSent
<1>1. sent.method = "execute_lua" /\ sent.params = p
  <2>1. sent = Send("execute_lua", {seconds}, p)
    BY DEF execute_lua_tool
  <2> HIDE DEF seconds, p, sent
  <2> QED BY <2>1, Sends
<1>2. Route("execute_lua", p) = call
  BY DEF Route
<1> DEFINE x == getStringParam(p.code, TRUE, FALSE, kMaxIpcLuaCodeBytes)
           y == getClampedIntParam(p.timeout_seconds, 30, 1, 30)
<1>3. call = Call("lua", FALSE, [code |-> x, seconds |-> y])
  BY DEF execute_lua
<1>4. Fields("execute_lua", p)
  BY DEF Fields
<1>5. y # Throw
  <2>1. p.timeout_seconds.t = "int"
    BY DEF Number
  <2> HIDE DEF p
  <2> QED BY <2>1 DEF getClampedIntParam, Ok, Throw
<1>6. ASSUME PlainParams(p) PROVE x # Throw
  <2>1. a.code.t = "text" /\ a.code.v <= kMaxIpcLuaCodeBytes
    BY <1>6, PlainFields
  <2> QED BY <2>1, SentText
<1> HIDE DEF x, y, p, call, sent
<1>7. call.op \in {"lua", "refused"}
  BY <1>3 DEF Call, Refused
<1>8. ASSUME PlainParams(p) PROVE call # Refused
  BY <1>3, <1>5, <1>6, <1>8 DEF Call, Refused
<1> QED BY <1>1, <1>2, <1>4, <1>7, <1>8, SentFaithful

\* What a tool sends.
LEMMA ToolCases ==
    ASSUME NEW n, NEW a, NEW sent, sent = Tool(n, a)
    PROVE  \/ n = "read_memory" /\ sent = read_memory_tool(a)
           \/ n = "read_value" /\ sent = read_value(a)
           \/ n = "write_bytes" /\ sent = write_bytes(a)
           \/ n = "open_process" /\ sent = open_process_tool(a)
           \/ n = "list_modules" /\ sent = list_modules_tool(a)
           \/ n = "get_module_base" /\ sent = get_module_base_tool(a)
           \/ n = "resolve_offset_chain" /\ sent = resolve_offset_chain_tool(a)
           \/ n = "symbol_init" /\ sent = symbol_init_tool(a)
           \/ n = "symbol_list" /\ sent = symbol_list_tool(a)
           \/ n = "symbol_find" /\ sent = symbol_find_tool(a)
           \/ n = "set_breakpoint" /\ sent = set_breakpoint_tool(a)
           \/ /\ n \in {"remove_breakpoint", "suspend_breakpoint", "resume_breakpoint", "read_bp_info"}
              /\ sent = breakpoint_tool(n, a)
           \/ n \in {"uxn_install", "uxn_remove"} /\ sent = uxn_address_tool(n, a)
           \/ n = "wait_uxn_breakpoint" /\ sent = wait_uxn_breakpoint(a)
           \/ n = "query_uxn_breakpoint_status" /\ sent = query_uxn_breakpoint_status(a)
           \/ n = "execute_lua" /\ sent = execute_lua_tool(a)
           \/ sent = Raised
BY SMT DEF Tool

\* Every tool of the bridge.
LEMMA ToolsAreFaithful ==
    ASSUME NEW c \in ToolCalls
    PROVE  ToolFaithful(Tool(c.tool, c.args), c.args)
<1> DEFINE a == c.args
           n == c.tool
           sent == Tool(n, a)
<1> SUFFICES ToolFaithful(sent, a)
  OBVIOUS
<1>1. /\ n = "read_memory" => a.size.v \in Int
      /\ n = "write_bytes" => a.hex.v \in Int
      /\ n = "open_process" => a.pid.v \in Int
      /\ n \in {"list_modules", "symbol_list"} => a.offset.v \in Int /\ a.count.v \in Int
      /\ n = "list_modules" => a.filter.t \in {"blank", "text"}
      /\ n \in {"get_module_base", "resolve_offset_chain", "symbol_find"} => Named(a.name)
      /\ n = "symbol_find" => a.name.t \in {"blank", "text"}
      /\ n = "resolve_offset_chain" =>
             /\ a.deref_final.t \in {"absent", "bool"} /\ a.offsets.t = "array"
             /\ \A i \in DOMAIN a.offsets.v : a.offsets.v[i].item.t = "int"
      /\ n \in {"wait_uxn_breakpoint", "query_uxn_breakpoint_status"} => a.slot.v \in Int
      /\ n = "execute_lua" =>
             a.code.t \in {"blank", "text"} /\ a.code.v \in Int /\ a.timeout_seconds.v \in Int
  BY RequestAssumption
<1> HIDE DEF a, n
<1>2. \/ n = "read_memory" /\ sent = read_memory_tool(a)
      \/ n = "read_value" /\ sent = read_value(a)
      \/ n = "write_bytes" /\ sent = write_bytes(a)
      \/ n = "open_process" /\ sent = open_process_tool(a)
      \/ n = "list_modules" /\ sent = list_modules_tool(a)
      \/ n = "get_module_base" /\ sent = get_module_base_tool(a)
      \/ n = "resolve_offset_chain" /\ sent = resolve_offset_chain_tool(a)
      \/ n = "symbol_init" /\ sent = symbol_init_tool(a)
      \/ n = "symbol_list" /\ sent = symbol_list_tool(a)
      \/ n = "symbol_find" /\ sent = symbol_find_tool(a)
      \/ n = "set_breakpoint" /\ sent = set_breakpoint_tool(a)
      \/ /\ n \in {"remove_breakpoint", "suspend_breakpoint", "resume_breakpoint", "read_bp_info"}
         /\ sent = breakpoint_tool(n, a)
      \/ n \in {"uxn_install", "uxn_remove"} /\ sent = uxn_address_tool(n, a)
      \/ n = "wait_uxn_breakpoint" /\ sent = wait_uxn_breakpoint(a)
      \/ n = "query_uxn_breakpoint_status" /\ sent = query_uxn_breakpoint_status(a)
      \/ n = "execute_lua" /\ sent = execute_lua_tool(a)
      \/ sent = Raised
  BY ToolCases
<1> HIDE DEF sent
<1>3. CASE \/ n = "read_memory" /\ sent = read_memory_tool(a)
           \/ n = "read_value" /\ sent = read_value(a)
  BY <1>1, <1>3, ReadTools
<1>4. CASE n = "write_bytes" /\ sent = write_bytes(a)
  BY <1>1, <1>4, WriteTool
<1>5. CASE \/ n = "open_process" /\ sent = open_process_tool(a)
           \/ n = "get_module_base" /\ sent = get_module_base_tool(a)
  BY <1>1, <1>5, ProcessTools
<1>6. CASE \/ n = "list_modules" /\ sent = list_modules_tool(a)
           \/ n = "symbol_list" /\ sent = symbol_list_tool(a)
  BY <1>1, <1>6, PageTools
<1>7. CASE n = "resolve_offset_chain" /\ sent = resolve_offset_chain_tool(a)
  BY <1>1, <1>7, ChainTool
<1>8. CASE \/ n = "symbol_init" /\ sent = symbol_init_tool(a)
           \/ n = "symbol_find" /\ sent = symbol_find_tool(a)
  BY <1>1, <1>8, SymbolTools
<1>9. CASE sent = set_breakpoint_tool(a)
  BY <1>9, SetTool
<1>10. CASE \/ /\ n \in {"remove_breakpoint", "suspend_breakpoint", "resume_breakpoint", "read_bp_info"}
               /\ sent = breakpoint_tool(n, a)
            \/ n \in {"uxn_install", "uxn_remove"} /\ sent = uxn_address_tool(n, a)
  BY <1>10, BreakpointTools
<1>11. CASE \/ n = "wait_uxn_breakpoint" /\ sent = wait_uxn_breakpoint(a)
            \/ n = "query_uxn_breakpoint_status" /\ sent = query_uxn_breakpoint_status(a)
  BY <1>1, <1>11, SlotTools
<1>12. CASE n = "execute_lua" /\ sent = execute_lua_tool(a)
  BY <1>1, <1>12, LuaTool
<1>13. CASE sent = Raised
  BY <1>13, NothingSent
<1> QED BY <1>2, <1>3, <1>4, <1>5, <1>6, <1>7, <1>8, <1>9, <1>10, <1>11, <1>12, <1>13

\* What a tool sends names what the tool was asked for, in a form that Python
\* takes for an integer.
Whole(j) == j.t \in {"int", "numeral", "python"}
SentFrom(sent, a) ==
    LET m == sent.method  p == sent.params
    IN  /\ m \in AddressMethods => p.address = a.address /\ Whole(a.address)
        /\ m \in BaseMethods =>
               p.module_base = NotGiven \/ (p.module_base = a.module_base /\ Whole(a.module_base))
        /\ m = "resolve_offset_chain" => p.base_offset = a.base_offset /\ Whole(a.base_offset)
        /\ m = "open_process" => p.pid = Number(a.pid.v) /\ Whole(a.pid)
        /\ m \in SlotMethods => p.slot = Number(a.slot.v) /\ Whole(a.slot)

\* Such a request is placed where the tool was told.
LEMMA SentPlaced ==
    ASSUME NEW sent, NEW a, SentFrom(sent, a)
    PROVE  Placed(Route(sent.method, sent.params), a)
<1> DEFINE m == sent.method
           p == sent.params
           call == Route(m, p)
<1>1. Numbers(m, p)
  BY DEF SentFrom, Numbers, Whole, NotGiven, Number
<1>2. PlacedBy(m, call, p)
  BY <1>1, RoutesPlaced
<1> HIDE DEF call
<1>3. /\ "address" \in DOMAIN call.args => Stands(call.args["address"], a.address)
      /\ "base" \in DOMAIN call.args => Stands(call.args["base"], a.module_base)
      /\ "baseOffset" \in DOMAIN call.args => Stands(call.args["baseOffset"], a.base_offset)
  BY <1>2 DEF PlacedBy, SentFrom, NotGiven
<1>4. ASSUME NEW n, NEW j, Whole(j), Stands(n, Number(j.v)) PROVE Stands(n, j)
  BY <1>4 DEF Whole, Stands, Number
<1>5. "pid" \in DOMAIN call.args => Stands(call.args["pid"], a.pid)
  BY <1>2, <1>4 DEF PlacedBy, SentFrom
<1>6. "slot" \in DOMAIN call.args => Stands(call.args["slot"], a.slot)
  <2>1. ASSUME NEW v PROVE Number(v).t # "absent"
    BY DEF Number
  <2> QED BY <1>2, <1>4, <2>1 DEF PlacedBy, SentFrom
<1>7. Placed(call, a)
  BY <1>3, <1>5, <1>6 DEF Placed
<1> QED BY <1>7 DEF call

\* Every tool sends such a request, or none.
LEMMA ToolsArePlaced ==
    ASSUME NEW n, NEW a
    PROVE  Placed(Route(Tool(n, a).method, Tool(n, a).params), a)
<1> DEFINE sent == Tool(n, a)
<1>0. ASSUME NEW j, parse_int(j) # Throw PROVE Whole(j)
  BY <1>0 DEF parse_int, Whole
<1>1. CASE sent = Raised
  <2>1. Route(Raised.method, Raised.params) = Refused
    BY DEF Route, Raised
  <2>2. Placed(Refused, a)
    BY RefusedNames DEF Placed
  <2> QED BY <1>1, <2>1, <2>2
<1> SUFFICES ASSUME sent # Raised PROVE SentFrom(sent, a)
  BY <1>1, SentPlaced
<1>2. ASSUME NEW s, s # Raised,
             \/ s \in {read_memory_tool(a), read_value(a), write_bytes(a), set_breakpoint_tool(a)}
             \/ \E m \in AddressMethods : s \in {breakpoint_tool(m, a), uxn_address_tool(m, a)}
      PROVE  SentFrom(s, a)
  <2>1. PICK m, checked, p : m \in AddressMethods /\
            s = Send(m, checked, p) /\ parse_int(a.address) \in checked /\ p.address = a.address
    <3>1. CASE s = read_memory_tool(a)
      <4> DEFINE size == parse_positive_int(Default(a.size, 256), 65536)
                 checked == {parse_int(a.address), size}
                 p == [address |-> a.address, size |-> Number(size.v)]
      <4>1. s = Send("read_memory", checked, p)
        BY <3>1 DEF read_memory_tool
      <4>2. parse_int(a.address) \in checked /\ p.address = a.address /\ "read_memory" \in AddressMethods
        BY DEF AddressMethods
      <4> HIDE DEF checked, p
      <4> QED BY <4>1, <4>2, Zenon
    <3>2. CASE s = read_value(a)
      <4> DEFINE checked == {parse_int(a.address)}
                 p == [address |-> a.address, size |-> Number(DATA_TYPE_SIZE[a.data_type])]
      <4>1. s = Send("read_memory", checked, p)
        BY <1>2, <3>2, Zenon DEF read_value
      <4>2. parse_int(a.address) \in checked /\ p.address = a.address /\ "read_memory" \in AddressMethods
        BY DEF AddressMethods
      <4> HIDE DEF checked, p
      <4> QED BY <4>1, <4>2, Zenon
    <3>3. CASE s = write_bytes(a)
      <4> DEFINE checked == {parse_int(a.address), clean_hex_string(a.hex)}
                 p == [address |-> a.address, hex |-> a.hex]
      <4>1. s = Send("write_memory", checked, p)
        BY <3>3, Zenon DEF write_bytes
      <4>2. parse_int(a.address) \in checked /\ p.address = a.address /\ "write_memory" \in AddressMethods
        BY DEF AddressMethods
      <4> HIDE DEF checked, p
      <4> QED BY <4>1, <4>2, Zenon
    <3>4. CASE s = set_breakpoint_tool(a)
      <4> DEFINE access == _resolve_bp_type(Default(a.bp_type, 2))
                 size == IF access = Ok(4) THEN Ok(4) ELSE parse_int(Default(a.bp_size, 4))
                 checked == {parse_int(a.address), access, size}
                 p == [address |-> a.address, bp_type |-> Number(access.v), bp_size |-> Number(size.v)]
      <4>1. s = Send("set_breakpoint", checked, p)
        BY <1>2, <3>4, Zenon DEF set_breakpoint_tool
      <4>2. parse_int(a.address) \in checked /\ p.address = a.address /\ "set_breakpoint" \in AddressMethods
        BY DEF AddressMethods
      <4> HIDE DEF checked, p
      <4> QED BY <4>1, <4>2, Zenon
    <3>5. ASSUME NEW m \in AddressMethods, s \in {breakpoint_tool(m, a), uxn_address_tool(m, a)}
          PROVE  s = Send(m, {parse_int(a.address)}, [address |-> a.address])
      BY <1>2, <3>5 DEF breakpoint_tool, uxn_address_tool
    <3>6. /\ parse_int(a.address) \in {parse_int(a.address)}
          /\ [address |-> a.address].address = a.address
      OBVIOUS
    <3> QED BY <1>2, <3>1, <3>2, <3>3, <3>4, <3>5, <3>6
  <2>2. s.method = m /\ s.params = p /\ parse_int(a.address) # Throw
    BY <1>2, <2>1, Sends
  <2>3. m \notin BaseMethods \cup SlotMethods \cup {"resolve_offset_chain", "open_process"}
    BY <2>1 DEF AddressMethods, BaseMethods, SlotMethods
  <2> QED BY <1>0, <2>1, <2>2, <2>3 DEF SentFrom
<1>3. ASSUME NEW s, s # Raised, s \in {symbol_init_tool(a), symbol_find_tool(a), symbol_list_tool(a)}
      PROVE  SentFrom(s, a)
  <2>1. /\ s.method \in BaseMethods
        /\ s.params.module_base = NotGiven
               \/ (s.params.module_base = a.module_base /\ parse_int(a.module_base) # Throw)
    <3>1. CASE s \in {symbol_init_tool(a), symbol_find_tool(a)}
      BY <1>3, <3>1 DEF symbol_init_tool, symbol_find_tool, Send, BaseMethods
    <3>2. CASE s = symbol_list_tool(a)
      <4> DEFINE offset == parse_int(Default(a.offset, 0))
                 count == parse_positive_int(Default(a.count, 100), 1000)
                 given == a.module_base \notin {NotGiven, Empty}
                 checked == {offset, count} \cup (IF given THEN {parse_int(a.module_base)} ELSE {})
                 p == [offset |-> Number(offset.v), count |-> Number(count.v),
                       module_base |-> IF given THEN a.module_base ELSE NotGiven]
      <4>1. s = Send("symbol_list", checked, p)
        BY <3>2, Zenon DEF symbol_list_tool
      <4>2. /\ given => parse_int(a.module_base) \in checked /\ p.module_base = a.module_base
            /\ ~given => p.module_base = NotGiven
        OBVIOUS
      <4> HIDE DEF checked, p, given
      <4>3. s.method = "symbol_list" /\ s.params = p /\ Throw \notin checked
        BY <1>3, <4>1, Sends
      <4> QED BY <4>2, <4>3 DEF BaseMethods
    <3> QED BY <1>3, <3>1, <3>2
  <2>2. s.method \notin AddressMethods \cup SlotMethods \cup {"resolve_offset_chain", "open_process"}
    BY <2>1 DEF AddressMethods, BaseMethods, SlotMethods
  <2> QED BY <1>0, <2>1, <2>2 DEF SentFrom
<1>4. ASSUME NEW s, s # Raised, s \in {wait_uxn_breakpoint(a), query_uxn_breakpoint_status(a)}
      PROVE  SentFrom(s, a)
  <2>1. s.method \in SlotMethods /\ s.params.slot = Number(a.slot.v) /\ _parse_uxn_slot(a.slot) # Throw
    <3>1. CASE s = wait_uxn_breakpoint(a)
      <4> DEFINE timeout == parse_int(Default(a.timeout_ms, 1000))
                 checked == {_parse_uxn_slot(a.slot), timeout, parse_int(Default(a.last_sequence, 0))}
                 p == [slot |-> Number(a.slot.v), timeout_ms |-> Number(timeout.v),
                       last_sequence |-> Number(Default(a.last_sequence, 0).v)]
      <4>1. s = Send("uxn_wait", checked, p)
        BY <1>4, <3>1 DEF wait_uxn_breakpoint
      <4>2. _parse_uxn_slot(a.slot) \in checked /\ p.slot = Number(a.slot.v)
        OBVIOUS
      <4> HIDE DEF checked, p
      <4>3. s.method = "uxn_wait" /\ s.params = p /\ Throw \notin checked
        BY <1>4, <4>1, Sends
      <4> QED BY <4>2, <4>3 DEF SlotMethods
    <3>2. CASE s = query_uxn_breakpoint_status(a)
      BY <1>4, <3>2 DEF query_uxn_breakpoint_status, Send, SlotMethods
    <3> QED BY <1>4, <3>1, <3>2
  <2>2. s.method \notin AddressMethods \cup BaseMethods \cup {"resolve_offset_chain", "open_process"}
    BY <2>1 DEF AddressMethods, BaseMethods, SlotMethods
  <2>3. Whole(a.slot)
    BY <1>0, <2>1 DEF _parse_uxn_slot
  <2> QED BY <2>1, <2>2, <2>3 DEF SentFrom
<1>5. ASSUME NEW s, s # Raised, s = open_process_tool(a) PROVE SentFrom(s, a)
  <2>1. s.method = "open_process" /\ s.params.pid = Number(a.pid.v) /\ parse_int(a.pid) # Throw
    BY <1>5 DEF open_process_tool, Send
  <2>2. s.method \notin AddressMethods \cup BaseMethods \cup SlotMethods \cup {"resolve_offset_chain"}
    BY <2>1 DEF AddressMethods, BaseMethods, SlotMethods
  <2> QED BY <1>0, <2>1, <2>2 DEF SentFrom
<1>6. ASSUME NEW s, s # Raised, s = resolve_offset_chain_tool(a) PROVE SentFrom(s, a)
  <2> DEFINE offsets == IF Count(a.offsets) <= 1024 /\ Holds(a.offsets, parse_int)
                        THEN Ok(Count(a.offsets)) ELSE Throw
             checked == {_require_so_name(a.name), parse_int(a.base_offset), offsets}
             p == [module |-> [t |-> "text", v |-> a.name.v], base_offset |-> a.base_offset,
                   offsets |-> a.offsets, deref_final |-> a.deref_final]
  <2>1. s = Send("resolve_offset_chain", checked, p)
    BY <1>6, Zenon DEF resolve_offset_chain_tool
  <2>2. parse_int(a.base_offset) \in checked /\ p.base_offset = a.base_offset
    OBVIOUS
  <2> HIDE DEF checked, p
  <2>3. s.method = "resolve_offset_chain" /\ s.params = p /\ Throw \notin checked
    BY <1>6, <2>1, Sends
  <2>4. s.method \notin AddressMethods \cup BaseMethods \cup SlotMethods \cup {"open_process"}
    BY <2>3 DEF AddressMethods, BaseMethods, SlotMethods
  <2> QED BY <1>0, <2>2, <2>3, <2>4 DEF SentFrom
<1>7. ASSUME NEW s, s # Raised, s \in {list_modules_tool(a), get_module_base_tool(a), execute_lua_tool(a)}
      PROVE  SentFrom(s, a)
  <2>1. s.method \in {"list_modules", "get_module_base", "execute_lua"}
    BY <1>7 DEF list_modules_tool, get_module_base_tool, execute_lua_tool, Send
  <2> QED BY <2>1 DEF SentFrom, AddressMethods, BaseMethods, SlotMethods
<1> DEFINE one == {"remove_breakpoint", "suspend_breakpoint", "resume_breakpoint", "read_bp_info"}
           two == {"uxn_install", "uxn_remove"}
<1>8. \/ sent \in {read_memory_tool(a), read_value(a), write_bytes(a), set_breakpoint_tool(a)}
      \/ n \in one /\ sent = breakpoint_tool(n, a)
      \/ n \in two /\ sent = uxn_address_tool(n, a)
      \/ sent \in {symbol_init_tool(a), symbol_find_tool(a), symbol_list_tool(a)}
      \/ sent \in {wait_uxn_breakpoint(a), query_uxn_breakpoint_status(a)}
      \/ sent = open_process_tool(a) \/ sent = resolve_offset_chain_tool(a)
      \/ sent \in {list_modules_tool(a), get_module_base_tool(a), execute_lua_tool(a)}
      \/ sent = Raised
  BY ToolCases
<1>9. one \subseteq AddressMethods /\ two \subseteq AddressMethods
  BY DEF AddressMethods
<1> HIDE DEF one, two
<1> HIDE DEF sent
<1> QED BY <1>2, <1>3, <1>4, <1>5, <1>6, <1>7, <1>8, <1>9

-----------------------------------------------------------------------------
(* Integers in memory and the heads of requests.                            *)

\* Remainders of numbers less than one period away.
LEMMA Remainders ==
    ASSUME NEW m \in Nat \ {0}, NEW x \in 0..(m - 1)
    PROVE  x % m = x /\ (x - m) % m = x
<1>1. x % m = x
  OBVIOUS
<1>2. (x - m) % m = x
  OBVIOUS
<1> QED BY <1>1, <1>2

\* What is read is written back as the same bytes, by the bridge and by a script,
\* and where both accept a number they agree.
LEMMA ScalarsAreFaithful ==
    ASSUME NEW s \in Scalars
    PROVE  LET type == s.type
               v    == s.v
               bytes == v % 2 ^ Bits(type)
               exact == type # "qword" \/ Rounded(Signed(type, bytes)) = Signed(type, bytes)
           IN  /\ encode_value_hex(decode_value(bytes, type), type) = Ok(bytes)
               /\ exact => WriteScalar(type, ReadScalar(type, bytes)) = Ok(bytes)
               /\ Throw \in {encode_value_hex(v, type), WriteScalar(type, v)}
                      \/ encode_value_hex(v, type) = WriteScalar(type, v)
<1> DEFINE type == s.type
           v == s.v
           half == 2 ^ (Bits(type) - 1)
           full == 2 ^ Bits(type)
           bytes == v % full
           signed == Signed(type, bytes)
           exact == type # "qword" \/ Rounded(signed) = signed
<1>1. v \in Int /\ half \in Nat \ {0} /\ full = 2 * half /\ full \in Nat \ {0}
  BY ScalarAssumption
<1>2. /\ \A x : encode_value_hex(x, type) = IF x \in (-half)..(full - 1) THEN Ok(x % full) ELSE Throw
      /\ signed = IF bytes >= half THEN bytes - full ELSE bytes
      /\ decode_value(bytes, type) = bytes
  BY DEF encode_value_hex, Signed, decode_value
<1>3. \A x : WriteScalar(type, x) =
          IF type = "byte" THEN IF x \in 0..(2 * half - 1) THEN Ok(x % (2 * half)) ELSE Throw
          ELSE IF x \in (-half)..(half - 1) THEN Ok(x % (2 * half)) ELSE Throw
  BY DEF WriteScalar, checkIntegerRange, checkinteger, Numeric, Ok, Throw
<1>4. exact => ReadScalar(type, bytes) = IF type = "byte" THEN bytes ELSE signed
  BY DEF ReadScalar
<1> HIDE DEF type, v, half, full, signed
<1>5. bytes \in 0..(full - 1)
  BY <1>1
<1> HIDE DEF bytes
<1>6. bytes % full = bytes /\ (bytes - full) % full = bytes
  BY <1>1, <1>5, Remainders
<1>7. encode_value_hex(decode_value(bytes, type), type) = Ok(bytes)
  BY <1>1, <1>2, <1>5, <1>6
<1>8. ASSUME exact PROVE WriteScalar(type, ReadScalar(type, bytes)) = Ok(bytes)
  <2>1. CASE type = "byte"
    BY <1>1, <1>3, <1>4, <1>5, <1>6, <1>8, <2>1
  <2>2. CASE type # "byte"
    <3>1. signed \in (-half)..(half - 1) /\ signed % full = bytes
      BY <1>1, <1>2, <1>5, <1>6
    <3> QED BY <1>1, <1>3, <1>4, <1>8, <2>2, <3>1
  <2> QED BY <2>1, <2>2
<1>9. \/ Throw \in {encode_value_hex(v, type), WriteScalar(type, v)}
      \/ encode_value_hex(v, type) = WriteScalar(type, v)
  BY <1>1, <1>2, <1>3
<1> QED BY <1>7, <1>8, <1>9 DEF bytes, signed, full, v, type

\* A head that is answered with 200 leaves room for its body.
LEMMA HeadsAreBounded ==
    ASSUME NEW h \in Heads, ValidateRequestHead(h) = 200
    PROVE  h.length \in 0..(kMaxRequestBytes - h.bytes - 4)
<1>1. h.length \in Int /\ h.bytes \in Nat
  BY RequestAssumption
<1>2. kMaxRequestBytes \in Nat
  BY SMT DEF kMaxRequestBytes
<1>3. ~(h.length < 0) /\ ~(h.bytes + 4 > kMaxRequestBytes - h.length)
  BY DEF ValidateRequestHead
<1> QED BY <1>1, <1>2, <1>3

\* RequestsAreFaithful of every input of the sets.
LEMMA RequestsHold == Given => RequestsAreFaithful
<1> SUFFICES ASSUME Given PROVE RequestsAreFaithful
  OBVIOUS
<1>1. ASSUME input.kind = "request", Route(input.method, input.params) # Refused
      PROVE  Faithful(Route(input.method, input.params), input.params)
  <2>1. PICK r \in Requests : input.method = r.method /\ input.params = r.params
    BY <1>1 DEF Given
  <2>2. Fields(input.method, input.params)
    BY <2>1, RequestAssumption DEF Fields, SlotMethods
  <2>3. Valued(Route(input.method, input.params), input.params)
    BY <1>1, <2>2, RoutesAreFaithful
  <2>4. Numbers(input.method, input.params)
    BY <2>1, RequestAssumption DEF Numbers
  <2>5. Placed(Route(input.method, input.params), input.params)
    BY <2>4, RoutesPlaced DEF PlacedBy, Placed
  <2> QED BY <2>3, <2>5 DEF Faithful
<1>2. ASSUME input.kind = "head", ValidateRequestHead(input.head) = 200
      PROVE  input.head.length \in 0..(kMaxRequestBytes - input.head.bytes - 4)
  BY <1>2, HeadsAreBounded DEF Given
<1>3. ASSUME input.kind = "lua"
      PROVE  /\ LuaFaithful(LuaFunction(input.function, input.args), input.args)
             /\ LuaPlaced(LuaFunction(input.function, input.args), input.args)
  <2>1. PICK c \in LuaCalls : input.function = c.function /\ input.args = c.args
    BY <1>3 DEF Given
  <2>2. /\ input.function = "mem.writeString" => input.args.text.v \in Nat
        /\ input.function = "uxn.wait" => input.args.remaining \in Int
        /\ input.function \in AddressFunctions => input.args.address.v \in Int
        /\ input.function \in SlotFunctions => input.args.slot.v \in Int
    BY <2>1, RequestAssumption
  <2> QED BY <2>2, ScriptsAreFaithful, ScriptsArePlaced
<1>4. ASSUME input.kind = "tool"
      PROVE  LET sent == Tool(input.tool, input.args)
             IN  ToolFaithful(sent, input.args) /\ Placed(Route(sent.method, sent.params), input.args)
  <2>1. PICK c \in ToolCalls : input.tool = c.tool /\ input.args = c.args
    BY <1>4 DEF Given
  <2> QED BY <2>1, ToolsAreFaithful, ToolsArePlaced
<1>5. ASSUME input.kind = "scalar"
      PROVE  LET type == input.type
                 v    == input.v
                 bytes == v % 2 ^ Bits(type)
                 exact == type # "qword" \/ Rounded(Signed(type, bytes)) = Signed(type, bytes)
             IN  /\ encode_value_hex(decode_value(bytes, type), type) = Ok(bytes)
                 /\ exact => WriteScalar(type, ReadScalar(type, bytes)) = Ok(bytes)
                 /\ Throw \in {encode_value_hex(v, type), WriteScalar(type, v)}
                        \/ encode_value_hex(v, type) = WriteScalar(type, v)
  <2>1. PICK s \in Scalars : input.type = s.type /\ input.v = s.v
    BY <1>5 DEF Given
  <2> QED BY <2>1, ScalarsAreFaithful
<1> QED BY <1>1, <1>2, <1>3, <1>4, <1>5
        DEF RequestsAreFaithful, LuaFaithful, LuaPlaced, ToolFaithful, PlainParams, Faithful

\* A request that is let through, by a route, a Lua function or a tool, is one the
\* service accepts, asked for where the caller said and with the caller's values;
\* what the bridge found good the server does not refuse, if it is neither too long
\* for it nor written in Python's way (RegisterBuiltinMethods, LuaAPI, the MCP tools).
THEOREM RequestsFaithful == AlgorithmsSpec => []RequestsAreFaithful
BY GivenInvariance, RequestsHold, PTL

\* A pointer chain never yields an address that wrapped around or was not readable
\* on the way, and yields the one there is otherwise (MemService::resolvePointer).
THEOREM ChainsAreExact == AlgorithmsSpec => []ChainsNeverWrap
BY GivenInvariance, ChainsHold, PTL

\* The answer to a batch is accepted exactly when its blocks can be paired with the
\* items asked for: taking the smallest item that fits is optimal (MatchBatch).
THEOREM BatchesAreMatched == AlgorithmsSpec => []BatchesMatchExactly
BY GivenInvariance, BatchesHold, PTL

\* Lists arrive whole and in order, mappings with their sizes and pages however
\* short they come back (FetchModuleList, the pages of MemService).
THEOREM ListsAreWhole == AlgorithmsSpec => []ListsArriveWhole
BY GivenInvariance, ListsHold, PTL

\* A module name resolves to the lowest segment of one module whatever the order
\* of the list, and each base of that module leads back to it (MemService).
THEOREM ResolutionIsUnique == AlgorithmsSpec => []ResolutionIsOfOneModule
BY GivenInvariance, ResolutionHolds, PTL
=============================================================================
