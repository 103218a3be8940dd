------------------------------ MODULE LuaEngine ------------------------------
(***************************************************************************)
(* The Lua engine of the GUI process (lua/LuaEngine.cpp, LuaAPI.cpp,       *)
(* LuaAPI_ImGui.cpp) and its three kinds of caller: the script task of     *)
(* LuaScriptWindow, which can be cancelled; IPC workers in execute_lua,    *)
(* which have a deadline; and the GUI thread, which draws the windows that *)
(* Lua made by calling back into Lua once per frame.  One lua_State under  *)
(* one timed mutex serves them all; what distinguishes an execution (mode, *)
(* operation context, hook) is bound in its registry for its duration.     *)
(*                                                                         *)
(* What a script computes is left out.  A running script may operate on    *)
(* the target, attach another one, make or touch windows, open and close   *)
(* ImGui scopes, fail, be interrupted, swallow interruptions with pcall    *)
(* as often as it likes, go where the hook does not run, and return.       *)
(***************************************************************************)
EXTENDS Naturals, Sequences

CONSTANTS
    Workers,      \* IPC workers executing execute_lua
    MaxTargets,   \* bound: connections and process selections
    MaxDepth,     \* bound: nested ImGui scopes
    MaxWindows    \* bound: windows created by scripts

ASSUME LuaAssumption ==
    /\ {"gui", "script", "none"} \cap Workers = {}
    /\ {MaxTargets, MaxDepth, MaxWindows} \subseteq Nat

Executors == Workers \cup {"gui", "script"}
Results == {"ok", "interrupted", "failed"}
Kinds == {"Window", "Tree"}

\* In interpreted code of its own, where an error of the hook ends the script;
\* under a pcall of its own; or where no hook runs: a compiled function that is
\* not of the chunk (PrepareInterruptibleChunk), a blocking call of io or os.
Shelters == {"open", "pcall", "hidden"}

VARIABLES
    mutex,      \* executor that holds LuaEngine::mutex, or "none"
    initialized,
    loaded,     \* the script is in loadedScripts
    phase,      \* per executor: "idle", "init", "enter", "run", "attached" or one of
                \* Results; the GUI thread also "drawing", "closing" and "closed"
    binding,    \* registry: [mode, by, gen, target], Unbound outside executions
    opened,     \* target that openProcess gave an attach still to be committed
    told,       \* target the running script was told it has
    shelter,    \* where the running script is: one of Shelters
    expired,    \* executors whose deadline has passed
    cancel,     \* scriptCancellation
    running,    \* scriptRunning
    device,     \* [gen, target]: connection and target of the service
    targets,    \* selections and connections made so far
    strayed,    \* an operation reached a target other than the one the script was told
    imgui,      \* scopes open in ImGui itself
    scopes,     \* luaImGuiScopes
    touched,    \* executor that last used ImGui or luaWindows (at first the GUI itself)
    made,       \* windows constructed
    pending,    \* windows whose insertion was posted to the GUI thread
    registered, \* luaWindows
    alive       \* LuaImGuiWindow objects that exist

engine == <<mutex, initialized, loaded, binding>>
script == <<opened, told, shelter>>
task == <<cancel, running>>
service == <<device, targets, strayed>>
frame == <<imgui, scopes, touched>>
windows == <<made, pending, registered, alive>>
vars == <<engine, phase, script, expired, task, service, frame, windows>>

Unbound == [mode |-> "None", by |-> "none", gen |-> 0, target |-> 0]

Mode(e) == IF e = "gui" THEN "GuiFrame" ELSE IF e = "script" THEN "GuiScript" ELSE "Ipc"

\* What ends an execution early: the script task has a token and no deadline,
\* IPC executions and frame callbacks have a deadline and no token.
Interrupted(e) == IF e = "script" THEN cancel ELSE e \in expired

\* ExecutionInterruptionMessage: token and deadline are asked again after the
\* call, so that an interruption the script caught is still reported.
ExecutionInterruption(e, raised) == Interrupted(e)

Running(e) == phase[e] = "run"

-----------------------------------------------------------------------------
(* Entering and leaving the engine *)

\* Initialize: the mutex is taken and released within it.
Initialize(e) ==
    /\ phase[e] = "init" /\ mutex = "none"
    /\ ~Interrupted(e) \/ e = "script"
    /\ initialized' = TRUE
    /\ phase' = [phase EXCEPT ![e] = "enter"]
    /\ UNCHANGED <<mutex, loaded, binding, script, expired, task, service, frame, windows>>

\* The call returns its LuaExecutionResult.
Ended(e, result) ==
    /\ phase' = [phase EXCEPT ![e] = result]
    /\ expired' = expired \ {e}

\* AcquireLock gives up at the deadline, in Initialize and in the execution;
\* lock() of the script task has none and is not woken by its token.
LockTimeout(e) ==
    /\ e \in Workers /\ phase[e] \in {"init", "enter"} /\ e \in expired
    /\ Ended(e, "failed")
    /\ UNCHANGED <<engine, script, task, service, frame, windows>>

\* Refused under the mutex before anything is bound: cancelled meanwhile, a
\* reload of a script that is not loaded, a missing file, a syntax error.
RefusedEntry(e) ==
    /\ phase[e] = "enter" /\ mutex = "none"
    /\ Ended(e, IF Interrupted(e) THEN "interrupted" ELSE "failed")
    /\ UNCHANGED <<engine, script, task, service, frame, windows>>

\* The bindings of an execution: mode, operation context, hook.
Bind(e) ==
    /\ mutex' = e
    /\ binding' = [mode |-> Mode(e), by |-> e, gen |-> device.gen, target |-> device.target]
    /\ told' = device.target
    /\ shelter' = "open"
    /\ phase' = [phase EXCEPT ![e] = "run"]
    /\ UNCHANGED opened

\* ExecuteFile, ReloadScript (of a script that is loaded), ExecuteStringCapture
\* up to the protected call.
Execute(e) ==
    /\ phase[e] = "enter" /\ mutex = "none" /\ initialized
    /\ ~Interrupted(e)
    /\ Bind(e)
    /\ UNCHANGED <<initialized, loaded, expired, task, service, frame, windows>>

\* The frame only tries the mutex.
TryLockFails == mutex # "none"

\* LuaImGuiWindow::onDraw when the engine is busy, or fails before it binds:
\* not initialised, no such function.
FrameSkipped ==
    /\ phase["gui"] = "drawing"
    /\ TryLockFails \/ mutex = "none"
    /\ phase' = [phase EXCEPT !["gui"] = "failed"]
    /\ UNCHANGED <<engine, script, expired, task, service, frame, windows>>

\* InvokeGuiCallback: bind with a deadline of 250 ms, BeginFrameExecution.
InvokeGuiCallback ==
    /\ phase["gui"] = "drawing" /\ mutex = "none" /\ initialized
    /\ Bind("gui")
    /\ scopes' = <<>>
    /\ UNCHANGED <<initialized, loaded, expired, task, service, imgui, touched, windows>>

\* Mutant: the recovery of ImGui is skipped when the callback failed.
RecoverAfterSuccess(raised) == IF raised THEN imgui ELSE <<>>

\* LuaImGuiErrorBoundary::Finish: ErrorRecoveryTryToRecoverState to the state
\* stored at the start, on every path.
ErrorRecovery(raised) == <<>>

\* ProtectedLuaCall has returned; the destructors restore the registry.  A
\* frame also reports the scopes it left open as a failure.
Leave(e, raised) ==
    LET result ==
            IF ExecutionInterruption(e, raised) THEN "interrupted"
            ELSE IF raised \/ (e = "gui" /\ scopes # <<>>) THEN "failed" ELSE "ok"
    IN  /\ Running(e)
        /\ Ended(e, result)
        /\ loaded' = (loaded \/ (e = "script" /\ result = "ok"))
        /\ mutex' = "none"
        /\ binding' = Unbound
        /\ opened' = 0 /\ told' = 0 /\ shelter' = "open"
        /\ IF e = "gui"
           THEN scopes' = <<>> /\ imgui' = ErrorRecovery(raised)
           ELSE UNCHANGED <<scopes, imgui>>
        /\ UNCHANGED <<initialized, task, service, touched, windows>>

\* The script returns; or it raises an error of its own.
Return(e) == Leave(e, FALSE)
Raise(e) == Leave(e, TRUE)

\* Mutant: the hook is installed only for a deadline.
DeadlineSeen(e) == e \in expired

\* LuaExecutionHook and the poll of sleep look at the token and the deadline.
HookSees(e) == Interrupted(e)

\* They raise an ordinary error in a script they can reach: it ends the script...
Interrupt(e) == HookSees(e) /\ shelter = "open" /\ Leave(e, TRUE)

\* ... unless a pcall of the script catches it: the script goes on behind it.
Swallow(e) ==
    /\ Running(e) /\ HookSees(e) /\ shelter = "pcall"
    /\ shelter' = "open"
    /\ UNCHANGED <<engine, phase, opened, told, expired, task, service, frame, windows>>

\* The script goes into a pcall or out of the hook's reach, or comes back from
\* there, any number of times.
Shelter(e) ==
    /\ Running(e)
    /\ shelter' \in Shelters \ {shelter}
    /\ "open" \in {shelter, shelter'}
    /\ UNCHANGED <<engine, phase, opened, told, expired, task, service, frame, windows>>

-----------------------------------------------------------------------------
(* What a running script does *)

\* GetOperationContext: a copy of what the execution bound.
OperationContext(e) == [gen |-> binding.gen, target |-> binding.target]

\* An operation of the service on a target: refused unless its context is the
\* device's.  (uxn.clear passes no target: it clears the slots of the device,
\* whoever they belong to, and is not one of these operations.)
Operate(e) ==
    /\ Running(e)
    /\ OperationContext(e) = device /\ device.target # 0
    /\ strayed' = (strayed \/ told # device.target)
    /\ UNCHANGED <<engine, phase, script, expired, task, device, targets, frame, windows>>

\* process.attach: openProcess moves the device's target under the bound context...
AttachOpens(e) ==
    /\ Running(e) /\ targets < MaxTargets
    /\ binding.gen = device.gen /\ binding.target = device.target
    /\ targets' = targets + 1
    /\ device' = [device EXCEPT !.target = targets + 1]
    /\ opened' = targets + 1
    /\ phase' = [phase EXCEPT ![e] = "attached"]
    /\ UNCHANGED <<engine, told, shelter, expired, task, strayed, frame, windows>>

\* ... or fails, perhaps after it has given up the old target; the bound
\* context stays.
AttachFails(e) ==
    /\ Running(e)
    /\ binding.gen = device.gen /\ binding.target = device.target
    /\ device' = [device EXCEPT !.target = 0]
    /\ UNCHANGED <<engine, phase, script, expired, task, targets, strayed, frame, windows>>

\* Mutant: the whole current context is bound once the attach succeeded.
AttachBindsCurrent(e) ==
    /\ phase[e] = "attached"
    /\ binding' = [binding EXCEPT !.gen = device.gen, !.target = device.target]
    /\ told' = opened
    /\ opened' = 0
    /\ phase' = [phase EXCEPT ![e] = "run"]
    /\ UNCHANGED <<mutex, initialized, loaded, shelter, expired, task, service, frame, windows>>

\* AttachProcess after openProcess: the bound target moves only if the service
\* still has the target just opened; otherwise the script is told of a failure.
AttachCommits(e) ==
    /\ phase[e] = "attached"
    /\ IF device.gen = binding.gen /\ device.target = opened
       THEN binding' = [binding EXCEPT !.target = opened] /\ told' = opened
       ELSE UNCHANGED <<binding, told>>
    /\ opened' = 0
    /\ phase' = [phase EXCEPT ![e] = "run"]
    /\ UNCHANGED <<mutex, initialized, loaded, shelter, expired, task, service, frame, windows>>

\* allowedModes of the imgui functions other than createWindow.
FrameModes == {"GuiFrame"}

\* Begin, BeginChild (always a scope), TreeNode, BeginTable (if it is open).
BeginScope(e, kind) ==
    /\ Running(e) /\ binding.mode \in FrameModes /\ Len(imgui) < MaxDepth
    /\ touched' = e
    /\ \/ imgui' = Append(imgui, kind) /\ scopes' = Append(scopes, kind)
       \/ kind = "Tree" /\ UNCHANGED <<imgui, scopes>>
    /\ UNCHANGED <<engine, phase, script, expired, task, service, windows>>

HasTopScope(kind) == scopes # <<>> /\ scopes[Len(scopes)] = kind

\* ImGui itself, asked to close a scope of a kind that is not innermost.
ImGuiClose(kind) ==
    IF imgui # <<>> /\ imgui[Len(imgui)] = kind
    THEN SubSeq(imgui, 1, Len(imgui) - 1) ELSE Append(imgui, "Broken")

\* End, EndChild, TreePop, EndTable; without the matching scope an error is raised.
EndScope(e, kind) ==
    /\ Running(e) /\ binding.mode \in FrameModes /\ HasTopScope(kind)
    /\ touched' = e
    /\ imgui' = ImGuiClose(kind)
    /\ scopes' = SubSeq(scopes, 1, Len(scopes) - 1)
    /\ UNCHANGED <<engine, phase, script, expired, task, service, windows>>

\* createWindow, for scripts only: the object is made here, its registration
\* is left to the GUI thread.
CreateWindow(e) ==
    /\ Running(e) /\ binding.mode = "GuiScript" /\ made < MaxWindows
    /\ made' = made + 1
    /\ pending' = pending \cup {made + 1}
    /\ alive' = alive \cup {made + 1}
    /\ UNCHANGED <<engine, phase, script, expired, task, service, frame, registered>>

\* isWindowOpen, setWindowOpen and destroyWindow (which also forgets it).
TouchWindow(e, w) ==
    /\ Running(e) /\ binding.mode \in FrameModes /\ w \in registered
    /\ touched' = e
    /\ registered' \in {registered, registered \ {w}}
    /\ UNCHANGED <<engine, phase, script, expired, task, service, imgui, scopes, made, pending, alive>>

-----------------------------------------------------------------------------
(* The callers *)

\* onDraw shows the result of its callback; the IPC worker answers with its own.
Report(e) ==
    /\ e # "script" /\ phase[e] \in Results
    /\ phase' = [phase EXCEPT ![e] = "idle"]
    /\ UNCHANGED <<engine, script, expired, task, service, frame, windows>>

\* executeScript and reloadScript: a fresh token (reset by the last poll), and
\* Initialize on a new thread.
StartScript ==
    /\ phase["gui"] = "idle" /\ ~running
    /\ running' = TRUE
    /\ phase' = [phase EXCEPT !["script"] = "init"]
    /\ UNCHANGED <<engine, script, expired, cancel, service, frame, windows>>

StopScript ==
    /\ phase["gui"] = "idle" /\ running /\ ~cancel
    /\ cancel' = TRUE
    /\ UNCHANGED <<engine, phase, script, expired, running, service, frame, windows>>

\* pollScriptExecution with the future ready.
PollScript ==
    /\ phase["gui"] = "idle" /\ running /\ phase["script"] \in Results
    /\ running' = FALSE
    /\ cancel' = FALSE
    /\ phase' = [phase EXCEPT !["script"] = "idle"]
    /\ UNCHANGED <<engine, script, expired, service, frame, windows>>

\* runPendingTasks at the head of a frame; the window list takes the objects.
RunPendingTasks ==
    /\ phase["gui"] = "idle" /\ pending # {}
    /\ registered' = registered \cup pending
    /\ pending' = {}
    /\ touched' = "gui"
    /\ UNCHANGED <<engine, phase, script, expired, task, service, imgui, scopes, made, alive>>

\* mainLoop draws an open window that Lua made.
DrawWindow ==
    /\ phase["gui"] = "idle" /\ alive \ pending # {}
    /\ phase' = [phase EXCEPT !["gui"] = "drawing"]
    /\ UNCHANGED <<engine, script, expired, task, service, frame, windows>>

\* shutdown: ~LuaScriptWindow comes before the windows Lua made; it cancels...
CloseBegins ==
    /\ phase["gui"] = "idle"
    /\ registered' = registered \cup pending
    /\ pending' = {}
    /\ cancel' = (cancel \/ running)
    /\ phase' = [phase EXCEPT !["gui"] = "closing"]
    /\ UNCHANGED <<engine, script, expired, running, service, frame, made, alive>>

FutureReady == phase["script"] \in Results \cup {"idle"}

\* ... waits for the task, then runs what it posted and destroys the windows.
CloseReturns ==
    /\ phase["gui"] = "closing" /\ FutureReady
    /\ registered' = registered \cup pending
    /\ pending' = {}
    /\ alive' = {}
    /\ phase' = [phase EXCEPT !["gui"] = "closed"]
    /\ UNCHANGED <<engine, script, expired, task, service, frame, made>>

-----------------------------------------------------------------------------
(* The surroundings *)

\* An IPC request execute_lua, with the deadline of its timeout_seconds.
IpcRequest(e) ==
    /\ phase[e] = "idle"
    /\ phase' = [phase EXCEPT ![e] = "init"]
    /\ UNCHANGED <<engine, script, expired, task, service, frame, windows>>

\* A deadline passes.
Expire(e) ==
    /\ e # "script" /\ e \notin expired
    /\ phase[e] \in {"init", "enter", "run", "attached"}
    /\ expired' = expired \cup {e}
    /\ UNCHANGED <<engine, phase, script, task, service, frame, windows>>

\* Another thread selects a process, or connects anew.
OtherSelects ==
    /\ targets < MaxTargets
    /\ targets' = targets + 1
    /\ \/ device' = [device EXCEPT !.target = targets + 1]
       \/ device' = [gen |-> targets + 1, target |-> 0]
    /\ UNCHANGED <<engine, phase, script, expired, task, strayed, frame, windows>>

Init ==
    /\ mutex = "none" /\ initialized = FALSE /\ loaded = FALSE
    /\ binding = Unbound
    /\ phase = [e \in Executors |-> "idle"]
    /\ opened = 0 /\ told = 0 /\ shelter = "open"
    /\ expired = {}
    /\ cancel = FALSE /\ running = FALSE
    /\ device = [gen |-> 0, target |-> 0] /\ targets = 0
    /\ strayed = FALSE
    /\ imgui = <<>> /\ scopes = <<>> /\ touched = "gui"
    /\ made = 0 /\ pending = {} /\ registered = {} /\ alive = {}

Step(e) ==
    \/ Initialize(e) \/ LockTimeout(e) \/ RefusedEntry(e) \/ Execute(e)
    \/ Return(e) \/ Raise(e) \/ Interrupt(e) \/ Swallow(e) \/ Shelter(e)
    \/ Operate(e) \/ AttachOpens(e) \/ AttachFails(e) \/ AttachCommits(e)
    \/ \E kind \in Kinds : BeginScope(e, kind) \/ EndScope(e, kind)
    \/ CreateWindow(e)
    \/ \E w \in registered : TouchWindow(e, w)
    \/ Expire(e) \/ Report(e)

GuiStep ==
    \/ StartScript \/ StopScript \/ PollScript \/ RunPendingTasks
    \/ DrawWindow \/ FrameSkipped \/ InvokeGuiCallback
    \/ CloseBegins \/ CloseReturns

Next ==
    \/ \E e \in Executors : Step(e)
    \/ \E e \in Workers : IpcRequest(e)
    \/ GuiStep \/ OtherSelects

\* Threads run, time passes, and the hook fires in a script that stays where it
\* can reach it.  A script need not return, nor come out of a shelter.
Fairness ==
    /\ \A e \in Executors :
        /\ WF_vars(Expire(e)) /\ WF_vars(Interrupt(e)) /\ WF_vars(Swallow(e))
        /\ WF_vars(AttachCommits(e)) /\ WF_vars(LockTimeout(e)) /\ WF_vars(Report(e))
    /\ \A e \in Executors \ {"gui"} :
        SF_vars(Initialize(e)) /\ SF_vars(Execute(e) \/ RefusedEntry(e))
    /\ WF_vars(FrameSkipped \/ InvokeGuiCallback) /\ WF_vars(CloseReturns)

Spec == Init /\ [][Next]_vars
FairSpec == Spec /\ Fairness

-----------------------------------------------------------------------------
\* Every variable stays in its domain.
TypeOK ==
    /\ mutex \in Executors \cup {"none"}
    /\ {initialized, loaded, cancel, running} \subseteq BOOLEAN
    /\ phase \in [Executors -> Results \cup {"idle", "drawing", "init", "enter", "run", "attached",
                                           "closing", "closed"}]
    /\ binding.by = mutex
    /\ expired \subseteq Executors
    /\ {opened, told, device.gen, device.target} \subseteq 0..targets
    /\ targets \in 0..MaxTargets
    /\ shelter \in Shelters
    /\ made \in 0..MaxWindows
    /\ touched \in Executors

\* docs/api_design.md 4 "Lua": whoever moves the connection or the target in
\* between, what a script does to a process on the device happens to the target
\* the script was last told it has (its own at the start, or by a successful
\* attach), or does not happen (GetOperationContext, AttachProcess).  uxn.clear
\* is excepted: it is an operation on the whole device, with no target.
ActsWhereTold == ~strayed

\* The action of InterruptedNeverSucceeds.
HonestReports ==
    /\ \A e \in Executors : phase'[e] = "ok" /\ phase[e] # "ok" => ~Interrupted(e)
    /\ loaded' # loaded => ~cancel

\* A script that the token or the deadline has interrupted is never reported
\* (nor remembered in loadedScripts) as a success, even when it caught every
\* interruption itself (ExecutionInterruptionMessage).
InterruptedNeverSucceeds == [][HonestReports]_vars

\* ImGui and luaWindows, which no lock protects, are used by the GUI thread
\* alone, and a window that Lua can still name exists while Lua code that may
\* touch windows runs (GuardedImGuiDispatch, CreateWindow, Gui::shutdown).
WindowsOnGuiThread ==
    /\ touched = "gui"
    /\ (\E e \in {"gui", "script"} : phase[e] \in {"run", "attached"}) => registered \subseteq alive

\* Every scope open in ImGui is one that Lua's mirror knows, innermost last,
\* and whatever a callback did, the frame goes on with ImGui as it was before
\* (HasTopScope, EndFrameExecution, LuaImGuiErrorBoundary).
ScopesBalanced ==
    /\ imgui = scopes
    /\ mutex # "gui" => imgui = <<>>

\* The running script has been interrupted and is where the interruption does
\* not end it.
Evading == \E e \in Executors : Running(e) /\ Interrupted(e) /\ shelter # "open"

\* No script, however long, stops the frame: a draw that calls into Lua ends,
\* by skipping when the engine is busy and by its deadline otherwise, unless the
\* callback keeps evading the hook (InvokeGuiCallback).
FramesGoOn ==
    []<>Evading \/ (phase["gui"] \in {"drawing", "run", "attached"} ~> phase["gui"] = "idle")

\* Unless some script evades its interruption for ever (it catches the hook's
\* error in pcall again and again, or never comes back to code the hook sees):
\* a script that was told to stop ends, even if it runs an endless loop, catches
\* the error some times, or still waits for the engine behind others; and the
\* GUI, which waits for it, closes (LuaExecutionHook, stopScript,
\* ~LuaScriptWindow).
StopEnds ==
    \/ []<>Evading
    \/ /\ (cancel /\ running) ~> phase["script"] \in Results \cup {"idle"}
       /\ phase["gui"] = "closing" ~> phase["gui"] = "closed"
=============================================================================
