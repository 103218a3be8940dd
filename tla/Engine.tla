------------------------------- MODULE Engine -------------------------------
(***************************************************************************)
(* The state the device engine's worker threads share (ceserver/api.cpp):  *)
(* the memory backend g_memIO under g_globalMutex, the one kernel driver   *)
(* object all backends use, the handle table of porthelp.cpp with the      *)
(* CeOpenProcess records it points at, and the UXN breakpoints.            *)
(*                                                                         *)
(* A client session is a MAIN and a DEBUG connection, each with a worker.  *)
(* The client issues one command at a time on each; it may also give a     *)
(* session up while a worker is still busy and connect again (a timeout    *)
(* does exactly that), and then two workers of MAIN commands run side by   *)
(* side.  `abandoned' remembers that this has happened.                    *)
(*                                                                         *)
(* One code address stands for all UXN addresses.  Hardware breakpoints    *)
(* are the subject of HwBreakpoints, the bytes on the wire of              *)
(* WireProtocol, the threads themselves of ConnectionManager.              *)
(***************************************************************************)
EXTENDS Naturals

CONSTANTS
    Pids,             \* processes of the device
    MaxSessions,      \* bound: sessions the client opens
    MaxRecords,       \* bound: CeOpenProcess records ever created
    MaxCalls          \* bound: commands the client sends

ASSUME EngineAssumption ==
    /\ 0 \notin Pids
    /\ {MaxSessions, MaxRecords, MaxCalls} \subseteq Nat

Handles == 1..MaxRecords
Ports == {"MAIN", "DEBUG"}
Conns == (1..MaxSessions) \X Ports

VARIABLES
    worker,       \* each connection's worker: [pc, cmd, h, pid, gen]
    backend,      \* g_memIO: [type, pid, opened, gen]
    connected,    \* KernelDriver().IsConnected()
    loaded,       \* NI.ko is in the kernel
    reclaim,      \* g_kernelBreakpointForceReclaim
    table,        \* handles of m_HandlePointList
    records,      \* the CeOpenProcess record behind each handle
    armed,        \* processes with a UXN breakpoint in the kernel
    session,      \* the client's current session, 0 when disconnected
    sessions,     \* sessions opened so far
    target,       \* handle of the target the client has published, or 0
    calls,        \* commands sent
    abandoned     \* a session was given up with a worker still busy

apiVars == <<backend, connected, loaded, reclaim, table, records, armed>>
clientVars == <<session, sessions, target, calls, abandoned>>
vars == <<worker, apiVars, clientVars>>

Unborn == [pc |-> "none", cmd |-> "none", h |-> 0, pid |-> 0, gen |-> 0]
Idle == [Unborn EXCEPT !.pc = "idle"]
NoRecord == [pid |-> 0, listed |-> FALSE, state |-> "unused"]

Live(c) == c[1] = session
Busy(c) == worker[c].pc \notin {"none", "idle"}
KernelReady == backend.type = "Kernel" /\ connected

(***************************************************************************)
(* The memory backends.                                                    *)
(***************************************************************************)
\* The process whose memory a read reaches: the system backend goes by pid_,
\* the kernel backend by the process handle of the driver.
Reaches ==
    IF backend.type = "System" THEN backend.pid
    ELSE IF connected THEN backend.opened ELSE 0

\* Mutant: a backend that has a process already keeps it.
SystemOpenOnce(pid, ok) ==
    /\ backend' = [backend EXCEPT !.pid = IF @ = 0 THEN pid ELSE @]
    /\ UNCHANGED connected

\* AndroidMemorySys::OpenProcess: pid_ is taken over whether or not the
\* process is alive.
SystemOpen(pid, ok) ==
    /\ backend' = [backend EXCEPT !.pid = pid]
    /\ UNCHANGED connected

\* AndroidMemKernel::OpenProcess: nothing happens for the pid it tried last;
\* otherwise the driver is reconnected if need be and asked for a handle.
KernelOpen(pid, ok) ==
    IF pid = backend.pid
    THEN ok /\ UNCHANGED <<backend, connected>>
    ELSE LET connects == connected \/ (loaded /\ ok)
         IN  /\ ok => connects
             /\ connected' = connects
             /\ backend' = [backend EXCEPT !.pid = pid,
                                !.opened = IF ~connects THEN @ ELSE IF ok THEN pid ELSE 0]

BackendOpen(pid, ok) ==
    IF backend.type = "System" THEN SystemOpen(pid, ok) ELSE KernelOpen(pid, ok)

\* CloseHandle of either backend.
BackendClose == backend' = [backend EXCEPT !.pid = 0, !.opened = 0]

\* AndroidKernelDriver::Connect: a valid descriptor is kept; otherwise a new one
\* is opened, which needs the module.
DriverConnect(ok) ==
    /\ ok => connected \/ loaded
    /\ connected => ok
    /\ connected' = ok

\* ~AndroidMemKernel closes the descriptor all backends share.
DriverDisconnect == connected' = FALSE

(***************************************************************************)
(* Worker steps.                                                           *)
(***************************************************************************)
At(c, pc) == worker[c].pc = pc
Goto(c, pc) == worker' = [worker EXCEPT ![c].pc = pc]
Return(c) == worker' = [worker EXCEPT ![c] = Idle]

\* What a client that follows SystemMemService sends: MAIN carries everything
\* but the hit poll and the UXN wait; a target is opened when none is published.
Commands(port) ==
    IF port = "DEBUG"
    THEN {[cmd |-> "WAIT", h |-> 0, pid |-> 0]}
         \cup {[cmd |-> "HITS", h |-> target, pid |-> 0] : t \in {target} \ {0}}
    ELSE [cmd : {"INIT", "RECLAIM", "CLEAR"}, h : {0}, pid : {0}]
         \cup [cmd : {"OPEN"}, h : {0}, pid : IF target = 0 THEN Pids ELSE {}]
         \cup [cmd : {"CLOSE", "READ", "MODULES", "INSTALL", "REMOVE"},
               h : {target} \ {0}, pid : {0}]

\* WorkerThread: the next command byte and its arguments have arrived.
Receive(c) ==
    /\ Live(c) /\ At(c, "idle") /\ calls < MaxCalls
    /\ \E m \in Commands(c[2]) :
         /\ worker' = [worker EXCEPT ![c] =
                          [pc |-> m.cmd, cmd |-> m.cmd, h |-> m.h, pid |-> m.pid, gen |-> 0]]
         /\ target' = IF m.cmd = "CLOSE" THEN 0 ELSE target
    /\ calls' = calls + 1
    /\ UNCHANGED <<apiVars, session, sessions, abandoned>>

\* InitReadWriteDriver up to its reuse check, made under the shared lock.
InitCheck(c) ==
    /\ At(c, "INIT")
    /\ reclaim' = FALSE
    /\ IF KernelReady THEN Return(c) ELSE Goto(c, "init.connect")
    /\ UNCHANGED <<backend, connected, loaded, table, records, armed, clientVars>>

\* A new AndroidMemKernel connects to a driver that is already loaded.
InitConnect(c) ==
    /\ At(c, "init.connect")
    /\ \E ok \in BOOLEAN :
         /\ DriverConnect(ok)
         /\ Goto(c, IF ok THEN "init.install" ELSE "init.load")
    /\ UNCHANGED <<backend, loaded, reclaim, table, records, armed, clientVars>>

\* NI.ko is looked for and loaded; an error return destroys the new backend.
InitLoad(c) ==
    /\ At(c, "init.load")
    /\ \/ loaded' = TRUE /\ Goto(c, "init.reconnect")
       \/ UNCHANGED loaded /\ Return(c)
    /\ DriverDisconnect
    /\ UNCHANGED <<backend, reclaim, table, records, armed, clientVars>>

\* A fresh AndroidMemKernel connects to the module just loaded.
InitReconnect(c) ==
    /\ At(c, "init.reconnect")
    /\ \E ok \in BOOLEAN :
         /\ DriverConnect(ok)
         /\ IF ok THEN Goto(c, "init.install") ELSE Return(c)
    /\ UNCHANGED <<backend, loaded, reclaim, table, records, armed, clientVars>>

\* Mutant: the new backend is moved in under the shared lock.
SharedLock == TRUE

\* No reader holds g_globalMutex.
Exclusive == \A c \in Conns : ~At(c, "reading")

\* g_memIO = std::move(memKernel) under the unique lock; the old backend dies.
InitInstall(c) ==
    /\ At(c, "init.install") /\ Exclusive
    /\ IF backend.type = "Kernel" THEN DriverDisconnect ELSE UNCHANGED connected
    /\ backend' = [type |-> "Kernel", pid |-> 0, opened |-> 0, gen |-> backend.gen + 1]
    /\ Return(c)
    /\ UNCHANGED <<loaded, reclaim, table, records, armed, clientVars>>

\* SetKernelBreakpointForceReclaim.
Reclaim(c) ==
    /\ At(c, "RECLAIM")
    /\ reclaim' \in IF KernelReady THEN BOOLEAN ELSE {FALSE}
    /\ Return(c)
    /\ UNCHANGED <<backend, connected, loaded, table, records, armed, clientVars>>

\* Mutant: closed handles are found as well.
HandlesOfAny(pid) == {h \in Handles : records[h].pid = pid}

\* FindHandleByPID looks through the records of the process handles.
HandlesOf(pid) == {h \in table : records[h].pid = pid}

\* OpenProcess looks for an existing handle.  (ReferenceCount, counted up here,
\* is read nowhere.)
OpenFind(c) ==
    /\ At(c, "OPEN")
    /\ \E h \in IF HandlesOf(worker[c].pid) = {} THEN {0} ELSE HandlesOf(worker[c].pid) :
         worker' = [worker EXCEPT ![c] = [@ EXCEPT !.pc = "open.backend", !.h = h]]
    /\ UNCHANGED <<apiVars, clientVars>>

\* OpenProcess returns handle h (0: refused) to the client.
Opened(c, h) ==
    /\ Return(c)
    /\ target' = IF Live(c) THEN h ELSE target

\* OpenProcess asks the backend; for a known handle its answer is not looked at.
OpenBackend(c) ==
    /\ At(c, "open.backend")
    /\ \E ok \in BOOLEAN :
         /\ BackendOpen(worker[c].pid, ok)
         /\ IF worker[c].h # 0 \/ ~ok
            THEN Opened(c, worker[c].h)
            ELSE Goto(c, "open.record") /\ UNCHANGED target
    /\ UNCHANGED <<loaded, reclaim, table, records, armed, session, sessions,
                   calls, abandoned>>

\* OpenProcess makes the record and CreateHandleFromPointer a fresh handle.
OpenRecord(c) ==
    /\ At(c, "open.record")
    /\ \E h \in Handles :
         /\ records[h].state = "unused" /\ \A k \in 1..(h - 1) : records[k].state # "unused"
         /\ records' = [records EXCEPT ![h] =
                           [NoRecord EXCEPT !.pid = worker[c].pid, !.state = "alive"]]
         /\ table' = table \cup {h}
         /\ Opened(c, h)
    /\ UNCHANGED <<backend, connected, loaded, reclaim, armed, session, sessions,
                   calls, abandoned>>

\* CloseHandle: the record's UXN list is emptied and its breakpoints removed.
CloseUxn(c) ==
    /\ At(c, "CLOSE")
    /\ LET r == records[worker[c].h] IN
       IF worker[c].h \notin table
       THEN Return(c) /\ UNCHANGED <<records, armed>>
       ELSE /\ records' = [records EXCEPT ![worker[c].h].listed = FALSE]
            /\ armed' = IF r.listed /\ connected THEN armed \ {r.pid} ELSE armed
            /\ Goto(c, "close.backend")
    /\ UNCHANGED <<backend, connected, loaded, reclaim, table, clientVars>>

\* CloseHandle: the backend lets go of its process, whichever that is.
CloseBackend(c) ==
    /\ At(c, "close.backend")
    /\ BackendClose
    /\ Goto(c, "close.free")
    /\ UNCHANGED <<connected, loaded, reclaim, table, records, armed, clientVars>>

\* CloseHandle: delete pOpenProcess.
CloseFree(c) ==
    /\ At(c, "close.free")
    /\ records' = [records EXCEPT ![worker[c].h].state = "freed"]
    /\ Goto(c, "close.remove")
    /\ UNCHANGED <<backend, connected, loaded, reclaim, table, armed, clientVars>>

\* Mutant: the handle stays in the table after the delete.
CloseRemoveForgets(c) ==
    /\ At(c, "close.remove")
    /\ Return(c)
    /\ UNCHANGED <<apiVars, clientVars>>

\* CloseHandle: RemoveHandle, only now.
CloseRemove(c) ==
    /\ At(c, "close.remove")
    /\ table' = table \ {worker[c].h}
    /\ Return(c)
    /\ UNCHANGED <<backend, connected, loaded, reclaim, records, armed, clientVars>>

\* ReadProcessMemory and its batch forms check the handle, the module snapshot
\* looks for one of the pid; both then hold g_globalMutex shared and use g_memIO.
ReadBegin(c) ==
    /\ worker[c].pc \in {"READ", "MODULES"}
    /\ IF worker[c].h \in table
       THEN worker' = [worker EXCEPT ![c].pc = "reading", ![c].gen = backend.gen]
       ELSE Return(c)
    /\ UNCHANGED <<apiVars, clientVars>>

ReadEnd(c) ==
    /\ At(c, "reading")
    /\ Return(c)
    /\ UNCHANGED <<apiVars, clientVars>>

\* ReadHwBpInfo takes the record's address from the table and then uses it.
HitsLookup(c) ==
    /\ At(c, "HITS")
    /\ IF worker[c].h \in table THEN Goto(c, "hits.use") ELSE Return(c)
    /\ UNCHANGED <<apiVars, clientVars>>

HitsUse(c) ==
    /\ At(c, "hits.use")
    /\ Return(c)
    /\ UNCHANGED <<apiVars, clientVars>>

\* GetUxnProcess and IsUxnDriverReady of the UXN commands.
UxnReady(c) ==
    /\ worker[c].pc \in {"INSTALL", "REMOVE", "CLEAR"}
    /\ IF KernelReady /\ (worker[c].h \in table \/ worker[c].cmd = "CLEAR")
       THEN Goto(c, "uxn.driver")
       ELSE Return(c)
    /\ UNCHANGED <<apiVars, clientVars>>

\* InstallUxnBreakpoint: the driver arms it, or refuses, or answers for another
\* breakpoint and is told to remove this one again.
UxnArm(c) ==
    /\ At(c, "uxn.driver") /\ worker[c].cmd = "INSTALL"
    /\ \/ connected /\ armed' = armed \cup {records[worker[c].h].pid} /\ Goto(c, "uxn.list")
       \/ UNCHANGED armed /\ Return(c)
    /\ UNCHANGED <<backend, connected, loaded, reclaim, table, records, clientVars>>

\* InstallUxnBreakpoint: mUxnBpList of the record.
UxnList(c) ==
    /\ At(c, "uxn.list")
    /\ records' = [records EXCEPT ![worker[c].h].listed = TRUE]
    /\ Return(c)
    /\ UNCHANGED <<backend, connected, loaded, reclaim, table, armed, clientVars>>

\* RemoveUxnBreakpoint: removed or unknown to the kernel means off the list; any
\* other failure keeps it there.
UxnRemove(c) ==
    /\ At(c, "uxn.driver") /\ worker[c].cmd = "REMOVE"
    /\ \/ /\ connected
          /\ armed' = armed \ {records[worker[c].h].pid}
          /\ records' = [records EXCEPT ![worker[c].h].listed = FALSE]
       \/ UNCHANGED <<armed, records>>
    /\ Return(c)
    /\ UNCHANGED <<backend, connected, loaded, reclaim, table, clientVars>>

\* ClearUxnBreakpoints: the kernel forgets all of them, the lists stay.
UxnClear(c) ==
    /\ At(c, "uxn.driver") /\ worker[c].cmd = "CLEAR"
    /\ armed' \in {armed} \cup IF connected THEN {{}} ELSE {}
    /\ Return(c)
    /\ UNCHANGED <<backend, connected, loaded, reclaim, table, records, clientVars>>

\* WaitUxnBreakpoint waits on a descriptor of its own, at most 60 s.
UxnWaitEnds(c) ==
    /\ At(c, "WAIT")
    /\ Return(c)
    /\ UNCHANGED <<apiVars, clientVars>>

(***************************************************************************)
(* The client.                                                             *)
(***************************************************************************)
\* ConnectServer opens both ports of a session.
ClientConnects ==
    /\ session = 0 /\ sessions < MaxSessions
    /\ session' = sessions + 1 /\ sessions' = sessions + 1
    /\ worker' = [c \in Conns |-> IF c[1] = sessions + 1 THEN Idle ELSE worker[c]]
    /\ UNCHANGED <<apiVars, target, calls, abandoned>>

\* CloseServer on both ports, after an error, a timeout or by the user; nothing
\* is closed on the device first, and a busy worker finishes its command.
ClientCloses ==
    /\ session # 0
    /\ session' = 0 /\ target' = 0
    /\ abandoned' = (abandoned \/ \E p \in Ports : Busy(<<session, p>>))
    /\ UNCHANGED <<worker, apiVars, sessions, calls>>

Init ==
    /\ worker = [c \in Conns |-> Unborn]
    /\ backend = [type |-> "System", pid |-> 0, opened |-> 0, gen |-> 0]
    /\ connected = FALSE /\ loaded \in BOOLEAN /\ reclaim = FALSE
    /\ table = {} /\ records = [h \in Handles |-> NoRecord] /\ armed = {}
    /\ session = 0 /\ sessions = 0 /\ target = 0 /\ calls = 0 /\ abandoned = FALSE

WorkerStep(c) ==
    \/ InitCheck(c) \/ InitConnect(c) \/ InitLoad(c) \/ InitReconnect(c) \/ InitInstall(c)
    \/ Reclaim(c) \/ OpenFind(c) \/ OpenBackend(c) \/ OpenRecord(c)
    \/ CloseUxn(c) \/ CloseBackend(c) \/ CloseFree(c) \/ CloseRemove(c)
    \/ ReadBegin(c) \/ ReadEnd(c) \/ HitsLookup(c) \/ HitsUse(c)
    \/ UxnReady(c) \/ UxnArm(c) \/ UxnList(c) \/ UxnRemove(c) \/ UxnClear(c)
    \/ UxnWaitEnds(c)

Next ==
    \/ \E c \in Conns : Receive(c) \/ WorkerStep(c)
    \/ ClientConnects \/ ClientCloses

Spec == Init /\ [][Next]_vars

-----------------------------------------------------------------------------
\* Every variable stays in its domain.
TypeOK ==
    /\ {connected, loaded, reclaim, abandoned} \subseteq BOOLEAN
    /\ DOMAIN worker = Conns
    /\ backend \in [type : {"System", "Kernel"}, pid : Pids \cup {0}, opened : Pids \cup {0},
                    gen : Nat]
    /\ table \subseteq Handles
    /\ records \in [Handles -> [pid : Pids \cup {0}, listed : BOOLEAN,
                                state : {"unused", "alive", "freed"}]]
    /\ armed \subseteq Pids
    /\ session \in 0..MaxSessions /\ sessions \in 0..MaxSessions
    /\ target \in Handles \cup {0} /\ calls \in 0..MaxCalls

\* A worker reading through g_memIO never has the backend destroyed under it:
\* the swap of InitReadWriteDriver waits for every shared holder of g_globalMutex,
\* in whatever order sessions are given up and opened.
BackendAliveWhileUsed ==
    \A c \in Conns : At(c, "reading") => worker[c].gen = backend.gen

\* As long as no session is given up in the middle of a command, a read through a
\* handle reaches the process of that handle or none, although the backend keeps
\* a single current process and ignores the handle (ReadProcessMemory).
ReadsOwnProcess ==
    ~abandoned =>
        \A c \in Conns : At(c, "reading") =>
            Reaches \in {0, records[worker[c].h].pid}

\* As long as no session is given up in the middle of a command, a UXN breakpoint
\* in the kernel is on the list of a live record that CloseHandle will empty, or
\* the worker that armed it is about to put it there.
UxnListed ==
    ~abandoned =>
        \A p \in armed :
            \/ \E h \in table : records[h].pid = p /\ records[h].listed
            \/ \E c \in Conns : At(c, "uxn.list") /\ records[worker[c].h].pid = p

\* A handle in the table points at a live record, except inside the CloseHandle
\* call that has just deleted the record (FindHandleByPID dereferences them all).
TableNamesLiveRecords ==
    \A h \in table :
        \/ records[h].state = "alive"
        \/ \E c \in Conns : At(c, "close.remove") /\ worker[c].h = h

\* As long as no session is given up in the middle of a command, the handle the
\* client works with is open and its record alive, although handles outlive
\* sessions and CloseHandle frees a record however often it was opened.
PublishedHandleIsLive ==
    ~abandoned => (target # 0 => target \in table /\ records[target].state = "alive")

\* As long as no session is given up in the middle of a command, reclaiming of
\* foreign breakpoint slots is on only while the kernel driver is in use.
ReclaimNeedsKernel == ~abandoned => (reclaim => KernelReady)

\* The comment at InitReadWriteDriver's reuse check: a backend of the kernel type
\* always has its driver connected, because the check keeps a second
\* initialization from destroying the backend in use.
KernelModeIsConnected == backend.type = "Kernel" => connected

=============================================================================
