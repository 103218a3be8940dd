---------------------------- MODULE EngineProofs ----------------------------
(***************************************************************************)
(* The safety of the engine's shared state for any number of processes,    *)
(* sessions, handles and commands.  What holds in every interleaving needs *)
(* only facts about single workers; what holds while no session is given   *)
(* up in the middle of a command rests on there being one MAIN worker.     *)
(***************************************************************************)
EXTENDS Engine, TLAPS

(* Where a worker is. *)
Initializing == {"init.connect", "init.load", "init.reconnect", "init.install"}
Opening      == {"OPEN", "open.backend", "open.record"}
Closing      == {"close.backend", "close.free", "close.remove"}
Using        == {"READ", "MODULES", "INSTALL", "REMOVE", "reading"}
Driving      == {"uxn.driver", "uxn.list"}
MainPcs      == {"INIT", "RECLAIM", "CLEAR", "CLOSE"} \cup Initializing \cup Opening
                    \cup Closing \cup Using \cup Driving

Pcs          == {"none", "idle", "WAIT", "HITS", "hits.use"} \cup MainPcs
CmdNames     == {"none", "WAIT", "HITS", "INIT", "RECLAIM", "CLEAR", "OPEN", "CLOSE", "READ",
                 "MODULES", "INSTALL", "REMOVE"}

Workers == [pc : Pcs, cmd : CmdNames, h : Handles \cup {0}, pid : Pids \cup {0}, gen : Nat]

Backends == [type : {"System", "Kernel"}, pid : Pids \cup {0}, opened : Pids \cup {0}, gen : Nat]
Records == [pid : Pids \cup {0}, listed : BOOLEAN, state : {"unused", "alive", "freed"}]

Shared ==
    /\ connected \in BOOLEAN /\ loaded \in BOOLEAN /\ reclaim \in BOOLEAN /\ abandoned \in BOOLEAN
    /\ backend \in Backends
    /\ table \subseteq Handles
    /\ records \in [Handles -> Records]
    /\ armed \subseteq Pids
    /\ session \in 0..MaxSessions /\ sessions \in 0..MaxSessions /\ session <= sessions
    /\ target \in Handles \cup {0} /\ calls \in 0..MaxCalls

Typed == worker \in [Conns -> Workers] /\ Shared

\* The command works through the record of its handle.
OnHandle(c) ==
    \/ worker[c].pc \in {"CLOSE", "uxn.list"} \cup Closing \cup Using
    \/ worker[c].pc = "uxn.driver" /\ worker[c].cmd # "CLEAR"

\* What holds of a worker by itself: it exists once its session does, its port
\* decides what it executes, and its arguments are those of its command.
WorkerOK(c) ==
    /\ c[1] > sessions => worker[c] = Unborn
    /\ worker[c].pc \in MainPcs => c[2] = "MAIN"
    /\ worker[c].pc = "CLEAR" => worker[c].cmd = "CLEAR"
    /\ worker[c].pc \in Opening => worker[c].pid \in Pids
    /\ OnHandle(c) => worker[c].h \in Handles /\ records[worker[c].h].state # "unused"

\* A handle that is in use anywhere was given a record of a process.
RecordsOK ==
    /\ \A h \in Handles : records[h].state # "unused" => records[h].pid \in Pids
    /\ \A h \in table : records[h].state # "unused"
    /\ target # 0 => records[target].state # "unused"
    /\ \A c \in Conns : worker[c].pc = "open.backend" /\ worker[c].h # 0
          => records[worker[c].h].state # "unused"

EngineInv ==
    /\ Typed
    /\ \A c \in Conns : WorkerOK(c)
    /\ RecordsOK
    /\ BackendAliveWhileUsed
    /\ TableNamesLiveRecords

-----------------------------------------------------------------------------
\* Every location a worker can be at is one of Pcs.
LEMMA PcNames ==
  /\ "none" \in Pcs
  /\ "idle" \in Pcs
  /\ "WAIT" \in Pcs
  /\ "HITS" \in Pcs
  /\ "hits.use" \in Pcs
  /\ "INIT" \in Pcs
  /\ "RECLAIM" \in Pcs
  /\ "CLEAR" \in Pcs
  /\ "CLOSE" \in Pcs
  /\ "init.connect" \in Pcs
  /\ "init.load" \in Pcs
  /\ "init.reconnect" \in Pcs
  /\ "init.install" \in Pcs
  /\ "OPEN" \in Pcs
  /\ "open.backend" \in Pcs
  /\ "open.record" \in Pcs
  /\ "close.backend" \in Pcs
  /\ "close.free" \in Pcs
  /\ "close.remove" \in Pcs
  /\ "READ" \in Pcs
  /\ "MODULES" \in Pcs
  /\ "INSTALL" \in Pcs
  /\ "REMOVE" \in Pcs
  /\ "reading" \in Pcs
  /\ "uxn.driver" \in Pcs
  /\ "uxn.list" \in Pcs
  /\ "none" \in CmdNames
BY DEF Pcs, MainPcs, Initializing, Opening, Closing, Using, Driving, CmdNames

\* A worker's step changes that worker only, and leaves it well formed.
LEMMA WorkerShape ==
  ASSUME Typed, NEW c \in Conns, WorkerStep(c)
  PROVE  /\ worker' \in [Conns -> Workers]
         /\ \A d \in Conns : d # c => worker'[d] = worker[d]
PROOF
<1>. USE PcNames DEF Typed, Shared, Backends, Workers, At, Goto, Return, Idle, Unborn,
   KernelReady, apiVars, clientVars
<1>1. CASE InitCheck(c)
  BY <1>1 DEF InitCheck
<1>2. CASE InitConnect(c)
  BY <1>2 DEF InitConnect, DriverConnect
<1>3. CASE InitLoad(c)
  BY <1>3 DEF InitLoad, DriverDisconnect
<1>4. CASE InitReconnect(c)
  BY <1>4 DEF InitReconnect, DriverConnect
<1>5. CASE InitInstall(c)
  BY <1>5 DEF InitInstall, Exclusive, DriverDisconnect
<1>6. CASE Reclaim(c)
  BY <1>6 DEF Reclaim
<1>7. CASE OpenFind(c)
  <2>1. PICK h \in Handles \cup {0} :
           worker' = [worker EXCEPT ![c] = [@ EXCEPT !.pc = "open.backend", !.h = h]]
    BY <1>7 DEF OpenFind, HandlesOf
  <2>2. QED
    BY <2>1
<1>8. CASE OpenBackend(c)
  BY <1>8 DEF OpenBackend, BackendOpen, SystemOpen, KernelOpen, Opened
<1>9. CASE OpenRecord(c)
  BY <1>9 DEF OpenRecord, Opened, NoRecord
<1>10. CASE CloseUxn(c)
  <2>1. \/ worker' = [worker EXCEPT ![c] = Idle]
        \/ worker' = [worker EXCEPT ![c].pc = "close.backend"]
    BY <1>10 DEF CloseUxn
  <2>2. QED
    BY <2>1
<1>11. CASE CloseBackend(c)
  BY <1>11 DEF CloseBackend, BackendClose
<1>12. CASE CloseFree(c)
  BY <1>12 DEF CloseFree
<1>13. CASE CloseRemove(c)
  BY <1>13 DEF CloseRemove
<1>14. CASE ReadBegin(c)
  BY <1>14 DEF ReadBegin
<1>15. CASE ReadEnd(c)
  BY <1>15 DEF ReadEnd
<1>16. CASE HitsLookup(c)
  BY <1>16 DEF HitsLookup
<1>17. CASE HitsUse(c)
  BY <1>17 DEF HitsUse
<1>18. CASE UxnReady(c)
  BY <1>18 DEF UxnReady
<1>19. CASE UxnArm(c)
  BY <1>19 DEF UxnArm
<1>20. CASE UxnList(c)
  BY <1>20 DEF UxnList
<1>21. CASE UxnRemove(c)
  BY <1>21 DEF UxnRemove
<1>22. CASE UxnClear(c)
  BY <1>22 DEF UxnClear
<1>23. CASE UxnWaitEnds(c)
  BY <1>23 DEF UxnWaitEnds
<1>24. QED
  BY <1>1, <1>2, <1>3, <1>4, <1>5, <1>6, <1>7, <1>8, <1>9, <1>10, <1>11, <1>12, <1>13,
     <1>14, <1>15, <1>16, <1>17, <1>18, <1>19, <1>20, <1>21, <1>22, <1>23 DEF WorkerStep

\* A worker's step keeps the state the workers share in its domain.
LEMMA SharedStep ==
  ASSUME NEW c \in Conns, Typed, RecordsOK, WorkerOK(c), WorkerStep(c)
  PROVE  Shared'
PROOF
<1>. USE EngineAssumption DEF Typed, Shared, At, KernelReady, apiVars, clientVars
<1>a. /\ worker[c].pid \in Pids \cup {0} /\ worker[c].h \in Handles \cup {0}
      /\ worker[c].pc \in Opening => worker[c].pid \in Pids
      /\ OnHandle(c) => worker[c].h \in Handles /\ records[worker[c].h].pid \in Pids
  BY DEF WorkerOK, RecordsOK, Workers
<1>1. CASE InitCheck(c)
  BY <1>1, <1>a DEF InitCheck
<1>2. CASE InitConnect(c)
  BY <1>2, <1>a DEF InitConnect, DriverConnect
<1>3. CASE InitLoad(c)
  BY <1>3, <1>a DEF InitLoad, DriverDisconnect
<1>4. CASE InitReconnect(c)
  BY <1>4, <1>a DEF InitReconnect, DriverConnect
<1>5. CASE InitInstall(c)
  <2>1. backend' \in Backends
    BY <1>5 DEF InitInstall, Backends
  <2>2. connected' \in BOOLEAN
    BY <1>5 DEF InitInstall, DriverDisconnect
  <2>3. QED
    BY <1>5, <2>1, <2>2 DEF InitInstall
<1>6. CASE Reclaim(c)
  BY <1>6, <1>a DEF Reclaim
<1>7. CASE OpenFind(c)
  BY <1>7, <1>a DEF OpenFind, HandlesOf
<1>8. CASE OpenBackend(c)
  <2>1. PICK ok \in BOOLEAN : BackendOpen(worker[c].pid, ok)
    BY <1>8 DEF OpenBackend
  <2>2. backend' \in Backends /\ connected' \in BOOLEAN
    <3>1. CASE backend.type = "System"
      BY <1>a, <2>1, <3>1 DEF BackendOpen, SystemOpen, Backends
    <3>2. CASE backend.type # "System"
      BY <1>a, <2>1, <3>2 DEF BackendOpen, KernelOpen, Backends
    <3>3. QED
      BY <3>1, <3>2
  <2>3. target' = target \/ target' = worker[c].h
    BY <1>8 DEF OpenBackend, Opened
  <2>4. QED
    BY <1>8, <1>a, <2>2, <2>3 DEF OpenBackend
<1>9. CASE OpenRecord(c)
  <2>1. worker[c].pid \in Pids
    BY <1>9, <1>a DEF OpenRecord, Opening
  <2>2. PICK h \in Handles :
           /\ records' = [records EXCEPT ![h] =
                             [NoRecord EXCEPT !.pid = worker[c].pid, !.state = "alive"]]
           /\ table' = table \cup {h}
           /\ target' = IF Live(c) THEN h ELSE target
    BY <1>9 DEF OpenRecord, Opened
  <2>3. [NoRecord EXCEPT !.pid = worker[c].pid, !.state = "alive"] \in Records
    BY <2>1 DEF NoRecord, Records
  <2>4. QED
    BY <1>9, <2>2, <2>3 DEF OpenRecord
<1>10. CASE CloseUxn(c)
  <2>1. records' = records \/ records' = [records EXCEPT ![worker[c].h].listed = FALSE]
    BY <1>10 DEF CloseUxn
  <2>2. records' \in [Handles -> Records]
    BY <2>1 DEF Records
  <2>3. armed' \subseteq armed
    BY <1>10 DEF CloseUxn
  <2>4. QED
    BY <1>10, <2>2, <2>3 DEF CloseUxn
<1>11. CASE CloseBackend(c)
  <2>1. backend' \in Backends
    BY <1>11 DEF CloseBackend, BackendClose, Backends
  <2>2. QED
    BY <1>11, <2>1 DEF CloseBackend
<1>12. CASE CloseFree(c)
  <2>1. records' \in [Handles -> Records]
    BY <1>12 DEF CloseFree, Records
  <2>2. QED
    BY <1>12, <2>1 DEF CloseFree
<1>13. CASE CloseRemove(c)
  BY <1>13, <1>a DEF CloseRemove
<1>14. CASE ReadBegin(c)
  BY <1>14, <1>a DEF ReadBegin
<1>15. CASE ReadEnd(c)
  BY <1>15, <1>a DEF ReadEnd
<1>16. CASE HitsLookup(c)
  BY <1>16, <1>a DEF HitsLookup
<1>17. CASE HitsUse(c)
  BY <1>17, <1>a DEF HitsUse
<1>18. CASE UxnReady(c)
  BY <1>18, <1>a DEF UxnReady
<1>19. CASE UxnArm(c)
  <2>1. records[worker[c].h].pid \in Pids
    BY <1>19, <1>a DEF UxnArm, OnHandle
  <2>2. QED
    BY <1>19, <2>1 DEF UxnArm
<1>20. CASE UxnList(c)
  <2>1. records' \in [Handles -> Records]
    BY <1>20 DEF UxnList, Records
  <2>2. QED
    BY <1>20, <2>1 DEF UxnList
<1>21. CASE UxnRemove(c)
  <2>1. records' = records \/ records' = [records EXCEPT ![worker[c].h].listed = FALSE]
    BY <1>21 DEF UxnRemove
  <2>2. records' \in [Handles -> Records]
    BY <2>1 DEF Records
  <2>3. armed' \subseteq armed
    BY <1>21 DEF UxnRemove
  <2>4. QED
    BY <1>21, <2>2, <2>3 DEF UxnRemove
<1>22. CASE UxnClear(c)
  BY <1>22, <1>a DEF UxnClear
<1>23. CASE UxnWaitEnds(c)
  BY <1>23, <1>a DEF UxnWaitEnds
<1>24. QED
  BY <1>1, <1>2, <1>3, <1>4, <1>5, <1>6, <1>7, <1>8, <1>9, <1>10, <1>11, <1>12, <1>13,
     <1>14, <1>15, <1>16, <1>17, <1>18, <1>19, <1>20, <1>21, <1>22, <1>23 DEF WorkerStep

\* A record, once made, stays the record of its process; sessions are the
\* client's business.
LEMMA RecordsGrow ==
  ASSUME NEW c \in Conns, Typed, WorkerStep(c)
  PROVE  /\ sessions' = sessions /\ session' = session /\ abandoned' = abandoned
         /\ \A h \in Handles : records[h].state # "unused" =>
               records'[h].state # "unused" /\ records'[h].pid = records[h].pid
PROOF
<1>. USE DEF Typed, Shared, Records
<1>1. sessions' = sessions /\ session' = session /\ abandoned' = abandoned
  BY DEF WorkerStep, InitCheck, InitConnect, InitLoad, InitReconnect, InitInstall, Reclaim,
     OpenFind, OpenBackend, OpenRecord, CloseUxn, CloseBackend, CloseFree, CloseRemove, ReadBegin,
     ReadEnd, HitsLookup, HitsUse, UxnReady, UxnArm, UxnList, UxnRemove, UxnClear, UxnWaitEnds,
     apiVars, clientVars
<1>2. CASE records' = records
  BY <1>1, <1>2
<1>3. CASE OpenRecord(c)
  BY <1>1, <1>3 DEF OpenRecord
<1>4. CASE CloseFree(c)
  BY <1>1, <1>4 DEF CloseFree
<1>5. CASE \E b \in BOOLEAN : records' = [records EXCEPT ![worker[c].h].listed = b]
  BY <1>1, <1>5
<1>6. QED
  BY <1>2, <1>3, <1>4, <1>5 DEF WorkerStep, InitCheck, InitConnect, InitLoad, InitReconnect,
     InitInstall, Reclaim,
     OpenFind, OpenBackend, OpenRecord, CloseUxn, CloseBackend, CloseFree, CloseRemove, ReadBegin,
     ReadEnd, HitsLookup, HitsUse, UxnReady, UxnArm, UxnList, UxnRemove, UxnClear, UxnWaitEnds,
     apiVars, clientVars

\* A worker moves on inside its command, with that command's arguments.
LEMMA OwnStep ==
  ASSUME NEW c \in Conns, Typed, RecordsOK, WorkerOK(c), WorkerStep(c)
  PROVE  WorkerOK(c)'
PROOF
<1>. USE DEF At, Goto, Return, Idle, Unborn, MainPcs, Initializing, Opening, Closing, Using,
   Driving,
        WorkerOK, OnHandle, Workers
<1>a. /\ worker' \in [Conns -> Workers] /\ worker \in [Conns -> Workers]
      /\ sessions' = sessions
      /\ \A h \in Handles : records[h].state # "unused" => records'[h].state # "unused"
  BY WorkerShape, RecordsGrow DEF Typed
<1>1. CASE InitCheck(c)
  BY <1>1, <1>a DEF InitCheck
<1>2. CASE InitConnect(c)
  BY <1>2, <1>a DEF InitConnect, DriverConnect
<1>3. CASE InitLoad(c)
  BY <1>3, <1>a DEF InitLoad, DriverDisconnect
<1>4. CASE InitReconnect(c)
  BY <1>4, <1>a DEF InitReconnect, DriverConnect
<1>5. CASE InitInstall(c)
  BY <1>5, <1>a DEF InitInstall, Exclusive, DriverDisconnect
<1>6. CASE Reclaim(c)
  BY <1>6, <1>a DEF Reclaim
<1>7. CASE OpenFind(c)
  BY <1>7, <1>a DEF OpenFind, HandlesOf
<1>8. CASE OpenBackend(c)
  BY <1>8, <1>a DEF OpenBackend, BackendOpen, SystemOpen, KernelOpen, Opened
<1>9. CASE OpenRecord(c)
  BY <1>9, <1>a DEF OpenRecord, Opened, NoRecord
<1>10. CASE CloseUxn(c)
  BY <1>10, <1>a DEF CloseUxn
<1>11. CASE CloseBackend(c)
  BY <1>11, <1>a DEF CloseBackend, BackendClose
<1>12. CASE CloseFree(c)
  BY <1>12, <1>a DEF CloseFree
<1>13. CASE CloseRemove(c)
  BY <1>13, <1>a DEF CloseRemove
<1>14. CASE ReadBegin(c)
  BY <1>14, <1>a DEF ReadBegin
<1>15. CASE ReadEnd(c)
  BY <1>15, <1>a DEF ReadEnd
<1>16. CASE HitsLookup(c)
  BY <1>16, <1>a DEF HitsLookup
<1>17. CASE HitsUse(c)
  BY <1>17, <1>a DEF HitsUse
<1>18. CASE UxnReady(c)
  BY <1>18, <1>a DEF UxnReady
<1>19. CASE UxnArm(c)
  BY <1>19, <1>a DEF UxnArm
<1>20. CASE UxnList(c)
  BY <1>20, <1>a DEF UxnList
<1>21. CASE UxnRemove(c)
  BY <1>21, <1>a DEF UxnRemove
<1>22. CASE UxnClear(c)
  BY <1>22, <1>a DEF UxnClear
<1>23. CASE UxnWaitEnds(c)
  BY <1>23, <1>a DEF UxnWaitEnds
<1>24. QED
  BY <1>1, <1>2, <1>3, <1>4, <1>5, <1>6, <1>7, <1>8, <1>9, <1>10, <1>11, <1>12, <1>13,
     <1>14, <1>15, <1>16, <1>17, <1>18, <1>19, <1>20, <1>21, <1>22, <1>23 DEF WorkerStep

\* Only the lookup of a handle leads to the backend of OpenProcess, and only a
\* lookup in the table to a read.
LEMMA Lands ==
  ASSUME NEW c \in Conns, Typed, WorkerStep(c)
  PROVE  /\ worker'[c].pc = "open.backend" => OpenFind(c)
         /\ worker'[c].pc = "reading" => ReadBegin(c)
PROOF
<1>. USE DEF Typed, Workers, At, Goto, Return, Idle, Unborn
<1>1. CASE InitCheck(c)
  BY <1>1 DEF InitCheck
<1>2. CASE InitConnect(c)
  BY <1>2 DEF InitConnect, DriverConnect
<1>3. CASE InitLoad(c)
  BY <1>3 DEF InitLoad, DriverDisconnect
<1>4. CASE InitReconnect(c)
  BY <1>4 DEF InitReconnect, DriverConnect
<1>5. CASE InitInstall(c)
  BY <1>5 DEF InitInstall, Exclusive, DriverDisconnect
<1>6. CASE Reclaim(c)
  BY <1>6 DEF Reclaim
<1>7. CASE OpenFind(c)
  BY <1>7 DEF OpenFind, HandlesOf
<1>8. CASE OpenBackend(c)
  BY <1>8 DEF OpenBackend, BackendOpen, SystemOpen, KernelOpen, Opened
<1>9. CASE OpenRecord(c)
  BY <1>9 DEF OpenRecord, Opened, NoRecord
<1>10. CASE CloseUxn(c)
  BY <1>10 DEF CloseUxn
<1>11. CASE CloseBackend(c)
  BY <1>11 DEF CloseBackend, BackendClose
<1>12. CASE CloseFree(c)
  BY <1>12 DEF CloseFree
<1>13. CASE CloseRemove(c)
  BY <1>13 DEF CloseRemove
<1>14. CASE ReadBegin(c)
  BY <1>14 DEF ReadBegin
<1>15. CASE ReadEnd(c)
  BY <1>15 DEF ReadEnd
<1>16. CASE HitsLookup(c)
  BY <1>16 DEF HitsLookup
<1>17. CASE HitsUse(c)
  BY <1>17 DEF HitsUse
<1>18. CASE UxnReady(c)
  BY <1>18 DEF UxnReady
<1>19. CASE UxnArm(c)
  BY <1>19 DEF UxnArm
<1>20. CASE UxnList(c)
  BY <1>20 DEF UxnList
<1>21. CASE UxnRemove(c)
  BY <1>21 DEF UxnRemove
<1>22. CASE UxnClear(c)
  BY <1>22 DEF UxnClear
<1>23. CASE UxnWaitEnds(c)
  BY <1>23 DEF UxnWaitEnds
<1>24. QED
  BY <1>1, <1>2, <1>3, <1>4, <1>5, <1>6, <1>7, <1>8, <1>9, <1>10, <1>11, <1>12, <1>13,
     <1>14, <1>15, <1>16, <1>17, <1>18, <1>19, <1>20, <1>21, <1>22, <1>23 DEF WorkerStep

\* Records are made for processes only, and a handle is handed out after its
\* record was made.
LEMMA RecordsStep ==
  ASSUME NEW c \in Conns, Typed, RecordsOK, WorkerOK(c), WorkerStep(c)
  PROVE  RecordsOK'
PROOF
<1>. USE DEF Typed, Shared, Records, At
<1>a. /\ worker' \in [Conns -> Workers] /\ \A d \in Conns : d # c => worker'[d] = worker[d]
      /\ \A h \in Handles : records[h].state # "unused" =>
            records'[h].state # "unused" /\ records'[h].pid = records[h].pid
  BY WorkerShape, RecordsGrow
<1>b. worker[c].h \in Handles \cup {0} /\ \A d \in Conns : worker[d].h \in Handles \cup {0}
  BY DEF Workers
<1>1. CASE OpenRecord(c)
  <2>1. worker[c].pid \in Pids
    BY <1>1 DEF OpenRecord, WorkerOK, Opening
  <2>2. PICK h \in Handles :
           /\ records' = [records EXCEPT ![h] =
                             [NoRecord EXCEPT !.pid = worker[c].pid, !.state = "alive"]]
           /\ table' = table \cup {h}
           /\ target' \in {h, target}
    BY <1>1 DEF OpenRecord, Opened
  <2>3. records'[h].state = "alive" /\ records'[h].pid = worker[c].pid
    BY <2>2 DEF NoRecord
  <2>4. worker'[c].pc = "idle"
    BY <1>1 DEF OpenRecord, Opened, Return, Idle, Unborn
  <2>5. \A k \in Handles : k # h => records'[k] = records[k]
    BY <2>2
  <2>6. QED
    BY <1>a, <1>b, <2>1, <2>2, <2>3, <2>4, <2>5 DEF RecordsOK
<1>2. CASE OpenFind(c)
  <2>1. /\ worker'[c].h \in table \cup {0}
        /\ UNCHANGED <<records, table, target>>
    BY <1>2 DEF OpenFind, HandlesOf, apiVars, clientVars, Workers
  <2>2. QED
    BY <1>a, <2>1 DEF RecordsOK
<1>3. CASE OpenBackend(c)
  <2>1. /\ UNCHANGED <<records, table>>
        /\ target' \in {target, worker[c].h}
        /\ worker'[c].pc # "open.backend" /\ worker[c].pc = "open.backend"
    BY <1>3 DEF OpenBackend, Opened, Goto, Return, Idle, Unborn, Workers
  <2>2. QED
    BY <1>a, <2>1 DEF RecordsOK
<1>4. CASE ~OpenRecord(c) /\ ~OpenFind(c) /\ ~OpenBackend(c)
  <2>0. table' \subseteq table /\ target' = target
    BY <1>4 DEF WorkerStep, InitCheck, InitConnect, InitLoad, InitReconnect, InitInstall, Reclaim,
     OpenFind, OpenBackend, OpenRecord, CloseUxn, CloseBackend, CloseFree, CloseRemove, ReadBegin,
     ReadEnd, HitsLookup, HitsUse, UxnReady, UxnArm, UxnList, UxnRemove, UxnClear, UxnWaitEnds,
     apiVars, clientVars
  <2>1. worker'[c].pc # "open.backend"
    BY <1>4, Lands
  <2>2. \A h \in Handles : records'[h].state # "unused" => records[h].state # "unused"
    <3>1. CASE CloseFree(c)
      BY <3>1 DEF CloseFree, WorkerOK, OnHandle, Closing
    <3>2. CASE records' = records
      BY <3>2
    <3>3. CASE \E b \in BOOLEAN : records' = [records EXCEPT ![worker[c].h].listed = b]
      BY <3>3
    <3>4. QED
      BY <1>4, <3>1, <3>2, <3>3 DEF WorkerStep, InitCheck, InitConnect, InitLoad, InitReconnect,
         InitInstall, Reclaim,
     CloseUxn, CloseBackend, CloseFree, CloseRemove, ReadBegin,
     ReadEnd, HitsLookup, HitsUse, UxnReady, UxnArm, UxnList, UxnRemove, UxnClear, UxnWaitEnds,
     apiVars, clientVars
  <2>3. QED
    BY <1>a, <1>b, <2>0, <2>1, <2>2 DEF RecordsOK
<1>5. QED
  BY <1>1, <1>2, <1>3, <1>4

\* g_memIO is replaced under the exclusive lock only, and a worker that takes
\* the shared one uses the backend it finds.
LEMMA BackendStep ==
  ASSUME NEW c \in Conns, Typed, BackendAliveWhileUsed, WorkerStep(c)
  PROVE  BackendAliveWhileUsed'
PROOF
<1>. USE DEF Typed, Shared, At, BackendAliveWhileUsed
<1>a. worker' \in [Conns -> Workers] /\ \A d \in Conns : d # c => worker'[d] = worker[d]
  BY WorkerShape
<1>1. CASE InitInstall(c)
  <2>1. \A d \in Conns : worker'[d].pc # "reading"
    BY <1>1, <1>a DEF InitInstall, Exclusive, Return, Idle, Unborn
  <2>2. QED
    BY <2>1
<1>2. CASE ReadBegin(c)
  <2>1. backend' = backend
    BY <1>2 DEF ReadBegin, apiVars
  <2>2. worker'[c].pc = "reading" => worker'[c].gen = backend.gen
    BY <1>2 DEF ReadBegin, Return, Idle, Unborn, Workers
  <2>3. QED
    BY <1>a, <2>1, <2>2
<1>3. CASE ~InitInstall(c) /\ ~ReadBegin(c)
  <2>1. worker'[c].pc # "reading"
    BY <1>3, Lands
  <2>2. backend'.gen = backend.gen
    BY <1>3 DEF Backends, WorkerStep, BackendOpen, SystemOpen, KernelOpen, BackendClose,
     InitCheck, InitConnect, InitLoad, InitReconnect, Reclaim,
     OpenFind, OpenBackend, OpenRecord, CloseUxn, CloseBackend, CloseFree, CloseRemove, 
     ReadEnd, HitsLookup, HitsUse, UxnReady, UxnArm, UxnList, UxnRemove, UxnClear, UxnWaitEnds,
     apiVars, clientVars
  <2>3. QED
    BY <1>a, <2>1, <2>2
<1>4. QED
  BY <1>1, <1>2, <1>3

\* The record of a handle is deleted by the worker that takes the handle out of
\* the table next.
LEMMA TableStep ==
  ASSUME NEW c \in Conns, Typed, TableNamesLiveRecords, WorkerStep(c)
  PROVE  TableNamesLiveRecords'
PROOF
<1>. USE DEF Typed, Shared, Records, At, TableNamesLiveRecords
<1>a. worker' \in [Conns -> Workers] /\ \A d \in Conns : d # c => worker'[d] = worker[d]
  BY WorkerShape
<1>1. CASE CloseFree(c)
  <2>1. /\ worker'[c].pc = "close.remove" /\ worker'[c].h = worker[c].h /\ table' = table
        /\ worker[c].pc = "close.free"
    BY <1>1 DEF CloseFree, Goto, Workers
  <2>2. \A h \in Handles : h # worker[c].h => records'[h] = records[h]
    BY <1>1 DEF CloseFree
  <2>3. QED
    BY <1>a, <2>1, <2>2
<1>2. CASE CloseRemove(c)
  BY <1>a, <1>2 DEF CloseRemove
<1>3. CASE OpenRecord(c)
  <2>1. PICK h \in Handles :
           /\ records' = [records EXCEPT ![h] =
                             [NoRecord EXCEPT !.pid = worker[c].pid, !.state = "alive"]]
           /\ table' = table \cup {h}
    BY <1>3 DEF OpenRecord
  <2>2. records'[h].state = "alive" /\ \A k \in Handles : k # h => records'[k] = records[k]
    BY <2>1 DEF NoRecord
  <2>3. worker[c].pc # "close.remove"
    BY <1>3 DEF OpenRecord
  <2>4. QED
    BY <1>a, <2>1, <2>2, <2>3
<1>4. CASE ~CloseFree(c) /\ ~CloseRemove(c) /\ ~OpenRecord(c)
  <2>1. worker[c].pc # "close.remove" /\ table' = table
    BY <1>4 DEF WorkerStep, InitCheck, InitConnect, InitLoad, InitReconnect, InitInstall, Reclaim,
     OpenFind, OpenBackend, OpenRecord, CloseUxn, CloseBackend, CloseFree, CloseRemove, ReadBegin,
     ReadEnd, HitsLookup, HitsUse, UxnReady, UxnArm, UxnList, UxnRemove, UxnClear, UxnWaitEnds,
     apiVars, clientVars
  <2>2. CASE records' = records
    BY <1>a, <2>1, <2>2
  <2>3. CASE \E b \in BOOLEAN : records' = [records EXCEPT ![worker[c].h].listed = b]
    <3>1. \A h \in Handles : records'[h].state = records[h].state
      BY <2>3
    <3>2. QED
      BY <1>a, <2>1, <3>1
  <2>4. QED
    BY <1>4, <2>2, <2>3 DEF WorkerStep, InitCheck, InitConnect, InitLoad, InitReconnect,
       InitInstall, Reclaim,
     OpenFind, OpenBackend, OpenRecord, CloseUxn, CloseBackend, CloseFree, CloseRemove, ReadBegin,
     ReadEnd, HitsLookup, HitsUse, UxnReady, UxnArm, UxnList, UxnRemove, UxnClear, UxnWaitEnds,
     apiVars, clientVars
<1>5. QED
  BY <1>1, <1>2, <1>3, <1>4

\* What a command looks like when it arrives on a port of the live session.
LEMMA Received ==
  ASSUME NEW c \in Conns, Typed, Receive(c)
  PROVE  /\ Live(c) /\ worker[c].pc = "idle"
         /\ worker' \in [Conns -> Workers] /\ \A d \in Conns : d # c => worker'[d] = worker[d]
         /\ worker'[c].cmd = worker'[c].pc
         /\ c[2] = "DEBUG" => worker'[c].pc \in {"WAIT", "HITS"}
         /\ c[2] = "MAIN" => worker'[c].pc \in {"INIT", "RECLAIM", "CLEAR", "OPEN", "CLOSE", "READ",
                                                "MODULES", "INSTALL", "REMOVE"}
         /\ worker'[c].pc = "OPEN" => worker'[c].pid \in Pids /\ target = 0
         /\ worker'[c].pc \in {"CLOSE", "READ", "MODULES", "INSTALL", "REMOVE"} =>
               worker'[c].h = target /\ target # 0
         /\ target' = IF worker'[c].pc = "CLOSE" THEN 0 ELSE target
         /\ UNCHANGED <<apiVars, session, sessions, abandoned>> /\ calls' \in 0..MaxCalls
PROOF
<1>. USE EngineAssumption DEF Typed, Shared
<1>1. PICK m \in Commands(c[2]) :
         /\ worker' = [worker EXCEPT ![c] =
                [pc |-> m.cmd, cmd |-> m.cmd, h |-> m.h, pid |-> m.pid, gen |-> 0]]
         /\ target' = IF m.cmd = "CLOSE" THEN 0 ELSE target
  BY DEF Receive
<1>2. c[2] \in Ports /\ Live(c) /\ worker[c].pc = "idle" /\ calls' = calls + 1 /\ calls < MaxCalls
  BY DEF Receive, At, Conns
<1>3. UNCHANGED <<apiVars, session, sessions, abandoned>>
  BY DEF Receive
<1>4. CASE c[2] = "DEBUG"
  <2>1. /\ m.cmd \in {"WAIT", "HITS"} /\ m.h \in {0, target} /\ m.pid = 0
    BY <1>1, <1>4 DEF Commands
  <2>2. [pc |-> m.cmd, cmd |-> m.cmd, h |-> m.h, pid |-> m.pid, gen |-> 0] \in Workers
    BY <2>1 DEF Workers, Pcs, CmdNames
  <2>3. /\ worker' \in [Conns -> Workers] /\ \A d \in Conns : d # c => worker'[d] = worker[d]
        /\ worker'[c].pc = m.cmd /\ worker'[c].cmd = m.cmd
    BY <1>1, <2>2
  <2>4. QED
    BY <1>1, <1>2, <1>3, <1>4, <2>1, <2>3
<1>5. CASE c[2] = "MAIN"
  <2>1. /\ m.cmd \in {"INIT", "RECLAIM", "CLEAR", "OPEN", "CLOSE", "READ", "MODULES", "INSTALL",
                      "REMOVE"}
        /\ m.h \in {0, target} /\ m.pid \in Pids \cup {0}
        /\ m.cmd = "OPEN" => m.pid \in Pids /\ target = 0
        /\ m.cmd \in {"CLOSE", "READ", "MODULES", "INSTALL", "REMOVE"} => m.h = target /\ target # 0
    BY <1>1, <1>5 DEF Commands
  <2>2. [pc |-> m.cmd, cmd |-> m.cmd, h |-> m.h, pid |-> m.pid, gen |-> 0] \in Workers
    <3>1. m.cmd \in Pcs /\ m.cmd \in CmdNames
      BY <2>1 DEF Pcs, CmdNames, MainPcs, Opening, Using
    <3>2. QED
      BY <2>1, <3>1 DEF Workers
  <2>3. /\ worker' \in [Conns -> Workers] /\ \A d \in Conns : d # c => worker'[d] = worker[d]
        /\ worker'[c].pc = m.cmd /\ worker'[c].cmd = m.cmd /\ worker'[c].h = m.h
        /\ worker'[c].pid = m.pid
    BY <1>1, <2>2
  <2>4. QED
    BY <1>1, <1>2, <1>3, <1>5, <2>1, <2>3
<1>6. QED
  BY <1>2, <1>4, <1>5 DEF Ports

\* The arrival of a command keeps the invariant.
LEMMA ReceiveStep ==
  ASSUME NEW c \in Conns, EngineInv, Receive(c)
  PROVE  EngineInv'
PROOF
<1>. USE DEF EngineInv
<1>1. Typed'
  BY Received DEF Typed, Shared, apiVars
<1>2. WorkerOK(c)'
  <2>1. c[2] \in Ports
    BY DEF Conns
  <2>2. ~(c[1] > sessions)
    BY Received DEF WorkerOK, Unborn
  <2>3. worker'[c].pc \in MainPcs => c[2] = "MAIN"
    BY <2>1, Received DEF MainPcs, Initializing, Opening, Closing, Using, Driving, Ports
  <2>4. worker'[c].pc \in Opening => worker'[c].pid \in Pids
    BY <2>1, Received DEF Opening, Ports
  <2>5. OnHandle(c)' => worker'[c].h \in Handles /\ records'[worker'[c].h].state # "unused"
    <3>1. OnHandle(c)' => worker'[c].pc \in {"CLOSE", "READ", "MODULES", "INSTALL", "REMOVE"}
      BY <2>1, Received DEF OnHandle, Closing, Using, Ports
    <3>2. records' = records
      BY Received DEF apiVars
    <3>3. QED
      BY <3>1, <3>2, Received DEF RecordsOK, Typed, Shared
  <2>6. QED
    BY <2>2, <2>3, <2>4, <2>5, Received DEF WorkerOK
<1>3. \A d \in Conns : WorkerOK(d)'
  BY <1>2, Received DEF WorkerOK, OnHandle, apiVars
<1>4. worker'[c].pc \notin {"open.backend", "reading", "close.remove"}
  BY Received DEF Conns, Ports
<1>5. RecordsOK'
  BY <1>4, Received DEF RecordsOK, apiVars
<1>6. BackendAliveWhileUsed'
  BY <1>4, Received DEF BackendAliveWhileUsed, At, apiVars
<1>7. TableNamesLiveRecords'
  BY Received DEF TableNamesLiveRecords, At, apiVars
<1>8. QED
  BY <1>1, <1>3, <1>5, <1>6, <1>7

\* Connecting and closing keep the invariant: the workers of a session that is
\* given up go on, and those of a new one start idle.
LEMMA ClientStep ==
  ASSUME EngineInv, ClientConnects \/ ClientCloses
  PROVE  EngineInv'
PROOF
<1>. USE DEF EngineInv
<1>1. CASE ClientCloses
  <2>1. Typed'
    BY <1>1, EngineAssumption DEF ClientCloses, Typed, Shared, apiVars
  <2>2. UNCHANGED <<worker, records, sessions, backend, table>>
    BY <1>1 DEF ClientCloses, apiVars
  <2>3. QED
    BY <1>1, <2>1, <2>2 DEF ClientCloses, WorkerOK, OnHandle, RecordsOK, BackendAliveWhileUsed,
       TableNamesLiveRecords, At
<1>2. CASE ClientConnects
  <2>1. /\ sessions' = sessions + 1 /\ session' = sessions + 1 /\ sessions < MaxSessions
        /\ UNCHANGED <<records, table, backend, target>>
    BY <1>2 DEF ClientConnects, apiVars
  <2>2. \A d \in Conns :
           worker'[d] = worker[d] \/ (worker'[d] = Idle /\ worker[d] = Unborn /\ d[1] = sessions + 1)
    <3>1. \A d \in Conns : d[1] = sessions + 1 => d[1] > sessions
      BY EngineAssumption DEF Typed, Shared
    <3>2. QED
      BY <1>2, <3>1 DEF ClientConnects, WorkerOK
  <2>3. worker' \in [Conns -> Workers]
    <3>1. Idle \in Workers
      BY PcNames DEF Idle, Unborn, Workers
    <3>2. QED
      BY <1>2, <3>1 DEF ClientConnects, Typed
  <2>4. Typed'
    BY <1>2, <2>1, <2>3, EngineAssumption DEF ClientConnects, Typed, Shared, apiVars
  <2>5. \A d \in Conns : WorkerOK(d)'
    <3>1. TAKE d \in Conns
    <3>2. CASE worker'[d] = worker[d]
      <4>1. d[1] > sessions + 1 => d[1] > sessions
        BY EngineAssumption DEF Typed, Shared, Conns
      <4>2. QED
        BY <2>1, <3>2, <4>1 DEF WorkerOK, OnHandle
    <3>3. CASE worker'[d] = Idle /\ d[1] = sessions + 1
      <4>1. ~(d[1] > sessions')
        BY <2>1, <3>3 DEF Typed, Shared
      <4>2. worker'[d].pc = "idle"
        BY <3>3 DEF Idle, Unborn
      <4>3. QED
        BY <4>1, <4>2 DEF WorkerOK, OnHandle, MainPcs, Initializing, Opening, Closing, Using,
           Driving
    <3>4. QED
      BY <2>2, <3>2, <3>3
  <2>6. RecordsOK'
    BY <2>1, <2>2 DEF RecordsOK, Idle, Unborn
  <2>7. BackendAliveWhileUsed'
    BY <2>1, <2>2 DEF BackendAliveWhileUsed, At, Idle, Unborn
  <2>8. TableNamesLiveRecords'
    <3>1. \A d \in Conns : worker[d].pc = "close.remove" => worker'[d] = worker[d]
      BY <2>2 DEF Unborn
    <3>2. QED
      BY <2>1, <3>1 DEF TableNamesLiveRecords, At
  <2>9. QED
    BY <2>4, <2>5, <2>6, <2>7, <2>8
<1>3. QED
  BY <1>1, <1>2

\* Before the first client there are no handles and no workers.
LEMMA InitEngine == Init => EngineInv
PROOF
<1>. SUFFICES ASSUME Init PROVE EngineInv
  OBVIOUS
<1>1. Typed
  <2>1. Unborn \in Workers
    BY PcNames DEF Unborn, Workers
  <2>2. NoRecord \in Records
    BY DEF NoRecord, Records
  <2>3. backend \in Backends
    BY DEF Init, Backends
  <2>4. MaxSessions \in Nat /\ MaxCalls \in Nat
    BY EngineAssumption
  <2>5. worker \in [Conns -> Workers] /\ records \in [Handles -> Records]
    BY <2>1, <2>2 DEF Init
  <2>6. connected \in BOOLEAN /\ loaded \in BOOLEAN /\ reclaim \in BOOLEAN /\ abandoned \in BOOLEAN
    BY DEF Init
  <2>7. session \in 0..MaxSessions /\ sessions \in 0..MaxSessions /\ session <= sessions
    BY <2>4 DEF Init
  <2>8. table \subseteq Handles /\ armed \subseteq Pids /\ target \in Handles \cup {0}
    BY DEF Init
  <2>9. calls \in 0..MaxCalls
    BY <2>4 DEF Init
  <2>10. QED
    BY <2>3, <2>5, <2>6, <2>7, <2>8, <2>9 DEF Typed, Shared
<1>2. \A c \in Conns : worker[c] = Unborn /\ WorkerOK(c)
  BY DEF Init, WorkerOK, OnHandle, Unborn, MainPcs, Initializing, Opening, Closing, Using, Driving
<1>3. RecordsOK
  BY <1>2 DEF Init, RecordsOK, NoRecord, Unborn
<1>4. QED
  BY <1>1, <1>2, <1>3 DEF Init, EngineInv, BackendAliveWhileUsed, TableNamesLiveRecords, At,
     Unborn

\* Every step of every worker and of the client keeps the invariant.
LEMMA NextEngine ==
  ASSUME EngineInv, [Next]_vars
  PROVE  EngineInv'
PROOF
<1>1. CASE UNCHANGED vars
  BY <1>1 DEF vars, apiVars, clientVars, EngineInv, Typed, Shared, WorkerOK, OnHandle, RecordsOK,
     BackendAliveWhileUsed, TableNamesLiveRecords, At
<1>2. ASSUME NEW c \in Conns, WorkerStep(c)
      PROVE  EngineInv'
  <2>. USE DEF EngineInv
  <2>1. Typed'
    BY <1>2, WorkerShape, SharedStep DEF Typed
  <2>2. \A d \in Conns : WorkerOK(d)'
    <3>1. WorkerOK(c)'
      BY <1>2, OwnStep
    <3>2. \A d \in Conns : d # c => WorkerOK(d)'
      BY <1>2, WorkerShape, RecordsGrow DEF WorkerOK, OnHandle
    <3>3. QED
      BY <3>1, <3>2
  <2>3. RecordsOK' /\ BackendAliveWhileUsed' /\ TableNamesLiveRecords'
    BY <1>2, RecordsStep, BackendStep, TableStep
  <2>4. QED
    BY <2>1, <2>2, <2>3
<1>3. QED
  BY <1>1, <1>2, ReceiveStep, ClientStep DEF Next

\* The invariant holds in every reachable state.
THEOREM EngineInvariance == Spec => []EngineInv
BY InitEngine, NextEngine, PTL DEF Spec

\* Every variable of the engine stays in its domain, whatever sessions are
\* given up.
THEOREM EngineTypeCorrect == Spec => []TypeOK
PROOF
<1>1. EngineInv => TypeOK
  BY DEF EngineInv, Typed, Shared, Backends, Records, TypeOK
<1>2. QED
  BY <1>1, EngineInvariance, PTL

\* InitReadWriteDriver never destroys the backend a worker is reading through,
\* in any interleaving of any number of sessions.
THEOREM BackendAlive == Spec => []BackendAliveWhileUsed
PROOF
<1>1. EngineInv => BackendAliveWhileUsed
  BY DEF EngineInv
<1>2. QED
  BY <1>1, EngineInvariance, PTL

\* A handle in the table points at a live record except inside the CloseHandle
\* that has just deleted it, in any interleaving of any number of sessions.
THEOREM TableIsLive == Spec => []TableNamesLiveRecords
PROOF
<1>1. EngineInv => TableNamesLiveRecords
  BY DEF EngineInv
<1>2. QED
  BY <1>1, EngineInvariance, PTL

-----------------------------------------------------------------------------
(* While no session has been given up in the middle of a command.           *)

\* Every busy worker belongs to the live session, and what the client waits for
\* on MAIN decides what it has published.
Disciplined(c) ==
    /\ worker[c].pc \notin {"none", "idle"} => c[1] = session
    /\ worker[c].pc \in {"CLOSE"} \cup Opening \cup Closing => target = 0
    /\ OnHandle(c) /\ worker[c].pc \notin {"CLOSE"} \cup Closing =>
          target # 0 /\ worker[c].h = target
    /\ worker[c].pc = "open.backend" /\ worker[c].h # 0 =>
          /\ worker[c].h \in table
          /\ records[worker[c].h].state = "alive"
          /\ records[worker[c].h].pid = worker[c].pid
    /\ worker[c].pc = "open.record" => backend.pid = worker[c].pid
    /\ worker[c].pc \in Closing => ~records[worker[c].h].listed
    /\ worker[c].pc \in Initializing => ~reclaim /\ armed = {}
    /\ worker[c].pc \in Driving => backend.type = "Kernel" /\ connected

\* The backend has the published target open or nothing at all, except between
\* the connect and the install of a driver initialization.
BackendOK ==
    /\ target # 0 => target \in table /\ records[target].state = "alive"
    /\ target # 0 => backend.pid \in {0, records[target].pid}
    /\ backend.type = "Kernel" /\ connected /\ backend.opened \notin {0, backend.pid} =>
          \E c \in Conns : worker[c].pc = "init.install"
    /\ armed # {} \/ reclaim => backend.type = "Kernel" /\ connected

\* Whoever armed a breakpoint has put it on a list or is about to.
ArmedListed ==
    \A p \in armed :
        \/ \E h \in table : records[h].pid = p /\ records[h].listed
        \/ \E c \in Conns : worker[c].pc = "uxn.list" /\ records[worker[c].h].pid = p

Orderly == (\A c \in Conns : Disciplined(c)) /\ BackendOK /\ ArmedListed

\* One worker at a time executes a MAIN command.
LEMMA Alone ==
  ASSUME NEW c \in Conns, NEW d \in Conns, WorkerOK(c), WorkerOK(d), Disciplined(c), Disciplined(d),
         worker[c].pc \in MainPcs, worker[d].pc \in MainPcs
  PROVE  c = d
PROOF
<1>1. c[1] = d[1]
  BY DEF Disciplined, MainPcs, Initializing, Opening, Closing, Using, Driving
<1>2. c[2] = d[2]
  BY DEF WorkerOK
<1>3. QED
  BY <1>1, <1>2 DEF Conns

\* A step of a DEBUG command changes nothing but its worker; otherwise the
\* worker is the only one in a MAIN command.
LEMMA Turn ==
  ASSUME NEW c \in Conns, EngineInv, Orderly, WorkerStep(c)
  PROVE  \/ /\ UNCHANGED <<apiVars, clientVars>>
            /\ worker[c].pc \notin MainPcs /\ worker'[c].pc \notin MainPcs
            /\ worker[c].pc \notin {"none", "idle"}
         \/ /\ worker[c].pc \in MainPcs
            /\ \A d \in Conns : d # c => worker[d].pc \notin MainPcs
PROOF
<1>1. CASE HitsLookup(c) \/ HitsUse(c) \/ UxnWaitEnds(c)
  BY <1>1 DEF HitsLookup, HitsUse, UxnWaitEnds, At, Goto, Return, Idle, Unborn, EngineInv, Typed,
     Workers, MainPcs, Initializing, Opening, Closing, Using, Driving
<1>2. CASE ~(HitsLookup(c) \/ HitsUse(c) \/ UxnWaitEnds(c))
  <2>1. worker[c].pc \in MainPcs
    BY <1>2 DEF WorkerStep, InitCheck, InitConnect, InitLoad, InitReconnect, InitInstall, Reclaim,
     OpenFind, OpenBackend, OpenRecord, CloseUxn, CloseBackend, CloseFree, CloseRemove, ReadBegin,
     ReadEnd, UxnReady, UxnArm, UxnList, UxnRemove, UxnClear,
     At, MainPcs, Initializing, Opening, Closing, Using, Driving
  <2>2. QED
    BY <2>1, Alone DEF EngineInv, Orderly
<1>3. QED
  BY <1>1, <1>2

\* What holds of the workers that are not in a MAIN command is not disturbed.
LEMMA OthersDisciplined ==
  ASSUME NEW d \in Conns, Disciplined(d), worker'[d].pc \notin MainPcs, session' = session,
         worker'[d] = worker[d]
  PROVE  Disciplined(d)'
  BY DEF Disciplined, OnHandle, MainPcs, Initializing, Opening, Closing, Using, Driving

\* A worker that moves on keeps to the discipline.
LEMMA DisciplineStep ==
  ASSUME NEW c \in Conns, EngineInv, Orderly, WorkerStep(c)
  PROVE  Disciplined(c)'
PROOF
<1>. USE DEF At, Goto, Return, Idle, Unborn, MainPcs, Initializing, Opening, Closing, Using,
   Driving,
        Disciplined, OnHandle, Workers, KernelReady, apiVars, clientVars
<1>a. /\ worker \in [Conns -> Workers] /\ worker' \in [Conns -> Workers]
      /\ \A d \in Conns : d # c => worker'[d] = worker[d]
      /\ session' = session
  BY WorkerShape, RecordsGrow DEF EngineInv, Typed
<1>b. /\ WorkerOK(c) /\ Disciplined(c) /\ BackendOK /\ ArmedListed
      /\ Shared /\ RecordsOK /\ TableNamesLiveRecords
  BY DEF EngineInv, Orderly, Typed
<1>c. \/ worker[c].pc \notin MainPcs
      \/ \A d \in Conns : d # c => worker[d].pc \notin MainPcs
  BY Turn
<1>1. CASE InitCheck(c)
  <2>1. CASE KernelReady
    BY <1>1, <1>a, <1>b, <2>1 DEF InitCheck
  <2>2. CASE ~KernelReady
    <3>1. armed = {} /\ ~reclaim' /\ UNCHANGED <<armed, target>>
      BY <1>1, <1>b, <2>2 DEF InitCheck, BackendOK, Shared
    <3>2. worker'[c].pc = "init.connect"
      BY <1>1, <1>a, <2>2 DEF InitCheck
    <3>3. QED
      BY <1>1, <1>a, <1>b, <3>1, <3>2 DEF InitCheck
  <2>3. QED
    BY <2>1, <2>2
<1>2. CASE InitConnect(c)
  BY <1>2, <1>a, <1>b, <1>c DEF InitConnect, DriverConnect
<1>3. CASE InitLoad(c)
  BY <1>3, <1>a, <1>b, <1>c DEF InitLoad, DriverDisconnect
<1>4. CASE InitReconnect(c)
  BY <1>4, <1>a, <1>b, <1>c DEF InitReconnect, DriverConnect
<1>5. CASE InitInstall(c)
  BY <1>5, <1>a, <1>b, <1>c DEF InitInstall, Exclusive, DriverDisconnect
<1>6. CASE Reclaim(c)
  BY <1>6, <1>a, <1>b, <1>c DEF Reclaim
<1>7. CASE OpenFind(c)
  <2>1. PICK h \in HandlesOf(worker[c].pid) \cup {0} :
           worker' = [worker EXCEPT ![c] = [@ EXCEPT !.pc = "open.backend", !.h = h]]
    BY <1>7 DEF OpenFind
  <2>2. worker'[c].pc = "open.backend" /\ worker'[c].h = h /\ worker'[c].pid = worker[c].pid
    BY <1>a, <2>1
  <2>3. h # 0 => h \in table /\ records[h].pid = worker[c].pid /\ records[h].state = "alive"
    BY <1>7, <1>b, <1>c, <2>1 DEF OpenFind, HandlesOf, TableNamesLiveRecords
  <2>4. target = 0 /\ c[1] = session
    BY <1>7, <1>b DEF OpenFind
  <2>5. QED
    BY <1>7, <1>a, <2>2, <2>3, <2>4 DEF OpenFind
<1>8. CASE OpenBackend(c)
  <2>1. worker'[c].pc = "open.record" \/ worker'[c].pc = "idle"
    BY <1>8, <1>a DEF OpenBackend, Opened
  <2>2. worker'[c].pc = "open.record" =>
           worker'[c].pid = worker[c].pid /\ target' = target /\ target = 0 /\ c[1] = session
    BY <1>8, <1>a, <1>b DEF OpenBackend, Opened
  <2>3. backend'.pid = worker[c].pid
    BY <1>8, <1>b DEF OpenBackend, BackendOpen, SystemOpen, KernelOpen, Shared, Backends
  <2>4. QED
    BY <1>a, <2>1, <2>2, <2>3
<1>9. CASE OpenRecord(c)
  BY <1>9, <1>a, <1>b, <1>c DEF OpenRecord, Opened, NoRecord
<1>10. CASE CloseUxn(c)
  <2>1. CASE worker[c].h \notin table
    BY <1>10, <1>a, <1>b, <2>1 DEF CloseUxn
  <2>2. CASE worker[c].h \in table
    <3>1. worker'[c].pc = "close.backend" /\ worker'[c].h = worker[c].h /\ target' = target
      BY <1>10, <1>a, <2>2 DEF CloseUxn
    <3>2. ~records'[worker[c].h].listed
      BY <1>10, <1>b, <2>2 DEF CloseUxn, Shared, Records
    <3>3. target = 0 /\ c[1] = session
      BY <1>10, <1>b DEF CloseUxn
    <3>4. QED
      BY <1>a, <3>1, <3>2, <3>3
  <2>3. QED
    BY <2>1, <2>2
<1>11. CASE CloseBackend(c)
  BY <1>11, <1>a, <1>b, <1>c DEF CloseBackend, BackendClose
<1>12. CASE CloseFree(c)
  BY <1>12, <1>a, <1>b, <1>c DEF CloseFree
<1>13. CASE CloseRemove(c)
  BY <1>13, <1>a, <1>b, <1>c DEF CloseRemove
<1>14. CASE ReadBegin(c)
  BY <1>14, <1>a, <1>b, <1>c DEF ReadBegin
<1>15. CASE ReadEnd(c)
  BY <1>15, <1>a, <1>b, <1>c DEF ReadEnd
<1>16. CASE HitsLookup(c)
  BY <1>16, <1>a, <1>b, <1>c DEF HitsLookup
<1>17. CASE HitsUse(c)
  BY <1>17, <1>a, <1>b, <1>c DEF HitsUse
<1>18. CASE UxnReady(c)
  <2>1. UNCHANGED <<apiVars, clientVars>>
    BY <1>18 DEF UxnReady
  <2>2. CASE worker' = [worker EXCEPT ![c] = Idle]
    BY <1>a, <2>1, <2>2
  <2>3. CASE KernelReady /\ worker' = [worker EXCEPT ![c].pc = "uxn.driver"]
    <3>1. /\ worker'[c].pc = "uxn.driver" /\ worker'[c].h = worker[c].h
          /\ worker'[c].cmd = worker[c].cmd
      BY <1>a, <2>3
    <3>2. worker[c].cmd # "CLEAR" => target # 0 /\ worker[c].h = target
      BY <1>18, <1>b DEF UxnReady, WorkerOK
    <3>3. c[1] = session
      BY <1>18, <1>b DEF UxnReady
    <3>4. QED
      BY <1>a, <2>1, <2>3, <3>1, <3>2, <3>3
  <2>4. QED
    BY <1>18, <2>2, <2>3 DEF UxnReady
<1>19. CASE UxnArm(c)
  BY <1>19, <1>a, <1>b, <1>c DEF UxnArm
<1>20. CASE UxnList(c)
  BY <1>20, <1>a, <1>b, <1>c DEF UxnList
<1>21. CASE UxnRemove(c)
  BY <1>21, <1>a, <1>b, <1>c DEF UxnRemove
<1>22. CASE UxnClear(c)
  BY <1>22, <1>a, <1>b, <1>c DEF UxnClear
<1>23. CASE UxnWaitEnds(c)
  BY <1>23, <1>a, <1>b, <1>c DEF UxnWaitEnds
<1>24. QED
  BY <1>1, <1>2, <1>3, <1>4, <1>5, <1>6, <1>7, <1>8, <1>9, <1>10, <1>11, <1>12, <1>13,
     <1>14, <1>15, <1>16, <1>17, <1>18, <1>19, <1>20, <1>21, <1>22, <1>23 DEF WorkerStep

\* What the client has published stays open, and the backend stays with it.
LEMMA PublishedStep ==
  ASSUME NEW c \in Conns, EngineInv, Orderly, WorkerStep(c)
  PROVE  BackendOK'
PROOF
<1>. USE DEF At, Goto, Return, Idle, Unborn, MainPcs, Initializing, Opening, Closing, Using,
   Driving,
        Disciplined, OnHandle, Workers, KernelReady, apiVars, clientVars, BackendOK
<1>a. /\ worker \in [Conns -> Workers] /\ worker' \in [Conns -> Workers]
      /\ \A d \in Conns : d # c => worker'[d] = worker[d]
      /\ session' = session
  BY WorkerShape, RecordsGrow DEF EngineInv, Typed
<1>b. /\ WorkerOK(c) /\ Disciplined(c) /\ BackendOK /\ ArmedListed
      /\ Shared /\ RecordsOK /\ TableNamesLiveRecords
  BY DEF EngineInv, Orderly, Typed
<1>c. \/ worker[c].pc \notin MainPcs
      \/ \A d \in Conns : d # c => worker[d].pc \notin MainPcs
  BY Turn
<1>1. CASE InitCheck(c)
  BY <1>1, <1>a, <1>b, <1>c DEF InitCheck
<1>2. CASE InitConnect(c)
  BY <1>2, <1>a, <1>b, <1>c DEF InitConnect, DriverConnect
<1>3. CASE InitLoad(c)
  BY <1>3, <1>a, <1>b, <1>c DEF InitLoad, DriverDisconnect
<1>4. CASE InitReconnect(c)
  BY <1>4, <1>a, <1>b, <1>c DEF InitReconnect, DriverConnect
<1>5. CASE InitInstall(c)
  BY <1>5, <1>a, <1>b, <1>c DEF InitInstall, Exclusive, DriverDisconnect
<1>6. CASE Reclaim(c)
  BY <1>6, <1>a, <1>b, <1>c DEF Reclaim
<1>7. CASE OpenFind(c)
  BY <1>7, <1>a, <1>b, <1>c DEF OpenFind, HandlesOf
<1>8. CASE OpenBackend(c)
  <2>1. /\ target' = target \/ target' = worker[c].h
        /\ target = 0 /\ worker[c].pc = "open.backend"
        /\ UNCHANGED <<records, table, armed, reclaim>>
    BY <1>8, <1>b DEF OpenBackend, Opened
  <2>2. /\ backend'.pid = worker[c].pid /\ backend'.type = backend.type
        /\ backend.type = "Kernel" /\ connected => connected'
        /\ backend.type = "Kernel" /\ connected' =>
              backend'.opened \in {0, backend'.pid} \/ (backend' = backend /\ connected)
    <3>1. PICK ok \in BOOLEAN : BackendOpen(worker[c].pid, ok)
      BY <1>8 DEF OpenBackend
    <3>2. CASE backend.type = "System"
      BY <1>b, <3>1, <3>2 DEF BackendOpen, SystemOpen, Shared, Backends
    <3>3. CASE backend.type = "Kernel"
      BY <1>b, <3>1, <3>3 DEF BackendOpen, KernelOpen, Shared, Backends
    <3>4. QED
      BY <1>b, <3>2, <3>3 DEF Shared, Backends
  <2>3. target' # 0 =>
           /\ target' \in table' /\ records'[target'].state = "alive"
           /\ backend'.pid \in {0, records'[target'].pid}
    BY <1>b, <2>1, <2>2
  <2>4. \A d \in Conns : worker[d].pc # "init.install"
    BY <1>c, <2>1
  <2>5. QED
    BY <1>b, <2>1, <2>2, <2>3, <2>4
<1>9. CASE OpenRecord(c)
  <2>1. PICK h \in Handles :
           /\ records' = [records EXCEPT ![h] =
                             [NoRecord EXCEPT !.pid = worker[c].pid, !.state = "alive"]]
           /\ table' = table \cup {h}
           /\ target' \in {target, h}
    BY <1>9 DEF OpenRecord, Opened
  <2>2. records'[h].state = "alive" /\ records'[h].pid = worker[c].pid
    BY <1>b, <2>1 DEF NoRecord, Shared, Records
  <2>3. /\ target = 0 /\ backend.pid = worker[c].pid /\ worker[c].pc = "open.record"
        /\ UNCHANGED <<backend, connected, armed, reclaim>>
    BY <1>9, <1>b DEF OpenRecord
  <2>4. \A d \in Conns : worker[d].pc # "init.install"
    BY <1>c, <2>3
  <2>5. QED
    BY <1>b, <2>1, <2>2, <2>3, <2>4
<1>10. CASE CloseUxn(c)
  BY <1>10, <1>a, <1>b, <1>c DEF CloseUxn
<1>11. CASE CloseBackend(c)
  BY <1>11, <1>a, <1>b, <1>c DEF CloseBackend, BackendClose
<1>12. CASE CloseFree(c)
  BY <1>12, <1>a, <1>b, <1>c DEF CloseFree
<1>13. CASE CloseRemove(c)
  BY <1>13, <1>a, <1>b, <1>c DEF CloseRemove
<1>14. CASE ReadBegin(c)
  BY <1>14, <1>a, <1>b, <1>c DEF ReadBegin
<1>15. CASE ReadEnd(c)
  BY <1>15, <1>a, <1>b, <1>c DEF ReadEnd
<1>16. CASE HitsLookup(c)
  BY <1>16, <1>a, <1>b, <1>c DEF HitsLookup
<1>17. CASE HitsUse(c)
  BY <1>17, <1>a, <1>b, <1>c DEF HitsUse
<1>18. CASE UxnReady(c)
  BY <1>18, <1>a, <1>b, <1>c DEF UxnReady
<1>19. CASE UxnArm(c)
  BY <1>19, <1>a, <1>b, <1>c DEF UxnArm
<1>20. CASE UxnList(c)
  BY <1>20, <1>a, <1>b, <1>c DEF UxnList
<1>21. CASE UxnRemove(c)
  <2>1. /\ armed' \subseteq armed /\ UNCHANGED <<backend, connected, reclaim, table, target>>
        /\ worker[c].pc = "uxn.driver"
        /\ records' = records \/ records' = [records EXCEPT ![worker[c].h].listed = FALSE]
    BY <1>21 DEF UxnRemove
  <2>2. \A h \in Handles : records'[h].pid = records[h].pid /\ records'[h].state = records[h].state
    BY <1>b, <2>1 DEF Shared, Records
  <2>3. \A d \in Conns : worker[d].pc # "init.install"
    BY <1>c, <2>1
  <2>4. QED
    BY <1>b, <2>1, <2>2, <2>3 DEF Shared
<1>22. CASE UxnClear(c)
  BY <1>22, <1>a, <1>b, <1>c DEF UxnClear
<1>23. CASE UxnWaitEnds(c)
  BY <1>23, <1>a, <1>b, <1>c DEF UxnWaitEnds
<1>24. QED
  BY <1>1, <1>2, <1>3, <1>4, <1>5, <1>6, <1>7, <1>8, <1>9, <1>10, <1>11, <1>12, <1>13,
     <1>14, <1>15, <1>16, <1>17, <1>18, <1>19, <1>20, <1>21, <1>22, <1>23 DEF WorkerStep

\* A breakpoint stays listed for as long as the kernel has it.
LEMMA ArmedStep ==
  ASSUME NEW c \in Conns, EngineInv, Orderly, WorkerStep(c)
  PROVE  ArmedListed'
PROOF
<1>. USE DEF At, Goto, Return, Idle, Unborn, MainPcs, Initializing, Opening, Closing, Using,
   Driving,
        Disciplined, OnHandle, Workers, KernelReady, apiVars, clientVars, ArmedListed
<1>a. /\ worker \in [Conns -> Workers] /\ worker' \in [Conns -> Workers]
      /\ \A d \in Conns : d # c => worker'[d] = worker[d]
      /\ session' = session
  BY WorkerShape, RecordsGrow DEF EngineInv, Typed
<1>b. /\ WorkerOK(c) /\ Disciplined(c) /\ BackendOK /\ ArmedListed
      /\ Shared /\ RecordsOK /\ TableNamesLiveRecords
  BY DEF EngineInv, Orderly, Typed
<1>c. \/ worker[c].pc \notin MainPcs
      \/ \A d \in Conns : d # c => worker[d].pc \notin MainPcs
  BY Turn
<1>1. CASE InitCheck(c)
  BY <1>1, <1>a, <1>b, <1>c DEF InitCheck
<1>2. CASE InitConnect(c)
  BY <1>2, <1>a, <1>b, <1>c DEF InitConnect, DriverConnect
<1>3. CASE InitLoad(c)
  BY <1>3, <1>a, <1>b, <1>c DEF InitLoad, DriverDisconnect
<1>4. CASE InitReconnect(c)
  BY <1>4, <1>a, <1>b, <1>c DEF InitReconnect, DriverConnect
<1>5. CASE InitInstall(c)
  BY <1>5, <1>a, <1>b, <1>c DEF InitInstall, Exclusive, DriverDisconnect
<1>6. CASE Reclaim(c)
  BY <1>6, <1>a, <1>b, <1>c DEF Reclaim
<1>7. CASE OpenFind(c)
  BY <1>7, <1>a, <1>b, <1>c DEF OpenFind, HandlesOf
<1>8. CASE OpenBackend(c)
  BY <1>8, <1>a, <1>b, <1>c DEF OpenBackend, BackendOpen, SystemOpen, KernelOpen, Opened
<1>9. CASE OpenRecord(c)
  <2>1. PICK h \in Handles :
           /\ records' = [records EXCEPT ![h] =
                             [NoRecord EXCEPT !.pid = worker[c].pid, !.state = "alive"]]
           /\ table' = table \cup {h} /\ records[h].state = "unused"
    BY <1>9 DEF OpenRecord
  <2>2. \A k \in table : records'[k] = records[k]
    BY <1>b, <2>1 DEF RecordsOK, Shared
  <2>3. armed' = armed /\ worker[c].pc = "open.record"
    BY <1>9 DEF OpenRecord
  <2>4. \A d \in Conns : worker[d].pc # "uxn.list"
    BY <1>c, <2>3
  <2>5. SUFFICES ASSUME NEW p \in armed
                 PROVE  \E k \in table' : records'[k].pid = p /\ records'[k].listed
    BY <2>3
  <2>6. PICK k \in table : records[k].pid = p /\ records[k].listed
    BY <1>b, <2>4
  <2>7. k \in table' /\ records'[k] = records[k]
    BY <2>1, <2>2
  <2>8. QED
    BY <2>6, <2>7
<1>10. CASE CloseUxn(c)
  <2>1. worker[c].pc = "CLOSE" /\ table' = table /\ worker[c].h \in Handles
    BY <1>10, <1>b DEF CloseUxn, WorkerOK
  <2>2. \A d \in Conns : worker[d].pc # "uxn.list"
    BY <1>c, <2>1
  <2>3. CASE worker[c].h \notin table
    BY <1>10, <1>b, <2>2, <2>3 DEF CloseUxn
  <2>4. CASE worker[c].h \in table
    <3>1. \A k \in Handles :
             /\ records'[k].pid = records[k].pid
             /\ k # worker[c].h => records'[k] = records[k]
      BY <1>10, <1>b, <2>4 DEF CloseUxn, Shared, Records
    <3>2. armed' \subseteq armed
      BY <1>10 DEF CloseUxn
    <3>3. records[worker[c].h].listed => records[worker[c].h].pid \notin armed'
      BY <1>10, <1>b, <2>4 DEF CloseUxn, BackendOK
    <3>4. SUFFICES ASSUME NEW p \in armed'
                   PROVE  \E k \in table' : records'[k].pid = p /\ records'[k].listed
      OBVIOUS
    <3>5. PICK k \in table : records[k].pid = p /\ records[k].listed
      BY <1>b, <2>2, <3>2
    <3>6. k # worker[c].h
      BY <3>3, <3>4, <3>5
    <3>7. k \in Handles
      BY <1>b, <3>5 DEF Shared
    <3>8. records'[k] = records[k]
      BY <3>1, <3>6, <3>7
    <3>9. QED
      BY <2>1, <3>5, <3>8
  <2>5. QED
    BY <2>3, <2>4
<1>11. CASE CloseBackend(c)
  BY <1>11, <1>a, <1>b, <1>c DEF CloseBackend, BackendClose
<1>12. CASE CloseFree(c)
  BY <1>12, <1>a, <1>b, <1>c DEF CloseFree
<1>13. CASE CloseRemove(c)
  BY <1>13, <1>a, <1>b, <1>c DEF CloseRemove
<1>14. CASE ReadBegin(c)
  BY <1>14, <1>a, <1>b, <1>c DEF ReadBegin
<1>15. CASE ReadEnd(c)
  BY <1>15, <1>a, <1>b, <1>c DEF ReadEnd
<1>16. CASE HitsLookup(c)
  BY <1>16, <1>a, <1>b, <1>c DEF HitsLookup
<1>17. CASE HitsUse(c)
  BY <1>17, <1>a, <1>b, <1>c DEF HitsUse
<1>18. CASE UxnReady(c)
  BY <1>18, <1>a, <1>b, <1>c DEF UxnReady
<1>19. CASE UxnArm(c)
  BY <1>19, <1>a, <1>b, <1>c DEF UxnArm
<1>20. CASE UxnList(c)
  <2>1. worker[c].pc = "uxn.list" /\ armed' = armed /\ table' = table
    BY <1>20 DEF UxnList
  <2>2. worker[c].h \in table
    BY <1>b, <2>1 DEF BackendOK
  <2>3. /\ records'[worker[c].h].listed /\ records'[worker[c].h].pid = records[worker[c].h].pid
        /\ \A k \in Handles : k # worker[c].h => records'[k] = records[k]
    BY <1>20, <1>b, <2>2 DEF UxnList, Shared, Records
  <2>4. \A d \in Conns : worker[d].pc = "uxn.list" => d = c
    BY <1>c, <2>1
  <2>5. QED
    BY <1>b, <2>1, <2>2, <2>3, <2>4 DEF Shared
<1>21. CASE UxnRemove(c)
  <2>1. worker[c].pc = "uxn.driver" /\ table' = table
    BY <1>21 DEF UxnRemove
  <2>2. \A d \in Conns : worker[d].pc # "uxn.list"
    BY <1>c, <2>1
  <2>3. CASE UNCHANGED <<armed, records>>
    BY <1>b, <2>1, <2>2, <2>3
  <2>4. CASE /\ armed' = armed \ {records[worker[c].h].pid}
             /\ records' = [records EXCEPT ![worker[c].h].listed = FALSE]
    <3>1. \A k \in Handles :
             /\ records'[k].pid = records[k].pid
             /\ k # worker[c].h => records'[k] = records[k]
      BY <1>b, <2>4 DEF Shared, Records
    <3>2. QED
      BY <1>b, <2>1, <2>2, <2>4, <3>1 DEF Shared
  <2>5. QED
    BY <1>21, <2>3, <2>4 DEF UxnRemove
<1>22. CASE UxnClear(c)
  BY <1>22, <1>a, <1>b, <1>c DEF UxnClear
<1>23. CASE UxnWaitEnds(c)
  BY <1>23, <1>a, <1>b, <1>c DEF UxnWaitEnds
<1>24. QED
  BY <1>1, <1>2, <1>3, <1>4, <1>5, <1>6, <1>7, <1>8, <1>9, <1>10, <1>11, <1>12, <1>13,
     <1>14, <1>15, <1>16, <1>17, <1>18, <1>19, <1>20, <1>21, <1>22, <1>23 DEF WorkerStep

\* A command that arrives finds its worker idle and the discipline kept.
LEMMA OrderlyReceive ==
  ASSUME NEW c \in Conns, EngineInv, Orderly, Receive(c)
  PROVE  Orderly'
PROOF
<1>a. /\ Live(c) /\ worker[c].pc = "idle"
      /\ \A d \in Conns : d # c => worker'[d] = worker[d]
      /\ UNCHANGED <<backend, connected, reclaim, table, records, armed, session>>
      /\ target' = IF worker'[c].pc = "CLOSE" THEN 0 ELSE target
      /\ worker'[c].cmd = worker'[c].pc
  BY Received DEF EngineInv, apiVars
<1>b. c[2] \in Ports
  BY DEF Conns
<1>1. CASE c[2] = "DEBUG"
  <2>1. worker'[c].pc \in {"WAIT", "HITS"} /\ target' = target
    BY <1>1, Received DEF EngineInv
  <2>2. Disciplined(c)'
    BY <1>a, <2>1
    DEF Disciplined, OnHandle, Live, Initializing, Opening, Closing, Using, Driving
  <2>3. \A d \in Conns : Disciplined(d)'
    BY <1>a, <2>1, <2>2 DEF Orderly, Disciplined, OnHandle
  <2>4. BackendOK' /\ ArmedListed'
    BY <1>a, <2>1 DEF Orderly, BackendOK, ArmedListed
  <2>5. QED
    BY <2>3, <2>4 DEF Orderly
<1>2. CASE c[2] = "MAIN"
  <2>1. /\ worker'[c].pc \in {"INIT", "RECLAIM", "CLEAR", "OPEN", "CLOSE", "READ", "MODULES",
                              "INSTALL", "REMOVE"}
        /\ worker'[c].pc = "OPEN" => target = 0
        /\ worker'[c].pc \in {"CLOSE", "READ", "MODULES", "INSTALL", "REMOVE"} =>
              worker'[c].h = target /\ target # 0
    BY <1>2, Received DEF EngineInv
  <2>2. Disciplined(c)'
    BY <1>a, <2>1
    DEF Disciplined, OnHandle, Live, Initializing, Opening, Closing, Using, Driving
  <2>3. \A d \in Conns : d # c => worker[d].pc \notin MainPcs
    <3>1. SUFFICES ASSUME NEW d \in Conns, d # c, worker[d].pc \in MainPcs PROVE FALSE
      OBVIOUS
    <3>2. d[1] = session /\ d[2] = "MAIN"
      BY <3>1 DEF EngineInv, Orderly, WorkerOK, Disciplined, MainPcs, Initializing, Opening,
         Closing,
         Using, Driving
    <3>3. c[1] = session
      BY <1>a DEF Live
    <3>4. QED
      BY <1>2, <3>1, <3>2, <3>3 DEF Conns
  <2>4. \A d \in Conns : Disciplined(d)'
    <3>1. \A d \in Conns : d # c => Disciplined(d)'
      BY <1>a, <2>3, OthersDisciplined DEF Orderly
    <3>2. QED
      BY <2>2, <3>1
  <2>5. BackendOK'
    BY <1>a, <2>1 DEF Orderly, BackendOK
  <2>6. ArmedListed'
    BY <1>a, <2>1 DEF Orderly, ArmedListed
  <2>7. QED
    BY <2>4, <2>5, <2>6 DEF Orderly
<1>3. QED
  BY <1>b, <1>1, <1>2 DEF Ports

\* A session that is closed with its workers idle leaves nobody behind.
LEMMA OrderlyClient ==
  ASSUME EngineInv, Orderly, ClientConnects \/ ClientCloses, ~abandoned'
  PROVE  Orderly'
PROOF
<1>1. CASE ClientCloses
  <2>1. /\ UNCHANGED <<worker, backend, connected, reclaim, table, records, armed>>
        /\ target' = 0
        /\ \A p \in Ports : worker[<<session, p>>].pc \in {"none", "idle"}
    BY <1>1 DEF ClientCloses, apiVars, Busy
  <2>2. \A d \in Conns : worker[d].pc \in {"none", "idle"}
    <3>1. TAKE d \in Conns
    <3>2. d = <<d[1], d[2]>> /\ d[2] \in Ports
      BY DEF Conns
    <3>3. CASE d[1] = session
      BY <2>1, <3>2, <3>3
    <3>4. CASE d[1] # session
      BY <3>4 DEF Orderly, Disciplined
    <3>5. QED
      BY <3>3, <3>4
  <2>3. \A d \in Conns : Disciplined(d)'
    BY <2>1, <2>2
    DEF Disciplined, OnHandle, Initializing, Opening, Closing, Using, Driving
  <2>4. BackendOK' /\ ArmedListed'
    BY <2>1 DEF Orderly, BackendOK, ArmedListed
  <2>5. QED
    BY <2>3, <2>4 DEF Orderly
<1>2. CASE ClientConnects
  <2>1. /\ session = 0 /\ sessions' = sessions + 1 /\ session' = sessions + 1
        /\ UNCHANGED <<backend, connected, reclaim, table, records, armed, target>>
    BY <1>2 DEF ClientConnects, apiVars
  <2>2. \A d \in Conns : worker[d].pc \in {"none", "idle"}
    <3>1. \A d \in Conns : d[1] # 0
      BY EngineAssumption DEF Conns
    <3>2. QED
      BY <2>1, <3>1 DEF Orderly, Disciplined
  <2>3. \A d \in Conns : worker'[d].pc \in {"none", "idle"}
    BY <1>2, <2>2 DEF ClientConnects, Idle, Unborn
  <2>4. \A d \in Conns : Disciplined(d)'
    BY <2>3 DEF Disciplined, OnHandle, Initializing, Opening, Closing, Using, Driving
  <2>5. BackendOK'
    BY <2>1, <2>2 DEF Orderly, BackendOK
  <2>6. ArmedListed'
    BY <2>1, <2>2 DEF Orderly, ArmedListed
  <2>7. QED
    BY <2>4, <2>5, <2>6 DEF Orderly
<1>3. QED
  BY <1>1, <1>2

\* As long as no session is given up in the middle of a command, the workers
\* keep to the discipline.
THEOREM OrderlyInvariance == Spec => [](EngineInv /\ (~abandoned => Orderly))
PROOF
<1>1. Init => (~abandoned => Orderly)
  BY DEF Init, Orderly, Disciplined, OnHandle, BackendOK, ArmedListed, Unborn, Initializing,
     Opening,
     Closing, Using, Driving
<1>2. ASSUME EngineInv, ~abandoned => Orderly, [Next]_vars
      PROVE  (~abandoned => Orderly)'
  <2>1. CASE UNCHANGED vars
    BY <1>2, <2>1 DEF vars, apiVars, clientVars, Orderly, Disciplined, OnHandle, BackendOK,
       ArmedListed
  <2>2. ASSUME NEW c \in Conns, WorkerStep(c), ~abandoned'
        PROVE  Orderly'
    <3>1. Orderly /\ session' = session /\ \A d \in Conns : d # c => worker'[d] = worker[d]
      BY <1>2, <2>2, RecordsGrow, WorkerShape DEF EngineInv
    <3>2. \A d \in Conns : d # c => Disciplined(d)'
      <4>1. CASE worker[c].pc \in MainPcs
        BY <1>2, <2>2, <3>1, <4>1, Turn, OthersDisciplined DEF Orderly
      <4>2. CASE worker[c].pc \notin MainPcs
        <5>1. UNCHANGED <<apiVars, clientVars>>
          BY <1>2, <2>2, <3>1, <4>2, Turn
        <5>2. QED
          BY <3>1, <5>1 DEF apiVars, clientVars, Orderly, Disciplined, OnHandle
      <4>3. QED
        BY <4>1, <4>2
    <3>3. Disciplined(c)' /\ BackendOK' /\ ArmedListed'
      BY <1>2, <2>2, <3>1, DisciplineStep, PublishedStep, ArmedStep
    <3>4. QED
      BY <3>2, <3>3 DEF Orderly
  <2>3. ASSUME NEW c \in Conns, Receive(c), ~abandoned'
        PROVE  Orderly'
    BY <1>2, <2>3, OrderlyReceive, Received DEF EngineInv
  <2>4. ASSUME ClientConnects \/ ClientCloses, ~abandoned'
        PROVE  Orderly'
    <3>1. ~abandoned
      BY <2>4 DEF ClientConnects, ClientCloses
    <3>2. QED
      BY <1>2, <2>4, <3>1, OrderlyClient
  <2>5. QED
    BY <1>2, <2>1, <2>2, <2>3, <2>4 DEF Next
<1>3. QED
  BY <1>1, <1>2, EngineInvariance, PTL DEF Spec

\* As long as no session is given up in the middle of a command, a read through
\* a handle reaches the process of that handle or none, although ReadProcessMemory
\* goes by the backend's single current process.
THEOREM OwnProcessRead == Spec => []ReadsOwnProcess
PROOF
<1>1. EngineInv /\ (~abandoned => Orderly) => ReadsOwnProcess
  <2>1. SUFFICES ASSUME EngineInv, Orderly, NEW c \in Conns, worker[c].pc = "reading"
                 PROVE  Reaches \in {0, records[worker[c].h].pid}
    BY DEF ReadsOwnProcess, At
  <2>2. target # 0 /\ worker[c].h = target
    BY <2>1 DEF Orderly, Disciplined, OnHandle, Using, Closing
  <2>3. \A d \in Conns : worker[d].pc # "init.install"
    BY <2>1, Alone DEF EngineInv, Orderly, MainPcs, Using, Initializing
  <2>4. QED
    BY <2>1, <2>2, <2>3 DEF Reaches, EngineInv, Typed, Shared, Backends, Orderly, BackendOK
<1>2. QED
  BY <1>1, OrderlyInvariance, PTL

\* As long as no session is given up in the middle of a command, the handle the
\* client works with is open and its record alive.
THEOREM PublishedLive == Spec => []PublishedHandleIsLive
PROOF
<1>1. (~abandoned => Orderly) => PublishedHandleIsLive
  BY DEF Orderly, BackendOK, PublishedHandleIsLive
<1>2. QED
  BY <1>1, OrderlyInvariance, PTL

\* As long as no session is given up in the middle of a command, no UXN
\* breakpoint is in the kernel that CloseHandle would not find on a list.
THEOREM UxnAccounted == Spec => []UxnListed
PROOF
<1>1. (~abandoned => Orderly) => UxnListed
  BY DEF Orderly, ArmedListed, UxnListed, At
<1>2. QED
  BY <1>1, OrderlyInvariance, PTL

\* As long as no session is given up in the middle of a command, breakpoint
\* slots are reclaimed only with the kernel driver in use.
THEOREM ReclaimGuarded == Spec => []ReclaimNeedsKernel
PROOF
<1>1. (~abandoned => Orderly) => ReclaimNeedsKernel
  BY DEF Orderly, BackendOK, ReclaimNeedsKernel, KernelReady
<1>2. QED
  BY <1>1, OrderlyInvariance, PTL
=============================================================================
