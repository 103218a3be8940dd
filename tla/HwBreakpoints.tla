---------------------------- MODULE HwBreakpoints ----------------------------
(***************************************************************************)
(* The engine's hardware breakpoints: the address table of an opened       *)
(* process (CApi, ceserver/api.cpp) over the process-wide logical          *)
(* breakpoints of KernelHwBreakpoint or PerfHwBreakpoint, which keep one   *)
(* breakpoint per thread of the target and follow its threads.             *)
(*                                                                         *)
(* The server runs the MAIN connection (set, remove, suspend, resume,      *)
(* open, close), the DEBUG connection (hit polling) and the backend's      *)
(* worker thread concurrently, while the target's threads come, hit and    *)
(* go.  Each backend operation runs under its mMutex and is one step.      *)
(***************************************************************************)
EXTENDS Naturals, FiniteSets, FiniteSetsExt

CONSTANTS
    Backends,     \* the backends to consider: "kernel", "perf"
    Tids,         \* thread ids of the target process
    Addrs,        \* breakpoint addresses
    MaxSlots,     \* hardware breakpoint slots of a thread
    MaxPending,   \* kMaxPendingHits
    TidReuse,     \* whether the device may give an ended thread's id again
    MaxSeq,       \* bound: logical breakpoints created
    MaxLives,     \* bound: threads that ever had a given id
    MaxHits       \* bound: breakpoint hits

ASSUME BackendAssumption == Backends \subseteq {"kernel", "perf"}
ASSUME AddrAssumption    == 0 \notin Addrs   \* both backends refuse address 0
ASSUME ReuseAssumption   == TidReuse \in BOOLEAN
ASSUME BoundAssumption   ==
    /\ MaxSlots \in Nat /\ MaxPending \in Nat /\ MaxSeq \in Nat
    /\ MaxLives \in Nat /\ MaxHits \in Nat

VARIABLES
    backend,   \* the backend the memory type selected before the process was opened
    opened,    \* the CeOpenProcess record exists
    list,      \* mHwBpList: the logical handle set at each address, 0: none
    seq,       \* mSeq
    entry,     \* mEntries: the logical breakpoint behind each handle
    sub,       \* Entry::subs: the breakpoint of each thread
    live,      \* /proc/<pid>/task
    life,      \* how many threads had this id, the current one included
    mainPc,    \* the MAIN connection between two locks of one command
    debugPc,   \* the DEBUG connection, likewise
    last,      \* what the last poll of each address reported
    hits       \* hits so far (the bound's counter)

vars == <<backend, opened, list, seq, entry, sub, live, life, mainPc, debugPc, last,
          hits>>

Seqs == 1..MaxSeq

\* Logical breakpoints.  queue and total are the perf backend's; the kernel
\* backend counts per thread.
NoEntry == [addr |-> 0, enabled |-> FALSE, queue |-> 0, total |-> 0]
Owned   == {h \in Seqs : entry[h] # NoEntry}      \* Owns(h)

\* A thread's breakpoint: the thread it was installed for, whether it is
\* armed, hits nobody has fetched and hits fetched so far.
NoSub == [life |-> 0, on |-> FALSE, ring |-> 0, count |-> 0]
Subs(h) == {i \in Tids : sub[h][i] # NoSub}

Idle == [at |-> "idle"]

\* The thread that has this id now is covered by logical breakpoint h.
Covered(h, i) == i \in live /\ sub[h][i].life = life[i]

\* A hardware slot of thread i is free.
SlotFree(i) == Cardinality({h \in Seqs : Covered(h, i)}) < MaxSlots

Init ==
    /\ backend \in Backends
    /\ opened = TRUE
    /\ list = [a \in Addrs |-> 0]
    /\ seq = 0
    /\ entry = [h \in Seqs |-> NoEntry]
    /\ sub = [h \in Seqs |-> [i \in Tids |-> NoSub]]
    /\ live \in SUBSET Tids /\ live # {}
    /\ life = [i \in Tids |-> IF i \in live THEN 1 ELSE 0]
    /\ mainPc = Idle
    /\ debugPc = Idle
    /\ last = [a \in Addrs |-> [handle |-> 0, total |-> 0, returned |-> 0, before |-> 0]]
    /\ hits = 0

-----------------------------------------------------------------------------
(* The target process *)

Spawn(i) ==
    /\ i \notin live
    /\ life[i] < (IF TidReuse THEN MaxLives ELSE 1)
    /\ live' = live \cup {i}
    /\ life' = [life EXCEPT ![i] = @ + 1]
    /\ UNCHANGED <<opened, list, seq, entry, sub, mainPc, debugPc, last, hits>>

Exit(i) ==
    /\ i \in live
    /\ live # {i}
    /\ live' = live \ {i}
    /\ UNCHANGED <<opened, list, seq, entry, sub, life, mainPc, debugPc, last,
                   hits>>

\* Thread i runs into address a: every armed breakpoint it has there records
\* a hit.
Hit(i, a) ==
    LET struck == {h \in Owned : /\ entry[h].addr = a
                                 /\ Covered(h, i)
                                 /\ sub[h][i].on}
    IN  /\ hits < MaxHits
        /\ struck # {}
        /\ sub' = [h \in Seqs |-> IF h \in struck
                                  THEN [sub[h] EXCEPT ![i].ring = @ + 1]
                                  ELSE sub[h]]
        /\ hits' = hits + 1
        /\ UNCHANGED <<opened, list, seq, entry, live, life, mainPc, debugPc,
                       last>>

-----------------------------------------------------------------------------
(* The backends: AddProcessHwBp, DelProcessHwBp, RescanAllLocked, ... *)

\* InstallForTid / OpenSub for thread i.
Installed(i, on) == [life |-> life[i], on |-> on, ring |-> 0, count |-> 0]

\* DelProcessHwBp for every handle of H.
Delete(H) ==
    /\ entry' = [h \in Seqs |-> IF h \in H THEN NoEntry ELSE entry[h]]
    /\ sub' = [h \in Seqs |-> IF h \in H THEN [i \in Tids |-> NoSub] ELSE sub[h]]

\* Suspend/ResumeProcessHwBp on h.
Arm(h, on) ==
    /\ entry' = [entry EXCEPT ![h].enabled = on]
    /\ sub' = [sub EXCEPT ![h] =
                  [i \in Tids |-> IF i \in Subs(h) THEN [@[i] EXCEPT !.on = on]
                                  ELSE NoSub]]

\* Mutant: a breakpoint added by the worker is armed even when suspended.
RescanArmed(h) ==
    /\ h \in Owned
    /\ sub' = [sub EXCEPT ![h] =
                  [i \in Tids |->
                      IF i \notin live THEN NoSub
                      ELSE IF i \in Subs(h) \/ ~SlotFree(i) THEN @[i]
                      ELSE Installed(i, TRUE)]]
    /\ UNCHANGED <<opened, list, seq, entry, live, life, mainPc, debugPc, last,
                   hits>>

\* Mutant: the worker only closes, and never follows a new thread.
RescanCloseOnly(h) ==
    /\ h \in Owned
    /\ sub' = [sub EXCEPT ![h] =
                  [i \in Tids |-> IF i \notin live THEN NoSub ELSE @[i]]]
    /\ UNCHANGED <<opened, list, seq, entry, live, life, mainPc, debugPc, last,
                   hits>>

\* One round of the worker for logical breakpoint h: a thread id without a
\* breakpoint gets one, in the entry's current state; the breakpoint of an id
\* that is gone is closed with whatever it still holds.
Rescan(h) ==
    /\ h \in Owned
    /\ sub' = [sub EXCEPT ![h] =
                  [i \in Tids |->
                      IF i \notin live THEN NoSub
                      ELSE IF i \in Subs(h) \/ ~SlotFree(i) THEN @[i]
                      ELSE Installed(i, entry[h].enabled)]]
    /\ UNCHANGED <<opened, list, seq, entry, live, life, mainPc, debugPc, last,
                   hits>>

\* Mutant: queued hits are counted only up to what the queue holds.
ConsumeRingTotalCapped(h, i) ==
    /\ backend = "perf"
    /\ h \in Owned
    /\ entry[h].enabled
    /\ sub[h][i].ring > 0
    /\ LET n == sub[h][i].ring IN
         entry' = [entry EXCEPT ![h].queue = Min({@ + n, MaxPending}),
                                ![h].total = Min({@ + n, MaxPending})]
    /\ sub' = [sub EXCEPT ![h][i].ring = 0]
    /\ UNCHANGED <<opened, list, seq, live, life, mainPc, debugPc, last, hits>>

\* PerfHwBreakpoint's worker moves a ring into the entry's bounded queue; it
\* polls the rings of enabled entries only.
ConsumeRing(h, i) ==
    /\ backend = "perf"
    /\ h \in Owned
    /\ entry[h].enabled
    /\ sub[h][i].ring > 0
    /\ LET n == sub[h][i].ring IN
         entry' = [entry EXCEPT ![h].queue = Min({@ + n, MaxPending}),
                                ![h].total = @ + n]
    /\ sub' = [sub EXCEPT ![h][i].ring = 0]
    /\ UNCHANGED <<opened, list, seq, live, life, mainPc, debugPc, last, hits>>

-----------------------------------------------------------------------------
(* MAIN connection *)

\* SetBreakpoint adds the new logical breakpoint first, all-or-nothing only
\* if no thread took it ...
SetAdd(a) ==
    LET h == seq + 1
        taken == {i \in live : SlotFree(i)}
    IN  /\ opened /\ mainPc = Idle
        /\ seq < MaxSeq
        /\ taken # {}
        /\ seq' = h
        /\ entry' = [entry EXCEPT ![h] = [addr |-> a, enabled |-> TRUE,
                                          queue |-> 0, total |-> 0]]
        /\ sub' = [sub EXCEPT ![h] = [i \in Tids |->
                       IF i \in taken THEN Installed(i, TRUE) ELSE NoSub]]
        /\ mainPc' = [at |-> "publish", addr |-> a, handle |-> h]
        /\ UNCHANGED <<opened, list, live, life, debugPc, last, hits>>

\* ... then replaces the address's handle ...
SetPublish ==
    /\ mainPc.at = "publish"
    /\ list' = [list EXCEPT ![mainPc.addr] = mainPc.handle]
    /\ mainPc' = [at |-> "replace", handle |-> list[mainPc.addr]]
    /\ UNCHANGED <<opened, seq, entry, sub, live, life, debugPc, last, hits>>

\* Mutant: the replaced breakpoint is not deleted.
ReplaceOldKept ==
    /\ mainPc.at = "replace"
    /\ mainPc' = Idle
    /\ UNCHANGED <<opened, list, seq, entry, sub, live, life, debugPc, last, hits>>

\* ... and removes the old one.  A handle perf does not own goes to the
\* driver as it is; a logical kernel handle is none of the driver's.
ReplaceOld ==
    /\ mainPc.at = "replace"
    /\ IF backend = "perf" /\ mainPc.handle \in Owned
       THEN Delete({mainPc.handle}) ELSE UNCHANGED <<entry, sub>>
    /\ mainPc' = Idle
    /\ UNCHANGED <<opened, list, seq, live, life, debugPc, last, hits>>

\* Mutant: the removed breakpoint stays in the table.
RemoveTakeKept(a) ==
    /\ opened /\ mainPc = Idle
    /\ list[a] # 0
    /\ mainPc' = [at |-> "delete", handle |-> list[a]]
    /\ UNCHANGED <<opened, list, seq, entry, sub, live, life, debugPc, last, hits>>

\* RemoveBreakpoint takes the handle out of the table, then deletes it.
RemoveTake(a) ==
    /\ opened /\ mainPc = Idle
    /\ list[a] # 0
    /\ mainPc' = [at |-> "delete", handle |-> list[a]]
    /\ list' = [list EXCEPT ![a] = 0]
    /\ UNCHANGED <<opened, seq, entry, sub, live, life, debugPc, last, hits>>

RemoveDelete ==
    /\ mainPc.at = "delete"
    /\ Delete({mainPc.handle})
    /\ mainPc' = Idle
    /\ UNCHANGED <<opened, list, seq, live, life, debugPc, last, hits>>

\* SuspendBreakpoint and ResumeBreakpoint; nobody but MAIN deletes a handle,
\* so the copy of the handle and its use are one step.
SuspendOrResume(a, on) ==
    /\ opened /\ mainPc = Idle
    /\ list[a] \in Owned
    /\ Arm(list[a], on)
    /\ UNCHANGED <<opened, list, seq, live, life, mainPc, debugPc, last, hits>>

\* CloseHandle deletes what the table names and frees the record.
CloseHandle ==
    /\ opened /\ mainPc = Idle
    /\ Delete({list[a] : a \in Addrs})
    /\ list' = [a \in Addrs |-> 0]
    /\ opened' = FALSE
    /\ UNCHANGED <<seq, live, life, mainPc, debugPc, last, hits>>

\* OpenProcess creates a new record.
OpenProcess ==
    /\ ~opened /\ mainPc = Idle
    /\ opened' = TRUE
    /\ UNCHANGED <<list, seq, entry, sub, live, life, mainPc, debugPc, last,
                   hits>>

-----------------------------------------------------------------------------
(* DEBUG connection *)

\* ReadHwBpInfo copies the handle under mHwBpMutex ...
ReadStart(a) ==
    /\ opened /\ debugPc = Idle
    /\ list[a] # 0
    /\ debugPc' = [at |-> "fetch", addr |-> a, handle |-> list[a]]
    /\ UNCHANGED <<opened, list, seq, entry, sub, live, life, mainPc, last, hits>>

Report(a, h, t, n) ==
    last' = [last EXCEPT ![a] =
                [handle |-> h, total |-> t, returned |-> n,
                 before |-> IF @.handle = h THEN @.total ELSE 0]]

\* The kernel backend counts what the driver held for each thread.
Drained(h) ==
    [i \in Tids |-> [sub[h][i] EXCEPT !.count = @ + sub[h][i].ring, !.ring = 0]]

\* ... and asks the backend that owns it: perf hands out its queue and its
\* running total, the kernel backend drains the driver for every thread it
\* has and adds up their counts.  A handle deleted meanwhile is nobody's.
ReadFetch ==
    LET h == debugPc.handle
        a == debugPc.addr
    IN  /\ debugPc.at = "fetch"
        /\ \/ /\ h \notin Owned
              /\ UNCHANGED <<entry, sub, last>>
           \/ /\ h \in Owned /\ backend = "perf"
              /\ Report(a, h, entry[h].total, entry[h].queue)
              /\ entry' = [entry EXCEPT ![h].queue = 0]
              /\ UNCHANGED sub
           \/ /\ h \in Owned /\ backend = "kernel"
              /\ Report(a, h,
                     MapThenSumSet(LAMBDA i : sub[h][i].count + sub[h][i].ring, Tids),
                     MapThenSumSet(LAMBDA i : sub[h][i].ring, Tids))
              /\ sub' = [sub EXCEPT ![h] = Drained(h)]
              /\ UNCHANGED entry
        /\ debugPc' = Idle
        /\ UNCHANGED <<opened, list, seq, live, life, mainPc, hits>>

-----------------------------------------------------------------------------
Main ==
    \/ \E a \in Addrs : \/ SetAdd(a) \/ RemoveTake(a)
                        \/ \E on \in BOOLEAN : SuspendOrResume(a, on)
    \/ SetPublish \/ ReplaceOld \/ RemoveDelete
    \/ CloseHandle \/ OpenProcess

Debug == (\E a \in Addrs : ReadStart(a)) \/ ReadFetch

Worker == \E h \in Seqs : Rescan(h) \/ \E i \in Tids : ConsumeRing(h, i)

Target == \E i \in Tids : Spawn(i) \/ Exit(i) \/ \E a \in Addrs : Hit(i, a)

Next == (Main \/ Debug \/ Worker \/ Target) /\ UNCHANGED backend

Spec == Init /\ [][Next]_vars

\* The worker wakes up every second (kernel) or five polls (perf) and visits
\* every entry.
FairSpec == Spec /\ \A h \in Seqs : WF_vars(Rescan(h) /\ UNCHANGED backend)

-----------------------------------------------------------------------------
\* Every variable stays in its domain.
TypeOK ==
    /\ backend \in Backends
    /\ opened \in BOOLEAN
    /\ list \in [Addrs -> 0..MaxSeq]
    /\ seq \in 0..MaxSeq
    /\ entry \in [Seqs -> [addr : Addrs \cup {0}, enabled : BOOLEAN,
                           queue : 0..MaxPending, total : Nat]]
    /\ sub \in [Seqs -> [Tids -> [life : 0..MaxLives, on : BOOLEAN,
                                  ring : Nat, count : Nat]]]
    /\ live \subseteq Tids
    /\ life \in [Tids -> 0..MaxLives]
    /\ mainPc.at \in {"idle", "publish", "replace", "delete"}
    /\ debugPc.at \in {"idle", "fetch"}
    /\ last \in [Addrs -> [handle : 0..MaxSeq, total : Nat, returned : Nat,
                           before : Nat]]
    /\ hits \in 0..MaxHits

\* Between commands, the logical breakpoints that exist are exactly the ones
\* the address table can still reach: replacing, removing and closing leave
\* none behind to occupy slots and to be installed in new threads for ever
\* (api.cpp: "old handles are deleted by their owner, perf or kernel driver").
NoOrphan ==
    mainPc = Idle => Owned = {list[a] : a \in Addrs} \ {0}

\* NoOrphan for the breakpoints of PerfHwBreakpoint.
PerfNoOrphan == backend = "perf" => NoOrphan

\* Between commands, the address table names only logical breakpoints that
\* exist and are at that address: what a client suspends, resumes or polls is
\* what it set.
TableIsBacked ==
    mainPc = Idle =>
        \A a \in Addrs : list[a] # 0 =>
            opened /\ list[a] \in Owned /\ entry[list[a]].addr = a

\* A suspended logical breakpoint is armed in no thread and a resumed one in
\* all it has, whatever threads the worker added meanwhile.
ArmedAsEntry ==
    \A h \in Owned : \A i \in Subs(h) : sub[h][i].on = entry[h].enabled

\* A poll never returns more hits than the total grew since the last poll of
\* the same breakpoint: total_hits is cumulative (docs/api_design.md), and
\* MemService::breakpointHits reports a protocol error otherwise.  The perf
\* backend keeps the total in the entry; the kernel backend adds up the threads
\* it still has (KernelHwBreakpoint.hpp) and so does not promise this.
PerfTotalsAreCumulative ==
    backend = "perf" => \A a \in Addrs : last[a].total >= last[a].before + last[a].returned

\* New threads are followed: a thread with a free slot is eventually covered
\* by every logical breakpoint, unless one of them goes away first.
ThreadsAreFollowed ==
    \A h \in Seqs, i \in Tids :
        (h \in Owned /\ i \in live /\ SlotFree(i))
            ~> (Covered(h, i) \/ h \notin Owned \/ i \notin live \/ ~SlotFree(i))
=============================================================================
