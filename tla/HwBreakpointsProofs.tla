------------------------- MODULE HwBreakpointsProofs -------------------------
(***************************************************************************)
(* The safety of the hardware breakpoints for any number of threads,       *)
(* addresses, slots, breakpoints and hits, from one inductive invariant.   *)
(***************************************************************************)
EXTENDS HwBreakpoints, TLAPS

Entries == [addr : Addrs \cup {0}, enabled : BOOLEAN, queue : Nat, total : Nat]
SubRecords == [life : Nat, on : BOOLEAN, ring : Nat, count : Nat]
Reports == [handle : 0..MaxSeq, total : Nat, returned : Nat, before : Nat]

\* What the MAIN and DEBUG connections remember between two locks.
MainPcs ==
    {Idle} \cup [at : {"publish"}, addr : Addrs, handle : Seqs]
           \cup [at : {"replace"}, handle : 0..MaxSeq] \cup [at : {"delete"}, handle : Seqs]
DebugPcs == {Idle} \cup [at : {"fetch"}, addr : Addrs, handle : Seqs]

Typed ==
    /\ list \in [Addrs -> 0..MaxSeq] /\ seq \in 0..MaxSeq
    /\ entry \in [Seqs -> Entries] /\ sub \in [Seqs -> [Tids -> SubRecords]]
    /\ live \subseteq Tids /\ life \in [Tids -> Nat]
    /\ mainPc \in MainPcs /\ debugPc \in DebugPcs
    /\ backend = "perf" => last \in [Addrs -> Reports]

\* A logical breakpoint that exists has an address; handles are counted up.
Handles ==
    /\ \A h \in Seqs : entry[h].addr = 0 => entry[h] = NoEntry
    /\ \A h \in Seqs : entry[h].addr # 0 => h <= seq
    /\ \A a \in Addrs : list[a] <= seq

EntriesOK ==
    /\ Handles
    /\ debugPc.at = "fetch" => debugPc.handle <= seq
    /\ backend = "perf" => \A a \in Addrs : last[a].handle <= seq

\* The table names existing breakpoints at every moment, and the handle a
\* command carries from one lock to the next is not in it.
Backed ==
    /\ \A a \in Addrs : list[a] # 0 => opened /\ entry[list[a]].addr = a
    /\ mainPc.at = "publish" =>
          opened /\ entry[mainPc.handle].addr = mainPc.addr /\ mainPc.handle <= seq
    /\ mainPc.at \in {"publish", "replace", "delete"} /\ mainPc.handle # 0 =>
          \A a \in Addrs : list[a] # mainPc.handle

\* With perf, a breakpoint outside the table is the one the command at hand is
\* about to publish or to delete.
Accounted ==
    backend = "perf" =>
        \A h \in Seqs : entry[h].addr # 0 =>
            \/ \E a \in Addrs : list[a] = h
            \/ mainPc.at \in {"publish", "replace", "delete"} /\ mainPc.handle = h

\* A thread's breakpoint is armed exactly when its entry is.
Armed ==
    \A h \in Seqs : \A i \in Tids :
        entry[h].addr # 0 => sub[h][i] = NoSub \/ sub[h][i].on = entry[h].enabled

\* With perf, hits that wait in the queue are not yet part of what was reported.
Counted ==
    backend = "perf" =>
        /\ \A h \in Seqs : entry[h].queue <= entry[h].total
        /\ \A a \in Addrs : last[a].handle # 0 /\ entry[last[a].handle].addr # 0 =>
              last[a].total + entry[last[a].handle].queue <= entry[last[a].handle].total

HwInv ==
    /\ Typed /\ EntriesOK /\ Backed /\ Accounted /\ Armed /\ Counted
    /\ PerfTotalsAreCumulative

-----------------------------------------------------------------------------
\* The empty records are well formed.
LEMMA NoneTyped == NoEntry \in Entries /\ NoSub \in SubRecords
  BY DEF NoEntry, NoSub, Entries, SubRecords

\* Updates of a thread's breakpoint.
LEMMA SubUpdates ==
  ASSUME NEW s \in SubRecords, NEW n \in Nat, NEW m \in Nat, NEW on \in BOOLEAN
  PROVE  /\ [s EXCEPT !.ring = n] \in SubRecords
         /\ [s EXCEPT !.on = on] \in SubRecords
         /\ [s EXCEPT !.count = m, !.ring = n] \in SubRecords
         /\ s.ring \in Nat /\ s.count \in Nat /\ s.ring + 1 \in Nat /\ s.count + s.ring \in Nat
PROOF
<1>1. [s EXCEPT !.ring = n] \in SubRecords
  BY DEF SubRecords
<1>2. [s EXCEPT !.on = on] \in SubRecords
  BY DEF SubRecords
<1>3. [s EXCEPT !.count = m, !.ring = n] \in SubRecords
  BY DEF SubRecords
<1>4. s.ring \in Nat /\ s.count \in Nat
  BY DEF SubRecords
<1>5. QED
  BY <1>1, <1>2, <1>3, <1>4

\* Updates of a logical breakpoint.
LEMMA EntryUpdates ==
  ASSUME NEW e \in Entries, NEW n \in Nat, NEW m \in Nat, NEW on \in BOOLEAN
  PROVE  /\ [e EXCEPT !.queue = n] \in Entries
         /\ [e EXCEPT !.queue = n, !.total = m] \in Entries
         /\ [e EXCEPT !.enabled = on] \in Entries
         /\ e.queue \in Nat /\ e.total \in Nat
  BY DEF Entries

\* What a connection remembers while it is inside a command.
LEMMA Remembered ==
  ASSUME Typed
  PROVE  /\ mainPc.at = "publish" => mainPc.addr \in Addrs /\ mainPc.handle \in Seqs
         /\ mainPc.at = "replace" => mainPc.handle \in 0..MaxSeq
         /\ mainPc.at = "delete" => mainPc.handle \in Seqs
         /\ debugPc.at = "fetch" => debugPc.addr \in Addrs /\ debugPc.handle \in Seqs
  BY DEF Typed, MainPcs, DebugPcs, Idle

\* The bound on a queue is one of the two numbers and not above the first.
LEMMA MinOfTwo ==
  ASSUME NEW x \in Nat, NEW y \in Nat
  PROVE  Min({x, y}) \in Nat /\ Min({x, y}) <= x
PROOF
<1>1. \E z \in {x, y} : \A w \in {x, y} : z <= w
  <2>1. CASE x <= y
    BY <2>1
  <2>2. CASE ~(x <= y)
    BY <2>2
  <2>3. QED
    BY <2>1, <2>2
<1>2. Min({x, y}) \in {x, y} /\ \A w \in {x, y} : Min({x, y}) <= w
  BY <1>1 DEF Min
<1>3. QED
  BY <1>2

\* Deleting breakpoints leaves well-formed ones.
LEMMA DeleteTyped ==
  ASSUME Typed, NEW H, Delete(H)
  PROVE  entry' \in [Seqs -> Entries] /\ sub' \in [Seqs -> [Tids -> SubRecords]]
  BY NoneTyped DEF Delete, Typed

\* Every step keeps every variable in its domain.
LEMMA TypedStep ==
  ASSUME Typed, [Next]_vars
  PROVE  Typed'
PROOF
<1>. USE BoundAssumption DEF Typed, Seqs
<1>1. CASE UNCHANGED vars
  BY <1>1 DEF vars
<1>2. ASSUME NEW i \in Tids, Spawn(i), UNCHANGED backend
      PROVE  Typed'
  BY <1>2 DEF Spawn
<1>3. ASSUME NEW i \in Tids, Exit(i), UNCHANGED backend
      PROVE  Typed'
  BY <1>3 DEF Exit
<1>4. ASSUME NEW i \in Tids, NEW a \in Addrs, Hit(i, a), UNCHANGED backend
      PROVE  Typed'
  <2>1. sub' \in [Seqs -> [Tids -> SubRecords]]
    <3>1. \A h \in Seqs : [sub[h] EXCEPT ![i].ring = @ + 1] \in [Tids -> SubRecords]
      <4>1. TAKE h \in Seqs
      <4>2. sub[h][i] \in SubRecords
        OBVIOUS
      <4>3. [sub[h][i] EXCEPT !.ring = @ + 1] \in SubRecords
        BY <4>2, SubUpdates
      <4>4. QED
        BY <4>3
    <3>2. QED
      BY <1>4, <3>1 DEF Hit
  <2>2. QED
    BY <1>4, <2>1 DEF Hit
<1>5. ASSUME NEW h \in Seqs, Rescan(h), UNCHANGED backend
      PROVE  Typed'
  <2>1. \A j \in Tids : Installed(j, entry[h].enabled) \in SubRecords
    BY DEF Installed, Entries, SubRecords
  <2>2. sub' \in [Seqs -> [Tids -> SubRecords]]
    BY <1>5, <2>1, NoneTyped DEF Rescan
  <2>3. QED
    BY <1>5, <2>2 DEF Rescan
<1>6. ASSUME NEW h \in Seqs, NEW i \in Tids, ConsumeRing(h, i), UNCHANGED backend
      PROVE  Typed'
  <2>0. sub[h][i] \in SubRecords /\ entry[h] \in Entries
    OBVIOUS
  <2>1. sub' \in [Seqs -> [Tids -> SubRecords]]
    <3>1. [sub[h][i] EXCEPT !.ring = 0] \in SubRecords
      BY <2>0, SubUpdates
    <3>2. QED
      BY <1>6, <3>1 DEF ConsumeRing
  <2>2. sub[h][i].ring \in Nat /\ entry[h].queue \in Nat /\ entry[h].total \in Nat
    BY <2>0, SubUpdates, EntryUpdates
  <2>3. Min({entry[h].queue + sub[h][i].ring, MaxPending}) \in Nat
    <3>1. entry[h].queue + sub[h][i].ring \in Nat
      BY <2>2
    <3>2. QED
      BY <3>1, MinOfTwo
  <2>4. entry' \in [Seqs -> Entries]
    <3>0. entry[h].total + sub[h][i].ring \in Nat
      BY <2>2
    <3>1. [entry[h] EXCEPT !.queue = Min({entry[h].queue + sub[h][i].ring, MaxPending}),
                           !.total = entry[h].total + sub[h][i].ring] \in Entries
      BY <2>0, <2>3, <3>0, EntryUpdates
    <3>2. QED
      BY <1>6, <3>1 DEF ConsumeRing
  <2>5. QED
    BY <1>6, <2>1, <2>4 DEF ConsumeRing
<1>7. ASSUME NEW a \in Addrs, SetAdd(a), UNCHANGED backend
      PROVE  Typed'
  <2>1. seq' \in Seqs /\ seq' = seq + 1
    BY <1>7 DEF SetAdd
  <2>2. entry' \in [Seqs -> Entries]
    <3>1. [addr |-> a, enabled |-> TRUE, queue |-> 0, total |-> 0] \in Entries
      BY DEF Entries
    <3>2. QED
      BY <1>7, <3>1 DEF SetAdd
  <2>3. \A j \in Tids : Installed(j, TRUE) \in SubRecords
    BY DEF Installed, SubRecords
  <2>4. sub' \in [Seqs -> [Tids -> SubRecords]]
    BY <1>7, <2>3, NoneTyped DEF SetAdd
  <2>5. mainPc' \in MainPcs
    BY <1>7, <2>1 DEF SetAdd, MainPcs
  <2>6. UNCHANGED <<list, live, life, debugPc, last>>
    BY <1>7 DEF SetAdd
  <2>7. QED
    BY <1>7, <2>1, <2>2, <2>4, <2>5, <2>6
<1>8. ASSUME SetPublish, UNCHANGED backend
      PROVE  Typed'
  <2>1. mainPc.addr \in Addrs /\ mainPc.handle \in Seqs
    BY <1>8, Remembered DEF SetPublish
  <2>2. mainPc' \in MainPcs
    BY <1>8, <2>1 DEF SetPublish, MainPcs
  <2>3. list' \in [Addrs -> 0..MaxSeq]
    BY <1>8, <2>1 DEF SetPublish
  <2>4. QED
    BY <1>8, <2>2, <2>3 DEF SetPublish
<1>9. ASSUME ReplaceOld, UNCHANGED backend
      PROVE  Typed'
  <2>1. CASE Delete({mainPc.handle})
    BY <1>9, <2>1, DeleteTyped DEF ReplaceOld, MainPcs
  <2>2. CASE UNCHANGED <<entry, sub>>
    BY <1>9, <2>2 DEF ReplaceOld, MainPcs
  <2>3. QED
    BY <1>9, <2>1, <2>2 DEF ReplaceOld
<1>10. ASSUME NEW a \in Addrs, RemoveTake(a), UNCHANGED backend
       PROVE  Typed'
  <2>1. list[a] \in Seqs
    BY <1>10 DEF RemoveTake
  <2>2. mainPc' \in MainPcs /\ list' \in [Addrs -> 0..MaxSeq]
    BY <1>10, <2>1 DEF RemoveTake, MainPcs
  <2>3. QED
    BY <1>10, <2>2 DEF RemoveTake
<1>11. ASSUME RemoveDelete, UNCHANGED backend
       PROVE  Typed'
  BY <1>11, DeleteTyped DEF RemoveDelete, MainPcs
<1>12. ASSUME NEW a \in Addrs, NEW on \in BOOLEAN, SuspendOrResume(a, on), UNCHANGED backend
       PROVE  Typed'
  <2>1. list[a] \in Seqs
    BY <1>12 DEF SuspendOrResume, Owned
  <2>2. entry' \in [Seqs -> Entries]
    BY <1>12, <2>1, EntryUpdates DEF SuspendOrResume, Arm
  <2>3. \A i \in Tids : [sub[list[a]][i] EXCEPT !.on = on] \in SubRecords
    <3>1. \A i \in Tids : sub[list[a]][i] \in SubRecords
      BY <2>1
    <3>2. QED
      BY <1>12, <3>1, SubUpdates
  <2>4. sub' \in [Seqs -> [Tids -> SubRecords]]
    BY <1>12, <2>1, <2>3, NoneTyped DEF SuspendOrResume, Arm
  <2>5. QED
    BY <1>12, <2>2, <2>4 DEF SuspendOrResume
<1>13. ASSUME CloseHandle, UNCHANGED backend
       PROVE  Typed'
  <2>1. entry' \in [Seqs -> Entries] /\ sub' \in [Seqs -> [Tids -> SubRecords]]
    BY <1>13, DeleteTyped DEF CloseHandle
  <2>2. QED
    BY <1>13, <2>1 DEF CloseHandle
<1>14. ASSUME OpenProcess, UNCHANGED backend
       PROVE  Typed'
  BY <1>14 DEF OpenProcess
<1>15. ASSUME NEW a \in Addrs, ReadStart(a), UNCHANGED backend
       PROVE  Typed'
  <2>1. list[a] \in Seqs
    BY <1>15 DEF ReadStart
  <2>2. debugPc' \in DebugPcs
    BY <1>15, <2>1 DEF ReadStart, DebugPcs
  <2>3. QED
    BY <1>15, <2>2 DEF ReadStart
<1>16. ASSUME ReadFetch, UNCHANGED backend
       PROVE  Typed'
  <2>1. debugPc.handle \in Seqs /\ debugPc.addr \in Addrs
    BY <1>16, Remembered DEF ReadFetch
  <2>2. /\ entry' = entry \/ entry' = [entry EXCEPT ![debugPc.handle].queue = 0]
        /\ sub' = sub \/ sub' = [sub EXCEPT ![debugPc.handle] = Drained(debugPc.handle)]
    BY <1>16 DEF ReadFetch
  <2>3. entry' \in [Seqs -> Entries]
    <3>1. [entry[debugPc.handle] EXCEPT !.queue = 0] \in Entries
      BY <2>1, EntryUpdates
    <3>2. QED
      BY <2>1, <2>2, <3>1
  <2>4. sub' \in [Seqs -> [Tids -> SubRecords]]
    <3>1. Drained(debugPc.handle) \in [Tids -> SubRecords]
      <4>1. \A i \in Tids : sub[debugPc.handle][i] \in SubRecords
        BY <2>1
      <4>2. \A i \in Tids : [sub[debugPc.handle][i] EXCEPT
               !.count = @ + sub[debugPc.handle][i].ring, !.ring = 0] \in SubRecords
        BY <4>1, SubUpdates
      <4>3. QED
        BY <4>2 DEF Drained
    <3>2. QED
      BY <2>1, <2>2, <3>1
  <2>5. backend = "perf" => last' \in [Addrs -> Reports]
    <3>1. SUFFICES ASSUME backend = "perf", last' # last
                   PROVE  last' \in [Addrs -> Reports]
      BY <1>16
    <3>2. Report(debugPc.addr, debugPc.handle, entry[debugPc.handle].total,
                 entry[debugPc.handle].queue)
      BY <1>16, <3>1 DEF ReadFetch
    <3>3. entry[debugPc.handle].total \in Nat /\ entry[debugPc.handle].queue \in Nat
      BY <2>1 DEF Entries
    <3>4. QED
      BY <2>1, <3>1, <3>2, <3>3 DEF Report, Reports
  <2>6. UNCHANGED <<list, seq, live, life, mainPc>> /\ debugPc' = Idle
    BY <1>16 DEF ReadFetch
  <2>7. QED
    BY <1>16, <2>3, <2>4, <2>5, <2>6 DEF DebugPcs
<1>17. QED
  BY <1>1, <1>2, <1>3, <1>4, <1>5, <1>6, <1>7, <1>8, <1>9,
     <1>10, <1>11, <1>12, <1>13, <1>14, <1>15, <1>16
  DEF Next, Main, Debug, Worker, Target

-----------------------------------------------------------------------------
\* A logical breakpoint exists exactly when it has an address.
LEMMA OwnedHasAddr ==
  ASSUME Typed, EntriesOK, NEW h \in Seqs
  PROVE  h \in Owned <=> entry[h].addr # 0
  BY DEF EntriesOK, Handles, Owned, NoEntry

\* The steps that neither create nor delete a breakpoint, nor move the table
\* or the MAIN connection.
Steady ==
    /\ UNCHANGED <<backend, opened, list, seq, mainPc>>
    /\ \A h \in Seqs : entry'[h].addr = entry[h].addr
    /\ \A h \in Seqs : entry[h].addr = 0 => entry'[h] = entry[h]

\* Everything else is one of the seven steps of MAIN that change the table.
LEMMA StepKinds ==
  ASSUME Typed, EntriesOK, [Next]_vars
  PROVE  \/ Steady
         \/ /\ UNCHANGED backend
            /\ \/ \E a \in Addrs : SetAdd(a) \/ RemoveTake(a)
               \/ SetPublish \/ ReplaceOld \/ RemoveDelete \/ CloseHandle \/ OpenProcess
PROOF
<1>. USE DEF Typed, Seqs
<1>1. CASE UNCHANGED vars
  BY <1>1 DEF vars, Steady
<1>2. ASSUME NEW i \in Tids, Spawn(i) \/ Exit(i) \/ (\E a \in Addrs : Hit(i, a)),
             UNCHANGED backend
      PROVE  Steady
  BY <1>2 DEF Spawn, Exit, Hit, Steady
<1>3. ASSUME NEW h \in Seqs, Rescan(h), UNCHANGED backend
      PROVE  Steady
  BY <1>3 DEF Rescan, Steady
<1>4. ASSUME NEW h \in Seqs, NEW i \in Tids, ConsumeRing(h, i), UNCHANGED backend
      PROVE  Steady
  <2>1. entry[h].addr # 0 /\ entry[h] \in Entries
    BY <1>4, OwnedHasAddr DEF ConsumeRing
  <2>2. \A g \in Seqs : entry'[g].addr = entry[g].addr /\ (g # h => entry'[g] = entry[g])
    BY <1>4, <2>1 DEF ConsumeRing, Entries
  <2>3. QED
    BY <1>4, <2>1, <2>2 DEF ConsumeRing, Steady
<1>5. ASSUME NEW a \in Addrs, NEW on \in BOOLEAN, SuspendOrResume(a, on), UNCHANGED backend
      PROVE  Steady
  <2>1. list[a] \in Seqs /\ list[a] \in Owned
    BY <1>5 DEF SuspendOrResume, Owned
  <2>2. entry[list[a]].addr # 0 /\ entry[list[a]] \in Entries
    BY <2>1, OwnedHasAddr
  <2>3. \A g \in Seqs : entry'[g].addr = entry[g].addr /\ (g # list[a] => entry'[g] = entry[g])
    BY <1>5, <2>1, <2>2 DEF SuspendOrResume, Arm, Entries
  <2>4. QED
    BY <1>5, <2>2, <2>3 DEF SuspendOrResume, Steady
<1>6. ASSUME NEW a \in Addrs, ReadStart(a), UNCHANGED backend
      PROVE  Steady
  BY <1>6 DEF ReadStart, Steady
<1>7. ASSUME ReadFetch, UNCHANGED backend
      PROVE  Steady
  <2>1. debugPc.handle \in Seqs
    BY <1>7, Remembered DEF ReadFetch
  <2>2. CASE entry' = entry
    BY <1>7, <2>2 DEF ReadFetch, Steady
  <2>3. CASE debugPc.handle \in Owned /\ entry' = [entry EXCEPT ![debugPc.handle].queue = 0]
    <3>1. entry[debugPc.handle].addr # 0 /\ entry[debugPc.handle] \in Entries
      BY <2>1, <2>3, OwnedHasAddr
    <3>2. \A g \in Seqs : /\ entry'[g].addr = entry[g].addr
                          /\ g # debugPc.handle => entry'[g] = entry[g]
      BY <2>1, <2>3, <3>1 DEF Entries
    <3>3. QED
      BY <1>7, <3>1, <3>2 DEF ReadFetch, Steady
  <2>4. QED
    BY <1>7, <2>2, <2>3 DEF ReadFetch
<1>8. QED
  BY <1>1, <1>2, <1>3, <1>4, <1>5, <1>6, <1>7 DEF Next, Main, Debug, Worker, Target

\* What deleting does to the addresses.
LEMMA DeleteEffect ==
  ASSUME Typed, NEW H, Delete(H)
  PROVE  /\ \A h \in Seqs : h \in H => entry'[h] = NoEntry /\ entry'[h].addr = 0
         /\ \A h \in Seqs : h \notin H => entry'[h] = entry[h]
  BY DEF Delete, Typed, NoEntry

\* ReplaceOld deletes the replaced handle or nothing.
LEMMA ReplaceEffect ==
  ASSUME Typed, EntriesOK, ReplaceOld
  PROVE  \A h \in Seqs :
            /\ entry'[h] = entry[h] \/ (h = mainPc.handle /\ entry'[h] = NoEntry)
            /\ backend = "perf" /\ h = mainPc.handle => entry'[h].addr = 0
PROOF
<1>1. CASE backend = "perf" /\ mainPc.handle \in Owned
  BY <1>1, DeleteEffect DEF ReplaceOld
<1>2. CASE ~(backend = "perf" /\ mainPc.handle \in Owned)
  BY <1>2, OwnedHasAddr DEF ReplaceOld
<1>3. QED
  BY <1>1, <1>2

\* Only the DEBUG connection changes what it remembers and what was reported.
LEMMA DebugAlone ==
  ASSUME [Next]_vars
  PROVE  \/ UNCHANGED <<debugPc, last>> \/ (\E a \in Addrs : ReadStart(a)) \/ ReadFetch
  BY DEF Next, vars, Main, Debug, Worker, Target, SetAdd, SetPublish, ReplaceOld, RemoveTake,
         RemoveDelete, SuspendOrResume, CloseHandle, OpenProcess, Rescan, ConsumeRing, Spawn,
         Exit, Hit

\* The backend is chosen once.
LEMMA BackendKept ==
  ASSUME [Next]_vars
  PROVE  backend' = backend
  BY DEF Next, vars

\* Breakpoints keep their addresses and handles stay below the sequence number.
LEMMA EntriesStep ==
  ASSUME Typed, EntriesOK, Backed, [Next]_vars
  PROVE  EntriesOK'
PROOF
<1>. USE BoundAssumption DEF Typed
<1>0. NoEntry.addr = 0
  BY DEF NoEntry
<1>1. Handles' /\ seq \in Nat /\ seq' \in Nat /\ seq <= seq'
  <2>1. CASE Steady
    BY <2>1 DEF Steady, EntriesOK, Handles
  <2>2. ASSUME NEW a \in Addrs, SetAdd(a)
        PROVE  Handles' /\ seq \in Nat /\ seq' \in Nat /\ seq <= seq'
    <3>1. seq + 1 \in Seqs /\ seq' = seq + 1
      BY <2>2 DEF SetAdd, Seqs
    <3>2. \A h \in Seqs : h # seq + 1 => entry'[h] = entry[h]
      BY <2>2 DEF SetAdd
    <3>3. entry'[seq + 1].addr = a
      BY <2>2, <3>1 DEF SetAdd
    <3>4. \A h \in Seqs : entry'[h].addr = 0 => entry'[h] = NoEntry
      BY <3>2, <3>3, AddrAssumption DEF EntriesOK, Handles
    <3>5. \A h \in Seqs : entry'[h].addr # 0 => h <= seq'
      BY <3>1, <3>2 DEF EntriesOK, Handles, Seqs
    <3>6. \A b \in Addrs : list'[b] <= seq'
      BY <2>2, <3>1 DEF EntriesOK, Handles, SetAdd
    <3>7. QED
      BY <3>1, <3>4, <3>5, <3>6 DEF Handles
  <2>3. ASSUME NEW a \in Addrs, RemoveTake(a)
        PROVE  Handles' /\ seq \in Nat /\ seq' \in Nat /\ seq <= seq'
    BY <2>3 DEF RemoveTake, EntriesOK, Handles
  <2>4. CASE SetPublish
    <3>1. mainPc.addr \in Addrs /\ mainPc.handle \in Seqs /\ mainPc.handle <= seq
      BY <2>4, Remembered DEF SetPublish, Backed
    <3>2. QED
      BY <2>4, <3>1 DEF SetPublish, EntriesOK, Handles
  <2>5. CASE ReplaceOld
    <3>1. \A h \in Seqs : entry'[h] = entry[h] \/ entry'[h] = NoEntry
      BY <2>5, ReplaceEffect
    <3>2. QED
      BY <2>5, <3>1, <1>0 DEF ReplaceOld, EntriesOK, Handles
  <2>6. CASE RemoveDelete
    <3>1. \A h \in Seqs : entry'[h] = entry[h] \/ entry'[h] = NoEntry
      BY <2>6, DeleteEffect DEF RemoveDelete
    <3>2. QED
      BY <2>6, <3>1, <1>0 DEF RemoveDelete, EntriesOK, Handles
  <2>7. CASE CloseHandle
    <3>1. \A h \in Seqs : entry'[h] = entry[h] \/ entry'[h] = NoEntry
      BY <2>7, DeleteEffect DEF CloseHandle
    <3>2. QED
      BY <2>7, <3>1, <1>0 DEF CloseHandle, EntriesOK, Handles
  <2>8. CASE OpenProcess
    BY <2>8 DEF OpenProcess, EntriesOK, Handles
  <2>9. QED
    BY <2>1, <2>2, <2>3, <2>4, <2>5, <2>6, <2>7, <2>8, StepKinds
<1>2. debugPc'.at = "fetch" => debugPc'.handle <= seq'
  <2>1. CASE UNCHANGED debugPc
    BY <2>1, <1>1, Remembered DEF EntriesOK, Seqs
  <2>2. ASSUME NEW a \in Addrs, ReadStart(a)
        PROVE  debugPc'.at = "fetch" => debugPc'.handle <= seq'
    BY <2>2, <1>1 DEF ReadStart, EntriesOK, Handles
  <2>3. CASE ReadFetch
    BY <2>3 DEF ReadFetch, Idle
  <2>4. QED
    BY <2>1, <2>2, <2>3, DebugAlone
<1>3. backend' = "perf" => \A a \in Addrs : last'[a].handle <= seq'
  <2>1. SUFFICES ASSUME backend' = "perf", NEW b \in Addrs
                 PROVE  last'[b].handle <= seq'
    OBVIOUS
  <2>2. backend = "perf" /\ last[b].handle \in Nat /\ last[b].handle <= seq
    BY <2>1, BackendKept DEF EntriesOK, Reports
  <2>3. CASE UNCHANGED last
    BY <2>2, <2>3, <1>1
  <2>6. ASSUME NEW a \in Addrs, ReadStart(a)
        PROVE  UNCHANGED last
    BY <2>6 DEF ReadStart
  <2>4. CASE ReadFetch
    <3>1. debugPc.handle \in Seqs /\ debugPc.handle <= seq /\ debugPc.addr \in Addrs
      BY <2>4, Remembered DEF ReadFetch, EntriesOK
    <3>2. CASE UNCHANGED last
      BY <2>2, <3>2, <1>1
    <3>3. CASE Report(debugPc.addr, debugPc.handle, entry[debugPc.handle].total,
                      entry[debugPc.handle].queue)
      BY <2>2, <3>1, <3>3, <1>1 DEF Report, Seqs
    <3>4. QED
      BY <2>2, <2>4, <3>2, <3>3 DEF ReadFetch
  <2>5. QED
    BY <2>3, <2>4, <2>6, DebugAlone
<1>4. QED
  BY <1>1, <1>2, <1>3 DEF EntriesOK

\* The table stays backed, and what a command carries stays out of it.
LEMMA BackedStep ==
  ASSUME Typed, EntriesOK, Backed, [Next]_vars
  PROVE  Backed'
PROOF
<1>. USE BoundAssumption DEF Typed
<1>0. /\ \A a \in Addrs : list[a] \in Nat /\ (list[a] # 0 => list[a] \in Seqs)
      /\ NoEntry.addr = 0 /\ 0 \notin Seqs
  BY DEF Seqs, NoEntry
<1>1. CASE Steady
  <2>1. mainPc.at = "publish" => mainPc.handle \in Seqs
    BY Remembered
  <2>2. QED
    BY <1>0, <1>1, <2>1 DEF Steady, Backed
<1>2. ASSUME NEW a \in Addrs, SetAdd(a)
      PROVE  Backed'
  <2>1. seq + 1 \in Seqs /\ seq' = seq + 1 /\ opened /\ opened' = opened /\ list' = list
        /\ mainPc' = [at |-> "publish", addr |-> a, handle |-> seq + 1]
    BY <1>2 DEF SetAdd, Seqs
  <2>2. \A b \in Addrs : list[b] # seq + 1
    BY <2>1 DEF EntriesOK, Handles
  <2>3. entry'[seq + 1].addr = a
    BY <1>2, <2>1 DEF SetAdd
  <2>4. \A h \in Seqs : h # seq + 1 => entry'[h] = entry[h]
    BY <1>2 DEF SetAdd
  <2>5. \A b \in Addrs : list'[b] # 0 => opened' /\ entry'[list'[b]].addr = b
    BY <1>0, <2>1, <2>2, <2>4 DEF Backed
  <2>6. QED
    BY <2>1, <2>2, <2>3, <2>5 DEF Backed
<1>3. ASSUME NEW a \in Addrs, RemoveTake(a)
      PROVE  Backed'
  <2>1. /\ mainPc' = [at |-> "delete", handle |-> list[a]]
        /\ list' = [list EXCEPT ![a] = 0] /\ UNCHANGED <<opened, entry, seq>> /\ list[a] # 0
    BY <1>3 DEF RemoveTake
  <2>2. \A b \in Addrs : list'[b] # list[a]
    BY <2>1 DEF Backed
  <2>3. QED
    BY <2>1, <2>2 DEF Backed
<1>4. CASE SetPublish
  <2>1. mainPc.addr \in Addrs /\ mainPc.handle \in Seqs
    BY <1>4, Remembered DEF SetPublish
  <2>2. /\ mainPc' = [at |-> "replace", handle |-> list[mainPc.addr]]
        /\ list' = [list EXCEPT ![mainPc.addr] = mainPc.handle]
        /\ UNCHANGED <<opened, entry, seq>> /\ mainPc.at = "publish"
    BY <1>4 DEF SetPublish
  <2>3. \A b \in Addrs : list'[b] # 0 => opened' /\ entry'[list'[b]].addr = b
    BY <2>1, <2>2 DEF Backed
  <2>4. list[mainPc.addr] # 0 => \A b \in Addrs : list'[b] # list[mainPc.addr]
    BY <1>0, <2>1, <2>2 DEF Backed
  <2>5. QED
    BY <2>2, <2>3, <2>4 DEF Backed
<1>5. CASE ReplaceOld
  <2>1. mainPc' = Idle /\ UNCHANGED <<opened, list, seq>> /\ mainPc.at = "replace"
    BY <1>5 DEF ReplaceOld
  <2>2. \A h \in Seqs : h # mainPc.handle => entry'[h] = entry[h]
    BY <1>5, ReplaceEffect
  <2>3. QED
    BY <1>0, <2>1, <2>2 DEF Backed, Idle
<1>6. CASE RemoveDelete
  <2>1. mainPc' = Idle /\ UNCHANGED <<opened, list, seq>> /\ mainPc.at = "delete"
    BY <1>6 DEF RemoveDelete
  <2>2. \A h \in Seqs : h # mainPc.handle => entry'[h] = entry[h]
    BY <1>6, DeleteEffect DEF RemoveDelete
  <2>3. QED
    BY <1>0, <2>1, <2>2 DEF Backed, Idle
<1>7. CASE CloseHandle
  BY <1>7 DEF CloseHandle, Backed, Idle
<1>8. CASE OpenProcess
  BY <1>8 DEF OpenProcess, Backed, Idle
<1>9. QED
  BY <1>1, <1>2, <1>3, <1>4, <1>5, <1>6, <1>7, <1>8, StepKinds

\* With perf, no step loses track of a breakpoint.
LEMMA AccountedStep ==
  ASSUME Typed, EntriesOK, Backed, Accounted, [Next]_vars
  PROVE  Accounted'
PROOF
<1>. USE BoundAssumption DEF Typed
<1>0. SUFFICES ASSUME backend = "perf", NEW h \in Seqs, entry'[h].addr # 0
               PROVE  \/ \E a \in Addrs : list'[a] = h
                      \/ /\ mainPc'.at \in {"publish", "replace", "delete"}
                         /\ mainPc'.handle = h
  BY BackendKept DEF Accounted
<1>. DEFINE Goal == \/ \E a \in Addrs : list'[a] = h
                    \/ /\ mainPc'.at \in {"publish", "replace", "delete"}
                       /\ mainPc'.handle = h
<1>1. CASE Steady
  BY <1>0, <1>1 DEF Steady, Accounted
<1>2. ASSUME NEW a \in Addrs, SetAdd(a)
      PROVE  Goal
  <2>1. CASE h = seq + 1
    BY <1>2, <2>1 DEF SetAdd
  <2>2. CASE h # seq + 1
    BY <1>0, <1>2, <2>2 DEF SetAdd, Accounted, Idle
  <2>3. QED
    BY <2>1, <2>2
<1>3. ASSUME NEW a \in Addrs, RemoveTake(a)
      PROVE  Goal
  BY <1>0, <1>3 DEF RemoveTake, Accounted, Idle
<1>4. CASE SetPublish
  <2>1. mainPc.addr \in Addrs
    BY <1>4, Remembered DEF SetPublish
  <2>2. QED
    BY <1>0, <1>4, <2>1 DEF SetPublish, Accounted
<1>5. CASE ReplaceOld
  <2>1. h # mainPc.handle /\ entry'[h] = entry[h]
    BY <1>0, <1>5, ReplaceEffect DEF NoEntry
  <2>2. QED
    BY <1>0, <1>5, <2>1 DEF ReplaceOld, Accounted
<1>6. CASE RemoveDelete
  <2>1. h # mainPc.handle /\ entry'[h] = entry[h]
    BY <1>0, <1>6, DeleteEffect DEF RemoveDelete
  <2>2. QED
    BY <1>0, <1>6, <2>1 DEF RemoveDelete, Accounted
<1>7. CASE CloseHandle
  <2>1. h \notin {list[a] : a \in Addrs} /\ entry'[h] = entry[h]
    BY <1>0, <1>7, DeleteEffect DEF CloseHandle
  <2>2. QED
    BY <1>0, <1>7, <2>1 DEF CloseHandle, Accounted, Idle
<1>8. CASE OpenProcess
  BY <1>0, <1>8 DEF OpenProcess, Accounted
<1>9. QED
  BY <1>1, <1>2, <1>3, <1>4, <1>5, <1>6, <1>7, <1>8, StepKinds

\* A thread's breakpoint that is absent or armed as its entry says.
ArmedAt(h, i) == sub[h][i] = NoSub \/ sub[h][i].on = entry[h].enabled

\* No step leaves a breakpoint armed otherwise than its entry.
LEMMA ArmedStep ==
  ASSUME Typed, Armed, [Next]_vars
  PROVE  Armed'
PROOF
<1>. USE DEF Typed
<1>0. SUFFICES ASSUME NEW h \in Seqs, NEW i \in Tids, entry'[h].addr # 0
               PROVE  ArmedAt(h, i)'
  BY DEF Armed, ArmedAt
<1>1. /\ entry[h] \in Entries /\ sub[h] \in [Tids -> SubRecords] /\ sub[h][i] \in SubRecords
      /\ entry[h].addr # 0 => ArmedAt(h, i)
  BY DEF Armed, ArmedAt
<1>2. CASE UNCHANGED <<entry, sub>>
  BY <1>0, <1>1, <1>2 DEF ArmedAt
<1>3. ASSUME NEW j \in Tids, NEW a \in Addrs, Hit(j, a)
      PROVE  ArmedAt(h, i)'
  <2>1. entry' = entry
    BY <1>3 DEF Hit
  <2>2. CASE sub'[h] = sub[h]
    BY <1>0, <1>1, <2>1, <2>2 DEF ArmedAt
  <2>3. CASE sub'[h] = [sub[h] EXCEPT ![j].ring = @ + 1] /\ sub[h][j].on
    <3>1. sub'[h][i].on = sub[h][i].on /\ (i # j => sub'[h][i] = sub[h][i])
      BY <1>1, <2>3 DEF SubRecords
    <3>2. sub[h][j] # NoSub
      BY <2>3 DEF NoSub
    <3>3. QED
      BY <1>0, <1>1, <2>1, <3>1, <3>2 DEF ArmedAt
  <2>4. QED
    BY <1>3, <2>2, <2>3 DEF Hit
<1>4. ASSUME NEW g \in Seqs, Rescan(g)
      PROVE  ArmedAt(h, i)'
  <2>1. entry' = entry
    BY <1>4 DEF Rescan
  <2>2. \/ sub'[h][i] = sub[h][i] \/ sub'[h][i] = NoSub
        \/ sub'[h][i] = Installed(i, entry[h].enabled)
    BY <1>4 DEF Rescan
  <2>3. QED
    BY <1>0, <1>1, <2>1, <2>2 DEF ArmedAt, Installed
<1>5. ASSUME NEW g \in Seqs, NEW j \in Tids, ConsumeRing(g, j)
      PROVE  ArmedAt(h, i)'
  <2>1. entry'[h].enabled = entry[h].enabled /\ entry'[h].addr = entry[h].addr
    BY <1>1, <1>5 DEF ConsumeRing, Entries
  <2>2. sub[g][j] # NoSub
    BY <1>5 DEF ConsumeRing, NoSub
  <2>3. sub'[h][i].on = sub[h][i].on /\ ((g # h \/ i # j) => sub'[h][i] = sub[h][i])
    BY <1>1, <1>5 DEF ConsumeRing, SubRecords
  <2>4. QED
    BY <1>0, <1>1, <2>1, <2>2, <2>3 DEF ArmedAt
<1>6. ASSUME NEW a \in Addrs, SetAdd(a)
      PROVE  ArmedAt(h, i)'
  <2>1. CASE h = seq + 1
    <3>1. entry'[h].enabled = TRUE
      BY <1>6, <2>1 DEF SetAdd
    <3>2. sub'[h][i] = NoSub \/ sub'[h][i] = Installed(i, TRUE)
      BY <1>6, <2>1 DEF SetAdd
    <3>3. Installed(i, TRUE).on = TRUE
      BY DEF Installed
    <3>4. QED
      BY <3>1, <3>2, <3>3 DEF ArmedAt
  <2>2. CASE h # seq + 1
    BY <1>0, <1>1, <1>6, <2>2 DEF SetAdd, ArmedAt
  <2>3. QED
    BY <2>1, <2>2
<1>7. ASSUME NEW H, Delete(H)
      PROVE  ArmedAt(h, i)'
  BY <1>0, <1>1, <1>7 DEF Delete, ArmedAt
<1>8. ASSUME NEW a \in Addrs, NEW on \in BOOLEAN, SuspendOrResume(a, on)
      PROVE  ArmedAt(h, i)'
  <2>1. list[a] \in Seqs
    BY <1>8 DEF SuspendOrResume, Owned
  <2>2. CASE h = list[a]
    <3>1. entry'[h].enabled = on
      BY <1>1, <1>8, <2>2 DEF SuspendOrResume, Arm, Entries
    <3>2. sub'[h][i] = NoSub \/ sub'[h][i] = [sub[h][i] EXCEPT !.on = on]
      BY <1>8, <2>2 DEF SuspendOrResume, Arm
    <3>3. [sub[h][i] EXCEPT !.on = on].on = on
      BY <1>1 DEF SubRecords
    <3>4. QED
      BY <3>1, <3>2, <3>3 DEF ArmedAt
  <2>3. CASE h # list[a]
    BY <1>0, <1>1, <1>8, <2>3 DEF SuspendOrResume, Arm, ArmedAt
  <2>4. QED
    BY <2>2, <2>3
<1>9. CASE ReadFetch
  <2>1. debugPc.handle \in Seqs
    BY <1>9, Remembered DEF ReadFetch
  <2>2. entry'[h].enabled = entry[h].enabled /\ entry'[h].addr = entry[h].addr
    <3>1. entry' = entry \/ entry' = [entry EXCEPT ![debugPc.handle].queue = 0]
      BY <1>9 DEF ReadFetch
    <3>2. QED
      BY <1>1, <2>1, <3>1 DEF Entries
  <2>3. sub'[h] = sub[h] \/ (sub'[h] = Drained(h) /\ h = debugPc.handle)
    BY <1>9, <2>1 DEF ReadFetch
  <2>4. Drained(h)[i].on = sub[h][i].on
    BY <1>1 DEF Drained, SubRecords
  <2>5. sub[h][i] = NoSub => Drained(h)[i] = NoSub
    <3>1. SUFFICES ASSUME sub[h][i] = NoSub PROVE Drained(h)[i] = NoSub
      OBVIOUS
    <3>2. Drained(h)[i] = [NoSub EXCEPT !.count = @ + NoSub.ring, !.ring = 0]
      BY <3>1 DEF Drained
    <3>3. NoSub.count + NoSub.ring = NoSub.count /\ NoSub.ring = 0
      BY DEF NoSub
    <3>4. QED
      BY <3>2, <3>3 DEF NoSub
  <2>6. QED
    BY <1>0, <1>1, <2>2, <2>3, <2>4, <2>5 DEF ArmedAt
<1>10. QED
  <2>1. CASE SetPublish \/ OpenProcess \/ (\E a \in Addrs : RemoveTake(a) \/ ReadStart(a))
    BY <1>2, <2>1 DEF SetPublish, OpenProcess, RemoveTake, ReadStart
  <2>2. CASE \E j \in Tids : Spawn(j) \/ Exit(j)
    BY <1>2, <2>2 DEF Spawn, Exit
  <2>3. CASE ReplaceOld \/ RemoveDelete \/ CloseHandle
    BY <1>2, <1>7, <2>3 DEF ReplaceOld, RemoveDelete, CloseHandle
  <2>4. CASE UNCHANGED vars
    BY <1>2, <2>4 DEF vars
  <2>5. QED
    BY <1>3, <1>4, <1>5, <1>6, <1>8, <1>9, <2>1, <2>2, <2>3, <2>4
    DEF Next, Main, Debug, Worker, Target

\* What a breakpoint counted beyond its queue never shrinks while it exists.
LEMMA QueueStep ==
  ASSUME Typed, EntriesOK, [Next]_vars, backend = "perf", NEW h \in Seqs,
         entry[h].queue <= entry[h].total
  PROVE  /\ entry'[h].queue <= entry'[h].total
         /\ entry'[h].addr # 0 /\ h <= seq =>
               /\ entry[h].addr # 0
               /\ entry[h].total + entry'[h].queue <= entry'[h].total + entry[h].queue
PROOF
<1>. USE DEF Typed
<1>. DEFINE Goal == /\ entry'[h].queue <= entry'[h].total
                    /\ entry'[h].addr # 0 /\ h <= seq =>
                          /\ entry[h].addr # 0
                          /\ entry[h].total + entry'[h].queue <= entry'[h].total + entry[h].queue
<1>1. entry[h] \in Entries /\ entry[h].queue \in Nat /\ entry[h].total \in Nat
  BY EntryUpdates
<1>2. CASE /\ entry'[h].queue = entry[h].queue /\ entry'[h].total = entry[h].total
           /\ entry'[h].addr = entry[h].addr
  BY <1>1, <1>2
<1>3. CASE entry'[h] = NoEntry
  BY <1>1, <1>3 DEF NoEntry
<1>4. ASSUME NEW g \in Seqs, NEW j \in Tids, ConsumeRing(g, j)
      PROVE  Goal
  <2>1. CASE h = g
    <3>1. sub[g][j].ring \in Nat
      BY SubUpdates
    <3>2. entry[h].queue + sub[g][j].ring \in Nat
      BY <1>1, <3>1
    <3>3. /\ Min({entry[h].queue + sub[g][j].ring, MaxPending}) \in Nat
          /\ Min({entry[h].queue + sub[g][j].ring, MaxPending}) <= entry[h].queue + sub[g][j].ring
      BY <3>2, MinOfTwo, BoundAssumption
    <3>4. /\ entry'[h].queue = Min({entry[h].queue + sub[g][j].ring, MaxPending})
          /\ entry'[h].total = entry[h].total + sub[g][j].ring
          /\ entry'[h].addr = entry[h].addr
      BY <1>1, <1>4, <2>1 DEF ConsumeRing, Entries
    <3>5. QED
      BY <1>1, <3>1, <3>3, <3>4
  <2>2. CASE h # g
    BY <1>2, <1>4, <2>2 DEF ConsumeRing
  <2>3. QED
    BY <2>1, <2>2
<1>5. ASSUME NEW a \in Addrs, SetAdd(a)
      PROVE  Goal
  <2>1. CASE h = seq + 1
    BY <1>5, <2>1 DEF SetAdd
  <2>2. CASE h # seq + 1
    BY <1>2, <1>5, <2>2 DEF SetAdd
  <2>3. QED
    BY <2>1, <2>2
<1>6. ASSUME NEW H, Delete(H)
      PROVE  Goal
  BY <1>2, <1>3, <1>6 DEF Delete
<1>7. ASSUME NEW a \in Addrs, NEW on \in BOOLEAN, SuspendOrResume(a, on)
      PROVE  Goal
  <2>1. /\ entry'[h].queue = entry[h].queue /\ entry'[h].total = entry[h].total
        /\ entry'[h].addr = entry[h].addr
    BY <1>1, <1>7 DEF SuspendOrResume, Arm, Entries
  <2>2. QED
    BY <1>2, <2>1
<1>8. CASE ReadFetch
  <2>1. CASE entry'[h] = entry[h]
    BY <1>2, <2>1
  <2>2. CASE entry'[h] = [entry[h] EXCEPT !.queue = 0]
    <3>1. entry'[h].queue = 0 /\ entry'[h].total = entry[h].total /\ entry'[h].addr = entry[h].addr
      BY <1>1, <2>2 DEF Entries
    <3>2. QED
      BY <1>1, <3>1
  <2>3. QED
    <3>1. entry' = entry \/ entry' = [entry EXCEPT ![debugPc.handle].queue = 0]
      BY <1>8 DEF ReadFetch
    <3>2. QED
      BY <2>1, <2>2, <3>1
<1>9. CASE UNCHANGED entry
  BY <1>2, <1>9
<1>10. QED
  <2>1. CASE SetPublish \/ OpenProcess \/ (\E a \in Addrs : RemoveTake(a) \/ ReadStart(a))
    BY <1>9, <2>1 DEF SetPublish, OpenProcess, RemoveTake, ReadStart
  <2>2. CASE \E j \in Tids : Spawn(j) \/ Exit(j) \/ (\E a \in Addrs : Hit(j, a))
    BY <1>9, <2>2 DEF Spawn, Exit, Hit
  <2>3. CASE ReplaceOld \/ RemoveDelete \/ CloseHandle
    BY <1>9, <1>6, <2>3 DEF ReplaceOld, RemoveDelete, CloseHandle
  <2>4. CASE UNCHANGED vars \/ (\E g \in Seqs : Rescan(g))
    BY <1>9, <2>4 DEF vars, Rescan
  <2>5. QED
    BY <1>4, <1>5, <1>7, <1>8, <2>1, <2>2, <2>3, <2>4
    DEF Next, Main, Debug, Worker, Target

\* The totals that perf reports keep up with the hits it hands out.
LEMMA CountedStep ==
  ASSUME Typed, EntriesOK, Counted, PerfTotalsAreCumulative, [Next]_vars
  PROVE  Counted' /\ PerfTotalsAreCumulative'
PROOF
<1>. USE DEF Typed
<1>1. SUFFICES ASSUME backend = "perf"
               PROVE  /\ \A h \in Seqs : entry'[h].queue <= entry'[h].total
                      /\ \A a \in Addrs :
                            /\ last'[a].handle # 0 /\ entry'[last'[a].handle].addr # 0 =>
                                  last'[a].total + entry'[last'[a].handle].queue
                                     <= entry'[last'[a].handle].total
                            /\ last'[a].total >= last'[a].before + last'[a].returned
  BY BackendKept DEF Counted, PerfTotalsAreCumulative
<1>2. \A h \in Seqs : entry'[h].queue <= entry'[h].total
  BY <1>1, QueueStep DEF Counted
<1>3. ASSUME NEW a \in Addrs
      PROVE  /\ last'[a].handle # 0 /\ entry'[last'[a].handle].addr # 0 =>
                   last'[a].total + entry'[last'[a].handle].queue
                      <= entry'[last'[a].handle].total
             /\ last'[a].total >= last'[a].before + last'[a].returned
  <2>0. last[a] \in Reports /\ last[a].total \in Nat /\ last[a].handle <= seq
        /\ last[a].handle \in 0..MaxSeq
    BY <1>1 DEF EntriesOK, Reports
  <2>1. CASE last'[a] = last[a]
    <3>1. last[a].total >= last[a].before + last[a].returned
      BY <1>1 DEF PerfTotalsAreCumulative
    <3>2. ASSUME last[a].handle # 0, entry'[last[a].handle].addr # 0
          PROVE  last[a].total + entry'[last[a].handle].queue <= entry'[last[a].handle].total
      <4>1. last[a].handle \in Seqs
        BY <2>0, <3>2 DEF Seqs
      <4>2. PICK h \in Seqs : h = last[a].handle
        BY <4>1
      <4>3. entry[h].queue <= entry[h].total
        BY <1>1 DEF Counted
      <4>4. /\ entry[h].addr # 0
            /\ entry[h].total + entry'[h].queue <= entry'[h].total + entry[h].queue
        BY <1>1, <2>0, <3>2, <4>2, <4>3, QueueStep
      <4>5. last[a].total + entry[h].queue <= entry[h].total
        BY <1>1, <3>2, <4>2, <4>4 DEF Counted
      <4>6. /\ entry[h].queue \in Nat /\ entry[h].total \in Nat
            /\ entry'[h].queue \in Nat /\ entry'[h].total \in Nat
        <5>1. entry[h] \in Entries /\ entry'[h] \in Entries
          BY TypedStep
        <5>2. QED
          BY <5>1 DEF Entries
      <4>7. QED
        BY <2>0, <4>2, <4>4, <4>5, <4>6
    <3>3. QED
      BY <2>1, <3>1, <3>2
  <2>2. CASE ReadFetch /\ a = debugPc.addr /\ last'[a] # last[a]
    <3>1. PICK h \in Seqs : h = debugPc.handle
      BY <2>2, Remembered DEF ReadFetch
    <3>2. /\ h \in Owned
          /\ Report(debugPc.addr, h, entry[h].total, entry[h].queue)
          /\ entry' = [entry EXCEPT ![h].queue = 0]
      BY <1>1, <2>2, <3>1 DEF ReadFetch
    <3>3. last'[a] = [handle |-> h, total |-> entry[h].total, returned |-> entry[h].queue,
                      before |-> IF last[a].handle = h THEN last[a].total ELSE 0]
      BY <1>1, <2>2, <3>2 DEF Report
    <3>4. entry[h] \in Entries /\ entry[h].queue \in Nat /\ entry[h].total \in Nat
      BY EntryUpdates
    <3>5. entry'[h].queue = 0 /\ entry'[h].total = entry[h].total
      BY <3>2, <3>4 DEF Entries
    <3>6. entry[h].addr # 0 /\ h # 0
      BY <3>2, OwnedHasAddr DEF Seqs
    <3>7. entry[h].queue <= entry[h].total
      BY <1>1 DEF Counted
    <3>8. CASE last[a].handle = h
      <4>1. last[a].total + entry[h].queue <= entry[h].total
        BY <1>1, <3>6, <3>8 DEF Counted
      <4>2. QED
        BY <2>0, <3>3, <3>4, <3>5, <3>8, <4>1
    <3>9. CASE last[a].handle # h
      BY <3>3, <3>4, <3>5, <3>7, <3>9
    <3>10. QED
      BY <3>8, <3>9
  <2>3. QED
    <3>1. CASE UNCHANGED last
      BY <2>1, <3>1
    <3>2. CASE ReadFetch
      <4>1. CASE last'[a] # last[a]
        <5>1. a = debugPc.addr
          BY <1>1, <3>2, <4>1 DEF ReadFetch, Report
        <5>2. QED
          BY <2>2, <3>2, <4>1, <5>1
      <4>2. QED
        BY <2>1, <4>1
    <3>3. CASE \E b \in Addrs : ReadStart(b)
      BY <3>1, <3>3 DEF ReadStart
    <3>4. QED
      BY <3>1, <3>2, <3>3, DebugAlone
<1>4. QED
  BY <1>2, <1>3

-----------------------------------------------------------------------------
\* The invariant holds at the start.
LEMMA HwInit == Init => HwInv
PROOF
<1>1. SUFFICES ASSUME Init PROVE HwInv
  OBVIOUS
<1>2. Typed
  BY <1>1, NoneTyped, BoundAssumption DEF Init, Typed, Reports, MainPcs, DebugPcs
<1>3. EntriesOK /\ Backed /\ Accounted /\ Armed
  BY <1>1, BoundAssumption
  DEF Init, EntriesOK, Handles, Backed, Accounted, Armed, NoEntry, NoSub, Idle
<1>4. Counted /\ PerfTotalsAreCumulative
  BY <1>1 DEF Init, Counted, PerfTotalsAreCumulative, NoEntry
<1>5. QED
  BY <1>2, <1>3, <1>4 DEF HwInv

\* The invariant is preserved by every step of the connections, the worker
\* and the target's threads.
THEOREM HwInvariance == Spec => []HwInv
PROOF
<1>1. HwInv /\ [Next]_vars => HwInv'
  BY TypedStep, EntriesStep, BackedStep, AccountedStep, ArmedStep, CountedStep DEF HwInv
<1>2. QED
  BY <1>1, HwInit, PTL DEF Spec

\* The address table names existing breakpoints at the addresses they were set
\* at: what a client suspends, resumes or polls is what it set.
THEOREM TableBacked == Spec => []TableIsBacked
PROOF
<1>1. HwInv => TableIsBacked
  <2>1. SUFFICES ASSUME HwInv, NEW a \in Addrs, list[a] # 0
                 PROVE  opened /\ list[a] \in Owned /\ entry[list[a]].addr = a
    BY DEF TableIsBacked
  <2>2. list[a] \in Seqs /\ opened /\ entry[list[a]].addr = a
    BY <2>1, BoundAssumption DEF HwInv, Typed, Backed, Seqs
  <2>3. QED
    BY <2>1, <2>2, OwnedHasAddr, AddrAssumption DEF HwInv
<1>2. QED
  BY <1>1, HwInvariance, PTL

\* A suspended breakpoint is armed in no thread and a resumed one in all it
\* has, whatever threads come, go and reuse ids.
THEOREM ArmedRight == Spec => []ArmedAsEntry
PROOF
<1>1. HwInv => ArmedAsEntry
  <2>1. SUFFICES ASSUME HwInv, NEW h \in Owned, NEW i \in Subs(h)
                 PROVE  sub[h][i].on = entry[h].enabled
    BY DEF ArmedAsEntry
  <2>2. h \in Seqs /\ i \in Tids /\ sub[h][i] # NoSub
    BY DEF Owned, Subs
  <2>3. entry[h].addr # 0
    BY <2>1, <2>2, OwnedHasAddr DEF HwInv
  <2>4. QED
    BY <2>1, <2>2, <2>3 DEF HwInv, Armed
<1>2. QED
  BY <1>1, HwInvariance, PTL

\* Between commands perf has no breakpoint that the table cannot reach.
THEOREM PerfLeavesNothing == Spec => []PerfNoOrphan
PROOF
<1>1. HwInv => PerfNoOrphan
  <2>1. SUFFICES ASSUME HwInv, backend = "perf", mainPc = Idle
                 PROVE  Owned = {list[a] : a \in Addrs} \ {0}
    BY DEF PerfNoOrphan, NoOrphan
  <2>2. ASSUME NEW h \in Owned
        PROVE  h \in {list[a] : a \in Addrs} \ {0}
    <3>1. h \in Seqs /\ h # 0
      BY <2>2 DEF Owned, Seqs
    <3>2. entry[h].addr # 0
      BY <2>1, <2>2, <3>1, OwnedHasAddr DEF HwInv
    <3>3. \E a \in Addrs : list[a] = h
      BY <2>1, <3>1, <3>2 DEF HwInv, Accounted, Idle
    <3>4. QED
      BY <3>1, <3>3
  <2>3. ASSUME NEW a \in Addrs, list[a] # 0
        PROVE  list[a] \in Owned
    <3>1. list[a] \in Seqs /\ entry[list[a]].addr = a
      BY <2>1, <2>3, BoundAssumption DEF HwInv, Typed, Backed, Seqs
    <3>2. QED
      BY <2>1, <3>1, OwnedHasAddr, AddrAssumption DEF HwInv
  <2>4. QED
    BY <2>2, <2>3
<1>2. QED
  BY <1>1, HwInvariance, PTL

\* A poll of a perf breakpoint never returns more hits than its total grew
\* since the last poll of that breakpoint.
THEOREM PerfTotalsGrow == Spec => []PerfTotalsAreCumulative
PROOF
<1>1. HwInv => PerfTotalsAreCumulative
  BY DEF HwInv
<1>2. QED
  BY <1>1, HwInvariance, PTL
=============================================================================
