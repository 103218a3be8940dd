-------------------------- MODULE ConnectionProofs --------------------------
(***************************************************************************)
(* The connections between client and engine, for any number of requests,  *)
(* connections and clients.  First the streams: both sides of the wire     *)
(* stay in step, what is reported as not sent never acts, and what is      *)
(* answered was carried out whole.  Then the engine's table: no connection *)
(* record is freed under its thread, and threads are bounded.              *)
(***************************************************************************)
EXTENDS WireProtocol, ConnectionManager, FiniteSetTheorems, TLAPS

Cmds == DOMAIN Server
Reads(cmd) == Server[cmd].reads

\* The fields of a request, as its handler expects them.
Fields(cmd) == <<"cmd">> \o Reads(cmd)

\* The names of all fields.
LevelNames(cmd, l) == {Server[cmd].answer[l][i] : i \in 1..Len(Server[cmd].answer[l])}
AnswerNames(cmd) == UNION {LevelNames(cmd, l) : l \in 1..Len(Server[cmd].answer)}
ReadNames == UNION {{Reads(cmd)[i] : i \in 1..Len(Reads(cmd))} : cmd \in Cmds}
AllAnswerNames == UNION {AnswerNames(cmd) : cmd \in Cmds}
Names == {"cmd"} \cup ReadNames \cup AllAnswerNames

\* A handler reads distinct fields, a payload after its size.
HandlerOK(h) ==
    /\ h.checked \in BOOLEAN /\ h.mutates \in BOOLEAN /\ h.max \in Nat
    /\ Len(h.reads) \in Nat /\ h.reads = [i \in 1..Len(h.reads) |-> h.reads[i]]
    /\ \A i \in 1..Len(h.reads) : h.reads[i] # "cmd"
    /\ \A i, j \in 1..Len(h.reads) : h.reads[i] = h.reads[j] => i = j
    /\ \A i \in 1..Len(h.reads) : h.reads[i] = "data" => i > 1 /\ h.reads[i - 1] = "size"

\* It answers with distinct fields in at most three levels.
AnswerOK(h) ==
    /\ Len(h.answer) \in 0..3 /\ DOMAIN h.answer = 1..Len(h.answer)
    /\ \A l \in 1..Len(h.answer) :
          /\ Len(h.answer[l]) \in Nat /\ Len(h.answer[l]) > 0
          /\ h.answer[l] = [i \in 1..Len(h.answer[l]) |-> h.answer[l][i]]
          /\ \A i \in 1..Len(h.answer[l]) : h.answer[l][i] # "nothing"
    /\ \A l, m \in 1..Len(h.answer) : \A i \in 1..Len(h.answer[l]), j \in 1..Len(h.answer[m]) :
          h.answer[l][i] = h.answer[m][j] => l = m /\ i = j

\* Function and handler agree on what is sent and what is answered.
RowOK(r, h) ==
    /\ r.started \in Nat
    /\ r.fields = <<"cmd">> \o h.reads
    /\ r.expects = h.answer /\ h.odd \subseteq r.checks
    /\ \A i \in 1..Len(h.reads) : h.reads[i] = "data" => PayloadSizes(r.max) \subseteq 1..h.max
    /\ PayloadSizes(r.max) \subseteq Nat
    /\ r.expects = <<>> <=> r.cmd = "TERMINATESERVER"

\* Before requestStarted is set the handler has not enough to act on: one that
\* checks waits for more, one that does not misses the handle.
StartOK(r, h) ==
    r.started # Untracked /\ r.started > 1 =>
        /\ h.checked => \A p \in 1..r.started - 1 : p <= Len(h.reads) /\ h.reads[p] # "data"
        /\ ~h.checked => r.started = 2 /\ \E i \in 1..Len(h.reads) : h.reads[i] = "handle"

-----------------------------------------------------------------------------
(* The state. *)

Sents == [id : Nat, f : Names, cmd : Cmds, n : Nat]
Answers == [id : Nat, f : Names, v : {"odd", "some", "none"}]
Gots == [pos : Nat \ {0}, n : Nat, fields : SUBSET Names]
Workers == {Looping, [at |-> "stopped"]}
              \cup [at : {"dispatch"}, cmd : Cmds, id : Nat, got : Gots]
ConnStates == [up : BOOLEAN, toServer : Seq(Sents), toClient : Seq(Answers), worker : Workers]
Reqs == [id : Nat \ {0}, call : DOMAIN Client, n : Nat, sent : Nat, level : Nat \ {0},
         next : Nat \ {0}]

Typed ==
    /\ conns \in [Connections -> ConnStates]
    /\ cur \in Connections /\ open \in BOOLEAN
    /\ req \in {Idle} \cup Reqs
    /\ made \in 0..MaxRequests
    /\ outcome \in [Requests -> {"none", "active", "done", "failed", "unknown", "notStarted"}]
    /\ acted \in [Requests -> {"no", "partial", "whole"}]

RowOf(r) == Client[r.call]

\* How far the function is with its request.
Placed(r) ==
    r # Idle =>
        /\ r.sent <= Len(RowOf(r).fields) /\ r.n \in PayloadSizes(RowOf(r).max)
        /\ r.sent < Len(RowOf(r).fields) => r.level = 1 /\ r.next = 1
        /\ r.level = 1 \/ r.level <= Len(RowOf(r).expects)

\* The request in hand is the last one made, on a connection still open; the
\* requests and the connections to come are as they were.
Current ==
    /\ Active => req.id = made /\ outcome[made] = "active" /\ open
    /\ Placed(req)
    /\ \A k \in Connections : k > cur => conns[k] = Fresh
    /\ \A r \in Requests : r > made => outcome[r] = "none" /\ acted[r] = "no"

-----------------------------------------------------------------------------
(* The stream to the server.                                                *)

Within(w) == w.at = "dispatch" /\ w.got.pos <= Len(Reads(w.cmd))

\* What the worker takes next is what comes next.
Meets(t, w) ==
    IF Within(w)
    THEN t.id = w.id /\ t.cmd = w.cmd /\ t.f = Reads(w.cmd)[w.got.pos]
    ELSE t.f = "cmd" /\ (w.at = "dispatch" => w.id < t.id)

Completes(t) == t.f = Fields(t.cmd)[Len(Fields(t.cmd))]

\* Two tokens in a row belong to one request, or the second starts the next.
Linked(a, b) ==
    \/ /\ a.id = b.id /\ a.cmd = b.cmd
       /\ \E p \in 1..Len(Reads(a.cmd)) : a.f = Fields(a.cmd)[p] /\ b.f = Fields(a.cmd)[p + 1]
    \/ Completes(a) /\ b.f = "cmd" /\ a.id < b.id

\* A payload is one the handler reads.
Loaded(cmd, n) ==
    \A i \in 1..Len(Reads(cmd)) : Reads(cmd)[i] = "data" => n \in 1..Server[cmd].max

\* The stream of a connection, when m requests have been made.
Streamed(c, m) ==
    /\ c.toServer # <<>> => Meets(c.toServer[1], c.worker)
    /\ \A i \in 1..Len(c.toServer) - 1 : Linked(c.toServer[i], c.toServer[i + 1])
    /\ \A i \in 1..Len(c.toServer) :
          c.toServer[i].id \in 1..m /\ Loaded(c.toServer[i].cmd, c.toServer[i].n)
    /\ c.worker.at = "dispatch" => c.worker.id \in 1..m
    /\ c.worker.at = "stopped" => ~c.up

\* As long as there is more to come, the worker has what it should have.
Has(w) ==
    /\ w.got.pos <= Len(Reads(w.cmd)) + 1
    /\ w.got.fields = {Reads(w.cmd)[i] : i \in 1..w.got.pos - 1}
    /\ \A i \in 1..Len(Reads(w.cmd)) :
          Reads(w.cmd)[i] = "data" /\ w.got.pos >= i => w.got.n \in 1..Server[w.cmd].max

Collected(c) == c.worker.at = "dispatch" /\ (c.up \/ c.toServer # <<>>) => Has(c.worker)

\* The requests of which too little is sent to have started.
Unstarted ==
    {r \in Requests :
        \/ outcome[r] = "notStarted"
        \/ Active /\ req.id = r /\ Row.started # Untracked /\ req.sent < Row.started}

\* The field is one of those sent before requestStarted is set.
Early(t) ==
    \E call \in DOMAIN Client :
        /\ Client[call].cmd = t.cmd /\ Client[call].started # Untracked
        /\ \E p \in 1..Client[call].started - 1 : p <= Len(Fields(t.cmd)) /\ t.f = Fields(t.cmd)[p]

\* A worker that has nothing but early fields.
Short(w) ==
    \E call \in DOMAIN Client :
        /\ Client[call].cmd = w.cmd /\ Client[call].started # Untracked /\ Client[call].started > 1
        /\ IF Server[w.cmd].checked THEN w.got.pos < Client[call].started
           ELSE "handle" \notin w.got.fields

\* What is on its way of these requests is not enough to act on.
Tame(c, R) ==
    /\ \A i \in 1..Len(c.toServer) : c.toServer[i].id \in R => Early(c.toServer[i])
    /\ c.worker.at = "dispatch" /\ c.worker.id \in R => Short(c.worker)

Sound(c, m, R) == Streamed(c, m) /\ Collected(c) /\ Tame(c, R)

-----------------------------------------------------------------------------
(* The client's connection, and the others.                                 *)

\* The client is in the middle of sending.
Sending(r) == r # Idle /\ r.sent > 0 /\ r.sent < Len(RowOf(r).fields)

\* The client continues where its stream, or the worker, stopped.
Continues(c, r) ==
    LET s == c.toServer
        t == s[Len(s)]
        w == c.worker
    IN  c.up =>
            IF s # <<>>
            THEN IF Sending(r)
                 THEN t.id = r.id /\ t.cmd = RowOf(r).cmd /\ t.f = RowOf(r).fields[r.sent]
                 ELSE Completes(t) /\ (r # Idle /\ r.sent = 0 => t.id < r.id)
            ELSE IF Sending(r)
                 THEN Within(w) /\ w.id = r.id /\ w.cmd = RowOf(r).cmd /\ w.got.pos = r.sent
                 ELSE ~Within(w) /\ (w.at = "dispatch" /\ r # Idle /\ r.sent = 0 => w.id < r.id)

\* What is under way belongs to the request in hand, or needs no answer.
Ours(x, r) == (r # Idle /\ x.id = r.id /\ x.cmd = RowOf(r).cmd) \/ x.cmd = "TERMINATESERVER"

Owned(c, r) ==
    /\ \A i \in 1..Len(c.toServer) : Ours(c.toServer[i], r)
    /\ c.worker.at = "dispatch" => Ours(c.worker, r)

Follows(e, a, b) ==
    \E l \in 1..Len(e) : \E j \in 1..Len(e[l]) :
        /\ a.f = e[l][j]
        /\ \/ j < Len(e[l]) /\ b.f = e[l][j + 1]
           \/ j = Len(e[l]) /\ l < Len(e) /\ a.v # "none" /\ b.f = e[l + 1][1]

Ends(e, a) ==
    \E l \in 1..Len(e) :
        a.f = e[l][Len(e[l])] /\ (a.v \in {"none", "odd"} \/ l = Len(e))

\* Part of an answer: its fields in order, those that are out of bounds among
\* the ones that can be.
Chain(e, id, odds, q) ==
    /\ q \in Seq(Answers) /\ q # <<>>
    /\ \A i \in 1..Len(q) - 1 : Follows(e, q[i], q[i + 1])
    /\ \A i \in 1..Len(q) : q[i].id = id /\ (q[i].v = "odd" => q[i].f \in odds)

\* Answers wait for the client only after all was sent and received, and are
\* those it expects.
Waits(c, r, a) ==
    LET e == RowOf(r).expects
        q == c.toClient
    IN  /\ r # Idle /\ r.sent = Len(RowOf(r).fields)
        /\ c.toServer = <<>> /\ c.worker.at # "dispatch"
        /\ r.level <= Len(e) /\ r.next <= Len(e[r.level])
        /\ q[1].f = e[r.level][r.next]
        /\ Chain(e, r.id, RowOf(r).checks, q)
        /\ c.up => Ends(e, q[Len(q)])
        /\ Server[RowOf(r).cmd].mutates => a[r.id] = "whole"

Answered(c, r, a) ==
    /\ c.toClient # <<>> => Waits(c, r, a)
    /\ r # Idle /\ c.up /\ c.toClient = <<>> => r.level = 1 /\ r.next = 1

Attached(c, r, a) == Continues(c, r) /\ Owned(c, r) /\ Answered(c, r, a)

\* No other connection carries the request in hand.
Detached(c, r) ==
    r # Idle => /\ \A i \in 1..Len(c.toServer) : c.toServer[i].id # r.id
                /\ c.worker.at = "dispatch" => c.worker.id # r.id

WireInv ==
    /\ Typed /\ Current
    /\ \A k \in Connections : Sound(conns[k], made, Unstarted)
    /\ open => Attached(conns[cur], req, acted)
    /\ \A k \in Connections : k # cur => Detached(conns[k], req)
    /\ \A r \in Unstarted : acted[r] = "no"
    /\ InSync

-----------------------------------------------------------------------------
(* The tables: the prover runs through the rows.                            *)

\* The commands that have handlers.
LEMMA CmdNames == Cmds = {"GETVERSION", "GETMEMTYPE", "TERMINATESERVER", "CLOSEHANDLE",
    "OPENPROCESS", "READPROCESSMEMORY", "WRITEPROCESSMEMORY", "GETPROCESSLIST",
    "GETMODULELIST", "READBRATCHMEMORY", "INITRWDRIVER", "SETKERNELHWBPRECLAIM",
    "SETBREAKPOINT", "REMOVEBREAKPOINT", "SUSPENDBREAKPOINT", "RESUMEBREAKPOINT",
    "READHWBPINFO", "QUERYHWBPTHREADS", "UXN_INSTALL", "UXN_REMOVE",
    "UXN_WAIT", "UXN_RESUME", "UXN_STATUS", "UXN_CLEAR",
    "READBRATCHADDR", "SYMBOL_INIT", "SYMBOL_GETLIST", "SYMBOL_FIND",
    "GETSOBASE"}
PROOF BY DEF Cmds, Server

\* The functions that send them.
LEMMA CallNames == DOMAIN Client = {"FetchServerVersion", "GetMemType", "CloseServer",
    "CloseProcessHandle", "OpenProcessHandle", "ReadProcessMemoryBytes",
    "ReadProcessMemory_", "WriteProcessMemoryDetailed", "FetchProcessList",
    "FetchModuleList", "ReadBratchMemory", "InitDriverTracked",
    "SetKernelBreakpointForceReclaim", "SetKernelBreakpointTracked", "RemoveKernelBreakpointTracked",
    "SuspendKernelBreakpointTracked", "ResumeKernelBreakpointTracked", "ReadKernelBreakpointInfo",
    "QueryKernelBreakpointThreads", "InstallUxnBreakpointTracked", "RemoveUxnBreakpointTracked",
    "WaitUxnBreakpointTracked", "ResumeUxnBreakpointTracked", "QueryUxnBreakpointStatusTracked",
    "ClearUxnBreakpointsTracked", "ReadBratchAddr", "SymbolInit",
    "SymbolGetList", "SymbolFind", "GetSoBaseByName"}
PROOF BY DEF Client

\* Each handler by itself.
LEMMA EachHandler ==
  /\ HandlerOK(CMD_GETVERSION) /\ AnswerOK(CMD_GETVERSION)
  /\ HandlerOK(CMD_GETMEMTYPE) /\ AnswerOK(CMD_GETMEMTYPE)
  /\ HandlerOK(CMD_TERMINATESERVER) /\ AnswerOK(CMD_TERMINATESERVER)
  /\ HandlerOK(CMD_CLOSEHANDLE) /\ AnswerOK(CMD_CLOSEHANDLE)
  /\ HandlerOK(CMD_OPENPROCESS) /\ AnswerOK(CMD_OPENPROCESS)
  /\ HandlerOK(CMD_READPROCESSMEMORY) /\ AnswerOK(CMD_READPROCESSMEMORY)
  /\ HandlerOK(CMD_WRITEPROCESSMEMORY) /\ AnswerOK(CMD_WRITEPROCESSMEMORY)
  /\ HandlerOK(CMD_GETPROCESSLIST) /\ AnswerOK(CMD_GETPROCESSLIST)
  /\ HandlerOK(CMD_GETMODULELIST) /\ AnswerOK(CMD_GETMODULELIST)
  /\ HandlerOK(CMD_READBRATCHMEMORY) /\ AnswerOK(CMD_READBRATCHMEMORY)
  /\ HandlerOK(CMD_INITRWDRIVER) /\ AnswerOK(CMD_INITRWDRIVER)
  /\ HandlerOK(CMD_SETKERNELHWBPRECLAIM) /\ AnswerOK(CMD_SETKERNELHWBPRECLAIM)
  /\ HandlerOK(CMD_KERNEL_SETBREAKPOINT) /\ AnswerOK(CMD_KERNEL_SETBREAKPOINT)
  /\ HandlerOK(CMD_KERNEL_REMOVEBREAKPOINT) /\ AnswerOK(CMD_KERNEL_REMOVEBREAKPOINT)
  /\ HandlerOK(CMD_KERNEL_SUSPENDBREAKPOINT) /\ AnswerOK(CMD_KERNEL_SUSPENDBREAKPOINT)
  /\ HandlerOK(CMD_KERNEL_RESUMEBREAKPOINT) /\ AnswerOK(CMD_KERNEL_RESUMEBREAKPOINT)
  /\ HandlerOK(CMD_KERNEL_READHWBPINFO) /\ AnswerOK(CMD_KERNEL_READHWBPINFO)
  /\ HandlerOK(CMD_KERNEL_QUERYHWBPTHREADS) /\ AnswerOK(CMD_KERNEL_QUERYHWBPTHREADS)
  /\ HandlerOK(CMD_KERNEL_UXN_INSTALL) /\ AnswerOK(CMD_KERNEL_UXN_INSTALL)
  /\ HandlerOK(CMD_KERNEL_UXN_REMOVE) /\ AnswerOK(CMD_KERNEL_UXN_REMOVE)
  /\ HandlerOK(CMD_KERNEL_UXN_WAIT) /\ AnswerOK(CMD_KERNEL_UXN_WAIT)
  /\ HandlerOK(CMD_KERNEL_UXN_RESUME) /\ AnswerOK(CMD_KERNEL_UXN_RESUME)
  /\ HandlerOK(CMD_KERNEL_UXN_STATUS) /\ AnswerOK(CMD_KERNEL_UXN_STATUS)
  /\ HandlerOK(CMD_KERNEL_UXN_CLEAR) /\ AnswerOK(CMD_KERNEL_UXN_CLEAR)
  /\ HandlerOK(CMD_READBRATCHADDR) /\ AnswerOK(CMD_READBRATCHADDR)
  /\ HandlerOK(CMD_SYMBOL_INIT) /\ AnswerOK(CMD_SYMBOL_INIT)
  /\ HandlerOK(CMD_SYMBOL_GETLIST) /\ AnswerOK(CMD_SYMBOL_GETLIST)
  /\ HandlerOK(CMD_SYMBOL_FIND) /\ AnswerOK(CMD_SYMBOL_FIND)
  /\ HandlerOK(CMD_GETSOBASE) /\ AnswerOK(CMD_GETSOBASE)
PROOF
<1>. USE DEF Handles, SendUxnResponse, Upto4K, Upto10M, Upto256M
<1>1. HandlerOK(CMD_GETVERSION)
  BY DEF HandlerOK, CMD_GETVERSION
<1>2. AnswerOK(CMD_GETVERSION)
  BY DEF AnswerOK, CMD_GETVERSION
<1>3. HandlerOK(CMD_GETMEMTYPE)
  BY DEF HandlerOK, CMD_GETMEMTYPE
<1>4. AnswerOK(CMD_GETMEMTYPE)
  BY DEF AnswerOK, CMD_GETMEMTYPE
<1>5. HandlerOK(CMD_TERMINATESERVER)
  BY DEF HandlerOK, CMD_TERMINATESERVER
<1>6. AnswerOK(CMD_TERMINATESERVER)
  BY DEF AnswerOK, CMD_TERMINATESERVER
<1>7. HandlerOK(CMD_CLOSEHANDLE)
  BY DEF HandlerOK, CMD_CLOSEHANDLE
<1>8. AnswerOK(CMD_CLOSEHANDLE)
  BY DEF AnswerOK, CMD_CLOSEHANDLE
<1>9. HandlerOK(CMD_OPENPROCESS)
  BY DEF HandlerOK, CMD_OPENPROCESS
<1>10. AnswerOK(CMD_OPENPROCESS)
  BY DEF AnswerOK, CMD_OPENPROCESS
<1>11. HandlerOK(CMD_READPROCESSMEMORY)
  BY DEF HandlerOK, CMD_READPROCESSMEMORY
<1>12. AnswerOK(CMD_READPROCESSMEMORY)
  BY DEF AnswerOK, CMD_READPROCESSMEMORY
<1>13. HandlerOK(CMD_WRITEPROCESSMEMORY)
  BY DEF HandlerOK, CMD_WRITEPROCESSMEMORY
<1>14. AnswerOK(CMD_WRITEPROCESSMEMORY)
  BY DEF AnswerOK, CMD_WRITEPROCESSMEMORY
<1>15. HandlerOK(CMD_GETPROCESSLIST)
  BY DEF HandlerOK, CMD_GETPROCESSLIST
<1>16. AnswerOK(CMD_GETPROCESSLIST)
  BY DEF AnswerOK, CMD_GETPROCESSLIST
<1>17. HandlerOK(CMD_GETMODULELIST)
  BY DEF HandlerOK, CMD_GETMODULELIST
<1>18. AnswerOK(CMD_GETMODULELIST)
  BY DEF AnswerOK, CMD_GETMODULELIST
<1>19. HandlerOK(CMD_READBRATCHMEMORY)
  BY DEF HandlerOK, CMD_READBRATCHMEMORY
<1>20. AnswerOK(CMD_READBRATCHMEMORY)
  BY SMTT(60) DEF AnswerOK, CMD_READBRATCHMEMORY
<1>21. HandlerOK(CMD_INITRWDRIVER)
  BY DEF HandlerOK, CMD_INITRWDRIVER
<1>22. AnswerOK(CMD_INITRWDRIVER)
  <2>. DEFINE a == CMD_INITRWDRIVER.answer
  <2>1. a = << <<"ret", "length">>, <<"text">> >>
    BY DEF CMD_INITRWDRIVER
  <2>2. /\ Len(a) = 2 /\ DOMAIN a = 1..2 /\ Len(a[1]) = 2 /\ Len(a[2]) = 1
        /\ a[1] = [i \in 1..2 |-> a[1][i]] /\ a[2] = [i \in 1..1 |-> a[2][i]]
        /\ a[1][1] = "ret" /\ a[1][2] = "length" /\ a[2][1] = "text"
    BY <2>1
  <2>. HIDE DEF a
  <2>3. QED
    BY <2>2 DEF AnswerOK, a
<1>23. HandlerOK(CMD_SETKERNELHWBPRECLAIM)
  BY DEF HandlerOK, CMD_SETKERNELHWBPRECLAIM
<1>24. AnswerOK(CMD_SETKERNELHWBPRECLAIM)
  BY DEF AnswerOK, CMD_SETKERNELHWBPRECLAIM
<1>25. HandlerOK(CMD_KERNEL_SETBREAKPOINT)
  BY DEF HandlerOK, CMD_KERNEL_SETBREAKPOINT
<1>26. AnswerOK(CMD_KERNEL_SETBREAKPOINT)
  BY DEF AnswerOK, CMD_KERNEL_SETBREAKPOINT
<1>27. HandlerOK(CMD_KERNEL_REMOVEBREAKPOINT)
  BY DEF HandlerOK, CMD_KERNEL_REMOVEBREAKPOINT
<1>28. AnswerOK(CMD_KERNEL_REMOVEBREAKPOINT)
  BY DEF AnswerOK, CMD_KERNEL_REMOVEBREAKPOINT
<1>29. HandlerOK(CMD_KERNEL_SUSPENDBREAKPOINT)
  BY DEF HandlerOK, CMD_KERNEL_SUSPENDBREAKPOINT
<1>30. AnswerOK(CMD_KERNEL_SUSPENDBREAKPOINT)
  BY DEF AnswerOK, CMD_KERNEL_SUSPENDBREAKPOINT
<1>31. HandlerOK(CMD_KERNEL_RESUMEBREAKPOINT)
  BY DEF HandlerOK, CMD_KERNEL_RESUMEBREAKPOINT
<1>32. AnswerOK(CMD_KERNEL_RESUMEBREAKPOINT)
  BY DEF AnswerOK, CMD_KERNEL_RESUMEBREAKPOINT
<1>33. HandlerOK(CMD_KERNEL_READHWBPINFO)
  BY DEF HandlerOK, CMD_KERNEL_READHWBPINFO
<1>34. AnswerOK(CMD_KERNEL_READHWBPINFO)
  BY SMTT(60) DEF AnswerOK, CMD_KERNEL_READHWBPINFO
<1>35. HandlerOK(CMD_KERNEL_QUERYHWBPTHREADS)
  BY DEF HandlerOK, CMD_KERNEL_QUERYHWBPTHREADS
<1>36. AnswerOK(CMD_KERNEL_QUERYHWBPTHREADS)
  BY SMTT(60) DEF AnswerOK, CMD_KERNEL_QUERYHWBPTHREADS
<1>37. HandlerOK(CMD_KERNEL_UXN_INSTALL)
  BY DEF HandlerOK, CMD_KERNEL_UXN_INSTALL
<1>38. AnswerOK(CMD_KERNEL_UXN_INSTALL)
  BY DEF AnswerOK, CMD_KERNEL_UXN_INSTALL
<1>39. HandlerOK(CMD_KERNEL_UXN_REMOVE)
  BY DEF HandlerOK, CMD_KERNEL_UXN_REMOVE
<1>40. AnswerOK(CMD_KERNEL_UXN_REMOVE)
  BY DEF AnswerOK, CMD_KERNEL_UXN_REMOVE
<1>41. HandlerOK(CMD_KERNEL_UXN_WAIT)
  BY DEF HandlerOK, CMD_KERNEL_UXN_WAIT
<1>42. AnswerOK(CMD_KERNEL_UXN_WAIT)
  BY DEF AnswerOK, CMD_KERNEL_UXN_WAIT
<1>43. HandlerOK(CMD_KERNEL_UXN_RESUME)
  BY DEF HandlerOK, CMD_KERNEL_UXN_RESUME
<1>44. AnswerOK(CMD_KERNEL_UXN_RESUME)
  BY DEF AnswerOK, CMD_KERNEL_UXN_RESUME
<1>45. HandlerOK(CMD_KERNEL_UXN_STATUS)
  BY DEF HandlerOK, CMD_KERNEL_UXN_STATUS
<1>46. AnswerOK(CMD_KERNEL_UXN_STATUS)
  BY DEF AnswerOK, CMD_KERNEL_UXN_STATUS
<1>47. HandlerOK(CMD_KERNEL_UXN_CLEAR)
  BY DEF HandlerOK, CMD_KERNEL_UXN_CLEAR
<1>48. AnswerOK(CMD_KERNEL_UXN_CLEAR)
  BY DEF AnswerOK, CMD_KERNEL_UXN_CLEAR
<1>49. HandlerOK(CMD_READBRATCHADDR)
  BY DEF HandlerOK, CMD_READBRATCHADDR
<1>50. AnswerOK(CMD_READBRATCHADDR)
  BY DEF AnswerOK, CMD_READBRATCHADDR
<1>51. HandlerOK(CMD_SYMBOL_INIT)
  BY DEF HandlerOK, CMD_SYMBOL_INIT
<1>52. AnswerOK(CMD_SYMBOL_INIT)
  BY DEF AnswerOK, CMD_SYMBOL_INIT
<1>53. HandlerOK(CMD_SYMBOL_GETLIST)
  BY DEF HandlerOK, CMD_SYMBOL_GETLIST
<1>54. AnswerOK(CMD_SYMBOL_GETLIST)
  BY DEF AnswerOK, CMD_SYMBOL_GETLIST
<1>55. HandlerOK(CMD_SYMBOL_FIND)
  BY DEF HandlerOK, CMD_SYMBOL_FIND
<1>56. AnswerOK(CMD_SYMBOL_FIND)
  BY DEF AnswerOK, CMD_SYMBOL_FIND
<1>57. HandlerOK(CMD_GETSOBASE)
  BY DEF HandlerOK, CMD_GETSOBASE
<1>58. AnswerOK(CMD_GETSOBASE)
  BY DEF AnswerOK, CMD_GETSOBASE
<1>. QED
  BY <1>1, <1>2, <1>3, <1>4, <1>5, <1>6, <1>7, <1>8, <1>9, <1>10, <1>11, <1>12, <1>13,
     <1>14, <1>15, <1>16, <1>17, <1>18, <1>19, <1>20, <1>21, <1>22, <1>23, <1>24, <1>25, <1>26,
     <1>27, <1>28, <1>29, <1>30, <1>31, <1>32, <1>33, <1>34, <1>35, <1>36, <1>37, <1>38, <1>39,
     <1>40, <1>41, <1>42, <1>43, <1>44, <1>45, <1>46, <1>47, <1>48, <1>49, <1>50, <1>51, <1>52,
     <1>53, <1>54, <1>55, <1>56, <1>57, <1>58

\* Every command has such a handler.
LEMMA Handlers ==
  ASSUME NEW cmd \in Cmds
  PROVE  HandlerOK(Server[cmd]) /\ AnswerOK(Server[cmd])
PROOF BY EachHandler DEF Cmds, Server

Agree(r, h) == RowOK(r, h) /\ StartOK(r, h)

\* Each function with the handler of its command.
LEMMA EachRow ==
  ASSUME LongestName = Upto4K
  PROVE
  /\ FetchServerVersion.cmd = "GETVERSION" /\ Agree(FetchServerVersion, CMD_GETVERSION)
  /\ GetMemType.cmd = "GETMEMTYPE" /\ Agree(GetMemType, CMD_GETMEMTYPE)
  /\ CloseServer.cmd = "TERMINATESERVER" /\ Agree(CloseServer, CMD_TERMINATESERVER)
  /\ CloseProcessHandle.cmd = "CLOSEHANDLE" /\ Agree(CloseProcessHandle, CMD_CLOSEHANDLE)
  /\ OpenProcessHandle.cmd = "OPENPROCESS" /\ Agree(OpenProcessHandle, CMD_OPENPROCESS)
  /\ ReadProcessMemoryBytes.cmd = "READPROCESSMEMORY"
  /\ Agree(ReadProcessMemoryBytes, CMD_READPROCESSMEMORY)
  /\ ReadProcessMemory_.cmd = "READPROCESSMEMORY"
  /\ Agree(ReadProcessMemory_, CMD_READPROCESSMEMORY)
  /\ WriteProcessMemoryDetailed.cmd = "WRITEPROCESSMEMORY"
  /\ Agree(WriteProcessMemoryDetailed, CMD_WRITEPROCESSMEMORY)
  /\ FetchProcessList.cmd = "GETPROCESSLIST" /\ Agree(FetchProcessList, CMD_GETPROCESSLIST)
  /\ FetchModuleList.cmd = "GETMODULELIST" /\ Agree(FetchModuleList, CMD_GETMODULELIST)
  /\ ReadBratchMemory.cmd = "READBRATCHMEMORY" /\ Agree(ReadBratchMemory, CMD_READBRATCHMEMORY)
  /\ InitDriverTracked.cmd = "INITRWDRIVER" /\ Agree(InitDriverTracked, CMD_INITRWDRIVER)
  /\ SetKernelBreakpointForceReclaim.cmd = "SETKERNELHWBPRECLAIM"
  /\ Agree(SetKernelBreakpointForceReclaim, CMD_SETKERNELHWBPRECLAIM)
  /\ SetKernelBreakpointTracked.cmd = "SETBREAKPOINT"
  /\ Agree(SetKernelBreakpointTracked, CMD_KERNEL_SETBREAKPOINT)
  /\ RemoveKernelBreakpointTracked.cmd = "REMOVEBREAKPOINT"
  /\ Agree(RemoveKernelBreakpointTracked, CMD_KERNEL_REMOVEBREAKPOINT)
  /\ SuspendKernelBreakpointTracked.cmd = "SUSPENDBREAKPOINT"
  /\ Agree(SuspendKernelBreakpointTracked, CMD_KERNEL_SUSPENDBREAKPOINT)
  /\ ResumeKernelBreakpointTracked.cmd = "RESUMEBREAKPOINT"
  /\ Agree(ResumeKernelBreakpointTracked, CMD_KERNEL_RESUMEBREAKPOINT)
  /\ ReadKernelBreakpointInfo.cmd = "READHWBPINFO"
  /\ Agree(ReadKernelBreakpointInfo, CMD_KERNEL_READHWBPINFO)
  /\ QueryKernelBreakpointThreads.cmd = "QUERYHWBPTHREADS"
  /\ Agree(QueryKernelBreakpointThreads, CMD_KERNEL_QUERYHWBPTHREADS)
  /\ InstallUxnBreakpointTracked.cmd = "UXN_INSTALL"
  /\ Agree(InstallUxnBreakpointTracked, CMD_KERNEL_UXN_INSTALL)
  /\ RemoveUxnBreakpointTracked.cmd = "UXN_REMOVE"
  /\ Agree(RemoveUxnBreakpointTracked, CMD_KERNEL_UXN_REMOVE)
  /\ WaitUxnBreakpointTracked.cmd = "UXN_WAIT"
  /\ Agree(WaitUxnBreakpointTracked, CMD_KERNEL_UXN_WAIT)
  /\ ResumeUxnBreakpointTracked.cmd = "UXN_RESUME"
  /\ Agree(ResumeUxnBreakpointTracked, CMD_KERNEL_UXN_RESUME)
  /\ QueryUxnBreakpointStatusTracked.cmd = "UXN_STATUS"
  /\ Agree(QueryUxnBreakpointStatusTracked, CMD_KERNEL_UXN_STATUS)
  /\ ClearUxnBreakpointsTracked.cmd = "UXN_CLEAR"
  /\ Agree(ClearUxnBreakpointsTracked, CMD_KERNEL_UXN_CLEAR)
  /\ ReadBratchAddr.cmd = "READBRATCHADDR" /\ Agree(ReadBratchAddr, CMD_READBRATCHADDR)
  /\ SymbolInit.cmd = "SYMBOL_INIT" /\ Agree(SymbolInit, CMD_SYMBOL_INIT)
  /\ SymbolGetList.cmd = "SYMBOL_GETLIST" /\ Agree(SymbolGetList, CMD_SYMBOL_GETLIST)
  /\ SymbolFind.cmd = "SYMBOL_FIND" /\ Agree(SymbolFind, CMD_SYMBOL_FIND)
  /\ GetSoBaseByName.cmd = "GETSOBASE" /\ Agree(GetSoBaseByName, CMD_GETSOBASE)
PROOF
<1>. USE DEF Agree, RowOK, StartOK, Sends, Handles, SendUxnResponse, mutateBreakpointTracked,
         PayloadSizes, Untracked, Upto4K, Upto64K, Upto100K, Upto10M, Upto256M
<1>1. FetchServerVersion.cmd = "GETVERSION" /\ Agree(FetchServerVersion, CMD_GETVERSION)
  BY DEF FetchServerVersion, CMD_GETVERSION
<1>2. GetMemType.cmd = "GETMEMTYPE" /\ Agree(GetMemType, CMD_GETMEMTYPE)
  BY DEF GetMemType, CMD_GETMEMTYPE
<1>3. CloseServer.cmd = "TERMINATESERVER" /\ Agree(CloseServer, CMD_TERMINATESERVER)
  BY DEF CloseServer, CMD_TERMINATESERVER
<1>4. CloseProcessHandle.cmd = "CLOSEHANDLE" /\ Agree(CloseProcessHandle, CMD_CLOSEHANDLE)
  BY DEF CloseProcessHandle, CMD_CLOSEHANDLE
<1>5. OpenProcessHandle.cmd = "OPENPROCESS" /\ Agree(OpenProcessHandle, CMD_OPENPROCESS)
  BY DEF OpenProcessHandle, CMD_OPENPROCESS
<1>6. /\ ReadProcessMemoryBytes.cmd = "READPROCESSMEMORY"
      /\ Agree(ReadProcessMemoryBytes, CMD_READPROCESSMEMORY)
  BY DEF ReadProcessMemoryBytes, CMD_READPROCESSMEMORY
<1>7. /\ ReadProcessMemory_.cmd = "READPROCESSMEMORY"
      /\ Agree(ReadProcessMemory_, CMD_READPROCESSMEMORY)
  BY DEF ReadProcessMemory_, ReadProcessMemoryBytes, CMD_READPROCESSMEMORY
<1>8. /\ WriteProcessMemoryDetailed.cmd = "WRITEPROCESSMEMORY"
      /\ Agree(WriteProcessMemoryDetailed, CMD_WRITEPROCESSMEMORY)
  BY DEF WriteProcessMemoryDetailed, CMD_WRITEPROCESSMEMORY
<1>9. FetchProcessList.cmd = "GETPROCESSLIST" /\ Agree(FetchProcessList, CMD_GETPROCESSLIST)
  BY DEF FetchProcessList, CMD_GETPROCESSLIST
<1>10. FetchModuleList.cmd = "GETMODULELIST" /\ Agree(FetchModuleList, CMD_GETMODULELIST)
  BY DEF FetchModuleList, CMD_GETMODULELIST
<1>11. ReadBratchMemory.cmd = "READBRATCHMEMORY" /\ Agree(ReadBratchMemory, CMD_READBRATCHMEMORY)
  BY DEF ReadBratchMemory, CMD_READBRATCHMEMORY
<1>12. InitDriverTracked.cmd = "INITRWDRIVER" /\ Agree(InitDriverTracked, CMD_INITRWDRIVER)
  BY DEF InitDriverTracked, CMD_INITRWDRIVER
<1>13. /\ SetKernelBreakpointForceReclaim.cmd = "SETKERNELHWBPRECLAIM"
       /\ Agree(SetKernelBreakpointForceReclaim, CMD_SETKERNELHWBPRECLAIM)
  BY DEF SetKernelBreakpointForceReclaim, CMD_SETKERNELHWBPRECLAIM
<1>14. /\ SetKernelBreakpointTracked.cmd = "SETBREAKPOINT"
       /\ Agree(SetKernelBreakpointTracked, CMD_KERNEL_SETBREAKPOINT)
  BY DEF SetKernelBreakpointTracked, CMD_KERNEL_SETBREAKPOINT
<1>15. /\ RemoveKernelBreakpointTracked.cmd = "REMOVEBREAKPOINT"
       /\ Agree(RemoveKernelBreakpointTracked, CMD_KERNEL_REMOVEBREAKPOINT)
  BY DEF RemoveKernelBreakpointTracked, CMD_KERNEL_REMOVEBREAKPOINT
<1>16. /\ SuspendKernelBreakpointTracked.cmd = "SUSPENDBREAKPOINT"
       /\ Agree(SuspendKernelBreakpointTracked, CMD_KERNEL_SUSPENDBREAKPOINT)
  BY DEF SuspendKernelBreakpointTracked, CMD_KERNEL_SUSPENDBREAKPOINT
<1>17. /\ ResumeKernelBreakpointTracked.cmd = "RESUMEBREAKPOINT"
       /\ Agree(ResumeKernelBreakpointTracked, CMD_KERNEL_RESUMEBREAKPOINT)
  BY DEF ResumeKernelBreakpointTracked, CMD_KERNEL_RESUMEBREAKPOINT
<1>18. /\ ReadKernelBreakpointInfo.cmd = "READHWBPINFO"
       /\ Agree(ReadKernelBreakpointInfo, CMD_KERNEL_READHWBPINFO)
  BY DEF ReadKernelBreakpointInfo, CMD_KERNEL_READHWBPINFO
<1>19. /\ QueryKernelBreakpointThreads.cmd = "QUERYHWBPTHREADS"
       /\ Agree(QueryKernelBreakpointThreads, CMD_KERNEL_QUERYHWBPTHREADS)
  BY DEF QueryKernelBreakpointThreads, CMD_KERNEL_QUERYHWBPTHREADS
<1>20. /\ InstallUxnBreakpointTracked.cmd = "UXN_INSTALL"
       /\ Agree(InstallUxnBreakpointTracked, CMD_KERNEL_UXN_INSTALL)
  BY DEF InstallUxnBreakpointTracked, CMD_KERNEL_UXN_INSTALL
<1>21. /\ RemoveUxnBreakpointTracked.cmd = "UXN_REMOVE"
       /\ Agree(RemoveUxnBreakpointTracked, CMD_KERNEL_UXN_REMOVE)
  BY DEF RemoveUxnBreakpointTracked, CMD_KERNEL_UXN_REMOVE
<1>22. /\ WaitUxnBreakpointTracked.cmd = "UXN_WAIT"
       /\ Agree(WaitUxnBreakpointTracked, CMD_KERNEL_UXN_WAIT)
  BY DEF WaitUxnBreakpointTracked, CMD_KERNEL_UXN_WAIT
<1>23. /\ ResumeUxnBreakpointTracked.cmd = "UXN_RESUME"
       /\ Agree(ResumeUxnBreakpointTracked, CMD_KERNEL_UXN_RESUME)
  BY DEF ResumeUxnBreakpointTracked, CMD_KERNEL_UXN_RESUME
<1>24. /\ QueryUxnBreakpointStatusTracked.cmd = "UXN_STATUS"
       /\ Agree(QueryUxnBreakpointStatusTracked, CMD_KERNEL_UXN_STATUS)
  BY DEF QueryUxnBreakpointStatusTracked, CMD_KERNEL_UXN_STATUS
<1>25. /\ ClearUxnBreakpointsTracked.cmd = "UXN_CLEAR"
       /\ Agree(ClearUxnBreakpointsTracked, CMD_KERNEL_UXN_CLEAR)
  BY DEF ClearUxnBreakpointsTracked, CMD_KERNEL_UXN_CLEAR
<1>26. ReadBratchAddr.cmd = "READBRATCHADDR" /\ Agree(ReadBratchAddr, CMD_READBRATCHADDR)
  BY DEF ReadBratchAddr, CMD_READBRATCHADDR
<1>27. SymbolInit.cmd = "SYMBOL_INIT" /\ Agree(SymbolInit, CMD_SYMBOL_INIT)
  BY DEF SymbolInit, CMD_SYMBOL_INIT
<1>28. SymbolGetList.cmd = "SYMBOL_GETLIST" /\ Agree(SymbolGetList, CMD_SYMBOL_GETLIST)
  BY DEF SymbolGetList, CMD_SYMBOL_GETLIST
<1>29. SymbolFind.cmd = "SYMBOL_FIND" /\ Agree(SymbolFind, CMD_SYMBOL_FIND)
  BY DEF SymbolFind, CMD_SYMBOL_FIND
<1>30. GetSoBaseByName.cmd = "GETSOBASE" /\ Agree(GetSoBaseByName, CMD_GETSOBASE)
  BY DEF GetSoBaseByName, CMD_GETSOBASE
<1>. HIDE DEF Agree
<1>. QED
  BY <1>1, <1>2, <1>3, <1>4, <1>5, <1>6, <1>7, <1>8, <1>9, <1>10, <1>11, <1>12, <1>13,
     <1>14, <1>15, <1>16, <1>17, <1>18, <1>19, <1>20, <1>21, <1>22, <1>23, <1>24, <1>25, <1>26,
     <1>27, <1>28, <1>29, <1>30

\* Every function has its handler.
LEMMA Rows ==
  ASSUME LongestName = Upto4K, NEW call \in DOMAIN Client
  PROVE  Client[call].cmd \in Cmds /\ Agree(Client[call], Server[Client[call].cmd])
PROOF BY EachRow DEF Client, Cmds, Server

-----------------------------------------------------------------------------
(* Sequences.                                                               *)

\* What is left after the head is taken.
LEMMA Shorter ==
  ASSUME NEW S, NEW s \in Seq(S), s # <<>>
  PROVE  /\ Head(s) = s[1] /\ s[1] \in S
         /\ Len(s) \in Nat /\ Len(s) >= 1
         /\ Tail(s) \in Seq(S) /\ Len(Tail(s)) = Len(s) - 1
         /\ \A i \in 1..Len(s) - 1 : Tail(s)[i] = s[i + 1]
         /\ Tail(s) # <<>> <=> Len(s) > 1
PROOF OBVIOUS

\* What there is after a token is added.
LEMMA Longer ==
  ASSUME NEW S, NEW s \in Seq(S), NEW t \in S
  PROVE  /\ Append(s, t) \in Seq(S) /\ Append(s, t) # <<>>
         /\ Len(s) \in Nat /\ Len(Append(s, t)) = Len(s) + 1
         /\ Append(s, t)[Len(s) + 1] = t
         /\ \A i \in 1..Len(s) : Append(s, t)[i] = s[i]
         /\ s # <<>> <=> Len(s) > 0
PROOF OBVIOUS

\* What a cut leaves.
LEMMA Prefix ==
  ASSUME NEW S, NEW s \in Seq(S), NEW i \in 0..Len(s)
  PROVE  /\ SubSeq(s, 1, i) \in Seq(S) /\ Len(s) \in Nat
         /\ Len(SubSeq(s, 1, i)) = i
         /\ \A j \in 1..i : SubSeq(s, 1, i)[j] = s[j]
         /\ SubSeq(s, 1, i) # <<>> <=> i > 0
         /\ s = <<>> => i = 0
PROOF OBVIOUS

-----------------------------------------------------------------------------
(* What the tables say of a request and its answer.                         *)

\* A request is its command and the distinct fields its handler reads.
LEMMA Requested ==
  ASSUME NEW cmd \in Cmds
  PROVE  /\ Len(Reads(cmd)) \in Nat
         /\ Len(Fields(cmd)) = Len(Reads(cmd)) + 1
         /\ Fields(cmd)[1] = "cmd"
         /\ \A p \in 1..Len(Reads(cmd)) :
               Fields(cmd)[p + 1] = Reads(cmd)[p] /\ Reads(cmd)[p] # "cmd"
         /\ \A p \in 1..Len(Reads(cmd)) + 1 : Fields(cmd)[p] \in Names
         /\ \A p, q \in 1..Len(Reads(cmd)) + 1 : Fields(cmd)[p] = Fields(cmd)[q] => p = q
         /\ \A i \in 1..Len(Reads(cmd)) :
               Reads(cmd)[i] = "data" => i > 1 /\ Reads(cmd)[i - 1] = "size"
PROOF
<1>. DEFINE r == Reads(cmd)
<1>1. /\ Len(r) \in Nat /\ r = [i \in 1..Len(r) |-> r[i]]
      /\ \A i \in 1..Len(r) : r[i] # "cmd"
      /\ \A i, j \in 1..Len(r) : r[i] = r[j] => i = j
      /\ \A i \in 1..Len(r) : r[i] = "data" => i > 1 /\ r[i - 1] = "size"
  BY Handlers DEF HandlerOK, Reads
<1>2. \A i \in 1..Len(r) : r[i] \in Names
  <2>1. {r[i] : i \in 1..Len(r)} \subseteq ReadNames
    BY Zenon DEF ReadNames
  <2>2. QED
    BY <2>1 DEF Names
<1>3. Fields(cmd) = <<"cmd">> \o r
  BY DEF Fields
<1>4. "cmd" \in Names
  BY DEF Names
<1>. HIDE DEF r
<1>5. r \in Seq(Names)
  BY <1>1, <1>2
<1>6. <<"cmd">> \in Seq(Names) /\ Len(<<"cmd">>) = 1 /\ <<"cmd">>[1] = "cmd"
  BY <1>4
<1>7. /\ Len(Fields(cmd)) = Len(r) + 1
      /\ Fields(cmd)[1] = "cmd"
      /\ \A p \in 1..Len(r) : Fields(cmd)[p + 1] = r[p]
  BY <1>1, <1>3, <1>5, <1>6
<1>8. \A p \in 1..Len(r) + 1 : p = 1 \/ (p - 1 \in 1..Len(r) /\ Fields(cmd)[p] = r[p - 1])
  <2>1. SUFFICES ASSUME NEW p \in 1..Len(r) + 1, p # 1
                 PROVE  p - 1 \in 1..Len(r) /\ Fields(cmd)[p] = r[p - 1]
    OBVIOUS
  <2>2. p - 1 \in 1..Len(r) /\ (p - 1) + 1 = p
    BY <1>1, <2>1
  <2>3. QED
    BY <1>7, <2>2
<1>9. \A p \in 1..Len(r) + 1 : Fields(cmd)[p] \in Names
  BY <1>2, <1>4, <1>7, <1>8
<1>10. \A p, q \in 1..Len(r) + 1 : Fields(cmd)[p] = Fields(cmd)[q] => p = q
  BY <1>1, <1>7, <1>8
<1>11. QED
  BY <1>1, <1>7, <1>9, <1>10 DEF r

\* A function sends what its handler reads, and takes what it answers.
LEMMA Called ==
  ASSUME LongestName = Upto4K, NEW call \in DOMAIN Client
  PROVE  /\ Client[call].cmd \in Cmds
         /\ Client[call].fields = Fields(Client[call].cmd)
         /\ Client[call].expects = Server[Client[call].cmd].answer
         /\ Server[Client[call].cmd].odd \subseteq Client[call].checks
         /\ Client[call].started \in Nat
         /\ \A n \in PayloadSizes(Client[call].max) : n \in Nat /\ Loaded(Client[call].cmd, n)
         /\ Client[call].expects = <<>> <=> Client[call].cmd = "TERMINATESERVER"
         /\ StartOK(Client[call], Server[Client[call].cmd])
PROOF BY Rows DEF Agree, RowOK, Fields, Reads, Loaded

\* Answers have distinct fields in at most three levels.
LEMMA Levels ==
  ASSUME NEW cmd \in Cmds
  PROVE  /\ Len(Server[cmd].answer) \in 0..3
         /\ \A l \in 1..Len(Server[cmd].answer) :
               /\ Len(Server[cmd].answer[l]) \in Nat /\ Len(Server[cmd].answer[l]) >= 1
               /\ \A i \in 1..Len(Server[cmd].answer[l]) : 
                     Server[cmd].answer[l][i] \in Names /\ Server[cmd].answer[l][i] # "nothing"
         /\ \A l, m \in 1..Len(Server[cmd].answer) :
               \A i \in 1..Len(Server[cmd].answer[l]), j \in 1..Len(Server[cmd].answer[m]) :
                  Server[cmd].answer[l][i] = Server[cmd].answer[m][j] => l = m /\ i = j
         /\ Server["TERMINATESERVER"].answer = <<>>
PROOF
<1>1. AnswerOK(Server[cmd])
  BY Handlers
<1>2. \A l \in 1..Len(Server[cmd].answer) : \A i \in 1..Len(Server[cmd].answer[l]) :
         Server[cmd].answer[l][i] \in Names
  <2>1. AnswerNames(cmd) \subseteq Names
    <3>1. AnswerNames(cmd) \subseteq AllAnswerNames
      BY Zenon DEF AllAnswerNames
    <3>2. QED
      BY <3>1, Zenon DEF Names
  <2>2. \A l \in 1..Len(Server[cmd].answer) : LevelNames(cmd, l) \subseteq AnswerNames(cmd)
    BY Zenon DEF AnswerNames
  <2>3. \A l : \A i \in 1..Len(Server[cmd].answer[l]) : Server[cmd].answer[l][i] \in LevelNames(cmd, l)
    BY Zenon DEF LevelNames
  <2>4. QED
    BY <2>1, <2>2, <2>3
<1>3. Server["TERMINATESERVER"].answer = <<>>
  BY DEF Server, CMD_TERMINATESERVER, Handles
<1>4. \A l \in 1..Len(Server[cmd].answer) :
         Len(Server[cmd].answer[l]) \in Nat /\ Len(Server[cmd].answer[l]) > 0
  BY <1>1, Zenon DEF AnswerOK
<1>5. \A l \in 1..Len(Server[cmd].answer) : Len(Server[cmd].answer[l]) >= 1
  BY <1>4
<1>6. QED
  BY <1>1, <1>2, <1>3, <1>4, <1>5, Zenon DEF AnswerOK

\* Only the command that ends the server is not answered.
LEMMA AlwaysAnswers ==
  ASSUME LongestName = Upto4K, NEW cmd \in Cmds, cmd # "TERMINATESERVER"
  PROVE  Server[cmd].answer # <<>>
PROOF
<1>1. \E call \in DOMAIN Client : Client[call].cmd = cmd
  BY CmdNames, CallNames, EachRow DEF Client
<1>2. QED
  BY <1>1, Called

-----------------------------------------------------------------------------
(* What a handler answers.                                                  *)

\* The first sequence starts as the second and ends as the third.
Spans(s, p, q) == s[1] = p[1] /\ s[Len(s)] = q[Len(q)]

\* Two parts of an answer make one if the second follows the first.
LEMMA ChainJoin ==
  ASSUME NEW e, NEW id, NEW odds, NEW p, NEW q, Chain(e, id, odds, p), Chain(e, id, odds, q),
         Follows(e, p[Len(p)], q[1])
  PROVE  Chain(e, id, odds, p \o q) /\ Spans(p \o q, p, q)
PROOF
<1>. DEFINE s == p \o q
<1>1. /\ p \in Seq(Answers) /\ q \in Seq(Answers) /\ Len(p) \in Nat /\ Len(q) \in Nat
      /\ Len(p) >= 1 /\ Len(q) >= 1
  BY Shorter DEF Chain
<1>2. /\ s \in Seq(Answers) /\ Len(s) = Len(p) + Len(q) /\ s # <<>>
      /\ \A i \in 1..Len(p) : s[i] = p[i]
      /\ \A i \in 1..Len(q) : s[Len(p) + i] = q[i]
  BY <1>1
<1>. HIDE DEF s
<1>3. \A i \in 1..Len(s) :
         \/ i \in 1..Len(p) /\ s[i] = p[i]
         \/ i - Len(p) \in 1..Len(q) /\ s[i] = q[i - Len(p)]
  <2>1. SUFFICES ASSUME NEW i \in 1..Len(s), i \notin 1..Len(p)
                 PROVE  i - Len(p) \in 1..Len(q) /\ s[i] = q[i - Len(p)]
    BY <1>2
  <2>2. i - Len(p) \in 1..Len(q) /\ Len(p) + (i - Len(p)) = i
    BY <1>1, <1>2, <2>1
  <2>3. QED
    BY <1>2, <2>2
<1>4. ASSUME NEW i \in 1..Len(s) - 1
      PROVE  Follows(e, s[i], s[i + 1])
  <2>1. CASE i < Len(p)
    <3>1. i \in 1..Len(p) - 1 /\ i \in 1..Len(p) /\ i + 1 \in 1..Len(p)
      BY <1>1, <2>1
    <3>2. QED
      BY <1>2, <3>1 DEF Chain
  <2>2. CASE i = Len(p)
    <3>1. s[i] = p[Len(p)] /\ s[i + 1] = q[1]
      BY <1>1, <1>2, <2>2
    <3>2. QED
      BY <3>1
  <2>3. CASE i > Len(p)
    <3>1. PICK j \in 1..Len(q) - 1 : i = Len(p) + j
      <4>1. i - Len(p) \in 1..Len(q) - 1 /\ i = Len(p) + (i - Len(p))
        BY <1>1, <1>2, <2>3
      <4>2. QED
        BY <4>1
    <3>2. j \in 1..Len(q) /\ j + 1 \in 1..Len(q) /\ i + 1 = Len(p) + (j + 1)
      BY <1>1, <3>1
    <3>3. s[i] = q[j] /\ s[i + 1] = q[j + 1]
      BY <1>2, <3>1, <3>2
    <3>4. QED
      BY <3>1, <3>3 DEF Chain
  <2>4. QED
    BY <1>1, <1>2, <2>1, <2>2, <2>3
<1>5. \A i \in 1..Len(s) :
         s[i].id = id /\ (s[i].v = "odd" => s[i].f \in odds)
  BY <1>3, Zenon DEF Chain
<1>6. s[1] = p[1] /\ s[Len(s)] = q[Len(q)]
  BY <1>1, <1>2
<1>7. QED
  BY <1>2, <1>4, <1>5, <1>6 DEF Chain, Spans, s

\* One level of an answer.
LevelTokens(e, id, depth, odd, l) ==
    [j \in 1..Len(e[l]) |->
        [id |-> id, f |-> e[l][j],
         v |-> IF e[l][j] = odd THEN "odd" ELSE IF l < depth THEN "some" ELSE "none"]]

\* It is part of the answer, and announces whether there is more.
LEMMA LevelShape ==
  ASSUME NEW cmd \in Cmds, NEW id \in Nat, NEW depth \in 1..Len(Server[cmd].answer),
         NEW odd \in Server[cmd].odd \cup {"nothing"}, NEW l \in 1..depth
  PROVE  LET e == Server[cmd].answer
             q == LevelTokens(e, id, depth, odd, l)
         IN  /\ Chain(e, id, Server[cmd].odd, q)
             /\ q[1].f = e[l][1] /\ q[Len(q)].f = e[l][Len(e[l])]
             /\ l < depth => q[Len(q)].v # "none"
             /\ l = depth => q[Len(q)].v \in {"none", "odd"}
PROOF
<1>. DEFINE e == Server[cmd].answer
            q == LevelTokens(e, id, depth, odd, l)
<1>1. /\ Len(e) \in 0..3 /\ l \in 1..Len(e) /\ Len(e[l]) \in Nat /\ Len(e[l]) >= 1
      /\ \A i \in 1..Len(e[l]) : e[l][i] \in Names /\ e[l][i] # "nothing"
  <2>1. Len(e) \in 0..3
    BY Levels, Zenon
  <2>2. l \in 1..Len(e)
    BY <2>1
  <2>3. /\ Len(e[l]) \in Nat /\ Len(e[l]) >= 1
        /\ \A i \in 1..Len(e[l]) : e[l][i] \in Names /\ e[l][i] # "nothing"
    BY <2>2, Levels, Zenon
  <2>4. QED
    BY <2>1, <2>2, <2>3, Zenon
<1>. HIDE DEF e
<1>2. q = [j \in 1..Len(e[l]) |-> q[j]]
  BY DEF LevelTokens
<1>3. ASSUME NEW j \in 1..Len(e[l])
      PROVE  /\ q[j] \in Answers /\ q[j].id = id /\ q[j].f = e[l][j]
             /\ q[j].v = "odd" => q[j].f \in Server[cmd].odd
             /\ l < depth => q[j].v # "none"
             /\ l = depth => q[j].v \in {"none", "odd"}
  <2>1. q[j] = [id |-> id, f |-> e[l][j],
                v |-> IF e[l][j] = odd THEN "odd" ELSE IF l < depth THEN "some" ELSE "none"]
    BY <1>3 DEF LevelTokens
  <2>. HIDE DEF q
  <2>2. q[j].id = id /\ q[j].f = e[l][j]
           /\ q[j].v = IF e[l][j] = odd THEN "odd" ELSE IF l < depth THEN "some" ELSE "none"
    BY <2>1
  <2>3. q[j] \in Answers
    BY <1>1, <2>1 DEF Answers
  <2>4. QED
    BY <1>1, <2>2, <2>3
<1>. HIDE DEF q
<1>5. q \in Seq(Answers) /\ Len(q) = Len(e[l])
  <2>1. q \in [1..Len(e[l]) -> Answers]
    BY <1>2, <1>3
  <2>2. QED
    BY <1>1, <2>1
<1>6. /\ l < depth => q[Len(q)].v # "none"
      /\ l = depth => q[Len(q)].v \in {"none", "odd"}
  BY <1>1, <1>3, <1>5
<1>7. ASSUME NEW i \in 1..Len(q) - 1
      PROVE  Follows(e, q[i], q[i + 1])
  <2>1. i \in 1..Len(e[l]) /\ i + 1 \in 1..Len(e[l]) /\ i < Len(e[l])
    BY <1>1, <1>5, <1>7
  <2>2. q[i].f = e[l][i] /\ q[i + 1].f = e[l][i + 1]
    BY <1>3, <2>1
  <2>3. QED
    BY <1>1, <2>1, <2>2 DEF Follows
<1>8. q # <<>> /\ Chain(e, id, Server[cmd].odd, q)
  <2>1. q # <<>>
    BY <1>1, <1>5
  <2>2. \A i \in 1..Len(q) : q[i].id = id /\ (q[i].v = "odd" => q[i].f \in Server[cmd].odd)
    BY <1>3, <1>5
  <2>3. QED
    BY <1>5, <1>7, <2>1, <2>2, Zenon DEF Chain
<1>9. q[1].f = e[l][1] /\ q[Len(q)].f = e[l][Len(e[l])]
  BY <1>1, <1>3, <1>5
<1>10. QED
  BY <1>6, <1>8, <1>9 DEF e, q

\* A whole answer.
Complete(e, id, odds, q) ==
    Chain(e, id, odds, q) /\ q[1].f = e[1][1] /\ Ends(e, q[Len(q)])

\* A whole answer starts with its first field and ends where nothing more is
\* announced.
LEMMA WholeShape ==
  ASSUME NEW cmd \in Cmds, NEW id \in Nat, NEW depth \in 1..Len(Server[cmd].answer),
         NEW odd \in Server[cmd].odd \cup {"nothing"}, NEW tokens,
         tokens = LevelTokens(Server[cmd].answer, id, depth, odd, 1)
                   \o (IF 2 > depth THEN <<>> ELSE LevelTokens(Server[cmd].answer, id, depth, odd, 2))
                   \o (IF 3 > depth THEN <<>> ELSE LevelTokens(Server[cmd].answer, id, depth, odd, 3))
  PROVE  Complete(Server[cmd].answer, id, Server[cmd].odd, tokens)
PROOF
<1>. DEFINE e == Server[cmd].answer
            T(l) == LevelTokens(e, id, depth, odd, l)
            X(q, l) == Chain(e, id, Server[cmd].odd, q) /\ q[1].f = e[1][1]
                          /\ q[Len(q)] = T(l)[Len(T(l))]
<1>2. tokens = T(1) \o (IF 2 > depth THEN <<>> ELSE T(2)) \o (IF 3 > depth THEN <<>> ELSE T(3))
  OBVIOUS
<1>3. depth \in 1..3 /\ depth \in 1..Len(e) /\ Len(e) \in Nat
  <2>1. Len(e) \in 0..3
    BY Levels, Zenon
  <2>2. depth \in 1..Len(e)
    OBVIOUS
  <2>3. \A n : n \in 0..3 /\ depth \in 1..n => depth \in 1..3 /\ n \in Nat
    OBVIOUS
  <2>4. QED
    BY <2>1, <2>2, <2>3, Zenon
<1>4. \A l \in 1..depth :
        /\ Chain(e, id, Server[cmd].odd, T(l))
        /\ T(l)[1].f = e[l][1] /\ T(l)[Len(T(l))].f = e[l][Len(e[l])]
        /\ l < depth => T(l)[Len(T(l))].v # "none"
        /\ l = depth => T(l)[Len(T(l))].v \in {"none", "odd"}
  BY LevelShape
<1>5. \A l \in 1..Len(e) : Len(e[l]) \in Nat /\ Len(e[l]) >= 1
  BY Levels
<1>. HIDE DEF T, e
<1>6. ASSUME NEW l \in 1..depth, NEW m \in 1..depth, m = l + 1, NEW q, X(q, l)
      PROVE  X(q \o T(m), m)
  <2>1. l \in 1..Len(e) /\ l < Len(e) /\ l < depth
    BY <1>3, <1>6
  <2>2. /\ q[Len(q)].f = e[l][Len(e[l])] /\ q[Len(q)].v # "none" /\ T(m)[1].f = e[l + 1][1]
        /\ Chain(e, id, Server[cmd].odd, T(m)) /\ Chain(e, id, Server[cmd].odd, q)
    BY <1>4, <1>6, <2>1
  <2>. HIDE DEF X
  <2>3. Follows(e, q[Len(q)], T(m)[1])
    <3>1. Len(e[l]) \in 1..Len(e[l])
      BY <1>5, <2>1
    <3>2. QED
      BY <2>1, <2>2, <3>1, Zenon DEF Follows
  <2>4. /\ Chain(e, id, Server[cmd].odd, q \o T(m)) /\ (q \o T(m))[1] = q[1]
        /\ (q \o T(m))[Len(q \o T(m))] = T(m)[Len(T(m))]
    <3>1. Chain(e, id, Server[cmd].odd, q \o T(m)) /\ Spans(q \o T(m), q, T(m))
      BY <2>2, <2>3, ChainJoin
    <3>2. QED
      BY <3>1, Zenon DEF Spans
  <2>5. QED
    BY <1>6, <2>4 DEF X
<1>7. X(T(1), 1)
  BY <1>3, <1>4
<1>8. \A l \in 1..depth : Chain(e, id, Server[cmd].odd, T(l)) /\ T(l) \in Seq(Answers)
  BY <1>4 DEF Chain
<1>. HIDE DEF X
<1>9. X(tokens, depth)
  <2>1. CASE depth = 1
    <3>1. tokens = T(1)
      BY <1>2, <1>8, <2>1
    <3>2. QED
      BY <1>7, <2>1, <3>1
  <2>2. CASE depth = 2
    <3>1. tokens = T(1) \o T(2)
      <4>1. tokens = T(1) \o T(2) \o <<>>
        BY <1>2, <2>2
      <4>2. T(1) \in Seq(Answers) /\ T(2) \in Seq(Answers)
        BY <1>8, <2>2
      <4>3. \A p, q \in Seq(Answers) : p \o q \o <<>> = p \o q
        OBVIOUS
      <4>4. QED
        BY <4>1, <4>2, <4>3, Zenon
    <3>2. X(T(1) \o T(2), 2)
      BY <1>6, <1>7, <2>2
    <3>3. QED
      BY <2>2, <3>1, <3>2
  <2>3. CASE depth = 3
    <3>1. tokens = T(1) \o T(2) \o T(3)
      <4>1. ~(2 > depth) /\ ~(3 > depth)
        BY <2>3
      <4>2. QED
        BY <1>2, <4>1, Zenon
    <3>2. X(T(1) \o T(2), 2)
      BY <1>6, <1>7, <2>3
    <3>3. X(T(1) \o T(2) \o T(3), 3)
      BY <1>6, <3>2, <2>3
    <3>4. QED
      BY <2>3, <3>1, <3>3
  <2>4. QED
    BY <1>3, <2>1, <2>2, <2>3
<1>10. Ends(e, tokens[Len(tokens)])
  <2>1. /\ tokens[Len(tokens)].f = e[depth][Len(e[depth])]
        /\ tokens[Len(tokens)].v \in {"none", "odd"}
    <3>1. tokens[Len(tokens)] = T(depth)[Len(T(depth))]
      BY <1>9, Zenon DEF X
    <3>2. depth \in 1..depth
      BY <1>3
    <3>3. QED
      BY <1>4, <3>1, <3>2, Zenon
  <2>2. QED
    BY <1>3, <2>1, Zenon DEF Ends
<1>11. QED
  BY <1>9, <1>10, Zenon DEF e, X, Complete

\* That is what a worker sends.
LEMMA AnswerShape ==
  ASSUME NEW k \in Connections, Worker(k).cmd \in Cmds, Worker(k).id \in Nat,
         NEW depth \in 1..Len(Handler(k).answer), NEW odd \in Handler(k).odd \cup {"nothing"}
  PROVE  Complete(Handler(k).answer, Worker(k).id, Handler(k).odd, AnswerTokens(k, depth, odd))
PROOF
<1>. DEFINE T(l) == LevelTokens(Handler(k).answer, Worker(k).id, depth, odd, l)
<1>1. AnswerTokens(k, depth, odd) =
         T(1) \o (IF 2 > depth THEN <<>> ELSE T(2)) \o (IF 3 > depth THEN <<>> ELSE T(3))
  <2>1. ~(1 > depth)
    OBVIOUS
  <2>2. QED
    BY <2>1 DEF AnswerTokens, LevelTokens
<1>2. Handler(k) = Server[Worker(k).cmd]
  BY DEF Handler
<1>3. QED
  <2>1. PICK cmd, id, tokens : /\ cmd = Worker(k).cmd /\ id = Worker(k).id
                               /\ tokens = AnswerTokens(k, depth, odd)
    OBVIOUS
  <2>2. /\ cmd \in Cmds /\ id \in Nat /\ depth \in 1..Len(Server[cmd].answer)
        /\ odd \in Server[cmd].odd \cup {"nothing"}
    BY <1>2, <2>1
  <2>3. tokens = LevelTokens(Server[cmd].answer, id, depth, odd, 1)
                   \o (IF 2 > depth THEN <<>> ELSE LevelTokens(Server[cmd].answer, id, depth, odd, 2))
                   \o (IF 3 > depth THEN <<>> ELSE LevelTokens(Server[cmd].answer, id, depth, odd, 3))
    BY <1>1, <1>2, <2>1, Zenon
  <2>4. Complete(Server[cmd].answer, id, Server[cmd].odd, tokens)
    BY <2>2, <2>3, WholeShape
  <2>5. QED
    BY <1>2, <2>1, <2>4, Zenon

-----------------------------------------------------------------------------
(* One connection at a time: what a step on it keeps.                       *)

\* The parts of a connection.
LEMMA ConnParts ==
  ASSUME NEW c \in ConnStates
  PROVE  /\ c.up \in BOOLEAN
         /\ c.toServer \in Seq(Sents) /\ Len(c.toServer) \in Nat
         /\ c.toServer = <<>> <=> Len(c.toServer) = 0
         /\ c.toClient \in Seq(Answers) /\ Len(c.toClient) \in Nat
         /\ \A i \in 1..Len(c.toServer) :
               /\ c.toServer[i] \in Sents /\ c.toServer[i].id \in Nat
               /\ c.toServer[i].cmd \in Cmds /\ c.toServer[i].n \in Nat
         /\ c.worker \in Workers /\ c.worker.at \in {"loop", "dispatch", "stopped"}
         /\ c.worker.at = "dispatch" =>
               /\ c.worker.cmd \in Cmds /\ c.worker.id \in Nat /\ c.worker.got \in Gots
               /\ c.worker.got.pos \in Nat /\ c.worker.got.pos >= 1
PROOF
<1>1. /\ c.up \in BOOLEAN /\ c.toServer \in Seq(Sents) /\ c.toClient \in Seq(Answers)
      /\ c.worker \in Workers
  BY DEF ConnStates
<1>2. /\ Len(c.toServer) \in Nat /\ (c.toServer = <<>> <=> Len(c.toServer) = 0)
      /\ Len(c.toClient) \in Nat /\ \A i \in 1..Len(c.toServer) : c.toServer[i] \in Sents
  BY <1>1
<1>3. \A t \in Sents : t.id \in Nat /\ t.cmd \in Cmds /\ t.n \in Nat
  BY DEF Sents
<1>4. /\ c.worker.at \in {"loop", "dispatch", "stopped"}
      /\ c.worker.at = "dispatch" =>
            /\ c.worker.cmd \in Cmds /\ c.worker.id \in Nat /\ c.worker.got \in Gots
            /\ c.worker.got.pos \in Nat /\ c.worker.got.pos >= 1
  BY <1>1 DEF Workers, Looping, Gots
<1>5. QED
  BY <1>1, <1>2, <1>3, <1>4

\* A worker that has taken a field waits for what was sent after it.
LEMMA Position ==
  ASSUME NEW t, t.cmd \in Cmds, NEW p \in 1..Len(Reads(t.cmd)) + 1, t.f = Fields(t.cmd)[p],
         NEW w, w.at = "dispatch", w.cmd = t.cmd, w.id = t.id, w.got.pos = p
  PROVE  /\ \A u : Linked(t, u) => Meets(u, w)
         /\ Completes(t) => ~Within(w)
         /\ \A q \in 1..Len(Reads(t.cmd)) : t.f = Fields(t.cmd)[q] => Within(w) /\ w.got.pos = q
PROOF
<1>. DEFINE F == Fields(t.cmd)
            R == Reads(t.cmd)
<1>1. /\ Len(R) \in Nat /\ Len(F) = Len(R) + 1 /\ F[1] = "cmd"
      /\ \A i \in 1..Len(R) : F[i + 1] = R[i] /\ R[i] # "cmd"
      /\ \A i, j \in 1..Len(R) + 1 : F[i] = F[j] => i = j
  BY Requested
<1>2. Within(w) <=> p <= Len(R)
  BY DEF Within
<1>3. Completes(t) <=> t.f = F[Len(F)]
  BY DEF Completes
<1>. HIDE DEF F, R
<1>4. Completes(t) => ~Within(w)
  <2>1. Len(R) + 1 \in 1..Len(R) + 1
    BY <1>1
  <2>2. Completes(t) => p = Len(R) + 1
    BY <1>1, <1>3, <2>1 DEF F, R
  <2>3. QED
    BY <1>1, <1>2, <2>2
<1>5. \A q \in 1..Len(R) : t.f = F[q] => p = q /\ Within(w)
  <2>1. SUFFICES ASSUME NEW q \in 1..Len(R), t.f = F[q] PROVE p = q /\ Within(w)
    OBVIOUS
  <2>2. q \in 1..Len(R) + 1 /\ p \in 1..Len(R) + 1 /\ F[p] = F[q]
    BY <1>1, <2>1 DEF F, R
  <2>3. p = q
    BY <1>1, <2>2
  <2>4. QED
    BY <1>1, <1>2, <2>3
<1>6. ASSUME NEW u, Linked(t, u) PROVE Meets(u, w)
  <2>1. CASE Completes(t) /\ u.f = "cmd" /\ t.id < u.id
    BY <1>4, <2>1 DEF Meets
  <2>2. CASE /\ t.id = u.id /\ t.cmd = u.cmd
             /\ \E q \in 1..Len(R) : t.f = F[q] /\ u.f = F[q + 1]
    <3>1. PICK q \in 1..Len(R) : t.f = F[q] /\ u.f = F[q + 1]
      BY <2>2
    <3>2. p = q /\ Within(w) /\ u.f = R[p]
      BY <1>1, <1>5, <3>1
    <3>3. QED
      BY <2>2, <3>2 DEF Meets, R
  <2>3. QED
    BY <1>6, <2>1, <2>2 DEF Linked, R, F
<1>7. QED
  BY <1>4, <1>5, <1>6 DEF R, F

\* More requests made, and fewer not started, disturb no connection.
LEMMA SoundKeeps ==
  ASSUME NEW c \in ConnStates, NEW m \in Nat, NEW n \in Nat, m <= n, NEW Q, NEW R,
         Sound(c, m, Q), R \cap 1..m \subseteq Q
  PROVE  Sound(c, n, R)
PROOF
<1>1. Streamed(c, m) /\ Collected(c) /\ Tame(c, Q)
  BY DEF Sound
<1>2. Streamed(c, n)
  BY <1>1, ConnParts DEF Streamed
<1>3. Tame(c, R)
  BY <1>1 DEF Tame, Streamed
<1>4. QED
  BY <1>1, <1>2, <1>3 DEF Sound

\* The new state of the worker that takes the first field of its stream.
Takes(c, d, p) ==
    /\ c.toServer # <<>>
    /\ d.up = c.up /\ d.toServer = Tail(c.toServer) /\ d.toClient = c.toClient
    /\ d.worker.at = "dispatch"
    /\ d.worker.cmd = c.toServer[1].cmd /\ d.worker.id = c.toServer[1].id
    /\ d.worker.got.pos = p /\ c.toServer[1].f = Fields(c.toServer[1].cmd)[p]

\* It keeps the stream.
LEMMA TakesStream ==
  ASSUME NEW c \in ConnStates, NEW d \in ConnStates, NEW m \in Nat, NEW R, NEW p,
         Sound(c, m, R), Takes(c, d, p), p \in 1..Len(Reads(c.toServer[1].cmd)) + 1,
         Has(d.worker), d.worker.id \in R => Short(d.worker)
  PROVE  Sound(d, m, R)
PROOF
<1>. DEFINE s == c.toServer
<1>1. /\ s \in Seq(Sents) /\ s # <<>> /\ Len(s) \in Nat /\ Len(s) >= 1
      /\ Len(Tail(s)) = Len(s) - 1 /\ \A i \in 1..Len(s) - 1 : Tail(s)[i] = s[i + 1]
      /\ Tail(s) # <<>> <=> Len(s) > 1
  BY ConnParts, Shorter DEF Takes
<1>2. /\ \A i \in 1..Len(s) - 1 : Linked(s[i], s[i + 1])
      /\ \A i \in 1..Len(s) : s[i].id \in 1..m /\ Loaded(s[i].cmd, s[i].n)
      /\ \A i \in 1..Len(s) : s[i].id \in R => Early(s[i])
  BY DEF Sound, Streamed, Tame
<1>3. s[1].cmd \in Cmds
  BY <1>1, ConnParts
<1>4. \A u : Linked(s[1], u) => Meets(u, d.worker)
  BY <1>3, Position DEF Takes
<1>5. /\ d.toServer = Tail(s) /\ d.worker.at = "dispatch" /\ d.worker.id = s[1].id
  BY DEF Takes
<1>. HIDE DEF s
<1>6. Streamed(d, m)
  <2>1. Tail(s) # <<>> => Meets(Tail(s)[1], d.worker)
    BY <1>1, <1>2, <1>4
  <2>2. \A i \in 1..Len(Tail(s)) - 1 : Linked(Tail(s)[i], Tail(s)[i + 1])
    <3>1. SUFFICES ASSUME NEW i \in 1..Len(Tail(s)) - 1 PROVE Linked(Tail(s)[i], Tail(s)[i + 1])
      OBVIOUS
    <3>2. /\ i \in 1..Len(s) - 1 /\ i + 1 \in 1..Len(s) - 1
      BY <1>1
    <3>3. Tail(s)[i] = s[i + 1] /\ Tail(s)[i + 1] = s[(i + 1) + 1]
      BY <1>1, <3>2
    <3>4. QED
      BY <1>2, <3>2, <3>3
  <2>3. \A i \in 1..Len(Tail(s)) : Tail(s)[i].id \in 1..m /\ Loaded(Tail(s)[i].cmd, Tail(s)[i].n)
    BY <1>1, <1>2
  <2>4. s[1].id \in 1..m
    BY <1>1, <1>2
  <2>5. QED
    BY <1>5, <2>1, <2>2, <2>3, <2>4 DEF Streamed
<1>7. Tame(d, R)
  <2>1. \A i \in 1..Len(Tail(s)) : Tail(s)[i].id \in R => Early(Tail(s)[i])
    BY <1>1, <1>2
  <2>2. QED
    BY <1>5, <2>1 DEF Tame
<1>8. QED
  BY <1>6, <1>7 DEF Sound, Collected

\* It keeps what the client relies on.
LEMMA TakesAttached ==
  ASSUME NEW c \in ConnStates, NEW d \in ConnStates, NEW r \in {Idle} \cup Reqs, NEW a, NEW p,
         LongestName = Upto4K, Takes(c, d, p), p \in 1..Len(Reads(c.toServer[1].cmd)) + 1,
         Attached(c, r, a)
  PROVE  Attached(d, r, a)
PROOF
<1>. DEFINE s == c.toServer
<1>1. /\ s \in Seq(Sents) /\ s # <<>> /\ Len(s) \in Nat /\ Len(s) >= 1
      /\ Len(Tail(s)) = Len(s) - 1 /\ \A i \in 1..Len(s) - 1 : Tail(s)[i] = s[i + 1]
      /\ Tail(s) # <<>> <=> Len(s) > 1
  BY ConnParts, Shorter DEF Takes
<1>2. s[1].cmd \in Cmds
  BY <1>1, ConnParts
<1>3. /\ Completes(s[1]) => ~Within(d.worker)
      /\ \A q \in 1..Len(Reads(s[1].cmd)) :
            s[1].f = Fields(s[1].cmd)[q] => Within(d.worker) /\ d.worker.got.pos = q
  BY <1>2, Position DEF Takes
<1>4. /\ d.toServer = Tail(s) /\ d.worker.at = "dispatch" /\ d.worker.id = s[1].id
      /\ d.worker.cmd = s[1].cmd /\ d.up = c.up /\ d.toClient = c.toClient
  BY DEF Takes
<1>5. /\ c.up => IF Sending(r)
                 THEN s[Len(s)].id = r.id /\ s[Len(s)].cmd = RowOf(r).cmd
                        /\ s[Len(s)].f = RowOf(r).fields[r.sent]
                 ELSE Completes(s[Len(s)]) /\ (r # Idle /\ r.sent = 0 => s[Len(s)].id < r.id)
  BY <1>1 DEF Attached, Continues
<1>6. \A i \in 1..Len(s) : Ours(s[i], r)
  BY DEF Attached, Owned
<1>7. c.toClient = <<>>
  BY <1>1 DEF Attached, Answered, Waits
<1>. HIDE DEF s
<1>8. Owned(d, r)
  <2>1. Ours(s[1], r) /\ \A i \in 1..Len(Tail(s)) : Ours(Tail(s)[i], r)
    BY <1>1, <1>6
  <2>2. Ours(d.worker, r)
    BY <1>4, <2>1 DEF Ours
  <2>3. QED
    BY <1>4, <2>1, <2>2 DEF Owned
<1>9. Answered(d, r, a)
  BY <1>4, <1>7 DEF Answered, Attached
<1>10. Continues(d, r)
  <2>1. SUFFICES ASSUME d.up PROVE Continues(d, r)
    BY DEF Continues
  <2>2. CASE Len(s) > 1
    <3>1. Tail(s)[Len(Tail(s))] = s[Len(s)] /\ Tail(s) # <<>>
      BY <1>1, <2>2
    <3>2. QED
      BY <1>4, <1>5, <2>1, <3>1 DEF Continues
  <2>3. CASE Len(s) = 1 /\ ~Sending(r)
    BY <1>1, <1>3, <1>4, <1>5, <2>1, <2>3 DEF Continues
  <2>4. CASE Len(s) = 1 /\ Sending(r)
    <3>1. s[1].id = r.id /\ s[1].cmd = RowOf(r).cmd /\ s[1].f = RowOf(r).fields[r.sent]
      BY <1>4, <1>5, <2>1, <2>4
    <3>2. r \in Reqs /\ r.call \in DOMAIN Client /\ r.sent \in Nat
      BY <2>4 DEF Sending, Reqs
    <3>3. RowOf(r).fields = Fields(s[1].cmd)
      BY <3>1, <3>2, Called DEF RowOf
    <3>4. r.sent \in 1..Len(Reads(s[1].cmd))
      BY <1>2, <2>4, <3>2, <3>3, Requested DEF Sending
    <3>5. Within(d.worker) /\ d.worker.got.pos = r.sent
      BY <1>3, <3>1, <3>3, <3>4
    <3>6. d.toServer = <<>>
      BY <1>1, <1>4, <2>4
    <3>7. QED
      BY <1>4, <2>4, <3>1, <3>5, <3>6 DEF Continues
  <2>5. QED
    BY <1>1, <2>2, <2>3, <2>4
<1>11. QED
  BY <1>8, <1>9, <1>10 DEF Attached

\* It keeps off the request in hand if it is not the client's.
LEMMA TakesDetached ==
  ASSUME NEW c \in ConnStates, NEW d \in ConnStates, NEW r, NEW p, Takes(c, d, p), Detached(c, r)
  PROVE  Detached(d, r)
PROOF
<1>1. /\ Len(c.toServer) \in Nat /\ Len(c.toServer) >= 1
      /\ Len(Tail(c.toServer)) = Len(c.toServer) - 1
      /\ \A i \in 1..Len(c.toServer) - 1 : Tail(c.toServer)[i] = c.toServer[i + 1]
  BY ConnParts, Shorter DEF Takes
<1>2. QED
  BY <1>1 DEF Detached, Takes

-----------------------------------------------------------------------------
(* The steps of the server and the network change one connection.           *)

\* What such a step has to keep.
LEMMA ServerStep ==
  ASSUME WireInv, NEW k \in Connections, k <= cur, NEW d \in ConnStates,
         conns' = [conns EXCEPT ![k] = d],
         UNCHANGED <<cur, open, req, made, outcome>>, ~mixed',
         acted' \in [Requests -> {"no", "partial", "whole"}],
         \A r \in Requests : r > made \/ r \in Unstarted => acted'[r] = "no",
         Sound(d, made, Unstarted),
         k = cur /\ open => Attached(d, req, acted'),
         k # cur => Detached(d, req),
         k # cur /\ open => Attached(conns[cur], req, acted')
  PROVE  WireInv'
PROOF
<1>1. conns' \in [Connections -> ConnStates]
  BY DEF WireInv, Typed
<1>2. conns'[k] = d /\ \A j \in Connections : j # k => conns'[j] = conns[j]
  BY DEF WireInv, Typed
<1>3. Typed'
  BY <1>1 DEF WireInv, Typed
<1>4. Current'
  <2>1. cur \in Nat /\ k \in Nat /\ \A j \in Connections : j \in Nat
    BY BoundsAssumption DEF Connections, WireInv, Typed
  <2>2. \A j \in Connections : j > cur => conns'[j] = Fresh
    BY <1>2, <2>1 DEF WireInv, Current
  <2>3. QED
    BY <2>2 DEF WireInv, Current, Active
<1>5. Unstarted' = Unstarted
  BY DEF Unstarted, Active, Row
<1>6. \A j \in Connections : Sound(conns'[j], made, Unstarted)
  BY <1>2 DEF WireInv
<1>7. open => Attached(conns'[cur], req, acted')
  BY <1>2 DEF WireInv, Typed
<1>8. \A j \in Connections : j # cur => Detached(conns'[j], req)
  BY <1>2 DEF WireInv
<1>9. \A r \in Unstarted : acted'[r] = "no"
  BY DEF Unstarted
<1>10. QED
  BY <1>3, <1>4, <1>5, <1>6, <1>7, <1>8, <1>9 DEF WireInv, InSync

\* A connection nobody has made yet has nothing on it.
LEMMA Reached ==
  ASSUME WireInv, NEW k \in Connections,
         conns[k].toServer # <<>> \/ conns[k].worker.at = "dispatch" \/ conns[k].up
  PROVE  k <= cur
PROOF
<1>1. cur \in Nat /\ k \in Nat
  BY BoundsAssumption DEF Connections, WireInv, Typed
<1>2. k > cur => conns[k] = Fresh
  BY DEF WireInv, Current
<1>3. QED
  BY <1>1, <1>2 DEF Fresh, Looping

\* The worker of a connection takes a field of its stream, the one it wants.
LEMMA TakesStep ==
  ASSUME WireInv, LongestName = Upto4K, NEW k \in Connections, NEW p, NEW d \in ConnStates,
         conns' = [conns EXCEPT ![k] = d], Takes(conns[k], d, p),
         p \in 1..Len(Reads(conns[k].toServer[1].cmd)) + 1,
         UNCHANGED <<cur, open, req, made, outcome, acted>>, ~mixed',
         Has(d.worker), d.worker.id \in Unstarted => Short(d.worker)
  PROVE  WireInv'
PROOF
<1>. DEFINE c == conns[k]
<1>1. /\ c \in ConnStates /\ conns[cur] \in ConnStates /\ made \in Nat /\ req \in {Idle} \cup Reqs
      /\ acted \in [Requests -> {"no", "partial", "whole"}] /\ cur \in Connections
  BY BoundsAssumption DEF WireInv, Typed
<1>2. Sound(c, made, Unstarted)
  BY DEF WireInv
<1>3. k <= cur
  BY Reached DEF Takes
<1>4. Sound(d, made, Unstarted)
  BY <1>1, <1>2, TakesStream
<1>5. k = cur /\ open => Attached(d, req, acted)
  BY <1>1, TakesAttached DEF WireInv
<1>6. k # cur => Detached(d, req)
  BY <1>1, TakesDetached DEF WireInv
<1>7. \A r \in Requests : r > made \/ r \in Unstarted => acted[r] = "no"
  BY DEF WireInv, Current
<1>8. QED
  BY <1>1, <1>3, <1>4, <1>5, <1>6, <1>7, ServerStep DEF WireInv

\* WorkerThread takes a command byte for a command.
LEMMA WorkerThreadStep ==
  ASSUME WireInv, LongestName = Upto4K, NEW k \in Connections, WorkerThread(k)
  PROVE  WireInv'
PROOF
<1>. DEFINE c == conns[k]
            t == c.toServer[1]
            d == conns'[k]
<1>1. /\ c \in ConnStates /\ Sound(c, made, Unstarted) /\ conns \in [Connections -> ConnStates]
      /\ c.toServer # <<>> /\ c.worker.at = "loop"
  BY DEF WireInv, Typed, WorkerThread, Worker
<1>2. /\ Head(c.toServer) = t /\ t \in Sents /\ Tail(c.toServer) \in Seq(Sents)
      /\ t.cmd \in Cmds /\ t.id \in Nat /\ Len(c.toServer) >= 1 /\ Len(c.toServer) \in Nat
  <2>1. c.toServer \in Seq(Sents)
    BY <1>1, ConnParts
  <2>. HIDE DEF c
  <2>2. /\ Head(c.toServer) = t /\ t \in Sents /\ Tail(c.toServer) \in Seq(Sents)
        /\ Len(c.toServer) >= 1 /\ Len(c.toServer) \in Nat
    BY <1>1, <2>1, Shorter
  <2>3. QED
    BY <2>2 DEF Sents
<1>3. t.f = "cmd"
  BY <1>1 DEF Sound, Streamed, Meets, Within
<1>4. ~mixed'
  BY <1>2, <1>3 DEF WorkerThread
<1>5. /\ d.up = c.up /\ d.toServer = Tail(c.toServer) /\ d.toClient = c.toClient
      /\ d.worker = [at |-> "dispatch", cmd |-> t.cmd, id |-> t.id,
                     got |-> [pos |-> 1, n |-> 0, fields |-> {}]]
      /\ conns' = [conns EXCEPT ![k] = d]
  BY <1>1, <1>2 DEF WorkerThread, ConnStates
<1>6. d.worker \in Workers
  BY <1>2, <1>5 DEF Workers, Gots
<1>7. d \in ConnStates
  BY <1>1, <1>2, <1>5, <1>6 DEF WorkerThread, ConnStates
<1>8. /\ Len(Reads(t.cmd)) \in Nat /\ Fields(t.cmd)[1] = "cmd"
      /\ Len(Fields(t.cmd)) = Len(Reads(t.cmd)) + 1
      /\ \A i \in 1..Len(Reads(t.cmd)) + 1 : Fields(t.cmd)[i] = Fields(t.cmd)[1] => i = 1
      /\ \A i \in 1..Len(Reads(t.cmd)) : Reads(t.cmd)[i] = "data" => i > 1
  BY <1>2, Requested
<1>9. Takes(c, d, 1)
  BY <1>1, <1>3, <1>5, <1>8 DEF Takes
<1>10. Has(d.worker)
  BY <1>5, <1>8 DEF Has
<1>11. ASSUME d.worker.id \in Unstarted PROVE Short(d.worker)
  <2>1. Early(t)
    BY <1>1, <1>2, <1>5, <1>11 DEF Sound, Tame
  <2>2. PICK call \in DOMAIN Client :
           /\ Client[call].cmd = t.cmd /\ Client[call].started # Untracked
           /\ \E p \in 1..Client[call].started - 1 : p <= Len(Fields(t.cmd)) /\ t.f = Fields(t.cmd)[p]
    BY <2>1 DEF Early
  <2>3. Client[call].started \in Nat
    BY Called
  <2>4. Client[call].started > 1
    BY <2>2, <2>3
  <2>5. QED
    BY <1>5, <2>2, <2>4 DEF Short
<1>12. UNCHANGED <<cur, open, req, made, outcome, acted>>
  BY DEF WorkerThread
<1>13. 1 \in 1..Len(Reads(t.cmd)) + 1
  BY <1>8, SMTT(60)
<1>. HIDE DEF d
<1>14. QED
  BY <1>4, <1>5, <1>7, <1>9, <1>10, <1>11, <1>12, <1>13, TakesStep

\* A handler takes the field it wants.
LEMMA WorkerReceivesStep ==
  ASSUME WireInv, LongestName = Upto4K, NEW k \in Connections, WorkerReceives(k)
  PROVE  WireInv'
PROOF
<1>. DEFINE c == conns[k]
            t == c.toServer[1]
            w == c.worker
            d == conns'[k]
            R == Reads(w.cmd)
            p == w.got.pos
            n == IF R[p] = "size" THEN t.n ELSE w.got.n
<1>1. /\ c \in ConnStates /\ Sound(c, made, Unstarted) /\ conns \in [Connections -> ConnStates]
      /\ c.toServer # <<>> /\ w.at = "dispatch" /\ p <= Len(R) /\ Handler(k).reads = R
  BY Zenon DEF WireInv, Typed, WorkerReceives, Worker, Wants, Handler, Reads
<1>2. /\ Head(c.toServer) = t /\ t \in Sents /\ Tail(c.toServer) \in Seq(Sents)
      /\ t.cmd \in Cmds /\ t.id \in Nat /\ t.n \in Nat /\ Len(c.toServer) >= 1
      /\ Len(c.toServer) \in Nat
  <2>1. c.toServer \in Seq(Sents)
    BY <1>1, ConnParts
  <2>. HIDE DEF c
  <2>2. /\ Head(c.toServer) = t /\ t \in Sents /\ Tail(c.toServer) \in Seq(Sents)
        /\ Len(c.toServer) >= 1 /\ Len(c.toServer) \in Nat
    BY <1>1, <2>1, Shorter
  <2>3. QED
    BY <2>2 DEF Sents
<1>3. /\ w \in Workers /\ w.cmd \in Cmds /\ w.id \in Nat /\ w.got \in Gots /\ p \in Nat /\ p >= 1
  BY <1>1, ConnParts
<1>4. /\ Len(R) \in Nat /\ Len(Fields(w.cmd)) = Len(R) + 1
      /\ p \in 1..Len(R) /\ Fields(w.cmd)[p + 1] = R[p]
      /\ \A i, j \in 1..Len(R) + 1 : Fields(w.cmd)[i] = Fields(w.cmd)[j] => i = j
      /\ \A i \in 1..Len(R) : R[i] = "data" => i > 1 /\ R[i - 1] = "size"
      /\ \A i \in 1..Len(R) + 1 : Fields(w.cmd)[i] \in Names
  BY <1>1, <1>3, Requested
<1>5. t.id = w.id /\ t.cmd = w.cmd /\ t.f = R[p]
  BY <1>1, <1>4 DEF Sound, Streamed, Meets, Within
<1>6. ~mixed'
  BY <1>1, <1>2, <1>5 DEF WorkerReceives, Worker
<1>7. /\ d.up = c.up /\ d.toServer = Tail(c.toServer) /\ d.toClient = c.toClient
      /\ d.worker = [w EXCEPT !.got = [pos |-> p + 1, fields |-> w.got.fields \cup {R[p]}, n |-> n]]
      /\ d = [c EXCEPT !.toServer = Tail(c.toServer), !.worker = d.worker]
      /\ conns' = [conns EXCEPT ![k] = d]
  BY <1>1, <1>2 DEF WorkerReceives, ConnStates, Worker
<1>. HIDE DEF c, d, n, R
<1>8. R[p] \in Names
  BY <1>4
<1>9. /\ d.worker \in Workers /\ d.worker.at = "dispatch" /\ d.worker.cmd = w.cmd
      /\ d.worker.id = w.id /\ d.worker.got.pos = p + 1 /\ d.worker.got.n = n
      /\ d.worker.got.fields = w.got.fields \cup {R[p]}
  <2>1. n \in Nat
    BY <1>2, <1>3 DEF n, Gots
  <2>2. w \in [at : {"dispatch"}, cmd : Cmds, id : Nat, got : Gots]
    BY <1>1, <1>3 DEF Workers, Looping
  <2>3. [pos |-> p + 1, fields |-> w.got.fields \cup {R[p]}, n |-> n] \in Gots
    BY <1>3, <1>8, <2>1 DEF Gots
  <2>4. QED
    BY <1>7, <2>2, <2>3 DEF Workers
<1>10. d \in ConnStates
  BY <1>1, <1>2, <1>7, <1>9 DEF ConnStates
<1>11. Takes(c, d, p + 1)
  BY <1>1, <1>4, <1>5, <1>7, <1>9 DEF Takes
<1>12. Has(w)
  BY <1>1 DEF Sound, Collected
<1>13. Has(d.worker)
  <2>1. d.worker.got.fields = {R[i] : i \in 1..(p + 1) - 1}
    <3>1. w.got.fields = {R[i] : i \in 1..p - 1}
      BY <1>12 DEF Has, R
    <3>2. 1..(p + 1) - 1 = (1..p - 1) \cup {p}
      BY <1>3
    <3>3. QED
      BY <1>9, <3>1, <3>2
  <2>2. ASSUME NEW i \in 1..Len(R), R[i] = "data", p + 1 >= i
        PROVE  n \in 1..Server[w.cmd].max
    <3>1. t.n \in 1..Server[w.cmd].max
      <4>1. Loaded(t.cmd, t.n)
        BY <1>1, <1>2 DEF Sound, Streamed
      <4>2. QED
        BY <1>5, <2>2, <4>1 DEF Loaded, R
    <3>2. CASE R[p] = "size"
      BY <3>1, <3>2 DEF n
    <3>3. CASE R[p] # "size"
      <4>1. i # p + 1
        BY <1>3, <1>4, <2>2, <3>3
      <4>2. p >= i
        BY <1>3, <2>2, <4>1
      <4>3. w.got.n \in 1..Server[w.cmd].max
        BY <1>12, <2>2, <4>2 DEF Has, R
      <4>4. QED
        BY <3>3, <4>3 DEF n
    <3>4. QED
      BY <3>2, <3>3
  <2>3. p + 1 <= Len(R) + 1
    BY <1>4
  <2>4. QED
    BY <1>9, <2>1, <2>2, <2>3 DEF Has, R
<1>14. ASSUME d.worker.id \in Unstarted PROVE Short(d.worker)
  <2>1. Early(t)
    BY <1>1, <1>2, <1>5, <1>9, <1>14 DEF Sound, Tame
  <2>2. PICK call \in DOMAIN Client :
           /\ Client[call].cmd = t.cmd /\ Client[call].started # Untracked
           /\ \E q \in 1..Client[call].started - 1 : q <= Len(Fields(t.cmd)) /\ t.f = Fields(t.cmd)[q]
    BY <2>1 DEF Early
  <2>3. /\ Client[call].started \in Nat /\ StartOK(Client[call], Server[w.cmd])
    BY <1>5, <2>2, Called
  <2>4. p + 1 < Client[call].started
    <3>1. PICK q \in 1..Client[call].started - 1 : q <= Len(Fields(t.cmd)) /\ t.f = Fields(t.cmd)[q]
      BY <2>2
    <3>2. q \in 1..Len(R) + 1 /\ p + 1 \in 1..Len(R) + 1 /\ Fields(w.cmd)[q] = Fields(w.cmd)[p + 1]
      BY <1>4, <1>5, <2>3, <3>1
    <3>3. q = p + 1
      BY <1>4, <3>2
    <3>4. QED
      BY <2>3, <3>1, <3>3
  <2>5. Client[call].started # 2 /\ Client[call].started > 1
    BY <1>3, <2>3, <2>4
  <2>6. Server[w.cmd].checked
    BY <2>2, <2>3, <2>5 DEF StartOK
  <2>7. QED
    BY <1>5, <1>9, <2>2, <2>4, <2>5, <2>6 DEF Short
<1>15. UNCHANGED <<cur, open, req, made, outcome, acted>>
  BY DEF WorkerReceives
<1>16. p + 1 \in 1..Len(Reads(t.cmd)) + 1
  BY <1>4, <1>5 DEF R
<1>17. QED
  BY <1>6, <1>7, <1>10, <1>11, <1>13, <1>14, <1>15, <1>16, TakesStep, ZenonT(60) DEF c

\* On a dead and empty stream a worker misses a field, or ends.
Starves(c, d) ==
    /\ c.toServer = <<>> /\ ~c.up
    /\ ~d.up /\ d.toServer = <<>> /\ d.toClient = c.toClient
    /\ d.worker.at = "dispatch" =>
          /\ c.worker.at = "dispatch" /\ ~Server[c.worker.cmd].checked
          /\ d.worker.cmd = c.worker.cmd /\ d.worker.id = c.worker.id
          /\ d.worker.got.fields = c.worker.got.fields

\* That changes nothing for the client, and gives a handler nothing.
LEMMA StarvesKeeps ==
  ASSUME NEW c \in ConnStates, NEW d \in ConnStates, NEW m \in Nat, NEW R, NEW r, NEW a,
         Starves(c, d)
  PROVE  /\ Sound(c, m, R) => Sound(d, m, R)
         /\ Attached(c, r, a) => Attached(d, r, a)
         /\ Detached(c, r) => Detached(d, r)
PROOF
<1>1. Len(c.toServer) = 0 /\ Len(d.toServer) = 0
  BY ConnParts DEF Starves
<1>2. Sound(c, m, R) => Streamed(d, m) /\ Collected(d)
  BY <1>1 DEF Starves, Sound, Streamed, Collected
<1>3. Sound(c, m, R) => Tame(d, R)
  BY <1>1 DEF Starves, Sound, Tame, Short
<1>4. Attached(c, r, a) => Continues(d, r) /\ Owned(d, r)
  BY <1>1 DEF Starves, Attached, Continues, Owned, Ours
<1>5. Attached(c, r, a) => Answered(d, r, a)
  BY DEF Starves, Attached, Answered, Waits
<1>6. Detached(c, r) => Detached(d, r)
  BY <1>1 DEF Starves, Detached
<1>7. QED
  BY <1>2, <1>3, <1>4, <1>5, <1>6 DEF Sound, Attached

\* So the step keeps the invariant.
LEMMA StarvesStep ==
  ASSUME WireInv, NEW k \in Connections, k <= cur, NEW d \in ConnStates,
         conns' = [conns EXCEPT ![k] = d], Starves(conns[k], d),
         UNCHANGED <<cur, open, req, made, outcome, acted, mixed>>
  PROVE  WireInv'
PROOF
<1>1. /\ conns[k] \in ConnStates /\ conns[cur] \in ConnStates /\ made \in Nat
      /\ acted \in [Requests -> {"no", "partial", "whole"}] /\ cur \in Connections
      /\ ~mixed
  BY BoundsAssumption DEF WireInv, Typed, InSync
<1>2. Sound(d, made, Unstarted)
  BY <1>1, StarvesKeeps DEF WireInv
<1>3. k = cur /\ open => Attached(d, req, acted)
  BY <1>1, StarvesKeeps DEF WireInv
<1>4. k # cur => Detached(d, req)
  BY <1>1, StarvesKeeps, SMTT(60) DEF WireInv
<1>5. \A r \in Requests : r > made \/ r \in Unstarted => acted[r] = "no"
  BY DEF WireInv, Current
<1>6. QED
  BY <1>1, <1>2, <1>3, <1>4, <1>5, ServerStep DEF WireInv

\* Receive fails: a handler that checks gives up, another goes on with less.
LEMMA WorkerMissesStep ==
  ASSUME WireInv, NEW k \in Connections, WorkerMisses(k)
  PROVE  WireInv'
PROOF
<1>. DEFINE c == conns[k]
            w == c.worker
            d == conns'[k]
<1>1. /\ c \in ConnStates /\ conns \in [Connections -> ConnStates]
      /\ c.toServer = <<>> /\ ~c.up /\ w.at = "dispatch"
  BY DEF WireInv, Typed, WorkerMisses, Worker
<1>2. /\ w \in Workers /\ w.cmd \in Cmds /\ w.id \in Nat /\ w.got \in Gots /\ w.got.pos \in Nat
      /\ w.got.pos >= 1 /\ w.got.n \in Nat
  BY <1>1, ConnParts DEF Gots
<1>3. w \in [at : {"dispatch"}, cmd : Cmds, id : Nat, got : Gots]
  BY <1>1, <1>2 DEF Workers, Looping
<1>4. k <= cur
  BY <1>1, Reached
<1>5. UNCHANGED <<cur, open, req, made, outcome, acted, mixed>>
  BY DEF WorkerMisses
<1>6. CASE Server[w.cmd].checked /\ conns' = [conns EXCEPT ![k].worker = Looping]
  <2>1. /\ d = [c EXCEPT !.worker = Looping] /\ conns' = [conns EXCEPT ![k] = d]
    BY <1>1, <1>6
  <2>. HIDE DEF d, c
  <2>2. d \in ConnStates
    BY <1>1, <2>1 DEF ConnStates, Workers
  <2>3. Starves(c, d)
    BY <1>1, <2>1 DEF ConnStates, Starves, Looping
  <2>4. QED
    BY <1>4, <1>5, <2>1, <2>2, <2>3, StarvesStep DEF c
<1>7. CASE ~Server[w.cmd].checked
           /\ \E n \in Nat : conns' = [conns EXCEPT ![k].worker.got =
                                         [pos |-> @.pos + 1, fields |-> @.fields, n |-> n]]
  <2>. DEFINE g(n) == [pos |-> w.got.pos + 1, fields |-> w.got.fields, n |-> n]
  <2>1. PICK n \in Nat :
           conns' = [conns EXCEPT ![k].worker.got = [pos |-> @.pos + 1, fields |-> @.fields, n |-> n]]
    BY <1>7
  <2>2. /\ d = [c EXCEPT !.worker = [w EXCEPT !.got = g(n)]] /\ conns' = [conns EXCEPT ![k] = d]
    BY <1>1, <2>1
  <2>. HIDE DEF d, c, w
  <2>3. g(n) \in Gots
    BY <1>2, <2>1 DEF Gots
  <2>4. d \in ConnStates
    BY <1>1, <1>3, <2>2, <2>3 DEF ConnStates, Workers
  <2>5. Starves(c, d)
    BY <1>1, <1>2, <1>3, <1>7, <2>2 DEF ConnStates, Starves, Gots, w
  <2>6. QED
    BY <1>4, <1>5, <2>2, <2>4, <2>5, StarvesStep DEF c
<1>8. QED
  <2>1. {0, 1} \subseteq Nat /\ {w.got.n} \subseteq Nat
    BY <1>2
  <2>2. QED
    BY <1>6, <1>7, <2>1, Zenon DEF WorkerMisses, Worker, Handler

\* The worker of a dead connection ends.
LEMMA WorkerStopsStep ==
  ASSUME WireInv, NEW k \in Connections, WorkerStops(k)
  PROVE  WireInv'
PROOF
<1>. DEFINE c == conns[k]
            d == conns'[k]
<1>1. /\ c \in ConnStates /\ conns \in [Connections -> ConnStates]
      /\ c.toServer = <<>> /\ ~c.up /\ k <= cur
  BY DEF WireInv, Typed, WorkerStops
<1>2. /\ d = [c EXCEPT !.worker = [at |-> "stopped"]] /\ conns' = [conns EXCEPT ![k] = d]
      /\ UNCHANGED <<cur, open, req, made, outcome, acted, mixed>>
  BY <1>1 DEF WorkerStops
<1>. HIDE DEF d, c
<1>3. d \in ConnStates
  BY <1>1, <1>2 DEF ConnStates, Workers
<1>4. Starves(c, d)
  BY <1>1, <1>2 DEF ConnStates, Starves
<1>5. QED
  BY <1>1, <1>2, <1>3, <1>4, StarvesStep DEF c

\* The network loses a connection.
Loses(c, d, i, j) ==
    /\ c.up /\ ~d.up /\ d.worker = c.worker
    /\ d.toServer = SubSeq(c.toServer, 1, i) /\ d.toClient = SubSeq(c.toClient, 1, j)

\* What is left of the streams is still in order.
LEMMA LosesKeeps ==
  ASSUME NEW c \in ConnStates, NEW d \in ConnStates, NEW m \in Nat, NEW R, NEW r, NEW a,
         NEW i \in 0..Len(c.toServer), NEW j \in 0..Len(c.toClient), Loses(c, d, i, j)
  PROVE  /\ Sound(c, m, R) => Sound(d, m, R)
         /\ Attached(c, r, a) => Attached(d, r, a)
         /\ Detached(c, r) => Detached(d, r)
PROOF
<1>. DEFINE s == c.toServer
            q == c.toClient
<1>1. s \in Seq(Sents) /\ q \in Seq(Answers) /\ Len(s) \in Nat /\ Len(q) \in Nat
  BY ConnParts
<1>2. /\ d.toServer \in Seq(Sents) /\ Len(d.toServer) = i /\ (d.toServer # <<>> <=> i > 0)
      /\ \A n \in 1..i : d.toServer[n] = s[n] /\ n \in 1..Len(s)
      /\ s = <<>> => i = 0
  <2>1. d.toServer = SubSeq(s, 1, i) /\ i \in 0..Len(s)
    BY DEF Loses
  <2>. HIDE DEF s
  <2>2. QED
    BY <1>1, <2>1, Prefix
<1>3. /\ d.toClient \in Seq(Answers) /\ Len(d.toClient) = j /\ (d.toClient # <<>> <=> j > 0)
      /\ \A n \in 1..j : d.toClient[n] = q[n] /\ n \in 1..Len(q)
      /\ q = <<>> => j = 0
  <2>1. d.toClient = SubSeq(q, 1, j) /\ j \in 0..Len(q)
    BY DEF Loses
  <2>. HIDE DEF q
  <2>2. QED
    BY <1>1, <2>1, Prefix
<1>4. d.worker = c.worker /\ ~d.up /\ c.up
  BY DEF Loses
<1>. HIDE DEF s, q
<1>5. Sound(c, m, R) => Streamed(d, m)
  <2>1. SUFFICES ASSUME Streamed(c, m) PROVE Streamed(d, m)
    BY DEF Sound
  <2>2. d.toServer # <<>> => Meets(d.toServer[1], d.worker)
    BY <1>1, <1>2, <1>4, <2>1 DEF Streamed, s
  <2>3. \A n \in 1..Len(d.toServer) - 1 : Linked(d.toServer[n], d.toServer[n + 1])
    <3>1. SUFFICES ASSUME NEW n \in 1..Len(d.toServer) - 1
                   PROVE  Linked(d.toServer[n], d.toServer[n + 1])
      OBVIOUS
    <3>2. n \in 1..i /\ n + 1 \in 1..i /\ n \in 1..Len(s) - 1
      BY <1>1, <1>2
    <3>3. QED
      BY <1>2, <2>1, <3>2 DEF Streamed, s
  <2>4. \A n \in 1..Len(d.toServer) :
           d.toServer[n].id \in 1..m /\ Loaded(d.toServer[n].cmd, d.toServer[n].n)
    BY <1>2, <2>1 DEF Streamed, s
  <2>5. QED
    BY <1>4, <2>1, <2>2, <2>3, <2>4 DEF Streamed
<1>6. Sound(c, m, R) => Collected(d) /\ Tame(d, R)
  BY <1>2, <1>4 DEF Sound, Collected, Tame, s
<1>7. Attached(c, r, a) => Continues(d, r) /\ Owned(d, r)
  BY <1>2, <1>4 DEF Attached, Continues, Owned, s
<1>8. Attached(c, r, a) => Answered(d, r, a)
  <2>1. SUFFICES ASSUME Answered(c, r, a), j > 0 PROVE Waits(d, r, a)
    BY <1>3, <1>4 DEF Attached, Answered
  <2>2. Waits(c, r, a) /\ q # <<>>
    BY <1>3, <2>1 DEF Answered, q
  <2>3. d.toServer = <<>>
    BY <1>2, <2>2 DEF Waits, s
  <2>4. d.toClient[1] = q[1]
    BY <1>3, <2>1
  <2>5. ASSUME NEW e, NEW id, NEW odds, Chain(e, id, odds, q)
        PROVE  Chain(e, id, odds, d.toClient)
    <3>1. \A n \in 1..j - 1 : Follows(e, d.toClient[n], d.toClient[n + 1])
      <4>1. SUFFICES ASSUME NEW n \in 1..j - 1 PROVE Follows(e, d.toClient[n], d.toClient[n + 1])
        OBVIOUS
      <4>2. n \in 1..j /\ n + 1 \in 1..j /\ n \in 1..Len(q) - 1
        BY <1>1, <4>1 DEF q
      <4>3. QED
        BY <1>3, <2>5, <4>2 DEF Chain
    <3>2. QED
      BY <1>3, <2>1, <2>5, <3>1 DEF Chain
  <2>6. QED
    BY <1>4, <2>2, <2>3, <2>4, <2>5 DEF Waits, q
<1>9. Detached(c, r) => Detached(d, r)
  BY <1>2, <1>4 DEF Detached, s
<1>10. QED
  BY <1>5, <1>6, <1>7, <1>8, <1>9 DEF Sound, Attached

\* So a cut keeps the invariant.
LEMMA CutStep ==
  ASSUME WireInv, NEW k \in Connections, Cut(k)
  PROVE  WireInv'
PROOF
<1>. DEFINE c == conns[k]
            d == conns'[k]
<1>1. /\ c \in ConnStates /\ conns \in [Connections -> ConnStates] /\ c.up /\ k <= cur
      /\ UNCHANGED <<cur, open, req, made, outcome, acted, mixed>>
      /\ conns[cur] \in ConnStates /\ made \in Nat /\ cur \in Connections
      /\ acted \in [Requests -> {"no", "partial", "whole"}] /\ ~mixed
  BY Reached, BoundsAssumption DEF WireInv, Typed, Cut, InSync
<1>2. PICK i \in 0..Len(c.toServer), j \in 0..Len(c.toClient) :
         conns' = [conns EXCEPT ![k].up = FALSE, ![k].toServer = SubSeq(@, 1, i),
                                ![k].toClient = SubSeq(@, 1, j)]
  BY DEF Cut
<1>3. /\ d = [c EXCEPT !.up = FALSE, !.toServer = SubSeq(c.toServer, 1, i),
                       !.toClient = SubSeq(c.toClient, 1, j)]
      /\ conns' = [conns EXCEPT ![k] = d]
  BY <1>1, <1>2
<1>. HIDE DEF d, c
<1>4. SubSeq(c.toServer, 1, i) \in Seq(Sents) /\ SubSeq(c.toClient, 1, j) \in Seq(Answers)
  BY <1>1, ConnParts, Prefix
<1>5. d \in ConnStates
  BY <1>1, <1>3, <1>4 DEF ConnStates
<1>6. Loses(c, d, i, j)
  BY <1>1, <1>3 DEF ConnStates, Loses
<1>7. Sound(c, made, Unstarted)
  BY DEF WireInv, c
<1>8. Sound(d, made, Unstarted)
  BY <1>1, <1>5, <1>6, <1>7, LosesKeeps
<1>9. k = cur /\ open => Attached(d, req, acted)
  BY <1>1, <1>5, <1>6, LosesKeeps DEF WireInv, c
<1>10. k # cur => Detached(d, req)
  BY <1>1, <1>5, <1>6, LosesKeeps DEF WireInv, c
<1>11. \A r \in Requests : r > made \/ r \in Unstarted => acted[r] = "no"
  BY DEF WireInv, Current
<1>12. QED
  BY <1>1, <1>3, <1>5, <1>8, <1>9, <1>10, <1>11, ServerStep DEF WireInv

\* The fields of a handler as a set.
LEMMA ReadSet ==
  ASSUME NEW cmd \in Cmds
  PROVE  ToSet(Reads(cmd)) = {Reads(cmd)[i] : i \in 1..Len(Reads(cmd))}
PROOF
<1>1. DOMAIN Reads(cmd) = 1..Len(Reads(cmd))
  <2>1. Reads(cmd) = [i \in 1..Len(Reads(cmd)) |-> Reads(cmd)[i]]
    BY Handlers DEF HandlerOK, Reads
  <2>2. QED
    BY <2>1
<1>2. QED
  BY <1>1, Zenon DEF ToSet

\* A handler that wants nothing more has it all, unless its stream has ended.
LEMMA HasAll ==
  ASSUME NEW w, w.at = "dispatch", w.cmd \in Cmds, w.got.pos \in Nat, w.got.pos >= 1, Has(w),
         w.got.pos <= Len(Reads(w.cmd)) =>
            Reads(w.cmd)[w.got.pos] = "data" /\ w.got.n \notin 1..Server[w.cmd].max
  PROVE  /\ w.got.pos = Len(Reads(w.cmd)) + 1 /\ ~Within(w)
         /\ w.got.fields = ToSet(Reads(w.cmd))
         /\ "data" \in ToSet(Reads(w.cmd)) => w.got.n \in 1..Server[w.cmd].max
PROOF
<1>. DEFINE R == Reads(w.cmd)
<1>1. Len(R) \in Nat
  BY Requested
<1>2. /\ w.got.pos <= Len(R) + 1 /\ w.got.fields = {R[i] : i \in 1..w.got.pos - 1}
      /\ \A i \in 1..Len(R) : R[i] = "data" /\ w.got.pos >= i => w.got.n \in 1..Server[w.cmd].max
  BY DEF Has
<1>3. ToSet(R) = {R[i] : i \in 1..Len(R)}
  BY ReadSet
<1>4. w.got.pos <= Len(R) => R[w.got.pos] = "data" /\ w.got.n \notin 1..Server[w.cmd].max
  OBVIOUS
<1>. HIDE DEF R
<1>5. w.got.pos = Len(R) + 1
  BY <1>1, <1>2, <1>4
<1>6. ~Within(w)
  BY <1>1, <1>5 DEF Within, R
<1>7. w.got.fields = ToSet(R)
  <2>1. w.got.pos - 1 = Len(R)
    BY <1>1, <1>5
  <2>2. QED
    BY <1>2, <1>3, <2>1
<1>8. "data" \in ToSet(R) => w.got.n \in 1..Server[w.cmd].max
  BY <1>1, <1>2, <1>3, <1>5
<1>9. QED
  BY <1>5, <1>6, <1>7, <1>8 DEF R

\* The worker has answered its request.
Answering(c, d, tokens) ==
    /\ c.worker.at = "dispatch" /\ d.worker.at \in {"loop", "stopped"}
    /\ d.up = (c.up /\ c.worker.cmd # "TERMINATESERVER")
    /\ d.worker.at = "stopped" => c.worker.cmd = "TERMINATESERVER"
    /\ d.toServer = c.toServer
    /\ d.toClient = IF c.up THEN c.toClient \o tokens ELSE c.toClient
    /\ c.up \/ c.toServer # <<>> => ~Within(c.worker)

\* It waits for the next command.
LEMMA AnsweringKeeps ==
  ASSUME NEW c \in ConnStates, NEW d \in ConnStates, NEW m \in Nat, NEW R, NEW r, NEW tokens,
         Answering(c, d, tokens)
  PROVE  /\ Sound(c, m, R) => Sound(d, m, R)
         /\ Detached(c, r) => Detached(d, r)
PROOF
<1>1. d.worker.at # "dispatch" /\ d.toServer = c.toServer
  BY DEF Answering
<1>2. Sound(c, m, R) => Streamed(d, m)
  <2>1. SUFFICES ASSUME Streamed(c, m) PROVE Streamed(d, m)
    BY DEF Sound
  <2>2. d.toServer # <<>> => Meets(d.toServer[1], d.worker)
    BY <1>1, <2>1 DEF Answering, Streamed, Meets, Within
  <2>3. d.worker.at = "stopped" => ~d.up
    BY DEF Answering
  <2>4. QED
    BY <1>1, <2>1, <2>2, <2>3 DEF Streamed
<1>3. Sound(c, m, R) => Collected(d) /\ Tame(d, R)
  BY <1>1 DEF Sound, Collected, Tame
<1>4. Detached(c, r) => Detached(d, r)
  BY <1>1 DEF Detached
<1>5. QED
  BY <1>2, <1>3, <1>4 DEF Sound

\* On the client's connection the answer is that of the request in hand.
LEMMA AnsweringAttached ==
  ASSUME NEW c \in ConnStates, NEW d \in ConnStates, NEW m \in Nat, NEW R,
         NEW r \in {Idle} \cup Reqs, NEW a, NEW b, NEW tokens, LongestName = Upto4K,
         Answering(c, d, tokens), Sound(c, m, R), Attached(c, r, a), Placed(r),
         r # Idle => r.id = m,
         IF c.worker.cmd = "TERMINATESERVER" THEN tokens = <<>>
         ELSE Complete(Server[c.worker.cmd].answer, c.worker.id, Server[c.worker.cmd].odd, tokens),
         c.up /\ Server[c.worker.cmd].mutates => b[c.worker.id] = "whole"
  PROVE  Attached(d, r, b)
PROOF
<1>. DEFINE w == c.worker
            s == c.toServer
<1>1. /\ w.at = "dispatch" /\ d.worker.at # "dispatch" /\ d.toServer = s
      /\ d.up = (c.up /\ w.cmd # "TERMINATESERVER")
      /\ d.toClient = IF c.up THEN c.toClient \o tokens ELSE c.toClient
      /\ c.up \/ s # <<>> => ~Within(w)
  BY DEF Answering
<1>2. /\ s \in Seq(Sents) /\ Len(s) \in Nat /\ (s = <<>> <=> Len(s) = 0)
      /\ w.cmd \in Cmds /\ w.id \in Nat /\ c.toClient \in Seq(Answers)
  BY <1>1, ConnParts
<1>3. Continues(c, r) /\ Owned(c, r) /\ Answered(c, r, a)
  BY DEF Attached
<1>4. c.toClient = <<>>
  BY <1>1, <1>3 DEF Answered, Waits
<1>5. Owned(d, r)
  BY <1>1, <1>3 DEF Owned
<1>6. Continues(d, r)
  BY <1>1, <1>3 DEF Continues, Within
<1>7. CASE ~c.up \/ w.cmd = "TERMINATESERVER"
  <2>1. d.toClient = <<>> /\ ~d.up
    <3>1. w.cmd = "TERMINATESERVER" => tokens = <<>>
      OBVIOUS
    <3>2. <<>> \o <<>> = <<>>
      OBVIOUS
    <3>3. QED
      BY <1>1, <1>4, <1>7, <3>1, <3>2
  <2>2. QED
    BY <1>5, <1>6, <2>1 DEF Attached, Answered
<1>8. CASE c.up /\ w.cmd # "TERMINATESERVER"
  <2>1. r # Idle /\ w.id = r.id /\ w.cmd = RowOf(r).cmd
    BY <1>1, <1>3, <1>8 DEF Owned, Ours
  <2>2. r \in Reqs /\ r.call \in DOMAIN Client /\ r.sent \in Nat /\ r.id = m
    BY <2>1 DEF Reqs
  <2>3. s = <<>>
    <3>1. SUFFICES ASSUME s # <<>> PROVE FALSE
      OBVIOUS
    <3>2. Meets(s[1], w) /\ s[1].id \in 1..m
      BY <1>2, <3>1 DEF Sound, Streamed
    <3>3. w.id < s[1].id
      BY <1>1, <3>1, <3>2 DEF Meets
    <3>4. QED
      BY <2>1, <2>2, <3>2, <3>3
  <2>4. r.sent = Len(RowOf(r).fields)
    <3>1. ~Sending(r) /\ r.sent # 0
      BY <1>1, <1>3, <1>8, <2>1, <2>2, <2>3 DEF Continues
    <3>2. r.sent <= Len(RowOf(r).fields)
      BY <2>1 DEF Placed
    <3>3. RowOf(r).fields = Fields(w.cmd)
      BY <2>1, <2>2, Called DEF RowOf
    <3>4. Len(RowOf(r).fields) \in Nat
      BY <1>2, <3>3, Requested
    <3>5. QED
      BY <2>1, <2>2, <3>1, <3>2, <3>4 DEF Sending
  <2>5. r.level = 1 /\ r.next = 1
    BY <1>3, <1>4, <1>8, <2>1 DEF Answered
  <2>. DEFINE e == RowOf(r).expects
              odds == RowOf(r).checks
  <2>6. e = Server[w.cmd].answer /\ Server[w.cmd].odd \subseteq odds
    BY <2>1, <2>2, Called DEF RowOf
  <2>. HIDE DEF e, odds
  <2>7. /\ Chain(e, r.id, Server[w.cmd].odd, tokens) /\ tokens[1].f = e[1][1]
        /\ Ends(e, tokens[Len(tokens)])
    BY <1>8, <2>1, <2>6, Zenon DEF Complete
  <2>8. Chain(e, r.id, odds, tokens) /\ tokens \in Seq(Answers) /\ tokens # <<>>
    BY <2>6, <2>7 DEF Chain
  <2>9. d.toClient = tokens
    BY <1>1, <1>4, <1>8, <2>8
  <2>10. 1 <= Len(e) /\ 1 <= Len(e[1])
    <3>1. Len(e) \in 0..3 /\ \A l \in 1..Len(e) : Len(e[l]) \in Nat /\ Len(e[l]) >= 1
      BY <1>2, <2>6, Levels
    <3>2. Len(e) >= 1
      BY <2>7, <3>1 DEF Ends
    <3>3. QED
      BY <3>1, <3>2
  <2>11. Server[RowOf(r).cmd].mutates => b[r.id] = "whole"
    BY <1>8, <2>1
  <2>12. Waits(d, r, b)
    <3>1. d.toClient[1].f = e[r.level][r.next] /\ Ends(e, d.toClient[Len(d.toClient)])
      BY <2>5, <2>7, <2>9, Zenon
    <3>2. Chain(e, r.id, odds, d.toClient)
      BY <2>8, <2>9
    <3>3. r.level <= Len(e) /\ r.next <= Len(e[r.level])
      BY <2>5, <2>10
    <3>4. d.toServer = <<>> /\ d.worker.at # "dispatch"
      BY <1>1, <2>3
    <3>5. QED
      BY <2>1, <2>4, <2>11, <3>1, <3>2, <3>3, <3>4, Zenon DEF Waits, e, odds
  <2>13. Answered(d, r, b)
    BY <2>8, <2>9, <2>12 DEF Answered
  <2>14. QED
    BY <1>5, <1>6, <2>13 DEF Attached
<1>9. QED
  BY <1>7, <1>8

\* What a handler did for another request makes no difference.
LEMMA AttachedKeeps ==
  ASSUME NEW c, NEW r, NEW a, NEW b, Attached(c, r, a), r # Idle => b[r.id] = a[r.id]
  PROVE  Attached(c, r, b)
PROOF BY Zenon DEF Attached, Answered, Waits

\* The handler acts and answers; what was sent without having started it is not
\* enough for it to act on.
LEMMA WorkerAnswersStep ==
  ASSUME WireInv, LongestName = Upto4K, NEW k \in Connections, WorkerAnswers(k)
  PROVE  WireInv'
PROOF
<1>. DEFINE c == conns[k]
            w == c.worker
            d == conns'[k]
            h == Server[w.cmd]
            closes == w.cmd = "TERMINATESERVER"
<1>1. /\ c \in ConnStates /\ conns \in [Connections -> ConnStates] /\ w.at = "dispatch"
      /\ Handler(k) = h /\ Worker(k) = w /\ Sound(c, made, Unstarted)
      /\ conns[cur] \in ConnStates /\ made \in Nat /\ cur \in Connections
      /\ req \in {Idle} \cup Reqs /\ acted \in [Requests -> {"no", "partial", "whole"}]
      /\ UNCHANGED <<cur, open, req, made, outcome, mixed>> /\ ~mixed
      /\ Requests = 1..MaxRequests /\ MaxRequests \in Nat /\ made <= MaxRequests
  BY BoundsAssumption DEF WireInv, Typed, WorkerAnswers, Worker, Handler, Requests
<1>2. /\ w \in Workers /\ w.cmd \in Cmds /\ w.id \in Nat /\ w.got \in Gots /\ w.got.pos \in Nat
      /\ w.got.pos >= 1
  BY <1>1, ConnParts
<1>3. k <= cur
  BY <1>1, Reached, SMTT(60)
<1>4. w.got.pos <= Len(Reads(w.cmd)) =>
         Reads(w.cmd)[w.got.pos] = "data" /\ w.got.n \notin 1..h.max
  BY DEF WorkerAnswers, Wants, Handler, Worker, Reads
<1>5. c.up \/ c.toServer # <<>> =>
         /\ ~Within(w) /\ w.got.fields = ToSet(h.reads)
         /\ "data" \in ToSet(h.reads) => w.got.n \in 1..h.max
  <2>1. SUFFICES ASSUME Has(w)
                 PROVE  /\ ~Within(w) /\ w.got.fields = ToSet(h.reads)
                        /\ "data" \in ToSet(h.reads) => w.got.n \in 1..h.max
    BY <1>1 DEF Sound, Collected
  <2>2. QED
    BY <1>1, <1>2, <1>4, <2>1, HasAll DEF Reads
<1>6. PICK depth \in 0..Len(h.answer), odd \in h.odd \cup {"nothing"} :
         /\ h.answer # <<>> => depth > 0
         /\ conns' = [conns EXCEPT
                ![k].toClient = IF conns[k].up THEN @ \o AnswerTokens(k, depth, odd) ELSE @,
                ![k].worker = IF closes THEN [at |-> "stopped"] ELSE Looping,
                ![k].up = @ /\ ~closes]
  BY Zenon DEF WorkerAnswers, Worker, Handler
<1>. DEFINE tokens == AnswerTokens(k, depth, odd)
            q == IF c.up THEN c.toClient \o tokens ELSE c.toClient
<1>7. /\ d = [c EXCEPT !.toClient = q, !.worker = IF closes THEN [at |-> "stopped"] ELSE Looping,
                       !.up = c.up /\ ~closes]
      /\ conns' = [conns EXCEPT ![k] = d]
  BY <1>1, <1>6
<1>8. IF closes THEN tokens = <<>> ELSE Complete(h.answer, w.id, h.odd, tokens)
  <2>1. CASE closes
    <3>1. h.answer = <<>>
      BY <1>2, <2>1, Levels
    <3>2. depth = 0
      BY <1>6, <3>1
    <3>3. QED
      BY <2>1, <3>2 DEF AnswerTokens
  <2>2. CASE ~closes
    <3>1. h.answer # <<>> /\ Len(h.answer) \in 0..3
      BY <1>2, <2>2, Levels, AlwaysAnswers
    <3>2. depth \in 1..Len(h.answer)
      BY <1>6, <3>1
    <3>3. QED
      BY <1>1, <1>2, <1>6, <2>2, <3>2, AnswerShape
  <2>3. QED
    BY <2>1, <2>2
<1>. HIDE DEF d, c, tokens, h
<1>9. tokens \in Seq(Answers)
  <2>1. <<>> \in Seq(Answers)
    OBVIOUS
  <2>2. QED
    BY <1>8, <2>1, Zenon DEF Complete, Chain
<1>10. d \in ConnStates
  <2>1. c.toClient \in Seq(Answers)
    BY <1>1, ConnParts
  <2>2. q \in Seq(Answers)
    BY <1>9, <2>1
  <2>3. (IF closes THEN [at |-> "stopped"] ELSE Looping) \in Workers
    BY DEF Workers
  <2>4. (c.up /\ ~closes) \in BOOLEAN
    OBVIOUS
  <2>. HIDE DEF q, closes
  <2>5. QED
    BY <1>1, <1>7, <2>2, <2>3, <2>4 DEF ConnStates
<1>11. Answering(c, d, tokens)
  <2>1. /\ d.up = (c.up /\ ~closes) /\ d.toServer = c.toServer /\ d.toClient = q
        /\ d.worker = IF closes THEN [at |-> "stopped"] ELSE Looping
    BY <1>1, <1>7 DEF ConnStates
  <2>2. QED
    BY <1>1, <1>5, <2>1 DEF Answering, Looping
<1>12. Sound(d, made, Unstarted)
  BY <1>1, <1>10, <1>11, AnsweringKeeps
<1>13. k # cur => Detached(d, req)
  BY <1>1, <1>10, <1>11, AnsweringKeeps DEF WireInv, c
<1>14. w.id \in 1..made /\ w.id \in Requests
  BY <1>1 DEF Sound, Streamed
<1>15. acted' = IF CallsApi(k)
                THEN [acted EXCEPT ![w.id] = IF Whole(k) THEN "whole" ELSE "partial"]
                ELSE acted
  BY <1>1 DEF WorkerAnswers
<1>16. /\ acted' \in [Requests -> {"no", "partial", "whole"}]
       /\ \A r \in Requests : r # w.id => acted'[r] = acted[r]
  BY <1>1, <1>14, <1>15
<1>17. c.up /\ h.mutates => acted'[w.id] = "whole"
  BY <1>1, <1>5, <1>14, <1>15 DEF CallsApi, Whole
<1>18. w.id \in Unstarted => ~CallsApi(k)
  <2>1. SUFFICES ASSUME w.id \in Unstarted, CallsApi(k) PROVE FALSE
    OBVIOUS
  <2>2. Short(w)
    BY <1>1, <2>1 DEF Sound, Tame
  <2>3. PICK call \in DOMAIN Client :
           /\ Client[call].cmd = w.cmd /\ Client[call].started # Untracked
           /\ Client[call].started > 1
           /\ IF h.checked THEN w.got.pos < Client[call].started ELSE "handle" \notin w.got.fields
    BY <2>2 DEF Short, h
  <2>4. Client[call].started \in Nat /\ StartOK(Client[call], h)
    BY <2>3, Called DEF h
  <2>5. CASE h.checked
    <3>1. w.got.pos \in 1..Client[call].started - 1
      BY <1>2, <2>3, <2>4, <2>5
    <3>2. w.got.pos <= Len(h.reads) /\ h.reads[w.got.pos] # "data"
      BY <2>3, <2>4, <2>5, <3>1 DEF StartOK
    <3>3. QED
      BY <1>4, <3>2 DEF Reads, h
  <2>6. CASE ~h.checked
    <3>1. \E i \in 1..Len(h.reads) : h.reads[i] = "handle"
      BY <2>3, <2>4, <2>6 DEF StartOK
    <3>2. "handle" \in ToSet(h.reads)
      BY <1>2, <3>1, ReadSet DEF Reads, h
    <3>3. QED
      BY <1>1, <2>1, <2>3, <2>6, <3>2 DEF CallsApi
  <2>7. QED
    BY <2>5, <2>6
<1>19. \A r \in Requests : r > made \/ r \in Unstarted => acted'[r] = "no"
  <2>1. \A r \in Requests : r > made \/ r \in Unstarted => acted[r] = "no"
    BY DEF WireInv, Current
  <2>2. ~(w.id > made)
    BY <1>1, <1>14
  <2>3. QED
    BY <1>15, <1>16, <1>18, <2>1, <2>2
<1>20. k = cur /\ open => Attached(d, req, acted')
  <2>1. SUFFICES ASSUME k = cur, open PROVE Attached(d, req, acted')
    OBVIOUS
  <2>2. Attached(c, req, acted) /\ Placed(req) /\ (req # Idle => req.id = made)
    BY <2>1 DEF WireInv, Current, Active, c
  <2>3. QED
    BY <1>1, <1>8, <1>10, <1>11, <1>17, <2>2, AnsweringAttached DEF h
<1>21. k # cur /\ open => Attached(conns[cur], req, acted')
  <2>1. SUFFICES ASSUME k # cur, open PROVE Attached(conns[cur], req, acted')
    OBVIOUS
  <2>2. req # Idle => req.id # w.id /\ req.id = made
    BY <1>1, <2>1 DEF WireInv, Current, Active, Detached, c
  <2>3. req # Idle => req.id \in Requests
    BY <1>1, <2>2 DEF Reqs
  <2>4. req # Idle => acted'[req.id] = acted[req.id]
    BY <1>16, <2>2, <2>3
  <2>5. Attached(conns[cur], req, acted)
    BY <2>1 DEF WireInv
  <2>6. QED
    BY <2>4, <2>5, AttachedKeeps
<1>22. QED
  BY <1>1, <1>3, <1>7, <1>10, <1>12, <1>13, <1>16, <1>19, <1>20, <1>21, ServerStep

-----------------------------------------------------------------------------
(* The steps of the client.                                                 *)

\* Init: one connection, nothing on it.
LEMMA InitWire == Init => WireInv
PROOF
<1>. SUFFICES ASSUME Init PROVE WireInv
  OBVIOUS
<1>. DEFINE first == [Fresh EXCEPT !.up = TRUE]
<1>1. 1 \in Connections /\ \A k \in Connections : k \in Nat /\ k >= 1
  BY BoundsAssumption DEF Connections
<1>2. <<>> \in Seq(Sents) /\ <<>> \in Seq(Answers) /\ Len(<<>>) = 0
  OBVIOUS
<1>3. \A c \in {first, Fresh} :
         /\ c \in ConnStates /\ c.toServer = <<>> /\ c.toClient = <<>> /\ c.worker.at = "loop"
  <2>1. Looping \in Workers /\ Looping.at = "loop"
    BY DEF Workers, Looping
  <2>2. Fresh \in ConnStates /\ Fresh.toServer = <<>> /\ Fresh.toClient = <<>> /\ Fresh.worker = Looping
    BY <1>2, <2>1 DEF Fresh, ConnStates
  <2>3. /\ first \in ConnStates /\ first.toServer = <<>> /\ first.toClient = <<>>
        /\ first.worker = Looping
    BY <2>2 DEF ConnStates
  <2>4. QED
    BY <2>1, <2>2, <2>3
<1>4. conns \in [Connections -> {first, Fresh}] /\ \A k \in Connections : k > 1 => conns[k] = Fresh
  BY <1>1 DEF Init
<1>5. req = Idle /\ cur = 1 /\ made = 0 /\ open = TRUE /\ ~Active
  BY DEF Init, Active
<1>6. Typed
  BY <1>1, <1>3, <1>4, BoundsAssumption DEF Init, Typed
<1>7. Current
  BY <1>4, <1>5 DEF Init, Current, Placed
<1>. HIDE DEF first
<1>8. ASSUME NEW k \in Connections
      PROVE  Sound(conns[k], made, Unstarted) /\ Detached(conns[k], req) /\ Attached(conns[k], req, acted)
  <2>1. /\ conns[k].toServer = <<>> /\ conns[k].toClient = <<>> /\ conns[k].worker.at = "loop"
    BY <1>3, <1>4
  <2>2. Sound(conns[k], made, Unstarted)
    BY <1>2, <2>1 DEF Sound, Streamed, Collected, Tame
  <2>3. Detached(conns[k], req)
    BY <1>5 DEF Detached
  <2>4. Attached(conns[k], req, acted)
    BY <1>2, <1>5, <2>1 DEF Attached, Continues, Sending, Within, Owned, Answered
  <2>5. QED
    BY <2>2, <2>3, <2>4
<1>9. Unstarted = {}
  BY <1>5 DEF Init, Unstarted
<1>10. QED
  BY <1>1, <1>5, <1>6, <1>7, <1>8, <1>9 DEF WireInv, InSync, Init

\* A new request: no connection carries its number yet.
LEMMA NewRequest ==
  ASSUME NEW c \in ConnStates, NEW m \in Nat, NEW R, Sound(c, m, R), NEW r \in Reqs, r.id = m + 1,
         r.sent = 0, r.level = 1, r.next = 1, NEW a
  PROVE  Detached(c, r) /\ (Attached(c, Idle, a) => Attached(c, r, a))
PROOF
<1>1. Len(c.toServer) \in Nat /\ (c.toServer = <<>> <=> Len(c.toServer) = 0)
  BY ConnParts
<1>2. /\ \A i \in 1..Len(c.toServer) : c.toServer[i].id \in 1..m
      /\ c.worker.at = "dispatch" => c.worker.id \in 1..m
  BY DEF Sound, Streamed
<1>3. Detached(c, r)
  BY <1>2 DEF Detached
<1>4. ~Sending(r) /\ ~Sending(Idle)
  BY DEF Sending
<1>5. ASSUME Attached(c, Idle, a) PROVE Attached(c, r, a)
  <2>1. c.toClient = <<>>
    BY <1>5 DEF Attached, Answered, Waits
  <2>2. Answered(c, r, a)
    BY <2>1 DEF Answered
  <2>3. Owned(c, r)
    BY <1>5 DEF Attached, Owned, Ours
  <2>4. Continues(c, r)
    <3>1. c.toServer # <<>> => c.toServer[Len(c.toServer)].id < r.id
      BY <1>1, <1>2
    <3>2. c.worker.at = "dispatch" => c.worker.id < r.id
      BY <1>2
    <3>3. QED
      BY <1>4, <1>5, <3>1, <3>2 DEF Attached, Continues
  <2>5. QED
    BY <2>2, <2>3, <2>4 DEF Attached
<1>6. QED
  BY <1>3, <1>5

\* A function starts.
LEMMA ExecuteStep ==
  ASSUME WireInv, LongestName = Upto4K, NEW call \in Calls, NEW n \in 0..Upto256M, execute(call, n)
  PROVE  WireInv'
PROOF
<1>. DEFINE r == [id |-> made + 1, call |-> call, n |-> n, sent |-> 0, level |-> 1, next |-> 1]
<1>1. /\ req = Idle /\ open /\ made < MaxRequests /\ req' = r /\ made' = made + 1
      /\ n \in PayloadSizes(Client[call].max)
      /\ outcome' = [outcome EXCEPT ![made + 1] = "active"]
      /\ UNCHANGED <<conns, cur, open, acted, mixed>>
  BY DEF execute, Active
<1>2. /\ Typed /\ made \in Nat /\ MaxRequests \in Nat /\ made + 1 \in Requests
      /\ call \in DOMAIN Client /\ made + 1 \in 0..MaxRequests /\ Requests = 1..MaxRequests
  BY <1>1, BoundsAssumption, CallsAssumption DEF WireInv, Typed, Requests
<1>3. r \in Reqs /\ r # Idle /\ r.id = made + 1
  BY <1>1, <1>2 DEF Reqs, Idle, Upto256M
<1>4. Typed'
  BY <1>1, <1>2, <1>3 DEF Typed
<1>5. Len(Client[call].fields) \in Nat /\ Len(Client[call].fields) >= 1
  BY <1>2, Called, Requested
<1>. HIDE DEF r
<1>6. Placed(r)
  BY <1>1, <1>5 DEF Placed, RowOf, r
<1>7. Current'
  <2>1. \A s \in Requests : s > made + 1 => outcome'[s] = "none" /\ acted'[s] = "no"
    BY <1>1, <1>2 DEF WireInv, Current, Typed
  <2>2. \A k \in Connections : k > cur => conns[k] = Fresh
    BY DEF WireInv, Current
  <2>3. outcome'[made + 1] = "active"
    BY <1>1, <1>2 DEF Typed
  <2>4. QED
    BY <1>1, <1>3, <1>6, <2>1, <2>2, <2>3 DEF Current
<1>8. Unstarted' \cap 1..made \subseteq Unstarted
  <2>1. \A s \in 1..made : s # made + 1 /\ s \in Requests
    BY <1>2 DEF Typed
  <2>2. \A s \in 1..made : outcome'[s] = outcome[s]
    BY <1>1, <1>2, <2>1 DEF Typed
  <2>3. QED
    BY <1>1, <1>3, <2>1, <2>2 DEF Unstarted
<1>9. ASSUME NEW k \in Connections
      PROVE  /\ Sound(conns[k], made + 1, Unstarted') /\ Detached(conns[k], r)
             /\ Attached(conns[k], req, acted) => Attached(conns[k], r, acted)
  <2>1. conns[k] \in ConnStates /\ Sound(conns[k], made, Unstarted)
    BY <1>2 DEF Typed, WireInv
  <2>2. Sound(conns[k], made + 1, Unstarted')
    <3>1. made + 1 \in Nat /\ made <= made + 1
      BY <1>2
    <3>2. QED
      BY <1>2, <1>8, <2>1, <3>1, SoundKeeps
  <2>3. r.sent = 0 /\ r.level = 1 /\ r.next = 1
    BY DEF r
  <2>4. Detached(conns[k], r) /\ (Attached(conns[k], Idle, acted) => Attached(conns[k], r, acted))
    BY <1>2, <1>3, <2>1, <2>3, NewRequest
  <2>5. QED
    BY <1>1, <2>2, <2>4
<1>10. ASSUME NEW s \in Unstarted' PROVE acted'[s] = "no"
  <2>1. s \in Requests
    BY <1>10 DEF Unstarted
  <2>2. CASE s > made
    BY <1>1, <2>1, <2>2 DEF WireInv, Current
  <2>3. CASE s \in 1..made
    BY <1>1, <1>8, <1>10, <2>3 DEF WireInv
  <2>4. QED
    BY <1>2, <2>1, <2>2, <2>3
<1>11. QED
  <2>1. /\ \A k \in Connections : Sound(conns'[k], made', Unstarted')
        /\ \A k \in Connections : k # cur' => Detached(conns'[k], req')
        /\ open' => Attached(conns'[cur'], req', acted')
    BY <1>1, <1>2, <1>9 DEF WireInv, Typed
  <2>2. InSync'
    BY <1>1 DEF WireInv, InSync
  <2>3. QED
    BY <1>4, <1>7, <1>10, <2>1, <2>2 DEF WireInv

\* The client sends the next field.
Posts(c, d, r) ==
    /\ c.up /\ d.up /\ d.worker = c.worker /\ d.toClient = c.toClient
    /\ d.toServer = Append(c.toServer, [id |-> r.id, f |-> RowOf(r).fields[r.sent + 1],
                                        cmd |-> RowOf(r).cmd, n |-> r.n])

\* It is what the worker, or the end of the stream, waits for.
LEMMA PostsKeeps ==
  ASSUME LongestName = Upto4K, NEW c \in ConnStates, NEW d \in ConnStates, NEW r \in Reqs,
         NEW R, NEW Q, NEW a, Posts(c, d, r), Sound(c, r.id, R), Attached(c, r, a), Placed(r),
         r.sent < Len(RowOf(r).fields), Q \subseteq R,
         r.id \in Q => RowOf(r).started # Untracked /\ r.sent + 1 < RowOf(r).started
  PROVE  /\ Sound(d, r.id, Q)
         /\ \A x \in Reqs :
               x.id = r.id /\ x.call = r.call /\ x.sent = r.sent + 1 /\ x.level = 1 /\ x.next = 1
                  => Attached(d, x, a)
         /\ r.sent + 1 = Len(RowOf(r).fields) /\ RowOf(r).expects = <<>> => Attached(d, Idle, a)
PROOF
<1>. DEFINE s == c.toServer
            F == Fields(RowOf(r).cmd)
            cmd == RowOf(r).cmd
            t == [id |-> r.id, f |-> RowOf(r).fields[r.sent + 1], cmd |-> cmd, n |-> r.n]
<1>1. /\ r.id \in Nat /\ r.id >= 1 /\ r.call \in DOMAIN Client /\ r.sent \in Nat /\ r.n \in Nat
      /\ r # Idle
  BY DEF Reqs, Idle
<1>2. /\ cmd \in Cmds /\ RowOf(r).fields = F /\ (RowOf(r).expects = <<>> => cmd = "TERMINATESERVER")
      /\ Loaded(cmd, r.n)
  BY <1>1, Called DEF RowOf, Placed
<1>3. /\ Len(Reads(cmd)) \in Nat /\ Len(F) = Len(Reads(cmd)) + 1 /\ F[1] = "cmd"
      /\ \A p \in 1..Len(Reads(cmd)) : F[p + 1] = Reads(cmd)[p]
      /\ \A p \in 1..Len(Reads(cmd)) + 1 : F[p] \in Names
  BY <1>2, Requested
<1>4. /\ s \in Seq(Sents) /\ Len(s) \in Nat /\ (s = <<>> <=> Len(s) = 0) /\ c.worker \in Workers
      /\ c.worker.at = "dispatch" => c.worker.id \in Nat
  BY ConnParts
<1>5. t.id = r.id /\ t.f = F[r.sent + 1] /\ t.cmd = cmd /\ t.n = r.n
  BY <1>2
<1>6. r.sent + 1 \in 1..Len(Reads(cmd)) + 1
  BY <1>1, <1>2, <1>3
<1>7. t \in Sents
  BY <1>1, <1>2, <1>3, <1>6 DEF Sents
<1>8. c.up /\ d.up /\ d.worker = c.worker /\ d.toClient = c.toClient /\ d.toServer = Append(s, t)
  BY DEF Posts
<1>. HIDE DEF s, t, F, cmd
<1>9. /\ Append(s, t) # <<>> /\ Len(Append(s, t)) = Len(s) + 1 /\ Append(s, t)[Len(s) + 1] = t
      /\ \A i \in 1..Len(s) : Append(s, t)[i] = s[i]
  BY <1>4, <1>7, Longer
<1>10. Continues(c, r)
  BY DEF Attached
<1>11. s # <<>> => Linked(s[Len(s)], t)
  <2>1. SUFFICES ASSUME s # <<>> PROVE Linked(s[Len(s)], t)
    OBVIOUS
  <2>2. CASE Sending(r)
    <3>1. s[Len(s)].id = r.id /\ s[Len(s)].cmd = cmd /\ s[Len(s)].f = F[r.sent]
      BY <1>2, <1>8, <1>10, <2>1, <2>2 DEF Continues, s, cmd
    <3>2. r.sent \in 1..Len(Reads(cmd))
      BY <1>1, <1>2, <1>3, <2>2 DEF Sending
    <3>3. QED
      BY <1>5, <3>1, <3>2 DEF Linked, F, cmd
  <2>3. CASE ~Sending(r)
    <3>1. r.sent = 0
      BY <1>1, <2>3 DEF Sending
    <3>2. Completes(s[Len(s)]) /\ s[Len(s)].id < r.id
      BY <1>1, <1>8, <1>10, <2>1, <2>3, <3>1 DEF Continues, s
    <3>3. t.f = "cmd"
      BY <1>3, <1>5, <3>1
    <3>4. QED
      BY <1>5, <3>2, <3>3 DEF Linked
  <2>4. QED
    BY <2>2, <2>3
<1>12. s = <<>> => Meets(t, c.worker)
  <2>1. SUFFICES ASSUME s = <<>> PROVE Meets(t, c.worker)
    OBVIOUS
  <2>2. CASE Sending(r)
    <3>1. Within(c.worker) /\ c.worker.id = r.id /\ c.worker.cmd = cmd /\ c.worker.got.pos = r.sent
      BY <1>8, <1>10, <2>1, <2>2 DEF Continues, s, cmd
    <3>2. r.sent \in 1..Len(Reads(cmd))
      BY <1>1, <1>2, <1>3, <2>2 DEF Sending
    <3>3. QED
      BY <1>3, <1>5, <3>1, <3>2 DEF Meets
  <2>3. CASE ~Sending(r)
    <3>1. r.sent = 0
      BY <1>1, <2>3 DEF Sending
    <3>2. ~Within(c.worker) /\ (c.worker.at = "dispatch" => c.worker.id < r.id)
      BY <1>1, <1>8, <1>10, <2>1, <2>3, <3>1 DEF Continues, s
    <3>3. t.f = "cmd"
      BY <1>3, <1>5, <3>1
    <3>4. QED
      BY <1>5, <3>2, <3>3 DEF Meets
  <2>4. QED
    BY <2>2, <2>3
<1>13. Streamed(d, r.id)
  <2>1. Streamed(c, r.id)
    BY DEF Sound
  <2>2. Meets(Append(s, t)[1], d.worker)
    BY <1>4, <1>8, <1>9, <1>12, <2>1 DEF Streamed, s
  <2>3. ASSUME NEW i \in 1..Len(Append(s, t)) - 1
        PROVE  Linked(Append(s, t)[i], Append(s, t)[i + 1])
    <3>1. CASE i = Len(s)
      BY <1>4, <1>9, <1>11, <2>3, <3>1
    <3>2. CASE i # Len(s)
      <4>1. i \in 1..Len(s) - 1 /\ i \in 1..Len(s) /\ i + 1 \in 1..Len(s)
        BY <1>4, <1>9, <3>2
      <4>2. QED
        BY <1>9, <2>1, <4>1 DEF Streamed, s
    <3>3. QED
      BY <3>1, <3>2
  <2>4. ASSUME NEW i \in 1..Len(Append(s, t))
        PROVE  /\ Append(s, t)[i].id \in 1..r.id
               /\ Loaded(Append(s, t)[i].cmd, Append(s, t)[i].n)
    <3>1. CASE i = Len(s) + 1
      BY <1>1, <1>2, <1>5, <1>9, <3>1
    <3>2. CASE i \in 1..Len(s)
      BY <1>9, <2>1, <3>2 DEF Streamed, s
    <3>3. QED
      BY <1>4, <1>9, <3>1, <3>2
  <2>5. QED
    BY <1>8, <2>1, <2>2, <2>3, <2>4 DEF Streamed
<1>14. Collected(d)
  BY <1>8 DEF Sound, Collected
<1>15. Tame(d, Q)
  <2>1. t.id \in Q => Early(t)
    <3>1. SUFFICES ASSUME r.id \in Q PROVE Early(t)
      BY <1>5
    <3>2. RowOf(r).started # Untracked /\ r.sent + 1 < RowOf(r).started /\ RowOf(r).started \in Nat
      BY <1>1, <3>1, Called DEF RowOf
    <3>3. r.sent + 1 \in 1..RowOf(r).started - 1 /\ r.sent + 1 <= Len(F)
      BY <1>1, <1>3, <1>6, <3>2
    <3>4. QED
      BY <1>1, <1>5, <3>2, <3>3 DEF Early, RowOf, F, cmd
  <2>2. Tame(c, R)
    BY DEF Sound
  <2>3. ASSUME NEW i \in 1..Len(Append(s, t)), Append(s, t)[i].id \in Q
        PROVE  Early(Append(s, t)[i])
    <3>1. CASE i = Len(s) + 1
      BY <1>9, <2>1, <2>3, <3>1
    <3>2. CASE i \in 1..Len(s)
      BY <1>9, <2>2, <2>3, <3>2 DEF Tame, s
    <3>3. QED
      BY <1>4, <1>9, <3>1, <3>2
  <2>4. QED
    BY <1>8, <2>2, <2>3 DEF Tame
<1>16. d.toClient = <<>>
  BY <1>1, <1>2, <1>3, <1>8 DEF Attached, Answered, Waits
<1>17. ASSUME NEW x \in Reqs \cup {Idle}, Ours(t, x), \A y : Ours(y, r) => Ours(y, x)
       PROVE  Owned(d, x)
  <2>1. ASSUME NEW i \in 1..Len(Append(s, t)) PROVE Ours(Append(s, t)[i], x)
    <3>1. CASE i = Len(s) + 1
      BY <1>9, <1>17, <3>1
    <3>2. CASE i \in 1..Len(s)
      BY <1>9, <1>17, <3>2 DEF Attached, Owned, s
    <3>3. QED
      BY <1>4, <1>9, <3>1, <3>2
  <2>2. QED
    BY <1>8, <1>17, <2>1 DEF Attached, Owned
<1>18. ASSUME NEW x \in Reqs, x.id = r.id, x.call = r.call, x.sent = r.sent + 1, x.level = 1,
              x.next = 1
       PROVE  Attached(d, x, a)
  <2>1. RowOf(x) = RowOf(r) /\ x # Idle
    BY <1>18 DEF RowOf, Reqs, Idle
  <2>2. Owned(d, x)
    BY <1>1, <1>5, <1>17, <1>18, <2>1 DEF Ours, cmd
  <2>3. Answered(d, x, a)
    BY <1>16, <1>18 DEF Answered
  <2>4. Continues(d, x)
    <3>1. d.toServer # <<>> /\ d.toServer[Len(d.toServer)] = t
      BY <1>8, <1>9
    <3>2. CASE Sending(x)
      BY <1>2, <1>5, <1>18, <2>1, <3>1, <3>2 DEF Continues, cmd
    <3>3. CASE ~Sending(x)
      <4>1. r.sent + 1 = Len(F) /\ x.sent # 0
        BY <1>1, <1>2, <1>3, <1>6, <1>18, <2>1, <3>3 DEF Sending
      <4>2. Completes(t)
        BY <1>5, <4>1 DEF Completes, F, cmd
      <4>3. QED
        BY <3>1, <3>3, <4>1, <4>2 DEF Continues
    <3>4. QED
      BY <3>2, <3>3
  <2>5. QED
    BY <2>2, <2>3, <2>4 DEF Attached
<1>19. ASSUME r.sent + 1 = Len(RowOf(r).fields), RowOf(r).expects = <<>>
       PROVE  Attached(d, Idle, a)
  <2>1. cmd = "TERMINATESERVER"
    BY <1>2, <1>19
  <2>2. Owned(d, Idle)
    BY <1>5, <1>17, <2>1 DEF Ours, cmd
  <2>3. Answered(d, Idle, a)
    BY <1>16 DEF Answered
  <2>4. Completes(t) /\ ~Sending(Idle)
    BY <1>2, <1>5, <1>19 DEF Completes, F, cmd, Sending
  <2>5. Continues(d, Idle)
    BY <1>8, <1>9, <2>4 DEF Continues
  <2>6. QED
    BY <2>2, <2>3, <2>5 DEF Attached
<1>20. QED
  BY <1>13, <1>14, <1>15, <1>18, <1>19 DEF Sound

\* What a step of the client on its connection has to keep.
LEMMA ClientMoves ==
  ASSUME WireInv, NEW d \in ConnStates, NEW x \in {Idle} \cup Reqs, req # Idle,
         conns' = [conns EXCEPT ![cur] = d], req' = x,
         UNCHANGED <<cur, made, acted>>, ~mixed', open' \in BOOLEAN, Placed(x),
         outcome' \in [Requests -> {"none", "active", "done", "failed", "unknown", "notStarted"}],
         \A s \in Requests : s # req.id => outcome'[s] = outcome[s],
         x # Idle => open' /\ x.id = req.id /\ outcome' = outcome,
         Unstarted' \subseteq Unstarted, Sound(d, made, Unstarted'),
         open' => Attached(d, x, acted)
  PROVE  WireInv'
PROOF
<1>1. /\ Typed /\ Current /\ req.id = made /\ made \in Nat /\ cur \in Connections
  BY BoundsAssumption DEF WireInv, Typed, Current, Active
<1>2. conns' \in [Connections -> ConnStates] /\ conns'[cur] = d
      /\ \A k \in Connections : k # cur => conns'[k] = conns[k]
  BY <1>1 DEF Typed
<1>3. Typed'
  BY <1>1, <1>2 DEF Typed
<1>4. Current'
  <2>1. cur \in Nat /\ \A k \in Connections : k \in Nat
    BY <1>1, BoundsAssumption DEF Connections
  <2>2. \A k \in Connections : k > cur => conns'[k] = Fresh
    BY <1>1, <1>2, <2>1 DEF Current
  <2>3. \A s \in Requests : s > made => outcome'[s] = "none" /\ acted[s] = "no"
    BY <1>1 DEF Current, Requests
  <2>4. x # Idle => x.id = made /\ outcome'[made] = "active" /\ open'
    BY <1>1 DEF Current, Active
  <2>5. QED
    BY <2>2, <2>3, <2>4 DEF Current, Active
<1>5. ASSUME NEW k \in Connections
      PROVE  Sound(conns'[k], made, Unstarted') /\ (k # cur => Detached(conns'[k], x))
  <2>1. CASE k = cur
    BY <1>2, <2>1
  <2>2. CASE k # cur
    <3>1. conns'[k] = conns[k] /\ conns[k] \in ConnStates /\ Sound(conns[k], made, Unstarted)
          /\ Detached(conns[k], req)
      BY <1>1, <1>2, <2>2 DEF WireInv, Typed
    <3>2. Sound(conns[k], made, Unstarted')
      BY <1>1, <3>1, SoundKeeps
    <3>3. Detached(conns[k], x)
      BY <3>1 DEF Detached
    <3>4. QED
      BY <3>1, <3>2, <3>3
  <2>3. QED
    BY <2>1, <2>2
<1>6. \A s \in Unstarted' : acted[s] = "no"
  BY DEF WireInv
<1>7. QED
  BY <1>2, <1>3, <1>4, <1>5, <1>6 DEF WireInv, InSync

\* The client sends a field.
LEMMA SendStep ==
  ASSUME WireInv, LongestName = Upto4K, Send
  PROVE  WireInv'
PROOF
<1>. DEFINE c == conns[cur]
            d == conns'[cur]
            x == [req EXCEPT !.sent = req.sent + 1]
<1>1. /\ Typed /\ req # Idle /\ open /\ c.up /\ req.sent < Len(RowOf(req).fields) /\ Row = RowOf(req)
      /\ UNCHANGED <<cur, open, made, acted, mixed>> /\ ~mixed
      /\ req \in Reqs /\ req.id = made /\ made \in Nat /\ made \in Requests /\ Placed(req)
      /\ outcome[made] = "active" /\ cur \in Connections /\ c \in ConnStates
      /\ conns \in [Connections -> ConnStates]
      /\ Sound(c, made, Unstarted) /\ Attached(c, req, acted)
  <2>1. /\ Typed /\ req # Idle /\ open /\ c.up /\ req.sent < Len(RowOf(req).fields) /\ Row = RowOf(req)
        /\ UNCHANGED <<cur, open, made, acted, mixed>> /\ ~mixed
    BY DEF WireInv, Send, Active, Row, RowOf
  <2>2. /\ req \in Reqs /\ req.id = made /\ Placed(req) /\ outcome[made] = "active"
        /\ cur \in Connections /\ c \in ConnStates /\ conns \in [Connections -> ConnStates]
    BY <2>1 DEF WireInv, Typed, Current, Active
  <2>3. made \in Nat /\ made \in Requests
    BY <2>1, <2>2, BoundsAssumption DEF Typed, Requests, Reqs
  <2>4. Sound(c, made, Unstarted) /\ Attached(c, req, acted)
    BY <2>1, <2>2 DEF WireInv
  <2>5. QED
    BY <2>1, <2>2, <2>3, <2>4
<1>2. /\ req.id \in Nat /\ req.call \in DOMAIN Client /\ req.sent \in Nat /\ req.n \in Nat
      /\ RowOf(req).cmd \in Cmds /\ RowOf(req).fields = Fields(RowOf(req).cmd)
      /\ RowOf(req).started \in Nat
  BY <1>1, Called DEF Reqs, RowOf
<1>3. /\ Len(RowOf(req).fields) \in Nat
      /\ \A p \in 1..Len(RowOf(req).fields) : RowOf(req).fields[p] \in Names
  BY <1>2, Requested
<1>. DEFINE t == [id |-> req.id, f |-> RowOf(req).fields[req.sent + 1], cmd |-> RowOf(req).cmd,
                  n |-> req.n]
<1>4. t \in Sents
  BY <1>1, <1>2, <1>3 DEF Sents
<1>5. d = [c EXCEPT !.toServer = Append(c.toServer, t)] /\ conns' = [conns EXCEPT ![cur] = d]
  BY <1>1 DEF Send
<1>. HIDE DEF d, c
<1>6. d \in ConnStates
  <2>1. Append(c.toServer, t) \in Seq(Sents)
    BY <1>1, <1>4, ConnParts
  <2>2. QED
    BY <1>1, <1>5, <2>1 DEF ConnStates
<1>7. Posts(c, d, req)
  BY <1>1, <1>5 DEF Posts, ConnStates
<1>8. x \in Reqs /\ x # Idle /\ x.id = req.id /\ x.call = req.call /\ x.sent = req.sent + 1
      /\ x.n = req.n /\ x.level = 1 /\ x.next = 1
  BY <1>1, <1>2 DEF Reqs, Idle, Placed
<1>9. Placed(x)
  BY <1>1, <1>2, <1>3, <1>8 DEF Placed, RowOf
<1>. HIDE DEF x, t
<1>10. CASE /\ req.sent + 1 = Len(RowOf(req).fields) /\ RowOf(req).expects = <<>>
            /\ req' = Idle /\ outcome' = [outcome EXCEPT ![req.id] = "done"]
  <2>1. /\ outcome' \in [Requests -> {"none", "active", "done", "failed", "unknown", "notStarted"}]
        /\ \A s \in Requests : s # req.id => outcome'[s] = outcome[s]
        /\ outcome'[req.id] = "done"
    BY <1>1, <1>10 DEF Typed
  <2>2. Unstarted' \subseteq Unstarted /\ req.id \notin Unstarted'
    BY <1>10, <2>1 DEF Unstarted, Active
  <2>3. Sound(d, req.id, Unstarted') /\ Attached(d, Idle, acted)
    BY <1>1, <1>6, <1>7, <1>10, <2>2, PostsKeeps
  <2>4. Placed(Idle)
    BY DEF Placed
  <2>5. QED
    BY <1>1, <1>5, <1>6, <1>10, <2>1, <2>2, <2>3, <2>4, ClientMoves
<1>11. CASE req' = x /\ UNCHANGED outcome
  <2>1. Row' = RowOf(req)
    BY <1>8, <1>11 DEF Row, RowOf
  <2>2. Unstarted' \subseteq Unstarted
    BY <1>1, <1>2, <1>8, <1>11, <2>1 DEF Unstarted, Active
  <2>3. req.id \in Unstarted' =>
           RowOf(req).started # Untracked /\ req.sent + 1 < RowOf(req).started
    BY <1>1, <1>8, <1>11, <2>1 DEF Unstarted, Active
  <2>4. Sound(d, req.id, Unstarted') /\ Attached(d, x, acted)
    BY <1>1, <1>6, <1>7, <1>8, <2>2, <2>3, PostsKeeps
  <2>5. QED
    BY <1>1, <1>5, <1>6, <1>8, <1>9, <1>11, <2>2, <2>4, ClientMoves DEF Typed
<1>12. QED
  BY <1>1, <1>10, <1>11 DEF Send, Finish, x

\* A request fails and its connection is closed.
LEMMA FailStep ==
  ASSUME WireInv, LongestName = Upto4K, req # Idle, PoisonAndClose, Finish(Reported),
         UNCHANGED <<cur, made, acted>>, ~mixed'
  PROVE  WireInv'
PROOF
<1>. DEFINE c == conns[cur]
            d == conns'[cur]
<1>1. /\ Typed /\ c \in ConnStates /\ conns \in [Connections -> ConnStates] /\ cur \in Connections
      /\ Sound(c, made, Unstarted) /\ made \in Nat
      /\ req \in Reqs /\ req.id = made /\ Row = RowOf(req)
  BY BoundsAssumption DEF WireInv, Typed, Current, Active, Row, RowOf
<1>2. /\ d = [c EXCEPT !.up = FALSE, !.toClient = <<>>] /\ conns' = [conns EXCEPT ![cur] = d]
      /\ open' = FALSE
  BY <1>1 DEF PoisonAndClose
<1>. HIDE DEF d, c
<1>3. d \in ConnStates /\ ~d.up /\ d.toServer = c.toServer /\ d.worker = c.worker
  <2>1. <<>> \in Seq(Answers)
    OBVIOUS
  <2>2. QED
    BY <1>1, <1>2, <2>1 DEF ConnStates
<1>4. made \in Requests
  BY <1>1 DEF Typed, Reqs, Requests
<1>5. Reported \in {"failed", "unknown", "notStarted"}
  BY DEF Reported
<1>6. /\ req' = Idle /\ outcome' = [outcome EXCEPT ![req.id] = Reported]
      /\ outcome' \in [Requests -> {"none", "active", "done", "failed", "unknown", "notStarted"}]
      /\ \A s \in Requests : s # req.id => outcome'[s] = outcome[s]
      /\ outcome'[req.id] = Reported
  BY <1>1, <1>4, <1>5 DEF Finish, Typed
<1>7. Reported = "notStarted" => req.id \in Unstarted
  <2>1. SUFFICES ASSUME Reported = "notStarted"
                 PROVE  Row.started # Untracked /\ req.sent < Row.started
    BY <1>1, <1>4 DEF Unstarted, Active
  <2>2. Row.started # Untracked /\ ~(req.sent >= Row.started)
    BY <2>1 DEF Reported
  <2>3. Row.started \in Nat /\ req.sent \in Nat
    BY <1>1, Called DEF Reqs, RowOf
  <2>4. QED
    BY <2>2, <2>3
<1>8. Unstarted' \subseteq Unstarted
  BY <1>6, <1>7 DEF Unstarted, Active
<1>9. Sound(d, made, Unstarted')
  <2>1. Sound(d, made, Unstarted)
    BY <1>1, <1>3 DEF Sound, Streamed, Collected, Tame
  <2>2. QED
    BY <1>1, <1>3, <1>8, <2>1, SoundKeeps
<1>10. Placed(Idle)
  BY DEF Placed
<1>11. QED
  BY <1>2, <1>3, <1>6, <1>8, <1>9, <1>10, ClientMoves

\* Sending or receiving fails.
LEMMA IoFailureStep ==
  ASSUME WireInv, LongestName = Upto4K, IoFailure
  PROVE  WireInv'
PROOF BY FailStep DEF IoFailure, Active

\* Where an answer goes on after a field, and where it ends.
Onward(e, t, l, j) ==
    /\ \A u : Follows(e, t, u) =>
          \/ j < Len(e[l]) /\ u.f = e[l][j + 1]
          \/ j = Len(e[l]) /\ l < Len(e) /\ t.v # "none" /\ u.f = e[l + 1][1]
    /\ Ends(e, t) => j = Len(e[l]) /\ (t.v \in {"none", "odd"} \/ l = Len(e))

\* The fields of an answer have distinct names.
Distinct(e) ==
    \A l, m \in 1..Len(e) : \A i \in 1..Len(e[l]), j \in 1..Len(e[m]) :
        e[l][i] = e[m][j] => l = m /\ i = j

\* The field at hand decides it: no other field has its name.
LEMMA Decides ==
  ASSUME NEW cmd \in Cmds, NEW e, e = Server[cmd].answer, NEW l \in 1..Len(e),
         NEW j \in 1..Len(e[l]), NEW t, t.f = e[l][j]
  PROVE  Onward(e, t, l, j)
PROOF
<1>1. /\ Len(e) \in Nat
      /\ \A m \in 1..Len(e) : Len(e[m]) \in Nat /\ Len(e[m]) >= 1
      /\ \A m, n \in 1..Len(e) : \A i \in 1..Len(e[m]), o \in 1..Len(e[n]) :
            e[m][i] = e[n][o] => m = n /\ i = o
  <2>1. Len(e) \in 0..3
    BY Levels
  <2>2. \A m \in 1..Len(e) : Len(e[m]) \in Nat /\ Len(e[m]) >= 1
    BY Levels, Zenon
  <2>3. \A m, n \in 1..Len(e) : \A i \in 1..Len(e[m]), o \in 1..Len(e[n]) :
            e[m][i] = e[n][o] => m = n /\ i = o
    <3>1. AnswerOK(Server[cmd])
      BY Handlers
    <3>2. Distinct(Server[cmd].answer)
      BY <3>1, Zenon DEF AnswerOK, Distinct
    <3>3. Distinct(e)
      BY <3>2
    <3>4. QED
      BY <3>3, Zenon DEF Distinct
  <2>4. Len(e) \in Nat
    BY <2>1
  <2>5. QED
    BY <2>2, <2>3, <2>4, Zenon
<1>2. ASSUME NEW u, Follows(e, t, u)
      PROVE  \/ j < Len(e[l]) /\ u.f = e[l][j + 1]
             \/ j = Len(e[l]) /\ l < Len(e) /\ t.v # "none" /\ u.f = e[l + 1][1]
  <2>1. PICK m \in 1..Len(e) : \E i \in 1..Len(e[m]) :
            /\ t.f = e[m][i]
            /\ \/ i < Len(e[m]) /\ u.f = e[m][i + 1]
               \/ i = Len(e[m]) /\ m < Len(e) /\ t.v # "none" /\ u.f = e[m + 1][1]
    BY <1>2 DEF Follows
  <2>2. PICK i \in 1..Len(e[m]) :
            /\ t.f = e[m][i]
            /\ \/ i < Len(e[m]) /\ u.f = e[m][i + 1]
               \/ i = Len(e[m]) /\ m < Len(e) /\ t.v # "none" /\ u.f = e[m + 1][1]
    BY <2>1
  <2>3. e[m][i] = e[l][j]
    BY <2>2
  <2>4. m = l /\ i = j
    BY <1>1, <2>3
  <2>5. QED
    BY <2>2, <2>4
<1>3. ASSUME Ends(e, t) PROVE j = Len(e[l]) /\ (t.v \in {"none", "odd"} \/ l = Len(e))
  <2>1. PICK m \in 1..Len(e) : t.f = e[m][Len(e[m])] /\ (t.v \in {"none", "odd"} \/ m = Len(e))
    BY <1>3 DEF Ends
  <2>2. Len(e[m]) \in 1..Len(e[m])
    BY <1>1
  <2>3. e[m][Len(e[m])] = e[l][j]
    BY <2>1
  <2>4. m = l /\ Len(e[m]) = j
    BY <1>1, <2>2, <2>3
  <2>5. QED
    BY <2>1, <2>4
<1>4. QED
  BY <1>2, <1>3 DEF Onward

\* The client takes a field of an answer it does not refuse.
LEMMA GetsKeeps ==
  ASSUME LongestName = Upto4K, NEW c \in ConnStates, NEW d \in ConnStates, NEW r \in Reqs, NEW a,
         c.toClient # <<>>, Waits(c, r, a), c.toClient[1].v # "odd",
         d.up = c.up, d.toServer = c.toServer, d.worker = c.worker, d.toClient = Tail(c.toClient),
         NEW x \in {Idle} \cup Reqs,
         x # Idle => x.id = r.id /\ x.call = r.call /\ x.sent = r.sent,
         LET e == RowOf(r).expects
             more == c.toClient[1].v # "none" /\ r.level < Len(e)
         IN  \/ r.next < Len(e[r.level]) /\ x # Idle /\ x.level = r.level /\ x.next = r.next + 1
             \/ r.next = Len(e[r.level]) /\ more /\ x # Idle /\ x.level = r.level + 1 /\ x.next = 1
             \/ r.next = Len(e[r.level]) /\ ~more /\ x = Idle
  PROVE  Attached(d, x, a)
PROOF
<1>. DEFINE e == RowOf(r).expects
            odds == RowOf(r).checks
            cmd == RowOf(r).cmd
            q == c.toClient
            t == q[1]
<1>1. /\ r.call \in DOMAIN Client /\ r.level \in Nat /\ r.next \in Nat /\ r.level >= 1 /\ r.next >= 1
      /\ r.sent \in Nat
  BY DEF Reqs
<1>2. cmd \in Cmds /\ e = Server[cmd].answer
  BY <1>1, Called DEF RowOf
<1>3. /\ r.sent = Len(RowOf(r).fields) /\ c.toServer = <<>> /\ c.worker.at # "dispatch"
      /\ r.level <= Len(e) /\ r.next <= Len(e[r.level]) /\ t.f = e[r.level][r.next]
      /\ Chain(e, r.id, odds, q) /\ (c.up => Ends(e, q[Len(q)]))
      /\ Server[cmd].mutates => a[r.id] = "whole"
  BY Zenon DEF Waits
<1>4. \/ r.next < Len(e[r.level]) /\ x # Idle /\ x.level = r.level /\ x.next = r.next + 1
      \/ /\ r.next = Len(e[r.level]) /\ t.v # "none" /\ r.level < Len(e)
         /\ x # Idle /\ x.level = r.level + 1 /\ x.next = 1
      \/ r.next = Len(e[r.level]) /\ ~(t.v # "none" /\ r.level < Len(e)) /\ x = Idle
  OBVIOUS
<1>5. x # Idle => RowOf(x) = RowOf(r)
  BY DEF RowOf
<1>. HIDE DEF e, odds, cmd, q, t
<1>6. /\ Len(e) \in Nat /\ r.level \in 1..Len(e)
      /\ \A l \in 1..Len(e) : Len(e[l]) \in Nat /\ Len(e[l]) >= 1
      /\ r.next \in 1..Len(e[r.level])
  <2>1. Len(e) \in 0..3 /\ \A l \in 1..Len(e) : Len(e[l]) \in Nat /\ Len(e[l]) >= 1
    BY <1>2, Levels
  <2>2. QED
    BY <1>1, <1>3, <2>1
<1>7. /\ q \in Seq(Answers) /\ q # <<>> /\ Len(q) \in Nat /\ Len(q) >= 1
      /\ Tail(q) \in Seq(Answers) /\ Len(Tail(q)) = Len(q) - 1
      /\ \A i \in 1..Len(q) - 1 : Tail(q)[i] = q[i + 1]
      /\ Tail(q) # <<>> <=> Len(q) > 1
  BY <1>3, Shorter DEF Chain
<1>8. d.toClient = Tail(q)
  BY DEF q
<1>9. /\ \A u : Follows(e, t, u) =>
            \/ r.next < Len(e[r.level]) /\ u.f = e[r.level][r.next + 1]
            \/ /\ r.next = Len(e[r.level]) /\ r.level < Len(e) /\ t.v # "none"
               /\ u.f = e[r.level + 1][1]
      /\ Ends(e, t) => r.next = Len(e[r.level]) /\ (t.v \in {"none", "odd"} \/ r.level = Len(e))
  <2>1. Onward(e, t, r.level, r.next)
    BY <1>2, <1>3, <1>6, Decides
  <2>2. QED
    BY <2>1, Zenon DEF Onward
<1>10. Continues(d, x)
  <2>1. ~Sending(x)
    BY <1>1, <1>3, <1>5 DEF Sending
  <2>2. QED
    BY <1>3, <2>1 DEF Continues, Within
<1>11. Owned(d, x)
  <2>1. Len(d.toServer) = 0
    BY <1>3
  <2>2. QED
    BY <1>3, <2>1 DEF Owned
<1>12. Answered(d, x, a)
  <2>1. CASE Len(q) = 1
    <3>1. Tail(q) = <<>>
      BY <1>7, <2>1
    <3>2. c.up => x = Idle
      <4>1. SUFFICES ASSUME c.up PROVE x = Idle
        OBVIOUS
      <4>2. Ends(e, t)
        BY <1>3, <2>1, <4>1 DEF t
      <4>3. r.next = Len(e[r.level]) /\ (t.v = "none" \/ r.level = Len(e))
        BY <1>9, <4>2 DEF t, q
      <4>4. QED
        BY <1>4, <1>6, <4>3
    <3>3. QED
      BY <1>8, <3>1, <3>2 DEF Answered
  <2>2. CASE Len(q) > 1
    <3>1. Tail(q)[1] = q[2] /\ Follows(e, t, q[2]) /\ Tail(q) # <<>>
      <4>1. 1 \in 1..Len(q) - 1
        BY <1>7, <2>2
      <4>2. Tail(q)[1] = q[1 + 1] /\ Follows(e, q[1], q[1 + 1])
        BY <1>3, <1>7, <4>1 DEF Chain
      <4>3. QED
        BY <1>7, <2>2, <4>2 DEF t
    <3>2. /\ x # Idle /\ x.level \in 1..Len(e) /\ x.next \in 1..Len(e[x.level])
          /\ q[2].f = e[x.level][x.next]
      <4>1. \/ r.next < Len(e[r.level]) /\ q[2].f = e[r.level][r.next + 1]
            \/ /\ r.next = Len(e[r.level]) /\ r.level < Len(e) /\ t.v # "none"
               /\ q[2].f = e[r.level + 1][1]
        BY <1>9, <3>1
      <4>2. CASE r.next < Len(e[r.level]) /\ q[2].f = e[r.level][r.next + 1]
        BY <1>1, <1>4, <1>6, <4>2
      <4>3. CASE /\ r.next = Len(e[r.level]) /\ r.level < Len(e) /\ t.v # "none"
                 /\ q[2].f = e[r.level + 1][1]
        <5>1. x # Idle /\ x.level = r.level + 1 /\ x.next = 1
          BY <1>4, <1>6, <4>3
        <5>2. r.level + 1 \in 1..Len(e)
          BY <1>6, <4>3
        <5>3. QED
          BY <1>6, <4>3, <5>1, <5>2
      <4>4. QED
        BY <4>1, <4>2, <4>3
    <3>3. Chain(e, r.id, odds, Tail(q))
      <4>1. \A i \in 1..Len(Tail(q)) - 1 : Follows(e, Tail(q)[i], Tail(q)[i + 1])
        <5>1. SUFFICES ASSUME NEW i \in 1..Len(Tail(q)) - 1
                       PROVE  Follows(e, Tail(q)[i], Tail(q)[i + 1])
          OBVIOUS
        <5>2. i \in 1..Len(q) - 1 /\ i + 1 \in 1..Len(q) - 1
          BY <1>7
        <5>3. Tail(q)[i] = q[i + 1] /\ Tail(q)[i + 1] = q[(i + 1) + 1]
          BY <1>7, <5>2
        <5>4. QED
          BY <1>3, <5>2, <5>3 DEF Chain
      <4>2. \A i \in 1..Len(Tail(q)) :
               Tail(q)[i].id = r.id /\ (Tail(q)[i].v = "odd" => Tail(q)[i].f \in odds)
        <5>1. SUFFICES ASSUME NEW i \in 1..Len(Tail(q))
                       PROVE  Tail(q)[i].id = r.id /\ (Tail(q)[i].v = "odd" => Tail(q)[i].f \in odds)
          OBVIOUS
        <5>2. i + 1 \in 1..Len(q) /\ Tail(q)[i] = q[i + 1]
          BY <1>7
        <5>3. QED
          BY <1>3, <5>2 DEF Chain
      <4>3. QED
        BY <1>7, <3>1, <4>1, <4>2 DEF Chain
    <3>4. Tail(q)[Len(Tail(q))] = q[Len(q)]
      <4>1. Len(q) - 1 \in 1..Len(q) - 1 /\ (Len(q) - 1) + 1 = Len(q)
        BY <1>7, <2>2
      <4>2. QED
        BY <1>7, <4>1
    <3>5. c.up => Ends(e, Tail(q)[Len(Tail(q))])
      BY <1>3, <3>4
    <3>6. Waits(d, x, a)
      <4>1. RowOf(x) = RowOf(r) /\ x.id = r.id /\ x.sent = r.sent
        BY <1>5, <3>2
      <4>2. x.level <= Len(e) /\ x.next <= Len(e[x.level])
        BY <1>6, <3>2
      <4>3. d.toClient[1].f = e[x.level][x.next]
        BY <1>8, <3>1, <3>2
      <4>4. d.up => Ends(e, d.toClient[Len(d.toClient)])
        BY <1>8, <3>5
      <4>5. Chain(e, x.id, odds, d.toClient)
        BY <1>8, <3>3, <4>1
      <4>6. d.toServer = <<>> /\ d.worker.at # "dispatch"
        BY <1>3
      <4>7. x.sent = Len(RowOf(x).fields) /\ (Server[cmd].mutates => a[x.id] = "whole")
        BY <1>3, <4>1
      <4>8. QED
        BY <3>2, <4>1, <4>2, <4>3, <4>4, <4>5, <4>6, <4>7, Zenon DEF Waits, e, odds, cmd
    <3>7. QED
      BY <1>8, <3>1, <3>6 DEF Answered
  <2>3. QED
    BY <1>7, <2>1, <2>2
<1>13. QED
  BY <1>10, <1>11, <1>12 DEF Attached

\* What the client takes next is what it waits for.
LEMMA Expected ==
  ASSUME WireInv, LongestName = Upto4K, req # Idle, open, conns[cur].toClient # <<>>
  PROVE  /\ req \in Reqs /\ Row = RowOf(req) /\ conns[cur] \in ConnStates /\ cur \in Connections
         /\ Waits(conns[cur], req, acted)
         /\ Head(conns[cur].toClient) = conns[cur].toClient[1]
         /\ Tail(conns[cur].toClient) \in Seq(Answers)
         /\ conns[cur].toClient[1].id = req.id
         /\ conns[cur].toClient[1].f = Row.expects[req.level][req.next]
         /\ conns[cur].toClient[1].v = "odd" => conns[cur].toClient[1].f \in Row.checks
PROOF
<1>. DEFINE q == conns[cur].toClient
<1>1. /\ req \in Reqs /\ Row = RowOf(req) /\ conns[cur] \in ConnStates /\ cur \in Connections
      /\ Waits(conns[cur], req, acted)
  BY DEF WireInv, Typed, Row, RowOf, Attached, Answered
<1>2. /\ q[1].f = RowOf(req).expects[req.level][req.next]
      /\ Chain(RowOf(req).expects, req.id, RowOf(req).checks, q)
  BY <1>1, Zenon DEF Waits
<1>3. /\ q \in Seq(Answers) /\ q # <<>> /\ Head(q) = q[1] /\ Tail(q) \in Seq(Answers)
      /\ 1 \in 1..Len(q)
  BY <1>2, Shorter DEF Chain
<1>4. q[1].id = req.id /\ (q[1].v = "odd" => q[1].f \in RowOf(req).checks)
  BY <1>2, <1>3, Zenon DEF Chain
<1>5. QED
  BY <1>1, <1>2, <1>3, <1>4, Zenon

\* The client receives a field, or refuses one that is out of bounds.
LEMMA ReceiveStep ==
  ASSUME WireInv, LongestName = Upto4K, Receive
  PROVE  WireInv'
PROOF
<1>. DEFINE c == conns[cur]
            d == conns'[cur]
            t == Head(c.toClient)
            e == Row.expects
            more == t.v # "none" /\ req.level < Len(e)
<1>1. req # Idle /\ open /\ c.toClient # <<>> /\ UNCHANGED <<cur, made, acted>>
  BY DEF Receive, Active
<1>2. /\ req \in Reqs /\ Row = RowOf(req) /\ c \in ConnStates /\ cur \in Connections
      /\ Waits(c, req, acted) /\ t = c.toClient[1] /\ Tail(c.toClient) \in Seq(Answers)
      /\ t.id = req.id /\ t.f = e[req.level][req.next] /\ (t.v = "odd" => t.f \in Row.checks)
  BY <1>1, Expected, Zenon
<1>3. ~mixed'
  BY <1>2 DEF Receive
<1>4. CASE rejectMalformedResponse
  BY <1>1, <1>3, <1>4, FailStep DEF rejectMalformedResponse
<1>5. CASE /\ ~(t.v = "odd" /\ t.f \in Row.checks)
           /\ conns' = [conns EXCEPT ![cur].toClient = Tail(@)]
           /\ UNCHANGED open
           /\ \/ /\ req.next < Len(e[req.level])
                 /\ req' = [req EXCEPT !.next = @ + 1]
                 /\ UNCHANGED outcome
              \/ /\ req.next = Len(e[req.level]) /\ more
                 /\ req' = [req EXCEPT !.level = @ + 1, !.next = 1]
                 /\ UNCHANGED outcome
              \/ /\ req.next = Len(e[req.level]) /\ ~more
                 /\ Finish("done")
  <2>1. /\ Typed /\ made \in Nat /\ made \in Requests /\ req.id = made /\ Placed(req)
        /\ outcome[made] = "active" /\ conns \in [Connections -> ConnStates]
        /\ Sound(c, made, Unstarted) /\ Len(e) \in Nat
    <3>1. /\ Typed /\ req.id = made /\ Placed(req) /\ outcome[made] = "active"
          /\ conns \in [Connections -> ConnStates] /\ Sound(c, made, Unstarted)
      BY <1>1, <1>2 DEF WireInv, Typed, Current, Active
    <3>2. made \in Nat /\ made \in Requests
      BY <1>2, <3>1, BoundsAssumption DEF Typed, Requests, Reqs
    <3>3. Len(e) \in 0..3
      BY <1>2, Called, Levels DEF RowOf, Reqs
    <3>4. QED
      BY <3>1, <3>2, <3>3
  <2>2. /\ req.id \in Nat /\ req.level \in Nat /\ req.level >= 1 /\ req.next \in Nat /\ req.next >= 1
        /\ req.call \in DOMAIN Client /\ req.sent \in Nat
    BY <1>2 DEF Reqs
  <2>3. /\ req.sent = Len(RowOf(req).fields) /\ req.level <= Len(e)
    BY <1>2, Zenon DEF Waits
  <2>4. d = [c EXCEPT !.toClient = Tail(c.toClient)] /\ conns' = [conns EXCEPT ![cur] = d]
    BY <1>2, <1>5, <2>1
  <2>5. /\ d \in ConnStates /\ d.up = c.up /\ d.toServer = c.toServer /\ d.worker = c.worker
        /\ d.toClient = Tail(c.toClient)
    BY <1>2, <2>4 DEF ConnStates
  <2>6. t.v # "odd"
    BY <1>2, <1>5
  <2>7. req' # Idle => /\ req' \in Reqs /\ req'.id = req.id /\ req'.call = req.call
                       /\ req'.sent = req.sent /\ req'.n = req.n /\ outcome' = outcome
    <3>1. \A p \in Nat \ {0}, o \in Nat \ {0} :
             LET y == [req EXCEPT !.level = p, !.next = o]
             IN  /\ y \in Reqs /\ y.id = req.id /\ y.call = req.call /\ y.sent = req.sent
                 /\ y.n = req.n
      BY <1>2 DEF Reqs
    <3>2. CASE req' = [req EXCEPT !.next = @ + 1] /\ UNCHANGED outcome
      <4>1. req' = [req EXCEPT !.level = req.level, !.next = req.next + 1]
        BY <1>2, <3>2 DEF Reqs
      <4>2. req.next + 1 \in Nat \ {0} /\ req.level \in Nat \ {0}
        BY <2>2
      <4>3. QED
        BY <3>1, <3>2, <4>1, <4>2
    <3>3. CASE req' = [req EXCEPT !.level = @ + 1, !.next = 1] /\ UNCHANGED outcome
      <4>1. req.level + 1 \in Nat \ {0} /\ 1 \in Nat \ {0}
        BY <2>2
      <4>2. QED
        BY <3>1, <3>3, <4>1
    <3>4. CASE req' = Idle
      BY <3>4
    <3>5. QED
      BY <1>5, <3>2, <3>3, <3>4 DEF Finish
  <2>8. \/ /\ req.next < Len(e[req.level])
           /\ req' # Idle /\ req'.level = req.level /\ req'.next = req.next + 1
        \/ /\ req.next = Len(e[req.level]) /\ more
           /\ req' # Idle /\ req'.level = req.level + 1 /\ req'.next = 1
        \/ /\ req.next = Len(e[req.level]) /\ ~more
           /\ req' = Idle /\ outcome' = [outcome EXCEPT ![req.id] = "done"]
    BY <1>2, <1>5, <2>2 DEF Reqs, Finish, Idle
  <2>. HIDE DEF c, d, t, e, more
  <2>9. Attached(d, req', acted)
    <3>1. req' \in {Idle} \cup Reqs
      BY <2>7
    <3>2. e = RowOf(req).expects /\ (more <=> c.toClient[1].v # "none" /\ req.level < Len(e))
      BY <1>2 DEF e, more
    <3>3. c.toClient # <<>> /\ c.toClient[1].v # "odd"
      BY <1>1, <1>2, <2>6
    <3>4. QED
      BY <1>2, <2>5, <2>7, <2>8, <3>1, <3>2, <3>3, GetsKeeps
  <2>10. Placed(req')
    <3>1. SUFFICES ASSUME req' # Idle PROVE Placed(req')
      BY DEF Placed
    <3>2. RowOf(req') = RowOf(req) /\ req'.sent = req.sent /\ req'.n = req.n
      BY <2>7, <3>1 DEF RowOf
    <3>3. req'.level <= Len(e)
      BY <2>1, <2>2, <2>3, <2>8, <3>1 DEF more
    <3>4. QED
      BY <1>1, <1>2, <2>1, <2>3, <3>2, <3>3 DEF Placed, e
  <2>11. /\ outcome' \in [Requests -> {"none", "active", "done", "failed", "unknown", "notStarted"}]
         /\ \A s \in Requests : s # req.id => outcome'[s] = outcome[s]
         /\ req' = Idle => outcome'[req.id] = "done"
    BY <2>1, <2>7, <2>8 DEF Typed
  <2>12. Unstarted' \subseteq Unstarted
    <3>1. CASE req' = Idle
      BY <2>11, <3>1 DEF Unstarted, Active
    <3>2. CASE req' # Idle
      <4>1. Row' = Row
        BY <2>7, <3>2 DEF Row
      <4>2. QED
        BY <1>1, <2>7, <3>2, <4>1 DEF Unstarted, Active
    <3>3. QED
      BY <3>1, <3>2
  <2>13. Sound(d, made, Unstarted')
    <3>1. Sound(d, made, Unstarted)
      BY <2>1, <2>5 DEF Sound, Streamed, Collected, Tame
    <3>2. QED
      BY <2>1, <2>5, <2>12, <3>1, SoundKeeps
  <2>14. open' /\ open' \in BOOLEAN
    BY <1>1, <1>5 DEF WireInv, Typed
  <2>15. req' \in {Idle} \cup Reqs
    BY <2>7
  <2>16. QED
    BY <1>1, <1>3, <2>4, <2>5, <2>7, <2>9, <2>10, <2>11, <2>12, <2>13, <2>14, <2>15, ClientMoves
<1>6. QED
  BY <1>2, <1>4, <1>5 DEF Receive

\* After a failure the client goes on with a new connection.
LEMMA ReconnectStep ==
  ASSUME WireInv, LongestName = Upto4K, Reconnect
  PROVE  WireInv'
PROOF
<1>. DEFINE n == cur + 1
            d == conns'[n]
<1>1. /\ ~open /\ req = Idle /\ cur < MaxConn /\ cur' = n /\ open' = TRUE
      /\ UNCHANGED <<req, made, outcome, acted, mixed>>
  BY DEF Reconnect, Active
<1>2. /\ Typed /\ Current /\ conns \in [Connections -> ConnStates] /\ cur \in Nat
      /\ n \in Connections /\ n > cur /\ \A k \in Connections : k \in Nat
  BY <1>1, BoundsAssumption DEF WireInv, Typed, Connections
<1>3. conns[n] = Fresh
  BY <1>2 DEF Current
<1>4. /\ conns' \in [Connections -> ConnStates] /\ d = [Fresh EXCEPT !.up = TRUE]
      /\ \A k \in Connections : k # n => conns'[k] = conns[k]
  <2>1. Fresh \in ConnStates
    BY <1>2, <1>3
  <2>2. [Fresh EXCEPT !.up = TRUE] \in ConnStates
    BY <2>1 DEF ConnStates
  <2>3. conns' = [conns EXCEPT ![n] = [Fresh EXCEPT !.up = TRUE]]
    BY <1>2, <1>3 DEF Reconnect
  <2>4. QED
    BY <1>2, <2>2, <2>3
<1>5. d.toServer = <<>> /\ d.toClient = <<>> /\ d.worker.at = "loop"
  BY <1>4 DEF Fresh, Looping
<1>6. Typed'
  BY <1>1, <1>2, <1>4 DEF Typed
<1>7. Current'
  <2>1. \A k \in Connections : k > n => conns'[k] = Fresh
    BY <1>2, <1>4 DEF Current
  <2>2. QED
    BY <1>1, <1>2, <2>1 DEF Current, Active
<1>8. Unstarted' = Unstarted
  BY <1>1 DEF Unstarted, Active, Row
<1>. HIDE DEF n, d
<1>9. Sound(d, made, Unstarted) /\ Attached(d, Idle, acted)
  <2>1. Len(<<>>) = 0
    OBVIOUS
  <2>2. Sound(d, made, Unstarted)
    BY <1>5, <2>1 DEF Sound, Streamed, Collected, Tame
  <2>3. Attached(d, Idle, acted)
    BY <1>5, <2>1 DEF Attached, Continues, Sending, Within, Owned, Answered
  <2>4. QED
    BY <2>2, <2>3
<1>10. \A k \in Connections : Sound(conns'[k], made, Unstarted)
  BY <1>4, <1>9 DEF WireInv, d
<1>11. \A k \in Connections : Detached(conns'[k], Idle)
  BY DEF Detached
<1>12. QED
  BY <1>1, <1>6, <1>7, <1>8, <1>9, <1>10, <1>11 DEF WireInv, InSync, d

-----------------------------------------------------------------------------
(* The theorems of the wire.                                                *)

\* Every step keeps the invariant.
LEMMA NextWire ==
  ASSUME WireInv, LongestName = Upto4K, [Next]_vars
  PROVE  WireInv'
PROOF
<1>1. ASSUME NEW call \in Calls, NEW n \in 0..Upto256M, execute(call, n) PROVE WireInv'
  BY <1>1, ExecuteStep
<1>2. CASE Send
  BY <1>2, SendStep
<1>3. CASE Receive
  BY <1>3, ReceiveStep
<1>4. CASE IoFailure
  BY <1>4, IoFailureStep
<1>5. CASE Reconnect
  BY <1>5, ReconnectStep
<1>6. ASSUME NEW k \in Connections, WorkerThread(k) PROVE WireInv'
  BY <1>6, WorkerThreadStep
<1>7. ASSUME NEW k \in Connections, WorkerReceives(k) PROVE WireInv'
  BY <1>7, WorkerReceivesStep
<1>8. ASSUME NEW k \in Connections, WorkerMisses(k) PROVE WireInv'
  BY <1>8, WorkerMissesStep
<1>9. ASSUME NEW k \in Connections, WorkerAnswers(k) PROVE WireInv'
  BY <1>9, WorkerAnswersStep
<1>10. ASSUME NEW k \in Connections, WorkerStops(k) PROVE WireInv'
  BY <1>10, WorkerStopsStep
<1>11. ASSUME NEW k \in Connections, Cut(k) PROVE WireInv'
  BY <1>11, CutStep
<1>12. CASE UNCHANGED vars
  <2>1. UNCHANGED <<conns, cur, open, req, made, outcome, acted, mixed>>
    BY <1>12 DEF vars
  <2>2. Typed' /\ Current' /\ Unstarted' = Unstarted /\ InSync'
    BY <2>1 DEF WireInv, Typed, Current, Unstarted, Active, Row, InSync
  <2>3. QED
    BY <2>1, <2>2 DEF WireInv
<1>13. QED
  BY <1>1, <1>2, <1>3, <1>4, <1>5, <1>6, <1>7, <1>8, <1>9, <1>10, <1>11, <1>12 DEF Next

\* The invariant holds of every execution in which the server takes names as
\* long as the client sends them.
THEOREM WireInvariance == ASSUME LongestName = Upto4K PROVE Spec => []WireInv
PROOF
<1>1. WireInv /\ [Next]_vars => WireInv'
  BY NextWire
<1>2. QED
  BY <1>1, InitWire, PTL DEF Spec

\* The state stays typed, and a request is never past its fields or its answer:
\* what Send and Receive index with is there.
THEOREM WireTyped == ASSUME LongestName = Upto4K PROVE Spec => []TypeOK
PROOF
<1>1. WireInv => TypeOK
  <2>1. SUFFICES ASSUME WireInv PROVE TypeOK
    OBVIOUS
  <2>2. Typed /\ Current /\ mixed = FALSE
    BY <2>1 DEF WireInv, InSync, TypeOK
  <2>3. ASSUME NEW k \in Connections
        PROVE  /\ conns[k].up \in BOOLEAN
               /\ conns[k].worker.at \in {"loop", "dispatch", "stopped"}
               /\ conns[k].up => conns[k].worker.at # "stopped"
    <3>1. conns[k] \in ConnStates
      BY <2>2 DEF Typed
    <3>2. conns[k].worker.at = "stopped" => ~conns[k].up
      BY <2>1 DEF WireInv, Sound, Streamed
    <3>3. QED
      BY <3>1, <3>2, ConnParts
  <2>4. ASSUME Active
        PROVE  /\ req.id = made /\ req.sent \in 0..Len(Row.fields)
               /\ req.level \in 1..Len(Row.expects) \union {1}
    <3>1. req \in Reqs /\ req.id = made /\ Row = RowOf(req) /\ Placed(req)
      BY <2>2, <2>4 DEF Typed, Current, Active, Row, RowOf
    <3>2. req.call \in DOMAIN Client /\ req.sent \in Nat /\ req.level \in Nat /\ req.level >= 1
      BY <3>1 DEF Reqs
    <3>3. Len(Row.fields) \in Nat
      BY <3>1, <3>2, Called, Requested DEF RowOf
    <3>4. Len(Row.expects) \in 0..3
      BY <3>1, <3>2, Called, Levels DEF RowOf
    <3>5. QED
      BY <2>4, <3>1, <3>2, <3>3, <3>4 DEF Placed, Active
  <2>5. QED
    BY <2>2, <2>3, <2>4 DEF TypeOK, Typed
<1>2. QED
  BY <1>1, WireInvariance, PTL

\* DispatchCommand_V2 and the client's functions stay in step: no side takes a
\* field for something it is not, whatever fails, however late a worker is.
THEOREM StaysInSync == ASSUME LongestName = Upto4K PROVE Spec => []InSync
PROOF
<1>1. WireInv => InSync
  BY DEF WireInv
<1>2. QED
  BY <1>1, WireInvariance, PTL

\* A request reported as not started (requestStarted still false) has not been
\* acted on, and no worker acts on it later.
THEOREM NotStartedIsSafe == ASSUME LongestName = Upto4K PROVE Spec => []NotStartedNeverActs
PROOF
<1>1. WireInv => NotStartedNeverActs
  BY DEF WireInv, Unstarted, NotStartedNeverActs
<1>2. QED
  BY <1>1, WireInvariance, PTL

\* A mutation reported as done was carried out with all the fields sent.
THEOREM AnsweredIsDone == ASSUME LongestName = Upto4K PROVE Spec => AnsweredIsWhole
PROOF
<1>1. ASSUME WireInv, [Next]_vars
      PROVE  [\A r \in Requests :
                (outcome[r] = "active" /\ outcome'[r] = "done"
                   /\ Server[Row.cmd].mutates /\ Row.expects # <<>>)
                => acted[r] = "whole"]_vars
  <2>1. SUFFICES ASSUME NEW r \in Requests, outcome[r] = "active", outcome'[r] = "done",
                        Server[Row.cmd].mutates, Row.expects # <<>>
                 PROVE  acted[r] = "whole"
    OBVIOUS
  <2>2. Typed
    BY <1>1 DEF WireInv
  <2>3. ASSUME NEW s, outcome' = [outcome EXCEPT ![s] = "done"] PROVE r = s
    BY <2>1, <2>2, <2>3 DEF Typed
  <2>4. ASSUME NEW s, NEW v, v # "done" PROVE outcome' # [outcome EXCEPT ![s] = v]
    BY <2>1, <2>2, <2>4 DEF Typed
  <2>5. outcome' # outcome
    BY <2>1
  <2>6. CASE Send
    BY <2>1, <2>5, <2>6 DEF Send, Finish
  <2>7. CASE Receive
    <3>1. req # Idle /\ open /\ conns[cur].toClient # <<>>
      BY <2>7 DEF Receive, Active
    <3>2. Finish("done") \/ Finish(Reported)
      BY <2>5, <2>7 DEF Receive, rejectMalformedResponse
    <3>3. Reported # "done"
      BY DEF Reported
    <3>4. r = req.id
      BY <2>3, <2>4, <3>2, <3>3 DEF Finish
    <3>5. Waits(conns[cur], req, acted) /\ Row = RowOf(req)
      BY <1>1, <3>1, Expected
    <3>6. Server[RowOf(req).cmd].mutates => acted[req.id] = "whole"
      BY <3>5, Zenon DEF Waits
    <3>7. QED
      BY <2>1, <3>4, <3>5, <3>6
  <2>8. CASE IoFailure
    <3>1. Reported # "done"
      BY DEF Reported
    <3>2. QED
      BY <2>4, <2>8, <3>1 DEF IoFailure, Finish
  <2>9. CASE \E call \in Calls, n \in 0..Upto256M : execute(call, n)
    BY <2>4, <2>9 DEF execute
  <2>10. CASE Reconnect
    BY <2>5, <2>10 DEF Reconnect
  <2>11. ASSUME NEW k \in Connections,
                \/ WorkerThread(k) \/ WorkerReceives(k) \/ WorkerMisses(k)
                \/ WorkerAnswers(k) \/ WorkerStops(k) \/ Cut(k)
         PROVE  FALSE
    BY <2>5, <2>11, Zenon
    DEF WorkerThread, WorkerReceives, WorkerMisses, WorkerAnswers, WorkerStops, Cut
  <2>12. CASE UNCHANGED vars
    BY <2>5, <2>12 DEF vars
  <2>13. QED
    BY <1>1, <2>6, <2>7, <2>8, <2>9, <2>10, <2>11, <2>12 DEF Next
<1>2. QED
  BY <1>1, WireInvariance, PTL DEF Spec, AnsweredIsWhole

-----------------------------------------------------------------------------
(***************************************************************************)
(* The engine's table of connections, for any finite number of clients and *)
(* any MAX_CONNECTIONS.                                                    *)
(***************************************************************************)
ThreadStates == {"none", "loop", "receive", "request", "acting", "answer", "leaving", "ended"}

TableTyped ==
    /\ running \in BOOLEAN
    /\ looper \in {"poll", "drain", "shutdown", "stopped"}
    /\ joining \subseteq Conns /\ arrived \subseteq Conns /\ backlog \subseteq Conns
    /\ connections \subseteq Conns /\ cleanup \subseteq Conns
    /\ sockets \subseteq Conns /\ peers \subseteq Conns /\ info \subseteq Conns
    /\ worker \in [Conns -> ThreadStates]
    /\ \A c, d \in joining : c = d

\* A connection gets its thread once, when it leaves the backlog.
BornOnce ==
    \A c \in Conns :
        /\ c \in backlog => worker[c] = "none" /\ c \in arrived
        /\ worker[c] # "none" => c \in arrived

\* Only the id of an ended thread is in the cleanup queue.
QueuedHasEnded == \A c \in cleanup : worker[c] = "ended"

\* The table owns the ConnectionInfo of its entries; besides them only the one
\* whose thread is being joined still exists.
TableOwns ==
    /\ connections \subseteq info
    /\ info \subseteq connections \cup joining
    /\ connections \cap joining = {}
    /\ \A c \in connections \cup joining : worker[c] # "none"

WithinLimit == Cardinality(connections) <= MAX_CONNECTIONS

ManagerInv ==
    /\ TableTyped
    /\ BornOnce
    /\ QueuedHasEnded
    /\ TableOwns
    /\ InfoOutlivesWorker

-----------------------------------------------------------------------------
\* Before main() has accepted anybody the table and the queue are empty.
LEMMA InitManager == ManagerInit => ManagerInv /\ WithinLimit
PROOF
<1>1. ManagerInit => ManagerInv
  BY DEF ManagerInit, ManagerInv, TableTyped, ThreadStates, BornOnce, QueuedHasEnded, TableOwns,
     InfoOutlivesWorker
<1>2. ManagerInit => WithinLimit
  BY FS_EmptySet, ConnectionManagerAssumption DEF ManagerInit, WithinLimit
<1>3. QED
  BY <1>1, <1>2

\* What the clients and the signal handler do leaves the table alone.
LEMMA PeerStep ==
  ASSUME ManagerInv, NEW c \in Conns, Connect(c) \/ Disconnect(c) \/ Signal
  PROVE  ManagerInv'
PROOF
<1>. USE DEF ManagerInv, TableTyped, ThreadStates, BornOnce, QueuedHasEnded, TableOwns,
     InfoOutlivesWorker
<1>1. CASE Connect(c)
  BY <1>1 DEF Connect
<1>2. CASE Disconnect(c)
  BY <1>2 DEF Disconnect
<1>3. CASE Signal
  BY <1>3 DEF Signal
<1>4. QED
  BY <1>1, <1>2, <1>3

\* A thread changes its own state and, as the last thing it does, pushes its id.
LEMMA ThreadStep ==
  ASSUME ManagerInv, NEW c \in Conns, Thread(c) \/ WorkerDispatches(c) \/ ClientServes(c)
  PROVE  ManagerInv'
PROOF
<1>. USE DEF ManagerInv, TableTyped, ThreadStates, BornOnce, QueuedHasEnded, TableOwns,
     InfoOutlivesWorker
<1>1. CASE WorkerDispatches(c)
  BY <1>1 DEF WorkerDispatches
<1>2. CASE WorkerReturns(c)
  BY <1>2 DEF WorkerReturns
<1>3. CASE WorkerLeaves(c)
  BY <1>3 DEF WorkerLeaves
<1>4. CASE WorkerEnds(c)
  BY <1>4 DEF WorkerEnds
<1>5. CASE WorkerLoops(c)
  BY <1>5 DEF WorkerLoops
<1>6. CASE ClientServes(c)
  BY <1>6 DEF ClientServes
<1>7. QED
  BY <1>1, <1>2, <1>3, <1>4, <1>5, <1>6 DEF Thread

\* The main thread adds a connection with its thread, and destroys one only
\* after the join.
LEMMA MainStep ==
  ASSUME ManagerInv, Main
  PROVE  ManagerInv'
PROOF
<1>. USE DEF ManagerInv, TableTyped, ThreadStates, BornOnce, QueuedHasEnded, TableOwns,
     InfoOutlivesWorker
<1>1. CASE PollReturns
  BY <1>1 DEF PollReturns
<1>2. CASE Drained
  BY <1>2 DEF Drained
<1>3. CASE Stop
  BY <1>3 DEF Stop
<1>4. ASSUME NEW c \in Conns, Accept(c)
      PROVE  ManagerInv'
  <2>1. CASE Cardinality(connections) >= MAX_CONNECTIONS
    BY <1>4, <2>1 DEF Accept, Register
  <2>2. CASE ~(Cardinality(connections) >= MAX_CONNECTIONS)
    BY <1>4, <2>2 DEF Accept, Register
  <2>3. QED
    BY <2>1, <2>2
<1>5. ASSUME NEW c \in Conns, Drain(c)
      PROVE  ManagerInv'
  BY <1>5 DEF Drain, RemoveConnection
<1>6. ASSUME NEW c \in Conns, Join(c)
      PROVE  ManagerInv'
  BY <1>6 DEF Join, JoinReturns
<1>7. ASSUME NEW c \in Conns, ShutdownAll(c)
      PROVE  ManagerInv'
  BY <1>7 DEF ShutdownAll, RemoveConnection
<1>8. QED
  BY <1>1, <1>2, <1>3, <1>4, <1>5, <1>6, <1>7 DEF Main

\* Every step keeps the invariant.
LEMMA NextManager ==
  ASSUME ManagerInv, [ManagerNext]_managerVars
  PROVE  ManagerInv'
PROOF
<1>1. CASE UNCHANGED managerVars
  BY <1>1 DEF managerVars, ManagerInv, TableTyped, BornOnce, QueuedHasEnded, TableOwns,
     InfoOutlivesWorker
<1>2. CASE Main
  BY <1>2, MainStep
<1>3. CASE Signal
  <2>1. CASE Conns = {}
    BY <1>3, <2>1 DEF Signal, ManagerInv, TableTyped, BornOnce, QueuedHasEnded, TableOwns,
     InfoOutlivesWorker
  <2>2. CASE Conns # {}
    BY <1>3, <2>2, PeerStep
  <2>3. QED
    BY <2>1, <2>2
<1>4. ASSUME NEW c \in Conns, \/ Thread(c) \/ WorkerDispatches(c) \/ ClientServes(c)
                              \/ Connect(c) \/ Disconnect(c)
      PROVE  ManagerInv'
  BY <1>4, ThreadStep, PeerStep
<1>5. CASE PollFails
  BY <1>5 DEF PollFails, ManagerInv, TableTyped, BornOnce, QueuedHasEnded, TableOwns,
     InfoOutlivesWorker
<1>6. QED
  BY <1>1, <1>2, <1>3, <1>4, <1>5 DEF ManagerNext

\* Register adds an entry only below the limit; nothing else adds one.
LEMMA NextLimit ==
  ASSUME TableTyped, WithinLimit, [ManagerNext]_managerVars
  PROVE  WithinLimit'
PROOF
<1>. USE ConnectionManagerAssumption
<1>1. IsFiniteSet(connections) /\ Cardinality(connections) \in Nat
  BY FS_Subset, FS_CardinalityType DEF TableTyped
<1>2. CASE connections' \subseteq connections
  <2>1. Cardinality(connections') <= Cardinality(connections) /\ Cardinality(connections') \in Nat
    BY <1>1, <1>2, FS_Subset, FS_CardinalityType
  <2>2. QED
    BY <1>1, <2>1 DEF WithinLimit
<1>3. ASSUME NEW c \in Conns, Accept(c), ~(connections' \subseteq connections)
      PROVE  WithinLimit'
  <2>1. /\ connections' = connections \cup {c}
        /\ Cardinality(connections) < MAX_CONNECTIONS
    BY <1>1, <1>3 DEF Accept, Register
  <2>2. \/ Cardinality(connections \cup {c}) = Cardinality(connections)
        \/ Cardinality(connections \cup {c}) = Cardinality(connections) + 1
    BY <1>1, FS_AddElement
  <2>3. QED
    BY <1>1, <2>1, <2>2 DEF WithinLimit
<1>4. QED
  BY <1>2, <1>3 DEF ManagerNext, Main, Thread, managerVars, Accept, PollReturns, Drained, Stop, Drain, Join,
     ShutdownAll, RemoveConnection, Signal, WorkerLoops, WorkerReturns, WorkerLeaves, WorkerEnds,
     WorkerDispatches, ClientServes, PollFails, Connect, Disconnect

\* The invariant holds in every reachable state.
THEOREM ManagerInvariance == ManagerSpec => [](ManagerInv /\ WithinLimit)
PROOF
<1>1. ManagerInv => TableTyped
  BY DEF ManagerInv
<1>2. QED
  BY <1>1, InitManager, NextManager, NextLimit, PTL DEF ManagerSpec

\* Every variable of the connection manager stays in its domain and the main
\* thread joins at most one thread at a time.
THEOREM ManagerTypeCorrect == ManagerSpec => []ManagerTypeOK
PROOF
<1>1. TableTyped => ManagerTypeOK
  <2>1. SUFFICES ASSUME TableTyped PROVE Cardinality(joining) <= 1
    BY DEF TableTyped, ManagerTypeOK, ThreadStates
  <2>2. CASE joining = {}
    BY <2>2, FS_EmptySet
  <2>3. CASE \E c \in joining : joining = {c}
    <3>1. PICK c \in joining : joining = {c}
      BY <2>3
    <3>2. Cardinality({c}) = 1
      BY FS_Singleton, Zenon
    <3>3. QED
      BY <3>1, <3>2
  <2>4. QED
    BY <2>1, <2>2, <2>3 DEF TableTyped
<1>2. QED
  BY <1>1, ManagerInvariance, PTL DEF ManagerInv

\* ~ConnectionInfo, which deletes the socket, never runs under a thread that
\* still uses it, whatever order clients close, signals arrive and the main
\* thread drains its queue in.
THEOREM InfoOutlives == ManagerSpec => []InfoOutlivesWorker
PROOF
<1>1. ManagerInv => InfoOutlivesWorker
  BY DEF ManagerInv
<1>2. QED
  BY <1>1, ManagerInvariance, PTL

\* The number of threads and sockets of the engine is bounded by MAX_CONNECTIONS
\* and the one being joined, however many clients come and go.
THEOREM BoundedThreads == ManagerSpec => []ThreadsBounded
PROOF
<1>1. ManagerInv /\ WithinLimit => ThreadsBounded
  <2>1. SUFFICES ASSUME ManagerInv, WithinLimit PROVE ThreadsBounded
    OBVIOUS
  <2>2. IsFiniteSet(connections) /\ IsFiniteSet(joining)
    BY <2>1, FS_Subset, ConnectionManagerAssumption DEF ManagerInv, TableTyped
  <2>3. /\ IsFiniteSet(connections \cup joining)
        /\ Cardinality(connections \cup joining) = Cardinality(connections) + Cardinality(joining)
    <3>1. connections \cap joining = {}
      BY <2>1 DEF ManagerInv, TableOwns
    <3>2. /\ IsFiniteSet(connections \cup joining)
          /\ Cardinality(connections \cup joining)
                = Cardinality(connections) + Cardinality(joining)
                    - Cardinality(connections \cap joining)
      BY <2>2, FS_Union
    <3>3. Cardinality(connections) \in Nat /\ Cardinality(joining) \in Nat
      BY <2>2, FS_CardinalityType
    <3>4. QED
      BY <3>1, <3>2, <3>3, FS_EmptySet
  <2>4. Cardinality(info) <= Cardinality(connections \cup joining) /\ Cardinality(info) \in Nat
    BY <2>1, <2>3, FS_Subset, FS_CardinalityType DEF ManagerInv, TableOwns
  <2>5. QED
    BY <2>1, <2>2, <2>3, <2>4, FS_CardinalityType, ConnectionManagerAssumption
    DEF WithinLimit, ThreadsBounded
<1>2. QED
  BY <1>1, ManagerInvariance, PTL
=============================================================================
