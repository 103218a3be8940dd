---------------------------- MODULE WireProtocol ----------------------------
(***************************************************************************)
(* The unframed request/response protocol between the desktop client       *)
(* (src/gui/socket/*Commands.cpp) and the Android engine                   *)
(* (src/engine/ceserver/CEServer.cpp).  Nothing on the wire marks where a  *)
(* message begins: client function and server handler agree only because   *)
(* each was written to send and to receive the same fields in the same     *)
(* order.  Both sides are therefore written down SEPARATELY, as tables     *)
(* (one row per client function, one row per server handler), and the      *)
(* state machine below runs one against the other over two byte streams    *)
(* that may be cut at any point.                                           *)
(*                                                                         *)
(* A stream is a sequence of field tokens, each tagged with the request it *)
(* belongs to (a ghost tag neither side can read).  A size is a class:     *)
(* 0 = empty, 1 = up to 4096, 2 = up to 64 KiB, 3 = up to 100 000,         *)
(* 4 = up to 10 M, 5 = up to 256 MiB.                                      *)
(***************************************************************************)
EXTENDS Naturals, Sequences, SequencesExt

CONSTANTS
    Calls,          \* the client functions the run exercises
    Later,          \* bound: those called after the first request
    LongestName,    \* size class of the longest symbol name a caller passes
    MaxRequests,    \* bound: requests made in a behaviour
    MaxConn         \* bound: connections established in a behaviour

ASSUME BoundsAssumption ==
    /\ LongestName \in 1..2
    /\ Later \subseteq Calls
    /\ MaxRequests \in Nat \ {0}
    /\ MaxConn \in Nat \ {0}

Upto4K == 1
Upto64K == 2
Upto100K == 3
Upto10M == 4
Upto256M == 5
Untracked == 99     \* the client function does not report requestStarted

(***************************************************************************)
(* Client rows.  fields: what the function sends, in order; started: after *)
(* how many sent fields requestStarted is set (0 = before the first); max: *)
(* the largest payload the function lets through; expects: what it then    *)
(* receives, level by level (a level is read only when the level before    *)
(* announced a positive count or length); checks: the received fields it   *)
(* validates, poisoning the connection on a bad one.                       *)
(***************************************************************************)
Sends(cmd, fields, started, max, expects, checks) ==
    [cmd |-> cmd, fields |-> <<"cmd">> \o fields, started |-> started,
     max |-> max, expects |-> expects, checks |-> checks]

FetchServerVersion ==
    Sends("GETVERSION", <<>>, Untracked, 0,
          << <<"version">>, <<"string">> >>, {})
GetMemType ==
    Sends("GETMEMTYPE", <<>>, Untracked, 0, << <<"type">> >>, {"type"})
CloseServer ==
    Sends("TERMINATESERVER", <<>>, Untracked, 0, <<>>, {})
CloseProcessHandle ==
    Sends("CLOSEHANDLE", <<"handle">>, Untracked, 0, << <<"result">> >>, {})
OpenProcessHandle ==
    Sends("OPENPROCESS", <<"pid">>, Untracked, 0, << <<"handle">> >>, {})
ReadProcessMemoryBytes ==
    Sends("READPROCESSMEMORY", <<"handle", "address", "size">>, Untracked,
          0, << <<"read", "bytes">> >>, {"read"})
ReadProcessMemory_ == ReadProcessMemoryBytes
WriteProcessMemoryDetailed ==
    Sends("WRITEPROCESSMEMORY", <<"handle", "address", "size", "data">>, 4,
          Upto256M, << <<"written">> >>, {"written"})
FetchProcessList ==
    Sends("GETPROCESSLIST", <<>>, Untracked, 0,
          << <<"count">>, <<"entry">>, <<"name">> >>, {"count", "entry"})
FetchModuleList ==
    Sends("GETMODULELIST", <<"handle">>, Untracked, 0,
          << <<"count">>, <<"entry">>, <<"name">> >>, {"count", "entry"})
ReadBratchMemory ==
    Sends("READBRATCHMEMORY", <<"handle", "address", "size">>, Untracked, 0,
          << <<"count">>, <<"addr", "page">> >>, {"count"})
InitDriverTracked ==
    Sends("INITRWDRIVER", <<"size", "data">>, 0, Upto4K,
          << <<"ret", "length">>, <<"text">> >>, {"length"})
SetKernelBreakpointForceReclaim ==
    Sends("SETKERNELHWBPRECLAIM", <<"enabled">>, 0, 0,
          << <<"result">> >>, {})
(* Mutant: requestStarted is set once the payload is sent too.             *)
mutateBreakpointLateStart(cmd, payload) ==
    Sends(cmd, <<"handle">> \o payload, 2 + Len(payload), 0,
          << <<"result">> >>, {})

mutateBreakpointTracked(cmd, payload) ==
    Sends(cmd, <<"handle">> \o payload, 2, 0, << <<"result">> >>, {})
SetKernelBreakpointTracked ==
    mutateBreakpointTracked("SETBREAKPOINT", <<"address", "type", "len">>)
RemoveKernelBreakpointTracked ==
    mutateBreakpointTracked("REMOVEBREAKPOINT", <<"address">>)
SuspendKernelBreakpointTracked ==
    mutateBreakpointTracked("SUSPENDBREAKPOINT", <<"address">>)
ResumeKernelBreakpointTracked ==
    mutateBreakpointTracked("RESUMEBREAKPOINT", <<"address">>)
ReadKernelBreakpointInfo ==
    Sends("READHWBPINFO", <<"handle", "address">>, Untracked, 0,
          << <<"result", "total">>, <<"hits">> >>, {"result"})
QueryKernelBreakpointThreads ==
    Sends("QUERYHWBPTHREADS", <<"handle", "capacity">>, Untracked, 0,
          << <<"result", "count">>, <<"header">>, <<"slots">> >>,
          {"result", "count", "header"})
InstallUxnBreakpointTracked ==
    Sends("UXN_INSTALL", <<"handle", "address", "flags">>, 2, 0,
          << <<"result", "payload">> >>, {"result"})
RemoveUxnBreakpointTracked ==
    Sends("UXN_REMOVE", <<"handle", "address">>, 2, 0,
          << <<"result">> >>, {"result"})
WaitUxnBreakpointTracked ==
    Sends("UXN_WAIT", <<"slot", "timeout", "last">>, 1, 0,
          << <<"result", "payload">> >>, {"result"})
ResumeUxnBreakpointTracked ==
    Sends("UXN_RESUME", <<"resume">>, 1, 0, << <<"result">> >>, {"result"})
QueryUxnBreakpointStatusTracked ==
    Sends("UXN_STATUS", <<"slot">>, 1, 0,
          << <<"result", "payload">> >>, {"result"})
ClearUxnBreakpointsTracked ==
    Sends("UXN_CLEAR", <<>>, 0, 0, << <<"result">> >>, {"result"})
ReadBratchAddr ==
    Sends("READBRATCHADDR", <<"handle", "size", "data">>, Untracked,
          Upto100K, << <<"count">>, <<"addr", "vlen">>, <<"bytes">> >>,
          {"count", "vlen"})
SymbolInit ==
    Sends("SYMBOL_INIT", <<"input">>, Untracked, 0,
          << <<"output">> >>, {"output"})
SymbolGetList ==
    Sends("SYMBOL_GETLIST", <<"input">>, Untracked, 0,
          << <<"output">>, <<"entry">>, <<"name">> >>, {"output", "entry"})
SymbolFind ==
    Sends("SYMBOL_FIND", <<"size", "data">>, Untracked, LongestName,
          << <<"output">> >>, {})
GetSoBaseByName ==
    Sends("GETSOBASE", <<"size", "data">>, Untracked, Upto4K,
          << <<"output">> >>, {})

Client ==
    [FetchServerVersion |-> FetchServerVersion,
     GetMemType |-> GetMemType,
     CloseServer |-> CloseServer,
     CloseProcessHandle |-> CloseProcessHandle,
     OpenProcessHandle |-> OpenProcessHandle,
     ReadProcessMemoryBytes |-> ReadProcessMemoryBytes,
     ReadProcessMemory_ |-> ReadProcessMemory_,
     WriteProcessMemoryDetailed |-> WriteProcessMemoryDetailed,
     FetchProcessList |-> FetchProcessList,
     FetchModuleList |-> FetchModuleList,
     ReadBratchMemory |-> ReadBratchMemory,
     InitDriverTracked |-> InitDriverTracked,
     SetKernelBreakpointForceReclaim |-> SetKernelBreakpointForceReclaim,
     SetKernelBreakpointTracked |-> SetKernelBreakpointTracked,
     RemoveKernelBreakpointTracked |-> RemoveKernelBreakpointTracked,
     SuspendKernelBreakpointTracked |-> SuspendKernelBreakpointTracked,
     ResumeKernelBreakpointTracked |-> ResumeKernelBreakpointTracked,
     ReadKernelBreakpointInfo |-> ReadKernelBreakpointInfo,
     QueryKernelBreakpointThreads |-> QueryKernelBreakpointThreads,
     InstallUxnBreakpointTracked |-> InstallUxnBreakpointTracked,
     RemoveUxnBreakpointTracked |-> RemoveUxnBreakpointTracked,
     WaitUxnBreakpointTracked |-> WaitUxnBreakpointTracked,
     ResumeUxnBreakpointTracked |-> ResumeUxnBreakpointTracked,
     QueryUxnBreakpointStatusTracked |-> QueryUxnBreakpointStatusTracked,
     ClearUxnBreakpointsTracked |-> ClearUxnBreakpointsTracked,
     ReadBratchAddr |-> ReadBratchAddr,
     SymbolInit |-> SymbolInit,
     SymbolGetList |-> SymbolGetList,
     SymbolFind |-> SymbolFind,
     GetSoBaseByName |-> GetSoBaseByName]

ASSUME CallsAssumption == Calls \subseteq DOMAIN Client

(***************************************************************************)
(* Server rows.  reads: the fields the handler receives after the command; *)
(* checked: whether it tests the results of Receive; max: the largest      *)
(* payload it reads (a larger one is answered without being read);         *)
(* mutates: whether it changes the device; answer: what it sends, level by *)
(* level; odd: the answer fields that can hold a value the client refuses  *)
(* (a count over its limit, a module of size 0, an error code <= 0).       *)
(***************************************************************************)
Handles(reads, checked, max, mutates, answer, odd) ==
    [reads |-> reads, checked |-> checked, max |-> max, mutates |-> mutates,
     answer |-> answer, odd |-> odd]

CMD_GETVERSION ==
    Handles(<<>>, TRUE, 0, FALSE, << <<"version">>, <<"string">> >>, {})
CMD_GETMEMTYPE == Handles(<<>>, TRUE, 0, FALSE, << <<"type">> >>, {})
CMD_TERMINATESERVER == Handles(<<>>, TRUE, 0, TRUE, <<>>, {})
CMD_CLOSEHANDLE ==
    Handles(<<"handle">>, TRUE, 0, TRUE, << <<"result">> >>, {})
CMD_OPENPROCESS ==
    Handles(<<"pid">>, TRUE, 0, TRUE, << <<"handle">> >>, {})
CMD_READPROCESSMEMORY ==
    Handles(<<"handle", "address", "size">>, TRUE, 0, FALSE,
            << <<"read", "bytes">> >>, {})
CMD_WRITEPROCESSMEMORY ==
    Handles(<<"handle", "address", "size", "data">>, TRUE, Upto256M, TRUE,
            << <<"written">> >>, {})
CMD_GETPROCESSLIST ==
    Handles(<<>>, TRUE, 0, FALSE,
            << <<"count">>, <<"entry">>, <<"name">> >>, {"count", "entry"})
CMD_GETMODULELIST ==
    Handles(<<"handle">>, FALSE, 0, FALSE,
            << <<"count">>, <<"entry">>, <<"name">> >>, {"count", "entry"})
CMD_READBRATCHMEMORY ==
    Handles(<<"handle", "address", "size">>, FALSE, 0, FALSE,
            << <<"count">>, <<"addr", "page">> >>, {})
CMD_INITRWDRIVER ==
    Handles(<<"size", "data">>, FALSE, Upto256M, TRUE,
            << <<"ret", "length">>, <<"text">> >>, {"length"})
CMD_SETKERNELHWBPRECLAIM ==
    Handles(<<"enabled">>, TRUE, 0, TRUE, << <<"result">> >>, {})
CMD_KERNEL_SETBREAKPOINT ==
    Handles(<<"handle", "address", "type", "len">>, FALSE, 0, TRUE,
            << <<"result">> >>, {})
CMD_KERNEL_REMOVEBREAKPOINT ==
    Handles(<<"handle", "address">>, FALSE, 0, TRUE, << <<"result">> >>, {})
CMD_KERNEL_SUSPENDBREAKPOINT ==
    Handles(<<"handle", "address">>, FALSE, 0, TRUE, << <<"result">> >>, {})
CMD_KERNEL_RESUMEBREAKPOINT ==
    Handles(<<"handle", "address">>, FALSE, 0, TRUE, << <<"result">> >>, {})
CMD_KERNEL_READHWBPINFO ==
    Handles(<<"handle", "address">>, FALSE, 0, FALSE,
            << <<"result", "total">>, <<"hits">> >>, {"result"})
CMD_KERNEL_QUERYHWBPTHREADS ==
    Handles(<<"handle", "capacity">>, TRUE, 0, FALSE,
            << <<"result", "count">>, <<"header">>, <<"slots">> >>,
            {"header"})
SendUxnResponse(reads, mutates, payload) ==
    Handles(reads, TRUE, 0, mutates, << <<"result">> \o payload >>,
            {"result"})
CMD_KERNEL_UXN_INSTALL ==
    SendUxnResponse(<<"handle", "address", "flags">>, TRUE, <<"payload">>)
CMD_KERNEL_UXN_REMOVE ==
    SendUxnResponse(<<"handle", "address">>, TRUE, <<>>)
CMD_KERNEL_UXN_WAIT ==
    SendUxnResponse(<<"slot", "timeout", "last">>, FALSE, <<"payload">>)
CMD_KERNEL_UXN_RESUME == SendUxnResponse(<<"resume">>, TRUE, <<>>)
CMD_KERNEL_UXN_STATUS == SendUxnResponse(<<"slot">>, FALSE, <<"payload">>)
CMD_KERNEL_UXN_CLEAR == SendUxnResponse(<<>>, TRUE, <<>>)
CMD_READBRATCHADDR ==
    Handles(<<"handle", "size", "data">>, FALSE, Upto10M, FALSE,
            << <<"count">>, <<"addr", "vlen">>, <<"bytes">> >>, {})
CMD_SYMBOL_INIT ==
    Handles(<<"input">>, TRUE, 0, TRUE, << <<"output">> >>, {"output"})
CMD_SYMBOL_GETLIST ==
    Handles(<<"input">>, TRUE, 0, FALSE,
            << <<"output">>, <<"entry">>, <<"name">> >>,
            {"output", "entry"})
CMD_SYMBOL_FIND ==
    Handles(<<"size", "data">>, TRUE, Upto4K, FALSE, << <<"output">> >>, {})
CMD_GETSOBASE ==
    Handles(<<"size", "data">>, TRUE, Upto4K, FALSE, << <<"output">> >>, {})

Server ==
    [GETVERSION |-> CMD_GETVERSION,
     GETMEMTYPE |-> CMD_GETMEMTYPE,
     TERMINATESERVER |-> CMD_TERMINATESERVER,
     CLOSEHANDLE |-> CMD_CLOSEHANDLE,
     OPENPROCESS |-> CMD_OPENPROCESS,
     READPROCESSMEMORY |-> CMD_READPROCESSMEMORY,
     WRITEPROCESSMEMORY |-> CMD_WRITEPROCESSMEMORY,
     GETPROCESSLIST |-> CMD_GETPROCESSLIST,
     GETMODULELIST |-> CMD_GETMODULELIST,
     READBRATCHMEMORY |-> CMD_READBRATCHMEMORY,
     INITRWDRIVER |-> CMD_INITRWDRIVER,
     SETKERNELHWBPRECLAIM |-> CMD_SETKERNELHWBPRECLAIM,
     SETBREAKPOINT |-> CMD_KERNEL_SETBREAKPOINT,
     REMOVEBREAKPOINT |-> CMD_KERNEL_REMOVEBREAKPOINT,
     SUSPENDBREAKPOINT |-> CMD_KERNEL_SUSPENDBREAKPOINT,
     RESUMEBREAKPOINT |-> CMD_KERNEL_RESUMEBREAKPOINT,
     READHWBPINFO |-> CMD_KERNEL_READHWBPINFO,
     QUERYHWBPTHREADS |-> CMD_KERNEL_QUERYHWBPTHREADS,
     UXN_INSTALL |-> CMD_KERNEL_UXN_INSTALL,
     UXN_REMOVE |-> CMD_KERNEL_UXN_REMOVE,
     UXN_WAIT |-> CMD_KERNEL_UXN_WAIT,
     UXN_RESUME |-> CMD_KERNEL_UXN_RESUME,
     UXN_STATUS |-> CMD_KERNEL_UXN_STATUS,
     UXN_CLEAR |-> CMD_KERNEL_UXN_CLEAR,
     READBRATCHADDR |-> CMD_READBRATCHADDR,
     SYMBOL_INIT |-> CMD_SYMBOL_INIT,
     SYMBOL_GETLIST |-> CMD_SYMBOL_GETLIST,
     SYMBOL_FIND |-> CMD_SYMBOL_FIND,
     GETSOBASE |-> CMD_GETSOBASE]

(***************************************************************************)
(* The state: the connections with their two streams and the server worker *)
(* serving each, the client's current connection and request, and what     *)
(* became of every request.                                                *)
(***************************************************************************)
VARIABLES
    conns,      \* conns[k]: streams, liveness and worker of connection k
    cur,        \* the client's connection (0 before the first)
    open,       \* the client has not closed it (WindowsSocketClient.connected_)
    req,        \* the request in progress, or Idle
    made,       \* number of requests made so far
    outcome,    \* outcome[r]: what the client function reported
    acted,      \* acted[r]: what the handler called into CApi with
    mixed       \* ghost: a side took a field for something it is not
                \* (the model does not follow the streams any further)

vars == <<conns, cur, open, req, made, outcome, acted, mixed>>

Requests == 1..MaxRequests
Connections == 1..MaxConn

Idle == [id |-> 0]
Looping == [at |-> "loop"]
Fresh == [up |-> FALSE, toServer |-> <<>>, toClient |-> <<>>,
          worker |-> Looping]

Init ==
    /\ conns = [k \in Connections |->
                  IF k = 1 THEN [Fresh EXCEPT !.up = TRUE] ELSE Fresh]
    /\ cur = 1
    /\ open = TRUE
    /\ req = Idle
    /\ made = 0
    /\ outcome = [r \in Requests |-> "none"]
    /\ acted = [r \in Requests |-> "no"]
    /\ mixed = FALSE

Active == req # Idle
Row == Client[req.call]

(***************************************************************************)
(* The client: SocketCommand::execute runs one function at a time on a     *)
(* port; the function sends its fields, then receives its answer.          *)
(***************************************************************************)
PayloadSizes(max) == IF max = 0 THEN {0} ELSE {1, max}

execute(call, n) ==
    /\ ~Active /\ open /\ ~mixed
    /\ made < MaxRequests
    /\ made > 0 => call \in Later
    /\ n \in PayloadSizes(Client[call].max)
    /\ made' = made + 1
    /\ req' = [id |-> made + 1, call |-> call, n |-> n, sent |-> 0,
               level |-> 1, next |-> 1]
    /\ outcome' = [outcome EXCEPT ![made + 1] = "active"]
    /\ UNCHANGED <<conns, cur, open, acted, mixed>>

Finish(result) ==
    /\ req' = Idle
    /\ outcome' = [outcome EXCEPT ![req.id] = result]

Send ==
    /\ Active /\ open /\ ~mixed
    /\ conns[cur].up
    /\ req.sent < Len(Row.fields)
    /\ conns' = [conns EXCEPT ![cur].toServer =
           Append(@, [id |-> req.id, f |-> Row.fields[req.sent + 1],
                      cmd |-> Row.cmd, n |-> req.n])]
    /\ IF req.sent + 1 = Len(Row.fields) /\ Row.expects = <<>>
       THEN Finish("done")
       ELSE /\ req' = [req EXCEPT !.sent = @ + 1]
            /\ UNCHANGED outcome
    /\ UNCHANGED <<cur, open, made, acted, mixed>>

(* PoisonAndClose: what was sent stays readable by the server, what was    *)
(* not yet received is gone.                                               *)
PoisonAndClose ==
    /\ conns' = [conns EXCEPT ![cur].up = FALSE, ![cur].toClient = <<>>]
    /\ open' = FALSE

Reported ==
    IF Row.started = Untracked THEN "failed"
    ELSE IF req.sent >= Row.started THEN "unknown" ELSE "notStarted"

(* Mutant: the end of the stream is not taken for a failure.               *)
IoFailureIgnoresEof ==
    /\ Active /\ open /\ ~mixed
    /\ conns[cur].up
    /\ PoisonAndClose
    /\ Finish(Reported)
    /\ UNCHANGED <<cur, made, acted, mixed>>

(* A Send or Receive fails: the peer is gone, or the I/O timeout expired.  *)
IoFailure ==
    /\ Active /\ open /\ ~mixed
    /\ PoisonAndClose
    /\ Finish(Reported)
    /\ UNCHANGED <<cur, made, acted, mixed>>

(* Mutant: a refused answer fails the request but keeps the connection.    *)
RejectWithoutPoison ==
    /\ Finish(Reported)
    /\ conns' = [conns EXCEPT ![cur].toClient = Tail(@)]
    /\ UNCHANGED open

rejectMalformedResponse ==
    /\ PoisonAndClose
    /\ Finish(Reported)

Receive ==
    LET answer == conns[cur].toClient
        token == Head(answer)
        level == Row.expects[req.level]
        expected == token.id = req.id /\ token.f = level[req.next]
        bad == token.v = "odd" /\ token.f \in Row.checks
        announced == token.v # "none" /\ req.level < Len(Row.expects)
    IN  /\ Active /\ open /\ ~mixed
        /\ req.sent = Len(Row.fields)
        /\ answer # <<>>
        /\ mixed' = ~expected
        /\ \/ /\ expected /\ bad
              /\ rejectMalformedResponse
           \/ /\ expected => ~bad
              /\ conns' = [conns EXCEPT ![cur].toClient = Tail(@)]
              /\ \/ /\ req.next < Len(level)
                    /\ req' = [req EXCEPT !.next = @ + 1]
                    /\ UNCHANGED outcome
                 \/ /\ req.next = Len(level) /\ announced
                    /\ req' = [req EXCEPT !.level = @ + 1, !.next = 1]
                    /\ UNCHANGED outcome
                 \/ /\ req.next = Len(level) /\ ~announced
                    /\ Finish("done")
              /\ UNCHANGED open
        /\ UNCHANGED <<cur, made, acted>>

(* After a failure only a new connection can be used.                      *)
Reconnect ==
    /\ ~open /\ ~Active /\ cur < MaxConn /\ ~mixed
    /\ cur' = cur + 1
    /\ open' = TRUE
    /\ conns' = [conns EXCEPT ![cur + 1].up = TRUE]
    /\ UNCHANGED <<req, made, outcome, acted, mixed>>

(***************************************************************************)
(* The server worker of connection k: WorkerThread takes a command byte,   *)
(* DispatchCommand_V2 receives the handler's fields, acts and answers.     *)
(***************************************************************************)
Worker(k) == conns[k].worker
Handler(k) == Server[Worker(k).cmd]

(* The handler still has a field to receive: a payload it refuses (empty,  *)
(* or over its limit) is not received.                                     *)
Wants(k) ==
    /\ Worker(k).got.pos <= Len(Handler(k).reads)
    /\ Handler(k).reads[Worker(k).got.pos] = "data" =>
           Worker(k).got.n \in 1..Handler(k).max

WorkerThread(k) ==
    LET stream == conns[k].toServer
        token == Head(stream)
    IN  /\ Worker(k).at = "loop" /\ stream # <<>> /\ ~mixed
        /\ mixed' = (token.f # "cmd")
        /\ conns' = [conns EXCEPT
               ![k].toServer = Tail(@),
               ![k].worker = [at |-> "dispatch", cmd |-> token.cmd,
                              id |-> token.id,
                              got |-> [pos |-> 1, n |-> 0, fields |-> {}]]]
        /\ UNCHANGED <<cur, open, req, made, outcome, acted>>

WorkerReceives(k) ==
    LET stream == conns[k].toServer
        token == Head(stream)
        want == Handler(k).reads[Worker(k).got.pos]
    IN  /\ Worker(k).at = "dispatch" /\ ~mixed
        /\ Wants(k)
        /\ stream # <<>>
        /\ mixed' = (token.f # want \/ token.id # Worker(k).id)
        /\ conns' = [conns EXCEPT
               ![k].toServer = Tail(@),
               ![k].worker.got =
                  [pos |-> @.pos + 1, fields |-> @.fields \union {want},
                   n |-> IF want = "size" THEN token.n ELSE @.n]]
        /\ UNCHANGED <<cur, open, req, made, outcome, acted>>

(* Receive fails at the end of a dead stream.  A handler that checks gives *)
(* up; one that does not goes on, with an uninitialised length.            *)
WorkerMisses(k) ==
    /\ Worker(k).at = "dispatch" /\ ~mixed
    /\ Wants(k)
    /\ conns[k].toServer = <<>> /\ ~conns[k].up
    /\ \/ /\ Handler(k).checked
          /\ conns' = [conns EXCEPT ![k].worker = Looping]
       \/ /\ ~Handler(k).checked
          /\ \E n \in IF Handler(k).reads[Worker(k).got.pos] = "size"
                      THEN {0, 1} ELSE {Worker(k).got.n} :
                conns' = [conns EXCEPT ![k].worker.got =
                            [pos |-> @.pos + 1, fields |-> @.fields, n |-> n]]
    /\ UNCHANGED <<cur, open, req, made, outcome, acted, mixed>>

(* A handle that never arrived is the handle 0, which no process has.      *)
CallsApi(k) ==
    /\ Handler(k).mutates
    /\ "handle" \in ToSet(Handler(k).reads) =>
           "handle" \in Worker(k).got.fields
    /\ "data" \in ToSet(Handler(k).reads) =>
           Worker(k).got.n \in 1..Handler(k).max

Whole(k) == Worker(k).got.fields = ToSet(Handler(k).reads)

(* The levels of an answer, of which no handler has more than three.       *)
AnswerTokens(k, depth, odd) ==
    LET Tokens(i) ==
            IF i > depth THEN <<>>
            ELSE [j \in 1..Len(Handler(k).answer[i]) |->
                    LET f == Handler(k).answer[i][j]
                    IN  [id |-> Worker(k).id, f |-> f,
                         v |-> IF f = odd THEN "odd"
                               ELSE IF i < depth THEN "some" ELSE "none"]]
    IN  Tokens(1) \o Tokens(2) \o Tokens(3)

WorkerAnswers(k) ==
    LET w == Worker(k)
        closes == w.cmd = "TERMINATESERVER"
        refused == "data" \in ToSet(Handler(k).reads)
                       /\ w.got.n \notin 1..Handler(k).max
    IN  /\ w.at = "dispatch" /\ ~mixed
        /\ ~Wants(k)
        /\ acted' = IF CallsApi(k)
                    THEN [acted EXCEPT ![w.id] =
                             IF Whole(k) THEN "whole" ELSE "partial"]
                    ELSE acted
        /\ \E depth \in 0..Len(Handler(k).answer),
              odd \in Handler(k).odd \union {"nothing"} :
              /\ Handler(k).answer # <<>> => depth > 0
              /\ refused => depth = 1
              /\ conns' = [conns EXCEPT
                     ![k].toClient = IF conns[k].up
                                     THEN @ \o AnswerTokens(k, depth, odd)
                                     ELSE @,
                     ![k].worker = IF closes THEN [at |-> "stopped"]
                                   ELSE Looping,
                     ![k].up = @ /\ ~closes]
        /\ UNCHANGED <<cur, open, req, made, outcome, mixed>>

WorkerStops(k) ==
    /\ Worker(k).at = "loop" /\ ~mixed
    /\ k <= cur
    /\ conns[k].toServer = <<>> /\ ~conns[k].up
    /\ conns' = [conns EXCEPT ![k].worker = [at |-> "stopped"]]
    /\ UNCHANGED <<cur, open, req, made, outcome, acted, mixed>>

(* The network loses the connection, and with it any suffix of what is in  *)
(* flight either way.                                                      *)
Cut(k) ==
    /\ conns[k].up /\ ~mixed
    /\ \E i \in 0..Len(conns[k].toServer), j \in 0..Len(conns[k].toClient) :
          conns' = [conns EXCEPT ![k].up = FALSE,
                                 ![k].toServer = SubSeq(@, 1, i),
                                 ![k].toClient = SubSeq(@, 1, j)]
    /\ UNCHANGED <<cur, open, req, made, outcome, acted, mixed>>

ClientStep == Send \/ Receive \/ IoFailure
WorkerStep(k) ==
    WorkerThread(k) \/ WorkerReceives(k) \/ WorkerMisses(k)
        \/ WorkerAnswers(k) \/ WorkerStops(k)

Next ==
    \/ \E call \in Calls, n \in 0..Upto256M : execute(call, n)
    \/ Send
    \/ Receive
    \/ IoFailure
    \/ Reconnect
    \/ \E k \in Connections :
          \/ WorkerThread(k)
          \/ WorkerReceives(k)
          \/ WorkerMisses(k)
          \/ WorkerAnswers(k)
          \/ WorkerStops(k)
          \/ Cut(k)

Spec == Init /\ [][Next]_vars

(* A client call is bounded by its I/O timeout; a worker blocked in        *)
(* Receive goes on as soon as bytes arrive or the connection is gone.      *)
FairSpec ==
    /\ Spec
    /\ WF_vars(ClientStep)
    /\ \A k \in Connections : WF_vars(WorkerStep(k))

\* Every variable stays in its domain.
TypeOK ==
    /\ cur \in Connections /\ open \in BOOLEAN /\ mixed \in BOOLEAN
    /\ made \in 0..MaxRequests
    /\ \A k \in Connections :
          /\ conns[k].up \in BOOLEAN
          /\ conns[k].worker.at \in {"loop", "dispatch", "stopped"}
          /\ conns[k].up => conns[k].worker.at # "stopped"
    /\ Active => /\ req.id = made
                 /\ req.sent \in 0..Len(Row.fields)
                 /\ req.level \in 1..Len(Row.expects) \union {1}
    /\ outcome \in [Requests -> {"none", "active", "done", "failed",
                                 "unknown", "notStarted"}]
    /\ acted \in [Requests -> {"no", "partial", "whole"}]

(* The server never takes part of a request for a command or for another   *)
(* field, and the client never takes another request's answer for its own. *)
InSync == ~mixed

(* What the client reports as not sent never happens, not even later, when *)
(* the worker of the abandoned connection gets to it.                      *)
NotStartedNeverActs ==
    \A r \in Requests : outcome[r] = "notStarted" => acted[r] = "no"

(* A mutation the client saw answered was carried out on the whole of the  *)
(* request it sent; one the server acts on half-received is never reported *)
(* as answered.                                                            *)
AnsweredIsWhole ==
    [][\A r \in Requests :
          (outcome[r] = "active" /\ outcome'[r] = "done"
             /\ Server[Row.cmd].mutates /\ Row.expects # <<>>)
          => acted[r] = "whole"]_vars

(* Every request ends, whatever the network does.                          *)
RequestEnds == Active ~> ~Active

(* The worker of a lost connection finishes what it had received and ends: *)
(* none stays blocked inside a handler.                                    *)
DeadWorkersStop ==
    \A k \in Connections :
        (k <= cur /\ ~conns[k].up) ~> conns[k].worker.at = "stopped"
=============================================================================
