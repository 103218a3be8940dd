--------------------------- MODULE IpcServerProofs ---------------------------
(***************************************************************************)
(* What the IPC server and its bridges promise for any number of bridges,  *)
(* workers, calls, connections and process selections: a call changes      *)
(* something at most once, a page of symbols is of a process selected      *)
(* meanwhile, stale registers are written only after a rival's resume, and *)
(* Stop() leaves no connection open.                                       *)
(***************************************************************************)
EXTENDS IpcServer, TLAPS

Mutators == {"open_process", "symbol_init", "uxn_resume"}
Kinds == {"none", "error", "opened", "loaded", "page", "event", "status", "resumed",
          "bulk", "hits"}
Answers == [is : Kinds, rev : Nat, seq : Nat]
Conns == [who : Bridges \cup {NoBridge}, method : Methods \cup {"none"}, id : Nat,
          sent : {"whole", "part", "refused"}, regs : Nat, mark : Nat, from : Nat,
          state : {"open", "closed"}, answer : Answers, left : BOOLEAN]
BridgeStates == [tool : Tools \cup {"none"}, method : Methods \cup {"none"},
                 at : {"idle", "waiting", "checked", "retry"}, attempt : Nat, conn : Nat,
                 id : Nat, event : Nat, mark : Nat, out : {"none", "ok", "error", "raised"}]
WorkerStates == [at : {"ready", "waiting", "receive", "operate", "store", "answer", "exited"},
                 conn : Nat, ctx : Nat, answer : Answers]
Slots == [installed : BOOLEAN, paused : BOOLEAN, seq : Nat, resumes : Nat]

\* The calls of a bridge are numbered from 1.
Calls(b) == 1..scene.calls[b]

Typed ==
    /\ scene \in Scenes
    /\ taken \in Nat /\ backlog \in Seq(Nat) /\ queue \in Seq(Nat)
    /\ worker \in [scene.workers -> WorkerStates]
    /\ conn \in Seq(Conns)
    /\ bridge \in [Bridges -> BridgeStates]
    /\ rev \in Nat /\ table \in Nat /\ slot \in Slots
    /\ executed = [b \in Bridges |-> executed[b]]
    /\ \A b \in Bridges : executed[b] \in [Calls(b) -> Nat]

-----------------------------------------------------------------------------
(* Where a connection is: in the backlog, with the accept thread, in the    *)
(* queue or with one worker, and open for as long as it is there.           *)

Holds(w) == worker[w].at \in {"receive", "operate", "store", "answer"}
Has(w, c) == Holds(w) /\ worker[w].conn = c
InLine(c) == c \in InSeq(backlog) \/ c \in InSeq(queue) \/ (c = taken /\ c # 0)
Distinct(q) == \A i, j \in DOMAIN q : q[i] = q[j] => i = j

Placed ==
    /\ server = "push" <=> taken # 0
    /\ Distinct(backlog) /\ Distinct(queue) /\ InSeq(backlog) \cap InSeq(queue) = {}
    /\ taken # 0 => taken \notin InSeq(backlog) /\ taken \notin InSeq(queue)
    /\ \A c \in Nat : InLine(c) => c \in DOMAIN conn /\ conn[c].state = "open"
    /\ \A w \in scene.workers : Holds(w) =>
          /\ worker[w].conn \in DOMAIN conn /\ conn[worker[w].conn].state = "open"
          /\ ~InLine(worker[w].conn)
    /\ \A w, v \in scene.workers : Holds(w) /\ Has(v, worker[w].conn) => w = v

\* A request that may change something is one of a bridge's calls; a bridge that
\* waits has its own connection, which only it may abandon.
Asked ==
    /\ \A c \in DOMAIN conn : conn[c].sent = "whole" \/ conn[c].method # "none" =>
          /\ conn[c].sent = "whole" /\ conn[c].method \in Methods
          /\ conn[c].method # "read_memory" =>
                conn[c].who \in Bridges /\ conn[c].id \in 1..bridge[conn[c].who].id
    /\ \A w \in scene.workers : worker[w].at \in {"operate", "store"} =>
          conn[worker[w].conn].sent = "whole"
    /\ \A b \in Bridges : bridge[b].at = "waiting" =>
          /\ bridge[b].conn \in DOMAIN conn
          /\ conn[bridge[b].conn].who = b /\ conn[bridge[b].conn].method = bridge[b].method
          /\ ~conn[bridge[b].conn].left
    /\ \A b \in Bridges : bridge[b].id <= scene.calls[b]
    /\ \A b \in Bridges : bridge[b].at # "idle" => bridge[b].method \in Methods /\ bridge[b].id > 0
    /\ \A b \in Bridges : bridge[b].at = "retry" => bridge[b].method \in _RETRYABLE_METHODS

-----------------------------------------------------------------------------
(* What a call has changed so far.                                          *)

Changes(c, b, i) == conn[c].method \in Mutators /\ conn[c].who = b /\ conn[c].id = i
Todo(c) == InLine(c) \/ \E w \in scene.workers : worker[w].at \in {"receive", "operate"}
                                                  /\ worker[w].conn = c
Unchanged(b, i) == executed[b][i] = 0 /\ \A c \in DOMAIN conn : ~Changes(c, b, i)

Once ==
    /\ \A b \in Bridges : \A i \in Calls(b) : executed[b][i] <= 1
    /\ \A b \in Bridges : \A i \in Calls(b) : i > bridge[b].id => executed[b][i] = 0
    /\ \A b \in Bridges : \A c, d \in DOMAIN conn :
          Changes(c, b, conn[c].id) /\ Changes(d, b, conn[c].id) => c = d
    /\ \A b \in Bridges : \A c \in DOMAIN conn :
          Changes(c, b, conn[c].id) /\ Todo(c) => executed[b][conn[c].id] = 0
    /\ \A b \in Bridges :
          bridge[b].at \in {"retry", "checked"}
             \/ (bridge[b].at = "waiting" /\ bridge[b].method \notin Mutators)
          => Unchanged(b, bridge[b].id)

-----------------------------------------------------------------------------
(* Symbols.                                                                  *)

Selected ==
    /\ \A c \in DOMAIN conn : conn[c].from <= rev
    /\ \A w \in scene.workers :
          /\ worker[w].at \in {"operate", "store"} =>
                worker[w].ctx \in conn[worker[w].conn].from..rev
          /\ worker[w].at = "answer" /\ worker[w].answer.is = "page" =>
                worker[w].answer.rev \in conn[worker[w].conn].from..rev
    /\ PageOfSelected

-----------------------------------------------------------------------------
(* Registers.  A status tells the number of resumes r and the event s the   *)
(* thread is stopped at: while r is current the thread stays at s, or the   *)
(* breakpoint is gone with its process.                                     *)

Current(r, s) ==
    \/ r < slot.resumes
    \/ r = slot.resumes /\ s = slot.seq /\ (slot.paused \/ ~slot.installed)

Registers ==
    /\ \A w \in scene.workers : worker[w].at = "answer" /\ worker[w].answer.is = "status" =>
          /\ conn[worker[w].conn].method = "uxn_status"
          /\ worker[w].answer.seq # 0 => Current(worker[w].answer.rev, worker[w].answer.seq)
    /\ \A c \in DOMAIN conn : conn[c].answer.is = "status" =>
          /\ conn[c].method = "uxn_status"
          /\ conn[c].answer.seq # 0 => Current(conn[c].answer.rev, conn[c].answer.seq)
    /\ \A c \in DOMAIN conn : conn[c].method = "uxn_resume" => Current(conn[c].mark, conn[c].regs)
    /\ \A b \in Bridges :
          /\ bridge[b].tool = "resume" /\ bridge[b].at # "idle" => bridge[b].event # 0
          /\ bridge[b].at = "checked" =>
                bridge[b].tool = "resume" /\ Current(bridge[b].mark, bridge[b].event)
    /\ StaleOnlyAfterRival

IpcInv == Typed /\ Placed /\ Asked /\ Once /\ Selected /\ Registers

-----------------------------------------------------------------------------
(* Sequences of connections.                                                *)

\* A connection joins a line.
LEMMA Joins ==
  ASSUME NEW q \in Seq(Nat), NEW x \in Nat
  PROVE  /\ Append(q, x) \in Seq(Nat) /\ InSeq(Append(q, x)) = InSeq(q) \cup {x}
         /\ Distinct(q) /\ x \notin InSeq(q) => Distinct(Append(q, x))
PROOF
<1>1. /\ Append(q, x) \in Seq(Nat) /\ Len(q) \in Nat /\ DOMAIN q = 1..Len(q)
      /\ DOMAIN Append(q, x) = 1..(Len(q) + 1) /\ Append(q, x)[Len(q) + 1] = x
      /\ \A i \in 1..Len(q) : Append(q, x)[i] = q[i]
  OBVIOUS
<1>2. \A i \in 1..(Len(q) + 1) : i \in 1..Len(q) \/ i = Len(q) + 1
  BY <1>1
<1>3. InSeq(Append(q, x)) = InSeq(q) \cup {x}
  BY <1>1, <1>2 DEF InSeq
<1>4. Distinct(q) /\ x \notin InSeq(q) => Distinct(Append(q, x))
  BY <1>1, <1>2 DEF InSeq, Distinct
<1>5. QED
  BY <1>1, <1>3, <1>4

\* The first of a line leaves it.
LEMMA Leaves ==
  ASSUME NEW q \in Seq(Nat), q # <<>>, Distinct(q)
  PROVE  /\ Head(q) \in InSeq(q) /\ Head(q) \in Nat /\ Tail(q) \in Seq(Nat)
         /\ InSeq(Tail(q)) = InSeq(q) \ {Head(q)}
         /\ Distinct(Tail(q))
PROOF
<1>1. /\ Len(q) \in Nat \ {0} /\ DOMAIN q = 1..Len(q) /\ Head(q) = q[1] /\ Tail(q) \in Seq(Nat)
      /\ DOMAIN Tail(q) = 1..(Len(q) - 1) /\ \A i \in 1..(Len(q) - 1) : Tail(q)[i] = q[i + 1]
  OBVIOUS
<1>2. \A i \in 1..Len(q) : i # 1 => i - 1 \in 1..(Len(q) - 1) /\ (i - 1) + 1 = i
  BY <1>1
<1>3. \A i \in 1..(Len(q) - 1) : i + 1 \in 1..Len(q) /\ i + 1 # 1
  BY <1>1
<1>4. ASSUME NEW x \in InSeq(Tail(q))
      PROVE  x \in InSeq(q) \ {Head(q)}
  <2>1. PICK i \in 1..(Len(q) - 1) : x = q[i + 1]
    BY <1>1 DEF InSeq
  <2>2. QED
    BY <1>1, <1>3, <2>1 DEF InSeq, Distinct
<1>5. ASSUME NEW x \in InSeq(q) \ {Head(q)}
      PROVE  x \in InSeq(Tail(q))
  <2>1. PICK i \in 1..Len(q) : x = q[i]
    BY <1>1 DEF InSeq
  <2>2. i # 1
    BY <1>1, <2>1
  <2>3. QED
    BY <1>1, <1>2, <2>1, <2>2 DEF InSeq
<1>6. Distinct(Tail(q))
  <2>1. SUFFICES ASSUME NEW i \in 1..(Len(q) - 1), NEW j \in 1..(Len(q) - 1), q[i + 1] = q[j + 1]
                 PROVE  i = j
    BY <1>1 DEF Distinct
  <2>2. i + 1 = j + 1
    BY <1>1, <1>3, <2>1 DEF Distinct
  <2>3. QED
    BY <2>2
<1>7. Head(q) \in InSeq(q) /\ Head(q) \in Nat
  BY <1>1 DEF InSeq
<1>8. QED
  BY <1>1, <1>4, <1>5, <1>6, <1>7

\* The empty queue.
LEMMA EmptyLine == <<>> \in Seq(Nat) /\ InSeq(<<>>) = {} /\ Distinct(<<>>)
  BY DEF InSeq, Distinct

\* The records are well formed.
LEMMA Records ==
  /\ NoAnswer \in Answers /\ Error \in Answers /\ Over \in Conns /\ Free \in WorkerStates
  /\ Idle \in BridgeStates
  /\ \A k \in Kinds : \A r, s \in Nat : Answer(k, r, s) \in Answers
PROOF
<1>1. NoAnswer \in Answers /\ Error \in Answers
      /\ \A k \in Kinds : \A r, s \in Nat : Answer(k, r, s) \in Answers
  BY DEF NoAnswer, Error, Answer, Answers, Kinds
<1>2. Over \in Conns
  BY <1>1 DEF Over, NewConn, Conns
<1>3. Free \in WorkerStates
  BY <1>1 DEF Free, WorkerStates
<1>4. Idle \in BridgeStates
  BY DEF Idle, BridgeStates
<1>5. QED
  BY <1>1, <1>2, <1>3, <1>4

\* What becomes of a connection: the fields that say whose request it is stay.
Same(r, s) ==
    /\ r.who = s.who /\ r.method = s.method /\ r.id = s.id /\ r.sent = s.sent
    /\ r.regs = s.regs /\ r.mark = s.mark /\ r.from = s.from

\* A connection that is over.
LEMMA OverIs ==
  /\ Over.who = NoBridge /\ Over.method = "none" /\ Over.sent = "part" /\ Over.from = 0
  /\ Over.state = "closed" /\ Over.answer = NoAnswer /\ Over.id = 0
  BY DEF Over, NewConn

\* A new connection.
LEMMA MadeConn ==
  ASSUME NEW b \in Bridges \cup {NoBridge}, NEW m \in Methods \cup {"none"}, NEW i \in Nat,
         NEW s \in {"whole", "part", "refused"}, NEW e \in Nat, NEW k \in Nat, rev \in Nat
  PROVE  NewConn(b, m, i, s, e, k) \in Conns
  BY Records DEF NewConn, Conns

\* Updates of a connection.
LEMMA ConnUpdates ==
  ASSUME NEW r \in Conns, NEW a \in Answers
  PROVE  /\ [r EXCEPT !.state = "closed"] \in Conns /\ Same([r EXCEPT !.state = "closed"], r)
         /\ [r EXCEPT !.state = "closed"].answer = r.answer
         /\ [r EXCEPT !.state = "closed"].left = r.left
         /\ [r EXCEPT !.state = "closed"].state = "closed"
         /\ [r EXCEPT !.left = TRUE] \in Conns /\ Same([r EXCEPT !.left = TRUE], r)
         /\ [r EXCEPT !.left = TRUE].answer = r.answer
         /\ [r EXCEPT !.left = TRUE].state = r.state
         /\ [r EXCEPT !.state = "closed", !.answer = a] \in Conns
         /\ Same([r EXCEPT !.state = "closed", !.answer = a], r)
         /\ [r EXCEPT !.state = "closed", !.answer = a].answer = a
         /\ [r EXCEPT !.state = "closed", !.answer = a].left = r.left
PROOF
<1>1. /\ [r EXCEPT !.state = "closed"] \in Conns /\ Same([r EXCEPT !.state = "closed"], r)
      /\ [r EXCEPT !.state = "closed"].answer = r.answer
      /\ [r EXCEPT !.state = "closed"].left = r.left
      /\ [r EXCEPT !.state = "closed"].state = "closed"
  BY DEF Conns, Same
<1>2. /\ [r EXCEPT !.left = TRUE] \in Conns /\ Same([r EXCEPT !.left = TRUE], r)
      /\ [r EXCEPT !.left = TRUE].answer = r.answer
      /\ [r EXCEPT !.left = TRUE].state = r.state
  BY DEF Conns, Same
<1>3. /\ [r EXCEPT !.state = "closed", !.answer = a] \in Conns
      /\ Same([r EXCEPT !.state = "closed", !.answer = a], r)
      /\ [r EXCEPT !.state = "closed", !.answer = a].answer = a
      /\ [r EXCEPT !.state = "closed", !.answer = a].left = r.left
  BY DEF Conns, Same
<1>4. QED
  BY <1>1, <1>2, <1>3

\* The three ways in which the connections change.
LEMMA Appended ==
  ASSUME Typed, NEW n \in Conns, conn' = Append(conn, n)
  PROVE  /\ conn' \in Seq(Conns) /\ Len(conn) + 1 \in Nat \ {0} /\ Len(conn) + 1 \notin DOMAIN conn
         /\ DOMAIN conn' = DOMAIN conn \cup {Len(conn) + 1}
         /\ \A c \in DOMAIN conn : conn'[c] = conn[c]
         /\ conn'[Len(conn) + 1] = n
PROOF
<1>1. Len(conn) \in Nat /\ DOMAIN conn = 1..Len(conn) /\ conn \in Seq(Conns)
  BY DEF Typed
<1>2. conn' \in Seq(Conns) /\ DOMAIN conn' = 1..(Len(conn) + 1) /\ conn'[Len(conn) + 1] = n
      /\ \A c \in 1..Len(conn) : conn'[c] = conn[c]
  BY <1>1
<1>3. 1..(Len(conn) + 1) = (1..Len(conn)) \cup {Len(conn) + 1}
  BY <1>1
<1>4. QED
  BY <1>1, <1>2, <1>3

\* One connection is replaced.
LEMMA Replaced ==
  ASSUME Typed, NEW c \in DOMAIN conn, NEW n \in Conns, conn' = [conn EXCEPT ![c] = n]
  PROVE  /\ conn' \in Seq(Conns) /\ DOMAIN conn' = DOMAIN conn /\ conn'[c] = n
         /\ \A d \in DOMAIN conn : d # c => conn'[d] = conn[d]
  BY DEF Typed

\* Several are closed.
LEMMA ClosedAll ==
  ASSUME Typed, NEW S, conn' = CloseAll(conn, S)
  PROVE  /\ conn' \in Seq(Conns) /\ DOMAIN conn' = DOMAIN conn
         /\ \A c \in DOMAIN conn : c \in S => conn'[c] = [conn[c] EXCEPT !.state = "closed"]
         /\ \A c \in DOMAIN conn : c \notin S => conn'[c] = conn[c]
PROOF
<1>1. Len(conn) \in Nat /\ DOMAIN conn = 1..Len(conn) /\ \A c \in 1..Len(conn) : conn[c] \in Conns
  BY DEF Typed
<1>2. \A c \in 1..Len(conn) : [conn[c] EXCEPT !.state = "closed"] \in Conns
  BY <1>1, ConnUpdates, Records
<1>3. conn' = [c \in 1..Len(conn) |-> IF c \in S THEN [conn[c] EXCEPT !.state = "closed"]
                                       ELSE conn[c]]
  BY <1>1 DEF CloseAll
<1>4. conn' \in Seq(Conns) /\ DOMAIN conn' = 1..Len(conn)
  BY <1>1, <1>2, <1>3
<1>5. QED
  BY <1>1, <1>3, <1>4

\* Updates of a bridge.
LEMMA BridgeUpdates ==
  ASSUME NEW r \in BridgeStates, NEW m \in Methods, NEW n \in Nat, NEW a \in Answers,
         NEW t \in Tools
  PROVE  /\ [r EXCEPT !.method = m, !.at = "waiting", !.conn = n] \in BridgeStates
         /\ [r EXCEPT !.at = "idle", !.out = "error"] \in BridgeStates
         /\ [r EXCEPT !.at = "idle", !.out = "raised"] \in BridgeStates
         /\ [r EXCEPT !.at = "retry", !.attempt = @ + 1] \in BridgeStates
         /\ [r EXCEPT !.tool = t, !.id = @ + 1, !.attempt = 0, !.out = "none"] \in BridgeStates
         /\ Taken(r, a) \in BridgeStates
PROOF
<1>1. /\ [r EXCEPT !.method = m, !.at = "waiting", !.conn = n] \in BridgeStates
      /\ [r EXCEPT !.at = "idle", !.out = "error"] \in BridgeStates
      /\ [r EXCEPT !.at = "idle", !.out = "raised"] \in BridgeStates
  BY DEF BridgeStates
<1>0. r.attempt + 1 \in Nat /\ r.id + 1 \in Nat
  BY DEF BridgeStates
<1>2. [r EXCEPT !.at = "retry", !.attempt = @ + 1] \in BridgeStates
  <2>1. \A k \in Nat : [r EXCEPT !.at = "retry", !.attempt = k] \in BridgeStates
    BY DEF BridgeStates
  <2>2. QED
    BY <1>0, <2>1
<1>3. [r EXCEPT !.tool = t, !.id = @ + 1, !.attempt = 0, !.out = "none"] \in BridgeStates
  <2>1. \A k \in Nat : [r EXCEPT !.tool = t, !.id = k, !.attempt = 0, !.out = "none"]
                          \in BridgeStates
    BY DEF BridgeStates
  <2>2. QED
    BY <1>0, <2>1
<1>4. Taken(r, a) \in BridgeStates
  BY DEF BridgeStates, Answers, Taken
<1>5. QED
  BY <1>1, <1>2, <1>3, <1>4

\* A connection is asked for, or refused because nobody listens.
LEMMA Connects ==
  ASSUME Typed, NEW b \in Bridges, NEW br \in BridgeStates, NEW m \in Methods, Connect(b, br, m)
  PROVE  \/ /\ conn' = Append(conn, NewConn(b, m, br.id, "whole", br.event, br.mark))
            /\ NewConn(b, m, br.id, "whole", br.event, br.mark) \in Conns
            /\ backlog' = Append(backlog, Len(conn) + 1)
            /\ bridge' = [bridge EXCEPT ![b] = [br EXCEPT !.method = m, !.at = "waiting",
                                                          !.conn = Len(conn) + 1]]
         \/ /\ bridge' = [bridge EXCEPT ![b] = [br EXCEPT !.at = "idle", !.out = "error"]]
            /\ UNCHANGED <<conn, backlog>>
PROOF
<1>1. br.id \in Nat /\ br.event \in Nat /\ br.mark \in Nat
  BY DEF BridgeStates
<1>2. NewConn(b, m, br.id, "whole", br.event, br.mark) \in Conns
  BY <1>1, MadeConn DEF Typed
<1>3. QED
  BY <1>2 DEF Connect

\* A bridge that connects leaves every variable in its domain.
LEMMA ConnectTyped ==
  ASSUME Typed, NEW b \in Bridges, NEW br \in BridgeStates, NEW m \in Methods, Connect(b, br, m)
  PROVE  /\ conn' \in Seq(Conns) /\ backlog' \in Seq(Nat) /\ bridge' \in [Bridges -> BridgeStates]
PROOF
<1>1. Len(conn) \in Nat /\ Len(conn) + 1 \in Nat
  BY DEF Typed
<1>2. /\ [br EXCEPT !.method = m, !.at = "waiting", !.conn = Len(conn) + 1] \in BridgeStates
      /\ [br EXCEPT !.at = "idle", !.out = "error"] \in BridgeStates
  BY <1>1 DEF BridgeStates
<1>3. bridge \in [Bridges -> BridgeStates] /\ backlog \in Seq(Nat) /\ conn \in Seq(Conns)
  BY DEF Typed
<1>4. CASE UNCHANGED <<conn, backlog>>
  BY <1>2, <1>3, <1>4, Connects
<1>5. CASE conn' # conn \/ backlog' # backlog
  <2>1. /\ conn' = Append(conn, NewConn(b, m, br.id, "whole", br.event, br.mark))
        /\ NewConn(b, m, br.id, "whole", br.event, br.mark) \in Conns
        /\ backlog' = Append(backlog, Len(conn) + 1)
        /\ bridge' = [bridge EXCEPT ![b] = [br EXCEPT !.method = m, !.at = "waiting",
                                                      !.conn = Len(conn) + 1]]
    BY <1>5, Connects
  <2>2. conn' \in Seq(Conns)
    BY <2>1, Appended
  <2>3. backlog' \in Seq(Nat)
    BY <1>1, <1>3, <2>1, Joins
  <2>4. QED
    BY <1>2, <1>3, <2>1, <2>2, <2>3
<1>6. QED
  BY <1>4, <1>5

\* The request a tool starts with.
LEMMA ToolCalls ==
  ASSUME Typed, NEW b \in Bridges, NEW t \in scene.tools[b]
  PROVE  /\ t \in Tools /\ (IF t = "resume" THEN "uxn_status" ELSE t) \in Methods
         /\ [bridge[b] EXCEPT !.tool = t, !.id = @ + 1, !.attempt = 0, !.out = "none"]
               \in BridgeStates
PROOF
<1>1. t \in Tools
  BY SceneAssumption DEF Typed
<1>2. (IF t = "resume" THEN "uxn_status" ELSE t) \in Methods
  BY <1>1 DEF Tools, Methods
<1>3. bridge[b] \in BridgeStates
  BY DEF Typed
<1>4. QED
  BY <1>1, <1>2, <1>3, BridgeUpdates, Records DEF Methods

\* Updates of a worker.
LEMMA WorkerUpdates ==
  ASSUME NEW r \in WorkerStates, NEW a \in Answers, NEW n \in Nat
  PROVE  /\ [r EXCEPT !.at = "answer", !.answer = a] \in WorkerStates
         /\ [r EXCEPT !.at = "store"] \in WorkerStates
         /\ [r EXCEPT !.at = "ready"] \in WorkerStates
         /\ [r EXCEPT !.at = IF stopping THEN "exited" ELSE "waiting"] \in WorkerStates
         /\ [r EXCEPT !.at = "receive", !.conn = n] \in WorkerStates
         /\ [r EXCEPT !.at = "operate", !.ctx = n] \in WorkerStates
  BY DEF WorkerStates

\* A worker has its result.
LEMMA ResultTyped ==
  ASSUME Typed, NEW w \in scene.workers, NEW a \in Answers, Result(w, a)
  PROVE  /\ worker' \in [scene.workers -> WorkerStates]
         /\ worker'[w].at = "answer" /\ worker'[w].answer = a /\ worker'[w].conn = worker[w].conn
         /\ \A v \in scene.workers : v # w => worker'[v] = worker[v]
PROOF
<1>1. worker \in [scene.workers -> WorkerStates] /\ worker[w] \in WorkerStates
  BY DEF Typed
<1>2. [worker[w] EXCEPT !.at = "answer", !.answer = a] \in WorkerStates
  BY <1>1 DEF WorkerStates
<1>3. worker' = [worker EXCEPT ![w] = [worker[w] EXCEPT !.at = "answer", !.answer = a]]
  BY <1>1 DEF Result
<1>4. /\ worker' \in [scene.workers -> WorkerStates]
      /\ worker'[w] = [worker[w] EXCEPT !.at = "answer", !.answer = a]
      /\ \A v \in scene.workers : v # w => worker'[v] = worker[v]
  BY <1>1, <1>2, <1>3
<1>5. QED
  BY <1>1, <1>4 DEF WorkerStates

\* What an operation of the service does to the server's records.
LEMMA OperateTyped ==
  ASSUME Typed, Placed, Asked, NEW w \in scene.workers, WorkerOperates(w)
  PROVE  /\ worker' \in [scene.workers -> WorkerStates]
         /\ rev' \in Nat /\ rev <= rev' /\ table' \in Nat /\ slot' \in Slots
         /\ conn[worker[w].conn].method \in Methods
PROOF
<1>. DEFINE c == worker[w].conn
<1>1. /\ worker[w] \in WorkerStates /\ rev \in Nat /\ table \in Nat /\ slot \in Slots
      /\ worker[w].ctx \in Nat /\ slot.seq \in Nat /\ slot.resumes \in Nat
  BY DEF Typed, WorkerStates, Slots
<1>2. conn[c].method \in Methods
  <2>1. worker[w].at = "operate"
    BY DEF WorkerOperates
  <2>2. c \in DOMAIN conn
    BY <2>1 DEF Placed, Holds
  <2>3. QED
    BY <2>1, <2>2 DEF Asked
<1>3. ASSUME NEW a \in Answers, Result(w, a), UNCHANGED <<rev, table, slot>>
      PROVE  /\ worker' \in [scene.workers -> WorkerStates]
             /\ rev' \in Nat /\ rev <= rev' /\ table' \in Nat /\ slot' \in Slots
  BY <1>1, <1>3, ResultTyped
<1>4. ASSUME Fails(w)
      PROVE  /\ worker' \in [scene.workers -> WorkerStates]
             /\ rev' \in Nat /\ rev <= rev' /\ table' \in Nat /\ slot' \in Slots
  BY <1>3, <1>4, Records DEF Fails, device
<1>5. CASE conn[c].method = "open_process"
  <2>1. open_process(w, c)
    BY <1>5 DEF WorkerOperates
  <2>2. CASE worker[w].ctx = rev /\ rev < MaxRevs
    <3>1. rev' = rev + 1 /\ slot' = [slot EXCEPT !.installed = FALSE, !.paused = FALSE]
          /\ Result(w, Answer("opened", rev + 1, 0)) /\ table' = table
      BY <2>1, <2>2 DEF open_process
    <3>2. Answer("opened", rev + 1, 0) \in Answers
      BY <1>1, Records DEF Kinds
    <3>3. slot' \in Slots
      BY <1>1, <3>1 DEF Slots
    <3>4. worker' \in [scene.workers -> WorkerStates]
      BY <3>1, <3>2, ResultTyped
    <3>5. QED
      BY <1>1, <1>2, <3>1, <3>3, <3>4
  <2>3. QED
    BY <1>2, <1>4, <2>1, <2>2 DEF open_process
<1>6. CASE conn[c].method = "symbol_init"
  <2>1. symbol_init(w, c)
    BY <1>6 DEF WorkerOperates
  <2>2. CASE worker[w].ctx = rev
    <3>1. worker' = [worker EXCEPT ![w] = [worker[w] EXCEPT !.at = "store"]]
          /\ UNCHANGED <<rev, table, slot>>
      BY <2>1, <2>2 DEF symbol_init
    <3>2. [worker[w] EXCEPT !.at = "store"] \in WorkerStates
      BY <1>1 DEF WorkerStates
    <3>3. worker' \in [scene.workers -> WorkerStates]
      BY <3>1, <3>2 DEF Typed
    <3>4. QED
      BY <1>1, <1>2, <3>1, <3>3
  <2>3. QED
    BY <1>2, <1>4, <2>1, <2>2 DEF symbol_init
<1>7. CASE conn[c].method = "symbol_list"
  <2>1. symbol_list(w, c) /\ UNCHANGED device
    BY <1>7 DEF WorkerOperates
  <2>2. PICK a \in Answers : Result(w, a)
    BY <1>1, <2>1, Records DEF symbol_list, Kinds
  <2>3. QED
    BY <1>2, <1>3, <2>1, <2>2 DEF device
<1>8. CASE conn[c].method = "uxn_wait"
  <2>1. uxn_wait(w, c) /\ UNCHANGED device
    BY <1>8 DEF WorkerOperates
  <2>2. PICK a \in Answers : Result(w, a)
    BY <1>1, <2>1, Records DEF uxn_wait, Kinds
  <2>3. QED
    BY <1>2, <1>3, <2>1, <2>2 DEF device
<1>9. CASE conn[c].method = "uxn_status"
  <2>1. uxn_status(w, c) /\ UNCHANGED device
    BY <1>9 DEF WorkerOperates
  <2>2. PICK a \in Answers : Result(w, a)
    BY <1>1, <2>1, Records DEF uxn_status, Kinds
  <2>3. QED
    BY <1>2, <1>3, <2>1, <2>2 DEF device
<1>10. CASE conn[c].method = "uxn_resume"
  <2>1. uxn_resume(w, c)
    BY <1>10 DEF WorkerOperates
  <2>2. CASE worker[w].ctx = rev /\ slot.paused
    <3>1. /\ slot' = [slot EXCEPT !.paused = FALSE, !.resumes = slot.resumes + 1]
          /\ Result(w, Answer("resumed", 0, slot.seq)) /\ UNCHANGED <<rev, table>>
      BY <2>1, <2>2 DEF uxn_resume
    <3>2. Answer("resumed", 0, slot.seq) \in Answers
      BY <1>1, Records DEF Kinds
    <3>3. slot' \in Slots
      <4>1. slot.resumes + 1 \in Nat
        BY <1>1
      <4>2. QED
        BY <1>1, <3>1, <4>1 DEF Slots
    <3>4. worker' \in [scene.workers -> WorkerStates]
      BY <3>1, <3>2, ResultTyped
    <3>5. QED
      BY <1>1, <1>2, <3>1, <3>3, <3>4
  <2>3. QED
    BY <1>2, <1>4, <2>1, <2>2 DEF uxn_resume
<1>11. CASE conn[c].method = "read_memory"
  <2>1. read_memory(w, c) /\ UNCHANGED device
    BY <1>11 DEF WorkerOperates
  <2>2. PICK a \in Answers : Result(w, a)
    BY <1>1, <2>1, Records DEF read_memory, Kinds
  <2>3. QED
    BY <1>2, <1>3, <2>1, <2>2 DEF device
<1>12. CASE conn[c].method = "read_bp_info"
  <2>1. read_bp_info(w, c)
    BY <1>12 DEF WorkerOperates
  <2>2. PICK a \in Answers : Result(w, a) /\ UNCHANGED <<rev, table, slot>>
    BY <1>1, <2>1, Records DEF read_bp_info, Fails, device, Kinds
  <2>3. QED
    BY <1>2, <1>3, <2>2
<1>13. QED
  BY <1>2, <1>5, <1>6, <1>7, <1>8, <1>9, <1>10, <1>11, <1>12 DEF Methods

\* Only a successful change is counted.
LEMMA CountTyped ==
  ASSUME Typed, NEW c \in DOMAIN conn, conn[c].who \in Bridges, conn[c].id \in Calls(conn[c].who),
         Counted(c)
  PROVE  /\ executed' = [b \in Bridges |-> executed'[b]]
         /\ \A b \in Bridges : executed'[b] \in [Calls(b) -> Nat]
         /\ executed'[conn[c].who][conn[c].id] = executed[conn[c].who][conn[c].id] + 1
         /\ \A b \in Bridges : \A i \in Calls(b) :
               ~(b = conn[c].who /\ i = conn[c].id) => executed'[b][i] = executed[b][i]
PROOF
<1>. DEFINE b0 == conn[c].who
            i0 == conn[c].id
<1>1. executed = [b \in Bridges |-> executed[b]] /\ executed[b0] \in [Calls(b0) -> Nat]
      /\ executed[b0][i0] \in Nat
  BY DEF Typed
<1>2. executed' = [executed EXCEPT ![b0] = [executed[b0] EXCEPT ![i0] = executed[b0][i0] + 1]]
  BY DEF Counted
<1>3. /\ DOMAIN executed' = Bridges
      /\ executed'[b0] = [executed[b0] EXCEPT ![i0] = executed[b0][i0] + 1]
      /\ \A b \in Bridges : b # b0 => executed'[b] = executed[b]
  BY <1>1, <1>2
<1>4. executed' = [b \in Bridges |-> executed'[b]]
  BY <1>1, <1>2
<1>5. /\ executed'[b0] \in [Calls(b0) -> Nat] /\ executed'[b0][i0] = executed[b0][i0] + 1
      /\ \A i \in Calls(b0) : i # i0 => executed'[b0][i] = executed[b0][i]
  BY <1>1, <1>3
<1>6. QED
  BY <1>3, <1>4, <1>5 DEF Typed

\* The connections that bridges and workers update exist.
LEMMA InDomain ==
  ASSUME Typed, Placed, Asked
  PROVE  /\ \A b \in Bridges : bridge[b].at = "waiting" => bridge[b].conn \in DOMAIN conn
         /\ \A w \in scene.workers : Holds(w) => worker[w].conn \in DOMAIN conn
         /\ \A c \in DOMAIN conn : conn[c] \in Conns /\ conn[c].answer \in Answers
         /\ \A b \in Bridges : bridge[b] \in BridgeStates
         /\ \A w \in scene.workers : worker[w] \in WorkerStates /\ worker[w].answer \in Answers
PROOF
<1>1. \A c \in DOMAIN conn : conn[c] \in Conns
  BY DEF Typed
<1>2. \A w \in scene.workers : worker[w] \in WorkerStates
  BY DEF Typed
<1>3. QED
  BY <1>1, <1>2 DEF Typed, Placed, Asked, Conns, WorkerStates

\* A bridge stops waiting: what it does with its connection.
LEMMA BridgeDone ==
  ASSUME Typed, Placed, Asked, NEW b \in Bridges, Reply(b) \/ GiveUp(b) \/ Disconnected(b)
  PROVE  LET c == bridge[b].conn
         IN  /\ bridge[b].at = "waiting" /\ c \in DOMAIN conn
             /\ bridge' = [bridge EXCEPT ![b] = bridge'[b]] /\ bridge'[b] \in BridgeStates
             /\ \/ conn' = [conn EXCEPT ![c] = Over] /\ conn[c].state = "closed"
                \/ conn' = [conn EXCEPT ![c] = [conn[c] EXCEPT !.left = TRUE]]
             /\ bridge'[b].at # "waiting"
PROOF
<1>. DEFINE c == bridge[b].conn
<1>1. bridge[b].at = "waiting" /\ c \in DOMAIN conn /\ bridge[b] \in BridgeStates
      /\ conn[c].answer \in Answers /\ bridge \in [Bridges -> BridgeStates]
  BY InDomain DEF Reply, GiveUp, Disconnected, Typed
<1>2. \A r : bridge' = [bridge EXCEPT ![b] = r] /\ r \in BridgeStates =>
         bridge' = [bridge EXCEPT ![b] = bridge'[b]] /\ bridge'[b] = r
  BY <1>1
<1>3. CASE Reply(b)
  <2>1. bridge' = [bridge EXCEPT ![b] = Taken(bridge[b], conn[c].answer)]
        /\ conn' = [conn EXCEPT ![c] = Over] /\ conn[c].state = "closed"
    BY <1>3 DEF Reply, Closed
  <2>2. Taken(bridge[b], conn[c].answer) \in BridgeStates
    BY <1>1 DEF BridgeStates, Answers, Taken
  <2>3. Taken(bridge[b], conn[c].answer).at # "waiting"
    BY <1>1 DEF BridgeStates, Taken
  <2>4. QED
    BY <1>1, <1>2, <2>1, <2>2, <2>3
<1>4. CASE GiveUp(b)
  <2>1. PICK r : /\ bridge' = [bridge EXCEPT ![b] = r]
                 /\ \/ r = [bridge[b] EXCEPT !.at = "retry", !.attempt = @ + 1]
                    \/ r = [bridge[b] EXCEPT !.at = "idle", !.out = "error"]
    BY <1>4 DEF GiveUp
  <2>2. r \in BridgeStates
    BY <1>1, <2>1, BridgeUpdates, Records DEF Methods, Tools
  <2>3. r.at # "waiting"
    BY <1>1, <2>1 DEF BridgeStates
  <2>4. \/ conn' = [conn EXCEPT ![c] = Over] /\ conn[c].state = "closed"
        \/ conn' = [conn EXCEPT ![c] = [conn[c] EXCEPT !.left = TRUE]]
    BY <1>4 DEF GiveUp, Closed
  <2>5. QED
    BY <1>1, <1>2, <2>1, <2>2, <2>3, <2>4
<1>5. CASE Disconnected(b)
  <2>1. bridge' = [bridge EXCEPT ![b] = [bridge[b] EXCEPT !.at = "idle", !.out = "raised"]]
        /\ conn' = [conn EXCEPT ![c] = Over] /\ conn[c].state = "closed"
    BY <1>5 DEF Disconnected, Closed
  <2>2. [bridge[b] EXCEPT !.at = "idle", !.out = "raised"] \in BridgeStates
        /\ [bridge[b] EXCEPT !.at = "idle", !.out = "raised"].at = "idle"
    BY <1>1 DEF BridgeStates
  <2>3. QED
    BY <1>1, <1>2, <2>1, <2>2
<1>6. QED
  BY <1>3, <1>4, <1>5

\* A request that may change something is one of the calls its bridge may make.
LEMMA CallNumbers ==
  ASSUME Typed, Asked, NEW c \in DOMAIN conn, conn[c].method \in Mutators
  PROVE  conn[c].who \in Bridges /\ conn[c].id \in Calls(conn[c].who)
PROOF
<1>1. conn[c].who \in Bridges /\ conn[c].id \in 1..bridge[conn[c].who].id
  BY DEF Asked, Mutators
<1>2. bridge[conn[c].who].id \in Nat /\ bridge[conn[c].who].id <= scene.calls[conn[c].who]
      /\ scene.calls[conn[c].who] \in Nat
  BY <1>1, SceneAssumption DEF Asked, Typed, BridgeStates
<1>3. QED
  BY <1>1, <1>2 DEF Calls

\* What a client that is no bridge asks for.
LEMMA AskedByStranger ==
  \A sent : (IF sent = "whole" THEN "read_memory" ELSE "none") \in Methods \cup {"none"}
  BY DEF Methods

\* A client that is no bridge goes away: its connection is over, or abandoned.
LEMMA StrangerGone ==
  ASSUME Typed, Placed, Asked, NEW c \in DOMAIN conn, StrangerLeaves(c)
  PROVE  \E n \in Conns :
            /\ conn' = [conn EXCEPT ![c] = n] /\ n.state = conn[c].state
            /\ \/ n = Over /\ conn[c].state = "closed"
               \/ Same(n, conn[c]) /\ n.answer = conn[c].answer
PROOF
<1>1. conn[c] \in Conns
  BY InDomain
<1>2. CASE conn[c].state = "closed"
  <2>1. conn' = [conn EXCEPT ![c] = Over]
    BY <1>2 DEF StrangerLeaves, Closed
  <2>2. QED
    BY <1>2, <2>1, Records, OverIs
<1>3. CASE conn[c].state # "closed"
  <2>1. conn' = [conn EXCEPT ![c] = [conn[c] EXCEPT !.left = TRUE]]
    BY <1>3 DEF StrangerLeaves, Closed
  <2>2. PICK n \in Conns : /\ n = [conn[c] EXCEPT !.left = TRUE]
                           /\ Same(n, conn[c]) /\ n.answer = conn[c].answer /\ n.state = conn[c].state
    BY <1>1, ConnUpdates, Records
  <2>3. QED
    BY <2>1, <2>2
<1>4. QED
  BY <1>2, <1>3

\* Every step keeps every variable in its domain.
LEMMA TypedStep ==
  ASSUME Typed, Placed, Asked, [Next]_vars
  PROVE  Typed'
PROOF
<1>. DEFINE Lines == taken' \in Nat /\ backlog' \in Seq(Nat) /\ queue' \in Seq(Nat)
            Rest == UNCHANGED <<scene, rev, table, slot, executed>>
<1>0. ASSUME Rest, Lines, conn' \in Seq(Conns), worker' \in [scene.workers -> WorkerStates],
             bridge' \in [Bridges -> BridgeStates]
      PROVE  Typed'
  BY <1>0 DEF Typed, Calls
<1>1. CASE UNCHANGED vars
  BY <1>0, <1>1 DEF vars, Typed
<1>2. ASSUME NEW b \in Bridges, NEW t \in scene.tools[b], CallTool(b, t)
      PROVE  Typed'
  <2>1. conn' \in Seq(Conns) /\ backlog' \in Seq(Nat) /\ bridge' \in [Bridges -> BridgeStates]
    BY <1>2, ToolCalls, ConnectTyped DEF CallTool
  <2>2. QED
    BY <1>0, <1>2, <2>1 DEF CallTool, control, device, Typed
<1>3. ASSUME NEW b \in Bridges, ThenResume(b)
      PROVE  Typed'
  <2>1. bridge[b] \in BridgeStates /\ "uxn_resume" \in Methods
    BY InDomain DEF Methods
  <2>2. conn' \in Seq(Conns) /\ backlog' \in Seq(Nat) /\ bridge' \in [Bridges -> BridgeStates]
    BY <1>3, <2>1, ConnectTyped DEF ThenResume
  <2>3. QED
    BY <1>0, <1>3, <2>2 DEF ThenResume, control, device, Typed
<1>4. ASSUME NEW b \in Bridges, Retry(b)
      PROVE  Typed'
  <2>1. bridge[b] \in BridgeStates /\ bridge[b].method \in Methods
    BY <1>4, InDomain DEF Retry, Asked
  <2>2. conn' \in Seq(Conns) /\ backlog' \in Seq(Nat) /\ bridge' \in [Bridges -> BridgeStates]
    BY <1>4, <2>1, ConnectTyped DEF Retry
  <2>3. QED
    BY <1>0, <1>4, <2>2 DEF Retry, control, device, Typed
<1>5. ASSUME NEW b \in Bridges, Reply(b) \/ GiveUp(b) \/ Disconnected(b)
      PROVE  Typed'
  <2>1. PICK c \in DOMAIN conn, n \in Conns : conn' = [conn EXCEPT ![c] = n]
    <3>1. bridge[b].conn \in DOMAIN conn /\ conn[bridge[b].conn] \in Conns
      BY <1>5, BridgeDone, InDomain
    <3>2. [conn[bridge[b].conn] EXCEPT !.left = TRUE] \in Conns
      BY <3>1, ConnUpdates, Records
    <3>3. QED
      BY <1>5, <3>1, <3>2, BridgeDone, Records
  <2>2. conn' \in Seq(Conns)
    BY <2>1, Replaced
  <2>3. bridge' \in [Bridges -> BridgeStates]
    BY <1>5, BridgeDone DEF Typed
  <2>4. UNCHANGED <<scene, taken, backlog, queue, worker, rev, table, slot, executed>>
    BY <1>5 DEF Reply, GiveUp, Disconnected, control, accepts, device
  <2>5. QED
    BY <1>0, <2>2, <2>3, <2>4 DEF Typed
<1>6. ASSUME NEW sent \in {"whole", "part", "refused"}, NEW m \in Methods \cup {"none"},
             conn' = Append(conn, NewConn(NoBridge, m, 0, sent, 0, 0)),
             backlog' = Append(backlog, Len(conn) + 1), Rest,
             UNCHANGED <<taken, queue, worker, bridge>>
      PROVE  Typed'
  <2>1. NewConn(NoBridge, m, 0, sent, 0, 0) \in Conns
    BY MadeConn DEF Typed
  <2>2. conn' \in Seq(Conns) /\ Len(conn) + 1 \in Nat
    BY <1>6, <2>1, Appended
  <2>3. backlog' \in Seq(Nat)
    BY <1>6, <2>2, Joins DEF Typed
  <2>4. QED
    BY <1>0, <1>6, <2>2, <2>3 DEF Typed
<1>7. CASE ServerAccepts
  <2>1. /\ backlog # <<>> /\ backlog \in Seq(Nat) /\ Head(backlog) \in Nat
        /\ Tail(backlog) \in Seq(Nat)
    BY <1>7, Leaves DEF ServerAccepts, Typed, Placed
  <2>2. /\ taken' \in {0, Head(backlog)} /\ backlog' \in {<<>>, Tail(backlog)}
        /\ conn' = conn \/ \E S : conn' = CloseAll(conn, S)
        /\ Rest /\ UNCHANGED <<queue, worker, bridge>>
    BY <1>7 DEF ServerAccepts, control, device
  <2>3. conn' \in Seq(Conns)
    BY <2>2, ClosedAll DEF Typed
  <2>4. Lines
    <3>1. taken' \in Nat /\ queue' \in Seq(Nat)
      BY <2>1, <2>2 DEF Typed
    <3>2. backlog' \in Seq(Nat)
      BY <2>1, <2>2, EmptyLine
    <3>3. QED
      BY <3>1, <3>2
  <2>5. QED
    BY <1>0, <2>2, <2>3, <2>4 DEF Typed
<1>8. CASE ServerPushes
  <2>1. /\ taken' = 0 /\ queue' \in {queue, Append(queue, taken)}
        /\ conn' = conn \/ \E S : conn' = CloseAll(conn, S)
        /\ Rest /\ UNCHANGED <<backlog, worker, bridge>>
    BY <1>8 DEF ServerPushes, control, device
  <2>2. conn' \in Seq(Conns)
    BY <2>1, ClosedAll DEF Typed
  <2>3. Lines
    BY <2>1, Joins DEF Typed
  <2>4. QED
    BY <1>0, <2>1, <2>2, <2>3 DEF Typed
<1>9. CASE ServerNotifies
  <2>1. worker' = worker
        \/ \E w \in scene.workers : worker' = [worker EXCEPT ![w] = [worker[w] EXCEPT !.at = "ready"]]
    BY <1>9 DEF ServerNotifies
  <2>2. \A w \in scene.workers : [worker[w] EXCEPT !.at = "ready"] \in WorkerStates
    BY InDomain DEF WorkerStates
  <2>3. worker' \in [scene.workers -> WorkerStates]
    BY <2>1, <2>2 DEF Typed
  <2>4. QED
    BY <1>0, <1>9, <2>3 DEF ServerNotifies, control, device, Typed
<1>10. ASSUME NEW w \in scene.workers, WorkerTakes(w)
       PROVE  Typed'
  <2>1. CASE queue = <<>>
    <3>1. [worker[w] EXCEPT !.at = IF stopping THEN "exited" ELSE "waiting"] \in WorkerStates
      BY InDomain DEF WorkerStates
    <3>2. worker' \in [scene.workers -> WorkerStates] /\ queue' = queue
      BY <1>10, <2>1, <3>1 DEF WorkerTakes, Typed
    <3>3. QED
      BY <1>0, <1>10, <3>2 DEF WorkerTakes, control, accepts, device, Typed
  <2>2. CASE queue # <<>>
    <3>1. Head(queue) \in Nat /\ Tail(queue) \in Seq(Nat)
      BY <2>2, Leaves DEF Typed, Placed
    <3>2. [Free EXCEPT !.at = "receive", !.conn = Head(queue)] \in WorkerStates
      BY <3>1, Records DEF WorkerStates
    <3>3. worker' \in [scene.workers -> WorkerStates] /\ queue' = Tail(queue)
      BY <1>10, <2>2, <3>2 DEF WorkerTakes, Typed
    <3>4. QED
      BY <1>0, <1>10, <3>1, <3>3 DEF WorkerTakes, control, accepts, device, Typed
  <2>3. QED
    BY <2>1, <2>2
<1>11. ASSUME NEW w \in scene.workers, WorkerReceives(w)
       PROVE  Typed'
  <2>1. /\ [worker[w] EXCEPT !.at = "operate", !.ctx = rev] \in WorkerStates
        /\ [worker[w] EXCEPT !.at = "answer", !.answer = Error] \in WorkerStates
    BY InDomain, Records DEF WorkerStates, Typed
  <2>2. worker' \in [scene.workers -> WorkerStates]
    BY <1>11, <2>1 DEF WorkerReceives, Typed
  <2>3. QED
    BY <1>0, <1>11, <2>2 DEF WorkerReceives, control, accepts, device, Typed
<1>12. ASSUME NEW w \in scene.workers, WorkerOperates(w)
       PROVE  Typed'
  <2>1. /\ worker' \in [scene.workers -> WorkerStates]
        /\ rev' \in Nat /\ table' \in Nat /\ slot' \in Slots
    BY <1>12, OperateTyped
  <2>2. UNCHANGED <<scene, taken, backlog, queue, conn, bridge>>
    BY <1>12 DEF WorkerOperates, control, accepts
  <2>3. /\ executed' = [b \in Bridges |-> executed'[b]]
        /\ \A b \in Bridges : executed'[b] \in [Calls(b) -> Nat]
    <3>1. worker[w].at = "operate" /\ worker[w].conn \in DOMAIN conn
      BY <1>12, InDomain DEF WorkerOperates, Holds
    <3>2. executed' = executed
          \/ (Counted(worker[w].conn) /\ conn[worker[w].conn].method \in Mutators)
      BY <1>12, OperateTyped DEF WorkerOperates, Methods, Mutators, open_process, symbol_init,
           uxn_resume, read_bp_info, Fails, device
    <3>3. QED
      BY <3>1, <3>2, CallNumbers, CountTyped DEF Typed
  <2>4. QED
    BY <2>1, <2>2, <2>3 DEF Typed, Calls
<1>13. ASSUME NEW w \in scene.workers, StoreSymbols(w)
       PROVE  Typed'
  <2>1. worker[w].ctx \in Nat
    BY InDomain DEF WorkerStates
  <2>2. Answer("loaded", worker[w].ctx, 0) \in Answers
    BY <2>1, Records DEF Kinds
  <2>3. worker' \in [scene.workers -> WorkerStates]
    BY <1>13, <2>2, ResultTyped DEF StoreSymbols
  <2>4. QED
    BY <1>13, <2>1, <2>3 DEF StoreSymbols, control, accepts, Typed, Calls
<1>14. ASSUME NEW w \in scene.workers, WorkerAnswers(w)
       PROVE  Typed'
  <2>1. worker[w].conn \in DOMAIN conn /\ worker[w].answer \in Answers
        /\ conn[worker[w].conn] \in Conns
    BY <1>14, InDomain DEF WorkerAnswers, Holds
  <2>2. \/ conn' = [conn EXCEPT ![worker[w].conn] = Over]
        \/ conn' = [conn EXCEPT ![worker[w].conn] =
                      [conn[worker[w].conn] EXCEPT !.state = "closed", !.answer = worker[w].answer]]
    BY <1>14, <2>1 DEF WorkerAnswers
  <2>3. conn' \in Seq(Conns)
    BY <2>1, <2>2, ConnUpdates, Records, Replaced
  <2>4. worker' \in [scene.workers -> WorkerStates]
    BY <1>14, Records DEF WorkerAnswers, Typed
  <2>5. QED
    BY <1>0, <1>14, <2>3, <2>4 DEF WorkerAnswers, control, accepts, device, Typed
<1>15. CASE Hit \/ OtherResumes
  <2>1. slot.seq + 1 \in Nat /\ slot.resumes + 1 \in Nat /\ slot \in Slots
    BY DEF Typed, Slots
  <2>2. \/ slot' = [slot EXCEPT !.paused = TRUE, !.seq = slot.seq + 1]
        \/ slot' = [slot EXCEPT !.paused = FALSE, !.resumes = slot.resumes + 1]
    BY <1>15 DEF Hit, OtherResumes
  <2>3. slot' \in Slots
    BY <2>1, <2>2 DEF Slots
  <2>4. UNCHANGED <<scene, taken, backlog, queue, worker, conn, bridge, rev, table, executed>>
    BY <1>15 DEF Hit, OtherResumes, control, accepts
  <2>5. QED
    BY <2>3, <2>4 DEF Typed, Calls
<1>16. CASE StopCloses \/ StopSwaps
  <2>1. /\ backlog' \in {backlog, <<>>} /\ queue' \in {queue, <<>>}
        /\ conn' = conn \/ \E S : conn' = CloseAll(conn, S)
        /\ Rest /\ UNCHANGED <<taken, worker, bridge>>
    BY <1>16 DEF StopCloses, StopSwaps, accepts, device
  <2>2. conn' \in Seq(Conns)
    BY <2>1, ClosedAll DEF Typed
  <2>3. Lines
    BY <2>1, EmptyLine DEF Typed
  <2>4. QED
    BY <1>0, <2>1, <2>2, <2>3 DEF Typed
<1>17. CASE StopNotifies
  <2>1. \A w \in scene.workers : [worker[w] EXCEPT !.at = "ready"] \in WorkerStates
    BY InDomain DEF WorkerStates
  <2>2. worker' \in [scene.workers -> WorkerStates]
    BY <1>17, <2>1 DEF StopNotifies, Typed
  <2>3. QED
    BY <1>0, <1>17, <2>2 DEF StopNotifies, accepts, device, Typed
<1>18. CASE ServerLoads \/ ServerEnters \/ StopBegins \/ StopJoins \/ StopReturns
  BY <1>0, <1>18 DEF ServerLoads, ServerEnters, StopBegins, StopJoins, StopReturns, control,
     accepts, device, Typed
<1>19. QED
  <2>1. ASSUME NEW sent \in {"refused", "part", "whole"}, Stranger(sent)
        PROVE  Typed'
    BY <1>6, <2>1, AskedByStranger DEF Stranger, control, device
  <2>2. CASE StopWakes
    BY <1>6, <2>2 DEF StopWakes, device
  <2>3. ASSUME NEW c \in DOMAIN conn, StrangerLeaves(c)
        PROVE  Typed'
    <3>1. PICK n \in Conns : conn' = [conn EXCEPT ![c] = n]
      BY <2>3, StrangerGone
    <3>2. conn' \in Seq(Conns)
      BY <3>1, Replaced
    <3>3. QED
      BY <1>0, <2>3, <3>2 DEF StrangerLeaves, control, accepts, device, Typed
  <2>4. QED
    BY <1>1, <1>2, <1>3, <1>4, <1>5, <1>7, <1>8, <1>9, <1>10, <1>11, <1>12, <1>13, <1>14, <1>15,
       <1>16, <1>17, <1>18, <2>1, <2>2, <2>3
    DEF Next, WorkerStep, ServerStep, StopStep

-----------------------------------------------------------------------------
(* Where the connections are.                                               *)

\* Steps that move no connection.
LEMMA PlacedSteady ==
  ASSUME Typed, Placed, UNCHANGED <<scene, taken, backlog, queue>>,
         server' = "push" <=> server = "push",
         \A w \in scene.workers : /\ Holds(w)' <=> Holds(w)
                                  /\ Holds(w) => worker'[w].conn = worker[w].conn,
         \A c \in DOMAIN conn : /\ c \in DOMAIN conn'
                                /\ conn[c].state = "open" => conn'[c].state = "open"
  PROVE  Placed'
PROOF
<1>1. \A c : InLine(c)' <=> InLine(c)
  BY DEF InLine
<1>2. \A w, v \in scene.workers : Holds(w)' /\ Has(v, worker[w].conn)' => w = v
  <2>1. SUFFICES ASSUME NEW w \in scene.workers, NEW v \in scene.workers, Holds(w)',
                        Has(v, worker[w].conn)'
                 PROVE  w = v
    OBVIOUS
  <2>2. Holds(w) /\ Has(v, worker[w].conn)
    BY <2>1 DEF Has
  <2>3. QED
    BY <2>2 DEF Placed
<1>3. QED
  BY <1>1, <1>2 DEF Placed

\* A connection is made.
LEMMA PlacedAppend ==
  ASSUME Typed, Placed, NEW n \in Conns, n.state = "open", conn' = Append(conn, n),
         backlog' = Append(backlog, Len(conn) + 1), UNCHANGED <<scene, server, taken, queue, worker>>
  PROVE  Placed'
PROOF
<1>. DEFINE k == Len(conn) + 1
<1>1. /\ k \in Nat \ {0} /\ k \notin DOMAIN conn /\ DOMAIN conn' = DOMAIN conn \cup {k}
      /\ conn'[k] = n /\ \A c \in DOMAIN conn : conn'[c] = conn[c]
  BY Appended
<1>2. \A c \in Nat : InLine(c) => c \in DOMAIN conn
  BY DEF Placed
<1>3. k \notin InSeq(backlog) /\ k \notin InSeq(queue) /\ k # taken
  BY <1>1, <1>2 DEF InLine
<1>4. InSeq(backlog') = InSeq(backlog) \cup {k} /\ Distinct(backlog')
  BY <1>1, <1>3, Joins DEF Typed, Placed
<1>5. \A c : InLine(c)' <=> InLine(c) \/ c = k
  BY <1>1, <1>4 DEF InLine
<1>6. \A w \in scene.workers : Holds(w)' <=> Holds(w)
  BY DEF Holds
<1>7. QED
  BY <1>1, <1>3, <1>4, <1>5, <1>6 DEF Placed, Has

\* Connections are closed and go from the line.
LEMMA PlacedClose ==
  ASSUME Typed, Placed, NEW S, conn' = CloseAll(conn, S), UNCHANGED <<scene, worker>>,
         server' = "push" <=> taken' # 0,
         Distinct(backlog'), Distinct(queue'),
         \A c : c \in InSeq(backlog') => c \in InSeq(backlog) \ S,
         \A c : c \in InSeq(queue') => c \in InSeq(queue) \ S,
         taken' # 0 => taken' = taken /\ taken \notin S,
         \A c \in S : InLine(c)
  PROVE  Placed'
PROOF
<1>1. /\ DOMAIN conn' = DOMAIN conn /\ \A c \in DOMAIN conn : c \notin S => conn'[c] = conn[c]
  BY ClosedAll
<1>2. \A c : InLine(c)' => InLine(c) /\ c \notin S
  BY DEF InLine
<1>3. \A w \in scene.workers : (Holds(w)' <=> Holds(w)) /\ (Holds(w) => worker[w].conn \notin S)
  BY DEF Holds, Placed
<1>4. QED
  BY <1>1, <1>2, <1>3 DEF Placed, Has

\* The head of the backlog goes to the accept thread.
LEMMA PlacedAccept ==
  ASSUME Typed, Placed, server # "push", server' = "push", backlog # <<>>,
         taken' = Head(backlog), backlog' = Tail(backlog), UNCHANGED <<scene, queue, worker, conn>>
  PROVE  Placed'
PROOF
<1>1. /\ Head(backlog) \in InSeq(backlog) /\ Head(backlog) \in Nat
      /\ InSeq(backlog') = InSeq(backlog) \ {Head(backlog)} /\ Distinct(backlog')
  BY Leaves DEF Typed, Placed
<1>2. Head(backlog) # 0
  <2>1. Head(backlog) \in DOMAIN conn
    BY <1>1 DEF Placed, InLine
  <2>2. QED
    BY <2>1 DEF Typed
<1>3. taken = 0
  BY DEF Placed
<1>4. \A c : InLine(c)' <=> InLine(c)
  BY <1>1, <1>2, <1>3 DEF InLine
<1>5. \A w \in scene.workers : Holds(w)' <=> Holds(w)
  BY DEF Holds
<1>6. QED
  BY <1>1, <1>2, <1>4, <1>5 DEF Placed, Has

\* The accept thread's connection goes to the queue.
LEMMA PlacedPush ==
  ASSUME Typed, Placed, server = "push", server' # "push", queue' = Append(queue, taken),
         taken' = 0, UNCHANGED <<scene, backlog, worker, conn>>
  PROVE  Placed'
PROOF
<1>1. taken # 0 /\ taken \notin InSeq(queue) /\ taken \notin InSeq(backlog)
  BY DEF Placed
<1>2. InSeq(queue') = InSeq(queue) \cup {taken} /\ Distinct(queue')
  BY <1>1, Joins DEF Typed, Placed
<1>3. \A c : InLine(c)' <=> InLine(c)
  BY <1>1, <1>2 DEF InLine
<1>4. \A w \in scene.workers : Holds(w)' <=> Holds(w)
  BY DEF Holds
<1>5. QED
  BY <1>1, <1>2, <1>3, <1>4 DEF Placed, Has

\* A worker takes the head of the queue.
LEMMA PlacedTake ==
  ASSUME Typed, Placed, NEW w \in scene.workers, WorkerTakes(w), queue # <<>>
  PROVE  Placed'
PROOF
<1>1. /\ Head(queue) \in InSeq(queue) /\ Head(queue) \in Nat
      /\ InSeq(Tail(queue)) = InSeq(queue) \ {Head(queue)} /\ Distinct(Tail(queue))
  BY Leaves DEF Typed, Placed
<1>2. worker[w].at = "ready" /\ queue' = Tail(queue)
      /\ worker' = [worker EXCEPT ![w] = [Free EXCEPT !.at = "receive", !.conn = Head(queue)]]
      /\ UNCHANGED <<scene, server, taken, backlog, conn>>
  BY DEF WorkerTakes, control, accepts
<1>3. worker'[w].at = "receive" /\ worker'[w].conn = Head(queue)
      /\ \A v \in scene.workers : v # w => worker'[v] = worker[v]
  BY <1>2 DEF Typed, Free
<1>4. ~Holds(w) /\ Holds(w)' /\ \A v \in scene.workers : v # w => (Holds(v)' <=> Holds(v))
  BY <1>2, <1>3 DEF Holds
<1>5. \A c : InLine(c)' <=> InLine(c) /\ c # Head(queue)
  BY <1>1, <1>2 DEF InLine, Placed
<1>6. InLine(Head(queue)) /\ \A v \in scene.workers : Holds(v) => worker[v].conn # Head(queue)
  BY <1>1 DEF InLine, Placed
<1>7. \A u, v \in scene.workers : Holds(u)' /\ Has(v, worker[u].conn)' => u = v
  <2>1. SUFFICES ASSUME NEW u \in scene.workers, NEW v \in scene.workers, Holds(u)', Holds(v)',
                        worker'[v].conn = worker'[u].conn
                 PROVE  u = v
    BY DEF Has
  <2>2. CASE u # w /\ v # w
    BY <1>3, <1>4, <2>1, <2>2 DEF Placed, Has
  <2>3. CASE u = w \/ v = w
    BY <1>3, <1>4, <1>6, <2>1, <2>3
  <2>4. QED
    BY <2>2, <2>3
<1>8. QED
  BY <1>1, <1>2, <1>3, <1>4, <1>5, <1>6, <1>7 DEF Placed

\* A worker answers and closes its connection.
LEMMA PlacedAnswer ==
  ASSUME Typed, Placed, Asked, NEW w \in scene.workers, WorkerAnswers(w)
  PROVE  Placed'
PROOF
<1>. DEFINE c == worker[w].conn
<1>1. Holds(w) /\ c \in DOMAIN conn /\ conn[c] \in Conns /\ worker[w].answer \in Answers
  BY InDomain DEF WorkerAnswers, Holds
<1>2. PICK n \in Conns : conn' = [conn EXCEPT ![c] = n]
  <2>1. [conn[c] EXCEPT !.state = "closed", !.answer = worker[w].answer] \in Conns
    BY <1>1, ConnUpdates
  <2>2. QED
    BY <2>1, Records DEF WorkerAnswers
<1>3. DOMAIN conn' = DOMAIN conn /\ \A d \in DOMAIN conn : d # c => conn'[d] = conn[d]
  BY <1>1, <1>2, Replaced
<1>4. ~Holds(w)' /\ \A v \in scene.workers : v # w => worker'[v] = worker[v] /\ (Holds(v)' <=> Holds(v))
  BY DEF WorkerAnswers, Typed, Free, Holds
<1>5. \A d : (InLine(d)' <=> InLine(d)) /\ (InLine(d) => d # c)
  BY <1>1 DEF InLine, Placed, WorkerAnswers, accepts
<1>6. \A v \in scene.workers : Holds(v)' => Holds(v) /\ v # w /\ worker[v].conn # c
  BY <1>1, <1>4 DEF Placed, Has
<1>7. UNCHANGED <<scene, server, taken, backlog, queue>>
  BY DEF WorkerAnswers, control, accepts
<1>8. \A u, v \in scene.workers : Holds(u)' /\ Has(v, worker[u].conn)' => u = v
  BY <1>4, <1>6 DEF Placed, Has
<1>9. QED
  BY <1>3, <1>4, <1>5, <1>6, <1>7, <1>8 DEF Placed

\* A bridge's request joins the backlog, or is refused.
LEMMA PlacedConnect ==
  ASSUME Typed, Placed, NEW b \in Bridges, NEW br \in BridgeStates, NEW m \in Methods,
         Connect(b, br, m), UNCHANGED <<scene, server, taken, queue, worker>>
  PROVE  Placed'
PROOF
<1>1. CASE UNCHANGED <<conn, backlog>>
  BY <1>1, PlacedSteady DEF Holds
<1>2. CASE ~UNCHANGED <<conn, backlog>>
  <2>1. PICK n \in Conns : /\ n = NewConn(b, m, br.id, "whole", br.event, br.mark)
                           /\ conn' = Append(conn, n) /\ backlog' = Append(backlog, Len(conn) + 1)
    BY <1>2, Connects
  <2>2. n.state = "open"
    BY <2>1 DEF NewConn
  <2>3. QED
    BY <2>1, <2>2, PlacedAppend
<1>3. QED
  BY <1>1, <1>2

\* A worker goes on with its connection.
LEMMA GoesOn ==
  ASSUME Typed, Placed, Asked, NEW w \in scene.workers,
         WorkerReceives(w) \/ WorkerOperates(w) \/ StoreSymbols(w)
  PROVE  /\ Holds(w) /\ Holds(w)' /\ worker'[w].conn = worker[w].conn
         /\ \A v \in scene.workers : v # w => worker'[v] = worker[v]
         /\ worker'[w].at \in {"operate", "store", "answer"}
         /\ UNCHANGED <<scene, server, taken, backlog, queue, conn, bridge>>
PROOF
<1>1. worker[w] \in WorkerStates /\ worker \in [scene.workers -> WorkerStates]
  BY DEF Typed
<1>2. UNCHANGED <<scene, server, taken, backlog, queue, conn, bridge>>
  BY DEF WorkerReceives, WorkerOperates, StoreSymbols, control, accepts
<1>3. Holds(w)
  BY DEF Holds, WorkerReceives, WorkerOperates, StoreSymbols
<1>4. PICK r : /\ worker' = [worker EXCEPT ![w] = r]
               /\ \/ r = [worker[w] EXCEPT !.at = "operate", !.ctx = rev]
                  \/ r = [worker[w] EXCEPT !.at = "store"]
                  \/ \E a : r = [worker[w] EXCEPT !.at = "answer", !.answer = a]
  <2>1. CASE WorkerReceives(w)
    BY <2>1 DEF WorkerReceives
  <2>2. CASE StoreSymbols(w)
    BY <2>2 DEF StoreSymbols, Result
  <2>3. CASE WorkerOperates(w)
    <3>1. conn[worker[w].conn].method \in Methods
      BY <2>3, OperateTyped
    <3>2. (\E a : Result(w, a)) \/ worker' = [worker EXCEPT ![w].at = "store"]
      BY <2>3, <3>1 DEF WorkerOperates, Methods, open_process, symbol_init, symbol_list, uxn_wait,
           uxn_status, uxn_resume, read_memory, read_bp_info, Fails
    <3>3. CASE worker' = [worker EXCEPT ![w].at = "store"]
      BY <3>3
    <3>4. CASE \E a : Result(w, a)
      <4>1. PICK a : Result(w, a)
        BY <3>4
      <4>2. worker' = [worker EXCEPT ![w] = [worker[w] EXCEPT !.at = "answer", !.answer = a]]
        BY <1>1, <4>1 DEF Result
      <4>3. QED
        BY <4>2
    <3>5. QED
      BY <3>2, <3>3, <3>4
  <2>4. QED
    BY <2>1, <2>2, <2>3
<1>5. r.conn = worker[w].conn /\ r.at \in {"operate", "store", "answer"}
  BY <1>1, <1>4 DEF WorkerStates
<1>6. worker'[w] = r /\ \A v \in scene.workers : v # w => worker'[v] = worker[v]
  BY <1>1, <1>4
<1>7. QED
  BY <1>2, <1>3, <1>5, <1>6 DEF Holds

\* Every connection is where it was, or one place further, or closed.
LEMMA PlacedStep ==
  ASSUME Typed, Placed, Asked, [Next]_vars
  PROVE  Placed'
PROOF
<1>0. ASSUME UNCHANGED <<scene, taken, backlog, queue, worker, conn>>,
             server' = "push" <=> server = "push"
      PROVE  Placed'
  BY <1>0, PlacedSteady DEF Holds
<1>1. CASE UNCHANGED vars
  BY <1>0, <1>1 DEF vars
<1>2. ASSUME NEW b \in Bridges, NEW t \in scene.tools[b], CallTool(b, t)
      PROVE  Placed'
  BY <1>2, ToolCalls, PlacedConnect DEF CallTool, control
<1>3. ASSUME NEW b \in Bridges, ThenResume(b) \/ Retry(b)
      PROVE  Placed'
  <2>1. PICK m \in Methods : Connect(b, bridge[b], m)
    BY <1>3 DEF ThenResume, Retry, Asked, Methods
  <2>2. bridge[b] \in BridgeStates /\ UNCHANGED <<scene, server, taken, queue, worker>>
    BY <1>3, InDomain DEF ThenResume, Retry, control
  <2>3. QED
    BY <2>1, <2>2, PlacedConnect
<1>4. ASSUME NEW b \in Bridges, Reply(b) \/ GiveUp(b) \/ Disconnected(b)
      PROVE  Placed'
  <2>1. UNCHANGED <<scene, server, taken, backlog, queue, worker>>
    BY <1>4 DEF Reply, GiveUp, Disconnected, control, accepts
  <2>2. \A c \in DOMAIN conn : /\ c \in DOMAIN conn'
                               /\ conn[c].state = "open" => conn'[c].state = "open"
    <3>1. PICK c0 \in DOMAIN conn : c0 = bridge[b].conn
      BY <1>4, BridgeDone
    <3>2. conn[c0] \in Conns
      BY InDomain
    <3>3. CASE conn' = [conn EXCEPT ![c0] = Over] /\ conn[c0].state = "closed"
      BY <3>3, Replaced, Records
    <3>4. CASE conn' = [conn EXCEPT ![c0] = [conn[c0] EXCEPT !.left = TRUE]]
      <4>1. /\ [conn[c0] EXCEPT !.left = TRUE] \in Conns
            /\ [conn[c0] EXCEPT !.left = TRUE].state = conn[c0].state
        BY <3>2, ConnUpdates, Records
      <4>2. QED
        BY <3>4, <4>1, Replaced
    <3>5. QED
      BY <1>4, <3>1, <3>3, <3>4, BridgeDone
  <2>3. QED
    BY <2>1, <2>2, PlacedSteady DEF Holds
<1>5. ASSUME NEW sent \in {"whole", "part", "refused"}, NEW m \in Methods \cup {"none"},
             conn' = Append(conn, NewConn(NoBridge, m, 0, sent, 0, 0)),
             backlog' = Append(backlog, Len(conn) + 1),
             UNCHANGED <<scene, server, taken, queue, worker>>
      PROVE  Placed'
  <2>1. NewConn(NoBridge, m, 0, sent, 0, 0) \in Conns
        /\ NewConn(NoBridge, m, 0, sent, 0, 0).state = "open"
    BY MadeConn DEF Typed, NewConn
  <2>2. QED
    BY <1>5, <2>1, PlacedAppend
<1>6. CASE ServerAccepts
  <2>1. server = "accept" /\ backlog # <<>> /\ UNCHANGED <<scene, queue, worker>> /\ taken = 0
    BY <1>6 DEF ServerAccepts, control, Placed
  <2>2. CASE running
    BY <1>6, <2>1, <2>2, PlacedAccept DEF ServerAccepts
  <2>3. CASE ~running /\ listening
    <3>1. /\ Head(backlog) \in InSeq(backlog) /\ Distinct(Tail(backlog))
          /\ InSeq(Tail(backlog)) = InSeq(backlog) \ {Head(backlog)}
      BY <2>1, Leaves DEF Typed, Placed
    <3>2. /\ server' = "done" /\ taken' = 0 /\ backlog' = Tail(backlog)
          /\ conn' = CloseAll(conn, {Head(backlog)})
      BY <1>6, <2>3 DEF ServerAccepts
    <3>3. \A c \in InSeq(queue) : c \notin InSeq(backlog)
      BY DEF Placed
    <3>4. /\ \A c : c \in InSeq(backlog') => c \in InSeq(backlog) \ {Head(backlog)}
          /\ \A c : c \in InSeq(queue') => c \in InSeq(queue) \ {Head(backlog)}
          /\ \A c \in {Head(backlog)} : InLine(c)
      BY <2>1, <3>1, <3>2, <3>3 DEF InLine
    <3>5. Distinct(backlog') /\ Distinct(queue') /\ server' # "push"
      BY <2>1, <3>1, <3>2 DEF Placed
    <3>6. QED
      BY <2>1, <3>2, <3>4, <3>5, PlacedClose
  <2>4. CASE ~running /\ ~listening
    <3>1. /\ server' = "done" /\ taken' = 0 /\ backlog' = <<>>
          /\ conn' = CloseAll(conn, InSeq(backlog))
      BY <1>6, <2>4 DEF ServerAccepts
    <3>2. \A c \in InSeq(queue) : c \notin InSeq(backlog)
      BY DEF Placed
    <3>3. QED
      BY <2>1, <3>1, <3>2, EmptyLine, PlacedClose DEF InLine, Placed
  <2>5. QED
    BY <2>2, <2>3, <2>4
<1>7. CASE ServerPushes
  <2>1. server = "push" /\ taken' = 0 /\ taken # 0 /\ UNCHANGED <<scene, backlog, worker>>
    BY <1>7 DEF ServerPushes, control, Placed
  <2>2. CASE ~stopping /\ Len(queue) < MaxPending
    BY <1>7, <2>1, <2>2, PlacedPush DEF ServerPushes
  <2>3. CASE ~(~stopping /\ Len(queue) < MaxPending)
    <3>1. conn' = CloseAll(conn, {taken}) /\ server' = "load" /\ queue' = queue
      BY <1>7, <2>3 DEF ServerPushes
    <3>2. taken \notin InSeq(backlog) /\ taken \notin InSeq(queue)
      BY <2>1 DEF Placed
    <3>3. /\ \A c : c \in InSeq(backlog') => c \in InSeq(backlog) \ {taken}
          /\ \A c : c \in InSeq(queue') => c \in InSeq(queue) \ {taken}
          /\ \A c \in {taken} : InLine(c)
      BY <2>1, <3>1, <3>2 DEF InLine
    <3>4. Distinct(backlog') /\ Distinct(queue') /\ server' # "push"
      BY <2>1, <3>1 DEF Placed
    <3>5. QED
      BY <2>1, <3>1, <3>3, <3>4, PlacedClose
  <2>4. QED
    BY <2>2, <2>3
<1>8. CASE ServerNotifies \/ StopNotifies
  <2>1. \/ UNCHANGED <<scene, taken, backlog, queue, conn>> /\ server # "push" /\ server' # "push"
        \/ UNCHANGED <<scene, server, taken, backlog, queue, conn>>
    BY <1>8 DEF ServerNotifies, StopNotifies, control, accepts
  <2>2. \A w \in scene.workers :
           worker'[w] = worker[w]
           \/ (worker[w].at = "waiting" /\ worker'[w] = [worker[w] EXCEPT !.at = "ready"])
    BY <1>8 DEF ServerNotifies, StopNotifies, Typed
  <2>3. \A w \in scene.workers : /\ Holds(w)' <=> Holds(w)
                                 /\ Holds(w) => worker'[w].conn = worker[w].conn
    <3>1. TAKE w \in scene.workers
    <3>2. worker[w] \in WorkerStates
      BY DEF Typed
    <3>3. [worker[w] EXCEPT !.at = "ready"].at = "ready"
      BY <3>2 DEF WorkerStates
    <3>4. QED
      BY <2>2, <3>3 DEF Holds
  <2>4. QED
    BY <2>1, <2>3, PlacedSteady
<1>9. ASSUME NEW w \in scene.workers, WorkerTakes(w)
      PROVE  Placed'
  <2>1. CASE queue = <<>>
    <3>1. /\ worker[w].at = "ready"
          /\ worker' = [worker EXCEPT ![w].at = IF stopping THEN "exited" ELSE "waiting"]
          /\ UNCHANGED <<scene, server, taken, backlog, queue, conn>>
      BY <1>9, <2>1 DEF WorkerTakes, control, accepts
    <3>2. worker'[w].at \in {"exited", "waiting"} /\ \A v \in scene.workers : v # w => worker'[v] = worker[v]
      BY <3>1 DEF Typed, WorkerStates
    <3>3. \A v \in scene.workers : /\ Holds(v)' <=> Holds(v)
                                   /\ Holds(v) => worker'[v].conn = worker[v].conn
      BY <3>1, <3>2 DEF Holds
    <3>4. QED
      BY <3>1, <3>3, PlacedSteady
  <2>2. CASE queue # <<>>
    BY <1>9, <2>2, PlacedTake
  <2>3. QED
    BY <2>1, <2>2
<1>10. ASSUME NEW w \in scene.workers, WorkerReceives(w) \/ WorkerOperates(w) \/ StoreSymbols(w)
       PROVE  Placed'
  <2>1. \A v \in scene.workers : /\ Holds(v)' <=> Holds(v)
                                 /\ Holds(v) => worker'[v].conn = worker[v].conn
    BY <1>10, GoesOn DEF Holds
  <2>2. UNCHANGED <<scene, server, taken, backlog, queue, conn>>
    BY <1>10, GoesOn
  <2>3. QED
    BY <2>1, <2>2, PlacedSteady
<1>11. ASSUME NEW w \in scene.workers, WorkerAnswers(w)
       PROVE  Placed'
  BY <1>11, PlacedAnswer
<1>12. CASE Hit \/ OtherResumes \/ ServerLoads \/ ServerEnters \/ StopBegins \/ StopJoins
            \/ StopReturns
  BY <1>0, <1>12 DEF Hit, OtherResumes, ServerLoads, ServerEnters, StopBegins, StopJoins,
     StopReturns, control, accepts
<1>13. CASE StopCloses
  <2>1. CASE server = "accept"
    BY <1>0, <1>13, <2>1 DEF StopCloses
  <2>2. CASE server # "accept"
    <3>1. backlog' = <<>> /\ conn' = CloseAll(conn, InSeq(backlog))
          /\ UNCHANGED <<scene, server, taken, queue, worker>>
      BY <1>13, <2>2 DEF StopCloses
    <3>2. \A c \in InSeq(queue) : c \notin InSeq(backlog)
      BY DEF Placed
    <3>3. taken # 0 => taken \notin InSeq(backlog)
      BY DEF Placed
    <3>4. QED
      BY <3>1, <3>2, <3>3, EmptyLine, PlacedClose DEF InLine, Placed
  <2>3. QED
    BY <2>1, <2>2
<1>14. CASE StopSwaps
  <2>1. queue' = <<>> /\ conn' = CloseAll(conn, InSeq(queue))
        /\ UNCHANGED <<scene, server, taken, backlog, worker>>
    BY <1>14 DEF StopSwaps, accepts
  <2>2. \A c \in InSeq(backlog) : c \notin InSeq(queue)
    BY DEF Placed
  <2>3. taken # 0 => taken \notin InSeq(queue)
    BY DEF Placed
  <2>4. QED
    BY <2>1, <2>2, <2>3, EmptyLine, PlacedClose DEF InLine, Placed
<1>15. QED
  <2>1. ASSUME NEW sent \in {"refused", "part", "whole"}, Stranger(sent)
        PROVE  Placed'
    BY <1>5, <2>1, AskedByStranger DEF Stranger, control
  <2>2. CASE StopWakes
    BY <1>5, <2>2 DEF StopWakes
  <2>3. ASSUME NEW c \in DOMAIN conn, StrangerLeaves(c)
        PROVE  Placed'
    <3>1. PICK n \in Conns : conn' = [conn EXCEPT ![c] = n] /\ n.state = conn[c].state
      BY <2>3, StrangerGone
    <3>2. UNCHANGED <<scene, server, taken, backlog, queue, worker>>
      BY <2>3 DEF StrangerLeaves, control, accepts
    <3>3. \A d \in DOMAIN conn : /\ d \in DOMAIN conn'
                                 /\ conn[d].state = "open" => conn'[d].state = "open"
      BY <3>1, Replaced
    <3>4. QED
      BY <3>2, <3>3, PlacedSteady DEF Holds
  <2>4. QED
    BY <1>1, <1>2, <1>3, <1>4, <1>6, <1>7, <1>8, <1>9, <1>10, <1>11, <1>12, <1>13, <1>14,
       <2>1, <2>2, <2>3
    DEF Next, WorkerStep, ServerStep, StopStep

-----------------------------------------------------------------------------
(* What the requests, the calls, the symbols and the registers depend on.   *)

Contents == Asked /\ Once /\ Selected /\ Registers

\* Connections move on or are closed, workers wake and sleep; nothing is
\* carried out and nothing is read.
Moves ==
    /\ UNCHANGED <<scene, bridge, rev, slot, executed, written>>
    /\ DOMAIN conn' = DOMAIN conn
    /\ \A c \in DOMAIN conn : /\ Same(conn'[c], conn[c])
                              /\ conn'[c].answer = conn[c].answer /\ conn'[c].left = conn[c].left
    /\ \A w \in scene.workers :
          worker'[w] = worker[w] \/ worker'[w].at \notin {"operate", "store", "answer"}
    /\ \A c \in DOMAIN conn : Todo(c)' => Todo(c)

\* Steps that carry no content leave it as it was.
LEMMA MovesKeep ==
  ASSUME IpcInv, Moves
  PROVE  Contents'
PROOF
<1>1. \A w \in scene.workers : worker'[w].at \in {"operate", "store", "answer"} =>
         worker'[w] = worker[w] /\ worker[w].conn \in DOMAIN conn
  BY InDomain DEF Moves, IpcInv, Holds
<1>2. Asked'
  BY <1>1 DEF IpcInv, Asked, Moves, Same
<1>3. Once'
  <2>1. \A c \in DOMAIN conn : \A b, i : Changes(c, b, i)' <=> Changes(c, b, i)
    BY DEF Moves, Same, Changes
  <2>2. \A b, i : Unchanged(b, i) => Unchanged(b, i)'
    BY <2>1 DEF Moves, Unchanged
  <2>3. /\ \A b \in Bridges : \A i \in Calls(b) : executed[b][i] <= 1
        /\ \A b \in Bridges : \A i \in Calls(b) : i > bridge[b].id => executed[b][i] = 0
    BY DEF IpcInv, Once
  <2>4. \A b \in Bridges : Calls(b)' = Calls(b)
    BY DEF Moves, Calls
  <2>5. \A b \in Bridges : \A c, d \in DOMAIN conn' :
           Changes(c, b, conn[c].id)' /\ Changes(d, b, conn[c].id)' => c = d
    BY <2>1 DEF IpcInv, Once, Moves, Same
  <2>6. \A b \in Bridges : \A c \in DOMAIN conn' :
           Changes(c, b, conn[c].id)' /\ Todo(c)' => executed'[b][conn'[c].id] = 0
    BY <2>1 DEF IpcInv, Once, Moves, Same
  <2>7. QED
    BY <2>2, <2>3, <2>4, <2>5, <2>6 DEF IpcInv, Once, Moves
<1>4. Selected'
  BY <1>1 DEF IpcInv, Selected, PageOfSelected, Moves, Same
<1>5. Registers'
  BY <1>1 DEF IpcInv, Registers, StaleOnlyAfterRival, Current, Moves, Same
<1>6. QED
  BY <1>2, <1>3, <1>4, <1>5 DEF Contents

\* Closing connections changes nothing else of them.
LEMMA ClosedSame ==
  ASSUME Typed, Placed, Asked, conn' = conn \/ \E S : conn' = CloseAll(conn, S)
  PROVE  /\ DOMAIN conn' = DOMAIN conn
         /\ \A c \in DOMAIN conn : /\ Same(conn'[c], conn[c])
                                   /\ conn'[c].answer = conn[c].answer
                                   /\ conn'[c].left = conn[c].left
PROOF
<1>1. CASE conn' = conn
  BY <1>1 DEF Same
<1>2. CASE \E S : conn' = CloseAll(conn, S)
  <2>1. PICK S : conn' = CloseAll(conn, S)
    BY <1>2
  <2>2. /\ DOMAIN conn' = DOMAIN conn
        /\ \A c \in DOMAIN conn : c \in S => conn'[c] = [conn[c] EXCEPT !.state = "closed"]
        /\ \A c \in DOMAIN conn : c \notin S => conn'[c] = conn[c]
    BY <2>1, ClosedAll
  <2>3. ASSUME NEW c \in DOMAIN conn
        PROVE  /\ Same(conn'[c], conn[c])
               /\ conn'[c].answer = conn[c].answer /\ conn'[c].left = conn[c].left
    <3>1. conn[c] \in Conns
      BY InDomain
    <3>2. CASE c \in S
      BY <2>2, <3>1, <3>2, ConnUpdates, Records
    <3>3. CASE c \notin S
      BY <2>2, <3>3 DEF Same
    <3>4. QED
      BY <3>2, <3>3
  <2>4. QED
    BY <2>2, <2>3
<1>3. QED
  BY <1>1, <1>2

\* The accept thread, Stop() and a worker that takes a connection only move.
LEMMA Movers ==
  ASSUME IpcInv,
         \/ UNCHANGED vars \/ ServerStep \/ StopBegins \/ (StopStep /\ ~StopWakes)
         \/ \E w \in scene.workers : WorkerTakes(w)
  PROVE  Moves
PROOF
<1>0. Typed /\ Placed /\ Asked
  BY DEF IpcInv
<1>1. UNCHANGED <<scene, bridge, rev, slot, executed, written>>
      /\ (conn' = conn \/ \E S : conn' = CloseAll(conn, S))
  BY DEF vars, ServerStep, StopStep, StopBegins, StopCloses, StopJoins, StopSwaps, StopNotifies,
     StopReturns, ServerLoads, ServerEnters, ServerAccepts, ServerPushes, ServerNotifies, WorkerTakes,
     control, device, accepts
<1>2. /\ DOMAIN conn' = DOMAIN conn
      /\ \A c \in DOMAIN conn : /\ Same(conn'[c], conn[c])
                                /\ conn'[c].answer = conn[c].answer /\ conn'[c].left = conn[c].left
  BY <1>0, <1>1, ClosedSame
<1>3. ASSUME UNCHANGED <<worker, scene>>, \A c : InLine(c)' => InLine(c)
      PROVE  Moves
  BY <1>1, <1>2, <1>3 DEF Moves, Todo
<1>4. ASSUME UNCHANGED <<scene, taken, backlog, queue>>,
             \A w \in scene.workers : worker'[w] = worker[w]
                \/ worker'[w].at \notin {"receive", "operate", "store", "answer"}
      PROVE  Moves
  <2>1. \A c : InLine(c)' => InLine(c)
    BY <1>4 DEF InLine
  <2>2. \A c \in DOMAIN conn : Todo(c)' => Todo(c)
    BY <1>4, <2>1 DEF Todo
  <2>3. QED
    BY <1>1, <1>2, <1>4, <2>2 DEF Moves
<1>5. CASE UNCHANGED vars \/ ServerLoads \/ ServerEnters \/ StopBegins \/ StopJoins \/ StopReturns
  BY <1>4, <1>5 DEF vars, ServerLoads, ServerEnters, StopBegins, StopJoins, StopReturns, control,
     accepts
<1>6. CASE ServerAccepts
  <2>1. backlog # <<>> /\ UNCHANGED <<scene, worker, queue>>
    BY <1>6 DEF ServerAccepts, control
  <2>2. Head(backlog) \in InSeq(backlog) /\ InSeq(Tail(backlog)) = InSeq(backlog) \ {Head(backlog)}
    BY <1>0, <2>1, Leaves DEF Typed, Placed
  <2>3. backlog' \in {<<>>, Tail(backlog)} /\ taken' \in {0, Head(backlog)}
    BY <1>6 DEF ServerAccepts
  <2>4. \A c : InLine(c)' => InLine(c)
    BY <2>1, <2>2, <2>3, EmptyLine DEF InLine
  <2>5. QED
    BY <1>3, <2>1, <2>4
<1>7. CASE ServerPushes
  <2>1. /\ queue' = queue \/ (queue' = Append(queue, taken) /\ taken # 0) 
        /\ taken' = 0 /\ UNCHANGED <<scene, worker, backlog>>
    BY <1>0, <1>7 DEF ServerPushes, control, Placed
  <2>2. InSeq(Append(queue, taken)) = InSeq(queue) \cup {taken}
    BY <1>0, Joins DEF Typed
  <2>3. \A c : InLine(c)' => InLine(c)
    BY <2>1, <2>2 DEF InLine
  <2>4. QED
    BY <1>3, <2>1, <2>3
<1>8. CASE ServerNotifies \/ StopNotifies
  <2>1. UNCHANGED <<scene, taken, backlog, queue>>
    BY <1>8 DEF ServerNotifies, StopNotifies, control, accepts
  <2>2. \A w \in scene.workers : worker'[w] = worker[w] \/ worker'[w] = [worker[w] EXCEPT !.at = "ready"]
    BY <1>0, <1>8 DEF ServerNotifies, StopNotifies, Typed
  <2>3. \A w \in scene.workers : [worker[w] EXCEPT !.at = "ready"].at = "ready"
    BY <1>0 DEF Typed, WorkerStates
  <2>4. QED
    BY <1>4, <2>1, <2>2, <2>3
<1>9. CASE StopCloses \/ StopSwaps
  BY <1>3, <1>9, EmptyLine DEF StopCloses, StopSwaps, accepts, InLine
<1>10. ASSUME NEW w \in scene.workers, WorkerTakes(w)
       PROVE  Moves
  <2>1. CASE queue = <<>>
    <3>1. /\ worker' = [worker EXCEPT ![w].at = IF stopping THEN "exited" ELSE "waiting"]
          /\ UNCHANGED <<scene, taken, backlog, queue>>
      BY <1>10, <2>1 DEF WorkerTakes, control, accepts
    <3>2. worker'[w].at \in {"exited", "waiting"} /\ \A v \in scene.workers : v # w => worker'[v] = worker[v]
      BY <1>0, <3>1 DEF Typed, WorkerStates
    <3>3. QED
      BY <1>4, <3>1, <3>2
  <2>2. CASE queue # <<>>
    <3>1. Head(queue) \in InSeq(queue) /\ InSeq(Tail(queue)) = InSeq(queue) \ {Head(queue)}
      BY <1>0, <2>2, Leaves DEF Typed, Placed
    <3>2. queue' = Tail(queue) /\ UNCHANGED <<scene, taken, backlog>>
          /\ worker' = [worker EXCEPT ![w] = [Free EXCEPT !.at = "receive", !.conn = Head(queue)]]
      BY <1>10, <2>2 DEF WorkerTakes, control, accepts
    <3>3. worker'[w].at = "receive" /\ worker'[w].conn = Head(queue)
          /\ \A v \in scene.workers : v # w => worker'[v] = worker[v]
      BY <1>0, <3>2 DEF Typed, Free
    <3>4. \A c : InLine(c)' => InLine(c)
      BY <3>1, <3>2 DEF InLine
    <3>5. InLine(Head(queue))
      BY <3>1 DEF InLine
    <3>6. \A c : Todo(c)' => Todo(c)
      BY <3>2, <3>3, <3>4, <3>5 DEF Todo
    <3>7. QED
      BY <1>1, <1>2, <3>3, <3>6 DEF Moves
  <2>3. QED
    BY <2>1, <2>2
<1>11. QED
  BY <1>5, <1>6, <1>7, <1>8, <1>9, <1>10 DEF ServerStep, StopStep

\* What a new connection leaves as it is.
LEMMA AddedConn ==
  ASSUME Typed, Placed, NEW n \in Conns, conn' = Append(conn, n),
         backlog' = Append(backlog, Len(conn) + 1), UNCHANGED <<scene, taken, queue, worker>>
  PROVE  /\ Len(conn) + 1 \notin DOMAIN conn /\ DOMAIN conn' = DOMAIN conn \cup {Len(conn) + 1}
         /\ conn'[Len(conn) + 1] = n /\ \A c \in DOMAIN conn : conn'[c] = conn[c]
         /\ \A c \in DOMAIN conn : Todo(c)' => Todo(c)
         /\ \A w \in scene.workers : Holds(w) =>
               worker[w].conn \in DOMAIN conn /\ conn'[worker[w].conn] = conn[worker[w].conn]
PROOF
<1>1. /\ Len(conn) + 1 \in Nat /\ Len(conn) + 1 \notin DOMAIN conn /\ conn'[Len(conn) + 1] = n
      /\ DOMAIN conn' = DOMAIN conn \cup {Len(conn) + 1} /\ \A c \in DOMAIN conn : conn'[c] = conn[c]
  BY Appended
<1>2. InSeq(backlog') = InSeq(backlog) \cup {Len(conn) + 1}
  BY <1>1, Joins DEF Typed
<1>3. \A c \in DOMAIN conn : InLine(c)' => InLine(c)
  BY <1>1, <1>2 DEF InLine
<1>4. \A c \in DOMAIN conn : Todo(c)' => Todo(c)
  BY <1>3 DEF Todo
<1>5. QED
  BY <1>1, <1>4 DEF Placed

\* A client that is no bridge, or Stop()'s own wake-up.
LEMMA OtherClient ==
  ASSUME IpcInv, NEW n \in Conns, conn' = Append(conn, n),
         backlog' = Append(backlog, Len(conn) + 1),
         UNCHANGED <<scene, taken, queue, worker, bridge, rev, slot, executed, written>>,
         (n.sent # "whole" /\ n.method = "none") \/ (n.sent = "whole" /\ n.method = "read_memory"),
         n.from = rev, n.answer = NoAnswer
  PROVE  Contents'
PROOF
<1>. DEFINE k == Len(conn) + 1
<1>0. Typed /\ Placed
  BY DEF IpcInv
<1>1. /\ k \notin DOMAIN conn /\ DOMAIN conn' = DOMAIN conn \cup {k}
      /\ conn'[k] = n /\ \A c \in DOMAIN conn : conn'[c] = conn[c]
      /\ \A c \in DOMAIN conn : Todo(c)' => Todo(c)
      /\ \A w \in scene.workers : Holds(w) =>
            worker[w].conn \in DOMAIN conn /\ conn'[worker[w].conn] = conn[worker[w].conn]
  BY <1>0, AddedConn
<1>2. Asked'
  <2>1. \A c \in DOMAIN conn' : conn'[c].sent = "whole" \/ conn'[c].method # "none" =>
          /\ conn'[c].sent = "whole" /\ conn'[c].method \in Methods
          /\ conn'[c].method # "read_memory" =>
                conn'[c].who \in Bridges /\ conn'[c].id \in 1..bridge[conn'[c].who].id
    BY <1>1 DEF IpcInv, Asked, Methods
  <2>2. QED
    BY <1>1, <2>1 DEF IpcInv, Asked, Holds
<1>3. Once'
  <2>1. \A c \in DOMAIN conn' : \A b, i : Changes(c, b, i)' => c \in DOMAIN conn /\ Changes(c, b, i)
    BY <1>1 DEF Changes, Mutators
  <2>2. \A b, i : Unchanged(b, i) => Unchanged(b, i)'
    BY <2>1 DEF Unchanged
  <2>3. \A b : Calls(b)' = Calls(b)
    BY DEF Calls
  <2>4. QED
    BY <1>1, <2>1, <2>2, <2>3 DEF IpcInv, Once
<1>4. Selected'
  <2>1. n.answer.is # "page" /\ rev \in Nat
    BY <1>0 DEF NoAnswer, Typed
  <2>2. QED
    BY <1>1, <2>1 DEF IpcInv, Selected, PageOfSelected, Holds
<1>5. Registers'
  <2>1. n.answer.is # "status" /\ n.method # "uxn_resume"
    BY DEF NoAnswer
  <2>2. QED
    BY <1>1, <2>1 DEF IpcInv, Registers, StaleOnlyAfterRival, Current, Holds
<1>6. QED
  BY <1>2, <1>3, <1>4, <1>5 DEF Contents

\* A bridge asks, for a call that has changed nothing so far.
LEMMA BridgeAsks ==
  ASSUME IpcInv, NEW b \in Bridges, NEW nb \in BridgeStates, NEW n \in Conns,
         conn' = Append(conn, n), backlog' = Append(backlog, Len(conn) + 1),
         bridge' = [bridge EXCEPT ![b] = nb],
         UNCHANGED <<scene, taken, queue, worker, rev, slot, executed, written>>,
         nb.at = "waiting", nb.conn = Len(conn) + 1, nb.method \in Methods,
         nb.id > 0, nb.id <= scene.calls[b], bridge[b].id <= nb.id, Unchanged(b, nb.id),
         n.who = b, n.method = nb.method, n.id = nb.id, n.sent = "whole", ~n.left, n.from = rev,
         n.answer = NoAnswer, n.method = "uxn_resume" => Current(n.mark, n.regs),
         nb.tool = "resume" => nb.event # 0
  PROVE  Contents'
PROOF
<1>. DEFINE k == Len(conn) + 1
<1>0. Typed /\ Placed /\ Asked
  BY DEF IpcInv
<1>1. /\ k \notin DOMAIN conn /\ DOMAIN conn' = DOMAIN conn \cup {k}
      /\ conn'[k] = n /\ \A c \in DOMAIN conn : conn'[c] = conn[c]
      /\ \A c \in DOMAIN conn : Todo(c)' => Todo(c)
      /\ \A w \in scene.workers : Holds(w) =>
            worker[w].conn \in DOMAIN conn /\ conn'[worker[w].conn] = conn[worker[w].conn]
  BY <1>0, AddedConn
<1>2. bridge'[b] = nb /\ \A a \in Bridges : a # b => bridge'[a] = bridge[a]
  BY <1>0 DEF Typed
<1>3. \A a \in Bridges : bridge[a].id \in Nat /\ bridge'[a].id \in Nat /\ bridge[a].id <= bridge'[a].id
  <2>1. \A a \in Bridges : bridge[a].id \in Nat
    BY <1>0 DEF Typed, BridgeStates
  <2>2. nb.id \in Nat
    BY DEF BridgeStates
  <2>3. QED
    BY <1>2, <2>1, <2>2
<1>4. Asked'
  <2>1. \A c \in DOMAIN conn' : conn'[c].sent = "whole" \/ conn'[c].method # "none" =>
          /\ conn'[c].sent = "whole" /\ conn'[c].method \in Methods
          /\ conn'[c].method # "read_memory" =>
                conn'[c].who \in Bridges /\ conn'[c].id \in 1..bridge'[conn'[c].who].id
    <3>1. SUFFICES ASSUME NEW c \in DOMAIN conn',
                          conn'[c].sent = "whole" \/ conn'[c].method # "none"
                   PROVE  /\ conn'[c].sent = "whole" /\ conn'[c].method \in Methods
                          /\ conn'[c].method # "read_memory" =>
                                conn'[c].who \in Bridges /\ conn'[c].id \in 1..bridge'[conn'[c].who].id
      OBVIOUS
    <3>2. CASE c = k
      BY <1>1, <1>2, <1>3, <3>2
    <3>3. CASE c \in DOMAIN conn
      <4>1. /\ conn[c].sent = "whole" /\ conn[c].method \in Methods
            /\ conn[c].method # "read_memory" =>
                  conn[c].who \in Bridges /\ conn[c].id \in 1..bridge[conn[c].who].id
        BY <1>0, <1>1, <3>1, <3>3 DEF Asked
      <4>2. QED
        BY <1>1, <1>3, <3>3, <4>1
    <3>4. QED
      BY <1>1, <3>2, <3>3
  <2>2. \A w \in scene.workers : worker[w].at \in {"operate", "store"} =>
          conn'[worker[w].conn].sent = "whole"
    BY <1>0, <1>1 DEF Asked, Holds
  <2>3. \A a \in Bridges : bridge'[a].at = "waiting" =>
          /\ bridge'[a].conn \in DOMAIN conn'
          /\ conn'[bridge'[a].conn].who = a /\ conn'[bridge'[a].conn].method = bridge'[a].method
          /\ ~conn'[bridge'[a].conn].left
    BY <1>0, <1>1, <1>2 DEF Asked
  <2>4. /\ \A a \in Bridges : bridge'[a].id <= scene.calls[a]
        /\ \A a \in Bridges : bridge'[a].at # "idle" => bridge'[a].method \in Methods /\ bridge'[a].id > 0
        /\ \A a \in Bridges : bridge'[a].at = "retry" => bridge'[a].method \in _RETRYABLE_METHODS
    BY <1>0, <1>2 DEF Asked
  <2>5. QED
    BY <2>1, <2>2, <2>3, <2>4 DEF Asked
<1>5. Once'
  <2>1. \A c \in DOMAIN conn : \A a, i : Changes(c, a, i)' <=> Changes(c, a, i)
    BY <1>1 DEF Changes
  <2>2. \A c \in DOMAIN conn' : c = k => \A a, i :
           Changes(c, a, i)' => a = b /\ i = nb.id /\ nb.method \in Mutators
    BY <1>1 DEF Changes
  <2>3. \A a : Calls(a)' = Calls(a)
    BY DEF Calls
  <2>4. \A c \in DOMAIN conn : ~Changes(c, b, nb.id)
    BY DEF Unchanged
  <2>5. \A a \in Bridges : \A i \in Calls(a) : executed[a][i] <= 1
    BY DEF IpcInv, Once
  <2>6. \A a \in Bridges : \A i \in Calls(a) : i > bridge'[a].id => executed[a][i] = 0
    <3>1. \A a \in Bridges : \A i \in Calls(a) : i > bridge'[a].id => i > bridge[a].id
      BY <1>3, SceneAssumption, <1>0 DEF Calls, Typed
    <3>2. QED
      BY <3>1 DEF IpcInv, Once
  <2>7. \A a \in Bridges : \A c, d \in DOMAIN conn' :
          Changes(c, a, conn[c].id)' /\ Changes(d, a, conn[c].id)' => c = d
    <3>1. SUFFICES ASSUME NEW a \in Bridges, NEW c \in DOMAIN conn', NEW d \in DOMAIN conn',
                          Changes(c, a, conn[c].id)', Changes(d, a, conn[c].id)'
                   PROVE  c = d
      OBVIOUS
    <3>2. CASE c \in DOMAIN conn /\ d \in DOMAIN conn
      <4>1. Changes(c, a, conn[c].id) /\ Changes(d, a, conn[c].id)
        BY <1>1, <2>1, <3>1, <3>2
      <4>2. QED
        BY <3>2, <4>1 DEF IpcInv, Once
    <3>3. CASE c = k /\ d \in DOMAIN conn
      BY <1>1, <2>1, <2>2, <2>4, <3>1, <3>3
    <3>4. CASE c \in DOMAIN conn /\ d = k
      <4>1. a = b /\ conn'[c].id = nb.id
        BY <2>2, <3>1, <3>4
      <4>2. Changes(c, b, nb.id)
        BY <2>1, <3>1, <3>4, <4>1
      <4>3. QED
        BY <2>4, <3>4, <4>2
    <3>5. QED
      BY <1>1, <3>2, <3>3, <3>4
  <2>8. \A a \in Bridges : \A c \in DOMAIN conn' :
          Changes(c, a, conn[c].id)' /\ Todo(c)' => executed[a][conn'[c].id] = 0
    <3>1. SUFFICES ASSUME NEW a \in Bridges, NEW c \in DOMAIN conn', Changes(c, a, conn[c].id)', Todo(c)'
                   PROVE  executed[a][conn'[c].id] = 0
      OBVIOUS
    <3>2. CASE c \in DOMAIN conn
      <4>1. Changes(c, a, conn[c].id) /\ Todo(c)
        BY <1>1, <2>1, <3>1, <3>2
      <4>2. QED
        BY <1>1, <3>2, <4>1 DEF IpcInv, Once
    <3>3. CASE c = k
      BY <1>1, <2>2, <3>1, <3>3 DEF Unchanged
    <3>4. QED
      BY <1>1, <3>2, <3>3
  <2>9. \A a \in Bridges :
          bridge'[a].at \in {"retry", "checked"}
             \/ (bridge'[a].at = "waiting" /\ bridge'[a].method \notin Mutators)
          => Unchanged(a, bridge[a].id)'
    <3>1. SUFFICES ASSUME NEW a \in Bridges,
                          bridge'[a].at \in {"retry", "checked"}
                            \/ (bridge'[a].at = "waiting" /\ bridge'[a].method \notin Mutators)
                   PROVE  Unchanged(a, bridge[a].id)'
      OBVIOUS
    <3>2. CASE a = b
      BY <1>1, <1>2, <2>1, <2>2, <2>4, <3>1, <3>2 DEF Unchanged
    <3>3. CASE a # b
      <4>1. Unchanged(a, bridge[a].id) /\ bridge'[a] = bridge[a]
        BY <1>2, <3>1, <3>3 DEF IpcInv, Once
      <4>2. QED
        BY <1>1, <2>1, <2>2, <3>3, <4>1 DEF Unchanged
    <3>4. QED
      BY <3>2, <3>3
  <2>10. QED
    BY <2>3, <2>5, <2>6, <2>7, <2>8, <2>9 DEF Once
<1>6. Selected'
  <2>1. n.answer.is # "page" /\ rev \in Nat
    BY <1>0 DEF NoAnswer, Typed
  <2>2. QED
    BY <1>1, <2>1 DEF IpcInv, Selected, PageOfSelected, Holds
<1>7. Registers'
  <2>1. n.answer.is # "status"
    BY DEF NoAnswer
  <2>2. \A r, s : Current(r, s)' <=> Current(r, s)
    BY DEF Current
  <2>3. \A c \in DOMAIN conn' : conn'[c].answer.is = "status" =>
          /\ conn'[c].method = "uxn_status"
          /\ conn'[c].answer.seq # 0 => Current(conn'[c].answer.rev, conn'[c].answer.seq)
    BY <1>1, <2>1 DEF IpcInv, Registers
  <2>4. \A c \in DOMAIN conn' : conn'[c].method = "uxn_resume" => Current(conn'[c].mark, conn'[c].regs)
    BY <1>1 DEF IpcInv, Registers
  <2>5. \A a \in Bridges :
          /\ bridge'[a].tool = "resume" /\ bridge'[a].at # "idle" => bridge'[a].event # 0
          /\ bridge'[a].at = "checked" =>
                bridge'[a].tool = "resume" /\ Current(bridge'[a].mark, bridge'[a].event)
    BY <1>2 DEF IpcInv, Registers
  <2>6. \A w \in scene.workers : worker[w].at = "answer" /\ worker[w].answer.is = "status" =>
          /\ conn'[worker[w].conn].method = "uxn_status"
          /\ worker[w].answer.seq # 0 => Current(worker[w].answer.rev, worker[w].answer.seq)
    BY <1>1 DEF IpcInv, Registers, Holds
  <2>7. QED
    BY <2>2, <2>3, <2>4, <2>5, <2>6 DEF IpcInv, Registers, StaleOnlyAfterRival
<1>8. QED
  BY <1>4, <1>5, <1>6, <1>7 DEF Contents

\* A bridge stops waiting, or is refused: it may ask again only for a call
\* that has changed nothing, and goes on to a resume only with the event that
\* is current.  Its connection, if it had one, is abandoned or over.
LEMMA BridgeRests ==
  ASSUME IpcInv, NEW b \in Bridges, NEW nb \in BridgeStates,
         bridge' = [bridge EXCEPT ![b] = nb],
         UNCHANGED <<scene, taken, backlog, queue, worker, rev, slot, executed, written>>,
         \/ conn' = conn
         \/ /\ bridge[b].at = "waiting"
            /\ \/ conn' = [conn EXCEPT ![bridge[b].conn] = Over] /\ conn[bridge[b].conn].state = "closed"
               \/ conn' = [conn EXCEPT ![bridge[b].conn] = [conn[bridge[b].conn] EXCEPT !.left = TRUE]],
         nb.at # "waiting", nb.id <= scene.calls[b], bridge[b].id <= nb.id,
         nb.at # "idle" => /\ nb.method \in Methods /\ nb.id > 0 /\ Unchanged(b, nb.id)
                           /\ nb.tool = "resume" => nb.event # 0,
         nb.at = "retry" => nb.method \in _RETRYABLE_METHODS,
         nb.at = "checked" => nb.tool = "resume" /\ Current(nb.mark, nb.event)
  PROVE  Contents'
PROOF
<1>0. Typed /\ Placed /\ Asked
  BY DEF IpcInv
<1>1. bridge'[b] = nb /\ \A a \in Bridges : a # b => bridge'[a] = bridge[a]
  BY <1>0 DEF Typed
<1>2. \A a \in Bridges : bridge[a].id \in Nat /\ bridge'[a].id \in Nat /\ bridge[a].id <= bridge'[a].id
  <2>1. \A a \in Bridges : bridge[a].id \in Nat
    BY <1>0 DEF Typed, BridgeStates
  <2>2. nb.id \in Nat
    BY DEF BridgeStates
  <2>3. QED
    BY <1>1, <2>1, <2>2
\* The connections.
<1>3. /\ DOMAIN conn' = DOMAIN conn
      /\ \A c \in DOMAIN conn : conn'[c] = Over \/ (Same(conn'[c], conn[c]) /\ conn'[c].answer = conn[c].answer)
      /\ \A c \in DOMAIN conn : conn[c].state = "open" => Same(conn'[c], conn[c])
      /\ \A a \in Bridges : a # b /\ bridge[a].at = "waiting" => conn'[bridge[a].conn] = conn[bridge[a].conn]
  <2>1. CASE conn' = conn
    BY <2>1 DEF Same
  <2>2. CASE conn' # conn
    <3>1. PICK c0 \in DOMAIN conn : c0 = bridge[b].conn /\ conn[c0].who = b
      BY <1>0, <2>2 DEF Asked
    <3>2. \A a \in Bridges : a # b /\ bridge[a].at = "waiting" =>
             bridge[a].conn # c0 /\ bridge[a].conn \in DOMAIN conn
      BY <1>0, <3>1 DEF Asked
    <3>3. CASE conn' = [conn EXCEPT ![c0] = Over] /\ conn[c0].state = "closed"
      BY <1>0, <3>2, <3>3, Replaced, Records DEF Same
    <3>4. CASE conn' = [conn EXCEPT ![c0] = [conn[c0] EXCEPT !.left = TRUE]]
      <4>1. conn[c0] \in Conns
        BY <1>0, InDomain
      <4>2. PICK n \in Conns : /\ n = [conn[c0] EXCEPT !.left = TRUE]
                               /\ Same(n, conn[c0]) /\ n.answer = conn[c0].answer
        BY <4>1, ConnUpdates, Records
      <4>3. /\ DOMAIN conn' = DOMAIN conn /\ conn'[c0] = n
            /\ \A d \in DOMAIN conn : d # c0 => conn'[d] = conn[d]
        BY <1>0, <3>4, <4>2, Replaced
      <4>4. \A d \in DOMAIN conn : Same(conn'[d], conn[d]) /\ conn'[d].answer = conn[d].answer
        BY <4>2, <4>3 DEF Same
      <4>5. QED
        BY <3>2, <4>3, <4>4
    <3>5. QED
      BY <2>2, <3>1, <3>3, <3>4
  <2>3. QED
    BY <2>1, <2>2
<1>4. \A w \in scene.workers : Holds(w) =>
         worker[w].conn \in DOMAIN conn /\ Same(conn'[worker[w].conn], conn[worker[w].conn])
  BY <1>0, <1>3 DEF Placed
<1>5. \A c : Todo(c)' <=> Todo(c)
  BY DEF Todo, InLine
<1>6. Asked'
  <2>1. \A c \in DOMAIN conn' : conn'[c].sent = "whole" \/ conn'[c].method # "none" =>
          /\ conn'[c].sent = "whole" /\ conn'[c].method \in Methods
          /\ conn'[c].method # "read_memory" =>
                conn'[c].who \in Bridges /\ conn'[c].id \in 1..bridge'[conn'[c].who].id
    <3>1. SUFFICES ASSUME NEW c \in DOMAIN conn,
                          conn'[c].sent = "whole" \/ conn'[c].method # "none"
                   PROVE  /\ conn'[c].sent = "whole" /\ conn'[c].method \in Methods
                          /\ conn'[c].method # "read_memory" =>
                                conn'[c].who \in Bridges /\ conn'[c].id \in 1..bridge'[conn'[c].who].id
      BY <1>3
    <3>2. Same(conn'[c], conn[c])
      BY <1>3, <3>1, OverIs
    <3>3. /\ conn[c].sent = "whole" /\ conn[c].method \in Methods
          /\ conn[c].method # "read_memory" =>
                conn[c].who \in Bridges /\ conn[c].id \in 1..bridge[conn[c].who].id
      BY <1>0, <3>1, <3>2 DEF Asked, Same
    <3>4. QED
      BY <1>2, <3>2, <3>3 DEF Same
  <2>2. \A w \in scene.workers : worker[w].at \in {"operate", "store"} =>
          conn'[worker[w].conn].sent = "whole"
    BY <1>0, <1>4 DEF Asked, Holds, Same
  <2>3. \A a \in Bridges : bridge'[a].at = "waiting" =>
          /\ bridge'[a].conn \in DOMAIN conn'
          /\ conn'[bridge'[a].conn].who = a /\ conn'[bridge'[a].conn].method = bridge'[a].method
          /\ ~conn'[bridge'[a].conn].left
    BY <1>0, <1>1, <1>3 DEF Asked
  <2>4. /\ \A a \in Bridges : bridge'[a].id <= scene.calls[a]
        /\ \A a \in Bridges : bridge'[a].at # "idle" => bridge'[a].method \in Methods /\ bridge'[a].id > 0
        /\ \A a \in Bridges : bridge'[a].at = "retry" => bridge'[a].method \in _RETRYABLE_METHODS
    BY <1>0, <1>1 DEF Asked
  <2>5. QED
    BY <2>1, <2>2, <2>3, <2>4 DEF Asked
<1>7. Once'
  <2>1. \A c \in DOMAIN conn : \A a, i : Changes(c, a, i)' => Changes(c, a, i) /\ Same(conn'[c], conn[c])
    BY <1>3, OverIs DEF Changes, Same, Mutators
  <2>2. \A a : Calls(a)' = Calls(a)
    BY DEF Calls
  <2>3. \A a \in Bridges : \A i \in Calls(a) : i > bridge'[a].id => executed[a][i] = 0
    <3>1. \A a \in Bridges : \A i \in Calls(a) : i > bridge'[a].id => i > bridge[a].id
      BY <1>2, SceneAssumption, <1>0 DEF Calls, Typed
    <3>2. QED
      BY <3>1 DEF IpcInv, Once
  <2>4. \A a \in Bridges : \A c, d \in DOMAIN conn' :
          Changes(c, a, conn[c].id)' /\ Changes(d, a, conn[c].id)' => c = d
    BY <1>3, <2>1 DEF IpcInv, Once, Same
  <2>5. \A a \in Bridges : \A c \in DOMAIN conn' :
          Changes(c, a, conn[c].id)' /\ Todo(c)' => executed[a][conn'[c].id] = 0
    BY <1>3, <1>5, <2>1 DEF IpcInv, Once, Same
  <2>6. \A a, i : Unchanged(a, i) => Unchanged(a, i)'
    BY <1>3, <2>1 DEF Unchanged
  <2>7. \A a \in Bridges :
          bridge'[a].at \in {"retry", "checked"}
             \/ (bridge'[a].at = "waiting" /\ bridge'[a].method \notin Mutators)
          => Unchanged(a, bridge'[a].id)
    BY <1>1 DEF IpcInv, Once
  <2>8. QED
    BY <2>2, <2>3, <2>4, <2>5, <2>6, <2>7 DEF IpcInv, Once
<1>8. Selected'
  <2>1. \A c \in DOMAIN conn' : conn'[c].from <= rev
    <3>1. (\A c \in DOMAIN conn : conn[c].from <= rev) /\ 0 <= rev
      BY <1>0 DEF IpcInv, Selected, Typed
    <3>2. QED
      BY <1>3, <3>1, OverIs DEF Same
  <2>2. \A w \in scene.workers :
          /\ worker[w].at \in {"operate", "store"} =>
                worker[w].ctx \in conn'[worker[w].conn].from..rev
          /\ worker[w].at = "answer" /\ worker[w].answer.is = "page" =>
                worker[w].answer.rev \in conn'[worker[w].conn].from..rev
    BY <1>4 DEF IpcInv, Selected, Same, Holds
  <2>3. PageOfSelected'
    BY <1>3, OverIs DEF IpcInv, Selected, PageOfSelected, Same, NoAnswer
  <2>4. QED
    BY <2>1, <2>2, <2>3 DEF Selected
<1>9. Registers'
  <2>1. \A r, s : Current(r, s)' <=> Current(r, s)
    BY DEF Current
  <2>2. \A c \in DOMAIN conn' : conn'[c].answer.is = "status" =>
          /\ conn'[c].method = "uxn_status"
          /\ conn'[c].answer.seq # 0 => Current(conn'[c].answer.rev, conn'[c].answer.seq)
    BY <1>3, OverIs DEF IpcInv, Registers, Same, NoAnswer
  <2>3. \A c \in DOMAIN conn' : conn'[c].method = "uxn_resume" => Current(conn'[c].mark, conn'[c].regs)
    BY <1>3, OverIs DEF IpcInv, Registers, Same
  <2>4. \A a \in Bridges :
          /\ bridge'[a].tool = "resume" /\ bridge'[a].at # "idle" => bridge'[a].event # 0
          /\ bridge'[a].at = "checked" =>
                bridge'[a].tool = "resume" /\ Current(bridge'[a].mark, bridge'[a].event)
    BY <1>1 DEF IpcInv, Registers
  <2>5. \A w \in scene.workers : worker[w].at = "answer" /\ worker[w].answer.is = "status" =>
          /\ conn'[worker[w].conn].method = "uxn_status"
          /\ worker[w].answer.seq # 0 => Current(worker[w].answer.rev, worker[w].answer.seq)
    BY <1>4 DEF IpcInv, Registers, Holds, Same
  <2>6. QED
    BY <2>1, <2>2, <2>3, <2>4, <2>5 DEF IpcInv, Registers, StaleOnlyAfterRival
<1>10. QED
  BY <1>6, <1>7, <1>8, <1>9 DEF Contents

\* A client that is no bridge goes away.
LEMMA LeavingKeeps ==
  ASSUME IpcInv, NEW c0 \in DOMAIN conn, StrangerLeaves(c0)
  PROVE  Contents'
PROOF
<1>0. Typed /\ Placed /\ Asked
  BY DEF IpcInv
<1>1. UNCHANGED <<scene, taken, backlog, queue, worker, bridge, rev, slot, executed, written>>
      /\ conn[c0].who = NoBridge
  BY DEF StrangerLeaves, control, accepts, device
<1>2. PICK n \in Conns : /\ conn' = [conn EXCEPT ![c0] = n]
                         /\ \/ n = Over /\ conn[c0].state = "closed"
                            \/ Same(n, conn[c0]) /\ n.answer = conn[c0].answer
  BY <1>0, StrangerGone
<1>3. /\ DOMAIN conn' = DOMAIN conn /\ conn'[c0] = n
      /\ \A d \in DOMAIN conn : d # c0 => conn'[d] = conn[d]
  BY <1>0, <1>2, Replaced
<1>4. /\ \A c \in DOMAIN conn : conn'[c] = Over \/ (Same(conn'[c], conn[c]) /\ conn'[c].answer = conn[c].answer)
      /\ \A c \in DOMAIN conn : conn[c].state = "open" => Same(conn'[c], conn[c])
  BY <1>2, <1>3 DEF Same
<1>5. \A w \in scene.workers : Holds(w) =>
         worker[w].conn \in DOMAIN conn /\ Same(conn'[worker[w].conn], conn[worker[w].conn])
  BY <1>0, <1>4 DEF Placed
<1>6. Asked'
  <2>1. \A c \in DOMAIN conn' : conn'[c].sent = "whole" \/ conn'[c].method # "none" =>
          /\ conn'[c].sent = "whole" /\ conn'[c].method \in Methods
          /\ conn'[c].method # "read_memory" =>
                conn'[c].who \in Bridges /\ conn'[c].id \in 1..bridge[conn'[c].who].id
    BY <1>0, <1>3, <1>4, OverIs DEF Asked, Same
  <2>2. \A w \in scene.workers : worker[w].at \in {"operate", "store"} =>
          conn'[worker[w].conn].sent = "whole"
    BY <1>0, <1>5 DEF Asked, Holds, Same
  <2>3. \A a \in Bridges : bridge[a].at = "waiting" => bridge[a].conn # c0
    BY <1>0, <1>1, BoundsAssumption DEF Asked
  <2>4. \A a \in Bridges : bridge[a].at = "waiting" =>
          /\ bridge[a].conn \in DOMAIN conn'
          /\ conn'[bridge[a].conn].who = a /\ conn'[bridge[a].conn].method = bridge[a].method
          /\ ~conn'[bridge[a].conn].left
    BY <1>0, <1>3, <2>3 DEF Asked
  <2>5. QED
    BY <1>0, <1>1, <2>1, <2>2, <2>4 DEF Asked
<1>7. Once'
  <2>1. \A c \in DOMAIN conn : \A a, i : Changes(c, a, i)' => Changes(c, a, i) /\ Same(conn'[c], conn[c])
    BY <1>4, OverIs DEF Changes, Same, Mutators
  <2>2. (\A a : Calls(a)' = Calls(a)) /\ (\A c : Todo(c)' <=> Todo(c))
    BY <1>1 DEF Calls, Todo, InLine
  <2>3. \A a \in Bridges : \A c, d \in DOMAIN conn' :
          Changes(c, a, conn[c].id)' /\ Changes(d, a, conn[c].id)' => c = d
    BY <1>3, <2>1 DEF IpcInv, Once, Same
  <2>4. \A a \in Bridges : \A c \in DOMAIN conn' :
          Changes(c, a, conn[c].id)' /\ Todo(c)' => executed[a][conn'[c].id] = 0
    BY <1>3, <2>1, <2>2 DEF IpcInv, Once, Same
  <2>5. \A a, i : Unchanged(a, i) => Unchanged(a, i)'
    BY <1>1, <1>3, <2>1 DEF Unchanged
  <2>6. QED
    BY <1>1, <2>2, <2>3, <2>4, <2>5 DEF IpcInv, Once
<1>8. Selected'
  <2>1. \A c \in DOMAIN conn' : conn'[c].from <= rev
    <3>1. (\A c \in DOMAIN conn : conn[c].from <= rev) /\ 0 <= rev
      BY <1>0 DEF IpcInv, Selected, Typed
    <3>2. QED
      BY <1>3, <1>4, <3>1, OverIs DEF Same
  <2>2. \A w \in scene.workers :
          /\ worker[w].at \in {"operate", "store"} =>
                worker[w].ctx \in conn'[worker[w].conn].from..rev
          /\ worker[w].at = "answer" /\ worker[w].answer.is = "page" =>
                worker[w].answer.rev \in conn'[worker[w].conn].from..rev
    BY <1>5 DEF IpcInv, Selected, Same, Holds
  <2>3. PageOfSelected'
    BY <1>1, <1>3, <1>4, OverIs DEF IpcInv, Selected, PageOfSelected, Same, NoAnswer
  <2>4. QED
    BY <1>1, <2>1, <2>2, <2>3 DEF Selected
<1>9. Registers'
  <2>1. \A r, s : Current(r, s)' <=> Current(r, s)
    BY <1>1 DEF Current
  <2>2. \A c \in DOMAIN conn' : conn'[c].answer.is = "status" =>
          /\ conn'[c].method = "uxn_status"
          /\ conn'[c].answer.seq # 0 => Current(conn'[c].answer.rev, conn'[c].answer.seq)
    BY <1>3, <1>4, OverIs DEF IpcInv, Registers, Same, NoAnswer
  <2>3. \A c \in DOMAIN conn' : conn'[c].method = "uxn_resume" => Current(conn'[c].mark, conn'[c].regs)
    BY <1>3, <1>4, OverIs DEF IpcInv, Registers, Same
  <2>4. \A w \in scene.workers : worker[w].at = "answer" /\ worker[w].answer.is = "status" =>
          /\ conn'[worker[w].conn].method = "uxn_status"
          /\ worker[w].answer.seq # 0 => Current(worker[w].answer.rev, worker[w].answer.seq)
    BY <1>5 DEF IpcInv, Registers, Holds, Same
  <2>5. QED
    BY <1>1, <2>1, <2>2, <2>3, <2>4 DEF IpcInv, Registers, StaleOnlyAfterRival
<1>10. QED
  BY <1>6, <1>7, <1>8, <1>9 DEF Contents

\* A request is sent or refused, for a call that has changed nothing.
LEMMA Requests ==
  ASSUME IpcInv, NEW b \in Bridges, NEW br \in BridgeStates, NEW m \in Methods, Connect(b, br, m),
         UNCHANGED <<scene, taken, queue, worker, rev, slot, executed, written>>,
         br.id > 0, br.id <= scene.calls[b], bridge[b].id <= br.id, Unchanged(b, br.id),
         br.tool = "resume" => br.event # 0, m = "uxn_resume" => Current(br.mark, br.event)
  PROVE  Contents'
PROOF
<1>0. Typed
  BY DEF IpcInv
<1>1. CASE /\ UNCHANGED <<conn, backlog>>
           /\ bridge' = [bridge EXCEPT ![b] = [br EXCEPT !.at = "idle", !.out = "error"]]
  <2>. DEFINE nb == [br EXCEPT !.at = "idle", !.out = "error"]
  <2>1. nb \in BridgeStates /\ nb.at = "idle" /\ nb.id = br.id
    BY DEF BridgeStates
  <2>2. QED
    BY <1>1, <2>1, BridgeRests
<1>2. CASE /\ conn' = Append(conn, NewConn(b, m, br.id, "whole", br.event, br.mark))
           /\ NewConn(b, m, br.id, "whole", br.event, br.mark) \in Conns
           /\ backlog' = Append(backlog, Len(conn) + 1)
           /\ bridge' = [bridge EXCEPT ![b] = [br EXCEPT !.method = m, !.at = "waiting",
                                                         !.conn = Len(conn) + 1]]
  <2>. DEFINE nb == [br EXCEPT !.method = m, !.at = "waiting", !.conn = Len(conn) + 1]
              n == NewConn(b, m, br.id, "whole", br.event, br.mark)
  <2>1. Len(conn) + 1 \in Nat
    BY <1>0 DEF Typed
  <2>2. nb \in BridgeStates /\ nb.at = "waiting" /\ nb.conn = Len(conn) + 1 /\ nb.method = m
        /\ nb.id = br.id /\ nb.tool = br.tool /\ nb.event = br.event
    BY <2>1 DEF BridgeStates
  <2>3. n.who = b /\ n.method = m /\ n.id = br.id /\ n.sent = "whole" /\ ~n.left /\ n.from = rev
        /\ n.answer = NoAnswer /\ n.mark = br.mark /\ n.regs = br.event /\ n \in Conns
    BY <1>2 DEF NewConn
  <2>4. conn' = Append(conn, n) /\ bridge' = [bridge EXCEPT ![b] = nb]
        /\ backlog' = Append(backlog, Len(conn) + 1)
    BY <1>2
  <2>. HIDE DEF nb, n
  <2>5. QED
    BY <2>2, <2>3, <2>4, BridgeAsks
<1>3. QED
  BY <1>0, <1>1, <1>2, Connects

\* The steps of a bridge.
LEMMA BridgeSteps ==
  ASSUME IpcInv, NEW b \in Bridges,
         \/ \E t \in scene.tools[b] : CallTool(b, t)
         \/ ThenResume(b) \/ Reply(b) \/ GiveUp(b) \/ Disconnected(b) \/ Retry(b)
  PROVE  Contents'
PROOF
<1>0. Typed /\ Placed /\ Asked /\ bridge[b] \in BridgeStates /\ bridge[b].id \in Nat
      /\ scene.calls[b] \in Nat
  BY SceneAssumption DEF IpcInv, Typed, BridgeStates
<1>1. ASSUME NEW t \in scene.tools[b], CallTool(b, t)
      PROVE  Contents'
  <2>. DEFINE br == [bridge[b] EXCEPT !.tool = t, !.id = @ + 1, !.attempt = 0, !.out = "none"]
              m == IF t = "resume" THEN "uxn_status" ELSE t
  <2>1. br \in BridgeStates /\ m \in Methods /\ m # "uxn_resume"
    BY <1>0, ToolCalls DEF Tools, Methods
  <2>2. br.id = bridge[b].id + 1 /\ br.tool = t /\ br.event = bridge[b].event
    BY <1>0 DEF BridgeStates
  <2>3. /\ bridge[b].id < scene.calls[b] /\ (t = "resume" => bridge[b].event # 0)
        /\ Connect(b, br, m)
        /\ UNCHANGED <<scene, taken, queue, worker, rev, slot, executed, written>>
    BY <1>1 DEF CallTool, control, device
  <2>4. br.id \in Calls(b) /\ br.id > bridge[b].id /\ br.id > 0 /\ br.id <= scene.calls[b]
    BY <1>0, <2>2, <2>3 DEF Calls
  <2>5. executed[b][br.id] = 0
    BY <2>4 DEF IpcInv, Once
  <2>6. \A c \in DOMAIN conn : ~Changes(c, b, br.id)
    <3>1. SUFFICES ASSUME NEW c \in DOMAIN conn, Changes(c, b, br.id)
                   PROVE  FALSE
      OBVIOUS
    <3>2. conn[c].method \notin {"none", "read_memory"} /\ conn[c].who = b /\ conn[c].id = br.id
      BY <3>1 DEF Changes, Mutators
    <3>3. conn[c].id \in 1..bridge[b].id
      BY <1>0, <3>2 DEF Asked
    <3>4. QED
      BY <1>0, <2>2, <3>2, <3>3
  <2>7. Unchanged(b, br.id)
    BY <2>5, <2>6 DEF Unchanged
  <2>. HIDE DEF br, m
  <2>8. bridge[b].id <= br.id
    BY <1>0, <2>2
  <2>9. QED
    BY <2>1, <2>2, <2>3, <2>4, <2>7, <2>8, Requests
<1>2. CASE ThenResume(b) \/ Retry(b)
  <2>1. PICK m \in Methods : /\ Connect(b, bridge[b], m)
                             /\ m = "uxn_resume" => bridge[b].at = "checked"
    <3>1. CASE ThenResume(b)
      BY <3>1 DEF ThenResume, Methods
    <3>2. CASE Retry(b)
      BY <1>0, <3>2 DEF Retry, Asked, _RETRYABLE_METHODS
    <3>3. QED
      BY <1>2, <3>1, <3>2
  <2>2. bridge[b].at \in {"retry", "checked"}
        /\ UNCHANGED <<scene, taken, queue, worker, rev, slot, executed, written>>
    BY <1>2 DEF ThenResume, Retry, control, device
  <2>3. bridge[b].id > 0 /\ bridge[b].id <= scene.calls[b] /\ bridge[b].id <= bridge[b].id
    BY <1>0, <2>2 DEF Asked
  <2>4. Unchanged(b, bridge[b].id)
    BY <2>2 DEF IpcInv, Once
  <2>5. (bridge[b].tool = "resume" => bridge[b].event # 0)
        /\ (m = "uxn_resume" => Current(bridge[b].mark, bridge[b].event))
    BY <2>1, <2>2 DEF IpcInv, Registers
  <2>6. QED
    BY <1>0, <2>1, <2>2, <2>3, <2>4, <2>5, Requests
<1>3. CASE Reply(b) \/ GiveUp(b) \/ Disconnected(b)
  <2>. DEFINE c == bridge[b].conn
              nb == bridge'[b]
  <2>1. /\ bridge[b].at = "waiting" /\ c \in DOMAIN conn
        /\ bridge' = [bridge EXCEPT ![b] = nb] /\ nb \in BridgeStates
        /\ \/ conn' = [conn EXCEPT ![c] = Over] /\ conn[c].state = "closed"
           \/ conn' = [conn EXCEPT ![c] = [conn[c] EXCEPT !.left = TRUE]]
        /\ nb.at # "waiting"
    BY <1>0, <1>3, BridgeDone
  <2>2. UNCHANGED <<scene, taken, backlog, queue, worker, rev, slot, executed, written>>
    BY <1>3 DEF Reply, GiveUp, Disconnected, control, accepts, device
  <2>3. /\ conn[c].who = b /\ conn[c].method = bridge[b].method /\ bridge[b].method \in Methods
        /\ bridge[b].id > 0 /\ bridge[b].id <= scene.calls[b]
    BY <1>0, <2>1 DEF Asked
  <2>4. bridge[b].tool = "resume" => bridge[b].event # 0
    BY <2>1 DEF IpcInv, Registers
  <2>5. bridge[b].method \notin Mutators => Unchanged(b, bridge[b].id)
    BY <2>1 DEF IpcInv, Once
  <2>6. /\ nb.id = bridge[b].id
        /\ nb.at # "idle" => /\ nb.method = bridge[b].method /\ nb.tool = bridge[b].tool
                             /\ nb.event = bridge[b].event
                             /\ bridge[b].method \notin Mutators
        /\ nb.at = "retry" => nb.method \in _RETRYABLE_METHODS
        /\ nb.at = "checked" => nb.tool = "resume" /\ Current(nb.mark, nb.event)
    <3>1. bridge \in [Bridges -> BridgeStates]
      BY <1>0 DEF Typed
    <3>2. CASE Reply(b)
      <4>1. nb = Taken(bridge[b], conn[c].answer)
        BY <3>1, <3>2 DEF Reply
      <4>2. nb.id = bridge[b].id /\ nb.at \in {"idle", "checked"}
        BY <1>0, <4>1 DEF Taken, BridgeStates
      <4>3. nb.at = "checked" => /\ conn[c].answer.is = "status" /\ bridge[b].tool = "resume"
                                 /\ conn[c].answer.seq = bridge[b].event
                                 /\ nb = [bridge[b] EXCEPT !.at = "checked", !.mark = conn[c].answer.rev]
        BY <1>0, <4>1 DEF Taken, BridgeStates
      <4>4. nb.at = "checked" => /\ nb.method = bridge[b].method /\ nb.tool = bridge[b].tool
                                 /\ nb.event = bridge[b].event /\ nb.mark = conn[c].answer.rev
        BY <1>0, <4>3 DEF BridgeStates
      <4>5. conn[c].answer.is = "status" =>
               /\ conn[c].method = "uxn_status"
               /\ conn[c].answer.seq # 0 => Current(conn[c].answer.rev, conn[c].answer.seq)
        BY <2>1 DEF IpcInv, Registers
      <4>6. QED
        BY <2>3, <2>4, <4>2, <4>3, <4>4, <4>5 DEF Mutators
    <3>3. CASE GiveUp(b)
      <4>1. \/ /\ bridge[b].attempt < _effective_retries(bridge[b].tool, bridge[b].method)
               /\ nb = [bridge[b] EXCEPT !.at = "retry", !.attempt = @ + 1]
            \/ nb = [bridge[b] EXCEPT !.at = "idle", !.out = "error"]
        BY <3>1, <3>3 DEF GiveUp
      <4>2. bridge[b].attempt \in Nat
        BY <1>0 DEF BridgeStates
      <4>3. bridge[b].attempt < _effective_retries(bridge[b].tool, bridge[b].method) =>
               bridge[b].method \in _RETRYABLE_METHODS
        BY <4>2 DEF _effective_retries
      <4>4. CASE nb = [bridge[b] EXCEPT !.at = "idle", !.out = "error"]
        BY <1>0, <4>4 DEF BridgeStates
      <4>5. CASE /\ bridge[b].attempt < _effective_retries(bridge[b].tool, bridge[b].method)
                 /\ nb = [bridge[b] EXCEPT !.at = "retry", !.attempt = @ + 1]
        <5>1. PICK k : nb = [bridge[b] EXCEPT !.at = "retry", !.attempt = k]
          BY <4>5
        <5>2. /\ nb.at = "retry" /\ nb.id = bridge[b].id /\ nb.method = bridge[b].method
              /\ nb.tool = bridge[b].tool /\ nb.event = bridge[b].event
          BY <1>0, <5>1 DEF BridgeStates
        <5>3. QED
          BY <4>3, <4>5, <5>2 DEF Mutators, _RETRYABLE_METHODS
      <4>6. QED
        BY <4>1, <4>4, <4>5
    <3>4. CASE Disconnected(b)
      <4>1. nb = [bridge[b] EXCEPT !.at = "idle", !.out = "raised"]
        BY <3>1, <3>4 DEF Disconnected
      <4>2. QED
        BY <1>0, <4>1 DEF BridgeStates
    <3>5. QED
      BY <1>3, <3>2, <3>3, <3>4
  <2>7. nb.at # "idle" => /\ nb.method \in Methods /\ nb.id > 0 /\ Unchanged(b, nb.id)
                          /\ nb.tool = "resume" => nb.event # 0
    BY <2>3, <2>4, <2>5, <2>6
  <2>8. nb.id <= scene.calls[b] /\ bridge[b].id <= nb.id
    BY <1>0, <2>3, <2>6
  <2>. HIDE DEF nb
  <2>9. QED
    BY <2>1, <2>2, <2>6, <2>7, <2>8, BridgeRests
<1>4. QED
  BY <1>1, <1>2, <1>3

\* What a worker may do next with the connection it holds.
Advances(v) ==
    /\ worker[v].at \in {"receive", "operate", "store"} /\ worker'[v].conn = worker[v].conn
    /\ worker'[v].at \in {"operate", "store", "answer"}
    /\ worker'[v].at = "operate" => worker[v].at = "receive"
    /\ worker'[v].at \in {"operate", "store"} =>
          /\ conn[worker[v].conn].sent = "whole"
          /\ worker'[v].ctx \in conn[worker[v].conn].from..rev'
    /\ worker'[v].at = "answer" /\ worker'[v].answer.is = "page" =>
          worker'[v].answer.rev \in conn[worker[v].conn].from..rev'
    /\ worker'[v].at = "answer" /\ worker'[v].answer.is = "status" =>
          /\ conn[worker[v].conn].method = "uxn_status"
          /\ worker'[v].answer.seq # 0 => Current(worker[v].answer.rev, worker[v].answer.seq)'

\* The service carries out at most one request, and counts it once.
Carries ==
    \/ executed' = executed
    \/ \E w \in scene.workers :
          /\ worker[w].at = "operate" /\ worker'[w].at # "operate" /\ Advances(w)
          /\ conn[worker[w].conn].method \in Mutators /\ Counted(worker[w].conn)

\* A worker's step carries its answer on, of the revision it was read at.
LEMMA WorkKeeps ==
  ASSUME IpcInv, UNCHANGED <<scene, taken, backlog, queue, conn, bridge>>,
         rev' \in Nat, rev <= rev', \A r \in Nat : \A s : Current(r, s) => Current(r, s)',
         StaleOnlyAfterRival', Carries,
         \A v \in scene.workers : worker'[v] = worker[v] \/ Advances(v)
  PROVE  Contents'
PROOF
<1>0. Typed /\ Placed /\ Asked /\ rev \in Nat
  BY DEF IpcInv, Typed
<1>1. \A v \in scene.workers : worker'[v].at \in {"operate", "store", "answer"} =>
         worker'[v].conn = worker[v].conn /\ worker[v].conn \in DOMAIN conn
  BY <1>0, InDomain DEF Advances, Holds
<1>2. Asked'
  <2>1. \A w \in scene.workers : worker'[w].at \in {"operate", "store"} =>
          conn[worker'[w].conn].sent = "whole"
    BY <1>0, <1>1 DEF Asked, Advances
  <2>2. QED
    BY <1>0, <2>1 DEF Asked
<1>3. \A c : Todo(c)' => Todo(c)
  <2>1. \A c : InLine(c)' <=> InLine(c)
    BY DEF InLine
  <2>2. \A v \in scene.workers : worker'[v].at \in {"receive", "operate"} =>
           worker[v].at \in {"receive", "operate"} /\ worker'[v].conn = worker[v].conn
    BY DEF Advances
  <2>3. QED
    BY <2>1, <2>2 DEF Todo
<1>4. Once'
  <2>1. /\ \A b : Calls(b)' = Calls(b) /\ \A c, i : Changes(c, b, i)' <=> Changes(c, b, i)
        /\ \A c : conn'[c].id = conn[c].id
    BY DEF Calls, Changes
  <2>2. CASE executed' = executed
    <3>1. \A b, i : Unchanged(b, i)' <=> Unchanged(b, i)
      BY <2>1, <2>2 DEF Unchanged
    <3>2. QED
      BY <1>3, <2>1, <2>2, <3>1 DEF IpcInv, Once
  <2>3. CASE executed' # executed
    <3>1. PICK w \in scene.workers :
             /\ worker[w].at = "operate" /\ worker'[w].at # "operate" /\ Advances(w)
             /\ conn[worker[w].conn].method \in Mutators /\ Counted(worker[w].conn)
      BY <2>3 DEF Carries
    <3>. DEFINE c0 == worker[w].conn
                b0 == conn[c0].who
                i0 == conn[c0].id
    <3>2. c0 \in DOMAIN conn /\ Holds(w) /\ conn[c0].sent = "whole"
      BY <1>0, <3>1, InDomain DEF Holds, Asked
    <3>3. b0 \in Bridges /\ i0 \in Calls(b0) /\ i0 \in 1..bridge[b0].id
      BY <1>0, <3>1, <3>2, CallNumbers DEF Asked, Mutators
    <3>4. /\ executed'[b0][i0] = executed[b0][i0] + 1
          /\ \A b \in Bridges : \A i \in Calls(b) :
                ~(b = b0 /\ i = i0) => executed'[b][i] = executed[b][i]
      BY <1>0, <3>1, <3>2, <3>3, CountTyped
    <3>5. Changes(c0, b0, i0) /\ Todo(c0)
      BY <3>1 DEF Changes, Todo
    <3>6. executed[b0][i0] = 0
      BY <3>2, <3>3, <3>5 DEF IpcInv, Once
    <3>7. \A c \in DOMAIN conn : c = c0 => ~Todo(c)'
      <4>1. ~InLine(c0)
        BY <1>0, <3>2 DEF Placed
      <4>2. \A c : c = c0 => ~InLine(c)'
        BY <4>1 DEF InLine
      <4>3. \A v \in scene.workers : v # w /\ worker'[v].at \in {"receive", "operate"} => worker'[v].conn # c0
        <5>1. SUFFICES ASSUME NEW v \in scene.workers, v # w, worker'[v].at \in {"receive", "operate"},
                              worker'[v].conn = c0
                       PROVE  FALSE
          OBVIOUS
        <5>2. Has(v, worker[w].conn)
          BY <5>1 DEF Has, Holds, Advances
        <5>3. QED
          BY <1>0, <3>2, <5>1, <5>2 DEF Placed
      <4>4. worker'[w].at \notin {"receive", "operate"}
        BY <3>1 DEF Advances
      <4>5. QED
        BY <4>2, <4>3, <4>4 DEF Todo
    <3>. HIDE DEF c0, b0, i0
    <3>8. \A b \in Bridges : \A i \in Calls(b) : executed'[b][i] <= 1
      <4>1. 0 + 1 <= 1
        OBVIOUS
      <4>2. QED
        BY <3>4, <3>6, <4>1 DEF IpcInv, Once
    <3>9. \A b \in Bridges : \A i \in Calls(b) : i > bridge[b].id => executed'[b][i] = 0
      <4>1. ~(i0 > bridge[b0].id)
        <5>1. bridge[b0].id \in Nat
          BY <1>0, <3>3 DEF Typed, BridgeStates
        <5>2. QED
          BY <3>3, <5>1
      <4>2. QED
        BY <3>4, <4>1 DEF IpcInv, Once
    <3>10. \A b \in Bridges : \A c \in DOMAIN conn :
             Changes(c, b, conn[c].id) /\ Todo(c)' => executed'[b][conn[c].id] = 0
      <4>1. SUFFICES ASSUME NEW b \in Bridges, NEW c \in DOMAIN conn, Changes(c, b, conn[c].id), Todo(c)'
                     PROVE  executed'[b][conn[c].id] = 0
        OBVIOUS
      <4>2. c # c0
        BY <3>7, <4>1
      <4>3. ~(b = b0 /\ conn[c].id = i0)
        <5>1. SUFFICES ASSUME b = b0, conn[c].id = i0
                       PROVE  FALSE
          OBVIOUS
        <5>2. Changes(c0, b, conn[c].id)
          BY <3>5, <5>1
        <5>3. c = c0
          BY <3>2, <4>1, <5>2 DEF IpcInv, Once
        <5>4. QED
          BY <4>2, <5>3
      <4>4. conn[c].id \in Calls(b)
        <5>1. conn[c].method \in Mutators /\ conn[c].who = b
          BY <4>1 DEF Changes
        <5>2. QED
          BY <1>0, <5>1, CallNumbers
      <4>5. executed[b][conn[c].id] = 0
        BY <1>3, <4>1 DEF IpcInv, Once
      <4>6. QED
        BY <3>4, <4>3, <4>4, <4>5
    <3>11. \A b \in Bridges :
             bridge[b].at \in {"retry", "checked"}
                \/ (bridge[b].at = "waiting" /\ bridge[b].method \notin Mutators)
             => Unchanged(b, bridge[b].id)'
      <4>1. SUFFICES ASSUME NEW b \in Bridges,
                            bridge[b].at \in {"retry", "checked"}
                               \/ (bridge[b].at = "waiting" /\ bridge[b].method \notin Mutators)
                     PROVE  Unchanged(b, bridge[b].id)'
        OBVIOUS
      <4>2. Unchanged(b, bridge[b].id)
        BY <4>1 DEF IpcInv, Once
      <4>3. ~(b = b0 /\ bridge[b].id = i0)
        BY <3>2, <3>5, <4>2 DEF Unchanged
      <4>4. bridge[b].id \in Calls(b)
        <5>1. bridge[b].id \in Nat /\ bridge[b].id > 0 /\ bridge[b].id <= scene.calls[b]
              /\ scene.calls[b] \in Nat
          BY <1>0, <4>1, SceneAssumption DEF Asked, Typed, BridgeStates
        <5>2. QED
          BY <5>1 DEF Calls
      <4>5. QED
        BY <2>1, <3>4, <4>2, <4>3, <4>4 DEF Unchanged
    <3>12. QED
      BY <2>1, <3>8, <3>9, <3>10, <3>11 DEF IpcInv, Once
  <2>4. QED
    BY <2>2, <2>3
<1>5. Selected'
  <2>1. \A x \in Nat : \A y : y \in x..rev => y \in x..rev'
    BY <1>0
  <2>2. \A c \in DOMAIN conn : conn[c].from \in Nat
    BY <1>0, InDomain DEF Conns
  <2>3. \A c \in DOMAIN conn : conn[c].from <= rev'
    BY <1>0, <2>2 DEF IpcInv, Selected
  <2>4. PageOfSelected'
    BY <2>1, <2>2 DEF IpcInv, Selected, PageOfSelected
  <2>5. \A w \in scene.workers :
          /\ worker'[w].at \in {"operate", "store"} =>
                worker'[w].ctx \in conn[worker'[w].conn].from..rev'
          /\ worker'[w].at = "answer" /\ worker'[w].answer.is = "page" =>
                worker'[w].answer.rev \in conn[worker'[w].conn].from..rev'
    BY <1>1, <2>1, <2>2 DEF IpcInv, Selected, Advances
  <2>6. QED
    BY <2>3, <2>4, <2>5 DEF Selected
<1>6. Registers'
  <2>1. \A c \in DOMAIN conn : conn[c].answer.rev \in Nat /\ conn[c].mark \in Nat
    BY <1>0, InDomain DEF Conns, Answers
  <2>2. \A w \in scene.workers : worker[w].answer.rev \in Nat
    BY <1>0 DEF Typed, WorkerStates, Answers
  <2>3. \A b \in Bridges : bridge[b].mark \in Nat
    BY <1>0 DEF Typed, BridgeStates
  <2>4. \A w \in scene.workers : worker'[w].at = "answer" /\ worker'[w].answer.is = "status" =>
          /\ conn'[worker'[w].conn].method = "uxn_status"
          /\ worker'[w].answer.seq # 0 => Current(worker[w].answer.rev, worker[w].answer.seq)'
    <3>1. SUFFICES ASSUME NEW w \in scene.workers, worker'[w].at = "answer", worker'[w].answer.is = "status"
                   PROVE  /\ conn'[worker'[w].conn].method = "uxn_status"
                          /\ worker'[w].answer.seq # 0 => Current(worker[w].answer.rev, worker[w].answer.seq)'
      OBVIOUS
    <3>2. CASE worker'[w] = worker[w]
      BY <2>2, <3>1, <3>2 DEF IpcInv, Registers
    <3>3. CASE Advances(w)
      BY <3>1, <3>3 DEF Advances
    <3>4. QED
      BY <3>2, <3>3
  <2>5. \A c \in DOMAIN conn' : conn'[c].answer.is = "status" =>
          /\ conn'[c].method = "uxn_status"
          /\ conn'[c].answer.seq # 0 => Current(conn[c].answer.rev, conn[c].answer.seq)'
    BY <2>1 DEF IpcInv, Registers
  <2>6. \A c \in DOMAIN conn' : conn'[c].method = "uxn_resume" => Current(conn[c].mark, conn[c].regs)'
    BY <2>1 DEF IpcInv, Registers
  <2>7. \A b \in Bridges :
          /\ bridge'[b].tool = "resume" /\ bridge'[b].at # "idle" => bridge'[b].event # 0
          /\ bridge'[b].at = "checked" =>
                bridge'[b].tool = "resume" /\ Current(bridge[b].mark, bridge[b].event)'
    BY <2>3 DEF IpcInv, Registers
  <2>8. QED
    BY <2>4, <2>5, <2>6, <2>7 DEF Registers
<1>7. QED
  BY <1>2, <1>4, <1>5, <1>6 DEF Contents

\* What a status said stays true of the slot until somebody resumes it.
LEMMA CurrentStays ==
  ASSUME Typed,
         \/ slot' = slot
         \/ slot' = [slot EXCEPT !.installed = FALSE, !.paused = FALSE]
         \/ slot' = [slot EXCEPT !.paused = FALSE, !.resumes = @ + 1]
         \/ (slot' = [slot EXCEPT !.paused = TRUE, !.seq = @ + 1] /\ slot.installed /\ ~slot.paused)
  PROVE  \A r \in Nat : \A s : Current(r, s) => Current(r, s)'
PROOF
<1>1. slot \in Slots /\ slot.resumes \in Nat /\ slot.seq \in Nat
  BY DEF Typed, Slots
<1>2. CASE slot' = slot
  BY <1>2 DEF Current
<1>3. CASE slot' = [slot EXCEPT !.installed = FALSE, !.paused = FALSE]
  <2>1. slot'.resumes = slot.resumes /\ slot'.seq = slot.seq /\ ~slot'.installed
    BY <1>1, <1>3 DEF Slots
  <2>2. QED
    BY <2>1 DEF Current
<1>4. CASE slot' = [slot EXCEPT !.paused = FALSE, !.resumes = @ + 1]
  <2>1. slot'.resumes = slot.resumes + 1
    BY <1>1, <1>4 DEF Slots
  <2>2. QED
    BY <1>1, <2>1 DEF Current
<1>5. CASE slot' = [slot EXCEPT !.paused = TRUE, !.seq = @ + 1] /\ slot.installed /\ ~slot.paused
  <2>1. slot'.resumes = slot.resumes
    BY <1>1, <1>5 DEF Slots
  <2>2. \A r, s : Current(r, s) => r < slot.resumes
    BY <1>5 DEF Current
  <2>3. QED
    BY <2>1, <2>2 DEF Current
<1>6. QED
  BY <1>2, <1>3, <1>4, <1>5

\* A result that is neither a page nor a status needs no more.
LEMMA ResultAdvances ==
  ASSUME IpcInv, NEW w \in scene.workers, worker[w].at \in {"receive", "operate", "store"},
         NEW a \in Answers, Result(w, a),
         a.is = "page" => a.rev \in conn[worker[w].conn].from..rev',
         a.is = "status" => /\ conn[worker[w].conn].method = "uxn_status"
                            /\ a.seq # 0 => a.rev = slot'.resumes /\ a.seq = slot'.seq /\ slot'.paused
  PROVE  /\ Advances(w) /\ worker'[w].at = "answer"
         /\ \A v \in scene.workers : worker'[v] = worker[v] \/ Advances(v)
PROOF
<1>1. /\ worker'[w].at = "answer" /\ worker'[w].answer = a /\ worker'[w].conn = worker[w].conn
      /\ \A v \in scene.workers : v # w => worker'[v] = worker[v]
  BY ResultTyped DEF IpcInv
<1>2. Advances(w)
  BY <1>1 DEF Advances, Current
<1>3. QED
  BY <1>1, <1>2

\* The slot is hit or resumed by others.
LEMMA SlotSteps ==
  ASSUME IpcInv, Hit \/ OtherResumes
  PROVE  Contents'
PROOF
<1>1. UNCHANGED <<scene, taken, backlog, queue, worker, conn, bridge, rev, executed, written>>
  BY DEF Hit, OtherResumes, control, accepts
<1>2. \A r \in Nat : \A s : Current(r, s) => Current(r, s)'
  BY CurrentStays DEF Hit, OtherResumes, IpcInv
<1>3. rev' \in Nat /\ rev <= rev' /\ Carries
  BY <1>1 DEF IpcInv, Typed, Carries
<1>4. StaleOnlyAfterRival'
  BY <1>1 DEF IpcInv, Registers, StaleOnlyAfterRival
<1>5. QED
  BY <1>1, <1>2, <1>3, <1>4, WorkKeeps

\* A worker reads a request, or stores a table of symbols.
LEMMA ReadSteps ==
  ASSUME IpcInv, NEW w \in scene.workers, WorkerReceives(w) \/ StoreSymbols(w)
  PROVE  Contents'
PROOF
<1>. DEFINE c == worker[w].conn
<1>0. Typed /\ Placed /\ Asked /\ worker[w] \in WorkerStates
  BY DEF IpcInv, Typed
<1>1. UNCHANGED <<scene, taken, backlog, queue, conn, bridge, rev, slot, executed, written>>
  BY DEF WorkerReceives, StoreSymbols, control, accepts, device
<1>2. \A r \in Nat : \A s : Current(r, s) => Current(r, s)'
  BY <1>1 DEF Current
<1>3. rev' \in Nat /\ rev <= rev' /\ Carries
  BY <1>0, <1>1 DEF Typed, Carries
<1>4. StaleOnlyAfterRival'
  BY <1>1 DEF IpcInv, Registers, StaleOnlyAfterRival
<1>5. c \in DOMAIN conn
  BY <1>0, InDomain DEF Holds, WorkerReceives, StoreSymbols
<1>6. \A v \in scene.workers : worker'[v] = worker[v] \/ Advances(v)
  <2>1. CASE WorkerReceives(w) /\ conn[c].sent = "whole"
    <3>1. worker[w].at = "receive"
          /\ worker' = [worker EXCEPT ![w] = [worker[w] EXCEPT !.at = "operate", !.ctx = rev]]
      BY <2>1 DEF WorkerReceives
    <3>2. /\ worker'[w] = [worker[w] EXCEPT !.at = "operate", !.ctx = rev]
          /\ \A v \in scene.workers : v # w => worker'[v] = worker[v]
      BY <1>0, <3>1 DEF Typed
    <3>3. worker'[w].at = "operate" /\ worker'[w].conn = c /\ worker'[w].ctx = rev
      BY <1>0, <3>2 DEF WorkerStates
    <3>4. rev \in conn[c].from..rev
      <4>1. conn[c].from \in Nat /\ rev \in Nat /\ conn[c].from <= rev
        BY <1>0, <1>5, InDomain DEF Conns, Typed, IpcInv, Selected
      <4>2. QED
        BY <4>1
    <3>5. Advances(w)
      BY <1>1, <2>1, <3>1, <3>3, <3>4 DEF Advances
    <3>6. QED
      BY <3>2, <3>5
  <2>2. CASE WorkerReceives(w) /\ conn[c].sent # "whole"
    <3>1. worker[w].at = "receive" /\ Result(w, Error)
      BY <1>0, <2>2 DEF WorkerReceives, Result, Typed
    <3>2. Error \in Answers /\ Error.is = "error"
      BY Records DEF Error, Answer
    <3>3. QED
      BY <3>1, <3>2, ResultAdvances
  <2>3. CASE StoreSymbols(w)
    <3>1. worker[w].at = "store" /\ Result(w, Answer("loaded", worker[w].ctx, 0))
      BY <2>3 DEF StoreSymbols
    <3>2. Answer("loaded", worker[w].ctx, 0) \in Answers
      BY <1>0, Records DEF WorkerStates, Kinds
    <3>3. Answer("loaded", worker[w].ctx, 0).is = "loaded"
      BY DEF Answer
    <3>4. QED
      BY <3>1, <3>2, <3>3, ResultAdvances
  <2>4. QED
    BY <2>1, <2>2, <2>3
<1>7. QED
  BY <1>1, <1>2, <1>3, <1>4, <1>6, WorkKeeps

\* A worker carries out a request.
LEMMA OperateSteps ==
  ASSUME IpcInv, NEW w \in scene.workers, WorkerOperates(w)
  PROVE  Contents'
PROOF
<1>. DEFINE c == worker[w].conn
<1>0. Typed /\ Placed /\ Asked /\ worker[w] \in WorkerStates /\ slot \in Slots
  BY DEF IpcInv, Typed
<1>1. UNCHANGED <<scene, taken, backlog, queue, conn, bridge>> /\ worker[w].at = "operate"
  BY DEF WorkerOperates, control, accepts
<1>2. conn[c].method \in Methods /\ rev' \in Nat /\ rev <= rev'
  BY <1>0, OperateTyped
<1>3. c \in DOMAIN conn /\ conn[c].sent = "whole" /\ conn[c] \in Conns
  BY <1>0, <1>1, InDomain DEF Holds, Asked
<1>4. worker[w].ctx \in conn[c].from..rev
  BY <1>1 DEF IpcInv, Selected
<1>5. slot.resumes \in Nat /\ slot.seq \in Nat /\ rev \in Nat /\ table \in Nat
  BY <1>0 DEF Slots, Typed
\* A request that changes nothing.
<1>6. ASSUME NEW a \in Answers, Result(w, a), UNCHANGED <<rev, slot, executed, written>>,
             a.is = "page" => a.rev \in conn[c].from..rev,
             a.is = "status" => /\ conn[c].method = "uxn_status"
                                /\ a.seq # 0 => a.rev = slot.resumes /\ a.seq = slot.seq /\ slot.paused
      PROVE  Contents'
  <2>1. UNCHANGED <<rev, slot, executed, written>>
    BY <1>6
  <2>2. \A v \in scene.workers : worker'[v] = worker[v] \/ Advances(v)
    BY <1>1, <1>6, <2>1, ResultAdvances
  <2>3. \A r \in Nat : \A s : Current(r, s) => Current(r, s)'
    BY <2>1 DEF Current
  <2>4. StaleOnlyAfterRival' /\ Carries
    BY <2>1 DEF IpcInv, Registers, StaleOnlyAfterRival, Carries
  <2>5. QED
    BY <1>1, <1>2, <2>2, <2>3, <2>4, WorkKeeps
<1>7. ASSUME Fails(w)
      PROVE  Contents'
  <2>1. Error \in Answers /\ Error.is = "error"
    BY Records DEF Error, Answer
  <2>2. QED
    BY <1>6, <1>7, <2>1 DEF Fails, device
\* A change.
<1>8. ASSUME NEW a \in Answers, Result(w, a), Counted(c), conn[c].method \in Mutators,
             a.is # "page", a.is # "status", StaleOnlyAfterRival',
             \A r \in Nat : \A s : Current(r, s) => Current(r, s)'
      PROVE  Contents'
  <2>1. /\ Advances(w) /\ worker'[w].at = "answer"
        /\ \A v \in scene.workers : worker'[v] = worker[v] \/ Advances(v)
    BY <1>1, <1>8, ResultAdvances
  <2>2. Carries
    BY <1>1, <1>8, <2>1 DEF Carries
  <2>3. QED
    BY <1>1, <1>2, <1>8, <2>1, <2>2, WorkKeeps
<1>9. CASE conn[c].method = "open_process"
  <2>1. open_process(w, c)
    BY <1>9 DEF WorkerOperates
  <2>2. CASE worker[w].ctx = rev /\ rev < MaxRevs
    <3>1. /\ slot' = [slot EXCEPT !.installed = FALSE, !.paused = FALSE] /\ Counted(c)
          /\ Result(w, Answer("opened", rev + 1, 0)) /\ written' = written
      BY <2>1, <2>2 DEF open_process
    <3>2. Answer("opened", rev + 1, 0) \in Answers
      BY <1>5, Records DEF Kinds
    <3>3. Answer("opened", rev + 1, 0).is = "opened"
      BY DEF Answer
    <3>4. \A r \in Nat : \A s : Current(r, s) => Current(r, s)'
      BY <1>0, <3>1, CurrentStays
    <3>5. StaleOnlyAfterRival'
      BY <3>1 DEF IpcInv, Registers, StaleOnlyAfterRival
    <3>6. QED
      BY <1>8, <1>9, <3>1, <3>2, <3>3, <3>4, <3>5 DEF Mutators
  <2>3. QED
    BY <1>7, <2>1, <2>2 DEF open_process
<1>10. CASE conn[c].method = "symbol_init"
  <2>1. symbol_init(w, c)
    BY <1>10 DEF WorkerOperates
  <2>2. CASE worker[w].ctx = rev
    <3>1. /\ worker' = [worker EXCEPT ![w] = [worker[w] EXCEPT !.at = "store"]] /\ Counted(c)
          /\ UNCHANGED <<rev, slot, written>>
      BY <2>1, <2>2 DEF symbol_init
    <3>2. /\ worker'[w] = [worker[w] EXCEPT !.at = "store"]
          /\ \A v \in scene.workers : v # w => worker'[v] = worker[v]
      BY <1>0, <3>1 DEF Typed
    <3>3. worker'[w].at = "store" /\ worker'[w].conn = c /\ worker'[w].ctx = worker[w].ctx
      BY <1>0, <3>2 DEF WorkerStates
    <3>4. Advances(w)
      BY <1>1, <1>3, <1>4, <3>1, <3>3 DEF Advances
    <3>5. Carries
      BY <1>1, <1>10, <3>1, <3>3, <3>4 DEF Carries, Mutators
    <3>6. \A r \in Nat : \A s : Current(r, s) => Current(r, s)'
      BY <3>1 DEF Current
    <3>7. StaleOnlyAfterRival'
      BY <3>1 DEF IpcInv, Registers, StaleOnlyAfterRival
    <3>8. QED
      BY <1>1, <1>2, <3>2, <3>4, <3>5, <3>6, <3>7, WorkKeeps
  <2>3. QED
    BY <1>7, <2>1, <2>2 DEF symbol_init
<1>11. CASE conn[c].method = "symbol_list"
  <2>1. symbol_list(w, c) /\ UNCHANGED device
    BY <1>11 DEF WorkerOperates
  <2>2. CASE table # 0 /\ table = worker[w].ctx
    <3>1. Result(w, Answer("page", table, 0))
      BY <2>1, <2>2 DEF symbol_list
    <3>2. Answer("page", table, 0) \in Answers
      BY <1>5, Records DEF Kinds
    <3>3. Answer("page", table, 0).is = "page" /\ Answer("page", table, 0).rev = table
      BY DEF Answer
    <3>4. QED
      BY <1>4, <1>6, <2>1, <2>2, <3>1, <3>2, <3>3 DEF device
  <2>3. CASE ~(table # 0 /\ table = worker[w].ctx)
    BY <1>7, <2>1, <2>3 DEF symbol_list, Fails
  <2>4. QED
    BY <2>2, <2>3
<1>12. CASE conn[c].method = "uxn_wait"
  <2>1. uxn_wait(w, c) /\ UNCHANGED device
    BY <1>12 DEF WorkerOperates
  <2>2. CASE worker[w].ctx = rev /\ slot.paused /\ slot.seq # conn[c].regs
    <3>1. Result(w, Answer("event", 0, slot.seq))
      BY <2>1, <2>2 DEF uxn_wait
    <3>2. Answer("event", 0, slot.seq) \in Answers
      BY <1>5, Records DEF Kinds
    <3>3. Answer("event", 0, slot.seq).is = "event"
      BY DEF Answer
    <3>4. QED
      BY <1>6, <2>1, <3>1, <3>2, <3>3 DEF device
  <2>3. CASE ~(worker[w].ctx = rev /\ slot.paused /\ slot.seq # conn[c].regs)
    BY <1>7, <2>1, <2>3 DEF uxn_wait, Fails
  <2>4. QED
    BY <2>2, <2>3
<1>13. CASE conn[c].method = "uxn_status"
  <2>1. uxn_status(w, c) /\ UNCHANGED device
    BY <1>13 DEF WorkerOperates
  <2>2. CASE worker[w].ctx = rev
    <3>1. PICK s \in Nat : /\ Result(w, Answer("status", slot.resumes, s))
                           /\ s # 0 => s = slot.seq /\ slot.paused
      BY <1>5, <2>1, <2>2 DEF uxn_status
    <3>2. Answer("status", slot.resumes, s) \in Answers
      BY <1>5, Records DEF Kinds
    <3>3. LET a == Answer("status", slot.resumes, s)
          IN  a.is = "status" /\ a.rev = slot.resumes /\ a.seq = s
      BY DEF Answer
    <3>4. QED
      BY <1>6, <1>13, <2>1, <3>1, <3>2, <3>3 DEF device
  <2>3. CASE worker[w].ctx # rev
    BY <1>7, <2>1, <2>3 DEF uxn_status, Fails
  <2>4. QED
    BY <2>2, <2>3
<1>14. CASE conn[c].method = "uxn_resume"
  <2>1. uxn_resume(w, c)
    BY <1>14 DEF WorkerOperates
  <2>2. CASE worker[w].ctx = rev /\ slot.paused
    <3>1. /\ slot' = [slot EXCEPT !.paused = FALSE, !.resumes = @ + 1] /\ Counted(c)
          /\ Result(w, Answer("resumed", 0, slot.seq))
          /\ written' = [stale |-> conn[c].regs # slot.seq, rival |-> conn[c].mark # slot.resumes]
      BY <2>1, <2>2 DEF uxn_resume
    <3>2. Answer("resumed", 0, slot.seq) \in Answers
      BY <1>5, Records DEF Kinds
    <3>3. Answer("resumed", 0, slot.seq).is = "resumed"
      BY DEF Answer
    <3>4. \A r \in Nat : \A s : Current(r, s) => Current(r, s)'
      BY <1>0, <3>1, CurrentStays
    <3>5. StaleOnlyAfterRival'
      <4>1. Current(conn[c].mark, conn[c].regs) /\ conn[c].mark \in Nat
        BY <1>3, <1>14 DEF IpcInv, Registers, Conns
      <4>2. conn[c].regs # slot.seq => conn[c].mark # slot.resumes
        BY <1>5, <4>1 DEF Current
      <4>3. QED
        BY <3>1, <4>2 DEF StaleOnlyAfterRival
    <3>6. QED
      BY <1>8, <1>14, <3>1, <3>2, <3>3, <3>4, <3>5 DEF Mutators
  <2>3. QED
    BY <1>7, <2>1, <2>2 DEF uxn_resume
<1>15. CASE conn[c].method = "read_memory"
  <2>1. read_memory(w, c) /\ UNCHANGED device
    BY <1>15 DEF WorkerOperates
  <2>2. CASE worker[w].ctx = rev
    <3>1. Result(w, Answer("bulk", 0, 0))
      BY <2>1, <2>2 DEF read_memory
    <3>2. Answer("bulk", 0, 0) \in Answers
      BY Records DEF Kinds
    <3>3. Answer("bulk", 0, 0).is = "bulk"
      BY DEF Answer
    <3>4. QED
      BY <1>6, <2>1, <3>1, <3>2, <3>3 DEF device
  <2>3. CASE worker[w].ctx # rev
    BY <1>7, <2>1, <2>3 DEF read_memory, Fails
  <2>4. QED
    BY <2>2, <2>3
<1>16. CASE conn[c].method = "read_bp_info"
  <2>1. read_bp_info(w, c)
    BY <1>16 DEF WorkerOperates
  <2>2. CASE worker[w].ctx = rev
    <3>1. Result(w, Answer("hits", 0, 0)) /\ UNCHANGED <<rev, slot, executed, written>>
      BY <2>1, <2>2 DEF read_bp_info
    <3>2. Answer("hits", 0, 0) \in Answers
      BY Records DEF Kinds
    <3>3. Answer("hits", 0, 0).is = "hits"
      BY DEF Answer
    <3>4. QED
      BY <1>6, <3>1, <3>2, <3>3
  <2>3. QED
    BY <1>7, <2>1, <2>2 DEF read_bp_info
<1>17. QED
  BY <1>2, <1>9, <1>10, <1>11, <1>12, <1>13, <1>14, <1>15, <1>16 DEF Methods

\* A worker answers.
LEMMA AnswerSteps ==
  ASSUME IpcInv, NEW w \in scene.workers, WorkerAnswers(w)
  PROVE  Contents'
PROOF
<1>. DEFINE c == worker[w].conn
<1>0. Typed /\ Placed /\ Asked
  BY DEF IpcInv
<1>1. UNCHANGED <<scene, taken, backlog, queue, bridge, rev, slot, executed, written>>
      /\ worker[w].at = "answer"
  BY DEF WorkerAnswers, control, accepts, device
<1>2. c \in DOMAIN conn /\ conn[c] \in Conns /\ worker[w].answer \in Answers /\ Holds(w)
  BY <1>0, <1>1, InDomain DEF Holds
<1>3. /\ worker'[w].at = "ready" /\ \A v \in scene.workers : v # w => worker'[v] = worker[v]
  BY <1>0 DEF WorkerAnswers, Typed, Free
<1>4. PICK n \in Conns : /\ conn' = [conn EXCEPT ![c] = n]
                         /\ \/ n = Over /\ (conn[c].left \/ conn[c].who = NoBridge)
                            \/ Same(n, conn[c]) /\ n.answer = worker[w].answer /\ n.left = conn[c].left
  <2>1. CASE conn[c].left \/ conn[c].who = NoBridge
    <3>1. conn' = [conn EXCEPT ![c] = Over]
      BY <1>2, <2>1 DEF WorkerAnswers
    <3>2. QED
      BY <2>1, <3>1, Records
  <2>2. CASE ~(conn[c].left \/ conn[c].who = NoBridge)
    <3>1. conn' = [conn EXCEPT ![c] = [conn[c] EXCEPT !.state = "closed", !.answer = worker[w].answer]]
      BY <1>2, <2>2 DEF WorkerAnswers
    <3>2. LET n == [conn[c] EXCEPT !.state = "closed", !.answer = worker[w].answer]
          IN  /\ n \in Conns /\ Same(n, conn[c])
              /\ n.answer = worker[w].answer /\ n.left = conn[c].left
      BY <1>2, ConnUpdates
    <3>3. QED
      BY <3>1, <3>2
  <2>3. QED
    BY <2>1, <2>2
<1>5. /\ DOMAIN conn' = DOMAIN conn /\ conn'[c] = n
      /\ \A d \in DOMAIN conn : d # c => conn'[d] = conn[d]
  BY <1>0, <1>2, <1>4, Replaced
<1>6. \A d \in DOMAIN conn : conn'[d] = Over \/ Same(conn'[d], conn[d])
  BY <1>4, <1>5 DEF Same
<1>7. \A v \in scene.workers : Holds(v)' =>
         /\ v # w /\ worker'[v] = worker[v] /\ worker[v].conn \in DOMAIN conn
         /\ conn'[worker[v].conn] = conn[worker[v].conn]
  <2>1. SUFFICES ASSUME NEW v \in scene.workers, Holds(v)'
                 PROVE  /\ v # w /\ worker'[v] = worker[v] /\ worker[v].conn \in DOMAIN conn
                        /\ conn'[worker[v].conn] = conn[worker[v].conn]
    OBVIOUS
  <2>2. v # w /\ worker'[v] = worker[v] /\ Holds(v)
    BY <1>3, <2>1 DEF Holds
  <2>3. worker[v].conn # c /\ worker[v].conn \in DOMAIN conn
    BY <1>0, <1>2, <2>2 DEF Placed, Has
  <2>4. QED
    BY <1>5, <2>2, <2>3
<1>8. \A d : Todo(d)' => Todo(d)
  <2>1. \A d : InLine(d)' <=> InLine(d)
    BY <1>1 DEF InLine
  <2>2. QED
    BY <1>1, <1>3, <2>1 DEF Todo
<1>9. Asked'
  <2>1. \A d \in DOMAIN conn' : conn'[d].sent = "whole" \/ conn'[d].method # "none" =>
          /\ conn'[d].sent = "whole" /\ conn'[d].method \in Methods
          /\ conn'[d].method # "read_memory" =>
                conn'[d].who \in Bridges /\ conn'[d].id \in 1..bridge[conn'[d].who].id
    BY <1>0, <1>5, <1>6, OverIs DEF Asked, Same
  <2>2. \A v \in scene.workers : worker'[v].at \in {"operate", "store"} =>
          conn'[worker'[v].conn].sent = "whole"
    BY <1>0, <1>7 DEF Asked, Holds
  <2>3. \A b \in Bridges : bridge[b].at = "waiting" =>
          /\ bridge[b].conn \in DOMAIN conn'
          /\ conn'[bridge[b].conn].who = b /\ conn'[bridge[b].conn].method = bridge[b].method
          /\ ~conn'[bridge[b].conn].left
    <3>1. SUFFICES ASSUME NEW b \in Bridges, bridge[b].at = "waiting"
                   PROVE  /\ bridge[b].conn \in DOMAIN conn'
                          /\ conn'[bridge[b].conn].who = b
                          /\ conn'[bridge[b].conn].method = bridge[b].method
                          /\ ~conn'[bridge[b].conn].left
      OBVIOUS
    <3>2. /\ bridge[b].conn \in DOMAIN conn
          /\ conn[bridge[b].conn].who = b /\ conn[bridge[b].conn].method = bridge[b].method
          /\ ~conn[bridge[b].conn].left
      BY <1>0, <3>1 DEF Asked
    <3>3. CASE bridge[b].conn = c
      <4>1. Same(n, conn[c]) /\ n.left = conn[c].left
        BY <1>4, <3>2, <3>3, BoundsAssumption
      <4>2. QED
        BY <1>5, <3>2, <3>3, <4>1 DEF Same
    <3>4. CASE bridge[b].conn # c
      BY <1>5, <3>2, <3>4
    <3>5. QED
      BY <3>3, <3>4
  <2>4. QED
    BY <1>0, <1>1, <2>1, <2>2, <2>3 DEF Asked
<1>10. Once'
  <2>1. \A d \in DOMAIN conn : \A b, i : Changes(d, b, i)' => Changes(d, b, i) /\ Same(conn'[d], conn[d])
    BY <1>6, OverIs DEF Changes, Same, Mutators
  <2>2. \A b : Calls(b)' = Calls(b)
    BY <1>1 DEF Calls
  <2>3. \A b, i : Unchanged(b, i) => Unchanged(b, i)'
    BY <1>1, <1>5, <2>1 DEF Unchanged
  <2>4. \A b \in Bridges : \A d, e \in DOMAIN conn' :
          Changes(d, b, conn[d].id)' /\ Changes(e, b, conn[d].id)' => d = e
    BY <1>5, <2>1 DEF IpcInv, Once, Same
  <2>5. \A b \in Bridges : \A d \in DOMAIN conn' :
          Changes(d, b, conn[d].id)' /\ Todo(d)' => executed[b][conn'[d].id] = 0
    BY <1>5, <1>8, <2>1 DEF IpcInv, Once, Same
  <2>6. QED
    BY <1>1, <2>2, <2>3, <2>4, <2>5 DEF IpcInv, Once
<1>11. Selected'
  <2>1. (\A d \in DOMAIN conn : conn[d].from <= rev) /\ 0 <= rev
    BY <1>0 DEF IpcInv, Selected, Typed
  <2>2. \A d \in DOMAIN conn' : conn'[d].from <= rev
    BY <1>5, <1>6, <2>1, OverIs DEF Same
  <2>3. \A v \in scene.workers :
          /\ worker'[v].at \in {"operate", "store"} =>
                worker'[v].ctx \in conn'[worker'[v].conn].from..rev
          /\ worker'[v].at = "answer" /\ worker'[v].answer.is = "page" =>
                worker'[v].answer.rev \in conn'[worker'[v].conn].from..rev
    BY <1>7 DEF IpcInv, Selected, Holds
  <2>4. \A d \in DOMAIN conn' : conn'[d].answer.is = "page" => conn'[d].answer.rev \in conn'[d].from..rev
    <3>1. SUFFICES ASSUME NEW d \in DOMAIN conn, conn'[d].answer.is = "page"
                   PROVE  conn'[d].answer.rev \in conn'[d].from..rev
      BY <1>5
    <3>2. CASE d = c
      <4>1. Same(n, conn[c]) /\ n.answer = worker[w].answer /\ n.answer.is = "page"
        BY <1>4, <1>5, <3>1, <3>2, OverIs DEF NoAnswer
      <4>2. QED
        BY <1>1, <1>5, <3>2, <4>1 DEF IpcInv, Selected, Same
    <3>3. CASE d # c
      BY <1>5, <3>1, <3>3 DEF IpcInv, Selected, PageOfSelected
    <3>4. QED
      BY <3>2, <3>3
  <2>5. QED
    BY <1>1, <2>2, <2>3, <2>4 DEF Selected, PageOfSelected
<1>12. Registers'
  <2>1. \A r, s : Current(r, s)' <=> Current(r, s)
    BY <1>1 DEF Current
  <2>2. \A d \in DOMAIN conn' : conn'[d].answer.is = "status" =>
          /\ conn'[d].method = "uxn_status"
          /\ conn'[d].answer.seq # 0 => Current(conn'[d].answer.rev, conn'[d].answer.seq)
    <3>1. SUFFICES ASSUME NEW d \in DOMAIN conn, conn'[d].answer.is = "status"
                   PROVE  /\ conn'[d].method = "uxn_status"
                          /\ conn'[d].answer.seq # 0 => Current(conn'[d].answer.rev, conn'[d].answer.seq)
      BY <1>5
    <3>2. CASE d = c
      <4>1. Same(n, conn[c]) /\ n.answer = worker[w].answer /\ n.answer.is = "status"
        BY <1>4, <1>5, <3>1, <3>2, OverIs DEF NoAnswer
      <4>2. QED
        BY <1>1, <1>5, <3>2, <4>1 DEF IpcInv, Registers, Same
    <3>3. CASE d # c
      BY <1>5, <3>1, <3>3 DEF IpcInv, Registers
    <3>4. QED
      BY <3>2, <3>3
  <2>3. \A d \in DOMAIN conn' : conn'[d].method = "uxn_resume" => Current(conn'[d].mark, conn'[d].regs)
    BY <1>5, <1>6, OverIs DEF IpcInv, Registers, Same
  <2>4. \A v \in scene.workers : worker'[v].at = "answer" /\ worker'[v].answer.is = "status" =>
          /\ conn'[worker'[v].conn].method = "uxn_status"
          /\ worker'[v].answer.seq # 0 => Current(worker'[v].answer.rev, worker'[v].answer.seq)
    BY <1>7 DEF IpcInv, Registers, Holds
  <2>5. QED
    BY <1>1, <2>1, <2>2, <2>3, <2>4 DEF IpcInv, Registers, StaleOnlyAfterRival
<1>13. QED
  BY <1>9, <1>10, <1>11, <1>12 DEF Contents

-----------------------------------------------------------------------------
(* The theorems.                                                            *)

\* The invariant holds before the first connection.
LEMMA IpcInit ==
  ASSUME Init
  PROVE  IpcInv
PROOF
<1>1. scene \in Scenes /\ scene.calls \in [Bridges -> Nat]
  BY SceneAssumption DEF Init
<1>2. Typed
  <2>1. executed = [b \in Bridges |-> executed[b]]
        /\ \A b \in Bridges : executed[b] \in [Calls(b) -> Nat]
    BY DEF Init, Calls
  <2>2. slot \in Slots
    BY DEF Init, Slots
  <2>3. worker \in [scene.workers -> WorkerStates] /\ bridge \in [Bridges -> BridgeStates]
    BY Records DEF Init
  <2>4. conn \in Seq(Conns) /\ taken \in Nat /\ backlog \in Seq(Nat) /\ queue \in Seq(Nat)
        /\ rev \in Nat /\ table \in Nat
    BY DEF Init
  <2>5. QED
    BY <1>1, <2>1, <2>2, <2>3, <2>4 DEF Typed
<1>3. DOMAIN conn = {} /\ \A c : ~InLine(c)
  BY EmptyLine DEF Init, InLine
<1>4. \A w \in scene.workers : ~Holds(w) /\ worker[w].at = "ready"
  BY DEF Init, Free, Holds
<1>5. \A b \in Bridges : bridge[b].at = "idle" /\ bridge[b].id = 0
  BY DEF Init, Idle
<1>6. Placed
  BY <1>3, <1>4, EmptyLine DEF Placed, Init
<1>7. Asked
  <2>1. \A b \in Bridges : bridge[b].id <= scene.calls[b]
    BY <1>1, <1>5
  <2>2. QED
    BY <1>3, <1>4, <1>5, <2>1 DEF Asked
<1>8. Once
  <2>1. \A b \in Bridges : \A i \in Calls(b) : executed[b][i] = 0
    BY DEF Init, Calls
  <2>2. QED
    BY <1>3, <1>5, <2>1 DEF Once
<1>9. Selected
  BY <1>3, <1>4 DEF Selected, PageOfSelected
<1>10. Registers
  <2>1. StaleOnlyAfterRival
    BY DEF Init, StaleOnlyAfterRival
  <2>2. QED
    BY <1>3, <1>4, <1>5, <2>1 DEF Registers
<1>11. QED
  BY <1>2, <1>6, <1>7, <1>8, <1>9, <1>10 DEF IpcInv

\* Every step keeps the invariant.
LEMMA IpcStep ==
  ASSUME IpcInv, [Next]_vars
  PROVE  IpcInv'
PROOF
<1>1. Typed' /\ Placed'
  BY TypedStep, PlacedStep DEF IpcInv
<1>2. Contents'
  <2>1. ASSUME NEW sent \in {"whole", "part", "refused"}, NEW m \in {"none", "read_memory"},
               m = "none" <=> sent # "whole",
               conn' = Append(conn, NewConn(NoBridge, m, 0, sent, 0, 0)),
               backlog' = Append(backlog, Len(conn) + 1),
               UNCHANGED <<scene, taken, queue, worker, bridge, rev, slot, executed, written>>
        PROVE  Contents'
    <3>. DEFINE n == NewConn(NoBridge, m, 0, sent, 0, 0)
    <3>1. n \in Conns
      BY MadeConn DEF IpcInv, Typed, Methods
    <3>2. /\ (n.sent # "whole" /\ n.method = "none") \/ (n.sent = "whole" /\ n.method = "read_memory")
          /\ n.from = rev /\ n.answer = NoAnswer
      BY <2>1 DEF NewConn
    <3>. HIDE DEF n
    <3>3. QED
      BY <2>1, <3>1, <3>2, OtherClient DEF n
  <2>2. CASE StopWakes
    BY <2>1, <2>2 DEF StopWakes, device
  <2>3. ASSUME NEW sent \in {"refused", "part", "whole"}, Stranger(sent)
        PROVE  Contents'
    <3>1. PICK m \in {"none", "read_memory"} : /\ m = "none" <=> sent # "whole"
                                               /\ m = IF sent = "whole" THEN "read_memory" ELSE "none"
      OBVIOUS
    <3>2. QED
      BY <2>1, <2>3, <3>1 DEF Stranger, control, device
  <2>4. CASE \E b \in Bridges :
               \/ \E t \in scene.tools[b] : CallTool(b, t)
               \/ ThenResume(b) \/ Reply(b) \/ GiveUp(b) \/ Disconnected(b) \/ Retry(b)
    BY <2>4, BridgeSteps
  <2>5. ASSUME NEW w \in scene.workers, WorkerStep(w)
        PROVE  Contents'
    BY <2>5, Movers, MovesKeep, ReadSteps, OperateSteps, AnswerSteps DEF WorkerStep
  <2>6. CASE Hit \/ OtherResumes
    BY <2>6, SlotSteps
  <2>7. CASE UNCHANGED vars \/ ServerStep \/ StopBegins \/ (StopStep /\ ~StopWakes)
    BY <2>7, Movers, MovesKeep
  <2>8. ASSUME NEW c \in DOMAIN conn, StrangerLeaves(c)
        PROVE  Contents'
    BY <2>8, LeavingKeeps
  <2>9. QED
    BY <2>2, <2>3, <2>4, <2>5, <2>6, <2>7, <2>8 DEF Next
<1>3. QED
  BY <1>1, <1>2 DEF IpcInv, Contents

\* The invariant holds for any number of bridges, workers, calls and connections.
THEOREM IpcInvariance == Spec => []IpcInv
  BY IpcInit, IpcStep, PTL DEF Spec

\* A tool that selects a process, loads symbols or resumes a thread does so at
\* most once: ipc_client.py retries only _RETRYABLE_METHODS, and a connection
\* is carried out by one worker, once.
THEOREM CallsMutateOnce == Spec => []MutatesOnce
PROOF
<1>1. IpcInv => MutatesOnce
  <2>1. SUFFICES ASSUME IpcInv, NEW b \in Bridges, NEW i \in DOMAIN executed[b]
                 PROVE  executed[b][i] <= 1
    BY DEF MutatesOnce
  <2>2. executed[b] \in [Calls(b) -> Nat]
    BY <2>1 DEF IpcInv, Typed
  <2>3. i \in Calls(b)
    BY <2>1, <2>2
  <2>4. QED
    BY <2>1, <2>3 DEF IpcInv, Once
<1>2. QED
  BY IpcInvariance, <1>1, PTL

\* symbol_list answers with a page of a process that was selected while the
\* request was under way: the kept table is compared with the context, and the
\* context was taken after the request was made.
THEOREM PagesAreOfSelected == Spec => []PageOfSelected
PROOF
<1>1. IpcInv => PageOfSelected
  BY DEF IpcInv, Selected
<1>2. QED
  BY IpcInvariance, <1>1, PTL

\* resume_uxn_breakpoint(set_x0) writes stale registers only when somebody
\* else resumed the slot after its state had been asked for.
THEOREM StaleNeedsRival == Spec => []StaleOnlyAfterRival
PROOF
<1>1. IpcInv => StaleOnlyAfterRival
  BY DEF IpcInv, Registers
<1>2. QED
  BY IpcInvariance, <1>1, PTL

-----------------------------------------------------------------------------
(* Stop().  Its steps tell the flags, what the accept thread may still be   *)
(* doing and which lines have been emptied.                                 *)

Stages ==
    /\ running <=> stop = "no"
    /\ listening <=> stop \in {"no", "wake", "close"}
    /\ stopping <=> stop \in {"notify", "workers", "done"}
    /\ stop \in {"swap", "notify", "workers", "done"} => server = "done"
    /\ ~listening /\ server # "accept" => backlog = <<>>
    /\ stopping => queue = <<>>
    /\ stop = "done" => \A w \in scene.workers : worker[w].at = "exited"

\* No connection is forgotten: while it is open it has a place.
HasPlace(c) == InLine(c) \/ \E w \in scene.workers : Has(w, c)
Tracked == \A c \in DOMAIN conn : conn[c].state = "open" => HasPlace(c)

StopInv == Stages /\ Tracked

\* The steps of everybody else leave what Stages is about, or keep it.
LEMMA StagesStep ==
  ASSUME IpcInv, Stages, [Next]_vars
  PROVE  Stages'
PROOF
<1>0. Typed /\ Placed /\ Asked
  BY DEF IpcInv
<1>1. ASSUME UNCHANGED <<scene, running, listening, stopping, stop, server>>,
             backlog = <<>> /\ ~listening => backlog' = <<>>,
             queue = <<>> /\ stopping => queue' = <<>>,
             \A w \in scene.workers : worker[w].at = "exited" => worker'[w].at = "exited"
      PROVE  Stages'
  BY <1>1 DEF Stages
<1>2. CASE UNCHANGED vars
  BY <1>1, <1>2 DEF vars
<1>3. ASSUME NEW b \in Bridges, NEW br, NEW m, Connect(b, br, m),
             UNCHANGED <<scene, running, listening, stopping, stop, server, queue, worker>>
      PROVE  Stages'
  BY <1>1, <1>3 DEF Connect
<1>4. ASSUME NEW b \in Bridges,
             \/ \E t \in scene.tools[b] : CallTool(b, t)
             \/ ThenResume(b) \/ Retry(b)
      PROVE  Stages'
  <2>1. PICK br, m : Connect(b, br, m)
    BY <1>4 DEF CallTool, ThenResume, Retry
  <2>2. UNCHANGED <<scene, running, listening, stopping, stop, server, queue, worker>>
    BY <1>4 DEF CallTool, ThenResume, Retry, control
  <2>3. QED
    BY <1>3, <2>1, <2>2
<1>5. ASSUME NEW b \in Bridges, Reply(b) \/ GiveUp(b) \/ Disconnected(b)
      PROVE  Stages'
  BY <1>1, <1>5 DEF Reply, GiveUp, Disconnected, control, accepts
<1>6. ASSUME \/ \E sent \in {"refused", "part", "whole"} : Stranger(sent)
             \/ \E c \in DOMAIN conn : StrangerLeaves(c)
      PROVE  Stages'
  BY <1>1, <1>6 DEF Stranger, StrangerLeaves, control, accepts
<1>7. ASSUME NEW w \in scene.workers, WorkerTakes(w)
      PROVE  Stages'
  <2>1. \A v \in scene.workers : worker[v].at = "exited" => worker'[v].at = "exited"
    BY <1>0, <1>7 DEF WorkerTakes, Typed
  <2>2. queue = <<>> => queue' = <<>>
    BY <1>7 DEF WorkerTakes
  <2>3. QED
    BY <1>1, <1>7, <2>1, <2>2 DEF WorkerTakes, control, accepts
<1>8. ASSUME NEW w \in scene.workers, WorkerReceives(w) \/ WorkerOperates(w) \/ StoreSymbols(w)
      PROVE  Stages'
  <2>1. UNCHANGED <<scene, running, listening, stopping, stop, server, backlog, queue>>
    BY <1>8 DEF WorkerReceives, WorkerOperates, StoreSymbols, control, accepts
  <2>2. \A v \in scene.workers : worker[v].at = "exited" => worker'[v].at = "exited"
    BY <1>0, <1>8, GoesOn DEF Holds
  <2>3. QED
    BY <1>1, <2>1, <2>2
<1>9. ASSUME NEW w \in scene.workers, WorkerAnswers(w)
      PROVE  Stages'
  <2>1. \A v \in scene.workers : worker[v].at = "exited" => worker'[v].at = "exited"
    BY <1>0, <1>9 DEF WorkerAnswers, Typed
  <2>2. QED
    BY <1>1, <1>9, <2>1 DEF WorkerAnswers, control, accepts
<1>10. CASE Hit \/ OtherResumes
  BY <1>1, <1>10 DEF Hit, OtherResumes, control, accepts
<1>11. CASE ServerStep
  <2>1. UNCHANGED <<scene, running, listening, stopping, stop>> /\ server # "done"
    BY <1>11 DEF ServerStep, ServerLoads, ServerEnters, ServerAccepts, ServerPushes,
       ServerNotifies, control
  <2>2. stop \notin {"swap", "notify", "workers", "done"} /\ ~stopping
    BY <2>1 DEF Stages
  <2>3. ~listening /\ server' # "accept" => backlog' = <<>>
    <3>1. CASE ServerAccepts
      <4>1. ~listening => ~running
        BY DEF Stages
      <4>2. QED
        BY <3>1, <4>1, <2>1 DEF ServerAccepts
    <3>2. CASE ServerLoads \/ ServerEnters \/ ServerPushes \/ ServerNotifies
      BY <2>1, <3>2 DEF Stages, ServerLoads, ServerEnters, ServerPushes, ServerNotifies
    <3>3. QED
      BY <1>11, <3>1, <3>2 DEF ServerStep
  <2>4. QED
    BY <2>1, <2>2, <2>3 DEF Stages
<1>12. CASE StopBegins \/ StopWakes \/ StopJoins \/ StopReturns
  BY <1>12 DEF StopBegins, StopWakes, StopJoins, StopReturns, Stages, accepts
<1>13. CASE StopCloses \/ StopSwaps
  BY <1>13 DEF StopCloses, StopSwaps, Stages, accepts
<1>14. CASE StopNotifies
  BY <1>14 DEF StopNotifies, Stages, accepts
<1>15. QED
  BY <1>2, <1>4, <1>5, <1>6, <1>7, <1>8, <1>9, <1>10, <1>11, <1>12, <1>13, <1>14
  DEF Next, WorkerStep, StopStep

\* Nothing is opened again, and what stays open keeps a place.
LEMMA TrackedSteady ==
  ASSUME Tracked, DOMAIN conn' = DOMAIN conn,
         \A c \in DOMAIN conn : conn'[c].state = "open" =>
            conn[c].state = "open" /\ (HasPlace(c) => HasPlace(c)')
  PROVE  Tracked'
  BY DEF Tracked

\* A new connection is in the backlog.
LEMMA TrackedAppend ==
  ASSUME Typed, Tracked, NEW n \in Conns, conn' = Append(conn, n),
         backlog' = Append(backlog, Len(conn) + 1), UNCHANGED <<scene, taken, queue, worker>>
  PROVE  Tracked'
PROOF
<1>. DEFINE k == Len(conn) + 1
<1>1. /\ k \in Nat /\ DOMAIN conn' = DOMAIN conn \cup {k}
      /\ \A c \in DOMAIN conn : conn'[c] = conn[c]
  BY Appended
<1>2. InSeq(backlog') = InSeq(backlog) \cup {k}
  BY <1>1, Joins DEF Typed
<1>3. \A c : c = k \/ HasPlace(c) => HasPlace(c)'
  BY <1>2 DEF HasPlace, InLine, Has, Holds
<1>4. QED
  BY <1>1, <1>3 DEF Tracked

\* Only connections that are closed leave the lines.
LEMMA TrackedClose ==
  ASSUME Typed, Tracked, NEW S, conn' = CloseAll(conn, S), UNCHANGED <<scene, worker>>,
         \A c : InLine(c) /\ c \notin S => InLine(c)'
  PROVE  Tracked'
PROOF
<1>1. /\ DOMAIN conn' = DOMAIN conn
      /\ \A c \in DOMAIN conn : c \notin S => conn'[c] = conn[c]
      /\ \A c \in DOMAIN conn : c \in S => conn'[c] = [conn[c] EXCEPT !.state = "closed"]
  BY ClosedAll
<1>2. \A c \in DOMAIN conn : c \in S => conn'[c].state = "closed"
  <2>1. \A c \in DOMAIN conn : [conn[c] EXCEPT !.state = "closed"].state = "closed"
    BY DEF Typed, Conns
  <2>2. QED
    BY <1>1, <2>1
<1>3. \A c : c \notin S /\ HasPlace(c) => HasPlace(c)'
  BY DEF HasPlace, Has, Holds
<1>4. QED
  BY <1>1, <1>2, <1>3, TrackedSteady

\* A connection keeps its place when the workers keep theirs.
LEMMA TrackedWorkers ==
  ASSUME Tracked, UNCHANGED <<scene, taken, backlog, queue, conn>>,
         \A w \in scene.workers : Holds(w) => Holds(w)' /\ worker'[w].conn = worker[w].conn
  PROVE  Tracked'
PROOF
<1>1. \A c : HasPlace(c) => HasPlace(c)'
  BY DEF HasPlace, InLine, Has
<1>2. QED
  BY <1>1, TrackedSteady

\* Every step takes the open connections along.
LEMMA TrackedStep ==
  ASSUME IpcInv, Tracked, [Next]_vars
  PROVE  Tracked'
PROOF
<1>0. Typed /\ Placed /\ Asked
  BY DEF IpcInv
<1>1. ASSUME UNCHANGED <<scene, taken, backlog, queue, worker, conn>>
      PROVE  Tracked'
  BY <1>1, TrackedWorkers DEF Holds
<1>2. CASE \/ UNCHANGED vars \/ Hit \/ OtherResumes \/ ServerLoads \/ ServerEnters
           \/ StopBegins \/ StopJoins \/ StopReturns
  BY <1>1, <1>2 DEF vars, Hit, OtherResumes, ServerLoads, ServerEnters, StopBegins, StopJoins,
     StopReturns, control, accepts
<1>3. ASSUME NEW b \in Bridges, NEW br \in BridgeStates, NEW m \in Methods, Connect(b, br, m),
             UNCHANGED <<scene, taken, queue, worker>>
      PROVE  Tracked'
  <2>1. CASE UNCHANGED <<conn, backlog>>
    BY <1>1, <1>3, <2>1
  <2>2. CASE ~UNCHANGED <<conn, backlog>>
    <3>1. PICK n \in Conns : conn' = Append(conn, n) /\ backlog' = Append(backlog, Len(conn) + 1)
      BY <1>0, <1>3, <2>2, Connects
    <3>2. QED
      BY <1>0, <1>3, <3>1, TrackedAppend
  <2>3. QED
    BY <2>1, <2>2
<1>4. ASSUME NEW b \in Bridges, NEW t \in scene.tools[b], CallTool(b, t)
      PROVE  Tracked'
  BY <1>0, <1>3, <1>4, ToolCalls DEF CallTool, control
<1>5. ASSUME NEW b \in Bridges, ThenResume(b) \/ Retry(b)
      PROVE  Tracked'
  <2>1. PICK m \in Methods : Connect(b, bridge[b], m)
    BY <1>0, <1>5 DEF ThenResume, Retry, Asked, Methods
  <2>2. bridge[b] \in BridgeStates /\ UNCHANGED <<scene, taken, queue, worker>>
    BY <1>0, <1>5, InDomain DEF ThenResume, Retry, control
  <2>3. QED
    BY <1>3, <2>1, <2>2
<1>6. ASSUME NEW b \in Bridges, Reply(b) \/ GiveUp(b) \/ Disconnected(b)
      PROVE  Tracked'
  <2>1. UNCHANGED <<scene, taken, backlog, queue, worker>>
    BY <1>6 DEF Reply, GiveUp, Disconnected, control, accepts
  <2>2. PICK c0 \in DOMAIN conn :
           \/ conn' = [conn EXCEPT ![c0] = Over]
           \/ conn' = [conn EXCEPT ![c0] = [conn[c0] EXCEPT !.left = TRUE]]
    BY <1>0, <1>6, BridgeDone
  <2>3. /\ conn[c0] \in Conns /\ [conn[c0] EXCEPT !.left = TRUE] \in Conns
        /\ [conn[c0] EXCEPT !.left = TRUE].state = conn[c0].state
    BY <1>0, InDomain, ConnUpdates, Records
  <2>4. DOMAIN conn' = DOMAIN conn
        /\ \A c \in DOMAIN conn : conn'[c].state = "open" => conn[c].state = "open"
    <3>1. CASE conn' = [conn EXCEPT ![c0] = Over]
      BY <1>0, <3>1, Replaced, Records, OverIs
    <3>2. CASE conn' = [conn EXCEPT ![c0] = [conn[c0] EXCEPT !.left = TRUE]]
      BY <1>0, <2>3, <3>2, Replaced
    <3>3. QED
      BY <2>2, <3>1, <3>2
  <2>5. \A c : HasPlace(c) => HasPlace(c)'
    BY <2>1 DEF HasPlace, InLine, Has, Holds
  <2>6. QED
    BY <2>4, <2>5, TrackedSteady
<1>7. ASSUME NEW sent \in {"whole", "part", "refused"}, NEW m \in Methods \cup {"none"},
             conn' = Append(conn, NewConn(NoBridge, m, 0, sent, 0, 0)),
             backlog' = Append(backlog, Len(conn) + 1), UNCHANGED <<scene, taken, queue, worker>>
      PROVE  Tracked'
  <2>1. NewConn(NoBridge, m, 0, sent, 0, 0) \in Conns
    BY <1>0, MadeConn DEF Typed
  <2>2. QED
    BY <1>0, <1>7, <2>1, TrackedAppend
<1>8. CASE ServerAccepts
  <2>1. backlog # <<>> /\ taken = 0 /\ UNCHANGED <<scene, queue, worker>>
    BY <1>0, <1>8 DEF ServerAccepts, control, Placed
  <2>2. /\ Head(backlog) \in InSeq(backlog) /\ Head(backlog) \in DOMAIN conn
        /\ InSeq(Tail(backlog)) = InSeq(backlog) \ {Head(backlog)}
    BY <1>0, <2>1, Leaves DEF Typed, Placed, InLine
  <2>3. CASE running
    <3>1. taken' = Head(backlog) /\ backlog' = Tail(backlog) /\ conn' = conn
      BY <1>8, <2>3 DEF ServerAccepts
    <3>2. Head(backlog) # 0
      BY <1>0, <2>2 DEF Typed
    <3>3. \A c : HasPlace(c) => HasPlace(c)'
      BY <2>1, <2>2, <3>1, <3>2 DEF HasPlace, InLine, Has, Holds
    <3>4. QED
      BY <3>1, <3>3, TrackedSteady
  <2>4. CASE ~running /\ listening
    <3>1. backlog' = Tail(backlog) /\ conn' = CloseAll(conn, {Head(backlog)})
      BY <1>8, <2>4 DEF ServerAccepts
    <3>2. \A c : InLine(c) /\ c \notin {Head(backlog)} => InLine(c)'
      BY <2>1, <2>2, <3>1 DEF InLine
    <3>3. QED
      BY <1>0, <2>1, <3>1, <3>2, TrackedClose
  <2>5. CASE ~running /\ ~listening
    <3>1. conn' = CloseAll(conn, InSeq(backlog))
      BY <1>8, <2>5 DEF ServerAccepts
    <3>2. \A c : InLine(c) /\ c \notin InSeq(backlog) => InLine(c)'
      BY <2>1 DEF InLine
    <3>3. QED
      BY <1>0, <2>1, <3>1, <3>2, TrackedClose
  <2>6. QED
    BY <2>3, <2>4, <2>5
<1>9. CASE ServerPushes
  <2>1. taken' = 0 /\ UNCHANGED <<scene, backlog, worker>>
    BY <1>9 DEF ServerPushes, control
  <2>2. CASE ~stopping /\ Len(queue) < MaxPending
    <3>1. queue' = Append(queue, taken) /\ conn' = conn
      BY <1>9, <2>2 DEF ServerPushes
    <3>2. InSeq(queue') = InSeq(queue) \cup {taken}
      BY <1>0, <3>1, Joins DEF Typed
    <3>3. \A c : HasPlace(c) => HasPlace(c)'
      BY <2>1, <3>2 DEF HasPlace, InLine, Has, Holds
    <3>4. QED
      BY <3>1, <3>3, TrackedSteady
  <2>3. CASE ~(~stopping /\ Len(queue) < MaxPending)
    <3>1. conn' = CloseAll(conn, {taken}) /\ queue' = queue
      BY <1>9, <2>3 DEF ServerPushes
    <3>2. \A c : InLine(c) /\ c \notin {taken} => InLine(c)'
      BY <2>1, <3>1 DEF InLine
    <3>3. QED
      BY <1>0, <2>1, <3>1, <3>2, TrackedClose
  <2>4. QED
    BY <2>2, <2>3
<1>10. CASE ServerNotifies \/ StopNotifies
  <2>1. UNCHANGED <<scene, taken, backlog, queue, conn>>
    BY <1>10 DEF ServerNotifies, StopNotifies, control, accepts
  <2>2. \A w \in scene.workers : worker'[w] = worker[w] \/ worker[w].at = "waiting"
    BY <1>0, <1>10 DEF ServerNotifies, StopNotifies, Typed
  <2>3. \A w \in scene.workers : Holds(w) => Holds(w)' /\ worker'[w].conn = worker[w].conn
    BY <2>2 DEF Holds
  <2>4. QED
    BY <2>1, <2>3, TrackedWorkers
<1>11. ASSUME NEW w \in scene.workers, WorkerTakes(w)
       PROVE  Tracked'
  <2>1. worker[w].at = "ready" /\ UNCHANGED <<scene, taken, backlog, conn>>
        /\ \A v \in scene.workers : v # w => worker'[v] = worker[v]
    BY <1>0, <1>11 DEF WorkerTakes, control, accepts, Typed
  <2>2. \A v \in scene.workers : Holds(v) => Holds(v)' /\ worker'[v].conn = worker[v].conn
    BY <2>1 DEF Holds
  <2>3. CASE queue = <<>>
    <3>1. queue' = queue
      BY <1>11, <2>3 DEF WorkerTakes
    <3>2. QED
      BY <2>1, <2>2, <3>1, TrackedWorkers
  <2>4. CASE queue # <<>>
    <3>1. InSeq(Tail(queue)) = InSeq(queue) \ {Head(queue)}
      BY <1>0, <2>4, Leaves DEF Typed, Placed
    <3>2. queue' = Tail(queue)
          /\ worker' = [worker EXCEPT ![w] = [Free EXCEPT !.at = "receive", !.conn = Head(queue)]]
      BY <1>11, <2>4 DEF WorkerTakes
    <3>3. worker'[w].at = "receive" /\ worker'[w].conn = Head(queue)
      BY <1>0, <3>2 DEF Typed, Free
    <3>4. \A c : c = Head(queue) => Has(w, c)'
      BY <3>3 DEF Has, Holds
    <3>5. \A c : HasPlace(c) => HasPlace(c)'
      <4>1. TAKE c
      <4>2. CASE c = Head(queue)
        BY <2>1, <3>4, <4>2 DEF HasPlace
      <4>3. CASE c # Head(queue)
        BY <2>1, <2>2, <3>1, <3>2, <4>3 DEF HasPlace, InLine, Has
      <4>4. QED
        BY <4>2, <4>3
    <3>6. QED
      BY <2>1, <3>5, TrackedSteady
  <2>5. QED
    BY <2>3, <2>4
<1>12. ASSUME NEW w \in scene.workers, WorkerReceives(w) \/ WorkerOperates(w) \/ StoreSymbols(w)
       PROVE  Tracked'
  <2>1. \A v \in scene.workers : Holds(v) => Holds(v)' /\ worker'[v].conn = worker[v].conn
    BY <1>0, <1>12, GoesOn DEF Holds
  <2>2. UNCHANGED <<scene, taken, backlog, queue, conn>>
    BY <1>0, <1>12, GoesOn
  <2>3. QED
    BY <2>1, <2>2, TrackedWorkers
<1>13. ASSUME NEW w \in scene.workers, WorkerAnswers(w)
       PROVE  Tracked'
  <2>. DEFINE c == worker[w].conn
  <2>1. c \in DOMAIN conn /\ conn[c] \in Conns /\ worker[w].answer \in Answers
    BY <1>0, <1>13, InDomain DEF WorkerAnswers, Holds
  <2>2. PICK n \in Conns : conn' = [conn EXCEPT ![c] = n] /\ n.state = "closed"
    <3>. DEFINE r == [conn[c] EXCEPT !.state = "closed", !.answer = worker[w].answer]
    <3>1. r \in Conns /\ r.state = "closed"
      BY <2>1, ConnUpdates DEF Conns
    <3>2. conn' = [conn EXCEPT ![c] = Over] \/ conn' = [conn EXCEPT ![c] = r]
      BY <1>13 DEF WorkerAnswers
    <3>3. QED
      BY <3>1, <3>2, Records, OverIs
  <2>3. DOMAIN conn' = DOMAIN conn /\ conn'[c] = n
        /\ \A d \in DOMAIN conn : d # c => conn'[d] = conn[d]
    BY <1>0, <2>1, <2>2, Replaced
  <2>4. UNCHANGED <<scene, taken, backlog, queue>>
        /\ \A v \in scene.workers : v # w => worker'[v] = worker[v]
    BY <1>0, <1>13 DEF WorkerAnswers, control, accepts, Typed
  <2>5. \A d : d # c /\ HasPlace(d) => HasPlace(d)'
    BY <2>4 DEF HasPlace, InLine, Has, Holds
  <2>6. QED
    BY <2>2, <2>3, <2>5, TrackedSteady
<1>14. CASE StopCloses
  <2>1. UNCHANGED <<scene, taken, queue, worker>>
    BY <1>14 DEF StopCloses
  <2>2. CASE server = "accept"
    BY <1>1, <1>14, <2>1, <2>2 DEF StopCloses
  <2>3. CASE server # "accept"
    <3>1. conn' = CloseAll(conn, InSeq(backlog))
      BY <1>14, <2>3 DEF StopCloses
    <3>2. \A c : InLine(c) /\ c \notin InSeq(backlog) => InLine(c)'
      BY <2>1 DEF InLine
    <3>3. QED
      BY <1>0, <2>1, <3>1, <3>2, TrackedClose
  <2>4. QED
    BY <2>2, <2>3
<1>15. CASE StopSwaps
  <2>1. conn' = CloseAll(conn, InSeq(queue)) /\ UNCHANGED <<scene, taken, backlog, worker>>
    BY <1>15 DEF StopSwaps, accepts
  <2>2. \A c : InLine(c) /\ c \notin InSeq(queue) => InLine(c)'
    BY <2>1 DEF InLine
  <2>3. QED
    BY <1>0, <2>1, <2>2, TrackedClose
<1>16. QED
  <2>1. ASSUME NEW sent \in {"refused", "part", "whole"}, Stranger(sent)
        PROVE  Tracked'
    BY <1>7, <2>1, AskedByStranger DEF Stranger, control
  <2>2. CASE StopWakes
    BY <1>7, <2>2 DEF StopWakes
  <2>3. ASSUME NEW c \in DOMAIN conn, StrangerLeaves(c)
        PROVE  Tracked'
    <3>1. PICK n \in Conns : conn' = [conn EXCEPT ![c] = n] /\ n.state = conn[c].state
      BY <1>0, <2>3, StrangerGone
    <3>2. DOMAIN conn' = DOMAIN conn
          /\ \A d \in DOMAIN conn : conn'[d].state = conn[d].state
      BY <1>0, <3>1, Replaced
    <3>3. UNCHANGED <<scene, taken, backlog, queue, worker>>
      BY <2>3 DEF StrangerLeaves, control, accepts
    <3>4. \A d : HasPlace(d) => HasPlace(d)'
      BY <3>3 DEF HasPlace, InLine, Has, Holds
    <3>5. QED
      BY <3>2, <3>4, TrackedSteady
  <2>4. QED
    BY <1>2, <1>4, <1>5, <1>6, <1>8, <1>9, <1>10, <1>11, <1>12, <1>13, <1>14, <1>15, <2>1, <2>2,
       <2>3
    DEF Next, WorkerStep, ServerStep, StopStep

\* The steps of Stop() and the places of the connections, for any number of
\* workers and connections.
THEOREM StopInvariance == Spec => []StopInv
PROOF
<1>1. Init => StopInv
  <2>1. SUFFICES ASSUME Init PROVE StopInv
    OBVIOUS
  <2>2. Stages
    BY <2>1 DEF Init, Stages
  <2>3. DOMAIN conn = {}
    BY <2>1 DEF Init
  <2>4. QED
    BY <2>2, <2>3 DEF StopInv, Tracked
<1>2. IpcInv /\ StopInv /\ [Next]_vars => StopInv'
  BY StagesStep, TrackedStep DEF StopInv
<1>3. QED
  BY IpcInvariance, <1>1, <1>2, PTL DEF Spec

\* When Stop() has returned nothing is queued, in the backlog or with the
\* accept thread, and every connection that was ever made is closed: also one
\* that was accepted, handed over or being answered while Stop() went through
\* its steps.
THEOREM StopLeavesNothing == Spec => []StoppedIsQuiet
PROOF
<1>1. IpcInv /\ StopInv => StoppedIsQuiet
  <2>1. SUFFICES ASSUME IpcInv, StopInv, stop = "done"
                 PROVE  /\ queue = <<>> /\ backlog = <<>> /\ taken = 0
                        /\ \A c \in DOMAIN conn : Closed(c)
    BY DEF StoppedIsQuiet
  <2>2. /\ queue = <<>> /\ backlog = <<>> /\ server = "done"
        /\ \A w \in scene.workers : worker[w].at = "exited"
    BY <2>1 DEF StopInv, Stages
  <2>3. taken = 0
    BY <2>1, <2>2 DEF IpcInv, Placed
  <2>4. \A c : ~HasPlace(c)
    BY <2>2, <2>3, EmptyLine DEF HasPlace, InLine, Has, Holds
  <2>5. \A c \in DOMAIN conn : conn[c].state \in {"open", "closed"}
    BY <2>1, InDomain DEF IpcInv, Conns
  <2>6. QED
    BY <2>1, <2>2, <2>3, <2>4, <2>5 DEF StopInv, Tracked, Closed
<1>2. QED
  BY IpcInvariance, StopInvariance, <1>1, PTL
=============================================================================
