----------------------------- MODULE Algorithms -----------------------------
(***************************************************************************)
(* The algorithms of MemoryAlgorithms and IpcRoutes against reference      *)
(* definitions, over every input of the given sets.  Each action hands one *)
(* input to one algorithm.                                                 *)
(***************************************************************************)
EXTENDS MemoryAlgorithms, Callers, FiniteSetsExt

CONSTANTS
    Memories,       \* contents of the target's memory
    Mappings,       \* lists of mappings
    ModuleLists,    \* lists of modules
    Queries,        \* names asked for
    MaxLen,         \* bound: bytes one read asks for
    Lists,          \* lists to be paged
    MaxPage,        \* bound: items one page asks for
    Batches,        \* [items, blocks]: a request and an answer
    PointerMaps,    \* what the target's addresses point to
    BaseAddresses,  \* module bases pointer chains start from
    BaseOffsets,    \* and the offsets added to them
    Offsets,        \* sequences of offsets
    Requests,       \* [method, params]: IPC requests
    Heads,          \* heads of HTTP requests
    LuaCalls,       \* [function, args]: what scripts call
    ToolCalls,      \* [tool, args]: what the bridge is asked for
    Scalars,        \* [type, v]: integers of the types in memory
    Scopes,         \* sequences of nested time budgets, in seconds
    Pauses          \* milliseconds between two scopes

Protections == {access \cup {kind} : access \in SUBSET {"r", "w", "x"}, kind \in {"p", "s"}}

\* A read never goes all the way round the address space.  Mappings lie above
\* address 0 and do not overlap, so no two modules have one base.  What a list
\* holds is left open.
ASSUME MemoryAssumption ==
    /\ MaxLen \in Nat /\ MaxLen + PageSize <= MaxAddress + 1
    /\ \A maps \in Mappings : \A i \in DOMAIN maps :
           /\ maps[i].start \in 1..MaxAddress /\ maps[i].end \in (maps[i].start + 1)..MaxAddress
           /\ maps[i].perms \in Protections
    /\ \A modules \in ModuleLists :
           /\ modules \in Seq(Range(modules))
           /\ \A i \in DOMAIN modules : modules[i].base \in Nat
           /\ \A i, j \in DOMAIN modules : modules[i].base = modules[j].base => i = j
    /\ \A items \in Lists : items \in Seq(Range(items))
    /\ MaxPage \in Nat

ASSUME BatchAssumption ==
    \A b \in Batches :
        /\ b.items \in Seq(Range(b.items)) /\ b.blocks \in Seq(Range(b.blocks))
        /\ \A i \in DOMAIN b.items : b.items[i].size \in Nat
        /\ \A i \in DOMAIN b.blocks : b.blocks[i].count \in Nat

ASSUME PointerAssumption ==
    /\ \A pointers \in PointerMaps : \A a \in 0..MaxAddress :
           pointers[a] \in 0..MaxAddress \cup {Unmapped}
    /\ BaseAddresses \subseteq 0..MaxAddress /\ BaseOffsets \subseteq 0..MaxAddress
    /\ Offsets \subseteq Seq(0..MaxAddress)

ASSUME BudgetAssumption == Scopes \subseteq Seq(Int) /\ Pauses \subseteq Nat

\* A value has a number, a name that is not empty a length; a list its runs.
Named(j) ==
    /\ j.v \in Int /\ j.t \notin {"numeral", "padded", "python", "hex"}
    /\ j.t \in {"text", "so"} => j.v > 0
Runs(j) == j.v \in Seq([item : [t : STRING, v : Int], times : Nat \ {0}])

\* The requests that name an address, a module's base or a slot; scripts likewise.
AddressMethods ==
    {"read_memory", "write_memory", "set_breakpoint", "remove_breakpoint", "suspend_breakpoint",
     "resume_breakpoint", "read_bp_info", "uxn_install", "uxn_remove"}
BaseMethods == {"symbol_init", "symbol_list", "symbol_find"}
SlotMethods == {"uxn_wait", "uxn_resume", "uxn_status"}
AddressFunctions ==
    {"mem.read", "mem.readString", "mem.write", "mem.writeString", "bp.set", "bp.remove",
     "bp.suspend", "bp.resume", "bp.getInfo", "uxn.install", "uxn.remove"}
SlotFunctions == {"uxn.wait", "uxn.resume", "uxn.status"}

ASSUME RequestAssumption ==
    /\ \A h \in Heads : h.length \in Int /\ h.bytes \in Nat
    /\ \A r \in Requests :
           LET p == r.params
           IN  /\ r.method \in {"list_modules", "symbol_list"} => p.count.v \in Int
               /\ r.method = "read_memory" => p.size.v \in Int
               /\ r.method = "read_batch" => Runs(p.addresses)
               /\ r.method = "query_hwbp_slots" => p.capacity.v \in Int
               /\ r.method \in AddressMethods => p.address.v \in Int
               /\ r.method \in BaseMethods => p.module_base.v \in Int
               /\ r.method \in SlotMethods => p.slot.v \in Int
               /\ r.method = "execute_lua" => p.timeout_seconds.v \in Int
               /\ r.method \in {"get_module_base", "symbol_find"} => Named(p.name)
               /\ r.method = "resolve_offset_chain" => Named(p.module) /\ p.base_offset.v \in Int
    /\ \A c \in LuaCalls :
           /\ c.function \in AddressFunctions => c.args.address.v \in Int
           /\ c.function \in SlotFunctions => c.args.slot.v \in Int
           /\ c.function = "mem.writeString" => c.args.text.v \in Nat
           /\ c.function = "uxn.wait" => c.args.remaining \in Int
    /\ \A c \in ToolCalls :
           LET a == c.args
           IN  /\ c.tool = "read_memory" => a.size.v \in Int
               /\ c.tool = "write_bytes" => a.hex.v \in Int
               /\ c.tool = "open_process" => a.pid.v \in Int
               /\ c.tool \in {"list_modules", "symbol_list"} => a.offset.v \in Int /\ a.count.v \in Int
               /\ c.tool = "list_modules" => a.filter.t \in {"blank", "text"}
               /\ c.tool \in {"get_module_base", "resolve_offset_chain", "symbol_find"} => Named(a.name)
               /\ c.tool = "symbol_find" => a.name.t \in {"blank", "text"}
               /\ c.tool = "resolve_offset_chain" =>
                      /\ a.deref_final.t \in {"absent", "bool"} /\ a.offsets.t = "array"
                      /\ \A i \in DOMAIN a.offsets.v : a.offsets.v[i].item.t = "int"
               /\ c.tool \in {"wait_uxn_breakpoint", "query_uxn_breakpoint_status"} => a.slot.v \in Int
               /\ c.tool = "execute_lua" =>
                      a.code.t \in {"blank", "text"} /\ a.code.v \in Int /\ a.timeout_seconds.v \in Int

\* A type of n bits has twice the numbers of one of n - 1.
ASSUME ScalarAssumption ==
    \A s \in Scalars :
        /\ s.v \in Int /\ Bits(s.type) \in Nat \ {0}
        /\ 2 ^ (Bits(s.type) - 1) \in Nat \ {0}
        /\ 2 ^ Bits(s.type) = 2 * 2 ^ (Bits(s.type) - 1)

VARIABLE input      \* what the last algorithm was given

Nothing == [kind |-> "nothing"]

AlgorithmsInit == input = Nothing

Read ==
    \E mem \in Memories, a \in 0..MaxAddress, n \in 0..MaxLen :
        input' = [kind |-> "read", mem |-> mem, address |-> a, len |-> n]

List == \E maps \in Mappings : input' = [kind |-> "maps", maps |-> maps]

Resolve ==
    \E modules \in ModuleLists, q \in Queries :
        input' = [kind |-> "module", modules |-> modules, query |-> q]

\* A client follows the pages from the start; the engine cuts them at will.
Paging ==
    \E items \in Lists, limit \in 1..MaxPage, got \in 1..MaxPage :
        input' = [kind |-> "pages", items |-> items, limit |-> limit, got |-> got]

Batch == \E b \in Batches : input' = [kind |-> "batch", items |-> b.items, blocks |-> b.blocks]

Chain ==
    \E pointers \in PointerMaps, base \in BaseAddresses, offset \in BaseOffsets,
      offsets \in Offsets, final \in BOOLEAN :
        input' = [kind |-> "chain", pointers |-> pointers, base |-> base,
                  offset |-> offset, offsets |-> offsets, final |-> final]

Request == \E r \in Requests : input' = [kind |-> "request", method |-> r.method, params |-> r.params]

Budget ==
    \E scopes \in Scopes, pause \in Pauses :
        input' = [kind |-> "budget", scopes |-> scopes, pause |-> pause]

Script == \E c \in LuaCalls : input' = [kind |-> "lua", function |-> c.function, args |-> c.args]

UseTool == \E c \in ToolCalls : input' = [kind |-> "tool", tool |-> c.tool, args |-> c.args]

Scalar == \E s \in Scalars : input' = [kind |-> "scalar", type |-> s.type, v |-> s.v]

RequestHead == \E h \in Heads : input' = [kind |-> "head", head |-> h]

AlgorithmsNext ==
    /\ input = Nothing
    /\ \/ Read \/ List \/ Resolve \/ Paging \/ Batch \/ Chain
       \/ Request \/ RequestHead \/ Script \/ UseTool \/ Scalar \/ Budget

AlgorithmsSpec == AlgorithmsInit /\ [][AlgorithmsNext]_input

-----------------------------------------------------------------------------
\* Both backends return the longest readable prefix of the range, whatever
\* pages it crosses, and clear the rest; a batch item is cut the same way
\* (AndroidMemKernel.hpp, AndroidMemorySys.hpp: contiguous prefix semantics).
\* A read by pages answers with exactly the pages whose first byte can be read,
\* except in the last page of the address space, where the loop's sums wrap
\* around (api.cpp, ReadBratchMemory).
ReadsAreLongestPrefix ==
    input.kind = "read" =>
        LET mem == input.mem  a == input.address  n == input.len
            mapped(k) == mem[Wrapped(a + k - 1)] # Unmapped
            prefix == Max({k \in 0..n : \A j \in 1..k : mapped(j)})
            exact  == [count |-> prefix,
                       bytes |-> [k \in 1..n |-> IF k <= prefix
                                                 THEN mem[Wrapped(a + k - 1)] ELSE 0]]
        IN  /\ SystemRead(mem, a, n) = exact
            /\ a # 0 => KernelRead(mem, a, n) = exact
            /\ a # 0 => ReadBratchAddr(mem, <<[address |-> a, size |-> n]>>)[1].count = prefix
            /\ a # 0 /\ a + n + PageSize <= MaxAddress + 1 =>
                   ReadBratchMemory(mem, a, n) =
                       {b \in a..(a + n - 1) : (b - a) % PageSize = 0 /\ mem[b] # Unmapped}

\* A list reaches the client whole and in order.  Mappings keep their bases,
\* sizes (up to what the wire can say, also those of more than half the wire's
\* range) and permissions: through the system backend unless a line of the maps
\* file is too long for its buffer (LinuxProc.hpp, GetProcessMaps), through the
\* kernel one unless a mapping cannot be read.  The system backend cuts a name
\* at its first blank, the kernel one does not, and that is all they differ in.
\* Following nextOffset from the first page visits every item exactly once and
\* ends, also when pages come back shorter than asked for.
ListsArriveWhole ==
    /\ input.kind = "maps" =>
           LET maps == input.maps
               exact(Name(_)) ==
                   [i \in DOMAIN maps |->
                       [base |-> maps[i].start, size |-> Lesser(maps[i].end - maps[i].start, MaxSize),
                        name |-> Name(maps[i].name), flag |-> maps[i].perms]]
               whole(name) == name
           IN  /\ (\A i \in DOMAIN maps : Leftover(maps[i].name) = <<>>) =>
                      FetchModuleList(SystemMaps(maps)) = exact(Scanned)
               /\ (\A i \in DOMAIN maps : "r" \in maps[i].perms) =>
                      FetchModuleList(KernelMaps(maps)) = exact(whole)
    /\ input.kind = "pages" =>
           LET items == input.items
               from[offset \in 0..Len(items)] ==
                   LET p == Page(items, offset, input.limit, input.got)
                   IN  IF p.next = NoOffset THEN p.items ELSE p.items \o from[p.next]
           IN  from[0] = items

\* A module name is resolved to the lowest segment of one module and does not
\* depend on the order of the list; any of its segments' bases leads to the
\* same module (MemService: a symbol table is loaded by the base a name was
\* resolved to, or by any base a caller picked from the list).
ResolutionIsOfOneModule ==
    input.kind = "module" =>
        LET modules == input.modules
            found   == resolveModuleByName(modules, input.query)
            same(i) == lowerAscii(modules[i].name) = lowerAscii(found.module.name)
        IN  /\ found = resolveModuleByName(Reverse(modules), input.query)
            /\ found # NoMatch =>
                   \A i \in DOMAIN modules : same(i) =>
                       /\ found.module.base <= modules[i].base
                       /\ resolveModuleByBase(modules, modules[i].base) = found
            /\ (\E i \in DOMAIN modules : modules[i].name = input.query)
                   => found # NoMatch /\ lowerAscii(found.module.name) = lowerAscii(input.query)

\* An answer is accepted exactly when its blocks can be paired with the
\* requested items, each block at its item's address and no longer than it:
\* taking the smallest item that fits never wastes one that is needed later.
BatchesMatchExactly ==
    input.kind = "batch" =>
        LET items == input.items  blocks == input.blocks
        IN  AcceptsBatch(items, blocks) <=>
                /\ Len(blocks) = Len(items)
                /\ \E pairing \in [DOMAIN blocks -> DOMAIN items] :
                       /\ \A i, j \in DOMAIN blocks : i # j => pairing[i] # pairing[j]
                       /\ \A i \in DOMAIN blocks : Fits(blocks[i], items[pairing[i]])

\* A chain yields an address only through a path of which every step is a
\* readable pointer plus the offset without wrapping around, and then that one.
ChainsNeverWrap ==
    input.kind = "chain" =>
        LET n == Len(input.offsets)
            found == resolvePointer(input.pointers, input.base, input.offset,
                                    input.offsets, input.final)
            step(path, i) == /\ input.pointers[path[i]] # Unmapped
                             /\ path[i + 1] = input.pointers[path[i]] + input.offsets[i]
            paths == {path \in [1..(n + 1) -> 0..MaxAddress] :
                        path[1] = input.base + input.offset /\ \A i \in 1..n : step(path, i)}
            ends == {path[n + 1] : path \in paths}
            yields == IF input.final THEN {input.pointers[a] : a \in ends} \ {Unmapped} ELSE ends
        IN  IF found = NoAddress THEN yields = {} ELSE yields = {found}

\* The number j gives, without its fraction; left open where its conversion to
\* an integer is undefined.
Stands(n, j) ==
    CASE j.t \in {"below", "above"} -> TRUE
      [] j.t = "float" -> IF j.v < 0 THEN n = 0 ELSE j.v - 2 * n \in {0, 1}
      [] OTHER         -> n = j.v

\* A numeral that a double holds.
ExactAsDouble(j) == j.t \in {"numeral", "padded"} => Rounded(j.v) = j.v

\* What is asked of the device is asked of the address, module, slot or process
\* the caller named ...
Placed(call, p) ==
    LET given == DOMAIN call.args
    IN  /\ "address" \in given    => Stands(call.args.address, p.address)
        /\ "base" \in given       => Stands(call.args.base, p.module_base)
        /\ "baseOffset" \in given => Stands(call.args.baseOffset, p.base_offset)
        /\ "pid" \in given        => Stands(call.args.pid, p.pid)
        /\ "slot" \in given /\ p.slot.t # "absent" => Stands(call.args.slot, p.slot)

\* ... and within the service's limits with the values the caller gave: of a
\* mutation nothing is clamped or replaced.
Valued(call, p) ==
    /\ ServiceAccepts(call)
    /\ call.op = "setBreakpoint" =>
           /\ p.bp_type.t = "int" => call.args.access = p.bp_type.v
           /\ p.bp_size.t = "int" /\ call.args.access # 4 => call.args.size = p.bp_size.v
    /\ call.op = "writeMemory" /\ "hex" \in DOMAIN p => call.args.bytes = p.hex.v
    /\ call.op = "waitUxnBreakpoint" /\ p.timeout_ms.t # "absent"
           => call.args.timeoutMs = p.timeout_ms.v

Faithful(call, p) == Valued(call, p) /\ Placed(call, p)

\* What the routes take of the fields that a tool leaves unlimited.
Longest ==
    [filter |-> kMaxIpcStringParamBytes, name |-> kMaxIpcStringParamBytes,
     module |-> kMaxIpcStringParamBytes, code |-> kMaxIpcLuaCodeBytes,
     hex |-> kMaxIpcMemoryTransferBytes, pid |-> INT_MAX]

\* A request that is let through, by the IPC routes, a Lua function or a tool of
\* the bridge, is one the service accepts, whatever its parameters were, and it
\* is done where the caller said and, if it is a mutation, with the values the
\* caller gave, or not at all.  Of a number with a fraction the fraction is
\* dropped (IpcServer.cpp, ParseAddress; LuaAPI.cpp, CheckAddress); nothing is
\* said of a number no uint64_t holds, whose conversion is undefined, nor of
\* a numeral a script gives for an address that no double holds.  Three Lua
\* functions leave a limit to the service, which refuses: mem.readBatch the sum
\* of the sizes, module.getBase and module.resolveOffsetChain the name's length.
\* A request the bridge has found good is never refused by its route unless a
\* text is too long for it, a script holds nothing but blanks, a pid is no int
\* or a number is one that only Python reads; no head makes the server hold more
\* than its limit.
\* An integer read from memory by a tool or a script can be written back by the
\* same and gives the same bytes (a script's long as far as a double is exact),
\* and where both accept a value they write the same bytes.
RequestsAreFaithful ==
    /\ input.kind = "request" =>
           LET call == Route(input.method, input.params)
           IN  call # Refused => Faithful(call, input.params)
    /\ input.kind = "head" /\ ValidateRequestHead(input.head) = 200 =>
           input.head.length \in 0..(kMaxRequestBytes - input.head.bytes - 4)
    /\ input.kind = "lua" =>
           LET call == LuaFunction(input.function, input.args)
           IN  /\ call # Refused /\ call.op \notin {"readMemoryBatch", "resolveModule", "resolvePointer"} =>
                      ServiceAccepts(call)
               /\ call.op = "setBreakpoint" =>
                      /\ Ok(call.args.access) = AccessOf(input.args.bp_type)
                      /\ input.args.bp_size.t = "int" /\ call.args.access # 4
                             => call.args.size = input.args.bp_size.v
               /\ call.op = "waitUxnBreakpoint" => call.args.timeoutMs <= input.args.remaining
               /\ "address" \in DOMAIN call.args /\ ExactAsDouble(input.args.address) =>
                      Stands(call.args.address, input.args.address)
               /\ "slot" \in DOMAIN call.args => Stands(call.args.slot, input.args.slot)
    /\ input.kind = "tool" =>
           LET sent == Tool(input.tool, input.args)
               call == Route(sent.method, sent.params)
               plain == \A f \in DOMAIN sent.params :
                            /\ sent.params[f].t # "python"
                            /\ f \in DOMAIN Longest => sent.params[f].v <= Longest[f]
                            /\ f = "code" => sent.params[f].t # "blank"
           IN  /\ call # Refused => Faithful(call, input.args)
               /\ sent # Raised /\ plain => call # Refused
    /\ input.kind = "scalar" =>
           LET type == input.type
               v    == input.v
               bytes == v % 2 ^ Bits(type)
               exact == type # "qword" \/ Rounded(Signed(type, bytes)) = Signed(type, bytes)
           IN  /\ encode_value_hex(decode_value(bytes, type), type) = Ok(bytes)
               /\ exact => WriteScalar(type, ReadScalar(type, bytes)) = Ok(bytes)
               /\ Throw \in {encode_value_hex(v, type), WriteScalar(type, v)}
                      \/ encode_value_hex(v, type) = WriteScalar(type, v)

\* The deadlines nest: the device's wait ends within the dispatch's budget and
\* the dispatch within the bridge's, a script within its bridge call's; a scope
\* inside another never gets more time than is left of the outer one.
BudgetsNest ==
    /\ input.kind = "request" =>
           LET call == Route(input.method, input.params)
           IN  /\ call.op = "waitUxnBreakpoint" /\ input.params.timeout_ms.t # "absent" =>
                      /\ call.args.timeoutMs < requestTimeout(input.method, input.params)
                      /\ requestTimeout(input.method, input.params)
                             < callTimeout(input.method, input.params)
               /\ call.op = "lua" /\ input.params.timeout_seconds = [t |-> "int", v |-> call.args.seconds] =>
                      /\ 1000 * call.args.seconds <= requestTimeout(input.method, input.params)
                      /\ 1000 * call.args.seconds < callTimeout(input.method, input.params)
    /\ input.kind = "budget" =>
           LET at(i) == input.pause * i
               deadline[i \in 0..Len(input.scopes)] ==
                   IF i = 0 THEN Forever
                   ELSE ScopedTimeout(deadline[i - 1], input.scopes[i], at(i))
               last == Len(input.scopes)
           IN  /\ \A i \in 1..last : deadline[i] <= deadline[i - 1]
               /\ deadline[last] # Forever =>
                      IoTimeout(deadline[last], at(last))
                          <= Max({kMinIoTimeoutMs, deadline[1] - at(last)})
=============================================================================
