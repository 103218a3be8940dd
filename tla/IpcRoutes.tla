----------------------------- MODULE IpcRoutes -----------------------------
(***************************************************************************)
(* What the IPC server makes of one HTTP request before the memory service *)
(* sees it: the validation of the head, the parameter helpers, the route   *)
(* of every method and the time budgets.  The limits are the code's own.   *)
(*                                                                         *)
(* A JSON value is [t, v]: "int" (value v), "float" (v halves), "below" and*)
(* "above" (outside the integer type it is converted to: v is what the     *)
(* build makes of that undefined conversion), "numeral" (a string that     *)
(* reads as v), "text" and "hex" (strings of v characters, of v bytes),    *)
(* "blank", "bool", "array", "object", "absent".                           *)
(***************************************************************************)
EXTENDS Integers, SequencesExt

INT_MAX                    == 2147483647
kMaxIpcMemoryTransferBytes == 65536
kMaxIpcStringParamBytes    == 4096
kMaxIpcLuaCodeBytes        == 262144
kMaxRequestBytes           == 1048576
kMaxMemoryReadBytes        == 16777216
kMaxMemoryWriteBytes       == 1048576
kMaxMemoryBatchCount       == 4096
kMaxMemoryBatchBytes       == 16777216
kMaxModulePageSize         == 1000
kMaxSymbolPageSize         == 1000
kMaxSymbolNameSize         == 65536
kMaxTextBytes              == 4096
kMaxPointerOffsetCount     == 1024
kMaxUxnSlots               == 16
kUxnWaitAnySlot            == 99          \* stands for 0xffffffff
kMaxUxnWaitTimeoutMs       == 60000
kMaxBreakpointQueryEntries == 64

Least(a, b)    == IF a < b THEN a ELSE b
Clamp(v, a, b) == IF v < a THEN a ELSE Least(v, b)

-----------------------------------------------------------------------------
(* Parameters.  A helper throws, or yields a value.                        *)

Throw  == [t |-> "throw", v |-> 0]
Ok(n)  == [t |-> "ok", v |-> n]

getPositiveSizeParam(j, default, max) ==
    CASE j.t = "absent"           -> Ok(default)
      [] j.t = "int" /\ j.v > 0   -> Ok(Least(j.v, max))
      [] OTHER                    -> Throw

getClampedIntParam(j, default, min, max) ==
    CASE j.t = "absent" -> Ok(default)
      [] j.t = "int"    -> Ok(Clamp(j.v, min, max))
      [] OTHER          -> Throw

getRequiredPositiveIntParam(j) ==
    IF j.t = "int" /\ j.v \in 1..INT_MAX THEN Ok(j.v) ELSE Throw

\* Mutant: an out-of-range value is pulled into the range.
getOptionalPositiveUintClamped(j, default, max) ==
    CASE j.t = "absent" -> Ok(default)
      [] j.t = "int"    -> Ok(Clamp(j.v, 1, max))
      [] OTHER          -> Throw

getOptionalPositiveUintParam(j, default, max) ==
    CASE j.t = "absent"                    -> Ok(default)
      [] j.t = "int" /\ j.v \in 1..max     -> Ok(j.v)
      [] OTHER                             -> Throw

\* The length stands for the string.
getStringParam(j, required, allowEmpty, max) ==
    CASE j.t = "absent" /\ ~required                                -> Ok(0)
      [] j.t = "blank" /\ allowEmpty /\ j.v <= max                  -> Ok(j.v)
      [] j.t \in {"text", "numeral", "padded", "python", "hex"} /\ j.v <= max           -> Ok(j.v)
      [] OTHER                                                      -> Throw

getOptionalBoolParam(j, default) ==
    CASE j.t = "absent" -> Ok(default)
      [] j.t = "bool"   -> Ok(j.v)
      [] OTHER          -> Throw

\* Towards zero.
Truncated(halves) == IF halves < 0 THEN -((-halves) \div 2) ELSE halves \div 2

\* A number that is no integer passes through json's conversion to uint64_t:
\* nothing refuses it, not even for its sign.
ParseAddress(j) ==
    CASE j.t \in {"int", "numeral", "padded", "below", "above"} /\ j.v >= 0 -> Ok(j.v)
      [] j.t = "float" /\ j.v > -2 -> Ok(Truncated(j.v))
      [] OTHER                      -> Throw

ParseUxnSlot(j) ==
    LET slot == ParseAddress(j)
    IN  CASE j.t = "absent" -> Ok(kUxnWaitAnySlot)
          [] slot # Throw /\ (slot.v = kUxnWaitAnySlot \/ slot.v < kMaxUxnSlots) -> slot
          [] OTHER -> Throw

\* Routes that name one slot.
ParseOneUxnSlot(j) ==
    IF ParseUxnSlot(j) = Ok(kUxnWaitAnySlot) THEN Throw ELSE ParseUxnSlot(j)

\* The registers are given as a set of 31 + 3 values, all or none.
ParseUxnRegisters(j) ==
    CASE j.t = "absent"             -> Ok(0)
      [] j.t = "object" /\ j.v = 34 -> Ok(34)
      [] OTHER                      -> Throw

\* Digits of whole bytes, white space aside; the number of bytes.
HexToBytes(j) ==
    IF j.t = "hex" /\ 2 * j.v <= kMaxRequestBytes THEN Ok(j.v) ELSE Throw

-----------------------------------------------------------------------------
(* Routes.  A request reaches an operation of the service with a context   *)
(* that has a target (TRUE) or not, or is refused.                         *)

Refused == [op |-> "refused", target |-> FALSE, args |-> <<>>]

Call(op, target, args) ==
    IF \E a \in DOMAIN args : args[a] = Throw
    THEN Refused
    ELSE [op |-> op, target |-> target, args |-> [a \in DOMAIN args |-> args[a].v]]

get_status(p)       == Call("status", FALSE, <<>>)
get_version(p)      == Call("serverVersion", FALSE, <<>>)
get_architecture(p) == Call("memoryType", FALSE, <<>>)
list_processes(p)   == Call("listProcesses", FALSE, <<>>)
open_process(p)     == Call("openProcess", TRUE, [pid |-> getRequiredPositiveIntParam(p.pid)])

list_modules(p) ==
    Call("listModules", TRUE,
         [filter |-> getStringParam(p.filter, FALSE, TRUE, kMaxIpcStringParamBytes),
          offset |-> getClampedIntParam(p.offset, 0, 0, INT_MAX),
          limit  |-> getClampedIntParam(p.count, 200, 1, 1000)])

read_memory(p) ==
    Call("readMemory", TRUE,
         [address |-> ParseAddress(p.address),
          size    |-> getPositiveSizeParam(p.size, 256, kMaxIpcMemoryTransferBytes)])

write_memory(p) ==
    IF HexToBytes(p.hex).v \in 1..kMaxIpcMemoryTransferBytes
    THEN Call("writeMemory", TRUE,
              [address |-> ParseAddress(p.address), bytes |-> HexToBytes(p.hex)])
    ELSE Refused

\* An array is given by its runs: "v" is a sequence of [item, times].
SumOf(f) ==
    LET sum[i \in 0..Len(f)] == IF i = 0 THEN 0 ELSE sum[i - 1] + f[i]
    IN  sum[Len(f)]
Count(array) == SumOf([i \in DOMAIN array.v |-> array.v[i].times])
Holds(array, parse(_)) == \A i \in DOMAIN array.v : parse(array.v[i].item) # Throw

\* The loop adds up the sizes and gives up before the sum passes the limit.
BatchTotal(array, size(_)) ==
    LET total == SumOf([i \in DOMAIN array.v |-> array.v[i].times * size(array.v[i].item).v])
    IN  IF total > kMaxMemoryBatchBytes THEN Throw ELSE Ok(total)

\* Every item of the array is an address and a size; an unreadable address is
\* an unreadable item.
read_batch(p) ==
    LET size(j) == getPositiveSizeParam(j, 4, kMaxIpcMemoryTransferBytes)
    IN  IF /\ p.addresses.t = "array"
           /\ Count(p.addresses) \in 1..kMaxMemoryBatchCount
           /\ Holds(p.addresses, size)
        THEN Call("readMemoryBatch", TRUE,
                  [count |-> Ok(Count(p.addresses)), bytes |-> BatchTotal(p.addresses, size)])
        ELSE Refused

\* An execution breakpoint has the size of an instruction.
set_breakpoint(p) ==
    LET access == getOptionalPositiveUintParam(p.bp_type, 2, 4)
        size   == getOptionalPositiveUintParam(p.bp_size, 4, 8)
    IN  IF size.v \notin {1, 2, 4, 8}
        THEN Refused
        ELSE Call("setBreakpoint", TRUE,
                  [address |-> ParseAddress(p.address), access |-> access,
                   size |-> IF access = Ok(4) THEN Ok(4) ELSE size])

remove_breakpoint(p)  == Call("removeBreakpoint", TRUE, [address |-> ParseAddress(p.address)])
suspend_breakpoint(p) == Call("suspendBreakpoint", TRUE, [address |-> ParseAddress(p.address)])
resume_breakpoint(p)  == Call("resumeBreakpoint", TRUE, [address |-> ParseAddress(p.address)])
read_bp_info(p)       == Call("breakpointHits", TRUE, [address |-> ParseAddress(p.address)])

query_hwbp_slots(p) ==
    Call("breakpointSlots", TRUE,
         [capacity |-> getPositiveSizeParam(p.capacity, kMaxBreakpointQueryEntries,
                                            kMaxBreakpointQueryEntries)])

uxn_install(p) == Call("installUxnBreakpoint", TRUE, [address |-> ParseAddress(p.address)])
uxn_remove(p)  == Call("removeUxnBreakpoint", TRUE, [address |-> ParseAddress(p.address)])

uxn_wait(p) ==
    Call("waitUxnBreakpoint", TRUE,
         [slot         |-> ParseUxnSlot(p.slot),
          timeoutMs    |-> getOptionalPositiveUintParam(p.timeout_ms, 1000, kMaxUxnWaitTimeoutMs),
          lastSequence |-> IF p.last_sequence.t = "absent" THEN Ok(0)
                           ELSE ParseAddress(p.last_sequence)])

uxn_resume(p) ==
    Call("resumeUxnBreakpoint", TRUE,
         [slot |-> ParseOneUxnSlot(p.slot), registers |-> ParseUxnRegisters(p.registers)])

uxn_status(p) == Call("queryUxnBreakpointStatus", TRUE, [slot |-> ParseOneUxnSlot(p.slot)])
uxn_clear(p)  == Call("clearUxnBreakpoints", FALSE, <<>>)

execute_lua(p) ==
    Call("lua", FALSE, [code    |-> getStringParam(p.code, TRUE, FALSE, kMaxIpcLuaCodeBytes),
                        seconds |-> getClampedIntParam(p.timeout_seconds, 30, 1, 30)])

get_module_base(p) ==
    Call("resolveModule", TRUE,
         [name |-> getStringParam(p.name, TRUE, FALSE, kMaxIpcStringParamBytes)])

resolve_offset_chain(p) ==
    LET offsets ==
            CASE p.offsets.t = "absent" -> Ok(0)
              [] /\ p.offsets.t = "array" /\ Count(p.offsets) <= kMaxPointerOffsetCount
                 /\ Holds(p.offsets, ParseAddress) -> Ok(Count(p.offsets))
              [] OTHER -> Throw
    IN  Call("resolvePointer", TRUE,
             [name       |-> getStringParam(p.module, TRUE, FALSE, kMaxIpcStringParamBytes),
              baseOffset |-> ParseAddress(p.base_offset), offsets |-> offsets,
              dereference |-> getOptionalBoolParam(p.deref_final, 1)])

symbol_init(p) == Call("loadSymbolTable", TRUE, [base |-> ParseAddress(p.module_base)])

\* Without a module base the page comes from the table symbol_init left.
symbol_list(p) ==
    LET page == [offset |-> getClampedIntParam(p.offset, 0, 0, INT_MAX),
                 limit  |-> getClampedIntParam(p.count, 100, 1, 1000)]
    IN  IF p.module_base.t = "absent" \/ p.module_base = [t |-> "blank", v |-> 0]
        THEN Call("legacySymbols", TRUE, page)
        ELSE Call("listSymbols", TRUE,
                  [base |-> ParseAddress(p.module_base), offset |-> page.offset,
                   limit |-> page.limit])

symbol_find(p) ==
    Call("resolveSymbol", TRUE,
         [base |-> ParseAddress(p.module_base),
          name |-> getStringParam(p.name, TRUE, FALSE, kMaxIpcStringParamBytes)])

\* DispatchRequest and RegisterBuiltinMethods
Route(method, p) ==
    CASE method = "get_status"           -> get_status(p)
      [] method = "get_version"          -> get_version(p)
      [] method = "get_architecture"     -> get_architecture(p)
      [] method = "list_processes"       -> list_processes(p)
      [] method = "open_process"         -> open_process(p)
      [] method = "list_modules"         -> list_modules(p)
      [] method = "read_memory"          -> read_memory(p)
      [] method = "write_memory"         -> write_memory(p)
      [] method = "read_batch"           -> read_batch(p)
      [] method = "set_breakpoint"       -> set_breakpoint(p)
      [] method = "remove_breakpoint"    -> remove_breakpoint(p)
      [] method = "suspend_breakpoint"   -> suspend_breakpoint(p)
      [] method = "resume_breakpoint"    -> resume_breakpoint(p)
      [] method = "read_bp_info"         -> read_bp_info(p)
      [] method = "query_hwbp_slots"     -> query_hwbp_slots(p)
      [] method = "uxn_install"          -> uxn_install(p)
      [] method = "uxn_remove"           -> uxn_remove(p)
      [] method = "uxn_wait"             -> uxn_wait(p)
      [] method = "uxn_resume"           -> uxn_resume(p)
      [] method = "uxn_status"           -> uxn_status(p)
      [] method = "uxn_clear"            -> uxn_clear(p)
      [] method = "execute_lua"          -> execute_lua(p)
      [] method = "get_module_base"      -> get_module_base(p)
      [] method = "resolve_offset_chain" -> resolve_offset_chain(p)
      [] method = "symbol_init"          -> symbol_init(p)
      [] method = "symbol_list"          -> symbol_list(p)
      [] method = "symbol_find"          -> symbol_find(p)
      [] OTHER                           -> Refused

-----------------------------------------------------------------------------
(* What the service demands of its callers, addresses aside.               *)

ServiceAccepts(call) ==
    LET a == call.args
    IN  CASE call.op = "openProcess"       -> a.pid > 0
          [] call.op = "listModules"       ->
                 a.limit \in 1..kMaxModulePageSize /\ a.filter <= kMaxTextBytes
          [] call.op = "readMemory"        -> a.size \in 1..kMaxMemoryReadBytes
          [] call.op = "writeMemory"       -> a.bytes \in 1..kMaxMemoryWriteBytes
          [] call.op = "readMemoryBatch"   ->
                 a.count \in 1..kMaxMemoryBatchCount /\ a.bytes \in 1..kMaxMemoryBatchBytes
          [] call.op = "setBreakpoint"     -> a.access \in 1..4 /\ a.size \in {1, 2, 4, 8}
          [] call.op = "breakpointSlots"   -> a.capacity \in 1..kMaxBreakpointQueryEntries
          [] call.op = "waitUxnBreakpoint" ->
                 /\ a.slot = kUxnWaitAnySlot \/ a.slot \in 0..(kMaxUxnSlots - 1)
                 /\ a.timeoutMs \in 1..kMaxUxnWaitTimeoutMs
          [] call.op \in {"resumeUxnBreakpoint", "queryUxnBreakpointStatus"} ->
                 a.slot \in 0..(kMaxUxnSlots - 1)
          [] call.op = "resolveModule"     -> a.name \in 1..kMaxTextBytes
          [] call.op = "resolvePointer"    ->
                 a.name \in 1..kMaxTextBytes /\ a.offsets <= kMaxPointerOffsetCount
          [] call.op = "listSymbols"       -> a.limit \in 1..kMaxSymbolPageSize
          [] call.op = "resolveSymbol"     -> a.name \in 1..kMaxSymbolNameSize
          [] OTHER                         -> TRUE

-----------------------------------------------------------------------------
(* Time budgets, in milliseconds.                                          *)

Seconds(ms) == (ms + 999) \div 1000

\* The budget of the dispatch: every socket operation below inherits it.
requestTimeout(method, p) ==
    IF method = "uxn_wait" /\ p.timeout_ms.t = "int" /\ p.timeout_ms.v > 0
    THEN 1000 * Least(70, Seconds(p.timeout_ms.v) + 5)
    ELSE 30000

\* How long the MCP bridge waits for the answer.
_SLOW_METHODS == {"list_processes", "list_modules", "execute_lua", "query_hwbp_slots"}
callTimeout(method, p) ==
    CASE method = "uxn_wait"      -> p.timeout_ms.v + 10000
      [] method = "execute_lua"   -> 1000 * p.timeout_seconds.v + 5000
      [] method \in _SLOW_METHODS \ {"execute_lua"} -> 60000
      [] OTHER                    -> 30000

\* The deadline of a thread, in absolute time; Forever is the clock's max().
Forever         == 2000000000
kMaxTimeoutMs   == 300000
kMinIoTimeoutMs == 5000

\* Mutant: the inner scope replaces the outer one.
ApplyDeadlineReplaces(previous, requested, now) ==
    IF requested = Forever THEN Forever ELSE Least(requested, now + kMaxTimeoutMs)

\* ScopedTimeout::ApplyDeadline: at most the maximum from now on, and never
\* later than the scope around it.
ApplyDeadline(previous, requested, now) ==
    Least(previous, IF requested = Forever THEN Forever
                    ELSE Least(requested, now + kMaxTimeoutMs))

\* No budget is asked for with zero seconds.
ScopedTimeout(previous, seconds, now) ==
    ApplyDeadline(previous,
                  IF seconds <= 0 THEN Forever
                  ELSE now + Least(1000 * seconds, kMaxTimeoutMs), now)

\* SocketOptionTimeoutGuard: one send or receive may take what is left of the
\* budget, and a round trip at least.
IoTimeout(deadline, now) ==
    LET left == IF deadline = Forever THEN kMinIoTimeoutMs
                ELSE Clamp(deadline - now, 1, kMaxTimeoutMs)
    IN  IF left < kMinIoTimeoutMs THEN kMinIoTimeoutMs ELSE left

-----------------------------------------------------------------------------
(* The head of an HTTP request, part by part.                              *)

\* The status the head is answered with; 200 lets the body be read.
ValidateRequestHead(h) ==
    IF h.bytes > kMaxRequestBytes THEN 413
    ELSE IF h.line # "ok"         THEN 400
    ELSE IF h.path # "/"          THEN 404
    ELSE IF h.method # "POST"     THEN 405
    ELSE IF h.headers # "ok"      THEN 400     \* folded, malformed, duplicate
    ELSE IF h.chunked             THEN 400
    ELSE IF h.length < 0          THEN 400     \* missing, no numeral, overflow
    ELSE IF h.type # "json"       THEN 415
    ELSE IF h.origin = "site"     THEN 403
    ELSE IF h.length > kMaxRequestBytes \/ h.bytes + 4 > kMaxRequestBytes - h.length THEN 413
    ELSE 200
=============================================================================
