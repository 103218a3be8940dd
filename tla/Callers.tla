------------------------------ MODULE Callers ------------------------------
(***************************************************************************)
(* The two other surfaces over the memory service, up to the point where   *)
(* they ask for something: the functions Lua scripts call (LuaAPI.cpp,     *)
(* LuaAPI_Memory.cpp, LuaAPI_Uxn.cpp), which call the service themselves,  *)
(* and the tools of the MCP bridge, which send an IPC request.             *)
(*                                                                         *)
(* Values are those of IpcRoutes.  Two more kinds of text tell the parsers *)
(* apart: "python" reads as v in Python only (0b101, 1_000, or a number    *)
(* past uint64_t), "padded" reads as v everywhere but there (010).  A      *)
(* table, like an array, is given by its runs.                             *)
(***************************************************************************)
EXTENDS IpcRoutes

CONSTANTS
    Bits(_),        \* width of the integer types
    Mantissa        \* bits of a number that a double keeps

ASSUME MantissaAssumption == Mantissa \in Nat \ {0}

Numeric == {"int", "float", "below", "above", "numeral", "padded"}  \* what lua_tonumber reads

Magnitude(v) == IF v < 0 THEN -v ELSE v

\* Conversion to a double: to the nearest multiple of the step, ties to even.
Rounded(v) ==
    LET size == Magnitude(v)
        step == CHOOSE s \in {2 ^ k : k \in 0..Bits("qword")} :
                    /\ size <= s * 2 ^ Mantissa
                    /\ s = 1 \/ size > (s \div 2) * 2 ^ Mantissa
        low  == (size \div step) * step
        up   == \/ 2 * (size - low) > step
                \/ 2 * (size - low) = step /\ (low \div step) % 2 = 1
        near == IF up THEN low + step ELSE low
    IN  IF v < 0 THEN -near ELSE near

-----------------------------------------------------------------------------
(* Lua functions.  An error raised is a refusal.                           *)

kMaxLuaMemoryTransferSize == 65536
kMaxLuaOffsetCount        == 1024

\* Lua's numbers are doubles; a numeral becomes the nearest one first.
CheckAddress(a) ==
    CASE a.t \in {"int", "above"} /\ a.v >= 0      -> Ok(a.v)
      [] a.t \in {"numeral", "padded"} /\ a.v >= 0 -> Ok(Rounded(a.v))
      [] a.t = "float" /\ a.v >= 0                 -> Ok(Truncated(a.v))
      [] OTHER                                     -> Throw

\* luaL_checkinteger truncates, and takes numerals.  The ranges asked for lie
\* where a double is exact.
checkinteger(a) ==
    CASE a.t = "float"               -> Ok(Truncated(a.v))
      [] a.t \in Numeric \ {"float"} -> Ok(a.v)
      [] OTHER                       -> Throw
optinteger(a, default) == IF a.t = "absent" THEN Ok(default) ELSE checkinteger(a)

checkIntegerRange(a, min, max) ==
    LET raw == checkinteger(a)
    IN  IF raw # Throw /\ raw.v \in min..max THEN raw ELSE Throw

\* A default of 0 means that the size must be given.
checkSize(a, default) ==
    LET raw == IF default = 0 THEN checkinteger(a) ELSE optinteger(a, default)
    IN  IF raw # Throw /\ raw.v \in 1..kMaxLuaMemoryTransferSize THEN raw ELSE Throw

checkBreakpointSize(a, default) ==
    LET raw == optinteger(a, default)
    IN  IF raw # Throw /\ raw.v \in {1, 2, 4, 8} THEN raw ELSE Throw

checkUxnSlot(a) == checkIntegerRange(a, 0, kMaxUxnSlots - 1)

checkUxnWaitTimeout(a) ==
    IF a.t = "absent" THEN Ok(1000) ELSE checkIntegerRange(a, 1, kMaxUxnWaitTimeoutMs)

checkstring(a) == IF a.t \in Numeric \cup {"text", "blank"} THEN Ok(a.v) ELSE Throw

mem_read(a) ==
    Call("readMemory", TRUE, [address |-> CheckAddress(a.address), size |-> checkSize(a.size, 0)])

mem_readString(a) ==
    Call("readMemory", TRUE, [address |-> CheckAddress(a.address), size |-> checkSize(a.size, 256)])

\* A table of bytes, or the bytes of a string.
mem_write(a) ==
    LET byte(j) == checkIntegerRange(j, 0, 255)
        bytes == CASE a.data.t = "array" /\ Holds(a.data, byte) -> Ok(Count(a.data))
                   [] a.data.t = "absent" /\ a.text.t \in {"text", "blank"} -> Ok(a.text.v)
                   [] OTHER                                     -> Throw
    IN  Call("writeMemory", TRUE,
             [address |-> CheckAddress(a.address),
              bytes   |-> IF bytes.v \in 1..kMaxLuaMemoryTransferSize THEN bytes ELSE Throw])

\* With the terminating zero.
mem_writeString(a) ==
    LET text == checkstring(a.text)
    IN  Call("writeMemory", TRUE,
             [address |-> CheckAddress(a.address),
              bytes   |-> IF text # Throw /\ text.v < 65536 THEN Ok(text.v + 1) ELSE Throw])

\* The sum of the sizes is left to the service.
mem_readBatch(a) ==
    LET size(j) == checkSize(j, 0)
        total == SumOf([i \in DOMAIN a.items.v |-> a.items.v[i].times * size(a.items.v[i].item).v])
    IN  IF /\ a.items.t = "array" /\ Count(a.items) \in 1..kMaxMemoryBatchCount
           /\ Holds(a.items, size)
        THEN Call("readMemoryBatch", TRUE, [count |-> Ok(Count(a.items)), bytes |-> Ok(total)])
        ELSE Refused

module_list(a) ==
    Call("listModules", TRUE, [filter |-> Ok(0), offset |-> Ok(0), limit |-> Ok(kMaxModulePageSize)])

module_getBase(a) == Call("resolveModule", TRUE, [name |-> checkstring(a.name)])

module_resolveOffsetChain(a) ==
    Call("resolvePointer", TRUE,
         [name    |-> checkstring(a.name),
          offsets |-> IF /\ a.offsets.t = "array" /\ Count(a.offsets) <= kMaxLuaOffsetCount
                         /\ Holds(a.offsets, CheckAddress)
                      THEN Ok(Count(a.offsets)) ELSE Throw])

\* The type is a name; as an IPC request it would be its number.
AccessOf(name) ==
    CASE name = "read" -> Ok(1) [] name = "write" -> Ok(2)
      [] name \in {"access", "readwrite"} -> Ok(3)
      [] name = "execute" -> Ok(4) [] OTHER -> Throw

bp_set(a) ==
    LET access == AccessOf(a.bp_type)
        size   == checkBreakpointSize(a.bp_size, 4)
    IN  IF size = Throw THEN Refused
        ELSE Call("setBreakpoint", TRUE,
                  [address |-> CheckAddress(a.address), access |-> access,
                   size |-> IF access = Ok(4) THEN Ok(4) ELSE size])

bp_remove(a)  == Call("removeBreakpoint", TRUE, [address |-> CheckAddress(a.address)])
bp_suspend(a) == Call("suspendBreakpoint", TRUE, [address |-> CheckAddress(a.address)])
bp_resume(a)  == Call("resumeBreakpoint", TRUE, [address |-> CheckAddress(a.address)])
bp_getInfo(a) == Call("breakpointHits", TRUE, [address |-> CheckAddress(a.address)])

uxn_install_lua(a) == Call("installUxnBreakpoint", TRUE, [address |-> CheckAddress(a.address)])
uxn_remove_lua(a)  == Call("removeUxnBreakpoint", TRUE, [address |-> CheckAddress(a.address)])

\* The script may wait no longer than it has left (Forever without a deadline).
uxn_wait_lua(a) ==
    LET timeout == checkUxnWaitTimeout(a.timeout_ms)
    IN  IF a.remaining <= 0 \/ timeout.v > a.remaining THEN Refused
        ELSE Call("waitUxnBreakpoint", TRUE,
                  [slot |-> checkUxnSlot(a.slot), timeoutMs |-> timeout,
                   lastSequence |-> IF a.last_sequence.t = "absent" THEN Ok(0)
                                    ELSE CheckAddress(a.last_sequence)])

uxn_resume_lua(a) ==
    Call("resumeUxnBreakpoint", TRUE,
         [slot |-> checkUxnSlot(a.slot), registers |-> ParseUxnRegisters(a.registers)])

uxn_status_lua(a) == Call("queryUxnBreakpointStatus", TRUE, [slot |-> checkUxnSlot(a.slot)])
uxn_clear_lua(a)  == Call("clearUxnBreakpoints", FALSE, <<>>)

\* RegisterAll and the two other Register: the tables a script sees.
LuaFunction(f, a) ==
    CASE f = "mem.read"        -> mem_read(a)        [] f = "mem.write"      -> mem_write(a)
      [] f = "mem.readString"  -> mem_readString(a)  [] f = "mem.writeString"-> mem_writeString(a)
      [] f = "mem.readBatch"   -> mem_readBatch(a)   [] f = "module.list"    -> module_list(a)
      [] f = "module.getBase"  -> module_getBase(a)  [] f = "module.resolveOffsetChain" -> module_resolveOffsetChain(a)
      [] f = "bp.set"          -> bp_set(a)          [] f = "bp.remove"      -> bp_remove(a)
      [] f = "bp.suspend"      -> bp_suspend(a)      [] f = "bp.resume"      -> bp_resume(a)
      [] f = "bp.getInfo"      -> bp_getInfo(a)      [] f = "uxn.install"    -> uxn_install_lua(a)
      [] f = "uxn.remove"      -> uxn_remove_lua(a)  [] f = "uxn.wait"       -> uxn_wait_lua(a)
      [] f = "uxn.resume"      -> uxn_resume_lua(a)  [] f = "uxn.status"     -> uxn_status_lua(a)
      [] f = "uxn.clear"       -> uxn_clear_lua(a)   [] OTHER                -> Refused

-----------------------------------------------------------------------------
(* Integers in memory: bytes are given by the unsigned number they spell.  *)

Signed(type, bytes) ==
    IF bytes >= 2 ^ (Bits(type) - 1) THEN bytes - 2 ^ Bits(type) ELSE bytes

\* readByte, readShort, readInt, readLong: what the script gets.
ReadScalar(type, bytes) ==
    CASE type = "byte"  -> bytes
      [] type = "qword" -> Rounded(Signed(type, bytes))
      [] OTHER          -> Signed(type, bytes)

\* writeByte, writeShort, writeInt, writeLong: the bytes written.  A number past
\* the range of lua_Integer has no defined conversion and is left out.
WriteScalar(type, v) ==
    LET half == 2 ^ (Bits(type) - 1)
        value == IF type = "byte" THEN checkIntegerRange([t |-> "int", v |-> v], 0, 2 * half - 1)
                 ELSE checkIntegerRange([t |-> "int", v |-> v], -half, half - 1)
    IN  IF value = Throw THEN Throw ELSE Ok(value.v % (2 * half))

-----------------------------------------------------------------------------
(* The tools of the MCP bridge.  A tool raises, or sends a request.        *)

Raised == [method |-> "raise", params |-> <<>>]

Send(method, checked, params) ==
    IF Throw \in checked THEN Raised ELSE [method |-> method, params |-> params]

Number(v)     == [t |-> "int", v |-> v]
Default(a, d) == IF a.t = "absent" THEN Number(d) ELSE a
NotGiven      == [t |-> "absent", v |-> 0]
Empty         == [t |-> "blank", v |-> 0]

parse_int(a) ==
    IF a.t \in {"int", "numeral", "python"} /\ a.v >= 0 THEN Ok(a.v) ELSE Throw

parse_positive_int(a, max) ==
    IF parse_int(a) # Throw /\ a.v > 0 THEN Ok(Least(a.v, max)) ELSE Throw

clean_hex_string(a) == IF a.t = "hex" /\ a.v > 0 THEN Ok(a.v) ELSE Throw

encode_value_hex(v, type) ==
    IF v \in -(2 ^ (Bits(type) - 1))..(2 ^ Bits(type) - 1) THEN Ok(v % 2 ^ Bits(type)) ELSE Throw

decode_value(bytes, type) == bytes

DATA_TYPE_SIZE ==
    [byte |-> 1, word |-> 2, dword |-> 4, qword |-> 8, float |-> 4, double |-> 8, xor |-> 4]

_require_so_name(a) == IF a.t = "so" THEN Ok(a.v) ELSE Throw

\* A name is given by the number BP_TYPE_BY_NAME has for it, or 0.
_resolve_bp_type(a) ==
    IF a.t \in {"int", "name"} /\ a.v \in 1..4 THEN Ok(a.v) ELSE Throw

_parse_uxn_slot(a) == IF parse_int(a) # Throw /\ a.v < kMaxUxnSlots THEN Ok(a.v) ELSE Throw

read_memory_tool(a) ==
    LET size == parse_positive_int(Default(a.size, 256), 65536)
    IN  Send("read_memory", {parse_int(a.address), size},
             [address |-> a.address, size |-> Number(size.v)])

read_value(a) ==
    IF a.data_type \notin DOMAIN DATA_TYPE_SIZE THEN Raised
    ELSE Send("read_memory", {parse_int(a.address)},
              [address |-> a.address, size |-> Number(DATA_TYPE_SIZE[a.data_type])])

write_bytes(a) ==
    Send("write_memory", {parse_int(a.address), clean_hex_string(a.hex)},
         [address |-> a.address, hex |-> a.hex])

open_process_tool(a) ==
    IF parse_int(a.pid) = Ok(0) THEN Raised
    ELSE Send("open_process", {parse_int(a.pid)}, [pid |-> Number(a.pid.v)])

\* An empty filter is not sent.
list_modules_tool(a) ==
    LET offset == parse_int(Default(a.offset, 0))
        count  == parse_positive_int(Default(a.count, 200), 1000)
    IN  Send("list_modules", {offset, count},
             [filter |-> IF a.filter = Empty THEN NotGiven ELSE a.filter,
              offset |-> Number(offset.v), count |-> Number(count.v)])

get_module_base_tool(a) ==
    Send("get_module_base", {_require_so_name(a.name)}, [name |-> [t |-> "text", v |-> a.name.v]])

resolve_offset_chain_tool(a) ==
    LET offsets == IF /\ Count(a.offsets) <= 1024 /\ Holds(a.offsets, parse_int)
                   THEN Ok(Count(a.offsets)) ELSE Throw
    IN  Send("resolve_offset_chain", {_require_so_name(a.name), parse_int(a.base_offset), offsets},
             [module |-> [t |-> "text", v |-> a.name.v], base_offset |-> a.base_offset,
              offsets |-> a.offsets, deref_final |-> a.deref_final])

symbol_init_tool(a) ==
    Send("symbol_init", {parse_int(a.module_base)}, [module_base |-> a.module_base])

\* An empty base is not sent.
symbol_list_tool(a) ==
    LET offset == parse_int(Default(a.offset, 0))
        count  == parse_positive_int(Default(a.count, 100), 1000)
        given  == a.module_base \notin {NotGiven, Empty}
    IN  Send("symbol_list", {offset, count} \cup (IF given THEN {parse_int(a.module_base)} ELSE {}),
             [offset |-> Number(offset.v), count |-> Number(count.v),
              module_base |-> IF given THEN a.module_base ELSE NotGiven])

symbol_find_tool(a) ==
    IF a.name.t = "blank" THEN Raised
    ELSE Send("symbol_find", {parse_int(a.module_base)},
              [module_base |-> a.module_base, name |-> a.name])

set_breakpoint_tool(a) ==
    LET access == _resolve_bp_type(Default(a.bp_type, 2))
        size   == IF access = Ok(4) THEN Ok(4) ELSE parse_int(Default(a.bp_size, 4))
    IN  IF size.v \notin {1, 2, 4, 8} THEN Raised
        ELSE Send("set_breakpoint", {parse_int(a.address), access, size},
                  [address |-> a.address, bp_type |-> Number(access.v),
                   bp_size |-> Number(size.v)])

\* remove_breakpoint, suspend_breakpoint, resume_breakpoint, read_breakpoint_info
breakpoint_tool(method, a) == Send(method, {parse_int(a.address)}, [address |-> a.address])

\* install_uxn_breakpoint, remove_uxn_breakpoint
uxn_address_tool(method, a) ==
    LET parsed == parse_int(a.address)
    IN  IF parsed.v = 0 \/ parsed.v % 4 # 0 THEN Raised
        ELSE Send(method, {parsed}, [address |-> a.address])

_UXN_MAX_TIMEOUT_MS == 60000
wait_uxn_breakpoint(a) ==
    LET timeout == parse_int(Default(a.timeout_ms, 1000))
    IN  IF timeout.v \notin 1.._UXN_MAX_TIMEOUT_MS THEN Raised
        ELSE Send("uxn_wait", {_parse_uxn_slot(a.slot), timeout, parse_int(Default(a.last_sequence, 0))},
                  [slot |-> Number(a.slot.v), timeout_ms |-> Number(timeout.v),
                   last_sequence |-> Number(Default(a.last_sequence, 0).v)])

query_uxn_breakpoint_status(a) ==
    Send("uxn_status", {_parse_uxn_slot(a.slot)}, [slot |-> Number(a.slot.v)])

execute_lua_tool(a) ==
    LET seconds == parse_positive_int(Default(a.timeout_seconds, 30), 30)
    IN  IF a.code = Empty THEN Raised
        ELSE Send("execute_lua", {seconds}, [code |-> a.code, timeout_seconds |-> Number(seconds.v)])

Tool(name, a) ==
    CASE name = "read_memory"     -> read_memory_tool(a)
      [] name = "read_value"      -> read_value(a)
      [] name = "write_bytes"     -> write_bytes(a)
      [] name = "open_process"    -> open_process_tool(a)
      [] name = "list_modules"    -> list_modules_tool(a)
      [] name = "get_module_base" -> get_module_base_tool(a)
      [] name = "resolve_offset_chain" -> resolve_offset_chain_tool(a)
      [] name = "symbol_init"     -> symbol_init_tool(a)
      [] name = "symbol_list"     -> symbol_list_tool(a)
      [] name = "symbol_find"     -> symbol_find_tool(a)
      [] name = "set_breakpoint"  -> set_breakpoint_tool(a)
      [] name \in {"remove_breakpoint", "suspend_breakpoint", "resume_breakpoint", "read_bp_info"}
                                  -> breakpoint_tool(name, a)
      [] name \in {"uxn_install", "uxn_remove"} -> uxn_address_tool(name, a)
      [] name = "wait_uxn_breakpoint"           -> wait_uxn_breakpoint(a)
      [] name = "query_uxn_breakpoint_status"   -> query_uxn_breakpoint_status(a)
      [] name = "execute_lua"     -> execute_lua_tool(a)
      [] OTHER                    -> Raised
=============================================================================
