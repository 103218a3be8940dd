---------------------------- MODULE MCAlgorithms ----------------------------
(* Algorithms over small sets of inputs that reach every limit. *)
EXTENDS Algorithms

\* Page 0 is never mapped; every other page is readable up to some address.
MCMemories ==
    {[a \in 0..MaxAddress |->
        IF a \div PageSize > 0 /\ a % PageSize < upTo[a \div PageSize] THEN a + 100 ELSE Unmapped]
     : upTo \in [1..(MaxAddress \div PageSize) -> 0..PageSize]}

\* Sizes below, at and above the wire's limit and its half; a name with a blank
\* and two that are too long, the rest of one reading as a mapping.
MCScanned(n)  == IF n = "/x (deleted)" THEN "/x" ELSE n
MCLeftover(n) ==
    CASE n = "long"    -> <<[base |-> 0, size |-> 0, name |-> "", flag |-> {}]>>
      [] n = "longhex" -> <<[base |-> 1, size |-> 2, name |-> "", flag |-> {}]>>
      [] OTHER         -> <<>>
Mapping == {m \in [start : {1, 3}, end : {2, 5, 8, 9, 11},
                   name : {"code", "/x (deleted)", "long", "longhex"},
                   perms : {{"r", "p"}, {"r", "w", "s"}, {"r", "x", "p"}, {"x", "p"}, {"w", "p"}}]
            : m.start < m.end}
MCMappings == {<<m>> : m \in Mapping} \cup {<<m, n>> : m \in Mapping, n \in Mapping}

\* Two spellings of one module, its namesake elsewhere, and one that contains it.
Names == {"/x/lib.so", "/X/Lib.so", "/y/lib.so", "/x/lib.so.1"}
MCQueries == Names \cup {"lib.so", "LIB.SO", "lib.so.1", "lib", "zzz"}
MClowerAscii(n) ==
    CASE n = "/X/Lib.so" -> "/x/lib.so" [] n \in {"LIB.SO", "Lib.so"} -> "lib.so" [] OTHER -> n
MCmoduleBaseName(n) ==
    CASE n \in {"/x/lib.so", "/y/lib.so"} -> "lib.so"
      [] n = "/X/Lib.so"                  -> "Lib.so"
      [] n = "/x/lib.so.1"                -> "lib.so.1"
      [] OTHER                            -> n
MCOccurs(q, n) ==
    \/ q = n \/ q = "lib" \/ q = "lib.so"
    \/ q \in {"lib.so.1", "/x/lib.so"} /\ n = "/x/lib.so.1"
MCModuleLists ==
    UNION {{[i \in 1..n |-> [base |-> bases[i], size |-> 1, name |-> names[i]]]
            : bases \in {b \in [1..n -> 1..3] : IsInjective(b)}, names \in [1..n -> Names]}
           : n \in 1..3}

MCLists == {[i \in 1..n |-> i] : n \in 0..5}

MCBatches ==
    LET Items(n, A)  == [1..n -> [address : A, size : 1..3]]
        Blocks(n, A) == [1..n -> [address : A, count : 0..3]]
        Of(n, k, A)  == {[items |-> i, blocks |-> b] : i \in Items(n, A), b \in Blocks(k, A)}
    IN  Of(3, 3, {1}) \cup Of(2, 2, {1, 2}) \cup Of(2, 1, {1}) \cup Of(1, 2, {1})

MCPointerMaps ==
    {[a \in 0..MaxAddress |-> IF a = p THEN v ELSE IF a = q THEN w ELSE Unmapped]
     : p \in {1, 2, 3}, q \in {2, 3, MaxAddress}, v \in {1, 2, MaxAddress}, w \in {0, 3, MaxAddress}}
MCBaseAddresses == {1, 2, MaxAddress}
MCOffsets == {<<>>, <<0>>, <<1>>, <<1, 0>>, <<0, 1>>, <<1, 1>>}

J(t, v)  == [t |-> t, v |-> v]
Absent   == J("absent", 0)
NoArray  == J("absent", <<>>)
Ints(V)  == {J("int", v) : v \in V}
Odd      == {J("float", 3), J("bool", 1), J("object", 0), J("blank", 0)}
Addr     == {J("int", 0), J("int", 4096), J("numeral", 2000000000), J("int", -1), J("text", 8),
             J("float", 8191), J("float", -1), J("below", 0), J("above", INT_MAX)}
Text     == {Absent, J("blank", 0), J("text", 1), J("text", 4096), J("text", 4097), J("int", 1)}
Run(n, v)   == [item |-> J("int", v), times |-> n]
Array(n, v) == J("array", <<Run(n, v)>>)
Mixed(n, v) == J("array", <<Run(n, v), Run(n, 1)>>)
Of(method, Params) == {[method |-> method, params |-> p] : p \in Params}

MCRequests ==
    Of("open_process", [pid : {Absent} \cup Odd \cup Ints({-1, 0, 1, INT_MAX})])
    \cup Of("list_modules", [filter : Text, offset : Ints({-1, 0, 7}) \cup {Absent},
                             count : Ints({-1, 0, 1, 1000, 1001}) \cup {Absent}])
    \cup Of("read_memory", [address : Addr, size : Ints({0, 1, 65536, 65537}) \cup Odd \cup {Absent}])
    \cup Of("write_memory", [address : Addr, hex : {Absent, J("text", 3), J("blank", 0)} \cup
                                                   {J("hex", n) : n \in {1, 65536, 65537}}])
    \cup Of("read_batch", [addresses : {NoArray, J("array", <<>>), Array(1, 4), Array(2, 0),
                                        Array(2, 70000), Array(256, 65536), Array(257, 65536),
                                        Array(4096, 1), Array(4097, 1),
                                        Mixed(255, 65536), Mixed(256, 65536), Mixed(2, 0)}])
    \cup Of("set_breakpoint", [address : Addr, bp_type : Ints(0..5) \cup Odd \cup {Absent},
                               bp_size : Ints({0, 1, 2, 3, 4, 8, 9}) \cup Odd \cup {Absent}])
    \cup Of("query_hwbp_slots", [capacity : Ints({0, 1, 64, 65}) \cup {Absent}])
    \cup Of("uxn_wait", [slot : Ints({-1, 0, 15, 16, kUxnWaitAnySlot}) \cup {Absent},
                         timeout_ms : Ints({-1, 0, 1, 999, 1000, 1001, 59999, 60000, 60001})
                                      \cup Odd \cup {Absent},
                         last_sequence : {Absent, J("int", 3), J("text", 1)}])
    \cup Of("uxn_resume", [slot : Ints({0, 15, 16, kUxnWaitAnySlot}) \cup {Absent},
                           registers : {Absent, J("object", 34), J("object", 3)}])
    \cup Of("uxn_status", [slot : Ints({0, 15, 16, kUxnWaitAnySlot}) \cup {Absent}])
    \cup Of("execute_lua", [code : {J("text", 1), J("text", 262144), J("text", 262145), J("blank", 0), Absent},
                            timeout_seconds : Ints({-1, 0, 1, 29, 30, 31}) \cup {Absent}])
    \cup Of("get_module_base", [name : Text])
    \cup Of("resolve_offset_chain", [module : Text, base_offset : Addr, deref_final : {Absent, J("bool", 0)},
                                     offsets : {NoArray, J("array", <<>>), Array(1024, 8), Array(1025, 8)}])
    \cup Of("symbol_list", [module_base : {Absent, J("blank", 0), J("int", 1)},
                            offset : Ints({-1, 0, 7}), count : Ints({0, 1, 1000, 1001})])
    \cup Of("symbol_find", [module_base : Addr, name : Text])

MCBits(type) == CASE type = "byte" -> 2 [] type = "word" -> 3 [] type = "dword" -> 4 [] OTHER -> 8
MCScalars == UNION {[type : {t}, v : -(2 ^ MCBits(t) + 1)..(2 ^ MCBits(t) + 1)]
                    : t \in {"byte", "word", "dword", "qword"}}

Place   == Addr \cup {J("padded", 8), J("python", 5), J("bool", 1)}
LuaPlace == (Place \ {J("numeral", 2000000000)}) \cup {J("numeral", 4096), J("numeral", 67)}
LuaOf(f, A)  == {[function |-> f, args |-> a] : a \in A}
ToolOf(t, A) == {[tool |-> t, args |-> a] : a \in A}
Sized   == Ints({-1, 0, 1, 65535, 65536, 65537}) \cup {Absent, J("numeral", 8), J("text", 8)}
Slots   == Ints({-1, 0, 15, 16, kUxnWaitAnySlot}) \cup {J("float", 31), J("float", -1), J("numeral", 15)}
Waits   == Ints({-1, 0, 1, 1000, 60000, 60001}) \cup {Absent}

MCLuaCalls ==
    LuaOf("mem.read", [address : LuaPlace, size : Sized])
    \cup LuaOf("mem.readString", [address : LuaPlace, size : Sized])
    \cup LuaOf("mem.write", [address : LuaPlace, data : {NoArray},
                               text : {J("blank", 0), J("text", 65536), J("text", 65537), J("bool", 1)}])
    \cup LuaOf("mem.write", [address : LuaPlace, text : {Absent},
                            data : {Array(1, 0), Array(65536, 255), Array(65537, 1), Mixed(1, 256)}])
    \cup LuaOf("mem.writeString", [address : LuaPlace, text : {J("blank", 0), J("text", 65535), J("text", 65536), Absent}])
    \cup LuaOf("mem.readBatch", [items : {J("array", <<>>), Array(1, 4), Array(4096, 65536), Array(4097, 1), Mixed(2, 65537)}])
    \cup LuaOf("module.list", {<<>>}) \cup LuaOf("module.getBase", [name : Text])
    \cup LuaOf("module.resolveOffsetChain", [name : Text, offsets : {Array(1024, 8), Array(1025, 8), Array(1, -1)}])
    \cup LuaOf("bp.set", [address : LuaPlace, bp_type : {"read", "write", "access", "execute", "none"},
                          bp_size : Ints({-1, 0, 1, 2, 3, 4, 8, 9}) \cup {Absent, J("text", 4)}])
    \cup UNION {LuaOf(f, [address : LuaPlace])
                : f \in {"bp.remove", "bp.suspend", "bp.resume", "bp.getInfo", "uxn.install", "uxn.remove"}}
    \cup LuaOf("uxn.wait", [slot : Slots, timeout_ms : Waits, last_sequence : {Absent, J("int", 3), J("text", 1)},
                            remaining : {0, 1, 1000, 59999, Forever}])
    \cup LuaOf("uxn.resume", [slot : Slots, registers : {Absent, J("object", 34), J("object", 3)}])
    \cup LuaOf("uxn.status", [slot : Slots]) \cup LuaOf("uxn.clear", {<<>>})

SoNames == {J("so", 4), J("so", 4097), J("text", 4), J("blank", 0)}
MCToolCalls ==
    ToolOf("read_memory", [address : Place, size : Sized])
    \cup ToolOf("read_value", [address : Place, data_type : {"byte", "qword", "double", "bit"}])
    \cup ToolOf("write_bytes", [address : Place, hex : {J("hex", n) : n \in {0, 1, 65536, 65537}} \cup {J("text", 3)}])
    \cup ToolOf("open_process", [pid : Ints({-1, 0, 1, 4096, INT_MAX}) \cup {J("numeral", 7), J("python", 7), J("bool", 1)}])
    \cup ToolOf("list_modules", [filter : {J("blank", 0), J("blank", 1), J("text", 4096), J("text", 4097)},
                                 offset : Ints({-1, 0, 7}) \cup {Absent}, count : Ints({0, 1, 1000, 1001}) \cup {Absent}])
    \cup ToolOf("get_module_base", [name : SoNames])
    \cup ToolOf("resolve_offset_chain", [name : SoNames, base_offset : Place, deref_final : {Absent, J("bool", 0)},
                                         offsets : {J("array", <<>>), Array(1024, 8), Array(1025, 8), Array(1, -1)}])
    \cup ToolOf("symbol_init", [module_base : Place])
    \cup ToolOf("symbol_list", [module_base : Place \cup {Absent, J("blank", 0), J("blank", 1)},
                                offset : Ints({-1, 0, 7}) \cup {Absent}, count : Ints({0, 1, 1000, 1001}) \cup {Absent}])
    \cup ToolOf("symbol_find", [module_base : Place, name : {J("blank", 0), J("text", 1), J("text", 4097)}])
    \cup ToolOf("set_breakpoint", [address : Place, bp_type : Ints(0..5) \cup {Absent, J("bool", 1), J("name", 4), J("name", 0)},
                                   bp_size : Ints({0, 1, 3, 4, 8, 9}) \cup {Absent}])
    \cup UNION {ToolOf(t, [address : Place])
                : t \in {"remove_breakpoint", "suspend_breakpoint", "resume_breakpoint", "read_bp_info", "uxn_install", "uxn_remove"}}
    \cup ToolOf("wait_uxn_breakpoint", [slot : Slots, timeout_ms : Waits, last_sequence : {Absent, J("python", 3), J("text", 1)}])
    \cup ToolOf("query_uxn_breakpoint_status", [slot : Slots])
    \cup ToolOf("execute_lua", [code : {J("blank", 0), J("blank", 1), J("text", 1), J("text", 262144), J("text", 262145)}, timeout_seconds : Ints({0, 1, 30, 31}) \cup {Absent}])

MCHeads ==
    [line : {"ok", "bad"}, path : {"/"}, method : {"POST", "GET"}, headers : {"ok", "folded"},
     chunked : BOOLEAN, type : {"json", "other"}, origin : {"none", "site"},
     bytes : {100, kMaxRequestBytes - 4, kMaxRequestBytes, kMaxRequestBytes + 1},
     length : {-1, 0, 1, kMaxRequestBytes - 104, kMaxRequestBytes - 103, kMaxRequestBytes + 1, INT_MAX}]

MCScopes == UNION {[1..n -> {-1, 0, 1, 5, 30, 400}] : n \in 1..3}
=============================================================================
