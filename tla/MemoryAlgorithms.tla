-------------------------- MODULE MemoryAlgorithms --------------------------
(***************************************************************************)
(* The pure algorithms between a caller and the target's memory: how the   *)
(* engine's two backends read and list memory, what of it travels, and how *)
(* the memory service pages lists, matches batches, finds modules and      *)
(* follows pointers.                                                       *)
(*                                                                         *)
(* Addresses and sizes keep a width, MaxAddress and MaxSize standing for   *)
(* the largest uint64_t and uint32_t.  Memory is a function of addresses,  *)
(* Unmapped where nothing can be read.  A name is a member of Names; what  *)
(* the code asks of its text is given by constants.                        *)
(***************************************************************************)
EXTENDS Integers, SequencesExt

CONSTANTS
    MaxAddress,             \* the largest uint64_t
    MaxSize,                \* the largest uint32_t
    PageSize,
    Unmapped,
    lowerAscii(_),          \* the name in lower case
    moduleBaseName(_),      \* what follows the last slash
    Occurs(_, _),           \* the first text occurs in the second
    Scanned(_),             \* the part of a mapping's name that a %s reads
    Leftover(_)             \* the entries read from the rest of a line too long
                            \* for the buffer

\* Pages fill the address space.
ASSUME SizeAssumption ==
    /\ MaxAddress \in Nat /\ MaxSize \in Nat \ {0} /\ PageSize \in Nat \ {0}
    /\ (MaxAddress + 1) % PageSize = 0
    /\ Unmapped \notin 0..MaxAddress

Lesser(a, b) == IF a < b THEN a ELSE b
Wrapped(a)   == a % (MaxAddress + 1)

-----------------------------------------------------------------------------
(* Reading (AndroidMemKernel, AndroidMemorySys).                           *)

\* One call of the driver or of process_vm_readv inside a page: it copies up
\* to the first address that cannot be read.
ReadChunk(mem, at, n) ==
    LET blocked == {k \in 0..(n - 1) : mem[at + k] = Unmapped}
    IN  IF blocked = {} THEN n ELSE CHOOSE k \in blocked : \A j \in blocked : k <= j

\* Mutant: a page that cannot be read is skipped.
ReadPagesSkip(mem, address, len) ==
    LET read[done \in 0..len] ==
            IF done = len THEN 0
            ELSE LET at    == Wrapped(address + done)
                     chunk == Lesser(len - done, PageSize - (at % PageSize))
                 IN  ReadChunk(mem, at, chunk) + read[done + chunk]
    IN  read[0]

\* The loop of both backends: page by page, up to the first short answer.
ReadPages(mem, address, len) ==
    LET read[done \in 0..len] ==
            IF done = len THEN len
            ELSE LET at    == Wrapped(address + done)
                     chunk == Lesser(len - done, PageSize - (at % PageSize))
                     got   == ReadChunk(mem, at, chunk)
                 IN  IF got < chunk THEN done + got ELSE read[done + got]
    IN  read[0]

\* The bytes read come first, the rest of the buffer is cleared.
Buffer(mem, address, len, got) ==
    [count |-> got,
     bytes |-> [k \in 1..len |-> IF k <= got THEN mem[Wrapped(address + k - 1)]
                                 ELSE 0]]

\* At address 0 the buffer is left alone.
KernelRead(mem, address, len) ==
    IF address = 0 \/ len = 0 THEN [count |-> 0, bytes |-> <<>>]
    ELSE Buffer(mem, address, len, ReadPages(mem, address, len))

\* A read inside one page is a single call.  The end of the range wraps
\* around like the sum of two uintptr_t.
SystemRead(mem, address, len) ==
    LET page(a) == Wrapped(a) \div PageSize
    IN  Buffer(mem, address, len,
               IF len = 0 THEN 0
               ELSE IF page(address) = page(address + len - 1)
               THEN ReadChunk(mem, address, len)
               ELSE ReadPages(mem, address, len))

\* Every item is answered, in order, cut to what could be read.
ReadBratchAddr(mem, items) ==
    [i \in DOMAIN items |->
        [address |-> items[i].address,
         count   |-> KernelRead(mem, items[i].address, items[i].size).count]]

\* The addresses of the pages, counted from the first address, of which at
\* least one byte could be read.  The end of the range and the next page wrap
\* around: a range that reaches past the top has no page, and a loop that has
\* come past every page of the address space is Endless.
Pages   == (MaxAddress + 1) \div PageSize
Endless == {-1}

ReadBratchMemory(mem, address, size) ==
    LET end     == Wrapped(address + size)
        at(k)   == Wrapped(address + k * PageSize)
        visited == {k \in 0..(Pages - 1) : \A j \in 0..k : at(j) < end}
    IN  IF visited = 0..(Pages - 1) THEN Endless
        ELSE {at(k) : k \in {i \in visited : KernelRead(mem, at(i), PageSize).count > 0}}

-----------------------------------------------------------------------------
(* Memory maps.  A mapping is [start, end, perms, name], perms a set of     *)
(* "r", "w", "x" and one of "p", "s".                                      *)

\* LinuxProc::GetProcessMaps: a name ends at its first blank.
SystemMap(m) ==
    [base |-> m.start, size |-> m.end - m.start, name |-> Scanned(m.name), flag |-> m.perms]

\* Lines are read in pieces of 511 bytes; what follows the first piece of a line
\* is read as if it were a line of its own.
SystemMaps(maps) ==
    IF \A i \in DOMAIN maps : Leftover(maps[i].name) = <<>>
    THEN [i \in DOMAIN maps |-> SystemMap(maps[i])]
    ELSE FlattenSeq([i \in DOMAIN maps |-> <<SystemMap(maps[i])>> \o Leftover(maps[i].name)])

\* AndroidKernelDriver::ConvertMapEntry: Windows protections know neither a
\* writable nor an executable page that cannot be read.
ConvertMapEntry(m) ==
    [base |-> m.start,
     size |-> IF m.end > m.start THEN m.end - m.start ELSE 0,
     name |-> m.name,
     protection |->
        IF "x" \in m.perms
        THEN IF "w" \in m.perms THEN "PAGE_EXECUTE_READWRITE" ELSE "PAGE_EXECUTE_READ"
        ELSE IF "w" \in m.perms THEN "PAGE_READWRITE"
        ELSE IF "r" \in m.perms THEN "PAGE_READONLY" ELSE "PAGE_NOACCESS",
     type |-> IF "s" \in m.perms THEN "MEM_MAPPED" ELSE "MEM_PRIVATE"]

\* AndroidMemKernel::GetProcessMaps
KernelMap(m) ==
    LET r == ConvertMapEntry(m)
    IN  [base |-> r.base, size |-> r.size, name |-> r.name,
         flag |-> {IF r.type = "MEM_MAPPED" THEN "s" ELSE "p"} \cup
                  CASE r.protection = "PAGE_EXECUTE_READWRITE" -> {"r", "w", "x"}
                    [] r.protection = "PAGE_EXECUTE_READ"      -> {"r", "x"}
                    [] r.protection = "PAGE_READWRITE"         -> {"r", "w"}
                    [] r.protection = "PAGE_READONLY"          -> {"r"}
                    [] OTHER                                   -> {}]

KernelMaps(maps) == [i \in DOMAIN maps |-> KernelMap(maps[i])]

\* CMD_GETMODULELIST: the size has four bytes on the wire.
ClampUint32Size(size) == Lesser(size, MaxSize)

\* Mutant: the highest bit is a sign.
decodeModuleSizeSigned(wire) == IF wire > MaxSize \div 2 THEN wire - MaxSize - 1 ELSE wire

decodeModuleSize(wire) == wire

\* FetchModuleList and validateModules: one bad entry rejects the list.
AcceptedModule(m) == m.size > 0 /\ m.base # 0 /\ m.base <= MaxAddress - m.size

FetchModuleList(maps) ==
    LET modules == [i \in DOMAIN maps |->
                       [maps[i] EXCEPT !.size = decodeModuleSize(ClampUint32Size(@))]]
    IN  IF \A i \in DOMAIN modules : AcceptedModule(modules[i]) THEN modules ELSE <<>>

-----------------------------------------------------------------------------
(* Module names (MemService).  A module is [base, size, name].              *)

\* Mutant: the first segment listed stands for the module.
LowestOfFirst(modules, key) ==
    modules[CHOOSE i \in DOMAIN modules :
                /\ lowerAscii(modules[i].name) = key
                /\ \A j \in DOMAIN modules : lowerAscii(modules[j].name) = key => i <= j]

\* groupModules: one group for each name, whatever its case, with the lowest
\* segment of that name.
LowestOf(modules, key) ==
    modules[CHOOSE i \in DOMAIN modules :
                /\ lowerAscii(modules[i].name) = key
                /\ \A j \in DOMAIN modules :
                       lowerAscii(modules[j].name) = key =>
                           \/ modules[i].base < modules[j].base
                           \/ modules[i].base = modules[j].base /\ i <= j]

groupModules(modules) ==
    {[key |-> k, module |-> LowestOf(modules, k)] :
        k \in {lowerAscii(modules[i].name) : i \in DOMAIN modules}}

NoMatch == [t |-> "none"]
Found(module) == [t |-> "module", module |-> module]

\* The whole name counts before the file name, the file name before a part;
\* more than one group at the level that counts is ambiguous.
resolveModuleByName(modules, rawQuery) ==
    LET query     == lowerAscii(rawQuery)
        groups    == groupModules(modules)
        full      == {g \in groups : g.key = query}
        base      == {g \in groups : lowerAscii(moduleBaseName(g.module.name)) = query}
        substring == {g \in groups : Occurs(query, g.key)}
        matches   == IF full # {} THEN full ELSE IF base # {} THEN base ELSE substring
    IN  IF \E g \in matches : matches = {g}
        THEN Found((CHOOSE g \in matches : TRUE).module)
        ELSE NoMatch

resolveModuleByBase(modules, base) ==
    LET exact == {i \in DOMAIN modules : modules[i].base = base}
    IN  IF exact = {} THEN NoMatch
        ELSE LET first == CHOOSE i \in exact : \A j \in exact : i <= j
             IN  Found(LowestOf(modules, lowerAscii(modules[first].name)))

-----------------------------------------------------------------------------
(* Lists in pages (listProcesses, listModules, listSymbols).               *)

NoOffset == -1

\* Where the next page starts, after got items from offset on.
NextOffset(total, offset, got) ==
    IF offset + got < total THEN offset + got ELSE NoOffset

\* The engine answers a symbol page with at least one and at most limit items
\* (got of them); the service cuts the other lists itself.
Page(items, offset, limit, got) ==
    LET start == Lesser(offset, Len(items))
        n     == Lesser(Lesser(limit, Len(items) - start), got)
    IN  [items |-> SubSeq(items, start + 1, start + n), offset |-> start,
         total |-> Len(items), next |-> NextOffset(Len(items), start, n)]

-----------------------------------------------------------------------------
(* Batches (MemService::readMemoryBatch).                                  *)

Fits(block, item) == block.address = item.address /\ block.count <= item.size

\* Mutant: a block takes the first item it fits.
BestMatchFirst(items, free, block) ==
    CHOOSE i \in free :
        Fits(block, items[i]) /\ \A j \in free : Fits(block, items[j]) => i <= j

\* A block takes the smallest item it fits, the earliest of equals.
BestMatch(items, free, block) ==
    CHOOSE i \in free :
        /\ Fits(block, items[i])
        /\ \A j \in free : Fits(block, items[j]) =>
               \/ items[i].size < items[j].size
               \/ items[i].size = items[j].size /\ i <= j

\* What is free after one more block; {0} once a block fits none.
TakeItem(items, free, block) ==
    IF \E i \in free : i # 0 /\ Fits(block, items[i])
    THEN free \ {BestMatch(items, free, block)} ELSE {0}

MatchBatch(items, blocks) ==
    LET free[k \in 0..Len(blocks)] ==
            IF k = 0 THEN DOMAIN items ELSE TakeItem(items, free[k - 1], blocks[k])
    IN  free[Len(blocks)]

AcceptsBatch(items, blocks) == Len(blocks) = Len(items) /\ MatchBatch(items, blocks) = {}

-----------------------------------------------------------------------------
(* Pointers.  pointers gives the eight bytes at an address, or Unmapped.   *)

NoAddress == -1

\* Mutant: the sum wraps around.
addAddressOffsetWraps(base, offset) == Wrapped(base + offset)

addAddressOffset(base, offset) ==
    IF base > MaxAddress - offset THEN NoAddress ELSE base + offset

\* decodePointer takes eight bytes and no fewer.
Dereference(pointers, at) ==
    IF at = NoAddress \/ pointers[at] = Unmapped THEN NoAddress ELSE pointers[at]

\* One dereference: NoAddress once anything failed.
FollowOffset(pointers, at, offset) ==
    LET p == Dereference(pointers, at)
    IN  IF p = NoAddress THEN NoAddress ELSE addAddressOffset(p, offset)

resolvePointer(pointers, base, baseOffset, offsets, dereferenceFinal) ==
    LET start == addAddressOffset(base, baseOffset)
        at[i \in 0..Len(offsets)] ==
            IF i = 0 THEN start ELSE FollowOffset(pointers, at[i - 1], offsets[i])
        last  == at[Len(offsets)]
    IN  IF dereferenceFinal THEN Dereference(pointers, last) ELSE last
=============================================================================
