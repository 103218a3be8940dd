---------------------------- MODULE MCServiceOps ----------------------------
(* ServiceOps with an opener and two callers, in several scenes. *)
EXTENDS ServiceOps, TLC

CONSTANTS opener, first, second

Cast(o, f, s) == (opener :> o) @@ (first :> f) @@ (second :> s)
Scene(f, s, calls, polled) ==
    [roles |-> Cast({"openProcess"}, f, s), calls |-> calls, polled |-> polled]

\* Any operation against an opener; operations of one mutex or one transaction
\* against each other and an opener; and a breakpoint that is removed and set
\* again between two polls, with nobody else around.
AllScenes ==
    {Scene(Operations \ {"openProcess"}, {}, Cast(1, 1, 0), FALSE),
     Scene({"listModules"}, {"resolvePointer"}, Cast(1, 1, 1), FALSE),
     Scene({"installUxnBreakpoint"}, {"clearUxnBreakpoints"}, Cast(1, 1, 1), FALSE),
     Scene({"loadSymbolTable"}, {"loadSymbolTable", "resolveSymbol"}, Cast(1, 1, 1), FALSE),
     Scene({"removeBreakpoint", "breakpointHits"}, {"breakpointHits"}, Cast(1, 1, 1), TRUE),
     Scene({"setBreakpoint", "removeBreakpoint"}, {"breakpointHits"}, Cast(0, 2, 1), TRUE)}

\* A process selection that runs out of time, and another one.
TwoSelections == {Scene({"listModules"}, {}, Cast(2, 1, 0), TRUE)}

\* The same module base in two processes.
SymbolsTwice == {Scene({"listSymbols"}, {}, Cast(1, 2, 0), FALSE)}
=============================================================================
