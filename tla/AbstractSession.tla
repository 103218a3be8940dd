--------------------------- MODULE AbstractSession ---------------------------
(***************************************************************************)
(* What DeviceSession promises its callers, without its two atomics and    *)
(* its lock: connections come one after the other, a request is let        *)
(* through to the connection that is up, and the next connection starts    *)
(* when nobody is left on the last one.                                    *)
(***************************************************************************)
EXTENDS Naturals

CONSTANT Threads

VARIABLES
    last,      \* how many connections there have been
    up,        \* whether the last one is in use
    granted    \* the connection each thread's request was let through to, or 0

vars == <<last, up, granted>>

Init ==
    /\ last = 0
    /\ up = FALSE
    /\ granted = [t \in Threads |-> 0]

Establish ==
    /\ ~up
    /\ \A t \in Threads : granted[t] = 0
    /\ last' = last + 1
    /\ up' = TRUE
    /\ UNCHANGED granted

\* By a disconnect, or by the request that found the connection broken; other
\* requests may still be on it.
End ==
    /\ up
    /\ up' = FALSE
    /\ UNCHANGED <<last, granted>>

Grant(t) ==
    /\ up
    /\ granted[t] = 0
    /\ granted' = [granted EXCEPT ![t] = last]
    /\ UNCHANGED <<last, up>>

Return(t) ==
    /\ granted[t] # 0
    /\ granted' = [granted EXCEPT ![t] = 0]
    /\ UNCHANGED <<last, up>>

Next == Establish \/ End \/ \E t \in Threads : Grant(t) \/ Return(t)

Spec == Init /\ [][Next]_vars
=============================================================================
