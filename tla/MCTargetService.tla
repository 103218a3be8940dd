--------------------------- MODULE MCTargetService ---------------------------
(* TargetService with one thread per kind of caller. *)
EXTENDS TargetService, TLC

CONSTANTS opener, user, lifecycle

\* A thread that selects processes, one that works on the target and one that
\* reconnects.  A module listing does all that a read does, and a connect that
\* fails leaves what a disconnect leaves.
ThreeRoles ==
    (opener :> {"open"}) @@ (user :> {"write", "modules", "hits"})
        @@ (lifecycle :> {"connect"})

\* The same without the lifecycle thread.
TwoRoles == (opener :> {"open"}) @@ (user :> {"read", "write", "modules", "hits"})

\* For liveness, one operation for each way of holding the locks.
LockRoles ==
    (opener :> {"open"}) @@ (user :> {"read", "modules"})
        @@ (lifecycle :> {"disconnect"})

\* One operation each, or two process selections around one operation.
OneEach == [t \in Threads |-> 1]
OpenTwice == [t \in Threads |-> IF t = opener THEN 2 ELSE 1]

\* Processes and handles are interchangeable; not used with liveness.
Symmetry == Permutations(Pids) \cup Permutations(Handles)
=============================================================================
