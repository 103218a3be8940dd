CONSTANTS
    opener = opener
    user = user
    lifecycle = lifecycle
    NoThread = NoThread
    Threads = {opener, user, lifecycle}
    Timed = {opener, user}
    Roles <- ThreeRoles
    p1 = p1
    p2 = p2
    NoPid = NoPid
    Pids = {p1, p2}
    h1 = h1
    h2 = h2
    NoHandle = NoHandle
    Handles = {h1, h2}
    MaxOps <- OpenTwice
SPECIFICATION Spec
SYMMETRY Symmetry
CHECK_DEADLOCK FALSE
INVARIANTS
    AcceptedFromTarget
    MainTouchesOnlyTarget
    PublishedTargetIsOpen
