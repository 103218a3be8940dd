SPECIFICATION FairSpec
CONSTANTS
    Workers <- MCWorkers
    MaxTargets = 2
    MaxDepth = 2
    MaxWindows = 1
CHECK_DEADLOCK FALSE
INVARIANTS
    ActsWhereTold
    ScopesBalanced
PROPERTIES
    StopEnds
