SPECIFICATION FairSpec
CONSTANTS
    one = one
    two = two
    NoBridge = NoBridge
    Bridges <- MCBridges
    Workers <- MCWorkers
    Scenes <- AllScenes
    MaxPending = 1
    MaxRevs = 2
CHECK_DEADLOCK FALSE
INVARIANTS
    MutatesOnce
    PageOfSelected
    StaleOnlyAfterRival

    
