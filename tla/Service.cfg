CONSTANTS
    opener = opener
    first = first
    second = second
    NoThread = NoThread
    Threads = {opener, first, second}
    Timed = {opener, first}
    Scenes <- AllScenes
    m1 = m1
    m2 = m2
    NoModule = NoModule
    Modules = {m1, m2}
    MaxHits = 2
    MaxGen = 2
    Limit = 1
SPECIFICATION FairSpec
CHECK_DEADLOCK FALSE
INVARIANTS
    OutcomeHonest
    EffectsOnContextTarget
    
PROPERTIES
    EveryCallReturns
