CONSTANTS
    t1 = t1
    t2 = t2
    NoThread = NoThread
    Threads = {t1, t2}
    MaxConnects = 3
    MaxNested = 1
    WriterPriority = FALSE
SPECIFICATION FairSpec
INVARIANTS
    GrantedOnCapturedConnection
    LeaseOfThisConnection
    EndedConnectionIsRetired
PROPERTIES
    RequestEnds
    ImplementsAbstractSession
