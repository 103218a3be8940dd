CONSTANTS
    Backends = {"kernel", "perf"}
    i1 = i1
    i2 = i2
    Tids = {i1, i2}
    Addrs = {1}
    MaxSlots = 2
    MaxPending = 1
    TidReuse = FALSE
    MaxSeq = 2
    MaxLives = 1
    MaxHits = 3
SPECIFICATION FairSpec
INVARIANTS
    TableIsBacked
    ArmedAsEntry
    PerfNoOrphan
    PerfTotalsAreCumulative
PROPERTY ThreadsAreFollowed
