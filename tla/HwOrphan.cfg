CONSTANTS
    Backends = {"kernel"}
    i1 = i1
    i2 = i2
    Tids = {i1, i2}
    Addrs = {1}
    MaxSlots = 2
    MaxPending = 1
    TidReuse = FALSE
    MaxSeq = 3
    MaxLives = 2
    MaxHits = 0
SPECIFICATION Spec
INVARIANT NoOrphan
