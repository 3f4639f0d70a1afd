CONSTANTS
    k1 = k1
    k2 = k2
    v1 = v1
    v2 = v2
    t1 = t1
    t2 = t2
    None = None
    Key = {k1, k2}
    Value = {v1, v2}
    Thread = {t1, t2}
    TTL = 1
    Latency = 1
    MaxClock = 3
SYMMETRY MCSymmetry
SPECIFICATION Spec
INVARIANTS
    CachedStoreTypeOK
    BoundedStaleness
    SeesFlushedWrites
