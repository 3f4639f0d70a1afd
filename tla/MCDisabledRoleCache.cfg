CONSTANTS
    t1 = t1
    t2 = t2
    s1 = s1
    Free = Free
    BuiltInRole = {"builtin.admin", "builtin.viewer"}
    Service = {s1}
    Thread = {t1, t2}
    ServiceOf <- MCServiceOf
    TTL = 1
    Latency = 1
    MaxClock = 3
SPECIFICATION Spec
INVARIANTS
    DisabledRoleCacheTypeOK
    SeesOwnToggles
    ObeysOldMarks
    OneRefillPerService
PROPERTY
    EveryCallReturns
