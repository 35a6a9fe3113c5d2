SPECIFICATION MaintenanceFairSpec
CONSTANTS
    Keys = {k1, k2, k3, k4, k5}
    Submitters = {t1, t2}
    Workers = {w1, w2}
    QueueSize = 4
    None = None
    Shutdown = Shutdown
CHECK_DEADLOCK FALSE
INVARIANTS OneJobPerKey
PROPERTIES KeysAreReleased
