SPECIFICATION Spec
CONSTANTS
    w1 = w1
    w2 = w2
    t1 = t1
    t2 = t2
    Workers = {w1, w2}
    Tasks = {t1}
    Declared <- RollingDeploy
    Wakes <- NoWake
    AttemptLimit = 2
    MaxToken = 3
    MaxStamp = 5
    MaxCrashes = 1
CHECK_DEADLOCK FALSE
INVARIANTS ExecutesCurrentState OneLeaseHolder OutboxFollowsState DeliveriesAreCounted
PROPERTIES StateAdvancesByOne FrozenTasksStayFrozen
