SPECIFICATION Spec
CONSTANTS
    Procs = {p1, p2}
    Operations <- All
    PoolSize = 1
    MaxRows = 2
CHECK_DEADLOCK FALSE
INVARIANT HoldersCanProceed
