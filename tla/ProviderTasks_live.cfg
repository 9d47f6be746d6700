SPECIFICATION FairSpec
CONSTANTS
    w1 = w1
    w2 = w2
    t1 = t1
    t2 = t2
    Workers = {w1, w2}
    Tasks = {t1, t2}
    Declared <- OneRelease
    Wakes <- MayWake
    AttemptLimit = 3
    MaxToken = 1
    MaxStamp = 3
    MaxCrashes = 0
CHECK_DEADLOCK FALSE
PROPERTY CommitsSettle
