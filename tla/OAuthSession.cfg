SPECIFICATION FairSpec
CONSTANTS
    p1 = p1  p2 = p2  p3 = p3
    Procs = {p1, p2}
    Sessions = {s1}
    MaxRevision = 2
    MaxCrashes = 1
CHECK_DEADLOCK FALSE
INVARIANTS CodeExchangedOnce ConnectedHasAccount
PROPERTIES AccountsHoldCurrentCredentials NoAccountAfterErasure SessionsSettle
