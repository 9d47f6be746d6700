SPECIFICATION FairSpec
CONSTANTS
    p1 = p1  p2 = p2  p3 = p3
    Procs = {p1, p2}
    Events = {e1}
    Nonces = {}
    NoNonce = NoNonce
    Mappings = {m1}
    NoMapping = NoMapping
    Erasable = {}
    AttemptLimit = 2
    MaxToken = 6
    MaxRequests = 1
    MaxReplays = 1
    MaxRemaps = 0
    MaxFaults = 1
CHECK_DEADLOCK FALSE
PROPERTY EventsSettle
