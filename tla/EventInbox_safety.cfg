SPECIFICATION Spec
CONSTANTS
    p1 = p1  p2 = p2  p3 = p3
    Procs = {p1, p2}
    Events = {e1}
    Nonces = {n1}
    NoNonce = NoNonce
    Mappings = {m1}
    NoMapping = NoMapping
    Erasable = {e1}
    AttemptLimit = 2
    MaxToken = 2
    MaxRequests = 2
    MaxReplays = 1
    MaxRemaps = 1
    MaxFaults = 1
CHECK_DEADLOCK FALSE
INVARIANTS IngressProcessesOnce DeadLetterAfterLimit ProcessedWasStarted ClaimsAreExclusive
PROPERTY FrozenEventsStayFrozen
SYMMETRY ProcSymmetry
