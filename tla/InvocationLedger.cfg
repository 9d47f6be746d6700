SPECIFICATION Spec
CONSTANTS
    Procs = {p1, p2}
    Workers = {r1}
    k1 = k1
    k2 = k2
    DeliveryIds = {d1}
    CallIds = {k1, k2}
    WriteIds = {w1}
    CallModes <- ModePerCall
    LookupIds = {w1, k1, k2, d1}
    Contents = {a, b}
    NoContent = none
    MaxRequests = 1
    MaxRounds = 1
    MaxRevision = 1
CHECK_DEADLOCK FALSE
INVARIANTS AtMostOnceIO ClaimIsIntact FailedWriteHadNoEffect RepliesAgree SuccessIsConfirmed
PROPERTIES ImplementsAccountWrite WriteEvidenceStable FrozenRowsStayFrozen
SYMMETRY ProcSymmetry
