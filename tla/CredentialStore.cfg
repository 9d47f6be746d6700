SPECIFICATION Spec
CONSTANTS
    p1 = p1  p2 = p2
    Procs = {p1, p2}
    FieldOrder <- TwoFields
    MaxIssued = 3
    MaxClock = 1
    MaxAdmin = 1
INVARIANTS NoTornGrant
PROPERTIES RotationReplacesWhatWasUsed NoRotationAfterRevocation
SYMMETRY ProcSymmetry
CHECK_DEADLOCK FALSE
