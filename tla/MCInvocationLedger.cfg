CONSTANTS
    Callers = {w1, w2, w3}
    None = None
    MaxAttemptsPerCall = 2
    MalformedCap = 2
    MaxAttempts = 3
SYMMETRY SameCallers
SPECIFICATION Spec
INVARIANTS
    LedgerAgrees
    ReturnsCommittedOutput
    OneCallInTime
PROPERTIES
    SuccessIsFinal
    ClaimProtectsCall
CHECK_DEADLOCK FALSE
