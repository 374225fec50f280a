\* As deployed: batches of one.
CONSTANTS
    Jobs = {j1, j2}
    Relays = {r1, r2}
    None = None
    BatchSize = 1
    MaxRows = 3
    MaxClaims = 4
    MaxFaults = 2
    SkewedClocks = TRUE
SYMMETRY Symmetric
SPECIFICATION Spec
INVARIANTS
    PublishedIsInLog
PROPERTIES
    ImplementsEventLog
CHECK_DEADLOCK FALSE
