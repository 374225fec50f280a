\* Batches of two: the rest of a batch is released when one row fails.
CONSTANTS
    Jobs = {j1, j2}
    Relays = {r1, r2}
    None = None
    BatchSize = 2
    MaxRows = 2
    MaxClaims = 7
    MaxFaults = 2
    SkewedClocks = FALSE
SPECIFICATION FairSpec
PROPERTIES
    FencedRows
    EveryEventPublished
CHECK_DEADLOCK FALSE
