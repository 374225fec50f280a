\* Exact clocks: a lease runs out and a delay ends because time passes.
CONSTANTS
    Jobs = {j1}
    Workers = {w1, w2}
    Tokens = {1, 2, 3, 4, 5}
    ExecIds = {1, 2, 3}
    Profiles = {w1, w2}
    ProfileOf <- OwnProfile
    None = None
    MaxJobRetries = 1
    SkewedClocks = FALSE
    MaxFaults = 1
SPECIFICATION FairSpec
INVARIANTS
    BoundProfile
PROPERTIES
    EveryJobSettles
CHECK_DEADLOCK FALSE
