CONSTANTS
    Jobs = {j1}
    Workers = {w1, w2}
    Tokens = {1, 2}
    ExecIds = {1, 2}
    Profiles = {candidate}
    ProfileOf <- OneProfile
    None = None
    MaxJobRetries = 1
    SkewedClocks = FALSE
    MaxFaults = 1
SYMMETRY SameWorkers
SPECIFICATION Spec
INVARIANT PausedIsNotFailed
CHECK_DEADLOCK FALSE
