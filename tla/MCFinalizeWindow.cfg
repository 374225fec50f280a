CONSTANTS
    Jobs = {j1}
    Workers = {w1}
    Tokens = {1, 2, 3}
    ExecIds = {1, 2, 3}
    Profiles = {candidate}
    ProfileOf <- OneProfile
    None = None
    MaxJobRetries = 1
    SkewedClocks = FALSE
    MaxFaults = 1
SPECIFICATION Spec
PROPERTY FinalizeWindowRetries
CHECK_DEADLOCK FALSE
