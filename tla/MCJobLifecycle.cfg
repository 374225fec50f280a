CONSTANTS
    Jobs = {j1}
    Workers = {w1, w2}
    Tokens = {1, 2, 3}
    ExecIds = {1, 2, 3}
    Profiles = {candidate}
    ProfileOf <- OneProfile
    None = None
    MaxJobRetries = 1
    SkewedClocks = TRUE
    MaxFaults = 1
SYMMETRY SameWorkers
SPECIFICATION Spec
INVARIANTS
    TypeOK
    StatusFields
    OutboxMatchesRow
    RetriesAnnounced
    DeferredMeansTransitioned
    CompletedHasReport
    ExecutionsAgree
PROPERTIES
    TerminalIsFinal
    FencedWrites
    ImplementsRows
CHECK_DEADLOCK FALSE
