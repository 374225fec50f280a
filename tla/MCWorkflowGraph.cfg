SPECIFICATION Spec
CONSTANTS
    Workers = {w1, w2}
    None = None
    Items = {i1}
    Execs <- MCExecs
    MaxFaults = 2
    MaxRepairs = 1
    MaxJobRetries = 1
    MaxEvaluationAttempts = 3
SYMMETRY Symmetry
CHECK_DEADLOCK FALSE
INVARIANTS
    VerdictIsAboutThisDraft
    AcceptedWasAuthorized
    CountersAgree
PROPERTIES
    RunsAreFenced
