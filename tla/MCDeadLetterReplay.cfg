\* Two operators, two keys, one correction and further faults.
CONSTANTS
    Operators = {o1, o2}
    Keys = {k1, k2}
    Requests = {f1, f2}
    LastEvent = 2
    Topic <- OvertakenTopic
    MaxReplays = 3
    MaxFaults = 2
SYMMETRY Symmetric
SPECIFICATION Spec
INVARIANTS
    InProgressHoldsToken
    AppliedOnce
PROPERTIES
    SettledIsFinal
CHECK_DEADLOCK FALSE
