SPECIFICATION Spec
CONSTANTS
    Threads = {t1, t2}
    MaxPermits = 2
    WindowMS = 2
    AllowExceed = FALSE
    Amounts = {1, 2, 3}
    WordSize = 16
    MaxTime = 4
    MaxCalls = 4
SYMMETRY mcSymmetry
CHECK_DEADLOCK FALSE
INVARIANT WindowBounded
INVARIANT BurstBounded
PROPERTY NoOversleep
