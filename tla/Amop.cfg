SPECIFICATION mcSpec
CONSTANTS
    Topics = {x1, x2}
    Sessions = {s1, s2}
    Threads = {t1, t2}
    MaxCalls = 3
    OverlappingCalls = 2
SYMMETRY mcSymmetry
INVARIANT EveryTopicTold
INVARIANT SerialTopicsExact
