SPECIFICATION poolSpec
CONSTANTS
    s1 = s1
    s2 = s2
    s3 = s3
    n1 = n1
    Sessions = {s1}
    EndPointOf <- mcEndPointOf
    Groups = {g1}
    Nodes = {n1}
    Threads = {t1, t2}
    MaxQueue = 2
    MaxStarts = 1
CHECK_DEADLOCK FALSE
INVARIANT RoutesAreLive
SYMMETRY mcSymmetry
