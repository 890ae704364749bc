SPECIFICATION mcSpec
CONSTANTS
    s1 = s1
    s2 = s2
    s3 = s3
    n1 = n1
    Sessions = {s1, s2, s3}
    EndPointOf <- mcEndPointOf
    Groups = {g1}
    Nodes = {n1, n2}
    Threads = {t1, t2}
    MaxQueue = 1
    MaxStarts = 2
SYMMETRY mcSymmetry
CHECK_DEADLOCK FALSE
INVARIANT EntryMeansEndPoint
INVARIANT HandshakeFirst
INVARIANT OneHandlerMapsExact
