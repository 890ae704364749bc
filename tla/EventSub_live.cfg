SPECIFICATION FairSpec
CONSTANTS
    NULL = NULL
    s1 = s1
    s2 = s2
    s3 = s3
    Tasks = {t1}
    Sessions = {s1, s2}
    EndPointOf <- mcEndPointOf
    FromBlock = 1
    ToBlock = 1
    MaxBlock = 1
    MaxPushes = 1
CHECK_DEADLOCK FALSE
PROPERTY SuspendedResumes
