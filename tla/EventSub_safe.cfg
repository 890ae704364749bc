SPECIFICATION SpecStarted
CONSTANTS
    NULL = NULL
    s1 = s1
    s2 = s2
    s3 = s3
    Tasks = {t1}
    Sessions = {s1, s2}
    EndPointOf <- mcEndPointOf
    FromBlock <- Latest
    ToBlock = 1
    MaxBlock = 1
    MaxPushes = 2
CHECK_DEADLOCK FALSE
INVARIANT SuspendCountExact
INVARIANT WaitRespExact
INVARIANT SessionMatchesTable
INVARIANT RemovedForGood
INVARIANT NoSkippedBlock
PROPERTY IsSubscription
