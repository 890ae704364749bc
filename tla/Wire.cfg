SPECIFICATION Spec
CONSTANTS
    ByteBits = 3
    WordBytes = 3
    MaxDepth = 4
    MaxStringLength = 40
    TopicMaxLength = 8
    ValidTopics = {"t", "u", "v"}
    THROW = THROW
    ABORT = ABORT
    NIL = NIL
    Memory = {0, 3}
    Cases <- MCCases
    Extras <- MCExtras
INVARIANTS
    ScaleRoundTrip
    ScaleCutRefused
    TarsRoundTrip
    JsonKeepsHash
    TextRoundTrip
    MessageRoundTrip
    FaultStaysLocal
    CutNeverMisread
CHECK_DEADLOCK FALSE
