SPECIFICATION Spec
CONSTANTS
    WordLen = 2
    ByteSize = 16
    THROW = THROW
    MaxUInt = 15
    SelectorLen = 1
    Contracts <- mcNested
    ParamsFor <- mcParamsFor
CHECK_DEADLOCK FALSE
INVARIANT EncodesDeclared
