SPECIFICATION Spec
CONSTANTS
    WordLen = 2
    ByteSize = 16
    THROW = THROW
    MaxUInt = 15
    SelectorLen = 1
    Contracts <- mcContracts
    ParamsFor <- mcParamsFor
CHECK_DEADLOCK FALSE
INVARIANT RoundTrip
INVARIANT CutIsNoticed
INVARIANT RightMethod
INVARIANT EncodesSupported
INVARIANT JsonReadsBack
INVARIANT CodecsAgree
INVARIANT OtherCodecsRoundTrip
