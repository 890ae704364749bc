SPECIFICATION mcSpec
CONSTANTS
    n1 = n1
    n2 = n2
    hsm1 = hsm1
    hsm2 = hsm2
    ecdsa = ecdsa
    NULL = NULL
    Nodes = {n1, n2}
    HandshakeNodes = {n1, n2}
    Callbacks = {c1}
    Workers = 2
    MaxBlock = 1
    MaxRemovals = 1
    Signers = {t1, t2}
    KeyPairs = {hsm1, hsm2, ecdsa}
    TypeOfKey <- mcTypeOfKey
    LibOfKey <- mcLibOfKey
    SmCryptoType = TRUE
    MaxTxs = 2
INVARIANT NotifiedOnce
INVARIANT SomeHighestNode
PROPERTY IsBlockNumber
PROPERTY SuiteMadeOnce
INVARIANT LimitIsFresh
INVARIANT SignedForGroup
PROPERTY CallsEnd
