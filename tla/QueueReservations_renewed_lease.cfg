SPECIFICATION PartsSpec
CONSTANTS
    Sessions = {s1, s2}
    Keys = {k1}
    NoKey = NoKey
    KeepOldest = {}
    MaxVersion = 3
    ByteSize <- MCByteSize
    MaxBytes = 4
    Lease = 2
    MaxDelay = 0
    MaxTime = 3
    MaxItems = 3
    MaxTokens = 3
    MaxHeld = 3

INVARIANT RenewedLeaseExclusive
SYMMETRY SessionSymmetry
CHECK_DEADLOCK FALSE
