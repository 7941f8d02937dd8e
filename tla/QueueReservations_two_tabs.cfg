SPECIFICATION PartsSpec
CONSTANTS
    Sessions = {s1, s2}
    Keys = {k1}
    NoKey = NoKey
    KeepOldest = {}
    MaxVersion = 2
    ByteSize <- MCByteSize
    MaxBytes = 3
    Lease = 2
    MaxDelay = 1
    MaxTime = 3
    MaxItems = 3
    MaxTokens = 3
    MaxHeld = 3
INVARIANTS LeaseExclusive NoLostMessage BookkeepingExact
PROPERTIES CoalescingKeeps
SYMMETRY SessionSymmetry
CHECK_DEADLOCK FALSE
