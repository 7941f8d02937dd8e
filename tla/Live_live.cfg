SPECIFICATION PartsSpec
CONSTANTS
    Plans <- MCPlans
    None = None
    Overlap = 0
    Capacity = 2
INVARIANTS StreamIsWhole NoSilentGap SubscribedAsWatched LoopAlive
PROPERTIES SavedBeforeRestart AllResume
CHECK_DEADLOCK FALSE
