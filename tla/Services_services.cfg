SPECIFICATION PartsSpec
CONSTANTS
    a = a
    b = b
    Relays = {a, b}
    Newest = 3
    PageSize = 1
    MaxPage = 2
    Budget <- MCBudget
    Plans <- MCPlans
    Msgrs = {"m1", "m2"}
    Packets = {"p", "q"}
    Room = 1
    Tries = 2
    Budgets <- PendingBudgets
    Sends = {"s1", "s2"}
    Receivers = {"A", "B"}
    Targets = {"x", "y", "f", "m"}
    Threshold = 2
    PerReceiver = 2
    Races <- RacePlans
    NoBatch = NoBatch
    Insts = {1, 2}
    Channels = {"c", "d"}
    Lives <- RegistryPlans
    None = None
    Nothing = Nothing
INVARIANTS CoveredIsRead RangeIsAccounted DeferredIsKept ThreeAttempts Named CoverageIsReal FailureIsFinal
PROPERTIES InUseKept AllEnd
CHECK_DEADLOCK FALSE
