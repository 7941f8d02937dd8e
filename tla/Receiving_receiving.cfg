SPECIFICATION PartsSpec
CONSTANTS
    p1 = p1
    p2 = p2
    g1 = g1
    g2 = g2
    Processors = {p1, p2}
    Groups = {g1, g2}
    MaxBytes = 3
    Plans <- SafetyPlans
    None = None
    Free = Free
    Orphan = Orphan
    NoTime = NoTime
INVARIANTS StoreExact BundlesDelivered PromisedIsKept NotOvertaken
PROPERTIES NothingUndone
CHECK_DEADLOCK FALSE
