SPECIFICATION PartsSpec
CONSTANTS
    f1 = f1
    f2 = f2
    l1 = l1
    h1 = h1
    h2 = h2
    n1 = n1
    Requests = {f1, f2, l1, h1, h2, n1}
    Wants <- MCWants
    MaxSubscriptions = 3
    MaxHistory = 1
    MaxQueued = 2
    NoLedger = NoLedger
    MaxLedgers = 3
    None = None
INVARIANTS LedgerExact NobodyForgotten ConnectionsKeptAsHeld OneEventAccepted QueueNeverStalls
PROPERTIES ServedInOrder
CHECK_DEADLOCK FALSE
