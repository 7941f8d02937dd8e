SPECIFICATION SRSpec
CONSTANTS
    s1 = s1
    s2 = s2
    Sends = {s1, s2}
    A = A
    B = B
    x = x
    y = y
    f = f
    m = m
    Receivers = {A, B}
    Targets = {x, y, f, m}
    Threshold = 2
    PerReceiver = 2
    NoBatch = NoBatch
    Races <- CircuitPlans
PROPERTY CircuitHolds
CHECK_DEADLOCK FALSE
