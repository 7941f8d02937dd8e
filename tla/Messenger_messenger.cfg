SPECIFICATION Spec
CONSTANTS
    MaxTime = 3
    Skew = 1
    Plans <- MCPlans
INVARIANTS NothingForgotten MissedIsPending
PROPERTIES ExplicitPauseHolds AllRecovered
CHECK_DEADLOCK FALSE
