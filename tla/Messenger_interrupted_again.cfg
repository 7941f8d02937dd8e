SPECIFICATION Spec
CONSTANTS
    MaxTime = 2
    Skew = 1
    Plans <- RecutPlans
INVARIANT MissedIsPending
CHECK_DEADLOCK FALSE
