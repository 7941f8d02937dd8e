SPECIFICATION Spec
CONSTANTS
    Readers = {r1, r2}
    Steps = 2
    Plans <- MCPlans
INVARIANT EndedLeavesNothing
CHECK_DEADLOCK FALSE
