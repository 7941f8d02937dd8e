SPECIFICATION Spec
CONSTANTS
    Channels = {c, d}
    Relays = {r}
    None = None
    Plans <- MCPlans
INVARIANTS NothingForsaken
CHECK_DEADLOCK FALSE
