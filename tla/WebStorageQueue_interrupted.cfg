SPECIFICATION Spec
CONSTANTS
    Uses <- WithoutHoles
    NoOperation = NoOperation
    NoState = NoState
    MaxItems = 4
    MaxInterrupts = 2
INVARIANTS Durable
PROPERTY ImplementsDeque
CHECK_DEADLOCK FALSE
