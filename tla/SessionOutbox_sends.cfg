SPECIFICATION Spec
CONSTANTS
    Entries = {1, 2, 3}
    Self = {1}
    Length <- MCLength
    Plans <- SafetyPlans
    NoPacket = NoPacket
    NoRow = NoRow
    NoSession = NoSession
INVARIANTS SeedRecoverable OutboxHonest
PROPERTIES IntentsKept
CHECK_DEADLOCK FALSE
