SPECIFICATION Spec
CONSTANTS
    Entries = {2}
    Self = {}
    Length <- MCLength
    Plans <- ClosePlans
    NoPacket = NoPacket
    NoRow = NoRow
    NoSession = NoSession
INVARIANTS SeedRecoverable
CHECK_DEADLOCK FALSE
