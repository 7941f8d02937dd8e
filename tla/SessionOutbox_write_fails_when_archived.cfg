SPECIFICATION FairSpec
CONSTANTS
    Entries = {3}
    Self = {}
    Length <- MCLength
    Plans <- FailingWritePlans
    NoPacket = NoPacket
    NoRow = NoRow
    NoSession = NoSession
PROPERTIES EveryIntentSettles
CHECK_DEADLOCK FALSE
