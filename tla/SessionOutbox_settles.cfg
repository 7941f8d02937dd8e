SPECIFICATION FairSpec
CONSTANTS
    Entries = {3}
    Self = {}
    Length <- MCLength
    Plans <- SettlingPlans
    NoPacket = NoPacket
    NoRow = NoRow
    NoSession = NoSession
PROPERTIES EveryIntentSettles
CHECK_DEADLOCK FALSE
