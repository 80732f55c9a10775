CONSTANTS
    NumberRange = 8
    Channels = {0}
    LowestPriority = 0
    Traffic <- OrderedOnly
    MaxMessages = 2
    SendLimit = 3
    WindowLimit = 4
    Movers = {"receiver"}
    MaxHandovers = 1
SPECIFICATION FairSpecH
CHECK_DEADLOCK FALSE
PROPERTY OrderedArrives
