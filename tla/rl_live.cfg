CONSTANTS
    NumberRange = 8
    Channels = {0}
    LowestPriority = 1
    Traffic <- StreamTraffic
    MaxMessages = 3
    SendLimit = 2
    WindowLimit = 4
SPECIFICATION FairSpec
CHECK_DEADLOCK FALSE
PROPERTIES ReliableArrives OrderedArrives ResendsEnd LossIsNoticed
