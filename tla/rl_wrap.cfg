CONSTANTS
    NumberRange = 7
    Channels = {0}
    LowestPriority = 0
    Traffic <- Streams
    MaxMessages = 8
    SendLimit = 3
    WindowLimit = 3
SPECIFICATION OneStreamSpec
CHECK_DEADLOCK FALSE
INVARIANTS AckedIsAccepted OutputOnce OrderedInOrder
PROPERTY ImplementsDelivery

