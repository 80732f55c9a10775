CONSTANTS
    NumberRange = 8
    Channels = {0}
    LowestPriority = 0
    Traffic <- AllStreams
    MaxMessages = 3
    SendLimit = 2
    WindowLimit = 4
    Movers = {"sender", "receiver"}
    MaxHandovers = 1
SPECIFICATION SpecH
CHECK_DEADLOCK FALSE
INVARIANTS OrderedUntilWrap SequencedForward RepeatsAfterHandover
