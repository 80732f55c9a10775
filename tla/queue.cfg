CONSTANTS
    MaxPackets = 4
    MinimumListSize = 3
SPECIFICATION Spec
CHECK_DEADLOCK FALSE
INVARIANTS TypeOK AssertionsHold
PROPERTIES ImplementsFifo EveryPacketEnds DisconnectReturns
