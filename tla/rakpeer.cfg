CONSTANTS
    MaxRequests = 6
    InboxSize = 2
SPECIFICATION Spec
CHECK_DEADLOCK FALSE
INVARIANTS TypeOK CleansUpAlone SessionMeetsItsIndexes SessionIsHandedOver OneOutcome
PROPERTIES ConnectEnds GameGetsIndexes
