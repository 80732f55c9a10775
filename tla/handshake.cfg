CONSTANTS
    MaxRequests = 3
    ServerAnswers = {"COOKIE", "REPLY", "ATTEMPT_FAILED"}
    OwnRpcs = {"Spawn", "RPC"}
    InboxSize = 1
    MaxCommands = 1
SPECIFICATION Spec
CHECK_DEADLOCK FALSE
INVARIANTS TypeOK HandshakeStaysHere RestoredIsConnected
PROPERTIES SessionWaitsForIndexes HandshakeEnds
