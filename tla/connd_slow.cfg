CONSTANTS
    Servers = {"A"}
    Daemons = {d1, d2}
    NoDaemon = NoDaemon
    MaxSessions = 2
    MaxMessages = 1
    Kills = 1
    SlowStart = TRUE
SPECIFICATION Spec
SYMMETRY AnyDaemon
CHECK_DEADLOCK FALSE
INVARIANTS OneSpeaker HandledInOrder
