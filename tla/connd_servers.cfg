CONSTANTS
    Servers = {"A", "B"}
    Daemons = {d1, d2}
    NoDaemon = NoDaemon
    MaxSessions = 2
    MaxMessages = 2
    Kills = 0
    SlowStart = FALSE
SPECIFICATION Spec
SYMMETRY AnyDaemon
CHECK_DEADLOCK FALSE
INVARIANTS TypeOK DumpHasDaemon StateFitsSession Accounted
PROPERTY SessionIsFifo
