CONSTANTS
    Servers = {"A"}
    Daemons = {d1, d2}
    NoDaemon = NoDaemon
    MaxSessions = 1
    MaxMessages = 1
    Kills = 0
    SlowStart = FALSE
SPECIFICATION FairSpec
CHECK_DEADLOCK FALSE
PROPERTIES DaemonEnds GameIsAnswered
