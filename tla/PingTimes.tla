----------------------------- MODULE PingTimes -----------------------------
(***************************************************************************)
(* pingAndClockDifferential of a remote system (RakNet/src/RakPeer.cpp): a *)
(* ring of the last round trips and of how far the other clock is, written *)
(* when a pong arrives and read by whoever asks for a ping or shifts a     *)
(* timestamp.                                                              *)
(***************************************************************************)
EXTENDS Integers, Sequences, FiniteSets, FiniteSetsExt, SequencesExt

CONSTANTS
    PING_TIMES_ARRAY_SIZE,
    NoPing,     \* 65535, of an entry not written
    Spike,      \* 1200: no ping above it is stored
    SendTimes,  \* times pings are sent at
    Times       \* times pongs are sent and received at

VARIABLES
    system,     \* the ring, pingAndClockDifferentialWriteIndex, lowestPing
    pongs       \* history: the last pongs stored, as many as the ring holds,
                \* and the lowest ping of all

vars == << system, pongs >>

Unwritten == [ pingTime |-> NoPing, clockDifferential |-> 0 ]
Fresh == [ ring |-> [ i \in 0 .. PING_TIMES_ARRAY_SIZE - 1 |-> Unwritten ],
           writeIndex |-> 0, lowestPing |-> NoPing ]

Init == system = Fresh /\ pongs = [ last |-> << >>, lowest |-> NoPing ]

\* AssignPlayerIDToRemoteSystemList: the slot is for another system.
Assign == system' = Fresh /\ pongs' = [ last |-> << >>, lowest |-> NoPing ]

Lower(a, b) == IF a = NoPing \/ b < a THEN b ELSE a

LastOf(s) == SubSeq(s, Len(s) - Min({ Len(s), PING_TIMES_ARRAY_SIZE }) + 1, Len(s))

\* ID_CONNECTED_PONG.  What the code calls the last ping is the oldest of the
\* ring, the one it is about to overwrite.
ConnectedPong(sendPingTime, sendPongTime, timeMS) ==
    LET ping == IF timeMS > sendPingTime THEN timeMS - sendPingTime ELSE 0
        lastPing == system.ring[system.writeIndex].pingTime
        entry == [ pingTime |-> ping,
                   clockDifferential |-> sendPongTime - ((timeMS + sendPingTime) \div 2) ]
    IN  /\ lastPing <= 0 \/ (ping < lastPing * 3 /\ ping < Spike)
        /\ system' = [ ring |-> [ system.ring EXCEPT ![system.writeIndex] = entry ],
                       writeIndex |-> (system.writeIndex + 1) % PING_TIMES_ARRAY_SIZE,
                       lowestPing |-> Lower(system.lowestPing, ping) ]
        /\ pongs' = [ last |-> LastOf(Append(pongs.last, entry)),
                      lowest |-> Lower(pongs.lowest, ping) ]

Next ==
    \/ Assign
    \/ \E sendPingTime \in SendTimes : \E sendPongTime, timeMS \in Times :
        ConnectedPong(sendPingTime, sendPongTime, timeMS)

-----------------------------------------------------------------------------
\* Readings stop at the first entry not written.
Written == { i \in DOMAIN system.ring :
               \A j \in 0 .. i : system.ring[j].pingTime # NoPing }

GetAveragePing ==
    IF Written = {} THEN -1
    ELSE MapThenSumSet(LAMBDA i : system.ring[i].pingTime, Written) \div Cardinality(Written)

GetLastPing ==
    system.ring[IF system.writeIndex = 0 THEN PING_TIMES_ARRAY_SIZE - 1
                ELSE system.writeIndex - 1].pingTime

GetLowestPing == system.lowestPing

\* The clock differential of the first entry with the lowest ping.
GetBestClockDifferential ==
    LET best == { i \in Written : \A j \in Written : system.ring[i].pingTime <= system.ring[j].pingTime }
    IN  IF best = {} THEN 0 ELSE system.ring[Min(best)].clockDifferential

\* What is read is what the last pongs stored said, however often the ring has
\* been round: their average, the last of them, the lowest ping of all, and the
\* clock differential of one that took no longer than the others.
Faithful ==
    /\ GetAveragePing = IF pongs.last = << >> THEN -1
                        ELSE MapThenSumSet(LAMBDA i : pongs.last[i].pingTime, DOMAIN pongs.last) \div Len(pongs.last)
    /\ GetLastPing = IF pongs.last = << >> THEN NoPing ELSE Last(pongs.last).pingTime
    /\ GetLowestPing = pongs.lowest
    /\ \/ pongs.last = << >> /\ GetBestClockDifferential = 0
       \/ \E i \in DOMAIN pongs.last :
            /\ \A j \in DOMAIN pongs.last : pongs.last[i].pingTime <= pongs.last[j].pingTime
            /\ GetBestClockDifferential = pongs.last[i].clockDifferential

\* Entries are written from the first on: a reading misses none.
WellFormed == Written = { i \in DOMAIN system.ring : system.ring[i].pingTime # NoPing }
=============================================================================
