---------------------------- MODULE PacketQueue ----------------------------
(***************************************************************************)
(* The lock-free queue through which the network thread of a RakPeer hands *)
(* packets to its user (RakNet/include/RakNet/SingleProducerConsumer.h),   *)
(* with the three threads of the daemon that use it: the network thread    *)
(* (AddPacketToProducer), the main thread (ReceiveIgnoreRPC) and the       *)
(* daemon thread, which drains and clears the queue in Disconnect.         *)
(*                                                                         *)
(* A step makes at most one access to what another thread may be using.    *)
(* Nodes are numbered in the order they are allocated; what the code       *)
(* leaves uninitialized in a new node is chosen freely.                    *)
(*                                                                         *)
(* The queue allows one reader.  A state where a second thread is inside   *)
(* the reading functions, or in Clear, is Misused: nothing is said of what *)
(* happens after it, and no step leaves it.                                *)
(***************************************************************************)
EXTENDS Integers, Sequences

CONSTANTS
    MaxPackets,      \* bound: packets the network thread produces
    MinimumListSize  \* nodes preallocated, and left by Clear (8)

ASSUME QueueAssumption ==
    /\ MaxPackets \in Nat
    /\ MinimumListSize \in Nat /\ MinimumListSize >= 3

VARIABLES
    \* the ring
    next, readyToRead, object,   \* per node
    readAheadPointer, readPointer, writeAheadPointer, writePointer,
    \* the network thread
    writing,         \* where it is in AddPacketToProducer
    packets,         \* packets allocated so far: the last is being added
    endThreads, isMainLoopThreadActive,
    \* the readers
    reading,         \* where each is
    last,            \* the node ReadLock gave each
    packet,          \* the packet each has taken out
    packetPool,
    returned,        \* history: packets handed to the caller of Receive
    freed,           \* history: packets deallocated by Disconnect
    stop             \* the flag that ends the main loop

ring    == << next, readyToRead, object >>
reader  == << readAheadPointer, readPointer >>
writer  == << writeAheadPointer, writePointer, writing, packets >>
thread  == << endThreads, isMainLoopThreadActive >>
ends    == << packetPool, returned, freed >>
locals  == << reading, last, packet >>
vars    == << ring, reader, writer, thread, locals, ends, stop >>

Readers  == { "main", "daemon" }
Nodes    == 1..Len(next)
NoPacket == 0
NoNode   == 0

\* A thread inside ReadLock or between it and the end of ReadUnlock.
InLock == { "testReady", "take", "fetch", "unready", "release" }

Misused ==
    \/ reading["main"] \in InLock /\ reading["daemon"] \in InLock \cup { "clear" }
    \/ reading["main"] = "pop" /\ reading["daemon"] = "pool"

Init ==
    /\ next = [n \in 1..MinimumListSize |-> (n % MinimumListSize) + 1]
    /\ readyToRead \in [1..MinimumListSize -> BOOLEAN]
    /\ object = [n \in 1..MinimumListSize |-> NoPacket]
    /\ readAheadPointer = 1
    /\ readPointer = 1
    /\ writeAheadPointer = 1
    /\ writePointer = 1
    /\ writing = "idle"
    /\ packets = 0
    /\ endThreads = FALSE
    /\ isMainLoopThreadActive = TRUE
    /\ reading = [r \in Readers |-> IF r = "main" THEN "loop" ELSE "accept"]
    /\ last = [r \in Readers |-> NoNode]
    /\ packet = [r \in Readers |-> NoPacket]
    /\ packetPool = << >>
    /\ returned = << >>
    /\ freed = {}
    /\ stop = FALSE

-----------------------------------------------------------------------------
(* The network thread.                                                     *)

\* Mutant of Add: the ring is never found full.
AddUnchecked ==
    /\ writing = "idle"
    /\ isMainLoopThreadActive
    /\ packets < MaxPackets
    /\ packets' = packets + 1
    /\ writing' = "testNext"
    /\ UNCHANGED << ring, reader, writeAheadPointer, writePointer, thread, locals, ends, stop >>

\* The network thread has a packet for the user, and tests writeAheadPointer->next.
Add ==
    /\ writing = "idle"
    /\ isMainLoopThreadActive
    /\ packets < MaxPackets
    /\ packets' = packets + 1
    /\ writing' = IF next[writeAheadPointer] = readPointer THEN "insert" ELSE "testNext"
    /\ UNCHANGED << ring, reader, writeAheadPointer, writePointer, thread, locals, ends, stop >>

TestNext ==
    /\ writing = "testNext"
    /\ writing' = IF readyToRead[next[writeAheadPointer]] THEN "insert" ELSE "advance"
    /\ UNCHANGED << ring, reader, writeAheadPointer, writePointer, packets,
                    thread, locals, ends, stop >>

\* The ring grows by a node, whose readyToRead nobody sets.
Insert ==
    /\ writing = "insert"
    /\ \E garbage \in BOOLEAN : readyToRead' = Append(readyToRead, garbage)
    /\ next' = Append([next EXCEPT ![writeAheadPointer] = Len(next) + 1],
                      next[writeAheadPointer])
    /\ object' = Append(object, NoPacket)
    /\ writing' = "advance"
    /\ UNCHANGED << reader, writeAheadPointer, writePointer, packets,
                    thread, locals, ends, stop >>

\* WriteLock returns the node, and the packet is stored in it.
Store ==
    /\ writing = "advance"
    /\ writeAheadPointer' = next[writeAheadPointer]
    /\ object' = [object EXCEPT ![writeAheadPointer] = packets]
    /\ writing' = "ready"
    /\ UNCHANGED << next, readyToRead, reader, writePointer, packets,
                    thread, locals, ends, stop >>

\* Mutant of Ready: readyToRead keeps the value it has.
ReadyUnset ==
    /\ writing = "ready"
    /\ writing' = "publish"
    /\ UNCHANGED << ring, reader, writeAheadPointer, writePointer, packets,
                    thread, locals, ends, stop >>

Ready ==
    /\ writing = "ready"
    /\ readyToRead' = [readyToRead EXCEPT ![writePointer] = TRUE]
    /\ writing' = "publish"
    /\ UNCHANGED << next, object, reader, writeAheadPointer, writePointer, packets,
                    thread, locals, ends, stop >>

Publish ==
    /\ writing = "publish"
    /\ writePointer' = next[writePointer]
    /\ writing' = "idle"
    /\ UNCHANGED << ring, reader, writeAheadPointer, packets, thread, locals, ends, stop >>

\* RunUpdateCycle sees endThreads, and UpdateNetworkLoop returns.
ThreadEnds ==
    /\ writing = "idle"
    /\ endThreads
    /\ isMainLoopThreadActive
    /\ isMainLoopThreadActive' = FALSE
    /\ UNCHANGED << ring, reader, writer, endThreads, locals, ends, stop >>

-----------------------------------------------------------------------------
(* The two readers: r is the thread.                                       *)

\* Receive puts what it read before into the pool once ReadLock has returned.
PushHeld(r) ==
    packetPool' = IF r = "main" /\ packet[r] # NoPacket
                  THEN Append(packetPool, packet[r]) ELSE packetPool

\* ReadLock returns 0.
NothingToRead(r) ==
    /\ reading' = [reading EXCEPT ![r] = IF r = "main" THEN "pop" ELSE "clear"]
    /\ PushHeld(r)
    /\ packet' = [packet EXCEPT ![r] = NoPacket]
    /\ UNCHANGED << ring, reader, writer, thread, last, returned, freed, stop >>

\* Mutant of TestWrite: only readyToRead is looked at.
TestWriteSkipped(r) ==
    /\ reading[r] = "lock"
    /\ reading' = [reading EXCEPT ![r] = "testReady"]
    /\ UNCHANGED << ring, reader, writer, thread, last, packet, ends, stop >>

TestWrite(r) ==
    /\ reading[r] = "lock"
    /\ \/ /\ readAheadPointer = writePointer
          /\ NothingToRead(r)
       \/ /\ readAheadPointer # writePointer
          /\ reading' = [reading EXCEPT ![r] = "testReady"]
          /\ UNCHANGED << ring, reader, writer, thread, last, packet, ends, stop >>

TestReady(r) ==
    /\ reading[r] = "testReady"
    /\ IF readyToRead[readAheadPointer]
       THEN /\ reading' = [reading EXCEPT ![r] = "take"]
            /\ UNCHANGED << ring, reader, writer, thread, last, packet, ends, stop >>
       ELSE NothingToRead(r)

Take(r) ==
    /\ reading[r] = "take"
    /\ last' = [last EXCEPT ![r] = readAheadPointer]
    /\ readAheadPointer' = next[readAheadPointer]
    /\ PushHeld(r)
    /\ packet' = [packet EXCEPT ![r] = NoPacket]
    /\ reading' = [reading EXCEPT ![r] = "fetch"]
    /\ UNCHANGED << ring, readPointer, writer, thread, returned, freed, stop >>

\* Receive keeps the packet; Disconnect deallocates it.
Fetch(r) ==
    /\ reading[r] = "fetch"
    /\ IF r = "main"
       THEN /\ packet' = [packet EXCEPT ![r] = object[last[r]]]
            /\ UNCHANGED freed
       ELSE /\ freed' = freed \cup { object[last[r]] }
            /\ UNCHANGED packet
    /\ last' = [last EXCEPT ![r] = NoNode]
    /\ reading' = [reading EXCEPT ![r] = "unready"]
    /\ UNCHANGED << ring, reader, writer, thread, packetPool, returned, stop >>

Unready(r) ==
    /\ reading[r] = "unready"
    /\ readyToRead' = [readyToRead EXCEPT ![readPointer] = FALSE]
    /\ reading' = [reading EXCEPT ![r] = "release"]
    /\ UNCHANGED << next, object, reader, writer, thread, last, packet, ends, stop >>

Release(r) ==
    /\ reading[r] = "release"
    /\ readPointer' = next[readPointer]
    /\ reading' = [reading EXCEPT ![r] = "lock"]
    /\ UNCHANGED << ring, readAheadPointer, writer, thread, last, packet, ends, stop >>

-----------------------------------------------------------------------------
(* The main thread: while (!stop) { while (Receive()) ... }                *)

Receive ==
    /\ reading["main"] = "loop"
    /\ ~stop
    /\ ~endThreads
    /\ reading' = [reading EXCEPT !["main"] = "lock"]
    /\ UNCHANGED << ring, reader, writer, thread, last, packet, ends, stop >>

\* Receive hands out the oldest packet of the pool, or returns 0; it is called
\* again after a packet, and the main loop looks at stop after a 0.
Pop ==
    /\ reading["main"] = "pop"
    /\ IF packetPool = << >>
       THEN /\ reading' = [reading EXCEPT !["main"] = "loop"]
            /\ UNCHANGED << packetPool, returned >>
       ELSE /\ returned' = Append(returned, Head(packetPool))
            /\ packetPool' = Tail(packetPool)
            /\ reading' = [reading EXCEPT !["main"] =
                              IF endThreads THEN "loop" ELSE "lock"]
    /\ UNCHANGED << ring, reader, writer, thread, last, packet, freed, stop >>

LeaveLoop ==
    /\ reading["main"] = "loop"
    /\ stop
    /\ reading' = [reading EXCEPT !["main"] = "left"]
    /\ UNCHANGED << ring, reader, writer, thread, last, packet, ends, stop >>

-----------------------------------------------------------------------------
(* The daemon thread: a game has connected, and Disconnect runs.           *)

Accept ==
    /\ reading["daemon"] = "accept"
    /\ stop' = TRUE
    /\ reading' = [reading EXCEPT !["daemon"] = "disconnect"]
    /\ UNCHANGED << ring, reader, writer, thread, last, packet, ends >>

\* Mutant of Disconnect: the network thread is not told to end.
DisconnectQuiet ==
    /\ reading["daemon"] = "disconnect"
    /\ reading' = [reading EXCEPT !["daemon"] = "wait"]
    /\ UNCHANGED << ring, reader, writer, thread, last, packet, ends, stop >>

Disconnect ==
    /\ reading["daemon"] = "disconnect"
    /\ endThreads' = TRUE
    /\ reading' = [reading EXCEPT !["daemon"] = "wait"]
    /\ UNCHANGED << ring, reader, writer, isMainLoopThreadActive, last, packet, ends, stop >>

\* Mutant of WaitForThread: it does not wait.
WaitForNothing ==
    /\ reading["daemon"] = "wait"
    /\ reading' = [reading EXCEPT !["daemon"] = "lock"]
    /\ UNCHANGED << ring, reader, writer, thread, last, packet, ends, stop >>

WaitForThread ==
    /\ reading["daemon"] = "wait"
    /\ ~isMainLoopThreadActive
    /\ reading' = [reading EXCEPT !["daemon"] = "lock"]
    /\ UNCHANGED << ring, reader, writer, thread, last, packet, ends, stop >>

\* The node n links after node s.
After(s, n) == LET at[k \in 0..n] == IF k = 0 THEN s ELSE next[at[k - 1]] IN at[n]

\* How many nodes follow s before t.
Distance(s, t) ==
    CHOOSE n \in 0..Len(next) :
        After(s, n) = t /\ \A k \in 0..(n - 1) : After(s, k) # t

RingSize == Distance(next[readPointer], readPointer) + 1

\* Clear unlinks what exceeds MinimumListSize, and the ring is empty.
Clear ==
    /\ reading["daemon"] = "clear"
    /\ LET surplus == IF RingSize > MinimumListSize THEN RingSize - MinimumListSize ELSE 0
       IN  next' = [next EXCEPT ![readPointer] = After(readPointer, surplus + 1)]
    /\ writePointer' = readPointer
    /\ writeAheadPointer' = readPointer
    /\ readAheadPointer' = readPointer
    /\ reading' = [reading EXCEPT !["daemon"] = "pool"]
    /\ UNCHANGED << readyToRead, object, readPointer, writing, packets,
                    thread, last, packet, ends, stop >>

FreePool ==
    /\ reading["daemon"] = "pool"
    /\ freed' = freed \cup { packetPool[n] : n \in 1..Len(packetPool) }
    /\ packetPool' = << >>
    /\ reading' = [reading EXCEPT !["daemon"] = "returned"]
    /\ UNCHANGED << ring, reader, writer, thread, last, packet, returned, stop >>

NetworkStep == Add \/ TestNext \/ Insert \/ Store \/ Ready \/ Publish \/ ThreadEnds

Read(r) == TestWrite(r) \/ TestReady(r) \/ Take(r) \/ Fetch(r) \/ Unready(r) \/ Release(r)

MainStep   == Read("main") \/ Receive \/ Pop \/ LeaveLoop
DaemonStep == Read("daemon") \/ Disconnect \/ WaitForThread \/ Clear \/ FreePool

Next == ~Misused /\ (NetworkStep \/ MainStep \/ Accept \/ DaemonStep)

\* The three threads keep running; no game need ever connect.
Spec == Init /\ [][Next]_vars
        /\ WF_vars(~Misused /\ NetworkStep)
        /\ WF_vars(~Misused /\ MainStep)
        /\ WF_vars(~Misused /\ DaemonStep)

-----------------------------------------------------------------------------
(* Properties.                                                             *)

\* The type invariant.
TypeOK ==
    /\ next \in [Nodes -> Nodes]
    /\ readyToRead \in [Nodes -> BOOLEAN]
    /\ object \in [Nodes -> 0..MaxPackets]
    /\ { readAheadPointer, readPointer, writeAheadPointer, writePointer } \subseteq Nodes
    /\ writing \in { "idle", "testNext", "insert", "advance", "ready", "publish" }
    /\ packets \in 0..MaxPackets
    /\ endThreads \in BOOLEAN /\ isMainLoopThreadActive \in BOOLEAN /\ stop \in BOOLEAN
    /\ reading["main"] \in InLock \cup { "loop", "lock", "pop", "left" }
    /\ reading["daemon"] \in InLock \cup { "accept", "disconnect", "wait", "lock",
                                           "clear", "pool", "returned" }
    /\ last \in [Readers -> Nodes \cup { NoNode }]
    /\ packet \in [Readers -> 0..MaxPackets]
    /\ packetPool \in Seq(1..MaxPackets)
    /\ returned \in Seq(1..MaxPackets)
    /\ freed \subseteq 1..MaxPackets

\* The assertions of WriteUnlock and ReadUnlock, which a release build drops
\* (SingleProducerConsumer.h:165-168, 203-206): the writer has a free node
\* ahead of it, and a reader frees only what was written and taken.
AssertionsHold ==
    /\ writing = "ready" => /\ next[writePointer] # readPointer
                            /\ writePointer # writeAheadPointer
    /\ \A r \in Readers : ~Misused /\ reading[r] = "unready" =>
          /\ readAheadPointer # readPointer
          /\ readPointer # writePointer

\* The packets between readPointer and writePointer, in the pool, or in hand.
InRing == { object[After(readPointer, k)] : k \in 0..(Distance(readPointer, writePointer) - 1) }
Pooled == { packetPool[n] : n \in 1..Len(packetPool) }
InHand == { packet[r] : r \in Readers } \ { NoPacket }
Returned == { returned[n] : n \in 1..Len(returned) }

Fifo == INSTANCE PacketFifo
            WITH pending <- ((InRing \cup Pooled \cup InHand) \ Returned) \ freed

\* The queue and the pool implement the queue a RakPeer promises: what the
\* network thread adds comes out of Receive in order or is freed by Disconnect,
\* once, whatever the steps of the threads interleave, up to a misuse.
ImplementsFifo == Fifo!FifoSpec

\* Every packet is handed out or freed at last, and Disconnect returns, unless
\* the queue is misused (RakPeer.cpp:649-691).
EveryPacketEnds ==
    \A p \in 1..MaxPackets : packets >= p ~> (p \in Returned \cup freed \/ Misused)

DisconnectReturns == stop ~> (reading["daemon"] = "returned" \/ Misused)

=============================================================================
