-------------------------- MODULE ReliabilityLayer --------------------------
(***************************************************************************)
(* One direction of a RakNet connection (RakNet/src/ReliabilityLayer.cpp): *)
(* the sending half of one peer's ReliabilityLayer, the receiving half of  *)
(* the other peer's, and the UDP network between them.  A connection is    *)
(* two such directions; they share datagrams but no state.                 *)
(*                                                                         *)
(* A message is named by its position in the history of calls to Send,     *)
(* counted from 0.  The counters of the code are 16-bit and wrap; here     *)
(* they count on, and every test the code makes on them is made modulo     *)
(* NumberRange, so that what the code cannot tell apart the model cannot   *)
(* either.  One datagram carries one message or one set of                 *)
(* acknowledgements: coalescing several only makes their fates equal.      *)
(*                                                                         *)
(* Clocks are abstracted: a packet on the resend queue may be due at any   *)
(* time, and a hole of the receive window may run out at any time.         *)
(***************************************************************************)
EXTENDS Integers, Sequences

CONSTANTS
    NumberRange,   \* values of MessageNumberType and OrderingIndexType (65536)
    Channels,      \* ordering channels in use (of NUMBER_OF_ORDERED_STREAMS)
    LowestPriority,\* priorities are 0..LowestPriority, 0 the most urgent
    Traffic,       \* the kinds of message the application sends
    MaxMessages,   \* bound: calls to Send
    SendLimit,     \* bound on the sending rate: messages sent while one is in use
    WindowLimit    \* bound on the sending rate: messages sent past the base index

Reliability == { "UNRELIABLE", "UNRELIABLE_SEQUENCED", "RELIABLE",
                 "RELIABLE_ORDERED", "RELIABLE_SEQUENCED" }

Priorities == 0..LowestPriority

Kinds == [reliability : Reliability, channel : Channels, priority : Priorities]

\* The largest distance from the base index that is not taken for a duplicate.
Half == (NumberRange - 1) - ((NumberRange - 1) \div 2)

ASSUME ConstantsAssumption ==
    /\ NumberRange \in Nat /\ NumberRange >= 4
    /\ LowestPriority \in Nat
    /\ Traffic \subseteq Kinds
    /\ MaxMessages \in Nat
    /\ SendLimit \in 1..(NumberRange - 1)
    /\ WindowLimit \in 1..(NumberRange - 1)

VARIABLES
    \* the sending half
    sent,            \* history of Send: messageNumber is Len(sent)
    waitingForOrderedPacketWriteIndex,
    waitingForSequencedPacketWriteIndex,
    sendPacketSet,   \* a queue of messages for each priority
    resendQueue,     \* the queue of packets to resend, holes included
    resendList,      \* reliable messages sent and not acknowledged
    ackTimerRuns,    \* lastAckTime # 0
    deadConnection,
    \* the network
    wire,            \* messages in datagrams that may still arrive
    ackWire,         \* acknowledgements in datagrams that may still arrive
    \* the receiving half
    receivedPacketsBaseIndex,
    hasReceivedPacketQueue,
    acknowlegements,
    waitingForOrderedPacketReadIndex,
    waitingForSequencedPacketReadIndex,
    orderingList,    \* per channel, ordered messages that came early
    outputQueue,     \* history of the messages handed to RakPeer
    \* histories that no action reads
    accepted,        \* messages that passed the duplicate check
    gaveUp           \* message numbers the window stopped waiting for

sender   == << sent, waitingForOrderedPacketWriteIndex,
               waitingForSequencedPacketWriteIndex, sendPacketSet,
               resendQueue, resendList, ackTimerRuns, deadConnection >>
window   == << receivedPacketsBaseIndex, hasReceivedPacketQueue, accepted, gaveUp >>
streams  == << waitingForOrderedPacketReadIndex,
               waitingForSequencedPacketReadIndex, orderingList, outputQueue >>
receiver == << window, acknowlegements, streams >>
vars     == << sender, wire, ackWire, receiver >>

-----------------------------------------------------------------------------
(* Messages.                                                               *)

messageNumber == Len(sent)
Ids           == 0..(messageNumber - 1)
Message(i)    == sent[i + 1]

Reliable(i)  == Message(i).reliability \in { "RELIABLE", "RELIABLE_ORDERED",
                                             "RELIABLE_SEQUENCED" }
Ordered(i)   == Message(i).reliability = "RELIABLE_ORDERED"
Sequenced(i) == Message(i).reliability \in { "UNRELIABLE_SEQUENCED",
                                             "RELIABLE_SEQUENCED" }

QueuedIds == UNION { { sendPacketSet[p][n] : n \in 1..Len(sendPacketSet[p]) } :
                     p \in Priorities }

\* Every message of which something is still queued, unacknowledged or in flight.
InUse == QueuedIds \cup resendList \cup wire \cup acknowlegements \cup ackWire

\* What the comment on MessageNumberType asks of the application: not so many
\* messages per second that a number comes round while it is still in use.
RateAllows == /\ \A i \in InUse : messageNumber - i < SendLimit
              /\ messageNumber - receivedPacketsBaseIndex <= WindowLimit

-----------------------------------------------------------------------------
Init ==
    /\ sent = << >>
    /\ waitingForOrderedPacketWriteIndex = [c \in Channels |-> 0]
    /\ waitingForSequencedPacketWriteIndex = [c \in Channels |-> 0]
    /\ sendPacketSet = [p \in Priorities |-> << >>]
    /\ resendQueue = << >>
    /\ resendList = {}
    /\ ackTimerRuns = FALSE
    /\ deadConnection = FALSE
    /\ wire = {}
    /\ ackWire = {}
    /\ receivedPacketsBaseIndex = 0
    /\ hasReceivedPacketQueue = << >>
    /\ acknowlegements = {}
    /\ waitingForOrderedPacketReadIndex = [c \in Channels |-> 0]
    /\ waitingForSequencedPacketReadIndex = [c \in Channels |-> 0]
    /\ orderingList = [c \in Channels |-> {}]
    /\ outputQueue = << >>
    /\ accepted = {}
    /\ gaveUp = {}

-----------------------------------------------------------------------------
(* The sending half.                                                       *)

\* The ordering index a new message of kind k takes, and the counter it advances.
OrderingIndex(k) ==
    CASE k.reliability = "RELIABLE_ORDERED" ->
            waitingForOrderedPacketWriteIndex[k.channel]
      [] k.reliability \in { "UNRELIABLE_SEQUENCED", "RELIABLE_SEQUENCED" } ->
            waitingForSequencedPacketWriteIndex[k.channel]
      [] OTHER -> 0

TakeOrderingIndex(k) ==
    /\ waitingForOrderedPacketWriteIndex' =
          IF k.reliability = "RELIABLE_ORDERED"
          THEN [waitingForOrderedPacketWriteIndex EXCEPT ![k.channel] = @ + 1]
          ELSE waitingForOrderedPacketWriteIndex
    /\ waitingForSequencedPacketWriteIndex' =
          IF k.reliability \in { "UNRELIABLE_SEQUENCED", "RELIABLE_SEQUENCED" }
          THEN [waitingForSequencedPacketWriteIndex EXCEPT ![k.channel] = @ + 1]
          ELSE waitingForSequencedPacketWriteIndex

Send(k) ==
    /\ messageNumber < MaxMessages
    /\ RateAllows
    /\ sent' = Append(sent, [reliability |-> k.reliability, channel |-> k.channel,
                             index |-> OrderingIndex(k)])
    /\ TakeOrderingIndex(k)
    /\ sendPacketSet' = [sendPacketSet EXCEPT ![k.priority] = Append(@, messageNumber)]
    /\ UNCHANGED << resendQueue, resendList, ackTimerRuns, deadConnection,
                    wire, ackWire, receiver >>

\* GenerateDatagram frees the holes at the head of resendQueue, packets that
\* were acknowledged, before it looks at the first that was not: there are n.
HolesAtHead(n) ==
    /\ \A m \in 1..n : resendQueue[m] \notin resendList
    /\ n < Len(resendQueue) => resendQueue[n + 1] \in resendList

\* What is left of a queue without its first n entries.
Without(q, n) == SubSeq(q, n + 1, Len(q))

\* Mutant of Resend: the packet is not put back at the tail of the queue.
ResendOnce ==
    /\ ~deadConnection
    /\ \E n \in 0..(Len(resendQueue) - 1) :
          /\ HolesAtHead(n)
          /\ wire' = wire \cup { resendQueue[n + 1] }
          /\ resendQueue' = Without(resendQueue, n + 1)
    /\ UNCHANGED << sent, waitingForOrderedPacketWriteIndex,
                    waitingForSequencedPacketWriteIndex, sendPacketSet,
                    resendList, ackTimerRuns, deadConnection, ackWire, receiver >>

\* The packet at the head of the resend queue is due: it goes out again and
\* moves to the tail.
Resend ==
    /\ ~deadConnection
    /\ \E n \in 0..(Len(resendQueue) - 1) :
          /\ HolesAtHead(n)
          /\ wire' = wire \cup { resendQueue[n + 1] }
          /\ resendQueue' = Append(Without(resendQueue, n + 1), resendQueue[n + 1])
    /\ UNCHANGED << sent, waitingForOrderedPacketWriteIndex,
                    waitingForSequencedPacketWriteIndex, sendPacketSet,
                    resendList, ackTimerRuns, deadConnection, ackWire, receiver >>

\* No packet is due: the first message of the most urgent queue goes out, and
\* is kept for resending if it is reliable.
Transmit ==
    /\ ~deadConnection
    /\ \E p \in Priorities, n \in 0..Len(resendQueue) :
          LET i == Head(sendPacketSet[p])
          IN  /\ sendPacketSet[p] # << >>
              /\ \A r \in Priorities : r < p => sendPacketSet[r] = << >>
              /\ HolesAtHead(n)
              /\ sendPacketSet' = [sendPacketSet EXCEPT ![p] = Tail(@)]
              /\ wire' = wire \cup { i }
              /\ IF Reliable(i)
                 THEN /\ resendList' = resendList \cup { i }
                      /\ resendQueue' = Append(Without(resendQueue, n), i)
                      /\ ackTimerRuns' = TRUE
                 ELSE /\ resendQueue' = Without(resendQueue, n)
                      /\ UNCHANGED << resendList, ackTimerRuns >>
    /\ UNCHANGED << sent, waitingForOrderedPacketWriteIndex,
                    waitingForSequencedPacketWriteIndex, deadConnection,
                    ackWire, receiver >>

\* Mutant of ReceiveAck: the timer is stopped with any packet, not with the last.
ReceiveAckTimerOff(a) ==
    /\ a \in ackWire
    /\ ackWire' = ackWire \ { a }
    /\ resendList' = { i \in resendList : i % NumberRange # a % NumberRange }
    /\ ackTimerRuns' = FALSE
    /\ UNCHANGED << sent, waitingForOrderedPacketWriteIndex,
                    waitingForSequencedPacketWriteIndex, sendPacketSet,
                    resendQueue, deadConnection, wire, receiver >>

\* An acknowledgement arrives: RemovePacketFromResendList finds the packet by
\* its number, and the acknowledgement timer stops with the last one.
ReceiveAck(a) ==
    /\ a \in ackWire
    /\ ackWire' = ackWire \ { a }
    /\ resendList' = { i \in resendList : i % NumberRange # a % NumberRange }
    /\ ackTimerRuns' = (resendList' # {})
    /\ UNCHANGED << sent, waitingForOrderedPacketWriteIndex,
                    waitingForSequencedPacketWriteIndex, sendPacketSet,
                    resendQueue, deadConnection, wire, receiver >>

\* timeoutTime has passed since the last acknowledgement.
GiveUpConnection ==
    /\ resendList # {}
    /\ ackTimerRuns
    /\ ~deadConnection
    /\ deadConnection' = TRUE
    /\ UNCHANGED << sent, waitingForOrderedPacketWriteIndex,
                    waitingForSequencedPacketWriteIndex, sendPacketSet,
                    resendQueue, resendList, ackTimerRuns, wire, ackWire, receiver >>

-----------------------------------------------------------------------------
(* The receive window.                                                     *)

\* Mutant of HoleCount: counted from the index after the base.
HoleCountPast(i) ==
    ((i % NumberRange) - ((receivedPacketsBaseIndex + 1) % NumberRange)) % NumberRange

\* (MessageNumberType)(internalPacket->messageNumber - receivedPacketsBaseIndex)
HoleCount(i) ==
    ((i % NumberRange) - (receivedPacketsBaseIndex % NumberRange)) % NumberRange

CountedPast(i) == HoleCount(i) > Half

\* Mutant of AlreadyGot: the last entry of the window is not looked at.
AlreadyGotShort(i) ==
    /\ HoleCount(i) # 0
    /\ HoleCount(i) < Len(hasReceivedPacketQueue) - 1
    /\ hasReceivedPacketQueue[HoleCount(i) + 1] = "got"

AlreadyGot(i) ==
    /\ HoleCount(i) # 0
    /\ HoleCount(i) < Len(hasReceivedPacketQueue)
    /\ hasReceivedPacketQueue[HoleCount(i) + 1] = "got"

IsDuplicate(i) == CountedPast(i) \/ AlreadyGot(i)

\* The window with message i entered, before expired holes are popped.
Entered(i) ==
    LET h == HoleCount(i)
        q == hasReceivedPacketQueue
    IN  IF h = 0 THEN (IF q = << >> THEN q ELSE Tail(q))
        ELSE IF h < Len(q) THEN [q EXCEPT ![h + 1] = "got"]
        ELSE [n \in 1..(h + 1) |-> IF n <= Len(q) THEN q[n]
                                   ELSE IF n <= h THEN "hole" ELSE "got"]

\* Closed(w, n): the first n entries of w, and not the next, are popped.
Closed(w, n) ==
    /\ \A m \in 1..n : w[m] # "hole"
    /\ n < Len(w) => w[n + 1] = "hole"

Accept(i) ==
    LET w == Entered(i)
        b == receivedPacketsBaseIndex + (IF HoleCount(i) = 0 THEN 1 ELSE 0)
    IN  \E n \in 0..Len(w) :
            /\ Closed(w, n)
            /\ receivedPacketsBaseIndex' = b + n
            /\ hasReceivedPacketQueue' = Without(w, n)
            /\ gaveUp' = gaveUp \cup { b + m - 1 : m \in { k \in 1..n : w[k] = "expired" } }
            /\ accepted' = accepted \cup { i }

\* Time passes: the holes opened first run out first.
HolesRunOut(n) ==
    /\ hasReceivedPacketQueue[n] = "hole"
    /\ hasReceivedPacketQueue' =
          [m \in 1..Len(hasReceivedPacketQueue) |->
              IF m <= n /\ hasReceivedPacketQueue[m] = "hole" THEN "expired"
              ELSE hasReceivedPacketQueue[m]]
    /\ UNCHANGED << sender, wire, ackWire, receivedPacketsBaseIndex, accepted,
                    gaveUp, acknowlegements, streams >>

-----------------------------------------------------------------------------
(* Sequenced and ordered streams.                                          *)

MaxIndex == NumberRange - 1

\* Mutant of IsOlderOrderedPacket: wrapping forgotten.
IsOlderUnwrapped(new, waiting) == new < waiting

\* IsOlderOrderedPacket on two indexes already reduced modulo NumberRange.
IsOlderOrderedPacket(new, waiting) ==
    IF waiting > MaxIndex \div 2
    THEN new >= waiting - (MaxIndex \div 2) + 1 /\ new < waiting
    ELSE \/ new >= (waiting - (MaxIndex \div 2 + 1)) % NumberRange
         \/ new < waiting

\* The early messages of channel c that carry index x.
Buffered(c, x) ==
    { j \in orderingList[c] : Message(j).index % NumberRange = x % NumberRange }

\* Mutants of IsRun: it starts one index late; nothing is released.
IsRunLate(run, n, c, x) == \A k \in 1..n : run[k] \in Buffered(c, x + k + 1)
IsRunNever(run, n, c, x) == n = 0

\* run: the early messages of channel c that can follow index x, one for each
\* of the next indexes, each the first that came with its index.
IsRun(run, n, c, x) ==
    /\ \A k \in 1..n : /\ run[k] \in Buffered(c, x + k)
                       /\ \A j \in Buffered(c, x + k) : run[k] <= j
    /\ n < NumberRange - 1 => Buffered(c, x + n + 1) = {}

PassUpSequenced(i) ==
    LET m == Message(i)
        waiting == waitingForSequencedPacketReadIndex[m.channel]
    IN  /\ Sequenced(i)
        /\ IF IsOlderOrderedPacket(m.index % NumberRange, waiting % NumberRange)
           THEN UNCHANGED << waitingForSequencedPacketReadIndex, outputQueue >>
           ELSE /\ waitingForSequencedPacketReadIndex' =
                      [waitingForSequencedPacketReadIndex EXCEPT ![m.channel] = m.index + 1]
                /\ outputQueue' = Append(outputQueue, i)
        /\ UNCHANGED << waitingForOrderedPacketReadIndex, orderingList >>

PassUpOrdered(i) ==
    LET c == Message(i).channel
        waiting == waitingForOrderedPacketReadIndex[c]
    IN  /\ Ordered(i)
        /\ IF Message(i).index % NumberRange = waiting % NumberRange
           THEN \E n \in 0..(NumberRange - 1) : \E run \in [1..n -> orderingList[c]] :
                  /\ IsRun(run, n, c, waiting)
                  /\ outputQueue' = Append(outputQueue, i) \o run
                  /\ waitingForOrderedPacketReadIndex' =
                        [waitingForOrderedPacketReadIndex EXCEPT ![c] = @ + n + 1]
                  /\ orderingList' =
                        [orderingList EXCEPT ![c] = @ \ { run[k] : k \in 1..n }]
           ELSE /\ orderingList' = [orderingList EXCEPT ![c] = @ \cup { i }]
                /\ UNCHANGED << waitingForOrderedPacketReadIndex, outputQueue >>
        /\ UNCHANGED waitingForSequencedPacketReadIndex

PassUpOther(i) ==
    /\ ~Sequenced(i) /\ ~Ordered(i)
    /\ outputQueue' = Append(outputQueue, i)
    /\ UNCHANGED << waitingForOrderedPacketReadIndex,
                    waitingForSequencedPacketReadIndex, orderingList >>

\* Mutant of Deliver: only what is no duplicate is acknowledged.
DeliverAckLate(i) ==
    /\ i \in wire
    /\ IF IsDuplicate(i)
       THEN UNCHANGED << window, streams, acknowlegements >>
       ELSE /\ acknowlegements' = IF Reliable(i) THEN acknowlegements \cup { i }
                                  ELSE acknowlegements
            /\ Accept(i)
            /\ PassUpSequenced(i) \/ PassUpOrdered(i) \/ PassUpOther(i)
    /\ UNCHANGED << sender, wire, ackWire >>

\* HandleSocketReceiveFromConnectedPlayer on a datagram with message i.
\* A reliable message is acknowledged before it is known not to be a duplicate.
Deliver(i) ==
    /\ i \in wire
    /\ acknowlegements' = IF Reliable(i) THEN acknowlegements \cup { i }
                          ELSE acknowlegements
    /\ IF IsDuplicate(i)
       THEN UNCHANGED << window, streams >>
       ELSE /\ Accept(i)
            /\ PassUpSequenced(i) \/ PassUpOrdered(i) \/ PassUpOther(i)
    /\ UNCHANGED << sender, wire, ackWire >>

\* A datagram takes the pending acknowledgements along; all of them fit.
SendAcks ==
    /\ acknowlegements # {}
    /\ ackWire' = ackWire \cup acknowlegements
    /\ acknowlegements' = {}
    /\ UNCHANGED << sender, wire, window, streams >>

-----------------------------------------------------------------------------
(* The network: a datagram in flight may arrive any number of times and in *)
(* any order until it is lost.                                             *)

Lose(i) ==
    /\ i \in wire
    /\ wire' = wire \ { i }
    /\ UNCHANGED << sender, ackWire, receiver >>

LoseAck(a) ==
    /\ a \in ackWire
    /\ ackWire' = ackWire \ { a }
    /\ UNCHANGED << sender, wire, receiver >>

Next ==
    \/ \E k \in Traffic : Send(k)
    \/ Resend
    \/ Transmit
    \/ \E a \in ackWire : ReceiveAck(a)
    \/ GiveUpConnection
    \/ \E i \in wire : Deliver(i)
    \/ SendAcks
    \/ \E n \in 1..Len(hasReceivedPacketQueue) : HolesRunOut(n)
    \/ \E i \in wire : Lose(i)
    \/ \E a \in ackWire : LoseAck(a)

Spec == Init /\ [][Next]_vars

\* The network thread of either peer keeps calling Update, so what stays due is sent.
Fairness == WF_vars(Resend) /\ WF_vars(Transmit) /\ WF_vars(SendAcks)

FairSpec == Spec /\ Fairness

\* Of the network: a datagram sent again and again is not lost for ever.
LinkIsFair == \A i \in 0..(MaxMessages - 1) : SF_vars(Deliver(i)) /\ SF_vars(ReceiveAck(i))

-----------------------------------------------------------------------------
(* Properties.                                                             *)

\* The type invariant: every variable has the shape its declaration gives it.
TypeOK ==
    /\ sent \in Seq([reliability : Reliability, channel : Channels, index : Nat])
    /\ waitingForOrderedPacketWriteIndex \in [Channels -> Nat]
    /\ waitingForSequencedPacketWriteIndex \in [Channels -> Nat]
    /\ sendPacketSet \in [Priorities -> Seq(Ids)]
    /\ resendQueue \in Seq(Ids)
    /\ resendList \subseteq Ids
    /\ ackTimerRuns \in BOOLEAN
    /\ deadConnection \in BOOLEAN
    /\ wire \subseteq Ids
    /\ ackWire \subseteq Ids
    /\ receivedPacketsBaseIndex \in Nat
    /\ hasReceivedPacketQueue \in Seq({ "got", "hole", "expired" })
    /\ acknowlegements \subseteq Ids
    /\ waitingForOrderedPacketReadIndex \in [Channels -> Nat]
    /\ waitingForSequencedPacketReadIndex \in [Channels -> Nat]
    /\ orderingList \in [Channels -> SUBSET Ids]
    /\ outputQueue \in Seq(Ids)
    /\ accepted \subseteq Ids
    /\ gaveUp \subseteq Nat

\* The sender forgets a reliable message only when the receiver has accepted
\* it, or has itself stopped waiting for its number: acknowledging before the
\* duplicate check (ReliabilityLayer.cpp:456) loses nothing else, even when the
\* numbers wrap.
AckedIsAccepted ==
    \A i \in Ids : Reliable(i) /\ i \notin QueuedIds \cup resendList
                    => i \in accepted \cup gaveUp

\* No message is handed up twice, however often its datagram arrives and
\* however late (the duplicate check, ReliabilityLayer.cpp:475-531).
OutputOnce ==
    \A m, n \in 1..Len(outputQueue) : outputQueue[m] = outputQueue[n] => m = n

\* The inductive invariant the last two follow from has these parts.
\* The bounds on the sending rate, as they are left by each step.
InUseIsRecent ==
    /\ \A i \in InUse : messageNumber - i <= SendLimit
    /\ messageNumber - receivedPacketsBaseIndex <= WindowLimit + 1

\* The window tells exactly which messages were accepted, its first entry is
\* always missing, and what lies under it was accepted or given up.
WindowIsExact ==
    LET b == receivedPacketsBaseIndex
        q == hasReceivedPacketQueue
    IN  /\ b + Len(q) <= messageNumber
        /\ \A k \in 1..Len(q) : q[k] = "got" <=> b + k - 1 \in accepted
        /\ Len(q) > 0 => q[1] # "got"
        /\ \A j \in 0..(b - 1) : j \in accepted \cup gaveUp
        /\ \A j \in accepted : j < b + Len(q)

\* Only what was accepted or given up is acknowledged.
AcksAreTrue == acknowlegements \cup ackWire \subseteq accepted \cup gaveUp

\* What is held or handed up was accepted, and is in one place only.
HeldOnce ==
    /\ \A n \in 1..Len(outputQueue) : outputQueue[n] \in accepted
    /\ \A c \in Channels : \A j \in orderingList[c] :
          /\ j \in accepted
          /\ Message(j).channel = c
          /\ \A n \in 1..Len(outputQueue) : outputQueue[n] # j

IInv == /\ TypeOK
        /\ InUseIsRecent
        /\ WindowIsExact
        /\ AcksAreTrue
        /\ AckedIsAccepted
        /\ HeldOnce
        /\ OutputOnce

HandedUp(i) == \E n \in 1..Len(outputQueue) : outputQueue[n] = i

\* The ordered messages of channel c.
OnOrdered(c) == { i \in Ids : Ordered(i) /\ Message(i).channel = c }

\* Of channel c a message is missing for good, and the sender has gone once round
\* the ordering indexes since: the message that has its index now passes for it.
Overtaken(c) ==
    \E i \in OnOrdered(c) :
        /\ ~HandedUp(i) /\ i \notin orderingList[c]
        /\ Message(i).index + NumberRange < waitingForOrderedPacketWriteIndex[c]

\* On each channel ordered messages are handed up in the order of Send, none
\* left out: with each one, all that were sent before it.  This ends with a
\* message whose number the receiver gave up and for which it waits so long that
\* another takes its place (ReliabilityLayer.cpp:666 compares 16 bits).
OrderedInOrder ==
    \A n \in 1..Len(outputQueue) :
        LET i == outputQueue[n]
        IN  Ordered(i) /\ ~Overtaken(Message(i).channel)
            => \A j \in 0..(i - 1) :
                  Ordered(j) /\ Message(j).channel = Message(i).channel
                  => \E m \in 1..(n - 1) : outputQueue[m] = j

\* On each channel the sequenced messages handed up only get newer.
SequencedForward ==
    \A m, n \in 1..Len(outputQueue) :
        /\ m < n
        /\ Sequenced(outputQueue[m]) /\ Sequenced(outputQueue[n])
        /\ Message(outputQueue[m]).channel = Message(outputQueue[n]).channel
        => Message(outputQueue[m]).index < Message(outputQueue[n]).index

\* What LossIsNoticed rests on: whenever an acknowledgement is outstanding the timer
\* that detects a lost connection is running (InsertPacketIntoResendList and the ack
\* loop, which stops the timer with the last packet).
TimerGuardsResends == resendList # {} <=> ackTimerRuns

\* Every message handed to Send as reliable is accepted at last, over a link that is
\* fair, unless the receiver gives up its number or the sender gives up the connection.
ReliableArrives ==
    LinkIsFair => \A i \in 0..(MaxMessages - 1) :
        (i \in Ids /\ Reliable(i))
            ~> (i \in accepted \cup gaveUp \/ deadConnection)

\* What PacketPriority.h:38 says of RELIABLE_ORDERED: "This message is reliable
\* and will arrive in the order you sent it."  It is handed up at last, over a link that
\* is fair, unless the receiver gives up a number or the sender gives up the connection.
OrderedArrives ==
    LinkIsFair => \A i \in 0..(MaxMessages - 1) :
        (i \in Ids /\ Ordered(i))
            ~> \/ \E n \in 1..Len(outputQueue) : outputQueue[n] = i
               \/ gaveUp # {} \/ deadConnection

\* Over a link that is fair every packet on the resend list leaves it, unless the
\* connection is given up.
ResendsEnd ==
    LinkIsFair => \A i \in 0..(MaxMessages - 1) :
        i \in resendList ~> (i \notin resendList \/ deadConnection)

\* Whatever the link does, and if it loses everything from some time on, no reliable
\* message is left open for ever: it is acknowledged, or the sender finds the connection
\* lost.  The timer behind that (ReliabilityLayer.cpp:1011) is stopped and started by the
\* acknowledgements of other messages and by first sends, so it must run whenever the last
\* acknowledgement of all has come and something is outstanding.
LossIsNoticed ==
    WF_vars(GiveUpConnection) => \A i \in 0..(MaxMessages - 1) :
        (i \in Ids /\ Reliable(i))
            ~> (i \notin QueuedIds \cup resendList \/ deadConnection)

\* The rate the arithmetic of the window needs: less than half the range ahead
\* of anything that may still arrive.
RateIsSafe == SendLimit < NumberRange - Half /\ WindowLimit <= Half

\* What one direction of a connection promises, in terms of its state: kept for
\* the receiver is what is queued or unacknowledged.
Promise == INSTANCE Delivery
               WITH Silence <- Half,
                    kept <- QueuedIds \cup resendList,
                    arrived <- accepted,
                    skipped <- gaveUp,
                    held <- UNION { orderingList[c] : c \in Channels },
                    output <- outputQueue,
                    broken <- { c \in Channels : Overtaken(c) }

\* Windows, wrapping numbers, acknowledgements, resends and a network that loses,
\* repeats and reorders come to what PacketPriority.h:32-39 promises, step by step:
\* the sender keeps a reliable message until it has arrived or is given up, each
\* message is taken once, an ordered one is handed up as soon as all before it
\* are, and a sequenced one unless a newer was, or unless Half were missed in a row.
ImplementsDelivery == Promise!DeliverySpec

=============================================================================
