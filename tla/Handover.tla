------------------------------ MODULE Handover ------------------------------
(***************************************************************************)
(* What becomes of one direction of the connection when one end of it is   *)
(* handed from process to process: from the game to the daemon when the    *)
(* game quits (save_samp_state, sa_module/dllmain.cpp, and OnSendImmediate *)
(* of daemon/raknet_plugin.hpp), and back when the game has started again  *)
(* (daemon, daemon/main.cpp, and restore_samp_state).                      *)
(*                                                                         *)
(* Each time the new process opens a fresh ReliabilityLayer and copies six *)
(* things into it: messageNumber, receivedPacketsBaseIndex and the four    *)
(* arrays of ordering indexes.  Everything else the layer held is lost     *)
(* with the old process.  Datagrams in flight stay in flight: the port is  *)
(* the same.                                                               *)
(*                                                                         *)
(* The direction server -> client loses its receiving half, the direction  *)
(* client -> server its sending half; the server's own half goes on.       *)
(***************************************************************************)
EXTENDS ReliabilityLayer

CONSTANTS
    Movers,        \* the halves whose process may change: in the direction
                   \* server -> client the receiver, in the other the sender
    MaxHandovers   \* bound: changes of process

ASSUME HandoverAssumption ==
    /\ Movers \subseteq { "sender", "receiver" }
    /\ MaxHandovers \in Nat

VARIABLES
    mover,      \* which half it is in this direction
    handovers   \* history: for each change of process, Len(outputQueue) and
                \* receivedPacketsBaseIndex at the time

varsH == << vars, mover, handovers >>

InitH == Init /\ mover \in Movers /\ handovers = << >>

\* Mutant of FreshSender: the ordering indexes start again at 0.
FreshSenderIndexes ==
    /\ sendPacketSet' = [p \in Priorities |-> << >>]
    /\ resendQueue' = << >>
    /\ resendList' = {}
    /\ ackTimerRuns' = FALSE
    /\ deadConnection' = FALSE
    /\ waitingForOrderedPacketWriteIndex' = [c \in Channels |-> 0]
    /\ UNCHANGED << sent, waitingForSequencedPacketWriteIndex, receiver >>

\* InitializeVariables of the new layer, then the counters of the old one.
FreshSender ==
    /\ sendPacketSet' = [p \in Priorities |-> << >>]
    /\ resendQueue' = << >>
    /\ resendList' = {}
    /\ ackTimerRuns' = FALSE
    /\ deadConnection' = FALSE
    /\ UNCHANGED << sent, waitingForOrderedPacketWriteIndex,
                    waitingForSequencedPacketWriteIndex, receiver >>

\* Mutants of FreshReceiver: the sequenced indexes, or the base index, start
\* again at 0.
FreshReceiverIndexes ==
    /\ hasReceivedPacketQueue' = << >>
    /\ acknowlegements' = {}
    /\ orderingList' = [c \in Channels |-> {}]
    /\ waitingForSequencedPacketReadIndex' = [c \in Channels |-> 0]
    /\ UNCHANGED << sender, receivedPacketsBaseIndex, accepted, gaveUp,
                    waitingForOrderedPacketReadIndex, outputQueue >>

FreshReceiverBase ==
    /\ hasReceivedPacketQueue' = << >>
    /\ acknowlegements' = {}
    /\ orderingList' = [c \in Channels |-> {}]
    /\ receivedPacketsBaseIndex' = 0
    /\ UNCHANGED << sender, accepted, gaveUp, waitingForOrderedPacketReadIndex,
                    waitingForSequencedPacketReadIndex, outputQueue >>

FreshReceiver ==
    /\ hasReceivedPacketQueue' = << >>
    /\ acknowlegements' = {}
    /\ orderingList' = [c \in Channels |-> {}]
    /\ UNCHANGED << sender, receivedPacketsBaseIndex, accepted, gaveUp,
                    waitingForOrderedPacketReadIndex,
                    waitingForSequencedPacketReadIndex, outputQueue >>

\* A process on the old one's port takes the connection over.
HandOver ==
    /\ Len(handovers) < MaxHandovers
    /\ handovers' = Append(handovers, [output |-> Len(outputQueue),
                                       base |-> receivedPacketsBaseIndex])
    /\ \/ mover = "sender" /\ FreshSender
       \/ mover = "receiver" /\ FreshReceiver
    /\ UNCHANGED << wire, ackWire, mover >>

NextH == HandOver \/ (Next /\ UNCHANGED << mover, handovers >>)

SpecH == InitH /\ [][NextH]_varsH

FairnessH ==
    /\ WF_varsH(Resend /\ UNCHANGED << mover, handovers >>)
    /\ WF_varsH(Transmit /\ UNCHANGED << mover, handovers >>)
    /\ WF_varsH(SendAcks /\ UNCHANGED << mover, handovers >>)
    /\ \A i \in 0..(MaxMessages - 1) :
          /\ SF_varsH(Deliver(i) /\ UNCHANGED << mover, handovers >>)
          /\ SF_varsH(ReceiveAck(i) /\ UNCHANGED << mover, handovers >>)

FairSpecH == SpecH /\ FairnessH

-----------------------------------------------------------------------------
(* Properties.                                                             *)

\* A message is handed up again only by another process of the receiving half, and
\* only if its number was not under the base index that process was given: with the
\* base index the new layer turns away all that lies under it.  A new process of
\* the sending half repeats nothing.
RepeatsAfterHandover ==
    \A m, n \in 1..Len(outputQueue) :
        m < n /\ outputQueue[m] = outputQueue[n]
        => /\ mover = "receiver"
           /\ \E h \in 1..Len(handovers) :
              /\ m <= handovers[h].output /\ handovers[h].output < n
              /\ outputQueue[n] >= handovers[h].base

\* Whatever a new process has lost, it hands up ordered messages in the order of
\* Send, none left out and none again, as long as the ordering indexes of the
\* channel have not come round.  Later a message handed up before the handover,
\* resent because its acknowledgement was lost with the old process, may be
\* stored for the index it shares with one to come (ReliabilityLayer.cpp:726-730
\* asks of a message only whether it has the index waited for).
OrderedUntilWrap ==
    \A n \in 1..Len(outputQueue) :
        LET i == outputQueue[n]
        IN  /\ Ordered(i)
            /\ waitingForOrderedPacketWriteIndex[Message(i).channel] < NumberRange
            => /\ \A m \in 1..(n - 1) : outputQueue[m] # i
               /\ \A j \in 0..(i - 1) :
                     Ordered(j) /\ Message(j).channel = Message(i).channel
                     => \E m \in 1..(n - 1) : outputQueue[m] = j

-----------------------------------------------------------------------------
(* Traffic for the instances: an ordered stream; and an ordered and a      *)
(* sequenced stream and messages of no stream.                             *)

Kind(r, c, p) == [ reliability |-> r, channel |-> c, priority |-> p ]
OrderedOnly   == { Kind("RELIABLE_ORDERED", 0, 0) }
AllStreams    == OrderedOnly \cup { Kind("RELIABLE_SEQUENCED", 0, 0), Kind("RELIABLE", 0, 0) }
=============================================================================
