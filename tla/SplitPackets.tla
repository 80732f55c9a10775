---------------------------- MODULE SplitPackets ----------------------------
(***************************************************************************)
(* Messages that do not fit a datagram (ReliabilityLayer.cpp, SplitPacket  *)
(* and the split packet lists): the sending half cuts a message into parts *)
(* of its own message numbers, the receiving half collects the parts in a  *)
(* channel per splitPacketId and puts them together again.                 *)
(*                                                                         *)
(* Of the rest of the layer, which ReliabilityLayer models, only its       *)
(* promise is kept: a part is accepted once at most, in any order, and     *)
(* only parts of unreliable messages are lost.  Sizes are those of the     *)
(* code; the indexes of the one ordering channel do not wrap here.         *)
(***************************************************************************)
EXTENDS Integers, Sequences, FiniteSets, OrderedList

CONSTANTS
    MTUSize,      \* bytes of a datagram with its UDP header
    IdRange,      \* values of SplitPacketIdType (65536)
    Reliabilities,\* the kinds of message the application sends
    BitLengths,   \* numberOfBitsToSend
    MaxMessages   \* bound: calls to Send

VARIABLES
    layer,        \* splitPacketId of the sender, the parts under way, and the receiver
    sent          \* the messages handed to Send, with the history of whom their id met

vars == << layer, sent >>

UDP_HEADER_SIZE == 28

ToBytes(bits) == (bits + 7) \div 8

IsSequenced(r)  == r \in { "UNRELIABLE_SEQUENCED", "RELIABLE_SEQUENCED" }
IsUnreliable(r) == r \in { "UNRELIABLE", "UNRELIABLE_SEQUENCED" }
IsOrdered(r)    == r = "RELIABLE_ORDERED"

\* Two message numbers are counted where one is written.
GetBitStreamHeaderLength(r, isSplitPacket) ==
    2 * 16 + 4 + (IF IsSequenced(r) \/ IsOrdered(r) THEN 5 + 16 ELSE 0)
      + 1 + (IF isSplitPacket THEN 16 + 2 * 32 ELSE 0) + 16

\* What a datagram holds of a message, whole or in parts.
MaxDataSize(r, isSplitPacket) ==
    MTUSize - UDP_HEADER_SIZE - ToBytes(GetBitStreamHeaderLength(r, isSplitPacket))

IsSplit(m) == ToBytes(m.bits) > MaxDataSize(m.reliability, FALSE)

SplitPacketCount(m) ==
    IF IsSplit(m) THEN ((ToBytes(m.bits) - 1) \div MaxDataSize(m.reliability, TRUE)) + 1 ELSE 0

\* The data of part j, in bits; a last part that fills its block is counted in bytes.
PartBits(m, j) ==
    LET block == MaxDataSize(m.reliability, TRUE)
        rest == ToBytes(m.bits) - j * block
    IN  IF rest < block THEN m.bits - j * block * 8 ELSE block * 8

\* A packet of message i: a part of it, or all of it when it is not split.
Packet(i, j) == [ message |-> i, splitPacketIndex |-> j ]

Packets(i, m) ==
    IF IsSplit(m) THEN { Packet(i, j) : j \in 0 .. SplitPacketCount(m) - 1 } ELSE { Packet(i, 0) }

Init ==
    /\ layer = [ splitPacketId |-> 0, wire |-> {}, channels |-> << >>,
                 sequencedWrite |-> 0, sequencedRead |-> 0,
                 orderedWrite |-> 0, orderedRead |-> 0,
                 orderingList |-> {}, outputQueue |-> << >> ]
    /\ sent = << >>

\* History: the earlier messages with this id of which a part is on its way or in a channel.
StillAbout(id) ==
    LET kept == UNION { Range(layer.channels[c].splitPacketList) : c \in DOMAIN layer.channels }
    IN  { i \in { p.message : p \in layer.wire \cup kept } :
              IsSplit(sent[i]) /\ sent[i].splitPacketId = id }

\* splitPacketId wraps, whatever is still about with the id it comes to.
Send(reliability, bits) ==
    LET m == [ reliability |-> reliability, bits |-> bits,
               splitPacketId |-> layer.splitPacketId,
               meets |-> StillAbout(layer.splitPacketId),
               orderingIndex |-> CASE IsSequenced(reliability) -> layer.sequencedWrite
                                   [] IsOrdered(reliability) -> layer.orderedWrite
                                   [] OTHER -> 0 ]
    IN  /\ Len(sent) < MaxMessages
        /\ sent' = Append(sent, m)
        /\ layer' = [ layer EXCEPT
                        !.splitPacketId = IF IsSplit(m) THEN (@ + 1) % IdRange ELSE @,
                        !.sequencedWrite = IF IsSequenced(reliability) THEN @ + 1 ELSE @,
                        !.orderedWrite = IF IsOrdered(reliability) THEN @ + 1 ELSE @,
                        !.wire = @ \cup Packets(Len(sent) + 1, m) ]

\* The network loses a packet, and nobody sends it again.
Lose(p) ==
    /\ IsUnreliable(sent[p.message].reliability)
    /\ layer' = [ layer EXCEPT !.wire = @ \ { p } ]
    /\ UNCHANGED sent

-----------------------------------------------------------------------------
(* The receiving half.  A channel: its parts in the order of their index,  *)
(* and whether its last part came more than ten seconds ago.               *)

Of(p) == sent[p.message]

DeleteOldUnreliableSplitPackets(l) ==
    LET Stays(c) == ~ (c.old /\ IsUnreliable(Of(c.splitPacketList[1]).reliability))
    IN  [ l EXCEPT !.channels = SelectSeq(@, Stays) ]

\* Mutant of WithPart: parts are kept in the order in which they come.
WithPartLast(list, p) == Append(list, p)

WithPart(list, p) ==
    InsertKey(list, [ i \in DOMAIN list |-> p.splitPacketIndex - list[i].splitPacketIndex ], p)

InsertIntoSplitPacketList(l, p) ==
    LET Order(channels) == [ i \in DOMAIN channels |-> Of(p).splitPacketId - channels[i].id ]
        new == [ id |-> Of(p).splitPacketId, splitPacketList |-> << >>, old |-> FALSE ]
        channels == InsertKey(l.channels, Order(l.channels), new)
        at == GetIndexFromKey(Order(channels)).index + 1
    IN  [ l EXCEPT !.channels =
            [ channels EXCEPT ![at].splitPacketList = WithPart(@, p), ![at].old = FALSE ] ]

\* The channel of the id p has, the packet it makes when it is complete, and the layer without it.
ChannelOf(l, p) == CHOOSE c \in DOMAIN l.channels : l.channels[c].id = Of(p).splitPacketId
PartsOf(l, p)   == l.channels[ChannelOf(l, p)].splitPacketList
IsComplete(l, p) == Len(PartsOf(l, p)) = SplitPacketCount(Of(PartsOf(l, p)[1]))
Released(l, p)  == [ l EXCEPT !.channels = RemoveAt(@, ChannelOf(l, p)) ]

\* The indexes that can be handed up now, of those waiting in orderingList.
Run(l) ==
    LET waiting == { Of(q[1]).orderingIndex : q \in l.orderingList }
    IN  { k \in waiting : k >= l.orderedRead /\ l.orderedRead .. k \subseteq waiting }

HandedUp(l, parts) == [ l EXCEPT !.outputQueue = Append(@, parts) ]

HandUpRun(l) ==
    LET At(k) == CHOOSE q \in l.orderingList : Of(q[1]).orderingIndex = k
        n == Cardinality(Run(l))
    IN  [ l EXCEPT !.outputQueue = @ \o [ i \in 1 .. n |-> At(l.orderedRead + i - 1) ],
                   !.orderingList = { q \in @ : Of(q[1]).orderingIndex \notin Run(l) },
                   !.orderedRead = @ + n ]

\* A whole packet, as the list of its parts, goes where the reliability of the part p that
\* completed it says, with the reliability and index of its first part.  (Those two belong
\* to one message but for reused ids; a first part without an ordering channel then has its
\* index written past the end of waitingForSequencedPacketReadIndex, outside of this state.)
PassUp(l, p, parts) ==
    LET m == Of(parts[1])
    IN  CASE IsSequenced(Of(p).reliability) ->
               LET inChannel == IsSequenced(m.reliability) \/ IsOrdered(m.reliability)
               IN  HandedUp([ l EXCEPT !.sequencedRead = IF inChannel THEN m.orderingIndex + 1 ELSE @ ], parts)
          [] ~IsSequenced(Of(p).reliability) /\ IsOrdered(m.reliability) ->
               IF m.orderingIndex = l.orderedRead
               THEN HandUpRun(HandedUp([ l EXCEPT !.orderedRead = @ + 1 ], parts))
               ELSE [ l EXCEPT !.orderingList = @ \cup { parts } ]
          [] OTHER -> HandedUp(l, parts)

IsOlder(l, m) == IsSequenced(m.reliability) /\ m.orderingIndex < l.sequencedRead

\* A packet the duplicate check has let through.
Receive(p) ==
    LET taken == [ layer EXCEPT !.wire = @ \ { p } ]
        swept == IF IsSplit(Of(p)) THEN DeleteOldUnreliableSplitPackets(taken) ELSE taken
        listed == InsertIntoSplitPacketList(swept, p)
    IN  /\ layer' = CASE IsOlder(swept, Of(p)) -> swept
                      [] ~IsOlder(swept, Of(p)) /\ ~IsSplit(Of(p)) -> PassUp(swept, p, << p >>)
                      [] OTHER -> IF IsComplete(listed, p)
                                  THEN PassUp(Released(listed, p), p, PartsOf(listed, p))
                                  ELSE listed
        /\ UNCHANGED sent

\* Ten seconds pass without a part for the channel.
Ages(c) ==
    /\ ~layer.channels[c].old
    /\ layer' = [ layer EXCEPT !.channels[c].old = TRUE ]
    /\ UNCHANGED sent

Next ==
    \/ \E r \in Reliabilities, b \in BitLengths : Send(r, b)
    \/ \E p \in layer.wire : Lose(p) \/ Receive(p)
    \/ \E c \in DOMAIN layer.channels : Ages(c)

-----------------------------------------------------------------------------
Delivered == { layer.outputQueue[n] : n \in DOMAIN layer.outputQueue }

\* No part of message i has been about together with parts of another one of its id.
Undisturbed(i) == sent[i].meets = {} /\ \A j \in DOMAIN sent : i \notin sent[j].meets

\* What is handed up is made of as many parts as its first one says, in the order of
\* their indexes.  Unless another message with its id was about at the same time, it is
\* one message that was sent: its bytes, and its bits up to the rounding of a last part
\* that fills its block.
RoundTrips ==
    \A parts \in Delivered :
        LET i == parts[1].message
            m == sent[i]
            bits == FoldLeft(LAMBDA sum, p : sum + PartBits(m, p.splitPacketIndex), 0, parts)
        IN  /\ IF IsSplit(m)
               THEN /\ Len(parts) = SplitPacketCount(m)
                    /\ \A n \in 2 .. Len(parts) : parts[n - 1].splitPacketIndex < parts[n].splitPacketIndex
               ELSE parts = << Packet(i, 0) >>
            /\ IsSplit(m) /\ Undisturbed(i) =>
                 /\ parts = [ j \in 1 .. SplitPacketCount(m) |-> Packet(i, j - 1) ]
                 /\ ToBytes(bits) = ToBytes(m.bits) /\ bits \in m.bits .. 8 * ToBytes(m.bits)

\* No part is handed up twice.  Ordered messages come in their order with no gap, and
\* sequenced ones go forward, as long as none of them was mixed up with another.
Faithful ==
    \A a, b \in DOMAIN layer.outputQueue : a < b =>
        LET first(n) == layer.outputQueue[n][1].message
            r == sent[first(a)].reliability
            s == sent[first(b)].reliability
        IN  /\ Range(layer.outputQueue[a]) \cap Range(layer.outputQueue[b]) = {}
            /\ IsSequenced(r) /\ IsSequenced(s) /\ (\A n \in a .. b : Undisturbed(first(n))) =>
                 first(a) < first(b)
            /\ IsOrdered(r) /\ IsOrdered(s) /\ Undisturbed(first(a)) /\ Undisturbed(first(b)) =>
                 /\ first(a) < first(b)
                 /\ \A i \in first(a) .. first(b) : IsOrdered(sent[i].reliability) =>
                      \E n \in a .. b : first(n) = i

\* One channel for an id, of parts that have it, in the order of their indexes and not as
\* many as the first of them says.  Unless its id met another message's, it keeps parts of
\* one message; and with nothing under way, of an unreliable or a sequenced one.
WellFormed ==
    \A c \in DOMAIN layer.channels :
        LET channel == layer.channels[c]
            parts == channel.splitPacketList
            m == Of(parts[1])
        IN  /\ \A d \in DOMAIN layer.channels : layer.channels[d].id = channel.id => d = c
            /\ \A n \in DOMAIN parts : IsSplit(Of(parts[n])) /\ Of(parts[n]).splitPacketId = channel.id
            /\ \A n \in 2 .. Len(parts) : parts[n - 1].splitPacketIndex < parts[n].splitPacketIndex
            /\ Len(parts) # SplitPacketCount(m)
            /\ Undisturbed(parts[1].message) =>
                 /\ \A n \in DOMAIN parts : parts[n].message = parts[1].message
                 /\ Len(parts) < SplitPacketCount(m)
                 /\ layer.wire = {} => IsUnreliable(m.reliability) \/ IsSequenced(m.reliability)
=============================================================================
