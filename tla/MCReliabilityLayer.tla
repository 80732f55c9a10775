------------------------- MODULE MCReliabilityLayer -------------------------
(* Instances of ReliabilityLayer for TLC.                                  *)
EXTENDS ReliabilityLayer, FiniteSets

Kind(r, c, p) == [reliability |-> r, channel |-> c, priority |-> p]

\* An ordered stream, two sequenced ones, of which what is lost of the second is
\* given up, and messages on no stream.
Streams == { Kind("RELIABLE_ORDERED", 0, 0), Kind("RELIABLE_SEQUENCED", 0, 0),
             Kind("UNRELIABLE_SEQUENCED", 0, 0), Kind("RELIABLE", 0, 0) }

\* Two kinds of stream at two priorities: the later message may overtake.
StreamTraffic == { Kind("RELIABLE_ORDERED", 0, 1), Kind("UNRELIABLE_SEQUENCED", 0, 0) }

\* Of the kinds of Streams a behaviour sends one, and four at most of the last.
OneStream ==
    /\ \A m, n \in 1..Len(sent) : sent[m].reliability = sent[n].reliability
    /\ Len(sent) > 4 => Ordered(0) \/ Sequenced(0)

\* Sequenced messages keep to a lower rate: with a new one, fewer than half the
\* range lie behind any in use, as IsOlderOrderedPacket needs it.
SequencedRate ==
    sent' # sent /\ Sequenced(messageNumber - 1)'
    => \A i \in InUse : messageNumber - i < (MaxIndex \div 2) - 1

\* Of the messages in use two at a time are in flight, one way or the other.
FewInFlight == Cardinality(wire) + Cardinality(acknowlegements \cup ackWire) <= 2

OneStreamSpec == Init /\ [][Next /\ OneStream' /\ SequencedRate /\ FewInFlight']_vars

=============================================================================
