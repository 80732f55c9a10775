------------------------------ MODULE Delivery ------------------------------
(***************************************************************************)
(* What one direction of a connection promises to the two that use it      *)
(* (RakNet/include/RakNet/PacketPriority.h): the sender keeps a reliable   *)
(* message until the receiver has it or has stopped waiting for it, each   *)
(* message is handed up once at most, and of each channel the ordered      *)
(* messages come in the order of Send, none passed over and none kept      *)
(* without need, and the sequenced ones come unless a newer one came       *)
(* before.  Messages are numbered in the order of Send, from 0.            *)
(***************************************************************************)
EXTENDS Integers, Sequences

CONSTANT Silence  \* sequenced messages missed in a row after which one is taken for old

VARIABLES
    sent,     \* the messages given to Send, each with its place in its stream
    kept,     \* those the sender has not done with
    arrived,  \* those the receiver has taken, each once
    skipped,  \* those the receiver stopped waiting for
    held,     \* ordered messages that came before one they follow
    output,   \* the messages handed up
    broken    \* channels on which a skipped message lets the order go

deliveryVars == << sent, kept, arrived, skipped, held, output, broken >>

Ids        == 0..(Len(sent) - 1)
Message(i) == sent[i + 1]

Reliable(i)  == Message(i).reliability \in { "RELIABLE", "RELIABLE_ORDERED",
                                             "RELIABLE_SEQUENCED" }
Ordered(i)   == Message(i).reliability = "RELIABLE_ORDERED"
Sequenced(i) == Message(i).reliability \in { "UNRELIABLE_SEQUENCED",
                                             "RELIABLE_SEQUENCED" }

SameChannel(i, j) == Message(i).channel = Message(j).channel

SameStream(i, j) ==
    /\ SameChannel(i, j)
    /\ \/ Ordered(i) /\ Ordered(j)
       \/ Sequenced(i) /\ Sequenced(j)

\* The ordered messages that go before ordered message i.
Before(i) == { j \in Ids : j < i /\ Ordered(j) /\ SameChannel(i, j) }

\* Message i is the next of its stream.
TakesPlace(i) ==
    LET stream == { j \in Ids : j < i /\ SameStream(i, j) }
    IN  Ordered(i) \/ Sequenced(i) =>
          /\ \A j \in stream : Message(j).index < Message(i).index
          /\ \A x \in 0..(Message(i).index - 1) : \E j \in stream : Message(j).index = x

FirstOf(q, n) == { q[m] : m \in 1..n }

DeliveryInit ==
    /\ sent = << >> /\ output = << >>
    /\ kept = {} /\ arrived = {} /\ skipped = {} /\ held = {} /\ broken = {}

-----------------------------------------------------------------------------

\* A channel's order goes only with a message that was skipped, when the numbers
\* of later ones have come round to its own.
Submit ==
    /\ Len(sent') = Len(sent) + 1
    /\ SubSeq(sent', 1, Len(sent)) = sent
    /\ TakesPlace(Len(sent) - 1)'
    /\ kept' = kept \cup { Len(sent) }
    /\ broken \subseteq broken'
    /\ \A c \in broken' : \E j \in skipped \cap Ids : Ordered(j) /\ Message(j).channel = c
    /\ UNCHANGED << arrived, skipped, held, output >>

Forget ==
    /\ kept' \subseteq kept
    /\ \A i \in kept \ kept' : Reliable(i) => i \in arrived \cup skipped
    /\ UNCHANGED << sent, arrived, skipped, held, output, broken >>

\* Ordered message i is handed up as soon as all it follows have been, and with it
\* those that were held for it; otherwise it is held.
OrderedArrives(i) ==
    LET out == { n \in 1..Len(output') : n > Len(output) }
        run == { output'[n] : n \in out }
    IN  /\ Ordered(i)
        /\ Len(output') >= Len(output)
        /\ SubSeq(output', 1, Len(output)) = output
        /\ \A m, n \in out : output'[m] = output'[n] => m = n
        /\ run \subseteq { i } \cup { j \in held : SameChannel(i, j) }
        /\ held' = (held \cup { i }) \ run
        /\ Message(i).channel \notin broken =>
              /\ \A n \in out : Before(output'[n]) \subseteq FirstOf(output', n - 1)
              /\ \A j \in held' : SameChannel(i, j) =>
                    ~(Before(j) \subseteq FirstOf(output', Len(output')))

SequencedArrives(i) ==
    LET came == { j \in FirstOf(output, Len(output)) : Sequenced(j) /\ SameChannel(i, j) }
    IN  /\ Sequenced(i)
        /\ \/ /\ \A j \in came : j < i
              /\ output' = Append(output, i)
           \/ /\ \/ \E j \in came : j > i
                 \/ /\ Silence <= Message(i).index
                    /\ \A j \in came : Message(j).index + Silence < Message(i).index
              /\ UNCHANGED output
        /\ UNCHANGED held

OtherArrives(i) ==
    /\ ~Ordered(i) /\ ~Sequenced(i)
    /\ output' = Append(output, i)
    /\ UNCHANGED held

\* A message arrives, and perhaps the receiver stops waiting for some before it.
Arrive(i) ==
    /\ i \notin arrived \cup skipped
    /\ arrived' = arrived \cup { i }
    /\ skipped \subseteq skipped' /\ skipped' \subseteq Ids \ arrived'
    /\ OrderedArrives(i) \/ SequencedArrives(i) \/ OtherArrives(i)
    /\ UNCHANGED << sent, kept, broken >>

DeliveryNext ==
    \/ Submit
    \/ Forget
    \/ \E i \in Ids : Arrive(i)

DeliverySpec == DeliveryInit /\ [][DeliveryNext]_deliveryVars

=============================================================================
