------------------------------ MODULE RangeList ------------------------------
(***************************************************************************)
(* DataStructures::RangeList (RakNet/DS_RangeList.h): the message numbers  *)
(* a reliability layer has to acknowledge, as ranges in an OrderedList,    *)
(* written to a datagram as far as they fit.                               *)
(***************************************************************************)
EXTENDS Integers, Sequences, FiniteSets, OrderedList

CONSTANTS
    Indexes,   \* message numbers inserted
    MaxBits    \* values of maxBits: the room in a datagram

VARIABLES
    ranges,
    acks       \* history: the numbers "pending", and those ever "inserted"

vars == << ranges, acks >>

RangeNode(min, max) == [ minIndex |-> min, maxIndex |-> max ]

Covered(list) ==
    UNION { list[i].minIndex .. list[i].maxIndex : i \in DOMAIN list }

Init ==
    /\ ranges = << >>
    /\ acks = [ pending |-> {}, inserted |-> {} ]

\* The place found is past the last range.
InsertEnd(list, index) ==
    CASE index = Last(list).maxIndex + 1 -> [ list EXCEPT ![Len(list)].maxIndex = @ + 1 ]
      [] index > Last(list).maxIndex + 1 -> Append(list, RangeNode(index, index))
      [] OTHER -> list

JoinLeft(list, i) ==
    IF i > 1 /\ list[i - 1].maxIndex + 1 = list[i].minIndex
    THEN RemoveAt([ list EXCEPT ![i - 1].maxIndex = list[i].maxIndex ], i) ELSE list

JoinRight(list, i) ==
    IF i < Len(list) /\ list[i + 1].minIndex = list[i].maxIndex + 1
    THEN RemoveAt([ list EXCEPT ![i + 1].minIndex = list[i].minIndex ], i) ELSE list

\* The place found is before, or at, the range i.
InsertAtRange(list, i, index) ==
    LET r == list[i]
    IN  CASE index < r.minIndex - 1 -> InsertAt(list, i, RangeNode(index, index))
          [] index = r.minIndex - 1 -> JoinLeft([ list EXCEPT ![i].minIndex = @ - 1 ], i)
          [] index \in r.minIndex .. r.maxIndex -> list
          [] index = r.maxIndex + 1 -> JoinRight([ list EXCEPT ![i].maxIndex = @ + 1 ], i)
          [] OTHER -> list

Inserted(list, index) ==
    LET at == GetIndexFromKey([ i \in DOMAIN list |-> index - list[i].minIndex ]).index
    IN  CASE list = << >> -> << RangeNode(index, index) >>
          [] list # << >> /\ at = Len(list) -> InsertEnd(list, index)
          [] OTHER -> InsertAtRange(list, at + 1, index)

InsertIndex(index) ==
    /\ ranges' = Inserted(ranges, index)
    /\ acks' = [ pending |-> acks.pending \cup { index },
                 inserted |-> acks.inserted \cup { index } ]

-----------------------------------------------------------------------------
\* A range on the wire: maxIndex is written when it is another.
Wire(r) == IF r.minIndex = r.maxIndex THEN << TRUE, r.minIndex >>
                                      ELSE << FALSE, r.minIndex, r.maxIndex >>
Bits(r) == IF r.minIndex = r.maxIndex THEN 17 ELSE 33
BitsOf(list, n) == LET sum[i \in 0 .. n] == IF i = 0 THEN 0 ELSE sum[i - 1] + Bits(list[i])
                   IN  sum[n]

\* How many ranges fit; the widest range must, whichever comes next.
CountWritten(list, maxBits) ==
    LET full == { n \in 0 .. Len(list) - 1 : 16 + BitsOf(list, n) + 33 > maxBits }
    IN  IF full = {} THEN Len(list) ELSE CHOOSE n \in full : \A k \in full : n <= k

WireRanges(list, maxBits) ==
    [ i \in 1 .. CountWritten(list, maxBits) |-> Wire(list[i]) ]

\* Serialize, with clearSerialized.
Serialize(maxBits) ==
    LET n == CountWritten(ranges, maxBits)
    IN  /\ ranges' = SubSeq(ranges, n + 1, Len(ranges))
        /\ acks' = [ acks EXCEPT !.pending = @ \ Covered(SubSeq(ranges, 1, n)) ]

\* What Deserialize makes of it.  A range with max before min is refused.
Deserialize(wire) ==
    LET Node(w) == IF w[1] THEN RangeNode(w[2], w[2]) ELSE RangeNode(w[2], w[3])
    IN  IF \A i \in DOMAIN wire : wire[i][1] \/ wire[i][3] >= wire[i][2]
        THEN [ i \in DOMAIN wire |-> Node(wire[i]) ] ELSE << >>

Next ==
    \/ \E index \in Indexes : InsertIndex(index)
    \/ \E maxBits \in MaxBits : Serialize(maxBits)

-----------------------------------------------------------------------------
(* No acknowledgement is lost and none is made up.  Numbers come twice and *)
(* out of order: ranges may then overlap, and a number be sent twice.      *)
Faithful == acks.pending \subseteq Covered(ranges) /\ Covered(ranges) \subseteq acks.inserted

\* The ranges are in the order the binary search needs.
WellFormed ==
    /\ \A i \in DOMAIN ranges : ranges[i].minIndex <= ranges[i].maxIndex
    /\ \A i, j \in DOMAIN ranges : i < j => ranges[i].minIndex < ranges[j].minIndex

\* The receiver reads the ranges that were written.
RoundTrips ==
    \A maxBits \in MaxBits :
        Deserialize(WireRanges(ranges, maxBits))
            = SubSeq(ranges, 1, CountWritten(ranges, maxBits))
=============================================================================
