----------------------------- MODULE OrderedList -----------------------------
(***************************************************************************)
(* DataStructures::OrderedList (RakNet/DS_OrderedList.h): a list kept in   *)
(* the order of its keys.  Indexes start at 0, sequences at 1.             *)
(* order[i] stands for comparison_function(key, list[i]): negative when    *)
(* the key comes before that datum, 0 when the datum has the key.          *)
(***************************************************************************)
EXTENDS Integers, Sequences, SequencesExt

\* The binary search: where the key is, or where it has its place.
GetIndexFromKey(order) ==
    LET n == Len(order)
        Probe(lower, upper) ==
            IF lower = 0 /\ upper = n - 1 THEN n \div 2
                                          ELSE lower + (upper - lower) \div 2
        search[lower \in 0 .. n, upper \in -1 .. n - 1] ==
            IF lower > upper
            THEN [ index |-> lower, objectExists |-> FALSE ]
            ELSE LET index == Probe(lower, upper)
                     res == order[index + 1]
                 IN  CASE res = 0 -> [ index |-> index, objectExists |-> TRUE ]
                       [] res < 0 -> search[lower, index - 1]
                       [] res > 0 -> search[index + 1, upper]
    IN  search[0, n - 1]

\* Insert: a key that is there already is not inserted again.
InsertKey(list, order, data) ==
    LET at == GetIndexFromKey(order)
    IN  IF at.objectExists THEN list ELSE InsertAt(list, at.index + 1, data)
=============================================================================
