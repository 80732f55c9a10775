----------------------------- MODULE OrderedMap -----------------------------
(***************************************************************************)
(* DataStructures::Map (RakNet/DS_Map.h): an OrderedList of keys and data  *)
(* that remembers where its last search ended, and looks there first when  *)
(* the next one is for the same key.                                       *)
(***************************************************************************)
EXTENDS Integers, Sequences, FiniteSets, Functions, OrderedList

CONSTANTS Keys, Data

VARIABLES
    map,      \* mapNodeList, and the last search: "valid", its key and index
    data      \* history: the map a caller believes it has

vars == << map, data >>

Node(key, d) == [ key |-> key, data |-> d ]
NoSearch == [ valid |-> FALSE, key |-> 0, index |-> 0 ]
Search(key, index) == [ valid |-> TRUE, key |-> key, index |-> index ]

Init ==
    /\ map = [ list |-> << >>, last |-> NoSearch ]
    /\ data = << >>

HasSavedSearchResult(key) == map.last.valid /\ map.last.key = key

At(key) == GetIndexFromKey([ i \in DOMAIN map.list |-> key - map.list[i].key ])

\* Where the key is: the last search is believed.
IndexOf(key) == IF HasSavedSearchResult(key) THEN map.last.index ELSE At(key).index

\* Get, GetIndexAtKey, and Has on a key that is there: the search is saved.
Get(key) ==
    /\ key \in DOMAIN data
    /\ map' = [ map EXCEPT !.last = Search(key, IndexOf(key)) ]
    /\ UNCHANGED data

\* Set on a key that is there, and SetExisting.
SetExisting(key, d) ==
    /\ key \in DOMAIN data
    /\ map' = [ list |-> [ map.list EXCEPT ![IndexOf(key) + 1].data = d ],
                last |-> Search(key, IndexOf(key)) ]
    /\ data' = [ data EXCEPT ![key] = d ]

\* Set on a key that is not there, and SetNew.
SetNew(key, d) ==
    /\ key \notin DOMAIN data
    /\ map' = [ list |-> InsertAt(map.list, At(key).index + 1, Node(key, d)),
                last |-> Search(key, At(key).index) ]
    /\ data' = [ k \in DOMAIN data \cup { key } |-> IF k = key THEN d ELSE data[k] ]

\* Mutant of Removed: the last search is kept.
RemovedKeepsSearch(index) == [ map EXCEPT !.list = RemoveAt(@, index + 1) ]

Removed(index) == [ list |-> RemoveAt(map.list, index + 1), last |-> NoSearch ]

\* Delete, and Pop, which returns the datum as well.
Delete(key) ==
    /\ key \in DOMAIN data
    /\ map' = Removed(IndexOf(key))
    /\ data' = RestrictDomain(data, LAMBDA k : k # key)

RemoveAtIndex(index) ==
    /\ index < Len(map.list)
    /\ map' = Removed(index)
    /\ data' = RestrictDomain(data, LAMBDA k : k # map.list[index + 1].key)

Clear == map' = [ list |-> << >>, last |-> NoSearch ] /\ data' = << >>

Next ==
    \/ \E key \in Keys :
        \/ Get(key)
        \/ Delete(key)
        \/ \E d \in Data : SetExisting(key, d) \/ SetNew(key, d)
    \/ \E index \in 0 .. 2 : RemoveAtIndex(index)
    \/ Clear

-----------------------------------------------------------------------------
\* What a caller set is what it gets, whatever search it made before.
Faithful ==
    /\ Len(map.list) = Cardinality(DOMAIN data)
    /\ \A key \in Keys :
        /\ key \in DOMAIN data => map.list[IndexOf(key) + 1] = Node(key, data[key])
        /\ key \notin DOMAIN data => ~HasSavedSearchResult(key) /\ ~At(key).objectExists

\* The keys are in order, for the binary search.
WellFormed == \A i, j \in DOMAIN map.list : i < j => map.list[i].key < map.list[j].key
=============================================================================
