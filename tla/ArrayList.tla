------------------------------ MODULE ArrayList ------------------------------
(***************************************************************************)
(* DataStructures::List (RakNet/DS_List.h): a list in an array that grows  *)
(* when it is full.  The array is a function on the cells that were        *)
(* written: a read of another cell, or a write past the allocation, would  *)
(* have no value here.                                                     *)
(***************************************************************************)
EXTENDS Integers, Sequences, SequencesExt

CONSTANTS
    Elements,
    FirstAllocation, \* cells of the first allocation (16)
    KeptAllocation,  \* cells that Clear keeps allocated (512)
    MaxSize          \* bound: elements in the list

VARIABLES
    list,            \* listArray, list_size and allocation_size
    elements         \* history: the list a caller believes it has

vars == << list, elements >>

Empty == [ listArray |-> << >>, list_size |-> 0, allocation_size |-> 0 ]

Init ==
    /\ list = Empty
    /\ elements = << >>

\* memcpy of the first n cells into an array of its own.
Copied(array, n) == [ c \in 0 .. n - 1 |-> array[c] ]

Grown(l) ==
    IF l.list_size # l.allocation_size THEN l
    ELSE [ l EXCEPT !.listArray = Copied(@, l.list_size),
                    !.allocation_size = IF @ = 0 THEN FirstAllocation ELSE 2 * @ ]

\* memmove of the cells from position on, by one, and the input in its cell.
Shifted(array, size, position, input) ==
    [ c \in 0 .. size |-> CASE c < position -> array[c]
                             [] c = position -> input
                             [] c > position -> array[c - 1] ]

Insert(input, position) ==
    LET l == Grown(list)
    IN  /\ position <= list.list_size
        /\ list' = [ l EXCEPT !.listArray = Shifted(@, l.list_size, position, input),
                              !.list_size = @ + 1 ]
        /\ elements' = InsertAt(elements, position + 1, input)

\* The cells from `from' on hold e up to the cell at `to'.
Filled(array, from, to, e) ==
    [ c \in DOMAIN array \cup (from .. to) |-> IF c \in from .. to THEN e ELSE array[c] ]

InsertAtEnd(input) ==
    LET l == Grown(list)
    IN  /\ list' = [ l EXCEPT !.listArray = Filled(@, l.list_size, l.list_size, input),
                              !.list_size = @ + 1 ]
        /\ elements' = Append(elements, input)

\* Past the end, the positions before it are filled.
ReplaceWithFiller(input, filler, position) ==
    LET l == IF position < list.allocation_size THEN list
             ELSE [ list EXCEPT !.listArray = Copied(@, list.list_size),
                                !.allocation_size = position + 1 ]
        holes == Filled(l.listArray, l.list_size, position - 1, filler)
    IN  IF position < list.list_size
        THEN /\ list' = [ list EXCEPT !.listArray[position] = input ]
             /\ elements' = [ elements EXCEPT ![position + 1] = input ]
        ELSE /\ list' = [ l EXCEPT !.listArray = Filled(holes, position, position, input),
                                   !.list_size = position + 1 ]
             /\ elements' = elements
                    \o [ i \in 1 .. position - Len(elements) |-> filler ] \o << input >>

ReplaceLast(input) ==
    /\ list.list_size > 0
    /\ list' = [ list EXCEPT !.listArray[list.list_size - 1] = input ]
    /\ elements' = [ elements EXCEPT ![Len(elements)] = input ]

Del(num) ==
    /\ num <= list.list_size
    /\ list' = [ list EXCEPT !.list_size = @ - num ]
    /\ elements' = SubSeq(elements, 1, Len(elements) - num)

RemoveAtIndex(position) ==
    /\ position < list.list_size
    /\ list' = [ list EXCEPT
                    !.listArray = [ c \in DOMAIN @ |->
                        IF c \in position .. list.list_size - 2 THEN @[c + 1] ELSE @[c] ],
                    !.list_size = @ - 1 ]
    /\ elements' = RemoveAt(elements, position + 1)

\* An allocation of up to KeptAllocation is kept.
Clear(doNotDeallocate) ==
    /\ list' = IF list.allocation_size > KeptAllocation /\ ~doNotDeallocate
               THEN Empty ELSE [ list EXCEPT !.list_size = 0 ]
    /\ elements' = << >>

\* Another list is assigned this one: allocated to measure.
Assign ==
    /\ list' = IF list.list_size = 0 THEN Empty
               ELSE [ list EXCEPT !.listArray = Copied(@, list.list_size),
                                  !.allocation_size = list.list_size ]
    /\ UNCHANGED elements

\* The array is replaced by another of the same size.
Compress ==
    /\ list.allocation_size > 0
    /\ list' = [ list EXCEPT !.listArray = Copied(@, list.list_size) ]
    /\ UNCHANGED elements

NotFound == -1

GetIndexOf(input) ==
    LET at == { c \in 0 .. list.list_size - 1 : list.listArray[c] = input }
    IN  IF at = {} THEN NotFound ELSE CHOOSE c \in at : \A d \in at : c <= d

Next ==
    \/ /\ list.list_size < MaxSize
       /\ \E input \in Elements :
            \/ InsertAtEnd(input)
            \/ \E position \in 0 .. MaxSize - 1 : Insert(input, position)
    \/ \E input, filler \in Elements : \E position \in 0 .. MaxSize - 1 :
            ReplaceWithFiller(input, filler, position)
    \/ \E input \in Elements : ReplaceLast(input)
    \/ \E num \in 1 .. MaxSize : Del(num)
    \/ \E position \in 0 .. MaxSize - 1 : RemoveAtIndex(position)
    \/ \E doNotDeallocate \in BOOLEAN : Clear(doNotDeallocate)
    \/ Assign
    \/ Compress

-----------------------------------------------------------------------------
\* The array holds what the caller put into the list, and searches find it.
Faithful ==
    /\ list.list_size = Len(elements)
    /\ \A i \in DOMAIN elements : list.listArray[i - 1] = elements[i]
    /\ \A e \in Elements : GetIndexOf(e) = SelectInSeq(elements, LAMBDA x : x = e) - 1

\* No cell past the allocation is ever written.
WellFormed == list.list_size <= list.allocation_size /\
              \A c \in DOMAIN list.listArray : c < list.allocation_size
=============================================================================
