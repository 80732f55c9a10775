----------------------------- MODULE ArrayQueue -----------------------------
(***************************************************************************)
(* DataStructures::Queue (RakNet/DS_Queue.h): a queue in a circular array, *)
(* empty when head and tail meet, which doubles when they meet full.  The  *)
(* array is a function on the cells that were written.                     *)
(***************************************************************************)
EXTENDS Integers, Sequences, SequencesExt

CONSTANTS
    Elements,
    FirstAllocation, \* cells of the first allocation (16)
    KeptAllocation,  \* cells that Clear keeps allocated (32)
    MaxSize          \* bound: elements in the queue

VARIABLES
    queue,           \* array, head, tail and allocation_size
    elements         \* history: the queue a caller believes it has

vars == << queue, elements >>

\* The constructor.
Init ==
    /\ queue = [ array |-> << >>, head |-> 0, tail |-> 0, allocation_size |-> FirstAllocation ]
    /\ elements = << >>

Size(q) ==
    IF q.head <= q.tail THEN q.tail - q.head ELSE q.allocation_size - q.head + q.tail

\* operator[].
At(q, position) ==
    IF q.head + position >= q.allocation_size
    THEN q.array[q.head + position - q.allocation_size] ELSE q.array[q.head + position]

\* The elements in a new array of the given allocation, from its first cell on.
Moved(q, n, allocation) ==
    [ array |-> [ c \in 0 .. n - 1 |-> q.array[(q.head + c) % q.allocation_size] ],
      head |-> 0, tail |-> n, allocation_size |-> allocation ]

\* Head and tail meet after an insertion: the array is full.
Grown(q) ==
    IF q.tail # q.head THEN q ELSE Moved(q, q.allocation_size, 2 * q.allocation_size)

First(input) ==
    [ array |-> [ c \in {0} |-> input ], head |-> 0, tail |-> 1,
      allocation_size |-> FirstAllocation ]

Written(array, c, input) == [ d \in DOMAIN array \cup {c} |-> IF d = c THEN input ELSE array[d] ]

\* The cell before c, and the one after it.
Before(c) == IF c = 0 THEN queue.allocation_size - 1 ELSE c - 1
After(c) == IF c + 1 = queue.allocation_size THEN 0 ELSE c + 1

Push(input) ==
    /\ queue' = IF queue.allocation_size = 0 THEN First(input)
                ELSE Grown([ queue EXCEPT !.array = Written(@, queue.tail, input),
                                          !.tail = After(@) ])
    /\ elements' = Append(elements, input)

\* The elements before the place move down by a cell.  They are addressed
\* without regard to the end of the array: a place that lies past it is left out.
PushAtHead(input, index) ==
    LET head == Before(queue.head)
        cells == DOMAIN queue.array \cup { head }
        shifted == [ c \in cells |->
                        IF c \in head .. head + index - 1 THEN queue.array[c + 1]
                        ELSE IF c = head THEN input ELSE queue.array[c] ]
    IN  /\ index <= Len(elements)
        /\ queue.allocation_size # 0 => head + index < queue.allocation_size
        /\ queue' = IF queue.allocation_size = 0 THEN First(input)
                    ELSE Grown([ queue EXCEPT !.array = Written(shifted, head + index, input),
                                              !.head = head ])
        /\ elements' = InsertAt(elements, index + 1, input)

Pop ==
    /\ elements # << >>
    /\ queue' = [ queue EXCEPT !.head = After(@) ]
    /\ elements' = Tail(elements)

\* The elements after it move up by a cell, each.
Del(position) ==
    LET size == Size(queue)
        Cell(i) == (queue.head + i) % queue.allocation_size
        Place(c) == (c - queue.head + queue.allocation_size) % queue.allocation_size
    IN  /\ position < size
        /\ queue' = [ queue EXCEPT
                !.array = [ c \in DOMAIN @ |->
                    IF Place(c) \in position .. size - 2 THEN @[Cell(Place(c) + 1)] ELSE @[c] ],
                !.tail = Before(@) ]
        /\ elements' = RemoveAt(elements, position + 1)

Clear ==
    /\ queue' = [ queue EXCEPT
                    !.head = 0, !.tail = 0,
                    !.allocation_size = IF @ > KeptAllocation THEN 0 ELSE @,
                    !.array = IF queue.allocation_size > KeptAllocation THEN << >> ELSE @ ]
    /\ elements' = << >>

\* To the least power of two above the size.
Compress ==
    LET size == Size(queue)
        power == CHOOSE n \in { 2 ^ k : k \in 0 .. MaxSize } : n > size /\ n \div 2 <= size
    IN  /\ queue.allocation_size > 0
        /\ queue' = Moved(queue, size, power)
        /\ UNCHANGED elements

\* Another queue is assigned this one: allocated to measure, or not at all.
Assign ==
    LET size == Size(queue)
    IN  /\ queue' = IF size > 0 THEN Moved(queue, size, size + 1)
                    ELSE [ array |-> << >>, head |-> 0, tail |-> 0, allocation_size |-> 0 ]
        /\ UNCHANGED elements

ClearAndForceAllocation(size) ==
    /\ queue' = [ array |-> << >>, head |-> 0, tail |-> 0, allocation_size |-> size ]
    /\ elements' = << >>

Find(q) ==
    \E i \in 0 .. Size(queue) - 1 : queue.array[(queue.head + i) % queue.allocation_size] = q

Next ==
    \/ /\ Len(elements) < MaxSize
       /\ \E input \in Elements :
            \/ Push(input)
            \/ \E index \in 0 .. 2 : PushAtHead(input, index)
    \/ Pop
    \/ \E position \in 0 .. MaxSize - 1 : Del(position)
    \/ Clear
    \/ Compress
    \/ Assign
    \/ \E size \in 1 .. 2 : ClearAndForceAllocation(size)

-----------------------------------------------------------------------------
\* The array holds the elements in their order, round its end.
Faithful ==
    /\ Size(queue) = Len(elements)
    /\ \A i \in DOMAIN elements : At(queue, i - 1) = elements[i]
    /\ \A e \in Elements : Find(e) <=> e \in ToSet(elements)

\* A queue that is not empty has a free cell: full and empty differ.
WellFormed ==
    /\ elements # << >> => Size(queue) < queue.allocation_size
    /\ queue.allocation_size > 0 =>
        { queue.head, queue.tail } \subseteq 0 .. queue.allocation_size - 1
=============================================================================
