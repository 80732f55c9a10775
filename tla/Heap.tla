-------------------------------- MODULE Heap --------------------------------
(***************************************************************************)
(* DataStructures::Heap (RakNet/DS_Heap.h): a binary heap in a list, the   *)
(* least weight first, or the greatest.  Indexes start at 0.               *)
(***************************************************************************)
EXTENDS Integers, Sequences, SequencesExt, Bags

CONSTANTS
    Weights,
    IsMaxHeap,
    MaxSize     \* bound: nodes in the heap

VARIABLES
    heap,       \* function from the indexes to the weights
    weights     \* history: the bag of weights pushed and not popped

vars == << heap, weights >>

Init ==
    /\ heap = << >>
    /\ weights = EmptyBag

Parent(i) == (i - 1) \div 2
LeftChild(i) == 2 * i + 1
RightChild(i) == 2 * i + 2

\* Whether a belongs above b.
Above(a, b) == IF IsMaxHeap THEN a > b ELSE a < b

Size(h) == Len(h)
W(h, i) == h[i + 1]
Swap(h, i, j) == [ h EXCEPT ![i + 1] = h[j + 1], ![j + 1] = h[i + 1] ]

\* A new node climbs while its parent's weight belongs below.
RECURSIVE Climb(_, _)
Climb(h, i) ==
    IF i # 0 /\ Above(W(h, i), W(h, Parent(i))) THEN Climb(Swap(h, i, Parent(i)), Parent(i))
    ELSE h

Push(weight) ==
    /\ Size(heap) < MaxSize
    /\ heap' = Climb(Append(heap, weight), Size(heap))
    /\ weights' = weights (+) SetToBag({ weight })

\* A node sinks: it changes places with the upper of its children, while that
\* one belongs above it.  Of equal children it is the right one.
RECURSIVE Sink(_, _)
Sink(h, i) ==
    LET left == LeftChild(i)  right == RightChild(i)
        child == IF right < Size(h) /\ ~Above(W(h, left), W(h, right)) THEN right ELSE left
    IN  IF left < Size(h) /\ Above(W(h, child), W(h, i)) THEN Sink(Swap(h, i, child), child)
        ELSE h

\* Pop(0): the last node takes the place of the first.
Pop ==
    /\ heap # << >>
    /\ heap' = Sink(Front([ heap EXCEPT ![1] = Last(heap) ]), 0)
    /\ weights' = weights (-) SetToBag({ Head(heap) })

Clear == heap # << >> /\ heap' = << >> /\ weights' = EmptyBag

Next == Pop \/ Clear \/ \E weight \in Weights : Push(weight)

-----------------------------------------------------------------------------
\* What is in the heap was pushed and not popped, and the next out is the
\* extreme of it.
Faithful ==
    /\ \A w \in Weights :
        CopiesIn(w, weights) = Len(SelectSeq(heap, LAMBDA x : x = w))
    /\ heap # << >> => \A w \in BagToSet(weights) : ~Above(w, Head(heap))

\* No node belongs above its parent.
WellFormed == \A i \in 1 .. Size(heap) - 1 : ~Above(W(heap, i), W(heap, Parent(i)))
=============================================================================
