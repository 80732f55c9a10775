------------------------- MODULE CircularLinkedList -------------------------
(***************************************************************************)
(* DataStructures::CircularLinkedList and LinkedList (RakNet/              *)
(* DS_LinkedList.h): nodes linked in a ring, a root and a current          *)
(* position.  LinkedList differs in ++ and --, which stop at its ends, and *)
(* QueueLinkedList (RakNet/DS_QueueLinkedList.h) is a LinkedList used at   *)
(* its ends.                                                               *)
(***************************************************************************)
EXTENDS Integers, Sequences, FiniteSets, SequencesExt

CONSTANTS
    Items,
    Nodes      \* bound: the nodes in memory, numbers from 1 on

Null == 0

VARIABLES
    list,      \* root, position, and item, previous and next of the nodes
    items      \* history: the sequence from the root on, and the place "at" in it

vars == << list, items >>

Empty == [ root |-> Null, position |-> Null,
           item |-> << >>, previous |-> << >>, next |-> << >> ]

Init ==
    /\ list = Empty
    /\ items = [ seq |-> << >>, at |-> 0 ]

Allocated(l) == DOMAIN l.item
list_size == Cardinality(Allocated(list))

NewNode == CHOOSE n \in Nodes \ Allocated(list) : \A m \in Nodes \ Allocated(list) : n <= m

\* f with a node n, or with another value for it.
With(f, n, v) == [ m \in DOMAIN f \cup {n} |-> IF m = n THEN v ELSE f[m] ]

\* The nodes from the root on, until it comes round.
Ring(l) ==
    LET node[i \in Nat] == IF i = 0 THEN l.root ELSE l.next[node[i - 1]]
        size == CHOOSE n \in 1 .. 1 + Len(SetToSeq(Allocated(l))) :
                    node[n] = l.root /\ \A i \in 1 .. n - 1 : node[i] # l.root
    IN  IF l.root = Null THEN << >> ELSE [ i \in 1 .. size |-> node[i - 1] ]

Contents(l) == [ i \in DOMAIN Ring(l) |-> l.item[Ring(l)[i]] ]

\* The first element, as Insert and Add make it.
First(input) ==
    [ root |-> NewNode, position |-> NewNode, item |-> With(<< >>, NewNode, input),
      previous |-> With(<< >>, NewNode, NewNode), next |-> With(<< >>, NewNode, NewNode) ]

\* The second element, linked with the root both ways.
Second(input) ==
    LET n == NewNode  r == list.root
    IN  [ list EXCEPT !.item = With(@, n, input),
                      !.next = With(With(@, r, n), n, r),
                      !.previous = With(With(@, r, n), n, r) ]

\* A new node between the position and the node before it.
LinkBefore(input) ==
    LET n == NewNode  c == list.position  a == list.previous[c]
    IN  [ list EXCEPT !.item = With(@, n, input),
                      !.next = With(With(@, a, n), n, c),
                      !.previous = With(With(@, n, a), c, n) ]

\* Inserts before the position.  The second element becomes the root; so does
\* one that is inserted at the root.
Insert(input) ==
    LET n == NewNode
        toRoot == list_size < 2 \/ list.position = list.root
        l == CASE list_size = 0 -> First(input)
               [] list_size = 1 -> Second(input)
               [] list_size > 1 -> LinkBefore(input)
    IN  /\ Allocated(list) # Nodes
        /\ list' = IF toRoot THEN [ l EXCEPT !.root = n, !.position = n ] ELSE l
        /\ items' = IF toRoot THEN [ seq |-> << input >> \o items.seq, at |-> 1 ]
                    ELSE [ seq |-> InsertAt(items.seq, items.at, input), at |-> items.at + 1 ]

\* A new node between the position and the node after it.
LinkAfter(l, input) ==
    LET n == NewNode  a == l.position  c == l.next[a]
    IN  [ l EXCEPT !.item = With(@, n, input),
                   !.next = With(With(@, n, c), a, n),
                   !.previous = With(With(@, n, a), c, n) ]

\* Adds after the position, which stays.
Added(l, input) ==
    CASE list_size = 0 -> First(input)
      [] list_size = 1 -> [ Second(input) EXCEPT !.position = l.root ]
      [] list_size > 1 -> LinkAfter(l, input)

Add(input) ==
    /\ Allocated(list) # Nodes
    /\ list' = Added(list, input)
    /\ items' = IF list_size = 0 THEN [ seq |-> << input >>, at |-> 1 ]
                ELSE [ items EXCEPT !.seq = InsertAt(@, items.at + 1, input) ]

Replace(input) ==
    /\ list_size > 0
    /\ list' = [ list EXCEPT !.item[list.position] = input ]
    /\ items' = [ items EXCEPT !.seq[items.at] = input ]

Without(f, n) == [ m \in DOMAIN f \ {n} |-> f[m] ]

Unlinked(n) ==
    LET a == list.previous[n]  c == list.next[n]
    IN  [ list EXCEPT !.next = Without([ @ EXCEPT ![a] = c ], n),
                      !.previous = Without([ @ EXCEPT ![c] = a ], n),
                      !.item = Without(@, n) ]

\* Del, and Pop, which returns the item as well.
Del ==
    LET p == list.position  c == list.next[p]
        last == items.at = list_size
    IN  /\ list_size > 0
        /\ list' = IF list_size = 1 THEN Empty
                   ELSE [ Unlinked(p) EXCEPT !.position = c,
                                             !.root = IF p = @ THEN c ELSE @ ]
        /\ items' = [ seq |-> RemoveAt(items.seq, items.at),
                      at |-> IF list_size = 1 THEN 0 ELSE IF last THEN 1 ELSE items.at ]

\* The node with the item that comes first from the root on, or none.
FindPointer(input) ==
    LET i == SelectInSeq(Ring(list), LAMBDA n : list.item[n] = input)
    IN  IF i = 0 THEN Null ELSE Ring(list)[i]

Find(input) ==
    /\ FindPointer(input) # Null
    /\ list' = [ list EXCEPT !.position = FindPointer(input) ]
    /\ items' = [ items EXCEPT !.at = SelectInSeq(items.seq, LAMBDA x : x = input) ]

MoveTo(node, at) ==
    /\ list_size > 0
    /\ list' = [ list EXCEPT !.position = node ]
    /\ items' = [ items EXCEPT !.at = at ]

Beginning == MoveTo(list.root, 1)
End == MoveTo(list.previous[list.root], list_size)

\* ++ and -- of CircularLinkedList.
Forward == MoveTo(list.next[list.position], (items.at % list_size) + 1)
Back == MoveTo(list.previous[list.position], IF items.at = 1 THEN list_size ELSE items.at - 1)

\* ++ and -- of LinkedList: not past the last element, not before the root.
ForwardToEnd ==
    /\ list_size > 0
    /\ list.next[list.position] # list.root
    /\ MoveTo(list.next[list.position], items.at + 1)

BackToRoot ==
    /\ list.position # list.root
    /\ MoveTo(list.previous[list.position], items.at - 1)

\* QueueLinkedList::Push: at the end.
Push(input) ==
    LET l == [ list EXCEPT !.position = IF list_size = 0 THEN @ ELSE list.previous[list.root] ]
    IN  /\ Allocated(list) # Nodes
        /\ list' = Added(l, input)
        /\ items' = [ seq |-> Append(items.seq, input),
                      at |-> IF list_size = 0 THEN 1 ELSE list_size ]

Clear == list_size > 0 /\ list' = Empty /\ items' = [ seq |-> << >>, at |-> 0 ]

-----------------------------------------------------------------------------
\* A list of the given items, in nodes made one after the other.
Made(seq, at) ==
    LET n == Len(seq)
    IN  [ root |-> IF n = 0 THEN Null ELSE 1, position |-> at,
          item |-> seq,
          next |-> [ i \in 1 .. n |-> (i % n) + 1 ],
          previous |-> [ i \in 1 .. n |-> IF i = 1 THEN n ELSE i - 1 ] ]

\* The copies walk the original from its root to the node before it; the copy
\* of its position is the position.
Copy ==
    LET ring == Ring(list)
    IN  /\ list' = Made(Contents(list), SelectInSeq(ring, LAMBDA n : n = list.position))
        /\ UNCHANGED items

\* The same in LinkedList.
LinkedListCopy == Copy

Merge(s, t) ==
    LET merged[i \in 0 .. Len(s), j \in 0 .. Len(t)] ==
            IF i = Len(s) THEN SubSeq(t, j + 1, Len(t))
            ELSE IF j = Len(t) THEN SubSeq(s, i + 1, Len(s))
            ELSE IF s[i + 1] < t[j + 1] THEN << s[i + 1] >> \o merged[i + 1, j]
            ELSE << t[j + 1] >> \o merged[i, j + 1]
    IN  merged[0, 0]

RECURSIVE Mergesort(_)
Mergesort(s) ==
    LET half == Len(s) \div 2
    IN  IF Len(s) <= 1 THEN s
        ELSE Merge(Mergesort(SubSeq(s, 1, half)), Mergesort(SubSeq(s, half + 1, Len(s))))

\* The list is assigned the sorted one, and its position the root.
Sort ==
    /\ list_size > 1
    /\ list' = Made(Mergesort(Contents(list)), 1)
    /\ items' = [ seq |-> SortSeq(items.seq, <), at |-> 1 ]

\* Each element of the other list is added after the last one.  An empty list
\* is first assigned the other: it gets the elements twice.
Concatenate(other) ==
    LET before == IF list_size = 0 THEN other ELSE items.seq
    IN  /\ other # << >>
        /\ Len(before) + Len(other) <= Len(SetToSeq(Nodes))
        /\ list' = Made((IF list_size = 0 THEN other ELSE Contents(list)) \o other,
                        Len(before) + Len(other))
        /\ items' = [ seq |-> before \o other, at |-> Len(before) + Len(other) ]

Next ==
    \/ \E input \in Items :
        Insert(input) \/ Add(input) \/ Replace(input) \/ Find(input) \/ Push(input)
    \/ Del \/ Beginning \/ End \/ Forward \/ Back \/ ForwardToEnd \/ BackToRoot
    \/ Clear \/ Copy \/ LinkedListCopy \/ Sort
    \/ \E other \in BoundedSeq(Items, 2) : Concatenate(other)

-----------------------------------------------------------------------------
\* The ring, read from the root, holds the caller's list and place.
Faithful ==
    /\ Contents(list) = items.seq
    /\ items.seq # << >> => Ring(list)[items.at] = list.position

\* Both ways round, the links are one ring of every node that is allocated.
WellFormed ==
    /\ ToSet(Ring(list)) = Allocated(list)
    /\ \A n \in Allocated(list) : list.previous[list.next[n]] = n
=============================================================================
