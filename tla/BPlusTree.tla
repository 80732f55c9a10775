----------------------------- MODULE BPlusTree -----------------------------
(***************************************************************************)
(* DataStructures::BPlusTree (RakNet/DS_BPlusTree.h): the resend list of a *)
(* reliability layer, by message number, and the rows of a table.  Pages   *)
(* are numbered; a page is a leaf with keys and their data, linked with    *)
(* the next and the previous leaf, or an index with keys and one child     *)
(* more than keys.  Key i of an index is the first key under child i + 1   *)
(* (from 0).  The arrays are sequences: size is their length.              *)
(***************************************************************************)
EXTENDS Integers, Sequences, FiniteSets, OrderedList

CONSTANTS
    Keys,
    Order     \* keys of a page, more than 3 (RESEND_TREE_ORDER, _TABLE_BPLUS_TREE_ORDER)

VARIABLES
    tree,     \* the pages, root and leftmostLeaf
    held      \* history: the keys inserted and not deleted

vars == << tree, held >>

NoPage == 0
Empty == [ page |-> << >>, root |-> NoPage, leftmostLeaf |-> NoPage ]

Init ==
    /\ tree = Empty
    /\ held = {}

Datum(key) == 10 * key   \* the datum inserted with a key

Leaf(keys, data, previous, next) ==
    [ isLeaf |-> TRUE, keys |-> keys, data |-> data, children |-> << >>,
      previous |-> previous, next |-> next ]

Index(keys, children) ==
    [ isLeaf |-> FALSE, keys |-> keys, data |-> << >>, children |-> children,
      previous |-> NoPage, next |-> NoPage ]

Size(t, p) == Len(t.page[p].keys)
Key(t, p, i) == t.page[p].keys[i + 1]
Child(t, p, i) == t.page[p].children[i + 1]

Allocated(t) == DOMAIN t.page
NewPage(t) ==
    CHOOSE p \in 1 .. Cardinality(Allocated(t)) + 1 :
        /\ p \notin Allocated(t)
        /\ \A q \in 1 .. p - 1 : q \in Allocated(t)

With(t, p, page) ==
    [ t EXCEPT !.page = [ q \in Allocated(t) \cup {p} |-> IF q = p THEN page ELSE t.page[q] ] ]
Released(t, p) ==
    [ t EXCEPT !.page = [ q \in Allocated(t) \ {p} |-> t.page[q] ] ]

GetIndexOf(t, p, key) ==
    LET keys == t.page[p].keys IN GetIndexFromKey([ i \in DOMAIN keys |-> key - keys[i] ])

\* The child to follow: after a key that is equal.
BranchIndex(t, p, key) ==
    LET at == GetIndexOf(t, p, key) IN IF at.objectExists THEN at.index + 1 ELSE at.index

RECURSIVE LeafOf(_, _, _)
LeafOf(t, p, key) ==
    IF t.page[p].isLeaf THEN p ELSE LeafOf(t, Child(t, p, BranchIndex(t, p, key)), key)

\* Get: whether the key is there, and its datum.
Get(t, key) ==
    LET leaf == LeafOf(t, t.root, key)  at == GetIndexOf(t, leaf, key)
    IN  IF t.root = NoPage \/ ~at.objectExists THEN << FALSE >>
        ELSE << TRUE, t.page[leaf].data[at.index + 1] >>

-----------------------------------------------------------------------------
(* Insertion.  The result of a step: the tree, a page that was split off   *)
(* (or none), the key pushed to the parent, and the keys to be replaced.   *)

Result(t, new, key) == [ tree |-> t, new |-> new, key |-> key, replace |-> << >> ]

\* The leaf p gets a new neighbour.
LinkedAfter(t, p, new) ==
    LET next == t.page[p].next
        u == [ t EXCEPT !.page[p].next = new ]
    IN  IF next = NoPage THEN u ELSE [ u EXCEPT !.page[next].previous = new ]

\* Where a full page is split: the place of the new key decides.
SplitAt(i) == IF i >= (Order + 1) \div 2 THEN Order \div 2 ELSE (Order + 1) \div 2

\* InsertIntoNode on a leaf.
InsertIntoLeaf(t, p, i, key) ==
    LET page == t.page[p]
        keys == InsertAt(page.keys, i + 1, key)
        data == InsertAt(page.data, i + 1, Datum(key))
        s == SplitAt(i)
        n == NewPage(t)
        right == Leaf(SubSeq(keys, s + 1, Order + 1), SubSeq(data, s + 1, Order + 1),
                      p, page.next)
        cut == [ t EXCEPT !.page[p].keys = SubSeq(keys, 1, s),
                          !.page[p].data = SubSeq(data, 1, s) ]
    IN  IF Size(t, p) < Order
        THEN Result([ t EXCEPT !.page[p].keys = keys, !.page[p].data = data ], NoPage, key)
        ELSE Result(With(LinkedAfter(cut, p, n), n, right), n, right.keys[1])

\* InsertIntoNode on an index: the middle key leaves for the parent.
InsertIntoIndex(t, p, i, key, node) ==
    LET keys == InsertAt(t.page[p].keys, i + 1, key)
        children == InsertAt(t.page[p].children, i + 2, node)
        s == SplitAt(i)
        n == NewPage(t)
        cut == [ t EXCEPT !.page[p].keys = SubSeq(keys, 1, s),
                          !.page[p].children = SubSeq(children, 1, s + 1) ]
    IN  IF Size(t, p) < Order
        THEN Result([ t EXCEPT !.page[p].keys = keys, !.page[p].children = children ], NoPage, key)
        ELSE Result(With(cut, n, Index(SubSeq(keys, s + 2, Order + 1),
                                       SubSeq(children, s + 2, Order + 2))), n, keys[s + 1])

\* The first entry of leaf b becomes the last of its left neighbour a.
MovedLeft(t, a, b) ==
    [ t EXCEPT !.page[a].keys = Append(@, Head(t.page[b].keys)),
               !.page[a].data = Append(@, Head(t.page[b].data)),
               !.page[b].keys = Tail(@), !.page[b].data = Tail(@) ]

\* The last entry of leaf a becomes the first of its right neighbour b.
MovedRight(t, a, b) ==
    [ t EXCEPT !.page[b].keys = << Last(t.page[a].keys) >> \o @,
               !.page[b].data = << Last(t.page[a].data) >> \o @,
               !.page[a].keys = Front(@), !.page[a].data = Front(@) ]

InLeaf(t, p, key) == InsertIntoLeaf(t, p, GetIndexOf(t, p, key).index, key).tree

Replacing(t, key1, key2) ==
    [ tree |-> t, new |-> NoPage, key |-> key1, replace |-> << key1, key2 >> ]

\* The child b is a full leaf and its left neighbour is not.
RotateLeft(t, p, b, key) ==
    LET l == Child(t, p, b - 1)  c == Child(t, p, b)
        u == MovedLeft(t, l, c)
        v == IF key > Key(t, c, 0) THEN InLeaf(u, c, key)
             ELSE InsertIntoLeaf(u, c, 0, key).tree
        second == IF key > Key(t, c, 0) THEN Key(u, c, 0) ELSE key
    IN  Replacing([ v EXCEPT !.page[p].keys[b] = Key(v, c, 0) ], Key(t, c, 0), second)

\* The child b is a full leaf and its right neighbour is not.
RotateRight(t, p, b, key) ==
    LET c == Child(t, p, b)  r == Child(t, p, b + 1)
        inner == key < Key(t, c, Size(t, c) - 1)
        u == IF inner THEN MovedRight(t, c, r) ELSE InsertIntoLeaf(t, r, 0, key).tree
        v == IF inner THEN InLeaf(u, c, key) ELSE u
    IN  Replacing([ v EXCEPT !.page[p].keys[b + 1] = Key(v, r, 0) ], Key(t, r, 0), Key(u, r, 0))

\* What comes back from the child b of index p.
Returned(r, p, b) ==
    LET t == IF r.replace # << >> /\ b > 0 /\ Key(r.tree, p, b - 1) = r.replace[1]
             THEN [ r.tree EXCEPT !.page[p].keys[b] = r.replace[2] ] ELSE r.tree
    IN  IF r.new = NoPage THEN [ r EXCEPT !.tree = t ]
        ELSE InsertIntoIndex(t, p, b, r.key, r.new)

RECURSIVE InsertBranchDown(_, _, _)
InsertBranchDown(t, p, key) ==
    LET b == BranchIndex(t, p, key)
        c == Child(t, p, b)
        full == t.page[c].isLeaf /\ Size(t, c) = Order
    IN  CASE t.page[p].isLeaf -> InsertIntoLeaf(t, p, GetIndexOf(t, p, key).index, key)
          [] ~t.page[p].isLeaf /\ full /\ b > 0 /\ Size(t, Child(t, p, b - 1)) < Order ->
               RotateLeft(t, p, b, key)
          [] ~t.page[p].isLeaf /\ full
                /\ ~(b > 0 /\ Size(t, Child(t, p, b - 1)) < Order)
                /\ b < Size(t, p) /\ Size(t, Child(t, p, b + 1)) < Order ->
               RotateRight(t, p, b, key)
          [] OTHER -> Returned(InsertBranchDown(t, c, key), p, b)

\* A page that comes back to the root gets a new root, page n, above both.
UnderRoot(r, n) ==
    IF r.new = NoPage THEN r.tree
    ELSE [ With(r.tree, n, Index(<< r.key >>, << r.tree.root, r.new >>)) EXCEPT !.root = n ]
WithRoot(r) == UnderRoot(r, NewPage(r.tree))

Inserted(t, key) ==
    IF t.root = NoPage
    THEN [ With(t, 1, Leaf(<< key >>, << Datum(key) >>, NoPage, NoPage))
             EXCEPT !.root = 1, !.leftmostLeaf = 1 ]
    ELSE WithRoot(InsertBranchDown(t, t.root, key))

\* Callers insert keys that are not there.
Insert(key) ==
    /\ key \notin held
    /\ tree' = Inserted(tree, key)
    /\ held' = held \cup { key }

-----------------------------------------------------------------------------
(* Deletion.  The result of a step: the tree, whether the page underflows, *)
(* and the key that replaces the deleted one in the index that has it.     *)

Deletion(t, underflow, set) == [ tree |-> t, underflow |-> underflow, set |-> set ]
NoKey == << >>

\* DeleteFromPageAtIndex on an index: key i and the child after it.
WithoutChild(t, p, i) ==
    [ t EXCEPT !.page[p].keys = RemoveAt(@, i + 1), !.page[p].children = RemoveAt(@, i + 2) ]

\* The left neighbour of child b has an entry to spare.
BorrowLeft(t, p, b, set) ==
    LET d == Child(t, p, b)  s == Child(t, p, b - 1)
        u == IF t.page[d].isLeaf THEN MovedRight(t, s, d)
             ELSE [ t EXCEPT !.page[d].keys = << Key(t, p, b - 1) >> \o @,
                             !.page[d].children = << Last(t.page[s].children) >> \o @,
                             !.page[s].keys = Front(@), !.page[s].children = Front(@) ]
    IN  Deletion([ u EXCEPT !.page[p].keys[b] = Last(t.page[s].keys) ], FALSE, set)

\* The right neighbour of child b has an entry to spare.
BorrowRight(t, p, b, rightRootKey, set) ==
    LET d == Child(t, p, b)  s == Child(t, p, b + 1)
        u == [ t EXCEPT !.page[d].keys = Append(@, rightRootKey),
                        !.page[d].children = Append(@, Head(t.page[s].children)),
                        !.page[s].keys = Tail(@), !.page[s].children = Tail(@) ]
    IN  IF t.page[d].isLeaf
        THEN Deletion([ MovedLeft(t, d, s) EXCEPT !.page[p].keys[b + 1] = Key(t, s, 1) ], FALSE, set)
        ELSE Deletion([ u EXCEPT !.page[p].keys[b + 1] = Key(t, s, 0) ], FALSE,
                      IF set = NoKey THEN << Key(t, d, 0) >> ELSE set)

\* The leaf s leaves the list of leaves.
Unlinked(t, s) ==
    LET a == t.page[s].previous  c == t.page[s].next
        u == IF a = NoPage THEN t ELSE [ t EXCEPT !.page[a].next = c ]
        v == IF c = NoPage THEN u ELSE [ u EXCEPT !.page[c].previous = a ]
    IN  [ v EXCEPT !.leftmostLeaf = IF @ = s THEN c ELSE @ ]

\* Child b, or its right neighbour, is merged into its left one.
Merged(t, p, b, rightRootKey, set) ==
    LET i == IF b < Size(t, p) THEN b ELSE b - 1
        d == Child(t, p, i)  s == Child(t, p, i + 1)
        leaf == t.page[d].isLeaf
        u == IF leaf
             THEN [ Unlinked(t, s) EXCEPT !.page[d].keys = @ \o t.page[s].keys,
                                          !.page[d].data = @ \o t.page[s].data ]
             ELSE [ t EXCEPT !.page[d].keys = Append(@, rightRootKey) \o t.page[s].keys,
                             !.page[d].children = @ \o t.page[s].children ]
        v == WithoutChild(Released(u, s), p, i)
    IN  Deletion(v, Size(v, p) < Order \div 2,
                 IF b = 0 /\ leaf THEN << Key(v, d, 0) >> ELSE set)

FixUnderflow(t, p, b, rightRootKey, set) ==
    LET Spare(c) == Size(t, Child(t, p, c)) > Order \div 2
    IN  CASE b > 0 /\ Spare(b - 1) -> BorrowLeft(t, p, b, set)
          [] ~(b > 0 /\ Spare(b - 1)) /\ b < Size(t, p) /\ Spare(b + 1) ->
               BorrowRight(t, p, b, rightRootKey, set)
          [] OTHER -> Merged(t, p, b, rightRootKey, set)

\* The key that roots what is right of child b, for a merge.
RightRootKey(t, p, b) == IF b < Size(t, p) THEN Key(t, p, b) ELSE Key(t, p, b - 1)

\* The key leaves child b of index p, a leaf.
DeleteInLeaf(t, p, b, key) ==
    LET c == Child(t, p, b)
        i == GetIndexOf(t, c, key).index
        u == [ t EXCEPT !.page[c].keys = RemoveAt(@, i + 1), !.page[c].data = RemoveAt(@, i + 1) ]
        first == Key(u, c, 0)
    IN  Deletion(IF i = 0 /\ b > 0 THEN [ u EXCEPT !.page[p].keys[b] = first ] ELSE u,
                 Size(u, c) < Order \div 2,
                 IF i = 0 /\ b = 0 THEN << first >> ELSE NoKey)

\* An index that has the deleted key gets the one that replaces it.
KeySet(r, p, at) ==
    IF r.set = NoKey \/ ~at.objectExists THEN r
    ELSE [ r EXCEPT !.tree.page[p].keys[at.index + 1] = r.set[1], !.set = NoKey ]

Rebalanced(r, p, b) ==
    IF r.underflow THEN FixUnderflow(r.tree, p, b, RightRootKey(r.tree, p, b), r.set) ELSE r

RECURSIVE FindDeleteRebalance(_, _, _)
FindDeleteRebalance(t, p, key) ==
    LET at == GetIndexOf(t, p, key)
        b == BranchIndex(t, p, key)
        c == Child(t, p, b)
    IN  Rebalanced(IF t.page[c].isLeaf THEN DeleteInLeaf(t, p, b, key)
                   ELSE KeySet(FindDeleteRebalance(t, c, key), p, at), p, b)

\* The only leaf, and the last key of it.
DeletedInRoot(t, key) ==
    LET i == GetIndexOf(t, t.root, key).index
    IN  IF Size(t, t.root) = 1 THEN Empty
        ELSE [ t EXCEPT !.page[t.root].keys = RemoveAt(@, i + 1),
                        !.page[t.root].data = RemoveAt(@, i + 1) ]

\* A root that is left with one child gives way to it.
WithoutRoot(r, root) ==
    IF r.underflow /\ Size(r.tree, root) = 0
    THEN [ Released(r.tree, root) EXCEPT !.root = Child(r.tree, root, 0) ]
    ELSE r.tree

Deleted(t, key) ==
    IF t.root = t.leftmostLeaf THEN DeletedInRoot(t, key)
    ELSE WithoutRoot(FindDeleteRebalance(t, t.root, key), t.root)

\* A key that is not there is not found, and nothing changes.
Delete(key) ==
    /\ tree.root # NoPage
    /\ Get(tree, key)[1]
    /\ tree' = Deleted(tree, key)
    /\ held' = held \ { key }

Clear == tree.root # NoPage /\ tree' = Empty /\ held' = {}

Next == Clear \/ \E key \in Keys : Insert(key) \/ Delete(key)

-----------------------------------------------------------------------------
\* The leaves from leftmostLeaf on, as Size and ForEachData walk them.
RECURSIVE LeavesFrom(_, _)
LeavesFrom(t, p) == IF p = NoPage THEN << >> ELSE << p >> \o LeavesFrom(t, t.page[p].next)
Leaves(t) == LeavesFrom(t, t.leftmostLeaf)
Listed(t) == FlattenSeq([ i \in DOMAIN Leaves(t) |-> t.page[Leaves(t)[i]].data ])

\* Each key that was inserted and not deleted is found with its datum, no
\* other is found, and the list of leaves has them all in order.
Faithful ==
    /\ \A key \in Keys : Get(tree, key) = IF key \in held THEN << TRUE, Datum(key) >> ELSE << FALSE >>
    /\ ToSet(Listed(tree)) = { Datum(key) : key \in held }
    /\ \A i \in 2 .. Len(Listed(tree)) : Listed(tree)[i - 1] < Listed(tree)[i]

\* What ValidateTree asserts: no page but the root is less than half full, and
\* each key of an index above leaves is the first of the leaf after it.
WellFormed ==
    \A p \in Allocated(tree) :
        LET page == tree.page[p]
        IN  /\ page.keys # << >> /\ Len(page.keys) <= Order
            /\ p # tree.root => Len(page.keys) >= Order \div 2
            /\ page.isLeaf \/ Len(page.children) = Len(page.keys) + 1
            /\ ~page.isLeaf /\ tree.page[page.children[1]].isLeaf =>
                /\ Key(tree, page.children[1], 0) < page.keys[1]
                /\ \A i \in DOMAIN page.keys : page.keys[i] = Key(tree, page.children[i + 1], 0)
=============================================================================
