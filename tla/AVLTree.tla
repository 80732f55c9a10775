------------------------------ MODULE AVLTree ------------------------------
(***************************************************************************)
(* DataStructures::BinarySearchTree and AVLBalancedBinarySearchTree        *)
(* (RakNet/DS_BinarySearchTree.h), the tree of the network ids.  A node is *)
(* named by the item it holds; 0 is no node.                               *)
(***************************************************************************)
EXTENDS Integers, Sequences, FiniteSets, SequencesExt

CONSTANT Items   \* positive numbers

VARIABLES
    tree,        \* the root, and the left and right children of the items
    items        \* history: the items "held", and whether any was "deleted"

vars == << tree, items >>

NoNode == 0
Empty == [ root |-> NoNode, left |-> << >>, right |-> << >> ]

Init ==
    /\ tree = Empty
    /\ items = [ held |-> {}, deleted |-> FALSE ]

Held(t) == DOMAIN t.left
Size(t) == Cardinality(Held(t))
With(f, x, v) == [ y \in DOMAIN f \cup {x} |-> IF y = x THEN v ELSE f[y] ]
Without(f, x) == [ y \in DOMAIN f \ {x} |-> f[y] ]

RECURSIVE Height(_, _)
Height(t, x) ==
    IF x = NoNode THEN 0
    ELSE LET l == Height(t, t.left[x])  r == Height(t, t.right[x])
         IN  1 + (IF l > r THEN l ELSE r)

\* Find: the nodes that are met, down to the item or to where it has its place.
RECURSIVE Path(_, _, _)
Path(t, x, from) ==
    CASE from = NoNode -> << >>
      [] from = x -> << x >>
      [] x < from -> << from >> \o Path(t, x, t.left[from])
      [] x > from -> << from >> \o Path(t, x, t.right[from])

IsIn(t, x) == LET path == Path(t, x, t.root) IN path # << >> /\ Last(path) = x

\* FindParent of an item that is there; 0 at the root.
FindParent(t, x) ==
    LET path == Path(t, x, t.root) IN IF Len(path) < 2 THEN NoNode ELSE path[Len(path) - 1]

\* The node a (or the root) gets c where it had b.
Relinked(t, a, b, c) ==
    CASE a = NoNode -> [ t EXCEPT !.root = c ]
      [] a # NoNode /\ t.left[a] = b -> [ t EXCEPT !.left[a] = c ]
      [] OTHER -> [ t EXCEPT !.right[a] = c ]

-----------------------------------------------------------------------------
(* Rotations around c.                                                     *)

RotateRight(t, c) ==
    LET b == FindParent(t, c)
    IN  [ Relinked(t, FindParent(t, b), b, c)
            EXCEPT !.left[b] = t.right[c], !.right[c] = b ]

RotateLeft(t, c) ==
    LET b == FindParent(t, c)
    IN  [ Relinked(t, FindParent(t, b), b, c)
            EXCEPT !.right[b] = t.left[c], !.left[c] = b ]

DoubleRotateRight(t, a) ==
    LET u == RotateLeft(t, t.right[t.left[a]]) IN RotateRight(u, u.left[a])

DoubleRotateLeft(t, a) ==
    LET u == RotateRight(t, t.left[t.right[a]]) IN RotateLeft(u, u.right[a])

Difference(t, x) == Height(t, t.right[x]) - Height(t, t.left[x])

\* A child of equal heights counts as the inner one being the higher.
Rotated(t, x) ==
    CASE Difference(t, x) = 2 ->
           IF Difference(t, t.right[x]) > 0 THEN RotateLeft(t, t.right[x])
                                            ELSE DoubleRotateLeft(t, x)
      [] Difference(t, x) = -2 ->
           IF Difference(t, t.left[x]) < 0 THEN RotateRight(t, t.left[x])
                                           ELSE DoubleRotateRight(t, x)
      [] OTHER -> t

\* Mutant of BalanceTree: an addition is balanced at its parent only.
BalanceOnce(t, current, rotateOnce) == IF current = NoNode THEN t ELSE Rotated(t, current)

\* From a node up to the root, or to the first rotation.
RECURSIVE BalanceTree(_, _, _)
BalanceTree(t, current, rotateOnce) ==
    LET u == Rotated(t, current)
    IN  CASE current = NoNode -> t
          [] current # NoNode /\ ((rotateOnce /\ u # t) \/ current = u.root) -> u
          [] OTHER -> BalanceTree(u, FindParent(u, current), rotateOnce)

-----------------------------------------------------------------------------
\* BinarySearchTree::Add of an item that is not there: a leaf.
AddLeaf(t, x) ==
    LET parent == IF t.root = NoNode THEN NoNode ELSE Last(Path(t, x, t.root))
        leaf == [ t EXCEPT !.left = With(@, x, NoNode), !.right = With(@, x, NoNode) ]
    IN  CASE parent = NoNode -> [ leaf EXCEPT !.root = x ]
          [] x < parent -> [ leaf EXCEPT !.left[parent] = x ]
          [] x > parent -> [ leaf EXCEPT !.right[parent] = x ]

\* An item that is there is not added again, and nothing is balanced.
Add(x) ==
    /\ tree' = IF IsIn(tree, x) THEN tree ELSE BalanceTree(AddLeaf(tree, x), x, TRUE)
    /\ items' = [ items EXCEPT !.held = @ \cup {x} ]

\* The node x with at most one child leaves, and its child takes its place.
Spliced(t, x) ==
    LET child == IF t.left[x] = NoNode THEN t.right[x] ELSE t.left[x]
        u == Relinked(t, FindParent(t, x), x, child)
    IN  [ u EXCEPT !.left = Without(@, x), !.right = Without(@, x) ]

\* Right, and then left as far as can be.
RECURSIVE Leftmost(_, _)
Leftmost(t, x) == IF t.left[x] = NoNode THEN x ELSE Leftmost(t, t.left[x])

\* BinarySearchTree::Del: the tree, and the node to balance from.  With two
\* children the next item is moved into the node.
Deleted(t, x) ==
    LET next == Leftmost(t, t.right[x])
        parent == FindParent(t, next)
        u == Spliced(t, next)
        moved == [ root |-> IF u.root = x THEN next ELSE u.root,
                   left |-> Without(With(Relinked(u, FindParent(u, x), x, next).left,
                                         next, u.left[x]), x),
                   right |-> Without(With(Relinked(u, FindParent(u, x), x, next).right,
                                          next, u.right[x]), x) ]
    IN  IF t.left[x] = NoNode \/ t.right[x] = NoNode
        THEN << Spliced(t, x), FindParent(t, x) >>
        ELSE << moved, IF parent = x THEN next ELSE parent >>

\* The last item goes whatever item was named; callers name one that is there.
Del(x) ==
    LET t == Deleted(tree, x)
    IN  /\ IsIn(tree, x)
        /\ tree' = IF Size(tree) = 1 THEN Empty ELSE BalanceTree(t[1], t[2], FALSE)
        /\ items' = [ held |-> items.held \ {x}, deleted |-> TRUE ]

\* From the root down to a leaf, which leaves, and again from its parent.
RECURSIVE Cleared(_, _)
Cleared(t, current) ==
    CASE Size(t) < 2 -> Empty
      [] Size(t) > 1 /\ t.left[current] # NoNode -> Cleared(t, t.left[current])
      [] Size(t) > 1 /\ t.left[current] = NoNode /\ t.right[current] # NoNode ->
           Cleared(t, t.right[current])
      [] OTHER -> Cleared(Spliced(t, current), FindParent(t, current))

Clear ==
    /\ tree' = Cleared(tree, tree.root)
    /\ items' = [ held |-> {}, deleted |-> FALSE ]

-----------------------------------------------------------------------------
(* Copies and listings.                                                    *)

\* DisplayBreadthFirstSearch.
RECURSIVE BreadthFirst(_, _)
BreadthFirst(t, queue) ==
    IF queue = << >> THEN << >>
    ELSE LET x == Head(queue)
             children == SelectSeq(<< t.left[x], t.right[x] >>, LAMBDA y : y # NoNode)
         IN  << x >> \o BreadthFirst(t, Tail(queue) \o children)

Listed(t) == IF t.root = NoNode THEN << >> ELSE BreadthFirst(t, << t.root >>)

\* The copies add the items as that lists them.
Copied(t) == FoldLeft(AddLeaf, Empty, Listed(t))

\* Where a node hangs, as FindParent leaves it in direction.
Direction(t, x) ==
    LET p == FindParent(t, x)
    IN  IF p = NoNode THEN "ROOT" ELSE IF t.left[p] = x THEN "LEFT" ELSE "RIGHT"

\* DisplayInorder: no stack, only the direction it last moved up from.
RECURSIVE Inorder(_, _, _, _, _)
Inorder(t, current, direction, just_printed, out) ==
    CASE Len(out) = Size(t) -> out
      [] Len(out) # Size(t) /\ t.left[current] # NoNode /\ direction = "ROOT" ->
           Inorder(t, t.left[current], "ROOT", just_printed, out)
      [] OTHER ->
           IF direction # "RIGHT" /\ ~just_printed
           THEN Inorder(t, current, direction, TRUE, Append(out, current))
           ELSE IF t.right[current] # NoNode /\ direction # "RIGHT"
           THEN Inorder(t, t.right[current], "ROOT", FALSE, out)
           ELSE Inorder(t, FindParent(t, current), Direction(t, current), FALSE, out)

\* DisplayPreorder, with the root listed first.
RECURSIVE Preorder(_, _, _, _)
Preorder(t, current, direction, out) ==
    LET l == t.left[current]  r == t.right[current]
    IN  CASE Len(out) = Size(t) -> out
          [] Len(out) # Size(t) /\ l # NoNode /\ direction = "ROOT" ->
               Preorder(t, l, "ROOT", Append(out, l))
          [] Len(out) # Size(t) /\ ~(l # NoNode /\ direction = "ROOT")
                /\ r # NoNode /\ direction # "RIGHT" ->
               Preorder(t, r, "ROOT", Append(out, r))
          [] OTHER -> Preorder(t, FindParent(t, current), Direction(t, current), out)

\* DisplayPostorder.
RECURSIVE Postorder(_, _)
Postorder(t, x) ==
    IF x = NoNode THEN << >>
    ELSE Postorder(t, t.left[x]) \o Postorder(t, t.right[x]) \o << x >>

Next == Clear \/ \E x \in Items : Add(x) \/ Del(x)

-----------------------------------------------------------------------------
\* A node, what is under it on the left, and what is on the right.
RECURSIVE ParentsFirst(_)
ParentsFirst(x) ==
    IF x = NoNode THEN << >>
    ELSE << x >> \o ParentsFirst(tree.left[x]) \o ParentsFirst(tree.right[x])

\* The tree holds the items, finds every one of them, and lists them in order;
\* a copy is the same tree.
Faithful ==
    /\ Held(tree) = items.held
    /\ \A x \in Items : IsIn(tree, x) <=> x \in items.held
    /\ Inorder(tree, tree.root, "ROOT", FALSE, << >>)
            = SetToSortSeq(items.held, LAMBDA x, y : x < y)
    /\ ToSet(Postorder(tree, tree.root)) = items.held
    /\ tree.root # NoNode => Preorder(tree, tree.root, "ROOT", << tree.root >>)
                                = ParentsFirst(tree.root)
    /\ Copied(tree) = tree

\* Every node is reached once; as long as nothing was deleted, the heights of
\* two siblings differ by one at most.
WellFormed ==
    /\ Len(Listed(tree)) = Size(tree)
    /\ items.deleted \/ \A x \in Held(tree) : Difference(tree, x) \in -1 .. 1
=============================================================================
