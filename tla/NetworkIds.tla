----------------------------- MODULE NetworkIds -----------------------------
(***************************************************************************)
(* Identifiers of the objects of a program and the tree that finds an      *)
(* object by its identifier (NetworkIDGenerator.cpp).  An object may be    *)
(* given an identifier that another has, which is then no longer found;    *)
(* the other is not told.  The tree is AVLTree's, here by what it holds.   *)
(***************************************************************************)
EXTENDS Integers, FiniteSets, Functions

CONSTANTS
    Objects,            \* objects that derive from NetworkIDGenerator
    LastId              \* the largest unsigned short, which is UNASSIGNED_NETWORK_ID

IdAssumption == LastId \in Nat /\ Cardinality(Objects) <= LastId

VARIABLES
    registry,   \* IDTree, staticItemID, and of each object its networkID
    past        \* history

vars == << registry, past >>

UNASSIGNED_NETWORK_ID == LastId
Ids == 0 .. LastId
NoObject == [ alive |-> FALSE, networkID |-> UNASSIGNED_NETWORK_ID, callGenerationCode |-> TRUE ]

Init ==
    /\ registry = [ IDTree |-> << >>, staticItemID |-> 0, objects |-> [ o \in Objects |-> NoObject ] ]
    /\ past = [ robbed |-> {},          \* objects whose identifier was given to another
                crashed |-> {} ]        \* the one whose destructor found no node

\* The tree: from identifiers to objects.
Has(tree, id) == id \in DOMAIN tree
Add(tree, id, o) == [ i \in DOMAIN tree \cup { id } |-> IF i = id THEN o ELSE tree[i] ]

\* BinarySearchTree::Del: the only node goes whatever it is.
Del(tree, id) ==
    IF Cardinality(DOMAIN tree) = 1 THEN << >> ELSE Restrict(tree, DOMAIN tree \ { id })

Alive(o) == registry.objects[o].alive

-----------------------------------------------------------------------------
Create(o) ==
    /\ ~Alive(o)
    /\ registry' = [ registry EXCEPT !.objects[o] = [ NoObject EXCEPT !.alive = TRUE ] ]
    /\ past' = [ past EXCEPT !.robbed = @ \ { o } ]

\* The destructor: it looks at the node of its identifier without asking
\* whether there is one.
Destroy(o) ==
    /\ Alive(o)
    /\ LET id == registry.objects[o].networkID
           tree == registry.IDTree
           assigned == id # UNASSIGNED_NETWORK_ID
       IN  /\ registry' = [ registry EXCEPT
                !.objects[o].alive = FALSE,
                !.IDTree = IF assigned /\ Has(tree, id) /\ tree[id] = o THEN Del(tree, id) ELSE @ ]
           /\ past' = [ past EXCEPT !.crashed = IF assigned /\ ~Has(tree, id) THEN { o } ELSE @ ]

\* The first identifier from staticItemID on that is not in the tree; the one
\* that means none is not left out.
FirstFree ==
    CHOOSE n \in Ids :
        LET after == [ k \in Ids |-> (registry.staticItemID + k) % (LastId + 1) ]
        IN  /\ ~Has(registry.IDTree, after[n])
            /\ \A k \in 0 .. n - 1 : Has(registry.IDTree, after[k])
GenerateID(o) ==
    LET id == (registry.staticItemID + FirstFree) % (LastId + 1)
    IN  registry' = [ registry EXCEPT
          !.staticItemID = (id + 1) % (LastId + 1),
          !.IDTree = Add(@, id, o),
          !.objects[o] = [ alive |-> TRUE, networkID |-> id, callGenerationCode |-> FALSE ] ]

\* GetNetworkID of an authority, the first time.
GetNetworkID(o) ==
    /\ Alive(o) /\ registry.objects[o].callGenerationCode
    /\ GenerateID(o)
    /\ UNCHANGED past

\* Whoever has the identifier loses its node, and the node of the old identifier
\* goes too, whoever has that by now.
SetNetworkID(o, id) ==
    LET object == registry.objects[o]
        tree == registry.IDTree
        ignored == id = UNASSIGNED_NETWORK_ID \/ object.networkID = id
        without == IF Has(tree, id) THEN Del(tree, id) ELSE tree
        own == IF object.networkID = UNASSIGNED_NETWORK_ID THEN without ELSE Del(without, object.networkID)
        lost == { without[i] : i \in DOMAIN without \ DOMAIN own } \ { o }
    IN  /\ Alive(o)
        /\ registry' = [ registry EXCEPT
             !.objects[o].callGenerationCode = FALSE,
             !.objects[o].networkID = IF ignored THEN @ ELSE id,
             !.IDTree = IF ignored THEN @ ELSE Add(own, id, o) ]
        /\ past' = IF ignored THEN past
                   ELSE [ past EXCEPT
                            !.robbed = (@ \ { o }) \cup (IF Has(tree, id) THEN { tree[id] } ELSE {}) \cup lost ]

\* SetStaticNetworkID: the user's to set, as when a game is loaded.
SetStaticNetworkID(i) ==
    /\ registry' = [ registry EXCEPT !.staticItemID = i ]
    /\ UNCHANGED past

Next ==
    /\ past.crashed = {}
    /\ \/ \E o \in Objects :
            \/ Create(o) \/ Destroy(o) \/ GetNetworkID(o)
            \/ \E id \in Ids : SetNetworkID(o, id)
       \/ \E i \in Ids : SetStaticNetworkID(i)

Spec == Init /\ [][Next]_vars

-----------------------------------------------------------------------------
GET_BASE_OBJECT_FROM_ID(id) ==
    IF id # UNASSIGNED_NETWORK_ID /\ Has(registry.IDTree, id) THEN { registry.IDTree[id] } ELSE {}

\* What is found by an identifier is there and has that identifier; and an
\* object with an identifier is found by it, unless it was robbed of it.
Faithful ==
    /\ \A id \in Ids : \A o \in GET_BASE_OBJECT_FROM_ID(id) :
         Alive(o) /\ registry.objects[o].networkID = id
    /\ \A o \in Objects :
         Alive(o) /\ registry.objects[o].networkID # UNASSIGNED_NETWORK_ID /\ o \notin past.robbed =>
            o \in GET_BASE_OBJECT_FROM_ID(registry.objects[o].networkID)

\* Objects that were not robbed have identifiers of their own, and destroying
\* such an object does no harm.
WellFormed ==
    /\ \A a, b \in { o \in Objects : Alive(o) } \ past.robbed :
         a # b /\ registry.objects[a].networkID = registry.objects[b].networkID =>
            registry.objects[a].networkID = UNASSIGNED_NETWORK_ID
    /\ past.crashed \subseteq past.robbed
=============================================================================
