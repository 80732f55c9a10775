------------------------------- MODULE RPCMap -------------------------------
(***************************************************************************)
(* Maps of remote procedures (RPCMap.cpp): of a peer, which registers      *)
(* procedures by the address of their number, and of each system connected *)
(* to it, which announces the indexes it uses (RakPeer.cpp).  A lookup     *)
(* compares the number a node holds with the address it is given.          *)
(***************************************************************************)
EXTENDS Integers, Sequences, SequencesExt

CONSTANTS
    Procedures,             \* numbers of procedures, none of which is 0
    UNDEFINED_RPC_INDEX,    \* 255: the largest RPCIndex
    MaxSize,                \* bound: cells of a map
    MaxRemovals             \* bound: procedures unregistered

IndexAssumption == UNDEFINED_RPC_INDEX \in Nat \ { 0 } /\ 0 \notin Procedures

VARIABLES
    rpcMap,     \* rpcSet, and whose map it is
    registered  \* history

vars == << rpcMap, registered >>

RPCIndexes == 0 .. UNDEFINED_RPC_INDEX
None == << >>                                                   \* a cell that is 0
Node(id) == << id >>

Init ==
    /\ \E owner \in { "peer", "system" } : rpcMap = [ owner |-> owner, rpcSet |-> << >> ]
    /\ registered = [ added |-> << >>, announced |-> {}, removals |-> 0, outOfRange |-> FALSE ]

\* Cells count from 0.
Size == Len(rpcMap.rpcSet)
Cell(i) == rpcMap.rpcSet[i + 1]

\* An address, or an index cast to one.
Address(a) == [ address |-> TRUE, value |-> a ]
Index(i) == [ address |-> FALSE, value |-> i ]

\* Numbers of procedures are never addresses.
GetIndexFromFunctionName(key) ==
    LET found == { i \in 0 .. Size - 1 : Cell(i) # None /\ Index(Cell(i)[1]) = key }
    IN  IF found = {} THEN UNDEFINED_RPC_INDEX
        ELSE (CHOOSE i \in found : \A j \in found : i <= j) % (UNDEFINED_RPC_INDEX + 1)

\* List::Replace, which makes room.
Replaced(set, node, i) ==
    IF i < Len(set) THEN [ set EXCEPT ![i + 1] = node ]
    ELSE Append(set \o [ j \in 1 .. i - Len(set) |-> None ], node)

-----------------------------------------------------------------------------
\* RegisterAsRemoteProcedureCall: the first cell that is free, or a new one.
AddIdentifierWithFunction(id) ==
    /\ rpcMap.owner = "peer"
    /\ GetIndexFromFunctionName(Address(id)) = UNDEFINED_RPC_INDEX
    /\ LET free == { i \in 0 .. Size - 1 : Cell(i) = None }
           at == IF free = {} THEN Size ELSE CHOOSE i \in free : \A j \in free : i <= j
       IN  /\ at < MaxSize
           /\ rpcMap' = [ rpcMap EXCEPT !.rpcSet = Replaced(@, Node(id), at) ]
    /\ registered' = [ registered EXCEPT !.added = Append(@, id) ]

\* UnregisterAsRemoteProcedureCall: not having found it is not noticed, and the
\* cell may be past the end of the map.
RemoveNode(id) ==
    /\ rpcMap.owner = "peer" /\ registered.removals < MaxRemovals
    /\ LET index == GetIndexFromFunctionName(Address(id))
       IN  IF index < Size
           THEN /\ rpcMap' = [ rpcMap EXCEPT !.rpcSet[index + 1] = None ]
                /\ registered' = [ registered EXCEPT !.removals = @ + 1 ]
           ELSE /\ registered' = [ registered EXCEPT !.outOfRange = TRUE ]
                /\ UNCHANGED rpcMap

\* ID_RPC_MAPPING.  The last index is taken for one that is there already.
AddIdentifierAtIndex(i) ==
    /\ rpcMap.owner = "system"
    /\ LET existing == GetIndexFromFunctionName(Index(i))
           without == IF existing # UNDEFINED_RPC_INDEX
                      THEN [ rpcMap.rpcSet EXCEPT ![existing + 1] = None ] ELSE rpcMap.rpcSet
       IN  rpcMap' = IF existing = i THEN rpcMap
                     ELSE [ rpcMap EXCEPT !.rpcSet = Replaced(without, Node(i), i) ]
    /\ registered' = [ registered EXCEPT !.announced = @ \cup { i } ]

\* When the slot of the system is given to another.
Clear ==
    /\ rpcMap.owner = "system"
    /\ rpcMap' = [ rpcMap EXCEPT !.rpcSet = << >> ]
    /\ registered' = [ registered EXCEPT !.announced = {} ]

Next ==
    /\ ~registered.outOfRange
    /\ \/ \E id \in Procedures : AddIdentifierWithFunction(id) \/ RemoveNode(id)
       \/ \E i \in RPCIndexes : AddIdentifierAtIndex(i)
       \/ Clear

-----------------------------------------------------------------------------
GetNodeFromIndex(i) == IF i < Size THEN Cell(i) ELSE None

\* The indexes a system announced, but the last, lead to their nodes, and no
\* other index does.  A peer's map has a node for each time a procedure was
\* registered, be it for the second time, and no lookup finds any of them; in a
\* map that is not full to the last index nothing can be unregistered.
Faithful ==
    /\ rpcMap.owner = "system" =>
         \A i \in RPCIndexes :
            GetNodeFromIndex(i) =
               IF i \in registered.announced \ { UNDEFINED_RPC_INDEX } THEN Node(i) ELSE None
    /\ rpcMap.owner = "peer" =>
         /\ \A id \in Procedures : GetIndexFromFunctionName(Address(id)) = UNDEFINED_RPC_INDEX
         /\ registered.removals = 0 =>
              rpcMap.rpcSet = [ i \in DOMAIN registered.added |-> Node(registered.added[i]) ]

\* Only the node at the last index is ever unregistered, whichever procedure
\* was named, and the next that is registered takes its cell.
WellFormed ==
    /\ registered.outOfRange => Size <= UNDEFINED_RPC_INDEX
    /\ rpcMap.owner = "peer" => \A i \in 0 .. Size - 1 : Cell(i) = None => i = UNDEFINED_RPC_INDEX
    /\ rpcMap.owner = "system" => Size <= UNDEFINED_RPC_INDEX
=============================================================================
