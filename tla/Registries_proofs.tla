------------------------- MODULE Registries_proofs -------------------------
(***************************************************************************)
(* Machine-checked proofs about two registries a peer and a program look   *)
(* things up in: RemoteSystems, for any number of systems and slots, and   *)
(* NetworkIds, for any number of objects that leaves one identifier free.  *)
(* The user thread finds a system by the list, the network thread by a     *)
(* tree; an object is found by an identifier another may be given.         *)
(***************************************************************************)
EXTENDS Integers, Sequences, FiniteSets, Functions, WellFoundedInduction, FiniteSetTheorems, TLAPS

CONSTANTS Ids, MaxPeers, maximumIncomingConnections, MaxRequests, MaxCommands,  \* of RemoteSystems
          Objects, LastId                                                       \* of NetworkIds
VARIABLES peer, user, registry, past

Remote == INSTANCE RemoteSystems
Named  == INSTANCE NetworkIds

\* A set of numbers has a least one: what Min and the scan for a free identifier choose.
LEMMA LeastNat ==
  ASSUME NEW S \in SUBSET Nat, S # {}
  PROVE  \E x \in S : \A y \in S : x <= y
<1>1. PICK x \in S : \A y \in S : ~ (<< y, x >> \in OpToRel(<, Nat))
  BY WFMin, NatLessThanWellFounded
<1>2. ASSUME NEW y \in S PROVE x <= y
  <2>1. ~ (y < x)
    BY <1>1 DEF OpToRel
  <2> QED BY <2>1
<1> QED BY <1>2

-----------------------------------------------------------------------------
(* The remote systems of a peer.                                           *)

\* UNASSIGNED_PLAYER_ID is nobody's, and the peer has a number of slots.
PeersAssumption == 0 \notin Ids /\ MaxPeers \in Nat

Modes == { "NO_ACTION", "UNVERIFIED_SENDER", "REQUESTED_CONNECTION", "HANDLING_CONNECTION_REQUEST",
           "CONNECTED", "DISCONNECT_ASAP", "DISCONNECT_ASAP_SILENTLY", "DISCONNECT_ON_NO_ACK" }
RemoteSystem == [ playerId : Ids \cup { 0 }, isActive : BOOLEAN, connectMode : Modes,
                  weInitiatedTheConnection : BOOLEAN ]
\* A tree leads from some of the systems to slots.
Lookups == UNION { [ D -> Remote!Slots ] : D \in SUBSET Ids }

Commands == [ playerId : Ids, notify : BOOLEAN ]
PeerRecords == [ remoteSystemList : [ Remote!Slots -> RemoteSystem ], lookup : Lookups, requests : [ Ids -> Nat ],
                 bufferedCommands : Seq(Commands) ]
UserRecords == [ connected : SUBSET Ids, untold : SUBSET Ids, verified : SUBSET Ids ]

SystemsTypeOK == peer \in PeerRecords /\ user \in UserRecords

\* The tree leads to every active system's slot and to nothing else.
Looked ==
    /\ \A i \in Remote!Slots : Remote!Active(i) =>
          Remote!Player(i) \in DOMAIN peer.lookup /\ peer.lookup[Remote!Player(i)] = i
    /\ \A id \in DOMAIN peer.lookup :
          Remote!Active(peer.lookup[id]) /\ Remote!Player(peer.lookup[id]) = id

\* On the way to a connection as when it is there: one of the two sides asked.
Asked ==
    \A i \in Remote!Slots :
        Remote!Active(i) /\ Remote!Mode(i) \in { "REQUESTED_CONNECTION", "HANDLING_CONNECTION_REQUEST", "CONNECTED" } =>
          peer.remoteSystemList[i].weInitiatedTheConnection \/ Remote!Player(i) \in user.verified

\* The modes in which a connection's end is reported.
Ending == { "CONNECTED", "REQUESTED_CONNECTION", "DISCONNECT_ASAP", "DISCONNECT_ON_NO_ACK" }

\* The connected systems were announced, and those announced end with a report.
Told ==
    /\ \A i \in Remote!Slots : Remote!Active(i) /\ Remote!Mode(i) = "CONNECTED" =>
          Remote!Player(i) \in user.connected
    /\ \A id \in user.connected \ user.untold :
          id \in DOMAIN peer.lookup /\ Remote!Mode(peer.lookup[id]) \in Ending

SystemsInv == SystemsTypeOK /\ Looked /\ Asked /\ Told

\* What the library functions give in the instance.
LEMMA SystemsCardinality ==
  ASSUME NEW S
  PROVE  Remote!Cardinality(S) = Cardinality(S)
  BY DEF Cardinality, Remote!Cardinality

LEMMA MinIsLeast ==
  ASSUME NEW S \in SUBSET Nat, S # {}
  PROVE  Remote!Min(S) \in S
<1>1. PICK x \in S : \A y \in S : x <= y
  BY LeastNat
<1> QED BY <1>1 DEF Remote!Min

LEMMA LeastFree ==
  ASSUME PeersAssumption, SystemsTypeOK, Remote!Free # {}
  PROVE  Remote!Min(Remote!Free) \in Remote!Slots /\ ~Remote!Active(Remote!Min(Remote!Free))
<1>1. Remote!Free \in SUBSET Nat
  BY DEF Remote!Free, Remote!Slots, PeersAssumption
<1>2. Remote!Min(Remote!Free) \in Remote!Free
  BY <1>1, MinIsLeast
<1> QED BY <1>2 DEF Remote!Free

\* The scan of the list and the tree give the same slot.
LEMMA IndexIsLooked ==
  ASSUME SystemsTypeOK, Looked, NEW id \in Ids
  PROVE  Remote!GetIndexFromPlayerID(id, FALSE) = Remote!GetIndexFromPlayerID(id, TRUE)
<1> DEFINE found == { i \in Remote!Slots : Remote!Active(i) /\ Remote!Player(i) = id }
<1>1. CASE id \in DOMAIN peer.lookup
  <2>1. found = { peer.lookup[id] }
    BY <1>1 DEF SystemsTypeOK, PeerRecords, UserRecords, Looked, Lookups
  <2>2. Remote!Min(found) = peer.lookup[id]
    <3>1. peer.lookup[id] \in Int
      BY <1>1 DEF SystemsTypeOK, PeerRecords, UserRecords, Lookups, Remote!Slots
    <3> HIDE DEF found
    <3> QED BY <2>1, <3>1 DEF Remote!Min
  <2>3. Remote!GetIndexFromPlayerID(id, FALSE) = IF found = {} THEN -1 ELSE Remote!Min(found)
    BY DEF Remote!GetIndexFromPlayerID
  <2>4. Remote!GetIndexFromPlayerID(id, TRUE) = peer.lookup[id]
    BY <1>1 DEF Remote!GetIndexFromPlayerID
  <2> HIDE DEF found
  <2> QED BY <2>1, <2>2, <2>3, <2>4
<1>2. CASE id \notin DOMAIN peer.lookup
  BY <1>2 DEF Looked, Remote!GetIndexFromPlayerID
<1> QED BY <1>1, <1>2

\* CloseConnectionInternal, by the tree.
LEMMA ClosedIs ==
  ASSUME SystemsTypeOK, Looked, NEW id \in Ids, NEW p,
         p.lookup = peer.lookup, p \in PeerRecords
  PROVE  Remote!Closed(p, id) =
           IF id \in DOMAIN peer.lookup
           THEN [ p EXCEPT !.remoteSystemList[peer.lookup[id]].isActive = FALSE,
                           !.lookup = [ k \in DOMAIN peer.lookup \ { id } |-> peer.lookup[k] ] ]
           ELSE p
<1>1. Remote!GetIndexFromPlayerID(id, FALSE) = IF id \in DOMAIN peer.lookup THEN peer.lookup[id] ELSE -1
  BY IndexIsLooked DEF Remote!GetIndexFromPlayerID
<1>2. id \in DOMAIN peer.lookup => peer.lookup[id] # -1
  BY DEF SystemsTypeOK, PeerRecords, UserRecords, Lookups, Remote!Slots
<1>3. Remote!RestrictDomain(p.lookup, LAMBDA k : k # id) = [ k \in DOMAIN peer.lookup \ { id } |-> peer.lookup[k] ]
  BY DEF Remote!RestrictDomain, Remote!Restrict
<1> QED BY <1>1, <1>2, <1>3 DEF Remote!Closed

\* What the list and the tree are after a mode, a slot given up, a slot assigned.
LEMMA AfterMode ==
  ASSUME SystemsTypeOK, Looked, NEW i \in Remote!Slots, NEW m \in Modes, Remote!Active(i),
         peer'.remoteSystemList = [ peer.remoteSystemList EXCEPT ![i].connectMode = m ],
         peer'.lookup = peer.lookup
  PROVE  /\ Looked'
         /\ \A j \in Remote!Slots :
               /\ Remote!Active(j)' = Remote!Active(j)
               /\ Remote!Player(j)' = Remote!Player(j)
               /\ peer'.remoteSystemList[j].weInitiatedTheConnection = peer.remoteSystemList[j].weInitiatedTheConnection
               /\ Remote!Mode(j)' = IF j = i THEN m ELSE Remote!Mode(j)
<1>1. \A j \in Remote!Slots :
               /\ Remote!Active(j)' = Remote!Active(j)
               /\ Remote!Player(j)' = Remote!Player(j)
               /\ peer'.remoteSystemList[j].weInitiatedTheConnection = peer.remoteSystemList[j].weInitiatedTheConnection
               /\ Remote!Mode(j)' = IF j = i THEN m ELSE Remote!Mode(j)
  BY DEF SystemsTypeOK, PeerRecords, UserRecords, RemoteSystem, Remote!Active, Remote!Player, Remote!Mode
<1>2. Looked'
  BY <1>1 DEF Looked, SystemsTypeOK, PeerRecords, UserRecords, Lookups
<1> QED BY <1>1, <1>2

LEMMA AfterClose ==
  ASSUME SystemsTypeOK, Looked, NEW id \in Ids, id \in DOMAIN peer.lookup,
         peer'.remoteSystemList = [ peer.remoteSystemList EXCEPT ![peer.lookup[id]].isActive = FALSE ],
         peer'.lookup = [ k \in DOMAIN peer.lookup \ { id } |-> peer.lookup[k] ]
  PROVE  /\ Looked'
         /\ \A j \in Remote!Slots :
               /\ Remote!Active(j)' <=> Remote!Active(j) /\ Remote!Player(j) # id
               /\ Remote!Player(j)' = Remote!Player(j)
               /\ peer'.remoteSystemList[j].weInitiatedTheConnection = peer.remoteSystemList[j].weInitiatedTheConnection
               /\ Remote!Mode(j)' = Remote!Mode(j)
<1>0. peer.lookup[id] \in Remote!Slots
  BY DEF SystemsTypeOK, PeerRecords, UserRecords, Lookups
<1>1. \A j \in Remote!Slots :
               /\ Remote!Active(j)' <=> Remote!Active(j) /\ j # peer.lookup[id]
               /\ Remote!Player(j)' = Remote!Player(j)
               /\ peer'.remoteSystemList[j].weInitiatedTheConnection = peer.remoteSystemList[j].weInitiatedTheConnection
               /\ Remote!Mode(j)' = Remote!Mode(j)
  BY <1>0 DEF SystemsTypeOK, PeerRecords, UserRecords, RemoteSystem, Remote!Active, Remote!Player, Remote!Mode
<1>2. \A j \in Remote!Slots : Remote!Active(j) => (Remote!Player(j) # id <=> j # peer.lookup[id])
  BY DEF Looked
<1>3. Looked'
  BY <1>0, <1>1, <1>2 DEF Looked, SystemsTypeOK, PeerRecords, UserRecords, Lookups
<1> QED BY <1>1, <1>2, <1>3

LEMMA AfterAssign ==
  ASSUME SystemsTypeOK, Looked, NEW id \in Ids, id \notin DOMAIN peer.lookup,
         NEW i \in Remote!Slots, ~Remote!Active(i),
         NEW s \in RemoteSystem, s.playerId = id, s.isActive,
         peer'.remoteSystemList = [ peer.remoteSystemList EXCEPT ![i] = s ],
         peer'.lookup = [ k \in DOMAIN peer.lookup \cup { id } |-> IF k = id THEN i ELSE peer.lookup[k] ]
  PROVE  /\ Looked'
         /\ \A j \in Remote!Slots : peer'.remoteSystemList[j] = IF j = i THEN s ELSE peer.remoteSystemList[j]
<1>1. \A j \in Remote!Slots : peer'.remoteSystemList[j] = IF j = i THEN s ELSE peer.remoteSystemList[j]
  BY DEF SystemsTypeOK, PeerRecords, UserRecords
<1>2. \A k \in DOMAIN peer.lookup : peer.lookup[k] \in Remote!Slots /\ peer.lookup[k] # i
  BY DEF SystemsTypeOK, PeerRecords, UserRecords, Lookups, Looked
<1>3. Looked'
  <2>1. \A j \in Remote!Slots : Remote!Active(j)' =>
          Remote!Player(j)' \in DOMAIN peer'.lookup /\ peer'.lookup[Remote!Player(j)'] = j
    BY <1>1 DEF Looked, Remote!Active, Remote!Player
  <2>2. \A k \in DOMAIN peer'.lookup : Remote!Active(peer.lookup[k])' /\ Remote!Player(peer.lookup[k])' = k
    BY <1>1, <1>2 DEF Looked, Remote!Active, Remote!Player
  <2> QED BY <2>1, <2>2 DEF Looked
<1> QED BY <1>1, <1>3

\* The empty tree; what a user has before anything happens.
LEMMA NoLookup ==
  << >> \in Lookups /\ DOMAIN << >> = {}
<1>1. << >> \in [ {} -> Remote!Slots ]
  OBVIOUS
<1>2. {} \in SUBSET Ids
  OBVIOUS
<1> QED BY <1>1, <1>2 DEF Lookups

LEMMA SystemsInit ==
  ASSUME PeersAssumption, Remote!Init
  PROVE  SystemsInv
<1>1. << >> \in Lookups /\ DOMAIN << >> = {}
  BY NoLookup
<1>2. << >> \in Seq(Commands)
  OBVIOUS
<1>3. Remote!Blank \in RemoteSystem /\ ~Remote!Blank.isActive
  BY DEF Remote!Blank, RemoteSystem, Modes, Remote!UNASSIGNED_PLAYER_ID
<1>4. SystemsTypeOK
  BY <1>1, <1>2, <1>3 DEF Remote!Init, SystemsTypeOK, PeerRecords, UserRecords
<1>5. \A j \in Remote!Slots : ~Remote!Active(j)
  BY <1>3 DEF Remote!Init, Remote!Active
<1> QED BY <1>1, <1>4, <1>5 DEF Remote!Init, SystemsInv, Looked, Asked, Told

\* The three changes of the list, with what the user is told of each.
LEMMA ModeStep ==
  ASSUME SystemsInv, SystemsTypeOK', NEW i \in Remote!Slots, NEW m \in Modes, Remote!Active(i),
         peer'.remoteSystemList = [ peer.remoteSystemList EXCEPT ![i].connectMode = m ],
         peer'.lookup = peer.lookup,
         \/ m \in { "DISCONNECT_ASAP", "DISCONNECT_ON_NO_ACK" } /\ user' = user
         \/ /\ m = "CONNECTED" /\ Remote!Mode(i) \in { "HANDLING_CONNECTION_REQUEST", "REQUESTED_CONNECTION" }
            /\ user' = Remote!Announced(Remote!Player(i))
         \/ /\ m = "DISCONNECT_ASAP_SILENTLY"
            /\ user' = [ user EXCEPT !.untold = @ \cup (user.connected \cap { Remote!Player(i) }) ]
         \/ /\ m = "HANDLING_CONNECTION_REQUEST"
            /\ user' = [ user EXCEPT !.untold = @ \cup (user.connected \cap { Remote!Player(i) }),
                                     !.verified = @ \cup { Remote!Player(i) } ]
  PROVE  SystemsInv'
<1>1. /\ Looked'
      /\ \A j \in Remote!Slots :
               /\ Remote!Active(j)' = Remote!Active(j)
               /\ Remote!Player(j)' = Remote!Player(j)
               /\ peer'.remoteSystemList[j].weInitiatedTheConnection = peer.remoteSystemList[j].weInitiatedTheConnection
               /\ Remote!Mode(j)' = IF j = i THEN m ELSE Remote!Mode(j)
  BY AfterMode DEF SystemsInv
<1>2. \A id \in DOMAIN peer.lookup : peer.lookup[id] \in Remote!Slots
  BY DEF SystemsInv, SystemsTypeOK, PeerRecords, UserRecords, Lookups
<1>3. /\ user.connected \subseteq user'.connected
      /\ user.verified \subseteq user'.verified
      /\ m = "HANDLING_CONNECTION_REQUEST" => Remote!Player(i) \in user'.verified
      /\ m = "CONNECTED" => Remote!Player(i) \in user'.connected
      /\ user'.connected \ user'.untold \subseteq (user.connected \ user.untold) \cup { Remote!Player(i) }
      /\ m \notin Ending => Remote!Player(i) \notin user'.connected \ user'.untold
  <2>1. user.connected \in SUBSET Ids /\ user.untold \in SUBSET Ids /\ user.verified \in SUBSET Ids
    BY DEF SystemsInv, SystemsTypeOK, PeerRecords, UserRecords
  <2>2. CASE user' = user /\ m \in { "DISCONNECT_ASAP", "DISCONNECT_ON_NO_ACK" }
    BY <2>2 DEF Ending
  <2>3. CASE user' = Remote!Announced(Remote!Player(i)) /\ m = "CONNECTED"
    <3>1. /\ user'.connected = user.connected \cup { Remote!Player(i) }
          /\ user'.untold = user.untold \ { Remote!Player(i) }
          /\ user'.verified = user.verified
      BY <2>3 DEF Remote!Announced, SystemsInv, SystemsTypeOK, PeerRecords, UserRecords
    <3> QED BY <2>3, <3>1 DEF Ending
  <2>4. CASE /\ user'.untold = user.untold \cup (user.connected \cap { Remote!Player(i) })
             /\ m \in { "DISCONNECT_ASAP_SILENTLY", "HANDLING_CONNECTION_REQUEST" }
    <3>1. /\ user'.connected = user.connected
          /\ user.verified \subseteq user'.verified
          /\ m = "HANDLING_CONNECTION_REQUEST" => Remote!Player(i) \in user'.verified
      <4>1. user \in UserRecords
        BY DEF SystemsInv, SystemsTypeOK, PeerRecords, UserRecords
      <4>2. CASE m = "DISCONNECT_ASAP_SILENTLY"
        BY <4>1, <4>2 DEF UserRecords
      <4>3. CASE m = "HANDLING_CONNECTION_REQUEST"
        BY <4>1, <4>3 DEF UserRecords
      <4> QED BY <2>4, <4>2, <4>3
    <3> QED BY <2>4, <3>1
  <2>5. \/ user' = user /\ m \in { "DISCONNECT_ASAP", "DISCONNECT_ON_NO_ACK" }
        \/ user' = Remote!Announced(Remote!Player(i)) /\ m = "CONNECTED"
        \/ /\ user'.untold = user.untold \cup (user.connected \cap { Remote!Player(i) })
           /\ m \in { "DISCONNECT_ASAP_SILENTLY", "HANDLING_CONNECTION_REQUEST" }
    BY DEF SystemsInv, SystemsTypeOK, PeerRecords, UserRecords
  <2> QED BY <2>2, <2>3, <2>4, <2>5
<1>4. Asked'
  BY <1>1, <1>3 DEF SystemsInv, Asked
<1>5. Told'
  <2>1. \A j \in Remote!Slots : Remote!Active(j)' /\ Remote!Mode(j)' = "CONNECTED" =>
          Remote!Player(j)' \in user'.connected
    BY <1>1, <1>3 DEF SystemsInv, Told
  <2>2. Remote!Player(i) \in DOMAIN peer.lookup /\ peer.lookup[Remote!Player(i)] = i
    BY DEF SystemsInv, Looked
  <2>3. ASSUME NEW id \in user'.connected \ user'.untold
        PROVE  id \in DOMAIN peer'.lookup /\ Remote!Mode(peer.lookup[id])' \in Ending
    <3>1. CASE id = Remote!Player(i)
      BY <3>1, <2>2, <2>3, <1>1, <1>3
    <3>2. CASE id # Remote!Player(i)
      <4>1. id \in DOMAIN peer.lookup /\ Remote!Mode(peer.lookup[id]) \in Ending /\ peer.lookup[id] # i
        BY <3>2, <2>3, <1>3 DEF SystemsInv, Told, Looked
      <4> QED BY <4>1, <1>1, <1>2
    <3> QED BY <3>1, <3>2
  <2> QED BY <2>1, <2>3 DEF Told
<1> QED BY <1>1, <1>4, <1>5 DEF SystemsInv

LEMMA CloseStep ==
  ASSUME SystemsInv, SystemsTypeOK', NEW id \in Ids, id \in DOMAIN peer.lookup,
         peer'.remoteSystemList = [ peer.remoteSystemList EXCEPT ![peer.lookup[id]].isActive = FALSE ],
         peer'.lookup = [ k \in DOMAIN peer.lookup \ { id } |-> peer.lookup[k] ],
         \/ user' = user /\ Remote!Mode(peer.lookup[id]) \notin Ending
         \/ user' = Remote!Gone(id)
  PROVE  SystemsInv'
<1>1. /\ Looked'
      /\ \A j \in Remote!Slots :
               /\ Remote!Active(j)' <=> Remote!Active(j) /\ Remote!Player(j) # id
               /\ Remote!Player(j)' = Remote!Player(j)
               /\ peer'.remoteSystemList[j].weInitiatedTheConnection = peer.remoteSystemList[j].weInitiatedTheConnection
               /\ Remote!Mode(j)' = Remote!Mode(j)
  BY AfterClose DEF SystemsInv
<1>2. \A k \in DOMAIN peer.lookup : peer.lookup[k] \in Remote!Slots
  BY DEF SystemsInv, SystemsTypeOK, PeerRecords, UserRecords, Lookups
<1>3. /\ \A k \in user.connected : k # id => k \in user'.connected
      /\ user'.verified = user.verified
      /\ user'.connected \ user'.untold \subseteq (user.connected \ user.untold) \ { id }
  <2>1. user \in UserRecords
    BY DEF SystemsInv, SystemsTypeOK
  <2>2. CASE user' = user /\ Remote!Mode(peer.lookup[id]) \notin Ending
    <3>1. id \notin user.connected \ user.untold
      BY <2>2 DEF SystemsInv, Told
    <3> QED BY <2>2, <3>1
  <2>3. CASE user' = Remote!Gone(id)
    <3>1. /\ user'.connected = user.connected \ { id }
          /\ user'.untold = user.untold \ { id }
          /\ user'.verified = user.verified
      BY <2>1, <2>3 DEF UserRecords, Remote!Gone
    <3> QED BY <3>1
  <2> QED BY <2>2, <2>3
<1>4. Asked'
  BY <1>1, <1>3 DEF SystemsInv, Asked
<1>5. Told'
  <2>1. \A j \in Remote!Slots : Remote!Active(j)' /\ Remote!Mode(j)' = "CONNECTED" =>
          Remote!Player(j)' \in user'.connected
    BY <1>1, <1>3 DEF SystemsInv, Told
  <2>2. ASSUME NEW k \in user'.connected \ user'.untold
        PROVE  k \in DOMAIN peer'.lookup /\ Remote!Mode(peer.lookup[k])' \in Ending
    <3>1. k \in DOMAIN peer.lookup /\ Remote!Mode(peer.lookup[k]) \in Ending /\ k # id
      BY <2>2, <1>3 DEF SystemsInv, Told
    <3>2. peer'.lookup[k] = peer.lookup[k] /\ k \in DOMAIN peer'.lookup
      BY <3>1
    <3> QED BY <3>1, <3>2, <1>1, <1>2 DEF Remote!Mode
  <2> QED BY <2>1, <2>2 DEF Told
<1> QED BY <1>1, <1>4, <1>5 DEF SystemsInv

LEMMA AssignStep ==
  ASSUME SystemsInv, SystemsTypeOK', NEW id \in Ids, id \notin DOMAIN peer.lookup,
         NEW i \in Remote!Slots, ~Remote!Active(i),
         NEW s \in RemoteSystem, s.playerId = id, s.isActive,
         peer'.remoteSystemList = [ peer.remoteSystemList EXCEPT ![i] = s ],
         peer'.lookup = [ k \in DOMAIN peer.lookup \cup { id } |-> IF k = id THEN i ELSE peer.lookup[k] ],
         \/ /\ s.connectMode = "UNVERIFIED_SENDER"
            /\ user' = [ user EXCEPT !.verified = @ \ { id } ]
         \/ /\ s.connectMode = "REQUESTED_CONNECTION" /\ s.weInitiatedTheConnection
            /\ user' = user
  PROVE  SystemsInv'
<1>1. /\ Looked'
      /\ \A j \in Remote!Slots : peer'.remoteSystemList[j] = IF j = i THEN s ELSE peer.remoteSystemList[j]
  BY AfterAssign DEF SystemsInv
<1>2. \A j \in Remote!Slots : Remote!Active(j) => Remote!Player(j) \in Ids \ { id }
  BY DEF SystemsInv, SystemsTypeOK, PeerRecords, UserRecords, Looked, Lookups
<1>3. /\ user'.connected = user.connected /\ user'.untold = user.untold
      /\ user.verified \subseteq user'.verified \cup { id }
  BY DEF SystemsInv, SystemsTypeOK, PeerRecords, UserRecords
<1>4. ASSUME NEW j \in Remote!Slots, j # i
      PROVE  /\ Remote!Active(j)' = Remote!Active(j) /\ Remote!Player(j)' = Remote!Player(j)
             /\ Remote!Mode(j)' = Remote!Mode(j)
             /\ peer'.remoteSystemList[j].weInitiatedTheConnection = peer.remoteSystemList[j].weInitiatedTheConnection
  BY <1>1, <1>4 DEF Remote!Active, Remote!Player, Remote!Mode
<1>5. Remote!Mode(i)' = s.connectMode /\ peer'.remoteSystemList[i] = s
  BY <1>1 DEF Remote!Mode
<1>6. Asked'
  <2>1. ASSUME NEW j \in Remote!Slots, Remote!Active(j)',
               Remote!Mode(j)' \in { "REQUESTED_CONNECTION", "HANDLING_CONNECTION_REQUEST", "CONNECTED" }
        PROVE  peer'.remoteSystemList[j].weInitiatedTheConnection \/ Remote!Player(j)' \in user'.verified
    <3>1. CASE j = i
      BY <2>1, <3>1, <1>5
    <3>2. CASE j # i
      BY <2>1, <3>2, <1>2, <1>3, <1>4 DEF SystemsInv, Asked
    <3> QED BY <3>1, <3>2
  <2> QED BY <2>1 DEF Asked
<1>7. Told'
  <2>1. ASSUME NEW j \in Remote!Slots, Remote!Active(j)', Remote!Mode(j)' = "CONNECTED"
        PROVE  Remote!Player(j)' \in user'.connected
    <3>1. j # i
      BY <2>1, <1>5
    <3> QED BY <2>1, <3>1, <1>3, <1>4 DEF SystemsInv, Told
  <2>2. ASSUME NEW k \in user'.connected \ user'.untold
        PROVE  k \in DOMAIN peer'.lookup /\ Remote!Mode(peer.lookup[k])' \in Ending
    <3>1. k \in DOMAIN peer.lookup /\ Remote!Mode(peer.lookup[k]) \in Ending
      BY <2>2, <1>3 DEF SystemsInv, Told
    <3>2. peer'.lookup[k] = peer.lookup[k] /\ k \in DOMAIN peer'.lookup
      BY <3>1
    <3>3. peer.lookup[k] \in Remote!Slots /\ peer.lookup[k] # i
      BY <3>1 DEF SystemsInv, SystemsTypeOK, PeerRecords, UserRecords, Lookups, Looked
    <3> QED BY <3>1, <3>2, <3>3, <1>4 DEF Remote!Mode
  <2> QED BY <2>1, <2>2 DEF Told
<1> QED BY <1>1, <1>6, <1>7 DEF SystemsInv

\* Steps that leave the list as it is.
LEMMA OtherStep ==
  ASSUME SystemsInv, SystemsTypeOK', peer'.remoteSystemList = peer.remoteSystemList, peer'.lookup = peer.lookup,
         user' = user
  PROVE  SystemsInv'
  BY DEF SystemsInv, Looked, Asked, Told, Remote!Active, Remote!Player, Remote!Mode

LEMMA GoneStep ==
  ASSUME SystemsInv, SystemsTypeOK', peer'.remoteSystemList = peer.remoteSystemList, peer'.lookup = peer.lookup,
         NEW id \in Ids, id \notin DOMAIN peer.lookup, user' = Remote!Gone(id)
  PROVE  SystemsInv'
<1>1. /\ user'.connected = user.connected \ { id }
      /\ user'.untold = user.untold \ { id }
      /\ user'.verified = user.verified
  BY DEF SystemsInv, SystemsTypeOK, PeerRecords, UserRecords, Remote!Gone
<1>2. \A i \in Remote!Slots : Remote!Active(i) => Remote!Player(i) # id
  BY DEF SystemsInv, Looked
<1> QED BY <1>1, <1>2 DEF SystemsInv, Looked, Asked, Told, Remote!Active, Remote!Player, Remote!Mode

\* One lemma for each group of actions: the user thread first.
LEMMA UserThread ==
  ASSUME PeersAssumption, SystemsInv,
         \/ \E id \in Ids : \/ Remote!Connect(id) \/ Remote!RequestFails(id)
                            \/ \E notify \in BOOLEAN : Remote!CloseConnection(id, notify)
         \/ Remote!Disconnect
  PROVE  SystemsInv'
<1>0. /\ user \in UserRecords
      /\ peer.requests \in [ Ids -> Nat ]
      /\ peer.bufferedCommands \in Seq(Commands)
  BY DEF SystemsInv, SystemsTypeOK, PeerRecords, UserRecords
<1>1. ASSUME NEW requests \in [ Ids -> Nat ], NEW commands \in Seq(Commands),
             peer' = [ [ peer EXCEPT !.requests = requests ] EXCEPT !.bufferedCommands = commands ],
             user' = user
      PROVE  SystemsInv'
  <2>1. SystemsTypeOK'
    BY <1>1 DEF SystemsInv, SystemsTypeOK, PeerRecords, UserRecords
  <2> QED BY <1>1, <2>1, OtherStep DEF SystemsInv, SystemsTypeOK, PeerRecords, UserRecords
<1>2. ASSUME NEW id \in Ids, Remote!Connect(id) PROVE SystemsInv'
  <2>1. [ peer.requests EXCEPT ![id] = @ + 1 ] \in [ Ids -> Nat ]
    BY <1>0
  <2>2. peer' = [ [ peer EXCEPT !.requests = [ peer.requests EXCEPT ![id] = @ + 1 ] ]
                    EXCEPT !.bufferedCommands = peer.bufferedCommands ]
    BY <1>2 DEF SystemsInv, SystemsTypeOK, PeerRecords, UserRecords, Remote!Connect
  <2> QED BY <1>0, <1>1, <1>2, <2>1, <2>2 DEF Remote!Connect
<1>3. ASSUME NEW id \in Ids, Remote!RequestFails(id) PROVE SystemsInv'
  <2>1. PICK given \in { 1, peer.requests[id] } : peer' = [ peer EXCEPT !.requests[id] = @ - given ]
    BY <1>3 DEF Remote!RequestFails
  <2>2. [ peer.requests EXCEPT ![id] = @ - given ] \in [ Ids -> Nat ]
    BY <1>0, <1>3 DEF Remote!RequestFails
  <2>3. peer' = [ [ peer EXCEPT !.requests = [ peer.requests EXCEPT ![id] = @ - given ] ]
                    EXCEPT !.bufferedCommands = peer.bufferedCommands ]
    BY <2>1 DEF SystemsInv, SystemsTypeOK, PeerRecords, UserRecords
  <2> QED BY <1>0, <1>1, <1>3, <2>2, <2>3 DEF Remote!RequestFails
<1>4. ASSUME NEW id \in Ids, NEW notify \in BOOLEAN, Remote!CloseConnection(id, notify) PROVE SystemsInv'
  <2> DEFINE commands == Append(peer.bufferedCommands, [ playerId |-> id, notify |-> notify ])
  <2>1. commands \in Seq(Commands)
    BY <1>0 DEF Commands
  <2>2. peer' = [ [ peer EXCEPT !.requests = peer.requests ] EXCEPT !.bufferedCommands = commands ]
    BY <1>4 DEF SystemsInv, SystemsTypeOK, PeerRecords, UserRecords, Remote!CloseConnection
  <2> QED BY <1>0, <1>1, <1>4, <2>1, <2>2 DEF Remote!CloseConnection
<1>5. ASSUME Remote!Disconnect PROVE SystemsInv'
  <2>1. << >> \in Lookups /\ DOMAIN << >> = {} /\ << >> \in Seq(Commands)
    BY NoLookup
  <2>2. Remote!Blank \in RemoteSystem /\ ~Remote!Blank.isActive
    BY DEF Remote!Blank, RemoteSystem, Modes, Remote!UNASSIGNED_PLAYER_ID
  <2>3. SystemsTypeOK'
    BY <1>5, <2>1, <2>2 DEF SystemsTypeOK, PeerRecords, UserRecords, Remote!Disconnect
  <2>4. \A j \in Remote!Slots : ~Remote!Active(j)'
    BY <1>5, <2>2 DEF Remote!Disconnect, Remote!Active
  <2> QED BY <1>5, <2>1, <2>3, <2>4 DEF Remote!Disconnect, SystemsInv, Looked, Asked, Told
<1> QED BY <1>2, <1>3, <1>4, <1>5

LEMMA ActiveIsLooked ==
  ASSUME SystemsInv, NEW i \in Remote!Slots, Remote!Active(i)
  PROVE  /\ Remote!Player(i) \in Ids /\ Remote!Player(i) \in DOMAIN peer.lookup
         /\ peer.lookup[Remote!Player(i)] = i
  BY DEF SystemsInv, SystemsTypeOK, PeerRecords, UserRecords, Looked, Lookups

LEMMA LookedIsActive ==
  ASSUME SystemsInv, NEW id \in Ids
  PROVE  LET i == Remote!GetRemoteSystemFromPlayerID(id, TRUE, TRUE)
         IN  IF id \in DOMAIN peer.lookup
             THEN i = peer.lookup[id] /\ i \in Remote!Slots /\ Remote!Active(i) /\ i # -1 /\ Remote!Player(i) = id
             ELSE i = -1
<1>1. Remote!GetRemoteSystemFromPlayerID(id, TRUE, TRUE) = IF id \in DOMAIN peer.lookup THEN peer.lookup[id] ELSE -1
  BY DEF Remote!GetRemoteSystemFromPlayerID, Remote!GetIndexFromPlayerID
<1>2. id \in DOMAIN peer.lookup => peer.lookup[id] \in Remote!Slots /\ peer.lookup[id] # -1
  BY DEF SystemsInv, SystemsTypeOK, PeerRecords, UserRecords, Lookups, Remote!Slots
<1> QED BY <1>1, <1>2 DEF SystemsInv, Looked

LEMMA ModeType ==
  ASSUME SystemsInv, NEW i \in Remote!Slots, NEW m \in Modes, NEW commands \in Seq(Commands),
         peer' = [ [ peer EXCEPT !.bufferedCommands = commands ] EXCEPT !.remoteSystemList[i].connectMode = m ],
         user' \in UserRecords
  PROVE  /\ SystemsTypeOK'
         /\ peer'.remoteSystemList = [ peer.remoteSystemList EXCEPT ![i].connectMode = m ]
         /\ peer'.lookup = peer.lookup
<1>1. [ peer.remoteSystemList EXCEPT ![i].connectMode = m ] \in [ Remote!Slots -> RemoteSystem ]
  BY DEF SystemsInv, SystemsTypeOK, PeerRecords, UserRecords, RemoteSystem
<1>2. peer' = [ peer EXCEPT !.bufferedCommands = commands,
                            !.remoteSystemList = [ peer.remoteSystemList EXCEPT ![i].connectMode = m ] ]
  BY DEF SystemsInv, SystemsTypeOK, PeerRecords, UserRecords
<1> QED BY <1>1, <1>2 DEF SystemsInv, SystemsTypeOK, PeerRecords, UserRecords

LEMMA CloseType ==
  ASSUME SystemsInv, NEW id \in Ids, NEW commands \in Seq(Commands),
         peer' = Remote!Closed([ peer EXCEPT !.bufferedCommands = commands ], id),
         user' \in UserRecords
  PROVE  /\ SystemsTypeOK'
         /\ id \in DOMAIN peer.lookup =>
              /\ peer'.remoteSystemList = [ peer.remoteSystemList EXCEPT ![peer.lookup[id]].isActive = FALSE ]
              /\ peer'.lookup = [ k \in DOMAIN peer.lookup \ { id } |-> peer.lookup[k] ]
         /\ id \notin DOMAIN peer.lookup =>
              peer'.remoteSystemList = peer.remoteSystemList /\ peer'.lookup = peer.lookup
<1> DEFINE p == [ peer EXCEPT !.bufferedCommands = commands ]
           list == [ peer.remoteSystemList EXCEPT ![peer.lookup[id]].isActive = FALSE ]
           lookup == [ k \in DOMAIN peer.lookup \ { id } |-> peer.lookup[k] ]
<1>1. /\ p.lookup = peer.lookup /\ p.remoteSystemList = peer.remoteSystemList
      /\ p \in PeerRecords
  BY DEF SystemsInv, SystemsTypeOK, PeerRecords, UserRecords
<1>2. peer' = IF id \in DOMAIN peer.lookup
              THEN [ p EXCEPT !.remoteSystemList[peer.lookup[id]].isActive = FALSE, !.lookup = lookup ] ELSE p
  <2> HIDE DEF p
  <2> QED BY <1>1, ClosedIs DEF SystemsInv, p
<1>3. CASE id \in DOMAIN peer.lookup
  <2>1. list \in [ Remote!Slots -> RemoteSystem ]
    BY <1>3 DEF SystemsInv, SystemsTypeOK, PeerRecords, UserRecords, RemoteSystem, Lookups
  <2>2. lookup \in Lookups
    <3>1. PICK D \in SUBSET Ids : peer.lookup \in [ D -> Remote!Slots ]
      BY DEF SystemsInv, SystemsTypeOK, PeerRecords, UserRecords, Lookups
    <3>2. lookup \in [ D \ { id } -> Remote!Slots ]
      BY <3>1
    <3> QED BY <3>1, <3>2 DEF Lookups
  <2>3. peer' = [ p EXCEPT !.remoteSystemList = list, !.lookup = lookup ]
    <3> HIDE DEF p, lookup
    <3> QED BY <1>1, <1>2, <1>3
  <2> HIDE DEF p, list, lookup
  <2>4. SystemsTypeOK' /\ peer'.remoteSystemList = list /\ peer'.lookup = lookup
    BY <1>1, <2>1, <2>2, <2>3 DEF SystemsTypeOK, PeerRecords, UserRecords
  <2> QED BY <1>3, <2>4 DEF list, lookup
<1>4. CASE id \notin DOMAIN peer.lookup
  <2> HIDE DEF p, lookup
  <2> QED BY <1>1, <1>2, <1>4 DEF SystemsTypeOK, PeerRecords, UserRecords
<1> QED BY <1>3, <1>4

\* A reply finds the system connected to us.
LEMMA RequestedStep ==
  ASSUME SystemsInv, SystemsTypeOK', NEW i \in Remote!Slots, Remote!Active(i), NEW s \in RemoteSystem,
         s.playerId = Remote!Player(i), s.isActive, s.connectMode = "REQUESTED_CONNECTION", s.weInitiatedTheConnection,
         peer'.remoteSystemList = [ peer.remoteSystemList EXCEPT ![i] = s ],
         peer'.lookup = peer.lookup, user' = user
  PROVE  SystemsInv'
<1>1. \A j \in Remote!Slots : peer'.remoteSystemList[j] = IF j = i THEN s ELSE peer.remoteSystemList[j]
  BY DEF SystemsInv, SystemsTypeOK, PeerRecords, UserRecords
<1>2. \A j \in Remote!Slots :
         /\ Remote!Active(j)' = Remote!Active(j) /\ Remote!Player(j)' = Remote!Player(j)
         /\ j # i => Remote!Mode(j)' = Remote!Mode(j)
         /\ j # i => peer'.remoteSystemList[j].weInitiatedTheConnection =
                       peer.remoteSystemList[j].weInitiatedTheConnection
         /\ j = i => Remote!Mode(j)' = "REQUESTED_CONNECTION" /\ peer'.remoteSystemList[j].weInitiatedTheConnection
  BY <1>1 DEF Remote!Active, Remote!Player, Remote!Mode, SystemsInv, SystemsTypeOK, PeerRecords, UserRecords,
               RemoteSystem
<1>3. \A k \in DOMAIN peer.lookup : peer.lookup[k] \in Remote!Slots
  BY DEF SystemsInv, SystemsTypeOK, PeerRecords, UserRecords, Lookups
<1>4. Looked'
  BY <1>2, <1>3 DEF SystemsInv, Looked
<1>5. Asked'
  BY <1>2 DEF SystemsInv, Asked
<1>6. Told'
  BY <1>2, <1>3 DEF SystemsInv, Told, Ending
<1> QED BY <1>4, <1>5, <1>6 DEF SystemsInv

LEMMA NetworkThread ==
  ASSUME PeersAssumption, SystemsInv,
         \/ Remote!RunCommand
         \/ \E i \in Remote!Slots : Remote!Close(i) \/ Remote!NonsenseData(i)
  PROVE  SystemsInv'
<1>0. /\ user \in UserRecords
      /\ peer.bufferedCommands \in Seq(Commands)
      /\ [ peer EXCEPT !.bufferedCommands = peer.bufferedCommands ] = peer
      /\ \A id \in Ids : Remote!Gone(id) \in UserRecords
  BY DEF SystemsInv, SystemsTypeOK, PeerRecords, UserRecords, Remote!Gone
<1>1. ASSUME Remote!RunCommand PROVE SystemsInv'
  <2> DEFINE command == Head(peer.bufferedCommands)
             commands == Tail(peer.bufferedCommands)
             id == command.playerId
             i == Remote!GetRemoteSystemFromPlayerID(id, TRUE, TRUE)
             rest == [ peer EXCEPT !.bufferedCommands = commands ]
  <2>1. command \in Commands /\ commands \in Seq(Commands)
    <3>1. peer.bufferedCommands # << >>
      BY <1>1 DEF Remote!RunCommand
    <3>2. ASSUME NEW S, NEW q \in Seq(S), q # << >> PROVE Head(q) \in S /\ Tail(q) \in Seq(S)
      BY <3>2
    <3> QED BY <1>0, <3>1, <3>2
  <2>2. IF command.notify
        THEN /\ peer' = IF i = -1 THEN rest ELSE [ rest EXCEPT !.remoteSystemList[i].connectMode = "DISCONNECT_ASAP" ]
             /\ user' = user
        ELSE peer' = Remote!Closed(rest, id) /\ user' = Remote!Gone(id)
    BY <1>1 DEF Remote!RunCommand
  <2>3. id \in Ids /\ command.notify \in BOOLEAN
    BY <2>1 DEF Commands
  <2> HIDE DEF command, commands
  <2>4. CASE command.notify /\ id \in DOMAIN peer.lookup
    <3>1. i = peer.lookup[id] /\ i \in Remote!Slots /\ Remote!Active(i) /\ i # -1 /\ Remote!Player(i) = id
      BY <2>4, <2>3, LookedIsActive
    <3>2. peer' = [ rest EXCEPT !.remoteSystemList[i].connectMode = "DISCONNECT_ASAP" ] /\ user' = user
      BY <2>2, <2>4, <3>1
    <3>3. "DISCONNECT_ASAP" \in Modes
      BY DEF Modes
    <3> HIDE DEF i
    <3>4. /\ SystemsTypeOK'
          /\ peer'.remoteSystemList = [ peer.remoteSystemList EXCEPT ![i].connectMode = "DISCONNECT_ASAP" ]
          /\ peer'.lookup = peer.lookup
      BY <1>0, <2>1, <3>1, <3>2, <3>3, ModeType
    <3> QED BY <3>1, <3>2, <3>3, <3>4, ModeStep
  <2>5. CASE command.notify /\ id \notin DOMAIN peer.lookup
    <3>1. peer' = rest /\ user' = user
      BY <2>2, <2>5, <2>3, LookedIsActive
    <3>2. SystemsTypeOK' /\ peer'.remoteSystemList = peer.remoteSystemList /\ peer'.lookup = peer.lookup
      BY <2>1, <3>1 DEF SystemsInv, SystemsTypeOK, PeerRecords, UserRecords
    <3> QED BY <3>1, <3>2, OtherStep
  <2>6. CASE ~command.notify
    <3>1. peer' = Remote!Closed(rest, id) /\ user' = Remote!Gone(id) /\ id \in Ids
      BY <2>2, <2>6, <2>3
    <3> HIDE DEF id
    <3>2. /\ SystemsTypeOK'
          /\ id \in DOMAIN peer.lookup =>
              /\ peer'.remoteSystemList = [ peer.remoteSystemList EXCEPT ![peer.lookup[id]].isActive = FALSE ]
              /\ peer'.lookup = [ k \in DOMAIN peer.lookup \ { id } |-> peer.lookup[k] ]
          /\ id \notin DOMAIN peer.lookup =>
              peer'.remoteSystemList = peer.remoteSystemList /\ peer'.lookup = peer.lookup
      BY <1>0, <2>1, <3>1, CloseType
    <3>3. CASE id \in DOMAIN peer.lookup
      BY <3>1, <3>2, <3>3, CloseStep
    <3>4. CASE id \notin DOMAIN peer.lookup
      BY <3>1, <3>2, <3>4, GoneStep
    <3> QED BY <3>3, <3>4
  <2> QED BY <2>4, <2>5, <2>6, <2>3
<1>2. ASSUME NEW i \in Remote!Slots, Remote!Close(i) \/ Remote!NonsenseData(i) PROVE SystemsInv'
  <2> DEFINE id == Remote!Player(i)
  <2>1. id \in Ids /\ id \in DOMAIN peer.lookup /\ peer.lookup[id] = i
    BY <1>2, ActiveIsLooked DEF Remote!Close, Remote!NonsenseData
  <2>2. /\ peer' = Remote!Closed(peer, id)
        /\ \/ user' = user /\ Remote!Mode(i) \notin Ending
           \/ user' = Remote!Gone(id)
    BY <1>2 DEF Remote!Close, Remote!NonsenseData, Ending
  <2>3. user' \in UserRecords
    BY <1>0, <2>1, <2>2
  <2> HIDE DEF id
  <2>4. /\ SystemsTypeOK'
        /\ peer'.remoteSystemList = [ peer.remoteSystemList EXCEPT ![peer.lookup[id]].isActive = FALSE ]
        /\ peer'.lookup = [ k \in DOMAIN peer.lookup \ { id } |-> peer.lookup[k] ]
    BY <1>0, <2>1, <2>2, <2>3, CloseType
  <2> QED BY <2>1, <2>2, <2>4, CloseStep
<1> QED BY <1>1, <1>2

LEMMA AssignType ==
  ASSUME PeersAssumption, SystemsInv, Remote!Free # {}, NEW id \in Ids, id \notin DOMAIN peer.lookup, NEW mode \in Modes
  PROVE  LET i == Remote!Min(Remote!Free)
             p == Remote!AssignPlayerIDToRemoteSystemList(peer, id, mode)
             s == [ playerId |-> id, isActive |-> TRUE, connectMode |-> mode, weInitiatedTheConnection |-> FALSE ]
         IN  /\ i \in Remote!Slots /\ ~Remote!Active(i)
             /\ p.remoteSystemList = [ peer.remoteSystemList EXCEPT ![i] = s ]
             /\ p.lookup = [ k \in DOMAIN peer.lookup \cup { id } |-> IF k = id THEN i ELSE peer.lookup[k] ]
             /\ p \in PeerRecords
<1> DEFINE i == Remote!Min(Remote!Free)
           s == [ playerId |-> id, isActive |-> TRUE, connectMode |-> mode, weInitiatedTheConnection |-> FALSE ]
           lookup == [ k \in DOMAIN peer.lookup \cup { id } |-> IF k = id THEN i ELSE peer.lookup[k] ]
<1>1. i \in Remote!Slots /\ ~Remote!Active(i)
  BY LeastFree DEF SystemsInv
<1>2. s \in RemoteSystem
  BY DEF RemoteSystem
<1>3. lookup \in Lookups
  <2>1. PICK D \in SUBSET Ids : peer.lookup \in [ D -> Remote!Slots ]
    BY DEF SystemsInv, SystemsTypeOK, PeerRecords, UserRecords, Lookups
  <2> HIDE DEF i
  <2>2. lookup \in [ D \cup { id } -> Remote!Slots ]
    BY <1>1, <2>1
  <2> QED BY <2>1, <2>2 DEF Lookups
<1>4. Remote!AssignPlayerIDToRemoteSystemList(peer, id, mode)
        = [ peer EXCEPT !.remoteSystemList = [ peer.remoteSystemList EXCEPT ![i] = s ], !.lookup = lookup ]
  BY DEF Remote!AssignPlayerIDToRemoteSystemList, SystemsInv, SystemsTypeOK, PeerRecords, UserRecords
<1>5. [ peer.remoteSystemList EXCEPT ![i] = s ] \in [ Remote!Slots -> RemoteSystem ]
  <2> HIDE DEF i, s
  <2> QED BY <1>1, <1>2 DEF SystemsInv, SystemsTypeOK, PeerRecords, UserRecords
<1> HIDE DEF lookup, s
<1>6. LET p == [ peer EXCEPT !.remoteSystemList = [ peer.remoteSystemList EXCEPT ![i] = s ], !.lookup = lookup ]
      IN  /\ p.remoteSystemList = [ peer.remoteSystemList EXCEPT ![i] = s ]
          /\ p.lookup = lookup
          /\ p \in PeerRecords
  BY <1>3, <1>5 DEF SystemsInv, SystemsTypeOK, PeerRecords, UserRecords
<1> QED BY <1>1, <1>4, <1>6 DEF lookup, s

LEMMA DatagramsOfOthers ==
  ASSUME PeersAssumption, SystemsInv, NEW id \in Ids,
         Remote!OpenConnectionRequest(id) \/ Remote!OpenConnectionReply(id)
  PROVE  SystemsInv'
<1> DEFINE i == Remote!Min(Remote!Free)
           t == Remote!GetRemoteSystemFromPlayerID(id, TRUE, TRUE)
           p == Remote!AssignPlayerIDToRemoteSystemList(peer, id, "UNVERIFIED_SENDER")
           s == [ playerId |-> id, isActive |-> TRUE, connectMode |-> "UNVERIFIED_SENDER",
                  weInitiatedTheConnection |-> FALSE ]
           lookup == [ k \in DOMAIN peer.lookup \cup { id } |-> IF k = id THEN i ELSE peer.lookup[k] ]
<1>0. "UNVERIFIED_SENDER" \in Modes /\ "REQUESTED_CONNECTION" \in Modes /\ s \in RemoteSystem
  BY DEF Modes, RemoteSystem
<1>1. ASSUME id \notin DOMAIN peer.lookup, Remote!Free # {}
      PROVE  /\ i \in Remote!Slots /\ ~Remote!Active(i)
             /\ p.remoteSystemList = [ peer.remoteSystemList EXCEPT ![i] = s ]
             /\ p.lookup = lookup
             /\ p \in PeerRecords
  BY <1>0, <1>1, AssignType
<1>2. CASE Remote!OpenConnectionRequest(id)
  <2>1. t = -1 /\ Remote!Free # {} /\ peer' = p /\ user' = [ user EXCEPT !.verified = @ \ { id } ]
    BY <1>2 DEF Remote!OpenConnectionRequest
  <2>2. id \notin DOMAIN peer.lookup
    BY <2>1, LookedIsActive
  <2> HIDE DEF i, t, p, s, lookup
  <2>3. user' \in UserRecords
    BY <2>1 DEF SystemsInv, SystemsTypeOK, PeerRecords, UserRecords
  <2>4. SystemsTypeOK'
    BY <1>1, <2>1, <2>2, <2>3 DEF SystemsTypeOK, PeerRecords, UserRecords
  <2>5. s.playerId = id /\ s.isActive /\ s.connectMode = "UNVERIFIED_SENDER"
    BY DEF s
  <2>6. peer'.lookup = [ k \in DOMAIN peer.lookup \cup { id } |-> IF k = id THEN i ELSE peer.lookup[k] ]
    BY <1>1, <2>1, <2>2 DEF lookup
  <2> QED BY <1>0, <1>1, <2>1, <2>2, <2>4, <2>5, <2>6, AssignStep
<1>3. CASE Remote!OpenConnectionReply(id)
  <2> DEFINE full == t = -1 /\ Remote!Free = {}
             known == IF t # -1 \/ full THEN peer ELSE p
             asked == IF full THEN known
                      ELSE [ known EXCEPT !.remoteSystemList[known.lookup[id]] =
                               [ @ EXCEPT !.connectMode = "REQUESTED_CONNECTION", !.weInitiatedTheConnection = TRUE ] ]
  <2>1. peer' = [ asked EXCEPT !.requests[id] = 0 ] /\ user' = user
    BY <1>3 DEF Remote!OpenConnectionReply
  <2> HIDE DEF asked
  <2>2. CASE full
    <3>1. asked = peer
      BY <2>2 DEF asked
    <3>2. SystemsTypeOK' /\ peer'.remoteSystemList = peer.remoteSystemList /\ peer'.lookup = peer.lookup
      BY <2>1, <3>1 DEF SystemsInv, SystemsTypeOK, PeerRecords, UserRecords
    <3> QED BY <2>1, <3>2, OtherStep
  <2>3. CASE t # -1
    <3>1. t = peer.lookup[id] /\ t \in Remote!Slots /\ Remote!Active(t) /\ Remote!Player(t) = id
      BY <2>3, LookedIsActive
    <3>2. asked = [ peer EXCEPT !.remoteSystemList[peer.lookup[id]] =
                               [ @ EXCEPT !.connectMode = "REQUESTED_CONNECTION", !.weInitiatedTheConnection = TRUE ] ]
      BY <2>3 DEF asked
    <3> DEFINE r == [ peer.remoteSystemList[t] EXCEPT !.connectMode = "REQUESTED_CONNECTION",
                                                      !.weInitiatedTheConnection = TRUE ]
    <3> HIDE DEF t
    <3>3. /\ r \in RemoteSystem /\ r.playerId = Remote!Player(t) /\ r.isActive
          /\ r.connectMode = "REQUESTED_CONNECTION" /\ r.weInitiatedTheConnection
      <4> DEFINE q == peer.remoteSystemList[t]
      <4>1. q \in RemoteSystem /\ q.isActive /\ q.playerId = Remote!Player(t)
        BY <3>1 DEF SystemsInv, SystemsTypeOK, PeerRecords, Remote!Active, Remote!Player
      <4> HIDE DEF q
      <4>2. r = [ q EXCEPT !.connectMode = "REQUESTED_CONNECTION", !.weInitiatedTheConnection = TRUE ]
        BY DEF q
      <4> HIDE DEF r
      <4> QED BY <1>0, <4>1, <4>2 DEF RemoteSystem
    <3>4. asked = [ peer EXCEPT !.remoteSystemList = [ peer.remoteSystemList EXCEPT ![t] = r ] ]
      BY <3>1, <3>2 DEF SystemsInv, SystemsTypeOK, PeerRecords, UserRecords
    <3> HIDE DEF r
    <3>5. /\ [ peer.remoteSystemList EXCEPT ![t] = r ] \in [ Remote!Slots -> RemoteSystem ]
          /\ [ peer.requests EXCEPT ![id] = 0 ] \in [ Ids -> Nat ]
      BY <3>1, <3>3 DEF SystemsInv, SystemsTypeOK, PeerRecords, UserRecords
    <3>6. peer' = [ peer EXCEPT !.remoteSystemList = [ peer.remoteSystemList EXCEPT ![t] = r ],
                                !.requests = [ peer.requests EXCEPT ![id] = 0 ] ]
      BY <2>1, <3>4 DEF SystemsInv, SystemsTypeOK, PeerRecords, UserRecords
    <3>7. /\ SystemsTypeOK' /\ peer'.lookup = peer.lookup
          /\ peer'.remoteSystemList = [ peer.remoteSystemList EXCEPT ![t] = r ]
      BY <2>1, <3>5, <3>6 DEF SystemsInv, SystemsTypeOK, PeerRecords, UserRecords
    <3> QED BY <2>1, <3>1, <3>3, <3>7, RequestedStep
  <2>4. CASE t = -1 /\ Remote!Free # {}
    <3>0. id \notin DOMAIN peer.lookup
      BY <2>4, LookedIsActive
    <3> DEFINE r == [ s EXCEPT !.connectMode = "REQUESTED_CONNECTION", !.weInitiatedTheConnection = TRUE ]
    <3>1. asked = [ p EXCEPT !.remoteSystemList[p.lookup[id]] =
                               [ @ EXCEPT !.connectMode = "REQUESTED_CONNECTION", !.weInitiatedTheConnection = TRUE ] ]
      BY <2>4 DEF asked
    <3>2. s.playerId = id /\ s.isActive = TRUE
      OBVIOUS
    <3> HIDE DEF i, t, p, s
    <3>3. r \in RemoteSystem /\ r.playerId = id /\ r.isActive /\ r.connectMode = "REQUESTED_CONNECTION"
          /\ r.weInitiatedTheConnection
      BY <1>0, <3>2 DEF RemoteSystem, Modes
    <3>4. p.lookup[id] = i
      BY <1>1, <2>4, <3>0 DEF lookup
    <3>5. asked = [ p EXCEPT !.remoteSystemList = [ peer.remoteSystemList EXCEPT ![i] = r ] ]
      <4>1. p.remoteSystemList[i] = s
        BY <1>1, <2>4, <3>0 DEF SystemsInv, SystemsTypeOK, PeerRecords, UserRecords
      <4>2. [ p.remoteSystemList EXCEPT ![i] = r ] = [ peer.remoteSystemList EXCEPT ![i] = r ]
        BY <1>1, <2>4, <3>0 DEF SystemsInv, SystemsTypeOK, PeerRecords, UserRecords
      <4> QED BY <3>1, <3>4, <4>1, <4>2
    <3> HIDE DEF lookup, r
    <3>6. [ peer.remoteSystemList EXCEPT ![i] = r ] \in [ Remote!Slots -> RemoteSystem ]
      BY <1>1, <2>4, <3>0, <3>3 DEF SystemsInv, SystemsTypeOK, PeerRecords, UserRecords
    <3>7. /\ SystemsTypeOK'
          /\ peer'.remoteSystemList = [ peer.remoteSystemList EXCEPT ![i] = r ]
          /\ peer'.lookup = lookup
      BY <1>1, <2>1, <2>4, <3>0, <3>5, <3>6 DEF SystemsInv, SystemsTypeOK, PeerRecords, UserRecords
    <3>8. peer'.lookup = [ k \in DOMAIN peer.lookup \cup { id } |-> IF k = id THEN i ELSE peer.lookup[k] ]
      BY <3>7 DEF lookup
    <3> QED BY <1>1, <2>1, <2>4, <3>0, <3>3, <3>7, <3>8, AssignStep
  <2> QED BY <2>2, <2>3, <2>4
<1> QED BY <1>2, <1>3

LEMMA MessagesOfOthers ==
  ASSUME SystemsInv, NEW i \in Remote!Slots,
         \/ Remote!NewIncomingConnection(i) \/ Remote!ConnectionRequestAccepted(i)
         \/ Remote!DisconnectionNotification(i)
         \/ \E password \in BOOLEAN : Remote!ConnectionRequest(i, password)
  PROVE  SystemsInv'
<1> DEFINE id == Remote!Player(i)
<1>0. Remote!Active(i)
  BY DEF Remote!NewIncomingConnection, Remote!ConnectionRequestAccepted, Remote!DisconnectionNotification,
         Remote!ConnectionRequest
<1>1. id \in Ids
  BY <1>0, ActiveIsLooked
<1>2. ASSUME NEW m \in Modes, peer' = Remote!SetMode(i, m),
             user' \in UserRecords
      PROVE  /\ SystemsTypeOK'
             /\ peer'.remoteSystemList = [ peer.remoteSystemList EXCEPT ![i].connectMode = m ]
             /\ peer'.lookup = peer.lookup
  <2>1. /\ [ peer EXCEPT !.bufferedCommands = peer.bufferedCommands ] = peer
        /\ peer.bufferedCommands \in Seq(Commands)
    BY DEF SystemsInv, SystemsTypeOK, PeerRecords, UserRecords
  <2>2. peer' = [ [ peer EXCEPT !.bufferedCommands = peer.bufferedCommands ]
                    EXCEPT !.remoteSystemList[i].connectMode = m ]
    BY <1>2, <2>1 DEF Remote!SetMode
  <2> QED BY <1>2, <2>1, <2>2, ModeType
<1>3. { "CONNECTED", "DISCONNECT_ASAP", "DISCONNECT_ON_NO_ACK", "DISCONNECT_ASAP_SILENTLY",
        "HANDLING_CONNECTION_REQUEST" } \subseteq Modes
  BY DEF Modes
<1>4. ASSUME peer' = Remote!SetMode(i, "CONNECTED"), user' = Remote!Announced(id),
             Remote!Mode(i) \in { "HANDLING_CONNECTION_REQUEST", "REQUESTED_CONNECTION" }
      PROVE  SystemsInv'
  <2>1. user' \in UserRecords
    BY <1>1, <1>4 DEF Remote!Announced, SystemsInv, SystemsTypeOK, PeerRecords, UserRecords
  <2>2. /\ SystemsTypeOK' /\ peer'.lookup = peer.lookup
        /\ peer'.remoteSystemList = [ peer.remoteSystemList EXCEPT ![i].connectMode = "CONNECTED" ]
    BY <1>2, <1>3, <1>4, <2>1
  <2> QED BY <1>0, <1>3, <1>4, <2>2, ModeStep
<1>5. ASSUME NEW m \in { "DISCONNECT_ASAP", "DISCONNECT_ON_NO_ACK" }, peer' = Remote!SetMode(i, m), user' = user
      PROVE  SystemsInv'
  <2>1. user' \in UserRecords
    BY <1>5 DEF SystemsInv, SystemsTypeOK, PeerRecords, UserRecords
  <2>2. /\ SystemsTypeOK' /\ peer'.lookup = peer.lookup
        /\ peer'.remoteSystemList = [ peer.remoteSystemList EXCEPT ![i].connectMode = m ]
    BY <1>2, <1>3, <1>5, <2>1
  <2> QED BY <1>0, <1>3, <1>5, <2>2, ModeStep
<1>6. ASSUME Remote!NewIncomingConnection(i) PROVE SystemsInv'
  BY <1>4, <1>6 DEF Remote!NewIncomingConnection
<1>7. ASSUME Remote!ConnectionRequestAccepted(i) PROVE SystemsInv'
  BY <1>4, <1>5, <1>7 DEF Remote!ConnectionRequestAccepted
<1>8. ASSUME Remote!DisconnectionNotification(i) PROVE SystemsInv'
  BY <1>5, <1>8 DEF Remote!DisconnectionNotification
<1>9. ASSUME NEW password \in BOOLEAN, Remote!ConnectionRequest(i, password) PROVE SystemsInv'
  <2> DEFINE refused == ~Remote!AllowIncomingConnections \/ ~password
             untold == user.untold \cup (user.connected \cap { id })
  <2>1. /\ peer' = Remote!SetMode(i, IF refused THEN "DISCONNECT_ASAP_SILENTLY" ELSE "HANDLING_CONNECTION_REQUEST")
        /\ user' = [ user EXCEPT !.untold = untold,
                                 !.verified = IF refused THEN @ ELSE @ \cup { id } ]
    BY <1>9 DEF Remote!ConnectionRequest, Remote!ParseConnectionRequestPacket
  <2> HIDE DEF refused
  <2>2. CASE refused
    <3>1. peer' = Remote!SetMode(i, "DISCONNECT_ASAP_SILENTLY") /\ user' = [ user EXCEPT !.untold = untold ]
      BY <2>1, <2>2 DEF SystemsInv, SystemsTypeOK, PeerRecords, UserRecords
    <3>2. user' \in UserRecords
      BY <3>1 DEF SystemsInv, SystemsTypeOK, PeerRecords, UserRecords
    <3>3. /\ SystemsTypeOK' /\ peer'.lookup = peer.lookup
          /\ peer'.remoteSystemList = [ peer.remoteSystemList EXCEPT ![i].connectMode = "DISCONNECT_ASAP_SILENTLY" ]
      BY <1>2, <1>3, <3>1, <3>2
    <3> QED BY <1>0, <1>3, <3>1, <3>3, ModeStep
  <2>3. CASE ~refused
    <3>1. /\ peer' = Remote!SetMode(i, "HANDLING_CONNECTION_REQUEST")
          /\ user' = [ user EXCEPT !.untold = untold, !.verified = @ \cup { id } ]
      BY <2>1, <2>3
    <3>2. user' \in UserRecords
      BY <1>1, <3>1 DEF SystemsInv, SystemsTypeOK, PeerRecords, UserRecords
    <3>3. /\ SystemsTypeOK' /\ peer'.lookup = peer.lookup
          /\ peer'.remoteSystemList = [ peer.remoteSystemList EXCEPT ![i].connectMode = "HANDLING_CONNECTION_REQUEST" ]
      BY <1>2, <1>3, <3>1, <3>2
    <3> QED BY <1>0, <1>3, <3>1, <3>3, ModeStep
  <2> QED BY <2>2, <2>3
<1> QED BY <1>6, <1>7, <1>8, <1>9

-----------------------------------------------------------------------------
LEMMA SystemsInvHolds ==
  ASSUME PeersAssumption
  PROVE  Remote!Spec => []SystemsInv
<1>1. Remote!Init => SystemsInv
  BY SystemsInit
<1>2. SystemsInv /\ [Remote!Next]_Remote!vars => SystemsInv'
  <2> SUFFICES ASSUME SystemsInv, [Remote!Next]_Remote!vars PROVE SystemsInv'
    OBVIOUS
  <2>1. CASE UNCHANGED Remote!vars
    BY <2>1 DEF Remote!vars, SystemsInv, SystemsTypeOK, PeerRecords, UserRecords, Looked, Asked, Told,
               Remote!Active, Remote!Player, Remote!Mode
  <2>2. CASE Remote!Next
    BY <2>2, UserThread, NetworkThread, DatagramsOfOthers, MessagesOfOthers DEF Remote!Next
  <2> QED BY <2>1, <2>2
<1> QED BY <1>1, <1>2, PTL DEF Remote!Spec

\* Whatever the other systems send and the user asks, the tree of the network
\* thread and the list a user thread scans agree, no system has two slots, and
\* a connected one is one we asked or one that gave the password
\* (AssignPlayerIDToRemoteSystemList, CloseConnectionInternal).
THEOREM SystemsAgree ==
  ASSUME PeersAssumption
  PROVE  Remote!Spec => []Remote!WellFormed
<1>1. SystemsInv => Remote!WellFormed
  <2> SUFFICES ASSUME SystemsInv PROVE Remote!WellFormed
    OBVIOUS
  <2>1. ASSUME NEW id \in Ids
        PROVE  Remote!Cardinality({ i \in Remote!Slots : Remote!Active(i) /\ Remote!Player(i) = id }) <= 1
    <3> DEFINE slots == { i \in Remote!Slots : Remote!Active(i) /\ Remote!Player(i) = id }
    <3>1. slots = {} \/ slots = { peer.lookup[id] }
      BY DEF SystemsInv, Looked
    <3>2. Cardinality(slots) \in { 0, 1 }
      <4> HIDE DEF slots
      <4> QED BY <3>1, FS_EmptySet, FS_Singleton
    <3> QED BY <3>2, SystemsCardinality
  <2> QED BY <2>1, IndexIsLooked DEF SystemsInv, Asked, Remote!WellFormed
<1> QED BY <1>1, SystemsInvHolds, PTL

\* A system that is connected was announced to the user, and one announced is
\* in a mode whose end is reported, but where its own later request took that
\* away (ParseConnectionRequestPacket, RunUpdateCycle).
THEOREM SystemsAnnounced ==
  ASSUME PeersAssumption
  PROVE  Remote!Spec => []Remote!Faithful
<1>1. SystemsInv => Remote!Faithful
  <2> SUFFICES ASSUME SystemsInv PROVE Remote!Faithful
    OBVIOUS
  <2>1. Remote!GetConnectionList \subseteq user.connected
    BY DEF SystemsInv, Told, Remote!GetConnectionList
  <2>2. ASSUME NEW id \in user.connected \ user.untold
        PROVE  LET i == Remote!GetIndexFromPlayerID(id, FALSE)
               IN  i # -1 /\ Remote!Mode(i) \in Ending
    <3>1. id \in Ids /\ id \in DOMAIN peer.lookup /\ Remote!Mode(peer.lookup[id]) \in Ending
      BY <2>2 DEF SystemsInv, SystemsTypeOK, PeerRecords, UserRecords, Told
    <3>2. peer.lookup[id] # -1
      BY <3>1 DEF SystemsInv, SystemsTypeOK, PeerRecords, UserRecords, Lookups, Remote!Slots
    <3>3. Remote!GetIndexFromPlayerID(id, FALSE) = peer.lookup[id]
      BY <3>1, IndexIsLooked DEF SystemsInv, Remote!GetIndexFromPlayerID
    <3> QED BY <3>1, <3>2, <3>3
  <2> QED BY <2>1, <2>2 DEF Remote!Faithful, Ending
<1> QED BY <1>1, SystemsInvHolds, PTL

-----------------------------------------------------------------------------
(* The identifiers of objects.                                             *)

\* What NetworkIds assumes, for a set of objects that has a number of them.
IdsAssumption == IsFiniteSet(Objects) /\ LastId \in Nat /\ Cardinality(Objects) <= LastId

Trees == UNION { [ D -> Objects ] : D \in SUBSET Named!Ids }
NamedObject == [ alive : BOOLEAN, networkID : Named!Ids, callGenerationCode : BOOLEAN ]

ObjectsTypeOK ==
    /\ registry \in [ IDTree : Trees, staticItemID : Named!Ids, objects : [ Objects -> NamedObject ] ]
    /\ past \in [ robbed : SUBSET Objects, crashed : SUBSET Objects ]

\* What is found has the identifier, except by the one that means none.
Found ==
    \A id \in DOMAIN registry.IDTree : id # LastId =>
        Named!Alive(registry.IDTree[id]) /\ registry.objects[registry.IDTree[id]].networkID = id

\* Who was not robbed is found.
Kept ==
    \A o \in Objects : Named!Alive(o) /\ registry.objects[o].networkID # LastId /\ o \notin past.robbed =>
        /\ registry.objects[o].networkID \in DOMAIN registry.IDTree
        /\ registry.IDTree[registry.objects[o].networkID] = o

\* An object whose identifier is still to be generated has none.
Fresh == \A o \in Objects : registry.objects[o].callGenerationCode => registry.objects[o].networkID = LastId

ObjectsInv == ObjectsTypeOK /\ Found /\ Kept /\ Fresh /\ past.crashed \subseteq past.robbed

\* What the library functions give in the instance, and the tree's own.
LEMMA NamedCardinality ==
  ASSUME NEW S
  PROVE  Named!Cardinality(S) = Cardinality(S)
  BY DEF Cardinality, Named!Cardinality

LEMMA TreeOf ==
  ASSUME NEW tree \in Trees
  PROVE  /\ DOMAIN tree \subseteq Named!Ids
         /\ \A id \in DOMAIN tree : tree[id] \in Objects
         /\ tree = [ id \in DOMAIN tree |-> tree[id] ]
  BY DEF Trees

LEMMA EmptyTree == << >> \in Trees /\ DOMAIN << >> = {}
<1>1. << >> \in [ {} -> Objects ]
  OBVIOUS
<1>2. {} \in SUBSET Named!Ids
  OBVIOUS
<1> QED BY <1>1, <1>2 DEF Trees

LEMMA DelIs ==
  ASSUME IdsAssumption, NEW tree \in Trees, NEW id \in Named!Ids
  PROVE  /\ Named!Del(tree, id) \in Trees
         /\ DOMAIN Named!Del(tree, id) \subseteq DOMAIN tree \ { id }
         /\ id \in DOMAIN tree => DOMAIN Named!Del(tree, id) = DOMAIN tree \ { id }
         /\ \A i \in DOMAIN Named!Del(tree, id) : Named!Del(tree, id)[i] = tree[i]
<1>1. CASE Named!Cardinality(DOMAIN tree) = 1
  <2>1. Named!Del(tree, id) = << >>
    BY <1>1 DEF Named!Del
  <2>2. PICK x : DOMAIN tree = { x }
    <3>1. IsFiniteSet(Named!Ids) /\ DOMAIN tree \in SUBSET Named!Ids
      <4>1. 0 \in Int /\ LastId \in Int
        BY DEF IdsAssumption
      <4>2. IsFiniteSet(Named!Ids)
        BY <4>1, FS_Interval DEF Named!Ids
      <4> QED BY <4>2, TreeOf
    <3> QED BY <1>1, <3>1, FS_Subset, FS_Singleton, NamedCardinality
  <2> QED BY <2>1, <2>2, EmptyTree
<1>2. CASE Named!Cardinality(DOMAIN tree) # 1
  <2>1. Named!Del(tree, id) = [ i \in DOMAIN tree \ { id } |-> tree[i] ]
    BY <1>2 DEF Named!Del, Named!Restrict
  <2>2. [ i \in DOMAIN tree \ { id } |-> tree[i] ] \in [ DOMAIN tree \ { id } -> Objects ]
    BY TreeOf
  <2>3. DOMAIN tree \ { id } \in SUBSET Named!Ids
    BY TreeOf
  <2>4. [ i \in DOMAIN tree \ { id } |-> tree[i] ] \in Trees
    BY <2>2, <2>3 DEF Trees
  <2> QED BY <2>1, <2>4
<1> QED BY <1>1, <1>2

LEMMA AddIs ==
  ASSUME NEW tree \in Trees, NEW id \in Named!Ids, NEW o \in Objects
  PROVE  /\ Named!Add(tree, id, o) \in Trees
         /\ DOMAIN Named!Add(tree, id, o) = DOMAIN tree \cup { id }
         /\ \A i \in DOMAIN tree \cup { id } : Named!Add(tree, id, o)[i] = IF i = id THEN o ELSE tree[i]
<1>1. Named!Add(tree, id, o) \in [ DOMAIN tree \cup { id } -> Objects ]
  BY TreeOf DEF Named!Add
<1>2. DOMAIN tree \cup { id } \in SUBSET Named!Ids
  BY TreeOf
<1>3. Named!Add(tree, id, o) \in Trees
  BY <1>1, <1>2 DEF Trees
<1> QED BY <1>3 DEF Named!Add

\* While an object has no identifier, there is one that is free.
LEMMA SomeFree ==
  ASSUME IdsAssumption, ObjectsInv, NEW o \in Objects, registry.objects[o].callGenerationCode
  PROVE  \E id \in Named!Ids : id \notin DOMAIN registry.IDTree
<1> SUFFICES ASSUME Named!Ids \subseteq DOMAIN registry.IDTree PROVE FALSE
  OBVIOUS
<1> DEFINE f == [ id \in 1 .. LastId |-> registry.IDTree[id - 1] ]
<1>1. \A id \in 1 .. LastId : id - 1 \in DOMAIN registry.IDTree /\ id - 1 # LastId
  BY DEF Named!Ids, IdsAssumption
<1>2. \A id \in 1 .. LastId : /\ registry.IDTree[id - 1] \in Objects
                              /\ registry.objects[registry.IDTree[id - 1]].networkID = id - 1
  BY <1>1, TreeOf DEF ObjectsInv, ObjectsTypeOK, Found
<1>3. registry.objects[o].networkID = LastId
  BY DEF ObjectsInv, Fresh
<1>4. f \in Injection(1 .. LastId, Objects \ { o })
  <2>1. f \in [ 1 .. LastId -> Objects \ { o } ]
    BY <1>1, <1>2, <1>3
  <2>2. ASSUME NEW a \in 1 .. LastId, NEW b \in 1 .. LastId, f[a] = f[b] PROVE a = b
    <3>1. a - 1 = b - 1
      BY <1>2, <2>2
    <3> QED BY <3>1
  <2> QED BY <2>1, <2>2 DEF Injection, IsInjective
<1>5. /\ IsFiniteSet(Objects \ { o })
      /\ Cardinality(Objects \ { o }) = Cardinality(Objects) - 1
      /\ Cardinality(Objects) \in Nat
  BY FS_RemoveElement, FS_CardinalityType DEF IdsAssumption
<1> HIDE DEF f
<1>6. Cardinality(1 .. LastId) <= Cardinality(Objects \ { o })
  BY <1>4, <1>5, FS_Injection
<1>7. Cardinality(1 .. LastId) = LastId
  BY FS_Interval DEF IdsAssumption
<1> QED BY <1>5, <1>6, <1>7 DEF IdsAssumption

LEMMA Remainders ==
  ASSUME NEW R \in Nat \ { 0 }, NEW x \in 0 .. R - 1
  PROVE  x % R = x /\ (x + R) % R = x
  BY SMT

LEMMA RemainderType ==
  ASSUME NEW R \in Nat \ { 0 }, NEW x \in Int
  PROVE  x % R \in 0 .. R - 1
  BY SMT

\* The scan from staticItemID on, around the end, stops at a free identifier.
LEMMA GeneratedIsFree ==
  ASSUME IdsAssumption, ObjectsInv, NEW o \in Objects, registry.objects[o].callGenerationCode
  PROVE  LET id == (registry.staticItemID + Named!FirstFree) % (LastId + 1)
         IN  id \in Named!Ids /\ id \notin DOMAIN registry.IDTree
<1> DEFINE R == LastId + 1
           start == registry.staticItemID
           tree == registry.IDTree
           after == [ k \in Named!Ids |-> (start + k) % R ]
           Ends(n) == ~Named!Has(tree, after[n]) /\ \A k \in 0 .. n - 1 : Named!Has(tree, after[k])
           offsets == { n \in Named!Ids : after[n] \notin DOMAIN tree }
<1>0. R \in Nat \ { 0 } /\ start \in 0 .. R - 1 /\ Named!Ids = 0 .. R - 1
  BY DEF IdsAssumption, ObjectsInv, ObjectsTypeOK, Named!Ids
<1>1. PICK free \in Named!Ids : free \notin DOMAIN tree
  BY SomeFree
<1>2. PICK n \in Named!Ids : (start + n) % R = free
  <2> HIDE DEF R, start
  <2>1. free \in 0 .. R - 1
    BY <1>0
  <2>2. free % R = free /\ (free + R) % R = free
    BY <1>0, <2>1, Remainders
  <2>3. CASE free >= start
    <3>1. free - start \in 0 .. R - 1 /\ start + (free - start) = free
      BY <1>0, <2>1, <2>3
    <3> QED BY <1>0, <2>2, <3>1
  <2>4. CASE free < start
    <3>1. free - start + R \in 0 .. R - 1 /\ start + (free - start + R) = free + R
      BY <1>0, <2>1, <2>4
    <3> QED BY <1>0, <2>2, <3>1
  <2> QED BY <1>0, <2>1, <2>3, <2>4
<1>3. Named!FirstFree = CHOOSE m \in Named!Ids : Ends(m)
  BY DEF Named!FirstFree
<1> HIDE DEF start, tree, R
<1>4. offsets \in SUBSET Nat /\ offsets # {}
  <2>1. after[n] = free
    BY <1>2
  <2>2. n \in offsets
    BY <1>1, <2>1
  <2>3. offsets \subseteq Named!Ids
    OBVIOUS
  <2> HIDE DEF offsets
  <2> QED BY <1>0, <2>2, <2>3
<1>5. PICK m \in offsets : \A k \in offsets : m <= k
  <2> HIDE DEF offsets
  <2> QED BY <1>4, LeastNat
<1>6. m \in Named!Ids /\ Ends(m)
  <2>1. m \in 0 .. R - 1 /\ after[m] \notin DOMAIN tree
    BY <1>0, <1>5
  <2> HIDE DEF after
  <2>2. ASSUME NEW k \in 0 .. m - 1 PROVE after[k] \in DOMAIN tree
    <3>1. k \in Named!Ids /\ ~ (m <= k)
      BY <1>0, <2>1
    <3> QED BY <1>5, <3>1
  <2> QED BY <1>0, <2>1, <2>2 DEF Named!Has
<1>7. Named!FirstFree \in Named!Ids /\ Ends(Named!FirstFree)
  <2> HIDE DEF Ends
  <2> QED BY <1>3, <1>6
<1>8. after[Named!FirstFree] = (start + Named!FirstFree) % R
  BY <1>7
<1>9. (start + Named!FirstFree) % R \in 0 .. R - 1
  <2>1. start + Named!FirstFree \in Int
    BY <1>0, <1>7
  <2> QED BY <1>0, <2>1, RemainderType
<1> HIDE DEF after
<1> QED BY <1>0, <1>7, <1>8, <1>9 DEF Named!Has, start, tree, R

-----------------------------------------------------------------------------
LEMMA ObjectsInit ==
  ASSUME IdsAssumption, Named!Init
  PROVE  ObjectsInv
<1>1. Named!NoObject \in NamedObject /\ ~Named!NoObject.alive /\ Named!NoObject.networkID = LastId
  BY DEF Named!NoObject, NamedObject, Named!UNASSIGNED_NETWORK_ID, Named!Ids, IdsAssumption
<1>2. 0 \in Named!Ids
  BY DEF Named!Ids, IdsAssumption
<1> QED BY <1>1, <1>2, EmptyTree DEF Named!Init, ObjectsInv, ObjectsTypeOK, Found, Kept, Fresh, Named!Alive

LEMMA ObjectsTypes ==
  ASSUME ObjectsInv
  PROVE  /\ registry.IDTree \in Trees
         /\ \A o \in Objects : registry.objects[o] \in NamedObject
         /\ past.robbed \in SUBSET Objects /\ past.crashed \in SUBSET Objects
         /\ DOMAIN registry.IDTree \subseteq Named!Ids
         /\ \A id \in DOMAIN registry.IDTree : registry.IDTree[id] \in Objects
  BY TreeOf DEF ObjectsInv, ObjectsTypeOK

\* What a step leaves: one object is another, the tree and staticItemID are what they are.
LEMMA ObjectChanges ==
  ASSUME ObjectsInv, NEW o \in Objects, NEW object \in NamedObject, NEW tree \in Trees, NEW i \in Named!Ids,
         NEW robbed \in SUBSET Objects, NEW crashed \in SUBSET robbed,
         registry' = [ registry EXCEPT !.objects = [ registry.objects EXCEPT ![o] = object ], !.IDTree = tree,
                                       !.staticItemID = i ],
         past' = [ past EXCEPT !.robbed = robbed, !.crashed = crashed ],
         object.callGenerationCode => object.networkID = LastId
  PROVE  /\ ObjectsTypeOK' /\ Fresh' /\ past'.crashed \subseteq past'.robbed
         /\ registry'.IDTree = tree /\ past'.robbed = robbed
         /\ \A p \in Objects : registry'.objects[p] = IF p = o THEN object ELSE registry.objects[p]
<1>1. [ registry.objects EXCEPT ![o] = object ] \in [ Objects -> NamedObject ]
  BY DEF ObjectsInv, ObjectsTypeOK
<1>2. /\ ObjectsTypeOK' /\ registry'.IDTree = tree /\ past'.robbed = robbed /\ past'.crashed = crashed
      /\ registry'.objects = [ registry.objects EXCEPT ![o] = object ]
  BY <1>1 DEF ObjectsInv, ObjectsTypeOK
<1>3. \A p \in Objects : registry'.objects[p] = IF p = o THEN object ELSE registry.objects[p]
  BY <1>2 DEF ObjectsInv, ObjectsTypeOK
<1>4. Fresh'
  BY <1>3 DEF Fresh, ObjectsInv
<1> QED BY <1>2, <1>3, <1>4

\* One lemma for each action.
LEMMA CreateStep ==
  ASSUME IdsAssumption, ObjectsInv, past.crashed = {}, NEW o \in Objects, Named!Create(o)
  PROVE  ObjectsInv'
<1> DEFINE object == [ Named!NoObject EXCEPT !.alive = TRUE ]
           robbed == past.robbed \ { o }
           tree == registry.IDTree
<1>1. object \in NamedObject /\ object.networkID = LastId /\ object.alive
  <2>1. /\ Named!NoObject \in NamedObject /\ Named!NoObject.networkID = LastId
    BY DEF Named!NoObject, NamedObject, Named!UNASSIGNED_NETWORK_ID, Named!Ids, IdsAssumption
  <2> QED BY <2>1 DEF NamedObject
<1>2. ~Named!Alive(o)
  BY DEF Named!Create
<1>3. /\ registry' = [ registry EXCEPT !.objects = [ registry.objects EXCEPT ![o] = object ], !.IDTree = tree,
                                       !.staticItemID = registry.staticItemID ]
      /\ past' = [ past EXCEPT !.robbed = robbed, !.crashed = past.crashed ]
  BY DEF Named!Create, ObjectsInv, ObjectsTypeOK
<1>4. /\ tree \in Trees /\ registry.staticItemID \in Named!Ids /\ robbed \in SUBSET Objects
      /\ past.crashed \in SUBSET robbed
  BY DEF ObjectsInv, ObjectsTypeOK
<1> HIDE DEF object, tree
<1>5. /\ ObjectsTypeOK' /\ Fresh' /\ past'.crashed \subseteq past'.robbed
      /\ registry'.IDTree = tree /\ past'.robbed = robbed
      /\ \A p \in Objects : registry'.objects[p] = IF p = o THEN object ELSE registry.objects[p]
  <2> HIDE DEF robbed
  <2> QED BY <1>1, <1>3, <1>4, ObjectChanges
<1>6. \A id \in DOMAIN tree : id # LastId => tree[id] # o /\ tree[id] \in Objects
  BY <1>2, ObjectsTypes DEF ObjectsInv, Found, tree
<1>7. Found'
  BY <1>5, <1>6 DEF Found, ObjectsInv, Named!Alive, tree
<1>8. Kept'
  BY <1>1, <1>5 DEF Kept, ObjectsInv, Named!Alive, tree
<1> QED BY <1>5, <1>7, <1>8 DEF ObjectsInv

LEMMA DestroyStep ==
  ASSUME IdsAssumption, ObjectsInv, past.crashed = {}, NEW o \in Objects, Named!Destroy(o)
  PROVE  ObjectsInv'
<1> DEFINE id == registry.objects[o].networkID
           assigned == id # LastId
           mine == assigned /\ Named!Has(registry.IDTree, id) /\ registry.IDTree[id] = o
           object == [ registry.objects[o] EXCEPT !.alive = FALSE ]
           tree == IF mine THEN Named!Del(registry.IDTree, id) ELSE registry.IDTree
           crashed == IF assigned /\ ~Named!Has(registry.IDTree, id) THEN { o } ELSE past.crashed
<1>1. /\ object \in NamedObject /\ object.networkID = id /\ ~object.alive
      /\ object.callGenerationCode => object.networkID = LastId
      /\ id \in Named!Ids /\ Named!Alive(o)
  BY ObjectsTypes DEF NamedObject, ObjectsInv, Fresh, Named!Destroy
<1>2. /\ registry' = [ registry EXCEPT !.objects = [ registry.objects EXCEPT ![o] = object ], !.IDTree = tree,
                                       !.staticItemID = registry.staticItemID ]
      /\ past' = [ past EXCEPT !.robbed = past.robbed, !.crashed = crashed ]
  <2>1. /\ registry' = [ registry EXCEPT !.objects[o].alive = FALSE, !.IDTree = tree ]
        /\ past' = [ past EXCEPT !.crashed = crashed ]
    BY DEF Named!Destroy, Named!UNASSIGNED_NETWORK_ID, ObjectsInv, ObjectsTypeOK
  <2> HIDE DEF tree, crashed
  <2> QED BY <2>1 DEF ObjectsInv, ObjectsTypeOK
<1>3. /\ tree \in Trees /\ DOMAIN tree \subseteq DOMAIN registry.IDTree
      /\ DOMAIN tree = IF mine THEN DOMAIN registry.IDTree \ { id } ELSE DOMAIN registry.IDTree
      /\ \A i \in DOMAIN tree : tree[i] = registry.IDTree[i]
  <2>1. CASE mine
    <3>1. registry.IDTree \in Trees /\ id \in DOMAIN registry.IDTree
      BY <2>1, ObjectsTypes DEF Named!Has
    <3> HIDE DEF id, mine
    <3> QED BY <1>1, <2>1, <3>1, DelIs
  <2>2. CASE ~mine
    BY <2>2, ObjectsTypes
  <2> QED BY <2>1, <2>2
<1>4. crashed \in SUBSET past.robbed
  BY <1>1 DEF ObjectsInv, Kept, Named!Has
<1> DEFINE robbed == past.robbed
           static == registry.staticItemID
<1> HIDE DEF object, tree, crashed
<1>5. registry.staticItemID \in Named!Ids /\ past.robbed \in SUBSET Objects
  BY DEF ObjectsInv, ObjectsTypeOK
<1>6. /\ ObjectsTypeOK' /\ Fresh' /\ past'.crashed \subseteq past'.robbed
      /\ registry'.IDTree = tree /\ past'.robbed = past.robbed
      /\ \A p \in Objects : registry'.objects[p] = IF p = o THEN object ELSE registry.objects[p]
  <2>1. /\ registry' = [ registry EXCEPT !.objects = [ registry.objects EXCEPT ![o] = object ], !.IDTree = tree,
                                         !.staticItemID = static ]
        /\ past' = [ past EXCEPT !.robbed = robbed, !.crashed = crashed ]
        /\ static \in Named!Ids /\ robbed \in SUBSET Objects /\ crashed \in SUBSET robbed /\ tree \in Trees
        /\ object \in NamedObject /\ (object.callGenerationCode => object.networkID = LastId)
    BY <1>1, <1>2, <1>3, <1>4, <1>5
  <2> HIDE DEF static, robbed
  <2>2. /\ ObjectsTypeOK' /\ Fresh' /\ past'.crashed \subseteq past'.robbed
        /\ registry'.IDTree = tree /\ past'.robbed = robbed
        /\ \A p \in Objects : registry'.objects[p] = IF p = o THEN object ELSE registry.objects[p]
    BY <2>1, ObjectChanges
  <2> QED BY <2>2 DEF robbed
<1>7. \A i \in DOMAIN tree : i # LastId => tree[i] # o /\ tree[i] \in Objects
  <2> SUFFICES ASSUME NEW i \in DOMAIN tree, i # LastId PROVE tree[i] # o /\ tree[i] \in Objects
    OBVIOUS
  <2>1. i \in DOMAIN registry.IDTree /\ tree[i] = registry.IDTree[i]
    BY <1>3
  <2>2. registry.IDTree[i] = o => i = id /\ mine
    BY <2>1 DEF ObjectsInv, Found, Named!Has
  <2> QED BY <1>3, <2>1, <2>2, ObjectsTypes
<1>8. Found'
  BY <1>3, <1>6, <1>7 DEF Found, ObjectsInv, Named!Alive
<1>9. Kept'
  <2> SUFFICES ASSUME NEW p \in Objects, Named!Alive(p)', registry'.objects[p].networkID # LastId, p \notin past.robbed
               PROVE  LET n == registry'.objects[p].networkID IN n \in DOMAIN tree /\ tree[n] = p
    BY <1>6 DEF Kept
  <2>1. p # o
    BY <1>1, <1>6 DEF Named!Alive
  <2>2. Named!Alive(p) /\ registry'.objects[p] = registry.objects[p]
    BY <1>6, <2>1 DEF Named!Alive
  <2>3. registry.objects[p].networkID \in DOMAIN registry.IDTree /\ registry.IDTree[registry.objects[p].networkID] = p
    BY <2>2 DEF ObjectsInv, Kept
  <2>4. mine => registry.objects[p].networkID # id
    BY <2>1, <2>3
  <2> QED BY <1>3, <2>2, <2>3, <2>4
<1> QED BY <1>6, <1>8, <1>9 DEF ObjectsInv

LEMMA GenerateStep ==
  ASSUME IdsAssumption, ObjectsInv, past.crashed = {}, NEW o \in Objects, Named!GetNetworkID(o)
  PROVE  ObjectsInv'
<1> DEFINE id == (registry.staticItemID + Named!FirstFree) % (LastId + 1)
           object == [ alive |-> TRUE, networkID |-> id, callGenerationCode |-> FALSE ]
           tree == Named!Add(registry.IDTree, id, o)
           next == (id + 1) % (LastId + 1)
<1>1. registry.objects[o].callGenerationCode /\ registry.objects[o].networkID = LastId
  BY DEF Named!GetNetworkID, ObjectsInv, Fresh
<1>2. id \in Named!Ids /\ id \notin DOMAIN registry.IDTree
  BY <1>1, GeneratedIsFree
<1>3. /\ registry' = [ registry EXCEPT !.staticItemID = next, !.IDTree = tree, !.objects[o] = object ]
      /\ past' = past
  BY DEF Named!GetNetworkID, Named!GenerateID
<1> HIDE DEF id
<1>4. object \in NamedObject /\ object.networkID = id /\ object.alive /\ ~object.callGenerationCode
  BY <1>2 DEF NamedObject
<1>5. next \in Named!Ids
  <2>1. id + 1 \in Int /\ LastId + 1 \in Nat \ { 0 } /\ Named!Ids = 0 .. (LastId + 1) - 1
    BY <1>2 DEF Named!Ids, IdsAssumption
  <2> QED BY <2>1, RemainderType
<1>6. /\ tree \in Trees /\ DOMAIN tree = DOMAIN registry.IDTree \cup { id }
      /\ \A i \in DOMAIN tree : tree[i] = IF i = id THEN o ELSE registry.IDTree[i]
  <2> DEFINE old == registry.IDTree
  <2>1. old \in Trees
    BY ObjectsTypes
  <2>2. tree = Named!Add(old, id, o)
    OBVIOUS
  <2> HIDE DEF old, tree
  <2>3. /\ tree \in Trees /\ DOMAIN tree = DOMAIN old \cup { id }
        /\ \A i \in DOMAIN old \cup { id } : tree[i] = IF i = id THEN o ELSE old[i]
    <3>1. /\ Named!Add(old, id, o) \in Trees
          /\ DOMAIN Named!Add(old, id, o) = DOMAIN old \cup { id }
          /\ \A i \in DOMAIN old \cup { id } : Named!Add(old, id, o)[i] = IF i = id THEN o ELSE old[i]
      BY <1>2, <2>1, AddIs
    <3> QED BY <2>2, <3>1
  <2> QED BY <2>3 DEF old
<1> HIDE DEF object, tree, next
<1>7. /\ registry' = [ registry EXCEPT !.objects = [ registry.objects EXCEPT ![o] = object ], !.IDTree = tree,
                                       !.staticItemID = next ]
      /\ past' = [ past EXCEPT !.robbed = past.robbed, !.crashed = past.crashed ]
  BY <1>3 DEF ObjectsInv, ObjectsTypeOK
<1>8. past.robbed \in SUBSET Objects /\ past.crashed \in SUBSET past.robbed
  BY DEF ObjectsInv, ObjectsTypeOK
<1>9. /\ ObjectsTypeOK' /\ Fresh' /\ past'.crashed \subseteq past'.robbed
      /\ registry'.IDTree = tree /\ past'.robbed = past.robbed
      /\ \A p \in Objects : registry'.objects[p] = IF p = o THEN object ELSE registry.objects[p]
  <2> DEFINE robbed == past.robbed
             crashed == past.crashed
  <2>1. /\ registry' = [ registry EXCEPT !.objects = [ registry.objects EXCEPT ![o] = object ], !.IDTree = tree,
                                         !.staticItemID = next ]
        /\ past' = [ past EXCEPT !.robbed = robbed, !.crashed = crashed ]
        /\ robbed \in SUBSET Objects /\ crashed \in SUBSET robbed
        /\ object \in NamedObject /\ (object.callGenerationCode => object.networkID = LastId)
        /\ tree \in Trees /\ next \in Named!Ids
    BY <1>4, <1>5, <1>6, <1>7, <1>8
  <2> HIDE DEF robbed, crashed
  <2>2. /\ ObjectsTypeOK' /\ Fresh' /\ past'.crashed \subseteq past'.robbed
        /\ registry'.IDTree = tree /\ past'.robbed = robbed
        /\ \A p \in Objects : registry'.objects[p] = IF p = o THEN object ELSE registry.objects[p]
    BY <2>1, ObjectChanges
  <2> QED BY <2>2 DEF robbed
<1>10. \A i \in DOMAIN registry.IDTree : i # LastId => registry.IDTree[i] # o /\ registry.IDTree[i] \in Objects
  BY <1>1, ObjectsTypes DEF ObjectsInv, Found
<1>11. Found'
  BY <1>4, <1>6, <1>9, <1>10 DEF Found, ObjectsInv, Named!Alive
<1>12. Kept'
  BY <1>2, <1>4, <1>6, <1>9 DEF Kept, ObjectsInv, Named!Alive
<1> QED BY <1>9, <1>11, <1>12 DEF ObjectsInv

LEMMA SetStep ==
  ASSUME IdsAssumption, ObjectsInv, past.crashed = {}, NEW o \in Objects, NEW id \in Named!Ids,
         Named!SetNetworkID(o, id)
  PROVE  ObjectsInv'
<1> DEFINE object == registry.objects[o]
           old == registry.IDTree
           ignored == id = LastId \/ object.networkID = id
           without == IF Named!Has(old, id) THEN Named!Del(old, id) ELSE old
           own == IF object.networkID = LastId THEN without ELSE Named!Del(without, object.networkID)
           lost == { without[i] : i \in DOMAIN without \ DOMAIN own } \ { o }
           object2 == [ object EXCEPT !.callGenerationCode = FALSE, !.networkID = IF ignored THEN @ ELSE id ]
           tree == IF ignored THEN old ELSE Named!Add(own, id, o)
           robbed == IF ignored THEN past.robbed
                     ELSE (past.robbed \ { o }) \cup (IF Named!Has(old, id) THEN { old[id] } ELSE {}) \cup lost
           static == registry.staticItemID
           crashed == past.crashed
<1>1. /\ Named!Alive(o)
      /\ registry' = [ registry EXCEPT !.objects = [ registry.objects EXCEPT ![o] = object2 ], !.IDTree = tree,
                                       !.staticItemID = static ]
      /\ past' = [ past EXCEPT !.robbed = robbed, !.crashed = crashed ]
  <2>1. /\ Named!Alive(o)
        /\ registry' = [ registry EXCEPT !.objects[o].callGenerationCode = FALSE,
                                         !.objects[o].networkID = IF ignored THEN @ ELSE id,
                                         !.IDTree = tree ]
        /\ past' = [ past EXCEPT !.robbed = robbed ]
    BY DEF Named!SetNetworkID, Named!UNASSIGNED_NETWORK_ID, ObjectsInv, ObjectsTypeOK
  <2> HIDE DEF tree, robbed, ignored
  <2> QED BY <2>1 DEF ObjectsInv, ObjectsTypeOK
<1>2. /\ object \in NamedObject /\ old \in Trees /\ static \in Named!Ids
      /\ DOMAIN old \subseteq Named!Ids /\ \A i \in DOMAIN old : old[i] \in Objects
  BY ObjectsTypes DEF ObjectsInv, ObjectsTypeOK
<1> HIDE DEF old
<1>3. /\ without \in Trees /\ DOMAIN without = DOMAIN old \ { id }
      /\ \A i \in DOMAIN without : without[i] = old[i]
  <2>1. /\ Named!Del(old, id) \in Trees
        /\ id \in DOMAIN old => DOMAIN Named!Del(old, id) = DOMAIN old \ { id }
        /\ \A i \in DOMAIN Named!Del(old, id) : Named!Del(old, id)[i] = old[i]
    BY <1>2, DelIs
  <2>2. CASE Named!Has(old, id)
    <3>1. without = Named!Del(old, id) /\ id \in DOMAIN old
      BY <2>2 DEF Named!Has
    <3> HIDE DEF without
    <3> QED BY <2>1, <3>1
  <2>3. CASE ~Named!Has(old, id)
    <3>1. without = old /\ id \notin DOMAIN old
      BY <2>3 DEF Named!Has
    <3> HIDE DEF without
    <3> QED BY <1>2, <3>1
  <2> QED BY <2>2, <2>3
<1> HIDE DEF without
<1>4. /\ own \in Trees /\ DOMAIN own \subseteq DOMAIN without
      /\ object.networkID # LastId => object.networkID \notin DOMAIN own
      /\ \A i \in DOMAIN own : own[i] = old[i]
  <2>1. object.networkID \in Named!Ids
    BY <1>2 DEF NamedObject
  <2> DEFINE n == object.networkID
  <2>2. own = IF n = LastId THEN without ELSE Named!Del(without, n)
    OBVIOUS
  <2> HIDE DEF n, own
  <2>3. /\ Named!Del(without, n) \in Trees
        /\ DOMAIN Named!Del(without, n) \subseteq DOMAIN without \ { n }
        /\ \A i \in DOMAIN Named!Del(without, n) : Named!Del(without, n)[i] = without[i]
    <3>1. n \in Named!Ids /\ without \in Trees
      BY <1>3, <2>1 DEF n
    <3> QED BY <3>1, DelIs
  <2>4. CASE n = LastId
    <3>1. own = without
      BY <2>2, <2>4
    <3>2. own \in Trees /\ DOMAIN own \subseteq DOMAIN without
      BY <1>3, <3>1
    <3>3. \A i \in DOMAIN own : own[i] = old[i]
      BY <1>3, <3>1
    <3>4. n # LastId => n \notin DOMAIN own
      BY <2>4
    <3> QED BY <3>2, <3>3, <3>4 DEF n
  <2>5. CASE n # LastId
    <3>1. own = Named!Del(without, n)
      BY <2>2, <2>5
    <3>2. DOMAIN own \subseteq DOMAIN without \ { n } /\ \A i \in DOMAIN own : own[i] = without[i]
      BY <2>3, <3>1
    <3>3. n \notin DOMAIN own /\ DOMAIN own \subseteq DOMAIN without
      BY <3>2
    <3>4. \A i \in DOMAIN own : own[i] = old[i]
      BY <1>3, <3>2
    <3> QED BY <2>3, <3>1, <3>3, <3>4 DEF n
  <2> QED BY <2>4, <2>5
<1> HIDE DEF own
<1>5. /\ Named!Add(own, id, o) \in Trees
      /\ DOMAIN Named!Add(own, id, o) = DOMAIN own \cup { id }
      /\ \A i \in DOMAIN own \cup { id } : Named!Add(own, id, o)[i] = IF i = id THEN o ELSE own[i]
  BY <1>4, AddIs
<1>6. /\ object2 \in NamedObject /\ object2.alive = object.alive /\ ~object2.callGenerationCode
      /\ object2.networkID = IF ignored THEN object.networkID ELSE id
  <2> HIDE DEF object, ignored
  <2> QED BY <1>2 DEF NamedObject
<1>7. /\ \A i \in DOMAIN without : without[i] \in Objects
      /\ Named!Has(old, id) => old[id] \in Objects
  BY <1>2, <1>3 DEF Named!Has
<1>8. robbed \in SUBSET Objects /\ crashed \in SUBSET robbed /\ tree \in Trees
  <2>1. past.robbed \in SUBSET Objects
    BY ObjectsTypes
  <2>2. lost \in SUBSET Objects
    BY <1>7
  <2> HIDE DEF lost, ignored
  <2> QED BY <1>2, <1>5, <1>7, <2>1, <2>2
<1>9. /\ ObjectsTypeOK' /\ Fresh' /\ past'.crashed \subseteq past'.robbed
      /\ registry'.IDTree = tree /\ past'.robbed = robbed
      /\ \A p \in Objects : registry'.objects[p] = IF p = o THEN object2 ELSE registry.objects[p]
  <2> HIDE DEF object2, tree, robbed, static, crashed
  <2> QED BY <1>1, <1>2, <1>6, <1>8, ObjectChanges
<1>10. CASE ignored
  <2>1. tree = old /\ robbed = past.robbed /\ object2.networkID = object.networkID
    BY <1>6, <1>10
  <2> HIDE DEF object2, tree, robbed, ignored
  <2>2. \A p \in Objects : /\ Named!Alive(p)' = Named!Alive(p)
                           /\ registry'.objects[p].networkID = registry.objects[p].networkID
    BY <1>6, <1>9, <2>1 DEF Named!Alive
  <2>3. Found' /\ Kept'
    BY <1>2, <1>9, <2>1, <2>2 DEF Found, Kept, ObjectsInv, old
  <2> QED BY <1>9, <2>3 DEF ObjectsInv
<1>11. CASE ~ignored
  <2>1. /\ tree = Named!Add(own, id, o) /\ object2.networkID = id /\ id # LastId
        /\ robbed = (past.robbed \ { o }) \cup (IF Named!Has(old, id) THEN { old[id] } ELSE {}) \cup lost
    BY <1>6, <1>11
  <2>2. /\ DOMAIN tree = DOMAIN own \cup { id }
        /\ \A i \in DOMAIN own \cup { id } : tree[i] = IF i = id THEN o ELSE old[i]
    BY <1>4, <1>5, <2>1
  <2>3. \A i \in DOMAIN own : i # LastId =>
          old[i] # o /\ old[i] \in Objects /\ i \in DOMAIN old /\ i # id
    BY <1>2, <1>3, <1>4 DEF ObjectsInv, Found, old
  <2>4. \A p \in Objects : p \notin robbed /\ p # o =>
          /\ p \notin past.robbed
          /\ id \in DOMAIN old => old[id] # p
          /\ \A i \in DOMAIN without \ DOMAIN own : without[i] # p
    BY <2>1 DEF Named!Has
  <2> HIDE DEF object2, tree, robbed, ignored, lost
  <2>5. ASSUME NEW i \in DOMAIN tree, i # LastId
        PROVE  tree[i] \in Objects /\ registry'.objects[tree[i]].alive /\ registry'.objects[tree[i]].networkID = i
    <3>1. CASE i = id
      <4>1. tree[i] = o /\ registry'.objects[o] = object2 /\ object.alive
        BY <1>1, <1>9, <2>2, <3>1 DEF Named!Alive
      <4> QED BY <1>6, <2>1, <3>1, <4>1
    <3>2. CASE i # id
      <4>1. i \in DOMAIN own
        BY <2>2, <3>2
      <4>2. tree[i] = old[i] /\ old[i] # o /\ old[i] \in Objects /\ i \in DOMAIN old
        BY <2>2, <2>3, <2>5, <3>2, <4>1
      <4>3. Named!Alive(old[i]) /\ registry.objects[old[i]].networkID = i
        BY <2>5, <4>2 DEF ObjectsInv, Found, old
      <4>4. registry'.objects[old[i]] = registry.objects[old[i]]
        BY <1>9, <4>2
      <4> QED BY <4>2, <4>3, <4>4 DEF Named!Alive
    <3> QED BY <3>1, <3>2
  <2>7. Found'
    BY <1>9, <2>5 DEF Found, Named!Alive
  <2>6. Kept'
    <3> SUFFICES ASSUME NEW p \in Objects, Named!Alive(p)', registry'.objects[p].networkID # LastId, p \notin robbed
                 PROVE  LET n == registry'.objects[p].networkID IN n \in DOMAIN tree /\ tree[n] = p
      BY <1>9 DEF Kept
    <3>1. CASE p = o
      BY <1>9, <2>1, <2>2, <3>1
    <3>2. CASE p # o
      <4> DEFINE n == registry.objects[p].networkID
      <4>1. registry'.objects[p] = registry.objects[p] /\ Named!Alive(p) /\ n # LastId
        BY <1>9, <3>2 DEF Named!Alive
      <4>2. n \in DOMAIN old /\ old[n] = p
        BY <2>4, <3>2, <4>1 DEF ObjectsInv, Kept, old
      <4>3. n \in DOMAIN own /\ n # id
        BY <1>3, <2>4, <3>2, <4>2
      <4> QED BY <2>2, <4>1, <4>2, <4>3
    <3> QED BY <3>1, <3>2
  <2> QED BY <1>9, <2>6, <2>7 DEF ObjectsInv
<1> QED BY <1>10, <1>11

LEMMA ObjectsInvHolds ==
  ASSUME IdsAssumption
  PROVE  Named!Spec => []ObjectsInv
<1>1. Named!Init => ObjectsInv
  BY ObjectsInit
<1>2. ObjectsInv /\ [Named!Next]_Named!vars => ObjectsInv'
  <2> SUFFICES ASSUME ObjectsInv, [Named!Next]_Named!vars PROVE ObjectsInv'
    OBVIOUS
  <2>1. CASE UNCHANGED Named!vars
    BY <2>1 DEF Named!vars, ObjectsInv, ObjectsTypeOK, Found, Kept, Fresh, Named!Alive
  <2>2. ASSUME NEW i \in Named!Ids, Named!SetStaticNetworkID(i) PROVE ObjectsInv'
    <3>1. /\ registry'.IDTree = registry.IDTree /\ registry'.objects = registry.objects /\ past' = past
          /\ ObjectsTypeOK'
      BY <2>2 DEF Named!SetStaticNetworkID, ObjectsInv, ObjectsTypeOK
    <3> QED BY <3>1 DEF ObjectsInv, Found, Kept, Fresh, Named!Alive
  <2>3. CASE Named!Next
    BY <2>2, <2>3, CreateStep, DestroyStep, GenerateStep, SetStep DEF Named!Next
  <2> QED BY <2>1, <2>3
<1> QED BY <1>1, <1>2, PTL DEF Named!Spec

\* An object found by an identifier is there and has it, and one that has an
\* identifier is found by it unless it was robbed: so two objects that were not
\* have different ones, and only a robbed one's destructor looks at a node that
\* is not there (GenerateID, SetNetworkID, ~NetworkIDGenerator).
THEOREM ObjectsFound ==
  ASSUME IdsAssumption
  PROVE  Named!Spec => [](Named!Faithful /\ Named!WellFormed)
<1>1. ObjectsInv => Named!Faithful
  BY ObjectsTypes DEF ObjectsInv, Found, Kept, Named!Faithful, Named!GET_BASE_OBJECT_FROM_ID, Named!Has,
         Named!UNASSIGNED_NETWORK_ID
<1>2. ObjectsInv => Named!WellFormed
  BY DEF ObjectsInv, Kept, Named!WellFormed, Named!UNASSIGNED_NETWORK_ID
<1> QED BY <1>1, <1>2, ObjectsInvHolds, PTL
=============================================================================
