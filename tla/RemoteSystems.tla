--------------------------- MODULE RemoteSystems ---------------------------
(***************************************************************************)
(* remoteSystemList of a peer with several connections (RakPeer.cpp): how  *)
(* a slot is assigned, verified, connected, closed and given up, by a user *)
(* thread that asks, a network thread that updates, and other systems that *)
(* ask to connect, answer and leave in any order.  A command of the user   *)
(* waits in bufferedCommands; what a send costs is ReliabilityLayer's.     *)
(***************************************************************************)
EXTENDS Integers, Sequences, FiniteSets, Functions, FiniteSetsExt

CONSTANTS
    Ids,                        \* other systems
    MaxPeers,                   \* maximumNumberOfPeers
    maximumIncomingConnections,
    MaxRequests,                \* bound: pending requests to connect to a system
    MaxCommands                 \* bound: bufferedCommands

VARIABLES
    peer,     \* the list, remoteSystemLookup, pending requests, bufferedCommands
    user      \* history: the systems announced as connected and not as gone,
              \* those it cannot be told about, those that gave the password

vars == << peer, user >>

UNASSIGNED_PLAYER_ID == 0
Slots == 0 .. MaxPeers - 1
Blank == [ playerId |-> UNASSIGNED_PLAYER_ID, isActive |-> FALSE,
           connectMode |-> "NO_ACTION", weInitiatedTheConnection |-> FALSE ]

Init ==
    /\ peer = [ remoteSystemList |-> [ i \in Slots |-> Blank ], lookup |-> << >>,
                requests |-> [ id \in Ids |-> 0 ], bufferedCommands |-> << >> ]
    /\ user = [ connected |-> {}, untold |-> {}, verified |-> {} ]

Active(i) == peer.remoteSystemList[i].isActive
Mode(i)   == peer.remoteSystemList[i].connectMode
Player(i) == peer.remoteSystemList[i].playerId

\* The network thread asks the lookup tree, a user thread scans the list.
GetIndexFromPlayerID(id, calledFromNetworkThread) ==
    IF calledFromNetworkThread
    THEN IF id \in DOMAIN peer.lookup THEN peer.lookup[id] ELSE -1
    ELSE LET found == { i \in Slots : Active(i) /\ Player(i) = id }
         IN  IF found = {} THEN -1 ELSE Min(found)

\* A user thread that does not insist finds a system that is gone as well.
GetRemoteSystemFromPlayerID(id, calledFromNetworkThread, onlyActive) ==
    LET active == GetIndexFromPlayerID(id, calledFromNetworkThread)
        dead == { i \in Slots : Player(i) = id }
    IN  IF active = -1 /\ ~calledFromNetworkThread /\ ~onlyActive /\ dead # {}
        THEN Min(dead) ELSE active

GetConnectionList == { Player(i) : i \in { j \in Slots : Active(j) /\ Mode(j) = "CONNECTED" } }

GetNumberOfRemoteInitiatedConnections ==
    Cardinality({ i \in Slots : /\ Active(i) /\ Mode(i) = "CONNECTED"
                                /\ ~peer.remoteSystemList[i].weInitiatedTheConnection })

AllowIncomingConnections == GetNumberOfRemoteInitiatedConnections < maximumIncomingConnections

-----------------------------------------------------------------------------
(* Changes of the list and of what the user knows.                         *)

Free == { i \in Slots : ~Active(i) }

AssignPlayerIDToRemoteSystemList(p, id, mode) ==
    LET i == Min(Free)
    IN  [ p EXCEPT !.remoteSystemList[i] =
                       [ playerId |-> id, isActive |-> TRUE, connectMode |-> mode,
                         weInitiatedTheConnection |-> FALSE ],
                   !.lookup = [ k \in DOMAIN @ \cup { id } |-> IF k = id THEN i ELSE @[k] ] ]

\* CloseConnectionInternal, without a notification, from the network thread.
Closed(p, target) ==
    LET i == GetIndexFromPlayerID(target, FALSE)
    IN  IF i = -1 THEN p
        ELSE [ p EXCEPT !.remoteSystemList[i].isActive = FALSE,
                        !.lookup = RestrictDomain(@, LAMBDA id : id # target) ]

SetMode(i, mode) == [ peer EXCEPT !.remoteSystemList[i].connectMode = mode ]

Announced(id) == [ user EXCEPT !.connected = @ \cup { id }, !.untold = @ \ { id } ]
Gone(id)      == [ user EXCEPT !.connected = @ \ { id }, !.untold = @ \ { id } ]

-----------------------------------------------------------------------------
(* The user thread.                                                        *)

\* Connect and SendConnectionRequest.
Connect(id) ==
    /\ peer.requests[id] < MaxRequests
    /\ GetRemoteSystemFromPlayerID(id, FALSE, TRUE) = -1
    /\ peer' = [ peer EXCEPT !.requests[id] = @ + 1 ]
    /\ UNCHANGED user

\* CloseConnection: both ways leave it to the network thread.
CloseConnection(target, sendDisconnectionNotification) ==
    /\ Len(peer.bufferedCommands) < MaxCommands
    /\ peer' = [ peer EXCEPT !.bufferedCommands =
                   Append(@, [ playerId |-> target, notify |-> sendDisconnectionNotification ]) ]
    /\ UNCHANGED user

\* Disconnect, and Initialize with the same number of slots.
Disconnect ==
    /\ peer' = [ remoteSystemList |-> [ i \in Slots |-> Blank ], lookup |-> << >>,
                 requests |-> [ id \in Ids |-> 0 ], bufferedCommands |-> << >> ]
    /\ user' = [ connected |-> {}, untold |-> {}, verified |-> {} ]

-----------------------------------------------------------------------------
(* The network thread: commands, then requests, then every system.         *)

\* A notification makes the connection end once it is sent; without one the
\* user wants no more of it.
RunCommand ==
    /\ peer.bufferedCommands # << >>
    /\ LET command == Head(peer.bufferedCommands)
           i == GetRemoteSystemFromPlayerID(command.playerId, TRUE, TRUE)
           rest == [ peer EXCEPT !.bufferedCommands = Tail(@) ]
       IN  IF command.notify
           THEN /\ peer' = IF i = -1 THEN rest
                           ELSE [ rest EXCEPT !.remoteSystemList[i].connectMode = "DISCONNECT_ASAP" ]
                /\ UNCHANGED user
           ELSE /\ peer' = Closed(rest, command.playerId)
                /\ user' = Gone(command.playerId)

\* The sixth request was not answered, or the answer was that the other side is
\* full, has banned us or has us connected: every request is given up.
RequestFails(id) ==
    /\ peer.requests[id] > 0
    /\ \E given \in { 1, peer.requests[id] } : peer' = [ peer EXCEPT !.requests[id] = @ - given ]
    /\ UNCHANGED user

\* A dead connection, a disconnection that has sent or acknowledged what it
\* had, a connection not made in 10 seconds.
Close(i) ==
    /\ Active(i)
    /\ peer' = Closed(peer, Player(i))
    /\ user' = IF Mode(i) \in { "CONNECTED", "REQUESTED_CONNECTION",
                                "DISCONNECT_ASAP", "DISCONNECT_ON_NO_ACK" }
               THEN Gone(Player(i)) ELSE user

-----------------------------------------------------------------------------
(* Datagrams of ProcessNetworkPacket.                                      *)

\* ID_OPEN_CONNECTION_REQUEST; without a slot the answer is
\* ID_NO_FREE_INCOMING_CONNECTIONS.
OpenConnectionRequest(id) ==
    /\ GetRemoteSystemFromPlayerID(id, TRUE, TRUE) = -1
    /\ Free # {}
    /\ peer' = AssignPlayerIDToRemoteSystemList(peer, id, "UNVERIFIED_SENDER")
    /\ user' = [ user EXCEPT !.verified = @ \ { id } ]

\* ID_OPEN_CONNECTION_REPLY, when a request is pending: a system that connected
\* to us in the meantime is taken for one that did not.
OpenConnectionReply(id) ==
    /\ peer.requests[id] > 0
    /\ LET i == GetRemoteSystemFromPlayerID(id, TRUE, TRUE)
           full == i = -1 /\ Free = {}
           p == IF i # -1 \/ full THEN peer
                ELSE AssignPlayerIDToRemoteSystemList(peer, id, "UNVERIFIED_SENDER")
           q == IF full THEN p
                ELSE [ p EXCEPT !.remoteSystemList[p.lookup[id]] =
                         [ @ EXCEPT !.connectMode = "REQUESTED_CONNECTION",
                                    !.weInitiatedTheConnection = TRUE ] ]
       IN  peer' = [ q EXCEPT !.requests[id] = 0 ]
    /\ UNCHANGED user

-----------------------------------------------------------------------------
(* Messages a connection's layer hands up in RunUpdateCycle.               *)

\* ParseConnectionRequestPacket, with OnConnectionRequest.  It changes the mode
\* of a system the user may know as connected, and says nothing.
ParseConnectionRequestPacket(i, password) ==
    LET id == Player(i)
        refused == ~AllowIncomingConnections \/ ~password
    IN  /\ peer' = SetMode(i, IF refused THEN "DISCONNECT_ASAP_SILENTLY"
                              ELSE "HANDLING_CONNECTION_REQUEST")
        /\ user' = [ user EXCEPT !.untold = @ \cup (user.connected \cap { id }),
                                 !.verified = IF refused THEN @ ELSE @ \cup { id } ]

ConnectionRequest(i, password) ==
    /\ Active(i)
    /\ Mode(i) # "CONNECTED"
    /\ ParseConnectionRequestPacket(i, password)

\* An unverified system sends anything else: it is closed, and banned for the
\* time its layer would wait for it.
NonsenseData(i) ==
    /\ Active(i)
    /\ Mode(i) = "UNVERIFIED_SENDER"
    /\ peer' = Closed(peer, Player(i))
    /\ UNCHANGED user

NewIncomingConnection(i) ==
    /\ Active(i)
    /\ Mode(i) = "HANDLING_CONNECTION_REQUEST"
    /\ peer' = SetMode(i, "CONNECTED")
    /\ user' = Announced(Player(i))

ConnectionRequestAccepted(i) ==
    /\ Active(i)
    /\ Mode(i) # "UNVERIFIED_SENDER"
    /\ IF Mode(i) \in { "HANDLING_CONNECTION_REQUEST", "REQUESTED_CONNECTION" }
       THEN /\ peer' = SetMode(i, "CONNECTED")
            /\ user' = Announced(Player(i))
       ELSE \* NotifyAndFlagForDisconnect
            /\ peer' = SetMode(i, "DISCONNECT_ASAP")
            /\ UNCHANGED user

DisconnectionNotification(i) ==
    /\ Active(i)
    /\ Mode(i) # "UNVERIFIED_SENDER"
    /\ peer' = SetMode(i, "DISCONNECT_ON_NO_ACK")
    /\ UNCHANGED user

Next ==
    \/ \E id \in Ids :
        \/ Connect(id) \/ RequestFails(id)
        \/ OpenConnectionRequest(id) \/ OpenConnectionReply(id)
        \/ \E notify \in BOOLEAN : CloseConnection(id, notify)
    \/ Disconnect \/ RunCommand
    \/ \E i \in Slots :
        \/ Close(i) \/ NonsenseData(i) \/ NewIncomingConnection(i)
        \/ ConnectionRequestAccepted(i) \/ DisconnectionNotification(i)
        \/ \E password \in BOOLEAN : ConnectionRequest(i, password)

Spec == Init /\ [][Next]_vars

-----------------------------------------------------------------------------
\* Every connected system was announced, and every system announced is still
\* here in a mode whose end is reported, except where a later request of the
\* other side took its connection back without a word.
Faithful ==
    /\ GetConnectionList \subseteq user.connected
    /\ \A id \in user.connected \ user.untold :
        LET i == GetIndexFromPlayerID(id, FALSE)
        IN  i # -1 /\ Mode(i) \in { "CONNECTED", "REQUESTED_CONNECTION",
                                    "DISCONNECT_ASAP", "DISCONNECT_ON_NO_ACK" }

\* The tree of the network thread and the list the user threads scan agree, no
\* system has two slots, and one that came to us and is connected gave the password.
WellFormed ==
    /\ \A id \in Ids :
        /\ GetIndexFromPlayerID(id, TRUE) = GetIndexFromPlayerID(id, FALSE)
        /\ Cardinality({ i \in Slots : Active(i) /\ Player(i) = id }) <= 1
    /\ \A i \in Slots : Active(i) /\ Mode(i) = "CONNECTED" =>
        peer.remoteSystemList[i].weInitiatedTheConnection \/ Player(i) \in user.verified
=============================================================================
