------------------------------ MODULE RakPeer ------------------------------
(***************************************************************************)
(* The daemon's RakPeer (RakNet/src/RakPeer.cpp, RakClient.cpp) and the    *)
(* plugin that makes it join a session it did not open                     *)
(* (daemon/raknet_plugin.hpp).  Three threads:                             *)
(*                                                                         *)
(*   the main thread     calls Connect until it succeeds;                  *)
(*   the network thread  runs RunUpdateCycle from Initialize to Disconnect;*)
(*   the daemon thread   waits for a game, calls Disconnect and copies the *)
(*                       indexes of the reliability layer for it.          *)
(*                                                                         *)
(* The server runs the session all the while, and knows nothing of all     *)
(* this.  No packet of the handshake reaches it: when the peer is about to *)
(* send one, the plugin hands it the server's recorded answer, from inside *)
(* the call.  What the layer does with a datagram is ReliabilityLayer's.   *)
(***************************************************************************)
EXTENDS Integers, Sequences

CONSTANTS
    MaxRequests,  \* requests of a connection attempt (6)
    InboxSize     \* bound: datagrams waiting at the socket

ASSUME PeerAssumption == MaxRequests \in Nat /\ InboxSize \in Nat \ {0}

VARIABLES
    main,         \* where the main thread is
    daemon,       \* where the daemon thread is
    network,      \* where the network thread is
    endThreads, isMainLoopThreadActive,
    inbox,        \* datagrams of the server, "closed" without a socket
    requestsMade, \* of the entry of requestedConnectionList, or NoRequest
    banList,      \* "none", or when the server was banned
    isActive, connectMode, indexes,  \* remoteSystemList[0] and its layer
    kicked,       \* the layer holds a disconnection notification
    current_state,\* of the plugin
    events,       \* history of the packets added for the user
    handledWith,  \* history: indexes datagrams of the session were handled with
    copied        \* the indexes the daemon thread copied

peerVars == << inbox, requestsMade, banList, isActive, connectMode, indexes,
               kicked, current_state, events, handledWith >>
flags    == << endThreads, isMainLoopThreadActive >>
vars     == << main, daemon, network, flags, peerVars, copied >>

NoRequest == -1
Datagrams == { "small", "big", "kick" }
Event(e)  == \E n \in 1..Len(events) : events[n] = e
IsBanned  == banList # "none"

Init ==
    /\ main = "disconnect"
    /\ daemon = "none"
    /\ network = "none"
    /\ endThreads = TRUE
    /\ isMainLoopThreadActive = FALSE
    /\ inbox = "closed"
    /\ requestsMade = NoRequest
    /\ banList = "none"
    /\ isActive = FALSE
    /\ connectMode = "NO_ACTION"
    /\ indexes = "zero"
    /\ kicked = FALSE
    /\ current_state = "kWaitingForFirstRequest"
    /\ events = << >>
    /\ handledWith = {}
    /\ copied = "none"

-----------------------------------------------------------------------------
(* Connect and Disconnect.                                                 *)

\* Mutant of CleanUp: it resets the layer, as the line commented out in it did.
CleanUpReset ==
    /\ isActive' = FALSE
    /\ indexes' = "zero"
    /\ inbox' = "closed"
    /\ requestsMade' = NoRequest
    /\ UNCHANGED << banList, connectMode, kicked, current_state, events, handledWith >>

\* Disconnect, once the network thread has ended: the slot is given up, its
\* layer is left as it is, and the socket and the requests are gone.
CleanUp ==
    /\ isActive' = FALSE
    /\ inbox' = "closed"
    /\ requestsMade' = NoRequest
    /\ UNCHANGED << banList, connectMode, indexes, kicked, current_state,
                    events, handledWith >>

\* RakClient::Connect disconnects first.
ConnectDisconnects ==
    /\ main = "disconnect"
    /\ main' = "wait"
    /\ endThreads' = TRUE
    /\ UNCHANGED << daemon, network, isMainLoopThreadActive, peerVars, copied >>

ConnectCleansUp ==
    /\ main = "wait"
    /\ ~isMainLoopThreadActive
    /\ main' = "initialize"
    /\ CleanUp
    /\ UNCHANGED << daemon, network, flags, copied >>

\* The local port is still taken, or there is no thread to be had.
InitializeFails ==
    /\ main = "initialize"
    /\ main' = "disconnect"
    /\ UNCHANGED << daemon, network, flags, peerVars, copied >>

Initialize ==
    /\ main = "initialize"
    /\ main' = "waitForThread"
    /\ endThreads' = FALSE
    /\ inbox' = << >>
    /\ isActive' = FALSE
    /\ connectMode' = "NO_ACTION"
    /\ indexes' = "zero"
    /\ kicked' = FALSE
    /\ network' = "starting"
    /\ UNCHANGED << daemon, isMainLoopThreadActive, requestsMade, banList,
                    current_state, events, handledWith, copied >>

\* Mutant of InitializeReturns: it does not wait for the network thread.
InitializeReturnsAtOnce ==
    /\ main = "waitForThread"
    /\ main' = "resolve"
    /\ UNCHANGED << daemon, network, flags, peerVars, copied >>

InitializeReturns ==
    /\ main = "waitForThread"
    /\ isMainLoopThreadActive
    /\ main' = "resolve"
    /\ UNCHANGED << daemon, network, flags, peerVars, copied >>

\* The host has no address (for now): Connect is tried again.
ResolveFails ==
    /\ main = "resolve"
    /\ main' = "disconnect"
    /\ UNCHANGED << daemon, network, flags, peerVars, copied >>

\* The request is queued, and main starts the daemon thread.
SendConnectionRequest ==
    /\ main = "resolve"
    /\ main' = "loop"
    /\ daemon' = "accept"
    /\ requestsMade' = 0
    /\ UNCHANGED << network, flags, inbox, banList, isActive, connectMode, indexes,
                    kicked, current_state, events, handledWith, copied >>

GameConnects ==
    /\ daemon = "accept"
    /\ daemon' = "disconnect"
    /\ UNCHANGED << main, network, flags, peerVars, copied >>

Disconnect ==
    /\ daemon = "disconnect"
    /\ daemon' = "wait"
    /\ endThreads' = TRUE
    /\ UNCHANGED << main, network, isMainLoopThreadActive, peerVars, copied >>

DisconnectReturns ==
    /\ daemon = "wait"
    /\ ~isMainLoopThreadActive
    /\ daemon' = "copy"
    /\ CleanUp
    /\ UNCHANGED << main, network, flags, copied >>

CopyIndexes ==
    /\ daemon = "copy"
    /\ daemon' = "done"
    /\ copied' = indexes
    /\ UNCHANGED << main, network, flags, peerVars >>

-----------------------------------------------------------------------------
(* The network thread.                                                     *)

ThreadStarts ==
    /\ network = "starting"
    /\ network' = "test"
    /\ isMainLoopThreadActive' = TRUE
    /\ UNCHANGED << main, daemon, endThreads, peerVars, copied >>

\* UpdateNetworkLoop: another cycle, or the end of the thread.
TestEndThreads ==
    /\ network = "test"
    /\ IF endThreads
       THEN network' = "none" /\ isMainLoopThreadActive' = FALSE
       ELSE network' = "receive" /\ UNCHANGED isMainLoopThreadActive
    /\ UNCHANGED << main, daemon, endThreads, peerVars, copied >>

\* ProcessNetworkPacket on a datagram of the session.  A server whose
\* connection the peer does not know of is an unknown system to it.
ProcessNetworkPacket(d) ==
    IF IsBanned
    THEN UNCHANGED << banList, kicked, handledWith >>
    ELSE IF isActive
    THEN /\ handledWith' = handledWith \cup { indexes }
         /\ kicked' = (kicked \/ d = "kick")
         /\ UNCHANGED banList
    ELSE /\ banList' = IF d # "big" THEN "none"
                       ELSE IF requestsMade = NoRequest THEN "early" ELSE "late"
         /\ UNCHANGED << kicked, handledWith >>

\* Mutant of AfterDatagram: endThreads is looked at between cycles only.
AfterDatagramOn == network' = "receive"

\* The receive loop looks at endThreads after every datagram.
AfterDatagram == network' = IF endThreads THEN "test" ELSE "receive"

ReceiveDatagram ==
    /\ network = "receive"
    /\ inbox # << >>
    /\ ProcessNetworkPacket(Head(inbox))
    /\ inbox' = Tail(inbox)
    /\ AfterDatagram
    /\ UNCHANGED << main, daemon, flags, requestsMade, isActive, connectMode, indexes,
                    current_state, events, copied >>

\* There is nothing left to read.
ReceiveNothing ==
    /\ network = "receive"
    /\ inbox = << >>
    /\ network' = IF endThreads THEN "test" ELSE "attempt"
    /\ UNCHANGED << main, daemon, flags, peerVars, copied >>

\* The recorded answer ID_OPEN_CONNECTION_REPLY: a slot is assigned, and from
\* inside SendImmediate the plugin ends the handshake and restores the indexes.
EmulateReply ==
    /\ isActive' = TRUE
    /\ connectMode' = "CONNECTED"
    /\ indexes' = "session"
    /\ kicked' = FALSE
    /\ events' = events \o << "AUTH_KEY", "CONNECTION_REQUEST_ACCEPTED", "STATIC_DATA" >>
    /\ current_state' = "kNone"
    /\ requestsMade' = NoRequest

NoAnswer == UNCHANGED << isActive, connectMode, indexes, kicked, events >>

\* Mutants: a request too many is made; requests are not counted.
MayRequestAgain == requestsMade \in 0..MaxRequests
Uncounted       == requestsMade

MayRequest == requestsMade \in 0..(MaxRequests - 1)
Counted    == requestsMade + 1

\* A request is due.  The plugin answers the first with the cookie, to which
\* the peer sends a second one at once, and that with the reply; an answer that
\* comes from a banned address is dropped.
Request ==
    /\ network = "attempt"
    /\ MayRequest
    /\ \/ /\ current_state \in { "kWaitingForFirstRequest", "kWaitingForSecondRequest" }
          /\ ~IsBanned
          /\ EmulateReply
       \/ /\ current_state = "kWaitingForFirstRequest"
          /\ IsBanned
          /\ current_state' = "kWaitingForSecondRequest"
          /\ requestsMade' = Counted
          /\ NoAnswer
       \/ /\ current_state = "kWaitingForSecondRequest"
          /\ IsBanned
          /\ current_state' = "kWaitingForThirdRequest"
          /\ requestsMade' = Counted
          /\ NoAnswer
       \/ /\ current_state = "kWaitingForThirdRequest"
          /\ requestsMade' = Counted
          /\ UNCHANGED current_state
          /\ NoAnswer
    /\ network' = "update"
    /\ UNCHANGED << main, daemon, flags, inbox, banList, handledWith, copied >>

\* Mutant of AttemptFails: the request stays in the list.
AttemptFailsKept ==
    /\ network = "attempt"
    /\ requestsMade = MaxRequests
    /\ events' = Append(events, "CONNECTION_ATTEMPT_FAILED")
    /\ network' = "update"
    /\ UNCHANGED << main, daemon, flags, inbox, requestsMade, banList, isActive,
                    connectMode, indexes, kicked, current_state, handledWith, copied >>

\* All requests were made, and another would be due.
AttemptFails ==
    /\ network = "attempt"
    /\ requestsMade = MaxRequests
    /\ requestsMade' = NoRequest
    /\ events' = Append(events, "CONNECTION_ATTEMPT_FAILED")
    /\ network' = "update"
    /\ UNCHANGED << main, daemon, flags, inbox, banList, isActive, connectMode,
                    indexes, kicked, current_state, handledWith, copied >>

NothingDue ==
    /\ network = "attempt"
    /\ network' = "update"
    /\ UNCHANGED << main, daemon, flags, peerVars, copied >>

\* Mutant of CloseConnectionInternal: the slot stays in remoteSystemLookup.
CloseKeepsLookup ==
    /\ indexes' = "zero"
    /\ UNCHANGED << isActive, kicked >>

\* CloseConnectionInternal does nothing once endThreads is set.
CloseConnectionInternal ==
    IF endThreads
    THEN UNCHANGED << isActive, indexes, kicked >>
    ELSE isActive' = FALSE /\ indexes' = "zero" /\ kicked' = FALSE

\* The connection is dead, or the last acknowledgement has left for a server
\* that disconnected: the user is told, and the connection is closed.
UpdateCloses ==
    /\ network = "update"
    /\ isActive
    /\ \/ /\ connectMode = "CONNECTED"
          /\ events' = Append(events, "CONNECTION_LOST")
       \/ /\ connectMode = "DISCONNECT_ON_NO_ACK"
          /\ events' = Append(events, "DISCONNECTION_NOTIFICATION")
    /\ CloseConnectionInternal
    /\ network' = "test"
    /\ UNCHANGED << main, daemon, flags, inbox, requestsMade, banList, connectMode,
                    current_state, handledWith, copied >>

\* Nothing is wrong: what the layer holds is dispatched.
UpdateDispatches ==
    /\ network = "update"
    /\ connectMode' = IF isActive /\ kicked THEN "DISCONNECT_ON_NO_ACK" ELSE connectMode
    /\ kicked' = (kicked /\ ~isActive)
    /\ network' = "test"
    /\ UNCHANGED << main, daemon, flags, inbox, requestsMade, banList, isActive,
                    indexes, current_state, events, handledWith, copied >>

-----------------------------------------------------------------------------
(* The world outside.                                                      *)

Arrive(d) ==
    /\ inbox # "closed"
    /\ Len(inbox) < InboxSize
    /\ inbox' = Append(inbox, d)
    /\ UNCHANGED << main, daemon, network, flags, requestsMade, banList, isActive,
                    connectMode, indexes, kicked, current_state, events,
                    handledWith, copied >>

\* Ten seconds are over.  An attempt takes six: a ban laid while it is under
\* way outlives it.
BanExpires ==
    /\ banList = "early" \/ (banList = "late" /\ requestsMade = NoRequest)
    /\ banList' = "none"
    /\ UNCHANGED << main, daemon, network, flags, inbox, requestsMade, isActive,
                    connectMode, indexes, kicked, current_state, events,
                    handledWith, copied >>

MainStep == ConnectDisconnects \/ ConnectCleansUp \/ InitializeFails \/ Initialize
            \/ InitializeReturns \/ ResolveFails \/ SendConnectionRequest
DaemonStep == Disconnect \/ DisconnectReturns \/ CopyIndexes
NetworkStep == ThreadStarts \/ TestEndThreads \/ ReceiveDatagram \/ ReceiveNothing
               \/ Request \/ AttemptFails \/ NothingDue \/ UpdateCloses \/ UpdateDispatches

Next == MainStep \/ DaemonStep \/ NetworkStep \/ GameConnects \/ BanExpires
        \/ \E d \in Datagrams : Arrive(d)

\* The threads keep running, and a request that stays due is made.
Spec == Init /\ [][Next]_vars
        /\ WF_vars(MainStep) /\ WF_vars(DaemonStep) /\ WF_vars(NetworkStep)
        /\ SF_vars(Request \/ AttemptFails)

-----------------------------------------------------------------------------
(* Properties.                                                             *)

\* The type invariant.
TypeOK ==
    /\ main \in { "disconnect", "wait", "initialize", "waitForThread", "resolve", "loop" }
    /\ daemon \in { "none", "accept", "disconnect", "wait", "copy", "done" }
    /\ network \in { "none", "starting", "test", "receive", "attempt", "update" }
    /\ endThreads \in BOOLEAN /\ isMainLoopThreadActive \in BOOLEAN
    /\ inbox = "closed" \/ inbox \in Seq(Datagrams)
    /\ requestsMade \in { NoRequest } \cup 0..MaxRequests
    /\ banList \in { "none", "early", "late" }
    /\ isActive \in BOOLEAN /\ kicked \in BOOLEAN
    /\ connectMode \in { "NO_ACTION", "CONNECTED", "DISCONNECT_ON_NO_ACK" }
    /\ indexes \in { "zero", "session" }
    /\ current_state \in { "kNone", "kWaitingForFirstRequest", "kWaitingForSecondRequest",
                           "kWaitingForThirdRequest" }
    /\ events \in Seq({ "AUTH_KEY", "CONNECTION_REQUEST_ACCEPTED", "STATIC_DATA",
                        "CONNECTION_ATTEMPT_FAILED", "CONNECTION_LOST",
                        "DISCONNECTION_NOTIFICATION" })
    /\ handledWith \subseteq { "zero", "session" }
    /\ copied \in { "none", "zero", "session" }

\* What Disconnect cleans up and the daemon thread copies, and what Initialize
\* allocates, no network thread is using (RakPeer.cpp:377, 649): there is none.
CleansUpAlone ==
    main = "initialize" \/ daemon \in { "copy", "done" } =>
        network = "none" /\ ~isMainLoopThreadActive

\* A datagram of the session never meets a layer that has not the session's
\* indexes (the plugin restores them inside the call that assigns the slot, and
\* a closed connection is no longer looked up).
SessionMeetsItsIndexes == "zero" \notin handledWith

\* The daemon copies the session's indexes for the game when the handshake has
\* ended and the connection was not closed since; a layer it never had is zero.
SessionIsHandedOver ==
    copied # "none" =>
        /\ ~Event("CONNECTION_REQUEST_ACCEPTED") => copied = "zero"
        /\ Event("CONNECTION_REQUEST_ACCEPTED") /\ ~Event("CONNECTION_LOST")
              /\ ~Event("DISCONNECTION_NOTIFICATION") => copied = "session"

\* One Connect has one outcome, told to the user once.
OneOutcome ==
    \A m, n \in 1..Len(events) :
        events[m] \in { "CONNECTION_REQUEST_ACCEPTED", "CONNECTION_ATTEMPT_FAILED" }
        /\ events[n] \in { "CONNECTION_REQUEST_ACCEPTED", "CONNECTION_ATTEMPT_FAILED" }
        => m = n

\* The attempt ends, unless the server sends so much that the receive loop
\* never does, or Disconnect comes first.
ConnectEnds ==
    ([]<>(network = "attempt")) =>
        (requestsMade # NoRequest ~> requestsMade = NoRequest)

\* A game that connects gets its indexes, however much the server sends.
GameGetsIndexes == daemon = "disconnect" ~> copied # "none"

\* What the comment on the ban takes for granted (RakPeer.cpp:3799): "Unknown
\* systems should never send more than a small amount of data."  The server of
\* the session does, before the handshake, and is banned.
ServerIsNotBanned == ~IsBanned

=============================================================================
