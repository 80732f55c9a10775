---------------------------- MODULE GameHandshake ----------------------------
(***************************************************************************)
(* How a started game joins the session its daemon kept                    *)
(* (sa_module/dllmain.cpp).  The RakPeer inside samp.dll connects as it    *)
(* always does, and hooks see to it that no packet of the handshake        *)
(* reaches the server: each answer is the one recorded when the session    *)
(* was opened.  Two threads share current_state, an atomic variable:       *)
(*                                                                         *)
(*   main     calls process_update once in a frame, which emulates the     *)
(*            next answer, and Receive, which gives packets to the game;   *)
(*   network  runs RunUpdateCycle: receives, makes requests, pings.        *)
(*                                                                         *)
(* samp.dll itself is not in the repository; its peer is the RakPeer.cpp   *)
(* that is.  Both threads come to requestedConnectionList, a queue for one *)
(* reader: main when it emulates the answer to the second request.         *)
(***************************************************************************)
EXTENDS Integers, Sequences

CONSTANTS
    MaxRequests,   \* requests of a connection attempt (6)
    ServerAnswers, \* what the server may send to a request that reaches it
    OwnRpcs,       \* what the game sends of itself: the answers to a class selection and
                   \* to a spawn, which a hook looks for, and any other RPC
    InboxSize,     \* bound: datagrams waiting at the socket
    MaxCommands    \* bound: what the game has handed to Send and is not numbered yet

Answers == { "COOKIE", "REPLY", "ATTEMPT_FAILED" }

ASSUME HandshakeAssumption ==
    /\ MaxRequests \in Nat \ {0}
    /\ ServerAnswers \subseteq Answers
    /\ OwnRpcs \subseteq { "RequestClass", "Spawn", "RPC" }
    /\ InboxSize \in Nat \ {0}
    /\ MaxCommands \in Nat

VARIABLES
    current_state,
    main, network,    \* where the threads are
    game,             \* "wait" to connect, "connecting", "joined"
    toGame,           \* packets to be returned by Receive
    commands,         \* bufferedCommands: what Send left to the network thread
    entry,            \* of requestedConnectionList: "none", "free", or "taken"
                      \* by a ReadLock
    requestsMade,
    slot,             \* remoteSystemList[0]: "none" or its connectMode
    layer,            \* its numbers and indexes: "fresh" or of the "session"
    inbox,            \* datagrams at the socket
    sent,             \* history: what left for the server, but for pings, and the
                      \* numbers it had
    handledWith,      \* history: layers that datagrams of the session met
    mishap            \* history: "missed", "stalled", "lost", "raced" and "fellBack"

peer == << entry, requestsMade, slot >>
vars == << current_state, main, network, game, toGame, commands, peer, layer, inbox,
           sent, handledWith, mishap >>

EmulStates ==
    { "kNone", "kWaitingForFirstRequest", "kCanEmulCookie", "kWaitingForSecondRequest",
      "kCanEmulReply", "kWaitingForThirdRequest", "kCanEmulAuthKey", "kWaitingForAuthKey",
      "kCanEmulConnectionAccept", "kWaitingForClientJoin", "kCanEmulStaticData" }

\* The game was started with a dump, and the daemon sent its parameters
\* (samp_init_hook).
Init ==
    /\ current_state = "kWaitingForFirstRequest"
    /\ main = "frame"
    /\ network = "receive"
    /\ game = "wait"
    /\ toGame = << >>
    /\ commands = << >>
    /\ entry = "none"
    /\ requestsMade = 0
    /\ slot = "none"
    /\ layer = "fresh"
    /\ inbox = << >>
    /\ sent = {}
    /\ handledWith = {}
    /\ mishap = {}

-----------------------------------------------------------------------------
(* The hooks.                                                              *)

\* What is sent reliably, and so uses up a number of the layer.
Reliable == OwnRpcs \cup { "CONNECTION_REQUEST", "AUTH_KEY", "ClientJoin", "DETECT_LOST_CONNECTIONS" }

\* A datagram of kind k leaves, with the numbers of the layer.
Leaves(k) == sent' = sent \cup { << k, layer >> }

\* send_to_hook, on ID_OPEN_CONNECTION_REQUEST.
SendToHook ==
    CASE current_state = "kWaitingForFirstRequest" ->
           current_state' = "kCanEmulCookie" /\ UNCHANGED sent
      [] current_state = "kWaitingForSecondRequest" ->
           current_state' = "kCanEmulReply" /\ UNCHANGED sent
      [] OTHER -> Leaves("OPEN_CONNECTION_REQUEST") /\ UNCHANGED current_state

\* send_immediate_hook, on ID_CONNECTION_REQUEST.
SendImmediateHook ==
    IF current_state = "kWaitingForThirdRequest"
    THEN current_state' = "kCanEmulAuthKey" /\ UNCHANGED sent
    ELSE Leaves("CONNECTION_REQUEST") /\ UNCHANGED current_state

\* Mutant of SendHook: what the game answers to a replayed class selection or spawn
\* goes to the server.
SendHookAnswers(k) ==
    CASE k = "AUTH_KEY" /\ current_state = "kWaitingForAuthKey" ->
           current_state' = "kCanEmulConnectionAccept" /\ UNCHANGED commands
      [] k = "ClientJoin" /\ current_state = "kWaitingForClientJoin" ->
           current_state' = "kCanEmulStaticData" /\ UNCHANGED commands
      [] OTHER -> commands' = Append(commands, k) /\ UNCHANGED current_state

\* send_hook, on what the game sends: the answer to ID_AUTH_KEY, RPC_ClientJoin and the
\* answers to replayed RPCs go nowhere.  Anything else RakPeer::Send leaves to the
\* network thread, which numbers it.
SendHook(k) ==
    CASE k = "AUTH_KEY" /\ current_state = "kWaitingForAuthKey" ->
           current_state' = "kCanEmulConnectionAccept" /\ UNCHANGED commands
      [] k = "ClientJoin" /\ current_state = "kWaitingForClientJoin" ->
           current_state' = "kCanEmulStaticData" /\ UNCHANGED commands
      [] k \in { "RequestClass", "Spawn" } /\ current_state = "kCanEmulStaticData" ->
           UNCHANGED << commands, current_state >>
      [] OTHER -> commands' = Append(commands, k) /\ UNCHANGED current_state

\* Mutant of Passes: what is part of no handshake passes.
PassesSession(d) == d = "SESSION" \/ current_state = "kNone"

\* process_packet_hook: which datagrams reach ProcessNetworkPacket.
Passes(d) ==
    \/ current_state = "kNone"
    \/ current_state = "kCanEmulCookie" /\ d = "COOKIE"
    \/ current_state = "kWaitingForThirdRequest" /\ d = "REPLY"

-----------------------------------------------------------------------------
(* The main thread: process_update.                                        *)

\* The cookie is emulated.  The peer answers a cookie from inside the call,
\* with a second request, and the state is still kCanEmulCookie: it leaves.
EmulateCookie ==
    /\ main = "frame"
    /\ current_state = "kCanEmulCookie"
    /\ SendToHook
    /\ main' = "cookie"
    /\ UNCHANGED << commands, network, game, toGame, peer, layer, inbox, handledWith, mishap >>

\* Mutant of CookieEmulated: the request that left is taken for intercepted.
CookieSkipsRequest ==
    /\ main = "cookie"
    /\ current_state' = "kWaitingForThirdRequest"
    /\ main' = "frame"
    /\ UNCHANGED << commands, network, game, toGame, peer, layer, inbox, sent, handledWith, mishap >>

CookieEmulated ==
    /\ main = "cookie"
    /\ current_state' = "kWaitingForSecondRequest"
    /\ main' = "frame"
    /\ UNCHANGED << commands, network, game, toGame, peer, layer, inbox, sent, handledWith, mishap >>

EmulateReply ==
    /\ main = "frame"
    /\ current_state = "kCanEmulReply"
    /\ current_state' = "kWaitingForThirdRequest"
    /\ main' = "reply"
    /\ UNCHANGED << commands, network, game, toGame, peer, layer, inbox, sent, handledWith, mishap >>

\* ProcessNetworkPacket on ID_OPEN_CONNECTION_REPLY: ReadLock finds the queue at
\* its end when there is no request, or when the network thread is at it.
MainLooksUpRequest ==
    /\ main = "reply"
    /\ main' = IF entry = "free" THEN "take" ELSE "frame"
    /\ mishap' = mishap \cup (IF entry = "free" THEN {} ELSE { "missed" })
    /\ UNCHANGED << current_state, commands, network, game, toGame, peer, layer, inbox, sent,
                    handledWith >>

\* The request is found: a slot with a fresh layer is assigned, ID_CONNECTION_REQUEST
\* is sent, and the request is taken off the queue.
AssignSlot ==
    /\ slot' = "REQUESTED_CONNECTION"
    /\ layer' = IF slot = "none" THEN "fresh" ELSE layer
    /\ SendImmediateHook
    /\ entry' = "none"
    /\ mishap' = mishap \cup (IF entry = "free" THEN {} ELSE { "raced" })

MainTakesRequest ==
    /\ main = "take"
    /\ AssignSlot
    /\ main' = "frame"
    /\ UNCHANGED << commands, network, game, toGame, requestsMade, inbox, handledWith >>

EmulateAuthKey ==
    /\ main = "frame"
    /\ current_state = "kCanEmulAuthKey"
    /\ toGame' = Append(toGame, "AUTH_KEY")
    /\ current_state' = "kWaitingForAuthKey"
    /\ UNCHANGED << commands, main, network, game, peer, layer, inbox, sent, handledWith, mishap >>

\* Mutant of EmulateConnectionAccept: connectMode is left to the peer.
AcceptKeepsMode ==
    /\ main = "frame"
    /\ current_state = "kCanEmulConnectionAccept"
    /\ toGame' = Append(toGame, "CONNECTION_REQUEST_ACCEPTED")
    /\ current_state' = "kWaitingForClientJoin"
    /\ UNCHANGED << commands, main, network, game, peer, layer, inbox, sent, handledWith, mishap >>

\* connectMode is set in remoteSystemList[0], whether it is assigned or not.
EmulateConnectionAccept ==
    /\ main = "frame"
    /\ current_state = "kCanEmulConnectionAccept"
    /\ slot' = IF slot = "none" THEN "none" ELSE "CONNECTED"
    /\ toGame' = Append(toGame, "CONNECTION_REQUEST_ACCEPTED")
    /\ current_state' = "kWaitingForClientJoin"
    /\ UNCHANGED << commands, main, network, game, entry, requestsMade, layer, inbox, sent,
                    handledWith, mishap >>

\* The static data, and in the same call restore_samp_state: what the game showed,
\* and the RPCs the daemon kept.
EmulateStaticData ==
    /\ main = "frame"
    /\ current_state = "kCanEmulStaticData"
    /\ toGame' = Append(toGame, "RECEIVED_STATIC_DATA")
    /\ main' = "rpcs"
    /\ UNCHANGED << current_state, commands, network, game, peer, layer, inbox, sent, handledWith,
                    mishap >>

\* Something threw: the state of restoring ends with the slot as it is, and the
\* game is told to connect anew.
RestoreFails ==
    /\ main = "rpcs"
    /\ current_state' = "kNone"
    /\ game' = "wait"
    /\ mishap' = mishap \cup { "fellBack" }
    /\ main' = "frame"
    /\ UNCHANGED << commands, network, toGame, peer, layer, inbox, sent, handledWith >>

RpcsRestored ==
    /\ main = "rpcs"
    /\ current_state' = "kNone"
    /\ main' = "indexes"
    /\ UNCHANGED << commands, network, game, toGame, peer, layer, inbox, sent, handledWith, mishap >>

IndexesRestored ==
    /\ main = "indexes"
    /\ layer' = "session"
    /\ main' = "frame"
    /\ UNCHANGED << current_state, commands, network, game, toGame, peer, inbox, sent, handledWith,
                    mishap >>

ProcessUpdate ==
    \/ EmulateCookie \/ CookieEmulated \/ EmulateReply \/ MainLooksUpRequest
    \/ MainTakesRequest \/ EmulateAuthKey \/ EmulateConnectionAccept
    \/ EmulateStaticData \/ RpcsRestored \/ IndexesRestored

-----------------------------------------------------------------------------
(* The main thread: the game.                                              *)

\* Receive returns a packet, and the game answers it: if the attempt failed or the
\* connection was lost, it connects anew.
GameReceives ==
    /\ main = "frame"
    /\ toGame # << >>
    /\ toGame' = Tail(toGame)
    /\ CASE Head(toGame) = "AUTH_KEY" -> SendHook("AUTH_KEY") /\ UNCHANGED game
         [] Head(toGame) = "CONNECTION_REQUEST_ACCEPTED" ->
              SendHook("ClientJoin") /\ game' = "joined"
         [] Head(toGame) \in { "CONNECTION_ATTEMPT_FAILED", "CONNECTION_LOST" } ->
              game' = "wait" /\ UNCHANGED << current_state, commands >>
         [] OTHER -> UNCHANGED << current_state, commands, game >>
    /\ UNCHANGED << main, network, peer, layer, inbox, sent, handledWith, mishap >>

\* A game that has joined sends RPCs of its own: from inside restore_samp_state, as the
\* handlers of RPC_InitGame and of the replayed RPCs answer and local_player_state
\* spawns the player, and when it plays on.
GameSends(k) ==
    /\ game = "joined"
    /\ main = "rpcs" \/ (main = "frame" /\ current_state = "kNone")
    /\ Len(commands) < MaxCommands
    /\ SendHook(k)
    /\ UNCHANGED << main, network, game, toGame, peer, layer, inbox, sent, handledWith, mishap >>

\* Connect disconnects first (the network thread has ended its cycle), which clears
\* every queue; then the new request is queued.
GameConnects ==
    /\ main = "frame"
    /\ game = "wait"
    /\ network = "receive"
    /\ game' = "connecting"
    /\ toGame' = << >>
    /\ commands' = << >>
    /\ entry' = "free"
    /\ requestsMade' = 0
    /\ slot' = "none"
    /\ layer' = "fresh"
    /\ inbox' = << >>
    /\ UNCHANGED << current_state, main, network, sent, handledWith, mishap >>

-----------------------------------------------------------------------------
(* The network thread.                                                     *)

\* A datagram is received, and dropped by the hook or processed.
Receive ==
    /\ network = "receive"
    /\ inbox # << >>
    /\ inbox' = Tail(inbox)
    /\ LET d == Head(inbox)
       IN  CASE Passes(d) /\ d = "COOKIE" ->
                  SendToHook /\ UNCHANGED << network, entry, toGame, handledWith >>
             [] Passes(d) /\ d = "REPLY" /\ entry = "free" ->
                  network' = "take" /\ UNCHANGED << current_state, sent, entry, toGame, handledWith >>
             [] Passes(d) /\ d = "ATTEMPT_FAILED" /\ entry = "free" ->
                  /\ entry' = "none"
                  /\ toGame' = Append(toGame, "CONNECTION_ATTEMPT_FAILED")
                  /\ UNCHANGED << current_state, sent, network, handledWith >>
             [] Passes(d) /\ d = "SESSION" /\ slot # "none" ->
                  /\ handledWith' = handledWith \cup { layer }
                  /\ UNCHANGED << current_state, sent, network, entry, toGame >>
             [] OTHER ->
                  UNCHANGED << current_state, sent, network, entry, toGame, handledWith >>
    /\ UNCHANGED << commands, main, game, requestsMade, slot, layer, mishap >>

\* A reply of the server itself was let through.
NetworkTakesRequest ==
    /\ network = "take"
    /\ AssignSlot
    /\ network' = "receive"
    /\ UNCHANGED << commands, main, game, toGame, requestsMade, inbox, handledWith >>

\* Nothing is left to receive; what the game's thread has sent is next.
ReceiveEnds ==
    /\ network = "receive"
    /\ inbox = << >>
    /\ network' = "commands"
    /\ UNCHANGED << current_state, commands, main, game, toGame, peer, layer, inbox, sent,
                    handledWith, mishap >>

\* SendImmediate gives it to the layer of the system it is for, if there is one.
SendCommand ==
    /\ network = "commands"
    /\ commands # << >>
    /\ commands' = Tail(commands)
    /\ IF slot = "none" THEN UNCHANGED sent ELSE Leaves(Head(commands))
    /\ UNCHANGED << current_state, main, network, game, toGame, peer, layer, inbox,
                    handledWith, mishap >>

\* ReadLock on the requests looks ...
LookUpRequest ==
    /\ network = "commands"
    /\ commands = << >>
    /\ network' = IF entry = "free" THEN "lock" ELSE "update"
    /\ UNCHANGED << current_state, commands, main, game, toGame, peer, layer, inbox, sent,
                    handledWith, mishap >>

\* ... and takes.
LockRequest ==
    /\ network = "lock"
    /\ network' = "scan"
    /\ entry' = IF entry = "free" THEN "taken" ELSE entry
    /\ UNCHANGED << current_state, commands, main, game, toGame, requestsMade, slot, layer, inbox,
                    sent, handledWith, mishap >>

\* The queue is wound back to its head.
CancelReadLock == entry' = IF entry = "taken" THEN "free" ELSE entry

NothingDue ==
    /\ network = "scan"
    /\ CancelReadLock
    /\ network' = "update"
    /\ UNCHANGED << current_state, commands, main, game, toGame, requestsMade, slot, layer, inbox,
                    sent, handledWith, mishap >>

\* Mutants of MayRequest: a request too many.
MayRequestAgain == requestsMade <= MaxRequests

MayRequest == requestsMade < MaxRequests

Request ==
    /\ network = "scan"
    /\ MayRequest
    /\ requestsMade' = requestsMade + 1
    /\ CancelReadLock
    /\ SendToHook
    /\ network' = "update"
    /\ UNCHANGED << commands, main, game, toGame, slot, layer, inbox, handledWith, mishap >>

AttemptFails ==
    /\ network = "scan"
    /\ requestsMade = MaxRequests
    /\ toGame' = Append(toGame, "CONNECTION_ATTEMPT_FAILED")
    /\ mishap' = mishap \cup (IF entry = "none" THEN { "raced" } ELSE {})
    /\ entry' = "none"
    /\ network' = "update"
    /\ UNCHANGED << current_state, commands, main, game, requestsMade, slot, layer, inbox, sent,
                    handledWith >>

\* The remote system.  A connection is sent something reliable when nothing else was for
\* five seconds, and is lost when nothing reliable is acknowledged in time.  One that is
\* not answered in ten seconds is given up.  (Pings, which are unreliable, are not
\* counted.)
Update ==
    /\ network = "update"
    /\ \/ /\ slot = "CONNECTED"
          /\ Leaves("DETECT_LOST_CONNECTIONS")
          /\ UNCHANGED << slot, toGame, mishap >>
       \/ /\ slot = "CONNECTED"
          /\ sent \cap (Reliable \X { layer }) # {}
          /\ slot' = "none"
          /\ toGame' = Append(toGame, "CONNECTION_LOST")
          /\ mishap' = mishap \cup { "lost" }
          /\ UNCHANGED sent
       \/ /\ slot = "REQUESTED_CONNECTION"
          /\ slot' = "none"
          /\ toGame' = Append(toGame, "CONNECTION_ATTEMPT_FAILED")
          /\ mishap' = mishap \cup { "stalled" }
          /\ UNCHANGED sent
       \/ UNCHANGED << sent, slot, toGame, mishap >>
    /\ network' = "receive"
    /\ UNCHANGED << current_state, commands, main, game, entry, requestsMade, layer, inbox,
                    handledWith >>

-----------------------------------------------------------------------------
(* The server.                                                             *)

Arrives(d) ==
    /\ Len(inbox) < InboxSize
    /\ inbox' = Append(inbox, d)
    /\ UNCHANGED << current_state, commands, main, network, game, toGame, peer, layer, sent,
                    handledWith, mishap >>

\* It goes on with the session, and answers requests that reach it.
ServerSends ==
    \/ Arrives("SESSION")
    \/ /\ \E l \in { "fresh", "session" } : << "OPEN_CONNECTION_REQUEST", l >> \in sent
       /\ \E a \in ServerAnswers : Arrives(a)

NetworkStep == Receive \/ NetworkTakesRequest \/ ReceiveEnds \/ SendCommand
               \/ LookUpRequest \/ LockRequest \/ NothingDue \/ Request \/ AttemptFails \/ Update

Next == ProcessUpdate \/ RestoreFails \/ GameReceives \/ GameConnects
        \/ (\E k \in OwnRpcs : GameSends(k)) \/ NetworkStep \/ ServerSends

\* Frames go on, the game connects when it waits for it, the network thread runs,
\* and a request that is due again and again is made.
Spec == Init /\ [][Next]_vars
        /\ WF_vars(ProcessUpdate) /\ WF_vars(GameReceives) /\ SF_vars(GameConnects)
        /\ WF_vars(NetworkStep) /\ SF_vars(Request \/ AttemptFails)

-----------------------------------------------------------------------------
(* Properties.                                                             *)

\* The type invariant.
TypeOK ==
    /\ current_state \in EmulStates
    /\ main \in { "frame", "cookie", "reply", "take", "rpcs", "indexes" }
    /\ network \in { "receive", "take", "commands", "lock", "scan", "update" }
    /\ game \in { "wait", "connecting", "joined" }
    /\ toGame \in Seq({ "AUTH_KEY", "CONNECTION_REQUEST_ACCEPTED", "RECEIVED_STATIC_DATA",
                        "CONNECTION_ATTEMPT_FAILED", "CONNECTION_LOST" })
    /\ commands \in Seq(OwnRpcs \cup { "AUTH_KEY", "ClientJoin" })
    /\ entry \in { "none", "free", "taken" }
    /\ requestsMade \in 0..MaxRequests
    /\ slot \in { "none", "REQUESTED_CONNECTION", "CONNECTED" }
    /\ layer \in { "fresh", "session" }
    /\ inbox \in Seq(Answers \cup { "SESSION" })
    /\ handledWith \subseteq { "fresh", "session" }
    /\ mishap \subseteq { "missed", "stalled", "lost", "raced", "fellBack" }

\* Of the handshake nothing but open requests reaches the server, which has the
\* player connected already, and none of the answers the game gives to a replayed class
\* selection or spawn: one that reaches it has a number of the session.  What else leaves
\* with a number of the fresh layer, which the server has seen before in the session or
\* counts as a hole, does so once the acceptance is emulated, and if it is an RPC, while
\* the session is restored.  (Unless restoring threw or a frame took more than ten
\* seconds, the connection was lost, after all of which the game connects for real, or
\* both threads took the same request.)
HandshakeStaysHere ==
    mishap \subseteq { "missed" } =>
        \A m \in sent :
            /\ m[1] \notin { "CONNECTION_REQUEST", "AUTH_KEY", "ClientJoin" }
            /\ m[2] = "fresh" => m[1] \notin { "RequestClass", "Spawn" }
            /\ m[1] = "DETECT_LOST_CONNECTIONS" =>
                 current_state \in { "kWaitingForClientJoin", "kCanEmulStaticData", "kNone" }
            /\ m[1] = "RPC" => current_state \in { "kCanEmulStaticData", "kNone" }

\* A datagram of the session is acknowledged and handed up with fresh indexes only
\* in the moment between dllmain.cpp:444 and the lines that restore the indexes
\* (with the same exceptions).
SessionWaitsForIndexes ==
    [][ "fresh" \in handledWith' \ handledWith /\ mishap \subseteq { "missed" } =>
            main = "indexes" ]_vars

\* When packets are let through again, the session is really back: a connected
\* slot with the session's numbers (if no frame took ten seconds, the connection was
\* not lost and no request was taken twice).
RestoredIsConnected ==
    current_state = "kNone" /\ main = "frame" /\ mishap = {} =>
        slot = "CONNECTED" /\ layer = "session" /\ game = "joined"

\* The handshake ends, if the emulated reply finds the request that it answers:
\* it does not when the network thread is at the queue in that moment, or has
\* just given the attempt up, and no other reply is emulated.  (And if the connection
\* is not lost meanwhile, and the server does not send so much that the receive loop
\* never ends.)
HandshakeEnds ==
    []( mishap \cap { "missed", "stalled", "lost", "raced" } = {} ) /\ []<>( network = "update" )
        => <>( current_state = "kNone" )

=============================================================================
