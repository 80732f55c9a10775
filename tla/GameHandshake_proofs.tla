------------------------- MODULE GameHandshake_proofs -------------------------
(***************************************************************************)
(* Machine-checked proofs about GameHandshake, for any number of requests, *)
(* any answers of the server and any number of datagrams at the socket.    *)
(***************************************************************************)
EXTENDS GameHandshake, SequenceTheorems, TLAPS

Notices == { "AUTH_KEY", "CONNECTION_REQUEST_ACCEPTED", "RECEIVED_STATIC_DATA",
             "CONNECTION_ATTEMPT_FAILED", "CONNECTION_LOST" }

\* The states up to the third request, before the peer has a slot.
Early == { "kWaitingForFirstRequest", "kCanEmulCookie", "kWaitingForSecondRequest",
           "kCanEmulReply", "kWaitingForThirdRequest" }

\* What current_state is while process_update is in the middle of a step.
StepInv ==
    /\ main = "cookie" => current_state = "kCanEmulCookie"
    /\ main \in { "reply", "take" } =>
         current_state \in { "kWaitingForThirdRequest", "kCanEmulAuthKey" }
    /\ main = "rpcs" => current_state = "kCanEmulStaticData"
    /\ main = "indexes" => current_state = "kNone"

\* No frame stalled, the connection was not lost, nothing threw, and no request was
\* taken twice.
Undisturbed == mishap \subseteq { "missed" }

\* As long as there is a request it has no outcome; who took the reply finds it
\* there, or gone.
RequestInv ==
    /\ entry # "none" => current_state \in Early /\ toGame = << >> /\ game = "connecting"
    /\ network = "take" => current_state = "kWaitingForThirdRequest" \/ entry = "none"
    /\ current_state \in Early => toGame \in Seq({ "CONNECTION_ATTEMPT_FAILED" })

\* From the reply on each state fits one packet on its way to the game, and the slot.
SessionInv ==
    /\ current_state \in Early => slot = "none"
    /\ current_state \in { "kCanEmulAuthKey", "kCanEmulConnectionAccept" } =>
         toGame = << >> /\ slot = "REQUESTED_CONNECTION" /\ game = "connecting"
    /\ current_state = "kWaitingForAuthKey" =>
         toGame = << "AUTH_KEY" >> /\ slot = "REQUESTED_CONNECTION" /\ game = "connecting"
    /\ current_state = "kWaitingForClientJoin" =>
         toGame = << "CONNECTION_REQUEST_ACCEPTED" >> /\ slot = "CONNECTED" /\ game = "connecting"
    /\ current_state = "kCanEmulStaticData" =>
         /\ toGame = IF main = "rpcs" THEN << "RECEIVED_STATIC_DATA" >> ELSE << >>
         /\ slot = "CONNECTED" /\ game = "joined"
    /\ current_state = "kNone" =>
         /\ toGame \in { << >>, << "RECEIVED_STATIC_DATA" >> }
         /\ slot = "CONNECTED" /\ game = "joined"
         /\ layer = "session" \/ main = "indexes"

\* What waits to be numbered is of a game that has joined; its answers to a class
\* selection and to a spawn find the indexes of the session.
CommandsInv ==
    \A n \in 1..Len(commands) :
        /\ commands[n] \in OwnRpcs
        /\ current_state \in { "kCanEmulStaticData", "kNone" }
        /\ commands[n] \in { "RequestClass", "Spawn" } =>
             current_state = "kNone" /\ layer = "session"

\* The inductive invariant.
IInv ==
    /\ TypeOK
    /\ StepInv
    /\ Undisturbed => RequestInv /\ SessionInv /\ CommandsInv
    /\ HandshakeStaysHere
-----------------------------------------------------------------------------
\* A packet alone on its way.
LEMMA Alone == \A x : Append(<< >>, x) = << x >>
  OBVIOUS

\* In the middle of a step of process_update nobody else changes current_state,
\* but for the network thread that takes a reply.
LEMMA StepKept ==
    ASSUME TypeOK, StepInv, [Next]_vars
    PROVE  StepInv'
<1>1. CASE EmulateCookie
  BY <1>1 DEF TypeOK, StepInv, EmulateCookie, SendToHook, Leaves, peer
<1>2. CASE CookieEmulated
  BY <1>2 DEF TypeOK, StepInv, CookieEmulated, peer
<1>3. CASE EmulateReply
  BY <1>3 DEF TypeOK, StepInv, EmulateReply, peer
<1>4. CASE MainLooksUpRequest
  BY <1>4 DEF TypeOK, StepInv, MainLooksUpRequest, peer
<1>5. CASE MainTakesRequest
  BY <1>5 DEF TypeOK, StepInv, MainTakesRequest, AssignSlot, SendImmediateHook,
     Leaves, peer
<1>6. CASE EmulateAuthKey
  BY <1>6 DEF TypeOK, StepInv, EmulateAuthKey, peer
<1>7. CASE EmulateConnectionAccept
  BY <1>7 DEF TypeOK, StepInv, EmulateConnectionAccept, peer
<1>8. CASE EmulateStaticData
  BY <1>8 DEF TypeOK, StepInv, EmulateStaticData, peer
<1>9. CASE RpcsRestored
  BY <1>9 DEF TypeOK, StepInv, RpcsRestored, peer
<1>10. CASE IndexesRestored
  BY <1>10 DEF TypeOK, StepInv, IndexesRestored, peer
<1>11. CASE RestoreFails
  BY <1>11 DEF TypeOK, StepInv, RestoreFails, peer
<1>12. CASE GameReceives
  BY <1>12 DEF TypeOK, StepInv, GameReceives, SendHook, Leaves, peer
<1>13. CASE GameConnects
  BY <1>13 DEF TypeOK, StepInv, GameConnects, peer
<1>14. CASE Receive
  BY <1>14 DEF TypeOK, StepInv, Receive, SendToHook, Leaves, peer
<1>15. CASE NetworkTakesRequest
  BY <1>15 DEF TypeOK, StepInv, NetworkTakesRequest, AssignSlot, SendImmediateHook,
     Leaves, peer
<1>16. CASE LookUpRequest
  BY <1>16 DEF TypeOK, StepInv, LookUpRequest, peer
<1>17. CASE LockRequest
  BY <1>17 DEF TypeOK, StepInv, LockRequest, peer
<1>18. CASE NothingDue
  BY <1>18 DEF TypeOK, StepInv, NothingDue, CancelReadLock, peer
<1>19. CASE Request
  BY <1>19 DEF TypeOK, StepInv, Request, SendToHook, Leaves, CancelReadLock,
     MayRequest, peer
<1>20. CASE AttemptFails
  BY <1>20 DEF TypeOK, StepInv, AttemptFails, peer
<1>21. CASE Update
  BY <1>21 DEF TypeOK, StepInv, Update, Leaves, peer
<1>22. CASE ServerSends
  BY <1>22 DEF TypeOK, StepInv, ServerSends, Arrives, peer
<1>23. CASE UNCHANGED vars
  BY <1>23 DEF TypeOK, StepInv, vars, peer
<1>24. CASE \E k \in OwnRpcs : GameSends(k)
  BY <1>24 DEF TypeOK, StepInv, GameSends, SendHook, peer
<1>25. CASE ReceiveEnds
  BY <1>25 DEF TypeOK, StepInv, ReceiveEnds, peer
<1>26. CASE SendCommand
  BY <1>26 DEF TypeOK, StepInv, SendCommand, Leaves, peer
<1> QED
  BY <1>1, <1>2, <1>3, <1>4, <1>5, <1>6, <1>7, <1>8, <1>9, <1>10, <1>11, <1>12,
     <1>13, <1>14, <1>15, <1>16, <1>17, <1>18, <1>19, <1>20, <1>21, <1>22, <1>23, <1>24, <1>25, <1>26
     DEF Next, ProcessUpdate, NetworkStep

\* The types.
LEMMA TypeKept ==
    ASSUME TypeOK, [Next]_vars
    PROVE  TypeOK'
<1>1. CASE EmulateCookie
  BY <1>1, HandshakeAssumption DEF TypeOK, EmulStates, Answers, EmulateCookie,
     SendToHook, Leaves, peer
<1>2. CASE CookieEmulated
  BY <1>2, HandshakeAssumption DEF TypeOK, EmulStates, Answers, CookieEmulated, peer
<1>3. CASE EmulateReply
  BY <1>3, HandshakeAssumption DEF TypeOK, EmulStates, Answers, EmulateReply, peer
<1>4. CASE MainLooksUpRequest
  BY <1>4, HandshakeAssumption DEF TypeOK, EmulStates, Answers, MainLooksUpRequest, peer
<1>5. CASE MainTakesRequest
  BY <1>5, HandshakeAssumption DEF TypeOK, EmulStates, Answers, MainTakesRequest,
     AssignSlot, SendImmediateHook, Leaves, peer
<1>6. CASE EmulateAuthKey
  BY <1>6, HandshakeAssumption DEF TypeOK, EmulStates, Answers, EmulateAuthKey, peer
<1>7. CASE EmulateConnectionAccept
  BY <1>7, HandshakeAssumption DEF TypeOK, EmulStates, Answers,
     EmulateConnectionAccept, peer
<1>8. CASE EmulateStaticData
  BY <1>8, HandshakeAssumption DEF TypeOK, EmulStates, Answers, EmulateStaticData, peer
<1>9. CASE RpcsRestored
  BY <1>9, HandshakeAssumption DEF TypeOK, EmulStates, Answers, RpcsRestored, peer
<1>10. CASE IndexesRestored
  BY <1>10, HandshakeAssumption DEF TypeOK, EmulStates, Answers, IndexesRestored, peer
<1>11. CASE RestoreFails
  BY <1>11, HandshakeAssumption DEF TypeOK, EmulStates, Answers, RestoreFails, peer
<1>12. CASE GameReceives
  <2>1. toGame' \in Seq(Notices)
    BY <1>12 DEF TypeOK, GameReceives, Notices
  <2>2. \/ commands' = commands
        \/ \E k \in { "AUTH_KEY", "ClientJoin" } : commands' = Append(commands, k)
    BY <1>12 DEF GameReceives, SendHook
  <2>3. commands' \in Seq(OwnRpcs \cup { "AUTH_KEY", "ClientJoin" })
    <3>1. commands \in Seq(OwnRpcs \cup { "AUTH_KEY", "ClientJoin" })
      BY DEF TypeOK
    <3>2. ASSUME NEW k \in { "AUTH_KEY", "ClientJoin" }
          PROVE  Append(commands, k) \in Seq(OwnRpcs \cup { "AUTH_KEY", "ClientJoin" })
      BY <3>1
    <3> QED
      BY <2>2, <3>1, <3>2
  <2>4. current_state' \in EmulStates /\ game' \in { "wait", "connecting", "joined" }
    <3>1. \A k : SendHook(k) => current_state' \in EmulStates
      BY DEF TypeOK, EmulStates, SendHook
    <3> QED
      BY <1>12, <3>1 DEF TypeOK, GameReceives
  <2> QED
    BY <1>12, <2>1, <2>3, <2>4 DEF TypeOK, GameReceives, Notices, peer
<1>13. CASE GameConnects
  BY <1>13, HandshakeAssumption DEF TypeOK, EmulStates, Answers, GameConnects, peer
<1>14. CASE Receive
  <2>1. inbox' \in Seq(Answers \cup { "SESSION" })
    BY <1>14 DEF Receive, TypeOK
  <2>2. toGame' = toGame \/ toGame' = Append(toGame, "CONNECTION_ATTEMPT_FAILED")
    BY <1>14 DEF Receive
  <2>3. toGame' \in Seq(Notices)
    BY <2>2 DEF TypeOK, Notices
  <2> QED
    BY <1>14, <2>1, <2>3 DEF Receive, TypeOK, SendToHook, Leaves, EmulStates, Notices
<1>15. CASE NetworkTakesRequest
  BY <1>15, HandshakeAssumption DEF TypeOK, EmulStates, Answers,
     NetworkTakesRequest, AssignSlot, SendImmediateHook, Leaves, peer
<1>16. CASE LookUpRequest
  BY <1>16, HandshakeAssumption DEF TypeOK, EmulStates, Answers, LookUpRequest, peer
<1>17. CASE LockRequest
  BY <1>17, HandshakeAssumption DEF TypeOK, EmulStates, Answers, LockRequest, peer
<1>18. CASE NothingDue
  BY <1>18, HandshakeAssumption DEF TypeOK, EmulStates, Answers, NothingDue,
     CancelReadLock, peer
<1>19. CASE Request
  BY <1>19, HandshakeAssumption DEF TypeOK, EmulStates, Answers, Request,
     SendToHook, Leaves, CancelReadLock, MayRequest, peer
<1>20. CASE AttemptFails
  BY <1>20, HandshakeAssumption DEF TypeOK, EmulStates, Answers, AttemptFails, peer
<1>21. CASE Update
  <2>1. \/ toGame' = toGame
        \/ \E k \in { "CONNECTION_ATTEMPT_FAILED", "CONNECTION_LOST" } : toGame' = Append(toGame, k)
    BY <1>21 DEF Update
  <2>2. toGame' \in Seq(Notices)
    <3>1. toGame \in Seq(Notices)
      BY DEF TypeOK, Notices
    <3>2. ASSUME NEW k \in Notices PROVE Append(toGame, k) \in Seq(Notices)
      BY <3>1
    <3> QED
      BY <2>1, <3>1, <3>2 DEF Notices
  <2> QED
    BY <1>21, <2>2 DEF TypeOK, Update, Notices
<1>22. CASE ServerSends
  <2>1. PICK d \in Answers \cup { "SESSION" } : Arrives(d)
    BY <1>22, HandshakeAssumption DEF ServerSends
  <2>2. Append(inbox, d) \in Seq(Answers \cup { "SESSION" })
    BY DEF TypeOK
  <2> QED
    BY <2>1, <2>2 DEF TypeOK, Arrives, peer
<1>23. CASE UNCHANGED vars
  BY <1>23 DEF TypeOK, EmulStates, Answers, vars, peer
<1>24. CASE \E k \in OwnRpcs : GameSends(k)
  <2>1. PICK k \in OwnRpcs : GameSends(k)
    BY <1>24
  <2>2. commands' = commands \/ commands' = Append(commands, k)
    BY <2>1 DEF GameSends, SendHook
  <2>3. commands' \in Seq(OwnRpcs \cup { "AUTH_KEY", "ClientJoin" })
    BY <2>2 DEF TypeOK
  <2> QED
    BY <2>1, <2>3 DEF TypeOK, EmulStates, GameSends, SendHook, peer
<1>25. CASE ReceiveEnds
  BY <1>25, HandshakeAssumption DEF TypeOK, EmulStates, Answers, ReceiveEnds, peer
<1>26. CASE SendCommand
  BY <1>26, HandshakeAssumption DEF TypeOK, EmulStates, Answers, SendCommand, Leaves, peer
<1> QED
  BY <1>1, <1>2, <1>3, <1>4, <1>5, <1>6, <1>7, <1>8, <1>9, <1>10, <1>11, <1>12,
     <1>13, <1>14, <1>15, <1>16, <1>17, <1>18, <1>19, <1>20, <1>21, <1>22, <1>23, <1>24, <1>25, <1>26
     DEF Next, ProcessUpdate, NetworkStep

\* A request that is waiting has no outcome, in no interleaving of the two threads.
LEMMA RequestKept ==
    ASSUME TypeOK, StepInv, Undisturbed => RequestInv /\ SessionInv, [Next]_vars
    PROVE  (Undisturbed => RequestInv)'
<1>1. CASE EmulateCookie
  BY <1>1 DEF TypeOK, StepInv, Undisturbed, RequestInv, SessionInv, EmulStates,
     Early, EmulateCookie, SendToHook, Leaves, peer
<1>2. CASE CookieEmulated
  BY <1>2 DEF TypeOK, StepInv, Undisturbed, RequestInv, SessionInv, EmulStates,
     Early, CookieEmulated, peer
<1>3. CASE EmulateReply
  BY <1>3 DEF TypeOK, StepInv, Undisturbed, RequestInv, SessionInv, EmulStates,
     Early, EmulateReply, peer
<1>4. CASE MainLooksUpRequest
  BY <1>4 DEF TypeOK, StepInv, Undisturbed, RequestInv, SessionInv, EmulStates,
     Early, MainLooksUpRequest, peer
<1>5. CASE MainTakesRequest
  BY <1>5 DEF TypeOK, StepInv, Undisturbed, RequestInv, SessionInv, EmulStates,
     Early, MainTakesRequest, AssignSlot, SendImmediateHook, Leaves, peer
<1>6. CASE EmulateAuthKey
  BY <1>6 DEF TypeOK, StepInv, Undisturbed, RequestInv, SessionInv, EmulStates,
     Early, EmulateAuthKey, peer
<1>7. CASE EmulateConnectionAccept
  BY <1>7 DEF TypeOK, StepInv, Undisturbed, RequestInv, SessionInv, EmulStates,
     Early, EmulateConnectionAccept, peer
<1>8. CASE EmulateStaticData
  BY <1>8 DEF TypeOK, StepInv, Undisturbed, RequestInv, SessionInv, EmulStates,
     Early, EmulateStaticData, peer
<1>9. CASE RpcsRestored
  BY <1>9 DEF TypeOK, StepInv, Undisturbed, RequestInv, SessionInv, EmulStates,
     Early, RpcsRestored, peer
<1>10. CASE IndexesRestored
  BY <1>10 DEF TypeOK, StepInv, Undisturbed, RequestInv, SessionInv, EmulStates,
     Early, IndexesRestored, peer
<1>11. CASE RestoreFails
  BY <1>11 DEF TypeOK, StepInv, Undisturbed, RequestInv, SessionInv, EmulStates,
     Early, RestoreFails, peer
<1>12. CASE GameReceives
  BY <1>12 DEF TypeOK, StepInv, Undisturbed, RequestInv, SessionInv, EmulStates,
     Early, GameReceives, SendHook, Leaves, peer
<1>13. CASE GameConnects
  BY <1>13 DEF TypeOK, StepInv, Undisturbed, RequestInv, SessionInv, EmulStates,
     Early, GameConnects, peer
<1>14. CASE Receive
  <2>1. \/ entry' = entry /\ toGame' = toGame
        \/ /\ entry = "free" /\ entry' = "none"
           /\ toGame' = Append(toGame, "CONNECTION_ATTEMPT_FAILED")
           /\ current_state' = current_state /\ network' = network
    <3> DEFINE d == Head(inbox)
    <3>1. CASE Passes(d) /\ d = "ATTEMPT_FAILED" /\ entry = "free"
      BY <1>14, <3>1 DEF Receive
    <3>2. CASE ~(Passes(d) /\ d = "ATTEMPT_FAILED" /\ entry = "free")
      BY <1>14, <3>2 DEF Receive
    <3> QED
      BY <3>1, <3>2
  <2>2. game' = game /\ mishap' = mishap
    BY <1>14 DEF Receive
  <2> QED
    BY <1>14, <2>1, <2>2 DEF Receive, TypeOK, Undisturbed, RequestInv, SessionInv,
       EmulStates, Early, SendToHook, Leaves, Passes
<1>15. CASE NetworkTakesRequest
  BY <1>15 DEF TypeOK, StepInv, Undisturbed, RequestInv, SessionInv, EmulStates,
     Early, NetworkTakesRequest, AssignSlot, SendImmediateHook, Leaves, peer
<1>16. CASE LookUpRequest
  BY <1>16 DEF TypeOK, StepInv, Undisturbed, RequestInv, SessionInv, EmulStates,
     Early, LookUpRequest, peer
<1>17. CASE LockRequest
  BY <1>17 DEF TypeOK, StepInv, Undisturbed, RequestInv, SessionInv, EmulStates,
     Early, LockRequest, peer
<1>18. CASE NothingDue
  BY <1>18 DEF TypeOK, StepInv, Undisturbed, RequestInv, SessionInv, EmulStates,
     Early, NothingDue, CancelReadLock, peer
<1>19. CASE Request
  BY <1>19 DEF TypeOK, StepInv, Undisturbed, RequestInv, SessionInv, EmulStates,
     Early, Request, SendToHook, Leaves, CancelReadLock, MayRequest, peer
<1>20. CASE AttemptFails
  BY <1>20 DEF TypeOK, StepInv, Undisturbed, RequestInv, SessionInv, EmulStates,
     Early, AttemptFails, peer
<1>21. CASE Update
  BY <1>21 DEF TypeOK, StepInv, Undisturbed, RequestInv, SessionInv, EmulStates,
     Early, Update, Leaves, peer
<1>22. CASE ServerSends
  BY <1>22 DEF TypeOK, StepInv, Undisturbed, RequestInv, SessionInv, EmulStates,
     Early, ServerSends, Arrives, peer
<1>23. CASE UNCHANGED vars
  BY <1>23 DEF TypeOK, StepInv, Undisturbed, RequestInv, SessionInv, EmulStates,
     Early, vars, peer
<1>24. CASE \E k \in OwnRpcs : GameSends(k)
  BY <1>24 DEF TypeOK, StepInv, Undisturbed, RequestInv, SessionInv, EmulStates,
     Early, GameSends, SendHook, peer
<1>25. CASE ReceiveEnds
  BY <1>25 DEF TypeOK, StepInv, Undisturbed, RequestInv, SessionInv, EmulStates,
     Early, ReceiveEnds, peer
<1>26. CASE SendCommand
  BY <1>26 DEF TypeOK, StepInv, Undisturbed, RequestInv, SessionInv, EmulStates,
     Early, SendCommand, Leaves, peer
<1> QED
  BY <1>1, <1>2, <1>3, <1>4, <1>5, <1>6, <1>7, <1>8, <1>9, <1>10, <1>11, <1>12,
     <1>13, <1>14, <1>15, <1>16, <1>17, <1>18, <1>19, <1>20, <1>21, <1>22, <1>23, <1>24, <1>25, <1>26
     DEF Next, ProcessUpdate, NetworkStep

\* The state, the packet under way and the slot go on together.
LEMMA SessionKept ==
    ASSUME TypeOK, StepInv, Undisturbed => RequestInv /\ SessionInv, [Next]_vars
    PROVE  (Undisturbed => SessionInv)'
<1>1. CASE EmulateCookie
  BY <1>1 DEF TypeOK, StepInv, Undisturbed, RequestInv, SessionInv, EmulStates,
     Early, EmulateCookie, SendToHook, Leaves, peer
<1>2. CASE CookieEmulated
  BY <1>2 DEF TypeOK, StepInv, Undisturbed, RequestInv, SessionInv, EmulStates,
     Early, CookieEmulated, peer
<1>3. CASE EmulateReply
  BY <1>3 DEF TypeOK, StepInv, Undisturbed, RequestInv, SessionInv, EmulStates,
     Early, EmulateReply, peer
<1>4. CASE MainLooksUpRequest
  BY <1>4 DEF TypeOK, StepInv, Undisturbed, RequestInv, SessionInv, EmulStates,
     Early, MainLooksUpRequest, peer
<1>5. CASE MainTakesRequest
  BY <1>5 DEF TypeOK, StepInv, Undisturbed, RequestInv, SessionInv, EmulStates,
     Early, MainTakesRequest, AssignSlot, SendImmediateHook, Leaves, peer
<1>6. CASE EmulateAuthKey
  <2>1. Undisturbed => toGame' = << "AUTH_KEY" >>
    BY <1>6, Alone DEF Undisturbed, SessionInv, EmulateAuthKey
  <2> QED
    BY <1>6, <2>1 DEF TypeOK, StepInv, Undisturbed, SessionInv, Early, EmulateAuthKey, peer
<1>7. CASE EmulateConnectionAccept
  BY <1>7, Alone DEF TypeOK, StepInv, Undisturbed, RequestInv, SessionInv, Early,
     EmulateConnectionAccept
<1>8. CASE EmulateStaticData
  <2>1. Undisturbed => toGame' = << "RECEIVED_STATIC_DATA" >>
    BY <1>8, Alone DEF Undisturbed, SessionInv, EmulateStaticData
  <2> QED
    BY <1>8, <2>1 DEF TypeOK, StepInv, Undisturbed, SessionInv, Early, EmulateStaticData, peer
<1>9. CASE RpcsRestored
  BY <1>9 DEF TypeOK, StepInv, Undisturbed, RequestInv, SessionInv, EmulStates,
     Early, RpcsRestored, peer
<1>10. CASE IndexesRestored
  BY <1>10 DEF TypeOK, StepInv, Undisturbed, RequestInv, SessionInv, EmulStates,
     Early, IndexesRestored, peer
<1>11. CASE RestoreFails
  BY <1>11 DEF TypeOK, StepInv, Undisturbed, RequestInv, SessionInv, EmulStates,
     Early, RestoreFails, peer
<1>12. CASE GameReceives
  BY <1>12 DEF TypeOK, StepInv, Undisturbed, RequestInv, SessionInv, EmulStates,
     Early, GameReceives, SendHook, Leaves, peer
<1>13. CASE GameConnects
  BY <1>13 DEF TypeOK, StepInv, Undisturbed, RequestInv, SessionInv, EmulStates,
     Early, GameConnects, peer
<1>14. CASE Receive
  BY <1>14 DEF TypeOK, StepInv, Undisturbed, RequestInv, SessionInv, EmulStates,
     Early, Receive, SendToHook, Leaves, peer
<1>15. CASE NetworkTakesRequest
  BY <1>15 DEF TypeOK, StepInv, Undisturbed, RequestInv, SessionInv, EmulStates,
     Early, NetworkTakesRequest, AssignSlot, SendImmediateHook, Leaves, peer
<1>16. CASE LookUpRequest
  BY <1>16 DEF TypeOK, StepInv, Undisturbed, RequestInv, SessionInv, EmulStates,
     Early, LookUpRequest, peer
<1>17. CASE LockRequest
  BY <1>17 DEF TypeOK, StepInv, Undisturbed, RequestInv, SessionInv, EmulStates,
     Early, LockRequest, peer
<1>18. CASE NothingDue
  BY <1>18 DEF TypeOK, StepInv, Undisturbed, RequestInv, SessionInv, EmulStates,
     Early, NothingDue, CancelReadLock, peer
<1>19. CASE Request
  BY <1>19 DEF TypeOK, StepInv, Undisturbed, RequestInv, SessionInv, EmulStates,
     Early, Request, SendToHook, Leaves, CancelReadLock, MayRequest, peer
<1>20. CASE AttemptFails
  BY <1>20 DEF TypeOK, StepInv, Undisturbed, RequestInv, SessionInv, EmulStates,
     Early, AttemptFails, peer
<1>21. CASE Update
  BY <1>21 DEF TypeOK, StepInv, Undisturbed, RequestInv, SessionInv, EmulStates,
     Early, Update, Leaves, peer
<1>22. CASE ServerSends
  BY <1>22 DEF TypeOK, StepInv, Undisturbed, RequestInv, SessionInv, EmulStates,
     Early, ServerSends, Arrives, peer
<1>23. CASE UNCHANGED vars
  BY <1>23 DEF TypeOK, StepInv, Undisturbed, RequestInv, SessionInv, EmulStates,
     Early, vars, peer
<1>24. CASE \E k \in OwnRpcs : GameSends(k)
  BY <1>24 DEF TypeOK, StepInv, Undisturbed, RequestInv, SessionInv, EmulStates,
     Early, GameSends, SendHook, peer
<1>25. CASE ReceiveEnds
  BY <1>25 DEF TypeOK, StepInv, Undisturbed, RequestInv, SessionInv, EmulStates,
     Early, ReceiveEnds, peer
<1>26. CASE SendCommand
  BY <1>26 DEF TypeOK, StepInv, Undisturbed, RequestInv, SessionInv, EmulStates,
     Early, SendCommand, Leaves, peer
<1> QED
  BY <1>1, <1>2, <1>3, <1>4, <1>5, <1>6, <1>7, <1>8, <1>9, <1>10, <1>11, <1>12,
     <1>13, <1>14, <1>15, <1>16, <1>17, <1>18, <1>19, <1>20, <1>21, <1>22, <1>23, <1>24, <1>25, <1>26
     DEF Next, ProcessUpdate, NetworkStep

\* Once the session is being restored it goes on to be: the state does not go back, and
\* the session's indexes stay.  All that is queued then is what the game sends of itself.
LEMMA Onwards ==
    ASSUME TypeOK, StepInv, Undisturbed => RequestInv /\ SessionInv, [Next]_vars, Undisturbed'
    PROVE  /\ Undisturbed
           /\ current_state \in { "kCanEmulStaticData", "kNone" } =>
                current_state' \in { "kCanEmulStaticData", "kNone" }
           /\ current_state = "kNone" => current_state' = "kNone"
           /\ current_state = "kNone" /\ layer = "session" => layer' = "session"
           /\ \/ commands' \in { commands, << >> }
              \/ commands # << >> /\ commands' = Tail(commands)
              \/ \E k \in OwnRpcs : GameSends(k) /\ commands' = Append(commands, k)
<1>1. CASE EmulateCookie
  BY <1>1 DEF TypeOK, StepInv, Undisturbed, RequestInv, SessionInv, Early,
     EmulateCookie, SendToHook, peer
<1>2. CASE CookieEmulated
  BY <1>2 DEF TypeOK, StepInv, Undisturbed, RequestInv, SessionInv, Early,
     CookieEmulated, peer
<1>3. CASE EmulateReply
  BY <1>3 DEF TypeOK, StepInv, Undisturbed, RequestInv, SessionInv, Early,
     EmulateReply, peer
<1>4. CASE MainLooksUpRequest
  BY <1>4 DEF TypeOK, StepInv, Undisturbed, RequestInv, SessionInv, Early,
     MainLooksUpRequest, peer
<1>5. CASE MainTakesRequest
  BY <1>5 DEF TypeOK, StepInv, Undisturbed, RequestInv, SessionInv, Early,
     MainTakesRequest, AssignSlot, SendImmediateHook, peer
<1>6. CASE EmulateAuthKey
  BY <1>6 DEF TypeOK, StepInv, Undisturbed, RequestInv, SessionInv, Early,
     EmulateAuthKey, peer
<1>7. CASE EmulateConnectionAccept
  BY <1>7 DEF TypeOK, StepInv, Undisturbed, RequestInv, SessionInv, Early,
     EmulateConnectionAccept, peer
<1>8. CASE EmulateStaticData
  BY <1>8 DEF TypeOK, StepInv, Undisturbed, RequestInv, SessionInv, Early,
     EmulateStaticData, peer
<1>9. CASE RpcsRestored
  BY <1>9 DEF TypeOK, StepInv, Undisturbed, RequestInv, SessionInv, Early,
     RpcsRestored, peer
<1>10. CASE IndexesRestored
  BY <1>10 DEF TypeOK, StepInv, Undisturbed, RequestInv, SessionInv, Early,
     IndexesRestored, peer
<1>11. CASE RestoreFails
  BY <1>11 DEF TypeOK, StepInv, Undisturbed, RequestInv, SessionInv, Early,
     RestoreFails, peer
<1>12. CASE GameReceives
  <2>1. Undisturbed /\ RequestInv /\ SessionInv /\ toGame # << >>
    BY <1>12 DEF GameReceives, Undisturbed
  <2>2. current_state \in Early => Head(toGame) = "CONNECTION_ATTEMPT_FAILED"
    <3>1. current_state \in Early => Head(toGame) \in { "CONNECTION_ATTEMPT_FAILED" }
      BY <2>1 DEF RequestInv
    <3> QED
      BY <3>1
  <2>3. Head(toGame) = "AUTH_KEY" => current_state = "kWaitingForAuthKey"
    BY <2>1, <2>2 DEF SessionInv, TypeOK, EmulStates, Early
  <2>4. Head(toGame) = "CONNECTION_REQUEST_ACCEPTED" => current_state = "kWaitingForClientJoin"
    BY <2>1, <2>2 DEF SessionInv, TypeOK, EmulStates, Early
  <2>5. commands' = commands
    BY <1>12, <2>3, <2>4 DEF GameReceives, SendHook
  <2> QED
    BY <1>12, <2>1, <2>3, <2>4, <2>5 DEF GameReceives, SendHook
<1>13. CASE GameConnects
  BY <1>13 DEF TypeOK, StepInv, Undisturbed, RequestInv, SessionInv, Early,
     GameConnects, peer
<1>14. CASE Receive
  BY <1>14 DEF TypeOK, StepInv, Undisturbed, RequestInv, SessionInv, Early,
     Receive, SendToHook, peer
<1>15. CASE NetworkTakesRequest
  BY <1>15 DEF TypeOK, StepInv, Undisturbed, RequestInv, SessionInv, Early,
     NetworkTakesRequest, AssignSlot, SendImmediateHook, peer
<1>16. CASE LookUpRequest
  BY <1>16 DEF TypeOK, StepInv, Undisturbed, RequestInv, SessionInv, Early,
     LookUpRequest, peer
<1>17. CASE LockRequest
  BY <1>17 DEF TypeOK, StepInv, Undisturbed, RequestInv, SessionInv, Early,
     LockRequest, peer
<1>18. CASE NothingDue
  BY <1>18 DEF TypeOK, StepInv, Undisturbed, RequestInv, SessionInv, Early,
     NothingDue, peer
<1>19. CASE Request
  BY <1>19 DEF TypeOK, StepInv, Undisturbed, RequestInv, SessionInv, Early,
     Request, SendToHook, MayRequest, peer
<1>20. CASE AttemptFails
  BY <1>20 DEF TypeOK, StepInv, Undisturbed, RequestInv, SessionInv, Early,
     AttemptFails, peer
<1>21. CASE Update
  BY <1>21 DEF TypeOK, StepInv, Undisturbed, RequestInv, SessionInv, Early,
     Update, peer
<1>22. CASE ServerSends
  BY <1>22 DEF TypeOK, StepInv, Undisturbed, RequestInv, SessionInv, Early,
     ServerSends, Arrives, peer
<1>23. CASE UNCHANGED vars
  BY <1>23 DEF TypeOK, StepInv, Undisturbed, RequestInv, SessionInv, Early,
     vars, peer
<1>24. CASE \E k \in OwnRpcs : GameSends(k)
  BY <1>24 DEF TypeOK, StepInv, Undisturbed, RequestInv, SessionInv, Early,
     GameSends, SendHook, peer
<1>25. CASE ReceiveEnds
  BY <1>25 DEF TypeOK, StepInv, Undisturbed, RequestInv, SessionInv, Early,
     ReceiveEnds, peer
<1>26. CASE SendCommand
  BY <1>26 DEF TypeOK, StepInv, Undisturbed, RequestInv, SessionInv, Early,
     SendCommand, peer
<1> QED
  BY <1>1, <1>2, <1>3, <1>4, <1>5, <1>6, <1>7, <1>8, <1>9, <1>10, <1>11, <1>12,
     <1>13, <1>14, <1>15, <1>16, <1>17, <1>18, <1>19, <1>20, <1>21, <1>22, <1>23, <1>24, <1>25, <1>26
     DEF Next, ProcessUpdate, NetworkStep

\* What is queued stays what a joined game sends.
LEMMA CommandsKept ==
    ASSUME TypeOK, StepInv, Undisturbed => RequestInv /\ SessionInv /\ CommandsInv, [Next]_vars
    PROVE  (Undisturbed => CommandsInv)'
<1> SUFFICES ASSUME Undisturbed' PROVE CommandsInv'
  OBVIOUS
<1>1. /\ Undisturbed
      /\ current_state \in { "kCanEmulStaticData", "kNone" } =>
           current_state' \in { "kCanEmulStaticData", "kNone" }
      /\ current_state = "kNone" => current_state' = "kNone"
      /\ current_state = "kNone" /\ layer = "session" => layer' = "session"
      /\ \/ commands' \in { commands, << >> }
         \/ commands # << >> /\ commands' = Tail(commands)
         \/ \E k \in OwnRpcs : GameSends(k) /\ commands' = Append(commands, k)
  BY Onwards
<1>2. SessionInv /\ CommandsInv
  BY <1>1
<1>3. CASE commands' \in { commands, << >> }
  BY <1>1, <1>2, <1>3 DEF CommandsInv
<1>4. CASE commands # << >> /\ commands' = Tail(commands)
  <2>1. Len(commands') = Len(commands) - 1 /\ \A n \in 1..Len(commands') : commands'[n] = commands[n + 1]
    BY <1>4 DEF TypeOK
  <2>2. \A n \in 1..Len(commands') : n + 1 \in 1..Len(commands)
    BY <2>1 DEF TypeOK
  <2> QED
    BY <1>1, <1>2, <2>1, <2>2 DEF CommandsInv
<1>5. ASSUME NEW k \in OwnRpcs, GameSends(k), commands' = Append(commands, k)
      PROVE  CommandsInv'
  <2>1. /\ Len(commands') = Len(commands) + 1
        /\ commands'[Len(commands) + 1] = k
        /\ \A n \in 1..Len(commands) : commands'[n] = commands[n]
    BY <1>5 DEF TypeOK
  <2>2. /\ current_state' = current_state /\ layer' = layer
        /\ current_state = "kCanEmulStaticData" \/ (current_state = "kNone" /\ main = "frame")
        /\ k \in { "RequestClass", "Spawn" } => current_state # "kCanEmulStaticData"
    <3>1. commands # commands'
      BY <2>1 DEF TypeOK
    <3> QED
      BY <1>5, <3>1 DEF GameSends, SendHook, StepInv
  <2>3. k \in { "RequestClass", "Spawn" } => current_state = "kNone" /\ layer = "session"
    BY <1>2, <2>2 DEF SessionInv
  <2>4. \A n \in 1..Len(commands') : n \in 1..Len(commands) \/ n = Len(commands) + 1
    BY <2>1 DEF TypeOK
  <2> QED
    BY <1>2, <2>1, <2>2, <2>3, <2>4 DEF CommandsInv
<1> QED
  BY <1>1, <1>3, <1>4, <1>5

\* No step sends a packet of the handshake but an open request.  What the game sends of
\* itself leaves as CommandsInv says it may.
LEMMA StaysHereKept ==
    ASSUME TypeOK, StepInv, Undisturbed => RequestInv /\ SessionInv /\ CommandsInv,
           HandshakeStaysHere, [Next]_vars
    PROVE  HandshakeStaysHere'
<1>1. CASE EmulateCookie
  BY <1>1 DEF TypeOK, StepInv, Undisturbed, RequestInv, SessionInv, EmulStates,
     Early, HandshakeStaysHere, EmulateCookie, SendToHook, Leaves, peer
<1>2. CASE CookieEmulated
  BY <1>2 DEF TypeOK, StepInv, Undisturbed, RequestInv, SessionInv, EmulStates,
     Early, HandshakeStaysHere, CookieEmulated, peer
<1>3. CASE EmulateReply
  BY <1>3 DEF TypeOK, StepInv, Undisturbed, RequestInv, SessionInv, EmulStates,
     Early, HandshakeStaysHere, EmulateReply, peer
<1>4. CASE MainLooksUpRequest
  BY <1>4 DEF TypeOK, StepInv, Undisturbed, RequestInv, SessionInv, EmulStates,
     Early, HandshakeStaysHere, MainLooksUpRequest, peer
<1>5. CASE MainTakesRequest
  BY <1>5 DEF TypeOK, StepInv, Undisturbed, RequestInv, SessionInv, EmulStates,
     Early, HandshakeStaysHere, MainTakesRequest, AssignSlot, SendImmediateHook,
     Leaves, peer
<1>6. CASE EmulateAuthKey
  BY <1>6 DEF TypeOK, StepInv, Undisturbed, RequestInv, SessionInv, EmulStates,
     Early, HandshakeStaysHere, EmulateAuthKey, peer
<1>7. CASE EmulateConnectionAccept
  BY <1>7 DEF TypeOK, StepInv, Undisturbed, RequestInv, SessionInv, EmulStates,
     Early, HandshakeStaysHere, EmulateConnectionAccept, peer
<1>8. CASE EmulateStaticData
  BY <1>8 DEF TypeOK, StepInv, Undisturbed, RequestInv, SessionInv, EmulStates,
     Early, HandshakeStaysHere, EmulateStaticData, peer
<1>9. CASE RpcsRestored
  BY <1>9 DEF TypeOK, StepInv, Undisturbed, RequestInv, SessionInv, EmulStates,
     Early, HandshakeStaysHere, RpcsRestored, peer
<1>10. CASE IndexesRestored
  BY <1>10 DEF TypeOK, StepInv, Undisturbed, RequestInv, SessionInv, EmulStates,
     Early, HandshakeStaysHere, IndexesRestored, peer
<1>11. CASE RestoreFails
  BY <1>11 DEF TypeOK, StepInv, Undisturbed, RequestInv, SessionInv, EmulStates,
     Early, HandshakeStaysHere, RestoreFails, peer
<1>12. CASE GameReceives
  BY <1>12 DEF TypeOK, StepInv, Undisturbed, RequestInv, SessionInv, EmulStates,
     Early, HandshakeStaysHere, GameReceives, SendHook, Leaves, peer
<1>13. CASE GameConnects
  BY <1>13 DEF TypeOK, StepInv, Undisturbed, RequestInv, SessionInv, EmulStates,
     Early, HandshakeStaysHere, GameConnects, peer
<1>14. CASE Receive
  BY <1>14 DEF TypeOK, StepInv, Undisturbed, RequestInv, SessionInv, EmulStates,
     Early, HandshakeStaysHere, Receive, SendToHook, Leaves, peer
<1>15. CASE NetworkTakesRequest
  BY <1>15 DEF TypeOK, StepInv, Undisturbed, RequestInv, SessionInv, EmulStates,
     Early, HandshakeStaysHere, NetworkTakesRequest, AssignSlot, SendImmediateHook,
     Leaves, peer
<1>16. CASE LookUpRequest
  BY <1>16 DEF TypeOK, StepInv, Undisturbed, RequestInv, SessionInv, EmulStates,
     Early, HandshakeStaysHere, LookUpRequest, peer
<1>17. CASE LockRequest
  BY <1>17 DEF TypeOK, StepInv, Undisturbed, RequestInv, SessionInv, EmulStates,
     Early, HandshakeStaysHere, LockRequest, peer
<1>18. CASE NothingDue
  BY <1>18 DEF TypeOK, StepInv, Undisturbed, RequestInv, SessionInv, EmulStates,
     Early, HandshakeStaysHere, NothingDue, CancelReadLock, peer
<1>19. CASE Request
  BY <1>19 DEF TypeOK, StepInv, Undisturbed, RequestInv, SessionInv, EmulStates,
     Early, HandshakeStaysHere, Request, SendToHook, Leaves, CancelReadLock,
     MayRequest, peer
<1>20. CASE AttemptFails
  BY <1>20 DEF TypeOK, StepInv, Undisturbed, RequestInv, SessionInv, EmulStates,
     Early, HandshakeStaysHere, AttemptFails, peer
<1>21. CASE Update
  BY <1>21 DEF TypeOK, StepInv, Undisturbed, RequestInv, SessionInv, EmulStates,
     Early, HandshakeStaysHere, Update, Leaves, peer
<1>22. CASE ServerSends
  BY <1>22 DEF TypeOK, StepInv, Undisturbed, RequestInv, SessionInv, EmulStates,
     Early, HandshakeStaysHere, ServerSends, Arrives, peer
<1>23. CASE UNCHANGED vars
  BY <1>23 DEF TypeOK, StepInv, Undisturbed, RequestInv, SessionInv, EmulStates,
     Early, HandshakeStaysHere, vars, peer
<1>24. CASE \E k \in OwnRpcs : GameSends(k)
  BY <1>24 DEF TypeOK, StepInv, Undisturbed, RequestInv, SessionInv, CommandsInv,
     EmulStates, Early, HandshakeStaysHere, GameSends, SendHook, peer
<1>25. CASE ReceiveEnds
  BY <1>25 DEF TypeOK, StepInv, Undisturbed, RequestInv, SessionInv, CommandsInv,
     EmulStates, Early, HandshakeStaysHere, ReceiveEnds, peer
<1>26. CASE SendCommand
  <2> SUFFICES ASSUME Undisturbed PROVE HandshakeStaysHere'
    BY <1>26 DEF Undisturbed, HandshakeStaysHere, SendCommand
  <2>1. CommandsInv
    OBVIOUS
  <2>2. 1 \in 1..Len(commands) /\ Head(commands) = commands[1]
    BY <1>26 DEF SendCommand, TypeOK
  <2>3. /\ Head(commands) \in OwnRpcs
        /\ current_state \in { "kCanEmulStaticData", "kNone" }
        /\ Head(commands) \in { "RequestClass", "Spawn" } => layer = "session"
    BY <2>1, <2>2 DEF CommandsInv
  <2>4. Head(commands) \in { "RequestClass", "Spawn", "RPC" }
    BY <2>3, HandshakeAssumption
  <2>5. current_state' = current_state /\ sent' \subseteq sent \cup { << Head(commands), layer >> }
    BY <1>26 DEF SendCommand, Leaves
  <2> QED
    BY <2>3, <2>4, <2>5 DEF HandshakeStaysHere, Undisturbed
<1> QED
  BY <1>1, <1>2, <1>3, <1>4, <1>5, <1>6, <1>7, <1>8, <1>9, <1>10, <1>11, <1>12,
     <1>13, <1>14, <1>15, <1>16, <1>17, <1>18, <1>19, <1>20, <1>21, <1>22, <1>23, <1>24, <1>25, <1>26
     DEF Next, ProcessUpdate, NetworkStep

-----------------------------------------------------------------------------
\* The inductive invariant holds in the first state ...
LEMMA InitInv == Init => IInv
  BY HandshakeAssumption
     DEF Init, IInv, TypeOK, StepInv, Undisturbed, RequestInv, SessionInv, Early,
         CommandsInv, HandshakeStaysHere, EmulStates, Answers

\* ... and every step keeps it.
LEMMA NextInv == IInv /\ [Next]_vars => IInv'
<1> SUFFICES ASSUME IInv, [Next]_vars
             PROVE  IInv'
  OBVIOUS
<1>1. /\ TypeOK /\ StepInv /\ HandshakeStaysHere
      /\ Undisturbed => RequestInv /\ SessionInv /\ CommandsInv
  BY DEF IInv
<1>2. TypeOK'
  BY <1>1, TypeKept
<1>3. StepInv'
  BY <1>1, StepKept
<1>4. (Undisturbed => RequestInv)'
  BY <1>1, RequestKept
<1>5. (Undisturbed => SessionInv)'
  BY <1>1, SessionKept
<1>6. (Undisturbed => CommandsInv)'
  BY <1>1, CommandsKept
<1>7. HandshakeStaysHere'
  BY <1>1, StaysHereKept
<1> QED
  BY <1>2, <1>3, <1>4, <1>5, <1>6, <1>7 DEF IInv

LEMMA Invariance == Spec => []IInv
  BY InitInv, NextInv, PTL DEF Spec

\* Every variable keeps its type, for any number of requests and datagrams.
THEOREM TypeCorrect == Spec => []TypeOK
<1>1. IInv => TypeOK
  BY DEF IInv
<1> QED
  BY <1>1, Invariance, PTL

\* No packet of the replayed handshake but an open request leaves for the server, no
\* answer to a replayed class selection or spawn, and nothing reliable with a number of
\* the fresh layer before the emulated acceptance (the hooks of dllmain.cpp), however
\* many RPCs of its own the game sends meanwhile.
THEOREM NothingLeaves == Spec => []HandshakeStaysHere
<1>1. IInv => HandshakeStaysHere
  BY DEF IInv
<1> QED
  BY <1>1, Invariance, PTL

\* When process_packet_hook lets everything through again, the slot is connected
\* and has the indexes of the session (process_update).
THEOREM RestoredForGood == Spec => []RestoredIsConnected
<1>1. IInv => RestoredIsConnected
  BY DEF IInv, Undisturbed, SessionInv, RestoredIsConnected
<1> QED
  BY <1>1, Invariance, PTL

\* A datagram of the session meets fresh indexes only between the last state of
\* the handshake and the restoring of the indexes (process_update).
THEOREM SessionWaits == Spec => SessionWaitsForIndexes
<1> DEFINE Waits == "fresh" \in handledWith' \ handledWith /\ mishap \subseteq { "missed" }
                      => main = "indexes"
<1>1. IInv /\ [Next]_vars => [Waits]_vars
  <2> SUFFICES ASSUME IInv, Next, "fresh" \in handledWith' \ handledWith,
                      mishap \subseteq { "missed" }
               PROVE  main = "indexes"
    BY DEF vars
  <2>1. Receive
    BY DEF Next, ProcessUpdate, NetworkStep, EmulateCookie, CookieEmulated, EmulateReply,
           MainLooksUpRequest, MainTakesRequest, EmulateAuthKey, EmulateConnectionAccept,
           EmulateStaticData, RpcsRestored, IndexesRestored, RestoreFails, GameReceives,
           GameConnects, GameSends, NetworkTakesRequest, ReceiveEnds, SendCommand, LookUpRequest, LockRequest, NothingDue,
           Request, AttemptFails, Update, ServerSends, Arrives
  <2>2. layer = "fresh" /\ Passes("SESSION")
    BY <2>1 DEF Receive
  <2>3. current_state = "kNone"
    BY <2>2 DEF Passes
  <2> QED
    BY <2>2, <2>3 DEF IInv, Undisturbed, SessionInv
<1> QED
  BY <1>1, Invariance, PTL DEF Spec, SessionWaitsForIndexes

=============================================================================
