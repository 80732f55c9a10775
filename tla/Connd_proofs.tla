---------------------------- MODULE Connd_proofs ----------------------------
(***************************************************************************)
(* Machine-checked proofs about Connd, for any number of servers, daemons, *)
(* sessions, messages and kills.                                           *)
(***************************************************************************)
EXTENDS Connd, FiniteSetTheorems, TLAPS

\* Who has the port of its session open, or opens it next without asking anyone.
Claims(d) == mainPc[d] = "connecting" \/ net[d] # "closed"

\* A daemon has its port open only while its threads are where they use it.
DaemonHolds(d) ==
    /\ mainPc[d] \in { "none", "starting", "connecting" } =>
         threadPc[d] = "none" /\ net[d] = "closed"
    /\ mainPc[d] \in { "none", "starting" } => params[d] = NoParams
    /\ mainPc[d] \in { "left", "ended" } => net[d] = "closed"
    /\ mainPc[d] = "ended" => threadPc[d] = "finished"
    /\ threadPc[d] \in { "disconnected", "sent", "finished" } => net[d] = "closed"
    /\ Alive(d) /\ threadPc[d] \in { "opening", "listening", "accepted", "stopping" }
         /\ params[d] # NoParams => net[d] # "closed"
    /\ params[d].session = 0 => params[d] = NoParams /\ base[d] = 0

DaemonInv == \A d \in Daemons : DaemonHolds(d)

\* What the game holds where it stands.
GameInv ==
    /\ gamePc \in Connected => gameSession \in Sessions
    /\ gameSession # 0 => gamePc \in Connected
    /\ gamePc \notin { "off", "booting", "idle" } => gameState # 0
    /\ gamePc \in { "connected", "accepted" } => gamePeer \in Daemons
    /\ gamePc \in { "off", "booting", "connected", "accepted" } => gameParams = NoParams
    /\ gameParams.session = 0 => gameParams = NoParams

\* What the game holds of a session: its port, or what it takes to open it.
GameHolds(s) ==
    \/ gameSession = s
    \/ gamePc \in { "restoring", "saving", "saved", "serving" } /\ gameParams.session = s

\* A session is in the hands of one process, which alone may speak for it; a game
\* that is accepted by a daemon takes over from it, and from no other.
ClaimInv ==
    \A d \in Daemons : Claims(d) /\ params[d].session # 0 =>
        /\ \A e \in Daemons \ { d } : Claims(e) => params[d].session # params[e].session
        /\ ~GameHolds(params[d].session)
        /\ gamePc = "accepted" /\ d # gamePeer => params[d].session # params[gamePeer].session

\* A session that is opened is a new one.
OpenedInv ==
    /\ gameSession <= opened /\ gameParams.session <= opened
    /\ \A d \in Daemons : params[d].session <= opened

IInv == TypeOK /\ DaemonInv /\ GameInv /\ ClaimInv /\ OpenedInv

-----------------------------------------------------------------------------
\* Parameters, numbers and queues as the actions make them.
LEMMA ParamTypes ==
    /\ NoParams \in Params
    /\ NoParams.session = 0 /\ NoParams.base = 0
    /\ \A p \in Params : p.session \in 0..MaxSessions /\ p.base \in 0..MaxMessages
    /\ \A s \in 0..MaxSessions, b \in 0..MaxMessages :
          /\ [ session |-> s, base |-> b ] \in Params
          /\ [ session |-> s, base |-> b ].session = s
          /\ [ session |-> s, base |-> b ].base = b
    /\ \A p \in Params, b \in 0..MaxMessages :
          /\ [ p EXCEPT !.base = b ] \in Params
          /\ [ p EXCEPT !.base = b ].session = p.session
  BY ConndAssumption DEF NoParams, Params

LEMMA NumberTypes ==
    /\ 0 \in 0..MaxSessions /\ 0 \in 0..MaxMessages
    /\ \A s : s \in Sessions <=> s \in 0..MaxSessions /\ s # 0
    /\ \A m \in Messages : m \in 0..MaxMessages
    /\ \A n \in 0..MaxSessions : n < MaxSessions => n + 1 \in Sessions
    /\ \A k \in 0..Kills : k < Kills => k + 1 \in 0..Kills
  BY ConndAssumption DEF Sessions, Messages

LEMMA QueueTypes ==
    /\ << >> \in Seq(Messages)
    /\ \A q \in Seq(Messages), m \in Messages : Append(q, m) \in Seq(Messages)
    /\ \A q \in Seq(Messages) : q # << >> => Head(q) \in Messages /\ Tail(q) \in Seq(Messages)
    /\ \A q \in Seq(Messages) : Elements(q) \subseteq Messages
  BY DEF Elements

LEMMA DumpTypes ==
    /\ \A v \in Servers, s \in Sessions :
          [ server |-> v, session |-> s ] \in [ server : Servers, session : Sessions ]
    /\ \A x \in [ server : Servers, session : Sessions ] : x.session \in Sessions
  OBVIOUS

LEMMA TypeStep == IInv /\ [Next]_vars => TypeOK'
  <1> SUFFICES ASSUME IInv, [Next]_vars PROVE TypeOK'
    OBVIOUS
  <1> USE ConndAssumption, ParamTypes, NumberTypes, QueueTypes, DumpTypes
      DEF IInv, TypeOK, GameInv, vars, game, files, daemons, history, Connected
  <1>1. ASSUME NEW v \in Servers,
              StartGame(v)
        PROVE TypeOK'
    BY <1>1 DEF StartGame
  <1>2. ASSUME SampInit
        PROVE TypeOK'
    <2>1. CASE dump = NoDump \/ dump.server # gameServer
      BY SMTT(30), <1>2, <2>1 DEF SampInit
    <2>2. CASE ~(dump = NoDump \/ dump.server # gameServer)
      <3>1. dump.session \in Sessions
        BY <2>2
      <3> QED
        BY SMTT(30), <1>2, <2>2, <3>1 DEF SampInit
    <2> QED
      BY <2>1, <2>2
  <1>3. ASSUME ReceiveStartupData
        PROVE TypeOK'
    <2>1. gamePeer \in Daemons
      BY <1>3 DEF ReceiveStartupData
    <2>2. gameParams' \in Params
      BY <1>3, <2>1 DEF ReceiveStartupData
    <2> QED
      BY <1>3, <2>2 DEF ReceiveStartupData
  <1>4. ASSUME ConnectFresh
        PROVE TypeOK'
    BY <1>4 DEF ConnectFresh
  <1>5. ASSUME ConnectRestored
        PROVE TypeOK'
    BY <1>5 DEF ConnectRestored
  <1>6. ASSUME AskRpcs
        PROVE TypeOK'
    BY <1>6 DEF AskRpcs
  <1>7. ASSUME Replay
        PROVE TypeOK'
    BY <1>7 DEF Replay
  <1>8. ASSUME ReplayEnds
        PROVE TypeOK'
    BY <1>8 DEF ReplayEnds
  <1>9. ASSUME Resume
        PROVE TypeOK'
    BY <1>9 DEF Resume
  <1>10. ASSUME RestoreFails
        PROVE TypeOK'
    BY <1>10 DEF RestoreFails
  <1>11. ASSUME NEW m \in Messages,
              GameTakes(m)
        PROVE TypeOK'
    <2>1. gameSession \in Sessions /\ gameBase' \in 0..MaxMessages
      BY <1>11 DEF GameTakes, Arrives
    <2>2. highest' \in [Sessions -> 0..MaxMessages]
      BY <1>11 DEF GameTakes, Higher
    <2>3. gameInbox' \in Seq(Messages) /\ spoiled' \subseteq Sessions
      BY <1>11, <2>1 DEF GameTakes
    <2> QED
      BY <1>11, <2>1, <2>2, <2>3 DEF GameTakes
  <1>12. ASSUME GameHandles
        PROVE TypeOK'
    BY <1>12 DEF GameHandles
  <1>13. ASSUME KillGame
        PROVE TypeOK'
    BY <1>13 DEF KillGame, GameGone
  <1>14. ASSUME LeaveUnsaved
        PROVE TypeOK'
    BY <1>14 DEF LeaveUnsaved, GameGone
  <1>15. ASSUME Save
        PROVE TypeOK'
    <2>1. gameSession \in Sessions
      BY <1>15 DEF Save
    <2>2. gameParams' \in Params
      BY <1>15 DEF Save
    <2>3. dropped' \in [Sessions -> SUBSET Messages] /\ spoiled' \subseteq Sessions
      <3>1. dropped[gameSession] \cup Elements(gameInbox) \cup Elements(gameReplay) \subseteq Messages
        BY <2>1
      <3>2. dropped' \in [Sessions -> SUBSET Messages]
        BY <1>15, <2>1, <3>1 DEF Save
      <3>3. spoiled' \subseteq Sessions
        BY <1>15, <2>1 DEF Save
      <3> QED
        BY <3>2, <3>3
    <2> QED
      BY <1>15, <2>2, <2>3 DEF Save
  <1>16. ASSUME WriteDump
        PROVE TypeOK'
    BY <1>16 DEF WriteDump
  <1>17. ASSUME NEW d \in Daemons,
              StartDaemon(d)
        PROVE TypeOK'
    BY <1>17 DEF StartDaemon
  <1>18. ASSUME NEW d \in Daemons,
              ReceiveParameters(d)
        PROVE TypeOK'
    BY <1>18 DEF ReceiveParameters, GameGone
  <1>19. ASSUME NEW d \in Daemons,
              ReceiveNothing(d)
        PROVE TypeOK'
    BY <1>19 DEF ReceiveNothing
  <1>20. ASSUME NEW d \in Daemons,
              ConnectDaemon(d)
        PROVE TypeOK'
    BY <1>20 DEF ConnectDaemon
  <1>21. ASSUME NEW d \in Daemons,
              Loop(d)
        PROVE TypeOK'
    BY <1>21 DEF Loop
  <1>22. ASSUME NEW d \in Daemons,
              Drain(d)
        PROVE TypeOK'
    BY <1>22 DEF Drain
  <1>23. ASSUME NEW d \in Daemons,
              Sleep(d)
        PROVE TypeOK'
    BY <1>23 DEF Sleep
  <1>24. ASSUME NEW d \in Daemons,
              Expire(d)
        PROVE TypeOK'
    BY <1>24 DEF Expire
  <1>25. ASSUME NEW d \in Daemons,
              Leave(d)
        PROVE TypeOK'
    BY <1>25 DEF Leave
  <1>26. ASSUME NEW d \in Daemons,
              End(d)
        PROVE TypeOK'
    BY <1>26 DEF End
  <1>27. ASSUME NEW d \in Daemons,
              JoinSession(d)
        PROVE TypeOK'
    BY <1>27 DEF JoinSession
  <1>28. ASSUME NEW d \in Daemons, NEW m \in Messages,
              DaemonTakes(d, m)
        PROVE TypeOK'
    BY <1>28 DEF DaemonTakes, Arrives, Higher
  <1>29. ASSUME NEW d \in Daemons,
              PublishPort(d)
        PROVE TypeOK'
    BY <1>29 DEF PublishPort, Thread
  <1>30. ASSUME NEW d \in Daemons,
              Accept(d)
        PROVE TypeOK'
    BY <1>30 DEF Accept, Thread
  <1>31. ASSUME NEW d \in Daemons,
              Stop(d)
        PROVE TypeOK'
    BY <1>31 DEF Stop, Thread
  <1>32. ASSUME NEW d \in Daemons,
              DisconnectDaemon(d)
        PROVE TypeOK'
    <2>1. dropped' \in [Sessions -> SUBSET Messages] /\ spoiled' \subseteq Sessions
      <3> DEFINE s == params[d].session
      <3>1. CASE s = 0
        <4>1. UNCHANGED << dropped, spoiled >>
          BY <1>32, <3>1 DEF DisconnectDaemon
        <4> QED
          BY <4>1
      <3>2. CASE s # 0
        <4>1. s \in Sessions
          BY <1>32, <3>2
        <4>2. dropped[s] \cup Elements(inbox[d]) \subseteq Messages
          BY <1>32, <4>1
        <4>3. /\ dropped' = [ dropped EXCEPT ![s] = @ \cup Elements(inbox[d]) ]
              /\ spoiled' = spoiled \/ spoiled' = spoiled \cup { s }
          BY <1>32, <3>2 DEF DisconnectDaemon
        <4>4. dropped' \in [Sessions -> SUBSET Messages]
          <5> DEFINE freed == dropped[s] \cup Elements(inbox[d])
          <5>1. dropped' = [ dropped EXCEPT ![s] = freed ] /\ freed \in SUBSET Messages
            BY <4>2, <4>3
          <5>2. dropped \in [Sessions -> SUBSET Messages]
            OBVIOUS
          <5> HIDE DEF freed
          <5> QED
            BY ONLY <4>1, <5>1, <5>2
        <4>5. spoiled' \subseteq Sessions
          BY <4>1, <4>3
        <4> QED
          BY <4>4, <4>5
      <3> QED
        BY <3>1, <3>2
    <2> QED
      BY <1>32, <2>1 DEF DisconnectDaemon, Thread
  <1>33. ASSUME NEW d \in Daemons,
              SendParameters(d)
        PROVE TypeOK'
    BY <1>33 DEF SendParameters, Thread
  <1>34. ASSUME NEW d \in Daemons,
              SendRpcs(d)
        PROVE TypeOK'
    BY <1>34 DEF SendRpcs, Thread
  <1>35. CASE UNCHANGED vars
    BY <1>35
  <1> QED
    BY <1>1, <1>2, <1>3, <1>4, <1>5, <1>6, <1>7, <1>8, <1>9, <1>10, <1>11,
       <1>12, <1>13, <1>14, <1>15, <1>16, <1>17, <1>18, <1>19, <1>20, <1>21,
       <1>22, <1>23, <1>24, <1>25, <1>26, <1>27, <1>28, <1>29, <1>30, <1>31,
       <1>32, <1>33, <1>34, <1>35
       DEF Next, GameStep, MainStep, NetworkStep, ThreadStep

LEMMA GameStepInv == IInv /\ [Next]_vars => GameInv'
  <1> SUFFICES ASSUME IInv, [Next]_vars PROVE GameInv'
    OBVIOUS
  <1> USE ConndAssumption, ParamTypes, NumberTypes, DumpTypes
      DEF IInv, TypeOK, GameInv, vars, game, files, daemons, history, Connected
  <1>1. ASSUME NEW v \in Servers,
              StartGame(v)
        PROVE GameInv'
    BY <1>1 DEF StartGame
  <1>2. ASSUME SampInit
        PROVE GameInv'
    <2>1. CASE dump = NoDump \/ dump.server # gameServer
      BY <1>2, <2>1 DEF SampInit
    <2>2. CASE ~(dump = NoDump \/ dump.server # gameServer)
      <3>1. dump.session \in Sessions /\ dump.session # 0
        BY <2>2
      <3> QED
        BY <1>2, <2>2, <3>1 DEF SampInit
    <2> QED
      BY <2>1, <2>2
  <1>3. ASSUME ReceiveStartupData
        PROVE GameInv'
    <2>1. gamePeer \in Daemons
      BY <1>3 DEF ReceiveStartupData
    <2>2. gameParams'.session = 0 => gameParams' = NoParams
      BY <1>3, <2>1 DEF ReceiveStartupData, DaemonInv, DaemonHolds
    <2> QED
      BY <1>3, <2>2 DEF ReceiveStartupData
  <1>4. ASSUME ConnectFresh
        PROVE GameInv'
    BY <1>4 DEF ConnectFresh
  <1>5. ASSUME ConnectRestored
        PROVE GameInv'
    BY <1>5 DEF ConnectRestored
  <1>6. ASSUME AskRpcs
        PROVE GameInv'
    BY <1>6 DEF AskRpcs
  <1>7. ASSUME Replay
        PROVE GameInv'
    BY <1>7 DEF Replay
  <1>8. ASSUME ReplayEnds
        PROVE GameInv'
    BY <1>8 DEF ReplayEnds
  <1>9. ASSUME Resume
        PROVE GameInv'
    BY <1>9 DEF Resume
  <1>10. ASSUME RestoreFails
        PROVE GameInv'
    BY <1>10 DEF RestoreFails
  <1>11. ASSUME NEW m \in Messages,
              GameTakes(m)
        PROVE GameInv'
    BY <1>11 DEF GameTakes
  <1>12. ASSUME GameHandles
        PROVE GameInv'
    BY <1>12 DEF GameHandles
  <1>13. ASSUME KillGame
        PROVE GameInv'
    BY <1>13 DEF KillGame, GameGone
  <1>14. ASSUME LeaveUnsaved
        PROVE GameInv'
    BY <1>14 DEF LeaveUnsaved, GameGone
  <1>15. ASSUME Save
        PROVE GameInv'
    BY <1>15 DEF Save
  <1>16. ASSUME WriteDump
        PROVE GameInv'
    BY <1>16 DEF WriteDump
  <1>17. ASSUME NEW d \in Daemons,
              StartDaemon(d)
        PROVE GameInv'
    BY <1>17 DEF StartDaemon
  <1>18. ASSUME NEW d \in Daemons,
              ReceiveParameters(d)
        PROVE GameInv'
    BY <1>18 DEF ReceiveParameters, GameGone
  <1>19. ASSUME NEW d \in Daemons,
              ReceiveNothing(d)
        PROVE GameInv'
    BY <1>19 DEF ReceiveNothing
  <1>20. ASSUME NEW d \in Daemons,
              ConnectDaemon(d)
        PROVE GameInv'
    BY <1>20 DEF ConnectDaemon
  <1>21. ASSUME NEW d \in Daemons,
              Loop(d)
        PROVE GameInv'
    BY <1>21 DEF Loop
  <1>22. ASSUME NEW d \in Daemons,
              Drain(d)
        PROVE GameInv'
    BY <1>22 DEF Drain
  <1>23. ASSUME NEW d \in Daemons,
              Sleep(d)
        PROVE GameInv'
    BY <1>23 DEF Sleep
  <1>24. ASSUME NEW d \in Daemons,
              Expire(d)
        PROVE GameInv'
    BY <1>24 DEF Expire
  <1>25. ASSUME NEW d \in Daemons,
              Leave(d)
        PROVE GameInv'
    BY <1>25 DEF Leave
  <1>26. ASSUME NEW d \in Daemons,
              End(d)
        PROVE GameInv'
    BY <1>26 DEF End
  <1>27. ASSUME NEW d \in Daemons,
              JoinSession(d)
        PROVE GameInv'
    BY <1>27 DEF JoinSession
  <1>28. ASSUME NEW d \in Daemons, NEW m \in Messages,
              DaemonTakes(d, m)
        PROVE GameInv'
    BY <1>28 DEF DaemonTakes
  <1>29. ASSUME NEW d \in Daemons,
              PublishPort(d)
        PROVE GameInv'
    BY <1>29 DEF PublishPort, Thread
  <1>30. ASSUME NEW d \in Daemons,
              Accept(d)
        PROVE GameInv'
    BY <1>30 DEF Accept, Thread
  <1>31. ASSUME NEW d \in Daemons,
              Stop(d)
        PROVE GameInv'
    BY <1>31 DEF Stop, Thread
  <1>32. ASSUME NEW d \in Daemons,
              DisconnectDaemon(d)
        PROVE GameInv'
    BY <1>32 DEF DisconnectDaemon, Thread
  <1>33. ASSUME NEW d \in Daemons,
              SendParameters(d)
        PROVE GameInv'
    BY <1>33 DEF SendParameters, Thread
  <1>34. ASSUME NEW d \in Daemons,
              SendRpcs(d)
        PROVE GameInv'
    BY <1>34 DEF SendRpcs, Thread
  <1>35. CASE UNCHANGED vars
    BY <1>35
  <1> QED
    BY <1>1, <1>2, <1>3, <1>4, <1>5, <1>6, <1>7, <1>8, <1>9, <1>10, <1>11,
       <1>12, <1>13, <1>14, <1>15, <1>16, <1>17, <1>18, <1>19, <1>20, <1>21,
       <1>22, <1>23, <1>24, <1>25, <1>26, <1>27, <1>28, <1>29, <1>30, <1>31,
       <1>32, <1>33, <1>34, <1>35
       DEF Next, GameStep, MainStep, NetworkStep, ThreadStep

LEMMA OpenedStep == IInv /\ [Next]_vars => OpenedInv'
  <1> SUFFICES ASSUME IInv, [Next]_vars PROVE OpenedInv'
    OBVIOUS
  <1> USE ConndAssumption, ParamTypes, NumberTypes
      DEF IInv, TypeOK, OpenedInv, vars, game, files, daemons, history, Connected
  <1>1. ASSUME NEW v \in Servers,
              StartGame(v)
        PROVE OpenedInv'
    BY <1>1 DEF StartGame
  <1>2. ASSUME SampInit
        PROVE OpenedInv'
    BY <1>2 DEF SampInit
  <1>3. ASSUME ReceiveStartupData
        PROVE OpenedInv'
    <2>1. gamePeer \in Daemons
      BY <1>3 DEF ReceiveStartupData, GameInv
    <2> QED
      BY <1>3, <2>1 DEF ReceiveStartupData
  <1>4. ASSUME ConnectFresh
        PROVE OpenedInv'
    <2>1. opened \in Int /\ opened' = opened + 1 /\ gameSession' = opened + 1
      BY <1>4 DEF ConnectFresh
    <2>2. gameParams'.session \in Int /\ gameParams'.session <= opened
      BY SMTT(30), <1>4 DEF ConnectFresh
    <2>3. \A d \in Daemons : params'[d].session \in Int /\ params'[d].session <= opened
      <3>1. params' = params
        BY <1>4 DEF ConnectFresh
      <3>2. \A d \in Daemons : params[d] \in Params /\ params[d].session <= opened
        OBVIOUS
      <3> QED
        BY SMTT(30), <3>1, <3>2
    <2> QED
      BY ONLY <2>1, <2>2, <2>3 DEF OpenedInv
  <1>5. ASSUME ConnectRestored
        PROVE OpenedInv'
    BY <1>5 DEF ConnectRestored
  <1>6. ASSUME AskRpcs
        PROVE OpenedInv'
    BY <1>6 DEF AskRpcs
  <1>7. ASSUME Replay
        PROVE OpenedInv'
    BY <1>7 DEF Replay
  <1>8. ASSUME ReplayEnds
        PROVE OpenedInv'
    BY <1>8 DEF ReplayEnds
  <1>9. ASSUME Resume
        PROVE OpenedInv'
    BY <1>9 DEF Resume
  <1>10. ASSUME RestoreFails
        PROVE OpenedInv'
    BY <1>10 DEF RestoreFails
  <1>11. ASSUME NEW m \in Messages,
              GameTakes(m)
        PROVE OpenedInv'
    BY <1>11 DEF GameTakes
  <1>12. ASSUME GameHandles
        PROVE OpenedInv'
    BY <1>12 DEF GameHandles
  <1>13. ASSUME KillGame
        PROVE OpenedInv'
    BY <1>13 DEF KillGame, GameGone
  <1>14. ASSUME LeaveUnsaved
        PROVE OpenedInv'
    BY <1>14 DEF LeaveUnsaved, GameGone
  <1>15. ASSUME Save
        PROVE OpenedInv'
    BY <1>15 DEF Save
  <1>16. ASSUME WriteDump
        PROVE OpenedInv'
    BY <1>16 DEF WriteDump
  <1>17. ASSUME NEW d \in Daemons,
              StartDaemon(d)
        PROVE OpenedInv'
    BY <1>17 DEF StartDaemon
  <1>18. ASSUME NEW d \in Daemons,
              ReceiveParameters(d)
        PROVE OpenedInv'
    BY <1>18 DEF ReceiveParameters, GameGone
  <1>19. ASSUME NEW d \in Daemons,
              ReceiveNothing(d)
        PROVE OpenedInv'
    BY <1>19 DEF ReceiveNothing
  <1>20. ASSUME NEW d \in Daemons,
              ConnectDaemon(d)
        PROVE OpenedInv'
    BY <1>20 DEF ConnectDaemon
  <1>21. ASSUME NEW d \in Daemons,
              Loop(d)
        PROVE OpenedInv'
    BY <1>21 DEF Loop
  <1>22. ASSUME NEW d \in Daemons,
              Drain(d)
        PROVE OpenedInv'
    BY <1>22 DEF Drain
  <1>23. ASSUME NEW d \in Daemons,
              Sleep(d)
        PROVE OpenedInv'
    BY <1>23 DEF Sleep
  <1>24. ASSUME NEW d \in Daemons,
              Expire(d)
        PROVE OpenedInv'
    BY <1>24 DEF Expire
  <1>25. ASSUME NEW d \in Daemons,
              Leave(d)
        PROVE OpenedInv'
    BY <1>25 DEF Leave
  <1>26. ASSUME NEW d \in Daemons,
              End(d)
        PROVE OpenedInv'
    BY <1>26 DEF End
  <1>27. ASSUME NEW d \in Daemons,
              JoinSession(d)
        PROVE OpenedInv'
    BY <1>27 DEF JoinSession
  <1>28. ASSUME NEW d \in Daemons, NEW m \in Messages,
              DaemonTakes(d, m)
        PROVE OpenedInv'
    BY <1>28 DEF DaemonTakes
  <1>29. ASSUME NEW d \in Daemons,
              PublishPort(d)
        PROVE OpenedInv'
    BY <1>29 DEF PublishPort, Thread
  <1>30. ASSUME NEW d \in Daemons,
              Accept(d)
        PROVE OpenedInv'
    BY <1>30 DEF Accept, Thread
  <1>31. ASSUME NEW d \in Daemons,
              Stop(d)
        PROVE OpenedInv'
    BY <1>31 DEF Stop, Thread
  <1>32. ASSUME NEW d \in Daemons,
              DisconnectDaemon(d)
        PROVE OpenedInv'
    BY <1>32 DEF DisconnectDaemon, Thread
  <1>33. ASSUME NEW d \in Daemons,
              SendParameters(d)
        PROVE OpenedInv'
    BY SMTT(30), <1>33 DEF SendParameters, Thread
  <1>34. ASSUME NEW d \in Daemons,
              SendRpcs(d)
        PROVE OpenedInv'
    BY <1>34 DEF SendRpcs, Thread
  <1>35. CASE UNCHANGED vars
    BY <1>35
  <1> QED
    BY <1>1, <1>2, <1>3, <1>4, <1>5, <1>6, <1>7, <1>8, <1>9, <1>10, <1>11,
       <1>12, <1>13, <1>14, <1>15, <1>16, <1>17, <1>18, <1>19, <1>20, <1>21,
       <1>22, <1>23, <1>24, <1>25, <1>26, <1>27, <1>28, <1>29, <1>30, <1>31,
       <1>32, <1>33, <1>34, <1>35
       DEF Next, GameStep, MainStep, NetworkStep, ThreadStep

LEMMA DaemonStepInv == IInv /\ [Next]_vars => DaemonInv'
  <1> SUFFICES ASSUME IInv, [Next]_vars, NEW e \in Daemons PROVE DaemonHolds(e)'
    BY DEF DaemonInv
  <1> DaemonHolds(e)
    BY DEF IInv, DaemonInv
  <1> USE ConndAssumption, ParamTypes, NumberTypes
      DEF IInv, TypeOK, DaemonHolds, Alive, vars, game, files, daemons, history, Connected
  <1>1. ASSUME NEW v \in Servers,
              StartGame(v)
        PROVE DaemonHolds(e)'
    BY <1>1 DEF StartGame
  <1>2. ASSUME SampInit
        PROVE DaemonHolds(e)'
    BY <1>2 DEF SampInit
  <1>3. ASSUME ReceiveStartupData
        PROVE DaemonHolds(e)'
    BY <1>3 DEF ReceiveStartupData
  <1>4. ASSUME ConnectFresh
        PROVE DaemonHolds(e)'
    BY <1>4 DEF ConnectFresh
  <1>5. ASSUME ConnectRestored
        PROVE DaemonHolds(e)'
    BY <1>5 DEF ConnectRestored
  <1>6. ASSUME AskRpcs
        PROVE DaemonHolds(e)'
    BY <1>6 DEF AskRpcs
  <1>7. ASSUME Replay
        PROVE DaemonHolds(e)'
    BY <1>7 DEF Replay
  <1>8. ASSUME ReplayEnds
        PROVE DaemonHolds(e)'
    BY <1>8 DEF ReplayEnds
  <1>9. ASSUME Resume
        PROVE DaemonHolds(e)'
    BY <1>9 DEF Resume
  <1>10. ASSUME RestoreFails
        PROVE DaemonHolds(e)'
    BY <1>10 DEF RestoreFails
  <1>11. ASSUME NEW m \in Messages,
              GameTakes(m)
        PROVE DaemonHolds(e)'
    BY <1>11 DEF GameTakes
  <1>12. ASSUME GameHandles
        PROVE DaemonHolds(e)'
    BY <1>12 DEF GameHandles
  <1>13. ASSUME KillGame
        PROVE DaemonHolds(e)'
    BY <1>13 DEF KillGame, GameGone
  <1>14. ASSUME LeaveUnsaved
        PROVE DaemonHolds(e)'
    BY <1>14 DEF LeaveUnsaved, GameGone
  <1>15. ASSUME Save
        PROVE DaemonHolds(e)'
    BY <1>15 DEF Save
  <1>16. ASSUME WriteDump
        PROVE DaemonHolds(e)'
    BY <1>16 DEF WriteDump
  <1>17. ASSUME NEW d \in Daemons,
              StartDaemon(d)
        PROVE DaemonHolds(e)'
    BY <1>17 DEF StartDaemon
  <1>18. ASSUME NEW d \in Daemons,
              ReceiveParameters(d)
        PROVE DaemonHolds(e)'
    <2>1. /\ mainPc[d] = "starting" /\ mainPc' = [ mainPc EXCEPT ![d] = "connecting" ]
          /\ params' = [ params EXCEPT ![d] = gameParams ]
          /\ UNCHANGED << threadPc, net, base >>
      BY <1>18 DEF ReceiveParameters
    <2>2. gameParams.session = 0 => gameParams = NoParams
      BY DEF GameInv
    <2>3. CASE e = d
      <3>1. params'[e] = gameParams /\ mainPc'[e] = "connecting" /\ base[e] = 0
        BY <2>1, <2>3
      <3> QED
        BY <2>1, <2>2, <2>3, <3>1
    <2>4. CASE e # d
      BY <2>1, <2>4
    <2> QED
      BY <2>3, <2>4
  <1>19. ASSUME NEW d \in Daemons,
              ReceiveNothing(d)
        PROVE DaemonHolds(e)'
    BY <1>19 DEF ReceiveNothing
  <1>20. ASSUME NEW d \in Daemons,
              ConnectDaemon(d)
        PROVE DaemonHolds(e)'
    BY <1>20 DEF ConnectDaemon
  <1>21. ASSUME NEW d \in Daemons,
              Loop(d)
        PROVE DaemonHolds(e)'
    BY <1>21 DEF Loop
  <1>22. ASSUME NEW d \in Daemons,
              Drain(d)
        PROVE DaemonHolds(e)'
    BY <1>22 DEF Drain
  <1>23. ASSUME NEW d \in Daemons,
              Sleep(d)
        PROVE DaemonHolds(e)'
    BY <1>23 DEF Sleep
  <1>24. ASSUME NEW d \in Daemons,
              Expire(d)
        PROVE DaemonHolds(e)'
    BY <1>24 DEF Expire
  <1>25. ASSUME NEW d \in Daemons,
              Leave(d)
        PROVE DaemonHolds(e)'
    BY <1>25 DEF Leave
  <1>26. ASSUME NEW d \in Daemons,
              End(d)
        PROVE DaemonHolds(e)'
    BY <1>26 DEF End
  <1>27. ASSUME NEW d \in Daemons,
              JoinSession(d)
        PROVE DaemonHolds(e)'
    <2>1. /\ net' = [ net EXCEPT ![d] = "joined" ] /\ base' = [ base EXCEPT ![d] = params[d].base ]
          /\ UNCHANGED << mainPc, threadPc, params >> /\ Alive(d) /\ net[d] = "handshake"
      BY <1>27 DEF JoinSession
    <2>2. CASE e = d
      <3>1. net'[e] = "joined" /\ base'[e] = params[e].base /\ net[e] # "closed"
        BY <2>1, <2>2
      <3> QED
        BY <2>1, <2>2, <3>1
    <2>3. CASE e # d
      BY <2>1, <2>3
    <2> QED
      BY <2>2, <2>3
  <1>28. ASSUME NEW d \in Daemons, NEW m \in Messages,
              DaemonTakes(d, m)
        PROVE DaemonHolds(e)'
    <2>1. params[d].session # 0
      BY <1>28 DEF DaemonTakes, Arrives
    <2> QED
      BY <1>28, <2>1 DEF DaemonTakes
  <1>29. ASSUME NEW d \in Daemons,
              PublishPort(d)
        PROVE DaemonHolds(e)'
    BY <1>29 DEF PublishPort, Thread
  <1>30. ASSUME NEW d \in Daemons,
              Accept(d)
        PROVE DaemonHolds(e)'
    BY <1>30 DEF Accept, Thread
  <1>31. ASSUME NEW d \in Daemons,
              Stop(d)
        PROVE DaemonHolds(e)'
    BY <1>31 DEF Stop, Thread
  <1>32. ASSUME NEW d \in Daemons,
              DisconnectDaemon(d)
        PROVE DaemonHolds(e)'
    BY <1>32 DEF DisconnectDaemon, Thread
  <1>33. ASSUME NEW d \in Daemons,
              SendParameters(d)
        PROVE DaemonHolds(e)'
    <2>1. /\ threadPc[d] = "disconnected" /\ threadPc' = [ threadPc EXCEPT ![d] = "sent" ]
          /\ params' = [ params EXCEPT ![d] = [ params[d] EXCEPT !.base = base[d] ] ]
          /\ UNCHANGED << mainPc, net, base >> /\ Alive(d)
      BY <1>33 DEF SendParameters, Thread
    <2>2. CASE e = d
      <3>1. params'[e] = [ params[e] EXCEPT !.base = base[e] ] /\ threadPc'[e] = "sent"
        BY <2>1, <2>2
      <3>2. params'[e].session = params[e].session
        BY <3>1
      <3>3. params[e].session = 0 => params'[e] = NoParams
        BY <3>1 DEF NoParams
      <3> QED
        BY <2>1, <2>2, <3>1, <3>2, <3>3
    <2>3. CASE e # d
      BY <2>1, <2>3
    <2> QED
      BY <2>2, <2>3
  <1>34. ASSUME NEW d \in Daemons,
              SendRpcs(d)
        PROVE DaemonHolds(e)'
    BY <1>34 DEF SendRpcs, Thread
  <1>35. CASE UNCHANGED vars
    BY <1>35
  <1> QED
    BY <1>1, <1>2, <1>3, <1>4, <1>5, <1>6, <1>7, <1>8, <1>9, <1>10, <1>11,
       <1>12, <1>13, <1>14, <1>15, <1>16, <1>17, <1>18, <1>19, <1>20, <1>21,
       <1>22, <1>23, <1>24, <1>25, <1>26, <1>27, <1>28, <1>29, <1>30, <1>31,
       <1>32, <1>33, <1>34, <1>35
       DEF Next, GameStep, MainStep, NetworkStep, ThreadStep

\* A step in which nobody comes to hold a session.
KeepsClaims ==
    /\ \A e \in Daemons : params'[e].session = params[e].session
    /\ \A e \in Daemons : Claims(e)' /\ params[e].session # 0 => Claims(e)
    /\ \A s \in Sessions : GameHolds(s)' => GameHolds(s)
    /\ gamePc' = "accepted" => gamePc = "accepted" /\ gamePeer' = gamePeer

LEMMA ClaimsKept == IInv /\ KeepsClaims => ClaimInv'
  <1> SUFFICES ASSUME IInv, KeepsClaims,
                      NEW d \in Daemons, Claims(d)', params'[d].session # 0
               PROVE  /\ \A e \in Daemons \ { d } : Claims(e)' => params'[d].session # params'[e].session
                      /\ ~GameHolds(params[d].session)'
                      /\ gamePc' = "accepted" /\ d # gamePeer' =>
                           params'[d].session # params'[gamePeer'].session
    BY DEF ClaimInv, KeepsClaims, GameHolds
  <1>1. params'[d].session = params[d].session /\ params[d].session \in Sessions /\ Claims(d)
    BY ParamTypes, NumberTypes DEF KeepsClaims, IInv, TypeOK
  <1>2. \A e \in Daemons \ { d } : Claims(e)' => params'[d].session # params'[e].session
    BY <1>1 DEF KeepsClaims, IInv, ClaimInv
  <1>3. ~GameHolds(params[d].session)'
    BY <1>1 DEF KeepsClaims, IInv, ClaimInv
  <1>4. gamePc' = "accepted" /\ d # gamePeer' => params'[d].session # params'[gamePeer'].session
    BY <1>1 DEF KeepsClaims, IInv, ClaimInv, GameInv
  <1> QED
    BY <1>2, <1>3, <1>4

LEMMA ClaimStep == IInv /\ [Next]_vars => ClaimInv'
  <1> SUFFICES ASSUME IInv, [Next]_vars PROVE ClaimInv'
    OBVIOUS
  <1> USE ParamTypes, NumberTypes
      DEF IInv, TypeOK, DaemonInv, DaemonHolds, GameInv, KeepsClaims, Claims, GameHolds, Alive,
          vars, game, files, daemons, history, Connected
  <1>1. ASSUME NEW v \in Servers,
              StartGame(v)
        PROVE KeepsClaims
    BY <1>1 DEF StartGame
  <1>2. ASSUME SampInit
        PROVE KeepsClaims
    BY <1>2 DEF SampInit
  <1>3. ASSUME ReceiveStartupData
        PROVE ClaimInv'
    <2>1. gamePeer \in Daemons /\ gameSession = 0
      BY <1>3 DEF ReceiveStartupData
    <2>2. gamePc' = "restoring" /\ gameSession' = gameSession /\ params' = params
          /\ \A d \in Daemons : Claims(d)' = Claims(d)
      BY <1>3 DEF ReceiveStartupData
    <2>3. \/ gameParams' = NoParams
          \/ gamePc = "accepted" /\ gameParams' = params[gamePeer] /\ ~Claims(gamePeer)
      <3>1. CASE gamePc = "accepted" /\ threadPc[gamePeer] = "sent" /\ gameParams' = params[gamePeer]
        <4>1. net[gamePeer] = "closed" /\ mainPc[gamePeer] # "connecting"
          BY <2>1, <3>1
        <4> QED
          BY <3>1, <4>1
      <3>2. CASE gameParams' = gameParams
        BY <1>3, <3>2 DEF ReceiveStartupData
      <3> QED
        BY <1>3, <3>1, <3>2 DEF ReceiveStartupData
    <2> SUFFICES ASSUME NEW d \in Daemons, Claims(d)', params'[d].session # 0
                 PROVE  /\ \A e \in Daemons \ { d } :
                             Claims(e)' => params'[d].session # params'[e].session
                        /\ ~GameHolds(params[d].session)'
                        /\ gamePc' = "accepted" /\ d # gamePeer' =>
                             params'[d].session # params'[gamePeer'].session
      BY DEF ClaimInv
    <2>4. Claims(d) /\ params[d].session # 0
      BY <2>2
    <2>5. \A e \in Daemons \ { d } : Claims(e) => params[d].session # params[e].session
      BY <2>4 DEF ClaimInv
    <2>6. params[d].session # gameParams'.session
      BY <2>1, <2>3, <2>4 DEF ClaimInv
    <2> QED
      BY <2>1, <2>2, <2>4, <2>5, <2>6
  <1>4. ASSUME ConnectFresh
        PROVE ClaimInv'
    <2>1. gamePc' = "playing" /\ gameSession' = opened + 1 /\ params' = params
          /\ \A d \in Daemons : Claims(d)' = Claims(d)
      BY <1>4 DEF ConnectFresh
    <2>2. \A d \in Daemons : params[d].session # opened + 1
      <3>1. \A d \in Daemons : params[d].session \in Int /\ params[d].session <= opened
        <4>1. \A d \in Daemons : params[d] \in Params /\ params[d].session <= opened
          BY DEF OpenedInv
        <4>2. \A i \in Params : i.session \in Int
          BY ONLY ParamTypes, ConndAssumption
        <4> QED
          BY ONLY <4>1, <4>2
      <3>2. opened \in Int
        OBVIOUS
      <3> QED
        BY ONLY <3>1, <3>2
    <2> SUFFICES ASSUME NEW d \in Daemons, Claims(d)', params'[d].session # 0
                 PROVE  /\ \A e \in Daemons \ { d } :
                             Claims(e)' => params'[d].session # params'[e].session
                        /\ ~GameHolds(params[d].session)'
                        /\ gamePc' = "accepted" /\ d # gamePeer' =>
                             params'[d].session # params'[gamePeer'].session
      BY DEF ClaimInv
    <2>3. Claims(d) /\ params[d].session # 0
      BY <2>1
    <2>4. \A e \in Daemons \ { d } : Claims(e) => params[d].session # params[e].session
      BY <2>3 DEF ClaimInv
    <2> QED
      BY <2>1, <2>2, <2>3, <2>4
  <1>5. ASSUME ConnectRestored
        PROVE KeepsClaims
    BY <1>5 DEF ConnectRestored
  <1>6. ASSUME AskRpcs
        PROVE KeepsClaims
    BY <1>6 DEF AskRpcs
  <1>7. ASSUME Replay
        PROVE KeepsClaims
    BY <1>7 DEF Replay
  <1>8. ASSUME ReplayEnds
        PROVE KeepsClaims
    BY <1>8 DEF ReplayEnds
  <1>9. ASSUME Resume
        PROVE KeepsClaims
    BY <1>9 DEF Resume
  <1>10. ASSUME RestoreFails
        PROVE KeepsClaims
    BY <1>10 DEF RestoreFails
  <1>11. ASSUME NEW m \in Messages,
              GameTakes(m)
        PROVE KeepsClaims
    BY <1>11 DEF GameTakes
  <1>12. ASSUME GameHandles
        PROVE KeepsClaims
    BY <1>12 DEF GameHandles
  <1>13. ASSUME KillGame
        PROVE KeepsClaims
    BY <1>13 DEF KillGame, GameGone
  <1>14. ASSUME LeaveUnsaved
        PROVE KeepsClaims
    BY <1>14 DEF LeaveUnsaved, GameGone
  <1>15. ASSUME Save
        PROVE KeepsClaims
    BY <1>15 DEF Save
  <1>16. ASSUME WriteDump
        PROVE KeepsClaims
    BY <1>16 DEF WriteDump
  <1>17. ASSUME NEW d \in Daemons,
              StartDaemon(d)
        PROVE KeepsClaims
    BY <1>17 DEF StartDaemon
  <1>18. ASSUME NEW d \in Daemons,
              ReceiveParameters(d)
        PROVE ClaimInv'
    <2>1. /\ gamePc = "serving" /\ params' = [ params EXCEPT ![d] = gameParams ]
          /\ gamePc' = "off" /\ gameSession' = 0
          /\ \A e \in Daemons \ { d } : Claims(e)' = Claims(e)
      BY <1>18 DEF ReceiveParameters, GameGone
    <2>2. \A e \in Daemons \ { d } : Claims(e) /\ params[e].session # 0 =>
             params[e].session # gameParams.session
      BY <2>1 DEF ClaimInv
    <2>3. params'[d] = gameParams /\ \A e \in Daemons \ { d } : params'[e] = params[e]
      BY <1>18, <2>1
    <2> SUFFICES ASSUME NEW e \in Daemons, Claims(e)', params'[e].session # 0
                 PROVE  \A f \in Daemons \ { e } : Claims(f)' => params'[e].session # params'[f].session
      BY <2>1 DEF ClaimInv
    <2>4. CASE e = d
      BY ONLY <2>1, <2>2, <2>3, <2>4, params'[e].session # 0, e \in Daemons
    <2>5. CASE e # d
      <3>1. Claims(e) /\ params'[e] = params[e]
        BY ONLY <2>1, <2>3, <2>5, Claims(e)', e \in Daemons
      <3>2. \A f \in Daemons \ { e } : Claims(f) => params[e].session # params[f].session
        BY <3>1 DEF ClaimInv
      <3>3. params[e].session # gameParams.session
        BY <2>2, <2>5, <3>1
      <3> QED
        BY ONLY <2>1, <2>3, <2>5, <3>1, <3>2, <3>3, d \in Daemons
    <2> QED
      BY <2>4, <2>5
  <1>19. ASSUME NEW d \in Daemons,
              ReceiveNothing(d)
        PROVE KeepsClaims
    BY <1>19 DEF ReceiveNothing
  <1>20. ASSUME NEW d \in Daemons,
              ConnectDaemon(d)
        PROVE KeepsClaims
    BY SMTT(30), <1>20 DEF ConnectDaemon
  <1>21. ASSUME NEW d \in Daemons,
              Loop(d)
        PROVE KeepsClaims
    BY SMTT(30), <1>21 DEF Loop
  <1>22. ASSUME NEW d \in Daemons,
              Drain(d)
        PROVE KeepsClaims
    BY <1>22 DEF Drain
  <1>23. ASSUME NEW d \in Daemons,
              Sleep(d)
        PROVE KeepsClaims
    BY <1>23 DEF Sleep
  <1>24. ASSUME NEW d \in Daemons,
              Expire(d)
        PROVE KeepsClaims
    BY <1>24 DEF Expire
  <1>25. ASSUME NEW d \in Daemons,
              Leave(d)
        PROVE KeepsClaims
    BY SMTT(30), <1>25 DEF Leave
  <1>26. ASSUME NEW d \in Daemons,
              End(d)
        PROVE KeepsClaims
    BY <1>26 DEF End
  <1>27. ASSUME NEW d \in Daemons,
              JoinSession(d)
        PROVE KeepsClaims
    BY SMTT(30), <1>27 DEF JoinSession
  <1>28. ASSUME NEW d \in Daemons, NEW m \in Messages,
              DaemonTakes(d, m)
        PROVE KeepsClaims
    BY <1>28 DEF DaemonTakes
  <1>29. ASSUME NEW d \in Daemons,
              PublishPort(d)
        PROVE KeepsClaims
    BY <1>29 DEF PublishPort, Thread
  <1>30. ASSUME NEW d \in Daemons,
              Accept(d)
        PROVE ClaimInv'
    <2>1. /\ gamePc = "connected" /\ gamePeer = d /\ Alive(d) /\ threadPc[d] = "listening"
          /\ gamePc' = "accepted" /\ gamePeer' = d /\ gameSession' = gameSession /\ params' = params
          /\ \A e \in Daemons : Claims(e)' = Claims(e)
      BY <1>30 DEF Accept, Thread
    <2>2. params[d].session # 0 => Claims(d)
      BY <1>30, <2>1
    <2>3. \A e \in Daemons : Claims(e) /\ params[e].session # 0 =>
             /\ \A f \in Daemons \ { e } : Claims(f) => params[e].session # params[f].session
             /\ gameSession # params[e].session
             /\ e # d => params[e].session # params[d].session
      BY <1>30, <2>2 DEF ClaimInv
    <2> QED
      BY ONLY <2>1, <2>3 DEF ClaimInv, GameHolds
  <1>31. ASSUME NEW d \in Daemons,
              Stop(d)
        PROVE KeepsClaims
    BY <1>31 DEF Stop, Thread
  <1>32. ASSUME NEW d \in Daemons,
              DisconnectDaemon(d)
        PROVE KeepsClaims
    BY <1>32 DEF DisconnectDaemon, Thread
  <1>33. ASSUME NEW d \in Daemons,
              SendParameters(d)
        PROVE KeepsClaims
    <2>1. \A e \in Daemons : params'[e].session = params[e].session
      <3>1. params' = [ params EXCEPT ![d] = [ params[d] EXCEPT !.base = base[d] ] ]
        BY <1>33 DEF SendParameters
      <3>2. params \in [ Daemons -> Params ] /\ base[d] \in 0..MaxMessages
        BY <1>33
      <3> QED
        BY ONLY <3>1, <3>2, ParamTypes
    <2> QED
      BY <1>33, <2>1 DEF SendParameters, Thread
  <1>34. ASSUME NEW d \in Daemons,
              SendRpcs(d)
        PROVE KeepsClaims
    BY <1>34 DEF SendRpcs, Thread
  <1>35. CASE UNCHANGED vars
    <2>1. /\ params' = params /\ mainPc' = mainPc /\ net' = net
          /\ gamePc' = gamePc /\ gamePeer' = gamePeer /\ gameSession' = gameSession
          /\ gameParams' = gameParams
      BY <1>35
    <2>2. KeepsClaims
      BY <2>1
    <2> QED
      BY <2>2, ClaimsKept
  <1> QED
    BY ClaimsKept, <1>1, <1>2, <1>3, <1>4, <1>5, <1>6, <1>7, <1>8, <1>9, <1>10,
       <1>11, <1>12, <1>13, <1>14, <1>15, <1>16, <1>17, <1>18, <1>19, <1>20,
       <1>21, <1>22, <1>23, <1>24, <1>25, <1>26, <1>27, <1>28, <1>29, <1>30,
       <1>31, <1>32, <1>33, <1>34, <1>35
       DEF Next, GameStep, MainStep, NetworkStep, ThreadStep

-----------------------------------------------------------------------------
LEMMA InitInv == Init => IInv
  <1> SUFFICES ASSUME Init PROVE IInv
    OBVIOUS
  <1> USE ConndAssumption, ParamTypes, NumberTypes, QueueTypes DEF Init
  <1>1. TypeOK
    BY DEF TypeOK, Connected
  <1>2. DaemonInv
    BY DEF DaemonInv, DaemonHolds, Alive
  <1>3. GameInv /\ OpenedInv
    BY DEF GameInv, OpenedInv, Connected
  <1>4. ClaimInv
    BY DEF ClaimInv, Claims
  <1> QED
    BY <1>1, <1>2, <1>3, <1>4 DEF IInv

LEMMA Inductive == IInv /\ [Next]_vars => IInv'
  BY TypeStep, GameStepInv, OpenedStep, DaemonStepInv, ClaimStep DEF IInv

\* A set of which any two elements are the same has one at most.
LEMMA AtMostOne ==
    ASSUME NEW S, \A x, y \in S : x = y
    PROVE  Cardinality(S) <= 1
  <1>1. CASE S = {}
    BY <1>1, FS_EmptySet
  <1>2. CASE S # {}
    <2>1. PICK x : S = { x }
      BY <1>2
    <2> QED
      BY <2>1, FS_Singleton
  <1> QED
    BY <1>1, <1>2

LEMMA ClaimsSuffice == IInv => OneSpeaker
  <1> SUFFICES ASSUME IInv, NEW s \in Sessions
               PROVE  /\ Cardinality({ d \in Daemons : net[d] # "closed" /\ params[d].session = s }) <= 1
                      /\ gameSession = s =>
                           { d \in Daemons : net[d] # "closed" /\ params[d].session = s } = {}
    BY DEF OneSpeaker
  <1> DEFINE speakers == { d \in Daemons : net[d] # "closed" /\ params[d].session = s }
  <1>1. s # 0
    BY NumberTypes
  <1>2. \A d \in speakers : Claims(d) /\ params[d].session = s /\ d \in Daemons
    BY DEF Claims
  <1>3. \A d, e \in speakers : d = e
    BY <1>1, <1>2 DEF IInv, ClaimInv
  <1>4. gameSession = s => speakers = {}
    BY <1>1, <1>2 DEF IInv, ClaimInv, GameHolds
  <1> QED
    BY <1>3, <1>4, AtMostOne

\* The invariant holds in every state, whatever the user kills and when.
THEOREM InvariantHolds == Spec => []IInv
  BY InitInv, Inductive, PTL DEF Spec

\* Every variable keeps its type, for any number of servers, daemons and sessions
\* (what the processes and files of Connd hold).
THEOREM TypeCorrect == Spec => []TypeOK
  <1>1. IInv => TypeOK
    BY DEF IInv
  <1> QED
    BY InvariantHolds, <1>1, PTL

\* Never do two processes have the port of one session open: what a daemon keeps is
\* closed before the game is sent its parameters, and a game closes its own before
\* it serves them, killed or not.
THEOREM OneSpeakerHolds == Spec => []OneSpeaker
  BY InvariantHolds, ClaimsSuffice, PTL

-----------------------------------------------------------------------------
(* The order of the RPCs.                                                  *)

Increasing(q) == \A m, n \in 1..Len(q) : m < n => q[m] < q[n]

\* What was handled rises, and is none above h.
Rising(h, a) == Increasing(a) /\ \A x \in Elements(a) : x <= h

\* The RPCs of a session, wherever they are: those handled, then those of q, then
\* those of r, none above h; and up to h none is missing but those that were freed,
\* which do not wait.
Line(h, a, q, r, freed) ==
    /\ Rising(h, a) /\ Rising(h, q) /\ Rising(h, r)
    /\ \A x \in Elements(a), y \in Elements(q) : x < y
    /\ \A x \in Elements(a), y \in Elements(r) : x < y
    /\ \A x \in Elements(q), y \in Elements(r) : x < y
    /\ 1..h \subseteq Elements(a) \cup Elements(q) \cup Elements(r) \cup freed
    /\ freed \subseteq 1..h
    /\ \A x \in Elements(q) \cup Elements(r) : x \notin freed

InLine(s, q, r) == Line(highest[s], applied[s], q, r, dropped[s])

\* Which queues are empty, and whose the game's parameters are.
GameQueues ==
    /\ gamePc # "replaying" => gameReplay = << >>
    /\ gamePc \in { "handshake", "asking", "replaying", "resuming" } =>
         gameSession = gameParams.session
    /\ gamePc \in { "restoring", "handshake", "asking" } /\ gameParams # NoParams =>
         /\ gamePeer \in Daemons
         /\ params[gamePeer].session = gameParams.session
         /\ threadPc[gamePeer] \in { "sent", "finished" }

DaemonQueues(d) ==
    mainPc[d] \in { "none", "starting", "connecting" } \/ net[d] = "handshake" =>
        inbox[d] = << >> /\ rpcQueue[d] = << >>

QueuesInv == GameQueues /\ \A d \in Daemons : DaemonQueues(d)

\* What was handled rises; a session not yet opened has no messages.
HandledInv(s) ==
    /\ Rising(highest[s], applied[s])
    /\ s > opened => applied[s] = << >> /\ highest[s] = 0 /\ dropped[s] = {}

\* A game that holds a session holds its base index, and its RPCs in line; until the
\* daemon has sent them they are in that daemon's queue.
GameOrder(s) ==
    /\ gameSession = s =>
         /\ gamePc \in { "replaying", "resuming", "playing" } => InLine(s, gameReplay, gameInbox)
         /\ gamePc = "playing" => gameBase = highest[s]
         /\ gamePc # "playing" => gameInbox = << >> /\ gameParams.base = highest[s]
    /\ gamePc \in { "restoring", "saving", "saved", "serving" } /\ gameParams.session = s =>
         gameParams.base = highest[s]
    /\ gamePc \in { "saving", "saved", "serving" } /\ gameParams.session = s =>
         InLine(s, << >>, << >>)
    /\ gamePc \in { "restoring", "handshake", "asking" } /\ gameParams.session = s =>
         InLine(s, rpcQueue[gamePeer], << >>)

\* A daemon that holds a session, and one that hands it over to a game.
DaemonOrder(s, d) ==
    /\ params[d].session = s /\ Claims(d) =>
         /\ InLine(s, rpcQueue[d], inbox[d])
         /\ net[d] = "joined" => base[d] = highest[s]
         /\ net[d] # "joined" => params[d].base = highest[s]
    /\ params[d].session = s /\ gamePc = "accepted" /\ gamePeer = d =>
         /\ threadPc[d] \in { "disconnected", "sent" } => InLine(s, rpcQueue[d], << >>)
         /\ threadPc[d] = "disconnected" => base[d] = highest[s]
         /\ threadPc[d] = "sent" => params[d].base = highest[s]

SessionOrder(s) == HandledInv(s) /\ GameOrder(s) /\ \A d \in Daemons : DaemonOrder(s, d)

OrderInv == QueuesInv /\ \A s \in Sessions \ spoiled : SessionOrder(s)

\* Queues, by what they hold and whether it rises.
LEMMA NothingQueued == Elements(<< >>) = {} /\ Increasing(<< >>)
  BY DEF Elements, Increasing

LEMMA OneMore ==
    ASSUME NEW q \in Seq(Messages), NEW m \in Messages
    PROVE  /\ Elements(Append(q, m)) = Elements(q) \cup { m }
           /\ Increasing(q) /\ (\A x \in Elements(q) : x < m) => Increasing(Append(q, m))
  <1> DEFINE p == Append(q, m)
  <1>1. Len(p) = Len(q) + 1 /\ Len(q) \in Nat
    OBVIOUS
  <1>2. \A n \in 1..Len(q) : p[n] = q[n]
    OBVIOUS
  <1>3. p[Len(q) + 1] = m
    OBVIOUS
  <1> HIDE DEF p
  <1>4. Elements(p) = Elements(q) \cup { m }
    <2>1. 1..Len(p) = 1..Len(q) \cup { Len(q) + 1 }
      BY <1>1
    <2> QED
      BY <1>2, <1>3, <2>1 DEF Elements
  <1>5. ASSUME Increasing(q), \A x \in Elements(q) : x < m
        PROVE  Increasing(p)
    <2> SUFFICES ASSUME NEW i \in 1..Len(p), NEW j \in 1..Len(p), i < j
                 PROVE  p[i] < p[j]
      BY DEF Increasing
    <2>1. i \in 1..Len(q)
      BY <1>1
    <2>2. CASE j \in 1..Len(q)
      BY <1>2, <1>5, <2>1, <2>2 DEF Increasing
    <2>3. CASE j = Len(q) + 1
      BY <1>2, <1>3, <1>5, <2>1, <2>3 DEF Elements
    <2> QED
      BY <1>1, <2>2, <2>3
  <1> QED
    BY <1>4, <1>5 DEF p

LEMMA OneLess ==
    ASSUME NEW q \in Seq(Messages), q # << >>
    PROVE  /\ Head(q) \in Elements(q)
           /\ Elements(q) = Elements(Tail(q)) \cup { Head(q) }
           /\ Increasing(q) => /\ Increasing(Tail(q))
                               /\ \A x \in Elements(Tail(q)) : Head(q) < x
  <1> DEFINE t == Tail(q)
  <1>1. Len(q) \in Nat \ { 0 } /\ Len(t) = Len(q) - 1
    OBVIOUS
  <1>2. Head(q) = q[1]
    OBVIOUS
  <1>3. \A n \in 1..Len(t) : t[n] = q[n + 1] /\ n + 1 \in 1..Len(q)
    BY <1>1
  <1> HIDE DEF t
  <1>4. Head(q) \in Elements(q)
    BY <1>1, <1>2 DEF Elements
  <1>5. Elements(q) = Elements(t) \cup { Head(q) }
    <2>1. \A n \in 1..Len(q) : n # 1 => n - 1 \in 1..Len(t) /\ t[n - 1] = q[n]
      BY <1>1, <1>3
    <2>2. ASSUME NEW x \in Elements(q)
          PROVE  x \in Elements(t) \cup { Head(q) }
      BY <1>2, <2>1 DEF Elements
    <2>3. Elements(t) \subseteq Elements(q)
      BY <1>3 DEF Elements
    <2> QED
      BY <1>4, <2>2, <2>3
  <1>6. ASSUME Increasing(q)
        PROVE  Increasing(t) /\ \A x \in Elements(t) : Head(q) < x
    <2>1. Increasing(t)
      BY <1>1, <1>3, <1>6 DEF Increasing
    <2>2. \A n \in 1..Len(t) : q[1] < q[n + 1]
      BY <1>1, <1>3, <1>6 DEF Increasing
    <2> QED
      BY <1>2, <1>3, <2>1, <2>2 DEF Elements
  <1> QED
    BY <1>4, <1>5, <1>6 DEF t

\* What becomes of the line as its messages move on.
LEMMA LineMoves ==
    ASSUME NEW h \in 0..MaxMessages, NEW f,
           NEW a \in Seq(Messages), NEW q \in Seq(Messages), NEW r \in Seq(Messages),
           Line(h, a, q, r, f)
    PROVE  /\ Line(h, a, q, << >>, f \cup Elements(r))
           /\ h + 1 \in Messages => Line(h + 1, a, q, Append(r, h + 1), f)
           /\ r # << >> => Line(h, a, Append(q, Head(r)), Tail(r), f)
           /\ q # << >> => /\ Line(h, Append(a, Head(q)), Tail(q), r, f)
                           /\ Rising(h, Append(a, Head(q)))
           /\ q = << >> /\ r # << >> => /\ Line(h, Append(a, Head(r)), q, Tail(r), f)
                                       /\ Rising(h, Append(a, Head(r)))
  <1> USE NothingQueued DEF Line, Rising
  <1>1. \A x \in Messages : x \in Int
    BY ConndAssumption DEF Messages
  <1>2. Elements(a) \subseteq Messages /\ Elements(q) \subseteq Messages /\ Elements(r) \subseteq Messages
    BY QueueTypes
  <1>3. h \in Int
    BY ConndAssumption
  <1> HIDE DEF Messages
  <1>4. Line(h, a, q, << >>, f \cup Elements(r))
    <2>1. Elements(r) \subseteq 1..h
      <3>1. \A x \in Messages : x >= 1
        BY DEF Messages
      <3> QED
        BY <1>1, <1>2, <1>3, <3>1
    <2>2. \A x \in Elements(q), y \in Elements(r) : x # y
      BY <1>1, <1>2
    <2> QED
      BY <2>1, <2>2
  <1>5. ASSUME h + 1 \in Messages
        PROVE  Line(h + 1, a, q, Append(r, h + 1), f)
    <2>1. \A x \in Elements(a) \cup Elements(q) \cup Elements(r) : x < h + 1 /\ x <= h + 1
      BY <1>1, <1>2, <1>3
    <2>2. Elements(Append(r, h + 1)) = Elements(r) \cup { h + 1 } /\ Increasing(Append(r, h + 1))
      BY <1>5, <2>1, OneMore
    <2>3. h + 1 <= h + 1 /\ 1..(h + 1) \subseteq 1..h \cup { h + 1 }
      BY <1>3
    <2> QED
      BY <2>1, <2>2, <2>3
  <1>6. ASSUME r # << >>
        PROVE  Line(h, a, Append(q, Head(r)), Tail(r), f)
    <2>1. Head(r) \in Elements(r) /\ Head(r) \in Messages
      BY <1>6, <1>2, OneLess
    <2>2. /\ Increasing(Tail(r)) /\ \A x \in Elements(Tail(r)) : Head(r) < x
          /\ Elements(r) = Elements(Tail(r)) \cup { Head(r) }
      BY <1>6, OneLess
    <2>3. Elements(Append(q, Head(r))) = Elements(q) \cup { Head(r) } /\ Increasing(Append(q, Head(r)))
      BY <2>1, OneMore
    <2> QED
      BY <2>1, <2>2, <2>3
  <1>7. ASSUME q # << >>
        PROVE  Line(h, Append(a, Head(q)), Tail(q), r, f) /\ Rising(h, Append(a, Head(q)))
    <2>1. Head(q) \in Elements(q) /\ Head(q) \in Messages
      BY <1>7, <1>2, OneLess
    <2>2. /\ Increasing(Tail(q)) /\ \A x \in Elements(Tail(q)) : Head(q) < x
          /\ Elements(q) = Elements(Tail(q)) \cup { Head(q) }
      BY <1>7, OneLess
    <2>3. Elements(Append(a, Head(q))) = Elements(a) \cup { Head(q) } /\ Increasing(Append(a, Head(q)))
      BY <2>1, OneMore
    <2> QED
      BY <2>1, <2>2, <2>3
  <1>8. ASSUME q = << >>, r # << >>
        PROVE  Line(h, Append(a, Head(r)), q, Tail(r), f) /\ Rising(h, Append(a, Head(r)))
    <2>1. Head(r) \in Elements(r) /\ Head(r) \in Messages
      BY <1>8, <1>2, OneLess
    <2>2. /\ Increasing(Tail(r)) /\ \A x \in Elements(Tail(r)) : Head(r) < x
          /\ Elements(r) = Elements(Tail(r)) \cup { Head(r) }
      BY <1>8, OneLess
    <2>3. Elements(Append(a, Head(r))) = Elements(a) \cup { Head(r) } /\ Increasing(Append(a, Head(r)))
      BY <2>1, OneMore
    <2> QED
      BY <1>8, <2>1, <2>2, <2>3
  <1> QED
    BY <1>4, <1>5, <1>6, <1>7, <1>8

\* Each part of OrderInv through a step.
LEMMA GameQueuesStep ==
    ASSUME IInv, QueuesInv, [Next]_vars
    PROVE  GameQueues'
  <1> USE ParamTypes, NumberTypes
      DEF IInv, TypeOK, GameInv, DaemonInv, DaemonHolds, QueuesInv, GameQueues, DaemonQueues,
          Alive, Connected, vars, game, files, daemons, history
  <1>1. ASSUME NEW v \in Servers, StartGame(v)
        PROVE  GameQueues'
    BY <1>1 DEF StartGame
  <1>2. ASSUME SampInit
        PROVE  GameQueues'
    BY <1>2 DEF SampInit
  <1>3. ASSUME ReceiveStartupData
        PROVE  GameQueues'
    BY <1>3 DEF ReceiveStartupData
  <1>4. ASSUME ConnectFresh
        PROVE  GameQueues'
    BY <1>4 DEF ConnectFresh
  <1>5. ASSUME ConnectRestored
        PROVE  GameQueues'
    BY <1>5 DEF ConnectRestored
  <1>6. ASSUME AskRpcs
        PROVE  GameQueues'
    BY <1>6 DEF AskRpcs
  <1>7. ASSUME Replay
        PROVE  GameQueues'
    BY <1>7 DEF Replay
  <1>8. ASSUME ReplayEnds
        PROVE  GameQueues'
    BY <1>8 DEF ReplayEnds
  <1>9. ASSUME Resume
        PROVE  GameQueues'
    BY <1>9 DEF Resume
  <1>10. ASSUME RestoreFails
        PROVE  GameQueues'
    BY <1>10 DEF RestoreFails
  <1>11. ASSUME NEW m \in Messages, GameTakes(m)
        PROVE  GameQueues'
    BY <1>11 DEF GameTakes
  <1>12. ASSUME GameHandles
        PROVE  GameQueues'
    BY <1>12 DEF GameHandles
  <1>13. ASSUME KillGame
        PROVE  GameQueues'
    BY <1>13 DEF KillGame, GameGone
  <1>14. ASSUME LeaveUnsaved
        PROVE  GameQueues'
    BY <1>14 DEF LeaveUnsaved, GameGone
  <1>15. ASSUME Save
        PROVE  GameQueues'
    BY <1>15 DEF Save
  <1>16. ASSUME WriteDump
        PROVE  GameQueues'
    BY <1>16 DEF WriteDump
  <1>17. ASSUME NEW d \in Daemons, StartDaemon(d)
        PROVE  GameQueues'
    BY <1>17 DEF StartDaemon
  <1>18. ASSUME NEW d \in Daemons, ReceiveParameters(d)
        PROVE  GameQueues'
    BY <1>18 DEF ReceiveParameters, GameGone
  <1>19. ASSUME NEW d \in Daemons, ReceiveNothing(d)
        PROVE  GameQueues'
    BY <1>19 DEF ReceiveNothing
  <1>20. ASSUME NEW d \in Daemons, ConnectDaemon(d)
        PROVE  GameQueues'
    BY <1>20 DEF ConnectDaemon
  <1>21. ASSUME NEW d \in Daemons, Loop(d)
        PROVE  GameQueues'
    BY <1>21 DEF Loop
  <1>22. ASSUME NEW d \in Daemons, Drain(d)
        PROVE  GameQueues'
    BY <1>22 DEF Drain
  <1>23. ASSUME NEW d \in Daemons, Sleep(d)
        PROVE  GameQueues'
    BY <1>23 DEF Sleep
  <1>24. ASSUME NEW d \in Daemons, Expire(d)
        PROVE  GameQueues'
    BY <1>24 DEF Expire
  <1>25. ASSUME NEW d \in Daemons, Leave(d)
        PROVE  GameQueues'
    BY <1>25 DEF Leave
  <1>26. ASSUME NEW d \in Daemons, End(d)
        PROVE  GameQueues'
    BY <1>26 DEF End
  <1>27. ASSUME NEW d \in Daemons, JoinSession(d)
        PROVE  GameQueues'
    BY <1>27 DEF JoinSession, Alive
  <1>28. ASSUME NEW d \in Daemons, NEW m \in Messages, DaemonTakes(d, m)
        PROVE  GameQueues'
    BY <1>28 DEF DaemonTakes
  <1>29. ASSUME NEW d \in Daemons, PublishPort(d)
        PROVE  GameQueues'
    BY <1>29 DEF PublishPort, Thread
  <1>30. ASSUME NEW d \in Daemons, Accept(d)
        PROVE  GameQueues'
    BY <1>30 DEF Accept, Thread
  <1>31. ASSUME NEW d \in Daemons, Stop(d)
        PROVE  GameQueues'
    BY <1>31 DEF Stop, Thread
  <1>32. ASSUME NEW d \in Daemons, DisconnectDaemon(d)
        PROVE  GameQueues'
    BY <1>32 DEF DisconnectDaemon, Thread
  <1>33. ASSUME NEW d \in Daemons, SendParameters(d)
        PROVE  GameQueues'
    BY <1>33 DEF SendParameters, Thread
  <1>34. ASSUME NEW d \in Daemons, SendRpcs(d)
        PROVE  GameQueues'
    BY <1>34 DEF SendRpcs, Thread
  <1>35. CASE UNCHANGED vars
    BY <1>35
  <1> QED
    BY <1>1, <1>2, <1>3, <1>4, <1>5, <1>6, <1>7, <1>8, <1>9, <1>10, <1>11,
       <1>12, <1>13, <1>14, <1>15, <1>16, <1>17, <1>18, <1>19, <1>20, <1>21,
       <1>22, <1>23, <1>24, <1>25, <1>26, <1>27, <1>28, <1>29, <1>30, <1>31,
       <1>32, <1>33, <1>34, <1>35
       DEF Next, GameStep, MainStep, NetworkStep, ThreadStep

LEMMA DaemonQueuesStep ==
    ASSUME IInv, QueuesInv, [Next]_vars, NEW e \in Daemons
    PROVE  DaemonQueues(e)'
  <1> USE ParamTypes, NumberTypes
      DEF IInv, TypeOK, GameInv, DaemonInv, DaemonHolds, QueuesInv, GameQueues, DaemonQueues,
          Alive, Connected, vars, game, files, daemons, history
  <1>1. ASSUME NEW v \in Servers, StartGame(v)
        PROVE  DaemonQueues(e)'
    BY <1>1 DEF StartGame
  <1>2. ASSUME SampInit
        PROVE  DaemonQueues(e)'
    BY <1>2 DEF SampInit
  <1>3. ASSUME ReceiveStartupData
        PROVE  DaemonQueues(e)'
    BY <1>3 DEF ReceiveStartupData
  <1>4. ASSUME ConnectFresh
        PROVE  DaemonQueues(e)'
    BY <1>4 DEF ConnectFresh
  <1>5. ASSUME ConnectRestored
        PROVE  DaemonQueues(e)'
    BY <1>5 DEF ConnectRestored
  <1>6. ASSUME AskRpcs
        PROVE  DaemonQueues(e)'
    BY <1>6 DEF AskRpcs
  <1>7. ASSUME Replay
        PROVE  DaemonQueues(e)'
    BY <1>7 DEF Replay
  <1>8. ASSUME ReplayEnds
        PROVE  DaemonQueues(e)'
    BY <1>8 DEF ReplayEnds
  <1>9. ASSUME Resume
        PROVE  DaemonQueues(e)'
    BY <1>9 DEF Resume
  <1>10. ASSUME RestoreFails
        PROVE  DaemonQueues(e)'
    BY <1>10 DEF RestoreFails
  <1>11. ASSUME NEW m \in Messages, GameTakes(m)
        PROVE  DaemonQueues(e)'
    BY <1>11 DEF GameTakes
  <1>12. ASSUME GameHandles
        PROVE  DaemonQueues(e)'
    BY <1>12 DEF GameHandles
  <1>13. ASSUME KillGame
        PROVE  DaemonQueues(e)'
    BY <1>13 DEF KillGame, GameGone
  <1>14. ASSUME LeaveUnsaved
        PROVE  DaemonQueues(e)'
    BY <1>14 DEF LeaveUnsaved, GameGone
  <1>15. ASSUME Save
        PROVE  DaemonQueues(e)'
    BY <1>15 DEF Save
  <1>16. ASSUME WriteDump
        PROVE  DaemonQueues(e)'
    BY <1>16 DEF WriteDump
  <1>17. ASSUME NEW d \in Daemons, StartDaemon(d)
        PROVE  DaemonQueues(e)'
    BY <1>17 DEF StartDaemon
  <1>18. ASSUME NEW d \in Daemons, ReceiveParameters(d)
        PROVE  DaemonQueues(e)'
    BY <1>18 DEF ReceiveParameters, GameGone
  <1>19. ASSUME NEW d \in Daemons, ReceiveNothing(d)
        PROVE  DaemonQueues(e)'
    BY <1>19 DEF ReceiveNothing
  <1>20. ASSUME NEW d \in Daemons, ConnectDaemon(d)
        PROVE  DaemonQueues(e)'
    BY <1>20 DEF ConnectDaemon
  <1>21. ASSUME NEW d \in Daemons, Loop(d)
        PROVE  DaemonQueues(e)'
    BY <1>21 DEF Loop
  <1>22. ASSUME NEW d \in Daemons, Drain(d)
        PROVE  DaemonQueues(e)'
    BY <1>22 DEF Drain
  <1>23. ASSUME NEW d \in Daemons, Sleep(d)
        PROVE  DaemonQueues(e)'
    BY <1>23 DEF Sleep
  <1>24. ASSUME NEW d \in Daemons, Expire(d)
        PROVE  DaemonQueues(e)'
    BY <1>24 DEF Expire
  <1>25. ASSUME NEW d \in Daemons, Leave(d)
        PROVE  DaemonQueues(e)'
    BY <1>25 DEF Leave
  <1>26. ASSUME NEW d \in Daemons, End(d)
        PROVE  DaemonQueues(e)'
    BY <1>26 DEF End
  <1>27. ASSUME NEW d \in Daemons, JoinSession(d)
        PROVE  DaemonQueues(e)'
    BY <1>27 DEF JoinSession, Alive
  <1>28. ASSUME NEW d \in Daemons, NEW m \in Messages, DaemonTakes(d, m)
        PROVE  DaemonQueues(e)'
    BY <1>28 DEF DaemonTakes
  <1>29. ASSUME NEW d \in Daemons, PublishPort(d)
        PROVE  DaemonQueues(e)'
    BY <1>29 DEF PublishPort, Thread
  <1>30. ASSUME NEW d \in Daemons, Accept(d)
        PROVE  DaemonQueues(e)'
    BY <1>30 DEF Accept, Thread
  <1>31. ASSUME NEW d \in Daemons, Stop(d)
        PROVE  DaemonQueues(e)'
    BY <1>31 DEF Stop, Thread
  <1>32. ASSUME NEW d \in Daemons, DisconnectDaemon(d)
        PROVE  DaemonQueues(e)'
    BY <1>32 DEF DisconnectDaemon, Thread
  <1>33. ASSUME NEW d \in Daemons, SendParameters(d)
        PROVE  DaemonQueues(e)'
    BY <1>33 DEF SendParameters, Thread
  <1>34. ASSUME NEW d \in Daemons, SendRpcs(d)
        PROVE  DaemonQueues(e)'
    BY <1>34 DEF SendRpcs, Thread
  <1>35. CASE UNCHANGED vars
    BY <1>35
  <1> QED
    BY <1>1, <1>2, <1>3, <1>4, <1>5, <1>6, <1>7, <1>8, <1>9, <1>10, <1>11,
       <1>12, <1>13, <1>14, <1>15, <1>16, <1>17, <1>18, <1>19, <1>20, <1>21,
       <1>22, <1>23, <1>24, <1>25, <1>26, <1>27, <1>28, <1>29, <1>30, <1>31,
       <1>32, <1>33, <1>34, <1>35
       DEF Next, GameStep, MainStep, NetworkStep, ThreadStep

\* A session that is not spoiled after a step was not before it.
LEMMA SpoiledGrows == [Next]_vars => spoiled \subseteq spoiled'
  <1> SUFFICES ASSUME [Next]_vars PROVE spoiled \subseteq spoiled'
    OBVIOUS
  <1> USE DEF vars, game, files, daemons, history
  <1>1. ASSUME NEW v \in Servers, StartGame(v)
        PROVE  spoiled \subseteq spoiled'
    BY <1>1 DEF StartGame
  <1>2. ASSUME SampInit
        PROVE  spoiled \subseteq spoiled'
    BY <1>2 DEF SampInit
  <1>3. ASSUME ReceiveStartupData
        PROVE  spoiled \subseteq spoiled'
    BY <1>3 DEF ReceiveStartupData
  <1>4. ASSUME ConnectFresh
        PROVE  spoiled \subseteq spoiled'
    BY <1>4 DEF ConnectFresh
  <1>5. ASSUME ConnectRestored
        PROVE  spoiled \subseteq spoiled'
    BY <1>5 DEF ConnectRestored
  <1>6. ASSUME AskRpcs
        PROVE  spoiled \subseteq spoiled'
    BY <1>6 DEF AskRpcs
  <1>7. ASSUME Replay
        PROVE  spoiled \subseteq spoiled'
    BY <1>7 DEF Replay
  <1>8. ASSUME ReplayEnds
        PROVE  spoiled \subseteq spoiled'
    BY <1>8 DEF ReplayEnds
  <1>9. ASSUME Resume
        PROVE  spoiled \subseteq spoiled'
    BY <1>9 DEF Resume
  <1>10. ASSUME RestoreFails
        PROVE  spoiled \subseteq spoiled'
    BY <1>10 DEF RestoreFails
  <1>11. ASSUME NEW m \in Messages, GameTakes(m)
        PROVE  spoiled \subseteq spoiled'
    BY <1>11 DEF GameTakes
  <1>12. ASSUME GameHandles
        PROVE  spoiled \subseteq spoiled'
    BY <1>12 DEF GameHandles
  <1>13. ASSUME KillGame
        PROVE  spoiled \subseteq spoiled'
    BY <1>13 DEF KillGame, GameGone
  <1>14. ASSUME LeaveUnsaved
        PROVE  spoiled \subseteq spoiled'
    BY <1>14 DEF LeaveUnsaved, GameGone
  <1>15. ASSUME Save
        PROVE  spoiled \subseteq spoiled'
    BY <1>15 DEF Save
  <1>16. ASSUME WriteDump
        PROVE  spoiled \subseteq spoiled'
    BY <1>16 DEF WriteDump
  <1>17. ASSUME NEW d \in Daemons, StartDaemon(d)
        PROVE  spoiled \subseteq spoiled'
    BY <1>17 DEF StartDaemon
  <1>18. ASSUME NEW d \in Daemons, ReceiveParameters(d)
        PROVE  spoiled \subseteq spoiled'
    BY <1>18 DEF ReceiveParameters, GameGone
  <1>19. ASSUME NEW d \in Daemons, ReceiveNothing(d)
        PROVE  spoiled \subseteq spoiled'
    BY <1>19 DEF ReceiveNothing
  <1>20. ASSUME NEW d \in Daemons, ConnectDaemon(d)
        PROVE  spoiled \subseteq spoiled'
    BY <1>20 DEF ConnectDaemon
  <1>21. ASSUME NEW d \in Daemons, Loop(d)
        PROVE  spoiled \subseteq spoiled'
    BY <1>21 DEF Loop
  <1>22. ASSUME NEW d \in Daemons, Drain(d)
        PROVE  spoiled \subseteq spoiled'
    BY <1>22 DEF Drain
  <1>23. ASSUME NEW d \in Daemons, Sleep(d)
        PROVE  spoiled \subseteq spoiled'
    BY <1>23 DEF Sleep
  <1>24. ASSUME NEW d \in Daemons, Expire(d)
        PROVE  spoiled \subseteq spoiled'
    BY <1>24 DEF Expire
  <1>25. ASSUME NEW d \in Daemons, Leave(d)
        PROVE  spoiled \subseteq spoiled'
    BY <1>25 DEF Leave
  <1>26. ASSUME NEW d \in Daemons, End(d)
        PROVE  spoiled \subseteq spoiled'
    BY <1>26 DEF End
  <1>27. ASSUME NEW d \in Daemons, JoinSession(d)
        PROVE  spoiled \subseteq spoiled'
    BY <1>27 DEF JoinSession, Alive
  <1>28. ASSUME NEW d \in Daemons, NEW m \in Messages, DaemonTakes(d, m)
        PROVE  spoiled \subseteq spoiled'
    BY <1>28 DEF DaemonTakes
  <1>29. ASSUME NEW d \in Daemons, PublishPort(d)
        PROVE  spoiled \subseteq spoiled'
    BY <1>29 DEF PublishPort, Thread
  <1>30. ASSUME NEW d \in Daemons, Accept(d)
        PROVE  spoiled \subseteq spoiled'
    BY <1>30 DEF Accept, Thread
  <1>31. ASSUME NEW d \in Daemons, Stop(d)
        PROVE  spoiled \subseteq spoiled'
    BY <1>31 DEF Stop, Thread
  <1>32. ASSUME NEW d \in Daemons, DisconnectDaemon(d)
        PROVE  spoiled \subseteq spoiled'
    BY <1>32 DEF DisconnectDaemon, Thread
  <1>33. ASSUME NEW d \in Daemons, SendParameters(d)
        PROVE  spoiled \subseteq spoiled'
    BY <1>33 DEF SendParameters, Thread
  <1>34. ASSUME NEW d \in Daemons, SendRpcs(d)
        PROVE  spoiled \subseteq spoiled'
    BY <1>34 DEF SendRpcs, Thread
  <1>35. CASE UNCHANGED vars
    BY <1>35
  <1> QED
    BY <1>1, <1>2, <1>3, <1>4, <1>5, <1>6, <1>7, <1>8, <1>9, <1>10, <1>11,
       <1>12, <1>13, <1>14, <1>15, <1>16, <1>17, <1>18, <1>19, <1>20, <1>21,
       <1>22, <1>23, <1>24, <1>25, <1>26, <1>27, <1>28, <1>29, <1>30, <1>31,
       <1>32, <1>33, <1>34, <1>35
       DEF Next, GameStep, MainStep, NetworkStep, ThreadStep

\* A message that is taken for a session that is not spoiled is the next one.
LEMMA GameTakesNext ==
    ASSUME IInv, OrderInv, NEW m \in Messages, GameTakes(m), gameSession \notin spoiled'
    PROVE  /\ gamePc = "playing" /\ gameSession \in Sessions \ spoiled
           /\ m = highest[gameSession] + 1 /\ gameBase' = m
           /\ highest'[gameSession] = m
  <1> USE DEF IInv, TypeOK, GameTakes, Arrives
  <1>1. gamePc = "playing" /\ gameSession \in Sessions \ spoiled
    OBVIOUS
  <1>2. gameBase = highest[gameSession]
    BY <1>1 DEF OrderInv, SessionOrder, GameOrder
  <1>3. m \in Int /\ highest[gameSession] \in Int
    BY <1>1, ConndAssumption DEF Messages
  <1>4. m = highest[gameSession] + 1 /\ m > highest[gameSession]
    BY <1>2, <1>3
  <1> QED
    BY <1>1, <1>2, <1>4 DEF Higher

LEMMA DaemonTakesNext ==
    ASSUME IInv, OrderInv, NEW d \in Daemons, NEW m \in Messages, DaemonTakes(d, m)
    PROVE  /\ params[d].session \in Sessions \ spoiled
           /\ m = highest[params[d].session] + 1 /\ base' = [ base EXCEPT ![d] = m ]
           /\ highest'[params[d].session] = m
  <1> USE DEF IInv, TypeOK, DaemonTakes, Arrives
  <1>1. params[d].session \in Sessions \ spoiled /\ net[d] = "joined"
    OBVIOUS
  <1>2. base[d] = highest[params[d].session]
    BY <1>1 DEF OrderInv, SessionOrder, DaemonOrder, Claims
  <1>3. m \in Int /\ highest[params[d].session] \in Int
    BY <1>1, ConndAssumption DEF Messages
  <1>4. m = highest[params[d].session] + 1 /\ m > highest[params[d].session]
    BY <1>2, <1>3
  <1> QED
    BY <1>1, <1>2, <1>4 DEF Higher


LEMMA HandledStep ==
    ASSUME IInv, OrderInv, [Next]_vars, NEW s \in Sessions \ spoiled'
    PROVE  HandledInv(s)'
  <1>1. s \in Sessions \ spoiled /\ QueuesInv
    BY SpoiledGrows DEF OrderInv
  <1>2. HandledInv(s) /\ GameOrder(s) /\ \A d \in Daemons : DaemonOrder(s, d)
    BY <1>1 DEF OrderInv, SessionOrder
  <1>3. \A m \in Messages : GameTakes(m) /\ gameSession = s =>
          /\ gamePc = "playing" /\ gameBase' = m
          /\ m = highest[s] + 1 /\ highest'[s] = m
    BY <1>1, GameTakesNext
  <1>4. \A d \in Daemons, m \in Messages : DaemonTakes(d, m) /\ params[d].session = s =>
          /\ base' = [ base EXCEPT ![d] = m ]
          /\ m = highest[s] + 1 /\ highest'[s] = m
    BY <1>1, DaemonTakesNext
  <1>5. highest[s] + 1 \in Messages => Rising(highest[s] + 1, applied[s])
    <2>1. Elements(applied[s]) \subseteq Messages /\ highest[s] \in Int
      BY <1>1, QueueTypes, ConndAssumption DEF IInv, TypeOK
    <2>2. \A x \in Messages : x \in Int
      BY ConndAssumption DEF Messages
    <2>3. Rising(highest[s], applied[s])
      BY <1>2 DEF HandledInv
    <2> QED
      BY <2>1, <2>2, <2>3 DEF Rising
  <1> USE <1>1, <1>2, ParamTypes, NumberTypes
      DEF IInv, TypeOK, GameInv, DaemonInv, DaemonHolds, QueuesInv, GameQueues, DaemonQueues,
          HandledInv, InLine, Alive, Connected, vars, game, files, daemons, history
  <1>6. ASSUME NEW v \in Servers, StartGame(v)
        PROVE  HandledInv(s)'
    BY <1>6 DEF StartGame
  <1>7. ASSUME SampInit
        PROVE  HandledInv(s)'
    BY <1>7 DEF SampInit
  <1>8. ASSUME ReceiveStartupData
        PROVE  HandledInv(s)'
    BY <1>8 DEF ReceiveStartupData
  <1>9. ASSUME ConnectFresh
        PROVE  HandledInv(s)'
    BY <1>9 DEF ConnectFresh
  <1>10. ASSUME ConnectRestored
        PROVE  HandledInv(s)'
    BY <1>10 DEF ConnectRestored
  <1>11. ASSUME AskRpcs
        PROVE  HandledInv(s)'
    BY <1>11 DEF AskRpcs
  <1>12. ASSUME Replay
        PROVE  HandledInv(s)'
    <2>1. gameSession \in Sessions /\ gameReplay # << >>
      BY <1>12 DEF Replay
    <2>2. CASE s = gameSession
      <3>1. Line(highest[s], applied[s], gameReplay, gameInbox, dropped[s])
        BY <1>12, <2>2 DEF GameOrder, Replay
      <3>2. Rising(highest[s], Append(applied[s], Head(gameReplay)))
        BY <1>12, <2>1, <3>1, LineMoves DEF Replay
      <3>3. s <= opened
        BY <2>2 DEF OpenedInv
      <3>4. applied'[s] = Append(applied[s], Head(gameReplay)) /\ highest' = highest /\ opened' = opened
        BY <1>12, <2>2 DEF Replay
      <3>5. ~(s > opened)
        BY <3>3
      <3> QED
        BY <3>2, <3>4, <3>5
    <2>3. CASE s # gameSession
      BY <1>12, <2>1, <2>3 DEF Replay
    <2> QED
      BY <2>2, <2>3
  <1>13. ASSUME ReplayEnds
        PROVE  HandledInv(s)'
    BY <1>13 DEF ReplayEnds
  <1>14. ASSUME Resume
        PROVE  HandledInv(s)'
    BY <1>14 DEF Resume
  <1>15. ASSUME RestoreFails
        PROVE  HandledInv(s)'
    BY <1>15 DEF RestoreFails
  <1>16. ASSUME NEW m \in Messages, GameTakes(m)
        PROVE  HandledInv(s)'
    <2>1. /\ applied' = applied /\ opened' = opened /\ dropped' = dropped
          /\ gameSession \in Sessions /\ gameSession <= opened
      BY <1>16 DEF GameTakes, Arrives, OpenedInv
    <2>2. CASE s = gameSession
      <3>1. m = highest[s] + 1 /\ highest'[s] = m
        BY <1>16, <2>2, <1>3
      <3>2. ~(s > opened)
        BY <2>1, <2>2
      <3>3. Rising(m, applied[s])
        BY <3>1, <1>5
      <3> QED
        BY <2>1, <3>1, <3>2, <3>3
    <2>3. CASE s # gameSession
      <3>1. highest'[s] = highest[s]
        BY <1>16, <2>1, <2>3 DEF GameTakes, Higher
      <3> QED
        BY <2>1, <3>1
    <2> QED
      BY <2>2, <2>3
  <1>17. ASSUME GameHandles
        PROVE  HandledInv(s)'
    <2>1. gameSession \in Sessions /\ gameInbox # << >>
      BY <1>17 DEF GameHandles
    <2>2. CASE s = gameSession
      <3>1. Line(highest[s], applied[s], gameReplay, gameInbox, dropped[s]) /\ gameReplay = << >>
        BY <1>17, <2>2 DEF GameOrder, GameHandles
      <3>2. Rising(highest[s], Append(applied[s], Head(gameInbox)))
        BY <1>17, <2>1, <3>1, LineMoves DEF GameHandles
      <3>3. s <= opened
        BY <2>2 DEF OpenedInv
      <3>4. applied'[s] = Append(applied[s], Head(gameInbox)) /\ highest' = highest /\ opened' = opened
        BY <1>17, <2>2 DEF GameHandles
      <3>5. ~(s > opened)
        BY <3>3
      <3> QED
        BY <3>2, <3>4, <3>5
    <2>3. CASE s # gameSession
      BY <1>17, <2>1, <2>3 DEF GameHandles
    <2> QED
      BY <2>2, <2>3
  <1>18. ASSUME KillGame
        PROVE  HandledInv(s)'
    BY <1>18 DEF KillGame, GameGone
  <1>19. ASSUME LeaveUnsaved
        PROVE  HandledInv(s)'
    BY <1>19 DEF LeaveUnsaved, GameGone
  <1>20. ASSUME Save
        PROVE  HandledInv(s)'
    <2>1. /\ gameSession \in Sessions /\ gameSession <= opened
          /\ UNCHANGED << opened, applied, highest >>
          /\ s # gameSession => dropped'[s] = dropped[s]
      BY <1>20 DEF Save, OpenedInv
    <2>2. CASE s = gameSession
      <3>1. ~(s > opened)
        BY <2>1, <2>2
      <3> QED
        BY <2>1, <3>1
    <2>3. CASE s # gameSession
      BY <2>1, <2>3
    <2> QED
      BY <2>2, <2>3
  <1>21. ASSUME WriteDump
        PROVE  HandledInv(s)'
    BY <1>21 DEF WriteDump
  <1>22. ASSUME NEW d \in Daemons, StartDaemon(d)
        PROVE  HandledInv(s)'
    BY <1>22 DEF StartDaemon
  <1>23. ASSUME NEW d \in Daemons, ReceiveParameters(d)
        PROVE  HandledInv(s)'
    BY <1>23 DEF ReceiveParameters, GameGone
  <1>24. ASSUME NEW d \in Daemons, ReceiveNothing(d)
        PROVE  HandledInv(s)'
    BY <1>24 DEF ReceiveNothing
  <1>25. ASSUME NEW d \in Daemons, ConnectDaemon(d)
        PROVE  HandledInv(s)'
    BY <1>25 DEF ConnectDaemon
  <1>26. ASSUME NEW d \in Daemons, Loop(d)
        PROVE  HandledInv(s)'
    BY <1>26 DEF Loop
  <1>27. ASSUME NEW d \in Daemons, Drain(d)
        PROVE  HandledInv(s)'
    BY <1>27 DEF Drain
  <1>28. ASSUME NEW d \in Daemons, Sleep(d)
        PROVE  HandledInv(s)'
    BY <1>28 DEF Sleep
  <1>29. ASSUME NEW d \in Daemons, Expire(d)
        PROVE  HandledInv(s)'
    BY <1>29 DEF Expire
  <1>30. ASSUME NEW d \in Daemons, Leave(d)
        PROVE  HandledInv(s)'
    BY <1>30 DEF Leave
  <1>31. ASSUME NEW d \in Daemons, End(d)
        PROVE  HandledInv(s)'
    BY <1>31 DEF End
  <1>32. ASSUME NEW d \in Daemons, JoinSession(d)
        PROVE  HandledInv(s)'
    BY <1>32 DEF JoinSession, Alive
  <1>33. ASSUME NEW d \in Daemons, NEW m \in Messages, DaemonTakes(d, m)
        PROVE  HandledInv(s)'
    <2>1. /\ applied' = applied /\ opened' = opened /\ dropped' = dropped
          /\ params[d].session \in Sessions /\ params[d].session <= opened
      BY <1>33 DEF DaemonTakes, Arrives, OpenedInv
    <2>2. CASE s = params[d].session
      <3>1. m = highest[s] + 1 /\ highest'[s] = m
        BY <1>33, <2>2, <1>4
      <3>2. ~(s > opened)
        BY <2>1, <2>2
      <3>3. Rising(m, applied[s])
        BY <3>1, <1>5
      <3> QED
        BY <2>1, <3>1, <3>2, <3>3
    <2>3. CASE s # params[d].session
      <3>1. highest'[s] = highest[s]
        BY <1>33, <2>1, <2>3 DEF DaemonTakes, Higher
      <3> QED
        BY <2>1, <3>1
    <2> QED
      BY <2>2, <2>3
  <1>34. ASSUME NEW d \in Daemons, PublishPort(d)
        PROVE  HandledInv(s)'
    BY <1>34 DEF PublishPort, Thread
  <1>35. ASSUME NEW d \in Daemons, Accept(d)
        PROVE  HandledInv(s)'
    BY <1>35 DEF Accept, Thread
  <1>36. ASSUME NEW d \in Daemons, Stop(d)
        PROVE  HandledInv(s)'
    BY <1>36 DEF Stop, Thread
  <1>37. ASSUME NEW d \in Daemons, DisconnectDaemon(d)
        PROVE  HandledInv(s)'
    <2>1. UNCHANGED << opened, applied, highest >> /\ params[d].session <= opened
      BY <1>37 DEF DisconnectDaemon, Thread, OpenedInv
    <2>2. s # params[d].session => dropped'[s] = dropped[s]
      <3>1. \/ dropped' = dropped
            \/ dropped' = [ dropped EXCEPT ![params[d].session] = @ \cup Elements(inbox[d]) ]
        BY <1>37 DEF DisconnectDaemon
      <3> QED
        BY <3>1
    <2>3. CASE s = params[d].session
      <3>1. ~(s > opened)
        BY <2>1, <2>3
      <3> QED
        BY <2>1, <3>1
    <2>4. CASE s # params[d].session
      BY <2>1, <2>2, <2>4
    <2> QED
      BY <2>3, <2>4
  <1>38. ASSUME NEW d \in Daemons, SendParameters(d)
        PROVE  HandledInv(s)'
    BY <1>38 DEF SendParameters, Thread
  <1>39. ASSUME NEW d \in Daemons, SendRpcs(d)
        PROVE  HandledInv(s)'
    BY <1>39 DEF SendRpcs, Thread
  <1>40. CASE UNCHANGED vars
    BY <1>40
  <1> QED
    BY <1>6, <1>7, <1>8, <1>9, <1>10, <1>11, <1>12, <1>13, <1>14, <1>15, <1>16,
       <1>17, <1>18, <1>19, <1>20, <1>21, <1>22, <1>23, <1>24, <1>25, <1>26,
       <1>27, <1>28, <1>29, <1>30, <1>31, <1>32, <1>33, <1>34, <1>35, <1>36,
       <1>37, <1>38, <1>39, <1>40
       DEF Next, GameStep, MainStep, NetworkStep, ThreadStep

LEMMA GameOrderStep ==
    ASSUME IInv, OrderInv, [Next]_vars, NEW s \in Sessions \ spoiled'
    PROVE  GameOrder(s)'
  <1>1. s \in Sessions \ spoiled /\ QueuesInv
    BY SpoiledGrows DEF OrderInv
  <1>2. HandledInv(s) /\ GameOrder(s) /\ \A d \in Daemons : DaemonOrder(s, d)
    BY <1>1 DEF OrderInv, SessionOrder
  <1>3. \A m \in Messages : GameTakes(m) /\ gameSession = s =>
          /\ gamePc = "playing" /\ gameBase' = m
          /\ m = highest[s] + 1 /\ highest'[s] = m
    BY <1>1, GameTakesNext
  <1>4. \A d \in Daemons, m \in Messages : DaemonTakes(d, m) /\ params[d].session = s =>
          /\ base' = [ base EXCEPT ![d] = m ]
          /\ m = highest[s] + 1 /\ highest'[s] = m
    BY <1>1, DaemonTakesNext
  <1>5. highest[s] = 0 /\ applied[s] = << >> /\ dropped[s] = {} => InLine(s, << >>, << >>)
    BY NothingQueued DEF InLine, Line, Rising
  <1>6. \A d \in Daemons : Claims(d) /\ params[d].session = s => ~GameHolds(s)
    BY <1>1, NumberTypes DEF IInv, ClaimInv
  <1>7. \A q \in Seq(Messages), r \in Seq(Messages) :
          Line(highest[s], applied[s], q, r, dropped[s]) =>
            /\ Line(highest[s], applied[s], q, << >>, dropped[s] \cup Elements(r))
            /\ highest[s] + 1 \in Messages =>
                 Line(highest[s] + 1, applied[s], q, Append(r, highest[s] + 1), dropped[s])
            /\ q # << >> => Line(highest[s], Append(applied[s], Head(q)), Tail(q), r, dropped[s])
            /\ q = << >> /\ r # << >> =>
                 Line(highest[s], Append(applied[s], Head(r)), q, Tail(r), dropped[s])
    BY <1>1, LineMoves DEF IInv, TypeOK
  <1> USE <1>1, <1>2, ParamTypes, NumberTypes
      DEF IInv, TypeOK, GameInv, DaemonInv, DaemonHolds, QueuesInv, GameQueues, DaemonQueues,
          HandledInv, InLine, Alive, Connected, vars, game, files, daemons, history, GameOrder
  <1>8. ASSUME NEW v \in Servers, StartGame(v)
        PROVE  GameOrder(s)'
    BY <1>8 DEF StartGame
  <1>9. ASSUME SampInit
        PROVE  GameOrder(s)'
    BY <1>9 DEF SampInit
  <1>10. ASSUME ReceiveStartupData
        PROVE  GameOrder(s)'
    <2>1. /\ gamePeer \in Daemons /\ gameSession = 0 /\ gamePc' = "restoring"
          /\ UNCHANGED << gameSession, gamePeer, rpcQueue, applied, highest, dropped >>
      BY <1>10 DEF ReceiveStartupData
    <2>2. CASE gamePc = "accepted" /\ threadPc[gamePeer] = "sent" /\ gameParams' = params[gamePeer]
      <3>1. params[gamePeer].session = s =>
              InLine(s, rpcQueue[gamePeer], << >>) /\ params[gamePeer].base = highest[s]
        BY <2>1, <2>2 DEF DaemonOrder
      <3> QED
        BY <2>1, <2>2, <3>1
    <2>3. CASE gameParams' = gameParams
      <3>1. gameParams = NoParams
        BY <1>10 DEF ReceiveStartupData
      <3> QED
        BY <2>1, <2>3, <3>1
    <2> QED
      BY <1>10, <2>2, <2>3 DEF ReceiveStartupData
  <1>11. ASSUME ConnectFresh
        PROVE  GameOrder(s)'
    <2>1. /\ gamePc' = "playing" /\ gameSession' = opened + 1 /\ gameBase' = 0
          /\ gameInbox' = << >> /\ gameReplay = << >>
          /\ UNCHANGED << gameReplay, gameParams, applied, highest, dropped >>
      BY <1>11 DEF ConnectFresh
    <2>2. ASSUME gameSession' = s
          PROVE  highest[s] = 0 /\ InLine(s, << >>, << >>)
      <3>1. s > opened
        BY <2>1, <2>2
      <3>2. highest[s] = 0 /\ applied[s] = << >> /\ dropped[s] = {}
        BY <3>1
      <3> QED
        BY <3>2, <1>5
    <2> QED
      BY <2>1, <2>2
  <1>12. ASSUME ConnectRestored
        PROVE  GameOrder(s)'
    BY <1>12 DEF ConnectRestored
  <1>13. ASSUME AskRpcs
        PROVE  GameOrder(s)'
    BY <1>13 DEF AskRpcs
  <1>14. ASSUME Replay
        PROVE  GameOrder(s)'
    <2>1. /\ gamePc = "replaying" /\ gameReplay # << >> /\ gameSession \in Sessions
          /\ applied' = [ applied EXCEPT ![gameSession] = Append(@, Head(gameReplay)) ]
          /\ gameReplay' = Tail(gameReplay)
          /\ UNCHANGED << gamePc, gameSession, gameInbox, gameParams, highest, dropped >>
      BY <1>14 DEF Replay
    <2>2. CASE gameSession = s
      <3>1. Line(highest[s], applied[s], gameReplay, gameInbox, dropped[s])
        BY <2>1, <2>2
      <3>2. Line(highest[s], Append(applied[s], Head(gameReplay)), Tail(gameReplay), gameInbox, dropped[s])
        BY <2>1, <3>1, <1>7
      <3>3. applied'[s] = Append(applied[s], Head(gameReplay))
        BY <2>1, <2>2
      <3> QED
        BY <2>1, <2>2, <3>2, <3>3
    <2>3. CASE gameSession # s
      BY <2>1, <2>3
    <2> QED
      BY <2>2, <2>3
  <1>15. ASSUME ReplayEnds
        PROVE  GameOrder(s)'
    BY <1>15 DEF ReplayEnds
  <1>16. ASSUME Resume
        PROVE  GameOrder(s)'
    BY <1>16 DEF Resume
  <1>17. ASSUME RestoreFails
        PROVE  GameOrder(s)'
    BY <1>17 DEF RestoreFails
  <1>18. ASSUME NEW m \in Messages, GameTakes(m)
        PROVE  GameOrder(s)'
    <2>1. CASE gameSession = s
      <3>1. /\ gamePc = "playing" /\ gameBase' = m
            /\ m = highest[s] + 1 /\ highest'[s] = m
        BY <1>18, <2>1, <1>3
      <3>2. gameInbox' = Append(gameInbox, m)
            /\ UNCHANGED << gamePc, gameSession, gameReplay, gameParams, applied, dropped >>
        BY <1>18 DEF GameTakes
      <3>3. Line(highest[s], applied[s], gameReplay, gameInbox, dropped[s])
        BY <2>1, <3>1
      <3>4. Line(highest[s] + 1, applied[s], gameReplay, Append(gameInbox, highest[s] + 1), dropped[s])
        <4>1. gameReplay \in Seq(Messages) /\ gameInbox \in Seq(Messages) /\ highest[s] + 1 \in Messages
          BY <3>1
        <4> QED
          BY ONLY <4>1, <3>3, <1>7
      <3>5. Line(m, applied[s], gameReplay, Append(gameInbox, m), dropped[s])
        BY <3>1, <3>4
      <3> QED
        BY <2>1, <3>1, <3>2, <3>5
    <2>2. CASE gameSession # s
      BY <1>18, <2>2 DEF GameTakes
    <2> QED
      BY <2>1, <2>2
  <1>19. ASSUME GameHandles
        PROVE  GameOrder(s)'
    <2>1. /\ gamePc = "playing" /\ gameInbox # << >> /\ gameSession \in Sessions
          /\ applied' = [ applied EXCEPT ![gameSession] = Append(@, Head(gameInbox)) ]
          /\ gameInbox' = Tail(gameInbox)
          /\ UNCHANGED << gamePc, gameSession, gameReplay, gameBase, gameParams, highest, dropped >>
      BY <1>19 DEF GameHandles
    <2>2. CASE gameSession = s
      <3>1. Line(highest[s], applied[s], gameReplay, gameInbox, dropped[s]) /\ gameReplay = << >>
        BY <2>1, <2>2
      <3>2. Line(highest[s], Append(applied[s], Head(gameInbox)), gameReplay, Tail(gameInbox), dropped[s])
        BY <2>1, <3>1, <1>7
      <3>3. applied'[s] = Append(applied[s], Head(gameInbox))
        BY <2>1, <2>2
      <3> QED
        BY <2>1, <2>2, <3>2, <3>3
    <2>3. CASE gameSession # s
      BY <2>1, <2>3
    <2> QED
      BY <2>2, <2>3
  <1>20. ASSUME KillGame
        PROVE  GameOrder(s)'
    BY <1>20 DEF KillGame, GameGone
  <1>21. ASSUME LeaveUnsaved
        PROVE  GameOrder(s)'
    BY <1>21 DEF LeaveUnsaved, GameGone
  <1>22. ASSUME Save
        PROVE  GameOrder(s)'
    <2>1. /\ gameSession \in Sessions /\ gamePc' = "saving" /\ gameSession' = 0
          /\ gameParams' = [ session |-> gameSession, base |-> gameBase ]
          /\ dropped' = [ dropped EXCEPT ![gameSession] =
                            @ \cup Elements(gameInbox) \cup Elements(gameReplay) ]
          /\ UNCHANGED << applied, highest >>
      BY <1>22 DEF Save
    <2>2. CASE gameSession = s
      <3>1. gamePc = "playing"
        BY <1>22, <2>2 DEF Save
      <3>2. gameReplay = << >> /\ gameBase = highest[s]
        BY <2>2, <3>1
      <3>3. Line(highest[s], applied[s], gameReplay, gameInbox, dropped[s])
        BY <2>2, <3>1
      <3>4. Line(highest[s], applied[s], gameReplay, << >>, dropped[s] \cup Elements(gameInbox))
        BY <3>3, <1>7
      <3>5. dropped'[s] = dropped[s] \cup Elements(gameInbox)
        <4>1. dropped'[s] = dropped[s] \cup Elements(gameInbox) \cup Elements(gameReplay)
          BY <2>1, <2>2
        <4> QED
          BY <3>2, <4>1, NothingQueued
      <3>6. InLine(s, << >>, << >>)'
        BY <2>1, <3>2, <3>4, <3>5
      <3>7. gameParams'.base = highest'[s]
        BY <2>1, <3>2
      <3> QED
        BY <2>1, <3>6, <3>7
    <2>3. CASE gameSession # s
      <3>1. gameParams'.session # s
        BY <2>1, <2>3
      <3> QED
        BY <2>1, <3>1
    <2> QED
      BY <2>2, <2>3
  <1>23. ASSUME WriteDump
        PROVE  GameOrder(s)'
    BY <1>23 DEF WriteDump
  <1>24. ASSUME NEW d \in Daemons, StartDaemon(d)
        PROVE  GameOrder(s)'
    BY <1>24 DEF StartDaemon
  <1>25. ASSUME NEW d \in Daemons, ReceiveParameters(d)
        PROVE  GameOrder(s)'
    BY <1>25 DEF ReceiveParameters, GameGone
  <1>26. ASSUME NEW d \in Daemons, ReceiveNothing(d)
        PROVE  GameOrder(s)'
    BY <1>26 DEF ReceiveNothing
  <1>27. ASSUME NEW d \in Daemons, ConnectDaemon(d)
        PROVE  GameOrder(s)'
    BY <1>27 DEF ConnectDaemon
  <1>28. ASSUME NEW d \in Daemons, Loop(d)
        PROVE  GameOrder(s)'
    BY <1>28 DEF Loop
  <1>29. ASSUME NEW d \in Daemons, Drain(d)
        PROVE  GameOrder(s)'
    <2>1. /\ net[d] # "closed" /\ rpcQueue' = [ rpcQueue EXCEPT ![d] = Append(@, Head(inbox[d])) ]
          /\ UNCHANGED << game, applied, highest, dropped >>
      BY <1>29 DEF Drain
    <2>2. gamePc \in { "restoring", "handshake", "asking" } /\ gameParams.session = s =>
            gamePeer # d
      BY <2>1
    <2> QED
      BY <2>1, <2>2
  <1>30. ASSUME NEW d \in Daemons, Sleep(d)
        PROVE  GameOrder(s)'
    BY <1>30 DEF Sleep
  <1>31. ASSUME NEW d \in Daemons, Expire(d)
        PROVE  GameOrder(s)'
    BY <1>31 DEF Expire
  <1>32. ASSUME NEW d \in Daemons, Leave(d)
        PROVE  GameOrder(s)'
    BY <1>32 DEF Leave
  <1>33. ASSUME NEW d \in Daemons, End(d)
        PROVE  GameOrder(s)'
    BY <1>33 DEF End
  <1>34. ASSUME NEW d \in Daemons, JoinSession(d)
        PROVE  GameOrder(s)'
    BY <1>34 DEF JoinSession, Alive
  <1>35. ASSUME NEW d \in Daemons, NEW m \in Messages, DaemonTakes(d, m)
        PROVE  GameOrder(s)'
    <2>1. /\ net[d] = "joined" /\ params[d].session \in Sessions
          /\ UNCHANGED << game, rpcQueue, applied, dropped >>
      BY <1>35 DEF DaemonTakes, Arrives
    <2>2. CASE params[d].session = s
      <3>1. ~GameHolds(s)
        BY <2>1, <2>2, <1>6 DEF Claims
      <3> QED
        BY <2>1, <3>1 DEF GameHolds
    <2>3. CASE params[d].session # s
      <3>1. highest'[s] = highest[s]
        BY <1>35, <2>1, <2>3 DEF DaemonTakes, Higher
      <3> QED
        BY <2>1, <3>1
    <2> QED
      BY <2>2, <2>3
  <1>36. ASSUME NEW d \in Daemons, PublishPort(d)
        PROVE  GameOrder(s)'
    BY <1>36 DEF PublishPort, Thread
  <1>37. ASSUME NEW d \in Daemons, Accept(d)
        PROVE  GameOrder(s)'
    BY <1>37 DEF Accept, Thread
  <1>38. ASSUME NEW d \in Daemons, Stop(d)
        PROVE  GameOrder(s)'
    BY <1>38 DEF Stop, Thread
  <1>39. ASSUME NEW d \in Daemons, DisconnectDaemon(d)
        PROVE  GameOrder(s)'
    <2>1. /\ threadPc[d] = "stopping" /\ Alive(d)
          /\ UNCHANGED << game, rpcQueue, applied, highest >>
      BY <1>39 DEF DisconnectDaemon, Thread
    <2>2. CASE params[d].session = s
      <3>1. params[d] # NoParams
        BY <2>2
      <3>2. net[d] # "closed"
        BY <2>1, <3>1
      <3>3. ~GameHolds(s)
        BY <2>2, <3>2, <1>6 DEF Claims
      <3> QED
        BY <2>1, <3>3 DEF GameHolds
    <2>3. CASE params[d].session # s
      <3>1. dropped'[s] = dropped[s]
        <4>1. \/ dropped' = dropped
              \/ dropped' = [ dropped EXCEPT ![params[d].session] = @ \cup Elements(inbox[d]) ]
          BY <1>39 DEF DisconnectDaemon
        <4> QED
          BY SMTT(30), <2>3, <4>1
      <3> QED
        BY <2>1, <3>1
    <2> QED
      BY <2>2, <2>3
  <1>40. ASSUME NEW d \in Daemons, SendParameters(d)
        PROVE  GameOrder(s)'
    BY <1>40 DEF SendParameters, Thread
  <1>41. ASSUME NEW d \in Daemons, SendRpcs(d)
        PROVE  GameOrder(s)'
    BY <1>41 DEF SendRpcs, Thread
  <1>42. CASE UNCHANGED vars
    BY <1>42
  <1> QED
    BY <1>8, <1>9, <1>10, <1>11, <1>12, <1>13, <1>14, <1>15, <1>16, <1>17, <1>18,
       <1>19, <1>20, <1>21, <1>22, <1>23, <1>24, <1>25, <1>26, <1>27, <1>28,
       <1>29, <1>30, <1>31, <1>32, <1>33, <1>34, <1>35, <1>36, <1>37, <1>38,
       <1>39, <1>40, <1>41, <1>42
       DEF Next, GameStep, MainStep, NetworkStep, ThreadStep

LEMMA DaemonOrderStep ==
    ASSUME IInv, OrderInv, [Next]_vars, NEW s \in Sessions \ spoiled', NEW e \in Daemons
    PROVE  DaemonOrder(s, e)'
  <1>1. s \in Sessions \ spoiled /\ QueuesInv
    BY SpoiledGrows DEF OrderInv
  <1>2. HandledInv(s) /\ GameOrder(s) /\ DaemonOrder(s, e)
    BY <1>1 DEF OrderInv, SessionOrder
  <1>3. \A m \in Messages : GameTakes(m) /\ gameSession = s =>
          /\ gamePc = "playing" /\ gameBase' = m
          /\ m = highest[s] + 1 /\ highest'[s] = m
    BY <1>1, GameTakesNext
  <1>4. \A d \in Daemons, m \in Messages : DaemonTakes(d, m) /\ params[d].session = s =>
          /\ base' = [ base EXCEPT ![d] = m ]
          /\ m = highest[s] + 1 /\ highest'[s] = m
    BY <1>1, DaemonTakesNext
  <1>5. Claims(e) /\ params[e].session = s =>
          /\ ~GameHolds(s)
          /\ \A d \in Daemons \ { e } : Claims(d) => params[d].session # s
          /\ gamePc = "accepted" /\ e # gamePeer => params[gamePeer].session # s
    BY <1>1, NumberTypes DEF IInv, ClaimInv
  <1>6. Line(highest[s], applied[s], rpcQueue[e], inbox[e], dropped[s]) =>
          /\ Line(highest[s], applied[s], rpcQueue[e], << >>, dropped[s] \cup Elements(inbox[e]))
          /\ highest[s] + 1 \in Messages =>
               Line(highest[s] + 1, applied[s], rpcQueue[e], Append(inbox[e], highest[s] + 1),
                    dropped[s])
          /\ inbox[e] # << >> =>
               Line(highest[s], applied[s], Append(rpcQueue[e], Head(inbox[e])), Tail(inbox[e]),
                    dropped[s])
    BY <1>1, LineMoves DEF IInv, TypeOK
  <1>7. \A d \in Daemons : Claims(d) /\ params[d].session = s =>
          (gamePc = "accepted" /\ d # gamePeer => params[gamePeer].session # s)
    BY <1>1, NumberTypes DEF IInv, ClaimInv
  <1> USE <1>1, <1>2, ParamTypes, NumberTypes
      DEF IInv, TypeOK, GameInv, DaemonInv, DaemonHolds, QueuesInv, GameQueues, DaemonQueues,
          HandledInv, InLine, Alive, Connected, vars, game, files, daemons, history, DaemonOrder, Claims
  <1>8. ASSUME NEW v \in Servers, StartGame(v)
        PROVE  DaemonOrder(s, e)'
    BY <1>8 DEF StartGame
  <1>9. ASSUME SampInit
        PROVE  DaemonOrder(s, e)'
    BY <1>9 DEF SampInit
  <1>10. ASSUME ReceiveStartupData
        PROVE  DaemonOrder(s, e)'
    BY <1>10 DEF ReceiveStartupData
  <1>11. ASSUME ConnectFresh
        PROVE  DaemonOrder(s, e)'
    BY <1>11 DEF ConnectFresh
  <1>12. ASSUME ConnectRestored
        PROVE  DaemonOrder(s, e)'
    BY <1>12 DEF ConnectRestored
  <1>13. ASSUME AskRpcs
        PROVE  DaemonOrder(s, e)'
    BY <1>13 DEF AskRpcs
  <1>14. ASSUME Replay
        PROVE  DaemonOrder(s, e)'
    <2>1. /\ gamePc = "replaying" /\ gameSession \in Sessions
          /\ applied' = [ applied EXCEPT ![gameSession] = Append(@, Head(gameReplay)) ]
          /\ UNCHANGED << gamePc, gamePeer, highest, dropped, daemons >>
      BY <1>14 DEF Replay
    <2>2. CASE gameSession = s
      <3>1. ~(Claims(e) /\ params[e].session = s) /\ gamePc' # "accepted"
        BY <2>1, <2>2, <1>5 DEF GameHolds
      <3> QED
        BY <2>1, <3>1
    <2>3. CASE gameSession # s
      <3>1. highest'[s] = highest[s] /\ applied'[s] = applied[s]
        BY <2>1, <2>3
      <3> QED
        BY <2>1, <3>1
    <2> QED
      BY <2>2, <2>3
  <1>15. ASSUME ReplayEnds
        PROVE  DaemonOrder(s, e)'
    BY <1>15 DEF ReplayEnds
  <1>16. ASSUME Resume
        PROVE  DaemonOrder(s, e)'
    BY <1>16 DEF Resume
  <1>17. ASSUME RestoreFails
        PROVE  DaemonOrder(s, e)'
    BY <1>17 DEF RestoreFails
  <1>18. ASSUME NEW m \in Messages, GameTakes(m)
        PROVE  DaemonOrder(s, e)'
    <2>1. /\ gamePc \in { "playing", "resuming" } /\ gameSession \in Sessions
          /\ UNCHANGED << gamePc, gamePeer, applied, dropped, daemons >>
      BY <1>18 DEF GameTakes
    <2>2. CASE gameSession = s
      <3>1. ~(Claims(e) /\ params[e].session = s) /\ gamePc' # "accepted"
        BY <2>1, <2>2, <1>5 DEF GameHolds
      <3> QED
        BY <2>1, <3>1
    <2>3. CASE gameSession # s
      <3>1. highest'[s] = highest[s] /\ applied'[s] = applied[s]
        BY <1>18, <2>1, <2>3 DEF GameTakes, Higher
      <3> QED
        BY <2>1, <3>1
    <2> QED
      BY <2>2, <2>3
  <1>19. ASSUME GameHandles
        PROVE  DaemonOrder(s, e)'
    <2>1. /\ gamePc = "playing" /\ gameSession \in Sessions
          /\ applied' = [ applied EXCEPT ![gameSession] = Append(@, Head(gameInbox)) ]
          /\ UNCHANGED << gamePc, gamePeer, highest, dropped, daemons >>
      BY <1>19 DEF GameHandles
    <2>2. CASE gameSession = s
      <3>1. ~(Claims(e) /\ params[e].session = s) /\ gamePc' # "accepted"
        BY <2>1, <2>2, <1>5 DEF GameHolds
      <3> QED
        BY <2>1, <3>1
    <2>3. CASE gameSession # s
      <3>1. highest'[s] = highest[s] /\ applied'[s] = applied[s]
        BY <2>1, <2>3
      <3> QED
        BY <2>1, <3>1
    <2> QED
      BY <2>2, <2>3
  <1>20. ASSUME KillGame
        PROVE  DaemonOrder(s, e)'
    BY <1>20 DEF KillGame, GameGone
  <1>21. ASSUME LeaveUnsaved
        PROVE  DaemonOrder(s, e)'
    BY <1>21 DEF LeaveUnsaved, GameGone
  <1>22. ASSUME Save
        PROVE  DaemonOrder(s, e)'
    <2>1. /\ gamePc' = "saving" /\ gameSession \in Sessions /\ UNCHANGED << applied, highest, daemons >>
          /\ dropped' = [ dropped EXCEPT ![gameSession] =
                            @ \cup Elements(gameInbox) \cup Elements(gameReplay) ]
      BY <1>22 DEF Save
    <2>2. CASE gameSession = s
      <3>1. ~(Claims(e) /\ params[e].session = s)
        BY <2>2, <1>5 DEF GameHolds
      <3> QED
        BY <2>1, <3>1
    <2>3. CASE gameSession # s
      <3>1. dropped'[s] = dropped[s]
        BY <2>1, <2>3
      <3> QED
        BY <2>1, <3>1
    <2> QED
      BY <2>2, <2>3
  <1>23. ASSUME WriteDump
        PROVE  DaemonOrder(s, e)'
    BY <1>23 DEF WriteDump
  <1>24. ASSUME NEW d \in Daemons, StartDaemon(d)
        PROVE  DaemonOrder(s, e)'
    BY <1>24 DEF StartDaemon
  <1>25. ASSUME NEW d \in Daemons, ReceiveParameters(d)
        PROVE  DaemonOrder(s, e)'
    <2>1. /\ gamePc = "serving" /\ mainPc[d] = "starting" /\ gamePc' = "off"
          /\ params' = [ params EXCEPT ![d] = gameParams ]
          /\ mainPc' = [ mainPc EXCEPT ![d] = "connecting" ]
          /\ UNCHANGED << threadPc, net, base, inbox, rpcQueue, highest, applied, dropped >>
      BY <1>25 DEF ReceiveParameters, GameGone
    <2>2. CASE e = d
      <3>1. inbox[e] = << >> /\ rpcQueue[e] = << >> /\ net[e] = "closed"
        BY <2>1, <2>2
      <3>2. params'[e] = gameParams
        BY <2>1, <2>2
      <3>3. gameParams.session = s => gameParams.base = highest[s] /\ InLine(s, << >>, << >>)
        BY <2>1 DEF GameOrder
      <3> QED
        BY <2>1, <3>1, <3>2, <3>3
    <2>3. CASE e # d
      BY <2>1, <2>3
    <2> QED
      BY <2>2, <2>3
  <1>26. ASSUME NEW d \in Daemons, ReceiveNothing(d)
        PROVE  DaemonOrder(s, e)'
    BY <1>26 DEF ReceiveNothing
  <1>27. ASSUME NEW d \in Daemons, ConnectDaemon(d)
        PROVE  DaemonOrder(s, e)'
    BY SMTT(30), <1>27 DEF ConnectDaemon
  <1>28. ASSUME NEW d \in Daemons, Loop(d)
        PROVE  DaemonOrder(s, e)'
    BY <1>28 DEF Loop
  <1>29. ASSUME NEW d \in Daemons, Drain(d)
        PROVE  DaemonOrder(s, e)'
    <2>1. /\ mainPc[d] = "body" /\ net[d] # "closed" /\ inbox[d] # << >>
          /\ rpcQueue' = [ rpcQueue EXCEPT ![d] = Append(@, Head(inbox[d])) ]
          /\ inbox' = [ inbox EXCEPT ![d] = Tail(@) ]
          /\ UNCHANGED << game, mainPc, threadPc, params, net, base, highest, applied, dropped >>
      BY <1>29 DEF Drain
    <2>2. CASE e = d
      <3>1. rpcQueue'[e] = Append(rpcQueue[e], Head(inbox[e])) /\ inbox'[e] = Tail(inbox[e])
        BY <2>1, <2>2
      <3>2. threadPc[e] \notin { "disconnected", "sent" }
        BY <2>1, <2>2
      <3>3. params[e].session = s /\ Claims(e) =>
              Line(highest[s], applied[s], rpcQueue'[e], inbox'[e], dropped[s])
        BY <2>1, <2>2, <3>1, <1>6
      <3> QED
        BY <2>1, <3>2, <3>3
    <2>3. CASE e # d
      <3>1. rpcQueue'[e] = rpcQueue[e] /\ inbox'[e] = inbox[e]
        BY <2>1, <2>3
      <3> QED
        BY <2>1, <3>1
    <2> QED
      BY <2>2, <2>3
  <1>30. ASSUME NEW d \in Daemons, Sleep(d)
        PROVE  DaemonOrder(s, e)'
    BY <1>30 DEF Sleep
  <1>31. ASSUME NEW d \in Daemons, Expire(d)
        PROVE  DaemonOrder(s, e)'
    BY <1>31 DEF Expire
  <1>32. ASSUME NEW d \in Daemons, Leave(d)
        PROVE  DaemonOrder(s, e)'
    BY <1>32 DEF Leave
  <1>33. ASSUME NEW d \in Daemons, End(d)
        PROVE  DaemonOrder(s, e)'
    BY <1>33 DEF End
  <1>34. ASSUME NEW d \in Daemons, JoinSession(d)
        PROVE  DaemonOrder(s, e)'
    <2>1. /\ net[d] = "handshake" /\ net' = [ net EXCEPT ![d] = "joined" ]
          /\ base' = [ base EXCEPT ![d] = params[d].base ]
          /\ UNCHANGED << game, mainPc, threadPc, params, inbox, rpcQueue, highest, applied, dropped >>
      BY <1>34 DEF JoinSession
    <2>2. CASE e = d
      <3>1. Claims(e) /\ threadPc[e] \notin { "disconnected", "sent" }
        BY <2>1, <2>2
      <3>2. net[e] = "handshake" /\ net'[e] = "joined" /\ base'[e] = params[e].base
        BY <2>1, <2>2
      <3> QED
        BY <2>1, <3>1, <3>2
    <2>3. CASE e # d
      BY <2>1, <2>3
    <2> QED
      BY <2>2, <2>3
  <1>35. ASSUME NEW d \in Daemons, NEW m \in Messages, DaemonTakes(d, m)
        PROVE  DaemonOrder(s, e)'
    <2>1. /\ net[d] = "joined" /\ params[d].session \in Sessions
          /\ inbox' = [ inbox EXCEPT ![d] = Append(@, m) ]
          /\ UNCHANGED << game, mainPc, threadPc, params, net, rpcQueue, applied, dropped >>
      BY <1>35 DEF DaemonTakes, Arrives
    <2>2. CASE params[d].session = s
      <3>1. /\ base' = [ base EXCEPT ![d] = m ]
            /\ m = highest[s] + 1 /\ highest'[s] = m
        BY <1>35, <2>2, <1>4
      <3>2. CASE e = d
        <4>1. Line(highest[s], applied[s], rpcQueue[e], inbox[e], dropped[s]) /\ inbox'[e] = Append(inbox[e], m)
          BY <2>1, <2>2, <3>2
        <4>2. Line(highest[s] + 1, applied[s], rpcQueue[e], Append(inbox[e], highest[s] + 1), dropped[s])
          BY <3>1, <4>1, <1>6
        <4>3. Line(m, applied[s], rpcQueue[e], Append(inbox[e], m), dropped[s])
          BY <3>1, <4>2
        <4>4. threadPc[e] \notin { "disconnected", "sent" } /\ base'[e] = m
          BY SMTT(30), <2>1, <3>1, <3>2
        <4> QED
          BY <2>1, <3>1, <3>2, <4>1, <4>3, <4>4
      <3>3. CASE e # d
        <4>1. ~(params[e].session = s /\ Claims(e))
          BY <2>1, <2>2, <3>3, <1>5
        <4>2. ~(params[e].session = s /\ gamePc = "accepted" /\ gamePeer = e)
          BY <2>1, <2>2, <3>3, <1>7
        <4> QED
          BY <2>1, <4>1, <4>2
      <3> QED
        BY <3>2, <3>3
    <2>3. CASE params[d].session # s
      <3>1. highest'[s] = highest[s]
        BY <1>35, <2>1, <2>3 DEF DaemonTakes, Higher
      <3>2. CASE e = d
        BY <2>1, <2>3, <3>2
      <3>3. CASE e # d
        <4>1. base'[e] = base[e] /\ inbox'[e] = inbox[e]
          BY <1>35, <2>1, <3>3 DEF DaemonTakes
        <4> QED
          BY <2>1, <3>1, <4>1
      <3> QED
        BY <3>2, <3>3
    <2> QED
      BY <2>2, <2>3
  <1>36. ASSUME NEW d \in Daemons, PublishPort(d)
        PROVE  DaemonOrder(s, e)'
    BY <1>36 DEF PublishPort, Thread
  <1>37. ASSUME NEW d \in Daemons, Accept(d)
        PROVE  DaemonOrder(s, e)'
    BY <1>37 DEF Accept, Thread
  <1>38. ASSUME NEW d \in Daemons, Stop(d)
        PROVE  DaemonOrder(s, e)'
    BY <1>38 DEF Stop, Thread
  <1>39. ASSUME NEW d \in Daemons, DisconnectDaemon(d)
        PROVE  DaemonOrder(s, e)'
    <2>1. /\ threadPc[d] = "stopping" /\ Alive(d)
          /\ threadPc' = [ threadPc EXCEPT ![d] = "disconnected" ]
          /\ net' = [ net EXCEPT ![d] = "closed" ] /\ inbox' = [ inbox EXCEPT ![d] = << >> ]
          /\ UNCHANGED << game, mainPc, params, base, rpcQueue, highest, applied >>
      BY <1>39 DEF DisconnectDaemon, Thread
    <2>2. CASE params[d].session = s
      <3>1. net[d] # "closed" /\ Claims(d)
        BY <2>1, <2>2
      <3>2. CASE e = d
        <4>1. s # 0
          OBVIOUS
        <4>2. /\ dropped' = [ dropped EXCEPT ![s] = @ \cup Elements(inbox[e]) ]
              /\ spoiled' = IF net[e] = "handshake" THEN spoiled \cup { s } ELSE spoiled
          BY <1>39, <2>2, <3>2, <4>1 DEF DisconnectDaemon
        <4>3. net[e] = "joined" /\ dropped'[s] = dropped[s] \cup Elements(inbox[e])
          BY <3>1, <3>2, <4>2
        <4>4. Line(highest[s], applied[s], rpcQueue[e], << >>, dropped'[s]) /\ base[e] = highest[s]
          BY <2>2, <3>1, <3>2, <4>3, <1>6
        <4>5. ~Claims(e)' /\ threadPc'[e] = "disconnected"
          BY <2>1, <3>2
        <4> QED
          BY <2>1, <4>4, <4>5
      <3>3. CASE e # d
        <4>1. ~(params[e].session = s /\ Claims(e))
          BY <2>1, <2>2, <3>1, <3>3, <1>5
        <4>2. ~(params[e].session = s /\ gamePc = "accepted" /\ gamePeer = e)
          BY <2>1, <2>2, <3>1, <3>3, <1>7
        <4> QED
          BY <2>1, <4>1, <4>2
      <3> QED
        BY <3>2, <3>3
    <2>3. CASE params[d].session # s
      <3>1. dropped'[s] = dropped[s]
        <4>1. \/ dropped' = dropped
              \/ dropped' = [ dropped EXCEPT ![params[d].session] = @ \cup Elements(inbox[d]) ]
          BY <1>39 DEF DisconnectDaemon
        <4> QED
          BY <2>3, <4>1
      <3>2. CASE e = d
        BY <2>1, <2>3, <3>2
      <3>3. CASE e # d
        BY <2>1, <3>1, <3>3
      <3> QED
        BY <3>2, <3>3
    <2> QED
      BY <2>2, <2>3
  <1>40. ASSUME NEW d \in Daemons, SendParameters(d)
        PROVE  DaemonOrder(s, e)'
    <2>1. /\ threadPc[d] = "disconnected" /\ Alive(d)
          /\ threadPc' = [ threadPc EXCEPT ![d] = "sent" ]
          /\ params' = [ params EXCEPT ![d] = [ params[d] EXCEPT !.base = base[d] ] ]
          /\ UNCHANGED << game, mainPc, net, base, inbox, rpcQueue, highest, applied, dropped >>
      BY <1>40 DEF SendParameters, Thread
    <2>2. CASE e = d
      <3>1. params'[e].session = params[e].session /\ params'[e].base = base[e]
        BY <2>1, <2>2 DEF Params
      <3>2. ~Claims(e)
        BY <2>1, <2>2
      <3> QED
        BY <2>1, <2>2, <3>1, <3>2
    <2>3. CASE e # d
      BY <2>1, <2>3
    <2> QED
      BY <2>2, <2>3
  <1>41. ASSUME NEW d \in Daemons, SendRpcs(d)
        PROVE  DaemonOrder(s, e)'
    BY <1>41 DEF SendRpcs, Thread
  <1>42. CASE UNCHANGED vars
    BY <1>42
  <1> QED
    BY <1>8, <1>9, <1>10, <1>11, <1>12, <1>13, <1>14, <1>15, <1>16, <1>17, <1>18,
       <1>19, <1>20, <1>21, <1>22, <1>23, <1>24, <1>25, <1>26, <1>27, <1>28,
       <1>29, <1>30, <1>31, <1>32, <1>33, <1>34, <1>35, <1>36, <1>37, <1>38,
       <1>39, <1>40, <1>41, <1>42
       DEF Next, GameStep, MainStep, NetworkStep, ThreadStep

LEMMA OrderInit == Init => OrderInv
  <1> SUFFICES ASSUME Init PROVE OrderInv
    OBVIOUS
  <1> USE NothingQueued DEF Init
  <1>1. QueuesInv
    BY DEF QueuesInv, GameQueues, DaemonQueues
  <1>2. ASSUME NEW s \in Sessions
        PROVE  SessionOrder(s)
    <2>1. highest[s] = 0 /\ applied[s] = << >> /\ s # 0
      BY <1>2, NumberTypes
    <2>2. HandledInv(s)
      BY <2>1 DEF HandledInv, Rising
    <2>3. GameOrder(s)
      BY <2>1, ParamTypes DEF GameOrder
    <2>4. \A d \in Daemons : DaemonOrder(s, d)
      BY <2>1, ParamTypes DEF DaemonOrder
    <2> QED
      BY <2>2, <2>3, <2>4 DEF SessionOrder
  <1> QED
    BY <1>1, <1>2 DEF OrderInv

LEMMA OrderStep == IInv /\ OrderInv /\ [Next]_vars => OrderInv'
  <1> SUFFICES ASSUME IInv, OrderInv, [Next]_vars PROVE OrderInv'
    OBVIOUS
  <1>1. QueuesInv'
    BY GameQueuesStep, DaemonQueuesStep DEF OrderInv, QueuesInv
  <1>2. ASSUME NEW s \in Sessions \ spoiled'
        PROVE  SessionOrder(s)'
    BY <1>2, HandledStep, GameOrderStep, DaemonOrderStep DEF SessionOrder
  <1> QED
    BY <1>1, <1>2 DEF OrderInv

\* The line of every session that is not spoiled holds in every state.
THEOREM OrderHolds == Spec => [](IInv /\ OrderInv)
  <1>1. Init => IInv /\ OrderInv
    BY InitInv, OrderInit
  <1>2. IInv /\ OrderInv /\ [Next]_vars => (IInv /\ OrderInv)'
    BY Inductive, OrderStep
  <1> QED
    BY <1>1, <1>2, PTL DEF Spec

\* As long as a session's indexes are carried over, no RPC of it is handled twice or
\* out of order, whichever processes it came through: wherever its RPCs are, they
\* stand in one line, and the base index of who holds the session is the line's end.
THEOREM HandledInOrderHolds == Spec => []HandledInOrder
  <1>1. OrderInv => HandledInOrder
    <2> SUFFICES ASSUME OrderInv, NEW s \in Sessions \ spoiled
                 PROVE  Increasing(applied[s])
      BY DEF HandledInOrder, Increasing
    <2> QED
      BY DEF OrderInv, SessionOrder, HandledInv, Rising
  <1> QED
    BY OrderHolds, <1>1, PTL

\* Of what the server sent up to the base index of a game that plays, each RPC was
\* handled, or is about to be, or was freed unhandled by a Disconnect: what a daemon
\* has drained into rpc_queue is not lost on the way back.
THEOREM AccountedHolds == Spec => []Accounted
  <1>1. IInv /\ OrderInv => Accounted
    <2> SUFFICES ASSUME IInv, OrderInv, gamePc = "playing", gameSession \notin spoiled
                 PROVE  1..gameBase \subseteq Elements(applied[gameSession])
                          \cup Elements(gameInbox) \cup dropped[gameSession]
      BY DEF Accounted
    <2>1. gameSession \in Sessions \ spoiled
      BY DEF IInv, GameInv, Connected
    <2>2. /\ InLine(gameSession, gameReplay, gameInbox)
          /\ gameBase = highest[gameSession] /\ gameReplay = << >>
      BY <2>1 DEF OrderInv, SessionOrder, GameOrder, QueuesInv, GameQueues
    <2> QED
      BY <2>2, NothingQueued DEF InLine, Line
  <1> QED
    BY OrderHolds, <1>1, PTL

-----------------------------------------------------------------------------
(* A session is a queue (PacketFifo), through whichever processes it goes.   *)

SessionPending(s) == 1..highest[s] \ (Elements(applied[s]) \cup dropped[s])

\* What a step can do to the numbers and the histories of a session.
Still(s) == highest'[s] = highest[s] /\ applied'[s] = applied[s] /\ dropped'[s] = dropped[s]

Taken(s) == highest'[s] = highest[s] + 1 /\ applied'[s] = applied[s] /\ dropped'[s] = dropped[s]

Handled(s, x) ==
    highest'[s] = highest[s] /\ applied'[s] = Append(applied[s], x) /\ dropped'[s] = dropped[s]

Freed(s, r) ==
    highest'[s] = highest[s] /\ applied'[s] = applied[s] /\ dropped'[s] = dropped[s] \cup Elements(r)

\* What waits, by the queues that hold it: all of it, once, and in order.
LEMMA LineWaits ==
    ASSUME IInv, NEW s \in Sessions, NEW q \in Seq(Messages), NEW r \in Seq(Messages),
           InLine(s, q, r)
    PROVE  SessionPending(s) = Elements(q) \cup Elements(r)
  <1>1. /\ applied[s] \in Seq(Messages) /\ highest[s] \in Int
        /\ \A x \in Messages : x \in Int /\ x >= 1
    BY ConndAssumption DEF IInv, TypeOK, Messages
  <1>2. /\ Elements(applied[s]) \subseteq Messages
        /\ Elements(q) \subseteq Messages /\ Elements(r) \subseteq Messages
    BY <1>1, QueueTypes
  <1>3. Elements(q) \subseteq 1..highest[s] /\ Elements(r) \subseteq 1..highest[s]
    BY <1>1, <1>2 DEF InLine, Line, Rising
  <1>4. \A x \in Elements(q) \cup Elements(r) : x \notin Elements(applied[s]) /\ x \notin dropped[s]
    BY <1>1, <1>2 DEF InLine, Line
  <1>5. 1..highest[s] \subseteq Elements(applied[s]) \cup Elements(q) \cup Elements(r) \cup dropped[s]
    BY DEF InLine, Line
  <1> QED
    BY <1>3, <1>4, <1>5 DEF SessionPending

\* The four steps of a session are those of PacketFifo.
LEMMA StillIsFifo ==
    ASSUME NEW s \in Sessions, Still(s)
    PROVE  UNCHANGED Session(s)!fifoVars
  BY DEF Still, Session!fifoVars, Elements

LEMMA TakenIsPut ==
    ASSUME IInv, NEW s \in Sessions, NEW q \in Seq(Messages), NEW r \in Seq(Messages),
           InLine(s, q, r), Taken(s)
    PROVE  Session(s)!FifoNext
  <1> DEFINE h == highest[s]
             a == Elements(applied[s])
             f == dropped[s]
             wait == 1..h \ (a \cup f)
  <1>1. h \in Int /\ h >= 0 /\ applied[s] \in Seq(Messages) /\ a \subseteq Messages
    BY ConndAssumption, QueueTypes DEF IInv, TypeOK
  <1>2. \A x \in a \cup f : x < h + 1
    <2>1. \A x \in a : x \in Int
      BY <1>1, ConndAssumption DEF Messages
    <2> QED
      BY <1>1, <2>1 DEF InLine, Line, Rising
  <1>3. h + 1 \notin a \cup f
    BY <1>1, <1>2
  <1>4. \A x \in wait : x < h + 1
    BY <1>1
  <1> HIDE DEF a, f
  <1>5. 1..(h + 1) \ (a \cup f) = wait \cup { h + 1 } /\ h + 1 \notin wait
    BY <1>1, <1>3
  <1>6. \A x \in wait \cup a \cup f : x < h + 1
    BY <1>2, <1>4
  <1>7. applied'[s] = applied[s] /\ dropped'[s] = f /\ highest'[s] = h + 1
    BY DEF Taken, f
  <1>8. Elements(applied[s])' = a
    BY <1>7 DEF a, Elements
  <1>9. Session(s)!Put(h + 1)
    <2>1. \A x \in wait \cup { applied[s][n] : n \in 1..Len(applied[s]) } \cup f : x < h + 1
      BY <1>6 DEF a, Elements
    <2>2. 1..highest'[s] \ (Elements(applied[s])' \cup dropped'[s]) = wait \cup { h + 1 }
      BY <1>5, <1>7, <1>8
    <2> QED
      BY <2>1, <2>2, <1>7 DEF Session!Put, Session!Returned, a, f
  <1>10. h + 1 \in (1..highest'[s] \ (Elements(applied[s])' \cup dropped'[s])) \ wait
    BY <1>5, <1>7, <1>8
  <1> QED
    BY <1>9, <1>10 DEF Session!FifoNext, a, f

LEMMA HandledIsReturn ==
    ASSUME IInv, NEW s \in Sessions, NEW q \in Seq(Messages), NEW r \in Seq(Messages),
           InLine(s, q, r), NEW x \in Messages, Handled(s, x),
           \/ q # << >> /\ x = Head(q)
           \/ q = << >> /\ r # << >> /\ x = Head(r)
    PROVE  Session(s)!FifoNext
  <1>1. SessionPending(s) = Elements(q) \cup Elements(r)
    BY LineWaits
  <1>2. x \in SessionPending(s)
    BY <1>1, OneLess
  <1>3. \A y \in SessionPending(s) : x <= y
    <2>1. \A y \in Messages : y \in Int
      BY ConndAssumption DEF Messages
    <2>2. x \in Int /\ \A y \in SessionPending(s) : y \in Int
      BY <1>1, <2>1, QueueTypes
    <2>3. /\ Increasing(q) /\ Increasing(r)
          /\ \A y \in Elements(q), z \in Elements(r) : y < z
      BY DEF InLine, Line, Rising
    <2>4. CASE q # << >> /\ x = Head(q)
      <3>1. /\ x \in Elements(q) /\ Elements(q) = Elements(Tail(q)) \cup { x }
            /\ \A y \in Elements(Tail(q)) : x < y
        BY <2>3, <2>4, OneLess
      <3>2. \A y \in SessionPending(s) : y = x \/ x < y
        BY <1>1, <2>3, <3>1
      <3> QED
        BY <2>2, <3>2
    <2>5. CASE q = << >> /\ r # << >> /\ x = Head(r)
      <3>1. /\ x \in Elements(r) /\ Elements(r) = Elements(Tail(r)) \cup { x }
            /\ \A y \in Elements(Tail(r)) : x < y
        BY <2>3, <2>5, OneLess
      <3> QED
        <4>1. Elements(q) = {}
          BY <2>5, NothingQueued
        <4>2. SessionPending(s) = Elements(Tail(r)) \cup { x }
          BY <1>1, <3>1, <4>1
        <4> QED
          BY <2>2, <3>1, <4>2
    <2> QED
      BY <2>4, <2>5
  <1>4. SessionPending(s)' = SessionPending(s) \ { x }
    <2>1. applied[s] \in Seq(Messages)
      BY DEF IInv, TypeOK
    <2>2. Elements(Append(applied[s], x)) = Elements(applied[s]) \cup { x }
      BY <2>1, OneMore
    <2>3. Elements(applied[s])' = Elements(applied[s]) \cup { x }
      BY <2>2 DEF Handled, Elements
    <2> QED
      BY <2>3 DEF Handled, SessionPending
  <1>5. Session(s)!Return(x)
    BY <1>2, <1>3, <1>4 DEF SessionPending, Handled, Session!Return
  <1> QED
    BY <1>2, <1>5 DEF SessionPending, Session!FifoNext

LEMMA FreedIsFree ==
    ASSUME IInv, NEW s \in Sessions, NEW q \in Seq(Messages), NEW r \in Seq(Messages),
           InLine(s, q, r), Freed(s, r)
    PROVE  Session(s)!FifoNext
  <1>1. Elements(r) \subseteq SessionPending(s)
    BY LineWaits
  <1>2. Elements(applied[s])' = Elements(applied[s])
    BY DEF Freed, Elements
  <1>3. SessionPending(s)' = SessionPending(s) \ dropped'[s]
    BY <1>2 DEF Freed, SessionPending
  <1>4. Session(s)!Free
    BY <1>1, <1>3 DEF SessionPending, Freed, Session!Free
  <1> QED
    BY <1>4 DEF Session!FifoNext

\* What each step does to a session whose indexes are carried over.
SessionMoves(s) ==
    \/ Still(s)
    \/ \E q, r \in Seq(Messages) :
          /\ InLine(s, q, r)
          /\ \/ Taken(s)
             \/ q # << >> /\ Handled(s, Head(q))
             \/ q = << >> /\ r # << >> /\ Handled(s, Head(r))
             \/ Freed(s, r)

LEMMA StillSteps ==
    ASSUME NEW s \in Sessions, UNCHANGED << highest, applied, dropped >>
    PROVE  SessionMoves(s)
  BY DEF SessionMoves, Still

LEMMA SessionStep ==
    ASSUME IInv, OrderInv, [Next]_vars, NEW s \in Sessions \ spoiled'
    PROVE  SessionMoves(s)
  <1>1. s \in Sessions \ spoiled /\ QueuesInv
    BY SpoiledGrows DEF OrderInv
  <1>2. HandledInv(s) /\ GameOrder(s) /\ \A d \in Daemons : DaemonOrder(s, d)
    BY <1>1 DEF OrderInv, SessionOrder
  <1>3. /\ gameReplay \in Seq(Messages) /\ gameInbox \in Seq(Messages) /\ << >> \in Seq(Messages)
        /\ \A d \in Daemons : rpcQueue[d] \in Seq(Messages) /\ inbox[d] \in Seq(Messages)
    BY QueueTypes DEF IInv, TypeOK
  <1>4. ASSUME UNCHANGED << highest, applied, dropped >>
        PROVE  SessionMoves(s)
    BY <1>1, <1>4, StillSteps
  <1>5. ASSUME Replay
        PROVE  SessionMoves(s)
    <2>1. /\ gamePc = "replaying" /\ gameReplay # << >>
          /\ applied' = [ applied EXCEPT ![gameSession] = Append(@, Head(gameReplay)) ]
          /\ UNCHANGED << highest, dropped >>
      BY <1>5 DEF Replay
    <2>2. CASE gameSession = s
      <3>1. InLine(s, gameReplay, gameInbox)
        BY <1>2, <2>1, <2>2 DEF GameOrder
      <3>2. Handled(s, Head(gameReplay))
        BY <1>1, <2>1, <2>2 DEF Handled, IInv, TypeOK
      <3> QED
        BY <1>3, <2>1, <3>1, <3>2 DEF SessionMoves
    <2>3. CASE gameSession # s
      BY <1>1, <2>1, <2>3 DEF SessionMoves, Still, IInv, TypeOK
    <2> QED
      BY <2>2, <2>3
  <1>6. ASSUME GameHandles
        PROVE  SessionMoves(s)
    <2>1. /\ gamePc = "playing" /\ gameInbox # << >>
          /\ applied' = [ applied EXCEPT ![gameSession] = Append(@, Head(gameInbox)) ]
          /\ UNCHANGED << highest, dropped >>
      BY <1>6 DEF GameHandles
    <2>2. CASE gameSession = s
      <3>1. InLine(s, gameReplay, gameInbox) /\ gameReplay = << >>
        BY <1>1, <1>2, <2>1, <2>2 DEF GameOrder, QueuesInv, GameQueues
      <3>2. Handled(s, Head(gameInbox))
        BY <1>1, <2>1, <2>2 DEF Handled, IInv, TypeOK
      <3> QED
        BY <1>3, <2>1, <3>1, <3>2 DEF SessionMoves
    <2>3. CASE gameSession # s
      BY <1>1, <2>1, <2>3 DEF SessionMoves, Still, IInv, TypeOK
    <2> QED
      BY <2>2, <2>3
  <1>7. ASSUME NEW m \in Messages, GameTakes(m)
        PROVE  SessionMoves(s)
    <2>1. /\ gameSession \in Sessions /\ UNCHANGED << applied, dropped >>
          /\ Higher(gameSession, m)
      BY <1>7 DEF GameTakes, Arrives
    <2>2. CASE gameSession = s
      <3>1. gamePc = "playing" /\ highest'[s] = highest[s] + 1
        BY <1>7, <2>2, GameTakesNext
      <3>2. InLine(s, gameReplay, gameInbox)
        BY <1>2, <2>2, <3>1 DEF GameOrder
      <3>3. Taken(s)
        BY <2>1, <3>1 DEF Taken
      <3> QED
        BY <1>3, <3>2, <3>3 DEF SessionMoves
    <2>3. CASE gameSession # s
      BY <1>1, <2>1, <2>3 DEF SessionMoves, Still, Higher, IInv, TypeOK
    <2> QED
      BY <2>2, <2>3
  <1>8. ASSUME NEW d \in Daemons, NEW m \in Messages, DaemonTakes(d, m)
        PROVE  SessionMoves(s)
    <2>1. /\ params[d].session \in Sessions /\ UNCHANGED << applied, dropped >>
          /\ net[d] = "joined" /\ Higher(params[d].session, m)
      BY <1>8 DEF DaemonTakes, Arrives
    <2>2. CASE params[d].session = s
      <3>1. highest'[s] = highest[s] + 1
        BY <1>8, <2>2, DaemonTakesNext
      <3>2. InLine(s, rpcQueue[d], inbox[d])
        BY <1>2, <2>1, <2>2 DEF DaemonOrder, Claims
      <3>3. Taken(s)
        BY <2>1, <3>1 DEF Taken
      <3> QED
        BY <1>3, <3>2, <3>3 DEF SessionMoves
    <2>3. CASE params[d].session # s
      BY <1>1, <2>1, <2>3 DEF SessionMoves, Still, Higher, IInv, TypeOK
    <2> QED
      BY <2>2, <2>3
  <1>9. ASSUME Save
        PROVE  SessionMoves(s)
    <2>1. /\ UNCHANGED << highest, applied >>
          /\ dropped' = [ dropped EXCEPT ![gameSession] =
                            @ \cup Elements(gameInbox) \cup Elements(gameReplay) ]
          /\ gamePc # "playing" => gameSession \in spoiled'
      BY <1>9 DEF Save
    <2>2. CASE gameSession = s
      <3>1. gamePc = "playing"
        BY <2>1, <2>2
      <3>2. InLine(s, gameReplay, gameInbox) /\ gameReplay = << >>
        BY <1>1, <1>2, <2>2, <3>1 DEF GameOrder, QueuesInv, GameQueues
      <3>3. dropped'[s] = dropped[s] \cup Elements(gameInbox) \cup Elements(gameReplay)
        BY <1>1, <2>1, <2>2 DEF IInv, TypeOK
      <3>4. Freed(s, gameInbox)
        BY <2>1, <3>2, <3>3, NothingQueued DEF Freed
      <3> QED
        BY <1>3, <3>2, <3>4 DEF SessionMoves
    <2>3. CASE gameSession # s
      BY <1>1, <2>1, <2>3 DEF SessionMoves, Still, IInv, TypeOK
    <2> QED
      BY <2>2, <2>3
  <1>10. ASSUME NEW d \in Daemons, DisconnectDaemon(d)
         PROVE  SessionMoves(s)
    <2>1. /\ UNCHANGED << highest, applied >> /\ threadPc[d] = "stopping" /\ Alive(d)
          /\ params[d].session = 0 => UNCHANGED dropped
          /\ params[d].session # 0 =>
               /\ dropped' = [ dropped EXCEPT ![params[d].session] = @ \cup Elements(inbox[d]) ]
               /\ net[d] = "handshake" => params[d].session \in spoiled'
      BY <1>10 DEF DisconnectDaemon, Thread
    <2>2. CASE params[d].session = s
      <3>1. s # 0
        BY <1>1, NumberTypes
      <3>2. net[d] = "joined"
        BY <1>2, <2>1, <2>2, <3>1, ParamTypes DEF IInv, TypeOK, DaemonInv, DaemonHolds
      <3>3. InLine(s, rpcQueue[d], inbox[d])
        BY <1>2, <2>2, <3>2 DEF DaemonOrder, Claims
      <3>4. Freed(s, inbox[d])
        BY <1>1, <2>1, <2>2, <3>1 DEF Freed, IInv, TypeOK
      <3> QED
        BY <1>3, <3>3, <3>4 DEF SessionMoves
    <2>3. CASE params[d].session # s
      <3>1. dropped'[s] = dropped[s]
        BY <1>1, <2>1, <2>3 DEF IInv, TypeOK
      <3> QED
        BY <2>1, <3>1 DEF SessionMoves, Still
    <2> QED
      BY <2>2, <2>3
  <1>11. ASSUME GameStep, ~Replay, ~GameHandles, ~Save, \A m \in Messages : ~GameTakes(m)
         PROVE  SessionMoves(s)
    BY <1>4, <1>11
    DEF GameStep, StartGame, SampInit, ReceiveStartupData, ConnectFresh, ConnectRestored, AskRpcs,
        ReplayEnds, Resume, RestoreFails, KillGame, LeaveUnsaved, WriteDump, StartDaemon, history
  <1>12. ASSUME NEW d \in Daemons, MainStep(d)
         PROVE  SessionMoves(s)
    BY <1>4, <1>12
    DEF MainStep, ReceiveParameters, ReceiveNothing, ConnectDaemon, Loop, Drain, Sleep, Expire,
        Leave, End, history
  <1>13. ASSUME NEW d \in Daemons, NetworkStep(d)
         PROVE  SessionMoves(s)
    BY <1>4, <1>8, <1>13 DEF NetworkStep, JoinSession, history
  <1>14. ASSUME NEW d \in Daemons, ThreadStep(d)
         PROVE  SessionMoves(s)
    BY <1>4, <1>10, <1>14
    DEF ThreadStep, PublishPort, Accept, Stop, SendParameters, SendRpcs, history
  <1>15. CASE UNCHANGED vars
    BY <1>4, <1>15 DEF vars, history
  <1> QED
    BY <1>5, <1>6, <1>7, <1>9, <1>11, <1>12, <1>13, <1>14, <1>15 DEF Next

LEMMA SessionFifoStep ==
    ASSUME IInv, OrderInv, [Next]_vars, NEW s \in Sessions \ spoiled'
    PROVE  [Session(s)!FifoNext]_(Session(s)!fifoVars)
  <1>1. CASE Still(s)
    BY <1>1, StillIsFifo
  <1>2. ASSUME NEW q \in Seq(Messages), NEW r \in Seq(Messages), InLine(s, q, r),
               \/ Taken(s)
               \/ q # << >> /\ Handled(s, Head(q))
               \/ q = << >> /\ r # << >> /\ Handled(s, Head(r))
               \/ Freed(s, r)
        PROVE  Session(s)!FifoNext
    <2>1. /\ q # << >> => Head(q) \in Messages
          /\ r # << >> => Head(r) \in Messages
      BY QueueTypes
    <2> QED
      BY <1>2, <2>1, TakenIsPut, HandledIsReturn, FreedIsFree
  <1> QED
    BY <1>1, <1>2, SessionStep DEF SessionMoves

\* Games and daemons implement PacketFifo for every session whose indexes are carried
\* over: each RPC the server sent is taken once, the game handles the oldest of those
\* that wait or a Disconnect frees some, and no RPC does both or is passed over, however
\* many processes the session goes through, killed ones among them.
THEOREM SessionIsFifoHolds == Spec => SessionIsFifo
  <1>1. Init => \A s \in Sessions : Session(s)!FifoInit
    <2> SUFFICES ASSUME Init, NEW s \in Sessions
                 PROVE  Session(s)!FifoInit
      OBVIOUS
    <2>1. highest[s] = 0 /\ applied[s] = << >> /\ dropped[s] = {}
      BY DEF Init
    <2>2. 1..0 = {}
      OBVIOUS
    <2> QED
      BY <2>1, <2>2 DEF Session!FifoInit
  <1>2. IInv /\ OrderInv /\ [Next]_vars =>
          \A s \in Sessions \ spoiled' : [Session(s)!FifoNext]_(Session(s)!fifoVars)
    BY SessionFifoStep
  <1> QED
    BY <1>1, <1>2, OrderHolds, PTL DEF Spec, SessionIsFifo

-----------------------------------------------------------------------------
(* The dump, the port file and the state of the game.  Two assumptions are *)
(* made: every game ends by its handler (Kills = 0), which writes the dump *)
(* and serves the daemon, and the user starts none before the daemon of    *)
(* the last one listens (SlowStart = FALSE).  Without either one TLC finds *)
(* a state restored with another's session.                                *)

\* A daemon starts at the end of a game, and no game runs until it listens.
StartingInv ==
    /\ \A d, e \in Daemons :
          Alive(d) /\ Starting(d) /\ Alive(e) /\ Starting(e) => d = e
    /\ gamePc \notin { "off", "serving" } => \A d \in Daemons : Alive(d) => ~Starting(d)
    /\ \A d \in Daemons : mainPc[d] = "starting" => gamePc = "serving"
    /\ \A d \in Daemons : mainPc[d] \in { "loop", "body", "joining" } => threadPc[d] # "none"

\* Daemon d keeps the session of the dump, and the port file names it or will.
Keeps(d) ==
    /\ mainPc[d] \in { "connecting", "loop", "body", "joining" }
    /\ threadPc[d] # "finished"
    /\ params[d].session = dump.session
    /\ threadPc[d] \in { "none", "opening" } \/ portFile = d

\* No daemon starts but, perhaps, d.
StartsAlone(d) == \A e \in Daemons : Alive(e) /\ Starting(e) => e = d

DumpInv ==
    /\ gamePc \in { "restoring", "handshake", "asking", "replaying", "resuming", "saving" }
          => dump = NoDump
    /\ gamePc \in { "idle", "playing" } => dump = NoDump \/ dump.server # gameServer
    /\ gamePc \in { "saved", "serving" } => dump = NoDump \/ dump.session = gameState
    /\ dump # NoDump /\ gamePc \notin { "saved", "serving" }
          => \E d \in Daemons : Keeps(d) /\ StartsAlone(d)

\* The state the game holds is that of the session it holds, or is about to get.
StateInv ==
    /\ gamePc \in { "connected", "accepted" } => params[gamePeer].session = gameState
    /\ gamePc = "restoring" /\ gameParams # NoParams => gameParams.session = gameState
    /\ gamePc \in { "saving", "saved", "serving" } => gameParams.session = gameState
    /\ StateFitsSession

KeepInv == StartingInv /\ DumpInv /\ StateInv

\* The variables the invariant is about, and the steps that change one of them.
kept == << gamePc, gameServer, gameParams, gameState, gamePeer, gameSession, dump, portFile,
           mainPc, threadPc, params >>

LEMMA KeepSteps ==
    ASSUME Kills = 0, SlowStart = FALSE, IInv, KeepInv, [Next]_vars
    PROVE
      \/ \E v \in Servers : StartGame(v)
      \/ SampInit
      \/ ReceiveStartupData
      \/ ConnectFresh
      \/ ConnectRestored
      \/ AskRpcs
      \/ ReplayEnds
      \/ Resume
      \/ RestoreFails
      \/ LeaveUnsaved
      \/ Save
      \/ WriteDump
      \/ \E d \in Daemons : StartDaemon(d)
      \/ \E d \in Daemons : ReceiveParameters(d)
      \/ \E d \in Daemons : ConnectDaemon(d)
      \/ \E d \in Daemons : Loop(d)
      \/ \E d \in Daemons : Sleep(d)
      \/ \E d \in Daemons : Expire(d)
      \/ \E d \in Daemons : Leave(d)
      \/ \E d \in Daemons : End(d)
      \/ \E d \in Daemons : PublishPort(d)
      \/ \E d \in Daemons : Accept(d)
      \/ \E d \in Daemons : Stop(d)
      \/ \E d \in Daemons : DisconnectDaemon(d)
      \/ \E d \in Daemons : SendParameters(d)
      \/ \E d \in Daemons : SendRpcs(d)
      \/ UNCHANGED kept
  <1>1. CASE Next
    <2>1. ~KillGame
      BY DEF KillGame, IInv, TypeOK
    <2>2. \A d \in Daemons : ~ReceiveNothing(d)
      BY DEF ReceiveNothing, KeepInv, StartingInv
    <2>3. Replay \/ GameHandles \/ (\E m \in Messages : GameTakes(m)) => UNCHANGED kept
      BY DEF Replay, GameHandles, GameTakes, kept, files, daemons
    <2>4. ASSUME NEW d \in Daemons, Drain(d) \/ JoinSession(d) \/ \E m \in Messages : DaemonTakes(d, m)
          PROVE  UNCHANGED kept
      BY <2>4 DEF Drain, JoinSession, DaemonTakes, kept, game, files
    <2> QED
      BY <1>1, <2>1, <2>2, <2>3, <2>4 DEF Next, GameStep, MainStep, NetworkStep, ThreadStep
  <1>2. CASE UNCHANGED vars
    BY <1>2 DEF vars, game, files, daemons, kept
  <1> QED
    BY <1>1, <1>2

\* The variables that tell which daemons start change for daemon d alone.
LEMMA StartingStays ==
    ASSUME KeepInv, NEW d \in Daemons, UNCHANGED gamePc,
           mainPc'[d] = "starting" => mainPc[d] = "starting",
           mainPc'[d] \in { "loop", "body", "joining" } => threadPc'[d] # "none",
           Alive(d)' /\ Starting(d)' => Alive(d) /\ Starting(d),
           \A e \in Daemons \ { d } : mainPc'[e] = mainPc[e] /\ threadPc'[e] = threadPc[e]
    PROVE  StartingInv' /\ \A e \in Daemons : Alive(e)' /\ Starting(e)' => Alive(e) /\ Starting(e)
  <1>1. \A e \in Daemons \ { d } : Alive(e)' <=> Alive(e)
    BY DEF Alive
  <1>2. \A e \in Daemons \ { d } : Starting(e)' <=> Starting(e)
    BY DEF Starting
  <1>3. \A e \in Daemons : Alive(e)' /\ Starting(e)' => Alive(e) /\ Starting(e)
    BY <1>1, <1>2
  <1> QED
    BY <1>3 DEF KeepInv, StartingInv

LEMMA StartingStep ==
    ASSUME Kills = 0, SlowStart = FALSE, IInv, KeepInv, [Next]_vars
    PROVE  StartingInv'
  <1> USE ParamTypes, NumberTypes, DumpTypes
      DEF IInv, TypeOK, GameInv, DaemonInv, DaemonHolds, KeepInv, StartingInv, DumpInv, StateInv,
          StateFitsSession, Alive, Starting, Keeps, StartsAlone, game, files, daemons, history, Connected
  <1>1. ASSUME NEW v \in Servers, StartGame(v)
        PROVE  StartingInv'
    BY <1>1 DEF StartGame
  <1>2. ASSUME SampInit
        PROVE  StartingInv'
    BY <1>2 DEF SampInit
  <1>3. ASSUME ReceiveStartupData
        PROVE  StartingInv'
    BY <1>3 DEF ReceiveStartupData
  <1>4. ASSUME ConnectFresh
        PROVE  StartingInv'
    BY <1>4 DEF ConnectFresh
  <1>5. ASSUME ConnectRestored
        PROVE  StartingInv'
    BY <1>5 DEF ConnectRestored
  <1>6. ASSUME AskRpcs
        PROVE  StartingInv'
    BY <1>6 DEF AskRpcs
  <1>7. ASSUME ReplayEnds
        PROVE  StartingInv'
    BY <1>7 DEF ReplayEnds
  <1>8. ASSUME Resume
        PROVE  StartingInv'
    BY <1>8 DEF Resume
  <1>9. ASSUME RestoreFails
        PROVE  StartingInv'
    BY <1>9 DEF RestoreFails
  <1>10. ASSUME LeaveUnsaved
        PROVE  StartingInv'
    BY <1>10 DEF LeaveUnsaved, GameGone
  <1>11. ASSUME Save
        PROVE  StartingInv'
    BY <1>11 DEF Save
  <1>12. ASSUME WriteDump
        PROVE  StartingInv'
    BY <1>12 DEF WriteDump
  <1>13. ASSUME NEW d \in Daemons, StartDaemon(d)
        PROVE  StartingInv'
    BY SMTT(30), <1>13 DEF StartDaemon
  <1>14. ASSUME NEW d \in Daemons, ReceiveParameters(d)
        PROVE  StartingInv'
    BY SMTT(30), <1>14 DEF ReceiveParameters, GameGone
  <1>15. ASSUME NEW d \in Daemons, ConnectDaemon(d)
        PROVE  StartingInv'
    <2>1. /\ UNCHANGED gamePc
          /\ mainPc'[d] = "starting" => mainPc[d] = "starting"
          /\ mainPc'[d] \in { "loop", "body", "joining" } => threadPc'[d] # "none"
          /\ \A e \in Daemons \ { d } : mainPc'[e] = mainPc[e] /\ threadPc'[e] = threadPc[e]
      BY <1>15 DEF ConnectDaemon
    <2>2. Alive(d)' /\ Starting(d)' => Alive(d) /\ Starting(d)
      BY <1>15 DEF ConnectDaemon
    <2> QED
      BY <2>1, <2>2, StartingStays
  <1>16. ASSUME NEW d \in Daemons, Loop(d)
        PROVE  StartingInv'
    <2>1. /\ UNCHANGED gamePc
          /\ mainPc'[d] = "starting" => mainPc[d] = "starting"
          /\ mainPc'[d] \in { "loop", "body", "joining" } => threadPc'[d] # "none"
          /\ \A e \in Daemons \ { d } : mainPc'[e] = mainPc[e] /\ threadPc'[e] = threadPc[e]
      BY <1>16 DEF Loop
    <2>2. Alive(d)' /\ Starting(d)' => Alive(d) /\ Starting(d)
      BY <1>16 DEF Loop
    <2> QED
      BY <2>1, <2>2, StartingStays
  <1>17. ASSUME NEW d \in Daemons, Sleep(d)
        PROVE  StartingInv'
    <2>1. /\ UNCHANGED gamePc
          /\ mainPc'[d] = "starting" => mainPc[d] = "starting"
          /\ mainPc'[d] \in { "loop", "body", "joining" } => threadPc'[d] # "none"
          /\ \A e \in Daemons \ { d } : mainPc'[e] = mainPc[e] /\ threadPc'[e] = threadPc[e]
      BY <1>17 DEF Sleep
    <2>2. Alive(d)' /\ Starting(d)' => Alive(d) /\ Starting(d)
      BY <1>17 DEF Sleep
    <2> QED
      BY <2>1, <2>2, StartingStays
  <1>18. ASSUME NEW d \in Daemons, Expire(d)
        PROVE  StartingInv'
    <2>1. /\ UNCHANGED gamePc
          /\ mainPc'[d] = "starting" => mainPc[d] = "starting"
          /\ mainPc'[d] \in { "loop", "body", "joining" } => threadPc'[d] # "none"
          /\ \A e \in Daemons \ { d } : mainPc'[e] = mainPc[e] /\ threadPc'[e] = threadPc[e]
      BY <1>18 DEF Expire
    <2>2. Alive(d)' /\ Starting(d)' => Alive(d) /\ Starting(d)
      BY <1>18 DEF Expire
    <2> QED
      BY <2>1, <2>2, StartingStays
  <1>19. ASSUME NEW d \in Daemons, Leave(d)
        PROVE  StartingInv'
    <2>1. /\ UNCHANGED gamePc
          /\ mainPc'[d] = "starting" => mainPc[d] = "starting"
          /\ mainPc'[d] \in { "loop", "body", "joining" } => threadPc'[d] # "none"
          /\ \A e \in Daemons \ { d } : mainPc'[e] = mainPc[e] /\ threadPc'[e] = threadPc[e]
      BY <1>19 DEF Leave
    <2>2. Alive(d)' /\ Starting(d)' => Alive(d) /\ Starting(d)
      BY <1>19 DEF Leave
    <2> QED
      BY <2>1, <2>2, StartingStays
  <1>20. ASSUME NEW d \in Daemons, End(d)
        PROVE  StartingInv'
    BY SMTT(30), <1>20 DEF End
  <1>21. ASSUME NEW d \in Daemons, PublishPort(d)
        PROVE  StartingInv'
    BY SMTT(30), <1>21 DEF PublishPort, Thread
  <1>22. ASSUME NEW d \in Daemons, Accept(d)
        PROVE  StartingInv'
    BY <1>22 DEF Accept, Thread
  <1>23. ASSUME NEW d \in Daemons, Stop(d)
        PROVE  StartingInv'
    <2>1. /\ UNCHANGED gamePc
          /\ mainPc'[d] = "starting" => mainPc[d] = "starting"
          /\ mainPc'[d] \in { "loop", "body", "joining" } => threadPc'[d] # "none"
          /\ \A e \in Daemons \ { d } : mainPc'[e] = mainPc[e] /\ threadPc'[e] = threadPc[e]
      BY <1>23 DEF Stop, Thread
    <2>2. Alive(d)' /\ Starting(d)' => Alive(d) /\ Starting(d)
      BY <1>23 DEF Stop, Thread
    <2> QED
      BY <2>1, <2>2, StartingStays
  <1>24. ASSUME NEW d \in Daemons, DisconnectDaemon(d)
        PROVE  StartingInv'
    BY <1>24 DEF DisconnectDaemon, Thread
  <1>25. ASSUME NEW d \in Daemons, SendParameters(d)
        PROVE  StartingInv'
    <2>1. /\ UNCHANGED gamePc
          /\ mainPc'[d] = "starting" => mainPc[d] = "starting"
          /\ mainPc'[d] \in { "loop", "body", "joining" } => threadPc'[d] # "none"
          /\ \A e \in Daemons \ { d } : mainPc'[e] = mainPc[e] /\ threadPc'[e] = threadPc[e]
      BY <1>25 DEF SendParameters, Thread
    <2>2. Alive(d)' /\ Starting(d)' => Alive(d) /\ Starting(d)
      BY <1>25 DEF SendParameters, Thread
    <2> QED
      BY <2>1, <2>2, StartingStays
  <1>26. ASSUME NEW d \in Daemons, SendRpcs(d)
        PROVE  StartingInv'
    BY SMTT(30), <1>26 DEF SendRpcs, Thread
  <1>27. CASE UNCHANGED kept
    BY <1>27 DEF kept
  <1> QED
    BY KeepSteps, <1>1, <1>2, <1>3, <1>4, <1>5, <1>6, <1>7, <1>8, <1>9, <1>10, <1>11, <1>12, <1>13, <1>14, <1>15, <1>16, <1>17, <1>18, <1>19, <1>20, <1>21, <1>22, <1>23, <1>24, <1>25, <1>26, <1>27

LEMMA DumpStays ==
    ASSUME KeepInv, UNCHANGED << gamePc, gameServer, gameState, dump >>,
           \A e \in Daemons : Keeps(e) /\ StartsAlone(e) => Keeps(e)',
           \A e \in Daemons : Alive(e)' /\ Starting(e)' => Alive(e) /\ Starting(e)
    PROVE  DumpInv'
  BY DEF KeepInv, DumpInv, StartsAlone, NoDump

LEMMA DumpStep ==
    ASSUME Kills = 0, SlowStart = FALSE, IInv, KeepInv, [Next]_vars
    PROVE  DumpInv'
  <1> USE ParamTypes, NumberTypes, DumpTypes
      DEF IInv, TypeOK, GameInv, DaemonInv, DaemonHolds, KeepInv, StartingInv, DumpInv, StateInv,
          StateFitsSession, Alive, Starting, Keeps, StartsAlone, game, files, daemons, history, Connected
  <1>1. ASSUME NEW v \in Servers, StartGame(v)
        PROVE  DumpInv'
    BY <1>1 DEF StartGame
  <1>2. ASSUME SampInit
        PROVE  DumpInv'
    BY SMTT(30), <1>2 DEF SampInit
  <1>3. ASSUME ReceiveStartupData
        PROVE  DumpInv'
    BY <1>3 DEF ReceiveStartupData
  <1>4. ASSUME ConnectFresh
        PROVE  DumpInv'
    BY <1>4 DEF ConnectFresh
  <1>5. ASSUME ConnectRestored
        PROVE  DumpInv'
    BY <1>5 DEF ConnectRestored
  <1>6. ASSUME AskRpcs
        PROVE  DumpInv'
    BY <1>6 DEF AskRpcs
  <1>7. ASSUME ReplayEnds
        PROVE  DumpInv'
    BY <1>7 DEF ReplayEnds
  <1>8. ASSUME Resume
        PROVE  DumpInv'
    BY <1>8 DEF Resume
  <1>9. ASSUME RestoreFails
        PROVE  DumpInv'
    BY <1>9 DEF RestoreFails
  <1>10. ASSUME LeaveUnsaved
        PROVE  DumpInv'
    BY <1>10 DEF LeaveUnsaved, GameGone
  <1>11. ASSUME Save
        PROVE  DumpInv'
    BY <1>11 DEF Save
  <1>12. ASSUME WriteDump
        PROVE  DumpInv'
    BY <1>12 DEF WriteDump
  <1>13. ASSUME NEW d \in Daemons, StartDaemon(d)
        PROVE  DumpInv'
    <2>1. gamePc = "saved" /\ gamePc' = "serving" /\ dump' = dump /\ gameState' = gameState
      BY <1>13 DEF StartDaemon
    <2> QED
      BY <2>1 DEF NoDump
  <1>14. ASSUME NEW d \in Daemons, ReceiveParameters(d)
        PROVE  DumpInv'
    <2>1. /\ gamePc = "serving" /\ gamePc' = "off" /\ dump' = dump /\ mainPc[d] = "starting"
          /\ mainPc' = [ mainPc EXCEPT ![d] = "connecting" ] /\ threadPc' = threadPc
          /\ params' = [ params EXCEPT ![d] = gameParams ]
      BY <1>14 DEF ReceiveParameters, GameGone
    <2>2. StartsAlone(d)'
      <3>1. \A e \in Daemons : Alive(e) /\ Starting(e) => e = d
        BY <2>1
      <3> QED
        BY <2>1, <3>1
    <2>3. dump # NoDump => Keeps(d)'
      BY <2>1
    <2> QED
      BY <2>1, <2>2, <2>3 DEF NoDump
  <1>15. ASSUME NEW d \in Daemons, ConnectDaemon(d)
        PROVE  DumpInv'
    <2>1. UNCHANGED << gamePc, gameServer, gameState, dump >>
      BY <1>15 DEF ConnectDaemon
    <2>2. ASSUME NEW e \in Daemons, Keeps(e), StartsAlone(e)
          PROVE  Keeps(e)'
      BY <1>15, <2>2 DEF ConnectDaemon
    <2>3. \A e \in Daemons : Alive(e)' /\ Starting(e)' => Alive(e) /\ Starting(e)
      BY <1>15 DEF ConnectDaemon
    <2> QED
      BY <2>1, <2>2, <2>3, DumpStays
  <1>16. ASSUME NEW d \in Daemons, Loop(d)
        PROVE  DumpInv'
    <2>1. UNCHANGED << gamePc, gameServer, gameState, dump >>
      BY <1>16 DEF Loop
    <2>2. ASSUME NEW e \in Daemons, Keeps(e), StartsAlone(e)
          PROVE  Keeps(e)'
      BY <1>16, <2>2 DEF Loop
    <2>3. \A e \in Daemons : Alive(e)' /\ Starting(e)' => Alive(e) /\ Starting(e)
      BY <1>16 DEF Loop
    <2> QED
      BY <2>1, <2>2, <2>3, DumpStays
  <1>17. ASSUME NEW d \in Daemons, Sleep(d)
        PROVE  DumpInv'
    <2>1. UNCHANGED << gamePc, gameServer, gameState, dump >>
      BY <1>17 DEF Sleep
    <2>2. ASSUME NEW e \in Daemons, Keeps(e), StartsAlone(e)
          PROVE  Keeps(e)'
      BY <1>17, <2>2 DEF Sleep
    <2>3. \A e \in Daemons : Alive(e)' /\ Starting(e)' => Alive(e) /\ Starting(e)
      BY <1>17 DEF Sleep
    <2> QED
      BY <2>1, <2>2, <2>3, DumpStays
  <1>18. ASSUME NEW d \in Daemons, Expire(d)
        PROVE  DumpInv'
    BY <1>18 DEF Expire
  <1>19. ASSUME NEW d \in Daemons, Leave(d)
        PROVE  DumpInv'
    <2>1. UNCHANGED << gamePc, gameServer, gameState, dump >>
      BY <1>19 DEF Leave
    <2>2. ASSUME NEW e \in Daemons, Keeps(e), StartsAlone(e)
          PROVE  Keeps(e)'
      BY <1>19, <2>2 DEF Leave
    <2>3. \A e \in Daemons : Alive(e)' /\ Starting(e)' => Alive(e) /\ Starting(e)
      BY <1>19 DEF Leave
    <2> QED
      BY <2>1, <2>2, <2>3, DumpStays
  <1>20. ASSUME NEW d \in Daemons, End(d)
        PROVE  DumpInv'
    <2>1. UNCHANGED << gamePc, gameServer, gameState, dump >>
      BY <1>20 DEF End
    <2>2. ASSUME NEW e \in Daemons, Keeps(e), StartsAlone(e)
          PROVE  Keeps(e)'
      BY <1>20, <2>2 DEF End
    <2>3. \A e \in Daemons : Alive(e)' /\ Starting(e)' => Alive(e) /\ Starting(e)
      BY <1>20 DEF End
    <2> QED
      BY <2>1, <2>2, <2>3, DumpStays
  <1>21. ASSUME NEW d \in Daemons, PublishPort(d)
        PROVE  DumpInv'
    <2>1. UNCHANGED << gamePc, gameServer, gameState, dump >>
      BY <1>21 DEF PublishPort, Thread
    <2>2. ASSUME NEW e \in Daemons, Keeps(e), StartsAlone(e)
          PROVE  Keeps(e)'
      BY <1>21, <2>2 DEF PublishPort, Thread
    <2>3. \A e \in Daemons : Alive(e)' /\ Starting(e)' => Alive(e) /\ Starting(e)
      BY <1>21 DEF PublishPort, Thread
    <2> QED
      BY <2>1, <2>2, <2>3, DumpStays
  <1>22. ASSUME NEW d \in Daemons, Accept(d)
        PROVE  DumpInv'
    BY <1>22 DEF Accept, Thread
  <1>23. ASSUME NEW d \in Daemons, Stop(d)
        PROVE  DumpInv'
    <2>1. UNCHANGED << gamePc, gameServer, gameState, dump >>
      BY <1>23 DEF Stop, Thread
    <2>2. ASSUME NEW e \in Daemons, Keeps(e), StartsAlone(e)
          PROVE  Keeps(e)'
      BY <1>23, <2>2 DEF Stop, Thread
    <2>3. \A e \in Daemons : Alive(e)' /\ Starting(e)' => Alive(e) /\ Starting(e)
      BY <1>23 DEF Stop, Thread
    <2> QED
      BY <2>1, <2>2, <2>3, DumpStays
  <1>24. ASSUME NEW d \in Daemons, DisconnectDaemon(d)
        PROVE  DumpInv'
    <2>1. UNCHANGED << gamePc, gameServer, gameState, dump >>
      BY <1>24 DEF DisconnectDaemon, Thread
    <2>2. ASSUME NEW e \in Daemons, Keeps(e), StartsAlone(e)
          PROVE  Keeps(e)'
      BY <1>24, <2>2 DEF DisconnectDaemon, Thread
    <2>3. \A e \in Daemons : Alive(e)' /\ Starting(e)' => Alive(e) /\ Starting(e)
      BY <1>24 DEF DisconnectDaemon, Thread
    <2> QED
      BY <2>1, <2>2, <2>3, DumpStays
  <1>25. ASSUME NEW d \in Daemons, SendParameters(d)
        PROVE  DumpInv'
    <2>1. UNCHANGED << gamePc, gameServer, gameState, dump >>
      BY <1>25 DEF SendParameters, Thread
    <2>2. ASSUME NEW e \in Daemons, Keeps(e), StartsAlone(e)
          PROVE  Keeps(e)'
      BY SMTT(30), <1>25, <2>2 DEF SendParameters, Thread
    <2>3. \A e \in Daemons : Alive(e)' /\ Starting(e)' => Alive(e) /\ Starting(e)
      BY <1>25 DEF SendParameters, Thread
    <2> QED
      BY <2>1, <2>2, <2>3, DumpStays
  <1>26. ASSUME NEW d \in Daemons, SendRpcs(d)
        PROVE  DumpInv'
    BY <1>26 DEF SendRpcs, Thread
  <1>27. CASE UNCHANGED kept
    BY <1>27 DEF kept
  <1> QED
    BY KeepSteps, <1>1, <1>2, <1>3, <1>4, <1>5, <1>6, <1>7, <1>8, <1>9, <1>10, <1>11, <1>12, <1>13, <1>14, <1>15, <1>16, <1>17, <1>18, <1>19, <1>20, <1>21, <1>22, <1>23, <1>24, <1>25, <1>26, <1>27

LEMMA StateStep ==
    ASSUME Kills = 0, SlowStart = FALSE, IInv, KeepInv, [Next]_vars
    PROVE  StateInv'
  <1> USE ParamTypes, NumberTypes, DumpTypes
      DEF IInv, TypeOK, GameInv, DaemonInv, DaemonHolds, KeepInv, StartingInv, DumpInv, StateInv,
          StateFitsSession, Alive, Starting, Keeps, StartsAlone, game, files, daemons, history, Connected
  <1>1. ASSUME NEW v \in Servers, StartGame(v)
        PROVE  StateInv'
    BY <1>1 DEF StartGame
  <1>2. ASSUME SampInit
        PROVE  StateInv'
    BY SMTT(30), <1>2 DEF SampInit
  <1>3. ASSUME ReceiveStartupData
        PROVE  StateInv'
    BY <1>3 DEF ReceiveStartupData
  <1>4. ASSUME ConnectFresh
        PROVE  StateInv'
    BY <1>4 DEF ConnectFresh
  <1>5. ASSUME ConnectRestored
        PROVE  StateInv'
    BY <1>5 DEF ConnectRestored
  <1>6. ASSUME AskRpcs
        PROVE  StateInv'
    BY <1>6 DEF AskRpcs
  <1>7. ASSUME ReplayEnds
        PROVE  StateInv'
    BY <1>7 DEF ReplayEnds
  <1>8. ASSUME Resume
        PROVE  StateInv'
    BY <1>8 DEF Resume
  <1>9. ASSUME RestoreFails
        PROVE  StateInv'
    BY <1>9 DEF RestoreFails
  <1>10. ASSUME LeaveUnsaved
        PROVE  StateInv'
    BY <1>10 DEF LeaveUnsaved, GameGone
  <1>11. ASSUME Save
        PROVE  StateInv'
    BY <1>11 DEF Save
  <1>12. ASSUME WriteDump
        PROVE  StateInv'
    BY <1>12 DEF WriteDump
  <1>13. ASSUME NEW d \in Daemons, StartDaemon(d)
        PROVE  StateInv'
    BY <1>13 DEF StartDaemon
  <1>14. ASSUME NEW d \in Daemons, ReceiveParameters(d)
        PROVE  StateInv'
    BY <1>14 DEF ReceiveParameters, GameGone
  <1>15. ASSUME NEW d \in Daemons, ConnectDaemon(d)
        PROVE  StateInv'
    BY <1>15 DEF ConnectDaemon
  <1>16. ASSUME NEW d \in Daemons, Loop(d)
        PROVE  StateInv'
    BY <1>16 DEF Loop
  <1>17. ASSUME NEW d \in Daemons, Sleep(d)
        PROVE  StateInv'
    BY <1>17 DEF Sleep
  <1>18. ASSUME NEW d \in Daemons, Expire(d)
        PROVE  StateInv'
    BY <1>18 DEF Expire
  <1>19. ASSUME NEW d \in Daemons, Leave(d)
        PROVE  StateInv'
    BY <1>19 DEF Leave
  <1>20. ASSUME NEW d \in Daemons, End(d)
        PROVE  StateInv'
    BY <1>20 DEF End
  <1>21. ASSUME NEW d \in Daemons, PublishPort(d)
        PROVE  StateInv'
    BY <1>21 DEF PublishPort, Thread
  <1>22. ASSUME NEW d \in Daemons, Accept(d)
        PROVE  StateInv'
    BY <1>22 DEF Accept, Thread
  <1>23. ASSUME NEW d \in Daemons, Stop(d)
        PROVE  StateInv'
    BY <1>23 DEF Stop, Thread
  <1>24. ASSUME NEW d \in Daemons, DisconnectDaemon(d)
        PROVE  StateInv'
    BY <1>24 DEF DisconnectDaemon, Thread
  <1>25. ASSUME NEW d \in Daemons, SendParameters(d)
        PROVE  StateInv'
    BY <1>25 DEF SendParameters, Thread
  <1>26. ASSUME NEW d \in Daemons, SendRpcs(d)
        PROVE  StateInv'
    BY <1>26 DEF SendRpcs, Thread
  <1>27. CASE UNCHANGED kept
    BY <1>27 DEF kept
  <1> QED
    BY KeepSteps, <1>1, <1>2, <1>3, <1>4, <1>5, <1>6, <1>7, <1>8, <1>9, <1>10, <1>11, <1>12, <1>13, <1>14, <1>15, <1>16, <1>17, <1>18, <1>19, <1>20, <1>21, <1>22, <1>23, <1>24, <1>25, <1>26, <1>27

LEMMA KeepInit == Init => KeepInv
  BY ParamTypes DEF Init, KeepInv, StartingInv, DumpInv, StateInv, StateFitsSession, Alive,
                    NoDump, Connected

\* Whose dump lies there, who keeps its session and which state the game holds agree
\* in every state, for any number of servers, daemons and sessions.
THEOREM KeepHolds ==
    ASSUME Kills = 0, SlowStart = FALSE
    PROVE  Spec => [](IInv /\ KeepInv)
  <1>1. Init => IInv /\ KeepInv
    BY InitInv, KeepInit
  <1>2. IInv /\ KeepInv /\ [Next]_vars => (IInv /\ KeepInv)'
    BY Inductive, StartingStep, DumpStep, StateStep DEF KeepInv
  <1> QED
    BY <1>1, <1>2, PTL DEF Spec

\* A game that starts and finds a dump finds a daemon that lives and holds the session
\* the dump is of (save_samp_state, start_subprocess and the daemon's timeout).
THEOREM DumpHasDaemonHolds ==
    ASSUME Kills = 0, SlowStart = FALSE
    PROVE  Spec => []DumpHasDaemon
  <1>1. KeepInv => DumpHasDaemon
    BY DEF KeepInv, DumpInv, DumpHasDaemon, Keeps, Alive
  <1> QED
    BY KeepHolds, <1>1, PTL

\* The state a game restores from the dump and the session it takes over from the
\* daemon the port file names are of one and the same session (samp_init_hook).
THEOREM StateFitsSessionHolds ==
    ASSUME Kills = 0, SlowStart = FALSE
    PROVE  Spec => []StateFitsSession
  <1>1. KeepInv => StateFitsSession
    BY DEF KeepInv, StateInv
  <1> QED
    BY KeepHolds, <1>1, PTL

=============================================================================
