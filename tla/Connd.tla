------------------------------- MODULE Connd -------------------------------
(***************************************************************************)
(* The processes of connd: a game that starts, plays, quits or crashes and *)
(* starts again (sa_module/dllmain.cpp), the daemons that keep its session *)
(* with the server alive meanwhile (daemon/main.cpp, daemon/               *)
(* raknet_plugin.hpp), the loopback TCP connections between them (ipc/)    *)
(* and the two files they find each other by, connd_samp_dump.json and     *)
(* connd_port.json.                                                        *)
(*                                                                         *)
(* A session is one connection to a server, named by the local port it was *)
(* opened from.  Its messages are the RPCs the server sends, numbered from *)
(* 1; a message arrives in order, as often as the network pleases, at the  *)
(* process that has the session's port open.  What reordering does to the  *)
(* window is the matter of module Handover, and the handshake a process    *)
(* plays to itself before it speaks for a session that of module RakPeer.  *)
(***************************************************************************)
EXTENDS Integers, Sequences, FiniteSets

CONSTANTS
    Servers,      \* what startup_args tell apart: the servers the user plays on
    Daemons,      \* daemon processes; each is started once at most
    NoDaemon,
    MaxSessions,  \* bound: sessions the games open
    MaxMessages,  \* bound: messages of a session
    Kills,        \* bound: processes of the game that die without their handler
    SlowStart     \* may a game start while a daemon is not yet listening?

ASSUME ConndAssumption ==
    /\ NoDaemon \notin Daemons
    /\ MaxSessions \in Nat /\ MaxMessages \in Nat /\ Kills \in Nat
    /\ SlowStart \in BOOLEAN

Sessions == 1..MaxSessions
Messages == 1..MaxMessages

\* What is handed over of rak_state: whose session it is and its base index.
NoParams == [session |-> 0, base |-> 0]
Params   == [session : 0..MaxSessions, base : 0..MaxMessages]

NoDump == [server |-> "none", session |-> 0]

VARIABLES
    \* the game
    gamePc,        \* where the game stands
    gameServer,    \* its startup_args
    gameParams,    \* rak_state
    gameState,     \* the session whose samp_state the game holds, 0 for none
    gamePeer,      \* the daemon its ipc_client is connected to
    gameSession,   \* the session RakNet has the port of open, 0 for none
    gameBase,      \* receivedPacketsBaseIndex of its ReliabilityLayer
    gameInbox,     \* packets received and not yet handled
    gameReplay,    \* raw_rpc strings sent by the daemon and not yet handled
    kills,
    \* the files
    dump,          \* connd_samp_dump.json
    portFile,      \* connd_port.json: the daemon that wrote it
    \* the daemons
    mainPc,        \* main thread
    threadPc,      \* daemon thread
    stop,
    params,        \* rak_state
    net,           \* is the port closed, is the handshake on, is it over?
    base,          \* receivedPacketsBaseIndex
    inbox,         \* packets received and not yet handled
    rpcQueue,      \* rpc_queue
    \* histories
    opened,        \* sessions opened so far
    highest,       \* the last message taken of each session
    applied,       \* the messages of each session the game has handled
    dropped,       \* those freed unhandled by Disconnect
    spoiled        \* sessions that went on with a base index not their own

game    == << gamePc, gameServer, gameParams, gameState, gamePeer, gameSession,
              gameBase, gameInbox, gameReplay, kills >>
files   == << dump, portFile >>
daemons == << mainPc, threadPc, stop, params, net, base, inbox, rpcQueue >>
history == << opened, highest, applied, dropped, spoiled >>
vars    == << game, files, daemons, history >>

-----------------------------------------------------------------------------

Init ==
    /\ gamePc = "off"
    /\ gameServer \in Servers
    /\ gameParams = NoParams
    /\ gameState = 0
    /\ gamePeer = NoDaemon
    /\ gameSession = 0
    /\ gameBase = 0
    /\ gameInbox = << >>
    /\ gameReplay = << >>
    /\ kills = 0
    /\ dump = NoDump
    /\ portFile = NoDaemon
    /\ mainPc = [d \in Daemons |-> "none"]
    /\ threadPc = [d \in Daemons |-> "none"]
    /\ stop = [d \in Daemons |-> FALSE]
    /\ params = [d \in Daemons |-> NoParams]
    /\ net = [d \in Daemons |-> "closed"]
    /\ base = [d \in Daemons |-> 0]
    /\ inbox = [d \in Daemons |-> << >>]
    /\ rpcQueue = [d \in Daemons |-> << >>]
    /\ opened = 0
    /\ highest = [s \in Sessions |-> 0]
    /\ applied = [s \in Sessions |-> << >>]
    /\ dropped = [s \in Sessions |-> {}]
    /\ spoiled = {}

Alive(d) == mainPc[d] \notin { "none", "left", "ended" }

\* Its listening socket is open: connect() succeeds.
Listens(d) == Alive(d) /\ threadPc[d] \notin { "none", "opening", "finished" }

Starting(d) == mainPc[d] \in { "starting", "connecting" } \/ threadPc[d] = "opening"

\* Message m of session s arrives where the base index is b and is taken.
Arrives(s, m, b) ==
    /\ s \in Sessions \ spoiled
    /\ m \in Messages
    /\ m <= highest[s] + 1
    /\ m > b

Higher(s, m) == highest' = [highest EXCEPT ![s] = IF m > @ THEN m ELSE @]

Elements(q) == { q[n] : n \in 1..Len(q) }

-----------------------------------------------------------------------------
(* A game starts.                                                          *)

\* The user starts the game for server v.
StartGame(v) ==
    /\ gamePc = "off"
    /\ SlowStart \/ \A d \in Daemons : Alive(d) => ~Starting(d)
    /\ gamePc' = "booting"
    /\ gameServer' = v
    /\ UNCHANGED << gameParams, gameState, gamePeer, gameSession, gameBase,
                    gameInbox, gameReplay, kills, files, daemons, history >>

\* samp_init_hook: the dump of this server's session sends the game to the
\* daemon the port file names; if nobody listens there the dump is removed.
SampInit ==
    /\ gamePc = "booting"
    /\ IF dump = NoDump \/ dump.server # gameServer
       THEN gamePc' = "idle" /\ UNCHANGED << gameState, gamePeer, dump >>
       ELSE /\ gameState' = dump.session
            /\ IF portFile # NoDaemon /\ Listens(portFile)
               THEN gamePc' = "connected" /\ gamePeer' = portFile /\ UNCHANGED dump
               ELSE gamePc' = "idle" /\ dump' = NoDump /\ UNCHANGED gamePeer
    /\ UNCHANGED << gameServer, gameParams, gameSession, gameBase, gameInbox,
                    gameReplay, kills, portFile, daemons, history >>

\* The rest of receive_startup_data: the daemon has sent its parameters, or
\* closed the connection, which recv_string takes for an empty answer.
ReceiveStartupData ==
    /\ gamePc \in { "accepted", "connected" }
    /\ \/ /\ gamePc = "accepted"
          /\ threadPc[gamePeer] = "sent"
          /\ gameParams' = params[gamePeer]
       \/ /\ ~Alive(gamePeer)
          /\ threadPc[gamePeer] # "sent" \/ gamePc = "connected"
          /\ UNCHANGED gameParams
    /\ dump' = NoDump
    /\ gamePc' = "restoring"
    /\ UNCHANGED << gameServer, gameState, gamePeer, gameSession, gameBase,
                    gameInbox, gameReplay, kills, portFile, daemons, history >>

\* Mutant of ConnectFresh: the state read from the dump is kept.
ConnectFreshStale ==
    /\ gamePc = "idle"
    /\ opened < MaxSessions
    /\ opened' = opened + 1
    /\ gameSession' = opened + 1
    /\ gameBase' = 0
    /\ gameInbox' = << >>
    /\ gamePc' = "playing"
    /\ UNCHANGED << gameServer, gameParams, gameState, gamePeer, gameReplay, kills, files,
                    daemons, highest, applied, dropped, spoiled >>

\* connect_hook, current_state being kNone: a new session, from a port of its own.
ConnectFresh ==
    /\ gamePc = "idle"
    /\ opened < MaxSessions
    /\ opened' = opened + 1
    /\ gameSession' = opened + 1
    /\ gameState' = opened + 1
    /\ gameBase' = 0
    /\ gameInbox' = << >>
    /\ gamePc' = "playing"
    /\ UNCHANGED << gameServer, gameParams, gamePeer, gameReplay, kills, files,
                    daemons, highest, applied, dropped, spoiled >>

\* connect_hook with the handshake ahead: the port of the session is opened again.
ConnectRestored ==
    /\ gamePc = "restoring"
    /\ gameParams # NoParams
    /\ gameSession' = gameParams.session
    /\ gameBase' = 0
    /\ gameInbox' = << >>
    /\ gamePc' = "handshake"
    /\ UNCHANGED << gameServer, gameParams, gameState, gamePeer, gameReplay,
                    kills, files, daemons, history >>

\* restore_samp_state asks for the RPCs; the daemon answers with all it has.
\* (send_rpcs, Sent on the daemon's side.)
AskRpcs ==
    /\ gamePc = "handshake"
    /\ gamePc' = "asking"
    /\ UNCHANGED << gameServer, gameParams, gameState, gamePeer, gameSession,
                    gameBase, gameInbox, gameReplay, kills, files, daemons, history >>

\* One RPC of the daemon's queue is emulated.
Replay ==
    /\ gamePc = "replaying"
    /\ gameReplay # << >>
    /\ applied' = [applied EXCEPT ![gameSession] = Append(@, Head(gameReplay))]
    /\ gameReplay' = Tail(gameReplay)
    /\ UNCHANGED << gamePc, gameServer, gameParams, gameState, gamePeer,
                    gameSession, gameBase, gameInbox, kills, files, daemons,
                    opened, highest, dropped, spoiled >>

\* current_state = kNone: the hooks let the network's packets through again ...
ReplayEnds ==
    /\ gamePc = "replaying"
    /\ gameReplay = << >>
    /\ gamePc' = "resuming"
    /\ UNCHANGED << gameServer, gameParams, gameState, gamePeer, gameSession,
                    gameBase, gameInbox, gameReplay, kills, files, daemons, history >>

\* Mutant of Resume: the base index is not restored.
ResumeAtZero ==
    /\ gamePc = "resuming"
    /\ gameBase' = 0
    /\ gamePc' = "playing"
    /\ UNCHANGED << gameServer, gameParams, gameState, gamePeer, gameSession,
                    gameInbox, gameReplay, kills, files, daemons, history >>

\* ... and the reliability layer gets the indexes of the session.
Resume ==
    /\ gamePc = "resuming"
    /\ gameBase' = gameParams.base
    /\ gamePc' = "playing"
    /\ UNCHANGED << gameServer, gameParams, gameState, gamePeer, gameSession,
                    gameInbox, gameReplay, kills, files, daemons, history >>

\* An exception in process_update: update_hook falls back to a new connection.
RestoreFails ==
    /\ gamePc \in { "restoring", "handshake", "asking", "replaying", "resuming" }
    /\ gamePc' = "idle"
    /\ gameSession' = 0
    /\ gameInbox' = << >>
    /\ gameReplay' = << >>
    /\ UNCHANGED << gameServer, gameParams, gameState, gamePeer, gameBase, kills,
                    files, daemons, history >>

-----------------------------------------------------------------------------
(* The game plays.                                                         *)

\* Mutant of GameTakes: the base index goes one too far.
GameTakesPast(m) ==
    /\ gamePc \in { "playing", "resuming" }
    /\ Arrives(gameSession, m, gameBase)
    /\ gameBase' = m + 1
    /\ gameInbox' = Append(gameInbox, m)
    /\ Higher(gameSession, m)
    /\ spoiled' = IF gamePc = "resuming" THEN spoiled \cup { gameSession } ELSE spoiled
    /\ UNCHANGED << gamePc, gameServer, gameParams, gameState, gamePeer,
                    gameSession, gameReplay, kills, files, daemons, opened,
                    applied, dropped >>

\* The network thread takes message m.  Before current_state is kNone again
\* process_packet_hook lets nothing through; between that and the restoring of
\* the indexes the layer decides by a base index that is not the session's.
GameTakes(m) ==
    /\ gamePc \in { "playing", "resuming" }
    /\ Arrives(gameSession, m, gameBase)
    /\ gameBase' = IF m = gameBase + 1 THEN m ELSE gameBase
    /\ gameInbox' = Append(gameInbox, m)
    /\ Higher(gameSession, m)
    /\ spoiled' = IF gamePc = "resuming" THEN spoiled \cup { gameSession } ELSE spoiled
    /\ UNCHANGED << gamePc, gameServer, gameParams, gameState, gamePeer,
                    gameSession, gameReplay, kills, files, daemons, opened,
                    applied, dropped >>

GameHandles ==
    /\ gamePc = "playing"
    /\ gameInbox # << >>
    /\ applied' = [applied EXCEPT ![gameSession] = Append(@, Head(gameInbox))]
    /\ gameInbox' = Tail(gameInbox)
    /\ UNCHANGED << gamePc, gameServer, gameParams, gameState, gamePeer,
                    gameSession, gameBase, gameReplay, kills, files, daemons,
                    opened, highest, dropped, spoiled >>

-----------------------------------------------------------------------------
(* The game quits or crashes.                                              *)

\* What the end of the game's process leaves behind: nothing.
GameGone ==
    /\ gamePc' = "off"
    /\ gameParams' = NoParams
    /\ gameState' = 0
    /\ gamePeer' = NoDaemon
    /\ gameSession' = 0
    /\ gameBase' = 0
    /\ gameInbox' = << >>
    /\ gameReplay' = << >>

\* The process is terminated, or quits with a timeout of zero.
KillGame ==
    /\ gamePc # "off"
    /\ kills < Kills
    /\ kills' = kills + 1
    /\ GameGone
    /\ UNCHANGED << gameServer, files, daemons, history >>

Connected == { "playing", "handshake", "asking", "replaying", "resuming" }

\* save_samp_state while the dump of another server's session lies there: the
\* game ends without a word.
LeaveUnsaved ==
    /\ gamePc \in Connected
    /\ dump # NoDump /\ dump.server # gameServer
    /\ GameGone
    /\ UNCHANGED << gameServer, kills, files, daemons, history >>

\* save_samp_state up to the writing of the dump: RakNet is stopped, which frees
\* the packets not handled, and what the layer counts by is put into rak_state.
Save ==
    /\ gamePc \in Connected
    /\ dump = NoDump \/ dump.server = gameServer
    /\ gamePc' = "saving"
    /\ gameSession' = 0
    /\ gameInbox' = << >>
    /\ gameParams' = [session |-> gameSession, base |-> gameBase]
    /\ dropped' = [dropped EXCEPT ![gameSession] =
                     @ \cup Elements(gameInbox) \cup Elements(gameReplay)]
    /\ gameReplay' = << >>
    /\ spoiled' = IF gamePc = "playing" THEN spoiled ELSE spoiled \cup { gameSession }
    /\ UNCHANGED << gameServer, gameState, gamePeer, gameBase, kills, files,
                    daemons, opened, highest, applied >>

WriteDump ==
    /\ gamePc = "saving"
    /\ dump' = [server |-> gameServer, session |-> gameState]
    /\ gamePc' = "saved"
    /\ UNCHANGED << gameServer, gameParams, gameState, gamePeer, gameSession,
                    gameBase, gameInbox, gameReplay, kills, portFile, daemons, history >>

\* start_subprocess: the game waits for the daemon to connect.
StartDaemon(d) ==
    /\ gamePc = "saved"
    /\ mainPc[d] = "none"
    /\ mainPc' = [mainPc EXCEPT ![d] = "starting"]
    /\ gamePc' = "serving"
    /\ UNCHANGED << gameServer, gameParams, gameState, gamePeer, gameSession,
                    gameBase, gameInbox, gameReplay, kills, files, threadPc, stop,
                    params, net, base, inbox, rpcQueue, history >>

-----------------------------------------------------------------------------
(* The daemon's main thread.                                               *)

\* recv_startup_parameters: the game sends rak_state, and quits.
ReceiveParameters(d) ==
    /\ mainPc[d] = "starting"
    /\ gamePc = "serving"
    /\ params' = [params EXCEPT ![d] = gameParams]
    /\ mainPc' = [mainPc EXCEPT ![d] = "connecting"]
    /\ GameGone
    /\ UNCHANGED << gameServer, kills, files, threadPc, stop, net, base, inbox,
                    rpcQueue, history >>

\* The game was killed before it had sent anything: rak_state stays empty.
ReceiveNothing(d) ==
    /\ mainPc[d] = "starting"
    /\ gamePc # "serving"
    /\ mainPc' = [mainPc EXCEPT ![d] = "connecting"]
    /\ UNCHANGED << game, files, threadPc, stop, params, net, base, inbox,
                    rpcQueue, history >>

\* Connect returns true at last: the port is open, the network thread begins the
\* handshake, and the daemon thread is started.
ConnectDaemon(d) ==
    /\ mainPc[d] = "connecting"
    /\ mainPc' = [mainPc EXCEPT ![d] = "loop"]
    /\ threadPc' = [threadPc EXCEPT ![d] = "opening"]
    /\ net' = [net EXCEPT ![d] = IF params[d] = NoParams THEN "closed" ELSE "handshake"]
    /\ UNCHANGED << game, files, stop, params, base, inbox, rpcQueue, history >>

\* Mutant of JoinSession: the base index is not restored.
JoinSessionAtZero(d) ==
    /\ Alive(d)
    /\ net[d] = "handshake"
    /\ net' = [net EXCEPT ![d] = "joined"]
    /\ base' = [base EXCEPT ![d] = 0]
    /\ UNCHANGED << game, files, mainPc, threadPc, stop, params, inbox, rpcQueue, history >>

\* OnSendImmediate ends the handshake and restores the indexes, all in the
\* network thread.
JoinSession(d) ==
    /\ Alive(d)
    /\ net[d] = "handshake"
    /\ net' = [net EXCEPT ![d] = "joined"]
    /\ base' = [base EXCEPT ![d] = params[d].base]
    /\ UNCHANGED << game, files, mainPc, threadPc, stop, params, inbox, rpcQueue, history >>

DaemonTakes(d, m) ==
    /\ Alive(d)
    /\ net[d] = "joined"
    /\ Arrives(params[d].session, m, base[d])
    /\ base' = [base EXCEPT ![d] = IF m = @ + 1 THEN m ELSE @]
    /\ inbox' = [inbox EXCEPT ![d] = Append(@, m)]
    /\ Higher(params[d].session, m)
    /\ UNCHANGED << game, files, mainPc, threadPc, stop, params, net, rpcQueue,
                    opened, applied, dropped, spoiled >>

\* while (!stop)
Loop(d) ==
    /\ mainPc[d] = "loop"
    /\ mainPc' = [mainPc EXCEPT ![d] = IF stop[d] THEN "joining" ELSE "body"]
    /\ UNCHANGED << game, files, threadPc, stop, params, net, base, inbox,
                    rpcQueue, history >>

\* Mutant of Drain: the RPCs are handled but not put on rpc_queue.
DrainLeft(d) ==
    /\ mainPc[d] = "body"
    /\ net[d] # "closed"
    /\ inbox[d] # << >>
    /\ inbox' = [inbox EXCEPT ![d] = Tail(@)]
    /\ UNCHANGED << game, files, mainPc, threadPc, stop, params, net, base,
                    rpcQueue, history >>

\* Receive, which finds nothing once RakNet is stopped, and OnRpcReceive.
Drain(d) ==
    /\ mainPc[d] = "body"
    /\ net[d] # "closed"
    /\ inbox[d] # << >>
    /\ rpcQueue' = [rpcQueue EXCEPT ![d] = Append(@, Head(inbox[d]))]
    /\ inbox' = [inbox EXCEPT ![d] = Tail(@)]
    /\ UNCHANGED << game, files, mainPc, threadPc, stop, params, net, base, history >>

\* Not yet timed out: sleep, and again.
Sleep(d) ==
    /\ mainPc[d] = "body"
    /\ net[d] = "closed" \/ inbox[d] = << >>
    /\ mainPc' = [mainPc EXCEPT ![d] = "loop"]
    /\ UNCHANGED << game, files, threadPc, stop, params, net, base, inbox,
                    rpcQueue, history >>

\* Mutant of Expire: the dump stays.
ExpireQuiet(d) ==
    /\ mainPc[d] = "body"
    /\ net[d] = "closed" \/ inbox[d] = << >>
    /\ UNCHANGED dump
    /\ mainPc' = [mainPc EXCEPT ![d] = "expired"]
    /\ UNCHANGED << game, portFile, threadPc, stop, params, net, base, inbox,
                    rpcQueue, history >>

\* Timed out: the dump, whoever wrote it, is removed ...
Expire(d) ==
    /\ mainPc[d] = "body"
    /\ net[d] = "closed" \/ inbox[d] = << >>
    /\ dump' = NoDump
    /\ mainPc' = [mainPc EXCEPT ![d] = "expired"]
    /\ UNCHANGED << game, portFile, threadPc, stop, params, net, base, inbox,
                    rpcQueue, history >>

\* Mutant of Leave: the process goes on.
LeaveNever(d) ==
    /\ mainPc[d] = "expired"
    /\ mainPc' = [mainPc EXCEPT ![d] = "loop"]
    /\ UNCHANGED << game, files, threadPc, stop, params, net, base, inbox, rpcQueue, history >>

\* ... and the process ends, whatever the daemon thread was at.
Leave(d) ==
    /\ mainPc[d] = "expired"
    /\ mainPc' = [mainPc EXCEPT ![d] = "left"]
    /\ net' = [net EXCEPT ![d] = "closed"]
    /\ UNCHANGED << game, files, threadPc, stop, params, base, inbox, rpcQueue, history >>

\* The daemon thread is joined and main returns.
End(d) ==
    /\ mainPc[d] = "joining"
    /\ threadPc[d] = "finished"
    /\ mainPc' = [mainPc EXCEPT ![d] = "ended"]
    /\ UNCHANGED << game, files, threadPc, stop, params, net, base, inbox,
                    rpcQueue, history >>

-----------------------------------------------------------------------------
(* The daemon thread.                                                      *)

Thread(d, from, to) ==
    /\ Alive(d)
    /\ threadPc[d] = from
    /\ threadPc' = [threadPc EXCEPT ![d] = to]

\* The server listens, and its port goes to the file.
PublishPort(d) ==
    /\ Thread(d, "opening", "listening")
    /\ portFile' = d
    /\ UNCHANGED << game, dump, mainPc, stop, params, net, base, inbox, rpcQueue, history >>

Accept(d) ==
    /\ Thread(d, "listening", "accepted")
    /\ gamePc = "connected" /\ gamePeer = d
    /\ gamePc' = "accepted"
    /\ UNCHANGED << gameServer, gameParams, gameState, gamePeer, gameSession,
                    gameBase, gameInbox, gameReplay, kills, files, mainPc, stop,
                    params, net, base, inbox, rpcQueue, history >>

Stop(d) ==
    /\ Thread(d, "accepted", "stopping")
    /\ stop' = [stop EXCEPT ![d] = TRUE]
    /\ UNCHANGED << game, files, mainPc, params, net, base, inbox, rpcQueue, history >>

\* Mutant of DisconnectDaemon: the port stays open.
DisconnectDaemonOpen(d) ==
    /\ Thread(d, "stopping", "disconnected")
    /\ inbox' = [inbox EXCEPT ![d] = << >>]
    /\ LET s == params[d].session
       IN  IF s = 0 THEN UNCHANGED << dropped, spoiled >>
           ELSE /\ dropped' = [dropped EXCEPT ![s] = @ \cup Elements(inbox[d])]
                /\ spoiled' = IF net[d] = "handshake" THEN spoiled \cup { s } ELSE spoiled
    /\ UNCHANGED << game, files, mainPc, stop, params, net, base, rpcQueue, opened,
                    highest, applied >>

\* Disconnect(0, 0): the port is closed and the packets not drained are freed.
DisconnectDaemon(d) ==
    /\ Thread(d, "stopping", "disconnected")
    /\ net' = [net EXCEPT ![d] = "closed"]
    /\ inbox' = [inbox EXCEPT ![d] = << >>]
    /\ LET s == params[d].session
       IN  IF s = 0 THEN UNCHANGED << dropped, spoiled >>
           ELSE /\ dropped' = [dropped EXCEPT ![s] = @ \cup Elements(inbox[d])]
                /\ spoiled' = IF net[d] = "handshake" THEN spoiled \cup { s } ELSE spoiled
    /\ UNCHANGED << game, files, mainPc, stop, params, base, rpcQueue, opened,
                    highest, applied >>

\* The indexes of the layer are put into rak_state, which goes to the game.
SendParameters(d) ==
    /\ Thread(d, "disconnected", "sent")
    /\ params' = [params EXCEPT ![d].base = base[d]]
    /\ UNCHANGED << game, files, mainPc, stop, net, base, inbox, rpcQueue, history >>

\* Mutant of SendRpcs: the mark that ends the RPCs is not sent.
SendRpcsUnended(d) ==
    /\ Thread(d, "sent", "finished")
    /\ gamePc = "asking" /\ gamePeer = d
    /\ gameReplay' = rpcQueue[d]
    /\ UNCHANGED << gamePc, gameServer, gameParams, gameState, gamePeer, gameSession,
                    gameBase, gameInbox, kills, files, mainPc, stop, params, net,
                    base, inbox, rpcQueue, history >>

\* send_rpcs waits for the game to ask and sends the queue.
SendRpcs(d) ==
    /\ Thread(d, "sent", "finished")
    /\ gamePc = "asking" /\ gamePeer = d
    /\ gameReplay' = rpcQueue[d]
    /\ gamePc' = "replaying"
    /\ UNCHANGED << gameServer, gameParams, gameState, gamePeer, gameSession,
                    gameBase, gameInbox, kills, files, mainPc, stop, params, net,
                    base, inbox, rpcQueue, history >>

-----------------------------------------------------------------------------

GameStep ==
    \/ \E v \in Servers : StartGame(v)
    \/ SampInit \/ ReceiveStartupData
    \/ ConnectFresh \/ ConnectRestored
    \/ AskRpcs \/ Replay \/ ReplayEnds \/ Resume \/ RestoreFails
    \/ \E m \in Messages : GameTakes(m)
    \/ GameHandles
    \/ KillGame \/ LeaveUnsaved \/ Save \/ WriteDump
    \/ \E d \in Daemons : StartDaemon(d)

MainStep(d) ==
    \/ ReceiveParameters(d) \/ ReceiveNothing(d)
    \/ ConnectDaemon(d)
    \/ Loop(d) \/ Drain(d) \/ Sleep(d)
    \/ Expire(d) \/ Leave(d) \/ End(d)

NetworkStep(d) == JoinSession(d) \/ \E m \in Messages : DaemonTakes(d, m)

ThreadStep(d) ==
    \/ PublishPort(d) \/ Accept(d) \/ Stop(d) \/ DisconnectDaemon(d)
    \/ SendParameters(d) \/ SendRpcs(d)

Next == GameStep \/ \E d \in Daemons : MainStep(d) \/ NetworkStep(d) \/ ThreadStep(d)

Spec == Init /\ [][Next]_vars

\* Both threads of a daemon keep running, as does the game's while it restores;
\* a daemon's Connect succeeds at last, and its time runs out at last.
Fairness ==
    /\ WF_vars(SampInit) /\ WF_vars(ReceiveStartupData)
    /\ WF_vars(ConnectRestored) /\ WF_vars(AskRpcs)
    /\ \A d \in Daemons :
          /\ WF_vars(ReceiveParameters(d)) /\ WF_vars(ReceiveNothing(d))
          /\ WF_vars(ConnectDaemon(d)) /\ WF_vars(Loop(d)) /\ WF_vars(Drain(d))
          /\ WF_vars(Sleep(d)) /\ SF_vars(Expire(d)) /\ WF_vars(Leave(d))
          /\ WF_vars(End(d))
          /\ WF_vars(ThreadStep(d))

FairSpec == Spec /\ Fairness

-----------------------------------------------------------------------------
(* Properties.                                                             *)

\* The type invariant: every variable has the shape its declaration gives it.
TypeOK ==
    /\ gamePc \in { "off", "booting", "connected", "accepted", "idle", "restoring",
                    "saving", "saved", "serving" } \cup Connected
    /\ gameServer \in Servers
    /\ gameParams \in Params
    /\ gameState \in 0..MaxSessions
    /\ gamePeer \in Daemons \cup { NoDaemon }
    /\ gameSession \in 0..MaxSessions
    /\ gameBase \in 0..MaxMessages
    /\ gameInbox \in Seq(Messages)
    /\ gameReplay \in Seq(Messages)
    /\ kills \in 0..Kills
    /\ dump = NoDump \/ dump \in [server : Servers, session : Sessions]
    /\ portFile \in Daemons \cup { NoDaemon }
    /\ mainPc \in [Daemons -> { "none", "starting", "connecting", "loop", "body",
                                "joining", "expired", "left", "ended" }]
    /\ threadPc \in [Daemons -> { "none", "opening", "listening", "accepted", "stopping",
                                  "disconnected", "sent", "finished" }]
    /\ stop \in [Daemons -> BOOLEAN]
    /\ params \in [Daemons -> Params]
    /\ net \in [Daemons -> { "closed", "handshake", "joined" }]
    /\ base \in [Daemons -> 0..MaxMessages]
    /\ inbox \in [Daemons -> Seq(Messages)]
    /\ rpcQueue \in [Daemons -> Seq(Messages)]
    /\ opened \in 0..MaxSessions
    /\ highest \in [Sessions -> 0..MaxMessages]
    /\ applied \in [Sessions -> Seq(Messages)]
    /\ dropped \in [Sessions -> SUBSET Messages]
    /\ spoiled \subseteq Sessions

\* Never do two processes have the port of one session open: each closes it
\* before it lets the next one know of the session.
OneSpeaker ==
    \A s \in Sessions :
        LET speakers == { d \in Daemons : net[d] # "closed" /\ params[d].session = s }
        IN  /\ Cardinality(speakers) <= 1
            /\ gameSession = s => speakers = {}

\* As long as a session's indexes are carried over, no RPC of it is handled
\* twice or out of order, whichever processes it came through.
HandledInOrder ==
    \A s \in Sessions \ spoiled :
        \A m, n \in 1..Len(applied[s]) : m < n => applied[s][m] < applied[s][n]

\* Of what the server sent up to the base index of a game that plays, each RPC
\* was handled, or is about to be, or was freed unhandled by a Disconnect:
\* what a daemon has drained into rpc_queue is never lost on the way back.
Accounted ==
    gamePc = "playing" /\ gameSession \notin spoiled
    => \A m \in 1..gameBase :
          m \in Elements(applied[gameSession]) \cup Elements(gameInbox)
                \cup dropped[gameSession]

\* Session s as a queue from the server to the game: what was taken and not handled
\* or freed waits, in whatever process holds it, or is lost with that process.
Session(s) == INSTANCE PacketFifo
                  WITH pending  <- 1..highest[s] \ (Elements(applied[s]) \cup dropped[s]),
                       returned <- applied[s],
                       freed    <- dropped[s]

\* As long as a session's indexes are carried over, games and daemons together
\* implement one queue: each RPC the server sent is taken once, and the game handles
\* the oldest of those waiting or a Disconnect frees some, and no RPC does both.
SessionIsFifo ==
    /\ \A s \in Sessions : Session(s)!FifoInit
    /\ [][\A s \in Sessions \ spoiled' :
              [Session(s)!FifoNext]_(Session(s)!fifoVars)]_vars

\* A dump found by a game that may restore it has a daemon behind it that holds
\* the session it belongs to.  (Only for games that end by their handler.)
DumpHasDaemon ==
    gamePc = "off" /\ dump # NoDump
    => \E d \in Daemons : Alive(d) /\ params[d].session = dump.session

\* The state restored and the session restored belong together.
StateFitsSession ==
    gamePc \in { "handshake", "asking", "replaying", "resuming", "playing" }
    => gameState = gameSession

\* The daemon thread waits in send_rpcs for a game that will not ask any more: it
\* has ended, or has fallen back to a connection of its own.
Abandoned(d) ==
    /\ threadPc[d] = "sent"
    /\ ~(gamePeer = d /\ gamePc \in { "accepted", "restoring", "handshake", "asking" })

\* Every daemon ends at last, by handing its session back or by its timeout,
\* unless the game it handed the session to leaves it waiting in send_rpcs.
DaemonEnds ==
    \A d \in Daemons : Alive(d) ~> ~Alive(d) \/ Abandoned(d)

\* A game that waits for a daemon gets its answer, unless the daemon's time runs
\* out in the very iteration of its loop in which the game came.
GameIsAnswered ==
    \A d \in Daemons :
        gamePeer = d /\ gamePc \in { "connected", "accepted", "asking" }
            ~> \/ gamePc \notin { "connected", "accepted", "asking" }
               \/ mainPc[d] \in { "expired", "left" }

-----------------------------------------------------------------------------
\* For TLC's SYMMETRY: any two daemons may be exchanged, which is sound where no
\* liveness is checked.
AnyDaemon ==
    { [x \in Daemons |-> IF x = d THEN e ELSE IF x = e THEN d ELSE x] : d, e \in Daemons }

=============================================================================
