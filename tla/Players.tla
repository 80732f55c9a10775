------------------------------ MODULE Players ------------------------------
(***************************************************************************)
(* What the clients of a RakServer know of each other (rakserver.cpp,      *)
(* RakClient.cpp): each Receive of the server sends out what is due, pings *)
(* every thirty seconds, seeds of a random number every nine, and relays   *)
(* arrivals, departures and static data; each Receive of a client keeps    *)
(* them in otherClients.  All of it is sent RELIABLE: once, in no order.   *)
(***************************************************************************)
EXTENDS Integers, Sequences, FiniteSets, SequencesExt

CONSTANTS
    Clients,        \* players, by number
    Slots,          \* entries of otherClients: 32
    PingPeriod,     \* pings are broadcast as often: 30 seconds
    SeedPeriod,     \* and seeds: 9 seconds
    Settings,       \* what the server is set to do: records of pings, seeds and relay
    MaxTime,        \* bound of the clock, which both sides read
    MaxArrivals,    \* bound: connections
    MaxData         \* bound: static data a client has had

VARIABLES
    server,     \* the server, its packet queue, its buffered sends
    clients,    \* of each client: its own data, otherClients, its seeds
    past        \* history

vars == << server, clients, past >>

Nobody == 0
Empty == 0                                            \* static data nobody wrote
Free == [ isActive |-> FALSE, playerId |-> Nobody, staticData |-> Empty, ping |-> 0 ]
NewClient == [ others |-> [ i \in 1 .. Slots |-> Free ], localStaticData |-> 1,
               seed |-> 0, nextSeed |-> 0, nextSeedUpdate |-> 0 ]

\* Seeds are named by when they are drawn; Start draws two.
Init ==
    /\ \E settings \in Settings :
         server = [ settings |-> settings, time |-> 1, broadcastPingsTime |-> 0, nextSeedUpdate |-> 0,
                    seed |-> 1, nextSeed |-> 2, active |-> {}, connected |-> {},
                    staticData |-> [ c \in Clients |-> Empty ],
                    packets |-> << >>, commands |-> << >>,
                    up |-> [ c \in Clients |-> {} ],          \* on the way to the server
                    down |-> [ c \in Clients |-> << >> ] ]    \* and to each client
    /\ clients = [ c \in Clients |-> NewClient ]
    /\ past = [ arrivals |-> 0, overtaken |-> {}, silent |-> {}, behind |-> {} ]

-----------------------------------------------------------------------------
(* The network thread of the server *)

\* A client connects: it has a slot before it is connected, and sends that it is
\* and its data when it is accepted.
Arrive(c) ==
    /\ c \notin server.active
    /\ past.arrivals < MaxArrivals
    /\ server' = [ server EXCEPT !.active = @ \cup { c }, !.staticData[c] = Empty,
                     !.up[c] = { "ID_NEW_INCOMING_CONNECTION", "ID_RECEIVED_STATIC_DATA" } ]
    /\ clients' = [ clients EXCEPT ![c].others = NewClient.others ]    \* RakClient::Connect
    /\ past' = [ past EXCEPT !.arrivals = @ + 1 ]

Packet(kind, c) == [ kind |-> kind, player |-> c, data |-> clients[c].localStaticData ]

\* What c sent arrives, in any order.
Deliver(c) ==
    /\ \E kind \in server.up[c] :
         server' = [ server EXCEPT !.up[c] = @ \ { kind }, !.packets = Append(@, Packet(kind, c)),
                       !.connected = IF kind = "ID_NEW_INCOMING_CONNECTION" THEN @ \cup { c } ELSE @,
                       !.staticData[c] = IF kind = "ID_RECEIVED_STATIC_DATA"
                                         THEN clients[c].localStaticData ELSE @ ]
    /\ UNCHANGED << clients, past >>

\* A client leaves or is lost.  The user hears of it if it was connected.
Leave(c) ==
    /\ c \in server.active
    /\ server' = [ server EXCEPT
         !.active = @ \ { c }, !.connected = @ \ { c }, !.up[c] = {}, !.down[c] = << >>,
         !.packets = IF c \in server.connected THEN Append(@, Packet("ID_CONNECTION_LOST", c)) ELSE @ ]
    /\ past' = [ past EXCEPT !.silent = IF c \in server.connected THEN @ ELSE @ \cup { c } ]
    /\ UNCHANGED clients

\* RunUpdateCycle: the buffered sends, each to those that are active by now.
Targets(s, command) ==
    { c \in s.active : IF command.broadcast THEN c # command.player ELSE c = command.player }
Sent(s, command) ==
    [ s EXCEPT !.down = [ c \in Clients |->
        IF c \in Targets(s, command) THEN Append(@[c], command.message) ELSE @[c] ] ]
SendImmediate ==
    /\ server.commands # << >>
    /\ server' = [ FoldLeft(Sent, server, server.commands) EXCEPT !.commands = << >> ]
    /\ UNCHANGED << clients, past >>

-----------------------------------------------------------------------------
(* RakServer::Receive *)

To(c, message) == [ player |-> c, broadcast |-> FALSE, message |-> message ]
ToAllBut(c, message) == [ player |-> c, broadcast |-> TRUE, message |-> message ]

\* A message, with the players it is about.
About(kind, players, data) == [ kind |-> kind, players |-> players, data |-> data ]
StaticData(c, data) == About("ID_REMOTE_STATIC_DATA", { c }, data)

Kind(packet) == IF packet = << >> THEN "none" ELSE packet[1].kind
From(packet) == IF packet = << >> THEN Nobody ELSE packet[1].player

\* The time of a system that is written is the oldest of its ring, here named by
\* when it is broadcast.
BroadcastPings(packet) ==
    LET due == server.settings.pings
               /\ (server.time > server.broadcastPingsTime \/ Kind(packet) = "ID_RECEIVED_STATIC_DATA")
        message == About("ID_BROADCAST_PINGS", server.active, server.time)
    IN  IF ~due \/ server.active = {} THEN << >>
        ELSE IF Kind(packet) = "ID_NEW_INCOMING_CONNECTION" THEN << To(From(packet), message) >>
        ELSE << ToAllBut(Nobody, message) >>

SeedsDue(packet) ==
    server.settings.seeds
    /\ (server.time > server.nextSeedUpdate \/ Kind(packet) = "ID_NEW_INCOMING_CONNECTION")

BroadcastSeeds(packet) ==
    LET message == About("ID_SET_RANDOM_NUMBER_SEED", {}, << server.time, server.nextSeed, server.nextSeed + 1 >>)
    IN  IF ~SeedsDue(packet) THEN << >>
        ELSE IF Kind(packet) = "ID_NEW_INCOMING_CONNECTION" THEN << To(From(packet), message) >>
        ELSE << ToAllBut(Nobody, message) >>

\* What one that is new is told of each that is there.
Existing(c, other) ==
    IF server.settings.relay THEN << To(c, StaticData(other, server.staticData[other])) >> ELSE << >>

\* ID_REMOTE_NEW_INCOMING_CONNECTION and ID_REMOTE_EXISTING_CONNECTION, which
\* clients only pass on to their users, are left out.
Relays(packet) ==
    LET c == From(packet)
        others == SetToSortSeq(server.active \ { c }, LAMBDA a, b : a < b)
    IN  CASE Kind(packet) = "ID_RECEIVED_STATIC_DATA" ->
               IF server.settings.relay THEN << ToAllBut(c, StaticData(c, packet[1].data)) >> ELSE << >>
          [] Kind(packet) = "ID_CONNECTION_LOST" ->
               << ToAllBut(c, About("ID_REMOTE_CONNECTION_LOST", { c }, Empty)) >>
          [] Kind(packet) = "ID_NEW_INCOMING_CONNECTION" ->
               FoldLeft(LAMBDA sends, other : sends \o Existing(c, other), << >>, others)
          [] OTHER -> << >>

\* The server's user asks for a packet, whether or not there is one.
ServerReceive ==
    LET packet == IF server.packets = << >> THEN << >> ELSE << Head(server.packets) >>
        seeds == SeedsDue(packet)
        sends == BroadcastPings(packet) \o BroadcastSeeds(packet) \o Relays(packet)
        new == Kind(packet) = "ID_NEW_INCOMING_CONNECTION"
    IN  /\ server.commands = << >>      \* bounds: the sends of one Receive wait at a time,
        /\ \A c \in Clients : Len(server.down[c]) <= 1     \* and clients take what they are sent
        /\ packet # << >> \/ sends # << >>
        /\ server' = [ server EXCEPT
             !.packets = IF packet = << >> THEN @ ELSE Tail(@),
             !.commands = @ \o sends,
             !.broadcastPingsTime =
                IF server.settings.pings /\ server.time > @ THEN server.time + PingPeriod ELSE @,
             !.nextSeedUpdate = IF seeds /\ server.time > @ THEN server.time + SeedPeriod ELSE @,
             !.seed = IF seeds THEN server.nextSeed ELSE @,
             !.nextSeed = IF seeds THEN @ + 1 ELSE @ ]
        /\ past' = [ past EXCEPT !.behind =
                       IF ~seeds THEN @ ELSE IF new THEN (@ \cup Clients) \ { From(packet) } ELSE {} ]
        /\ UNCHANGED clients

-----------------------------------------------------------------------------
(* RakClient::Receive *)

\* GetOtherClientIndexByPlayerID, active or not, and GetFreeOtherClientIndex.
IndexOf(others, p) == { i \in 1 .. Slots : others[i].playerId = p }
FreeIndex(others) ==
    LET free == { i \in 1 .. Slots : ~others[i].isActive }
    IN  { i \in free : \A j \in free : i <= j }
IndexFor(others, p) == IF IndexOf(others, p) # {} THEN IndexOf(others, p) ELSE FreeIndex(others)

Departed(others, p) ==
    [ i \in 1 .. Slots |-> IF i \in IndexOf(others, p) THEN [ others[i] EXCEPT !.isActive = FALSE ] ELSE others[i] ]

WithStaticData(others, p, data) ==
    [ i \in 1 .. Slots |->
        IF i \in IndexFor(others, p)
        THEN [ isActive |-> TRUE, playerId |-> p, staticData |-> data, ping |-> others[i].ping ]
        ELSE others[i] ]

\* One player of a broadcast of pings.
WithPing(others, p, ping) ==
    [ i \in 1 .. Slots |->
        IF i \notin IndexFor(others, p) THEN others[i]
        ELSE IF IndexOf(others, p) # {} THEN [ others[i] EXCEPT !.ping = ping ]
        ELSE [ isActive |-> TRUE, playerId |-> p, staticData |-> Empty, ping |-> ping ] ]

Handled(client, m) ==
    LET players == SetToSortSeq(m.players, LAMBDA a, b : a < b)
    IN  CASE m.kind = "ID_REMOTE_CONNECTION_LOST" ->
               [ client EXCEPT !.others = Departed(@, players[1]) ]
          [] m.kind = "ID_REMOTE_STATIC_DATA" ->
               [ client EXCEPT !.others = WithStaticData(@, players[1], m.data) ]
          [] m.kind = "ID_BROADCAST_PINGS" ->
               [ client EXCEPT !.others = FoldLeft(LAMBDA o, p : WithPing(o, p, m.data), @, players) ]
          [] m.kind = "ID_SET_RANDOM_NUMBER_SEED" ->
               [ client EXCEPT !.nextSeedUpdate = m.data[1] + SeedPeriod,
                               !.seed = m.data[2], !.nextSeed = m.data[3] ]
          [] OTHER -> client

\* The i-th message on its way: it may overtake those before it.
ClientReceive(c, i) ==
    /\ i <= 2                          \* bound: one that it overtakes
    /\ LET m == server.down[c][i]
           earlier == { j \in 1 .. i - 1 : server.down[c][j].players \cap m.players # {}
                                             \/ server.down[c][j].kind = m.kind }
       IN  /\ clients' = [ clients EXCEPT ![c] = Handled(@, m) ]
           /\ server' = [ server EXCEPT !.down[c] = RemoveAt(@, i) ]
           /\ past' = [ past EXCEPT !.overtaken = IF earlier = {} THEN @ ELSE @ \cup { c } ]

\* SetStaticClientData of its own, and SendStaticClientDataToServer.
SetStaticClientData(c) ==
    /\ c \in server.active
    /\ server.up[c] = {}
    /\ clients[c].localStaticData < MaxData
    /\ clients' = [ clients EXCEPT ![c].localStaticData = @ + 1 ]
    /\ server' = [ server EXCEPT !.up[c] = { "ID_RECEIVED_STATIC_DATA" } ]
    /\ UNCHANGED past

Tick ==
    /\ server.time < MaxTime
    /\ server' = [ server EXCEPT !.time = @ + 1 ]
    /\ UNCHANGED << clients, past >>

Next ==
    \/ \E c \in Clients : Arrive(c) \/ Deliver(c) \/ Leave(c) \/ SetStaticClientData(c)
    \/ SendImmediate \/ ServerReceive
    \/ \E c \in Clients : \E i \in DOMAIN server.down[c] : ClientReceive(c, i)
    \/ Tick

-----------------------------------------------------------------------------
GetSynchronizedRandomInteger(c) ==
    IF server.time > clients[c].nextSeedUpdate THEN clients[c].nextSeed ELSE clients[c].seed

\* Nothing is on its way to client c, or waits to be.
Quiet(c) ==
    /\ c \in server.connected
    /\ server.packets = << >> /\ server.commands = << >>
    /\ \A d \in Clients : server.up[d] = {}
    /\ server.down[c] = << >>

\* A client to which nothing arrived out of order knows, when nothing is on its
\* way, the static data of all others that are there, and no more of those that
\* left, if they had been connected; and its random number is the server's,
\* unless somebody else has come since it was told: only the newcomer is.
Faithful ==
    \A c \in Clients : Quiet(c) /\ c \notin past.overtaken =>
        LET others == clients[c].others
            known == { i \in 1 .. Slots : others[i].isActive }
        IN  /\ server.settings.relay =>
                 \A d \in server.connected \ { c } :
                    \E i \in known : others[i].playerId = d /\ others[i].staticData = clients[d].localStaticData
            /\ \A i \in known : others[i].playerId \in server.active \cup past.silent
            /\ server.settings.seeds /\ server.time <= server.nextSeedUpdate =>
                 (GetSynchronizedRandomInteger(c) = server.seed <=>
                    \/ c \notin past.behind
                    \/ clients[c].nextSeed = server.seed /\ server.time > clients[c].nextSeedUpdate)

\* No player has two entries, in whatever order messages arrive; an entry that
\* was found by its ping alone has no data.
WellFormed ==
    \A c \in Clients, i, j \in 1 .. Slots :
        LET others == clients[c].others
        IN  /\ i # j /\ others[i].playerId = others[j].playerId => others[i].playerId = Nobody
            /\ others[i].isActive => others[i].playerId # Nobody
            /\ ~server.settings.relay => others[i].staticData = Empty
=============================================================================
