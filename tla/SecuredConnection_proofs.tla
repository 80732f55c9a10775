------------------------ MODULE SecuredConnection_proofs ------------------------
(***************************************************************************)
(* Machine-checked proofs about SecuredConnection, for any numbers drawn   *)
(* by the client, any number of cookies and any number of requests:        *)
(* whatever is lost, repeated or given up, an end encrypts with a key that *)
(* the client made, and the two with one key when there is one request.    *)
(***************************************************************************)
EXTENDS SecuredConnection, TLAPS

Numbers == Randoms \cup { 0 }
AESKeys == Int \X Numbers
Kinds == { "ID_CONNECTION_REQUEST", "ID_SECURED_CONNECTION_RESPONSE", "ID_SECURED_CONNECTION_CONFIRMATION",
           "ID_CONNECTION_REQUEST_ACCEPTED", "ID_NEW_INCOMING_CONNECTION", "ID_DISCONNECTION_NOTIFICATION" }
Messages == [ kind : Kinds, n : Int, cookie : Int, random : Numbers ]
Orders == [ to : { "client", "server" }, message : Messages ]
Datagrams == [ to : { "client", "server" }, message : Messages, key : AESKeys \cup { NoKey },
               eights : BOOLEAN ]
Modes == { "REQUESTED_CONNECTION", "UNVERIFIED_SENDER", "HANDLING_CONNECTION_REQUEST",
           "SET_ENCRYPTION_ON_MULTIPLE_16_BYTE_PACKET", "CONNECTED", "DISCONNECT_ASAP",
           "DISCONNECT_ASAP_SILENTLY", "DISCONNECT_ON_NO_ACK", "closed" }
Ends == [ connectMode : Modes, AESKey : AESKeys \cup { NoKey }, key : AESKeys \cup { NoKey } ]

TypeOK ==
    /\ link \in [ client : Ends, server : Ends, preset : { "same", "other" }, eights : BOOLEAN,
                  long : BOOLEAN, cookie : Int, requests : Nat \ { 0 },
                  outgoing : SUBSET Orders, wire : SUBSET Datagrams ]
    /\ past \in [ handled : SUBSET Messages, drawn : SUBSET AESKeys, used : SUBSET (AESKeys \cup { NoKey }),
                  early : BOOLEAN ]

\* The messages there have been.
Sent == { d.message : d \in link.wire } \cup { o.message : o \in link.outgoing } \cup past.handled

\* What comes of a request has its number, and a message that carries no number of
\* the exchange is told by its kind and that.
Numbered ==
    \A m \in Sent :
        /\ m.n \in 1 .. link.requests
        /\ m.kind \notin Unreliable => m = Plain(m.kind, m.n)

\* A request is answered once, so of one request the client makes one key.
AnsweredOnce ==
    /\ \A m \in Sent : m.kind = "ID_SECURED_CONNECTION_RESPONSE" =>
          Plain("ID_CONNECTION_REQUEST", m.n) \in past.handled
    /\ \A l, m \in Sent :
          /\ l.kind = "ID_SECURED_CONNECTION_RESPONSE" /\ m.kind = "ID_SECURED_CONNECTION_RESPONSE"
          /\ l.n = m.n
          => l = m
    /\ past.drawn # {} => \E m \in past.handled : m.kind = "ID_SECURED_CONNECTION_RESPONSE"
    /\ link.requests = 1 => \A j, k \in past.drawn : j = k

\* Every key, at an end or in a confirmation, is one the client made.
KeysAreDrawn ==
    /\ \A m \in Sent : m.kind = "ID_SECURED_CONNECTION_CONFIRMATION" => Key(m.cookie, m.random) \in past.drawn
    /\ Keys \subseteq past.drawn /\ past.used \subseteq past.drawn
    /\ past.drawn # {} => link.preset # "other"
    /\ past.drawn # {} /\ link.client.connectMode # "closed" => link.client.AESKey # NoKey

\* What was accepted gave the server a key.
ServerHasKey ==
    \A m \in Sent : m.kind = "ID_CONNECTION_REQUEST_ACCEPTED" =>
        /\ past.drawn # {}
        /\ link.server.connectMode # "closed" => link.server.AESKey # NoKey

\* The client encrypts from its first acceptance on.
ClientEncrypts ==
    /\ past.used # {} =>
          /\ link.long
          /\ link.client.connectMode # "closed" => link.client.key # NoKey
          /\ link.server.connectMode # "closed" => link.server.AESKey # NoKey
    /\ link.client.key # NoKey => link.client.key \in past.used
    /\ link.client.connectMode = "CONNECTED" => past.used # {}

\* What is encrypted on its way to the server is so with a key of the client's layer,
\* and the message that connects the server always is.
WireEncrypted ==
    /\ \A d \in link.wire : d.to = "server" =>
          /\ d.key # NoKey => d.key \in past.used
          /\ d.message.kind = "ID_NEW_INCOMING_CONNECTION" => d.key # NoKey
    /\ \A o \in link.outgoing : o.message.kind = "ID_NEW_INCOMING_CONNECTION" =>
          o.to = "server" /\ past.used # {}

ServerConnected == link.server.connectMode = "CONNECTED" => link.server.key \in past.used

KeyInv ==
    /\ Numbered /\ AnsweredOnce /\ KeysAreDrawn /\ ServerHasKey
    /\ ClientEncrypts /\ WireEncrypted /\ ServerConnected /\ WellFormed

-----------------------------------------------------------------------------
(* Parts of the state, and what the steps leave.                           *)

\* The two ends, what they have to send and what is sent.
LEMMA Parts ==
    ASSUME TypeOK
    PROVE  /\ link.client \in Ends /\ link.server \in Ends
           /\ link.wire \subseteq Datagrams /\ link.outgoing \subseteq Orders
           /\ link.cookie \in Int /\ link.requests \in Nat \ { 0 }
           /\ Sent \subseteq Messages /\ Refreshed \subseteq Int
           /\ past.handled \subseteq Sent
           /\ \A d \in link.wire : d \in Datagrams /\ d.message \in Sent /\ TurnedOn(d) \in Ends
           /\ \A o \in link.outgoing : o \in Orders /\ o.message \in Sent
  <1>1. /\ link.client \in Ends /\ link.server \in Ends
        /\ link.wire \subseteq Datagrams /\ link.outgoing \subseteq Orders
        /\ link.cookie \in Int /\ link.requests \in Nat \ { 0 }
        /\ past.handled \subseteq Messages
    BY DEF TypeOK
  <1>2. \A d \in link.wire : d.message \in Messages
    BY <1>1 DEF Datagrams
  <1>3. \A o \in link.outgoing : o.message \in Messages
    BY <1>1 DEF Orders
  <1>4. Sent \subseteq Messages /\ past.handled \subseteq Sent
    BY <1>1, <1>2, <1>3 DEF Sent
  <1>5. Refreshed \subseteq Int
    BY <1>1 DEF Refreshed
  <1>6. \A d \in link.wire : d.message \in Sent
    BY DEF Sent
  <1>7. \A o \in link.outgoing : o.message \in Sent
    BY DEF Sent
  <1>8. \A d \in link.wire : TurnedOn(d) \in Ends
    BY <1>1 DEF TurnedOn, Ends
  <1> QED
    BY <1>1, <1>4, <1>5, <1>6, <1>7, <1>8

LEMMA KeyIsNone ==
    \A c \in Int, r \in Numbers : Key(c, r) \in AESKeys /\ Key(c, r) # NoKey
  BY DEF Key, NoKey, AESKeys

LEMMA NoKeyIsNone == NoKey \notin AESKeys
  BY DEF NoKey, AESKeys

\* What a datagram does to the server's key before it is read.
LEMMA TurnedOnIs ==
    ASSUME TypeOK, NEW d \in link.wire
    PROVE  /\ TurnedOn(d).connectMode = link.server.connectMode
           /\ TurnedOn(d).AESKey = link.server.AESKey
           /\ TurnedOn(d).key \in { link.server.key, link.server.AESKey }
           /\ link.server.connectMode # "SET_ENCRYPTION_ON_MULTIPLE_16_BYTE_PACKET" =>
                 TurnedOn(d).key = link.server.key
  BY Parts DEF TurnedOn, Ends

LEMMA SendingIs ==
    ASSUME TypeOK, NEW end, NEW to, NEW message
    PROVE  /\ Sending(end, to, message)
                 \in { link.outgoing, link.outgoing \cup { [ to |-> to, message |-> message ] } }
           /\ to \in { "client", "server" } /\ message \in Messages =>
                 Sending(end, to, message) \subseteq Orders
  BY Parts DEF Sending, Orders

LEMMA PlainIs ==
    \A kind \in Kinds, n \in Int :
        /\ Plain(kind, n) \in Messages /\ Plain(kind, n).kind = kind /\ Plain(kind, n).n = n
        /\ Plain(kind, n) = Plain(Plain(kind, n).kind, Plain(kind, n).n)
  BY DEF Plain, Message, Messages, Numbers

\* What a step leaves: the two ends, the requests made, what there is to send, and the
\* messages and keys there have been.
Left(client, server, requests, outgoing, handled, drawn, used) ==
    /\ \E cookie \in Int :
         link' = [ client |-> client, server |-> server, preset |-> link.preset, eights |-> link.eights,
                   long |-> link.long, cookie |-> cookie, requests |-> requests,
                   outgoing |-> outgoing, wire |-> link'.wire ]
    /\ past' = [ handled |-> handled, drawn |-> drawn, used |-> used, early |-> past'.early ]

LEMMA TypeLeft ==
    ASSUME TypeOK, NEW client \in Ends, NEW server \in Ends, NEW requests \in Nat \ { 0 },
           NEW outgoing \in SUBSET Orders, NEW handled \in SUBSET Messages,
           NEW drawn \in SUBSET AESKeys, NEW used \in SUBSET (AESKeys \cup { NoKey }),
           Left(client, server, requests, outgoing, handled, drawn, used),
           link'.wire \subseteq Datagrams, past'.early \in BOOLEAN
    PROVE  TypeOK'
  <1>1. PICK cookie \in Int :
         link' = [ client |-> client, server |-> server, preset |-> link.preset, eights |-> link.eights,
                   long |-> link.long, cookie |-> cookie, requests |-> requests,
                   outgoing |-> outgoing, wire |-> link'.wire ]
    BY DEF Left
  <1> QED
    BY <1>1 DEF Left, TypeOK

LEMMA LeftIs ==
    ASSUME NEW client, NEW server, NEW requests, NEW outgoing, NEW handled, NEW drawn, NEW used,
           Left(client, server, requests, outgoing, handled, drawn, used)
    PROVE  /\ link'.client = client /\ link'.server = server /\ link'.requests = requests
           /\ link'.outgoing = outgoing /\ link'.preset = link.preset /\ link'.long = link.long
           /\ past'.handled = handled /\ past'.drawn = drawn /\ past'.used = used
  BY DEF Left


\* What the steps do, by what they change at the two ends.
Handles(d) == past.handled \cup { d.message }
WithOrder(to, message) == link.outgoing \cup { [ to |-> to, message |-> message ] }
Still == link'.wire = link.wire /\ past'.early = past.early

Quiet ==
    /\ \E handled \in SUBSET Sent :
         /\ past.handled \subseteq handled
         /\ Left(link.client, link.server, link.requests, link.outgoing, handled, past.drawn, past.used)
    /\ Still

Requests ==
    /\ \E outgoing \in { link.outgoing,
                         WithOrder("server", Plain("ID_CONNECTION_REQUEST", link.requests + 1)) } :
         Left([ link.client EXCEPT !.connectMode = "REQUESTED_CONNECTION" ], link.server,
              link.requests + 1, outgoing, past.handled, past.drawn, past.used)
    /\ link.client.connectMode # "closed"
    /\ Still

Transmits ==
    \E o \in link.outgoing :
        LET from == IF o.to = "server" THEN link.client ELSE link.server
        IN  /\ from.connectMode # "closed"
            /\ \E outgoing \in SUBSET link.outgoing :
                 Left(link.client, link.server, link.requests, outgoing,
                      past.handled, past.drawn, past.used)
            /\ link'.wire = link.wire \cup { Datagram(from, o) }
            /\ past'.early = past.early

\* The server reads a datagram, or its layer cannot.
TurnsOn(d) ==
    /\ d.to = "server"
    /\ \E handled \in { past.handled, Handles(d) } :
         Left(link.client, TurnedOn(d), link.requests, link.outgoing, handled, past.drawn, past.used)
    /\ link'.wire = link.wire
    /\ \/ past'.early = past.early /\ TurnedOn(d).key \in { link.server.key, d.key }
       \/ past'.early = past.early /\ d.key # NoKey
       \/ past'.early = TRUE

Reads(d) == d.to = "server" /\ d.key = TurnedOn(d).key

Responds(d) ==
    /\ Reads(d) /\ Still
    /\ d.message.kind = "ID_CONNECTION_REQUEST" /\ d.message \notin past.handled
    /\ link.server.connectMode \notin { "CONNECTED", "closed" }
    /\ \E cookie \in Int :
         Left(link.client, [ TurnedOn(d) EXCEPT !.connectMode = "HANDLING_CONNECTION_REQUEST" ],
              link.requests,
              WithOrder("client", Message("ID_SECURED_CONNECTION_RESPONSE", d.message.n, cookie, 0)),
              Handles(d), past.drawn, past.used)

Rejects(d) ==
    /\ Still
    /\ Left([ link.client EXCEPT !.connectMode = "DISCONNECT_ASAP_SILENTLY" ], link.server,
            link.requests, link.outgoing, Handles(d), past.drawn, past.used)
    /\ link.client.connectMode # "closed"

Confirms(d) ==
    /\ Still
    /\ d.message.kind = "ID_SECURED_CONNECTION_RESPONSE" /\ d.message \notin past.handled
    /\ link.client.connectMode = "REQUESTED_CONNECTION" /\ link.preset # "other"
    /\ \E cookie \in Int, random \in Numbers :
         Left([ link.client EXCEPT !.AESKey = Key(cookie, random) ], link.server, link.requests,
              WithOrder("server",
                  Message("ID_SECURED_CONNECTION_CONFIRMATION", d.message.n, cookie, random)),
              Handles(d), past.drawn \cup { Key(cookie, random) }, past.used)

Accepts(d) ==
    /\ Reads(d) /\ Still
    /\ d.message.kind = "ID_SECURED_CONNECTION_CONFIRMATION"
    /\ link.server.connectMode # "closed"
    /\ \E outgoing \in { link.outgoing,
                         WithOrder("client", Plain("ID_CONNECTION_REQUEST_ACCEPTED", d.message.n)) } :
         Left(link.client,
              [ TurnedOn(d) EXCEPT
                  !.connectMode = "SET_ENCRYPTION_ON_MULTIPLE_16_BYTE_PACKET",
                  !.AESKey = Key(d.message.cookie, d.message.random) ],
              link.requests, outgoing, Handles(d), past.drawn, past.used)

Connects(d) ==
    /\ Still
    /\ d.message.kind = "ID_CONNECTION_REQUEST_ACCEPTED"
    /\ link.client.connectMode = "REQUESTED_CONNECTION" /\ link.long
    /\ Left([ link.client EXCEPT !.connectMode = "CONNECTED", !.key = link.client.AESKey ],
            link.server, link.requests,
            WithOrder("server", Plain("ID_NEW_INCOMING_CONNECTION", d.message.n)),
            Handles(d), past.drawn, past.used \cup { link.client.AESKey })

Leaves(d) ==
    /\ Still
    /\ link.client.connectMode # "closed"
    /\ \E outgoing \in { link.outgoing,
                         WithOrder("server", Plain("ID_DISCONNECTION_NOTIFICATION", d.message.n)) } :
         Left([ link.client EXCEPT !.connectMode = "DISCONNECT_ASAP" ], link.server, link.requests,
              outgoing, Handles(d), past.drawn, past.used)

Changes(d) ==
    /\ Reads(d) /\ Still
    /\ link.server.connectMode # "closed"
    /\ \E mode \in { "CONNECTED", "DISCONNECT_ON_NO_ACK" } :
         /\ mode = "CONNECTED" => d.message.kind = "ID_NEW_INCOMING_CONNECTION"
         /\ Left(link.client, [ TurnedOn(d) EXCEPT !.connectMode = mode ], link.requests,
                 link.outgoing, Handles(d), past.drawn, past.used)

Closes ==
    /\ Still
    /\ \/ Left(End("closed"), link.server, link.requests, link.outgoing,
               past.handled, past.drawn, past.used)
       \/ Left(link.client, End("closed"), link.requests, link.outgoing,
               past.handled, past.drawn, past.used)

Effect ==
    \/ Quiet \/ Requests \/ Transmits \/ Closes
    \/ \E d \in link.wire :
          \/ TurnsOn(d) \/ Responds(d) \/ Rejects(d) \/ Confirms(d) \/ Accepts(d) \/ Connects(d)
          \/ Leaves(d) \/ Changes(d)

LEMMA QuietStep ==
    ASSUME TypeOK, NEW cookie \in Int, link' = [ link EXCEPT !.cookie = cookie ],
           \/ past' = past
           \/ \E d \in link.wire : past' = Handled(d)
    PROVE  Quiet
  <1>1. /\ past'.handled \subseteq Sent /\ past.handled \subseteq past'.handled
        /\ past'.early = past.early
        /\ past' = [ handled |-> past'.handled, drawn |-> past.drawn, used |-> past.used, early |-> past'.early ]
    BY Parts DEF Handled, TypeOK
  <1>2. Left(link.client, link.server, link.requests, link.outgoing, past'.handled, past.drawn, past.used)
    BY <1>1 DEF Left, TypeOK
  <1>3. link'.wire = link.wire
    BY DEF TypeOK
  <1> QED
    BY <1>1, <1>2, <1>3 DEF Quiet, Still

LEMMA HandledIs ==
    ASSUME TypeOK, NEW d \in link.wire, past' = Handled(d)
    PROVE  /\ past' = [ handled |-> Handles(d), drawn |-> past.drawn, used |-> past.used,
                        early |-> past'.early ]
           /\ past'.early = past.early
  BY DEF Handled, Handles, TypeOK

LEMMA Steps == TypeOK /\ Next => Effect
  <1> SUFFICES ASSUME TypeOK, Next PROVE Effect
    OBVIOUS
  <1>0. link.cookie \in Int /\ link = [ link EXCEPT !.cookie = link.cookie ]
        /\ past = [ handled |-> past.handled, drawn |-> past.drawn, used |-> past.used,
                    early |-> past.early ]
    BY DEF TypeOK
  <1>1. ASSUME RequestAgain PROVE Effect
    <2> DEFINE n == link.requests + 1
               client == [ link.client EXCEPT !.connectMode = "REQUESTED_CONNECTION" ]
               outgoing == Sending(client, "server", Plain("ID_CONNECTION_REQUEST", n))
    <2>1. /\ link' = [ link EXCEPT !.requests = n, !.client = client, !.outgoing = outgoing ]
          /\ past' = past /\ link.client.connectMode # "closed"
      BY <1>1 DEF RequestAgain
    <2>2. outgoing \in { link.outgoing, WithOrder("server", Plain("ID_CONNECTION_REQUEST", n)) }
      BY SendingIs DEF WithOrder
    <2> HIDE DEF n, client, outgoing
    <2>3. Left(client, link.server, n, outgoing, past.handled, past.drawn, past.used) /\ Still
      BY <1>0, <2>1 DEF Left, Still, TypeOK
    <2> QED
      BY <2>1, <2>2, <2>3 DEF Requests, Effect, n, client
  <1>2. ASSUME Update PROVE Effect
    <2> DEFINE from(o) == IF o.to = "server" THEN link.client ELSE link.server
    <2>1. PICK o \in link.outgoing :
             /\ from(o).connectMode # "closed"
             /\ link' = [ link EXCEPT !.wire = @ \cup { Datagram(from(o), o) },
                            !.outgoing = IF o.message.kind \in Unreliable THEN @ \ { o } ELSE @ ]
             /\ past' = past
      BY <1>2 DEF Update
    <2>2. PICK outgoing \in SUBSET link.outgoing :
             link' = [ link EXCEPT !.wire = link.wire \cup { Datagram(from(o), o) }, !.outgoing = outgoing ]
      BY <2>1
    <2> HIDE DEF from
    <2>3. Left(link.client, link.server, link.requests, outgoing, past.handled, past.drawn, past.used)
          /\ link'.wire = link.wire \cup { Datagram(from(o), o) }
      BY <1>0, <2>1, <2>2 DEF Left, TypeOK
    <2>4. Transmits
      BY <2>1, <2>3 DEF Transmits, from
    <2> QED
      BY <2>4 DEF Effect
  <1>3. ASSUME GenerateSYNCookieRandomNumber PROVE Effect
    <2>1. PICK cookie \in Int : link' = [ link EXCEPT !.cookie = cookie ] /\ past' = past
      BY <1>3, Parts DEF GenerateSYNCookieRandomNumber
    <2> QED
      BY <2>1, QuietStep DEF Effect
  <1>4. ASSUME Timeout PROVE Effect
    <2>1. PICK end \in { "client", "server" } : link' = [ link EXCEPT ![end] = End("closed") ] /\ past' = past
      BY <1>4 DEF Timeout
    <2>2. CASE end = "client"
      BY <1>0, <2>1, <2>2 DEF Left, Still, TypeOK, Closes, Effect
    <2>3. CASE end = "server"
      BY <1>0, <2>1, <2>3 DEF Left, Still, TypeOK, Closes, Effect
    <2> QED
      BY <2>2, <2>3
  <1>5. ASSUME NEW d \in link.wire, DropAtServer(d) PROVE Effect
    <2>1. /\ d.to = "server" /\ link' = [ link EXCEPT !.server = TurnedOn(d) ]
          /\ past' = [ past EXCEPT !.early = @ \/ d.key = NoKey ]
      BY <1>5 DEF DropAtServer
    <2>2. Left(link.client, TurnedOn(d), link.requests, link.outgoing, past.handled, past.drawn, past.used)
          /\ link'.wire = link.wire
      BY <1>0, <2>1 DEF Left, TypeOK
    <2>3. \/ past'.early = past.early /\ TurnedOn(d).key \in { link.server.key, d.key }
          \/ past'.early = past.early /\ d.key # NoKey
          \/ past'.early = TRUE
      <3>1. past'.early = (past.early \/ d.key = NoKey)
            /\ past.early \in BOOLEAN
        BY <2>1 DEF TypeOK
      <3> QED
        BY <3>1
    <2> QED
      BY <2>1, <2>2, <2>3 DEF TurnsOn, Effect
  \* A message the server reads and does nothing about.
  <1>6. ASSUME NEW d \in link.wire, d.to = "server", d.key = TurnedOn(d).key,
               link' = [ link EXCEPT !.server = TurnedOn(d) ], past' = Handled(d)
        PROVE  Effect
    <2>1. Left(link.client, TurnedOn(d), link.requests, link.outgoing, Handles(d), past.drawn, past.used)
          /\ link'.wire = link.wire
      BY <1>0, <1>6, HandledIs DEF Left, TypeOK
    <2>2. past'.early = past.early
      BY <1>6, HandledIs
    <2> QED
      BY <1>6, <2>1, <2>2 DEF TurnsOn, Effect
  <1>7. ASSUME NEW d \in link.wire, SecuredConnectionResponse(d) PROVE Effect
    <2> DEFINE server == [ TurnedOn(d) EXCEPT !.connectMode = "HANDLING_CONNECTION_REQUEST" ]
               response(c) == Message("ID_SECURED_CONNECTION_RESPONSE", d.message.n, c, 0)
    <2>1. /\ d.to = "server" /\ d.key = TurnedOn(d).key /\ d.message \notin past.handled
          /\ d.message.kind = "ID_CONNECTION_REQUEST" /\ TurnedOn(d).connectMode # "closed"
          /\ past' = Handled(d)
      BY <1>7 DEF SecuredConnectionResponse, Handle
    <2>2. CASE TurnedOn(d).connectMode = "CONNECTED"
      <3>1. link' = link
        BY <1>7, <2>2 DEF SecuredConnectionResponse
      <3>2. link' = [ link EXCEPT !.cookie = link.cookie ]
        BY <1>0, <3>1
      <3> QED
        BY <1>0, <2>1, <3>2, QuietStep DEF Effect
    <2>3. CASE TurnedOn(d).connectMode # "CONNECTED"
      <3>1. PICK cookie \in Int :
              link' = [ link EXCEPT !.server = server, !.cookie = cookie,
                                    !.outgoing = Sending(server, "client", response(cookie)) ]
        BY <1>7, <2>3, Parts DEF SecuredConnectionResponse
      <3>2. server.connectMode = "HANDLING_CONNECTION_REQUEST"
        BY Parts DEF Ends
      <3>3. Sending(server, "client", response(cookie)) = WithOrder("client", response(cookie))
        BY <3>2 DEF Sending, Leaving, WithOrder
      <3> HIDE DEF server, response
      <3>4. Left(link.client, server, link.requests, WithOrder("client", response(cookie)),
                 Handles(d), past.drawn, past.used) /\ Still
        BY <2>1, <3>1, <3>3, HandledIs DEF Left, Still, TypeOK
      <3> QED
        BY <2>1, <2>3, <3>4, TurnedOnIs DEF Responds, Reads, Effect, server, response
    <2> QED
      BY <2>2, <2>3
  <1>8. ASSUME NEW d \in link.wire, SecuredConnectionConfirmation(d) PROVE Effect
    <2>1. /\ d.message \notin past.handled /\ link.client.connectMode # "closed"
          /\ d.message.kind = "ID_SECURED_CONNECTION_RESPONSE"
      BY <1>8 DEF SecuredConnectionConfirmation, Handle
    <2>2. CASE UNCHANGED link /\ past' = Handled(d)
      <3>1. link' = [ link EXCEPT !.cookie = link.cookie ]
        BY <1>0, <2>2
      <3> QED
        BY <1>0, <2>2, <3>1, QuietStep DEF Effect
    <2>3. CASE /\ link' = [ link EXCEPT !.client.connectMode = "DISCONNECT_ASAP_SILENTLY" ]
               /\ past' = Handled(d)
      <3>1. Left([ link.client EXCEPT !.connectMode = "DISCONNECT_ASAP_SILENTLY" ], link.server,
                 link.requests, link.outgoing, Handles(d), past.drawn, past.used) /\ Still
        BY <1>0, <2>3, HandledIs DEF Left, Still, TypeOK
      <3> QED
        BY <2>1, <3>1 DEF Rejects, Effect
    <2> DEFINE c == d.message.cookie
               confirmation(r) == Message("ID_SECURED_CONNECTION_CONFIRMATION", d.message.n, c, r)
    <2>4. ASSUME link.client.connectMode = "REQUESTED_CONNECTION", link.preset # "other",
                 NEW random \in Randoms,
                 link' = [ link EXCEPT !.client.AESKey = Key(c, random),
                                       !.outgoing = Sending(link.client, "server", confirmation(random)) ],
                 past' = [ Handled(d) EXCEPT !.drawn = @ \cup { Key(c, random) } ]
          PROVE  Effect
      <3>1. Sending(link.client, "server", confirmation(random)) = WithOrder("server", confirmation(random))
        BY <2>4 DEF Sending, Leaving, WithOrder
      <3>2. c \in Int /\ random \in Numbers
        BY Parts DEF Messages, Numbers
      <3> HIDE DEF c, confirmation
      <3>3. /\ past' = [ handled |-> Handles(d), drawn |-> past.drawn \cup { Key(c, random) },
                         used |-> past.used, early |-> past'.early ]
            /\ past'.early = past.early
        BY <2>4 DEF Handled, Handles, TypeOK
      <3>4. Left([ link.client EXCEPT !.AESKey = Key(c, random) ], link.server, link.requests,
                 WithOrder("server", confirmation(random)), Handles(d),
                 past.drawn \cup { Key(c, random) }, past.used) /\ Still
        BY <1>0, <2>4, <3>1, <3>3 DEF Left, Still, TypeOK
      <3>5. Confirms(d)
        BY <2>1, <2>4, <3>2, <3>4 DEF Confirms, c, confirmation
      <3> QED
        BY <3>5 DEF Effect
    <2> QED
      BY <1>8, <2>2, <2>3, <2>4 DEF SecuredConnectionConfirmation
  <1>9. ASSUME NEW d \in link.wire, SecuredConnectionAccept(d) PROVE Effect
    <2> DEFINE m == d.message
               server == [ TurnedOn(d) EXCEPT
                             !.connectMode = "SET_ENCRYPTION_ON_MULTIPLE_16_BYTE_PACKET",
                             !.AESKey = Key(m.cookie, m.random) ]
               outgoing == Sending(TurnedOn(d), "client", Plain("ID_CONNECTION_REQUEST_ACCEPTED", m.n))
    <2>1. /\ d.to = "server" /\ d.key = TurnedOn(d).key /\ TurnedOn(d).connectMode # "closed"
          /\ m.kind = "ID_SECURED_CONNECTION_CONFIRMATION" /\ past' = Handled(d)
      BY <1>9 DEF SecuredConnectionAccept, Handle
    <2>2. CASE m.cookie \in { link.cookie, link.cookie - 1 }
      <3>1. link' = [ link EXCEPT !.server = server, !.outgoing = outgoing ]
        BY <1>9, <2>2 DEF SecuredConnectionAccept
      <3>2. outgoing \in { link.outgoing,
                           WithOrder("client", Plain("ID_CONNECTION_REQUEST_ACCEPTED", d.message.n)) }
        BY SendingIs DEF WithOrder
      <3> HIDE DEF server, outgoing
      <3>3. Left(link.client, server, link.requests, outgoing, Handles(d), past.drawn, past.used) /\ Still
        BY <1>0, <2>1, <3>1, HandledIs DEF Left, Still, TypeOK
      <3>4. Accepts(d)
        BY <2>1, <3>2, <3>3, TurnedOnIs DEF Accepts, Reads, server
      <3> QED
        BY <3>4 DEF Effect
    <2>3. CASE m.cookie \notin { link.cookie, link.cookie - 1 }
      <3>1. link' = [ link EXCEPT !.server = TurnedOn(d) ]
        BY <1>9, <2>3 DEF SecuredConnectionAccept
      <3> QED
        BY <1>6, <2>1, <3>1
    <2> QED
      BY <2>2, <2>3
  <1>10. ASSUME NEW d \in link.wire, ConnectionRequestAccepted(d) PROVE Effect
    <2>1. d.message.kind = "ID_CONNECTION_REQUEST_ACCEPTED" /\ link.client.connectMode # "closed"
      BY <1>10 DEF ConnectionRequestAccepted, Handle
    <2>2. CASE UNCHANGED link /\ past' = Handled(d)
      <3>1. link' = [ link EXCEPT !.cookie = link.cookie ]
        BY <1>0, <2>2
      <3> QED
        BY <1>0, <2>2, <3>1, QuietStep DEF Effect
    <2> DEFINE incoming == Plain("ID_NEW_INCOMING_CONNECTION", d.message.n)
               notification == Plain("ID_DISCONNECTION_NOTIFICATION", d.message.n)
    <2>3. ASSUME link.long, link.client.connectMode = "REQUESTED_CONNECTION",
                 link' = [ link EXCEPT
                             !.client.connectMode = "CONNECTED", !.client.key = link.client.AESKey,
                             !.outgoing = Sending(link.client, "server", incoming) ],
                 past' = [ Handled(d) EXCEPT !.used = @ \cup { link.client.AESKey } ]
          PROVE  Effect
      <3>1. Sending(link.client, "server", incoming) = WithOrder("server", incoming)
        BY <2>3 DEF Sending, Leaving, WithOrder
      <3> HIDE DEF incoming
      <3>2. /\ past' = [ handled |-> Handles(d), drawn |-> past.drawn,
                         used |-> past.used \cup { link.client.AESKey }, early |-> past'.early ]
            /\ past'.early = past.early
        BY <2>3 DEF Handled, Handles, TypeOK
      <3>3. Left([ link.client EXCEPT !.connectMode = "CONNECTED", !.key = link.client.AESKey ],
                 link.server, link.requests, WithOrder("server", incoming), Handles(d), past.drawn,
                 past.used \cup { link.client.AESKey }) /\ Still
        BY <1>0, <2>3, <3>1, <3>2 DEF Left, Still, TypeOK
      <3>4. Connects(d)
        BY <2>1, <2>3, <3>3 DEF Connects, incoming
      <3> QED
        BY <3>4 DEF Effect
    <2>4. ASSUME link' = [ link EXCEPT
                             !.client.connectMode = "DISCONNECT_ASAP",
                             !.outgoing = Sending(link.client, "server", notification) ],
                 past' = Handled(d)
          PROVE  Effect
      <3>1. Sending(link.client, "server", notification)
              \in { link.outgoing, WithOrder("server", notification) }
        BY SendingIs DEF WithOrder
      <3> DEFINE outgoing == Sending(link.client, "server", notification)
      <3> HIDE DEF outgoing
      <3>2. Left([ link.client EXCEPT !.connectMode = "DISCONNECT_ASAP" ], link.server, link.requests,
                 outgoing, Handles(d), past.drawn, past.used) /\ Still
        BY <1>0, <2>4, HandledIs DEF Left, Still, TypeOK, outgoing
      <3>3. Leaves(d)
        BY <2>1, <3>1, <3>2 DEF Leaves, outgoing
      <3> QED
        BY <3>3 DEF Effect
    <2> QED
      BY <1>10, <2>2, <2>3, <2>4 DEF ConnectionRequestAccepted
  <1>11. ASSUME NEW d \in link.wire, d.to = "server", d.key = TurnedOn(d).key,
                TurnedOn(d).connectMode # "closed",
                NEW mode \in { "CONNECTED", "DISCONNECT_ON_NO_ACK" },
                mode = "CONNECTED" => d.message.kind = "ID_NEW_INCOMING_CONNECTION",
                link' = [ link EXCEPT !.server = [ TurnedOn(d) EXCEPT !.connectMode = mode ] ],
                past' = Handled(d)
         PROVE  Effect
    <2>1. Left(link.client, [ TurnedOn(d) EXCEPT !.connectMode = mode ], link.requests, link.outgoing,
               Handles(d), past.drawn, past.used) /\ Still
      BY <1>0, <1>11, HandledIs DEF Left, Still, TypeOK
    <2>2. Changes(d)
      BY <1>11, <2>1, TurnedOnIs DEF Changes, Reads
    <2> QED
      BY <2>2 DEF Effect
  <1>12. ASSUME NEW d \in link.wire, NewIncomingConnection(d) PROVE Effect
    <2>1. /\ d.to = "server" /\ d.key = TurnedOn(d).key /\ TurnedOn(d).connectMode # "closed"
          /\ d.message.kind = "ID_NEW_INCOMING_CONNECTION" /\ past' = Handled(d)
          /\ \/ link' = [ link EXCEPT !.server = [ TurnedOn(d) EXCEPT !.connectMode = "CONNECTED" ] ]
             \/ link' = [ link EXCEPT !.server = TurnedOn(d) ]
      BY <1>12 DEF NewIncomingConnection, Handle
    <2>2. CASE link' = [ link EXCEPT !.server = [ TurnedOn(d) EXCEPT !.connectMode = "CONNECTED" ] ]
      BY <1>11, <2>1, <2>2
    <2>3. CASE link' = [ link EXCEPT !.server = TurnedOn(d) ]
      BY <1>6, <2>1, <2>3
    <2> QED
      BY <2>1, <2>2, <2>3
  <1>13. ASSUME NEW d \in link.wire, DisconnectionNotification(d) PROVE Effect
    <2>1. /\ d.to = "server" /\ d.key = TurnedOn(d).key /\ TurnedOn(d).connectMode # "closed"
          /\ past' = Handled(d)
          /\ link' = [ link EXCEPT !.server = [ TurnedOn(d) EXCEPT !.connectMode = "DISCONNECT_ON_NO_ACK" ] ]
      BY <1>13 DEF DisconnectionNotification, Handle
    <2> QED
      BY <1>11, <2>1
  <1> QED
    BY <1>1, <1>2, <1>3, <1>4, <1>5, <1>7, <1>8, <1>9, <1>10, <1>12, <1>13 DEF Next

LEMMA DatagramIs ==
    ASSUME TypeOK, NEW o \in link.outgoing, NEW from \in { link.client, link.server }
    PROVE  /\ Datagram(from, o) \in Datagrams
           /\ Datagram(from, o).to = o.to /\ Datagram(from, o).message = o.message
           /\ Datagram(from, o).key = from.key
  <1>1. o.to \in { "client", "server" } /\ o.message \in Messages
        /\ from.key \in AESKeys \cup { NoKey } /\ link.eights \in BOOLEAN
    BY Parts DEF Orders, Ends, TypeOK
  <1>2. (from.key # NoKey \/ (o.message.kind = "ID_CONNECTION_REQUEST" /\ link.eights)) \in BOOLEAN
    BY <1>1
  <1> QED
    BY <1>1, <1>2 DEF Datagram, Datagrams

LEMMA WithOrderIs ==
    ASSUME TypeOK, NEW to \in { "client", "server" }, NEW m \in Messages
    PROVE  WithOrder(to, m) \in SUBSET Orders
  BY Parts DEF WithOrder, Orders

LEMMA TypeInit == Init => TypeOK
  <1>1. Plain("ID_CONNECTION_REQUEST", 1) \in Messages
    BY PlainIs DEF Kinds
  <1>2. \A mode \in Modes : End(mode) \in Ends
    BY DEF End, Ends
  <1> QED
    BY <1>1, <1>2 DEF Init, TypeOK, Orders, Modes

LEMMA TypeStep == TypeOK /\ [Next]_vars => TypeOK'
  <1> SUFFICES ASSUME TypeOK, Effect PROVE TypeOK'
    BY Steps DEF TypeOK, vars
  <1>0. /\ past.handled \in SUBSET Messages /\ past.drawn \in SUBSET AESKeys
        /\ past.used \in SUBSET (AESKeys \cup { NoKey }) /\ past.early \in BOOLEAN
        /\ link.outgoing \in SUBSET Orders /\ link.client \in Ends /\ link.server \in Ends
        /\ link.requests \in Nat \ { 0 } /\ link.wire \subseteq Datagrams
    BY DEF TypeOK
  <1>1. Still => link'.wire \subseteq Datagrams /\ past'.early \in BOOLEAN
    BY <1>0 DEF Still
  <1>2. CASE Quiet
    <2>1. Sent \subseteq Messages
      BY Parts
    <2> QED
      BY <1>0, <1>1, <1>2, <2>1, TypeLeft DEF Quiet
  <1>3. CASE Requests
    <2>1. [ link.client EXCEPT !.connectMode = "REQUESTED_CONNECTION" ] \in Ends
      BY <1>0 DEF Ends, Modes
    <2>2. link.requests + 1 \in Nat \ { 0 }
      BY <1>0
    <2>3. WithOrder("server", Plain("ID_CONNECTION_REQUEST", link.requests + 1)) \in SUBSET Orders
      BY <2>2, PlainIs, WithOrderIs DEF Kinds
    <2> QED
      BY <1>0, <1>1, <1>3, <2>1, <2>2, <2>3, TypeLeft DEF Requests
  <1>4. CASE Transmits
    <2>1. PICK o \in link.outgoing, from \in { link.client, link.server }, outgoing \in SUBSET link.outgoing :
            /\ Left(link.client, link.server, link.requests, outgoing, past.handled, past.drawn, past.used)
            /\ link'.wire = link.wire \cup { Datagram(from, o) } /\ past'.early = past.early
      BY <1>4 DEF Transmits
    <2>2. link'.wire \subseteq Datagrams
      BY <1>0, <2>1, DatagramIs
    <2>3. outgoing \in SUBSET Orders
      BY <1>0
    <2> QED
      BY <1>0, <2>1, <2>2, <2>3, TypeLeft
  <1>5. CASE Closes
    <2>1. End("closed") \in Ends
      BY DEF End, Ends, Modes
    <2> QED
      BY <1>0, <1>1, <1>5, <2>1, TypeLeft DEF Closes
  <1>6. ASSUME NEW d \in link.wire,
               \/ TurnsOn(d) \/ Responds(d) \/ Rejects(d) \/ Confirms(d) \/ Accepts(d) \/ Connects(d)
               \/ Leaves(d) \/ Changes(d)
        PROVE  TypeOK'
    <2>0. /\ Handles(d) \in SUBSET Messages /\ TurnedOn(d) \in Ends
          /\ d.message.n \in Int /\ d.message.cookie \in Int /\ d.message.random \in Numbers
      BY <1>0, Parts DEF Handles, Messages
    <2>1. \A kind \in Kinds, to \in { "client", "server" } :
             WithOrder(to, Plain(kind, d.message.n)) \in SUBSET Orders
      BY <2>0, PlainIs, WithOrderIs
    <2>2. \A kind \in Kinds, to \in { "client", "server" }, c \in Int, r \in Numbers :
             WithOrder(to, Message(kind, d.message.n, c, r)) \in SUBSET Orders
      <3>1. \A kind \in Kinds, c \in Int, r \in Numbers : Message(kind, d.message.n, c, r) \in Messages
        BY <2>0 DEF Message, Messages
      <3> QED
        BY <3>1, WithOrderIs
    <2>3. CASE TurnsOn(d)
      <3>1. past'.early \in BOOLEAN
        BY <1>0, <2>3 DEF TurnsOn
      <3> QED
        BY <1>0, <2>0, <2>3, <3>1, TypeLeft DEF TurnsOn
    <2>4. CASE Responds(d)
      <3>1. [ TurnedOn(d) EXCEPT !.connectMode = "HANDLING_CONNECTION_REQUEST" ] \in Ends
        BY <2>0 DEF Ends, Modes
      <3>2. \A c \in Int : WithOrder("client", Message("ID_SECURED_CONNECTION_RESPONSE", d.message.n, c, 0))
                              \in SUBSET Orders
        BY <2>2 DEF Kinds, Numbers
      <3> QED
        BY <1>0, <1>1, <2>0, <2>4, <3>1, <3>2, TypeLeft DEF Responds
    <2>5. CASE Rejects(d)
      <3>1. [ link.client EXCEPT !.connectMode = "DISCONNECT_ASAP_SILENTLY" ] \in Ends
        BY <1>0 DEF Ends, Modes
      <3> QED
        BY <1>0, <1>1, <2>0, <2>5, <3>1, TypeLeft DEF Rejects
    <2>6. CASE Confirms(d)
      <3>1. PICK c \in Int, r \in Numbers :
              Left([ link.client EXCEPT !.AESKey = Key(c, r) ], link.server, link.requests,
                   WithOrder("server", Message("ID_SECURED_CONNECTION_CONFIRMATION", d.message.n, c, r)),
                   Handles(d), past.drawn \cup { Key(c, r) }, past.used)
        BY <2>6 DEF Confirms
      <3>2. [ link.client EXCEPT !.AESKey = Key(c, r) ] \in Ends
        BY <1>0, KeyIsNone DEF Ends
      <3>3. past.drawn \cup { Key(c, r) } \in SUBSET AESKeys
        BY <1>0, KeyIsNone
      <3>4. WithOrder("server", Message("ID_SECURED_CONNECTION_CONFIRMATION", d.message.n, c, r))
               \in SUBSET Orders
        BY <2>2 DEF Kinds
      <3> QED
        BY <1>0, <1>1, <2>0, <2>6, <3>1, <3>2, <3>3, <3>4, TypeLeft DEF Confirms
    <2>7. CASE Accepts(d)
      <3>1. [ TurnedOn(d) EXCEPT
                !.connectMode = "SET_ENCRYPTION_ON_MULTIPLE_16_BYTE_PACKET",
                !.AESKey = Key(d.message.cookie, d.message.random) ] \in Ends
        BY <2>0, KeyIsNone DEF Ends, Modes
      <3>2. WithOrder("client", Plain("ID_CONNECTION_REQUEST_ACCEPTED", d.message.n)) \in SUBSET Orders
        BY <2>1 DEF Kinds
      <3> QED
        BY <1>0, <1>1, <2>0, <2>7, <3>1, <3>2, TypeLeft DEF Accepts
    <2>8. CASE Connects(d)
      <3> DEFINE client == [ link.client EXCEPT !.connectMode = "CONNECTED", !.key = link.client.AESKey ]
      <3>1. client \in Ends
        BY <1>0 DEF Ends, Modes
      <3>2. WithOrder("server", Plain("ID_NEW_INCOMING_CONNECTION", d.message.n)) \in SUBSET Orders
        BY <2>1 DEF Kinds
      <3>3. past.used \cup { link.client.AESKey } \in SUBSET (AESKeys \cup { NoKey })
        BY <1>0 DEF Ends
      <3> QED
        BY <1>0, <1>1, <2>0, <2>8, <3>1, <3>2, <3>3, TypeLeft DEF Connects
    <2>9. CASE Leaves(d)
      <3>1. [ link.client EXCEPT !.connectMode = "DISCONNECT_ASAP" ] \in Ends
        BY <1>0 DEF Ends, Modes
      <3>2. WithOrder("server", Plain("ID_DISCONNECTION_NOTIFICATION", d.message.n)) \in SUBSET Orders
        BY <2>1 DEF Kinds
      <3> QED
        BY <1>0, <1>1, <2>0, <2>9, <3>1, <3>2, TypeLeft DEF Leaves
    <2>10. CASE Changes(d)
      <3>1. \A mode \in { "CONNECTED", "DISCONNECT_ON_NO_ACK" } :
               [ TurnedOn(d) EXCEPT !.connectMode = mode ] \in Ends
        BY <2>0 DEF Ends, Modes
      <3> QED
        BY <1>0, <1>1, <2>0, <2>10, <3>1, TypeLeft DEF Changes
    <2> QED
      BY <1>6, <2>3, <2>4, <2>5, <2>6, <2>7, <2>8, <2>9, <2>10
  <1> QED
    BY <1>2, <1>3, <1>4, <1>5, <1>6 DEF Effect

-----------------------------------------------------------------------------
(* Every key is the client's.                                              *)

LEMMA KeyInvInit == Init => KeyInv
  <1> SUFFICES ASSUME Init PROVE KeyInv
    OBVIOUS
  <1> DEFINE request == Plain("ID_CONNECTION_REQUEST", 1)
  <1>1. /\ link.client = End("REQUESTED_CONNECTION") /\ link.server = End("UNVERIFIED_SENDER")
        /\ link.outgoing = { [ to |-> "server", message |-> request ] } /\ link.wire = {}
        /\ link.requests = 1
        /\ past.handled = {} /\ past.drawn = {} /\ past.used = {}
    BY DEF Init
  <1>2. Sent = { request }
    BY <1>1 DEF Sent
  <1>3. /\ request.kind = "ID_CONNECTION_REQUEST" /\ request.n = 1
        /\ request = Plain(request.kind, request.n)
    BY PlainIs DEF Kinds
  <1> HIDE DEF request
  <1>4. Numbered
    BY <1>1, <1>2, <1>3 DEF Numbered
  <1>5. AnsweredOnce
    BY <1>1, <1>2, <1>3 DEF AnsweredOnce
  <1>6. KeysAreDrawn
    BY <1>1, <1>2, <1>3 DEF KeysAreDrawn, Keys, End
  <1>7. ServerHasKey
    BY <1>2, <1>3 DEF ServerHasKey
  <1>8. ClientEncrypts /\ ServerConnected /\ WellFormed
    BY <1>1 DEF ClientEncrypts, ServerConnected, WellFormed, End
  <1>9. WireEncrypted
    BY <1>1, <1>3 DEF WireEncrypted
  <1> QED
    BY <1>4, <1>5, <1>6, <1>7, <1>8, <1>9 DEF KeyInv

\* What may be said, after a step, by a message that was not there before it.
Fits(m, requests, server, handled) ==
    /\ m.n \in 1 .. requests
    /\ m.kind \notin Unreliable => m = Plain(m.kind, m.n)
    /\ m.kind \notin { "ID_SECURED_CONNECTION_CONFIRMATION", "ID_NEW_INCOMING_CONNECTION" }
    /\ m.kind = "ID_SECURED_CONNECTION_RESPONSE" =>
          Plain("ID_CONNECTION_REQUEST", m.n) \in handled \ past.handled
    /\ m.kind = "ID_CONNECTION_REQUEST_ACCEPTED" =>
          past.drawn # {} /\ (server.connectMode # "closed" => server.AESKey # NoKey)

\* The client keeps its keys unless it closes; the server takes the client's.
ClientTo(client) ==
    /\ client.AESKey \in { NoKey, link.client.AESKey } /\ client.key \in { NoKey, link.client.key }
    /\ client.connectMode # "closed" =>
          /\ link.client.connectMode # "closed"
          /\ client.AESKey = link.client.AESKey /\ client.key = link.client.key
    /\ client.connectMode = "CONNECTED" => link.client.connectMode = "CONNECTED"
ServerTo(server) ==
    /\ { server.AESKey, server.key } \subseteq past.drawn \cup { NoKey }
    /\ server.connectMode # "closed" =>
          /\ link.server.connectMode # "closed"
          /\ link.server.AESKey # NoKey => server.AESKey # NoKey
    /\ server.connectMode = "CONNECTED" => server.key \in past.used
Readable(client, server, early) ==
    server.key # NoKey /\ client.key = NoKey /\ client.connectMode # "closed" => early

\* A step that makes no key, and by which the client does not encrypt.
LEMMA EndsKeep ==
    ASSUME TypeOK, KeyInv, NEW client, NEW server, NEW requests \in { link.requests, link.requests + 1 },
           NEW outgoing, NEW handled, NEW m,
           Left(client, server, requests, outgoing, handled, past.drawn, past.used),
           link'.wire = link.wire, past.handled \subseteq handled, handled \subseteq Sent,
           \A o \in outgoing : o \in link.outgoing \/ o.message = m,
           Fits(m, requests, server, handled), ClientTo(client), ServerTo(server),
           Readable(client, server, past'.early)
    PROVE  KeyInv'
  <1>1. /\ link'.client = client /\ link'.server = server /\ link'.requests = requests
        /\ link'.outgoing = outgoing /\ link'.preset = link.preset /\ link'.long = link.long
        /\ past'.handled = handled /\ past'.drawn = past.drawn /\ past'.used = past.used
    BY LeftIs
  <1>2. link.requests \in Nat \ { 0 } /\ NoKey \notin past.drawn
    BY NoKeyIsNone DEF TypeOK
  <1>3. \A l \in Sent' : l \in Sent \/ l = m
    BY <1>1 DEF Sent
  <1>4. Numbered'
    <2>1. link.requests <= requests /\ requests \in Nat
      BY <1>2
    <2> QED
      BY <1>1, <1>2, <1>3, <2>1 DEF KeyInv, Numbered, Fits
  <1>5. AnsweredOnce'
    <2>1. \A l \in Sent' : l.kind = "ID_SECURED_CONNECTION_RESPONSE" =>
             Plain("ID_CONNECTION_REQUEST", l.n) \in handled
      BY <1>3 DEF KeyInv, AnsweredOnce, Fits
    <2>2. \A k, l \in Sent' :
             /\ k.kind = "ID_SECURED_CONNECTION_RESPONSE" /\ l.kind = "ID_SECURED_CONNECTION_RESPONSE"
             /\ k.n = l.n
             => k = l
      BY <1>3 DEF KeyInv, AnsweredOnce, Fits
    <2>3. past.drawn # {} => \E l \in handled : l.kind = "ID_SECURED_CONNECTION_RESPONSE"
      BY DEF KeyInv, AnsweredOnce
    <2>4. requests = 1 => link.requests = 1
      BY <1>2
    <2> QED
      BY <1>1, <2>1, <2>2, <2>3, <2>4 DEF KeyInv, AnsweredOnce
  <1>6. KeysAreDrawn'
    <2>1. \A l \in Sent' : l.kind = "ID_SECURED_CONNECTION_CONFIRMATION" => Key(l.cookie, l.random) \in past.drawn
      BY <1>3 DEF KeyInv, KeysAreDrawn, Fits
    <2>2. Keys' \subseteq past.drawn
      BY <1>1, <1>2 DEF KeyInv, KeysAreDrawn, Keys, ClientTo, ServerTo
    <2> QED
      BY <1>1, <2>1, <2>2 DEF KeyInv, KeysAreDrawn, ClientTo
  <1>7. ServerHasKey'
    BY <1>1, <1>3 DEF KeyInv, ServerHasKey, Fits, ServerTo
  <1>8. ClientEncrypts'
    BY <1>1 DEF KeyInv, ClientEncrypts, ClientTo, ServerTo
  <1>9. WireEncrypted'
    BY <1>1 DEF KeyInv, WireEncrypted, Fits
  <1>10. ServerConnected' /\ WellFormed'
    BY <1>1 DEF ServerTo, Readable, ServerConnected, WellFormed
  <1> QED
    BY <1>4, <1>5, <1>6, <1>7, <1>8, <1>9, <1>10 DEF KeyInv

\* An end that stays as it is.
LEMMA EndsStay ==
    ASSUME TypeOK, KeyInv
    PROVE  ClientTo(link.client) /\ ServerTo(link.server) /\ Readable(link.client, link.server, past.early)
  BY DEF KeyInv, KeysAreDrawn, Keys, ServerConnected, WellFormed, ClientTo, ServerTo, Readable

\* A message that fits whatever else there is.
LEMMA SomethingFits ==
    ASSUME TypeOK, KeyInv, NEW requests \in { link.requests, link.requests + 1 }, NEW n \in 1 .. requests,
           NEW kind \in { "ID_CONNECTION_REQUEST", "ID_DISCONNECTION_NOTIFICATION" },
           NEW server, NEW handled
    PROVE  Fits(Plain(kind, n), requests, server, handled)
  <1>1. n \in Int /\ kind \in Kinds
    BY DEF TypeOK, Kinds
  <1> QED
    BY <1>1, PlainIs DEF Fits

\* The numbers of the messages there are.
LEMMA MessageIs ==
    ASSUME TypeOK, KeyInv, NEW d \in link.wire
    PROVE  /\ d.message \in Sent /\ d.message.n \in 1 .. link.requests /\ 1 \in 1 .. link.requests
           /\ Handles(d) \subseteq Sent /\ past.handled \subseteq Handles(d)
  <1>1. d.message \in Sent /\ past.handled \subseteq Sent /\ link.requests \in Nat \ { 0 }
    BY Parts
  <1> QED
    BY <1>1 DEF KeyInv, Numbered, Handles

LEMMA QuietKeeps == TypeOK /\ KeyInv /\ Quiet => KeyInv'
  <1> SUFFICES ASSUME TypeOK, KeyInv, Quiet PROVE KeyInv'
    OBVIOUS
  <1>1. PICK handled \in SUBSET Sent :
         /\ past.handled \subseteq handled
         /\ Left(link.client, link.server, link.requests, link.outgoing, handled, past.drawn, past.used)
    BY DEF Quiet
  <1>2. link'.wire = link.wire /\ past'.early = past.early
    BY DEF Quiet, Still
  <1> DEFINE m == Plain("ID_CONNECTION_REQUEST", 1)
  <1>3. Fits(m, link.requests, link.server, handled)
    <2>1. 1 \in 1 .. link.requests
      BY DEF TypeOK
    <2> QED
      BY <2>1, SomethingFits
  <1> HIDE DEF m
  <1>4. \A o \in link.outgoing : o \in link.outgoing \/ o.message = m
    OBVIOUS
  <1> QED
    BY <1>1, <1>2, <1>3, <1>4, EndsStay, EndsKeep

LEMMA RequestsKeeps == TypeOK /\ KeyInv /\ Requests => KeyInv'
  <1> SUFFICES ASSUME TypeOK, KeyInv, Requests PROVE KeyInv'
    OBVIOUS
  <1> DEFINE m == Plain("ID_CONNECTION_REQUEST", link.requests + 1)
             client == [ link.client EXCEPT !.connectMode = "REQUESTED_CONNECTION" ]
  <1>1. PICK outgoing \in { link.outgoing, WithOrder("server", m) } :
         Left(client, link.server, link.requests + 1, outgoing, past.handled, past.drawn, past.used)
    BY DEF Requests
  <1>2. link'.wire = link.wire /\ past'.early = past.early /\ link.client.connectMode # "closed"
    BY DEF Requests, Still
  <1>3. Fits(m, link.requests + 1, link.server, past.handled)
    <2>1. link.requests + 1 \in 1 .. (link.requests + 1)
      BY DEF TypeOK
    <2> QED
      BY <2>1, SomethingFits
  <1>4. ClientTo(client) /\ Readable(client, link.server, past.early)
    <2>1. /\ client.connectMode = "REQUESTED_CONNECTION" /\ client.AESKey = link.client.AESKey
          /\ client.key = link.client.key
      BY Parts DEF Ends
    <2> HIDE DEF client
    <2> QED
      BY <1>2, <2>1, EndsStay DEF ClientTo, Readable
  <1> HIDE DEF m, client
  <1>5. \A o \in outgoing : o \in link.outgoing \/ o.message = m
    BY DEF WithOrder
  <1>6. past.handled \subseteq Sent
    BY Parts
  <1> QED
    BY <1>1, <1>2, <1>3, <1>4, <1>5, <1>6, EndsStay, EndsKeep

LEMMA ClosesKeeps == TypeOK /\ KeyInv /\ Closes => KeyInv'
  <1> SUFFICES ASSUME TypeOK, KeyInv, Closes PROVE KeyInv'
    OBVIOUS
  <1>1. /\ End("closed").connectMode = "closed" /\ End("closed").AESKey = NoKey
        /\ End("closed").key = NoKey
    BY DEF End
  <1>2. link'.wire = link.wire /\ past'.early = past.early
    BY DEF Closes, Still
  <1> DEFINE m == Plain("ID_CONNECTION_REQUEST", 1)
  <1>3. /\ Fits(m, link.requests, link.server, past.handled)
        /\ Fits(m, link.requests, End("closed"), past.handled)
    <2>1. 1 \in 1 .. link.requests
      BY DEF TypeOK
    <2> QED
      BY <2>1, SomethingFits
  <1> HIDE DEF m
  <1>4. \A o \in link.outgoing : o \in link.outgoing \/ o.message = m
    OBVIOUS
  <1>5. past.handled \subseteq Sent
    BY Parts
  <1>6. ClientTo(End("closed")) /\ Readable(End("closed"), link.server, past.early)
    BY <1>1 DEF ClientTo, Readable
  <1>7. ServerTo(End("closed")) /\ Readable(link.client, End("closed"), past.early)
    BY <1>1 DEF ServerTo, Readable
  <1>8. CASE Left(End("closed"), link.server, link.requests, link.outgoing,
                  past.handled, past.drawn, past.used)
    BY <1>2, <1>3, <1>4, <1>5, <1>6, <1>8, EndsStay, EndsKeep
  <1>9. CASE Left(link.client, End("closed"), link.requests, link.outgoing,
                  past.handled, past.drawn, past.used)
    BY <1>2, <1>3, <1>4, <1>5, <1>7, <1>9, EndsStay, EndsKeep
  <1> QED
    BY <1>8, <1>9 DEF Closes

\* The key of the server's layer, when a datagram for it comes.
LEMMA ServerTurns ==
    ASSUME TypeOK, KeyInv, NEW d \in link.wire, d.to = "server"
    PROVE  /\ ServerTo(TurnedOn(d))
           /\ d.key # NoKey => Readable(link.client, TurnedOn(d), FALSE)
           /\ TurnedOn(d).key = link.server.key => Readable(link.client, TurnedOn(d), past.early)
           /\ d.key = TurnedOn(d).key => Readable(link.client, TurnedOn(d), past.early)
           /\ d.key = TurnedOn(d).key /\ d.message.kind = "ID_NEW_INCOMING_CONNECTION" =>
                 TurnedOn(d).key \in past.used
  <1>1. /\ TurnedOn(d).connectMode = link.server.connectMode
        /\ TurnedOn(d).AESKey = link.server.AESKey
        /\ TurnedOn(d).key \in { link.server.key, link.server.AESKey }
        /\ link.server.connectMode # "SET_ENCRYPTION_ON_MULTIPLE_16_BYTE_PACKET" =>
              TurnedOn(d).key = link.server.key
    BY TurnedOnIs
  <1>2. ServerTo(TurnedOn(d))
    BY <1>1 DEF KeyInv, KeysAreDrawn, Keys, ServerConnected, ServerTo
  <1>3. d.key # NoKey => past.used # {} /\ d.key \in past.used
    BY DEF KeyInv, WireEncrypted
  <1>4. d.key # NoKey => Readable(link.client, TurnedOn(d), FALSE)
    BY <1>3 DEF KeyInv, ClientEncrypts, Readable
  <1>5. TurnedOn(d).key = link.server.key => Readable(link.client, TurnedOn(d), past.early)
    BY DEF KeyInv, WellFormed, Readable
  <1>6. d.key = TurnedOn(d).key => Readable(link.client, TurnedOn(d), past.early)
    BY <1>4 DEF Readable
  <1>7. d.message.kind = "ID_NEW_INCOMING_CONNECTION" => d.key # NoKey
    BY DEF KeyInv, WireEncrypted
  <1> QED
    BY <1>2, <1>3, <1>4, <1>5, <1>6, <1>7

LEMMA TurnsOnKeeps ==
    ASSUME TypeOK, KeyInv, NEW d \in link.wire, TurnsOn(d) PROVE KeyInv'
  <1>1. PICK handled \in { past.handled, Handles(d) } :
         Left(link.client, TurnedOn(d), link.requests, link.outgoing, handled, past.drawn, past.used)
    BY DEF TurnsOn
  <1>2. d.to = "server" /\ link'.wire = link.wire
    BY DEF TurnsOn
  <1>3. Readable(link.client, TurnedOn(d), past'.early)
    <2>1. CASE past'.early = past.early /\ TurnedOn(d).key \in { link.server.key, d.key }
      BY <1>2, <2>1, ServerTurns
    <2>2. CASE past'.early = past.early /\ d.key # NoKey
      BY <1>2, <2>2, ServerTurns DEF Readable
    <2>3. CASE past'.early = TRUE
      BY <2>3 DEF Readable
    <2> QED
      BY <2>1, <2>2, <2>3 DEF TurnsOn
  <1> DEFINE m == Plain("ID_CONNECTION_REQUEST", 1)
  <1>4. Fits(m, link.requests, TurnedOn(d), handled)
    BY MessageIs, SomethingFits
  <1> HIDE DEF m
  <1>5. \A o \in link.outgoing : o \in link.outgoing \/ o.message = m
    OBVIOUS
  <1>6. past.handled \subseteq handled /\ handled \subseteq Sent
    BY MessageIs
  <1>7. ServerTo(TurnedOn(d)) /\ ClientTo(link.client)
    BY <1>2, ServerTurns, EndsStay
  <1> QED
    BY <1>1, <1>2, <1>3, <1>4, <1>5, <1>6, <1>7, EndsKeep

\* The first answer to the request, so there is no other of its number.
LEMMA RespondsKeeps ==
    ASSUME TypeOK, KeyInv, NEW d \in link.wire, Responds(d) PROVE KeyInv'
  <1> DEFINE server == [ TurnedOn(d) EXCEPT !.connectMode = "HANDLING_CONNECTION_REQUEST" ]
             response(c) == Message("ID_SECURED_CONNECTION_RESPONSE", d.message.n, c, 0)
  <1>1. PICK cookie \in Int :
         Left(link.client, server, link.requests, WithOrder("client", response(cookie)),
              Handles(d), past.drawn, past.used)
    BY DEF Responds
  <1>2. /\ d.to = "server" /\ d.key = TurnedOn(d).key
        /\ link'.wire = link.wire /\ past'.early = past.early
        /\ d.message.kind = "ID_CONNECTION_REQUEST" /\ d.message \notin past.handled
        /\ link.server.connectMode # "closed"
    BY DEF Responds, Reads, Still
  <1>3. /\ server.connectMode = "HANDLING_CONNECTION_REQUEST"
        /\ server.AESKey = TurnedOn(d).AESKey /\ server.key = TurnedOn(d).key
    BY Parts DEF Ends
  <1>4. /\ response(cookie).kind = "ID_SECURED_CONNECTION_RESPONSE"
        /\ response(cookie).n = d.message.n
    BY DEF Message
  <1> HIDE DEF server, response
  <1>5. ServerTo(server) /\ Readable(link.client, server, past'.early)
    BY <1>2, <1>3, ServerTurns, TurnedOnIs DEF ServerTo, Readable
  <1>6. d.message = Plain("ID_CONNECTION_REQUEST", d.message.n)
    BY <1>2, MessageIs DEF KeyInv, Numbered, Unreliable
  <1>7. Plain("ID_CONNECTION_REQUEST", response(cookie).n) \in Handles(d) \ past.handled
    BY <1>2, <1>4, <1>6 DEF Handles
  <1>8. Fits(response(cookie), link.requests, server, Handles(d))
    BY <1>4, <1>7, MessageIs DEF Fits, Unreliable
  <1>9. \A o \in WithOrder("client", response(cookie)) : o \in link.outgoing \/ o.message = response(cookie)
    BY DEF WithOrder
  <1> QED
    BY <1>1, <1>2, <1>5, <1>8, <1>9, MessageIs, EndsStay, EndsKeep

LEMMA AcceptsKeeps ==
    ASSUME TypeOK, KeyInv, NEW d \in link.wire, Accepts(d) PROVE KeyInv'
  <1> DEFINE key == Key(d.message.cookie, d.message.random)
             server == [ TurnedOn(d) EXCEPT
                           !.connectMode = "SET_ENCRYPTION_ON_MULTIPLE_16_BYTE_PACKET", !.AESKey = key ]
             m == Plain("ID_CONNECTION_REQUEST_ACCEPTED", d.message.n)
  <1>1. PICK outgoing \in { link.outgoing, WithOrder("client", m) } :
         Left(link.client, server, link.requests, outgoing, Handles(d), past.drawn, past.used)
    BY DEF Accepts
  <1>2. /\ d.to = "server" /\ d.key = TurnedOn(d).key
        /\ link'.wire = link.wire /\ past'.early = past.early
        /\ d.message.kind = "ID_SECURED_CONNECTION_CONFIRMATION"
        /\ link.server.connectMode # "closed"
    BY DEF Accepts, Reads, Still
  <1>3. /\ server.connectMode = "SET_ENCRYPTION_ON_MULTIPLE_16_BYTE_PACKET"
        /\ server.AESKey = key /\ server.key = TurnedOn(d).key
    BY Parts DEF Ends
  <1>4. key \in past.drawn /\ key # NoKey
    <2>1. key \in past.drawn
      BY <1>2, MessageIs DEF KeyInv, KeysAreDrawn
    <2> QED
      BY <2>1, NoKeyIsNone DEF TypeOK
  <1>5. /\ m.kind = "ID_CONNECTION_REQUEST_ACCEPTED" /\ m.n = d.message.n /\ m = Plain(m.kind, m.n)
    <2>1. d.message.n \in Int
      BY Parts DEF Messages
    <2> QED
      BY <2>1, PlainIs DEF Kinds
  <1> HIDE DEF server, key, m
  <1>6. ServerTo(server) /\ Readable(link.client, server, past'.early)
    BY <1>2, <1>3, <1>4, ServerTurns DEF ServerTo, Readable
  <1>7. Fits(m, link.requests, server, Handles(d))
    BY <1>3, <1>4, <1>5, MessageIs DEF Fits
  <1>8. \A o \in outgoing : o \in link.outgoing \/ o.message = m
    BY DEF WithOrder
  <1> QED
    BY <1>1, <1>2, <1>6, <1>7, <1>8, MessageIs, EndsStay, EndsKeep

LEMMA ChangesKeeps ==
    ASSUME TypeOK, KeyInv, NEW d \in link.wire, Changes(d) PROVE KeyInv'
  <1> DEFINE server(mode) == [ TurnedOn(d) EXCEPT !.connectMode = mode ]
             m == Plain("ID_CONNECTION_REQUEST", 1)
  <1>1. PICK mode \in { "CONNECTED", "DISCONNECT_ON_NO_ACK" } :
         /\ mode = "CONNECTED" => d.message.kind = "ID_NEW_INCOMING_CONNECTION"
         /\ Left(link.client, server(mode), link.requests, link.outgoing,
                 Handles(d), past.drawn, past.used)
    BY DEF Changes
  <1>2. /\ d.to = "server" /\ d.key = TurnedOn(d).key
        /\ link'.wire = link.wire /\ past'.early = past.early
        /\ link.server.connectMode # "closed"
    BY DEF Changes, Reads, Still
  <1>3. /\ server(mode).connectMode = mode
        /\ server(mode).AESKey = TurnedOn(d).AESKey /\ server(mode).key = TurnedOn(d).key
    BY Parts DEF Ends
  <1> HIDE DEF server
  <1>4. ServerTo(server(mode)) /\ Readable(link.client, server(mode), past'.early)
    BY <1>1, <1>2, <1>3, ServerTurns, TurnedOnIs DEF ServerTo, Readable
  <1>5. Fits(m, link.requests, server(mode), Handles(d))
    BY MessageIs, SomethingFits
  <1> HIDE DEF m
  <1>6. \A o \in link.outgoing : o \in link.outgoing \/ o.message = m
    OBVIOUS
  <1> QED
    BY <1>1, <1>2, <1>4, <1>5, <1>6, MessageIs, EndsStay, EndsKeep

LEMMA RejectsKeeps ==
    ASSUME TypeOK, KeyInv, NEW d \in link.wire, Rejects(d) \/ Leaves(d) PROVE KeyInv'
  <1> DEFINE client(mode) == [ link.client EXCEPT !.connectMode = mode ]
             m == Plain("ID_DISCONNECTION_NOTIFICATION", d.message.n)
  <1>1. PICK mode \in { "DISCONNECT_ASAP", "DISCONNECT_ASAP_SILENTLY" },
             outgoing \in { link.outgoing, WithOrder("server", m) } :
         Left(client(mode), link.server, link.requests, outgoing, Handles(d), past.drawn, past.used)
    BY DEF Rejects, Leaves
  <1>2. /\ link'.wire = link.wire /\ past'.early = past.early
        /\ link.client.connectMode # "closed"
    BY DEF Rejects, Leaves, Still
  <1>3. ClientTo(client(mode)) /\ Readable(client(mode), link.server, past'.early)
    <2>1. /\ client(mode).connectMode = mode /\ client(mode).AESKey = link.client.AESKey
          /\ client(mode).key = link.client.key
      BY Parts DEF Ends
    <2> HIDE DEF client
    <2> QED
      BY <1>2, <2>1, EndsStay DEF ClientTo, Readable
  <1>4. Fits(m, link.requests, link.server, Handles(d))
    BY MessageIs, SomethingFits
  <1> HIDE DEF client, m
  <1>5. \A o \in outgoing : o \in link.outgoing \/ o.message = m
    BY DEF WithOrder
  <1> QED
    BY <1>1, <1>2, <1>3, <1>4, <1>5, MessageIs, EndsStay, EndsKeep

\* A response is met for the first time, so of one request no key was made before.
LEMMA ConfirmsKeeps ==
    ASSUME TypeOK, KeyInv, NEW d \in link.wire, Confirms(d) PROVE KeyInv'
  <1> DEFINE client(c, r) == [ link.client EXCEPT !.AESKey = Key(c, r) ]
             confirmation(c, r) == Message("ID_SECURED_CONNECTION_CONFIRMATION", d.message.n, c, r)
  <1>1. PICK c \in Int, r \in Numbers :
         Left(client(c, r), link.server, link.requests, WithOrder("server", confirmation(c, r)),
              Handles(d), past.drawn \cup { Key(c, r) }, past.used)
    BY DEF Confirms
  <1>2. /\ link'.wire = link.wire /\ past'.early = past.early
        /\ d.message.kind = "ID_SECURED_CONNECTION_RESPONSE" /\ d.message \notin past.handled
        /\ link.client.connectMode = "REQUESTED_CONNECTION" /\ link.preset # "other"
    BY DEF Confirms, Still
  <1>3. /\ client(c, r).connectMode = "REQUESTED_CONNECTION" /\ client(c, r).AESKey = Key(c, r)
        /\ client(c, r).key = link.client.key
    BY <1>2, Parts DEF Ends
  <1>4. /\ confirmation(c, r).kind = "ID_SECURED_CONNECTION_CONFIRMATION"
        /\ confirmation(c, r).n = d.message.n
        /\ confirmation(c, r).cookie = c /\ confirmation(c, r).random = r
    BY DEF Message
  <1> DEFINE new == Key(c, r)
             m == confirmation(c, r)
  <1>5. new # NoKey
    BY KeyIsNone
  <1> HIDE DEF client, confirmation
  <1>6. /\ link'.client = client(c, r) /\ link'.server = link.server /\ link'.requests = link.requests
        /\ link'.outgoing = WithOrder("server", m) /\ link'.preset = link.preset /\ link'.long = link.long
        /\ past'.handled = Handles(d) /\ past'.drawn = past.drawn \cup { new } /\ past'.used = past.used
    BY <1>1, LeftIs
  <1>7. Key(m.cookie, m.random) = new
    BY <1>4
  <1> HIDE DEF new, m
  <1>8. \A l \in Sent' : l \in Sent \/ l = m
    BY <1>2, <1>6, MessageIs DEF Sent, WithOrder
  <1>9. m.kind = "ID_SECURED_CONNECTION_CONFIRMATION" /\ m.n \in 1 .. link.requests
    BY <1>4, MessageIs DEF m
  <1>10. Numbered'
    BY <1>6, <1>8, <1>9 DEF KeyInv, Numbered, Unreliable
  <1>11. AnsweredOnce'
    <2>1. \A l \in Sent' : l.kind = "ID_SECURED_CONNECTION_RESPONSE" => l \in Sent
      BY <1>8, <1>9
    <2>2. d.message \in Handles(d)
      BY DEF Handles
    <2>3. link.requests = 1 => past.drawn = {}
      <3> SUFFICES ASSUME link.requests = 1, past.drawn # {} PROVE FALSE
        OBVIOUS
      <3>1. PICK l \in past.handled : l.kind = "ID_SECURED_CONNECTION_RESPONSE"
        BY DEF KeyInv, AnsweredOnce
      <3>2. l \in Sent /\ l.n = 1 /\ d.message \in Sent /\ d.message.n = 1
        BY Parts, MessageIs DEF KeyInv, Numbered
      <3>3. l = d.message
        BY <1>2, <3>1, <3>2 DEF KeyInv, AnsweredOnce
      <3> QED
        BY <1>2, <3>3
    <2>4. past.handled \subseteq Handles(d)
      BY MessageIs
    <2> QED
      BY <1>2, <1>6, <2>1, <2>2, <2>3, <2>4 DEF KeyInv, AnsweredOnce
  <1>12. KeysAreDrawn'
    <2>1. Keys' \subseteq past.drawn \cup { new }
      BY <1>3, <1>6 DEF KeyInv, KeysAreDrawn, Keys, new
    <2> QED
      BY <1>2, <1>3, <1>5, <1>6, <1>7, <1>8, <2>1 DEF KeyInv, KeysAreDrawn, new
  <1>13. ServerHasKey'
    BY <1>6, <1>8, <1>9 DEF KeyInv, ServerHasKey
  <1>14. ClientEncrypts'
    BY <1>2, <1>3, <1>6 DEF KeyInv, ClientEncrypts
  <1>15. WireEncrypted'
    BY <1>2, <1>6, <1>9 DEF KeyInv, WireEncrypted, WithOrder
  <1>16. ServerConnected' /\ WellFormed'
    BY <1>2, <1>3, <1>6 DEF KeyInv, ServerConnected, WellFormed
  <1> QED
    BY <1>10, <1>11, <1>12, <1>13, <1>14, <1>15, <1>16 DEF KeyInv

\* What was accepted was confirmed, so the client has a key to encrypt with.
LEMMA ConnectsKeeps ==
    ASSUME TypeOK, KeyInv, NEW d \in link.wire, Connects(d) PROVE KeyInv'
  <1> DEFINE key == link.client.AESKey
             client == [ link.client EXCEPT !.connectMode = "CONNECTED", !.key = key ]
             m == Plain("ID_NEW_INCOMING_CONNECTION", d.message.n)
  <1>1. Left(client, link.server, link.requests, WithOrder("server", m), Handles(d),
             past.drawn, past.used \cup { key })
    BY DEF Connects
  <1>2. /\ link'.wire = link.wire /\ past'.early = past.early
        /\ d.message.kind = "ID_CONNECTION_REQUEST_ACCEPTED"
        /\ link.client.connectMode = "REQUESTED_CONNECTION" /\ link.long
    BY DEF Connects, Still
  <1>3. client.connectMode = "CONNECTED" /\ client.AESKey = key /\ client.key = key
    BY Parts DEF Ends
  <1>4. /\ m.kind = "ID_NEW_INCOMING_CONNECTION" /\ m.n = d.message.n /\ m = Plain(m.kind, m.n)
    <2>1. d.message.n \in Int
      BY Parts DEF Messages
    <2> QED
      BY <2>1, PlainIs DEF Kinds
  <1>5. /\ past.drawn # {}
        /\ link.server.connectMode # "closed" => link.server.AESKey # NoKey
    BY <1>2, MessageIs DEF KeyInv, ServerHasKey
  <1>6. key # NoKey /\ key \in past.drawn
    BY <1>2, <1>5 DEF KeyInv, KeysAreDrawn, Keys
  <1>7. /\ link'.client = client /\ link'.server = link.server /\ link'.requests = link.requests
        /\ link'.outgoing = WithOrder("server", m) /\ link'.preset = link.preset /\ link'.long = link.long
        /\ past'.handled = Handles(d) /\ past'.drawn = past.drawn /\ past'.used = past.used \cup { key }
    BY <1>1, LeftIs
  <1> HIDE DEF client, m, key
  <1>8. \A l \in Sent' : l \in Sent \/ l = m
    BY <1>2, <1>7, MessageIs DEF Sent, WithOrder
  <1>9. m.n \in 1 .. link.requests
    BY <1>4, MessageIs
  <1>10. Numbered'
    BY <1>4, <1>7, <1>8, <1>9 DEF KeyInv, Numbered
  <1>11. AnsweredOnce'
    <2>1. \A l \in Sent' : l.kind = "ID_SECURED_CONNECTION_RESPONSE" => l \in Sent
      BY <1>4, <1>8
    <2>2. past.handled \subseteq Handles(d)
      BY MessageIs
    <2> QED
      BY <1>7, <2>1, <2>2 DEF KeyInv, AnsweredOnce
  <1>12. KeysAreDrawn'
    <2>1. Keys' \subseteq past.drawn
      BY <1>3, <1>6, <1>7 DEF KeyInv, KeysAreDrawn, Keys
    <2> QED
      BY <1>3, <1>4, <1>6, <1>7, <1>8, <2>1 DEF KeyInv, KeysAreDrawn
  <1>13. ServerHasKey'
    BY <1>4, <1>7, <1>8 DEF KeyInv, ServerHasKey
  <1>14. ClientEncrypts'
    BY <1>2, <1>3, <1>5, <1>6, <1>7 DEF KeyInv, ClientEncrypts
  <1>15. WireEncrypted'
    BY <1>2, <1>7 DEF KeyInv, WireEncrypted, WithOrder
  <1>16. ServerConnected' /\ WellFormed'
    BY <1>2, <1>3, <1>6, <1>7 DEF KeyInv, ServerConnected, WellFormed
  <1> QED
    BY <1>10, <1>11, <1>12, <1>13, <1>14, <1>15, <1>16 DEF KeyInv

\* What the client sends is encrypted as its layer encrypts by then.
LEMMA TransmitsKeeps == TypeOK /\ KeyInv /\ Transmits => KeyInv'
  <1> SUFFICES ASSUME TypeOK, KeyInv, Transmits PROVE KeyInv'
    OBVIOUS
  <1> DEFINE from(o) == IF o.to = "server" THEN link.client ELSE link.server
  <1>1. PICK o \in link.outgoing, outgoing \in SUBSET link.outgoing :
          /\ from(o).connectMode # "closed"
          /\ Left(link.client, link.server, link.requests, outgoing, past.handled, past.drawn, past.used)
          /\ link'.wire = link.wire \cup { Datagram(from(o), o) }
          /\ past'.early = past.early
    BY DEF Transmits
  <1> DEFINE new == Datagram(from(o), o)
  <1>2. new.to = o.to /\ new.message = o.message /\ new.key = from(o).key
    BY DatagramIs
  <1>3. /\ link'.client = link.client /\ link'.server = link.server /\ link'.requests = link.requests
        /\ link'.outgoing = outgoing /\ link'.preset = link.preset /\ link'.long = link.long
        /\ past'.handled = past.handled /\ past'.drawn = past.drawn /\ past'.used = past.used
        /\ link'.wire = link.wire \cup { new } /\ past'.early = past.early
    BY <1>1, LeftIs
  <1>4. o.to = "server" => link.client.connectMode # "closed" /\ new.key = link.client.key
    BY <1>1, <1>2
  <1> HIDE DEF new, from
  <1>5. Sent' \subseteq Sent
    BY <1>2, <1>3 DEF Sent
  <1>6. Keys' = Keys
    BY <1>3 DEF Keys
  <1>7. Numbered' /\ AnsweredOnce' /\ KeysAreDrawn' /\ ServerHasKey' /\ ClientEncrypts'
        /\ ServerConnected' /\ WellFormed'
    <2>1. Numbered'
      BY <1>3, <1>5 DEF KeyInv, Numbered
    <2>2. AnsweredOnce'
      BY <1>3, <1>5 DEF KeyInv, AnsweredOnce
    <2>3. KeysAreDrawn' /\ ServerHasKey'
      BY <1>3, <1>5, <1>6 DEF KeyInv, KeysAreDrawn, ServerHasKey
    <2>4. ClientEncrypts' /\ ServerConnected' /\ WellFormed'
      BY <1>3 DEF KeyInv, ClientEncrypts, ServerConnected, WellFormed
    <2> QED
      BY <2>1, <2>2, <2>3, <2>4
  <1>8. WireEncrypted'
    <2>1. new.to = "server" => (new.key # NoKey => new.key \in past.used)
      BY <1>2, <1>4 DEF KeyInv, ClientEncrypts
    <2>2. new.to = "server" /\ new.message.kind = "ID_NEW_INCOMING_CONNECTION" => new.key # NoKey
      BY <1>2, <1>4 DEF KeyInv, ClientEncrypts, WireEncrypted
    <2> QED
      BY <1>3, <2>1, <2>2 DEF KeyInv, WireEncrypted
  <1> QED
    BY <1>7, <1>8 DEF KeyInv

LEMMA KeyInvStep == TypeOK /\ KeyInv /\ [Next]_vars => KeyInv'
  <1> SUFFICES ASSUME TypeOK, KeyInv, [Next]_vars PROVE KeyInv'
    OBVIOUS
  <1>1. CASE Next
    BY <1>1, Steps, QuietKeeps, RequestsKeeps, TransmitsKeeps, ClosesKeeps, TurnsOnKeeps, RespondsKeeps,
       RejectsKeeps, ConfirmsKeeps, AcceptsKeeps, ConnectsKeeps, ChangesKeeps DEF Effect
  <1>2. CASE UNCHANGED vars
    BY <1>2 DEF vars, KeyInv, Numbered, AnsweredOnce, KeysAreDrawn, ServerHasKey, ClientEncrypts,
       WireEncrypted, ServerConnected, WellFormed, Sent, Keys
  <1> QED
    BY <1>1, <1>2

-----------------------------------------------------------------------------
(* The theorems.                                                           *)

\* The ends, the datagrams and the messages keep their types; a key is none, or what
\* a cookie and a random number make.
THEOREM TypeCorrect == Spec => []TypeOK
<1> QED
  BY TypeInit, TypeStep, PTL DEF Spec

\* However many requests are made, answered and confirmed, and whatever is lost,
\* repeated or given up: every key at either end is one the client made, one request
\* makes one key, the server is connected only with a key the client has encrypted
\* with, and the client only to a server whose public key it accepts
\* (RakPeer.cpp:2442-2484, 2771-2917, 3551-3598, 3742-3757, 4220-4265, 4385-4541).
THEOREM KeysAreTheClients == Spec => []Faithful
<1>1. TypeOK /\ KeyInv => Faithful
  BY DEF KeyInv, AnsweredOnce, KeysAreDrawn, ClientEncrypts, ServerConnected, Faithful
<1>2. Init => TypeOK /\ KeyInv
  BY TypeInit, KeyInvInit
<1>3. TypeOK /\ KeyInv /\ [Next]_vars => (TypeOK /\ KeyInv)'
  BY TypeStep, KeyInvStep
<1> QED
  BY <1>1, <1>2, <1>3, PTL DEF Spec

\* The server's key is on before the client's only when a request in the clear was
\* as long as an encrypted one (RakPeer.cpp:3748, which counts in eights where the
\* comment at 2478 says sixteens).
THEOREM EarlyKeyIsAccident == Spec => []WellFormed
<1>1. KeyInv => WellFormed
  BY DEF KeyInv
<1>2. Init => TypeOK /\ KeyInv
  BY TypeInit, KeyInvInit
<1>3. TypeOK /\ KeyInv /\ [Next]_vars => (TypeOK /\ KeyInv)'
  BY TypeStep, KeyInvStep
<1> QED
  BY <1>1, <1>2, <1>3, PTL DEF Spec

=============================================================================
