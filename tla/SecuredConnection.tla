------------------------- MODULE SecuredConnection -------------------------
(***************************************************************************)
(* How two peers agree on an AES key (RakNet/src/RakPeer.cpp, after        *)
(* InitializeSecurity): the server answers a request with a cookie and its *)
(* public key, the client sends the cookie back with a random number that  *)
(* only the server can decrypt, and the key is what both make of the two.  *)
(* Each end turns encryption on by itself: a datagram is read when both    *)
(* ends have the same key on, or none.  A client may make several requests *)
(* (Connect called again before the server has replied, a reply that is    *)
(* repeated); each is answered, confirmed and accepted on its own, and     *)
(* each confirmation has a key of its own.                                 *)
(* The server has room for the client, and the client its password.        *)
(***************************************************************************)
EXTENDS Integers, FiniteSets

CONSTANTS
    Randoms,      \* numbers the client draws
    MaxCookie,    \* bound: numbers the server's cookies are made of
    MaxRequests   \* bound: requests of the client

VARIABLES
    link,        \* client, server, cookie, what the two have to send, and every
                 \* datagram ever sent: one may arrive late, again or never
    past         \* history: the messages handled, the keys the client made and
                 \* those it encrypted with, and whether the server took a
                 \* datagram in the clear for an encrypted one

vars == << link, past >>

NoKey == << >>
Key(cookie, random) == << cookie, random >>           \* their exclusive or

\* AESKey is the remote system's, key that of its reliability layer.
End(mode) == [ connectMode |-> mode, AESKey |-> NoKey, key |-> NoKey ]

\* What comes of the n-th request has its number: it is what the layer's
\* message numbers tell apart.
Message(kind, n, cookie, random) ==
    [ kind |-> kind, n |-> n, cookie |-> cookie, random |-> random ]
Plain(kind, n) == Message(kind, n, 0, 0)

Leaving == { "DISCONNECT_ASAP", "DISCONNECT_ASAP_SILENTLY", "DISCONNECT_ON_NO_ACK", "closed" }

\* SendImmediate: nothing more is taken from an end that leaves.
Sending(end, to, message) ==
    IF end.connectMode \in Leaving THEN link.outgoing
    ELSE link.outgoing \cup { [ to |-> to, message |-> message ] }

\* InitializeSecurity; the client may have been told the server's public key,
\* or another one, and its first request is to be sent.  "eights": whether the
\* password makes a request's datagram a multiple of eight.  "long": the server's
\* accepting message has the two numbers at its end that this client asks for and
\* that a server built from this code does not write.
Init ==
    /\ \E eights, long \in BOOLEAN, preset \in { "same", "other" } :
         link = [ client |-> End("REQUESTED_CONNECTION"), server |-> End("UNVERIFIED_SENDER"),
                  preset |-> preset, eights |-> eights, long |-> long,
                  cookie |-> 1, requests |-> 1,
                  outgoing |-> { [ to |-> "server", message |-> Plain("ID_CONNECTION_REQUEST", 1) ] },
                  wire |-> {} ]
    /\ past = [ handled |-> {}, drawn |-> {}, used |-> {}, early |-> FALSE ]

\* ID_OPEN_CONNECTION_REPLY with one more of the client's attempts in the list.
\* It meets an end that is there, in whatever mode.
RequestAgain ==
    /\ link.requests < MaxRequests
    /\ link.client.connectMode # "closed"
    /\ LET n == link.requests + 1
           client == [ link.client EXCEPT !.connectMode = "REQUESTED_CONNECTION" ]
       IN  link' = [ link EXCEPT !.requests = n, !.client = client,
                        !.outgoing = Sending(client, "server", Plain("ID_CONNECTION_REQUEST", n)) ]
    /\ UNCHANGED past

\* Update of the reliability layer: what is sent is encrypted by then, and what
\* is encrypted is padded.  The messages of the exchange go once, the others again.
Unreliable == { "ID_SECURED_CONNECTION_RESPONSE", "ID_SECURED_CONNECTION_CONFIRMATION" }
Datagram(from, o) ==
    [ to |-> o.to, message |-> o.message, key |-> from.key,
      eights |-> from.key # NoKey \/ (o.message.kind = "ID_CONNECTION_REQUEST" /\ link.eights) ]
Update ==
    /\ \E o \in link.outgoing :
         LET from == IF o.to = "server" THEN link.client ELSE link.server
         IN  /\ from.connectMode # "closed"
             /\ link' = [ link EXCEPT !.wire = @ \cup { Datagram(from, o) },
                            !.outgoing = IF o.message.kind \in Unreliable THEN @ \ { o } ELSE @ ]
    /\ UNCHANGED past

\* GenerateSYNCookieRandomNumber, when the number is too old for another system
\* that asks, or for this one.
Refreshed == IF link.cookie < MaxCookie THEN { link.cookie, link.cookie + 1 } ELSE { link.cookie }
GenerateSYNCookieRandomNumber ==
    /\ \E cookie \in Refreshed : link' = [ link EXCEPT !.cookie = cookie ]
    /\ UNCHANGED past

-----------------------------------------------------------------------------
\* ProcessNetworkPacket: at a server that waits for it, a datagram whose length is
\* a multiple of eight turns the key on before it is read.
TurnedOn(d) ==
    IF d.eights /\ link.server.connectMode = "SET_ENCRYPTION_ON_MULTIPLE_16_BYTE_PACKET"
    THEN [ link.server EXCEPT !.key = link.server.AESKey ] ELSE link.server

\* The message of datagram d is handed up at an end whose layer can read it and has
\* not met it before.
Handle(d, kind, end) ==
    /\ d.message.kind = kind
    /\ end.connectMode # "closed" /\ d.key = end.key
    /\ d.message \notin past.handled

\* A datagram the server's layer does not hand up may still turn the key on; else
\* it changes nothing.
DropAtServer(d) ==
    LET server == TurnedOn(d)
    IN  /\ d.to = "server" /\ ~Handle(d, d.message.kind, server)
        /\ server # link.server
        /\ link' = [ link EXCEPT !.server = server ]
        /\ past' = [ past EXCEPT !.early = @ \/ d.key = NoKey ]

Handled(d) == [ past EXCEPT !.handled = @ \cup { d.message } ]

\* ParseConnectionRequestPacket and SecuredConnectionResponse, in every mode but
\* CONNECTED.
SecuredConnectionResponse(d) ==
    LET server == TurnedOn(d)
        handling == [ server EXCEPT !.connectMode = "HANDLING_CONNECTION_REQUEST" ]
    IN  /\ d.to = "server" /\ Handle(d, "ID_CONNECTION_REQUEST", server)
        /\ \/ /\ server.connectMode = "CONNECTED"
              /\ UNCHANGED link
           \/ /\ server.connectMode # "CONNECTED"
              /\ \E cookie \in Refreshed :
                   link' = [ link EXCEPT !.server = handling, !.cookie = cookie,
                       !.outgoing = Sending(handling, "client",
                           Message("ID_SECURED_CONNECTION_RESPONSE", d.message.n, cookie, 0)) ]
        /\ past' = Handled(d)

\* The client draws a number for every response it meets while it asks.
SecuredConnectionConfirmation(d) ==
    /\ d.to = "client" /\ Handle(d, "ID_SECURED_CONNECTION_RESPONSE", link.client)
    /\ \/ /\ link.client.connectMode # "REQUESTED_CONNECTION"
          /\ UNCHANGED link /\ past' = Handled(d)
       \/ /\ link.client.connectMode = "REQUESTED_CONNECTION" /\ link.preset = "other"
          /\ link' = [ link EXCEPT !.client.connectMode = "DISCONNECT_ASAP_SILENTLY" ]
          /\ past' = Handled(d)
       \/ /\ link.client.connectMode = "REQUESTED_CONNECTION" /\ link.preset # "other"
          /\ \E random \in Randoms :
               LET cookie == d.message.cookie
               IN  /\ link' = [ link EXCEPT !.client.AESKey = Key(cookie, random),
                        !.outgoing = Sending(link.client, "server",
                            Message("ID_SECURED_CONNECTION_CONFIRMATION",
                                    d.message.n, cookie, random)) ]
                   /\ past' = [ Handled(d) EXCEPT !.drawn = @ \cup { Key(cookie, random) } ]

\* The cookie is of one of the last two numbers; then OnConnectionRequest, in
\* whatever mode the server is.
SecuredConnectionAccept(d) ==
    LET m == d.message
        server == TurnedOn(d)
    IN  /\ d.to = "server" /\ Handle(d, "ID_SECURED_CONNECTION_CONFIRMATION", server)
        /\ link' = IF m.cookie \in { link.cookie, link.cookie - 1 }
                   THEN [ link EXCEPT
                            !.server = [ server EXCEPT
                                !.connectMode = "SET_ENCRYPTION_ON_MULTIPLE_16_BYTE_PACKET",
                                !.AESKey = Key(m.cookie, m.random) ],
                            !.outgoing = Sending(server, "client",
                                Plain("ID_CONNECTION_REQUEST_ACCEPTED", m.n)) ]
                   ELSE [ link EXCEPT !.server = server ]
        /\ past' = Handled(d)

\* NotifyAndFlagForDisconnect, when the client does not ask (any more).
ConnectionRequestAccepted(d) ==
    /\ d.to = "client" /\ Handle(d, "ID_CONNECTION_REQUEST_ACCEPTED", link.client)
    /\ \/ /\ ~link.long
          /\ UNCHANGED link /\ past' = Handled(d)
       \/ /\ link.long /\ link.client.connectMode = "REQUESTED_CONNECTION"
          /\ link' = [ link EXCEPT
                  !.client.connectMode = "CONNECTED", !.client.key = link.client.AESKey,
                  !.outgoing = Sending(link.client, "server",
                      Plain("ID_NEW_INCOMING_CONNECTION", d.message.n)) ]
          /\ past' = [ Handled(d) EXCEPT !.used = @ \cup { link.client.AESKey } ]
       \/ /\ link.long /\ link.client.connectMode # "REQUESTED_CONNECTION"
          /\ link' = [ link EXCEPT
                  !.client.connectMode = "DISCONNECT_ASAP",
                  !.outgoing = Sending(link.client, "server",
                      Plain("ID_DISCONNECTION_NOTIFICATION", d.message.n)) ]
          /\ past' = Handled(d)

NewIncomingConnection(d) ==
    LET server == TurnedOn(d)
    IN  /\ d.to = "server" /\ Handle(d, "ID_NEW_INCOMING_CONNECTION", server)
        /\ link' = [ link EXCEPT !.server =
              IF server.connectMode \in { "HANDLING_CONNECTION_REQUEST",
                                          "SET_ENCRYPTION_ON_MULTIPLE_16_BYTE_PACKET" }
              THEN [ server EXCEPT !.connectMode = "CONNECTED" ] ELSE server ]
        /\ past' = Handled(d)

DisconnectionNotification(d) ==
    LET server == TurnedOn(d)
    IN  /\ d.to = "server" /\ Handle(d, "ID_DISCONNECTION_NOTIFICATION", server)
        /\ link' = [ link EXCEPT
                !.server = [ server EXCEPT !.connectMode = "DISCONNECT_ON_NO_ACK" ] ]
        /\ past' = Handled(d)

\* An end is closed: ten seconds without being connected, a dead connection, or
\* a disconnection that has nothing left to send.
Timeout ==
    /\ \E end \in { "client", "server" } : link' = [ link EXCEPT ![end] = End("closed") ]
    /\ UNCHANGED past

Next ==
    \/ RequestAgain \/ Update \/ GenerateSYNCookieRandomNumber \/ Timeout
    \/ \E d \in link.wire :
        \/ DropAtServer(d) \/ SecuredConnectionResponse(d) \/ SecuredConnectionConfirmation(d)
        \/ SecuredConnectionAccept(d) \/ ConnectionRequestAccepted(d) \/ NewIncomingConnection(d)
        \/ DisconnectionNotification(d)

Spec == Init /\ [][Next]_vars

-----------------------------------------------------------------------------
\* Every key is one the client made, and of one request there is one key; the server
\* has a key before the client encrypts; the server is connected only with a key the
\* client has encrypted with; and a client that was told another public key, or
\* whose server is built from this code, is never connected.
Keys == { link.client.AESKey, link.client.key, link.server.AESKey, link.server.key } \ { NoKey }
Faithful ==
    /\ Keys \subseteq past.drawn
    /\ link.requests = 1 => \A j, k \in Keys : j = k
    /\ link.client.key # NoKey /\ link.server.connectMode # "closed" => link.server.AESKey # NoKey
    /\ link.server.connectMode = "CONNECTED" => link.server.key \in past.used
    /\ link.client.connectMode = "CONNECTED" =>
         link.preset # "other" /\ link.long /\ link.client.key # NoKey

\* The server encrypts before a client that is there can read it only when a
\* request in the clear was as long as an encrypted one; both then wait for their end.
WellFormed ==
    link.server.key # NoKey /\ link.client.key = NoKey /\ link.client.connectMode # "closed"
        => past.early
=============================================================================
