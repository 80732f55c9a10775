---------------------------- MODULE RakPeer_proofs ----------------------------
(***************************************************************************)
(* Machine-checked proofs about RakPeer, for any number of requests and    *)
(* any number of datagrams at the socket.                                  *)
(***************************************************************************)
EXTENDS RakPeer, SequenceTheorems, TLAPS

Outcomes == { "CONNECTION_REQUEST_ACCEPTED", "CONNECTION_ATTEMPT_FAILED" }

Notices == Outcomes \cup { "AUTH_KEY", "STATIC_DATA", "CONNECTION_LOST",
                           "DISCONNECTION_NOTIFICATION" }

\* The flags tell which threads there are, and where the owners of the peer are.
ThreadsInv ==
    /\ isMainLoopThreadActive <=> network \notin { "none", "starting" }
    /\ daemon = "none" <=> main # "loop"
    /\ network = "starting" => main = "waitForThread"
    /\ main = "initialize" => network = "none"
    /\ main \in { "waitForThread", "resolve" } => network # "none" /\ ~endThreads
    /\ daemon \in { "accept", "disconnect" } => network # "none" /\ ~endThreads
    /\ daemon \in { "copy", "done" } => network = "none"
    /\ network # "none" => inbox \in Seq(Datagrams)

\* An open request has no outcome yet, and the layer has the session's indexes
\* from the acceptance until the connection is closed.
SessionInv ==
    /\ daemon = "none" => requestsMade = NoRequest
    /\ daemon = "none" \/ requestsMade # NoRequest => \A e \in Outcomes : ~Event(e)
    /\ isActive => indexes = "session" /\ Event("CONNECTION_REQUEST_ACCEPTED")
    /\ ~Event("CONNECTION_REQUEST_ACCEPTED") => indexes = "zero"
    /\ Event("CONNECTION_REQUEST_ACCEPTED") /\ ~Event("CONNECTION_LOST")
          /\ ~Event("DISCONNECTION_NOTIFICATION") => indexes = "session"
    /\ copied # "none" => daemon = "done" /\ copied = indexes

\* The inductive invariant.
IInv == TypeOK /\ ThreadsInv /\ SessionInv /\ SessionMeetsItsIndexes /\ OneOutcome

-----------------------------------------------------------------------------
(* The events.                                                             *)

\* What an event added to the list changes.
LEMMA AppendedEvent ==
    ASSUME NEW s \in Seq(Notices), NEW x \in Notices
    PROVE  /\ Append(s, x) \in Seq(Notices)
           /\ \A e : (\E n \in 1..Len(Append(s, x)) : Append(s, x)[n] = e)
                     <=> (\E n \in 1..Len(s) : s[n] = e) \/ e = x
           /\ \A n \in 1..Len(Append(s, x)) :
                 \/ n \in 1..Len(s) /\ Append(s, x)[n] = s[n]
                 \/ n = Len(s) + 1 /\ Append(s, x)[n] = x
<1>1. /\ Append(s, x) \in Seq(Notices)
      /\ Len(Append(s, x)) = Len(s) + 1
      /\ \A n \in 1..Len(s) : Append(s, x)[n] = s[n]
      /\ Append(s, x)[Len(s) + 1] = x
      /\ Len(s) \in Nat
  OBVIOUS
<1>2. \A n \in 1..(Len(s) + 1) : n \in 1..Len(s) \/ n = Len(s) + 1
  BY <1>1
<1>3. 1..Len(s) \subseteq 1..(Len(s) + 1) /\ Len(s) + 1 \in 1..(Len(s) + 1)
  BY <1>1
<1>4. ASSUME NEW e
      PROVE  (\E n \in 1..(Len(s) + 1) : Append(s, x)[n] = e)
             <=> (\E n \in 1..Len(s) : s[n] = e) \/ e = x
  BY <1>1, <1>2, <1>3, Zenon
<1> QED
  BY <1>1, <1>2, <1>4

\* The events of the plugin's answer, one by one.
LEMMA AnswerEvents ==
    ASSUME NEW s \in Seq(Notices)
    PROVE  s \o << "AUTH_KEY", "CONNECTION_REQUEST_ACCEPTED", "STATIC_DATA" >>
           = Append(Append(Append(s, "AUTH_KEY"), "CONNECTION_REQUEST_ACCEPTED"),
                    "STATIC_DATA")
  OBVIOUS

\* A sequence of events with at most one outcome in it.
OneOf(s) == \A m, n \in 1..Len(s) : s[m] \in Outcomes /\ s[n] \in Outcomes => m = n

LEMMA OneOutcomeIsOneOf == OneOutcome <=> OneOf(events)
  BY DEF OneOutcome, OneOf, Outcomes

\* An outcome may be added where there is none, anything else anywhere.
LEMMA AppendedOutcome ==
    ASSUME NEW s \in Seq(Notices), NEW x \in Notices, OneOf(s),
           x \in Outcomes => \A n \in 1..Len(s) : s[n] \notin Outcomes
    PROVE  OneOf(Append(s, x))
<1> SUFFICES ASSUME NEW m \in 1..Len(Append(s, x)), NEW n \in 1..Len(Append(s, x)),
                    Append(s, x)[m] \in Outcomes, Append(s, x)[n] \in Outcomes
             PROVE  m = n
  BY DEF OneOf
<1>1. /\ \/ m \in 1..Len(s) /\ Append(s, x)[m] = s[m]
         \/ m = Len(s) + 1 /\ Append(s, x)[m] = x
      /\ \/ n \in 1..Len(s) /\ Append(s, x)[n] = s[n]
         \/ n = Len(s) + 1 /\ Append(s, x)[n] = x
  BY AppendedEvent, Zenon
<1> QED
  BY <1>1, Zenon DEF OneOf

\* The plugin's answer is one outcome among events that are none.
LEMMA AnsweredOutcome ==
    ASSUME NEW s \in Seq(Notices), \A n \in 1..Len(s) : s[n] \notin Outcomes
    PROVE  LET t == s \o << "AUTH_KEY", "CONNECTION_REQUEST_ACCEPTED", "STATIC_DATA" >>
           IN  /\ t \in Seq(Notices)
               /\ OneOf(t)
               /\ \A e : (\E n \in 1..Len(t) : t[n] = e)
                         <=> \/ \E n \in 1..Len(s) : s[n] = e
                             \/ e \in { "AUTH_KEY", "CONNECTION_REQUEST_ACCEPTED", "STATIC_DATA" }
<1> DEFINE a == Append(s, "AUTH_KEY")
           b == Append(a, "CONNECTION_REQUEST_ACCEPTED")
           t == Append(b, "STATIC_DATA")
<1>1. /\ "AUTH_KEY" \in Notices \ Outcomes
      /\ "CONNECTION_REQUEST_ACCEPTED" \in Notices
      /\ "STATIC_DATA" \in Notices \ Outcomes
  BY DEF Notices, Outcomes
<1>2. OneOf(s)
  BY DEF OneOf
<1>3. a \in Seq(Notices) /\ OneOf(a)
  BY <1>1, <1>2, AppendedEvent, AppendedOutcome
<1>4. \A n \in 1..Len(a) : a[n] \notin Outcomes
  BY <1>1, AppendedEvent, Zenon
<1> HIDE DEF a
<1>5. b \in Seq(Notices) /\ OneOf(b)
  BY <1>1, <1>3, <1>4, AppendedEvent, AppendedOutcome
<1> HIDE DEF b
<1>6. t \in Seq(Notices) /\ OneOf(t)
  BY <1>1, <1>5, AppendedEvent, AppendedOutcome
<1>7. \A e : (\E n \in 1..Len(t) : t[n] = e) <=> (\E n \in 1..Len(b) : b[n] = e) \/ e = "STATIC_DATA"
  BY <1>1, <1>5, AppendedEvent, Zenon
<1>8. \A e : (\E n \in 1..Len(b) : b[n] = e)
            <=> (\E n \in 1..Len(a) : a[n] = e) \/ e = "CONNECTION_REQUEST_ACCEPTED"
  BY <1>1, <1>3, AppendedEvent, Zenon DEF b
<1>9. \A e : (\E n \in 1..Len(a) : a[n] = e) <=> (\E n \in 1..Len(s) : s[n] = e) \/ e = "AUTH_KEY"
  BY <1>1, AppendedEvent, Zenon DEF a
<1>10. t = s \o << "AUTH_KEY", "CONNECTION_REQUEST_ACCEPTED", "STATIC_DATA" >>
  BY AnswerEvents DEF a, b
<1> HIDE DEF t
<1> QED
  BY <1>6, <1>7, <1>8, <1>9, <1>10

-----------------------------------------------------------------------------
(* Type correctness: the actions of each thread.                           *)

LEMMA TypeMain == ASSUME IInv, MainStep PROVE TypeOK'
<1> USE DEF IInv, TypeOK, peerVars, flags, CleanUp
<1>1. CASE ConnectDisconnects
  BY <1>1 DEF ConnectDisconnects
<1>2. CASE ConnectCleansUp
  <2>1. UNCHANGED << daemon, network, flags, banList, connectMode, indexes, kicked,
                     current_state, events, handledWith, copied >>
    BY <1>2 DEF ConnectCleansUp
  <2>2. /\ main' = "initialize"
        /\ inbox' = "closed" \/ inbox' \in Seq(Datagrams)
    BY <1>2 DEF ConnectCleansUp
  <2>3. requestsMade' \in { NoRequest } \cup 0..MaxRequests /\ isActive' \in BOOLEAN
    BY <1>2 DEF ConnectCleansUp
  <2> QED
    BY <2>1, <2>2, <2>3
<1>3. CASE InitializeFails
  BY <1>3 DEF InitializeFails
<1>4. CASE Initialize
  <2>1. UNCHANGED << daemon, isMainLoopThreadActive, requestsMade, banList,
                     current_state, events, handledWith, copied >>
    BY <1>4 DEF Initialize
  <2>2. /\ main' = "waitForThread" /\ network' = "starting"
        /\ inbox' = "closed" \/ inbox' \in Seq(Datagrams)
    BY <1>4 DEF Initialize
  <2>3. /\ endThreads' \in BOOLEAN /\ isActive' \in BOOLEAN /\ kicked' \in BOOLEAN
        /\ connectMode' = "NO_ACTION" /\ indexes' = "zero"
    BY <1>4 DEF Initialize
  <2> QED
    BY <2>1, <2>2, <2>3
<1>5. CASE InitializeReturns
  BY <1>5 DEF InitializeReturns
<1>6. CASE ResolveFails
  BY <1>6 DEF ResolveFails
<1>7. CASE SendConnectionRequest
  BY <1>7, PeerAssumption DEF SendConnectionRequest
<1> QED
  BY <1>1, <1>2, <1>3, <1>4, <1>5, <1>6, <1>7 DEF MainStep

LEMMA TypeDaemon == ASSUME IInv, DaemonStep \/ GameConnects PROVE TypeOK'
<1> USE DEF IInv, TypeOK, peerVars, flags, CleanUp
<1>1. CASE Disconnect
  BY <1>1 DEF Disconnect
<1>2. CASE DisconnectReturns
  <2>1. UNCHANGED << main, network, flags, banList, connectMode, indexes, kicked,
                     current_state, events, handledWith, copied >>
    BY <1>2 DEF DisconnectReturns
  <2>2. /\ daemon' = "copy"
        /\ inbox' = "closed" \/ inbox' \in Seq(Datagrams)
    BY <1>2 DEF DisconnectReturns
  <2>3. requestsMade' \in { NoRequest } \cup 0..MaxRequests /\ isActive' \in BOOLEAN
    BY <1>2 DEF DisconnectReturns
  <2> QED
    BY <2>1, <2>2, <2>3
<1>3. CASE CopyIndexes
  BY <1>3 DEF CopyIndexes
<1>4. CASE GameConnects
  BY <1>4 DEF GameConnects
<1> QED
  BY <1>1, <1>2, <1>3, <1>4 DEF DaemonStep

\* What the steps of the network thread add to the events keeps their type.
LEMMA EventsType == TypeOK <=> TypeOK /\ events \in Seq(Notices)
  BY DEF TypeOK, Notices, Outcomes

LEMMA TypeReceive ==
    ASSUME IInv, ReceiveDatagram \/ (\E d \in Datagrams : Arrive(d)) PROVE TypeOK'
<1>1. CASE ReceiveDatagram
  <2>1. inbox \in Seq(Datagrams) /\ inbox # << >>
    BY <1>1 DEF ReceiveDatagram, IInv, ThreadsInv
  <2>2. Head(inbox) \in Datagrams /\ inbox' \in Seq(Datagrams)
    BY <1>1, <2>1 DEF ReceiveDatagram
  <2>3. /\ banList' \in { "none", "early", "late" }
        /\ kicked' \in BOOLEAN
        /\ handledWith' \subseteq { "zero", "session" }
    BY <1>1, <2>2 DEF ReceiveDatagram, ProcessNetworkPacket, IInv, TypeOK
  <2>4. network' \in { "test", "receive" }
    BY <1>1 DEF ReceiveDatagram, AfterDatagram
  <2>5. UNCHANGED << main, daemon, flags, requestsMade, isActive, connectMode, indexes,
                     current_state, events, copied >>
    BY <1>1 DEF ReceiveDatagram
  <2> QED
    BY <2>2, <2>3, <2>4, <2>5 DEF IInv, TypeOK, flags
<1>2. ASSUME NEW d \in Datagrams, Arrive(d) PROVE TypeOK'
  <2>1. inbox \in Seq(Datagrams)
    BY <1>2 DEF Arrive, IInv, TypeOK
  <2>2. inbox' \in Seq(Datagrams)
    BY <1>2, <2>1 DEF Arrive
  <2>3. UNCHANGED << main, daemon, network, flags, requestsMade, banList, isActive,
                     connectMode, indexes, kicked, current_state, events,
                     handledWith, copied >>
    BY <1>2 DEF Arrive
  <2> QED
    BY <2>2, <2>3 DEF IInv, TypeOK, flags
<1> QED
  BY <1>1, <1>2

LEMMA TypeRequest == ASSUME IInv, Request PROVE TypeOK'
<1>1. UNCHANGED << main, daemon, flags, inbox, banList, handledWith, copied >>
      /\ network' = "update"
  BY DEF Request
<1>2. CASE EmulateReply
  <2>1. \A n \in 1..Len(events) : events[n] \notin Outcomes
    BY DEF IInv, SessionInv, Request, MayRequest, NoRequest, Event, Outcomes
  <2>2. events' \in Seq(Notices)
    BY <1>2, <2>1, EventsType, AnsweredOutcome DEF EmulateReply, IInv
  <2>3. /\ requestsMade' \in { NoRequest } \cup 0..MaxRequests
        /\ isActive' \in BOOLEAN /\ kicked' \in BOOLEAN
        /\ connectMode' = "CONNECTED" /\ indexes' = "session" /\ current_state' = "kNone"
    BY <1>2 DEF EmulateReply
  <2> QED
    BY <1>1, <2>2, <2>3 DEF IInv, TypeOK, flags, Notices, Outcomes
<1>3. CASE NoAnswer /\ requestsMade' = Counted
  <2>1. requestsMade' \in 0..MaxRequests
    BY <1>3, PeerAssumption DEF Counted, Request, MayRequest
  <2>2. current_state' \in { "kNone", "kWaitingForFirstRequest", "kWaitingForSecondRequest",
                             "kWaitingForThirdRequest" }
    BY <1>3 DEF Request, EmulateReply, IInv, TypeOK
  <2>3. UNCHANGED << isActive, connectMode, indexes, kicked, events >>
    BY <1>3 DEF NoAnswer
  <2> QED
    BY <1>1, <2>1, <2>2, <2>3 DEF IInv, TypeOK, flags
<1> QED
  BY <1>2, <1>3 DEF Request

LEMMA TypeUpdate ==
    ASSUME IInv, AttemptFails \/ UpdateCloses \/ UpdateDispatches PROVE TypeOK'
<1>1. events \in Seq(Notices)
  BY EventsType DEF IInv
<1>2. CASE AttemptFails
  <2>1. events' \in Seq(Notices)
    BY <1>1, <1>2, AppendedEvent DEF AttemptFails, Notices, Outcomes
  <2>2. /\ requestsMade' \in { NoRequest } \cup 0..MaxRequests
        /\ network' = "update"
    BY <1>2 DEF AttemptFails
  <2>3. UNCHANGED << main, daemon, flags, inbox, banList, isActive, connectMode,
                     indexes, kicked, current_state, handledWith, copied >>
    BY <1>2 DEF AttemptFails
  <2> QED
    BY <2>1, <2>2, <2>3 DEF IInv, TypeOK, flags, Notices, Outcomes
<1>3. CASE UpdateCloses
  <2>1. events' \in Seq(Notices)
    BY <1>1, <1>3, AppendedEvent DEF UpdateCloses, Notices, Outcomes
  <2>2. /\ isActive' \in BOOLEAN /\ kicked' \in BOOLEAN
        /\ indexes' \in { "zero", "session" }
        /\ network' = "test"
    BY <1>3 DEF UpdateCloses, CloseConnectionInternal, IInv, TypeOK
  <2>3. UNCHANGED << main, daemon, flags, inbox, requestsMade, banList, connectMode,
                     current_state, handledWith, copied >>
    BY <1>3 DEF UpdateCloses
  <2> QED
    BY <2>1, <2>2, <2>3 DEF IInv, TypeOK, flags, Notices, Outcomes
<1>4. CASE UpdateDispatches
  <2>1. /\ connectMode' \in { "NO_ACTION", "CONNECTED", "DISCONNECT_ON_NO_ACK" }
        /\ kicked' \in BOOLEAN
        /\ network' = "test"
    BY <1>4 DEF UpdateDispatches, IInv, TypeOK
  <2>2. UNCHANGED << main, daemon, flags, inbox, requestsMade, banList, isActive,
                     indexes, current_state, events, handledWith, copied >>
    BY <1>4 DEF UpdateDispatches
  <2> QED
    BY <2>1, <2>2 DEF IInv, TypeOK, flags
<1> QED
  BY <1>2, <1>3, <1>4

LEMMA TypeNext == ASSUME IInv, [Next]_vars PROVE TypeOK'
<1> USE DEF IInv, TypeOK, peerVars, flags
<1>1. CASE ThreadStarts
  BY <1>1 DEF ThreadStarts
<1>2. CASE TestEndThreads
  <2>1. network' \in { "none", "receive" } /\ isMainLoopThreadActive' \in BOOLEAN
    BY <1>2 DEF TestEndThreads
  <2>2. UNCHANGED << main, daemon, endThreads, peerVars, copied >>
    BY <1>2 DEF TestEndThreads
  <2> QED
    BY <2>1, <2>2
<1>3. CASE ReceiveNothing
  BY <1>3 DEF ReceiveNothing
<1>4. CASE NothingDue
  BY <1>4 DEF NothingDue
<1>5. CASE BanExpires
  <2>1. banList' = "none" /\ UNCHANGED << main, daemon, network, flags, inbox, requestsMade,
                                         isActive, connectMode, indexes, kicked,
                                         current_state, events, handledWith, copied >>
    BY <1>5 DEF BanExpires
  <2> QED
    BY <2>1
<1>6. CASE UNCHANGED vars
  BY <1>6 DEF vars
<1> QED
  BY <1>1, <1>2, <1>3, <1>4, <1>5, <1>6, TypeMain, TypeDaemon, TypeReceive,
     TypeRequest, TypeUpdate, Zenon DEF Next, NetworkStep, DaemonStep

-----------------------------------------------------------------------------
(* The threads.                                                            *)

LEMMA ThreadsMain == ASSUME IInv, MainStep PROVE ThreadsInv'
<1> USE DEF IInv, ThreadsInv, peerVars, flags, CleanUp
<1>1. CASE ConnectDisconnects
  BY <1>1 DEF ConnectDisconnects
<1>2. CASE ConnectCleansUp
  BY <1>2 DEF ConnectCleansUp
<1>3. CASE InitializeFails
  BY <1>3 DEF InitializeFails
<1>4. CASE Initialize
  BY <1>4 DEF Initialize
<1>5. CASE InitializeReturns
  BY <1>5 DEF InitializeReturns
<1>6. CASE ResolveFails
  BY <1>6 DEF ResolveFails
<1>7. CASE SendConnectionRequest
  BY <1>7 DEF SendConnectionRequest
<1> QED
  BY <1>1, <1>2, <1>3, <1>4, <1>5, <1>6, <1>7 DEF MainStep

LEMMA ThreadsDaemon == ASSUME IInv, DaemonStep \/ GameConnects PROVE ThreadsInv'
<1> USE DEF IInv, ThreadsInv, peerVars, flags, CleanUp
<1>1. CASE Disconnect
  BY <1>1 DEF Disconnect
<1>2. CASE DisconnectReturns
  BY <1>2 DEF DisconnectReturns
<1>3. CASE CopyIndexes
  BY <1>3 DEF CopyIndexes
<1>4. CASE GameConnects
  BY <1>4 DEF GameConnects
<1> QED
  BY <1>1, <1>2, <1>3, <1>4 DEF DaemonStep

\* A running network thread ends only when endThreads is set.
LEMMA ThreadsNetwork == ASSUME IInv, NetworkStep PROVE ThreadsInv'
<1> USE DEF IInv, ThreadsInv, peerVars, flags
<1>1. CASE ThreadStarts
  BY <1>1 DEF ThreadStarts
<1>2. CASE TestEndThreads
  BY <1>2 DEF TestEndThreads
<1>3. CASE ReceiveDatagram
  <2>1. inbox \in Seq(Datagrams) /\ inbox # << >>
    BY <1>3 DEF ReceiveDatagram
  <2>2. inbox' \in Seq(Datagrams)
    BY <1>3, <2>1 DEF ReceiveDatagram
  <2>4. network = "receive" /\ network' \in { "test", "receive" }
    BY <1>3 DEF ReceiveDatagram, AfterDatagram
  <2>5. UNCHANGED << main, daemon, flags >>
    BY <1>3 DEF ReceiveDatagram
  <2> QED
    BY <2>2, <2>4, <2>5
<1>4. CASE ReceiveNothing
  BY <1>4 DEF ReceiveNothing
<1>5. CASE Request
  BY <1>5 DEF Request
<1>6. CASE AttemptFails
  BY <1>6 DEF AttemptFails
<1>7. CASE NothingDue
  BY <1>7 DEF NothingDue
<1>8. CASE UpdateCloses
  BY <1>8 DEF UpdateCloses
<1>9. CASE UpdateDispatches
  BY <1>9 DEF UpdateDispatches
<1> QED
  BY <1>1, <1>2, <1>3, <1>4, <1>5, <1>6, <1>7, <1>8, <1>9 DEF NetworkStep

LEMMA ThreadsNext == ASSUME IInv, [Next]_vars PROVE ThreadsInv'
<1>1. ASSUME NEW d \in Datagrams, Arrive(d) PROVE ThreadsInv'
  <2>1. inbox \in Seq(Datagrams)
    BY <1>1 DEF Arrive, IInv, TypeOK
  <2>2. inbox' \in Seq(Datagrams)
    BY <1>1, <2>1 DEF Arrive
  <2>3. UNCHANGED << main, daemon, network, flags >>
    BY <1>1 DEF Arrive
  <2> QED
    BY <2>2, <2>3 DEF IInv, ThreadsInv, flags
<1>2. CASE BanExpires
  BY <1>2 DEF BanExpires, IInv, ThreadsInv, flags
<1>3. CASE UNCHANGED vars
  BY <1>3 DEF vars, IInv, ThreadsInv, flags, peerVars
<1> QED
  BY <1>1, <1>2, <1>3, ThreadsMain, ThreadsDaemon, ThreadsNetwork DEF Next

-----------------------------------------------------------------------------
(* The events and the session.                                             *)

LEMMA NoOutcomeYet ==
    ASSUME IInv, daemon = "none" \/ requestsMade # NoRequest
    PROVE  \A n \in 1..Len(events) : events[n] \notin Outcomes
  BY DEF IInv, SessionInv, Event

\* The three steps that add events, and what they add.
LEMMA AnswerStep ==
    ASSUME IInv, Request, EmulateReply
    PROVE  /\ OneOutcome'
           /\ \A e : Event(e)' <=> Event(e) \/ e \in { "AUTH_KEY", "CONNECTION_REQUEST_ACCEPTED",
                                                     "STATIC_DATA" }
<1>1. requestsMade # NoRequest
  BY PeerAssumption DEF Request, MayRequest, NoRequest
<1>2. events \in Seq(Notices)
  BY EventsType DEF IInv
<1>3. events' = events \o << "AUTH_KEY", "CONNECTION_REQUEST_ACCEPTED", "STATIC_DATA" >>
  BY DEF EmulateReply
<1>4. /\ OneOf(events')
      /\ \A e : (\E n \in 1..Len(events') : events'[n] = e)
                <=> \/ \E n \in 1..Len(events) : events[n] = e
                    \/ e \in { "AUTH_KEY", "CONNECTION_REQUEST_ACCEPTED", "STATIC_DATA" }
  BY <1>1, <1>2, <1>3, NoOutcomeYet, AnsweredOutcome
<1> QED
  BY <1>4 DEF OneOf, OneOutcome, Outcomes, Event

LEMMA AppendStep ==
    ASSUME IInv, NEW x \in Notices, events' = Append(events, x),
           x \in Outcomes => requestsMade # NoRequest
    PROVE  /\ OneOutcome'
           /\ \A e : Event(e)' <=> Event(e) \/ e = x
<1>1. events \in Seq(Notices) /\ OneOf(events)
  BY EventsType, OneOutcomeIsOneOf DEF IInv
<1>2. OneOf(events')
  BY <1>1, NoOutcomeYet, AppendedOutcome
<1>3. \A e : (\E n \in 1..Len(events') : events'[n] = e)
            <=> (\E n \in 1..Len(events) : events[n] = e) \/ e = x
  BY <1>1, AppendedEvent
<1> QED
  BY <1>2, <1>3 DEF OneOf, OneOutcome, Outcomes, Event

LEMMA FailureStep ==
    ASSUME IInv, AttemptFails
    PROVE  /\ OneOutcome'
           /\ \A e : Event(e)' <=> Event(e) \/ e = "CONNECTION_ATTEMPT_FAILED"
<1>1. requestsMade # NoRequest
  BY PeerAssumption DEF AttemptFails, NoRequest
<1>2. "CONNECTION_ATTEMPT_FAILED" \in Notices
  BY DEF Notices, Outcomes
<1>3. events' = Append(events, "CONNECTION_ATTEMPT_FAILED")
  BY DEF AttemptFails
<1> QED
  BY <1>1, <1>2, <1>3, AppendStep

LEMMA ClosingStep ==
    ASSUME IInv, UpdateCloses
    PROVE  /\ OneOutcome'
           /\ \E x \in { "CONNECTION_LOST", "DISCONNECTION_NOTIFICATION" } :
                 \A e : Event(e)' <=> Event(e) \/ e = x
<1>1. PICK x \in { "CONNECTION_LOST", "DISCONNECTION_NOTIFICATION" } : events' = Append(events, x)
  BY DEF UpdateCloses
<1>2. x \in Notices /\ x \notin Outcomes
  BY DEF Notices, Outcomes
<1> QED
  BY <1>1, <1>2, AppendStep

\* No other step adds any.
LEMMA QuietStep ==
    ASSUME IInv, [Next]_vars, ~(Request /\ EmulateReply), ~AttemptFails, ~UpdateCloses
    PROVE  events' = events
<1> USE DEF peerVars, CleanUp
<1>1. CASE MainStep
  BY <1>1 DEF MainStep, ConnectDisconnects, ConnectCleansUp, InitializeFails, Initialize,
              InitializeReturns, ResolveFails, SendConnectionRequest
<1>2. CASE DaemonStep \/ GameConnects
  BY <1>2 DEF DaemonStep, Disconnect, DisconnectReturns, CopyIndexes, GameConnects
<1>3. CASE NetworkStep
  BY <1>3 DEF NetworkStep, ThreadStarts, TestEndThreads, ReceiveDatagram, ReceiveNothing,
              Request, NoAnswer, NothingDue, UpdateDispatches
<1>4. CASE BanExpires \/ (\E d \in Datagrams : Arrive(d)) \/ UNCHANGED vars
  BY <1>4 DEF BanExpires, Arrive, vars
<1> QED
  BY <1>1, <1>2, <1>3, <1>4 DEF Next

LEMMA OutcomeNext == ASSUME IInv, [Next]_vars PROVE OneOutcome'
<1>1. CASE events' = events
  BY <1>1 DEF IInv, OneOutcome
<1> QED
  BY <1>1, QuietStep, AnswerStep, FailureStep, ClosingStep

\* Only a datagram of an active slot is handled.
LEMMA HandledNext == ASSUME IInv, [Next]_vars PROVE SessionMeetsItsIndexes'
<1>1. CASE ReceiveDatagram
  BY <1>1 DEF ReceiveDatagram, ProcessNetworkPacket, IInv, SessionInv, SessionMeetsItsIndexes
<1>2. CASE ~ReceiveDatagram
  <2>1. handledWith' = handledWith
    <3> USE DEF peerVars, CleanUp
    <3>1. CASE MainStep
      BY <3>1 DEF MainStep, ConnectDisconnects, ConnectCleansUp, InitializeFails, Initialize,
                  InitializeReturns, ResolveFails, SendConnectionRequest
    <3>2. CASE DaemonStep \/ GameConnects
      BY <3>2 DEF DaemonStep, Disconnect, DisconnectReturns, CopyIndexes, GameConnects
    <3>3. CASE NetworkStep
      BY <1>2, <3>3 DEF NetworkStep, ThreadStarts, TestEndThreads, ReceiveNothing,
                  Request, AttemptFails, NothingDue, UpdateCloses, UpdateDispatches
    <3>4. CASE BanExpires \/ (\E d \in Datagrams : Arrive(d)) \/ UNCHANGED vars
      BY <3>4 DEF BanExpires, Arrive, vars
    <3> QED
      BY <3>1, <3>2, <3>3, <3>4 DEF Next
  <2> QED
    BY <2>1 DEF IInv, SessionMeetsItsIndexes
<1> QED
  BY <1>1, <1>2

\* While the events stay what they are, so does what has happened.
LEMMA SameEvents == ASSUME events' = events PROVE \A e : Event(e)' <=> Event(e)
  BY DEF Event

LEMMA SessionMain == ASSUME IInv, MainStep PROVE SessionInv'
<1>1. events' = events
  BY QuietStep DEF MainStep, ConnectDisconnects, ConnectCleansUp, InitializeFails, Initialize,
        InitializeReturns, ResolveFails, SendConnectionRequest, peerVars, CleanUp
<1>2. \A e : Event(e)' <=> Event(e)
  BY <1>1, SameEvents
<1>3. daemon = "none" /\ copied = "none" /\ requestsMade = NoRequest
  BY DEF IInv, ThreadsInv, SessionInv, MainStep, ConnectDisconnects, ConnectCleansUp,
         InitializeFails, Initialize, InitializeReturns, ResolveFails, SendConnectionRequest
<1>4. \A e \in Outcomes : ~Event(e)
  BY <1>3 DEF IInv, SessionInv
<1>5. "CONNECTION_REQUEST_ACCEPTED" \in Outcomes
  BY DEF Outcomes
<1>6. ~isActive /\ indexes = "zero"
  BY <1>4, <1>5 DEF IInv, SessionInv
<1>7. /\ ~isActive' /\ indexes' = "zero" /\ copied' = "none"
      /\ requestsMade' = NoRequest \/ daemon' # "none"
  BY <1>3, <1>6 DEF MainStep, ConnectDisconnects, ConnectCleansUp, InitializeFails, Initialize,
        InitializeReturns, ResolveFails, SendConnectionRequest, peerVars, CleanUp
<1> QED
  BY <1>2, <1>4, <1>5, <1>7 DEF SessionInv

LEMMA SessionDaemon == ASSUME IInv, DaemonStep \/ GameConnects PROVE SessionInv'
<1>1. events' = events
  BY DEF DaemonStep, Disconnect, DisconnectReturns, CopyIndexes, GameConnects, peerVars, CleanUp
<1>2. \A e : Event(e)' <=> Event(e)
  BY <1>1, SameEvents
<1>3. /\ daemon # "none" /\ daemon' # "none" /\ daemon # "done"
      /\ indexes' = indexes
      /\ isActive' => isActive
      /\ requestsMade' = requestsMade \/ requestsMade' = NoRequest
      /\ copied' # copied => daemon' = "done" /\ copied' = indexes'
  BY DEF DaemonStep, Disconnect, DisconnectReturns, CopyIndexes, GameConnects, peerVars, CleanUp
<1> QED
  BY <1>2, <1>3 DEF IInv, SessionInv

\* The network thread runs only while nothing has been copied.
LEMMA SessionNetwork == ASSUME IInv, NetworkStep PROVE SessionInv'
<1>1. copied = "none" /\ copied' = "none" /\ daemon' = daemon
  BY DEF IInv, ThreadsInv, SessionInv, NetworkStep, ThreadStarts, TestEndThreads, ReceiveDatagram,
         ReceiveNothing, Request, AttemptFails, NothingDue, UpdateCloses, UpdateDispatches
<1>2. CASE Request /\ EmulateReply
  <2>1. \A e : Event(e)' <=> Event(e) \/ e \in { "AUTH_KEY", "CONNECTION_REQUEST_ACCEPTED",
                                                "STATIC_DATA" }
    BY <1>2, AnswerStep
  <2>2. daemon # "none"
    BY <1>2, PeerAssumption DEF Request, MayRequest, NoRequest, IInv, SessionInv
  <2>3. requestsMade' = NoRequest /\ indexes' = "session"
    BY <1>2 DEF EmulateReply
  <2>4. Event("CONNECTION_REQUEST_ACCEPTED")'
    BY <2>1
  <2> QED
    BY <1>1, <2>2, <2>3, <2>4 DEF SessionInv
<1>3. CASE AttemptFails
  <2>1. \A e : Event(e)' <=> Event(e) \/ e = "CONNECTION_ATTEMPT_FAILED"
    BY <1>3, FailureStep
  <2>2. /\ Event("CONNECTION_REQUEST_ACCEPTED")' <=> Event("CONNECTION_REQUEST_ACCEPTED")
        /\ Event("CONNECTION_LOST")' <=> Event("CONNECTION_LOST")
        /\ Event("DISCONNECTION_NOTIFICATION")' <=> Event("DISCONNECTION_NOTIFICATION")
    BY <2>1
  <2>3. daemon # "none"
    BY <1>3, PeerAssumption DEF AttemptFails, NoRequest, IInv, SessionInv
  <2>4. requestsMade' = NoRequest /\ isActive' = isActive /\ indexes' = indexes
    BY <1>3 DEF AttemptFails
  <2> QED
    BY <1>1, <2>2, <2>3, <2>4 DEF IInv, SessionInv
<1>4. CASE UpdateCloses
  <2>1. PICK x \in { "CONNECTION_LOST", "DISCONNECTION_NOTIFICATION" } :
           \A e : Event(e)' <=> Event(e) \/ e = x
    BY <1>4, ClosingStep
  <2>2. x \notin Outcomes /\ "CONNECTION_REQUEST_ACCEPTED" \in Outcomes
    BY DEF Outcomes
  <2>3. isActive /\ requestsMade' = requestsMade
    BY <1>4 DEF UpdateCloses
  <2>4. Event("CONNECTION_REQUEST_ACCEPTED")'
    BY <2>1, <2>3 DEF IInv, SessionInv
  <2>5. Event("CONNECTION_LOST")' \/ Event("DISCONNECTION_NOTIFICATION")'
    BY <2>1
  <2>6. isActive' => indexes' = "session"
    BY <1>4 DEF UpdateCloses, CloseConnectionInternal, IInv, SessionInv
  <2>7. \A e \in Outcomes : Event(e)' <=> Event(e)
    BY <2>1, <2>2
  <2> QED
    BY <1>1, <2>3, <2>4, <2>5, <2>6, <2>7 DEF IInv, SessionInv
<1>5. CASE ~(Request /\ EmulateReply) /\ ~AttemptFails /\ ~UpdateCloses
  <2>1. \A e : Event(e)' <=> Event(e)
    BY <1>5, QuietStep, SameEvents DEF Next
  <2>2. /\ isActive' = isActive /\ indexes' = indexes
        /\ requestsMade' # NoRequest => requestsMade # NoRequest
        /\ requestsMade = NoRequest => requestsMade' = NoRequest
    BY <1>5, PeerAssumption DEF NetworkStep, ThreadStarts, TestEndThreads, ReceiveDatagram,
       ReceiveNothing, Request, MayRequest, NoRequest, NoAnswer, NothingDue, UpdateDispatches, peerVars
  <2> QED
    BY <1>1, <2>1, <2>2 DEF IInv, SessionInv
<1> QED
  BY <1>2, <1>3, <1>4, <1>5

LEMMA SessionNext == ASSUME IInv, [Next]_vars PROVE SessionInv'
<1>1. CASE BanExpires \/ (\E d \in Datagrams : Arrive(d)) \/ UNCHANGED vars
  <2>1. UNCHANGED << daemon, requestsMade, isActive, indexes, copied, events >>
    BY <1>1 DEF BanExpires, Arrive, vars, peerVars
  <2>2. \A e : Event(e)' <=> Event(e)
    BY <2>1, SameEvents
  <2> QED
    BY <2>1, <2>2 DEF IInv, SessionInv
<1> QED
  BY <1>1, SessionMain, SessionDaemon, SessionNetwork DEF Next

-----------------------------------------------------------------------------
(* The theorems.                                                           *)

LEMMA InvariantInitially == Init => IInv
<1> SUFFICES ASSUME Init PROVE IInv
  OBVIOUS
<1>1. TypeOK
  <2>1. /\ events \in Seq(Notices)
        /\ handledWith \subseteq { "zero", "session" }
        /\ requestsMade \in { NoRequest } \cup 0..MaxRequests
    BY DEF Init
  <2>2. /\ endThreads \in BOOLEAN /\ isMainLoopThreadActive \in BOOLEAN
        /\ isActive \in BOOLEAN /\ kicked \in BOOLEAN
    BY DEF Init
  <2>3. /\ main = "disconnect" /\ daemon = "none" /\ network = "none"
        /\ inbox = "closed" /\ banList = "none" /\ connectMode = "NO_ACTION"
        /\ indexes = "zero" /\ current_state = "kWaitingForFirstRequest" /\ copied = "none"
    BY DEF Init
  <2> QED
    BY <2>1, <2>2, <2>3 DEF TypeOK, Notices, Outcomes
<1>2. ThreadsInv
  BY DEF Init, ThreadsInv
<1>3. \A e : ~Event(e)
  BY DEF Init, Event
<1>4. SessionInv
  BY <1>3 DEF Init, SessionInv
<1>5. SessionMeetsItsIndexes /\ OneOutcome
  BY DEF Init, SessionMeetsItsIndexes, OneOutcome
<1> QED
  BY <1>1, <1>2, <1>4, <1>5 DEF IInv

\* The invariant of threads, session and events holds throughout.
THEOREM InvariantHolds == Spec => []IInv
<1>1. IInv /\ [Next]_vars => IInv'
  BY TypeNext, ThreadsNext, SessionNext, HandledNext, OutcomeNext DEF IInv
<1> QED
  BY InvariantInitially, <1>1, PTL DEF Spec

\* Every variable of the peer keeps its type.
THEOREM TypeCorrect == Spec => []TypeOK
<1>1. IInv => TypeOK
  BY DEF IInv
<1> QED
  BY InvariantHolds, <1>1, PTL

\* Initialize allocates, and the daemon thread copies, with no network thread
\* running (RakPeer.cpp:377, 649; daemon/main.cpp:58).
THEOREM CleansUpAloneHolds == Spec => []CleansUpAlone
<1>1. IInv => CleansUpAlone
  BY DEF IInv, ThreadsInv, CleansUpAlone
<1> QED
  BY InvariantHolds, <1>1, PTL

\* A datagram of the session meets a layer with the session's indexes, however
\* many datagrams there are (daemon/raknet_plugin.hpp:97-110).
THEOREM SessionMeetsItsIndexesHolds == Spec => []SessionMeetsItsIndexes
<1>1. IInv => SessionMeetsItsIndexes
  BY DEF IInv
<1> QED
  BY InvariantHolds, <1>1, PTL

\* The indexes handed over are the session's while it was held
\* (daemon/main.cpp:58-70).
THEOREM SessionIsHandedOverHolds == Spec => []SessionIsHandedOver
<1>1. IInv => SessionIsHandedOver
  BY DEF IInv, SessionInv, SessionIsHandedOver
<1> QED
  BY InvariantHolds, <1>1, PTL

\* One Connect has one outcome, however many requests it makes
\* (RakPeer.cpp:3962-4032).
THEOREM OneOutcomeHolds == Spec => []OneOutcome
<1>1. IInv => OneOutcome
  BY DEF IInv
<1> QED
  BY InvariantHolds, <1>1, PTL

=============================================================================
