---------------------------- MODULE RemoteCalls ----------------------------
(***************************************************************************)
(* Remote procedure calls of a peer (RakPeer.cpp): RPC hands a message for *)
(* each target to the network thread and, when the caller wants a reply,   *)
(* sleeps until one is there; Receive, which the user calls from a thread  *)
(* of his, is what takes replies and calls from the packet queue.  One     *)
(* flag, blockOnRPCReply, says for the whole peer that somebody waits: it  *)
(* is looked at before a call is sent and set after, so that two threads   *)
(* may both get past it.  The fields it guards are written after it.       *)
(* The other systems and their answers are external.                       *)
(***************************************************************************)
EXTENDS Integers, Sequences, FiniteSets, SequencesExt

CONSTANTS
    Ids,            \* the other systems; 0 is UNASSIGNED_PLAYER_ID
    Threads,        \* of the user, numbered; Receiver is the one that calls Receive
    Targets,        \* bound: whom calls are for, << target, broadcast >>
    MaxCalls,       \* bound: calls made
    MaxEvents       \* bound: connections, disconnections and messages of others

Receiver == 0

CallAssumption ==
    /\ 0 \notin Ids /\ MaxCalls \in Nat /\ MaxEvents \in Nat
    /\ Receiver \in Threads /\ Threads \subseteq Nat /\ Targets \subseteq (Ids \cup { 0 }) \X BOOLEAN

VARIABLES
    peer,   \* systems, buffered commands, packet queue, blockOnRPCReply and what it
            \* guards, and where the calls of the user's threads are
    past    \* history: what became of the calls

vars == << peer, past >>

Modes == { "none", "UNVERIFIED_SENDER", "CONNECTED", "DISCONNECT_ASAP" }
Active(id) == peer.mode[id] # "none"
Idle == [ pc |-> "idle", call |-> 0, target |-> 0, broadcast |-> FALSE, reliable |-> FALSE ]

\* A reply to a call, from a system, in the stream of a call; "waits": whether that
\* call is still there; "asking": whether a call had set the flag and not yet all
\* that it guards.
Write(reply, from, into, waits, asking) ==
    [ reply |-> reply, from |-> from, into |-> into, waits |-> waits, asking |-> asking ]
Nothing == Write(0, 0, 0, TRUE, FALSE)

\* A peer that has made no call yet, in any mode of its systems.  The constructor
\* clears the flag, and leaves what it guards as it is: player and broadcast are
\* the sets of what the fields may hold.
Init ==
    /\ \E mode \in Modes :
         peer = [ mode |-> [ id \in Ids |-> mode ], commands |-> << >>, packets |-> << >>,
                  blockOnRPCReply |-> FALSE,
                  replyFrom |-> [ call |-> 0, player |-> Ids \cup { 0 }, broadcast |-> BOOLEAN ],
                  caller |-> [ thread \in Threads |-> Idle ] ]
    /\ past = [ events |-> 0,
                made |-> << >>,       \* of each call: its targets, and how it ended
                reached |-> {},       \* calls a system has and has not answered, << call, id >>
                written |-> Nothing,  \* what Receive wrote last, and into the stream of which call
                givenUp |-> FALSE,    \* a caller returned because the connection was lost
                overlap |-> FALSE ]   \* two calls that want a reply got past the flag

\* A call as it is remembered.
Made(targets, reliable, thread, end) ==
    [ targets |-> targets, reliable |-> reliable, thread |-> thread, end |-> end ]

-----------------------------------------------------------------------------
(* The caller *)

Disconnecting == { "DISCONNECT_ASAP" }

\* The systems a message is sent to: one that is not disconnecting, or all that
\* are active but the one named.
SendList(target, broadcast) ==
    IF broadcast THEN { id \in Ids : Active(id) /\ id # target }
    ELSE { id \in Ids \cap { target } : Active(id) /\ peer.mode[id] \notin Disconnecting }

\* Send to each of them by name, as RPC does; the network thread does the rest.
InOrder(ids) == SetToSortSeq(ids, LAMBDA a, b : a < b)
Commands(call, ids) ==
    LET order == InOrder(ids) IN [ i \in DOMAIN order |-> [ call |-> call, id |-> order[i] ] ]

\* A thread that makes a call, and those whose call is not over.
Calling == { thread \in Threads : peer.caller[thread].pc # "idle" }
Waiting == { thread \in Calling : peer.caller[thread].pc # "sent" }

RPC(target, broadcast, reliable, wantsReply, thread) ==
    LET call == Len(past.made) + 1
        sendList == SendList(target, broadcast)
        refused == wantsReply /\ peer.blockOnRPCReply
        sent == ~refused /\ sendList # {}
        waits == sent /\ wantsReply
    IN  /\ call <= MaxCalls
        /\ thread \notin Calling
        /\ peer' =
             IF ~sent THEN peer
             ELSE [ peer EXCEPT
                      !.commands = @ \o Commands(call, sendList),
                      !.caller[thread] =
                          IF wantsReply
                          THEN [ pc |-> "sent", call |-> call, target |-> target,
                                 broadcast |-> broadcast, reliable |-> reliable ]
                          ELSE @ ]
        /\ past' = [ past EXCEPT
                       !.overlap = @ \/ (waits /\ Calling # {} /\ ~peer.blockOnRPCReply),
                       !.made = Append(@, Made(IF sent THEN sendList ELSE {}, reliable, thread,
                                    CASE refused /\ Waiting # {} -> "refused"
                                      [] refused /\ Waiting = {} -> "stuck"
                                      [] ~sent /\ ~refused -> "nobody"
                                      [] waits -> "waits" [] OTHER -> "sent")) ]

\* The threads that do not receive are alike: of those that are idle the first calls.
MayCall(thread) ==
    thread = Receiver \/ \A other \in Threads \ (Calling \cup { Receiver }) : thread <= other

\* Only when all is sent is the reply asked for: the flag is set, then what it
\* guards, one field after the other.
At(thread, pc) == peer.caller[thread].pc = pc
Block(thread) ==
    LET c == peer.caller[thread]
    IN  /\ \/ /\ At(thread, "sent")
              /\ peer' = [ peer EXCEPT !.blockOnRPCReply = TRUE, !.caller[thread].pc = "stream" ]
           \/ /\ At(thread, "stream")
              /\ peer' = [ peer EXCEPT !.replyFrom.call = c.call, !.caller[thread].pc = "player" ]
           \/ /\ At(thread, "player")
              /\ peer' = [ peer EXCEPT !.replyFrom.player = { c.target },
                                       !.caller[thread].pc = "broadcast" ]
           \/ /\ At(thread, "broadcast")
              /\ peer' = [ peer EXCEPT !.replyFrom.broadcast = { c.broadcast },
                                       !.caller[thread].pc = "loop" ]
        /\ UNCHANGED past

\* The loop: until the flag is clear or, for an unreliable call, its time is up.
Loop(thread) ==
    /\ At(thread, "loop")
    /\ \E pc \in { "sleep", "over" } :
         /\ pc = "over" => ~peer.blockOnRPCReply \/ ~peer.caller[thread].reliable
         /\ pc = "sleep" => peer.blockOnRPCReply
         /\ peer' = [ peer EXCEPT !.caller[thread].pc = pc ]
    /\ UNCHANGED past

\* RPC returns: the flag is cleared, whoever has set it, or left as it is.
Ends(thread, how) ==
    /\ peer' = [ peer EXCEPT !.caller[thread] = Idle,
                             !.blockOnRPCReply = IF how = "false" THEN @ ELSE FALSE ]
    /\ past' = [ past EXCEPT !.made[peer.caller[thread].call].end = how,
                             !.givenUp = @ \/ how = "false" ]
Return(thread) == At(thread, "over") /\ Ends(thread, "true")

ValidSendTarget(target, broadcast) ==
    \E id \in Ids : peer.mode[id] = "CONNECTED" /\ (IF broadcast THEN id # target ELSE id = target)

\* After 30 ms of sleep.
Wake(thread) ==
    /\ At(thread, "sleep")
    /\ IF ValidSendTarget(peer.caller[thread].target, peer.caller[thread].broadcast)
       THEN peer' = [ peer EXCEPT !.caller[thread].pc = "loop" ] /\ UNCHANGED past
       ELSE Ends(thread, "false")

-----------------------------------------------------------------------------
(* The network thread *)

\* RunUpdateCycle: SendImmediate looks the target up again.
SendImmediate ==
    /\ peer.commands # << >>
    /\ LET c == Head(peer.commands)
       IN  past' = [ past EXCEPT !.reached =
                       IF Active(c.id) /\ peer.mode[c.id] \notin Disconnecting
                       THEN @ \cup { << c.call, c.id >> } ELSE @ ]
    /\ peer' = [ peer EXCEPT !.commands = Tail(@) ]

Event == past.events < MaxEvents

\* A system connects, is told to go, or is gone.
SetMode(id, from, to) ==
    /\ Event
    /\ peer.mode[id] = from
    /\ peer' = [ peer EXCEPT !.mode[id] = to ]
    /\ past' = [ past EXCEPT !.events = @ + 1 ]
Connections ==
    \E id \in Ids :
        \/ SetMode(id, "none", "UNVERIFIED_SENDER") \/ SetMode(id, "UNVERIFIED_SENDER", "CONNECTED")
        \/ SetMode(id, "CONNECTED", "DISCONNECT_ASAP") \/ SetMode(id, "DISCONNECT_ASAP", "none")
        \/ SetMode(id, "CONNECTED", "none")

\* The answer of a system that has the call, whenever it comes and whether or
\* not the caller wants one.
Answer(call, id) ==
    /\ << call, id >> \in past.reached
    /\ peer.mode[id] = "CONNECTED"
    /\ peer' = [ peer EXCEPT !.packets = Append(@, [ id |-> id, call |-> call ]) ]
    /\ past' = [ past EXCEPT !.reached = @ \ { << call, id >> } ]

-----------------------------------------------------------------------------
(* The thread that receives *)

\* HandleRPCReplyPacket: whether the packet is from a system the reply may come from.
Matches(p) ==
    { broadcast <=> p.id # player :
        player \in peer.replyFrom.player, broadcast \in peer.replyFrom.broadcast }

\* A round of Receive and ReceiveIgnoreRPC for a reply; what else there is goes to
\* the user.  It is not called while its thread waits.
Callers == { peer.caller[thread] : thread \in Calling }
Receive ==
    /\ peer.packets # << >>
    /\ Receiver \notin Calling
    /\ LET p == Head(peer.packets)
       IN  \E matches \in Matches(p) :
           /\ peer' = [ peer EXCEPT !.packets = Tail(@),
                                    !.blockOnRPCReply = @ /\ ~matches ]
           /\ past' = [ past EXCEPT !.written =
                          IF peer.blockOnRPCReply /\ matches
                          THEN Write(p.call, p.id, peer.replyFrom.call,
                                     \E c \in Callers : c.call = peer.replyFrom.call,
                                     \E c \in Callers : c.pc \in { "stream", "player", "broadcast" })
                          ELSE @ ]

\* Disconnect, from the user's thread: the queues are emptied and nobody waits.
Disconnect ==
    /\ Event
    /\ Receiver \notin Calling
    /\ peer' = [ peer EXCEPT !.mode = [ id \in Ids |-> "none" ], !.commands = << >>,
                             !.packets = << >>, !.blockOnRPCReply = FALSE ]
    /\ past' = [ past EXCEPT !.events = @ + 1 ]

Next ==
    /\ past.written.waits    \* a write to the stream of a call that is over is undefined
    /\ \/ \E to \in Targets, reliable, wantsReply \in BOOLEAN, thread \in Threads :
              /\ wantsReply \/ (~reliable /\ thread = Receiver)    \* no matter otherwise
              /\ MayCall(thread)
              /\ RPC(to[1], to[2], reliable, wantsReply, thread)
       \/ \E thread \in Threads : Block(thread) \/ Loop(thread) \/ Return(thread) \/ Wake(thread)
       \/ SendImmediate \/ Connections
       \/ \E call \in DOMAIN past.made, id \in Ids : Answer(call, id)
       \/ Receive
       \/ Disconnect

-----------------------------------------------------------------------------
\* What a caller is given answers its own call, or one that nobody waits for any
\* more or ever did, unless a second call got past the flag or the reply came
\* while the caller was still asking for it.  A reliable call of the thread that
\* receives returns with no reply ever, but for a call of the other thread.
Faithful ==
    /\ LET w == past.written
       IN  w.reply # 0 =>
             /\ w.from \in past.made[w.reply].targets
             /\ w.reply # w.into /\ ~w.asking /\ ~past.overlap => past.made[w.reply].end # "waits"
    /\ \A i \in DOMAIN past.made :
        LET call == past.made[i]
        IN  call.thread = Receiver /\ call.reliable /\ call.end = "true" => past.overlap

\* A call gets to the systems it was for and to no other.  Nobody waits while
\* the flag is clear for longer than it takes to wake; the flag is left set only
\* after a caller returned for a lost connection, and only after that, or while
\* a call asks, does a reply go to the stream of a call that is over.
WellFormed ==
    /\ \A r \in past.reached : r[2] \in past.made[r[1]].targets
    /\ peer.blockOnRPCReply /\ Waiting = {} => past.givenUp
    /\ ~past.written.waits => past.givenUp \/ past.written.asking
    /\ \A i \in DOMAIN past.made : past.made[i].end = "stuck" => past.givenUp
=============================================================================
