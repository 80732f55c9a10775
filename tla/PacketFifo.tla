----------------------------- MODULE PacketFifo -----------------------------
(***************************************************************************)
(* What a queue of messages promises to the one who reads it: a message    *)
(* that is put in comes out, the oldest first and once, or is freed by     *)
(* Disconnect, and no message does both.  The queue of packets of a        *)
(* RakPeer is one (RakNet/include/RakNet/SingleProducerConsumer.h and the  *)
(* packet pool of RakNet/src/RakPeer.cpp), and so is a session with the    *)
(* server, whichever processes it is handed through.  Messages are         *)
(* numbered in the order they are put in.                                  *)
(***************************************************************************)
EXTENDS Integers, Sequences

VARIABLES
    pending,   \* messages that were put in and have not come out
    returned,  \* messages handed to the reader, in the order they were handed
    freed      \* messages that Disconnect deallocated

fifoVars == << pending, returned, freed >>

FifoInit == pending = {} /\ returned = << >> /\ freed = {}

Returned == { returned[n] : n \in 1..Len(returned) }

Put(p) ==
    /\ \A q \in pending \cup Returned \cup freed : q < p
    /\ pending' = pending \cup { p }
    /\ UNCHANGED << returned, freed >>

Return(p) ==
    /\ p \in pending
    /\ \A q \in pending : p <= q
    /\ pending' = pending \ { p }
    /\ returned' = Append(returned, p)
    /\ UNCHANGED freed

Free ==
    /\ freed \subseteq freed'
    /\ freed' \ freed \subseteq pending
    /\ pending' = pending \ freed'
    /\ UNCHANGED returned

FifoNext ==
    \/ \E p \in pending' \ pending : Put(p)
    \/ \E p \in pending : Return(p)
    \/ Free

FifoSpec == FifoInit /\ [][FifoNext]_fifoVars

=============================================================================
