----------------------------- MODULE ByteQueue -----------------------------
(***************************************************************************)
(* DataStructures::ByteQueue (DS_ByteQueue.cpp): bytes in a ring that      *)
(* grows.  Of a queue that wraps it counts one byte less than it holds.    *)
(***************************************************************************)
EXTENDS Integers, Sequences

CONSTANTS
    Contents,           \* values of a byte
    Fresh,              \* what memory holds that nobody wrote
    LeastAllocation,    \* the least a queue grows by: 256
    MaxLength,          \* bound: bytes written or read at once
    MaxAllocation       \* bound: size of the ring

VARIABLES
    queue,      \* data, readOffset, writeOffset, lengthAllocated
    bytes       \* history: what was written and not read, and whether a byte was lost

vars == << queue, bytes >>

Init ==
    /\ queue = [ data |-> << >>, readOffset |-> 0, writeOffset |-> 0, lengthAllocated |-> 0 ]
    /\ bytes = [ held |-> << >>, lost |-> FALSE ]

Wrapped == queue.writeOffset < queue.readOffset

GetBytesWritten ==
    IF Wrapped THEN queue.writeOffset - 1 + (queue.lengthAllocated - queue.readOffset)
    ELSE queue.writeOffset - queue.readOffset

\* Memory, counted from 0: the bytes of in stored from at on, and round the end.
Stored(data, at, in) ==
    [ i \in 1 .. Len(data) |->
        LET n == (i - 1 - at + Len(data)) % Len(data)
        IN  IF n < Len(in) THEN in[n + 1] ELSE data[i] ]
Part(data, at, n) == SubSeq(data, at + 1, at + n)
Room(n) == [ i \in 1 .. n |-> Fresh ]

-----------------------------------------------------------------------------
\* Growing: what had gone round the end follows the old end, as far as there is
\* room for it.
Grown(length) ==
    LET q == queue
        more == IF length * 2 < LeastAllocation THEN LeastAllocation ELSE length * 2
        data == q.data \o Room(more)
        begin(n) == Stored(data, q.lengthAllocated, Part(data, 0, n))
        moved == Stored(begin(more), 0, Part(data, more, q.writeOffset - more))
    IN  [ q EXCEPT !.lengthAllocated = @ + more,
            !.data = IF ~Wrapped THEN data ELSE IF q.writeOffset <= more THEN begin(q.writeOffset) ELSE moved,
            !.writeOffset = IF ~Wrapped THEN @
                            ELSE IF @ <= more THEN q.readOffset + GetBytesWritten ELSE @ - more ]

WriteBytes(in) ==
    LET length == Len(in)
        grows == queue.lengthAllocated = 0 \/ length > queue.lengthAllocated - GetBytesWritten - 1
        q == IF grows THEN Grown(length) ELSE queue
        end == (q.writeOffset + length) % q.lengthAllocated
    IN  /\ q.lengthAllocated <= MaxAllocation
        /\ queue' = [ q EXCEPT !.data = Stored(@, q.writeOffset, in), !.writeOffset = end ]
        /\ bytes' = [ held |-> bytes.held \o in,
                      lost |-> Wrapped /\ (IF grows THEN q.writeOffset > q.readOffset ELSE end = q.readOffset) ]

\* ReadBytes, which takes all or nothing.
Copied(length) == [ i \in 1 .. length |-> queue.data[((queue.readOffset + i - 1) % queue.lengthAllocated) + 1] ]
CanRead(length) == GetBytesWritten >= length

ReadBytes(length) ==
    /\ queue.lengthAllocated > 0
    /\ CanRead(length)
    /\ queue' = [ queue EXCEPT !.readOffset = (@ + length) % queue.lengthAllocated ]
    /\ bytes' = [ bytes EXCEPT !.held = SubSeq(@, length + 1, Len(@)) ]

Clear ==
    /\ queue' = [ data |-> << >>, readOffset |-> 0, writeOffset |-> 0, lengthAllocated |-> 0 ]
    /\ bytes' = [ held |-> << >>, lost |-> FALSE ]

Next ==
    \/ ~bytes.lost /\ \E n \in 1 .. MaxLength : \E in \in [ 1 .. n -> Contents ] : WriteBytes(in)
    \/ ~bytes.lost /\ \E n \in 1 .. MaxLength : ReadBytes(n)
    \/ Clear

-----------------------------------------------------------------------------
\* What can be read is what was written, in order: all of it or, once it wraps,
\* all but the last byte.  Bytes are lost only when a queue that wraps has to
\* grow, or is filled to the last byte and taken to be empty.
Faithful ==
    ~bytes.lost =>
        /\ GetBytesWritten = Len(bytes.held) - (IF Wrapped THEN 1 ELSE 0)
        /\ \A n \in 1 .. GetBytesWritten : Copied(n) = SubSeq(bytes.held, 1, n)

\* The offsets stay in the ring; a queue that lost bytes counts fewer than it
\* was given, and never more.
WellFormed ==
    /\ Len(queue.data) = queue.lengthAllocated
    /\ queue.lengthAllocated > 0 => queue.readOffset < queue.lengthAllocated /\ queue.writeOffset < queue.lengthAllocated
    /\ GetBytesWritten <= Len(bytes.held)
    /\ bytes.lost => GetBytesWritten < Len(bytes.held)
=============================================================================
