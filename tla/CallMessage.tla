---------------------------- MODULE CallMessage ----------------------------
(***************************************************************************)
(* A remote procedure call as it is written and read (RPC, HandleRPCPacket *)
(* and ShiftIncomingTimestamp in RakPeer.cpp): perhaps a time, one byte    *)
(* for the procedure, the number of bits of its data, and the bits, aligned*)
(* to the left as they stood in the caller's own stream.                   *)
(***************************************************************************)
EXTENDS Integers, Sequences, SequencesExt

CONSTANTS
    StackBytes,     \* BITSTREAM_STACK_ALLOCATION_SIZE
    Fresh,          \* what memory holds that nobody wrote
    MaxUniqueID,    \* what RPC lets pass: 256
    Calls,          \* calls made: uniqueID, stamp (<< >> for none) and data, a sequence of bits
    Differentials   \* how far the receiver's clock is behind the sender's

VARIABLES
    message,    \* the stream, as it is on its way
    call        \* history: the call that is in it

vars == << message, call >>

Bits == INSTANCE BitStream WITH stream <- message, written <- call, MaxWrites <- 0

ID_TIMESTAMP == Bits!Byte(40)
ID_RPC == Bits!Byte(20)
Four(n) == << Bits!Byte(n % 256), Bits!Byte((n \div 256) % 256),
              Bits!Byte((n \div 65536) % 256), Bits!Byte((n \div 16777216) % 256) >>
ValueOf(bits) == FoldLeft(LAMBDA m, bit : 2 * m + bit, 0, bits)
Number(bytes) == FoldRight(LAMBDA byte, n : 256 * n + ValueOf(byte), bytes, 0)

\* The caller's data: whole bytes, of which the last may hold fewer bits.
AsBytes(bits) ==
    [ i \in 1 .. Bits!CeilDiv(Len(bits), 8) |->
        LET part == SubSeq(bits, 8 * i - 7, Bits!Least(8 * i, Len(bits)))
        IN  part \o Bits!Zeros(8 - Len(part)) ]

-----------------------------------------------------------------------------
\* The head of a call, with the time the sender has.
Begun(s, c) ==
    IF c.stamp = << >> THEN s
    ELSE Bits!WriteNumber(Bits!WriteBits(s, << ID_TIMESTAMP >>, 8, TRUE), Four(c.stamp[1]))

WithData(s, data) ==
    IF data # << >> THEN Bits!WriteBits(s, AsBytes(data), Len(data), FALSE)
    ELSE Bits!WriteCompressed(s, Four(0), TRUE)

Encoded(c) ==
    LET id == Bits!WriteNumber(Begun(Bits!Stack, c), << ID_RPC, Bits!Byte(c.uniqueID % 256) >>)
    IN  WithData(Bits!WriteCompressed(id, Four(Len(c.data)), TRUE), c.data)

\* RPC: "if (*uniqueID > 256) return false".
Init ==
    \E c \in Calls :
        /\ c.uniqueID <= MaxUniqueID
        /\ message = Encoded(c)
        /\ call = [ uniqueID |-> c.uniqueID, stamp |-> c.stamp, data |-> c.data, shifted |-> FALSE ]

\* ShiftIncomingTimestamp, at the receiver: the time is written over.  Times are
\* those that do not wrap.
TimeIn(s) == Number(Bits!ReadNumber(s, 8, 4).value)
WithTime(s, time) ==
    [ Bits!WriteNumber([ s EXCEPT !.used = 8 ], Four(time)) EXCEPT !.used = s.used ]

Shift(differential) ==
    /\ ~call.shifted
    /\ call.stamp # << >> /\ call.stamp[1] >= differential
    /\ message' = WithTime(message, TimeIn(message) - differential)
    /\ call' = [ call EXCEPT !.stamp = << @[1] - differential >>, !.shifted = TRUE ]

Next == \E differential \in Differentials : Shift(differential)

-----------------------------------------------------------------------------
\* What the handlers are given, or nothing.  The first byte says where the call
\* begins; the procedure's byte is not checked for being there.
NoCall == [ called |-> FALSE, uniqueID |-> 0, input |-> << >>, bits |-> 0 ]

Called(id, bits, input) ==
    [ called |-> TRUE, uniqueID |-> IF id.ok THEN Number(id.value) ELSE 0,
      input |-> input, bits |-> bits ]
WithInput(id, bits, data) == IF data.ok THEN Called(id, bits, data.value) ELSE NoCall
WithLength(s, id, length) ==
    CASE ~length.ok -> NoCall
      [] length.ok /\ Number(length.value) = 0 -> Called(id, 0, << >>)
      [] OTHER -> WithInput(id, Number(length.value),
                            Bits!ReadBits(s, length.at, Number(length.value), FALSE))
WithId(s, id) == WithLength(s, id, Bits!ReadCompressed(s, id.at, 4, TRUE))

HandleRPCPacket(s) ==
    LET stamped == SubSeq(s.memory, 1, 8) = ID_TIMESTAMP
    IN  WithId(s, Bits!ReadNumber(s, IF stamped THEN 8 + 8 * 5 ELSE 8, 1))

\* In whole bytes, as it arrives, and shorter.
Cut(n) == [ message EXCEPT !.used = 8 * n ]
Size == Bits!CeilDiv(message.used, 8)

Complete == [ called |-> TRUE, uniqueID |-> IF call.uniqueID = 256 THEN 0 ELSE call.uniqueID,
              input |-> AsBytes(call.data), bits |-> Len(call.data) ]
Agrees(n, got) == IF n = Size THEN got = Complete ELSE got.called => call.data = << >> /\ got = Complete

\* The handlers get the procedure, and the bits of the data as the caller had
\* them; of a call cut short they get nothing, unless all that is missing is the
\* second length that follows one of zero.  Procedure 256 arrives as procedure 0.
RoundTrips ==
    /\ \A n \in 1 .. Size : Agrees(n, HandleRPCPacket(Cut(n)))
    /\ call.stamp # << >> =>
         SubSeq(message.memory, 1, 8) = ID_TIMESTAMP /\ TimeIn(message) = call.stamp[1]

\* As BitStream's, also after the time was written over.
WellFormed == Bits!WellFormed
=============================================================================
