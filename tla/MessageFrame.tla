---------------------------- MODULE MessageFrame ----------------------------
(***************************************************************************)
(* A datagram of a connected system, bit by bit (ReliabilityLayer.cpp):    *)
(* whether there are acknowledgements, as many ranges of them as fit, then *)
(* messages as long as the estimate of their headers says that they fit;   *)
(* and what the other side makes of it.                                    *)
(***************************************************************************)
EXTENDS Integers, Sequences, FiniteSets, SequencesExt, TLC

CONSTANTS
    MTUBits,            \* ( MTUSize - UDP_HEADER_SIZE ) * 8
    MaximumMTUSize,     \* MAXIMUM_MTU_SIZE, in bytes
    EncryptorBits,      \* room left for the encryptor
    StackBytes,         \* BITSTREAM_STACK_ALLOCATION_SIZE
    Fresh,              \* what memory holds that nobody wrote
    AckLists,           \* acknowledgements that wait, as lists of ranges
    Messages            \* messages that wait

VARIABLES
    datagram,    \* the bit stream, and whether the encryptor has a key
    contents     \* history: ranges and messages put in

vars == << datagram, contents >>

Bits == INSTANCE BitStream WITH stream <- datagram, written <- contents, MaxWrites <- 0
Acks == INSTANCE RangeList WITH ranges <- datagram, acks <- contents, Indexes <- {}, MaxBits <- {}

Number(n, size) == [ i \in 1 .. size |-> Bits!Byte((n \div (256 ^ (i - 1))) % 256) ]
Value(bytes) ==
    FoldRight(LAMBDA byte, n : 256 * n + FoldLeft(LAMBDA m, bit : 2 * m + bit, 0, byte), bytes, 0)

\* PacketReliability.
UNRELIABLE_SEQUENCED == 7
RELIABLE_ORDERED     == 9
RELIABLE_SEQUENCED   == 10
HasIndex(m) == m.reliability \in { UNRELIABLE_SEQUENCED, RELIABLE_SEQUENCED, RELIABLE_ORDERED }
IsSplit(m) == m.splitPacketCount > 0

Init ==
    /\ \E keySet \in BOOLEAN : datagram = [ stream |-> Bits!Stack, keySet |-> keySet ]
    /\ contents = [ acks |-> << >>, messages |-> << >> ]

-----------------------------------------------------------------------------
(* Writing *)

\* Fields of a record: how each is written, its name, and its bits.
WriteField(s, how, n, width) ==
    CASE how = "bit" -> Bits!WriteBit(s, n)
      [] how = "bits" -> Bits!WriteBits(s, Number(n, Bits!CeilDiv(width, 8)), width, TRUE)
      [] how = "compressed" -> Bits!WriteCompressed(s, Number(n, Bits!CeilDiv(width, 8)), TRUE)
WriteFields(s, r, fields) == FoldLeft(LAMBDA t, f : WriteField(t, f[1], r[f[2]], f[3]), s, fields)

\* RangeList::Serialize: the count, then the ranges from a stream of their own.
CountField(c) == << << "compressed", "count", 16 >> >>
RangeFields(r) ==
    << << "bit", "same", 1 >>, << "bits", "minIndex", 16 >> >>
    \o (IF r.same = 1 THEN << >> ELSE << << "bits", "maxIndex", 16 >> >>)
Wire(range) == ("same" :> IF range.minIndex = range.maxIndex THEN 1 ELSE 0) @@ range
RECURSIVE WriteRanges(_, _, _)
WriteRanges(tempBS, list, n) ==
    IF n = Len(list) \/ 16 + tempBS.used + 33 > MTUBits - 1 THEN [ count |-> n, bits |-> tempBS ]
    ELSE WriteRanges(WriteFields(tempBS, Wire(list[n + 1]), RangeFields(Wire(list[n + 1]))), list, n + 1)
WithRanges(s, ranges) ==
    Bits!WriteStream(WriteFields(s, ranges, CountField(ranges)), ranges.bits, 0, ranges.bits.used)
SerializedAcks(s, list) == WithRanges(s, WriteRanges(Bits!Stack, list, 0))

\* GetBitStreamHeaderLength, in which a message number counts twice.
GetBitStreamHeaderLength(m) ==
    32 + 4 + (IF HasIndex(m) THEN 5 + 16 ELSE 0)
       + 1 + (IF IsSplit(m) THEN 16 + 2 * 32 ELSE 0) + 16

\* What is written before the data, and in this order read: each field says
\* whether those before it let it follow.
Header(m) ==
    << << "bits", "messageNumber", 16 >>, << "bits", "reliability", 4 >> >>
    \o (IF HasIndex(m) THEN << << "bits", "orderingChannel", 5 >>, << "bits", "orderingIndex", 16 >> >>
        ELSE << >>)
    \o << << "bit", "isSplitPacket", 1 >> >>
    \o (IF m.isSplitPacket = 1
        THEN << << "bits", "splitPacketId", 16 >>, << "compressed", "splitPacketIndex", 32 >>,
                << "compressed", "splitPacketCount", 32 >> >>
        ELSE << >>)
    \o << << "compressed", "dataBitLength", 16 >> >>

\* WriteToBitStreamFromInternalPacket.
WriteMessage(s, message) ==
    LET m == ("isSplitPacket" :> IF IsSplit(message) THEN 1 ELSE 0) @@ message
    IN  Bits!WriteAlignedBytes(WriteFields(s, m, Header(m)), m.data)

Limit == IF datagram.keySet THEN MTUBits - EncryptorBits ELSE MTUBits

\* The start of GenerateDatagram, when acknowledgements are due.
WriteAcks(list) ==
    /\ datagram.stream.used = 0
    /\ datagram' = [ datagram EXCEPT !.stream = SerializedAcks(Bits!WriteBit(datagram.stream, 1), list) ]
    /\ contents' = [ contents EXCEPT !.acks = SubSeq(list, 1, Acks!CountWritten(list, MTUBits - 1)) ]

\* A message of the resend queue, or of a send queue.
AppendMessage(m) ==
    /\ datagram.stream.used + GetBitStreamHeaderLength(m) + m.dataBitLength <= Limit
    /\ LET s == datagram.stream
       IN  datagram' = [ datagram EXCEPT !.stream =
                           WriteMessage(IF s.used = 0 THEN Bits!WriteBit(s, 0) ELSE s, m) ]
    /\ contents' = [ contents EXCEPT !.messages = Append(@, m) ]

Next ==
    \/ \E list \in AckLists : WriteAcks(list)
    \/ \E m \in Messages : AppendMessage(m)

-----------------------------------------------------------------------------
(* Reading *)

\* Fields as they follow from those read before them.  What is not there
\* cannot be read, and ends it.
ReadField(s, at, how, width) ==
    CASE how = "bit" -> [ Bits!ReadBit(s, at) EXCEPT !.value = << << @ >> >> ]
      [] how = "bits" -> Bits!ReadBits(s, at, width, TRUE)
      [] how = "compressed" -> Bits!ReadCompressed(s, at, Bits!CeilDiv(width, 8), TRUE)
Stored(got, name, field) ==
    IF field.ok THEN [ field EXCEPT !.value = [ got.value EXCEPT ![name] = Value(field.value) ] ]
    ELSE [ got EXCEPT !.ok = FALSE ]
ReadNext(s, got, f) == Stored(got, f[2], ReadField(s, got.at, f[1], f[3]))
ReadFields(s, at, Fields(_), names) ==
    FoldLeft(LAMBDA got, i : IF got.ok /\ i <= Len(Fields(got.value))
                             THEN ReadNext(s, got, Fields(got.value)[i]) ELSE got,
             Bits!Got([ name \in names |-> 0 ], at), [ i \in 1 .. Cardinality(names) |-> i ])

\* RangeList::Deserialize: the ranges, and where they end; a range that cannot
\* be read, or ends before it begins, refuses the datagram.
Range1(r) == [ minIndex |-> r.minIndex, maxIndex |-> IF r.same = 1 THEN r.minIndex ELSE r.maxIndex ]
WithRange(got, read) ==
    IF got.ok /\ read.ok /\ Range1(read.value).maxIndex >= read.value.minIndex
    THEN [ read EXCEPT !.value = Append(got.value, Range1(@)) ]
    ELSE Bits!Failed(got.at)
RECURSIVE ReadRanges(_, _, _)
ReadRanges(s, n, got) ==
    IF n > 0 /\ got.ok
    THEN ReadRanges(s, n - 1,
                    WithRange(got, ReadFields(s, got.at, RangeFields, { "same", "minIndex", "maxIndex" })))
    ELSE got
RangesAfter(s, count) ==
    IF count.ok THEN ReadRanges(s, count.value.count, Bits!Got(<< >>, count.at)) ELSE count
ReadAcks(s, at) == RangesAfter(s, ReadFields(s, at, CountField, { "count" }))

\* CreateInternalPacketFromBitStream: the header; then the data, if its length
\* is one a datagram can have.
HeaderNames == { "messageNumber", "reliability", "orderingChannel", "orderingIndex", "isSplitPacket",
                 "splitPacketId", "splitPacketIndex", "splitPacketCount", "dataBitLength" }
Bytes(header) == Bits!CeilDiv(header.value.dataBitLength, 8)
WithData(header, data) ==
    IF header.ok /\ Bytes(header) \in 1 .. MaximumMTUSize - 1 /\ data.ok
    THEN [ data EXCEPT !.value = ("data" :> @)
             @@ [ name \in HeaderNames \ { "isSplitPacket" } |-> header.value[name] ] ]
    ELSE Bits!Failed(header.at)
ReadData(s, header) == WithData(header, Bits!ReadAlignedBytes(s, header.at, Bytes(header)))
ReadMessage(s, at) ==
    IF s.used - at >= 16 THEN ReadData(s, ReadFields(s, at, Header, HeaderNames)) ELSE Bits!Failed(at)

\* The messages as far as they can be read.
RECURSIVE ReadMessages(_, _, _)
ReadMessages(s, m, list) ==
    IF m.ok THEN ReadMessages(s, ReadMessage(s, m.at), Append(list, m.value)) ELSE list

\* The start of HandleSocketReceiveFromConnectedPlayer: "hasAcks", the ranges,
\* and the messages.  A single byte is ignored.
WithMessages(s, acks) ==
    [ acks |-> IF acks.ok THEN acks.value ELSE << >>, ok |-> acks.ok,
      messages |-> IF acks.ok THEN ReadMessages(s, ReadMessage(s, acks.at), << >>) ELSE << >> ]
Received(s) ==
    IF s.used <= 8 THEN [ acks |-> << >>, messages |-> << >>, ok |-> TRUE ]
    ELSE WithMessages(s, IF s.memory[1] = 1 THEN ReadAcks(s, 1) ELSE Bits!Got(<< >>, 1))

-----------------------------------------------------------------------------
\* As it leaves, in whole bytes, cut after a byte on the way.
Cut(n) == [ datagram.stream EXCEPT !.used = 8 * n ]
Size == Bits!CeilDiv(datagram.stream.used, 8)

Agrees(n, got) ==
    IF got.ok /\ n > 1
    THEN /\ got.acks = contents.acks
         /\ IsPrefix(got.messages, contents.messages)
         /\ n = Size => got.messages = contents.messages
    ELSE got.messages = << >> /\ got.acks = << >> /\ (n = Size => n = 0)

\* The other side reads the acknowledgements and messages that were put in; of
\* a datagram cut short it reads a beginning, or nothing at all.
RoundTrips == \A n \in 0 .. Size : Agrees(n, Received(Cut(n)))

\* A datagram is no longer than the path carries, and leaves the encryptor its
\* room unless the acknowledgements alone take it: the estimate covers what a
\* message takes, its alignment, and the first bit of the datagram.
WellFormed ==
    /\ datagram.stream.used <= MTUBits
    /\ datagram.stream.used > Limit => contents.messages = << >>
=============================================================================
