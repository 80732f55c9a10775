----------------------------- MODULE BitStream -----------------------------
(***************************************************************************)
(* RakNet::BitStream (RakNet/BitStream.h, BitStream.cpp; sa_module keeps a *)
(* copy of it): a string of bits in a buffer of bytes.  A byte is never    *)
(* cleared when it is allocated: the first write into it sets all eight    *)
(* bits, later ones are or-ed in, so the bits of a byte after the last one *)
(* written must be zero.  Bits are 0 or 1, a byte is a sequence of eight,  *)
(* the highest first, and a number is its bytes, the lowest first.         *)
(***************************************************************************)
EXTENDS Integers, Sequences, SequencesExt

CONSTANTS
    Fresh,        \* what memory holds that nobody wrote: 0 or 1 in every bit
    StackBytes,   \* BITSTREAM_STACK_ALLOCATION_SIZE
    MaxWrites     \* bound: values written

VARIABLES
    stream,       \* memory, numberOfBitsUsed, numberOfBitsAllocated, and where data is
    written       \* history: the values in the stream, in order, and how many were ever written

vars == << stream, written >>

CeilDiv(n, d) == (n + d - 1) \div d                   \* BITS_TO_BYTES, with d = 8
items == written.items
Zeros(n) == [ i \in 1 .. n |-> 0 ]
Unwritten(n) == [ i \in 1 .. n |-> Fresh ]
Byte(n) == [ i \in 1 .. 8 |-> (n \div 2 ^ (8 - i)) % 2 ]

Stack == [ memory |-> Unwritten(8 * StackBytes), used |-> 0,
           allocated |-> 8 * StackBytes, place |-> "stack" ]

\* BitStream(n), and BitStream(data, n, true).
Sized(n) ==
    IF n <= StackBytes THEN Stack
    ELSE [ memory |-> Unwritten(8 * n), used |-> 0, allocated |-> 8 * n, place |-> "heap" ]

Copied(bytes) ==
    LET bits == FlattenSeq(bytes)  n == Len(bytes)
    IN  IF n > 0 /\ n < StackBytes
        THEN [ Stack EXCEPT !.memory = bits \o SubSeq(@, Len(bits) + 1, 8 * StackBytes),
                            !.used = 8 * n ]
        ELSE [ memory |-> bits, used |-> 8 * n, allocated |-> 8 * n,
               place |-> IF n = 0 THEN "none" ELSE "heap" ]

-----------------------------------------------------------------------------
(* Writing *)

\* AddBitsAndReallocate: twice what is needed, when another byte is.
Reallocated(s, n) ==
    LET needed == s.used + n
        bytes == CeilDiv(2 * needed, 8)
        kept == IF s.place = "stack" THEN SubSeq(s.memory, 1, 8 * CeilDiv(s.allocated, 8)) ELSE s.memory
        moves == s.place # "stack" \/ bytes > StackBytes
        grows == (s.allocated - 1) \div 8 < (needed - 1) \div 8
    IN  IF n <= 0 \/ ~grows
        THEN [ s EXCEPT !.allocated = IF n > 0 /\ needed > @ THEN needed ELSE @ ]
        ELSE [ s EXCEPT !.memory = IF moves THEN kept \o Unwritten(8 * bytes - Len(kept)) ELSE @,
                        !.place = IF moves THEN "heap" ELSE @,
                        !.allocated = 2 * needed ]

\* Bits from place `at` on are replaced, or or-ed.
Placed(memory, at, bits) ==
    SubSeq(memory, 1, at) \o bits \o SubSeq(memory, at + Len(bits) + 1, Len(memory))
Ored(memory, at, bits) ==
    Placed(memory, at, [ i \in DOMAIN bits |-> IF bits[i] = 1 THEN 1 ELSE memory[at + i] ])

\* One round of the loop of WriteBits: n bits of a byte that are on its left.
WriteByte(s, byte, n) ==
    LET m == s.used % 8
        first == Ored(s.memory, s.used, SubSeq(byte, 1, 8 - m))
    IN  [ s EXCEPT
            !.memory = IF m = 0 THEN Placed(@, s.used, byte)
                       ELSE IF 8 - m < n
                       THEN Placed(first, s.used + 8 - m, SubSeq(byte, 9 - m, 8) \o Zeros(8 - m))
                       ELSE first,
            !.used = @ + n ]

Least(a, b) == IF a < b THEN a ELSE b

\* WriteBits.  Bits of a last byte that is not full are on its right, or left.
WriteBits(s, bytes, n, rightAligned) ==
    LET InByte(i) == Least(8, n - 8 * (i - 1))
        Shifted(i) == IF rightAligned THEN SubSeq(bytes[i], 9 - InByte(i), 8) \o Zeros(8 - InByte(i))
                      ELSE bytes[i]
    IN  FoldLeft(LAMBDA t, i : WriteByte(t, Shifted(i), InByte(i)), Reallocated(s, n),
                 [ i \in 1 .. CeilDiv(n, 8) |-> i ])

\* Write0 and Write1, which Write(bool) calls.
WriteBit(s, bit) ==
    LET t == Reallocated(s, 1)
        byte == << bit >> \o Zeros(7)
    IN  [ t EXCEPT !.memory = IF t.used % 8 = 0 THEN Placed(@, t.used, byte) ELSE Ored(@, t.used, << bit >>),
                   !.used = @ + 1 ]

WriteNumber(s, bytes) == WriteBits(s, bytes, 8 * Len(bytes), TRUE)

\* Write(const char *, int).
WriteBytes(s, bytes) ==
    LET t == Reallocated(s, 8 * Len(bytes))
    IN  CASE bytes = << >> -> s
          [] bytes # << >> /\ s.used % 8 = 0 ->
               [ t EXCEPT !.memory = Placed(@, t.used, FlattenSeq(bytes)),
                          !.used = @ + 8 * Len(bytes) ]
          [] OTHER -> WriteNumber(s, bytes)

AlignWriteToByteBoundary(s) == [ s EXCEPT !.used = 8 * CeilDiv(@, 8) ]
WriteAlignedBytes(s, bytes) == WriteBytes(AlignWriteToByteBoundary(s), bytes)

\* Write(BitStream *, int): bit by bit, what is left in the other from its
\* readOffset; a byte it begins is cleared.
WriteStream(s, other, at, n) ==
    LET t == Reallocated(s, n)
        bits == SubSeq(other.memory, at + 1, at + Least(n, other.used - at))
        m == Least((8 - (t.used % 8)) % 8, Len(bits))
        rest == SubSeq(bits, m + 1, Len(bits))
    IN  [ t EXCEPT !.memory = Placed(Ored(@, t.used, SubSeq(bits, 1, m)), t.used + m,
                                     rest \o Zeros(8 * CeilDiv(Len(rest), 8) - Len(rest))),
                   !.used = @ + Len(bits) ]

\* WriteCompressed: a 1 for each high byte that only repeats the sign.
RECURSIVE WriteCompressed(_, _, _)
WriteCompressed(s, bytes, unsignedData) ==
    LET sign == IF unsignedData THEN 0 ELSE 1
        high == Last(bytes)
        fits == \A i \in 1 .. 4 : high[i] = sign
        repeats == \A i \in 1 .. 8 : high[i] = sign
    IN  CASE Len(bytes) > 1 /\ repeats -> WriteCompressed(WriteBit(s, 1), Front(bytes), unsignedData)
          [] Len(bytes) > 1 /\ ~repeats -> WriteNumber(WriteBit(s, 0), bytes)
          [] OTHER -> WriteBits(WriteBit(s, IF fits THEN 1 ELSE 0), << high >>, IF fits THEN 4 ELSE 8, TRUE)

\* WriteDelta and WriteCompressedDelta.
WriteDelta(s, bytes, last) ==
    IF bytes = last THEN WriteBit(s, 0) ELSE WriteNumber(WriteBit(s, 1), bytes)
WriteCompressedDelta(s, bytes, last) ==
    IF bytes = last THEN WriteBit(s, 0) ELSE WriteCompressed(WriteBit(s, 1), bytes, TRUE)

\* A PlayerID: binaryAddress and port.
WritePlayerID(s, address, port) == WriteNumber(WriteNumber(s, address), port)

\* WriteNormVector: a coordinate is << >> for zero, or the 16 bits it is compressed to.
WriteCoordinate(s, c) == IF c = << >> THEN WriteBit(s, 1) ELSE WriteNumber(WriteBit(s, 0), c)
WriteNormVector(s, xNegative, y, z) ==
    WriteCoordinate(WriteCoordinate(WriteBit(s, xNegative), y), z)

\* WriteNormQuat: four signs and three coordinates; WriteOrthMatrix makes one of a matrix.
WriteNormQuat(s, signs, x, y, z) ==
    WriteNumber(WriteNumber(WriteNumber(FoldLeft(WriteBit, s, signs), x), y), z)

\* WriteVector: the magnitude, and three coordinates unless it is zero.
WriteVector(s, magnitude, c) ==
    IF c = << >> THEN WriteNumber(s, magnitude)
    ELSE FoldLeft(WriteNumber, WriteNumber(s, magnitude), c)

-----------------------------------------------------------------------------
(* Reading from a place: whether it succeeds, the value and the next place. *)

Failed(at) == [ ok |-> FALSE, value |-> << >>, at |-> at ]
Got(value, at) == [ ok |-> TRUE, value |-> value, at |-> at ]

ReadBit(s, at) == IF at + 1 > s.used THEN Failed(at) ELSE Got(s.memory[at + 1], at + 1)

\* ReadBits: each byte of the output is two halves of memory.
ReadBits(s, at, n, alignRight) ==
    LET m == at % 8
        InByte(i) == Least(8, n - 8 * (i - 1))
        Begin(i) == at + 8 * (i - 1)
        Halves(i) ==
            IF m > 0 /\ InByte(i) > 8 - m
            THEN SubSeq(s.memory, Begin(i) + 1, Begin(i) + 8)
            ELSE SubSeq(s.memory, Begin(i) + 1, Begin(i) + 8 - m) \o Zeros(m)
        Aligned(i) == IF alignRight THEN Zeros(8 - InByte(i)) \o SubSeq(Halves(i), 1, InByte(i)) ELSE Halves(i)
    IN  IF n <= 0 \/ at + n > s.used THEN Failed(at)
        ELSE Got([ i \in 1 .. CeilDiv(n, 8) |-> Aligned(i) ], at + n)

ReadNumber(s, at, size) == ReadBits(s, at, 8 * size, TRUE)

\* Read(char *, int).
ReadBytes(s, at, size) ==
    CASE at % 8 = 0 /\ at + 8 * size > s.used -> Failed(at)
      [] at % 8 = 0 /\ at + 8 * size <= s.used ->
           Got([ i \in 1 .. size |-> SubSeq(s.memory, at + 8 * i - 7, at + 8 * i) ], at + 8 * size)
      [] OTHER -> ReadNumber(s, at, size)

AlignedAt(at) == 8 * CeilDiv(at, 8)                   \* AlignReadToByteBoundary
ReadAlignedBytes(s, at, size) ==
    IF size <= 0 THEN Failed(at) ELSE ReadBytes(s, AlignedAt(at), size)

\* ReadCompressed of `size` bytes, highest first.
WithHigh(lower, sign) ==
    IF lower.ok THEN [ lower EXCEPT !.value = Append(@, [ i \in 1 .. 8 |-> sign ]) ] ELSE lower
WithHighHalf(half, sign) ==
    IF half.ok THEN [ half EXCEPT !.value = << [ i \in 1 .. 8 |-> IF i <= 4 THEN sign ELSE @[1][i] ] >> ]
    ELSE half
RECURSIVE ReadCompressed(_, _, _, _)
ReadCompressed(s, at, size, unsignedData) ==
    LET sign == IF unsignedData THEN 0 ELSE 1
        bit == ReadBit(s, at)
    IN  CASE ~bit.ok -> Failed(at)
          [] bit.ok /\ size > 1 /\ bit.value = 1 ->
               WithHigh(ReadCompressed(s, at + 1, size - 1, unsignedData), sign)
          [] bit.ok /\ size = 1 /\ bit.value = 1 -> WithHighHalf(ReadBits(s, at + 1, 4, TRUE), sign)
          [] OTHER -> ReadNumber(s, at + 1, size)

\* ReadDelta and ReadCompressedDelta: a value not written is the last one.
ReadDelta(s, at, last) ==
    LET bit == ReadBit(s, at)
    IN  IF bit.ok /\ bit.value = 1 THEN ReadNumber(s, bit.at, Len(last))
        ELSE [ bit EXCEPT !.value = last ]
ReadCompressedDelta(s, at, last) ==
    LET bit == ReadBit(s, at)
    IN  IF bit.ok /\ bit.value = 1 THEN ReadCompressed(s, bit.at, Len(last), TRUE)
        ELSE [ bit EXCEPT !.value = last ]

\* Two reads after each other, of which only the second is checked.
Then(first, second) == [ second EXCEPT !.value = << first.value, second.value >> ]

ReadPlayerID(s, at) ==
    LET address == ReadNumber(s, at, 4) IN Then(address, ReadNumber(s, address.at, 2))

ReadCoordinate(s, at) ==
    LET zero == ReadBit(s, at)
    IN  IF ~zero.ok \/ zero.value = 1 THEN [ zero EXCEPT !.value = << >> ]
        ELSE ReadNumber(s, zero.at, 2)
ReadNormVector(s, at) ==
    LET x == ReadBit(s, at)
        y == ReadCoordinate(s, x.at)
    IN  Then(Then(x, y), ReadCoordinate(s, y.at))

ReadNormQuat(s, at) ==
    LET signs == [ i \in 1 .. 4 |-> ReadBit(s, at + i - 1).value ]
        x == ReadNumber(s, at + 4, 2)
        y == ReadNumber(s, x.at, 2)
    IN  IF at + 4 > s.used THEN Failed(at)
        ELSE Then(Then(Then(Got(signs, at + 4), x), y), ReadNumber(s, y.at, 2))

ReadVector(s, at) ==
    LET magnitude == ReadNumber(s, at, 4)
        zero == magnitude.value = [ i \in 1 .. 4 |-> Zeros(8) ]
        x == ReadNumber(s, magnitude.at, 2)
        y == ReadNumber(s, x.at, 2)
        z == ReadNumber(s, y.at, 2)
    IN  IF ~magnitude.ok \/ zero THEN [ magnitude EXCEPT !.value = << @, << >> >> ]
        ELSE [ z EXCEPT !.value = << magnitude.value, << x.value, y.value, @ >> >> ]

-----------------------------------------------------------------------------
(* A stream in use: any values are written, the stream is reset and used   *)
(* again, and a number that was written aligned is written over            *)
(* (SetWriteOffset), as DataCompressor does with the length of its data.   *)

Item(type, value) == [ type |-> type, value |-> value ]
Zero == << 0, 0, 0, 0 >>
Bytes(numbers) == [ i \in DOMAIN numbers |-> Byte(numbers[i]) ]
Last2 == Bytes(<< 7, 0 >>)   \* the value a delta is to

Catalogue ==
    << Item("bit", 0), Item("bit", 1), Item("bits", Bytes(<< 165, 5 >>)), Item("left", Bytes(<< 160 >>)),
       Item("number", Bytes(<< 129, 255 >>)), Item("bytes", Bytes(<< 129, 255 >>)),
       Item("aligned", Bytes(<< 129, 255 >>)), Item("stream", Bytes(<< 129, 255 >>)),
       Item("unsigned", Bytes(<< 5, 0 >>)), Item("unsigned", Bytes(<< 165, 0 >>)),
       Item("unsigned", Bytes(<< 1, 165 >>)), Item("signed", Bytes(<< 245, 255 >>)),
       Item("signed", Bytes(<< 5, 255 >>)), Item("signed", Bytes(<< 1, 165 >>)),
       Item("delta", Last2), Item("delta", Bytes(<< 9, 0 >>)),
       Item("compressed", Last2), Item("compressed", Bytes(<< 9, 0 >>)),
       Item("player", << Bytes(<< 127, 0, 0, 1 >>), Bytes(<< 97, 30 >>) >>),
       Item("norm", << << 1, << >> >>, Last2 >>), Item("norm", << << 0, Last2 >>, << >> >>),
       Item("quat", << << << << 1, 0, 1, 0 >>, Last2 >>, Last2 >>, Last2 >>),
       Item("vector", << Bytes(Zero), << >> >>),
       Item("vector", << Bytes(<< 1, 0, 0, 0 >>), << Last2, Last2, Last2 >> >>) >>

Written(s, item) ==
    LET v == item.value
        other == WriteNumber(WriteBit(Stack, 1), v)   \* another stream, of which a bit was read
    IN  CASE item.type = "bit" -> WriteBit(s, v)
          [] item.type = "bits" -> WriteBits(s, v, 11, TRUE)
          [] item.type = "left" -> WriteBits(s, v, 3, FALSE)
          [] item.type = "number" -> WriteNumber(s, v)
          [] item.type = "bytes" -> WriteBytes(s, v)
          [] item.type = "aligned" -> WriteAlignedBytes(s, v)
          [] item.type = "stream" -> WriteStream(s, other, 1, other.used)
          [] item.type = "unsigned" -> WriteCompressed(s, v, TRUE)
          [] item.type = "signed" -> WriteCompressed(s, v, FALSE)
          [] item.type = "delta" -> WriteDelta(s, v, Last2)
          [] item.type = "compressed" -> WriteCompressedDelta(s, v, Last2)
          [] item.type = "player" -> WritePlayerID(s, v[1], v[2])
          [] item.type = "norm" -> WriteNormVector(s, v[1][1], v[1][2], v[2])
          [] item.type = "quat" -> WriteNormQuat(s, v[1][1][1], v[1][1][2], v[1][2], v[2])
          [] item.type = "vector" -> WriteVector(s, v[1], v[2])

ReadBack(s, at, type) ==
    CASE type = "bit" -> ReadBit(s, at)
      [] type = "bits" -> ReadBits(s, at, 11, TRUE)
      [] type = "left" -> ReadBits(s, at, 3, FALSE)
      [] type \in { "number", "stream" } -> ReadNumber(s, at, 2)
      [] type = "bytes" -> ReadBytes(s, at, 2)
      [] type = "aligned" -> ReadAlignedBytes(s, at, 2)
      [] type = "unsigned" -> ReadCompressed(s, at, 2, TRUE)
      [] type = "signed" -> ReadCompressed(s, at, 2, FALSE)
      [] type = "delta" -> ReadDelta(s, at, Last2)
      [] type = "compressed" -> ReadCompressedDelta(s, at, Last2)
      [] type = "player" -> ReadPlayerID(s, at)
      [] type = "norm" -> ReadNormVector(s, at)
      [] type = "quat" -> ReadNormQuat(s, at)
      [] type = "vector" -> ReadVector(s, at)

Init ==
    \/ stream \in { Stack, Sized(StackBytes + 1), Copied(<< >>) } /\ written = [ items |-> << >>, count |-> 0 ]
    \/ \E n \in { 2, StackBytes } :
          LET bytes == Bytes([ i \in 1 .. n |-> 129 ])
          IN  /\ stream = Copied(bytes)
              /\ written = [ items |-> [ i \in 1 .. n \div 2 |-> Item("bytes", SubSeq(bytes, 1, 2)) ], count |-> 0 ]

Write(item) ==
    /\ written.count < MaxWrites
    /\ stream' = Written(stream, item)
    /\ written' = [ items |-> Append(items, item), count |-> written.count + 1 ]

\* SetWriteOffset to a number that was written first, Write, and back.
WriteOver ==
    /\ items # << >> /\ items[1].type = "aligned"
    /\ stream' = [ WriteNumber([ stream EXCEPT !.used = 0 ], Last2) EXCEPT !.used = stream.used ]
    /\ written' = [ written EXCEPT !.items[1].value = Last2 ]

Reset ==
    /\ items # << >>
    /\ stream' = [ stream EXCEPT !.used = 0 ]
    /\ written' = [ written EXCEPT !.items = << >> ]

Next == WriteOver \/ Reset \/ \E i \in DOMAIN Catalogue : Write(Catalogue[i])

-----------------------------------------------------------------------------
\* The values read from the start, and whether all reads succeed.
After(r, got) == [ ok |-> r.ok /\ got.ok, at |-> got.at, values |-> Append(r.values, got.value) ]
ReadAll(s) ==
    FoldLeft(LAMBDA r, item : After(r, ReadBack(s, r.at, item.type)),
             [ ok |-> TRUE, at |-> 0, values |-> << >> ], items)

\* Types of which a part alone is checked for being there.
HalfChecked == { "player", "norm" }

Agrees(cut, all) ==
    IF cut = stream.used
    THEN /\ all.ok /\ all.at = stream.used
         /\ \A i \in DOMAIN items :
              IF items[i].type = "left" THEN SubSeq(all.values[i][1], 1, 3) = SubSeq(items[i].value[1], 1, 3)
              ELSE all.values[i] = items[i].value
    ELSE (\A i \in DOMAIN items : items[i].type \notin HalfChecked) => ~all.ok

\* What was written is read back, whatever memory held, and a stream that
\* lost its end is noticed.
RoundTrips == \A cut \in 0 .. stream.used : Agrees(cut, ReadAll([ stream EXCEPT !.used = cut ]))

\* The next write or-s into zeros, and memory is as long as it is counted.
WellFormed ==
    /\ stream.used <= stream.allocated
    /\ Len(stream.memory) >= 8 * CeilDiv(stream.allocated, 8)
    /\ \A i \in stream.used + 1 .. 8 * CeilDiv(stream.used, 8) : stream.memory[i] = 0
=============================================================================
