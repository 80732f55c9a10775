------------------------- MODULE DataBlockEncryptor -------------------------
(***************************************************************************)
(* DataBlockEncryptor (DataBlockEncryptor.cpp) with CheckSum (CheckSum.cpp *)
(* and CheckSum.h): a datagram behind a checksum, a random byte and a      *)
(* padding, encrypted block by block in its own buffer, each block with    *)
(* the one that was encrypted before it.  The block cipher itself is only  *)
(* known to be undone by its inverse.                                      *)
(***************************************************************************)
EXTENDS Integers, Sequences, SequencesExt, Bitwise

CONSTANTS
    BlockSize,  \* bytes of a block: 16
    Lengths,    \* bound: bytes of a datagram
    Contents    \* what its bytes are made of

VARIABLES
    buffer,     \* the datagram, and what was done to it: "plain", "encrypted" or "decrypted"
    plain       \* history: the datagram before encryption

vars == << buffer, plain >>

HeaderSize == 6      \* checksum, random byte, and size of the padding

XorBlocks(a, b) == [ i \in DOMAIN a |-> a[i] ^^ b[i] ]

\* (a * b) % 65536 without TLC's integers overflowing.
Times(a, b) == (((((a \div 256) * b) % 256) * 256) + ((a % 256) * b)) % 65536

\* CheckSum::Add of a byte, and of many.
Add(sum, byte) ==
    LET cipher == byte ^^ (sum.r \div 256)
    IN  [ r |-> (Times((cipher + sum.r) % 65536, 52845) + 22719) % 65536, sum |-> sum.sum + cipher ]
CheckSum(bytes) == FoldLeft(Add, [ r |-> 55665, sum |-> 0 ], bytes).sum

\* A number in four bytes, the lowest first.
FourBytes(n) == << n % 256, (n \div 256) % 256, (n \div 65536) % 256, n \div 16777216 >>

\* blockEncrypt and blockDecrypt (rijndael.cpp), of which any permutation will do.
BlockEncrypt(block) == [ i \in DOMAIN block |-> (block[BlockSize + 1 - i] + 37 * i) % 256 ]
BlockDecrypt(block) ==
    [ i \in DOMAIN block |-> (block[BlockSize + 1 - i] + 256 * 3 - 37 * (BlockSize + 1 - i)) % 256 ]

\* The block that begins at index, and the bytes with another block there.
Block(bytes, index) == SubSeq(bytes, index + 1, index + BlockSize)
WithBlock(bytes, index, block) ==
    [ i \in DOMAIN bytes |-> IF i \in index + 1 .. index + BlockSize THEN block[i - index] ELSE bytes[i] ]

PaddingBytes(length) == BlockSize - (((length + HeaderSize - 1) % BlockSize) + 1)

\* Header and padding in front of the data; one random byte stands for all of the padding.
Framed(data, randomChar, encodedPad) ==
    LET n == PaddingBytes(Len(data))
        body == << randomChar, ((16 * encodedPad) % 256) + n >> \o [ i \in 1 .. n |-> randomChar ] \o data
    IN  FourBytes(CheckSum(body)) \o body

\* The first block, then the others from the last one back.
Chained(bytes) ==
    LET first == WithBlock(bytes, 0, BlockEncrypt(Block(bytes, 0)))
        last == Len(bytes) - BlockSize
        Step(b, k) ==
            LET index == last - BlockSize * k
                before == IF k = 0 THEN 0 ELSE index + BlockSize
            IN  WithBlock(b, index, BlockEncrypt(XorBlocks(Block(b, index), Block(b, before))))
    IN  FoldLeft(Step, first, [ k \in 1 .. last \div BlockSize |-> k - 1 ])

\* The blocks after the first from the front, and the first one at last.
Unchained(bytes) ==
    LET last == Len(bytes) - BlockSize
        Step(b, k) ==
            LET index == BlockSize * k
                before == IF index = last THEN 0 ELSE index + BlockSize
            IN  WithBlock(b, index, XorBlocks(BlockDecrypt(Block(b, index)), Block(b, before)))
        rest == FoldLeft(Step, bytes, [ k \in 1 .. last \div BlockSize |-> k ])
    IN  WithBlock(rest, 0, BlockDecrypt(Block(rest, 0)))

Rejected == << >>

Decrypted(bytes) ==
    LET u == Unchained(bytes)
        body == SubSeq(u, 5, Len(u))
        n == u[6] % 16
    IN  IF Len(bytes) < BlockSize \/ Len(bytes) % BlockSize # 0 THEN Rejected
        ELSE IF FourBytes(CheckSum(body)) # SubSeq(u, 1, 4) THEN Rejected
        ELSE SubSeq(u, HeaderSize + n + 1, Len(u))

Init ==
    \E n \in Lengths, c \in Contents :
        /\ plain = [ i \in 1 .. n |-> (c * i) % 256 ]
        /\ buffer = [ state |-> "plain", bytes |-> plain ]

Encrypt(randomChar, encodedPad) ==
    /\ buffer.state = "plain"
    /\ buffer' = [ state |-> "encrypted", bytes |-> Chained(Framed(plain, randomChar, encodedPad)) ]
    /\ UNCHANGED plain

Decrypt ==
    /\ buffer.state = "encrypted"
    /\ buffer' = [ state |-> "decrypted", bytes |-> Decrypted(buffer.bytes) ]
    /\ UNCHANGED plain

Next == Decrypt \/ \E randomChar, encodedPad \in { 0, 90, 255 } : Encrypt(randomChar, encodedPad)

\* What was encrypted is decrypted, whatever its length.
RoundTrips == buffer.state = "decrypted" => buffer.bytes = plain

\* Encryption adds less than a header and a block, up to whole blocks.
WellFormed ==
    buffer.state = "encrypted" =>
        /\ Len(buffer.bytes) % BlockSize = 0
        /\ Len(buffer.bytes) - Len(plain) \in HeaderSize .. HeaderSize + BlockSize - 1
=============================================================================
