------------------------------ MODULE RSACrypt ------------------------------
(***************************************************************************)
(* RSACrypt (RakNet/RSACrypt.h), by which secure connections agree on a    *)
(* key: numbers of BitCount bits, primes of half as many.  The operations  *)
(* on numbers are those BigTypes shows to compute modulo 2^BitCount, and   *)
(* twice as many bits where the code doubles the size.                     *)
(***************************************************************************)
EXTENDS Integers, Sequences, FiniteSets

CONSTANTS
    BitCount,       \* bits of a number: 256
    FirstExponent,  \* the public exponent that is tried first: 65537
    Primes,         \* the primes keys are made of
    PlainTexts,     \* the numbers that are encrypted
    Candidates      \* odd numbers whose primality is tested

VARIABLES
    rsa,            \* the keys of the decrypting side, and the number on its way
    plain           \* history: the number that was encrypted

vars == << rsa, plain >>

R(bits) == 2 ^ bits

-----------------------------------------------------------------------------
(* Powers, with the exponent from its lowest bit.                          *)

SimpleModExp(x, y, n) ==
    LET Bit(j) == (y \div (2 ^ j)) % 2
        step[j \in 0 .. BitCount] ==
            IF j = 0 THEN [ x |-> x % n, r |-> 1 ]
            ELSE LET s == step[j - 1]
                 IN  [ x |-> (s.x * s.x) % n,
                       r |-> IF Bit(j - 1) = 1 THEN (s.r * s.x) % n ELSE s.r ]
    IN  step[BitCount].r

RModN(n, bits) == R(bits) % n

RECURSIVE GCD(_, _)
GCD(a, b) == IF a % b = 0 THEN b ELSE GCD(b, a % b)

\* c - a * b modulo n; n itself where c is the product.
SubMulMod(a, b, c, n) ==
    LET y == (a * b) % n IN IF c > y THEN c - y ELSE c - y + n

\* The unrolled Euclid of computeRinverse and computeModularInverse: with x0 the
\* coefficient of a and x1 that of b, the one that belongs to the last remainder.
RECURSIVE Bezout(_, _, _, _, _)
Bezout(a, b, x0, x1, n) ==
    IF b = 0 THEN x0 ELSE Bezout(b, a % b, x1, SubMulMod(a \div b, x1, x0, n), n)

ComputeModularInverse(a, b) == Bezout(a, b % a, 1, b - (b \div a), b)

ComputeRinverse(n, bits) ==
    LET a == RModN(n, bits) IN Bezout(a, n % a, 1, n - (n \div a), n)

\* n' with r' r - n' n = 1, out of the double-size r' r - 1.
ComputeNRinverse(n, bits) == ((ComputeRinverse(n, bits) * R(bits)) - 1) \div n

\* The Montgomery product; the sum loses its carry out of the double size.
MonPro(a, b, n, np, bits) ==
    LET t == a * b
        m == ((t % R(bits)) * np) % R(bits)
        u == ((t + (m * n)) % R(2 * bits)) \div R(bits)
    IN  IF u >= n THEN u - n ELSE u

\* From the highest bit that is set.
MonModExp(M, e, n, np, xp, bits) ==
    LET Bit(j) == (e \div (2 ^ j)) % 2
        Mp == (M * R(bits)) % n
        step[j \in 0 .. bits] ==
            IF j = 0 THEN xp
            ELSE LET x == step[j - 1]
                     square == IF e < 2 ^ (bits - j + 1) THEN x ELSE MonPro(x, x, n, np, bits)
                 IN  IF Bit(bits - j) = 1 THEN MonPro(Mp, square, n, np, bits) ELSE square
    IN  MonPro(step[bits], 1, n, np, bits)

\* By the two primes, and the Chinese remainder theorem.
CRTModExp(C, d, p, q, pInverse) ==
    LET M1 == SimpleModExp(C % p, d % (p - 1), p)
        M2 == SimpleModExp(C % q, d % (q - 1), q)
        difference == IF M2 > M1 THEN M2 - M1 ELSE M2 - M1 + q
    IN  M1 + (p * ((difference * pInverse) % q))

-----------------------------------------------------------------------------
(* Keys.                                                                   *)

\* The first of first, first + 2, ... that has no divisor in common with phi.
ComputePublicExponent(phi) ==
    LET first == IF FirstExponent - 2 > phi THEN 5 ELSE FirstExponent
        coprime == { k \in 0 .. phi : GCD(phi, first + (2 * k)) = 1 }
    IN  first + (2 * CHOOSE k \in coprime : \A i \in coprime : k <= i)

PrivateKey(c_p, c_q) ==
    LET p == IF c_p > c_q THEN c_q ELSE c_p
        q == IF c_p > c_q THEN c_p ELSE c_q
        phi == (p - 1) * (q - 1)
        e == ComputePublicExponent(phi)
        half == BitCount \div 2
    IN  [ p |-> p, q |-> q, phi |-> phi, e |-> e, d |-> ComputeModularInverse(e, phi),
          pInverse |-> ComputeModularInverse(p, q), n |-> p * q,
          np |-> ComputeNRinverse(p * q, BitCount), xp |-> RModN(p * q, BitCount),
          pnp |-> ComputeNRinverse(p, half), pxp |-> RModN(p, half) ]

\* Every other of PRIME_TABLE[256] is tried, up to what can divide a candidate here.
TriedPrimes == { 3, 7, 13, 19, 29, 37, 43, 53, 61 }

\* n - 1 with its factors of two taken out.
RECURSIVE OddPart(_)
OddPart(m) == IF m % 2 = 0 THEN OddPart(m \div 2) ELSE m

\* One round of the test, with the random number a.
RoundPasses(n, a) ==
    LET r == OddPart(n - 1)
        y0 == SimpleModExp(a, r, n)
        squares[k \in 0 .. BitCount] == IF k = 0 THEN y0 ELSE (squares[k - 1] * squares[k - 1]) % n
        Exponent(k) == r * (2 ^ k)
    IN  \/ y0 \in { 1, n - 1 }
        \/ \E k \in 1 .. BitCount : Exponent(k) < n - 1 /\ squares[k] = n - 1

Rejected(n) == \E t \in TriedPrimes : n % t = 0

-----------------------------------------------------------------------------
Init ==
    /\ rsa = [ stage |-> "reset" ]
    /\ plain = 0

SetPrivateKey(c_p, c_q) ==
    /\ rsa.stage = "reset"
    /\ c_p # c_q
    /\ rsa' = [ stage |-> "keys", key |-> PrivateKey(c_p, c_q) ]
    /\ UNCHANGED plain

\* The other side, which was told e and n, or this one with its factors.
Encrypt(M, factorsAvailable) ==
    /\ rsa.stage = "keys"
    /\ M < rsa.key.n
    /\ plain' = M
    /\ LET k == rsa.key
           x == IF factorsAvailable THEN CRTModExp(M, k.e, k.p, k.q, k.pInverse)
                                    ELSE SimpleModExp(M, k.e, k.n)
       IN  rsa' = [ stage |-> "encrypted", key |-> k, x |-> x ]

Decrypt ==
    /\ rsa.stage = "encrypted"
    /\ LET k == rsa.key
       IN  rsa' = [ stage |-> "decrypted", key |-> k,
                    x |-> CRTModExp(rsa.x, k.d, k.p, k.q, k.pInverse) ]
    /\ UNCHANGED plain

\* RabinMillerPrimalityTest: the numbers a of which a round passes.
TestPrimality(n) ==
    /\ rsa.stage = "reset"
    /\ rsa' = [ stage |-> "tested", n |-> n, rejected |-> Rejected(n),
                passing |-> { a \in 0 .. n - 2 : RoundPasses(n, a) } ]
    /\ UNCHANGED plain

Next ==
    \/ \E p, q \in Primes : SetPrivateKey(p, q)
    \/ \E M \in PlainTexts, known \in BOOLEAN : Encrypt(M, known)
    \/ Decrypt
    \/ \E n \in Candidates : TestPrimality(n)

-----------------------------------------------------------------------------
\* Decryption gives back what either side encrypted.
RoundTrips == rsa.stage = "decrypted" => rsa.x = plain

\* The parts of a key belong together, and the Montgomery product, of numbers
\* that leave a bit free, is the one they are computed for.
WellFormed ==
    rsa.stage = "keys" =>
        LET k == rsa.key
        IN  /\ k.e > 4 /\ (k.e * k.d) % k.phi = 1
            /\ (k.p * k.pInverse) % k.q = 1
            /\ (k.np * k.n + 1) % R(BitCount) = 0
            /\ (k.pnp * k.p + 1) % R(BitCount \div 2) = 0
            /\ k.n < R(BitCount - 1) =>
                 \A M \in PlainTexts : M < k.n =>
                    MonModExp(M, k.e, k.n, k.np, k.xp, BitCount) = SimpleModExp(M, k.e, k.n)

IsPrime(n) == \A d \in 2 .. n - 1 : d * d <= n => n % d # 0

\* A round rejects no prime, unless its random number is 0, and lets no more than a
\* quarter of the numbers of a composite pass.
Faithful ==
    rsa.stage = "tested" /\ ~rsa.rejected =>
        IF IsPrime(rsa.n) THEN rsa.passing = 1 .. rsa.n - 2
        ELSE 4 * Cardinality(rsa.passing) <= rsa.n - 1
=============================================================================
