------------------------------ MODULE BigTypes ------------------------------
(***************************************************************************)
(* The long numbers of RakNet/BigTypes.h: words, the lowest first, in      *)
(* base 2^WordBits (32 in the code).  Word i of the code is word i + 1.    *)
(* The assembly of the operations does what their C++ does.                *)
(***************************************************************************)
EXTENDS Integers, Sequences, FiniteSets

CONSTANTS
    WordBits,   \* bits of a word: 32
    Words       \* bound: words of a number

VARIABLES
    big,        \* the result of the last operation, and where it was written
    operands    \* history: the operation and what it was called with

vars == << big, operands >>

Base     == 2 ^ WordBits
HighBit  == Base \div 2
BitCount == WordBits * Words
Limit    == 2 ^ BitCount
Places   == 1 .. Words

\* The number a value has, and the value of a number.
Number(v) == [ i \in Places |-> (v \div (Base ^ (i - 1))) % Base ]
Value(n) ==
    LET sum[i \in 0 .. Len(n)] == IF i = 0 THEN 0 ELSE sum[i - 1] + (n[i] * (Base ^ (i - 1)))
    IN  sum[Len(n)]
Signed(v) == IF v >= Limit \div 2 THEN v - Limit ELSE v

Zero(n)       == [ i \in DOMAIN n |-> 0 ]
Negative(n)   == n[Len(n)] >= HighBit
Bit(n, j)     == (n[(j \div WordBits) + 1] \div (2 ^ (j % WordBits))) % 2

\* usetlow, ssetlow and sethigh into a number of twice the size, takelow and takehigh out of it.
USetLow(n)  == [ i \in 1 .. 2 * Words |-> IF i <= Words THEN n[i] ELSE 0 ]
SSetLow(n)  == [ i \in 1 .. 2 * Words |-> IF i <= Words THEN n[i] ELSE
                                          IF Negative(n) THEN Base - 1 ELSE 0 ]
SetHigh(n)  == [ i \in 1 .. 2 * Words |-> IF i <= Words THEN 0 ELSE n[i - Words] ]
TakeLow(n)  == SubSeq(n, 1, Words)
TakeHigh(n) == SubSeq(n, Words + 1, 2 * Words)

\* The highest word that differs decides.
Highest(places) == CHOOSE i \in places : \A k \in places : k <= i
Differs(a, b)   == { i \in DOMAIN a : a[i] # b[i] }
UGreater(a, b)        == Differs(a, b) # {} /\ LET i == Highest(Differs(a, b)) IN a[i] > b[i]
UGreaterOrEqual(a, b) == Differs(a, b) = {} \/ UGreater(a, b)
SGreater(a, b) ==
    /\ Differs(a, b) # {}
    /\ LET i == Highest(Differs(a, b)) IN IF a[i] > b[i] THEN ~Negative(a) ELSE Negative(b)
SGreaterOrEqual(a, b) == Differs(a, b) = {} \/ SGreater(a, b)

-----------------------------------------------------------------------------
(* Addition, subtraction and shifts.                                       *)

\* The carry out of a word, by its lower bits and then its highest.
Carry(x, y, carry) ==
    ((((x % HighBit) + (y % HighBit) + carry) \div HighBit)
       + (x \div HighBit) + (y \div HighBit)) \div 2

Borrow(x, y, borrow) ==
    LET low == IF (x % HighBit) - (y % HighBit) - borrow < 0 THEN 1 ELSE 0
    IN  (low + (y \div HighBit) - (x \div HighBit) + 1) \div 2

Add(a, b) ==
    LET carry[i \in 1 .. Len(a)] == IF i = 1 THEN 0 ELSE Carry(a[i - 1], b[i - 1], carry[i - 1])
    IN  [ i \in DOMAIN a |-> (a[i] + b[i] + carry[i]) % Base ]

Subtract(a, b) ==
    LET borrow[i \in 1 .. Len(a)] == IF i = 1 THEN 0 ELSE Borrow(a[i - 1], b[i - 1], borrow[i - 1])
    IN  [ i \in DOMAIN a |-> (a[i] - b[i] - borrow[i]) % Base ]

\* Words change up to the first that does not become, or was not, zero.
Increment(n) == [ i \in DOMAIN n |-> IF \A k \in 1 .. i - 1 : n[k] = Base - 1
                                     THEN (n[i] + 1) % Base ELSE n[i] ]
Decrement(n) == [ i \in DOMAIN n |-> IF \A k \in 1 .. i - 1 : n[k] = 0
                                     THEN (n[i] - 1) % Base ELSE n[i] ]
Negate(n)    == Increment([ i \in DOMAIN n |-> Base - 1 - n[i] ])

\* Whole words first, then the bits that are left.
ShiftLeft(n, s) ==
    LET bases == s \div WordBits
        moved == [ i \in DOMAIN n |-> IF i > bases THEN n[i - bases] ELSE 0 ]
        bits == s % WordBits
    IN  [ i \in DOMAIN n |->
            ((moved[i] * (2 ^ bits)) % Base)
              + (IF i = 1 THEN 0 ELSE moved[i - 1] \div (2 ^ (WordBits - bits))) ]

ShiftRight(n, s, filler) ==
    LET bases == s \div WordBits
        top == Len(n) - bases
        bits == s % WordBits
        moved == [ i \in 1 .. Len(n) + 1 |-> IF i <= top THEN n[i + bases] ELSE filler ]
    IN  [ i \in DOMAIN n |-> IF i > top THEN filler
            ELSE (moved[i] \div (2 ^ bits)) + ((moved[i + 1] * (2 ^ (WordBits - bits))) % Base) ]

UShiftRight(n, s) == ShiftRight(n, s, 0)
SShiftRight(n, s) == ShiftRight(n, s, IF Negative(n) THEN Base - 1 ELSE 0)

-----------------------------------------------------------------------------
(* Multiplication: a is added, shifted, for every bit that is set in b.    *)

Product(a, b) ==
    LET m[j \in 0 .. WordBits * Len(b)] ==
            IF j = 0 THEN Zero(a)
            ELSE IF Bit(b, j - 1) = 1 THEN Add(m[j - 1], ShiftLeft(a, j - 1)) ELSE m[j - 1]
    IN  m[WordBits * Len(b)]

Magnitude(n) == IF Negative(n) THEN Negate(n) ELSE n

UMultiply(a, b) == Product(USetLow(a), b)
SMultiply(a, b) ==
    LET m == Product(Magnitude(SSetLow(a)), Magnitude(b))
    IN  IF Negative(a) # Negative(b) THEN Negate(m) ELSE m

\* In place, in as many words as a has.
UMultiplyTo(a, b) == Product(a, b)
SMultiplyTo(a, b) ==
    LET m == Product(Magnitude(a), Magnitude(b))
    IN  IF Negative(a) # Negative(b) THEN Negate(m) ELSE m
USquare(a) == Product(a, a)
SSquare(a) == Product(Magnitude(a), Magnitude(a))

-----------------------------------------------------------------------------
(* Division: b is shifted up to r, and subtracted on its way back.         *)

NonZero(n) == { i \in DOMAIN n : n[i] # 0 }

RECURSIVE Raised(_, _)
Raised(state, r) ==
    IF ~Negative(state.b) /\ UGreater(r, state.b)
    THEN Raised([ b |-> ShiftLeft(state.b, 1), shifts |-> state.shifts + 1 ], r) ELSE state

RECURSIVE Lowered(_, _)
Lowered(state, r) ==
    IF UGreater(state.b, r)
    THEN Lowered([ b |-> UShiftRight(state.b, 1), shifts |-> state.shifts - 1 ], r) ELSE state

\* b below its first subtraction, and how many subtractions are tried.
Aligned(b, r) ==
    LET words == Highest(NonZero(r)) - Highest(NonZero(b))
        start == [ b |-> ShiftLeft(b, words * WordBits), shifts |-> (words * WordBits) + 1 ]
        once == [ b |-> b, shifts |-> 1 ]
    IN  CASE ~Negative(b) /\ UGreater(r, b) -> Lowered(Raised(start, r), r)
          [] UGreater(b, r) -> [ b |-> UShiftRight(b, 1), shifts |-> 0 ]
          [] OTHER -> once

RECURSIVE Subtracted(_)
Subtracted(state) ==
    IF state.shifts = 0 THEN state
    ELSE LET fits == ~UGreater(state.b, state.r)
             q == ShiftLeft(state.q, 1)
         IN  Subtracted([ shifts |-> state.shifts - 1,
                          b |-> UShiftRight(state.b, 1),
                          r |-> IF fits THEN Subtract(state.r, state.b) ELSE state.r,
                          q |-> IF fits THEN [ q EXCEPT ![1] = @ + 1 ] ELSE q ])

UDivide(a, b) ==
    LET start == Aligned(b, a)
        end == Subtracted([ shifts |-> start.shifts, b |-> start.b, r |-> a, q |-> Zero(a) ])
    IN  << end.q, end.r >>

UModulo(a, b) == UDivide(a, b)[2]

SDivide(a, b) ==
    LET d == UDivide(Magnitude(a), Magnitude(b))
    IN  << IF Negative(a) # Negative(b) THEN Negate(d[1]) ELSE d[1],
           IF Negative(a) THEN Negate(d[2]) ELSE d[2] >>

SModulo(a, b) == SDivide(a, b)[2]

-----------------------------------------------------------------------------
Operations ==
    { "compare", "add", "subtract", "step", "negate", "shift", "multiply", "multiply to",
      "square", "divide", "halves" }

Result(op, a, b) ==
    CASE op = "compare" -> << UGreater(a, b), UGreaterOrEqual(a, b), SGreater(a, b), SGreaterOrEqual(a, b) >>
      [] op = "add" -> << Add(a, b) >>
      [] op = "subtract" -> << Subtract(a, b) >>
      [] op = "step" -> << Increment(a), Decrement(a) >>
      [] op = "negate" -> << Negate(a) >>
      [] op = "shift" -> LET s == Value(b) % (BitCount + 1)
                         IN  << ShiftLeft(a, s), UShiftRight(a, s), SShiftRight(a, s) >>
      [] op = "multiply" -> << UMultiply(a, b), SMultiply(a, b) >>
      [] op = "multiply to" -> << UMultiplyTo(a, b), SMultiplyTo(a, b) >>
      [] op = "square" -> << USquare(a), SSquare(a) >>
      [] op = "divide" -> UDivide(a, b) \o SDivide(a, b)
      [] op = "halves" -> << TakeLow(USetLow(a)), TakeHigh(SetHigh(a)), TakeHigh(SSetLow(a)) >>

Init ==
    /\ big = << >>
    /\ operands = << >>

Compute(op, a, b) ==
    /\ operands = << >>
    /\ op = "divide" => b # 0
    /\ operands' = << op, a, b >>
    /\ big' = Result(op, Number(a), Number(b))

Next == \E op \in Operations, a, b \in 0 .. Limit - 1 : Compute(op, a, b)

-----------------------------------------------------------------------------
\* Division that rounds to zero.
Quotient(x, y) == LET m == IF x < 0 THEN -x ELSE x
                      d == IF y < 0 THEN -y ELSE y
                  IN  IF (x < 0) # (y < 0) THEN - (m \div d) ELSE m \div d

\* Every operation computes what its comment says, of the values unsigned and signed,
\* except the signed comparison of two negative numbers.
Faithful ==
    operands # << >> =>
    LET op == operands[1]
        a == operands[2]
        b == operands[3]
        sa == Signed(a)
        sb == Signed(b)
        s == b % (BitCount + 1)
        v(i) == Value(big[i])
    IN  CASE op = "compare" ->
               /\ big[1] = (a > b) /\ big[2] = (a >= b)
               /\ (sa >= 0 \/ sb >= 0) => big[3] = (sa > sb) /\ big[4] = (sa >= sb)
          [] op = "add" -> v(1) = (a + b) % Limit
          [] op = "subtract" -> v(1) = (a - b) % Limit
          [] op = "step" -> v(1) = (a + 1) % Limit /\ v(2) = (a - 1) % Limit
          [] op = "negate" -> v(1) = (- a) % Limit
          [] op = "shift" -> /\ v(1) = (a * (2 ^ s)) % Limit
                             /\ v(2) = a \div (2 ^ s)
                             /\ v(3) = (sa \div (2 ^ s)) % Limit
          [] op = "multiply" -> v(1) = a * b /\ v(2) = (sa * sb) % (Limit ^ 2)
          [] op = "multiply to" -> v(1) = (a * b) % Limit /\ v(2) = (sa * sb) % Limit
          [] op = "square" -> v(1) = (a * a) % Limit /\ v(2) = (sa * sa) % Limit
          [] op = "divide" ->
               /\ v(1) = a \div b /\ v(2) = a % b
               /\ v(3) = Quotient(sa, sb) % Limit
               /\ v(4) = (sa - (sb * Quotient(sa, sb))) % Limit
          [] OTHER -> v(1) = a /\ v(2) = a /\ v(3) = (IF sa < 0 THEN Limit - 1 ELSE 0)
=============================================================================
