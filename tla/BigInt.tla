--------------------------------- MODULE BigInt --------------------------------
(***************************************************************************)
(* The fixed-width integers of include/bigint.h and src/bigint.cpp over    *)
(* the storage of include/LongKey.h.                                       *)
(*                                                                         *)
(* A number is a function from 0 .. N - 1 to words of W bits, the least    *)
(* significant first.  The code's words have 64 bits; the algorithms know  *)
(* W only through wrap-around, carries and shifts, so narrow words take    *)
(* them through every case.  The module goes through pairs of numbers, and *)
(* the properties compare each operation with arithmetic modulo 2^(W * N). *)
(***************************************************************************)
EXTENDS Integers, Sequences

LOCAL INSTANCE SequencesExt

CONSTANTS W,         \* bits of a word; 64 in the code
          ByteBits,  \* bits of a byte; 8 in the code
          N,         \* words of a number
          Seconds    \* bound: the second numbers that are tried

VARIABLES x, y       \* the two operands, as numbers

bigVars == <<x, y>>

B == 2 ^ W
Modulus == B ^ N
AllNumbers == 0 .. Modulus - 1

Index == 0 .. N - 1
WordsOf(v) == [i \in Index |-> (v \div B ^ i) % B]
Val(a) == FoldLeft(LAMBDA sum, i : sum + a[i - 1] * B ^ (i - 1), 0, [i \in 1 .. N |-> i])
Zero == [i \in Index |-> 0]
Ones == [i \in Index |-> B - 1]

\* The words from, from + 1, .., N - 1 in the order of a loop.
Up(from) == [i \in 1 .. N - from |-> from + i - 1]

Shl(w, k) == (w * 2 ^ k) % B
Shr(w, k) == w \div 2 ^ k
HasBit(w, k) == Shr(w, k) % 2 = 1
WithBit(w, k) == IF HasBit(w, k) THEN w ELSE w + 2 ^ k

\* countBits of a word, and of a number.
WordBits(w) == CHOOSE k \in 0 .. W : w < 2 ^ k /\ (k > 0 => w >= 2 ^ (k - 1))
countBits(a) ==
    IF a = Zero THEN 0
    ELSE LET i == CHOOSE j \in Index : a[j] # 0 /\ \A k \in j + 1 .. N - 1 : a[k] = 0
         IN i * W + WordBits(a[i])

getBit(a, k) == HasBit(a[k \div W], k % W)
setBit(a, k) == [a EXCEPT ![k \div W] = WithBit(@, k % W)]
resetBit(a, k) == [a EXCEPT ![k \div W] = IF HasBit(@, k % W) THEN @ - 2 ^ (k % W) ELSE @]
isNegative(a) == getBit(a, N * W - 1)

----------------------------------------------------------------------------
(* Construction and comparison *)

\* From int and int64_t: the sign fills the words above the first.
FromInt(v) == [i \in Index |-> IF i = 0 THEN v % B ELSE IF v < 0 THEN B - 1 ELSE 0]

\* operator<: the highest word that differs decides.
Less(a, b) == \E i \in Index : a[i] < b[i] /\ \A j \in i + 1 .. N - 1 : a[j] = b[j]
LessEq(a, b) == Less(a, b) \/ a = b
signedLessThan(a, b) ==
    IF isNegative(a) # isNegative(b) THEN isNegative(a) ELSE Less(a, b)

\* With an int on the right.
LessInt(a, v) == v > 0 /\ (\A i \in 1 .. N - 1 : a[i] = 0) /\ a[0] < v
GreaterInt(a, v) == v < 0 \/ (\E i \in 1 .. N - 1 : a[i] # 0) \/ a[0] > v
LessEqInt(a, v) == v >= 0 /\ (\A i \in 1 .. N - 1 : a[i] = 0) /\ a[0] <= v

----------------------------------------------------------------------------
(* Addition and subtraction *)

\* (bug) The carry is found from the wrapped sum alone.
CarryOfSum(a, sum, carry) == IF sum < a THEN 1 ELSE 0

\* operator+=: did a + b + carry wrap around to sum?
Carry(a, sum, carry) == IF sum < a \/ (carry = 1 /\ sum = a) THEN 1 ELSE 0

Plus(a, b) ==
    FoldLeft(LAMBDA s, i :
                LET sum == (a[i] + b[i] + s.carry) % B IN
                [y |-> [s.y EXCEPT ![i] = sum], carry |-> Carry(a[i], sum, s.carry)],
             [y |-> Zero, carry |-> 0], Up(0)).y

\* _internalBigintFastAdd of one word to a number: operator+(int) and operator+=(int).
\* A negative int is not extended above its word.
PlusInt(a, v) ==
    FoldLeft(LAMBDA s, i :
                LET sum == a[i] + (IF i = 0 THEN v % B ELSE 0) + s.carry IN
                [y |-> [s.y EXCEPT ![i] = sum % B], carry |-> sum \div B],
             [y |-> Zero, carry |-> 0], Up(0)).y

\* _internalBigintFastSub of numbers of one size.
Minus(a, b) ==
    FoldLeft(LAMBDA s, i :
                LET diff == (a[i] - b[i] - s.borrow) % B IN
                [y |-> [s.y EXCEPT ![i] = diff],
                 borrow |-> IF diff > a[i] \/ (s.borrow = 1 /\ diff = a[i]) THEN 1 ELSE 0],
             [y |-> Zero, borrow |-> 0], Up(0)).y

Negated(a) ==
    FoldLeft(LAMBDA s, i :
                LET word == (B - 1 - a[i] + s.carry) % B IN
                [y |-> [s.y EXCEPT ![i] = word],
                 carry |-> IF s.carry = 1 /\ word = 0 THEN 1 ELSE 0],
             [y |-> Zero, carry |-> 1], Up(0)).y

----------------------------------------------------------------------------
(* Multiplication *)

\* One row of operator*: a[i] times b, added to the words of y from i on.
MulRow(out, a, b, i) ==
    FoldLeft(LAMBDA s, j :
                LET prod == a[i] * b[j - i] + s.y[j] + s.carry IN
                [y |-> [s.y EXCEPT ![j] = prod % B], carry |-> prod \div B],
             [y |-> out, carry |-> 0], Up(i)).y

Times(a, b) == FoldLeft(LAMBDA out, i : MulRow(out, a, b, i), Zero, Up(0))

\* operator*(int): the int as a double word.
TimesInt(a, v) ==
    FoldLeft(LAMBDA s, i :
                LET prod == (a[i] * (v % (B * B)) + s.carry) % (B * B) IN
                [y |-> [s.y EXCEPT ![i] = prod % B], carry |-> prod \div B],
             [y |-> Zero, carry |-> 0], Up(0)).y

\* _internalBigintFastMul of at most 32 words: the two words of each product are added
\* to a row, and the row to the result.
Product(p, at) ==
    [i \in Index |-> IF i = at THEN p % B ELSE IF i = at + 1 THEN p \div B ELSE 0]

FastMul(a, b) ==
    FoldLeft(LAMBDA out, i :
                Plus(out, FoldLeft(LAMBDA row, j : Plus(Product(a[i] * b[j - i], j), row),
                                   Zero, Up(i))),
             Zero, Up(0))

\* _internalBigintFastPow
RECURSIVE PowFrom(_, _, _)
PowFrom(out, multiplier, power) ==
    LET next == IF power % 2 = 1 THEN FastMul(out, multiplier) ELSE out IN
    IF power = 0 THEN out
    ELSE IF power = 1 THEN next
    ELSE PowFrom(next, FastMul(multiplier, multiplier), power \div 2)

Pow(a, power) == PowFrom(WordsOf(1), a, power)

----------------------------------------------------------------------------
(* _internalBigintFastDiv *)

\* Word i of d shifted left by ws words and bs bits.
ShiftedWord(d, i, ws, bs) ==
    Shl(d[i - ws], bs) + (IF bs # 0 /\ i > ws THEN Shr(d[i - ws - 1], W - bs) ELSE 0)

\* The subtraction of d << bits from r, which goes over the words that r had bits in and
\* as far as the borrow does.
SubShifted(r, d, bits, rBits) ==
    FoldLeft(LAMBDA s, i :
                LET temp == (s.r[i] - ShiftedWord(d, i, bits \div W, bits % W) - s.borrow) % B IN
                IF ~(i * W < rBits \/ s.borrow = 1) THEN s
                ELSE [r |-> [s.r EXCEPT ![i] = temp],
                      borrow |-> IF s.r[i] < temp THEN 1
                                 ELSE IF s.r[i] = temp THEN s.borrow ELSE 0],
             [r |-> r, borrow |-> 0], Up(bits \div W))

\* The addition that takes a subtraction back by half.
AddShifted(r, d, bits, rBits) ==
    FoldLeft(LAMBDA s, i :
                LET temp == (s.r[i] + ShiftedWord(d, i, bits \div W, bits % W) + s.carry) % B IN
                IF ~(i * W < rBits \/ s.carry = 1) THEN s
                ELSE [r |-> [s.r EXCEPT ![i] = temp],
                      carry |-> IF s.r[i] > temp THEN 1
                                ELSE IF s.r[i] = temp THEN s.carry ELSE 0],
             [r |-> r, carry |-> 0], Up(bits \div W)).r

\* The heuristic that shifts one bit less.  Where the shift is by whole words it shifts a
\* word by its own width, which is undefined; wrap says whether it gives the word or 0.
TooMuch(r, d, bits, wrap) ==
    LET top == d[(countBits(d) - 1) \div W]
        shifted == IF bits % W # 0 THEN Shr(top, W - (bits % W)) ELSE IF wrap THEN top ELSE 0
    IN bits > 0 /\ r[(countBits(r) - 1) \div W] < shifted

\* A subtraction that borrowed was of twice too much.
BitTaken(bits, borrow) == bits - borrow

RECURSIVE DivFrom(_, _, _, _)
DivFrom(r, d, q, wrap) ==
    LET rBits == countBits(r)
        all == rBits - countBits(d)
        bits == IF TooMuch(r, d, all, wrap) THEN all - 1 ELSE all
        sub == SubShifted(r, d, bits, rBits)
        left == IF sub.borrow = 1 THEN AddShifted(sub.r, d, bits - 1, rBits) ELSE sub.r
    IN IF all < 0 \/ (all = 0 /\ Less(r, d)) THEN [q |-> q, r |-> r]
       ELSE DivFrom(left, d, setBit(q, BitTaken(bits, sub.borrow)), wrap)

\* The quotient and the remainder.  Division by zero gives zeros.
FastDiv(a, d, wrap) ==
    IF d = Zero THEN [q |-> Zero, r |-> Zero] ELSE DivFrom(a, d, Zero, wrap)

Magnitude(a) == IF isNegative(a) THEN Negated(a) ELSE a

sdiv(a, d, wrap) ==
    LET q == FastDiv(Magnitude(a), Magnitude(d), wrap).q IN
    IF d = Zero THEN Zero
    ELSE IF isNegative(a) # isNegative(d) THEN Negated(q) ELSE q

smod(a, d, wrap) ==
    LET r == FastDiv(Magnitude(a), Magnitude(d), wrap).r IN
    IF d = Zero THEN Zero
    ELSE IF isNegative(a) /\ r # Zero THEN Negated(r) ELSE r

----------------------------------------------------------------------------
(* _internalBigintFastSmallRoot: eight steps of Newton's method at most. *)

RECURSIVE NewtonFrom(_, _, _, _)
NewtonFrom(a, r, root, steps) ==
    LET p == Pow(r, root - 1)
        sum == Plus(TimesInt(r, root - 1), FastDiv(a, p, TRUE).q)
        next == FastDiv(sum, WordsOf(root), TRUE).q
    IN IF steps = 0 \/ p = Zero \/ Less(r, next) THEN r
       ELSE NewtonFrom(a, next, root, steps - 1)

SmallRoot(a, root) ==
    IF countBits(a) <= 1 THEN a
    ELSE NewtonFrom(a, setBit(Zero, countBits(a) \div root + 1), root, 8)

----------------------------------------------------------------------------
(* Bytes and digits: the conversions of LongKey.  A byte is two digits. *)

Digit == 2 ^ (ByteBits \div 2)
NBytes == (N * W) \div ByteBits

\* rawBytes
Byte(a, k) == (a[(k * ByteBits) \div W] \div 2 ^ ((k * ByteBits) % W)) % 2 ^ ByteBits
OfBytes(bytes) ==
    [i \in Index |-> FoldLeft(LAMBDA sum, k :
                        sum + bytes[(i * W) \div ByteBits + k - 1] * 2 ^ (ByteBits * (k - 1)),
                        0, [k \in 1 .. W \div ByteBits |-> k])]

\* LongKey(buffer, nBytes, isBigEndian): bytes that are not given are 0.
FromBytes(buffer, isBigEndian) ==
    LET n == IF Len(buffer) > NBytes THEN NBytes ELSE Len(buffer) IN
    OfBytes([k \in 0 .. NBytes - 1 |->
                IF k >= n THEN 0
                ELSE IF isBigEndian THEN buffer[n - k] ELSE buffer[k + 1]])

toBytes(a, isBigEndian) ==
    [k \in 1 .. NBytes |-> Byte(a, IF isBigEndian THEN NBytes - k ELSE k - 1)]

\* LongKey(const char*): the digits after an "0x".  An odd first digit is a byte of its own
\* where there is room for it; of digits too many the last are not read.
FromHex(digits) ==
    LET n == IF Len(digits) \div 2 >= NBytes THEN NBytes ELSE Len(digits) \div 2
        alone == Len(digits) % 2 = 1 /\ n < NBytes
        rest == IF alone THEN Tail(digits) ELSE digits
    IN OfBytes([k \in 0 .. NBytes - 1 |->
                  IF k = n /\ alone THEN digits[1]
                  ELSE IF k >= n THEN 0
                  ELSE rest[2 * (n - k) - 1] * Digit + rest[2 * (n - k)]])

\* operator std::string: the digits without the zeros in front, but one.
ToHex(a) ==
    LET all == FoldLeft(LAMBDA s, k : <<Byte(a, k) \div Digit, Byte(a, k) % Digit>> \o s,
                        <<>>, [k \in 1 .. NBytes |-> k - 1])
        zeros == CHOOSE z \in 0 .. Len(all) - 1 :
                    /\ \A j \in 1 .. z : all[j] = 0
                    /\ z < Len(all) - 1 => all[z + 1] # 0
    IN SubSeq(all, zeros + 1, Len(all))

----------------------------------------------------------------------------
(* Shifts *)

\* operator<<=
ShiftedLeft(a, n) ==
    LET ws == n \div W  bs == n % W IN
    IF n = 0 THEN a
    ELSE IF n >= N * W THEN Zero
    ELSE [i \in Index |->
            IF i < ws THEN 0
            ELSE Shl(a[i - ws], bs)
                 + (IF bs # 0 /\ i - ws - 1 >= 0 THEN Shr(a[i - ws - 1], W - bs) ELSE 0)]

\* operator>>=, in place from the lowest word up.
ShiftedRight(a, n) ==
    LET ws == n \div W  bs == n % W
        moved == FoldLeft(LAMBDA z, i :
                    [z EXCEPT ![i - ws] = Shr(z[i], bs)
                        + (IF bs # 0 /\ i + 1 < N THEN Shl(z[i + 1], W - bs) ELSE 0)],
                    a, Up(ws))
    IN IF n = 0 THEN a
       ELSE IF n >= N * W THEN Zero
       ELSE [i \in Index |-> IF i >= N - ws THEN 0 ELSE moved[i]]

\* sar: whole bytes are copied, other distances go word by word.
Sar(a, n) ==
    LET ws == n \div W  bs == n % W IN
    IF n = 0 THEN a
    ELSE IF ~isNegative(a) THEN ShiftedRight(a, n)
    ELSE IF n + 1 >= N * W THEN Ones
    ELSE IF n % ByteBits = 0
    THEN OfBytes([k \in 0 .. NBytes - 1 |->
                    IF k + (n \div ByteBits) < NBytes THEN Byte(a, k + (n \div ByteBits))
                    ELSE 2 ^ ByteBits - 1])
    ELSE [i \in Index |->
            IF i + ws >= N THEN B - 1
            ELSE Shr(a[i + ws], bs)
                 + (IF i + ws + 1 < N THEN Shl(a[i + ws + 1], W - bs)
                    ELSE Shl(B - 1, W - bs))]

----------------------------------------------------------------------------

BigInit == x = 0 /\ y \in Seconds

\* The program goes on to other operands.
operands ==
    /\ x < Modulus - 1
    /\ x' = x + 1
    /\ UNCHANGED y

BigNext == operands

----------------------------------------------------------------------------
(* Properties *)

Signed(v) == IF v < Modulus \div 2 THEN v ELSE v - Modulus

\* Truncated division, as that of the machine's signed integers.
Quotient(u, v) == IF (u < 0) = (v < 0) THEN (IF u < 0 THEN -u ELSE u) \div (IF v < 0 THEN -v ELSE v)
                  ELSE -((IF u < 0 THEN -u ELSE u) \div (IF v < 0 THEN -v ELSE v))

FirstOperand == WordsOf(x)
SecondOperand == WordsOf(y)

\* Carries and borrows go through all words: sums, differences, negation, products,
\* powers and comparisons are those of the numbers, modulo 2^(W * N).
ArithmeticRight ==
    /\ Plus(FirstOperand, SecondOperand) = WordsOf((x + y) % Modulus)
    /\ Minus(FirstOperand, SecondOperand) = WordsOf((x - y) % Modulus)
    /\ Negated(FirstOperand) = WordsOf((-x) % Modulus)
    /\ Times(FirstOperand, SecondOperand) = WordsOf((x * y) % Modulus)
    /\ FastMul(FirstOperand, SecondOperand) = Times(FirstOperand, SecondOperand)
    /\ Pow(FirstOperand, 2) = WordsOf((x * x) % Modulus)
    /\ Pow(FirstOperand, 3) = WordsOf((((x * x) % Modulus) * x) % Modulus)
    /\ Less(FirstOperand, SecondOperand) <=> x < y
    /\ LessEq(FirstOperand, SecondOperand) <=> x <= y
    /\ signedLessThan(FirstOperand, SecondOperand) <=> Signed(x) < Signed(y)
    /\ \A v \in -3 .. 3 :
          /\ FromInt(v) = WordsOf(v % Modulus)
          /\ LessInt(FirstOperand, v) <=> x < v
          /\ GreaterInt(FirstOperand, v) <=> x > v
          /\ LessEqInt(FirstOperand, v) <=> x <= v
          /\ v >= 0 => /\ PlusInt(FirstOperand, v) = WordsOf((x + v) % Modulus)
                       /\ TimesInt(FirstOperand, v) = WordsOf((x * v) % Modulus)

\* The long division finds the quotient and the remainder, whatever its heuristic and its
\* corrections do; signed division truncates and the remainder has the dividend's sign.
DivisionRight ==
    \A wrap \in BOOLEAN :
        IF y = 0
        THEN FastDiv(FirstOperand, SecondOperand, wrap) = [q |-> Zero, r |-> Zero] /\ sdiv(FirstOperand, SecondOperand, wrap) = Zero
        ELSE /\ FastDiv(FirstOperand, SecondOperand, wrap) = [q |-> WordsOf(x \div y), r |-> WordsOf(x % y)]
             /\ sdiv(FirstOperand, SecondOperand, wrap) = WordsOf(Quotient(Signed(x), Signed(y)) % Modulus)
             /\ smod(FirstOperand, SecondOperand, wrap) =
                  WordsOf((Signed(x) - Quotient(Signed(x), Signed(y)) * Signed(y)) % Modulus)

\* Shifts by every distance, and the bits that get and set name.
ShiftsRight ==
    \A n \in 0 .. N * W + 1 :
        /\ ShiftedLeft(FirstOperand, n) = WordsOf((x * 2 ^ n) % Modulus)
        /\ ShiftedRight(FirstOperand, n) = WordsOf(x \div 2 ^ n)
        /\ Sar(FirstOperand, n) = WordsOf((Signed(x) \div 2 ^ n) % Modulus)
        /\ n < N * W => /\ getBit(setBit(FirstOperand, n), n) /\ ~getBit(resetBit(FirstOperand, n), n)
                        /\ Val(setBit(FirstOperand, n)) - Val(resetBit(FirstOperand, n)) = 2 ^ n
                        /\ x < 2 ^ n <=> countBits(FirstOperand) <= n

\* Small roots of small numbers are rounded down.  The first guess's power must not
\* overflow, which it cannot with words of 64 bits and roots below 7.
RootsRight ==
    \A root \in 2 .. 4 :
        (root - 1) * ((countBits(FirstOperand) \div root) + 1) < N * W =>
        LET r == Val(SmallRoot(FirstOperand, root)) IN r ^ root <= x /\ x < (r + 1) ^ root

\* What is written is read back, from bytes in either order and from digits, with zeros in
\* front of them or without.
ConversionsRight ==
    LET digits(n) == [j \in 1 .. n |-> (x \div Digit ^ (n - j)) % Digit] IN
    /\ \A e \in BOOLEAN : FromBytes(toBytes(FirstOperand, e), e) = FirstOperand
    /\ \A n \in 1 .. 2 * NBytes : x < Digit ^ n =>
          /\ FromHex(digits(n)) = FirstOperand
          /\ n % 2 = 0 => FromBytes([k \in 1 .. n \div 2 |-> Byte(FirstOperand, n \div 2 - k)], TRUE) = FirstOperand
    /\ FromHex(ToHex(FirstOperand)) = FirstOperand
    /\ Len(ToHex(FirstOperand)) > 1 => ToHex(FirstOperand)[1] # 0

\* All of these.
NumbersRight == ConversionsRight /\ ArithmeticRight /\ DivisionRight /\ ShiftsRight /\ RootsRight
=============================================================================
