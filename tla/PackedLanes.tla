------------------------------- MODULE PackedLanes -----------------------------
(***************************************************************************)
(* Arrays of bits (BINARY) and of three bit integers (INT3), many lanes to *)
(* a word: src/ndarray_int3.h, the bit operations and the masks of         *)
(* src/NDArray.cpp, and the scores of packed arrays in                     *)
(* src/ndarray_score.cpp.                                                  *)
(*                                                                         *)
(* An INT3 lane is a nibble: three bits of value and a pad bit that is 0.  *)
(* One addition or subtraction works on a whole word at once.  The module  *)
(* goes through lengths and contents of two arrays.                        *)
(***************************************************************************)
EXTENDS Lanes, FiniteSets, Bitwise

CONSTANTS Nibbles,      \* INT3 lanes of a word: 16 in the code.  Even
          Bits,         \* bits of a BINARY word: 64 in the code
          Block,        \* words of a vector: 8 in the code
          MaxPacked,    \* bound: the longest array
          Seeds         \* bound: contents that are tried

VARIABLES packed    \* [n, seed, dirty, avx]: two arrays of n lanes

packedVars == <<packed>>

----------------------------------------------------------------------------
(* INT3 words *)

\* int3_splatWord
Splat(p) == SumTo([k \in 0 .. Nibbles - 1 |-> (p % 8) * 16 ^ k], Nibbles)
ValueMask == Splat(7)
PadMask == 8 * Splat(1)
SignBias == Splat(4)

int3_decode(t) == IF t % 8 >= 4 THEN (t % 8) - 8 ELSE t % 8
int3_encode(v) == v % 8

int3_wordCount(n) == (n + Nibbles - 1) \div Nibbles
Words(n) == 0 .. int3_wordCount(n) - 1

Lane(word, k) == (word \div 16 ^ k) % 8
int3_get(words, i) == Lane(words[i \div Nibbles], i % Nibbles)
int3_set(words, i, p) ==
    LET s == 16 ^ (i % Nibbles) IN
    [words EXCEPT ![i \div Nibbles] = @ - ((@ \div s) % 16) * s + (p % 8) * s]

addWord(a, b) == (a + b) & ValueMask

subWord(a, b) == ((a | PadMask) - b) & ValueMask

\* The lanes in which x >= y, as values of all ones.  Both have clear pad bits.
GreaterEqual(x, y) ==
    LET bit == (((x | PadMask) - y) & PadMask) \div 8
        two == bit | (2 * bit)
    IN two | (4 * two)

Choose(pickA, a, b) == (a & pickA) | (b & (((16 ^ Nibbles - 1) - pickA) & ValueMask))

minWord(a, b) ==
    LET x == a & ValueMask  y == b & ValueMask
    IN Choose(GreaterEqual(y ^^ SignBias, x ^^ SignBias), x, y)
maxWord(a, b) ==
    LET x == a & ValueMask  y == b & ValueMask
    IN Choose(GreaterEqual(x ^^ SignBias, y ^^ SignBias), x, y)

\* int3_kMulTable and int3_kDivTable, at a + 8 * b
MulTable == << 0,0,0,0,0,0,0,0,  0,1,2,3,4,5,6,7,  0,2,4,6,0,2,4,6,  0,3,6,1,4,7,2,5,
               0,4,0,4,0,4,0,4,  0,5,2,7,4,1,6,3,  0,6,4,2,0,6,4,2,  0,7,6,5,4,3,2,1 >>
DivTable == << 0,0,0,0,0,0,0,0,  0,1,2,3,4,5,6,7,  0,0,1,1,6,7,7,0,  0,0,0,1,7,7,0,0,
               0,0,0,0,1,0,0,0,  0,0,0,7,1,1,0,0,  0,0,7,7,2,1,1,0,  0,7,6,5,4,3,2,1 >>

TableAt(table, a, b) == table[a + 8 * b + 1]

int3_clearPadding(words, n) ==
    [w \in DOMAIN words |->
        IF (w + 1) * Nibbles > n THEN words[w] % 16 ^ Max2(n - w * Nibbles, 0) ELSE words[w]]

\* The words of int3_add, int3_addInto and int3_addScalar, in vectors or one by one
addWords(a, b, n, avx) ==
    int3_clearPadding(
        Written([w \in Words(n) |-> addWord(a[w] & ValueMask, b[w] & ValueMask)],
                int3_wordCount(n), IF avx THEN <<Block, 1>> ELSE <<1>>), n)
subWords(a, b, n, avx) ==
    int3_clearPadding(
        Written([w \in Words(n) |-> subWord(a[w] & ValueMask, b[w] & ValueMask)],
                int3_wordCount(n), IF avx THEN <<Block, 1>> ELSE <<1>>), n)

\* A word through a table: the low and the high nibbles of its bytes, put together again
ByTable(table, a, b) ==
    LET low == [k \in 0 .. Nibbles - 1 |-> IF k % 2 = 0 THEN TableAt(table, Lane(a, k), Lane(b, k)) ELSE 0]
        high == [k \in 0 .. Nibbles - 1 |-> IF k % 2 = 1 THEN TableAt(table, Lane(a, k), Lane(b, k)) ELSE 0]
    IN SumTo([k \in 0 .. Nibbles - 1 |-> low[k] * 16 ^ k], Nibbles)
         | SumTo([k \in 0 .. Nibbles - 1 |-> high[k] * 16 ^ k], Nibbles)

\* Vectors first, then lane by lane into what dst holds.
tableApply(dst, a, b, n, table, avx) ==
    LET vectors == IF avx THEN Left(int3_wordCount(n), <<Block>>) ELSE 0
        first == vectors * Nibbles
        start == [w \in Words(n) |-> IF w < vectors THEN ByTable(table, a[w], b[w]) ELSE dst[w]]
        s[i \in first .. Max2(first, n)] ==
            IF i = first THEN start
            ELSE int3_set(s[i - 1], i - 1, TableAt(table, int3_get(a, i - 1), int3_get(b, i - 1)))
    IN int3_clearPadding(s[Max2(first, n)], n)

\* The portable way into another array goes word by word.
tableApplyInto(a, b, n, table, avx) ==
    IF avx THEN tableApply([w \in Words(n) |-> 0], a, b, n, table, TRUE)
    ELSE int3_clearPadding([w \in Words(n) |-> ByTable(table, a[w], b[w])], n)

Divides(b, n) == \A i \in 0 .. n - 1 : int3_get(b, i) # 0
Rejected == [w \in {} |-> 0]

int3_div(a, b, n, avx) ==
    IF Divides(b, n) THEN tableApply(a, a, b, n, DivTable, avx) ELSE Rejected
int3_divInto(a, b, n, avx) ==
    IF Divides(b, n) THEN tableApplyInto(a, b, n, DivTable, avx) ELSE Rejected

int3_neg(a, n) ==
    int3_clearPadding([w \in Words(n) |-> subWord(0, a[w] & ValueMask)], n)
int3_min(a, b, n) == int3_clearPadding([w \in Words(n) |-> minWord(a[w], b[w])], n)
int3_max(a, b, n) == int3_clearPadding([w \in Words(n) |-> maxWord(a[w], b[w])], n)

SplatOf(p, n) == [w \in Words(n) |-> Splat(p)]
byScalar(a, p, n, table) ==
    LET s[i \in 0 .. n] ==
            IF i = 0 THEN a ELSE int3_set(s[i - 1], i - 1, TableAt(table, int3_get(s[i - 1], i - 1), p))
    IN int3_clearPadding(s[n], n)

----------------------------------------------------------------------------
(* BINARY words *)

binaryGet(words, i) == (words[i \div Bits] \div 2 ^ (i % Bits)) % 2
binarySet(words, i, bit) ==
    IF bit = 1 THEN [words EXCEPT ![i \div Bits] = @ | 2 ^ (i % Bits)]
    ELSE [words EXCEPT ![i \div Bits] = @ & ((2 ^ Bits - 1) - 2 ^ (i % Bits))]

BinaryWords(n) == 0 .. (n + Bits - 1) \div Bits - 1
\* What of word w belongs to an array of n bits.
Mask(w, n) == IF (w + 1) * Bits <= n THEN 2 ^ Bits - 1 ELSE 2 ^ (n % Bits) - 1

BitOp(op, a, b) == CASE op = "And" -> a & b [] op = "Or" -> a | b [] op = "Xor" -> a ^^ b

ndBinaryBitOpWords(a, b, n, op) ==
    [w \in BinaryWords(n) |-> BitOp(op, a[w], b[w]) & Mask(w, n)]
ndBinaryBitOpInPlace(dst, src, n, op) ==
    [w \in BinaryWords(n) |-> BitOp(op, dst[w] & Mask(w, n), src[w] & Mask(w, n)) & Mask(w, n)]

binaryFillOnes(n) == [w \in BinaryWords(n) |-> Mask(w, n)]
binaryInvertInPlace(a, n) == [w \in BinaryWords(n) |-> ((2 ^ Bits - 1) - a[w]) & Mask(w, n)]

\* A word at a time from what holds of each lane: nonzero*ToBinary and classify*ToBinary.
PackWord(is, base, count) ==
    SumTo([j \in 0 .. count - 1 |-> IF is[base + j] THEN 2 ^ j ELSE 0], count)
Pack(is, n) == [w \in BinaryWords(n) |-> PackWord(is, w * Bits, Min2(n - w * Bits, Bits))]

nonzeroInt3ToBinary(a, n) == Pack([i \in 0 .. n - 1 |-> int3_get(a, i) # 0], n)

\* Floats of one sign bit, two of exponent and two of fraction: the sign is left out, then
\* only the order counts.
InfinityBits == 12
Classes == {"Finite", "Infinite", "NaN"}
Matches(u, class) ==
    LET abs == u % 16
    IN CASE class = "Finite" -> abs < InfinityBits
         [] class = "Infinite" -> abs = InfinityBits
         [] class = "NaN" -> abs > InfinityBits

\* isFinite, isInfinite and isNaN of floats, and of what is no float
classifyToBinary(f, n, class) == Pack([i \in 0 .. n - 1 |-> Matches(f[i], class)], n)
classifyIntegers(n, class) ==
    IF class = "Finite" THEN binaryFillOnes(n) ELSE [w \in BinaryWords(n) |-> 0]

asBinary(type, a, n) ==
    CASE type = "BINARY" -> a
      [] type = "INT3" -> nonzeroInt3ToBinary(a, n)
      [] type = "F32" -> Pack([i \in 0 .. n - 1 |-> a[i] % 16 # 0], n)

logicalNot(type, a, n) == binaryInvertInPlace(asBinary(type, a, n), n)

\* operator&, operator&&, logicalAnd, operator&= and those of Or and Xor
Logical(t, a, u, b, n, op) ==
    IF t = "BINARY" /\ u = "BINARY" THEN ndBinaryBitOpWords(a, b, n, op)
    ELSE ndBinaryBitOpInPlace(asBinary(t, a, n), asBinary(u, b, n), n, op)

logicalWithScalar(t, a, n, op, other) ==
    CASE op = "And" -> IF other THEN asBinary(t, a, n) ELSE [w \in BinaryWords(n) |-> 0]
      [] op = "Or" -> IF other THEN binaryFillOnes(n) ELSE asBinary(t, a, n)
      [] op = "Xor" -> IF other THEN logicalNot(t, a, n) ELSE asBinary(t, a, n)

----------------------------------------------------------------------------
(* any, all and countNonzero *)

anyBinary(a, n) == \E w \in BinaryWords(n) : (a[w] & Mask(w, n)) # 0
allBinary(a, n) == \A w \in BinaryWords(n) : (a[w] & Mask(w, n)) = Mask(w, n)

anyInt3(a, n) ==
    LET full == n \div Nibbles IN
    \/ \E w \in 0 .. full - 1 : (a[w] & ValueMask) # 0
    \/ \E i \in full * Nibbles .. n - 1 : int3_get(a, i) # 0
allInt3(a, n) == \A i \in 0 .. n - 1 : int3_get(a, i) # 0

\* all() of bytes, three at a time here and of three bits: a byte of a chunk is zero exactly
\* when the subtraction of ones makes a high bit that was not there.
HasZero(chunk) ==
    LET ones == 1 + 8 + 64  high == 4 * ones
    IN ((((chunk + 512) - ones) % 512) & (511 - chunk) & high) # 0
allBytes(f, n) ==
    LET done == Left(n, <<3>>) IN
    /\ \A c \in 0 .. done \div 3 - 1 : ~HasZero(f[3 * c] + 8 * f[3 * c + 1] + 64 * f[3 * c + 2])
    /\ \A i \in done .. n - 1 : f[i] # 0
anyBytes(f, n) ==
    LET done == Left(n, <<3>>) IN
    \/ \E c \in 0 .. done \div 3 - 1 : f[3 * c] + 8 * f[3 * c + 1] + 64 * f[3 * c + 2] # 0
    \/ \E i \in done .. n - 1 : f[i] # 0

popcnt(x) == SumTo([k \in 0 .. 15 |-> (x \div 2 ^ k) % 2], 16)

\* All words of the memory.
countBinary(a) == SumTo([w \in DOMAIN a |-> popcnt(a[w])], Cardinality(DOMAIN a))

countInt3(a) ==
    LET three == Splat(3)
        Fold(x) == LET y == (x & three) | ((x \div 4) & three)
                   IN (y & Splat(1)) | ((y \div 2) & Splat(1))
    IN SumTo([w \in DOMAIN a |-> popcnt(Fold(a[w]))], Cardinality(DOMAIN a))

----------------------------------------------------------------------------
(* Scores of packed arrays *)

ScoreOps == {"Dot", "L2Self", "L2Pair"}
ScoreTerm(op, x, y) ==
    CASE op = "Dot" -> x * y [] op = "L2Self" -> x * x [] op = "L2Pair" -> (x - y) * (x - y)

int3_scalar(a, oa, b, ob, n, op) ==
    SumTo([i \in 0 .. n - 1 |->
             ScoreTerm(op, int3_decode(int3_get(a, oa + i)), int3_decode(int3_get(b, ob + i)))], n)

\* The even and the odd nibbles of a word, a byte each, one after another
unpackWord(word) ==
    LET bytes == 15 * SumTo([k \in 0 .. Nibbles \div 2 - 1 |-> 256 ^ k], Nibbles \div 2)
        evens == word & bytes
        odds == (word \div 16) & bytes
    IN [k \in 0 .. Nibbles - 1 |->
          int3_decode(((IF k % 2 = 0 THEN evens ELSE odds) \div 256 ^ (k \div 2)) % 256)]

int3_words(a, from, b, start, n, op) ==
    LET Part(word, w) == IF (w + 1) * Nibbles <= n THEN word ELSE word & (16 ^ (n % Nibbles) - 1)
        Sum(w) == LET x == unpackWord(Part(a[from + w], w))  y == unpackWord(Part(b[start + w], w))
                  IN SumTo([k \in 0 .. Nibbles - 1 |-> ScoreTerm(op, x[k], y[k])], Nibbles)
    IN SumTo([w \in Words(n) |-> Sum(w)], int3_wordCount(n))

ndscore_int3_i64(a, oa, b, ob, n, op) ==
    IF oa % Nibbles # 0 \/ ob % Nibbles # 0 THEN int3_scalar(a, oa, b, ob, n, op)
    ELSE int3_words(a, oa \div Nibbles, b, ob \div Nibbles, n, op)

BinaryTerm(op, x, y) == CASE op = "Dot" -> x & y [] op = "L2Self" -> x [] op = "L2Pair" -> x ^^ y

binary_scalar_bits(a, oa, b, ob, n, op) ==
    SumTo([i \in 0 .. n - 1 |-> BinaryTerm(op, binaryGet(a, oa + i), binaryGet(b, ob + i))], n)

\* Whole words in vectors, then four at a time, then one by one with a mask on the last.
binary_words_pop(a, from, b, start, n, op, vector) ==
    LET words == (n + Bits - 1) \div Bits
        whole == n \div Bits
        T(w) == BinaryTerm(op, a[from + w], b[start + w])
        v == Left(whole, <<vector>>)
        four == Left(whole, <<vector, 4>>)
        sum4[q \in 0 .. 3] == SumTo([w \in 0 .. four - 1 |->
                                        IF w >= v /\ (w - v) % 4 = q THEN popcnt(T(w)) ELSE 0], four)
    IN SumTo([w \in 0 .. v - 1 |-> popcnt(T(w))], v)
         + (sum4[0] + sum4[1]) + (sum4[2] + sum4[3])
         + SumTo([k \in 0 .. words - four - 1 |-> popcnt(T(four + k) & Mask(four + k, n))],
                 words - four)

ndscore_binary_i64(a, oa, b, ob, n, op, vector) ==
    IF oa % Bits # 0 \/ (op # "L2Self" /\ ob % Bits # 0)
    THEN binary_scalar_bits(a, oa, b, ob, n, op)
    ELSE binary_words_pop(a, oa \div Bits, b, ob \div Bits, n, op, vector)

----------------------------------------------------------------------------

PackedInit == packed \in [n : {0}, seed : Seeds, dirty : BOOLEAN, avx : BOOLEAN]

MoreLanes == packed.n < MaxPacked /\ packed' = [packed EXCEPT !.n = @ + 1]

PackedNext == MoreLanes

----------------------------------------------------------------------------
(* Properties *)

\* Lane i of the two arrays; what lies behind them and in the pad bits when they are dirty
\* (memory that a caller wrapped).
Pair(i) == (packed.seed * 5 + i * 13) % 64
ValueA(i) == IF i < packed.n \/ packed.dirty THEN Pair(i) % 8 ELSE 0
ValueB(i) == IF i < packed.n \/ packed.dirty THEN Pair(i) \div 8 ELSE 0
Dirt == IF packed.dirty THEN PadMask ELSE 0
Int3A == [w \in Words(packed.n) |->
            Dirt + SumTo([k \in 0 .. Nibbles - 1 |-> ValueA(w * Nibbles + k) * 16 ^ k], Nibbles)]
Int3B == [w \in Words(packed.n) |->
            Dirt + SumTo([k \in 0 .. Nibbles - 1 |-> ValueB(w * Nibbles + k) * 16 ^ k], Nibbles)]
BinaryA == [w \in BinaryWords(packed.n) |->
              SumTo([k \in 0 .. Bits - 1 |-> (ValueA(w * Bits + k) % 2) * 2 ^ k], Bits)]
BinaryB == [w \in BinaryWords(packed.n) |->
              SumTo([k \in 0 .. Bits - 1 |-> (ValueB(w * Bits + k) % 2) * 2 ^ k], Bits)]

SignedA == [i \in 0 .. packed.n - 1 |-> int3_decode(ValueA(i))]
SignedB == [i \in 0 .. packed.n - 1 |-> int3_decode(ValueB(i))]

\* An array that holds f, lane for lane, with pad bits and the rest of its last word clear.
HoldsLanes(words, f) ==
    words = [w \in Words(packed.n) |->
               SumTo([k \in 0 .. Nibbles - 1 |->
                        IF w * Nibbles + k < packed.n THEN (f[w * Nibbles + k] % 8) * 16 ^ k ELSE 0],
                     Nibbles)]
HoldsBits(words, f) ==
    words = [w \in BinaryWords(packed.n) |->
               SumTo([k \in 0 .. Bits - 1 |->
                        IF w * Bits + k < packed.n /\ f[w * Bits + k] THEN 2 ^ k ELSE 0], Bits)]

TowardZero(x, y) ==
    LET p == IF x < 0 THEN -x ELSE x  q == IF y < 0 THEN -y ELSE y
    IN IF (x < 0) = (y < 0) THEN p \div q ELSE -(p \div q)

LanesOf(n) == 0 .. n - 1

\* Arithmetic on whole words is arithmetic of the lanes, modulo eight: nothing is carried
\* from one lane into the next, and nothing is left in the padding.
Int3Right ==
    LET n == packed.n  I == LanesOf(n)  avx == packed.avx IN
    /\ HoldsLanes(addWords(Int3A, Int3B, n, avx), [i \in I |-> SignedA[i] + SignedB[i]])
    /\ HoldsLanes(subWords(Int3A, Int3B, n, avx), [i \in I |-> SignedA[i] - SignedB[i]])
    /\ HoldsLanes(addWords(Int3A, SplatOf(5, n), n, FALSE), [i \in I |-> SignedA[i] + 5])
    /\ HoldsLanes(int3_neg(Int3A, n), [i \in I |-> -SignedA[i]])
    /\ HoldsLanes(int3_min(Int3A, Int3B, n), [i \in I |-> Min2(SignedA[i], SignedB[i])])
    /\ HoldsLanes(int3_max(Int3A, Int3B, n), [i \in I |-> Max2(SignedA[i], SignedB[i])])
    /\ \A product \in {tableApply(Int3A, Int3A, Int3B, n, MulTable, avx),
                       tableApplyInto(Int3A, Int3B, n, MulTable, avx)} :
          HoldsLanes(product, [i \in I |-> SignedA[i] * SignedB[i]])
    /\ \A quotient \in {int3_div(Int3A, Int3B, n, avx), int3_divInto(Int3A, Int3B, n, avx)} :
          IF \E i \in I : SignedB[i] = 0 THEN quotient = Rejected
          ELSE HoldsLanes(quotient, [i \in I |-> TowardZero(SignedA[i], SignedB[i])])
    /\ \A p \in 1 .. 7 :
          /\ HoldsLanes(byScalar(Int3A, p, n, MulTable), [i \in I |-> SignedA[i] * p])
          /\ HoldsLanes(byScalar(Int3A, p, n, DivTable),
                   [i \in I |-> TowardZero(SignedA[i], int3_decode(p))])

\* The truth of each lane, whatever lies behind the last one, and only that.
MasksRight ==
    LET n == packed.n  I == LanesOf(n)
        T(t) == IF t = "BINARY" THEN BinaryA ELSE IF t = "INT3" THEN Int3A
                ELSE [i \in I |-> Pair(i) % 32]
        U(t) == IF t = "BINARY" THEN BinaryB ELSE IF t = "INT3" THEN Int3B
                ELSE [i \in I |-> Pair(i) \div 4]
        Is(t, i) == IF t = "BINARY" THEN ValueA(i) % 2 = 1 ELSE IF t = "INT3" THEN ValueA(i) # 0
                    ELSE Pair(i) % 16 # 0
        Are(t, i) == IF t = "BINARY" THEN ValueB(i) % 2 = 1 ELSE IF t = "INT3" THEN ValueB(i) # 0
                     ELSE (Pair(i) \div 4) % 16 # 0
        Truth(op, p, q) == CASE op = "And" -> p /\ q [] op = "Or" -> p \/ q [] op = "Xor" -> p # q
        Types == {"BINARY", "INT3", "F32"}
    IN /\ \A t, u \in Types, op \in {"And", "Or", "Xor"} :
             HoldsBits(Logical(t, T(t), u, U(u), n, op), [i \in I |-> Truth(op, Is(t, i), Are(u, i))])
       /\ \A t \in Types : HoldsBits(logicalNot(t, T(t), n), [i \in I |-> ~Is(t, i)])
       /\ \A t \in Types, op \in {"And", "Or", "Xor"}, other \in BOOLEAN :
             t # "BINARY" \/ ~packed.dirty =>
                 HoldsBits(logicalWithScalar(t, T(t), n, op, other),
                           [i \in I |-> Truth(op, Is(t, i), other)])
       /\ \A i \in I :
             {class \in Classes : binaryGet(classifyToBinary(T("F32"), n, class), i) = 1}
                = {IF (T("F32")[i] \div 4) % 4 < 3 THEN "Finite"
                   ELSE IF T("F32")[i] % 4 = 0 THEN "Infinite" ELSE "NaN"}
       /\ anyBinary(BinaryA, n) = \E i \in I : Is("BINARY", i)
       /\ allBinary(BinaryA, n) = \A i \in I : Is("BINARY", i)
       /\ anyInt3(Int3A, n) = \E i \in I : Is("INT3", i)
       /\ allInt3(Int3A, n) = \A i \in I : Is("INT3", i)
       /\ allBytes([i \in I |-> ValueA(i)], n) = \A i \in I : ValueA(i) # 0
       /\ anyBytes([i \in I |-> ValueA(i)], n) = \E i \in I : ValueA(i) # 0
       /\ ~packed.dirty =>
             /\ countBinary(BinaryA) = Cardinality({i \in I : Is("BINARY", i)})
             /\ countInt3(Int3A) = Cardinality({i \in I : Is("INT3", i)})

\* A score does not depend on where in a word its lanes begin.
ScoresOfPackedRight ==
    \A op \in ScoreOps : \A oa, ob \in 0 .. Min2(packed.n, Nibbles) :
        LET n == packed.n - Max2(oa, ob)  I == 0 .. n - 1 IN
        /\ ndscore_int3_i64(Int3A, oa, Int3B, ob, n, op)
              = SumTo([i \in I |-> ScoreTerm(op, SignedA[oa + i], SignedB[ob + i])], n)
        /\ \A vector \in {1, 2} :
              ndscore_binary_i64(BinaryA, oa, BinaryB, ob, n, op, vector)
                  = SumTo([i \in I |-> ScoreTerm(op, ValueA(oa + i) % 2, ValueB(ob + i) % 2)], n)

PackedRight == Int3Right /\ MasksRight /\ ScoresOfPackedRight
=============================================================================
