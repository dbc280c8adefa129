------------------------------ MODULE MatmulKernels ----------------------------
(***************************************************************************)
(* The products of matrices and vectors: the kernels of ndarray_matmul.cpp, *)
(* on matrices that lie dense in memory, row after row.                    *)
(*                                                                         *)
(* A product goes tile by tile: a panel of A and a strip of columns of B   *)
(* are packed, each tile adds what its part of the depth gives to C.       *)
(* Bytes are multiplied as unsigned times signed and corrected after that. *)
(* Lanes of three bits and of one bit are multiplied where they lie, or    *)
(* are unpacked first.  Numbers are exact here.                            *)
(*                                                                         *)
(* The module goes through the sizes of the matrices.                      *)
(***************************************************************************)
EXTENDS Scores, PackedLanes, MatmulStrips

LOCAL INSTANCE FiniteSetsExt

CONSTANTS TileRows,     \* kMR, kI8MR: 8 or 16 in the code
          PanelRows,    \* kMC, kI8MC: 72 or 96 in the code
          PanelDepth,   \* kKC and both of kI8KC: 256 or 512 in the code.  A set
          RowCounts, ColumnCounts,   \* bound: M and N
          MaxDepth      \* bound: K

ASSUME KernelsAssumption == TileRows > 0 /\ PanelRows % TileRows = 0

VARIABLE factors    \* [m, n, k]: A is m by k, B is k by n

matmulVars == <<factors>>

\* kNR, kI8NR: as many columns as a word has lanes
TileColumns == Nibbles

\* The places at which a loop in steps begins them
Starts(from, to, step) == {from + step * s : s \in 0 .. CeilDiv(to - from, step) - 1}

----------------------------------------------------------------------------
(* Tiles *)

\* The loops over kc, ic, jc and ir of one strip of columns
Tiles(m, strip, k, depth) ==
    LET j0 == CHOOSE j \in strip : \A i \in strip : j <= i
        j1 == j0 + Cardinality(strip)
    IN {[kc |-> kc, kb |-> Min2(depth, k - kc),
         ic |-> ic, mb |-> Min2(PanelRows, m - ic),
         ir |-> ir, mr |-> Min2(TileRows, Min2(PanelRows, m - ic) - ir),
         jc |-> jc, nb |-> Min2(TileColumns, j1 - jc)] :
           kc \in Starts(0, k, depth), ic \in Starts(0, m, PanelRows),
           ir \in Starts(0, PanelRows, TileRows), jc \in Starts(j0, j1, TileColumns)}

\* The tiles whose kernel adds to the cell in row i and column j
Adding(tiles, i, j) ==
    {t \in tiles : /\ t.ic + t.ir <= i /\ i < t.ic + t.ir + t.mr
                   /\ t.jc <= j /\ j < t.jc + t.nb}

\* The tiles of all strips that are not empty
StripTiles(f, depth, align, slots) ==
    LET p == [n |-> f.n, align |-> align, small |-> FALSE]
        slot == {s \in 0 .. slots - 1 : Strip(p, s, slots) # {}}
    IN UNION {Tiles(f.m, Strip(p, s, slots), f.k, depth) : s \in slot}

\* They add what each of them gives for a row and a column of its own to the cells of C.
RunStrips(f, gives) ==
    [c \in 0 .. f.m * f.n - 1 |->
        LET i == c \div f.n  j == c % f.n
        IN MapThenSumSet(LAMBDA t : gives[t][i - t.ic - t.ir, j - t.jc],
                         Adding(DOMAIN gives, i, j))]

packA(A, lda, t) ==
    [p \in 0 .. t.mb * t.kb - 1 |-> A[(t.ic + p \div t.kb) * lda + t.kc + (p % t.kb)]]
\* packB_f32, packB_half and the loops of gemmF64, gemmINT32 and gemmINT64
packB(B, ldb, t) ==
    [p \in 0 .. t.kb * TileColumns - 1 |->
        IF p % TileColumns < t.nb
        THEN B[(t.kc + p \div TileColumns) * ldb + t.jc + (p % TileColumns)] ELSE 0]

\* What kernelF32 and kernelF64 add to row r, column j of a tile
kernel(Ap, Bp, t) ==
    [r \in 0 .. t.mr - 1, j \in 0 .. t.nb - 1 |->
        SumTo([k \in 0 .. t.kb - 1 |-> Ap[(t.ir + r) * t.kb + k] * Bp[k * TileColumns + j]], t.kb)]

\* gemmF32 and gemmHalf
gemm(A, B, f, depth, slots) ==
    RunStrips(f, [t \in StripTiles(f, depth, TileColumns, slots) |->
                     kernel(packA(A, f.k, t), packB(B, f.n, t), t)])

\* Without strips; gemmINT32 and gemmINT64 take the rows of a panel one by one, which
\* their sums do not show.
gemmF64(A, B, f, depth) == gemm(A, B, f, depth, 1)
gemmIntegers(A, B, f, depth) == gemm(A, B, f, depth, 1)

----------------------------------------------------------------------------
(* Bytes: here of four bits, and 0x80 is 8 *)

TopBit == 8
Flip(b) == (b + TopBit) % (2 * TopBit)
AsSigned(b) == IF b >= TopBit THEN b - 2 * TopBit ELSE b
AsByte(v) == v % (2 * TopBit)
Flipped(bytes, flip) == [p \in DOMAIN bytes |-> IF flip THEN Flip(bytes[p]) ELSE bytes[p]]

\* Four of the depth, for one column after another, from the values at [k, j]
Interleaved(t, at) ==
    [p \in 0 .. CeilDiv(t.kb, 4) * 4 * TileColumns - 1 |->
        LET k == 4 * (p \div (4 * TileColumns)) + (p % 4)
            j == (p % (4 * TileColumns)) \div 4
        IN IF k < t.kb /\ j < t.nb THEN AsSigned(at[k, j]) ELSE 0]

packB_vnni(B, ldb, t) ==
    Interleaved(t, [k \in 0 .. t.kb - 1, j \in 0 .. t.nb - 1 |-> B[(t.kc + k) * ldb + t.jc + j]])

\* Whole quads, then what is left of the depth
kernelI8_16x16(Ap, Bp, t) ==
    LET quads == t.kb \div 4
        Times(r, j, k) == Ap[(t.ir + r) * t.kb + k]
                           * Bp[(k \div 4) * 4 * TileColumns + j * 4 + (k % 4)]
    IN [r \in 0 .. t.mr - 1, j \in 0 .. t.nb - 1 |->
          SumTo([q \in 0 .. quads - 1 |-> SumTo([u \in 0 .. 3 |-> Times(r, j, 4 * q + u)], 4)], quads)
            + SumTo([u \in 0 .. (t.kb % 4) - 1 |-> Times(r, j, 4 * quads + u)], t.kb % 4)]

gemmVNNI_u8i8(A, B, f, depth, slots, xorA, xorB) ==
    LET UA == Flipped(A, xorA)  SB == Flipped(B, xorB)
    IN RunStrips(f, [t \in StripTiles(f, Min2(depth, f.k), TileColumns, slots) |->
                        kernelI8_16x16(packA(UA, f.k, t), packB_vnni(SB, f.n, t), t)])

RowSum(A, f, i) == SumTo([k \in 0 .. f.k - 1 |-> A[i * f.k + k]], f.k)
ColumnSum(B, f, j) == SumTo([k \in 0 .. f.k - 1 |-> B[k * f.n + j]], f.k)

\* A + 128 is unsigned: 128 times the sums of the columns of B are too much.
gemmINT8(A, B, f, depth, slots) ==
    LET c == gemmVNNI_u8i8([p \in DOMAIN A |-> AsByte(A[p])], [p \in DOMAIN B |-> AsByte(B[p])],
                           f, depth, slots, TRUE, FALSE)
    IN [p \in DOMAIN c |-> c[p] - TopBit * ColumnSum(B, f, p % f.n)]

\* B - 128 is signed: 128 times the sums of the rows of A are missing.
gemmUINT8(A, B, f, depth, slots) ==
    LET c == gemmVNNI_u8i8(A, B, f, depth, slots, FALSE, TRUE)
    IN [p \in DOMAIN c |-> c[p] + TopBit * RowSum(A, f, p \div f.n)]

\* gemmI8_scalar and gemmU8_scalar, and gemmU256
gemmScalar(A, B, f) ==
    [c \in 0 .. f.m * f.n - 1 |->
        SumTo([k \in 0 .. f.k - 1 |-> A[(c \div f.n) * f.k + k] * B[k * f.n + (c % f.n)]], f.k)]

----------------------------------------------------------------------------
(* INT3: lanes of words, row after row without a gap *)

\* What belongs in the lanes, moved up to 0 .. 7: unpackInt3Xor4
unpackInt3Xor4(words, n) == [p \in 0 .. n - 1 |-> (int3_get(words, p) + 4) % 8]
unpackInt3SignedI32(words, n) == [p \in 0 .. n - 1 |-> int3_decode(int3_get(words, p))]

\* n lanes of a word, against x from k on: int3PartialWordDot, int3WordDot
wordDot(word, lane0, x, k, n) ==
    SumTo([u \in 0 .. n - 1 |-> int3_decode(Lane(word, lane0 + u)) * x[k + u]], n)

\* Lanes aOff + k0 .. aOff + k1 - 1: up to the end of a word, whole words, what is left
int3RangeDot(Aw, aOff, x, k0, k1) ==
    LET lane == (aOff + k0) % Nibbles
        k2 == IF lane # 0 THEN Min2(k0 + Nibbles - lane, k1) ELSE k0
        k3 == k2 + ((k1 - k2) \div Nibbles) * Nibbles
        WordAt(k) == Aw[(aOff + k) \div Nibbles]
    IN (IF k2 > k0 THEN wordDot(WordAt(k0), lane, x, k0, k2 - k0) ELSE 0)
         + SumTo([w \in 0 .. (k3 - k2) \div Nibbles - 1 |->
                    LET k == k2 + w * Nibbles IN wordDot(WordAt(k), 0, x, k, Nibbles)],
                 (k3 - k2) \div Nibbles)
         + (IF k1 > k3 THEN wordDot(WordAt(k3), 0, x, k3, k1 - k3) ELSE 0)

gemvINT3_streamA(Aw, Bw, f) ==
    LET x == unpackInt3SignedI32(Bw, f.k)
    IN [i \in 0 .. f.m - 1 |-> int3RangeDot(Aw, i * f.k, x, 0, f.k)]

\* Strips of whole words of B, each multiplied where it lies.
gemmINT3_streamB(Aw, Bw, f, slots) ==
    LET X == unpackInt3SignedI32(Aw, f.m * f.k)
        p == [n |-> f.n, align |-> Nibbles, small |-> FALSE]
        wordsN == f.n \div Nibbles
        \* w0 .. w1 - 1 of each strip
        covered == UNION {{w \in 0 .. wordsN - 1 :
                               w * Nibbles .. (w + 1) * Nibbles - 1 \subseteq Strip(p, s, slots)} :
                             s \in 0 .. slots - 1}
    IN [c \in 0 .. f.m * f.n - 1 |->
          LET i == c \div f.n  w == (c % f.n) \div Nibbles
          IN IF w \in covered
             THEN SumTo([k \in 0 .. f.k - 1 |->
                           X[i * f.k + k] * int3_decode(Lane(Bw[k * wordsN + w], c % Nibbles))], f.k)
             ELSE Unset]

\* A panel is a word of every row.
packB_int3_panel(Bw, wordsN, t) ==
    Interleaved(t, [k \in 0 .. t.kb - 1, j \in 0 .. t.nb - 1 |->
                       (Lane(Bw[(t.kc + k) * wordsN + t.jc \div Nibbles], j) + 4) % 8])

\* Both matrices were moved up by 4.
MovedBack(c, A, B, f) ==
    [p \in DOMAIN c |-> c[p] - 4 * RowSum(A, f, p \div f.n) - 4 * ColumnSum(B, f, p % f.n) + 16 * f.k]

gemmINT3_fromPackedB(Aw, Bw, f, depth, slots) ==
    LET A == unpackInt3Xor4(Aw, f.m * f.k)
        wordsN == f.n \div Nibbles
        col == [p \in 0 .. f.k * f.n - 1 |->
                  (Lane(Bw[(p \div f.n) * wordsN + (p % f.n) \div Nibbles], p % Nibbles) + 4) % 8]
        c == RunStrips(f, [t \in StripTiles(f, Min2(depth, f.k), Nibbles, slots) |->
                 kernelI8_16x16(packA(A, f.k, t), packB_int3_panel(Bw, wordsN, t), t)])
    IN MovedBack(c, A, col, f)

gemmINT3_unpacked(Aw, Bw, f, depth, slots, vnni) ==
    LET A == unpackInt3Xor4(Aw, f.m * f.k)
        B == unpackInt3Xor4(Bw, f.k * f.n)
    IN IF vnni THEN MovedBack(gemmVNNI_u8i8(A, B, f, depth, slots, FALSE, FALSE), A, B, f)
       ELSE gemmScalar([p \in DOMAIN A |-> A[p] - 4], [p \in DOMAIN B |-> B[p] - 4], f)

\* The ways that gemmINT3 has for a size.  From which size on it takes which of them, and
\* which a processor has, is left open.
WaysOfINT3(f) ==
    IF f.n = 1 THEN {"streamA"}
    ELSE {"vnni", "scalar"} \cup (IF f.n % Nibbles = 0 THEN {"streamB", "packedB"} ELSE {})

gemmINT3(Aw, Bw, f, depth, slots, way) ==
    CASE way = "streamA" -> gemvINT3_streamA(Aw, Bw, f)
      [] way = "streamB" -> gemmINT3_streamB(Aw, Bw, f, slots)
      [] way = "packedB" -> gemmINT3_fromPackedB(Aw, Bw, f, depth, slots)
      [] way \in {"vnni", "scalar"} -> gemmINT3_unpacked(Aw, Bw, f, depth, slots, way = "vnni")

----------------------------------------------------------------------------
(* BINARY *)

\* A row that begins at a word is copied, any other goes bit by bit.
packBitRow(src, bit0, k) ==
    IF bit0 % Bits = 0
    THEN [w \in BinaryWords(k) |-> src[bit0 \div Bits + w] & Mask(w, k)]
    ELSE Pack([b \in 0 .. k - 1 |-> binaryGet(src, bit0 + b) = 1], k)

\* The columns of B as rows: one column, squares of whole words, or bit by bit
bitColumn(Bw, f, j) ==
    IF f.n = 1 THEN packBitRow(Bw, 0, f.k)
    ELSE IF f.k % Bits = 0 /\ f.n % Bits = 0
    THEN [w \in BinaryWords(f.k) |->
             SumTo([r \in 0 .. Bits - 1 |->
                      LET tile == Bw[((w * Bits + r) * f.n + (j \div Bits) * Bits) \div Bits]
                      IN ((tile \div 2 ^ (j % Bits)) % 2) * 2 ^ r], Bits)]
    ELSE Pack([k \in 0 .. f.k - 1 |-> binaryGet(Bw, k * f.n + j) = 1], f.k)

gemmBINARY(Aw, Bw, f) ==
    LET row == [i \in 0 .. f.m - 1 |-> packBitRow(Aw, i * f.k, f.k)]
        column == [j \in 0 .. f.n - 1 |-> bitColumn(Bw, f, j)]
        kWords == (f.k + Bits - 1) \div Bits
    IN [c \in 0 .. f.m * f.n - 1 |->
          SumTo([w \in 0 .. kWords - 1 |-> popcnt(row[c \div f.n][w] & column[c % f.n][w])], kWords)]

\* Bit by bit until both are at a word, words, what is left
binaryRangeDot(A, a0, X, x0, k0, k1) ==
    LET Both(k) == binaryGet(A, a0 + k) * binaryGet(X, x0 + k)
        AtWords(k) == (a0 + k) % Bits = 0 /\ (x0 + k) % Bits = 0
        k2 == CHOOSE k \in k0 .. k1 :
                 (k = k1 \/ AtWords(k)) /\ \A l \in k0 .. k - 1 : ~AtWords(l)
        words == (k1 - k2) \div Bits
        k3 == k2 + words * Bits
        WordsAt(k) == A[(a0 + k) \div Bits] & X[(x0 + k) \div Bits]
    IN SumTo([u \in 0 .. k2 - k0 - 1 |-> Both(k0 + u)], k2 - k0)
         + SumTo([w \in 0 .. words - 1 |-> popcnt(WordsAt(k2 + w * Bits))], words)
         + SumTo([u \in 0 .. k1 - k3 - 1 |-> Both(k3 + u)], k1 - k3)

----------------------------------------------------------------------------
(* A matrix and a vector *)

\* Rows four at a time in the vectors of the processor, and the last ones on their own
gemvRows(scheme, row, x, m, n) ==
    [i \in 0 .. m - 1 |->
        LET term == [k \in 0 .. n - 1 |-> row[i][k] * x[k]]
        IN IF i < Left(m, <<4>>) THEN Accumulate(scheme, term, n) ELSE Accumulate(Auto, term, n)]

gemvF32(row, x, m, n, bld) ==
    LET scheme == [AVX512 |-> Vector(16, <<16>>), AVX2 |-> Vector(8, <<8>>),
                   NEON |-> Vector(4, <<4>>), SSE2 |-> Vector(4, <<4>>), none |-> Vector(1, <<1>>)]
    IN gemvRows(scheme[Isa[bld]], row, x, m, n)

gemvF64(row, x, m, n, bld) ==
    LET scheme == [AVX512 |-> Vector(8, <<8>>), AVX2 |-> Vector(4, <<4>>),
                   NEON |-> Vector(2, <<2>>), SSE2 |-> Vector(2, <<2>>), none |-> Vector(1, <<1>>)]
    IN gemvRows(scheme[Isa[bld]], row, x, m, n)

\* Row by row; gemvHalf takes the dot product of module HalfKernels for each.
gemvDense(row, x, m, n) ==
    [i \in 0 .. m - 1 |-> SumTo([k \in 0 .. n - 1 |-> row[i][k] * x[k]], n)]

\* The sum over groups of the depth, each with a scale of its own.  dot[k0, k1] is the
\* product of the lanes from k0 to k1 - 1.
Grouped(scale, k, groupSize, dot) ==
    LET groups == CeilDiv(k, groupSize)
    IN SumTo([g \in 0 .. groups - 1 |->
                scale[g] * dot[g * groupSize, Min2((g + 1) * groupSize, k)]], groups)

\* dotRange4
dotRange4(a, x, k0, k1) ==
    Accumulate(Auto, [u \in 0 .. k1 - k0 - 1 |-> a[k0 + u] * x[k0 + u]], k1 - k0)

gemvScaledDense(a, x, k, scale, groupSize) ==
    Grouped(scale, k, groupSize, [k0 \in 0 .. k, k1 \in 0 .. k |-> dotRange4(a, x, k0, k1)])
gemvScaledInt3(Aw, row, x, k, scale, groupSize) ==
    Grouped(scale, k, groupSize,
            [k0 \in 0 .. k, k1 \in 0 .. k |-> int3RangeDot(Aw, row, x, k0, k1)])
gemvScaledBinary(A, row, X, xOff, k, scale, groupSize) ==
    Grouped(scale, k, groupSize,
            [k0 \in 0 .. k, k1 \in 0 .. k |-> binaryRangeDot(A, row, X, xOff, k0, k1)])

----------------------------------------------------------------------------

MatmulInit == factors \in [m : RowCounts, n : ColumnCounts, k : {1}]

Deepen == factors.k < MaxDepth /\ factors' = [factors EXCEPT !.k = @ + 1]

MatmulNext == Deepen

----------------------------------------------------------------------------
(* Properties *)

\* The numbers of both matrices: bytes of four bits, and what is left of them in three bits
\* and in one.
ByteA == [p \in 0 .. factors.m * factors.k - 1 |-> (p * 11 + 5) % 16]
ByteB == [p \in 0 .. factors.k * factors.n - 1 |-> (p * 7 + (p \div 5) * 3) % 16]
Each(f(_), numbers) == [p \in DOMAIN numbers |-> f(numbers[p])]
Bit(b) == (b \div 4) % 2

\* Numbers one after another in words, from a lane on
InWords(numbers, from, per, width) ==
    LET n == Cardinality(DOMAIN numbers) IN
    [w \in 0 .. CeilDiv(n + from, per) - 1 |->
        SumTo([u \in 0 .. per - 1 |->
                 LET p == w * per + u - from
                 IN IF 0 <= p /\ p < n THEN (numbers[p] % width) * 2 ^ (u * (IF width = 2 THEN 1 ELSE 4))
                    ELSE 0], per)]
Int3Words(bytes, from) == InWords(bytes, from, Nibbles, 8)
BitWords(bytes, from) == InWords(Each(Bit, bytes), from, Bits, 2)

\* However the columns are divided into strips and the matrices into panels, and whatever
\* their sizes are, no tile reaches outside of them, and each cell is the sum over the whole
\* depth, once: with numbers as they are, with bytes moved to unsigned or signed and back,
\* with lanes in words, and with bits.
ProductsRight ==
    LET f == factors
        a3 == Int3Words(ByteA, 0)  b3 == Int3Words(ByteB, 0)
        three(b) == int3_decode(b % 8)
    IN /\ gemmBINARY(BitWords(ByteA, 0), BitWords(ByteB, 0), f)
             = gemmScalar(Each(Bit, ByteA), Each(Bit, ByteB), f)
       /\ \A depth \in PanelDepth :
             /\ gemmF64(ByteA, ByteB, f, depth) = gemmScalar(ByteA, ByteB, f)
             /\ gemmIntegers(Each(AsSigned, ByteA), Each(AsSigned, ByteB), f, depth)
                   = gemmScalar(Each(AsSigned, ByteA), Each(AsSigned, ByteB), f)
       /\ \A depth \in PanelDepth, slots \in 1 .. 3 :
             /\ \A t \in StripTiles(f, depth, TileColumns, slots) :
                   t.ic + t.ir + t.mr <= f.m /\ t.jc + t.nb <= f.n /\ t.kc + t.kb <= f.k
             /\ gemm(ByteA, ByteB, f, depth, slots) = gemmScalar(ByteA, ByteB, f)
             /\ gemmUINT8(ByteA, ByteB, f, depth, slots) = gemmScalar(ByteA, ByteB, f)
             /\ gemmINT8(Each(AsSigned, ByteA), Each(AsSigned, ByteB), f, depth, slots)
                   = gemmScalar(Each(AsSigned, ByteA), Each(AsSigned, ByteB), f)
             /\ \A way \in WaysOfINT3(f) :
                   gemmINT3(a3, b3, f, depth, slots, way)
                     = gemmScalar(Each(three, ByteA), Each(three, ByteB), f)

\* Groups of any size, on rows and vectors that begin anywhere in a word
ScaledRight ==
    LET f == factors
        a(i) == [k \in 0 .. f.k - 1 |-> ByteA[i * f.k + k]]
        x == [k \in 0 .. f.k - 1 |-> ByteB[k * f.n]]
        scale == [g \in 0 .. f.k - 1 |-> g + 2]
        three(b) == int3_decode(b % 8)
        Exact(of(_), i, size) ==
            SumTo([k \in 0 .. f.k - 1 |-> scale[k \div size] * of(a(i)[k]) * of(x[k])], f.k)
        same(b) == b
    IN \A i \in 0 .. f.m - 1, size \in 1 .. f.k :
          /\ gemvScaledDense(a(i), x, f.k, scale, size) = Exact(same, i, size)
          /\ \A from \in {0, 1, 3} :
                /\ gemvScaledInt3(Int3Words(ByteA, from), from + i * f.k, Each(three, x), f.k, scale, size)
                      = Exact(three, i, size)
                /\ \A xOff \in {0, 1} :
                      gemvScaledBinary(BitWords(ByteA, from), from + i * f.k, BitWords(x, xOff), xOff,
                                       f.k, scale, size)
                        = Exact(Bit, i, size)

MatmulRight == ProductsRight /\ ScaledRight

\* Every lane of a matrix of five rows counts once, for every length of the vector, in the
\* loops of every processor: gemvF32 and gemvF64.
GemvRight ==
    LET row == [i \in 0 .. 4 |-> [k \in 0 .. lanes - 1 |-> First[k] + i]]
        right == gemvDense(row, Second, 5, lanes)
    IN /\ gemvF32(row, Second, 5, lanes, build) = right
       /\ gemvF64(row, Second, 5, lanes, build) = right
=============================================================================
