------------------------------- MODULE ArgExtremum -----------------------------
(***************************************************************************)
(* argmin and argmax: src/ndarray_argext.h and the last part of            *)
(* src/NDArray.cpp.  Of equal elements the first is the answer.            *)
(*                                                                         *)
(* A dense array is scanned in lanes that each keep a best of their own;   *)
(* the lanes are compared at the end.  The module goes through all arrays  *)
(* of a few values, one of which may be NaN, which no order relates to     *)
(* anything.                                                               *)
(***************************************************************************)
EXTENDS Lanes, FiniteSets

CONSTANTS ItemValues,     \* numbers
          NaN,
          VectorLanes,   \* 16 and 8 in the code
          Chunk,         \* 64 in the code
          WordLanes,     \* 16 in the code
          MaxLength      \* bound

VARIABLES sample       \* the array

extremumVars == <<sample>>

Scans == {"dense", "f32", "vector", "bytes", "int3", "half"}

Before(wantMin, x, y) == x # NaN /\ y # NaN /\ (IF wantMin THEN x < y ELSE x > y)
Same(x, y) == x # NaN /\ x = y

\* best: an index.  An element from the loop, or from another lane that ends later.
Scanned(p, wantMin, best, i) == IF Before(wantMin, p[i], p[best]) THEN i ELSE best

Merged(p, wantMin, best, other) ==
    IF Before(wantMin, p[other], p[best]) \/ (Same(p[other], p[best]) /\ other < best)
    THEN other ELSE best

\* The best of lane q: elements q, q + width, .. below done, from the first of them on.
LaneBest(p, wantMin, width, done, q) ==
    LET b[k \in 0 .. done \div width - 1] ==
            IF k = 0 THEN q ELSE Scanned(p, wantMin, b[k - 1], k * width + q)
    IN b[done \div width - 1]

\* The lanes one after another, then the elements from done on.
Finish(p, n, wantMin, width, done) ==
    LET m[q \in 0 .. width - 1] ==
            IF q = 0 THEN LaneBest(p, wantMin, width, done, 0)
            ELSE Merged(p, wantMin, m[q - 1], LaneBest(p, wantMin, width, done, q))
        s[i \in done .. n] == IF i = done THEN m[width - 1] ELSE Scanned(p, wantMin, s[i - 1], i - 1)
    IN s[n]

\* One element after another, from element first on with best so far
Scan(p, n, wantMin, first, best) ==
    LET s[i \in first .. n] == IF i = first THEN best ELSE Scanned(p, wantMin, s[i - 1], i - 1)
    IN s[n]

\* ndaeDense, ndaeHalf
ndaeDense(p, n, wantMin) ==
    IF n < 4 THEN Scan(p, n, wantMin, 1, 0) ELSE Finish(p, n, wantMin, 4, Left(n, <<4>>))
ndaeHalf(p, n, wantMin) == ndaeDense(p, n, wantMin)

\* ndaeF64Avx, ndaeI32Avx: one vector of lanes
ndaeVector(p, n, wantMin) ==
    IF n < VectorLanes THEN ndaeDense(p, n, wantMin)
    ELSE Finish(p, n, wantMin, VectorLanes, Left(n, <<VectorLanes>>))

\* ndaeF32Avx: two vectors, merged lane by lane before the lanes are compared
ndaeF32Avx(p, n, wantMin) ==
    LET two == 2 * VectorLanes
        done == IF n >= two THEN Left(n, <<two>>) ELSE VectorLanes
        Both(q) == IF n < two THEN q
                   ELSE Merged(p, wantMin, LaneBest(p, wantMin, two, done, q),
                               LaneBest(p, wantMin, two, done, VectorLanes + q))
        h[q \in 0 .. VectorLanes - 1] ==
            IF q = 0 THEN Both(0) ELSE Merged(p, wantMin, h[q - 1], Both(q))
    IN IF n < VectorLanes THEN ndaeDense(p, n, wantMin)
       ELSE Scan(p, n, wantMin, done, h[VectorLanes - 1])

\* ndaeI8Avx, ndaeU8Avx: the best value of a chunk, then where it is first
FirstIn(p, from, upto, x) ==
    CHOOSE i \in from .. upto : p[i] = x /\ \A j \in from .. i - 1 : p[j] # x
BestIn(p, from, upto, wantMin) ==
    CHOOSE x \in {p[i] : i \in from .. upto} : \A i \in from .. upto : ~Before(wantMin, p[i], x)
ndaeBytes(p, n, wantMin) ==
    LET chunks == n \div Chunk
        b[c \in 0 .. chunks] ==
            IF c = 0 THEN 0
            ELSE LET best == BestIn(p, (c - 1) * Chunk, c * Chunk - 1, wantMin)
                 IN IF Before(wantMin, best, p[b[c - 1]])
                    THEN FirstIn(p, (c - 1) * Chunk, c * Chunk - 1, best) ELSE b[c - 1]
    IN IF n < Chunk THEN ndaeDense(p, n, wantMin) ELSE Scan(p, n, wantMin, chunks * Chunk, b[chunks])

\* From element start on: to the end of a word, word by word, and what is left.
ndaeInt3(p, start, n, wantMin) ==
    LET end == start + n
        word == ((start + WordLanes) \div WordLanes) * WordLanes
        first == Min2(word, end)
        whole == IF end < word THEN first ELSE first + Left(end - first, <<WordLanes>>)
        a == Scan(p, first, wantMin, start + 1, start)
        b == Scan(p, whole, wantMin, first, a)
    IN Scan(p, end, wantMin, whole, b) - start

\* bits [lo, hi) of a word
ndaeBitKeep(lo, hi) == lo .. hi - 1

\* The first bit that is the best a bit can be; if there is none, all are equal.
ndaeBinary(p, start, n, wantMin) ==
    LET end == start + n
        Hits(w) == {k \in ndaeBitKeep(Max2(start - w * WordLanes, 0),
                                      Min2(end - w * WordLanes, WordLanes)) :
                       p[w * WordLanes + k] = IF wantMin THEN 0 ELSE 1}
        words == {w \in start \div WordLanes .. (end - 1) \div WordLanes : Hits(w) # {}}
        w0 == CHOOSE w \in words : \A v \in words : w <= v
    IN IF words = {} THEN 0
       ELSE w0 * WordLanes + (CHOOSE k \in Hits(w0) : \A j \in Hits(w0) : k <= j) - start

\* packedArgExt, of n elements from start on
packedArgExt(scan, p, start, n, wantMin) ==
    LET part == [i \in 0 .. n - 1 |-> p[start + i]] IN
    CASE scan = "dense" -> ndaeDense(part, n, wantMin)
      [] scan = "f32" -> ndaeF32Avx(part, n, wantMin)
      [] scan = "vector" -> ndaeVector(part, n, wantMin)
      [] scan = "bytes" -> ndaeBytes(part, n, wantMin)
      [] scan = "half" -> ndaeHalf(part, n, wantMin)
      [] scan = "int3" -> ndaeInt3(p, start, n, wantMin)

----------------------------------------------------------------------------
(* Of views with strides *)

\* -1, 0 or 1
cmpViewOffsets(p, i, j) ==
    IF Before(TRUE, p[i], p[j]) THEN -1 ELSE IF Before(TRUE, p[j], p[i]) THEN 1 ELSE 0

\* Where element along of an axis is, when the other axes are at outer, the last one fastest
viewOffsetAlongAxis(v, axis, outer, along) ==
    LET r == Len(v.shape)
        left[d \in 1 .. r + 1] ==
            IF d > r THEN outer ELSE IF d = axis THEN left[d + 1] ELSE left[d + 1] \div v.shape[d]
        o[d \in 0 .. r] ==
            IF d = 0 THEN v.offset
            ELSE o[d - 1] + v.strides[d] * (IF d = axis THEN along ELSE left[d + 1] % v.shape[d])
    IN o[r]

\* The answer for one outer position of argExtremumAxis; argExtremumAll is the same over
\* the only axis.
argExtremumAxis(p, v, axis, outer, wantMin, scan) ==
    LET At(k) == viewOffsetAlongAxis(v, axis, outer, k)
        b[k \in 0 .. v.shape[axis] - 1] ==
            IF k = 0 THEN 0
            ELSE LET c == cmpViewOffsets(p, At(k), At(b[k - 1]))
                 IN IF (IF wantMin THEN c < 0 ELSE c > 0) THEN k ELSE b[k - 1]
    IN IF v.strides[axis] = 1 THEN packedArgExt(scan, p, At(0), v.shape[axis], wantMin)
       ELSE b[v.shape[axis] - 1]

----------------------------------------------------------------------------

ExtremumInit == sample = <<>>

Lengthen == Len(sample) < MaxLength /\ \E x \in ItemValues \cup {NaN} : sample' = Append(sample, x)

ExtremumNext == Lengthen

----------------------------------------------------------------------------
(* Properties *)

Item == [i \in 0 .. Len(sample) - 1 |-> sample[i + 1]]

\* The first of the best of these places
FirstBest(p, places, wantMin) ==
    CHOOSE k \in DOMAIN places :
        /\ \A j \in DOMAIN places : ~Before(wantMin, p[places[j]], p[places[k]])
        /\ \A j \in DOMAIN places : j < k => Before(wantMin, p[places[k]], p[places[j]])

Ordered == \A i \in DOMAIN sample : sample[i] # NaN

Places(v, axis, outer) ==
    [k \in 0 .. v.shape[axis] - 1 |-> viewOffsetAlongAxis(v, axis, outer, k)]

\* Whatever the width of the scan and wherever it starts, the answer is the first of the
\* best.  A NaN in the first block hides the rest of its lane: with NaNs nothing is said,
\* except that the answer is an index.
ExtremaRight ==
    LET n == Len(sample) IN
    \A wantMin \in BOOLEAN : \A start \in 0 .. n - 1 : \A scan \in Scans :
        LET m == n - start
            k == packedArgExt(scan, Item, start, m, wantMin)
        IN /\ scan # "bytes" \/ Ordered => k \in 0 .. m - 1
           /\ Ordered => k = FirstBest(Item, [i \in 0 .. m - 1 |-> start + i], wantMin)

BinaryExtremaRight ==
    LET n == Len(sample) IN
    (\A i \in DOMAIN sample : sample[i] \in {0, 1}) =>
        \A wantMin \in BOOLEAN : \A start \in 0 .. n - 1 :
            ndaeBinary(Item, start, n - start, wantMin)
                = FirstBest(Item, [i \in 0 .. n - start - 1 |-> start + i], wantMin)

\* The same along an axis of a view: a matrix and its transpose.
AxisExtremaRight ==
    LET n == Len(sample)
        Matrices == {[shape |-> <<r, n \div r>>, strides |-> <<n \div r, 1>>, offset |-> 0] :
                        r \in {q \in 1 .. n : n % q = 0}}
        Turned(v) == [v EXCEPT !.shape = <<v.shape[2], v.shape[1]>>,
                               !.strides = <<v.strides[2], v.strides[1]>>]
    IN Ordered =>
        \A m \in Matrices : \A v \in {m, Turned(m)} : \A axis \in {1, 2} :
            \A outer \in 0 .. v.shape[3 - axis] - 1 : \A wantMin \in BOOLEAN :
                /\ \A k \in 0 .. v.shape[axis] - 1 :
                      viewOffsetAlongAxis(v, axis, outer, k)
                          = k * v.strides[axis] + outer * v.strides[3 - axis]
                /\ argExtremumAxis(Item, v, axis, outer, wantMin, "dense")
                      = FirstBest(Item, Places(v, axis, outer), wantMin)

ArgExtremumRight == ExtremaRight /\ BinaryExtremaRight /\ AxisExtremaRight
=============================================================================
