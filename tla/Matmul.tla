---------------------------------- MODULE Matmul -------------------------------
(***************************************************************************)
(* Products of views: ndmatmul and ndgemvScaled of ndarray_matmul.cpp.     *)
(*                                                                         *)
(* The operands have one to three axes, with strides and an offset of      *)
(* their own.  One that lies dense is multiplied where it is; any other is *)
(* copied plane by plane.  The kernels, which multiply dense planes, are   *)
(* those of module MatmulKernels.                                          *)
(*                                                                         *)
(* The module goes through pairs of operands.                              *)
(***************************************************************************)
EXTENDS NDArrayViews, Lanes

CONSTANTS AxisLengths    \* bound: the lengths of an axis

VARIABLE multiplied      \* none, the first, or both

operandVars == <<multiplied>>

CeilOf(a, b) == (a + b - 1) \div b

----------------------------------------------------------------------------
(* Geometry *)

\* Its number, and the length of the last axis but d
Axes(v) == Len(v.shape)
LastAxis(v, d) == v.shape[Axes(v) - d]

\* parseGeom
Geometry(a, b) ==
    [aHasBatch |-> Axes(a) = 3, bHasBatch |-> Axes(b) = 3,
     batch |-> IF Axes(a) = 3 THEN a.shape[1] ELSE IF Axes(b) = 3 THEN b.shape[1] ELSE 1,
     m |-> IF Axes(a) = 1 THEN 1 ELSE LastAxis(a, 1), k |-> LastAxis(a, 0),
     n |-> IF Axes(b) = 1 THEN 1 ELSE LastAxis(b, 0),
     squeezeM |-> Axes(a) = 1, squeezeN |-> Axes(b) = 1]

\* No exception: inner dimensions and batches match, and a rank of 3 meets none of 1.
Accepts(a, b) ==
    /\ LastAxis(a, 0) = (IF Axes(b) = 1 THEN b.shape[1] ELSE LastAxis(b, 1))
    /\ {Axes(a), Axes(b)} # {1, 3}
    /\ Axes(a) = 3 /\ Axes(b) = 3 => a.shape[1] = b.shape[1]

OutShape(g) ==
    (IF g.batch > 1 THEN <<g.batch>> ELSE <<>>)
        \o (IF g.squeezeM THEN <<>> ELSE <<g.m>>) \o (IF g.squeezeN THEN <<>> ELSE <<g.n>>)

----------------------------------------------------------------------------
(* Planes *)

\* A cell of memory, and n of them from a place on
At(v, place) == (place * v.multiplier + 1) % 13
CellsFrom(v, from, n) == [p \in 0 .. n - 1 |-> At(v, from + p)]

isPackedContig2d(v, rows, cols) == v.shape = <<rows, cols>> /\ isContiguous(v)
isPackedContigMK(v, rows, cols) ==
    IF Axes(v) = 1 THEN isContiguous(v) /\ v.shape[1] = rows * cols /\ 1 \in {rows, cols}
    ELSE isPackedContig2d(v, rows, cols)

\* contigElemPtr: a lane inside a word has no address, and memory of words begins at 0.
HasAddress(v, words) == words => v.offset = 0
Address(v, words) == IF words THEN 0 ELSE v.offset

dense2d(v, rows, cols, batch, b, words) ==
    IF batch <= 1 /\ isPackedContig2d(v, rows, cols) THEN CellsFrom(v, v.offset, rows * cols)
    ELSE IF batch > 1 /\ isContiguous(v) /\ v.shape = <<batch, rows, cols>> /\ ~words
    THEN CellsFrom(v, v.offset + b * rows * cols, rows * cols)
    ELSE [p \in 0 .. rows * cols - 1 |->
            LET i == p \div cols  j == p % cols
            IN At(v, v.offset +
                  (CASE Axes(v) = 1 -> (IF rows = 1 THEN j ELSE i) * v.strides[1]
                     [] Axes(v) = 2 -> i * v.strides[1] + j * v.strides[2]
                     [] Axes(v) = 3 -> b * v.strides[1] + i * v.strides[2] + j * v.strides[3]))]

\* gemmRawInto: what the kernels compute of dense planes
gemmRaw(a, b, g) ==
    [c \in 0 .. g.m * g.n - 1 |->
        SumTo([k \in 0 .. g.k - 1 |-> a[(c \div g.n) * g.k + k] * b[k * g.n + (c % g.n)]], g.k)]

\* Both where they lie, or both copied
gemmViews2d(a, b, g, words) ==
    IF /\ isPackedContig2d(a, g.m, g.k) /\ isPackedContig2d(b, g.k, g.n)
       /\ HasAddress(a, words) /\ HasAddress(b, words)
    THEN gemmRaw(CellsFrom(a, Address(a, words), g.m * g.k), CellsFrom(b, Address(b, words), g.k * g.n), g)
    ELSE gemmRaw(dense2d(a, g.m, g.k, 1, 0, words), dense2d(b, g.k, g.n, 1, 0, words), g)

\* Each where it lies, or copied
gemmViewsSqueezed(a, b, g, words) ==
    LET Plane(v, rows, cols) ==
            IF isPackedContigMK(v, rows, cols) /\ HasAddress(v, words)
            THEN CellsFrom(v, Address(v, words), rows * cols) ELSE dense2d(v, rows, cols, 1, 0, words)
    IN gemmRaw(Plane(a, g.m, g.k), Plane(b, g.k, g.n), g)

\* The planes of a batch one after another into the result: storePlane
gemmBatch(a, b, g, words) ==
    LET Plane(v, rows, cols, hasBatch, bi) ==
            IF ~words /\ (IF hasBatch THEN isContiguous(v) ELSE isPackedContig2d(v, rows, cols))
            THEN CellsFrom(v, v.offset + (IF hasBatch THEN bi ELSE 0) * rows * cols, rows * cols)
            ELSE dense2d(v, rows, cols, IF hasBatch THEN g.batch ELSE 1,
                         IF hasBatch THEN bi ELSE 0, words)
        plane == [bi \in 0 .. g.batch - 1 |->
                    gemmRaw(Plane(a, g.m, g.k, g.aHasBatch, bi), Plane(b, g.k, g.n, g.bHasBatch, bi), g)]
    IN [c \in 0 .. g.batch * g.m * g.n - 1 |-> plane[c \div (g.m * g.n)][c % (g.m * g.n)]]

\* words: BINARY or INT3
ndmatmul(a, b, words) ==
    LET g == Geometry(a, b) IN
    [shape |-> OutShape(g),
     cells |-> IF g.m = 0 \/ g.n = 0 \/ g.k = 0 \/ g.batch = 0
               THEN [c \in 0 .. Count(OutShape(g)) - 1 |-> 0]
               ELSE IF g.batch = 1
               THEN IF g.squeezeM \/ g.squeezeN THEN gemmViewsSqueezed(a, b, g, words)
                    ELSE gemmViews2d(a, b, g, words)
               ELSE gemmBatch(a, b, g, words)]

----------------------------------------------------------------------------
(* ndgemvScaled *)

\* What a view holds, flat
Flat(v) == [p \in 0 .. Count(v.shape) - 1 |-> At(v, elementOffset(v, p))]

packedRows2d(w) ==
    /\ w.shape[2] > 1 => w.strides[2] = 1
    /\ w.shape[1] > 1 => w.strides[1] # 0

AcceptsScaled(w, x, scales, groupSize) ==
    /\ Axes(w) = 2
    /\ Axes(x) = 1 \/ (Axes(x) = 2 /\ x.shape[2] = 1)
    /\ x.shape[1] = w.shape[2]
    /\ LET nGroups == CeilOf(w.shape[2], groupSize) IN
       IF Axes(scales) = 1 THEN scales.shape = <<w.shape[1]>> /\ nGroups <= 1
       ELSE scales.shape = <<w.shape[1], nGroups>>

\* Rows in place when their lanes are next to each other, whatever is between rows
ndgemvScaled(w, x, scales, groupSize, words) ==
    LET m == w.shape[1]  k == w.shape[2]
        nGroups == CeilOf(k, groupSize)
        sc == Flat(scales)
        own == dense2d(w, m, k, 1, 0, words)
        row(i) == IF packedRows2d(w) THEN CellsFrom(w, w.offset + i * w.strides[1], k)
                  ELSE [c \in 0 .. k - 1 |-> own[i * k + c]]
        lane == IF isContiguous(x) THEN CellsFrom(x, x.offset, k) ELSE Flat(x)
        Group(i, g) ==
            LET k0 == g * groupSize  k1 == Min2(k0 + groupSize, k)
            IN SumTo([u \in 0 .. k1 - k0 - 1 |-> row(i)[k0 + u] * lane[k0 + u]], k1 - k0)
    IN IF m = 0 \/ k = 0 THEN [i \in 0 .. m - 1 |-> 0]
       ELSE IF nGroups <= 1 THEN [i \in 0 .. m - 1 |-> ndmatmul(w, x, words).cells[i] * sc[i]]
       ELSE [i \in 0 .. m - 1 |->
               SumTo([g \in 0 .. nGroups - 1 |-> sc[i * nGroups + g] * Group(i, g)], nGroups)]

----------------------------------------------------------------------------

Layouts == {"dense", "offset", "transposed", "spaced", "broadcast"}

\* The last two axes changed places, every second element, the first axis repeated.
StridesOf(shape, layout) ==
    LET dense == DenseStrides(shape)  r == Len(shape) IN
    CASE layout = "spaced" -> [d \in 1 .. r |-> 2 * dense[d]]
      [] layout = "transposed" ->
            [d \in 1 .. r |-> IF d = r /\ r > 1 THEN Max2(shape[r - 1], 1) ELSE IF d = r - 1 THEN 1 ELSE dense[d]]
      [] layout = "broadcast" -> [d \in 1 .. r |-> IF d = 1 THEN 0 ELSE dense[d]]
      [] OTHER -> dense

\* The multiplier says what the memory holds: see At.
MakeView(shape, layout, multiplier) ==
    [shape |-> shape, strides |-> StridesOf(shape, layout),
     offset |-> IF layout = "offset" THEN 2 ELSE 0,
     multiplier |-> multiplier]

OperandShapes ==
    {<<n>> : n \in AxisLengths} \cup {<<m, n>> : m, n \in AxisLengths}
        \cup {<<b, m, n>> : b, m, n \in AxisLengths}

OperandsInit == multiplied = <<>>

ChooseFirst(shape, layout) ==
    multiplied = <<>> /\ multiplied' = <<MakeView(shape, layout, 5)>>

ChooseSecond(shape, layout) ==
    LET v == MakeView(shape, layout, 8) IN
    /\ Len(multiplied) = 1
    /\ Accepts(multiplied[1], v)
    /\ multiplied' = Append(multiplied, v)

OperandsNext ==
    \E shape \in OperandShapes, layout \in Layouts :
        ChooseFirst(shape, layout) \/ ChooseSecond(shape, layout)

\* The operands alone; the arrays of NDArrayViews stand still.
OperandsSpec ==
    /\ ViewsInit /\ OperandsInit
    /\ [][OperandsNext /\ UNCHANGED viewVars]_<<viewVars, operandVars>>

----------------------------------------------------------------------------
(* Properties *)

\* The element at an index of rank 3, in an operand of any rank
EntryA(a, bi, i, k) ==
    At(a, computeOffset(a, CASE Axes(a) = 1 -> <<k>> [] Axes(a) = 2 -> <<i, k>>
                                [] Axes(a) = 3 -> <<bi, i, k>>))
EntryB(b, bi, k, j) ==
    At(b, computeOffset(b, CASE Axes(b) = 1 -> <<k>> [] Axes(b) = 2 -> <<k, j>>
                                [] Axes(b) = 3 -> <<bi, k, j>>))

HasBatch(a, b) == 3 \in {Axes(a), Axes(b)}

\* The shape that the documentation of matmul promises: an operand of rank 3 gives the result
\* its batch axis, one of rank 1 takes an axis away.
ProductShape(a, b) ==
    LET g == Geometry(a, b) IN
    (IF HasBatch(a, b) THEN <<g.batch>> ELSE <<>>)
        \o (IF Axes(a) = 1 THEN <<>> ELSE <<g.m>>) \o (IF Axes(b) = 1 THEN <<>> ELSE <<g.n>>)

\* Whatever the strides and the offsets of two views are, whichever has a batch, and whether
\* lanes have an address or not, the product has the shape that is documented, and each cell is
\* the product of the row and the column that the index names.  Batches of one and of none
\* break their promise and are left out: see BatchKeepsItsAxis.
MatmulOfViewsRight ==
    Len(multiplied) = 2 =>
        LET a == multiplied[1]  b == multiplied[2]  g == Geometry(a, b) IN
        (HasBatch(a, b) => g.batch > 1) => \A words \in BOOLEAN :
            LET r == ndmatmul(a, b, words) IN
            /\ r.shape = ProductShape(a, b)
            /\ DOMAIN r.cells = 0 .. Count(r.shape) - 1
            /\ \A bi \in 0 .. g.batch - 1, i \in 0 .. g.m - 1, j \in 0 .. g.n - 1 :
                  r.cells[bi * g.m * g.n + i * g.n + j]
                    = SumTo([k \in 0 .. g.k - 1 |-> EntryA(a, bi, i, k) * EntryB(b, bi, k, j)], g.k)

\* A scaled product takes for each lane the scale of its row and group.
ScaledViewsRight ==
    Len(multiplied) = 2 =>
        \A layout \in {"dense", "spaced"}, groupSize \in 1 .. 3, rank \in 1 .. 2 :
            LET w == multiplied[1]  x == multiplied[2]
                m == w.shape[1]  k == LastAxis(w, 0)
                nGroups == CeilOf(k, groupSize)
                scales == MakeView(IF rank = 1 THEN <<m>> ELSE <<m, nGroups>>, layout, 3)
                Scale(i, g) == At(scales, computeOffset(scales, IF rank = 1 THEN <<i>> ELSE <<i, g>>))
            IN AcceptsScaled(w, x, scales, groupSize) =>
                 \A words \in BOOLEAN, i \in 0 .. m - 1 :
                    ndgemvScaled(w, x, scales, groupSize, words)[i]
                      = SumTo([c \in 0 .. k - 1 |->
                                 Scale(i, c \div groupSize) * EntryA(w, 0, i, c) * EntryB(x, 0, c, 0)], k)

\* The product of operands of rank 3 is of rank 3, "(B,M,K)@(B,K,N) -> (B,M,N)", however many
\* matrices a batch has: ndmatmul keeps the axis of two or more only.
BatchKeepsItsAxis ==
    Len(multiplied) = 2 =>
        LET a == multiplied[1]  b == multiplied[2] IN
        ndmatmul(a, b, FALSE).shape = ProductShape(a, b)

MatmulViewsRight == MatmulOfViewsRight /\ ScaledViewsRight
=============================================================================
