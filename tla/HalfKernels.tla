------------------------------- MODULE HalfKernels -----------------------------
(***************************************************************************)
(* Arithmetic and reductions of 16-bit floats: ndarray_half_kernels.cpp.   *)
(*                                                                         *)
(* Lanes are numbers.  F32 holds sums and products of those that are tried *)
(* exactly; storing a lane rounds it to the significand of its type, as    *)
(* module HalfFloat says the conversions do.  A build takes the loops that *)
(* its processor has.  The module goes through lengths and kinds of build. *)
(***************************************************************************)
EXTENDS Lanes

CONSTANTS MaxLanes,    \* bound: the longest array
          Builds       \* the processors: a subset of AllBuilds

VARIABLES lanes, build    \* how many lanes, and for which processor

kernelVars == <<lanes, build>>

AllBuilds == {"AVX512FP16", "AVX512", "AVX2", "F16C", "NEON_FP16", "NEON", "portable"}
HalfTypes == {"F16", "BF16"}
Ops == {"Add", "Sub", "Mul", "Div"}
Kinds == {"sum", "prod", "dot", "l2self", "l2pair"}

Significand == [F16 |-> 11, BF16 |-> 8]

\* To the nearest number with a significand of so many bits, ties to even.
Store(t, v) ==
    LET a == IF v < 0 THEN -v ELSE v
        k == CHOOSE e \in 0 .. 31 : a \div 2 ^ e < 2 ^ Significand[t]
                                    /\ (e > 0 => a \div 2 ^ (e - 1) >= 2 ^ Significand[t])
        low == a \div 2 ^ k
        rem == a % 2 ^ k
        up == 2 * rem > 2 ^ k \/ (2 * rem = 2 ^ k /\ low % 2 = 1)
        r == (IF up THEN low + 1 ELSE low) * 2 ^ k
    IN IF v < 0 THEN -r ELSE r

\* ndhOpFn, ndhOp512 and the others
Op(op, a, b) ==
    CASE op = "Add" -> a + b
      [] op = "Sub" -> a - b
      [] op = "Mul" -> a * b
      [] op = "Div" -> a \div b

----------------------------------------------------------------------------
(* The loops of each build *)

F16Loads ==
    [AVX512FP16 |-> <<16, 8, 4, 1>>, AVX512 |-> <<16, 8, 4, 1>>, AVX2 |-> <<8, 4, 1>>,
     F16C |-> <<4, 4, 1>>, NEON_FP16 |-> <<4, 4, 1>>, NEON |-> <<4, 1>>, portable |-> <<4, 1>>]

F16Stores ==
    [AVX512FP16 |-> <<16, 8, 4, 1>>, AVX512 |-> <<16, 8, 4, 1>>, AVX2 |-> <<8, 4, 1>>,
     F16C |-> <<4, 4, 1>>, NEON_FP16 |-> <<4, 4, 1>>, NEON |-> <<4, 1>>, portable |-> <<4, 1>>]

BF16Loads ==
    [AVX512FP16 |-> <<16, 8, 4, 1>>, AVX512 |-> <<8, 4, 1>>, AVX2 |-> <<8, 4, 1>>,
     F16C |-> <<4, 1>>, NEON_FP16 |-> <<4, 4, 1>>, NEON |-> <<4, 4, 1>>, portable |-> <<4, 1>>]

BF16Stores ==
    [AVX512FP16 |-> <<16, 8, 4, 1>>, AVX512 |-> <<8, 4, 1>>, AVX2 |-> <<8, 4, 1>>,
     F16C |-> <<4, 1>>, NEON_FP16 |-> <<4, 4, 1>>, NEON |-> <<4, 4, 1>>, portable |-> <<4, 1>>]

\* ndhalf_f16_to_f32, ndhalf_bf16_to_f32: loads are exact
ToF32(t, a, n, bld) ==
    Written(a, n, IF t = "F16" THEN F16Loads[bld] ELSE BF16Loads[bld])

\* ndhalf_f32_to_f16, ndhalf_f32_to_bf16
FromF32(t, a, n, bld) ==
    Written([i \in 0 .. n - 1 |-> Store(t, a[i])], n,
            IF t = "F16" THEN F16Stores[bld] ELSE BF16Stores[bld])

\* ndhArithF32Buf
ArithF32Buf(a, b, n, op) == Written([i \in 0 .. n - 1 |-> Op(op, a[i], b[i])], n, <<4, 1>>)

\* Through buffers of 32 floats: load, compute, store.  32 lanes are whole vectors of any width.
Buffered(t, a, b, n, op, bld) ==
    LET x == ToF32(t, a, n, bld)  y == ToF32(t, b, n, bld)
    IN FromF32(t, ArithF32Buf(x, y, n, op), n, bld)

\* A vector of lanes at a time, and a buffer for what is left.
Rest(a, from, n) == [i \in 0 .. n - from - 1 |-> a[from + i]]
InVectors(t, a, b, n, op, bld, widths) ==
    LET done == Left(n, widths)
        tail == Buffered(t, Rest(a, done, n), Rest(b, done, n), n - done, op, bld)
    IN [i \in 0 .. n - 1 |-> IF i < done THEN Store(t, Op(op, a[i], b[i])) ELSE tail[i - done]]

ndhalf_arith_f16(a, b, n, op, bld) ==
    LET widths == [AVX512FP16 |-> <<32, 16, 8>>, AVX512 |-> <<16, 8>>, AVX2 |-> <<8>>,
                   F16C |-> <<4>>, NEON_FP16 |-> <<8>>, NEON |-> <<4>>, portable |-> <<>>]
    IN InVectors("F16", a, b, n, op, bld, widths[bld])

ndhalf_arith_bf16(a, b, n, op, bld) ==
    LET widths == [AVX512FP16 |-> <<16, 8>>, AVX512 |-> <<8>>, AVX2 |-> <<8>>,
                   F16C |-> <<>>, NEON_FP16 |-> <<4>>, NEON |-> <<4>>, portable |-> <<>>]
    IN InVectors("BF16", a, b, n, op, bld, widths[bld])

ndhArithScalar(t, a, s, n, op, bld) ==
    LET x == ToF32(t, a, n, bld)
    IN FromF32(t, [i \in 0 .. n - 1 |-> Op(op, x[i], s)], n, bld)

ndhMinMax(t, a, b, n, isMin, bld) ==
    LET x == ToF32(t, a, n, bld)
        y == ToF32(t, b, n, bld)
        Pick(p, q) == IF isMin THEN (IF p < q THEN p ELSE q) ELSE IF p > q THEN p ELSE q
    IN FromF32(t, [i \in 0 .. n - 1 |-> Pick(x[i], y[i])], n, bld)

----------------------------------------------------------------------------
(* Reductions *)

\* What lane i adds to the result, or multiplies it by.
Term(kind, a, b, i) ==
    CASE kind \in {"sum", "prod"} -> a[i]
      [] kind = "dot" -> a[i] * b[i]
      [] kind = "l2self" -> a[i] * a[i]
      [] kind = "l2pair" -> (a[i] - b[i]) * (a[i] - b[i])

Start(kind, second) == IF kind = "prod" THEN 1 ELSE 0

\* Two accumulators of half a block of lanes each.
Accumulator(kind, term, n, block, second, j) ==
    LET half == block \div 2
        at == IF second THEN half + j ELSE j
        acc[k \in 0 .. n \div block] ==
            IF k = 0 THEN Start(kind, second)
            ELSE IF kind = "prod" THEN acc[k - 1] * term[(k - 1) * block + at]
            ELSE acc[k - 1] + term[(k - 1) * block + at]
    IN acc[n \div block]

\* The NEON path of F16 adds its two accumulators whatever the kind.
Combined(kind, p, q, bld) ==
    IF kind = "prod" /\ bld \notin {"NEON", "NEON_FP16"} THEN p * q ELSE p + q

ReduceBlocks(kind, a, b, n, block, bld) ==
    LET term == [i \in 0 .. n - 1 |-> Term(kind, a, b, i)]
        half == block \div 2
        both == [j \in 0 .. half - 1 |->
                    Combined(kind, Accumulator(kind, term, n, block, FALSE, j),
                             Accumulator(kind, term, n, block, TRUE, j), bld)]
        from == (n \div block) * block
        tail == [j \in 0 .. n - from - 1 |-> term[from + j]]
    IN IF kind = "prod" THEN ProductTo(both, half) * ProductTo(tail, n - from)
       ELSE SumTo(both, half) + SumTo(tail, n - from)

ndhalf_reduce_f16(kind, a, b, n, bld) ==
    LET block == [AVX512FP16 |-> 32, AVX512 |-> 32, AVX2 |-> 16, F16C |-> 4,
                  NEON_FP16 |-> 8, NEON |-> 8, portable |-> 4]
    IN ReduceBlocks(kind, a, b, n, block[bld], bld)

\* There is no NEON path here.
ndhalf_reduce_bf16(kind, a, b, n, bld) ==
    LET block == [AVX512FP16 |-> IF kind = "dot" THEN 32 ELSE 16, AVX512 |-> 16, AVX2 |-> 16,
                  F16C |-> 4, NEON_FP16 |-> 4, NEON |-> 4, portable |-> 4]
    IN ReduceBlocks(kind, a, b, n, block[bld], "portable")

----------------------------------------------------------------------------

KernelInit == lanes = 0 /\ build \in Builds

More == lanes < MaxLanes /\ lanes' = lanes + 1 /\ UNCHANGED build

KernelNext == More

----------------------------------------------------------------------------
(* Properties *)

\* Some lanes, and divisors of them.
First == [i \in 0 .. lanes - 1 |-> 4 * (((37 * i) % 51) - 25)]
Second == [i \in 0 .. lanes - 1 |-> ((23 * i) % 41) - 20]
Divisors == [i \in 0 .. lanes - 1 |-> 2 ^ (i % 3)]
Factors == [i \in 0 .. lanes - 1 |-> IF i % 11 = 4 THEN 2 ELSE IF i % 3 = 0 THEN -1 ELSE 1]

Right(op) == IF op = "Div" THEN Divisors ELSE Second

\* Each lane of a result is the rounded result of its own two lanes, in every build and for
\* every length.
ArithmeticOfHalvesRight ==
    \A op \in Ops :
        /\ ndhalf_arith_f16(First, Right(op), lanes, op, build)
              = [i \in 0 .. lanes - 1 |-> Store("F16", Op(op, First[i], Right(op)[i]))]
        /\ ndhalf_arith_bf16(First, Right(op), lanes, op, build)
              = [i \in 0 .. lanes - 1 |-> Store("BF16", Op(op, First[i], Right(op)[i]))]
        /\ \A t \in HalfTypes :
              ndhArithScalar(t, First, 4, lanes, op, build)
                  = [i \in 0 .. lanes - 1 |-> Store(t, Op(op, First[i], 4))]

MinMaxOfHalvesRight ==
    \A t \in HalfTypes :
        /\ ndhMinMax(t, First, Second, lanes, TRUE, build)
              = [i \in 0 .. lanes - 1 |-> Min2(First[i], Second[i])]
        /\ ndhMinMax(t, First, Second, lanes, FALSE, build)
              = [i \in 0 .. lanes - 1 |-> Max2(First[i], Second[i])]

\* Every lane takes part in a reduction once, whatever the length leaves for the scalar loop.
\* The product of F16 lanes on NEON is left out: Combined tells why.
ReductionsOfHalvesRight ==
    \A kind \in Kinds :
        LET a == IF kind = "prod" THEN Factors ELSE First
            term == [i \in 0 .. lanes - 1 |-> Term(kind, a, Second, i)]
            right == IF kind = "prod" THEN ProductTo(term, lanes) ELSE SumTo(term, lanes)
        IN /\ kind # "prod" \/ build \notin {"NEON", "NEON_FP16"} =>
                 ndhalf_reduce_f16(kind, a, Second, lanes, build) = right
           /\ ndhalf_reduce_bf16(kind, a, Second, lanes, build) = right

HalfKernelsRight ==
    ArithmeticOfHalvesRight /\ MinMaxOfHalvesRight /\ ReductionsOfHalvesRight
=============================================================================
