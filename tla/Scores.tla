---------------------------------- MODULE Scores -------------------------------
(***************************************************************************)
(* Dot products, squared norms and squared distances of dense arrays, and  *)
(* their sums: src/ndarray_score.cpp.                                      *)
(*                                                                         *)
(* A kernel takes a block of lanes at a time into several accumulators,    *)
(* adds the accumulators up, and ends lane by lane.  Which lane goes into  *)
(* which accumulator differs by type and by processor.  Floats are exact   *)
(* here; integers are kept modulo a power of two as the accumulators do.   *)
(***************************************************************************)
EXTENDS HalfKernels

CONSTANT AccumulatorBits   \* of an integer accumulator: 32 in the code

Scorings == {"dot", "l2self", "l2pair"}

\* The processor as this file sees it
Isa == [AVX512FP16 |-> "AVX512", AVX512 |-> "AVX512", AVX2 |-> "AVX2", F16C |-> "SSE2",
        NEON_FP16 |-> "NEON", NEON |-> "NEON", portable |-> "none"]

\* dense_auto: four accumulators of one lane
Auto == [width |-> 1, blocks |-> <<4>>]
Vector(width, blocks) == [width |-> width, blocks |-> blocks]

AccumulatorOf(scheme, k, j) == j \div scheme.width

\* The lanes of the k-th loop
Loop(scheme, n, k) ==
    Left(n, SubSeq(scheme.blocks, 1, k - 1)) .. Left(n, SubSeq(scheme.blocks, 1, k)) - 1

\* The sum over all lanes by a scheme: accumulators first, then what is left.
Accumulate(scheme, term, n) ==
    LET done == Left(n, scheme.blocks)
        In(i, q) == \E k \in 1 .. Len(scheme.blocks) :
                        /\ i \in Loop(scheme, n, k)
                        /\ q = AccumulatorOf(scheme, k,
                               (i - Left(n, SubSeq(scheme.blocks, 1, k - 1))) % scheme.blocks[k])
        acc == [q \in 0 .. scheme.blocks[1] \div scheme.width - 1 |->
                  SumTo([i \in 0 .. n - 1 |-> IF i < done /\ In(i, q) THEN term[i] ELSE 0], n)]
    IN SumTo(acc, scheme.blocks[1] \div scheme.width)
         + SumTo([i \in 0 .. n - done - 1 |-> term[done + i]], n - done)

\* Modulo 2 ^ AccumulatorBits, signed
Wrapped(v) ==
    LET m == 2 ^ AccumulatorBits  r == v % m IN IF 2 * r >= m THEN r - m ELSE r

ScoreLanes(a, b, n, kind) == [i \in 0 .. n - 1 |-> Term(kind, a, b, i)]

dense_auto(a, b, n, kind) == Accumulate(Auto, ScoreLanes(a, b, n, kind), n)

ndscore_f32(a, b, n, kind, bld) ==
    LET scheme == [AVX512 |-> Vector(16, <<32, 16>>), AVX2 |-> Vector(8, <<32>>),
                   SSE2 |-> Vector(4, <<16>>), NEON |-> Vector(4, <<16>>), none |-> Auto]
    IN Accumulate(scheme[Isa[bld]], ScoreLanes(a, b, n, kind), n)

ndscore_f64(a, b, n, kind, bld) ==
    LET scheme == [AVX512 |-> Vector(8, <<16>>), AVX2 |-> Vector(4, <<8>>),
                   SSE2 |-> Auto, NEON |-> Vector(2, <<4>>), none |-> Auto]
    IN Accumulate(scheme[Isa[bld]], ScoreLanes(a, b, n, kind), n)

ndscore_i32(a, b, n, kind, bld) ==
    Wrapped(IF Isa[bld] = "AVX512"
            THEN Accumulate(Vector(16, <<32>>), ScoreLanes(a, b, n, kind), n)
            ELSE dense_auto(a, b, n, kind))

\* Bytes are widened to 16 bits and multiplied in pairs: ndscore_u8_i32, ndscore_i8_i32.
\* The results of 64 bits are these, widened.
ndscore_bytes(a, b, n, kind, bld) ==
    LET scheme == [AVX512 |-> Vector(32, <<32>>), AVX2 |-> Vector(16, <<16>>), SSE2 |-> Auto,
                   NEON |-> Vector(8, <<16>>), none |-> Auto]
    IN Wrapped(Accumulate(scheme[Isa[bld]], ScoreLanes(a, b, n, kind), n))

ndreduce_sum_f32(a, n, bld) ==
    LET scheme == [AVX512 |-> Vector(16, <<32, 16>>), AVX2 |-> Vector(8, <<32>>), SSE2 |-> Auto,
                   NEON |-> Vector(4, <<16>>), none |-> Auto]
    IN Accumulate(scheme[Isa[bld]], a, n)

ndreduce_sum_i32(a, n, bld) ==
    LET scheme == [AVX512 |-> Vector(16, <<32, 16>>), AVX2 |-> Vector(8, <<16>>), SSE2 |-> Auto,
                   NEON |-> Vector(4, <<8>>), none |-> Auto]
    IN Wrapped(Accumulate(scheme[Isa[bld]], a, n))

----------------------------------------------------------------------------

\* Every lane counts once, for every length, in every build.
ScoresRight ==
    LET sum == SumTo(First, lanes) IN
    /\ \A kind \in Scorings :
          LET right == SumTo(ScoreLanes(First, Second, lanes, kind), lanes) IN
          /\ dense_auto(First, Second, lanes, kind) = right
          /\ ndscore_f32(First, Second, lanes, kind, build) = right
          /\ ndscore_f64(First, Second, lanes, kind, build) = right
          /\ ndscore_i32(First, Second, lanes, kind, build) = Wrapped(right)
          /\ ndscore_bytes(First, Second, lanes, kind, build) = Wrapped(right)
    /\ ndreduce_sum_f32(First, lanes, build) = sum
    /\ ndreduce_sum_i32(First, lanes, build) = Wrapped(sum)
=============================================================================
