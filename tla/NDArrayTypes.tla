------------------------------ MODULE NDArrayTypes -----------------------------
(***************************************************************************)
(* The element types of NDArray and how operations choose the type of      *)
(* their result: src/NDArray.cpp, src/ndarray_matmul.cpp.                  *)
(*                                                                         *)
(* The code decides by a table of powers of two; the properties compare    *)
(* its choices with the set of numbers each type really holds.             *)
(***************************************************************************)
EXTENDS Integers

CONSTANTS Quarters   \* bound: the scalars that are tried, in quarters

VARIABLES left, right   \* the types of two operands

typesVars == <<left, right>>

Floats == {"F16", "BF16", "F32", "F64"}
Halves == {"F16", "BF16"}
SignedIntegers == {"INT3", "INT8", "INT32", "INT64"}
Unsigned == {"BINARY", "UINT8", "UINT256"}
Types == Floats \cup SignedIntegers \cup Unsigned

\* What a call that throws answers.
Throws == "throws"

----------------------------------------------------------------------------
(* The numbers of a type *)

\* Integers have magnitudes below 2^bits; floats have significands of that many bits, and
\* magnitudes below 2^top.
TypeBits == [BINARY |-> 1, INT3 |-> 2, INT8 |-> 7, UINT8 |-> 8, INT32 |-> 31, INT64 |-> 63,
         UINT256 |-> 256, F16 |-> 11, BF16 |-> 8, F32 |-> 24, F64 |-> 53]
Top == [F16 |-> 16, BF16 |-> 128, F32 |-> 128, F64 |-> 1024]

\* Every number of type s is a number of type t.
Holds(t, s) ==
    \/ s \in Floats /\ t \in Floats /\ TypeBits[s] <= TypeBits[t] /\ Top[s] <= Top[t]
    \/ s \notin Floats /\ t \in Floats /\ TypeBits[s] <= TypeBits[t] /\ TypeBits[s] <= Top[t]
    \/ s \in Unsigned /\ t \in Unsigned \cup SignedIntegers /\ TypeBits[s] <= TypeBits[t]
    \/ s \in SignedIntegers /\ t \in SignedIntegers /\ TypeBits[s] <= TypeBits[t]

Abs(n) == IF n < 0 THEN -n ELSE n

\* A number without its factors of two: the significand it needs.
OddPart[n \in Nat] == IF n > 0 /\ n % 2 = 0 THEN OddPart[n \div 2] ELSE n

HoldsQuarters(t, n) ==
    IF t \in Floats
    THEN /\ TypeBits[t] >= 31 \/ OddPart[Abs(n)] < 2 ^ TypeBits[t]
         /\ Top[t] >= 28 \/ Abs(n) < 2 ^ (Top[t] + 2)
    ELSE /\ n % 4 = 0
         /\ n < 0 => t \in SignedIntegers
         /\ TypeBits[t] >= 29 \/ (n < 4 * 2 ^ TypeBits[t] /\ -n <= 4 * 2 ^ TypeBits[t])

----------------------------------------------------------------------------
(* Conversions *)

maxPowerOfTypeIntPrecision ==
    [BINARY |-> 0, INT3 |-> 2, INT8 |-> 7, UINT8 |-> 7, INT32 |-> 31, INT64 |-> 63,
     F16 |-> 11, BF16 |-> 8, F32 |-> 24, F64 |-> 53, UINT256 |-> 255]

maxPowerOfType ==
    [maxPowerOfTypeIntPrecision EXCEPT !.F16 = 16, !.BF16 = 128, !.F32 = 128, !.F64 = 1024]

isSigned(t) == t \in Floats \cup SignedIntegers

isLosslessConversion(from, to) ==
    \/ from = to
    \/ /\ from \in Floats => to \in Floats
       /\ from \in Floats => maxPowerOfType[to] >= maxPowerOfType[from]
       /\ maxPowerOfTypeIntPrecision[to] >= maxPowerOfTypeIntPrecision[from]
       /\ isSigned(from) => isSigned(to)
       /\ ~isSigned(from) /\ isSigned(to) =>
             maxPowerOfTypeIntPrecision[to] > maxPowerOfTypeIntPrecision[from]

\* The first type of a list that both operands convert to.
FirstOf(list, a, b) ==
    LET good == {i \in DOMAIN list : /\ isLosslessConversion(a, list[i])
                                     /\ isLosslessConversion(b, list[i])}
    IN IF good = {} THEN Throws
       ELSE list[CHOOSE i \in good : \A j \in good : i <= j]

promoteTypes(a, b) ==
    IF Throws \in {a, b} THEN Throws
    ELSE IF a = b THEN IF a = "BINARY" THEN "UINT8" ELSE a
    ELSE IF isLosslessConversion(a, b) THEN b
    ELSE IF isLosslessConversion(b, a) THEN a
    ELSE LET float == FirstOf(<<"F32", "F64">>, a, b)
         IN IF {a, b} \cap Floats # {} /\ float # Throws THEN float
            ELSE FirstOf(<<"INT32", "INT64", "F32", "F64", "UINT256">>, a, b)

\* add, subtract and the others; min and max keep BINARY.
promoteForElemBin(a, b, op) ==
    IF op \in {"Min", "Max"} /\ a = b THEN a ELSE promoteTypes(a, b)

typeForNeg(t) == IF t \in {"BINARY", "UINT8"} THEN "INT32" ELSE t

sumProdAccumulateType(t) ==
    IF t \in {"F16", "BF16", "F32"} THEN "F32"
    ELSE IF t \in {"BINARY", "INT3", "UINT8", "INT8"} THEN "INT32"
    ELSE IF t = "INT32" THEN "INT64"
    ELSE t

meanResultType(t) == IF t \in {"F32", "F16", "BF16"} THEN "F32" ELSE "F64"

matmulResultType(t) ==
    IF t \in {"BINARY", "INT3", "INT8", "UINT8"} THEN "INT32"
    ELSE IF t = "INT32" THEN "INT64"
    ELSE IF t \in Halves THEN "F32"
    ELSE t

\* log, sin, ..; small: whether every lane of an integer array is within 2^24.
typeForRealUnary(t, small) ==
    IF t \in {"F16", "BF16", "F32", "F64"} THEN t
    ELSE IF t = "UINT256" THEN Throws
    ELSE IF t \in {"BINARY", "INT3", "UINT8", "INT8"} \/ small THEN "F32"
    ELSE "F64"

----------------------------------------------------------------------------
(* Scalars, in quarters *)

\* The nearest float of a format is the number itself: its significand is short enough, and
\* it does not overflow.
Exactly(t, n) ==
    CASE t = "F64" -> TRUE
      [] t = "F32" -> OddPart[Abs(n)] < 2 ^ 24
      [] t = "F16" -> OddPart[Abs(n)] < 2 ^ 11 /\ Abs(n) < 4 * 65520
      [] t = "BF16" -> OddPart[Abs(n)] < 2 ^ 8

int64ExactlyRepresentable(t, v) ==
    CASE t = "BINARY" -> v \in {0, 1}
      [] t = "INT3" -> v \in -4 .. 3
      [] t = "UINT8" -> v \in 0 .. 255
      [] t = "INT8" -> v \in -128 .. 127
      [] t \in {"INT32", "INT64"} -> TRUE
      [] t = "UINT256" -> v >= 0
      [] t \in Floats -> Exactly(t, 4 * v)

doubleExactlyRepresentable(t, n) ==
    IF t \in Floats THEN Exactly(t, n)
    ELSE n % 4 = 0 /\ int64ExactlyRepresentable(t, n \div 4)

promoteWithInt64Scalar(t, v) ==
    IF int64ExactlyRepresentable(t, v) \/ t = "UINT256" \/ t \in Halves THEN t
    ELSE promoteTypes(t, "INT64")

promoteWithIntScalar(t, v) ==
    IF int64ExactlyRepresentable(t, v) \/ t = "UINT256" \/ t \in Halves THEN t
    ELSE promoteTypes(t, "INT32")

\* n is a float: its significand has 24 bits.
promoteWithFloatScalar(t, n) ==
    IF doubleExactlyRepresentable(t, n) \/ t \in Halves THEN t ELSE promoteTypes(t, "F32")

promoteWithDoubleScalar(t, n) ==
    IF doubleExactlyRepresentable(t, n) \/ t \in Halves THEN t ELSE promoteTypes(t, "F64")

typeForIntConstant(v) == IF v \in {-1, 0, 1} THEN "INT3" ELSE "INT32"

\* where and piecewise on two arguments, each an array of a type or a scalar.
promoteAosArrays(a, b) == promoteTypes(a, b)
promoteAosWithInt(a, v) == promoteTypes(a, typeForIntConstant(v))
promoteAosInts(v, w) == IF {v, w} \subseteq {-1, 0, 1} THEN "INT3" ELSE "INT32"

----------------------------------------------------------------------------

TypesInit == left = "BINARY" /\ right = "BINARY"
PickLeft == left' \in Types /\ UNCHANGED right
PickRight == right' \in Types /\ UNCHANGED left
TypesNext == PickLeft \/ PickRight

----------------------------------------------------------------------------
(* Properties *)

\* "NDArray: no lossless common type for operands" is the only way out: otherwise the type
\* of a result holds every number of both operands, whichever is on the left.
PromotionRight ==
    LET t == promoteTypes(left, right) IN
    /\ t # Throws => Holds(t, left) /\ Holds(t, right)
    /\ t = promoteTypes(right, left)
    /\ \A op \in {"Min", "Add"} :
          LET u == promoteForElemBin(left, right, op) IN
          u # Throws => Holds(u, left) /\ Holds(u, right)
    /\ isLosslessConversion(left, right) => Holds(right, left)

\* The types of sums, products, means and negations hold what they are made from.
AccumulationRight ==
    /\ Holds(sumProdAccumulateType(left), left)
    /\ Holds(matmulResultType(left), left)
    /\ left # "UINT256" => Holds(typeForNeg(left), left) /\ typeForNeg(left) \notin Unsigned
    /\ meanResultType(left) \in Floats
    /\ typeForRealUnary(left, FALSE) \in Floats \cup {Throws}

\* An array and a scalar get a type that holds the array and the scalar exactly.  Half
\* floats keep their type for any scalar, UINT256 for any integer.
ScalarsRight ==
    \A n \in Quarters :
        LET v == n \div 4
            i == promoteWithIntScalar(left, v)
            l == promoteWithInt64Scalar(left, v)
            f == promoteWithFloatScalar(left, n)
            d == promoteWithDoubleScalar(left, n)
            w == promoteAosWithInt(left, v)
        IN /\ \A t \in {i, l} : t # Throws =>
                 /\ Holds(t, left)
                 /\ left \notin Halves \cup {"UINT256"} => HoldsQuarters(t, 4 * v)
           /\ d # Throws => Holds(d, left) /\ (left \notin Halves => HoldsQuarters(d, n))
           /\ OddPart[Abs(n)] < 2 ^ 24 /\ f # Throws =>
                 Holds(f, left) /\ (left \notin Halves => HoldsQuarters(f, n))
           /\ w # Throws => Holds(w, left) /\ HoldsQuarters(w, 4 * v)
           /\ HoldsQuarters(promoteAosInts(v, 0), 4 * v)

TypesRight == PromotionRight /\ AccumulationRight /\ ScalarsRight
=============================================================================
