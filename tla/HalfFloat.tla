-------------------------------- MODULE HalfFloat ------------------------------
(***************************************************************************)
(* The conversions of 16-bit floats: namespace ndarray_half of             *)
(* include/NDArray.h and the portable loads of ndarray_half_kernels.cpp.   *)
(*                                                                         *)
(* The formats are narrowed together: a wide float has a sign, WideExp     *)
(* bits of exponent and WideMan of mantissa; the F16 of the code becomes   *)
(* HalfExp and HalfMan, BF16 the upper bits of the wide float with BrainMan *)
(* bits of mantissa.  What the code does depends on the differences only.  *)
(***************************************************************************)
EXTENDS Integers

CONSTANTS WideExp, WideMan,    \* 8 and 23 in the code
          HalfExp, HalfMan,    \* 5 and 10
          BrainMan             \* 7

VARIABLES wide    \* the bits of a float

halfVars == wide

WideBits == 1 + WideExp + WideMan
HalfBits == 1 + HalfExp + HalfMan
BrainBits == 1 + WideExp + BrainMan

WideBias == 2 ^ (WideExp - 1) - 1
HalfBias == 2 ^ (HalfExp - 1) - 1

\* The fields of the bits of a format with e bits of exponent and m of mantissa.
Sign(b, e, m) == b \div 2 ^ (e + m)
Exp(b, e, m) == (b \div 2 ^ m) % 2 ^ e
Man(b, m) == b % 2 ^ m
Join(s, x, man, e, m) == s * 2 ^ (e + m) + x * 2 ^ m + man

IsNan(b, e, m) == Exp(b, e, m) = 2 ^ e - 1 /\ Man(b, m) # 0
IsInf(b, e, m) == Exp(b, e, m) = 2 ^ e - 1 /\ Man(b, m) = 0

\* The bits without the sign.
WideMagnitude(b) == b % 2 ^ (WideBits - 1)
WideInf == (2 ^ WideExp - 1) * 2 ^ WideMan
WideIsNan(b) == WideMagnitude(b) > WideInf

----------------------------------------------------------------------------

\* The mantissa of a denormal is shifted up until its leading bit is in place; e counts down.
Normalised(man, e) ==
    LET k == CHOOSE j \in 0 .. HalfMan : man * 2 ^ j >= 2 ^ HalfMan /\ man * 2 ^ j < 2 ^ (HalfMan + 1)
    IN [man |-> (man * 2 ^ k) % 2 ^ HalfMan, exp |-> e - k]

f16ToF32(h) ==
    LET sign == Sign(h, HalfExp, HalfMan)
        exp == Exp(h, HalfExp, HalfMan)
        man == Man(h, HalfMan)
        up == 2 ^ (WideMan - HalfMan)
    IN IF exp = 0 /\ man = 0 THEN Join(sign, 0, 0, WideExp, WideMan)
       ELSE IF exp = 0
       THEN LET n == Normalised(man, WideBias - (HalfBias - 1))
            IN Join(sign, n.exp, n.man * up, WideExp, WideMan)
       ELSE IF exp = 2 ^ HalfExp - 1
       THEN Join(sign, 2 ^ WideExp - 1, man * up, WideExp, WideMan)
       ELSE Join(sign, exp + WideBias - HalfBias, man * up, WideExp, WideMan)

\* To the nearest, ties to even.
Rounded(half, rem, mid) ==
    IF rem > mid \/ (rem = mid /\ half % 2 = 1) THEN half + 1 ELSE half

f32ToF16(b) ==
    LET sign == Sign(b, WideExp, WideMan) * 2 ^ (HalfBits - 1)
        exp == Exp(b, WideExp, WideMan) - WideBias + HalfBias
        man == Man(b, WideMan)
        drop == WideMan - HalfMan
        inf == (2 ^ HalfExp - 1) * 2 ^ HalfMan
    IN IF WideIsNan(b)
       THEN LET m == man \div 2 ^ drop
            IN sign + inf + 2 ^ (HalfMan - 1) + (m % 2 ^ (HalfMan - 1))
       ELSE IF exp >= 2 ^ HalfExp - 1 THEN sign + inf
       ELSE IF exp < -HalfMan THEN sign
       ELSE IF exp <= 0
       THEN LET m == man + 2 ^ WideMan
                shift == drop + 1 - exp
            IN sign + Rounded(m \div 2 ^ shift, m % 2 ^ shift, 2 ^ (shift - 1))
       ELSE sign + Rounded(exp * 2 ^ HalfMan + man \div 2 ^ drop, man % 2 ^ drop, 2 ^ (drop - 1))

bf16ToF32(h) == h * 2 ^ (WideMan - BrainMan)

f32ToBf16(b) ==
    LET drop == WideMan - BrainMan
        high == b \div 2 ^ drop
    IN IF WideIsNan(b)
       THEN IF (high \div 2 ^ (BrainMan - 1)) % 2 = 1 THEN high ELSE high + 2 ^ (BrainMan - 1)
       ELSE ((b + 2 ^ (drop - 1) - 1 + (high % 2)) \div 2 ^ drop) % 2 ^ BrainBits

\* f16BitsToF32Bits: a denormal is its mantissa times the smallest one, computed in F32.
f16LoadPortable(h) ==
    LET sign == Sign(h, HalfExp, HalfMan)
        exp == Exp(h, HalfExp, HalfMan)
        man == Man(h, HalfMan)
        up == 2 ^ (WideMan - HalfMan)
        lead == CHOOSE k \in 0 .. HalfMan : 2 ^ k <= man /\ man < 2 ^ (k + 1)
    IN IF exp = 0 /\ man = 0 THEN Join(sign, 0, 0, WideExp, WideMan)
       ELSE IF exp = 0
       THEN Join(sign, WideBias + lead + 1 - HalfBias - HalfMan,
                 (man - 2 ^ lead) * 2 ^ (WideMan - lead), WideExp, WideMan)
       ELSE IF exp = 2 ^ HalfExp - 1
       THEN Join(sign, 2 ^ WideExp - 1, man * up, WideExp, WideMan)
       ELSE Join(sign, exp + WideBias - HalfBias, man * up, WideExp, WideMan)

----------------------------------------------------------------------------

HalfInit == wide = 0
HalfNext == wide' = (wide + 1) % 2 ^ WideBits

----------------------------------------------------------------------------
(* Properties *)

\* The number of a finite float in units of the smallest wide one; bias is that of its format.
Unit(bias, m) == 2 ^ (WideBias + WideMan - bias - m)
Number(b, e, m) ==
    LET bias == 2 ^ (e - 1) - 1
        n == IF Exp(b, e, m) = 0 THEN Man(b, m) * Unit(bias, m)
             ELSE (Man(b, m) + 2 ^ m) * 2 ^ (Exp(b, e, m) - 1) * Unit(bias, m)
    IN IF Sign(b, e, m) = 1 THEN -n ELSE n

Distance(p, q) == IF p < q THEN q - p ELSE p - q

\* h is the float nearest to the wide float b; of two equally near, the one that is even.
\* Where the exponents run out the next power of two takes the place of infinity.
Nearest(h, b, e, m) ==
    LET sign == IF Sign(b, WideExp, WideMan) = 1 THEN -1 ELSE 1
        v == sign * Number(b, WideExp, WideMan)
        Value(k) == IF k = (2 ^ e - 1) * 2 ^ m
                    THEN 2 ^ (2 ^ e - 2 + m) * Unit(2 ^ (e - 1) - 1, m)
                    ELSE Number(k, e, m)
        k == h % 2 ^ (e + m)
        far == Distance(v, Value(k))
        near == {j \in {k - 1, k + 1} : j \in 0 .. (2 ^ e - 1) * 2 ^ m}
    IN /\ Sign(h, e, m) = Sign(b, WideExp, WideMan)
       /\ k <= (2 ^ e - 1) * 2 ^ m
       /\ \A j \in near : /\ Distance(v, Value(j)) >= far
                          /\ Distance(v, Value(j)) = far => h % 2 = 0

Whole(b) == ~WideIsNan(b) /\ ~IsInf(b, WideExp, WideMan)

\* Storing rounds to the nearest half float, loading is exact, and a float that is not a
\* number stays one: whatever is stored and loaded again is what it was.
HalvesRight ==
    LET h == f32ToF16(wide)
        g == f32ToBf16(wide)
        H == wide % 2 ^ HalfBits
        G == wide % 2 ^ BrainBits
    IN /\ Whole(wide) => Nearest(h, wide, HalfExp, HalfMan)
       /\ Whole(wide) => Nearest(g, wide, WideExp, BrainMan)
       /\ WideIsNan(wide) => IsNan(h, HalfExp, HalfMan) /\ IsNan(g, WideExp, BrainMan)
       /\ IsInf(wide, WideExp, WideMan) => IsInf(h, HalfExp, HalfMan) /\ IsInf(g, WideExp, BrainMan)
       /\ IsNan(H, HalfExp, HalfMan) <=> WideIsNan(f16ToF32(H))
       /\ ~IsNan(H, HalfExp, HalfMan) =>
             /\ f32ToF16(f16ToF32(H)) = H
             /\ ~IsInf(H, HalfExp, HalfMan) =>
                   Number(f16ToF32(H), WideExp, WideMan) = Number(H, HalfExp, HalfMan)
       /\ f16LoadPortable(H) = f16ToF32(H)
       /\ ~IsNan(G, WideExp, BrainMan) => f32ToBf16(bf16ToF32(G)) = G
=============================================================================
