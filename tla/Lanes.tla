---------------------------------- MODULE Lanes --------------------------------
(***************************************************************************)
(* Loops over the lanes of an array, as the kernels of NDArray write them: *)
(* while there are w lanes left, w at a time, then narrower.               *)
(***************************************************************************)
EXTENDS Integers, Sequences

\* What a lane holds that no loop has written.
Unset == "unset"

\* f[0] + .. + f[n - 1], and their product
SumTo(f, n) == LET s[i \in 0 .. n] == IF i = 0 THEN 0 ELSE s[i - 1] + f[i - 1] IN s[n]
ProductTo(f, n) == LET p[i \in 0 .. n] == IF i = 0 THEN 1 ELSE p[i - 1] * f[i - 1] IN p[n]

Min2(p, q) == IF p < q THEN p ELSE q
Max2(p, q) == IF p > q THEN p ELSE q

\* The first lane that is left when loops of these widths have run one after another.
Left(n, widths) ==
    LET at[k \in 0 .. Len(widths)] ==
            IF k = 0 THEN 0 ELSE at[k - 1] + ((n - at[k - 1]) \div widths[k]) * widths[k]
    IN at[Len(widths)]

\* What these loops write when f is what belongs in each of n lanes.
Written(f, n, widths) == [i \in 0 .. n - 1 |-> IF i < Left(n, widths) THEN f[i] ELSE Unset]
=============================================================================
