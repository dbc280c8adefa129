---------------------------- MODULE OpenAddressing ----------------------------
(***************************************************************************)
(* What HashMap and HashSet have in common: ds/HashMap.h, ds/HashSet.h.    *)
(*                                                                         *)
(* A table is a function from 0 .. capacity - 1 to entries or None; the    *)
(* bit mask of the code says which.  An entry has a key.  Keys are probed  *)
(* from their hash on, round the table, up to the first hole.              *)
(***************************************************************************)
EXTENDS Integers, Sequences, FiniteSets, FiniteSetsExt

CONSTANTS HashOf,     \* obviousHashFunction of each key, before the remainder
          Hole

\* allocate: a mask of zeroes.
EmptyTable(capacity) == [i \in 0 .. capacity - 1 |-> Hole]

Capacity(t) == Cardinality(DOMAIN t)
Present(t) == {i \in DOMAIN t : t[i] # Hole}
Entries(t) == {t[i] : i \in Present(t)}

\* The offset from the key's own place at which the probe stops: at a hole, or at the key.
StopsAt(t, key) ==
    {d \in 0 .. Capacity(t) - 1 :
        LET e == t[(HashOf[key] + d) % Capacity(t)] IN e = Hole \/ e.key = key}

\* locate: -1 when the table is full and the key is not there.
Locate(t, key) ==
    IF StopsAt(t, key) = {} THEN -1 ELSE (HashOf[key] + Min(StopsAt(t, key))) % Capacity(t)

\* hasKey, getPtr, contains
Has(t, key) == LET i == Locate(t, key) IN i # -1 /\ t[i] # Hole

\* getFirst, getNext, the iterators' ++: -1 is the end.
NextIndex(t, i) ==
    LET later == {j \in Present(t) : j > i} IN IF later = {} THEN -1 ELSE Min(later)

\* getLast, getPrevious, the iterators' --: from the end, -1, to the last entry.
PreviousIndex(t, i) ==
    LET earlier == {j \in Present(t) : i = -1 \/ j < i} IN
    IF earlier = {} THEN -1 ELSE Max(earlier)

\* The places from i on, each followed by the next one, up to the end
WalkFrom(t, next, i) ==
    LET at[k \in Nat] == IF k = 0 THEN i
                         ELSE IF at[k - 1] = -1 THEN -1 ELSE next[at[k - 1]]
    IN  [k \in 1 .. Min({n \in 0 .. Capacity(t) : at[n] = -1}) |-> at[k - 1]]

\* From place i on, with ++, up to the end.
ForwardFrom(t, i) == WalkFrom(t, [j \in Present(t) |-> NextIndex(t, j)], i)

\* ... with --, which is the end again after the first place.
BackwardFrom(t, i) == WalkFrom(t, [j \in Present(t) |-> PreviousIndex(t, j)], i)

\* From begin to end, and with reverse iterators. PreviousIndex of the first place is the
\* end again, where rend, made of begin, has stopped the loop.
Forward(t) == ForwardFrom(t, NextIndex(t, -1))
Backward(t) == BackwardFrom(t, PreviousIndex(t, -1))

----------------------------------------------------------------------------

\* An entry is stored where its key is, or in the first hole after the key's own place.
Stored(t, e) == [t EXCEPT ![Locate(t, e.key)] = e]

\* The table after the first n places of t have been put into an empty one.
Refilled(t, capacity) ==
    LET u[n \in 0 .. Capacity(t)] ==
            IF n = 0 THEN EmptyTable(capacity)
            ELSE IF t[n - 1] = Hole THEN u[n - 1] ELSE Stored(u[n - 1], t[n - 1])
    IN  u

----------------------------------------------------------------------------

\* Lookups find exactly the entries that are there, each under its own key.
TableRight(t) == \A i \in Present(t) : Locate(t, t[i].key) = i

\* Both directions of iteration meet each entry once, one in the order of the places and
\* the other in reverse.
IterationRight(t) ==
    LET there == Forward(t)  back == Backward(t)  n == Len(there) IN
    /\ n = Cardinality(Present(t))
    /\ {there[k] : k \in 1 .. n} = Present(t)
    /\ back = [k \in 1 .. n |-> there[n + 1 - k]]
=============================================================================
