------------------------------- MODULE ArraySet -------------------------------
(***************************************************************************)
(* ArraySet: include/ds/ArraySet.h, with the set operations of ds/Set.h.   *)
(*                                                                         *)
(* A sorted array.  Its capacity is left out: prepare always makes room    *)
(* for what is about to be added.                                          *)
(***************************************************************************)
EXTENDS Integers, Sequences, FiniteSets

CONSTANTS SortedSets, Numbers

ASSUME NumbersAssumption == Numbers \subseteq Int

VARIABLES sorted,     \* the array of each set
          members     \* the set it stands for

sortedVars == <<sorted, members>>

ArraySetTypeOK ==
    /\ sorted \in [SortedSets -> Seq(Numbers)]
    /\ members \in [SortedSets -> SUBSET Numbers]

ArraySetInit ==
    /\ sorted = [s \in SortedSets |-> <<>>]
    /\ members = [s \in SortedSets |-> {}]

----------------------------------------------------------------------------

\* A round of the loop of search, indices from 0.  A place that is returned is the end of it.
SearchRound(e, query, s) ==
    LET mid == s.low + (s.high - s.low) \div 2 IN
    IF s.low > s.high THEN s
    ELSE IF e[mid + 1] = query THEN [low |-> mid, high |-> mid - 1, result |-> mid]
    ELSE IF e[mid + 1] < query THEN [s EXCEPT !.low = mid + 1, !.result = mid + 1]
    ELSE [s EXCEPT !.high = mid - 1]

SearchRounds(e, query) ==
    LET s[k \in Nat] ==
            IF k = 0 THEN [low |-> 0, high |-> Len(e) - 1, result |-> 0]
            ELSE SearchRound(e, query, s[k - 1])
    IN  s

\* search with returnNearest: the place of the query, or the place where it would go
NearestIndex(e, query) == SearchRounds(e, query)[Len(e)].result

\* search without it
Found(e, query) == LET i == NearestIndex(e, query) IN i < Len(e) /\ e[i + 1] = query

\* What is at i and behind moves up by one.
Inserted(e, i, v) == SubSeq(e, 1, i) \o <<v>> \o SubSeq(e, i + 1, Len(e))

\* addRaw
AddRaw(e, v) == IF Found(e, v) THEN e ELSE Inserted(e, NearestIndex(e, v), v)

\* removeAt
RemovedAt(e, i) == SubSeq(e, 1, i) \o SubSeq(e, i + 2, Len(e))

\* The array when k of vs have been added
AddedRaw(e, vs) ==
    LET d[k \in 0 .. Len(vs)] == IF k = 0 THEN e ELSE AddRaw(d[k - 1], vs[k]) IN d

AddRawAll(e, vs) == AddedRaw(e, vs)[Len(vs)]

\* The loop of isSubsetOf: how many of e have been met among the first j of f, or -1 when
\* one of them is not there.
Met(e, f) ==
    LET i[j \in 0 .. Len(f)] ==
            IF j = 0 THEN 0
            ELSE IF i[j - 1] \in {-1, Len(e)} THEN i[j - 1]
            ELSE IF e[i[j - 1] + 1] = f[j] THEN i[j - 1] + 1
            ELSE IF e[i[j - 1] + 1] < f[j] THEN -1
            ELSE i[j - 1]
    IN  i

IsSubsetOf(e, f) == Len(e) <= Len(f) /\ Met(e, f)[Len(f)] = Len(e)

----------------------------------------------------------------------------

Stands(s, e, m) ==
    /\ sorted' = [sorted EXCEPT ![s] = e]
    /\ members' = [members EXCEPT ![s] = m]

Insert(s, v) == Stands(s, AddRaw(sorted[s], v), members[s] \cup {v})

\* remove; removeAt of a place that is there
RemoveNumber(s, v) ==
    LET e == sorted[s] IN
    Stands(s, IF Found(e, v) THEN RemovedAt(e, NearestIndex(e, v)) ELSE e, members[s] \ {v})

\* pop: the largest
PopLargest(s) ==
    /\ sorted[s] # <<>>
    /\ Stands(s, SubSeq(sorted[s], 1, Len(sorted[s]) - 1),
             {v \in members[s] : \E w \in members[s] : v < w})

\* addFrom and addMany
InsertFrom(s, r) == s # r /\ Stands(s, AddRawAll(sorted[s], sorted[r]), members[s] \cup members[r])

InsertMany(s, vs) ==
    Stands(s, AddRawAll(sorted[s], vs), members[s] \cup {vs[k] : k \in DOMAIN vs})

ClearNumbers(s) == Stands(s, <<>>, {})

\* The copy constructor and operator=
CopyNumbers(s, r) == s # r /\ Stands(s, sorted[r], members[r])

\* The move constructor and operator=
MoveNumbers(s, r) ==
    /\ s # r
    /\ sorted' = [sorted EXCEPT ![s] = sorted[r], ![r] = <<>>]
    /\ members' = [members EXCEPT ![s] = members[r], ![r] = {}]

ArraySetNext ==
    \E s \in SortedSets :
       \/ \E v \in Numbers : \/ Insert(s, v) \/ RemoveNumber(s, v)
                             \/ \E w \in Numbers : InsertMany(s, <<v, w>>)
       \/ PopLargest(s) \/ ClearNumbers(s)
       \/ \E r \in SortedSets : InsertFrom(s, r) \/ CopyNumbers(s, r) \/ MoveNumbers(s, r)

ArraySetSpec == ArraySetInit /\ [][ArraySetNext]_sortedVars

----------------------------------------------------------------------------

\* The array is sorted and holds the set, the binary search finds what is there and
\* nothing else, and the merge that decides on subsets decides right.
ArraySetRight ==
    /\ \A s \in SortedSets :
          LET e == sorted[s] IN
          /\ {e[k] : k \in DOMAIN e} = members[s]
          /\ \A k \in 1 .. Len(e) - 1 : e[k] < e[k + 1]
          /\ \A v \in Numbers : Found(e, v) <=> v \in members[s]
    /\ \A s, r \in SortedSets : IsSubsetOf(sorted[s], sorted[r]) <=> members[s] \subseteq members[r]
=============================================================================
