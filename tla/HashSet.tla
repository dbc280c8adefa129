-------------------------------- MODULE HashSet --------------------------------
(***************************************************************************)
(* HashSet: include/ds/HashSet.h, with the set operations of ds/Set.h.     *)
(*                                                                         *)
(* Unlike a HashMap it may be full; it then grows with the next new key.   *)
(* A set that was moved from has no table, and one built with a capacity   *)
(* of zero neither ("capacity = 1" sets the parameter, not the member):    *)
(* only assignment and destruction are for those.                          *)
(***************************************************************************)
EXTENDS Integers, Sequences, FiniteSets, FiniteSetsExt, OpenAddressing

CONSTANTS SetKeys, Sets, FirstSetCapacity, MaxSetCapacity

\* Keys have hashes, and a hole is no entry.
ASSUME SetAssumption ==
    /\ \A k \in SetKeys : HashOf[k] \in Nat
    /\ Hole \notin [key : SetKeys]
    /\ FirstSetCapacity \in Nat

VARIABLES places,     \* the table of each set
          elements    \* the set it stands for

setVars == <<places, elements>>

SetTypeOK ==
    \A s \in Sets : /\ DOMAIN places[s] = 0 .. Capacity(places[s]) - 1
                    /\ Entries(places[s]) \subseteq [key : SetKeys]

SetInit ==
    /\ places = [s \in Sets |-> EmptyTable(FirstSetCapacity)]
    /\ elements = [s \in Sets |-> {}]

----------------------------------------------------------------------------

\* The end of add
Placed(t, e) == Stored(t, e)

\* resize
Grown(t, capacity) == Refilled(t, capacity)[Capacity(t)]

\* add: a full table without the key is doubled first.
Added(t, e) ==
    IF Locate(t, e.key) = -1 THEN Placed(Grown(t, 2 * Capacity(t)), e) ELSE Placed(t, e)

\* (bug) The entries behind the hole stay where they are.
SetHoleOnly(t, i) == t

\* "Fix any broken parts of the hashset": the table may have been full, so this may go
\* all the way round, to the hole that it moves itself.
SetRound(s) ==
    LET u == Added([s.table EXCEPT ![s.at] = Hole], s.table[s.at]) IN
    IF s.table[s.at] = Hole THEN s ELSE [table |-> u, at |-> (s.at + 1) % Capacity(u)]

SetRounds(t, i) ==
    LET s[n \in Nat] == IF n = 0 THEN [table |-> t, at |-> i] ELSE SetRound(s[n - 1]) IN s

\* The loop ends within so many rounds.
RepairedSet(t, i) == SetRounds(t, i)[2 * Capacity(t)].table

\* remove
Removed(t, key) ==
    IF ~Has(t, key) THEN t
    ELSE LET i == Locate(t, key) IN RepairedSet([t EXCEPT ![i] = Hole], (i + 1) % Capacity(t))

\* The table after the first n places of another one have been added
AddAll(t, other) ==
    LET u[n \in 0 .. Capacity(other)] ==
            IF n = 0 THEN t
            ELSE IF other[n - 1] = Hole THEN u[n - 1] ELSE Added(u[n - 1], other[n - 1])
    IN  u

\* ... the first n of some keys
AddKeys(t, keys) ==
    LET u[n \in 0 .. Len(keys)] ==
            IF n = 0 THEN t ELSE Added(u[n - 1], [key |-> keys[n]])
    IN  u

\* addFrom: more than three quarters full, with what is coming, makes room at once.
AddedFrom(t, other) ==
    LET n == Cardinality(Present(other))
        s == IF 4 * (Cardinality(Present(t)) + n) > 3 * Capacity(t)
             THEN Grown(t, 2 * Capacity(t) + n) ELSE t
    IN  AddAll(s, other)[Capacity(other)]

----------------------------------------------------------------------------

InUse(s) == Capacity(places[s]) > 0

Becomes(s, t, members) ==
    /\ Capacity(t) <= MaxSetCapacity
    /\ places' = [places EXCEPT ![s] = t]
    /\ elements' = [elements EXCEPT ![s] = members]

AddKey(s, k) == InUse(s) /\ Becomes(s, Added(places[s], [key |-> k]), elements[s] \cup {k})

RemoveMember(s, k) == InUse(s) /\ Becomes(s, Removed(places[s], k), elements[s] \ {k})

ClearSet(s) == Becomes(s, EmptyTable(Capacity(places[s])), {})

AddFrom(s, r) ==
    /\ s # r /\ InUse(s)
    /\ Becomes(s, AddedFrom(places[s], places[r]), elements[s] \cup elements[r])

\* HashSet(src, qty), from an initializer list or a container: room for 7/5 of them
Build(s, keys) ==
    Becomes(s, AddKeys(EmptyTable((Len(keys) * 7) \div 5 + 1), keys)[Len(keys)],
            {keys[k] : k \in 1 .. Len(keys)})

\* The copy constructor and operator=: a table of the same size, filled by addFrom
CopySet(s, r) ==
    /\ s # r /\ InUse(r)
    /\ Becomes(s, AddedFrom(EmptyTable(Capacity(places[r])), places[r]),
               elements[r])

\* The move constructor and operator=
MoveSet(s, r) ==
    /\ s # r
    /\ places' = [places EXCEPT ![s] = places[r], ![r] = EmptyTable(0)]
    /\ elements' = [elements EXCEPT ![s] = elements[r], ![r] = {}]

SetNext ==
    \E s \in Sets :
       \/ \E k \in SetKeys : \/ AddKey(s, k) \/ RemoveMember(s, k)
                             \/ \E l \in SetKeys : Build(s, <<k, l>>)
       \/ ClearSet(s)
       \/ \E r \in Sets : AddFrom(s, r) \/ CopySet(s, r) \/ MoveSet(s, r)

SetSpec == SetInit /\ [][SetNext]_setVars

----------------------------------------------------------------------------

\* isSubsetOf
SubsetOf(s, r) ==
    /\ Cardinality(Present(places[s])) <= Cardinality(Present(places[r]))
    /\ \A e \in Entries(places[s]) : Has(places[r], e.key)

\* A set holds its elements and finds each of them, and no other key, after any sequence
\* of calls, full or not; iteration in either direction meets each once; subsets are
\* recognised wherever the entries lie.
HashSetRight ==
    /\ \A s \in Sets : InUse(s) =>
          /\ {e.key : e \in Entries(places[s])} = elements[s]
          /\ TableRight(places[s]) /\ IterationRight(places[s])
          /\ \A k \in SetKeys : Has(places[s], k) <=> k \in elements[s]
    /\ \A s, r \in Sets :
          InUse(s) /\ InUse(r) => (SubsetOf(s, r) <=> elements[s] \subseteq elements[r])
=============================================================================
