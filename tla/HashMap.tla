-------------------------------- MODULE HashMap --------------------------------
(***************************************************************************)
(* HashMap: include/ds/HashMap.h, with the iterators of ds/Map.h.          *)
(*                                                                         *)
(* Several maps, so that copies and moves have two ends.  A map that was   *)
(* moved from has no table (capacity 0): it can be assigned to and         *)
(* destroyed, and a lookup in it would divide by zero.                     *)
(***************************************************************************)
EXTENDS Integers, Sequences, FiniteSets, FiniteSetsExt, OpenAddressing

CONSTANTS MapKeys, MapValues,
          Maps,
          FirstCapacity,      \* the capacity a map is built with
          MaxCapacity         \* bound

\* Keys have hashes, a hole is no entry, and the constructor makes one place of none.
ASSUME MapAssumption ==
    /\ \A k \in MapKeys : HashOf[k] \in Nat
    /\ Hole \notin [key : MapKeys, value : MapValues]
    /\ FirstCapacity \in Nat \ {0}

VARIABLES table,       \* of each map
          dictionary   \* what the map stands for: a set of <<key, value>>

mapVars == <<table, dictionary>>

Entry(k, v) == [key |-> k, value |-> v]

MapTypeOK ==
    \A m \in Maps :
       /\ DOMAIN table[m] = 0 .. Capacity(table[m]) - 1
       /\ Entries(table[m]) \subseteq [key : MapKeys, value : MapValues]

MapInit ==
    /\ table = [m \in Maps |-> EmptyTable(FirstCapacity)]
    /\ dictionary = [m \in Maps |-> {}]

----------------------------------------------------------------------------

\* resize: every entry is put into a table of the new size, where there is room for it.
Resized(t, capacity) == Refilled(t, capacity)[Capacity(t)]

\* put
PutEntry(t, e) ==
    LET s == Stored(t, e) IN
    IF Cardinality(Present(s)) = Capacity(s) THEN Resized(s, 2 * Capacity(s)) ELSE s

\* "Fix any broken parts of the hashmap": from place i on, up to the first hole, each
\* entry is taken out and put back.
Round(s) ==
    LET u == PutEntry([s.table EXCEPT ![s.at] = Hole], s.table[s.at]) IN
    IF s.table[s.at] = Hole THEN s ELSE [table |-> u, at |-> (s.at + 1) % Capacity(u)]

Rounds(t, i) ==
    LET s[n \in Nat] == IF n = 0 THEN [table |-> t, at |-> i] ELSE Round(s[n - 1]) IN s

\* There is a hole within so many rounds, where the loop ends.
Repaired(t, i) == Rounds(t, i)[Capacity(t)].table

\* remove, drop
Without(t, key) ==
    IF ~Has(t, key) THEN t
    ELSE LET i == Locate(t, key) IN Repaired([t EXCEPT ![i] = Hole], (i + 1) % Capacity(t))

----------------------------------------------------------------------------

Usable(m) == Capacity(table[m]) > 0

Bind(d, k, v) == {p \in d : p[1] # k} \cup {<<k, v>>}

\* put, putPtr
Put(m, k, v) ==
    /\ Usable(m)
    /\ Capacity(PutEntry(table[m], Entry(k, v))) <= MaxCapacity
    /\ table' = [table EXCEPT ![m] = PutEntry(@, Entry(k, v))]
    /\ dictionary' = [dictionary EXCEPT ![m] = Bind(@, k, v)]

\* remove, drop
RemoveKey(m, k) ==
    /\ Usable(m)
    /\ table' = [table EXCEPT ![m] = Without(@, k)]
    /\ dictionary' = [dictionary EXCEPT ![m] = {p \in @ : p[1] # k}]

\* clear
ClearMap(m) ==
    /\ table' = [table EXCEPT ![m] = EmptyTable(Capacity(@))]
    /\ dictionary' = [dictionary EXCEPT ![m] = {}]

\* The copy constructor and operator=: entry by entry, place by place.
CopyMap(m, n) ==
    /\ m # n
    /\ table' = [table EXCEPT ![m] = table[n]]
    /\ dictionary' = [dictionary EXCEPT ![m] = dictionary[n]]

\* The move constructor and operator=
MoveMap(m, n) ==
    /\ m # n
    /\ table' = [table EXCEPT ![m] = table[n], ![n] = EmptyTable(0)]
    /\ dictionary' = [dictionary EXCEPT ![m] = dictionary[n], ![n] = {}]

\* putFrom: in the order of the other map's places
PutInto(t, other) ==
    LET u[n \in 0 .. Capacity(other)] ==
            IF n = 0 THEN t
            ELSE IF other[n - 1] = Hole THEN u[n - 1] ELSE PutEntry(u[n - 1], other[n - 1])
    IN  u

PutFrom(m, n) ==
    LET t == PutInto(table[m], table[n])[Capacity(table[n])] IN
    /\ m # n /\ Usable(m)
    /\ Capacity(t) <= MaxCapacity
    /\ table' = [table EXCEPT ![m] = t]
    /\ dictionary' = [dictionary EXCEPT ![m] =
                         {p \in @ : \A q \in dictionary[n] : q[1] # p[1]} \cup dictionary[n]]

MapNext ==
    \E m \in Maps :
       \/ \E k \in MapKeys : \/ RemoveKey(m, k)
                             \/ \E v \in MapValues : Put(m, k, v)
       \/ ClearMap(m)
       \/ \E n \in Maps : CopyMap(m, n) \/ MoveMap(m, n) \/ PutFrom(m, n)

MapSpec == MapInit /\ [][MapNext]_mapVars

----------------------------------------------------------------------------

\* operator== of two maps: sizes, then every entry of one is looked up in the other.
SameAs(m, n) ==
    /\ Cardinality(Present(table[m])) = Cardinality(Present(table[n]))
    /\ \A e \in Entries(table[m]) :
          Has(table[n], e.key) /\ table[n][Locate(table[n], e.key)].value = e.value

\* After any sequence of puts, removals, growth, copies and moves a map holds its
\* dictionary, every key is found where the probe looks for it, there is a hole for the
\* probe of a key that is not there to stop at, iteration in either direction meets every
\* entry once, and two maps are equal when their dictionaries are, wherever the entries lie.
HashMapRight ==
    /\ \A m \in Maps :
          /\ {<<e.key, e.value>> : e \in Entries(table[m])} = dictionary[m]
          /\ TableRight(table[m]) /\ IterationRight(table[m])
          /\ Usable(m) => Cardinality(Present(table[m])) < Capacity(table[m])
    /\ \A m, n \in Maps :
          Usable(m) /\ Usable(n) => (SameAs(m, n) <=> dictionary[m] = dictionary[n])
=============================================================================
