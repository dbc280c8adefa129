---------------------------- MODULE ContainerProofs ----------------------------
(***************************************************************************)
(* Proofs about the containers in memory: HashMap and HashSet, ArrayList,  *)
(* ArraySet, LinkedList and Queue, for any items, any hash function, any   *)
(* number of containers and any capacities.                                *)
(*                                                                         *)
(* In a hash table an entry is found when nothing but entries is between   *)
(* it and its key's own place, round the ring of places (Probed). Taking   *)
(* an entry out may break this for the entries behind the hole. The loop   *)
(* that closes the gap takes each of them out and puts it back, and what   *)
(* it keeps, from place p on its way to the next hole L, is Closing:       *)
(* behind p all ways are open again, before it they may lead over the      *)
(* holes that the loop has not come to, and none leads past L. At L the    *)
(* table is probed.                                                        *)
(*                                                                         *)
(* A map always has a hole (GoodTable).  A set may be full, and then the   *)
(* loop goes all the way round, to the hole that it moves itself.  That    *)
(* it ends well is because one place of a full table is in nobody's way,   *)
(* the one taken last (Spare).                                             *)
(*                                                                         *)
(* An ArrayList is given by what its slots hold (HoldsList, Backed in      *)
(* ArrayInv). The binary search of an ArraySet ends where the item is or   *)
(* would be (SearchedBetween, Splits), and the merge of isSubsetOf has     *)
(* met, at each place, all that is smaller (MetTo).                        *)
(*                                                                         *)
(* A LinkedList is a path: a sequence of addresses, none twice, whose      *)
(* nodes point at their neighbours on it (Chained). Each list holds its    *)
(* items on its path beside the nodes of the others (ListHolds), which an  *)
(* operation leaves as they are (SameNodes, OneList); together the paths   *)
(* are all the nodes there are (ListsHold). A Queue is a path on a slab of *)
(* its own, with both its ends known (QueueHolds).                         *)
(*                                                                         *)
(* The models' loops are recursive functions.  That there are functions    *)
(* with such values is shown first, by Recursion and BoundedRecursion of   *)
(* AllocatorProofs.                                                        *)
(***************************************************************************)
EXTENDS AllocatorProofs, Containers

----------------------------------------------------------------------------
(* Tables *)

\* A table of c places for entries of E, whose keys have hashes.
Table(E, c, t) == c \in Nat \ {0} /\ t \in [0 .. c - 1 -> E \cup {Hole}]

\* Entries have hashes, and a hole is none of them.
Hashed(E) == Hole \notin E /\ \A e \in E : HashOf[e.key] \in Nat

\* How far place p is from key k's own place
Off(c, k, p) == Gap(c, HashOf[k] % c, p)

\* No key is there twice; nothing is between an entry and its own place but entries.
KeysApart(c, t) ==
    \A i, j \in 0 .. c - 1 : t[i] # Hole /\ t[j] # Hole /\ t[i].key = t[j].key => i = j

\* Nothing but entries is between place j's entry and its own place.
ReachedAt(c, t, j) ==
    \A q \in 0 .. c - 1 : Off(c, t[j].key, q) < Off(c, t[j].key, j) => t[q] # Hole

\* Every entry is found by its probe.
Probed(c, t) == KeysApart(c, t) /\ \A j \in 0 .. c - 1 : t[j] # Hole => ReachedAt(c, t, j)

\* A probe for a key that is not there ends.
HasHole(c, t) == \E q \in 0 .. c - 1 : t[q] = Hole

\* A table's capacity and entries
LEMMA TableFacts ==
    ASSUME NEW c, NEW E, Hole \notin E, NEW t, Table(E, c, t)
    PROVE  /\ DOMAIN t = 0 .. c - 1 /\ Capacity(t) = c
           /\ Present(t) = {i \in 0 .. c - 1 : t[i] # Hole}
           /\ Entries(t) \subseteq E
           /\ \A i \in 0 .. c - 1 : t[i] # Hole => t[i] \in E
           /\ \A x \in Entries(t) : \E i \in 0 .. c - 1 : t[i] # Hole /\ x = t[i]
           /\ \A i \in 0 .. c - 1 : t[i] # Hole => t[i] \in Entries(t)
  <1>1. DOMAIN t = 0 .. c - 1
    BY DEF Table
  <1>2. Cardinality(0 .. c - 1) = c
    BY FS_Interval DEF Table
  <1>3. QED
    BY <1>1, <1>2 DEF Table, Capacity, Present, Entries

\* Counting the places that are taken
LEMMA PresentFacts ==
    ASSUME NEW c, NEW E, Hole \notin E, NEW t, Table(E, c, t)
    PROVE  /\ IsFiniteSet(Present(t))
           /\ Cardinality(Present(t)) \in 0 .. c
           /\ Cardinality(Present(t)) = c <=> ~HasHole(c, t)
  <1>0. c \in Nat \ {0}
    BY DEF Table
  <1>1. Present(t) = {i \in 0 .. c - 1 : t[i] # Hole}
    BY TableFacts
  <1>2. IsFiniteSet(0 .. c - 1) /\ Cardinality(0 .. c - 1) = c
    BY <1>0, FS_Interval
  <1>3. /\ IsFiniteSet(Present(t)) /\ Cardinality(Present(t)) <= c
        /\ Cardinality(Present(t)) = c => Present(t) = 0 .. c - 1
    BY <1>1, <1>2, FS_Subset
  <1>4. Cardinality(Present(t)) \in Nat
    BY <1>3, FS_CardinalityType
  <1>5. HasHole(c, t) <=> Present(t) # 0 .. c - 1
    BY <1>1 DEF HasHole
  <1>6. Cardinality(Present(t)) = c <=> Present(t) = 0 .. c - 1
    BY <1>2, <1>3
  <1>7. QED
    BY <1>0, <1>2, <1>3, <1>4, <1>5, <1>6

\* Off is a place's distance, different for different places.
LEMMA OffFacts ==
    ASSUME NEW c \in Nat \ {0}, NEW k, HashOf[k] \in Nat
    PROVE  /\ \A p \in 0 .. c - 1 : Off(c, k, p) \in 0 .. c - 1
           /\ \A p, q \in 0 .. c - 1 : Off(c, k, p) = Off(c, k, q) => p = q
  <1>1. HashOf[k] % c \in 0 .. c - 1
    BY Remainders
  <1> DEFINE r == HashOf[k] % c
  <1>2. \A p \in 0 .. c - 1 : Off(c, k, p) = Gap(c, r, p)
    BY DEF Off
  <1> HIDE DEF r
  <1>3. /\ \A p \in 0 .. c - 1 : Gap(c, r, p) \in 0 .. c - 1 /\ Ring(c, r, Gap(c, r, p)) = p
    BY <1>1, RingGap DEF r
  <1>4. QED
    BY <1>2, <1>3

\* The probe meets the places in the order of their distance and stops at the first hole or
\* at the key.
LEMMA LocateFacts ==
    ASSUME NEW c, NEW E, Hashed(E), NEW t, Table(E, c, t), NEW k, HashOf[k] \in Nat
    PROVE  LET i == Locate(t, k) IN
           \/ i = -1 /\ \A q \in 0 .. c - 1 : t[q] # Hole /\ t[q].key # k
           \/ /\ i \in 0 .. c - 1
              /\ t[i] = Hole \/ t[i].key = k
              /\ \A q \in 0 .. c - 1 : Off(c, k, q) < Off(c, k, i) => t[q] # Hole /\ t[q].key # k
  <1> DEFINE h == HashOf[k]
             r == h % c
             Stop(p) == t[p] = Hole \/ t[p].key = k
             S == StopsAt(t, k)
  <1>1. c \in Nat \ {0} /\ Capacity(t) = c /\ r \in 0 .. c - 1
    BY TableFacts, Remainders DEF Table, Hashed
  <1>2. \A d \in 0 .. c - 1 : (h + d) % c = Ring(c, r, d)
    BY <1>1, StepsOn
  <1>3. \A p \in 0 .. c - 1 : Off(c, k, p) = Gap(c, r, p)
    BY DEF Off
  <1>4. S = {d \in 0 .. c - 1 : Stop((h + d) % c)}
    BY <1>1 DEF StopsAt
  <1> HIDE DEF r, S, Stop
  <1>5. \A d \in 0 .. c - 1 : d \in S <=> Stop(Ring(c, r, d))
    BY <1>2, <1>4
  <1>6. \A p \in 0 .. c - 1 : Off(c, k, p) \in 0 .. c - 1 /\ (Off(c, k, p) \in S <=> Stop(p))
    <2>1. \A p \in 0 .. c - 1 : Gap(c, r, p) \in 0 .. c - 1 /\ Ring(c, r, Gap(c, r, p)) = p
      BY <1>1, RingGap
    <2>2. QED
      BY <1>3, <1>5, <2>1
  <1>7. CASE S = {}
    <2>1. Locate(t, k) = -1
      BY <1>7 DEF Locate, S
    <2>2. QED
      BY <1>6, <1>7, <2>1 DEF Stop
  <1>8. CASE S # {}
    <2> DEFINE d == Min(S)
    <2>1. S \subseteq 0 .. c - 1 /\ S \subseteq Nat
      BY <1>1, <1>4
    <2>2. d \in S /\ \A e \in S : d <= e
      BY <1>8, <2>1, MinFacts
    <2>3. Locate(t, k) = (h + d) % c
      BY <1>1, <1>8 DEF Locate, S
    <2> HIDE DEF d
    <2>4. d \in 0 .. c - 1 /\ Locate(t, k) = Ring(c, r, d) /\ Stop(Locate(t, k))
      BY <1>2, <1>5, <2>1, <2>2, <2>3
    <2>5. Locate(t, k) \in 0 .. c - 1 /\ Off(c, k, Locate(t, k)) = d
      BY <1>1, <1>3, <2>4, RingGap
    <2>6. ASSUME NEW q \in 0 .. c - 1, Off(c, k, q) < d PROVE ~Stop(q)
      <3>1. Off(c, k, q) \in 0 .. c - 1
        BY <1>6
      <3>2. Off(c, k, q) \notin S
        BY <2>2, <2>4, <2>6, <3>1
      <3>3. QED
        BY <1>6, <3>2
    <2>7. QED
      BY <2>4, <2>5, <2>6 DEF Stop
  <1>9. QED
    BY <1>7, <1>8

\* In a probed table a key that is there is found, and for another one the probe ends at a
\* hole.
LEMMA LocateProbed ==
    ASSUME NEW c, NEW E, Hashed(E), NEW t, Table(E, c, t), Probed(c, t),
           NEW k, HashOf[k] \in Nat
    PROVE  /\ \A i \in 0 .. c - 1 : t[i] # Hole /\ t[i].key = k => Locate(t, k) = i
           /\ (\A i \in 0 .. c - 1 : t[i] # Hole => t[i].key # k) =>
                 \/ ~HasHole(c, t) /\ Locate(t, k) = -1
                 \/ Locate(t, k) \in 0 .. c - 1 /\ t[Locate(t, k)] = Hole
  <1> DEFINE l == Locate(t, k)
  <1>1. \/ l = -1 /\ \A q \in 0 .. c - 1 : t[q] # Hole /\ t[q].key # k
        \/ /\ l \in 0 .. c - 1
           /\ t[l] = Hole \/ t[l].key = k
           /\ \A q \in 0 .. c - 1 : Off(c, k, q) < Off(c, k, l) => t[q] # Hole /\ t[q].key # k
    BY LocateFacts
  <1> HIDE DEF l
  <1>2. ASSUME NEW i \in 0 .. c - 1, t[i] # Hole, t[i].key = k PROVE l = i
    <2>1. /\ l \in 0 .. c - 1
          /\ t[l] = Hole \/ t[l].key = k
          /\ ~(Off(c, k, i) < Off(c, k, l))
      BY <1>1, <1>2
    <2>2. CASE t[l] # Hole
      BY <1>2, <2>1, <2>2 DEF Probed, KeysApart
    <2>3. CASE t[l] = Hole
      <3>1. ReachedAt(c, t, i)
        BY <1>2 DEF Probed
      <3>2. ~(Off(c, k, l) < Off(c, k, i))
        BY <1>2, <2>1, <2>3, <3>1 DEF ReachedAt
      <3>3. c \in Nat \ {0}
        BY DEF Table
      <3>4. Off(c, k, l) \in 0 .. c - 1 /\ Off(c, k, i) \in 0 .. c - 1
        BY <2>1, <3>3, OffFacts
      <3>5. Off(c, k, l) = Off(c, k, i)
        BY <2>1, <3>2, <3>4
      <3>6. QED
        BY <2>1, <3>3, <3>5, OffFacts
    <2>4. QED
      BY <2>2, <2>3
  <1>3. QED
    BY <1>1, <1>2 DEF HasHole, l

\* A set of entries with e in the place of one with its key.
Over(A, e) == {x \in A : x.key # e.key} \cup {e}

\* There is a hole, or the entry's key is there already.
SpaceFor(c, t, e) == HasHole(c, t) \/ \E i \in 0 .. c - 1 : t[i] # Hole /\ t[i].key = e.key

\* Otherwise the probe ends nowhere.
LEMMA LocateNowhere ==
    ASSUME NEW c, NEW E, Hashed(E), NEW t, Table(E, c, t), Probed(c, t), NEW e \in E,
           ~SpaceFor(c, t, e)
    PROVE  Locate(t, e.key) = -1
  <1> DEFINE k == e.key
  <1>1. HashOf[k] \in Nat
    BY DEF Hashed
  <1>2. ~HasHole(c, t) /\ \A i \in 0 .. c - 1 : t[i] # Hole => t[i].key # k
    BY DEF SpaceFor
  <1> HIDE DEF k
  <1>3. Locate(t, k) = -1
    BY <1>1, <1>2, LocateProbed DEF HasHole
  <1>4. QED
    BY <1>3 DEF k

\* What storing an entry is for
StoredWell(E, c, t, e) ==
    /\ Locate(t, e.key) \in 0 .. c - 1
    /\ t[Locate(t, e.key)] = Hole \/ t[Locate(t, e.key)].key = e.key
    /\ Stored(t, e)[Locate(t, e.key)] = e
    /\ Table(E, c, Stored(t, e))
    /\ Probed(c, Stored(t, e))
    /\ Entries(Stored(t, e)) = Over(Entries(t), e)

\* Storing an entry where there is room, or where its key is, leaves a probed table with
\* this entry.
LEMMA StoredFacts ==
    ASSUME NEW c, NEW E, Hashed(E), NEW t, Table(E, c, t), Probed(c, t), NEW e \in E,
           SpaceFor(c, t, e)
    PROVE  StoredWell(E, c, t, e)
  <1> DEFINE l == Locate(t, e.key)
             s == Stored(t, e)
  <1>1. HashOf[e.key] \in Nat /\ e # Hole /\ Hole \notin E
    BY DEF Hashed
  <1>2. /\ l \in 0 .. c - 1
        /\ t[l] = Hole \/ t[l].key = e.key
        /\ \A q \in 0 .. c - 1 : Off(c, e.key, q) < Off(c, e.key, l) => t[q] # Hole
    <2>1. l # -1
      <3>1. CASE HasHole(c, t)
        <4>1. PICK q \in 0 .. c - 1 : t[q] = Hole
          BY <3>1 DEF HasHole
        <4>2. QED
          BY <1>1, <4>1, LocateFacts
      <3>2. CASE \E i \in 0 .. c - 1 : t[i] # Hole /\ t[i].key = e.key
        BY <1>1, <3>2, LocateFacts
      <3>3. QED
        BY <3>1, <3>2 DEF SpaceFor
    <2>2. \/ l = -1 /\ \A q \in 0 .. c - 1 : t[q] # Hole /\ t[q].key # e.key
          \/ /\ l \in 0 .. c - 1
             /\ t[l] = Hole \/ t[l].key = e.key
             /\ \A q \in 0 .. c - 1 :
                   Off(c, e.key, q) < Off(c, e.key, l) => t[q] # Hole /\ t[q].key # e.key
      BY <1>1, LocateFacts
    <2> HIDE DEF l
    <2>3. QED
      BY <2>1, <2>2
  <1>3. s = [t EXCEPT ![l] = e]
    BY DEF Stored
  <1>4. \A j \in 0 .. c - 1 : t[j] # Hole /\ t[j].key = e.key => j = l
    BY <1>1, LocateProbed
  <1> HIDE DEF l, s
  <1>5. s[l] = e /\ \A q \in 0 .. c - 1 : q # l => s[q] = t[q]
    BY <1>2, <1>3 DEF Table
  <1>6. Table(E, c, s)
    BY <1>3 DEF Table
  <1>7. KeysApart(c, s)
    <2> SUFFICES ASSUME NEW i \in 0 .. c - 1, NEW j \in 0 .. c - 1,
                        s[i] # Hole, s[j] # Hole, s[i].key = s[j].key
                 PROVE  i = j
      BY DEF KeysApart
    <2>1. CASE i = l \/ j = l
      BY <1>4, <1>5, <2>1
    <2>2. CASE i # l /\ j # l
      BY <1>5, <2>2 DEF Probed, KeysApart
    <2>3. QED
      BY <2>1, <2>2
  <1>8. ASSUME NEW j \in 0 .. c - 1, s[j] # Hole PROVE ReachedAt(c, s, j)
    <2> SUFFICES ASSUME NEW q \in 0 .. c - 1, Off(c, s[j].key, q) < Off(c, s[j].key, j)
                 PROVE  s[q] # Hole
      BY DEF ReachedAt
    <2>1. t[q] # Hole
      <3>1. CASE j = l
        BY <1>2, <1>5, <3>1
      <3>2. CASE j # l
        <4>1. s[j] = t[j] /\ ReachedAt(c, t, j)
          BY <1>5, <1>8, <3>2 DEF Probed
        <4>2. QED
          BY <4>1 DEF ReachedAt
      <3>3. QED
        BY <3>1, <3>2
    <2>2. QED
      BY <1>1, <1>5, <2>1
  <1>9. Probed(c, s)
    BY <1>7, <1>8 DEF Probed
  <1>10. Entries(s) = Over(Entries(t), e)
    <2>1. ASSUME NEW x \in Entries(s) PROVE x \in Over(Entries(t), e)
      <3>1. PICK i \in 0 .. c - 1 : s[i] # Hole /\ x = s[i]
        BY <1>1, <1>6, TableFacts
      <3>2. CASE i = l
        BY <1>5, <3>1, <3>2 DEF Over
      <3>3. CASE i # l
        <4>1. x = t[i] /\ t[i] # Hole /\ x.key # e.key
          BY <1>4, <1>5, <3>1, <3>3
        <4>2. x \in Entries(t)
          BY <1>1, <4>1, TableFacts
        <4>3. QED
          BY <4>1, <4>2 DEF Over
      <3>4. QED
        BY <3>2, <3>3
    <2>2. ASSUME NEW x \in Over(Entries(t), e) PROVE x \in Entries(s)
      <3>1. CASE x = e
        BY <1>1, <1>2, <1>5, <1>6, <3>1, TableFacts
      <3>2. CASE x \in Entries(t) /\ x.key # e.key
        <4>1. PICK i \in 0 .. c - 1 : t[i] # Hole /\ x = t[i]
          BY <1>1, <3>2, TableFacts
        <4>2. s[i] = x /\ s[i] # Hole
          BY <1>2, <1>5, <3>2, <4>1
        <4>3. QED
          BY <1>1, <1>6, <4>2, TableFacts
      <3>3. QED
        BY <3>1, <3>2, <2>2 DEF Over
    <2>3. QED
      BY <2>1, <2>2
  <1>11. QED
    BY <1>2, <1>5, <1>6, <1>9, <1>10 DEF l, s, StoredWell

\* Storing an entry leaves the other places alone.
LEMMA StoredElsewhere ==
    ASSUME NEW c, NEW E, NEW t, Table(E, c, t), NEW e
    PROVE  \A q \in 0 .. c - 1 : q # Locate(t, e.key) => Stored(t, e)[q] = t[q]
  BY DEF Stored, Table

\* One entry more takes at most one place more.
LEMMA StoredCount ==
    ASSUME NEW c, NEW E, Hole \notin E, NEW t, Table(E, c, t), NEW s, Table(E, c, s), NEW l,
           \A q \in 0 .. c - 1 : q # l => s[q] = t[q]
    PROVE  Cardinality(Present(s)) <= Cardinality(Present(t)) + 1
  <1>1. /\ Present(t) = {i \in 0 .. c - 1 : t[i] # Hole}
        /\ Present(s) = {i \in 0 .. c - 1 : s[i] # Hole}
    BY TableFacts
  <1>2. Present(s) \subseteq Present(t) \cup {l}
    BY <1>1
  <1>3. /\ IsFiniteSet(Present(t)) /\ Cardinality(Present(t)) \in 0 .. c
        /\ Cardinality(Present(s)) \in 0 .. c
    BY PresentFacts
  <1>4. /\ IsFiniteSet(Present(t) \cup {l})
        /\ \/ Cardinality(Present(t) \cup {l}) = Cardinality(Present(t))
           \/ Cardinality(Present(t) \cup {l}) = Cardinality(Present(t)) + 1
    BY <1>3, FS_AddElement
  <1>5. Cardinality(Present(s)) <= Cardinality(Present(t) \cup {l})
    BY <1>2, <1>4, FS_Subset
  <1>6. c \in Nat
    BY DEF Table
  <1>7. QED
    BY <1>3, <1>4, <1>5, <1>6

\* An empty table
LEMMA EmptyFacts ==
    ASSUME NEW c \in Nat \ {0}, NEW E, Hole \notin E
    PROVE  LET t == EmptyTable(c) IN
           /\ Table(E, c, t) /\ Probed(c, t) /\ HasHole(c, t)
           /\ Entries(t) = {} /\ Present(t) = {} /\ Cardinality(Present(t)) = 0
  <1> DEFINE t == EmptyTable(c)
  <1>1. /\ t \in [0 .. c - 1 -> E \cup {Hole}] /\ DOMAIN t = 0 .. c - 1
        /\ \A i \in 0 .. c - 1 : t[i] = Hole
    BY DEF EmptyTable
  <1> HIDE DEF t
  <1>2. Table(E, c, t) /\ Probed(c, t)
    BY <1>1 DEF Table, Probed, KeysApart
  <1>3. 0 \in 0 .. c - 1
    OBVIOUS
  <1>4. HasHole(c, t) /\ Present(t) = {} /\ Entries(t) = {}
    BY <1>1, <1>3 DEF HasHole, Present, Entries
  <1>5. Cardinality(Present(t)) = 0
    BY <1>4, FS_EmptySet
  <1>6. QED
    BY <1>2, <1>4, <1>5 DEF t

----------------------------------------------------------------------------
(* Growing *)

\* What Refilled says of its value at n
Refill(t, c, u, n) ==
    IF n = 0 THEN EmptyTable(c)
    ELSE IF t[n - 1] = Hole THEN u[n - 1]
    ELSE Stored(u[n - 1], t[n - 1])

\* What is true of the table at each place
RefilledWell(E, c, t, b, R) ==
    \A n \in 0 .. c : Table(E, b, R[n]) /\ Probed(b, R[n]) /\ R[n] = Refill(t, b, R, n)

\* It is a recursion over probed tables of the new capacity.
LEMMA RefilledEquation ==
    ASSUME NEW c, NEW E, Hashed(E), NEW t, Table(E, c, t), NEW b \in Nat \ {0}
    PROVE  RefilledWell(E, c, t, b, Refilled(t, b))
  <1> DEFINE V == {u \in [0 .. b - 1 -> E \cup {Hole}] : Probed(b, u)}
             R == Refilled(t, b)
             Next1(n, u) == IF t[n - 1] = Hole THEN u ELSE Stored(u, t[n - 1])
             step == [n \in 1 .. c |-> [u \in V |-> Next1(n, u)]]
             Def(f) == f = [n \in 0 .. c |-> Refill(t, b, f, n)]
  <1>1. Hole \notin E /\ c \in Nat /\ Capacity(t) = c
    BY TableFacts DEF Hashed, Table
  <1>2. EmptyTable(b) \in V
    BY <1>1, EmptyFacts DEF Table
  <1>3. ASSUME NEW n \in 1 .. c, NEW u \in V PROVE Next1(n, u) \in V
    <2>1. n - 1 \in 0 .. c - 1
      BY <1>1
    <2>2. CASE t[n - 1] = Hole
      BY <2>2
    <2>3. CASE t[n - 1] # Hole
      <3> DEFINE e == t[n - 1]
      <3>1. e \in E /\ Table(E, b, u) /\ Probed(b, u)
        BY <2>1, <2>3 DEF Table
      <3>2. CASE SpaceFor(b, u, e)
        <4>1. Table(E, b, Stored(u, e)) /\ Probed(b, Stored(u, e))
          BY <3>1, <3>2, StoredFacts DEF StoredWell
        <4>2. QED
          BY <2>3, <4>1 DEF Table
      <3>3. CASE ~SpaceFor(b, u, e)
        <4>2. Locate(u, e.key) = -1
          BY <3>1, <3>3, LocateNowhere
        <4>3. Stored(u, e) = [u EXCEPT ![-1] = e]
          BY <4>2 DEF Stored
        <4>4. -1 \notin 0 .. b - 1
          OBVIOUS
        <4>5. \A f \in V : [f EXCEPT ![-1] = e] = f
          BY <4>4
        <4>6. QED
          BY <2>3, <4>3, <4>5
      <3>4. QED
        BY <3>2, <3>3
    <2>4. QED
      BY <2>2, <2>3
  <1>4. step \in [1 .. c -> [V -> V]] /\ \A n \in 1 .. c : \A u \in V : step[n][u] = Next1(n, u)
    BY <1>3
  <1> HIDE DEF step, V
  <1>5. PICK f : FollowsTo(V, EmptyTable(b), c, step, f)
    <2>1. StepsInTo(V, c, step)
      BY <1>4 DEF StepsInTo
    <2>2. QED
      BY <1>1, <1>2, <2>1, BoundedRecursion
  <1>6. ASSUME NEW n \in 0 .. c PROVE f[n] = Refill(t, b, f, n)
    <2>1. CASE n = 0
      BY <1>5, <2>1 DEF Refill, FollowsTo
    <2>2. CASE n # 0
      <3>1. n \in 1 .. c /\ n - 1 \in 0 .. c
        BY <1>1, <2>2
      <3>2. f[n] = Next1(n, f[n - 1])
        BY <1>4, <1>5, <3>1 DEF FollowsTo
      <3>3. QED
        BY <2>2, <3>2 DEF Refill
    <2>3. QED
      BY <2>1, <2>2
  <1>7. DOMAIN f = 0 .. c /\ f = [n \in DOMAIN f |-> f[n]]
    BY <1>5 DEF FollowsTo
  <1>8. Def(f)
    BY <1>6, <1>7
  <1>9. R = CHOOSE h : Def(h)
    BY <1>1 DEF Refilled, Refill
  <1>10. Def(R)
    BY <1>8, <1>9
  <1> HIDE DEF R
  <1>11. \A h : h = [i \in 0 .. c |-> Refill(t, b, R, i)] =>
              \A n \in 0 .. c : h[n] = Refill(t, b, R, n)
    OBVIOUS
  <1>12. \A n \in 0 .. c : R[n] = Refill(t, b, R, n)
    BY <1>10, <1>11
  <1> DEFINE T == {n \in Nat : n <= c => R[n] \in V}
  <1>13. 0 \in T
    <2>1. 0 \in 0 .. c
      BY <1>1
    <2>2. QED
      BY <1>2, <1>12, <2>1 DEF Refill
  <1>14. ASSUME NEW n \in Nat, n \in T PROVE n + 1 \in T
    <2> SUFFICES ASSUME n + 1 <= c PROVE R[n + 1] \in V
      OBVIOUS
    <2>1. n + 1 \in 1 .. c /\ n + 1 \in 0 .. c /\ n + 1 # 0 /\ (n + 1) - 1 = n /\ n <= c
      BY <1>1
    <2>2. R[n] \in V
      BY <1>14, <2>1
    <2>3. R[n + 1] = Next1(n + 1, R[n])
      BY <1>12, <2>1 DEF Refill
    <2>4. QED
      BY <1>3, <2>1, <2>2, <2>3
  <1> HIDE DEF T
  <1>15. Nat \subseteq T
    BY <1>13, <1>14, CountingUp
  <1>16. \A n \in 0 .. c : R[n] \in V
    <2>1. \A n \in 0 .. c : n \in Nat /\ n <= c
      BY <1>1
    <2>2. QED
      BY <1>15, <2>1 DEF T
  <1>17. RefilledWell(E, c, t, b, R)
    BY <1>12, <1>16 DEF V, Table, RefilledWell
  <1>18. QED
    BY <1>17 DEF R

\* A table that grows keeps its entries, and there is a hole in it.
LEMMA RefillFacts ==
    ASSUME NEW c, NEW E, Hashed(E), NEW t, Table(E, c, t), KeysApart(c, t),
           NEW b \in Nat, c < b
    PROVE  LET s == Refilled(t, b)[Capacity(t)] IN
           Table(E, b, s) /\ Probed(b, s) /\ HasHole(b, s) /\ Entries(s) = Entries(t)
  <1> DEFINE R == Refilled(t, b)
             A(n) == {t[i] : i \in {j \in 0 .. n - 1 : t[j] # Hole}}
  <1>1. Hole \notin E /\ c \in Nat \ {0} /\ b \in Nat \ {0} /\ Capacity(t) = c
    <2>1. Hole \notin E
      BY DEF Hashed
    <2>2. c \in Nat \ {0}
      BY DEF Table
    <2>3. Capacity(t) = c
      BY <2>1, TableFacts
    <2>4. QED
      BY <2>1, <2>2, <2>3
  <1>0. RefilledWell(E, c, t, b, R)
    BY <1>1, RefilledEquation
  <1> HIDE DEF R
  <1>2. \A n \in 0 .. c : Table(E, b, R[n]) /\ Probed(b, R[n]) /\ R[n] = Refill(t, b, R, n)
    BY <1>0 DEF RefilledWell
  <1> DEFINE Ok(n) == Entries(R[n]) = A(n) /\ Cardinality(Present(R[n])) <= n
             T == {n \in Nat : n <= c => Ok(n)}
  <1>3. 0 \in T
    <2>1. 0 \in 0 .. c /\ A(0) = {}
      BY <1>1
    <2>2. R[0] = EmptyTable(b)
      BY <1>2, <2>1 DEF Refill
    <2>3. Entries(EmptyTable(b)) = {} /\ Cardinality(Present(EmptyTable(b))) = 0
      BY <1>1, EmptyFacts
    <2>4. QED
      BY <2>1, <2>2, <2>3
  <1>4. ASSUME NEW n \in Nat, n \in T PROVE n + 1 \in T
    <2> SUFFICES ASSUME n + 1 <= c PROVE Ok(n + 1)
      OBVIOUS
    <2>1. /\ n + 1 \in 0 .. c /\ n \in 0 .. c /\ n + 1 # 0 /\ (n + 1) - 1 = n /\ n <= c
          /\ n \in 0 .. c - 1 /\ n < b
      BY <1>1
    <2> DEFINE u == R[n]
               e == t[n]
               s == R[n + 1]
    <2>2. /\ Table(E, b, u) /\ Probed(b, u) /\ Table(E, b, s)
          /\ s = IF e = Hole THEN u ELSE Stored(u, e)
      BY <1>2, <2>1 DEF Refill
    <2>3. Entries(u) = A(n) /\ Cardinality(Present(u)) <= n
      BY <1>4, <2>1
    <2>4. /\ Cardinality(Present(u)) \in 0 .. b
          /\ Cardinality(Present(s)) \in 0 .. b
          /\ Cardinality(Present(u)) = b <=> ~HasHole(b, u)
      BY <1>1, <2>2, PresentFacts
    <2>5. A(n + 1) = IF e = Hole THEN A(n) ELSE A(n) \cup {e}
      <3>1. \A j : j \in 0 .. (n + 1) - 1 <=> j \in 0 .. n - 1 \/ j = n
        OBVIOUS
      <3>2. QED
        BY <3>1
    <2> HIDE DEF s, u
    <2>6. CASE e = Hole
      BY <2>1, <2>2, <2>3, <2>4, <2>5, <2>6 DEF s
    <2>7. CASE e # Hole
      <3>1. e \in E
        BY <2>1, <2>7 DEF Table
      <3>2. HasHole(b, u)
        BY <1>1, <2>1, <2>3, <2>4
      <3>3. /\ \A q \in 0 .. b - 1 : q # Locate(u, e.key) => s[q] = u[q]
            /\ Entries(s) = Over(Entries(u), e)
        <4>1. s = Stored(u, e)
          BY <2>2, <2>7
        <4>2. Table(E, b, u) /\ Probed(b, u)
          BY <2>2
        <4>3. \A q \in 0 .. b - 1 : q # Locate(u, e.key) => Stored(u, e)[q] = u[q]
          BY <4>2, StoredElsewhere
        <4>4. SpaceFor(b, u, e)
          BY <3>2 DEF SpaceFor
        <4>5. Entries(Stored(u, e)) = Over(Entries(u), e)
          <5> HIDE DEF e
          <5>1. StoredWell(E, b, u, e)
            BY <3>1, <4>2, <4>4, StoredFacts
          <5>2. QED
            BY <5>1 DEF StoredWell
        <4>6. QED
          BY <4>1, <4>3, <4>5
      <3>4. \A x \in A(n) : x.key # e.key
        <4> SUFFICES ASSUME NEW i \in 0 .. n - 1, t[i] # Hole PROVE t[i].key # e.key
          OBVIOUS
        <4>1. i \in 0 .. c - 1 /\ i # n
          BY <1>1, <2>1
        <4>2. QED
          BY <2>1, <2>7, <4>1 DEF KeysApart
      <3>5. Entries(s) = A(n + 1)
        BY <2>3, <2>5, <2>7, <3>3, <3>4 DEF Over
      <3>6. Cardinality(Present(s)) <= Cardinality(Present(u)) + 1
        BY <1>1, <2>2, <3>3, StoredCount
      <3>7. Cardinality(Present(s)) <= n + 1
        BY <1>1, <2>3, <2>4, <3>6
      <3>8. QED
        BY <3>5, <3>7 DEF s
    <2>8. QED
      BY <2>6, <2>7
  <1> HIDE DEF T, Ok
  <1>5. Nat \subseteq T
    BY <1>3, <1>4, CountingUp
  <1>6. Ok(c) /\ c \in 0 .. c
    BY <1>1, <1>5 DEF T
  <1> DEFINE s == R[c]
  <1>7. Table(E, b, s) /\ Probed(b, s)
    BY <1>2, <1>6
  <1>8. /\ Cardinality(Present(s)) \in 0 .. b
        /\ Cardinality(Present(s)) = b <=> ~HasHole(b, s)
    BY <1>1, <1>7, PresentFacts
  <1>9. Cardinality(Present(s)) <= c /\ Entries(s) = A(c)
    BY <1>6 DEF Ok
  <1>10. A(c) = Entries(t)
    <2>1. DOMAIN t = 0 .. c - 1
      BY DEF Table
    <2>2. QED
      BY <2>1 DEF Entries, Present
  <1>11. HasHole(b, s)
    BY <1>1, <1>8, <1>9
  <1>12. QED
    BY <1>1, <1>7, <1>9, <1>10, <1>11 DEF R

----------------------------------------------------------------------------
(* Closing the gap behind an entry that was taken out *)

\* Of two places on the way round, how far it is from the first to the second
LEMMA Between ==
    ASSUME NEW c \in Nat \ {0}, NEW r \in 0 .. c - 1, NEW a \in 0 .. c - 1, NEW b \in 0 .. c - 1,
           Gap(c, r, a) <= Gap(c, r, b)
    PROVE  Gap(c, a, b) = Gap(c, r, b) - Gap(c, r, a)
  BY DEF Gap

\* The next place
LEMMA NextPlace ==
    ASSUME NEW c \in Nat \ {0}, NEW p \in 0 .. c - 1
    PROVE  /\ (p + 1) % c \in 0 .. c - 1
           /\ \A b \in 0 .. c - 1 :
                 Gap(c, (p + 1) % c, b) = IF b = p THEN c - 1 ELSE Gap(c, p, b) - 1
  <1>1. CASE p + 1 < c
    <2>1. p + 1 \in 0 .. c - 1 /\ 0 * c + (p + 1) = p + 1
      BY <1>1
    <2>2. (p + 1) % c = p + 1
      BY <2>1, RemainderIs
    <2>3. QED
      BY <1>1, <2>2 DEF Gap
  <1>2. CASE ~(p + 1 < c)
    <2>1. 0 \in 0 .. c - 1 /\ 1 * c + 0 = p + 1
      BY <1>2
    <2>2. (p + 1) % c = 0
      BY <2>1, RemainderIs
    <2>3. p = c - 1
      BY <1>2
    <2>4. \A b \in 0 .. c - 1 : Gap(c, 0, b) = IF b = c - 1 THEN c - 1 ELSE Gap(c, c - 1, b) - 1
      BY DEF Gap
    <2>5. QED
      BY <2>2, <2>3, <2>4
  <1>3. QED
    BY <1>1, <1>2

\* The distances of two places that an entry's way passes
LEMMA OffBetween ==
    ASSUME NEW c \in Nat \ {0}, NEW k, HashOf[k] \in Nat,
           NEW a \in 0 .. c - 1, NEW b \in 0 .. c - 1, Off(c, k, a) <= Off(c, k, b)
    PROVE  Gap(c, a, b) = Off(c, k, b) - Off(c, k, a)
  <1> DEFINE h == HashOf[k] % c
  <1>1. h \in 0 .. c - 1
    BY Remainders
  <1>2. Off(c, k, a) = Gap(c, h, a) /\ Off(c, k, b) = Gap(c, h, b)
    BY DEF Off
  <1> HIDE DEF h
  <1>3. Gap(c, a, b) = Gap(c, h, b) - Gap(c, h, a)
    BY <1>1, <1>2, Between
  <1>4. QED
    BY <1>2, <1>3

\* An entry is taken out and put back.
Moved(u, p) == Stored([u EXCEPT ![p] = Hole], u[p])

\* Up to place L, from p on, everything is taken and may have lost its way; behind p
\* nothing has, and no way leads past L.
Unchecked(c, p, L, j) == Gap(c, p, j) <= Gap(c, p, L)

\* No probe for the entry at j comes by L, or by a hole unless j is still to be checked.
WayOpen(c, u, p, L, j) ==
    \A q \in 0 .. c - 1 : Off(c, u[j].key, q) < Off(c, u[j].key, j) =>
        q # L /\ (u[q] # Hole \/ Unchecked(c, p, L, j))

\* The table while the loop is on its way from p to L
Closing(E, c, u, p, L) ==
    /\ Table(E, c, u) /\ KeysApart(c, u)
    /\ p \in 0 .. c - 1 /\ L \in 0 .. c - 1
    /\ \A q \in 0 .. c - 1 : Gap(c, p, q) < Gap(c, p, L) => u[q] # Hole
    /\ \A j \in 0 .. c - 1 : j # L /\ u[j] # Hole => WayOpen(c, u, p, L, j)

\* What one round does to the table
MovedWell(E, c, u, p, s) ==
    \E l \in 0 .. c - 1 :
       /\ s = [[u EXCEPT ![p] = Hole] EXCEPT ![l] = u[p]]
       /\ l # p => u[l] = Hole
       /\ Off(c, u[p].key, l) <= Off(c, u[p].key, p)
       /\ \A q \in 0 .. c - 1 : Off(c, u[p].key, q) < Off(c, u[p].key, l) => u[q] # Hole /\ q # p

\* The entry goes to the first hole of its way, or back to where it was.
LEMMA MovedFacts ==
    ASSUME NEW c, NEW E, Hashed(E), NEW u, Table(E, c, u), KeysApart(c, u),
           NEW p \in 0 .. c - 1, u[p] # Hole
    PROVE  MovedWell(E, c, u, p, Moved(u, p))
  <1> DEFINE e == u[p]
             v == [u EXCEPT ![p] = Hole]
             k == e.key
             l == Locate(v, k)
  <1>1. e \in E /\ Hole \notin E /\ HashOf[k] \in Nat /\ c \in Nat \ {0}
    BY DEF Table, Hashed
  <1>2. Table(E, c, v) /\ v[p] = Hole /\ \A q \in 0 .. c - 1 : q # p => v[q] = u[q]
    BY DEF Table
  <1>3. \A q \in 0 .. c - 1 : v[q] # Hole => v[q].key # k
    BY <1>2 DEF KeysApart
  <1> HIDE DEF v
  <1>4. \/ l = -1 /\ \A q \in 0 .. c - 1 : v[q] # Hole /\ v[q].key # k
        \/ /\ l \in 0 .. c - 1
           /\ v[l] = Hole \/ v[l].key = k
           /\ \A q \in 0 .. c - 1 : Off(c, k, q) < Off(c, k, l) => v[q] # Hole /\ v[q].key # k
    BY <1>1, <1>2, LocateFacts
  <1>5. Moved(u, p) = [v EXCEPT ![l] = e]
    BY DEF Moved, Stored, v
  <1> HIDE DEF l, e, k
  <1>6. /\ l \in 0 .. c - 1 /\ v[l] = Hole
        /\ \A q \in 0 .. c - 1 : Off(c, k, q) < Off(c, k, l) => v[q] # Hole
    BY <1>2, <1>3, <1>4
  <1>7. Off(c, k, l) \in 0 .. c - 1 /\ Off(c, k, p) \in 0 .. c - 1
    BY <1>1, <1>6, OffFacts
  <1>8. ~(Off(c, k, p) < Off(c, k, l))
    BY <1>2, <1>6
  <1>9. Off(c, k, l) <= Off(c, k, p)
    BY <1>1, <1>7, <1>8
  <1>10. /\ l # p => u[l] = Hole
         /\ \A q \in 0 .. c - 1 : Off(c, k, q) < Off(c, k, l) => u[q] # Hole /\ q # p
    BY <1>2, <1>6
  <1>11. QED
    BY <1>5, <1>6, <1>9, <1>10 DEF MovedWell, e, k, v

\* What stays the same in a round
LEMMA MovedKeeps ==
    ASSUME NEW c, NEW E, Hashed(E), NEW u, Table(E, c, u), KeysApart(c, u),
           NEW p \in 0 .. c - 1, u[p] # Hole
    PROVE  /\ Table(E, c, Moved(u, p)) /\ KeysApart(c, Moved(u, p))
           /\ Entries(Moved(u, p)) = Entries(u)
           /\ HasHole(c, u) => HasHole(c, Moved(u, p))
  <1> DEFINE s == Moved(u, p)
             e == u[p]
             k == e.key
  <1>1. MovedWell(E, c, u, p, s)
    BY MovedFacts
  <1>2. PICK l \in 0 .. c - 1 : /\ s = [[u EXCEPT ![p] = Hole] EXCEPT ![l] = e]
                                /\ l # p => u[l] = Hole
    BY <1>1 DEF MovedWell
  <1> HIDE DEF s
  <1>3. s[l] = e /\ (\A q \in 0 .. c - 1 : q # l /\ q # p => s[q] = u[q]) /\ (p # l => s[p] = Hole)
    BY <1>2 DEF Table
  <1>4. e \in E /\ Hole \notin E /\ e # Hole
    BY DEF Table, Hashed
  <1>5. Table(E, c, s)
    BY <1>2, <1>4 DEF Table
  <1>6. KeysApart(c, s)
    <2> SUFFICES ASSUME NEW i \in 0 .. c - 1, NEW j \in 0 .. c - 1,
                        s[i] # Hole, s[j] # Hole, s[i].key = s[j].key
                 PROVE  i = j
      BY DEF KeysApart
    <2>1. (i # l => i # p /\ s[i] = u[i]) /\ (j # l => j # p /\ s[j] = u[j])
      BY <1>3
    <2>2. QED
      BY <1>3, <2>1 DEF KeysApart
  <1>7. Entries(s) = Entries(u)
    <2>1. ASSUME NEW x \in Entries(s) PROVE x \in Entries(u)
      <3>1. PICK i \in 0 .. c - 1 : s[i] # Hole /\ x = s[i]
        BY <1>4, <1>5, TableFacts
      <3>2. CASE i = l
        BY <1>3, <1>4, <3>1, <3>2, TableFacts
      <3>3. CASE i # l
        BY <1>3, <1>4, <3>1, <3>3, TableFacts
      <3>4. QED
        BY <3>2, <3>3
    <2>2. ASSUME NEW x \in Entries(u) PROVE x \in Entries(s)
      <3>1. PICK i \in 0 .. c - 1 : u[i] # Hole /\ x = u[i]
        BY <1>4, TableFacts
      <3>2. CASE i = p
        <4>1. s[l] = x /\ s[l] # Hole
          BY <1>3, <1>4, <3>1, <3>2
        <4>2. QED
          BY <1>4, <1>5, <4>1, TableFacts
      <3>3. CASE i # p
        <4>1. i # l
          BY <1>2, <3>1, <3>3
        <4>2. s[i] = x /\ s[i] # Hole
          BY <1>3, <3>1, <3>3, <4>1
        <4>3. QED
          BY <1>4, <1>5, <4>2, TableFacts
      <3>4. QED
        BY <3>2, <3>3
    <2>3. QED
      BY <2>1, <2>2
  <1>8. HasHole(c, u) => HasHole(c, s)
    <2> SUFFICES ASSUME NEW q \in 0 .. c - 1, u[q] = Hole PROVE HasHole(c, s)
      BY DEF HasHole
    <2>1. CASE p = l
      <3>1. s[q] = Hole
        BY <1>3, <2>1
      <3>2. QED
        BY <3>1 DEF HasHole
    <2>2. CASE p # l
      BY <1>3, <2>2 DEF HasHole
    <2>3. QED
      BY <2>1, <2>2
  <1>9. QED
    BY <1>5, <1>6, <1>7, <1>8 DEF s

\* Two tables have the same in a place.
SameAt(L, t, u) == t[L] = u[L]

\* One round before L
LEMMA ClosingStep ==
    ASSUME NEW c, NEW E, Hashed(E), NEW u, NEW p, NEW L, Closing(E, c, u, p, L), p # L
    PROVE  /\ u[p] # Hole
           /\ Closing(E, c, Moved(u, p), (p + 1) % c, L)
           /\ SameAt(L, u, Moved(u, p))
  <1> DEFINE s == Moved(u, p)
             e == u[p]
             k == e.key
             n == (p + 1) % c
  <1>1. /\ c \in Nat \ {0} /\ p \in 0 .. c - 1 /\ L \in 0 .. c - 1
        /\ Table(E, c, u) /\ KeysApart(c, u)
        /\ \A q \in 0 .. c - 1 : Gap(c, p, q) < Gap(c, p, L) => u[q] # Hole
        /\ \A j \in 0 .. c - 1 : j # L /\ u[j] # Hole => WayOpen(c, u, p, L, j)
    BY DEF Closing, Table
  <1>2. /\ n \in 0 .. c - 1
        /\ \A b \in 0 .. c - 1 : Gap(c, n, b) = IF b = p THEN c - 1 ELSE Gap(c, p, b) - 1
    BY <1>1, NextPlace
  <1>3. \A b \in 0 .. c - 1 : Gap(c, p, b) \in 0 .. c - 1 /\ (Gap(c, p, b) = 0 <=> b = p)
    BY <1>1 DEF Gap
  <1>4. u[p] # Hole
    <2>1. Gap(c, p, p) < Gap(c, p, L)
      BY <1>1, <1>3
    <2>2. QED
      BY <1>1, <2>1
  <1>5. /\ Table(E, c, s) /\ KeysApart(c, s)
        /\ MovedWell(E, c, u, p, s)
    BY <1>1, <1>4, MovedKeeps, MovedFacts
  <1>6. e \in E /\ Hole \notin E /\ e # Hole /\ HashOf[k] \in Nat
    BY <1>1, <1>4 DEF Table, Hashed
  <1> HIDE DEF s, n
  <1>7. PICK l \in 0 .. c - 1 :
           /\ s = [[u EXCEPT ![p] = Hole] EXCEPT ![l] = e]
           /\ l # p => u[l] = Hole
           /\ Off(c, k, l) <= Off(c, k, p)
           /\ \A q \in 0 .. c - 1 : Off(c, k, q) < Off(c, k, l) => u[q] # Hole /\ q # p
    BY <1>5 DEF MovedWell
  <1>8. s[l] = e /\ (\A q \in 0 .. c - 1 : q # l /\ q # p => s[q] = u[q]) /\ (p # l => s[p] = Hole)
    BY <1>1, <1>7 DEF Table
  <1>9. \A q \in 0 .. c - 1 : Off(c, k, q) < Off(c, k, p) => q # L
    BY <1>1, <1>4 DEF WayOpen
  <1>10. \A q \in 0 .. c - 1 : Off(c, k, q) \in 0 .. c - 1
    BY <1>1, <1>6, OffFacts
  <1>11. l # L
    <2>1. CASE l = p
      BY <2>1
    <2>2. CASE l # p
      <3>1. Off(c, k, l) # Off(c, k, p)
        BY <1>1, <1>6, <2>2, OffFacts
      <3>2. Off(c, k, l) < Off(c, k, p)
        BY <1>1, <1>7, <1>10, <3>1
      <3>3. QED
        BY <1>9, <3>2
    <2>3. QED
      BY <2>1, <2>2
  <1>12. s[L] = u[L]
    BY <1>1, <1>8, <1>11
  <1>13. ASSUME NEW q \in 0 .. c - 1, Gap(c, n, q) < Gap(c, n, L) PROVE s[q] # Hole
    <2>1. q # p /\ Gap(c, p, q) < Gap(c, p, L)
      <3>1. Gap(c, n, L) = Gap(c, p, L) - 1
        BY <1>1, <1>2
      <3>2. Gap(c, p, L) \in 0 .. c - 1 /\ Gap(c, p, q) \in 0 .. c - 1
        BY <1>1, <1>3
      <3>3. q # p
        BY <1>1, <1>2, <1>13, <3>1, <3>2
      <3>4. QED
        BY <1>1, <1>2, <1>13, <3>1, <3>2, <3>3
    <2>2. u[q] # Hole
      BY <1>1, <2>1
    <2>3. QED
      BY <1>6, <1>8, <2>1, <2>2
  <1>14. ASSUME NEW j \in 0 .. c - 1, j # L, s[j] # Hole PROVE WayOpen(c, s, n, L, j)
    <2> SUFFICES ASSUME NEW q \in 0 .. c - 1, Off(c, s[j].key, q) < Off(c, s[j].key, j)
                 PROVE  q # L /\ (s[q] # Hole \/ Unchecked(c, n, L, j))
      BY DEF WayOpen
    <2>1. CASE j = l
      <3>1. Off(c, k, q) < Off(c, k, l)
        BY <1>8, <2>1
      <3>2. u[q] # Hole /\ q # p
        BY <1>7, <3>1
      <3>3. Off(c, k, q) < Off(c, k, p)
        BY <1>1, <1>7, <1>10, <3>1
      <3>4. q # L
        BY <1>9, <3>3
      <3>5. QED
        BY <1>6, <1>8, <3>2, <3>4
    <2>2. CASE j # l
      <3>1. j # p /\ s[j] = u[j] /\ u[j] # Hole
        BY <1>8, <1>14, <2>2
      <3> DEFINE m == u[j].key
      <3>2. WayOpen(c, u, p, L, j)
        BY <1>1, <1>14, <3>1
      <3>3. q # L /\ (u[q] # Hole \/ Unchecked(c, p, L, j))
        BY <3>1, <3>2 DEF WayOpen
      <3>4. CASE Unchecked(c, p, L, j)
        <4>1. Gap(c, p, j) <= Gap(c, p, L)
          BY <3>4 DEF Unchecked
        <4>2. Gap(c, n, j) = Gap(c, p, j) - 1 /\ Gap(c, n, L) = Gap(c, p, L) - 1
          BY <1>1, <1>2, <3>1
        <4>3. Gap(c, p, j) \in 0 .. c - 1 /\ Gap(c, p, L) \in 0 .. c - 1
          BY <1>1, <1>3
        <4>4. Gap(c, n, j) <= Gap(c, n, L)
          BY <1>1, <4>1, <4>2, <4>3
        <4>5. QED
          BY <3>3, <4>4 DEF Unchecked
      <3>5. CASE ~Unchecked(c, p, L, j)
        <4>1. u[q] # Hole
          BY <3>3, <3>5
        <4>2. HashOf[m] \in Nat
          BY <1>1, <3>1 DEF Table, Hashed
        <4>3. \A x \in 0 .. c - 1 : Off(c, m, x) \in 0 .. c - 1
          BY <1>1, <4>2, OffFacts
        <4>4. Off(c, m, L) # Off(c, m, j)
          BY <1>1, <1>14, <4>2, OffFacts
        <4>5. ~(Off(c, m, L) < Off(c, m, j))
          BY <1>1, <3>2 DEF WayOpen
        <4>6. Off(c, m, j) < Off(c, m, L)
          BY <1>1, <4>3, <4>4, <4>5
        <4>7. q # p
          <5> SUFFICES ASSUME q = p PROVE FALSE
            OBVIOUS
          <5>1. Off(c, m, p) < Off(c, m, j)
            BY <3>1
          <5>2. /\ Off(c, m, p) \in 0 .. c - 1 /\ Off(c, m, j) \in 0 .. c - 1
                /\ Off(c, m, L) \in 0 .. c - 1
            BY <1>1, <4>3
          <5>3. Off(c, m, p) <= Off(c, m, j) /\ Off(c, m, p) <= Off(c, m, L)
            BY <1>1, <4>6, <5>1, <5>2
          <5>4. Gap(c, p, j) = Off(c, m, j) - Off(c, m, p)
            BY <1>1, <4>2, <5>3, OffBetween
          <5>5. Gap(c, p, L) = Off(c, m, L) - Off(c, m, p)
            BY <1>1, <4>2, <5>3, OffBetween
          <5>6. Gap(c, p, j) <= Gap(c, p, L)
            BY <1>1, <4>6, <5>2, <5>4, <5>5
          <5>7. QED
            BY <3>5, <5>6 DEF Unchecked
        <4>8. s[q] # Hole
          BY <1>6, <1>8, <4>1, <4>7
        <4>9. QED
          BY <3>3, <4>8
      <3>6. QED
        BY <3>4, <3>5
    <2>3. QED
      BY <2>1, <2>2
  <1>15. Closing(E, c, s, n, L)
    BY <1>1, <1>2, <1>5, <1>13, <1>14 DEF Closing
  <1>16. QED
    BY <1>4, <1>12, <1>15 DEF s, n, SameAt

\* The table without what is in place L
WithoutPlace(t, L) == [t EXCEPT ![L] = Hole]

\* When the loop is at L, nothing else has lost its way, with or without what is there.
LEMMA ClosedFacts ==
    ASSUME NEW c, NEW E, Hashed(E), NEW u, NEW L, Closing(E, c, u, L, L)
    PROVE  Table(E, c, WithoutPlace(u, L)) /\ Probed(c, WithoutPlace(u, L))
  <1> DEFINE v == WithoutPlace(u, L)
  <1>1. /\ c \in Nat \ {0} /\ L \in 0 .. c - 1 /\ Table(E, c, u) /\ KeysApart(c, u)
        /\ \A j \in 0 .. c - 1 : j # L /\ u[j] # Hole => WayOpen(c, u, L, L, j)
    BY DEF Closing, Table
  <1>2. /\ v = [u EXCEPT ![L] = Hole] /\ v[L] = Hole
        /\ \A q \in 0 .. c - 1 : q # L => v[q] = u[q]
    BY <1>1 DEF Table, WithoutPlace
  <1> HIDE DEF v
  <1>3. Table(E, c, v)
    BY <1>1, <1>2 DEF Table
  <1>4. KeysApart(c, v)
    BY <1>1, <1>2 DEF KeysApart
  <1>5. ASSUME NEW j \in 0 .. c - 1, v[j] # Hole PROVE ReachedAt(c, v, j)
    <2> SUFFICES ASSUME NEW q \in 0 .. c - 1, Off(c, v[j].key, q) < Off(c, v[j].key, j)
                 PROVE  v[q] # Hole
      BY DEF ReachedAt
    <2>1. j # L /\ v[j] = u[j] /\ u[j] # Hole
      BY <1>2, <1>5
    <2>2. q # L /\ (u[q] # Hole \/ Unchecked(c, L, L, j))
      BY <1>1, <2>1 DEF WayOpen
    <2>3. ~Unchecked(c, L, L, j)
      BY <1>1, <2>1 DEF Unchecked, Gap
    <2>4. QED
      BY <1>2, <2>2, <2>3
  <1>6. QED
    BY <1>3, <1>4, <1>5 DEF Probed, v

\* Taking an entry out of a table where it is not in anybody's way and storing it again.
LEMMA MovedLast ==
    ASSUME NEW c, NEW E, Hashed(E), NEW u, Table(E, c, u), NEW p \in 0 .. c - 1, u[p] # Hole,
           Probed(c, WithoutPlace(u, p))
    PROVE  Probed(c, Moved(u, p))
  <1> DEFINE v == WithoutPlace(u, p)
             e == u[p]
  <1>1. e \in E /\ c \in Nat \ {0}
    BY DEF Table
  <1>2. Table(E, c, v) /\ v[p] = Hole
    BY DEF Table, WithoutPlace
  <1>3. Moved(u, p) = Stored(v, e)
    BY DEF Moved, WithoutPlace
  <1> HIDE DEF v, e
  <1>4. SpaceFor(c, v, e)
    BY <1>2 DEF SpaceFor, HasHole
  <1>5. Probed(c, v)
    BY DEF v
  <1>6. StoredWell(E, c, v, e)
    BY <1>1, <1>2, <1>4, <1>5, StoredFacts
  <1>7. QED
    BY <1>3, <1>6 DEF StoredWell

\* In a probed table an entry goes back to where it was.
LEMMA MovedNowhere ==
    ASSUME NEW c, NEW E, Hashed(E), NEW u, Table(E, c, u), Probed(c, u),
           NEW p \in 0 .. c - 1, u[p] # Hole
    PROVE  Moved(u, p) = u
  <1> DEFINE k == u[p].key
  <1>1. MovedWell(E, c, u, p, Moved(u, p))
    BY MovedFacts DEF Probed
  <1>2. PICK l \in 0 .. c - 1 :
           /\ Moved(u, p) = [[u EXCEPT ![p] = Hole] EXCEPT ![l] = u[p]]
           /\ l # p => u[l] = Hole
           /\ Off(c, k, l) <= Off(c, k, p)
    BY <1>1 DEF MovedWell
  <1>3. c \in Nat \ {0} /\ HashOf[k] \in Nat
    BY DEF Table, Hashed
  <1>4. Off(c, k, l) \in 0 .. c - 1 /\ Off(c, k, p) \in 0 .. c - 1
    BY <1>3, OffFacts
  <1>5. l = p
    <2> SUFFICES ASSUME l # p PROVE FALSE
      OBVIOUS
    <2>1. Off(c, k, l) # Off(c, k, p)
      BY <1>3, OffFacts
    <2>2. Off(c, k, l) < Off(c, k, p)
      BY <1>2, <1>3, <1>4, <2>1
    <2>3. ReachedAt(c, u, p)
      BY DEF Probed
    <2>4. QED
      BY <1>2, <2>2, <2>3 DEF ReachedAt
  <1>6. QED
    BY <1>2, <1>5 DEF Table

----------------------------------------------------------------------------
(* The loop that repairs a table *)

\* One round of it in a table that does not grow
Turn(s) ==
    IF s.table[s.at] = Hole THEN s
    ELSE [table |-> Moved(s.table, s.at),
          at |-> (s.at + 1) % Capacity([s.table EXCEPT ![s.at] = Hole])]

\* The loop's table and place
GapState(u, p) == [table |-> u, at |-> p]

\* The states on the way to L, with x there, and beyond it, when all is right; A is what the
\* table holds.
Before(E, c, A, L, x, u, p) ==
    Closing(E, c, u, p, L) /\ u[L] = x /\ HasHole(c, u) /\ Entries(u) = A

\* ... past L, where the table is right whatever the place
Beyond(E, c, A, u, p) ==
    Table(E, c, u) /\ Probed(c, u) /\ p \in 0 .. c - 1 /\ HasHole(c, u) /\ Entries(u) = A

\* ... either of them
States(E, c, A, L, x) ==
    {s \in [table : [0 .. c - 1 -> E \cup {Hole}], at : 0 .. c - 1] :
        Before(E, c, A, L, x, s.table, s.at) \/ Beyond(E, c, A, s.table, s.at)}

\* The loop has come as far as n rounds take it.
Progress(E, c, A, L, n, s) ==
    \/ Beyond(E, c, A, s.table, s.at)
    \/ s.table[L] = Hole /\ s.at = L
    \/ Gap(c, s.at, L) + n <= c - 1

\* A round leads from such a state to such a state, a step further.
LEMMA TurnFacts ==
    ASSUME NEW c, NEW E, Hashed(E), NEW A, NEW L, NEW x, NEW s, s \in States(E, c, A, L, x)
    PROVE  /\ Turn(s) \in States(E, c, A, L, x)
           /\ \A n \in Nat : Progress(E, c, A, L, n, s) => Progress(E, c, A, L, n + 1, Turn(s))
  <1> DEFINE S == States(E, c, A, L, x)
             T == [0 .. c - 1 -> E \cup {Hole}]
  <1>1. PICK u \in T, p \in 0 .. c - 1 : s = GapState(u, p)
    BY DEF States, GapState
  <1>2. s.table = u /\ s.at = p
    BY <1>1 DEF GapState
  <1>3. Before(E, c, A, L, x, u, p) \/ Beyond(E, c, A, u, p)
    BY <1>2 DEF States
  <1>4. Table(E, c, u) /\ c \in Nat \ {0} /\ KeysApart(c, u)
    BY <1>3 DEF Before, Beyond, Closing, Table, Probed
  <1> DEFINE m == Moved(u, p)
             q == (p + 1) % c
             r == Turn(s)
  <1>5. u[p] # Hole => r.table = m /\ r.at = q /\ r = GapState(m, q)
    <2> SUFFICES ASSUME u[p] # Hole PROVE r.table = m /\ r.at = q /\ r = GapState(m, q)
      OBVIOUS
    <2> DEFINE v == [u EXCEPT ![p] = Hole]
    <2>1. Table(E, c, v)
      BY <1>4 DEF Table
    <2>2. Capacity(v) = c
      BY <2>1, TableFacts DEF Hashed
    <2>3. r = [table |-> m, at |-> q]
      BY <1>2, <2>2 DEF Turn
    <2>4. QED
      BY <2>3 DEF GapState
  <1>6. q \in 0 .. c - 1
    BY <1>4, NextPlace
  <1>7. CASE u[p] = Hole
    <2>1. r = s
      BY <1>2, <1>7 DEF Turn
    <2>2. Beyond(E, c, A, u, p) \/ (p = L /\ u[L] = Hole)
      <3> SUFFICES ASSUME ~Beyond(E, c, A, u, p) PROVE p = L
        BY <1>7
      <3>1. Closing(E, c, u, p, L)
        BY <1>3 DEF Before
      <3>2. QED
        BY <1>7, <3>1, ClosingStep
    <2>3. QED
      BY <1>2, <2>1, <2>2 DEF Progress
  <1>8. CASE u[p] # Hole
    <2> HIDE DEF m, q, r
    <2>1. Table(E, c, m) /\ KeysApart(c, m) /\ Entries(m) = Entries(u)
          /\ (HasHole(c, u) => HasHole(c, m))
      BY <1>4, <1>8, MovedKeeps DEF m
    <2>2. m \in T
      BY <2>1 DEF Table
    <2>3. Beyond(E, c, A, m, q) /\ r = GapState(m, q) =>
            r \in S /\ \A n \in Nat : Progress(E, c, A, L, n + 1, r)
      <3> SUFFICES ASSUME Beyond(E, c, A, m, q), r = GapState(m, q)
                   PROVE  r \in S /\ \A n \in Nat : Progress(E, c, A, L, n + 1, r)
        OBVIOUS
      <3>1. r.table = m /\ r.at = q /\ r \in [table : T, at : 0 .. c - 1]
        BY <1>6, <2>2 DEF GapState
      <3>2. r \in S
        BY <3>1 DEF States
      <3>3. \A n \in Nat : Progress(E, c, A, L, n + 1, r)
        BY <3>1 DEF Progress
      <3>4. QED
        BY <3>2, <3>3
    <2>4. CASE Beyond(E, c, A, u, p)
      <3>1. m = u
        BY <1>4, <1>8, <2>4, MovedNowhere DEF Beyond, m
      <3>2. Beyond(E, c, A, m, q)
        BY <1>6, <2>4, <3>1 DEF Beyond
      <3>3. QED
        BY <1>5, <1>8, <2>3, <3>2 DEF r
    <2>5. CASE ~Beyond(E, c, A, u, p)
      <3>1. Closing(E, c, u, p, L) /\ u[L] = x /\ HasHole(c, u) /\ Entries(u) = A
        BY <1>3, <2>5 DEF Before
      <3>2. CASE p = L
        <4>1. Probed(c, WithoutPlace(u, L))
          BY <3>1, <3>2, ClosedFacts
        <4>2. Probed(c, m)
          BY <1>4, <1>8, <3>2, <4>1, MovedLast DEF m
        <4>3. Beyond(E, c, A, m, q)
          BY <1>6, <2>1, <3>1, <4>2 DEF Beyond
        <4>4. QED
          BY <1>5, <1>8, <2>3, <4>3 DEF r
      <3>3. CASE p # L
        <4>1. Closing(E, c, m, q, L) /\ m[L] = x
          <5>1. Closing(E, c, Moved(u, p), (p + 1) % c, L) /\ SameAt(L, u, Moved(u, p))
            BY <3>1, <3>3, ClosingStep
          <5>2. QED
            BY <3>1, <5>1 DEF m, q, SameAt
        <4>2. Before(E, c, A, L, x, m, q)
          BY <2>1, <3>1, <4>1 DEF Before
        <4>3. r \in S
          BY <1>5, <1>6, <1>8, <2>2, <4>2 DEF States, GapState
        <4>4. ASSUME NEW n \in Nat, Progress(E, c, A, L, n, s)
              PROVE  Gap(c, q, L) + (n + 1) <= c - 1
          <5>1. L \in 0 .. c - 1
            BY <3>1 DEF Closing
          <5>2. Gap(c, p, L) + n <= c - 1
            BY <1>2, <2>5, <3>3, <4>4 DEF Progress
          <5>3. Gap(c, q, L) = Gap(c, p, L) - 1
            BY <1>4, <3>3, <5>1, NextPlace DEF q
          <5>4. Gap(c, p, L) \in Int
            BY <1>4, <5>1 DEF Gap
          <5>5. QED
            BY <1>4, <5>2, <5>3, <5>4
        <4>5. ASSUME NEW n \in Nat, Progress(E, c, A, L, n, s)
              PROVE  Progress(E, c, A, L, n + 1, r)
          BY <1>5, <1>8, <4>4, <4>5 DEF Progress
        <4>6. QED
          BY <4>3, <4>5 DEF r
      <3>4. QED
        BY <3>2, <3>3
    <2>6. QED
      BY <2>4, <2>5
  <1>9. QED
    BY <1>7, <1>8

\* A table as it should be, with a hole
Mended(E, c, A, u) == Table(E, c, u) /\ Probed(c, u) /\ HasHole(c, u) /\ Entries(u) = A

\* f are the states of the loop that begins at s0.
Loop(V, s0, f) == f \in [Nat -> V] /\ f[0] = s0 /\ \A n \in Nat : f[n + 1] = Turn(f[n])

\* There are such states.
LEMMA LoopExists ==
    ASSUME NEW c, NEW E, Hashed(E), NEW A, NEW L, NEW x, NEW s0, s0 \in States(E, c, A, L, x)
    PROVE  \E f : Loop(States(E, c, A, L, x), s0, f)
  <1> DEFINE V == States(E, c, A, L, x)
             step == [k \in Nat |-> [s \in V |-> Turn(s)]]
  <1>1. \A s \in V : Turn(s) \in V
    BY TurnFacts
  <1> HIDE DEF V
  <1>2. StepsIn(V, step) /\ \A k \in Nat : \A s \in V : step[k][s] = Turn(s)
    BY <1>1 DEF StepsIn
  <1> HIDE DEF step
  <1>3. s0 \in V
    BY DEF V
  <1>4. PICK f : Follows(V, s0, step, f)
    BY <1>2, <1>3, Recursion
  <1>5. f \in [Nat -> V] /\ \A k \in Nat : f[k] = Value(s0, step, f, k)
    BY <1>4 DEF Follows
  <1>6. f[0] = s0
    BY <1>5 DEF Value
  <1>7. ASSUME NEW n \in Nat PROVE f[n + 1] = Turn(f[n])
    <2>1. n + 1 \in Nat /\ n + 1 # 0 /\ (n + 1) - 1 = n
      OBVIOUS
    <2>2. f[n + 1] = step[n + 1][f[n]]
      BY <1>5, <2>1 DEF Value
    <2>3. QED
      BY <1>2, <1>5, <2>1, <2>2
  <1>8. Loop(V, s0, f)
    BY <1>5, <1>6, <1>7 DEF Loop
  <1>9. QED
    BY <1>8 DEF V

\* After as many rounds as there are places the table is as it should be.
LEMMA LoopEnds ==
    ASSUME NEW c \in Nat \ {0}, NEW E, Hashed(E), NEW A, NEW L \in 0 .. c - 1, NEW x,
           NEW s0, NEW f, Loop(States(E, c, A, L, x), s0, f),
           NEW n \in Nat, n >= c
    PROVE  Mended(E, c, A, f[n].table)
  <1> DEFINE V == States(E, c, A, L, x)
             T == {k \in Nat : Progress(E, c, A, L, k, f[k])}
  <1>1. f \in [Nat -> V] /\ f[0] = s0 /\ \A k \in Nat : f[k + 1] = Turn(f[k])
    BY DEF Loop
  <1>2. \A s \in V : s.at \in 0 .. c - 1
    BY DEF States
  <1>3. \A s \in V : Gap(c, s.at, L) \in 0 .. c - 1
    BY <1>2 DEF Gap
  <1>4. 0 \in T
    <2>1. f[0] \in V
      BY <1>1
    <2>2. Gap(c, f[0].at, L) \in 0 .. c - 1
      BY <1>3, <2>1
    <2>3. Gap(c, f[0].at, L) + 0 <= c - 1
      BY <2>2
    <2>4. QED
      BY <2>3 DEF Progress
  <1>5. ASSUME NEW k \in Nat, k \in T PROVE k + 1 \in T
    <2>1. f[k] \in V /\ k + 1 \in Nat
      BY <1>1
    <2>2. Progress(E, c, A, L, k + 1, Turn(f[k]))
      BY <1>5, <2>1, TurnFacts
    <2>3. QED
      BY <1>1, <2>1, <2>2
  <1>6. Nat \subseteq T
    <2> HIDE DEF T
    <2>1. QED
      BY <1>4, <1>5, CountingUp
  <1>7. Progress(E, c, A, L, n, f[n]) /\ f[n] \in V
    BY <1>1, <1>6
  <1> DEFINE s == f[n]
             u == s.table
             p == s.at
  <1>8. Before(E, c, A, L, x, u, p) \/ Beyond(E, c, A, u, p)
    BY <1>7 DEF States
  <1>9. Gap(c, p, L) \in 0 .. c - 1
    BY <1>3, <1>7
  <1>10. Beyond(E, c, A, u, p) \/ (u[L] = Hole /\ p = L)
    BY <1>7, <1>9 DEF Progress
  <1> HIDE DEF s, u, p
  <1>11. CASE Beyond(E, c, A, u, p)
    BY <1>11 DEF Beyond, Mended, u, s
  <1>12. CASE Before(E, c, A, L, x, u, p) /\ u[L] = Hole /\ p = L
    <2>1. Closing(E, c, u, L, L) /\ HasHole(c, u) /\ Entries(u) = A
      BY <1>12 DEF Before
    <2>2. Table(E, c, u)
      BY <2>1 DEF Closing
    <2>3. Probed(c, WithoutPlace(u, L))
      BY <2>1, ClosedFacts
    <2>4. WithoutPlace(u, L) = u
      BY <1>12, <2>2 DEF WithoutPlace, Table
    <2>5. QED
      BY <2>1, <2>2, <2>3, <2>4 DEF Mended, u, s
  <1>13. QED
    BY <1>8, <1>10, <1>11, <1>12

\* From then on it stays as it is, and the loop stops at a hole before long.
LEMMA LoopStops ==
    ASSUME NEW c \in Nat \ {0}, NEW E, Hashed(E), NEW A, NEW L \in 0 .. c - 1, NEW x,
           NEW s0, NEW f, Loop(States(E, c, A, L, x), s0, f),
           NEW n \in Nat
    PROVE  /\ f[c + n].table = f[c].table
           /\ n >= c => f[c + n].table[f[c + n].at] = Hole
  <1> DEFINE V == States(E, c, A, L, x)
             w == f[c].table
  <1>1. f \in [Nat -> V] /\ \A k \in Nat : f[k + 1] = Turn(f[k])
    BY DEF Loop
  <1>2. \A s \in V : s.at \in 0 .. c - 1
    BY DEF States
  <1>3. \A k \in Nat : f[k].at \in 0 .. c - 1
    BY <1>1, <1>2
  <1>4. Mended(E, c, A, w)
    <2>1. c \in Nat /\ c >= c
      OBVIOUS
    <2>2. QED
      BY <2>1, LoopEnds
  <1> HIDE DEF w, V
  <1>5. Table(E, c, w) /\ Probed(c, w) /\ HasHole(c, w)
    BY <1>4 DEF Mended
  <1>6. PICK h \in 0 .. c - 1 : w[h] = Hole
    BY <1>5 DEF HasHole
  <1> DEFINE Near(k) == \/ w[f[c + k].at] = Hole
                        \/ Gap(c, f[c + k].at, h) + k <= c - 1
             T == {k \in Nat : f[c + k].table = w /\ Near(k)}
  <1>7. 0 \in T
    <2>1. c + 0 = c /\ c \in Nat
      OBVIOUS
    <2>2. f[c].at \in 0 .. c - 1
      BY <1>3, <2>1
    <2>3. Gap(c, f[c].at, h) + 0 <= c - 1
      BY <1>6, <2>2 DEF Gap
    <2>4. QED
      BY <2>1, <2>3 DEF w
  <1>8. ASSUME NEW k \in Nat, k \in T PROVE k + 1 \in T
    <2> DEFINE s == f[c + k]
               p == s.at
    <2>1. c + k \in Nat /\ c + (k + 1) = (c + k) + 1
      OBVIOUS
    <2>2. f[c + (k + 1)] = Turn(s) /\ p \in 0 .. c - 1
      BY <1>1, <1>3, <2>1
    <2>3. s.table = w
      BY <1>8
    <2>4. w[p] = Hole \/ Gap(c, p, h) + k <= c - 1
      BY <1>8
    <2>5. Turn(s) = IF w[p] = Hole THEN s
                    ELSE [table |-> Moved(w, p), at |-> (p + 1) % Capacity([w EXCEPT ![p] = Hole])]
      BY <2>3 DEF Turn
    <2>6. CASE w[p] = Hole
      <3>1. f[c + (k + 1)] = s
        BY <2>2, <2>5, <2>6
      <3>2. QED
        BY <2>3, <2>6, <3>1
    <2>7. CASE w[p] # Hole
      <3> DEFINE v == [w EXCEPT ![p] = Hole]
      <3>1. Moved(w, p) = w
        BY <1>5, <2>2, <2>7, MovedNowhere
      <3>2. Table(E, c, v)
        BY <1>5 DEF Table
      <3>3. Capacity(v) = c
        <4> HIDE DEF v
        <4>1. QED
          BY <3>2, TableFacts DEF Hashed
      <3>4. Turn(s).table = w /\ Turn(s).at = (p + 1) % c
        BY <2>5, <2>7, <3>1, <3>3
      <3>5. p # h
        BY <1>6, <2>7
      <3> HIDE DEF p, s
      <3>6. Gap(c, (p + 1) % c, h) = Gap(c, p, h) - 1
        BY <1>6, <2>2, <3>5, NextPlace
      <3>7. Gap(c, p, h) \in Int
        BY <1>6, <2>2 DEF Gap
      <3>8. Gap(c, (p + 1) % c, h) + (k + 1) <= c - 1
        BY <2>4, <2>7, <3>6, <3>7
      <3>9. QED
        BY <2>2, <3>4, <3>8
    <2>8. QED
      BY <2>6, <2>7
  <1> HIDE DEF T
  <1>9. Nat \subseteq T
    BY <1>7, <1>8, CountingUp
  <1>10. f[c + n].table = w /\ Near(n)
    BY <1>9 DEF T
  <1>11. n >= c => w[f[c + n].at] = Hole
    <2>1. f[c + n].at \in 0 .. c - 1
      BY <1>3
    <2>2. Gap(c, f[c + n].at, h) \in 0 .. c - 1
      BY <1>6, <2>1 DEF Gap
    <2>3. QED
      BY <1>10, <2>2
  <1>12. QED
    BY <1>10, <1>11 DEF w

----------------------------------------------------------------------------
(* Taking out one entry *)

\* The entries then
LEMMA TakenOut ==
    ASSUME NEW c, NEW E, Hashed(E), NEW t, Table(E, c, t), KeysApart(c, t),
           NEW i \in 0 .. c - 1, t[i] # Hole
    PROVE  /\ Table(E, c, WithoutPlace(t, i)) /\ HasHole(c, WithoutPlace(t, i))
           /\ KeysApart(c, WithoutPlace(t, i))
           /\ Entries(WithoutPlace(t, i)) = {x \in Entries(t) : x.key # t[i].key}
  <1> DEFINE v == WithoutPlace(t, i)
  <1>1. Hole \notin E
    BY DEF Hashed
  <1>2. /\ Table(E, c, v) /\ v[i] = Hole
        /\ \A q \in 0 .. c - 1 : q # i => v[q] = t[q]
    BY DEF Table, WithoutPlace
  <1> HIDE DEF v
  <1>3. HasHole(c, v) /\ KeysApart(c, v)
    BY <1>2 DEF HasHole, KeysApart
  <1>4. ASSUME NEW x \in Entries(v) PROVE x \in Entries(t) /\ x.key # t[i].key
    <2>1. PICK j \in 0 .. c - 1 : v[j] # Hole /\ x = v[j]
      BY <1>1, <1>2, TableFacts
    <2>2. j # i /\ x = t[j] /\ t[j] # Hole
      BY <1>2, <2>1
    <2>3. QED
      BY <1>1, <2>2, TableFacts DEF KeysApart
  <1>5. ASSUME NEW x \in Entries(t), x.key # t[i].key PROVE x \in Entries(v)
    <2>1. PICK j \in 0 .. c - 1 : t[j] # Hole /\ x = t[j]
      BY <1>1, TableFacts
    <2>2. x = v[j] /\ v[j] # Hole
      BY <1>2, <1>5, <2>1
    <2>3. QED
      BY <1>1, <1>2, <2>2, TableFacts
  <1>6. QED
    BY <1>2, <1>3, <1>4, <1>5 DEF v

\* The loop can begin: L is the first hole, or a place whose entry is in nobody's way.
LEMMA ClosingBegins ==
    ASSUME NEW c, NEW E, Hashed(E), NEW t, Table(E, c, t), Probed(c, t),
           NEW i \in 0 .. c - 1, t[i] # Hole, NEW L \in 0 .. c - 1, L # i,
           Probed(c, WithoutPlace(t, L)),
           \A q \in 0 .. c - 1 : Gap(c, i, q) < Gap(c, i, L) => t[q] # Hole
    PROVE  Closing(E, c, WithoutPlace(t, i), (i + 1) % c, L)
  <1> DEFINE v == WithoutPlace(t, i)
             w == WithoutPlace(t, L)
             n == (i + 1) % c
  <1>1. c \in Nat \ {0} /\ KeysApart(c, t)
    BY DEF Table, Probed
  <1>2. /\ v[i] = Hole
        /\ \A q \in 0 .. c - 1 : q # i => v[q] = t[q]
    BY DEF Table, WithoutPlace
  <1>3. Table(E, c, v) /\ KeysApart(c, v)
    BY <1>1, TakenOut
  <1>4. w[L] = Hole /\ \A q \in 0 .. c - 1 : q # L => w[q] = t[q]
    BY DEF Table, WithoutPlace
  <1>5. /\ n \in 0 .. c - 1
        /\ \A b \in 0 .. c - 1 : Gap(c, n, b) = IF b = i THEN c - 1 ELSE Gap(c, i, b) - 1
    BY <1>1, NextPlace
  <1>6. \A b \in 0 .. c - 1 : Gap(c, i, b) \in 0 .. c - 1
    BY <1>1 DEF Gap
  <1> HIDE DEF v, w, n
  <1>7. ASSUME NEW q \in 0 .. c - 1, Gap(c, n, q) < Gap(c, n, L) PROVE v[q] # Hole
    <2>1. Gap(c, n, L) = Gap(c, i, L) - 1 /\ Gap(c, i, L) \in 0 .. c - 1
      BY <1>5, <1>6
    <2>2. Gap(c, i, q) \in 0 .. c - 1
      BY <1>6
    <2>3. q # i
      BY <1>1, <1>5, <1>7, <2>1
    <2>4. Gap(c, i, q) < Gap(c, i, L)
      BY <1>1, <1>5, <1>7, <2>1, <2>2, <2>3
    <2>5. QED
      BY <1>2, <2>3, <2>4
  <1>8. ASSUME NEW j \in 0 .. c - 1, j # L, v[j] # Hole PROVE WayOpen(c, v, n, L, j)
    <2> DEFINE m == v[j].key
    <2> SUFFICES ASSUME NEW q \in 0 .. c - 1, Off(c, m, q) < Off(c, m, j)
                 PROVE  q # L /\ (v[q] # Hole \/ Unchecked(c, n, L, j))
      BY DEF WayOpen
    <2>1. j # i /\ v[j] = t[j] /\ w[j] = t[j] /\ w[j] # Hole
      BY <1>2, <1>4, <1>8
    <2>2. ReachedAt(c, w, j)
      BY <2>1 DEF Probed, w
    <2>3. \A y \in 0 .. c - 1 : Off(c, m, y) < Off(c, m, j) => w[y] # Hole
      BY <2>1, <2>2 DEF ReachedAt
    <2>4. q # L /\ t[q] # Hole
      BY <1>4, <2>3
    <2>5. CASE q # i
      BY <1>2, <2>4, <2>5
    <2>6. CASE q = i
      <3>1. HashOf[m] \in Nat
        BY <1>3, <1>8 DEF Table, Hashed
      <3>2. \A y \in 0 .. c - 1 : Off(c, m, y) \in 0 .. c - 1
        BY <1>1, <3>1, OffFacts
      <3>3. ~(Off(c, m, L) < Off(c, m, j))
        BY <1>4, <2>3
      <3>4. Off(c, m, i) < Off(c, m, j)
        BY <2>6
      <3> HIDE DEF m
      <3>5. /\ Off(c, m, i) \in 0 .. c - 1 /\ Off(c, m, j) \in 0 .. c - 1
            /\ Off(c, m, L) \in 0 .. c - 1
        BY <3>2
      <3>6. Off(c, m, j) <= Off(c, m, L)
        BY <1>1, <3>3, <3>5
      <3>7. Off(c, m, i) <= Off(c, m, j) /\ Off(c, m, i) <= Off(c, m, L)
        BY <1>1, <3>4, <3>5, <3>6
      <3>8. Gap(c, i, j) = Off(c, m, j) - Off(c, m, i)
        BY <1>1, <3>1, <3>7, OffBetween
      <3>9. Gap(c, i, L) = Off(c, m, L) - Off(c, m, i)
        BY <1>1, <3>1, <3>7, OffBetween
      <3>10. Gap(c, n, j) = Gap(c, i, j) - 1 /\ Gap(c, n, L) = Gap(c, i, L) - 1
        BY <1>5, <2>1
      <3>11. Gap(c, n, j) <= Gap(c, n, L)
        BY <1>1, <3>5, <3>6, <3>8, <3>9, <3>10
      <3>12. QED
        BY <2>4, <3>11 DEF Unchecked
    <2>7. QED
      BY <2>5, <2>6
  <1>9. QED
    BY <1>3, <1>5, <1>7, <1>8 DEF Closing, v, n

\* The first hole from a place on
LEMMA FirstHole ==
    ASSUME NEW c \in Nat \ {0}, NEW t, HasHole(c, t), NEW i \in 0 .. c - 1
    PROVE  \E L \in 0 .. c - 1 :
              /\ t[L] = Hole
              /\ \A q \in 0 .. c - 1 : Gap(c, i, q) < Gap(c, i, L) => t[q] # Hole
  <1> DEFINE H == {q \in 0 .. c - 1 : t[q] = Hole}
             D == {Gap(c, i, q) : q \in H}
  <1>1. \A q \in 0 .. c - 1 : Gap(c, i, q) \in 0 .. c - 1
    BY DEF Gap
  <1>2. D \subseteq Nat /\ D # {}
    BY <1>1 DEF HasHole
  <1>3. PICK d \in D : \A e \in D : d <= e
    BY <1>2, LeastNumber
  <1>4. PICK L \in H : d = Gap(c, i, L)
    BY <1>3
  <1>5. \A q \in H : ~(Gap(c, i, q) < Gap(c, i, L))
    <2>1. \A q \in H : Gap(c, i, L) <= Gap(c, i, q)
      BY <1>3, <1>4
    <2>2. QED
      BY <1>1, <2>1
  <1>6. QED
    BY <1>4, <1>5

\* In a table with a hole
LEMMA ClosingInOne ==
    ASSUME NEW c, NEW E, Hashed(E), NEW t, Table(E, c, t), Probed(c, t), HasHole(c, t),
           NEW i \in 0 .. c - 1, t[i] # Hole
    PROVE  \E L \in 0 .. c - 1 : Closing(E, c, WithoutPlace(t, i), (i + 1) % c, L)
  <1>1. c \in Nat \ {0}
    BY DEF Table
  <1>2. PICK L \in 0 .. c - 1 :
           /\ t[L] = Hole
           /\ \A q \in 0 .. c - 1 : Gap(c, i, q) < Gap(c, i, L) => t[q] # Hole
    BY <1>1, FirstHole
  <1>3. WithoutPlace(t, L) = t /\ L # i
    BY <1>2 DEF WithoutPlace, Table
  <1>4. Closing(E, c, WithoutPlace(t, i), (i + 1) % c, L)
    BY <1>2, <1>3, ClosingBegins
  <1>5. QED
    BY <1>4

----------------------------------------------------------------------------
(* Iteration *)

\* The greatest number of a set that has one
LEMMA MaxFacts ==
    ASSUME NEW n \in Nat, NEW S, S \subseteq 0 .. n, S # {}
    PROVE  Max(S) \in S /\ \A m \in S : Max(S) >= m
  <1> DEFINE R == {d \in 0 .. n : n - d \in S}
  <1>1. R \subseteq Nat /\ R # {}
    <2>1. PICK s \in S : TRUE
      OBVIOUS
    <2>2. n - s \in 0 .. n /\ n - (n - s) = s
      BY <2>1
    <2>3. n - s \in R
      BY <2>1, <2>2
    <2>4. QED
      BY <2>3
  <1>2. PICK d \in R : \A e \in R : d <= e
    BY <1>1, LeastNumber
  <1>3. ASSUME NEW m \in S PROVE n - d >= m
    <2>1. m \in 0 .. n /\ n - m \in 0 .. n /\ n - (n - m) = m
      OBVIOUS
    <2>2. n - m \in R
      BY <2>1
    <2>3. d <= n - m /\ d \in 0 .. n
      BY <1>2, <2>2
    <2>4. QED
      BY <2>1, <2>3
  <1>4. n - d \in S
    BY <1>2
  <1>5. \E x \in S : \A m \in S : x >= m
    BY <1>3, <1>4
  <1>6. QED
    BY <1>5 DEF Max

\* The places of P before j, and how many they are
Below(P, j) == {i \in P : i < j}
RankIn(P) == [j \in P |-> Cardinality(Below(P, j))]

\* Numbers m places, each differently.
Ranked(P, m, r) == r \in [P -> 0 .. m - 1] /\ \A p, q \in P : r[p] = r[q] => p = q

\* The first of them, and the one after each, or the end
FirstRanked(P, m, r, i) == IF m = 0 THEN i = -1 ELSE i \in P /\ r[i] = 0
StepsUp(P, m, r, next) ==
    next \in [P -> P \cup {-1}]
    /\ \A p \in P : IF r[p] = m - 1 THEN next[p] = -1
                    ELSE next[p] \in P /\ r[next[p]] = r[p] + 1

\* w has them in that order.
Enumerates(P, m, r, w) ==
    w \in [1 .. m -> P] /\ \A k \in 1 .. m : r[w[k]] = k - 1

\* A walk that begins at the first and goes on with the next meets each of them.
LEMMA WalkFacts ==
    ASSUME NEW t, Capacity(t) \in Nat, NEW P, -1 \notin P, NEW m \in 0 .. Capacity(t), NEW r,
           Ranked(P, m, r), NEW next, StepsUp(P, m, r, next), NEW i, FirstRanked(P, m, r, i)
    PROVE  Enumerates(P, m, r, WalkFrom(t, next, i))
  <1> DEFINE c == Capacity(t)
             V == P \cup {-1}
             Def(f) == f = [k \in Nat |-> IF k = 0 THEN i
                                          ELSE IF f[k - 1] = -1 THEN -1 ELSE next[f[k - 1]]]
             A == CHOOSE f : Def(f)
             step == [k \in Nat |-> [x \in V |-> IF x = -1 THEN -1 ELSE next[x]]]
  <1>1. StepsIn(V, step) /\ i \in V
    BY DEF StepsIn, StepsUp, FirstRanked
  <1>2. \A k \in Nat : \A x \in V : step[k][x] = IF x = -1 THEN -1 ELSE next[x]
    OBVIOUS
  <1> HIDE DEF step
  <1>3. PICK f : Follows(V, i, step, f)
    BY <1>1, Recursion
  <1>4. f \in [Nat -> V] /\ \A k \in Nat : f[k] = Value(i, step, f, k)
    BY <1>3 DEF Follows
  <1>5. ASSUME NEW k \in Nat
        PROVE  f[k] = IF k = 0 THEN i ELSE IF f[k - 1] = -1 THEN -1 ELSE next[f[k - 1]]
    <2>1. CASE k = 0
      BY <1>4, <2>1 DEF Value
    <2>2. CASE k # 0
      <3>1. k - 1 \in Nat
        BY <2>2
      <3>2. f[k] = step[k][f[k - 1]] /\ f[k - 1] \in V
        BY <1>4, <2>2, <3>1 DEF Value
      <3>3. QED
        BY <1>2, <2>2, <3>2
    <2>3. QED
      BY <2>1, <2>2
  <1>6. f = [k \in Nat |-> f[k]]
    BY <1>4
  <1>7. Def(f)
    BY <1>5, <1>6
  <1>8. Def(A)
    BY <1>7
  <1>9. WalkFrom(t, next, i) = [k \in 1 .. Min({n \in 0 .. c : A[n] = -1}) |-> A[k - 1]]
    BY DEF WalkFrom
  <1> HIDE DEF A
  <1>10. \A k \in Nat : A[k] = IF k = 0 THEN i ELSE IF A[k - 1] = -1 THEN -1 ELSE next[A[k - 1]]
    <2>1. \A h : h = [k \in Nat |-> IF k = 0 THEN i
                                   ELSE IF A[k - 1] = -1 THEN -1 ELSE next[A[k - 1]]] =>
             \A k \in Nat : h[k] = IF k = 0 THEN i
                                   ELSE IF A[k - 1] = -1 THEN -1 ELSE next[A[k - 1]]
      OBVIOUS
    <2>2. QED
      BY <1>8, <2>1
  <1> HIDE DEF Def
  <1> DEFINE At(k) == IF k < m THEN A[k] \in P /\ r[A[k]] = k ELSE A[k] = -1
             T == {k \in Nat : At(k)}
  <1>11. 0 \in T
    <2>1. A[0] = i
      BY <1>10
    <2>2. QED
      BY <2>1 DEF FirstRanked
  <1>12. ASSUME NEW k \in Nat, k \in T PROVE k + 1 \in T
    <2>1. k + 1 \in Nat /\ k + 1 # 0 /\ (k + 1) - 1 = k
      OBVIOUS
    <2>2. A[k + 1] = IF A[k] = -1 THEN -1 ELSE next[A[k]]
      BY <1>10, <2>1
    <2>3. CASE k < m
      <3>1. A[k] \in P /\ r[A[k]] = k /\ A[k] # -1
        BY <1>12, <2>3
      <3>2. IF k = m - 1 THEN next[A[k]] = -1
            ELSE next[A[k]] \in P /\ r[next[A[k]]] = k + 1
        BY <3>1 DEF StepsUp
      <3>3. QED
        BY <2>1, <2>2, <2>3, <3>1, <3>2
    <2>4. CASE ~(k < m)
      BY <1>12, <2>1, <2>2, <2>4
    <2>5. QED
      BY <2>3, <2>4
  <1> HIDE DEF T
  <1>13. Nat \subseteq T
    BY <1>11, <1>12, CountingUp
  <1>14. \A k \in Nat : At(k)
    BY <1>13 DEF T
  <1> DEFINE N == {n \in 0 .. c : A[n] = -1}
  <1>15. m \in N /\ N \subseteq Nat /\ \A n \in N : m <= n
    <2>1. A[m] = -1
      BY <1>14
    <2>2. ASSUME NEW n \in 0 .. c, A[n] = -1 PROVE m <= n
      BY <1>14, <2>2
    <2>3. QED
      BY <2>1, <2>2
  <1>16. Min(N) = m
    <2>1. Min(N) \in N /\ \A n \in N : Min(N) <= n
      BY <1>15, MinFacts
    <2>2. Min(N) \in Nat /\ Min(N) <= m /\ m <= Min(N)
      BY <1>15, <2>1
    <2>3. QED
      BY <2>2
  <1>17. WalkFrom(t, next, i) = [k \in 1 .. m |-> A[k - 1]]
    BY <1>9, <1>16
  <1>18. ASSUME NEW k \in 1 .. m PROVE A[k - 1] \in P /\ r[A[k - 1]] = k - 1
    <2>1. k - 1 \in Nat /\ k - 1 < m
      OBVIOUS
    <2>2. QED
      BY <1>14, <2>1
  <1>19. QED
    BY <1>17, <1>18 DEF Enumerates

\* The ranks of the places that are taken
LEMMA RankFacts ==
    ASSUME NEW c \in Nat, NEW P, P \subseteq 0 .. c - 1
    PROVE  /\ Cardinality(P) \in 0 .. c
           /\ P = {} <=> Cardinality(P) = 0
           /\ Ranked(P, Cardinality(P), RankIn(P))
           /\ \A p, q \in P : Below(P, q) = Below(P, p) \cup {p} =>
                 RankIn(P)[q] = RankIn(P)[p] + 1
           /\ \A p \in P : P = Below(P, p) \cup {p} => RankIn(P)[p] = Cardinality(P) - 1
           /\ \A p \in P : Below(P, p) = {} <=> RankIn(P)[p] = 0
           /\ \A p \in P : RankIn(P)[p] = Cardinality(P) - 1 => P = Below(P, p) \cup {p}
  <1> DEFINE m == Cardinality(P)
             r == RankIn(P)
  <1>1. IsFiniteSet(0 .. c - 1) /\ Cardinality(0 .. c - 1) = c
    <2>1. CASE c = 0
      BY <2>1, FS_EmptySet
    <2>2. CASE c # 0
      BY <2>2, FS_Interval
    <2>3. QED
      BY <2>1, <2>2
  <1>2. IsFiniteSet(P) /\ m <= c /\ m \in Nat
    BY <1>1, FS_Subset, FS_CardinalityType
  <1>3. P = {} <=> m = 0
    BY <1>2, FS_EmptySet
  <1>4. ASSUME NEW p \in P
        PROVE  /\ IsFiniteSet(Below(P, p)) /\ r[p] = Cardinality(Below(P, p)) /\ r[p] \in Nat
               /\ IsFiniteSet(Below(P, p) \cup {p})
               /\ Cardinality(Below(P, p) \cup {p}) = r[p] + 1
               /\ Below(P, p) \cup {p} \subseteq P
               /\ Below(P, p) = {} <=> r[p] = 0
    <2>1. Below(P, p) \subseteq P /\ p \notin Below(P, p)
      BY DEF Below
    <2>2. IsFiniteSet(Below(P, p)) /\ Cardinality(Below(P, p)) \in Nat
      BY <1>2, <2>1, FS_Subset, FS_CardinalityType
    <2>3. r[p] = Cardinality(Below(P, p))
      BY DEF RankIn
    <2>4. /\ IsFiniteSet(Below(P, p) \cup {p})
          /\ Cardinality(Below(P, p) \cup {p}) = Cardinality(Below(P, p)) + 1
      BY <2>1, <2>2, FS_AddElement
    <2>5. Below(P, p) = {} <=> Cardinality(Below(P, p)) = 0
      BY <2>2, FS_EmptySet
    <2>6. QED
      BY <2>1, <2>2, <2>3, <2>4, <2>5
  <1>0. \A p \in P : p \in Int
    OBVIOUS
  <1> HIDE DEF m, r
  <1>5. ASSUME NEW p \in P PROVE r[p] \in 0 .. m - 1
    <2>1. Cardinality(Below(P, p) \cup {p}) <= m
      BY <1>2, <1>4, FS_Subset DEF m
    <2>2. QED
      BY <1>2, <1>4, <2>1
  <1>6. ASSUME NEW p \in P, NEW q \in P, p < q PROVE r[p] < r[q]
    <2>1. Below(P, p) \cup {p} \subseteq Below(P, q)
      <3>1. \A i \in P : i < p => i < q
        BY <1>0, <1>6
      <3>2. QED
        BY <1>6, <3>1 DEF Below
    <2>2. Cardinality(Below(P, p) \cup {p}) <= Cardinality(Below(P, q))
      BY <1>4, <2>1, FS_Subset
    <2>3. r[p] + 1 <= r[q] /\ r[p] \in Nat /\ r[q] \in Nat
      BY <1>4, <2>2
    <2>4. QED
      BY <2>3
  <1>7. ASSUME NEW p \in P, NEW q \in P, r[p] = r[q] PROVE p = q
    <2>1. p \in Int /\ q \in Int /\ r[p] \in Nat /\ r[q] \in Nat
      BY <1>0, <1>4
    <2>2. ~(p < q) /\ ~(q < p)
      BY <1>6, <1>7, <2>1
    <2>3. QED
      BY <2>1, <2>2
  <1>8. Ranked(P, m, r)
    <2>1. r \in [P -> 0 .. m - 1]
      <3>1. r = [j \in P |-> r[j]]
        BY DEF RankIn, r
      <3>2. QED
        BY <1>5, <3>1
    <2>2. QED
      BY <1>7, <2>1 DEF Ranked
  <1>9. ASSUME NEW p \in P, NEW q \in P, Below(P, q) = Below(P, p) \cup {p} PROVE r[q] = r[p] + 1
    BY <1>4, <1>9
  <1>10. ASSUME NEW p \in P, P = Below(P, p) \cup {p} PROVE r[p] = m - 1
    <2>1. m = r[p] + 1 /\ r[p] \in Nat
      BY <1>4, <1>10 DEF m
    <2>2. QED
      BY <2>1
  <1>11. ASSUME NEW p \in P, r[p] = m - 1 PROVE P = Below(P, p) \cup {p}
    <2>1. Cardinality(Below(P, p) \cup {p}) = m
      BY <1>2, <1>4, <1>11
    <2>2. QED
      BY <1>2, <1>4, <2>1, FS_Subset DEF m
  <1>12. QED
    <2>1. m \in 0 .. c
      BY <1>2
    <2>2. \A p \in P : Below(P, p) = {} <=> r[p] = 0
      BY <1>4
    <2>3. QED
      BY <1>3, <1>8, <1>9, <1>10, <1>11, <2>1, <2>2 DEF m, r

\* getFirst and getNext go up by one rank each.
LEMMA NextGoesUp ==
    ASSUME NEW c \in Nat, NEW t, DOMAIN t = 0 .. c - 1, NEW P, P = Present(t)
    PROVE  /\ FirstRanked(P, Cardinality(P), RankIn(P), NextIndex(t, -1))
           /\ StepsUp(P, Cardinality(P), RankIn(P), [j \in P |-> NextIndex(t, j)])
  <1> DEFINE m == Cardinality(P)
             r == RankIn(P)
             L(i) == {j \in P : j > i}
  <1>1. P \subseteq 0 .. c - 1 /\ \A p \in P : p \in Nat /\ p # -1
    BY DEF Present
  <1>2. /\ P = {} <=> m = 0
        /\ Ranked(P, m, r)
        /\ \A p, q \in P : Below(P, q) = Below(P, p) \cup {p} => r[q] = r[p] + 1
        /\ \A p \in P : P = Below(P, p) \cup {p} => r[p] = m - 1
        /\ \A p \in P : Below(P, p) = {} <=> r[p] = 0
        /\ \A p \in P : r[p] = m - 1 => P = Below(P, p) \cup {p}
    BY <1>1, RankFacts, ZenonT(90)
  <1> HIDE DEF m, r
  <1>3. \A i : NextIndex(t, i) = IF L(i) = {} THEN -1 ELSE Min(L(i))
    BY DEF NextIndex
  <1>4. ASSUME NEW i, L(i) # {}
        PROVE  Min(L(i)) \in L(i) /\ \A j \in L(i) : Min(L(i)) <= j
    <2>1. L(i) \subseteq Nat
      BY <1>1
    <2> HIDE DEF L
    <2>2. QED
      BY <1>4, <2>1, MinFacts
  <1>5. FirstRanked(P, m, r, NextIndex(t, -1))
    <2>1. L(-1) = P
      BY <1>1
    <2>2. CASE P = {}
      BY <1>2, <1>3, <2>1, <2>2 DEF FirstRanked
    <2>3. CASE P # {}
      <3> DEFINE n == Min(L(-1))
      <3>1. n \in P /\ \A j \in P : n <= j
        BY <1>4, <2>1, <2>3
      <3>2. NextIndex(t, -1) = n
        BY <1>3, <2>1, <2>3
      <3> HIDE DEF n
      <3>3. Below(P, n) = {}
        <4>1. \A j \in P : ~(j < n)
          BY <1>1, <3>1
        <4>2. QED
          BY <4>1 DEF Below
      <3>4. QED
        BY <1>2, <2>3, <3>1, <3>2, <3>3 DEF FirstRanked
    <2>4. QED
      BY <2>2, <2>3
  <1>6. ASSUME NEW p \in P
        PROVE  IF r[p] = m - 1 THEN NextIndex(t, p) = -1
               ELSE NextIndex(t, p) \in P /\ r[NextIndex(t, p)] = r[p] + 1
    <2>1. CASE L(p) = {}
      <3>1. P = Below(P, p) \cup {p}
        <4>1. \A j \in P : j < p \/ j = p
          BY <1>1, <2>1
        <4>2. QED
          BY <4>1 DEF Below
      <3>2. r[p] = m - 1
        BY <1>2, <3>1
      <3>3. NextIndex(t, p) = -1
        BY <1>3, <2>1
      <3>4. QED
        BY <3>2, <3>3
    <2>2. CASE L(p) # {}
      <3> DEFINE n == Min(L(p))
      <3>1. n \in P /\ n > p /\ \A j \in P : j > p => n <= j
        BY <1>4, <2>2
      <3>2. NextIndex(t, p) = n
        BY <1>3, <2>2
      <3> HIDE DEF n
      <3>3. Below(P, n) = Below(P, p) \cup {p}
        <4>1. \A j \in P : j < n <=> j < p \/ j = p
          BY <1>1, <3>1
        <4>2. QED
          BY <4>1 DEF Below
      <3>4. r[p] # m - 1
        <4>1. n \notin Below(P, p) \cup {p}
          BY <1>1, <3>1 DEF Below
        <4>2. QED
          BY <1>2, <3>1, <4>1
      <3>5. QED
        BY <1>2, <3>1, <3>2, <3>3, <3>4
    <2>3. QED
      BY <2>1, <2>2
  <1>7. StepsUp(P, m, r, [j \in P |-> NextIndex(t, j)])
    <2> DEFINE next == [j \in P |-> NextIndex(t, j)]
    <2>1. \A p \in P : next[p] = NextIndex(t, p) /\ NextIndex(t, p) \in P \cup {-1}
      BY <1>6
    <2>2. next \in [P -> P \cup {-1}]
      BY <2>1
    <2> HIDE DEF next
    <2>3. StepsUp(P, m, r, next)
      BY <1>6, <2>1, <2>2 DEF StepsUp
    <2>4. QED
      BY <2>3 DEF next
  <1>8. QED
    BY <1>5, <1>7 DEF m, r

\* The ranks from the other end
RankBack(P) == [j \in P |-> Cardinality(P) - 1 - RankIn(P)[j]]

\* getLast and getPrevious go up by one of these each.
LEMMA PreviousGoesUp ==
    ASSUME NEW c \in Nat, NEW t, DOMAIN t = 0 .. c - 1, NEW P, P = Present(t)
    PROVE  /\ Ranked(P, Cardinality(P), RankBack(P))
           /\ FirstRanked(P, Cardinality(P), RankBack(P), PreviousIndex(t, -1))
           /\ StepsUp(P, Cardinality(P), RankBack(P), [j \in P |-> PreviousIndex(t, j)])
  <1> DEFINE m == Cardinality(P)
             r == RankIn(P)
             b == RankBack(P)
             E(i) == {j \in P : i = -1 \/ j < i}
  <1>1. P \subseteq 0 .. c - 1 /\ \A p \in P : p \in Nat /\ p # -1
    BY DEF Present
  <1>2. /\ P = {} <=> m = 0
        /\ m \in 0 .. c
        /\ Ranked(P, m, r)
        /\ \A p, q \in P : Below(P, q) = Below(P, p) \cup {p} => r[q] = r[p] + 1
        /\ \A p \in P : P = Below(P, p) \cup {p} => r[p] = m - 1
        /\ \A p \in P : Below(P, p) = {} <=> r[p] = 0
    BY <1>1, RankFacts, ZenonT(90)
  <1>3. \A p \in P : b[p] = m - 1 - r[p]
    BY DEF RankBack
  <1>4. b = [p \in P |-> b[p]]
    BY DEF RankBack
  <1> HIDE DEF m, r, b
  <1>5. r \in [P -> 0 .. m - 1] /\ \A p, q \in P : r[p] = r[q] => p = q
    BY <1>2 DEF Ranked
  <1>6. Ranked(P, m, b)
    <2>1. \A p \in P : b[p] \in 0 .. m - 1
      BY <1>2, <1>3, <1>5
    <2>2. \A p, q \in P : b[p] = b[q] => r[p] = r[q]
      BY <1>2, <1>3, <1>5
    <2>3. b \in [P -> 0 .. m - 1]
      BY <1>4, <2>1
    <2>4. QED
      BY <1>5, <2>2, <2>3 DEF Ranked
  <1>7. \A i : PreviousIndex(t, i) = IF E(i) = {} THEN -1 ELSE Max(E(i))
    BY DEF PreviousIndex
  <1>8. ASSUME NEW i, E(i) # {}
        PROVE  Max(E(i)) \in E(i) /\ \A j \in E(i) : Max(E(i)) >= j
    <2>1. E(i) \subseteq 0 .. c
      BY <1>1
    <2> HIDE DEF E
    <2>2. QED
      BY <1>8, <2>1, MaxFacts
  <1>9. FirstRanked(P, m, b, PreviousIndex(t, -1))
    <2>1. E(-1) = P
      OBVIOUS
    <2>2. CASE P = {}
      BY <1>2, <1>7, <2>1, <2>2 DEF FirstRanked
    <2>3. CASE P # {}
      <3> DEFINE n == Max(E(-1))
      <3>1. n \in P /\ \A j \in P : n >= j
        BY <1>8, <2>1, <2>3
      <3>2. PreviousIndex(t, -1) = n
        BY <1>7, <2>1, <2>3
      <3> HIDE DEF n
      <3>3. P = Below(P, n) \cup {n}
        <4>1. \A j \in P : j < n \/ j = n
          BY <1>1, <3>1
        <4>2. QED
          BY <3>1, <4>1 DEF Below
      <3>4. r[n] = m - 1
        BY <1>2, <3>1, <3>3
      <3>5. b[n] = 0
        BY <1>2, <1>3, <3>1, <3>4
      <3>6. QED
        BY <1>2, <2>3, <3>1, <3>2, <3>5 DEF FirstRanked
    <2>4. QED
      BY <2>2, <2>3
  <1>10. ASSUME NEW p \in P
         PROVE  IF b[p] = m - 1 THEN PreviousIndex(t, p) = -1
                ELSE PreviousIndex(t, p) \in P /\ b[PreviousIndex(t, p)] = b[p] + 1
    <2>1. E(p) = Below(P, p)
      BY <1>1 DEF Below
    <2>2. CASE E(p) = {}
      <3>1. r[p] = 0
        BY <1>2, <2>1, <2>2
      <3>2. b[p] = m - 1
        BY <1>2, <1>3, <3>1
      <3>3. QED
        BY <1>7, <2>2, <3>2
    <2>3. CASE E(p) # {}
      <3> DEFINE n == Max(E(p))
      <3>1. n \in P /\ n < p /\ \A j \in P : j < p => n >= j
        <4>1. n \in E(p) /\ \A j \in E(p) : n >= j
          BY <1>8, <2>3
        <4>2. QED
          BY <2>1, <4>1 DEF Below
      <3>2. PreviousIndex(t, p) = n
        BY <1>7, <2>3
      <3> HIDE DEF n
      <3>3. Below(P, p) = Below(P, n) \cup {n}
        <4>1. \A j \in P : j < p <=> j < n \/ j = n
          BY <1>1, <3>1
        <4>2. QED
          BY <3>1, <4>1 DEF Below
      <3>4. r[p] = r[n] + 1 /\ r[n] \in 0 .. m - 1 /\ r[p] \in 0 .. m - 1
        BY <1>2, <1>5, <3>1, <3>3
      <3>5. b[p] = m - 1 - r[p] /\ b[n] = m - 1 - r[n]
        BY <1>3, <3>1
      <3>6. b[p] # m - 1 /\ b[n] = b[p] + 1
        BY <1>2, <3>4, <3>5
      <3>7. QED
        BY <3>1, <3>2, <3>6
    <2>4. QED
      BY <2>2, <2>3
  <1>11. StepsUp(P, m, b, [j \in P |-> PreviousIndex(t, j)])
    <2> DEFINE next == [j \in P |-> PreviousIndex(t, j)]
    <2>1. \A p \in P : next[p] = PreviousIndex(t, p) /\ PreviousIndex(t, p) \in P \cup {-1}
      BY <1>10
    <2>2. next \in [P -> P \cup {-1}]
      BY <2>1
    <2> HIDE DEF next
    <2>3. StepsUp(P, m, b, next)
      BY <1>10, <2>1, <2>2 DEF StepsUp
    <2>4. QED
      BY <2>3 DEF next
  <1>12. QED
    BY <1>6, <1>9, <1>11 DEF m, b

\* Both directions meet every entry once, one in reverse of the other.
LEMMA IterationFacts ==
    ASSUME NEW c \in Nat, NEW t, DOMAIN t = 0 .. c - 1
    PROVE  IterationRight(t)
  <1> DEFINE P == Present(t)
             m == Cardinality(P)
             r == RankIn(P)
             b == RankBack(P)
             f == Forward(t)
             g == Backward(t)
  <1>1. Capacity(t) = c
    <2>1. Cardinality(0 .. c - 1) = c
      <3>1. CASE c = 0
        BY <3>1, FS_EmptySet
      <3>2. CASE c # 0
        BY <3>2, FS_Interval
      <3>3. QED
        BY <3>1, <3>2
    <2>2. QED
      BY <2>1 DEF Capacity
  <1>2. P \subseteq 0 .. c - 1 /\ -1 \notin P
    BY DEF Present
  <1>3. m \in 0 .. c /\ Ranked(P, m, r)
    BY <1>2, RankFacts
  <1>4. Enumerates(P, m, r, f)
    <2> DEFINE next == [j \in P |-> NextIndex(t, j)]
               i == NextIndex(t, -1)
    <2>1. FirstRanked(P, m, r, i) /\ StepsUp(P, m, r, next)
      BY NextGoesUp
    <2>2. f = WalkFrom(t, next, i)
      BY DEF Forward, ForwardFrom
    <2> HIDE DEF P, m, r, next, i
    <2>3. QED
      BY <1>1, <1>2, <1>3, <2>1, <2>2, WalkFacts
  <1>5. Enumerates(P, m, b, g) /\ \A p \in P : b[p] = m - 1 - r[p]
    <2> DEFINE next == [j \in P |-> PreviousIndex(t, j)]
               i == PreviousIndex(t, -1)
    <2>1. Ranked(P, m, b) /\ FirstRanked(P, m, b, i) /\ StepsUp(P, m, b, next)
      BY PreviousGoesUp
    <2>2. g = WalkFrom(t, next, i)
      BY DEF Backward, BackwardFrom
    <2>3. \A p \in P : b[p] = m - 1 - r[p]
      BY DEF RankBack
    <2> HIDE DEF P, m, r, b, next, i
    <2>4. QED
      BY <1>1, <1>2, <1>3, <2>1, <2>2, <2>3, WalkFacts
  <1>6. IterationRight(t) <=> /\ Len(f) = m
                              /\ {f[k] : k \in 1 .. Len(f)} = P
                              /\ g = [k \in 1 .. Len(f) |-> f[Len(f) + 1 - k]]
    BY DEF IterationRight
  <1> HIDE DEF P, m, r, b, f, g
  <1>7. /\ f \in [1 .. m -> P] /\ \A k \in 1 .. m : r[f[k]] = k - 1
        /\ g \in [1 .. m -> P] /\ \A k \in 1 .. m : b[g[k]] = k - 1
    BY <1>4, <1>5 DEF Enumerates
  <1>8. r \in [P -> 0 .. m - 1] /\ \A p, q \in P : r[p] = r[q] => p = q
    BY <1>3 DEF Ranked
  <1>9. Len(f) = m
    <2>1. f \in Seq(P) /\ DOMAIN f = 1 .. m /\ m \in Nat
      BY <1>3, <1>7
    <2>2. QED
      BY <2>1
  <1>10. ASSUME NEW p \in P PROVE \E k \in 1 .. m : f[k] = p
    <2>1. r[p] + 1 \in 1 .. m /\ (r[p] + 1) - 1 = r[p]
      BY <1>3, <1>8
    <2>2. r[f[r[p] + 1]] = r[p] /\ f[r[p] + 1] \in P
      BY <1>7, <2>1
    <2>3. QED
      BY <1>8, <2>1, <2>2
  <1>11. {f[k] : k \in 1 .. m} = P
    BY <1>7, <1>10
  <1>12. ASSUME NEW k \in 1 .. m PROVE g[k] = f[m + 1 - k]
    <2>1. m + 1 - k \in 1 .. m /\ (m + 1 - k) - 1 = m - k
      BY <1>3
    <2>2. r[f[m + 1 - k]] = m - k /\ f[m + 1 - k] \in P
      BY <1>7, <2>1
    <2>3. g[k] \in P /\ b[g[k]] = k - 1 /\ b[g[k]] = m - 1 - r[g[k]] /\ r[g[k]] \in 0 .. m - 1
      BY <1>5, <1>7, <1>8
    <2>4. r[g[k]] = m - k
      BY <1>3, <2>3
    <2>5. QED
      BY <1>8, <2>2, <2>3, <2>4
  <1>13. g = [k \in 1 .. m |-> f[m + 1 - k]]
    BY <1>7, <1>12
  <1>14. QED
    BY <1>6, <1>9, <1>11, <1>13

----------------------------------------------------------------------------
(* HashMap *)

\* What a map may hold, and what entries stand for
MapEntries == [key : MapKeys, value : MapValues]

\* The dictionary of a table's entries
Pairs(A) == {<<e.key, e.value>> : e \in A}

\* A table in use: all of its entries are found, and there is a hole.
GoodTable(E, t) == Mended(E, Capacity(t), Entries(t), t)

\* A table moved from is empty.
NoTable(t) == t = EmptyTable(0)

\* Keys of maps have hashes.
LEMMA MapHashed == Hashed(MapEntries)
  BY MapAssumption DEF MapEntries, Hashed

\* put
LEMMA PutEntryFacts ==
    ASSUME NEW E, Hashed(E), NEW t, GoodTable(E, t), NEW e \in E
    PROVE  GoodTable(E, PutEntry(t, e)) /\ Entries(PutEntry(t, e)) = Over(Entries(t), e)
  <1> DEFINE c == Capacity(t)
             s == Stored(t, e)
  <1>1. Table(E, c, t) /\ Probed(c, t) /\ HasHole(c, t) /\ Hole \notin E
    BY DEF GoodTable, Mended, Hashed
  <1>2. StoredWell(E, c, t, e)
    <2>1. SpaceFor(c, t, e)
      BY <1>1 DEF SpaceFor
    <2>2. QED
      BY <1>1, <2>1, StoredFacts
  <1>3. Table(E, c, s) /\ Probed(c, s) /\ Entries(s) = Over(Entries(t), e)
    BY <1>2 DEF StoredWell
  <1> HIDE DEF c, s
  <1>4. Capacity(s) = c /\ c \in Nat \ {0}
    BY <1>1, <1>3, TableFacts DEF Table
  <1>5. PutEntry(t, e) = IF Cardinality(Present(s)) = c THEN Resized(s, 2 * c) ELSE s
    BY <1>4 DEF PutEntry, s
  <1>6. CASE Cardinality(Present(s)) = c
    <2> DEFINE b == 2 * c
               r == Refilled(s, b)[Capacity(s)]
    <2>1. PutEntry(t, e) = r
      BY <1>5, <1>6 DEF Resized
    <2>2. b \in Nat /\ c < b
      BY <1>4
    <2>3. KeysApart(c, s)
      BY <1>3 DEF Probed
    <2> HIDE DEF b
    <2>4. Table(E, b, r) /\ Probed(b, r) /\ HasHole(b, r) /\ Entries(r) = Entries(s)
      BY <1>3, <2>2, <2>3, RefillFacts
    <2> HIDE DEF r
    <2>5. Capacity(r) = b
      BY <1>1, <2>4, TableFacts
    <2>6. QED
      BY <1>3, <2>1, <2>4, <2>5 DEF GoodTable, Mended
  <1>7. CASE Cardinality(Present(s)) # c
    <2>1. HasHole(c, s)
      BY <1>1, <1>3, <1>7, PresentFacts
    <2>2. QED
      BY <1>3, <1>4, <1>5, <1>7, <2>1 DEF GoodTable, Mended
  <1>8. QED
    BY <1>6, <1>7

\* A round of the loop does not let the table grow.
LEMMA RoundIsTurn ==
    ASSUME NEW c, NEW E, Hashed(E), NEW A, NEW L, NEW x, NEW s, s \in States(E, c, A, L, x)
    PROVE  Round(s) = Turn(s)
  <1>1. CASE s.table[s.at] = Hole
    BY <1>1 DEF Round, Turn
  <1>2. CASE s.table[s.at] # Hole
    <2> DEFINE u == s.table
               p == s.at
               v == [u EXCEPT ![p] = Hole]
               m == Moved(u, p)
    <2>1. p \in 0 .. c - 1 /\ (Before(E, c, A, L, x, u, p) \/ Beyond(E, c, A, u, p))
      BY DEF States
    <2>2. Table(E, c, u) /\ KeysApart(c, u) /\ HasHole(c, u)
      BY <2>1 DEF Before, Beyond, Closing, Probed
    <2>3. Table(E, c, m) /\ HasHole(c, m)
      BY <1>2, <2>1, <2>2, MovedKeeps
    <2>4. Table(E, c, v)
      BY <2>2 DEF Table
    <2>5. Capacity(v) = c /\ Capacity(m) = c /\ Cardinality(Present(m)) # c
      <3>1. Hole \notin E
        BY DEF Hashed
      <3> HIDE DEF v, m
      <3>2. Capacity(v) = c
        BY <2>4, <3>1, TableFacts
      <3>3. Capacity(m) = c
        BY <2>3, <3>1, TableFacts
      <3>4. Cardinality(Present(m)) # c
        BY <2>3, <3>1, PresentFacts
      <3>5. QED
        BY <3>2, <3>3, <3>4
    <2>6. m = Stored(v, u[p])
      BY DEF Moved
    <2>7. PutEntry(v, u[p]) = m
      BY <2>5, <2>6 DEF PutEntry
    <2>8. Round(s) = [table |-> m, at |-> (p + 1) % Capacity(m)]
      BY <1>2, <2>7 DEF Round
    <2>9. Turn(s) = [table |-> m, at |-> (p + 1) % Capacity(v)]
      BY <1>2 DEF Turn
    <2>10. QED
      BY <2>5, <2>8, <2>9
  <1>3. QED
    BY <1>1, <1>2

\* The loop of the code is such a loop.
LEMMA RoundsLoop ==
    ASSUME NEW c, NEW E, Hashed(E), NEW A, NEW L, NEW x, NEW t, NEW i,
           GapState(t, i) \in States(E, c, A, L, x)
    PROVE  Loop(States(E, c, A, L, x), GapState(t, i), Rounds(t, i))
  <1> DEFINE V == States(E, c, A, L, x)
             s0 == GapState(t, i)
             Def(s) == s = [n \in Nat |-> IF n = 0 THEN s0 ELSE Round(s[n - 1])]
             R == Rounds(t, i)
  <1>1. PICK f : Loop(V, s0, f)
    BY LoopExists
  <1>2. f \in [Nat -> V] /\ f[0] = s0 /\ \A n \in Nat : f[n + 1] = Turn(f[n])
    BY <1>1 DEF Loop
  <1>3. \A s \in V : Round(s) = Turn(s) /\ Turn(s) \in V
    BY RoundIsTurn, TurnFacts
  <1> HIDE DEF V, s0
  <1>4. ASSUME NEW n \in Nat PROVE f[n] = IF n = 0 THEN s0 ELSE Round(f[n - 1])
    <2>1. CASE n = 0
      BY <1>2, <2>1
    <2>2. CASE n # 0
      <3>1. n - 1 \in Nat /\ (n - 1) + 1 = n
        BY <2>2
      <3>2. f[n] = Turn(f[n - 1]) /\ f[n - 1] \in V
        BY <1>2, <3>1
      <3>3. QED
        BY <1>3, <2>2, <3>2
    <2>3. QED
      BY <2>1, <2>2
  <1>5. f = [n \in Nat |-> f[n]]
    BY <1>2
  <1>6. Def(f)
    BY <1>4, <1>5
  <1>7. R = CHOOSE s : Def(s)
    BY DEF Rounds, s0, GapState
  <1>8. Def(R)
    BY <1>6, <1>7
  <1> HIDE DEF R
  <1>9. R[0] = s0 /\ \A n \in Nat : R[n + 1] = Round(R[n])
    <2>1. \A h : h = [n \in Nat |-> IF n = 0 THEN s0 ELSE Round(R[n - 1])] =>
             \A n \in Nat : h[n] = IF n = 0 THEN s0 ELSE Round(R[n - 1])
      OBVIOUS
    <2>2. \A n \in Nat : R[n] = IF n = 0 THEN s0 ELSE Round(R[n - 1])
      BY <1>8, <2>1
    <2>3. \A n \in Nat : n + 1 \in Nat /\ n + 1 # 0 /\ (n + 1) - 1 = n
      OBVIOUS
    <2>4. QED
      BY <2>2, <2>3
  <1> DEFINE T == {n \in Nat : R[n] \in V}
  <1>10. 0 \in T
    BY <1>2, <1>9
  <1>11. ASSUME NEW n \in Nat, n \in T PROVE n + 1 \in T
    BY <1>3, <1>9, <1>11
  <1> HIDE DEF T
  <1>12. Nat \subseteq T
    BY <1>10, <1>11, CountingUp
  <1>13. \A n \in Nat : R[n] \in V /\ R[n + 1] = Turn(R[n])
    BY <1>3, <1>9, <1>12 DEF T
  <1>14. DOMAIN R = Nat
    BY <1>8
  <1>15. R = [n \in Nat |-> R[n]]
    BY <1>8, <1>14
  <1>16. R \in [Nat -> V]
    BY <1>13, <1>15
  <1>17. QED
    BY <1>9, <1>13, <1>16 DEF Loop, V, s0, R

\* remove, drop: the entry is gone and every other one is found.
LEMMA WithoutFacts ==
    ASSUME NEW E, Hashed(E), NEW t, GoodTable(E, t), NEW k, HashOf[k] \in Nat
    PROVE  Mended(E, Capacity(t), {x \in Entries(t) : x.key # k}, Without(t, k))
  <1> DEFINE c == Capacity(t)
             i == Locate(t, k)
             A == {x \in Entries(t) : x.key # k}
  <1>1. Table(E, c, t) /\ Probed(c, t) /\ HasHole(c, t) /\ KeysApart(c, t) /\ Hole \notin E
    BY DEF GoodTable, Mended, Hashed, Probed
  <1> HIDE DEF c
  <1>2. c \in Nat \ {0}
    BY <1>1 DEF Table
  <1>3. CASE ~Has(t, k)
    <2>1. \A x \in Entries(t) : x.key # k
      <3>0. \A x \in Entries(t) : \E j \in 0 .. c - 1 : t[j] # Hole /\ x = t[j]
        <4>1. DOMAIN t = 0 .. c - 1
          BY <1>1 DEF Table
        <4>2. QED
          BY <4>1 DEF Entries, Present
      <3> SUFFICES ASSUME NEW j \in 0 .. c - 1, t[j] # Hole, t[j].key = k PROVE FALSE
        BY <3>0
      <3>1. i = j
        BY <1>1, LocateProbed
      <3>2. i # -1
        BY <3>1
      <3>3. QED
        BY <1>3, <3>1, <3>2 DEF Has
    <2>2. A = Entries(t) /\ Without(t, k) = t
      BY <1>3, <2>1 DEF Without
    <2>3. QED
      BY <1>1, <2>2 DEF Mended, c
  <1>4. CASE Has(t, k)
    <2>1. i # -1 /\ t[i] # Hole
      BY <1>4 DEF Has
    <2>2. \/ i = -1 /\ \A q \in 0 .. c - 1 : t[q] # Hole /\ t[q].key # k
          \/ /\ i \in 0 .. c - 1
             /\ t[i] = Hole \/ t[i].key = k
             /\ \A q \in 0 .. c - 1 :
                   Off(c, k, q) < Off(c, k, i) => t[q] # Hole /\ t[q].key # k
      BY <1>1, LocateFacts
    <2> DEFINE v == WithoutPlace(t, i)
               n == (i + 1) % c
    <2>3. Without(t, k) = Rounds(v, n)[Capacity(v)].table
      BY <1>4 DEF Without, Repaired, WithoutPlace, c
    <2> HIDE DEF i
    <2>4. i \in 0 .. c - 1 /\ t[i].key = k
      BY <2>1, <2>2
    <2>5. Table(E, c, v) /\ HasHole(c, v) /\ Entries(v) = A /\ n \in 0 .. c - 1
      <3>1. n \in 0 .. c - 1
        BY <1>2, <2>4, NextPlace
      <3>2. /\ Table(E, c, v) /\ HasHole(c, v)
            /\ Entries(v) = {x \in Entries(t) : x.key # t[i].key}
        BY <1>1, <2>1, <2>4, TakenOut
      <3>3. QED
        BY <2>4, <3>1, <3>2
    <2>6. PICK L \in 0 .. c - 1 : Closing(E, c, v, n, L)
      BY <1>1, <2>1, <2>4, ClosingInOne
    <2> HIDE DEF v, n, A
    <2>7. Before(E, c, A, L, v[L], v, n)
      BY <2>5, <2>6 DEF Before
    <2>8. GapState(v, n) \in States(E, c, A, L, v[L])
      <3>1. GapState(v, n).table = v /\ GapState(v, n).at = n
        BY DEF GapState
      <3>2. v \in [0 .. c - 1 -> E \cup {Hole}]
        BY <2>5 DEF Table
      <3>3. GapState(v, n) \in [table : [0 .. c - 1 -> E \cup {Hole}], at : 0 .. c - 1]
        BY <2>5, <3>2 DEF GapState
      <3>4. QED
        BY <2>7, <3>1, <3>3 DEF States
    <2>9. Loop(States(E, c, A, L, v[L]), GapState(v, n), Rounds(v, n))
      BY <2>8, RoundsLoop
    <2>10. Capacity(v) = c
      BY <1>1, <2>5, TableFacts
    <2>11. Mended(E, c, A, Rounds(v, n)[c].table)
      BY <1>2, <2>9, LoopEnds
    <2>12. QED
      BY <2>3, <2>10, <2>11 DEF A, c
  <1>5. QED
    BY <1>3, <1>4

\* Entries and pairs
LEMMA PairsFacts ==
    ASSUME NEW A, A \subseteq MapEntries
    PROVE  /\ \A e \in MapEntries : Pairs(Over(A, e)) = Bind(Pairs(A), e.key, e.value)
           /\ \A B : B \subseteq MapEntries => (Pairs(A) = Pairs(B) <=> A = B)
  <1>1. ASSUME NEW e \in MapEntries PROVE Pairs(Over(A, e)) = Bind(Pairs(A), e.key, e.value)
    BY DEF Pairs, Over, Bind
  <1>2. ASSUME NEW B, B \subseteq MapEntries, Pairs(A) = Pairs(B) PROVE A = B
    <2>1. \A x, y \in MapEntries : x.key = y.key /\ x.value = y.value => x = y
      BY DEF MapEntries
    <2>2. ASSUME NEW X, NEW Y, X \subseteq MapEntries, Y \subseteq MapEntries,
                 Pairs(X) \subseteq Pairs(Y), NEW x \in X
          PROVE  x \in Y
      <3>1. <<x.key, x.value>> \in Pairs(Y)
        BY <2>2 DEF Pairs
      <3>2. PICK y \in Y : <<x.key, x.value>> = <<y.key, y.value>>
        BY <3>1 DEF Pairs
      <3>3. x = y
        BY <2>1, <2>2, <3>2
      <3>4. QED
        BY <3>3
    <2>3. QED
      BY <1>2, <2>2
  <1>3. QED
    BY <1>1, <1>2

\* putFrom: after the first n places of the other map
PutStep(other, u, n) == IF other[n - 1] = Hole THEN u ELSE PutEntry(u, other[n - 1])

\* putFrom leaves a good table at each of its steps, and PutInto is what its definition says.
LEMMA PutIntoFacts ==
    ASSUME NEW c, NEW E, Hashed(E), NEW other, Table(E, c, other), NEW t, GoodTable(E, t)
    PROVE  \A n \in 0 .. c : /\ GoodTable(E, PutInto(t, other)[n])
                             /\ PutInto(t, other)[0] = t
                             /\ n > 0 => PutInto(t, other)[n] =
                                            PutStep(other, PutInto(t, other)[n - 1], n)
  <1> DEFINE W == UNION {[0 .. b - 1 -> E \cup {Hole}] : b \in Nat}
             V == {u \in W : GoodTable(E, u)}
             R == PutInto(t, other)
             step == [n \in 1 .. c |-> [u \in V |-> PutStep(other, u, n)]]
             Def(f) == f = [n \in 0 .. c |->
                               IF n = 0 THEN t ELSE PutStep(other, f[n - 1], n)]
  <1>1. c \in Nat \ {0} /\ Capacity(other) = c
    BY TableFacts DEF Hashed, Table
  <1>2. \A u : GoodTable(E, u) => u \in V
    <2> SUFFICES ASSUME NEW u, GoodTable(E, u) PROVE u \in W
      OBVIOUS
    <2>1. Table(E, Capacity(u), u)
      BY DEF GoodTable, Mended
    <2>2. QED
      BY <2>1 DEF Table
  <1>3. ASSUME NEW n \in 1 .. c, NEW u \in V PROVE PutStep(other, u, n) \in V
    <2>1. GoodTable(E, u)
      OBVIOUS
    <2>2. CASE other[n - 1] = Hole
      BY <2>2 DEF PutStep
    <2>3. CASE other[n - 1] # Hole
      <3>1. n - 1 \in 0 .. c - 1
        BY <1>1
      <3>2. other[n - 1] \in E
        BY <2>3, <3>1 DEF Table
      <3>3. GoodTable(E, PutEntry(u, other[n - 1]))
        BY <2>1, <3>2, PutEntryFacts
      <3>4. QED
        BY <1>2, <2>3, <3>3 DEF PutStep
    <2>4. QED
      BY <2>2, <2>3
  <1>4. t \in V
    BY <1>2
  <1>5. /\ step \in [1 .. c -> [V -> V]]
        /\ \A n \in 1 .. c : \A u \in V : step[n][u] = PutStep(other, u, n)
    BY <1>3
  <1>6. \A u \in V : GoodTable(E, u)
    OBVIOUS
  <1> HIDE DEF step, V
  <1>7. PICK f : FollowsTo(V, t, c, step, f)
    <2>1. StepsInTo(V, c, step)
      BY <1>5 DEF StepsInTo
    <2>2. c \in Nat
      BY <1>1
    <2>3. QED
      BY <1>4, <2>1, <2>2, BoundedRecursion
  <1>8. f \in [0 .. c -> V] /\ f[0] = t /\ \A k \in 1 .. c : f[k] = step[k][f[k - 1]]
    BY <1>7 DEF FollowsTo
  <1>9. ASSUME NEW n \in 0 .. c PROVE f[n] = IF n = 0 THEN t ELSE PutStep(other, f[n - 1], n)
    <2>1. CASE n = 0
      BY <1>8, <2>1
    <2>2. CASE n # 0
      <3>1. n \in 1 .. c /\ n - 1 \in 0 .. c
        BY <1>1, <2>2
      <3>2. QED
        BY <1>5, <1>8, <2>2, <3>1
    <2>3. QED
      BY <2>1, <2>2
  <1>10. f = [n \in 0 .. c |-> f[n]]
    BY <1>8
  <1>11. Def(f)
    BY <1>9, <1>10
  <1>12. R = CHOOSE u : Def(u)
    BY <1>1 DEF PutInto, PutStep
  <1>13. Def(R)
    BY <1>11, <1>12
  <1> HIDE DEF R
  <1>14. \A n \in 0 .. c : R[n] = IF n = 0 THEN t ELSE PutStep(other, R[n - 1], n)
    <2>1. \A h : h = [n \in 0 .. c |-> IF n = 0 THEN t ELSE PutStep(other, R[n - 1], n)] =>
             \A n \in 0 .. c : h[n] = IF n = 0 THEN t ELSE PutStep(other, R[n - 1], n)
      OBVIOUS
    <2>2. QED
      BY <1>13, <2>1
  <1> DEFINE T == {n \in Nat : n <= c => R[n] \in V}
  <1>15. R[0] = t
    <2>1. 0 \in 0 .. c
      BY <1>1
    <2>2. QED
      BY <1>14, <2>1
  <1>16. 0 \in T
    BY <1>4, <1>15
  <1>17. ASSUME NEW n \in Nat, n \in T PROVE n + 1 \in T
    <2> SUFFICES ASSUME n + 1 <= c PROVE R[n + 1] \in V
      OBVIOUS
    <2>1. n + 1 \in 1 .. c /\ n + 1 \in 0 .. c /\ n + 1 # 0 /\ (n + 1) - 1 = n /\ n <= c
      BY <1>1
    <2>2. R[n] \in V
      BY <1>17, <2>1
    <2>3. R[n + 1] = PutStep(other, R[n], n + 1)
      BY <1>14, <2>1
    <2>4. QED
      BY <1>3, <2>1, <2>2, <2>3
  <1> HIDE DEF T
  <1>18. Nat \subseteq T
    BY <1>16, <1>17, CountingUp
  <1>19. ASSUME NEW n \in 0 .. c PROVE GoodTable(E, R[n])
    <2>1. n \in Nat /\ n <= c
      BY <1>1
    <2>2. QED
      BY <1>6, <1>18, <2>1 DEF T
  <1>20. \A n \in 0 .. c : n > 0 => R[n] = PutStep(other, R[n - 1], n)
    BY <1>14
  <1>21. QED
    BY <1>15, <1>19, <1>20 DEF R

\* The entries then: the other map's, and those whose keys the other has not
Joined(X, Y) == {x \in X : \A y \in Y : y.key # x.key} \cup Y

\* ... and their pairs
LEMMA PairsJoined ==
    ASSUME NEW X, NEW Y
    PROVE  Pairs(Joined(X, Y)) =
              {p \in Pairs(X) : \A q \in Pairs(Y) : q[1] # p[1]} \cup Pairs(Y)
  <1>1. ASSUME NEW p \in Pairs(Joined(X, Y))
        PROVE  p \in {r \in Pairs(X) : \A q \in Pairs(Y) : q[1] # r[1]} \cup Pairs(Y)
    BY DEF Pairs, Joined
  <1>2. ASSUME NEW p \in Pairs(X), \A q \in Pairs(Y) : q[1] # p[1]
        PROVE  p \in Pairs(Joined(X, Y))
    <2>1. PICK x \in X : p = <<x.key, x.value>>
      BY DEF Pairs
    <2>2. ASSUME NEW y \in Y PROVE y.key # x.key
      <3>1. <<y.key, y.value>> \in Pairs(Y)
        BY DEF Pairs
      <3>2. <<y.key, y.value>>[1] # p[1]
        BY <1>2, <3>1
      <3>3. QED
        BY <2>1, <3>2
    <2>3. x \in Joined(X, Y)
      BY <2>2 DEF Joined
    <2>4. QED
      BY <2>1, <2>3 DEF Pairs
  <1>3. ASSUME NEW p \in Pairs(Y) PROVE p \in Pairs(Joined(X, Y))
    BY DEF Pairs, Joined
  <1>4. QED
    BY <1>1, <1>2, <1>3

\* The table that putFrom leaves
LEMMA PutIntoEntries ==
    ASSUME NEW c, NEW E, Hashed(E), NEW other, Table(E, c, other), KeysApart(c, other),
           NEW t, GoodTable(E, t)
    PROVE  Entries(PutInto(t, other)[c]) = Joined(Entries(t), Entries(other))
  <1> DEFINE R == PutInto(t, other)
             A(n) == {other[i] : i \in {j \in 0 .. n - 1 : other[j] # Hole}}
             T == {n \in Nat : n <= c => Entries(R[n]) = Joined(Entries(t), A(n))}
  <1>1. c \in Nat \ {0} /\ Hole \notin E
    BY DEF Table, Hashed
  <1>2. \A n \in 0 .. c : /\ GoodTable(E, R[n]) /\ R[0] = t
                          /\ n > 0 => R[n] = PutStep(other, R[n - 1], n)
    BY PutIntoFacts
  <1> HIDE DEF R
  <1>3. 0 \in T
    <2>1. 0 \in 0 .. c /\ A(0) = {}
      BY <1>1
    <2>2. R[0] = t
      BY <1>2, <2>1
    <2>3. Joined(Entries(t), {}) = Entries(t)
      BY DEF Joined
    <2>4. QED
      BY <2>1, <2>2, <2>3
  <1>4. ASSUME NEW n \in Nat, n \in T PROVE n + 1 \in T
    <2> SUFFICES ASSUME n + 1 <= c PROVE Entries(R[n + 1]) = Joined(Entries(t), A(n + 1))
      OBVIOUS
    <2>1. /\ n + 1 \in 0 .. c /\ n \in 0 .. c /\ n + 1 > 0 /\ (n + 1) - 1 = n /\ n <= c
          /\ n \in 0 .. c - 1
      BY <1>1
    <2> DEFINE u == R[n]
               e == other[n]
    <2>2. R[n + 1] = PutStep(other, u, n + 1) /\ GoodTable(E, u)
      BY <1>2, <2>1
    <2>3. R[n + 1] = IF e = Hole THEN u ELSE PutEntry(u, e)
      BY <2>1, <2>2 DEF PutStep
    <2>4. Entries(u) = Joined(Entries(t), A(n))
      BY <1>4, <2>1
    <2>5. A(n + 1) = IF e = Hole THEN A(n) ELSE A(n) \cup {e}
      <3>1. \A j : j \in 0 .. (n + 1) - 1 <=> j \in 0 .. n - 1 \/ j = n
        OBVIOUS
      <3>2. QED
        BY <3>1
    <2> HIDE DEF u
    <2>6. CASE e = Hole
      BY <2>3, <2>4, <2>5, <2>6
    <2>7. CASE e # Hole
      <3>1. e \in E
        BY <2>1, <2>7 DEF Table
      <3>2. Entries(PutEntry(u, e)) = Over(Entries(u), e)
        BY <2>2, <3>1, PutEntryFacts
      <3>3. \A x \in A(n) : x.key # e.key
        <4> SUFFICES ASSUME NEW i \in 0 .. n - 1, other[i] # Hole PROVE other[i].key # e.key
          OBVIOUS
        <4>1. i \in 0 .. c - 1 /\ i # n
          BY <1>1, <2>1
        <4>2. QED
          BY <2>1, <2>7, <4>1 DEF KeysApart
      <3> HIDE DEF e, A
      <3>4. Over(Joined(Entries(t), A(n)), e) = Joined(Entries(t), A(n) \cup {e})
        BY <3>3 DEF Over, Joined
      <3>5. QED
        BY <2>3, <2>4, <2>5, <2>7, <3>2, <3>4
    <2>8. QED
      BY <2>6, <2>7
  <1> HIDE DEF T
  <1>5. Nat \subseteq T
    BY <1>3, <1>4, CountingUp
  <1>6. Entries(R[c]) = Joined(Entries(t), A(c))
    BY <1>1, <1>5 DEF T
  <1>7. A(c) = Entries(other)
    <2>1. DOMAIN other = 0 .. c - 1
      BY DEF Table
    <2>2. QED
      BY <2>1 DEF Entries, Present
  <1>8. QED
    BY <1>6, <1>7 DEF R

\* No places, no entries
LEMMA NoTableFacts ==
    ASSUME NEW t, NoTable(t)
    PROVE  /\ Capacity(t) = 0 /\ DOMAIN t = {} /\ Present(t) = {} /\ Entries(t) = {}
           /\ \A u : PutInto(u, t)[Capacity(t)] = u
  <1>1. DOMAIN t = {} /\ 0 .. 0 - 1 = {}
    BY DEF NoTable, EmptyTable
  <1>2. Capacity(t) = 0
    BY <1>1, FS_EmptySet DEF Capacity
  <1>3. Present(t) = {} /\ Entries(t) = {}
    BY <1>1 DEF Present, Entries
  <1>4. ASSUME NEW u PROVE PutInto(u, t)[0] = u
    <2> DEFINE Def(f) == f = [n \in 0 .. 0 |-> IF n = 0 THEN u ELSE PutStep(t, f[n - 1], n)]
               g == [n \in 0 .. 0 |-> u]
               R == PutInto(u, t)
    <2>1. 0 .. 0 = {0}
      OBVIOUS
    <2>2. Def(g)
      BY <2>1
    <2>3. R = CHOOSE f : Def(f)
      BY <1>2 DEF PutInto, PutStep
    <2>4. Def(R)
      BY <2>2, <2>3
    <2> HIDE DEF R
    <2>5. \A h : h = [n \in 0 .. 0 |-> IF n = 0 THEN u ELSE PutStep(t, R[n - 1], n)] => h[0] = u
      BY <2>1
    <2>6. QED
      BY <2>4, <2>5 DEF R
  <1>5. QED
    BY <1>1, <1>2, <1>3, <1>4

\* A map and what it stands for
MapOne(t, d) == (GoodTable(MapEntries, t) \/ NoTable(t)) /\ d = Pairs(Entries(t))

\* The invariant of the maps: each is probed and has a hole, or was moved from.
MapInv ==
    /\ DOMAIN table = Maps /\ DOMAIN dictionary = Maps
    /\ \A m \in Maps : MapOne(table[m], dictionary[m])

\* A table in use has places.
LEMMA GoodFacts ==
    ASSUME NEW E, Hashed(E), NEW t, GoodTable(E, t)
    PROVE  /\ Capacity(t) \in Nat \ {0} /\ ~NoTable(t)
           /\ Table(E, Capacity(t), t) /\ Probed(Capacity(t), t) /\ HasHole(Capacity(t), t)
           /\ KeysApart(Capacity(t), t)
           /\ Entries(t) \subseteq E
  <1>1. Table(E, Capacity(t), t) /\ Probed(Capacity(t), t) /\ HasHole(Capacity(t), t)
    BY DEF GoodTable, Mended
  <1>2. Capacity(t) \in Nat \ {0}
    BY <1>1 DEF Table
  <1>3. ~NoTable(t)
    BY <1>2, NoTableFacts
  <1>4. Entries(t) \subseteq E /\ KeysApart(Capacity(t), t)
    BY <1>1, TableFacts DEF Hashed, Probed
  <1>5. QED
    BY <1>1, <1>2, <1>3, <1>4

\* A fresh table
LEMMA EmptyIsGood ==
    ASSUME NEW E, Hashed(E), NEW c \in Nat \ {0}
    PROVE  GoodTable(E, EmptyTable(c)) /\ Entries(EmptyTable(c)) = {}
  <1> DEFINE t == EmptyTable(c)
  <1>1. Hole \notin E
    BY DEF Hashed
  <1>2. Table(E, c, t) /\ Probed(c, t) /\ HasHole(c, t) /\ Entries(t) = {}
    BY <1>1, EmptyFacts
  <1> HIDE DEF t
  <1>3. Capacity(t) = c
    BY <1>1, <1>2, TableFacts
  <1>4. QED
    BY <1>2, <1>3 DEF GoodTable, Mended, t

\* A map that was moved from stands for the empty dictionary.
LEMMA NoTableIsEmpty == MapOne(EmptyTable(0), {})
  <1>1. NoTable(EmptyTable(0))
    BY DEF NoTable
  <1>2. Entries(EmptyTable(0)) = {}
    BY <1>1, NoTableFacts
  <1>3. Pairs({}) = {}
    BY DEF Pairs
  <1>4. QED
    BY <1>1, <1>2, <1>3 DEF MapOne

\* A new map, or a cleared one, too
LEMMA FreshMap ==
    ASSUME NEW c \in Nat \ {0}
    PROVE  MapOne(EmptyTable(c), {})
  <1>1. GoodTable(MapEntries, EmptyTable(c)) /\ Entries(EmptyTable(c)) = {}
    BY MapHashed, EmptyIsGood
  <1>2. Pairs({}) = {}
    BY DEF Pairs
  <1>3. QED
    BY <1>1, <1>2 DEF MapOne

\* The maps start right.
LEMMA InitMaps == MapInit => MapInv
  <1>1. MapOne(EmptyTable(FirstCapacity), {})
    BY MapAssumption, FreshMap
  <1>2. QED
    BY <1>1 DEF MapInit, MapInv

\* A map that is in use is good.
LEMMA UsableFacts ==
    ASSUME MapInv, NEW m \in Maps, Usable(m)
    PROVE  GoodTable(MapEntries, table[m]) /\ dictionary[m] = Pairs(Entries(table[m]))
  <1>1. MapOne(table[m], dictionary[m])
    BY DEF MapInv
  <1>2. CASE NoTable(table[m])
    BY <1>2, NoTableFacts DEF Usable
  <1>3. CASE GoodTable(MapEntries, table[m])
    BY <1>1, <1>3 DEF MapOne
  <1>4. QED
    BY <1>1, <1>2, <1>3 DEF MapOne

\* Changing one map
LEMMA OneMap ==
    ASSUME MapInv, NEW m \in Maps, NEW t, NEW d, MapOne(t, d),
           table' = [table EXCEPT ![m] = t], dictionary' = [dictionary EXCEPT ![m] = d]
    PROVE  MapInv'
  <1>1. DOMAIN table' = Maps /\ DOMAIN dictionary' = Maps
    BY DEF MapInv
  <1>2. ASSUME NEW n \in Maps PROVE MapOne(table'[n], dictionary'[n])
    <2>1. CASE n = m
      <3>1. table'[n] = t /\ dictionary'[n] = d
        BY <2>1 DEF MapInv
      <3>2. QED
        BY <3>1
    <2>2. CASE n # m
      <3>1. table'[n] = table[n] /\ dictionary'[n] = dictionary[n]
        BY <2>2 DEF MapInv
      <3>2. MapOne(table[n], dictionary[n])
        BY DEF MapInv
      <3>3. QED
        BY <3>1, <3>2
    <2>3. QED
      BY <2>1, <2>2
  <1>3. QED
    BY <1>1, <1>2 DEF MapInv

\* put keeps the invariant.
LEMMA PutKeeps ==
    ASSUME MapInv, NEW m \in Maps, NEW k \in MapKeys, NEW v \in MapValues, Put(m, k, v)
    PROVE  MapInv'
  <1> DEFINE t == table[m]
             e == Entry(k, v)
  <1>1. GoodTable(MapEntries, t) /\ dictionary[m] = Pairs(Entries(t))
    BY UsableFacts DEF Put
  <1>2. e \in MapEntries /\ e.key = k /\ e.value = v
    BY DEF Entry, MapEntries
  <1> HIDE DEF t, e
  <1>3. GoodTable(MapEntries, PutEntry(t, e)) /\ Entries(PutEntry(t, e)) = Over(Entries(t), e)
    BY <1>1, <1>2, MapHashed, PutEntryFacts
  <1>4. Entries(t) \subseteq MapEntries
    BY <1>1, MapHashed, GoodFacts
  <1>5. Pairs(Over(Entries(t), e)) = Bind(Pairs(Entries(t)), k, v)
    BY <1>2, <1>4, PairsFacts
  <1>6. MapOne(PutEntry(t, e), Bind(dictionary[m], k, v))
    BY <1>1, <1>3, <1>5 DEF MapOne
  <1>7. /\ table' = [table EXCEPT ![m] = PutEntry(t, e)]
        /\ dictionary' = [dictionary EXCEPT ![m] = Bind(dictionary[m], k, v)]
    BY DEF Put, t, e
  <1>8. QED
    BY <1>6, <1>7, OneMap

\* remove keeps it.
LEMMA RemoveKeeps ==
    ASSUME MapInv, NEW m \in Maps, NEW k \in MapKeys, RemoveKey(m, k)
    PROVE  MapInv'
  <1> DEFINE t == table[m]
             u == Without(t, k)
             d == {p \in dictionary[m] : p[1] # k}
             A == {x \in Entries(t) : x.key # k}
             c == Capacity(t)
  <1>1. GoodTable(MapEntries, t) /\ dictionary[m] = Pairs(Entries(t))
    BY UsableFacts DEF RemoveKey
  <1>2. HashOf[k] \in Nat
    BY MapAssumption
  <1> HIDE DEF t
  <1>3. Mended(MapEntries, c, A, u)
    BY <1>1, <1>2, MapHashed, WithoutFacts
  <1>4. Entries(t) \subseteq MapEntries
    BY <1>1, MapHashed, GoodFacts
  <1>5. Pairs(A) = d
    <2>1. Pairs(A) = {p \in Pairs(Entries(t)) : p[1] # k}
      BY DEF Pairs
    <2>2. QED
      BY <1>1, <2>1
  <1> HIDE DEF u, A, c
  <1>6. Table(MapEntries, c, u) /\ Hole \notin MapEntries
    BY <1>3, MapHashed DEF Mended, Hashed
  <1>7. Capacity(u) = c
    BY <1>6, TableFacts
  <1>8. GoodTable(MapEntries, u) /\ Entries(u) = A
    BY <1>3, <1>7 DEF GoodTable, Mended
  <1>9. MapOne(u, d)
    BY <1>5, <1>8 DEF MapOne
  <1>10. table' = [table EXCEPT ![m] = u] /\ dictionary' = [dictionary EXCEPT ![m] = d]
    BY DEF RemoveKey, u, t
  <1>11. QED
    BY <1>9, <1>10, OneMap

\* clear keeps it.
LEMMA ClearKeeps ==
    ASSUME MapInv, NEW m \in Maps, ClearMap(m)
    PROVE  MapInv'
  <1> DEFINE c == Capacity(table[m])
  <1>1. MapOne(table[m], dictionary[m])
    BY DEF MapInv
  <1>2. MapOne(EmptyTable(c), {})
    <2>1. CASE NoTable(table[m])
      <3>1. c = 0
        BY <2>1, NoTableFacts
      <3>2. QED
        BY <3>1, NoTableIsEmpty
    <2>2. CASE GoodTable(MapEntries, table[m])
      <3>1. c \in Nat \ {0}
        BY <2>2, MapHashed, GoodFacts
      <3>2. QED
        BY <3>1, FreshMap
    <2>3. QED
      BY <1>1, <2>1, <2>2 DEF MapOne
  <1>3. /\ table' = [table EXCEPT ![m] = EmptyTable(c)]
        /\ dictionary' = [dictionary EXCEPT ![m] = {}]
    BY DEF ClearMap
  <1>4. QED
    BY <1>2, <1>3, OneMap

\* Copies keep it.
LEMMA CopyKeeps ==
    ASSUME MapInv, NEW m \in Maps, NEW n \in Maps, CopyMap(m, n)
    PROVE  MapInv'
  <1>1. MapOne(table[n], dictionary[n])
    BY DEF MapInv
  <1>2. QED
    BY <1>1, OneMap DEF CopyMap

\* Moves keep it.
LEMMA MoveKeeps ==
    ASSUME MapInv, NEW m \in Maps, NEW n \in Maps, MoveMap(m, n)
    PROVE  MapInv'
  <1>1. DOMAIN table' = Maps /\ DOMAIN dictionary' = Maps
    BY DEF MapInv, MoveMap
  <1>2. ASSUME NEW o \in Maps PROVE MapOne(table'[o], dictionary'[o])
    <2>1. /\ table'[o] = IF o = n THEN EmptyTable(0) ELSE IF o = m THEN table[n] ELSE table[o]
          /\ dictionary'[o] = IF o = n THEN {} ELSE IF o = m THEN dictionary[n] ELSE dictionary[o]
      BY DEF MapInv, MoveMap
    <2>2. MapOne(EmptyTable(0), {})
      BY NoTableIsEmpty
    <2>3. MapOne(table[n], dictionary[n]) /\ MapOne(table[o], dictionary[o])
      BY DEF MapInv
    <2>4. QED
      BY <2>1, <2>2, <2>3
  <1>3. QED
    BY <1>1, <1>2 DEF MapInv

\* putFrom keeps it.
LEMMA PutFromKeeps ==
    ASSUME MapInv, NEW m \in Maps, NEW n \in Maps, PutFrom(m, n)
    PROVE  MapInv'
  <1> DEFINE t == table[m]
             o == table[n]
             u == PutInto(t, o)[Capacity(o)]
             d == {p \in dictionary[m] : \A q \in dictionary[n] : q[1] # p[1]} \cup dictionary[n]
  <1>1. GoodTable(MapEntries, t) /\ dictionary[m] = Pairs(Entries(t))
    BY UsableFacts DEF PutFrom
  <1>2. MapOne(o, dictionary[n])
    BY DEF MapInv
  <1>3. table' = [table EXCEPT ![m] = u] /\ dictionary' = [dictionary EXCEPT ![m] = d]
    BY DEF PutFrom
  <1> HIDE DEF t, o
  <1>4. Entries(t) \subseteq MapEntries
    BY <1>1, MapHashed, GoodFacts
  <1>5. MapOne(u, d)
    <2>1. CASE NoTable(o)
      <3>1. u = t /\ Entries(o) = {}
        BY <2>1, NoTableFacts
      <3>2. dictionary[n] = {}
        BY <1>2, <3>1 DEF MapOne, Pairs
      <3>3. d = dictionary[m]
        BY <1>1, <3>2 DEF Pairs
      <3>4. QED
        BY <1>1, <3>1, <3>3 DEF MapOne
    <2>2. CASE GoodTable(MapEntries, o)
      <3>1. /\ Table(MapEntries, Capacity(o), o) /\ KeysApart(Capacity(o), o)
            /\ Entries(o) \subseteq MapEntries /\ Capacity(o) \in Nat \ {0}
        BY <2>2, MapHashed, GoodFacts
      <3>2. Entries(u) = Joined(Entries(t), Entries(o))
        BY <1>1, <3>1, MapHashed, PutIntoEntries
      <3>3. GoodTable(MapEntries, u)
        <4>1. Capacity(o) \in 0 .. Capacity(o)
          BY <3>1
        <4>2. QED
          BY <1>1, <3>1, <4>1, MapHashed, PutIntoFacts
      <3>4. dictionary[n] = Pairs(Entries(o))
        BY <1>2 DEF MapOne
      <3> HIDE DEF u
      <3>5. Pairs(Joined(Entries(t), Entries(o))) = d
        BY <1>1, <3>4, PairsJoined
      <3>6. QED
        BY <3>2, <3>3, <3>5 DEF MapOne
    <2>3. QED
      BY <1>2, <2>1, <2>2 DEF MapOne
  <1>6. QED
    BY <1>3, <1>5, OneMap

\* Every operation keeps the invariant.
LEMMA MapStep == MapInv /\ [MapNext]_mapVars => MapInv'
  <1> SUFFICES ASSUME MapInv, [MapNext]_mapVars PROVE MapInv'
    OBVIOUS
  <1>1. ASSUME NEW m \in Maps, NEW k \in MapKeys, RemoveKey(m, k) PROVE MapInv'
    BY <1>1, RemoveKeeps
  <1>2. ASSUME NEW m \in Maps, NEW k \in MapKeys, NEW v \in MapValues, Put(m, k, v) PROVE MapInv'
    BY <1>2, PutKeeps
  <1>3. ASSUME NEW m \in Maps, ClearMap(m) PROVE MapInv'
    BY <1>3, ClearKeeps
  <1>4. ASSUME NEW m \in Maps, NEW n \in Maps, CopyMap(m, n) PROVE MapInv'
    BY <1>4, CopyKeeps
  <1>5. ASSUME NEW m \in Maps, NEW n \in Maps, MoveMap(m, n) PROVE MapInv'
    BY <1>5, MoveKeeps
  <1>6. ASSUME NEW m \in Maps, NEW n \in Maps, PutFrom(m, n) PROVE MapInv'
    BY <1>6, PutFromKeeps
  <1>7. CASE UNCHANGED mapVars
    BY <1>7 DEF mapVars, MapInv
  <1>8. QED
    BY <1>1, <1>2, <1>3, <1>4, <1>5, <1>6, <1>7 DEF MapNext

----------------------------------------------------------------------------
(* What the invariant says of lookups and comparisons *)

\* There are as many entries as places that are taken.
LEMMA AsManyEntries ==
    ASSUME NEW c, NEW E, Hole \notin E, NEW t, Table(E, c, t), KeysApart(c, t)
    PROVE  IsFiniteSet(Entries(t)) /\ Cardinality(Entries(t)) = Cardinality(Present(t))
  <1> DEFINE P == Present(t)
             X == Entries(t)
             f == [i \in P |-> t[i]]
  <1>1. P = {i \in 0 .. c - 1 : t[i] # Hole} /\ IsFiniteSet(P)
    BY TableFacts, PresentFacts
  <1>2. f \in Surjection(P, X)
    BY DEF Surjection, Entries
  <1>3. f \in Injection(P, X)
    <2>1. \A i, j \in P : t[i] = t[j] => i = j
      BY <1>1 DEF KeysApart
    <2>2. QED
      BY <1>2, <2>1 DEF Injection, IsInjective, Surjection
  <1>4. QED
    BY <1>1, <1>2, <1>3, FS_Surjection

\* An entry is found when it is there.
LEMMA FoundFacts ==
    ASSUME NEW c, NEW E, Hashed(E), NEW t, Table(E, c, t), Probed(c, t),
           NEW k, HashOf[k] \in Nat
    PROVE  /\ Has(t, k) <=> \E x \in Entries(t) : x.key = k
           /\ Has(t, k) => t[Locate(t, k)] \in Entries(t) /\ t[Locate(t, k)].key = k
  <1> DEFINE l == Locate(t, k)
  <1>1. Hole \notin E /\ KeysApart(c, t)
    BY DEF Hashed, Probed
  <1>2. \A i \in 0 .. c - 1 : t[i] # Hole /\ t[i].key = k => l = i
    BY LocateProbed
  <1>3. \/ l = -1 /\ \A q \in 0 .. c - 1 : t[q] # Hole /\ t[q].key # k
        \/ /\ l \in 0 .. c - 1
           /\ t[l] = Hole \/ t[l].key = k
           /\ \A q \in 0 .. c - 1 : Off(c, k, q) < Off(c, k, l) => t[q] # Hole /\ t[q].key # k
    BY LocateFacts
  <1>4. Has(t, k) <=> l # -1 /\ t[l] # Hole
    BY DEF Has
  <1> HIDE DEF l
  <1>5. Has(t, k) => l \in 0 .. c - 1 /\ t[l] # Hole /\ t[l].key = k
    BY <1>3, <1>4
  <1>6. Has(t, k) => t[l] \in Entries(t) /\ t[l].key = k
    BY <1>1, <1>5, TableFacts
  <1>7. ASSUME NEW x \in Entries(t), x.key = k PROVE Has(t, k)
    <2>1. PICK i \in 0 .. c - 1 : t[i] # Hole /\ x = t[i]
      BY <1>1, TableFacts
    <2>2. l = i
      BY <1>2, <1>7, <2>1
    <2>3. QED
      BY <1>4, <2>1, <2>2
  <1>8. QED
    BY <1>6, <1>7 DEF l

\* In a probed table every key is found where it is.
LEMMA TablesAreRight ==
    ASSUME NEW c, NEW E, Hashed(E), NEW t, Table(E, c, t), Probed(c, t)
    PROVE  TableRight(t)
  <1>1. Present(t) = {i \in 0 .. c - 1 : t[i] # Hole}
    BY TableFacts DEF Hashed
  <1>2. ASSUME NEW i \in Present(t) PROVE Locate(t, t[i].key) = i
    <2>1. i \in 0 .. c - 1 /\ t[i] # Hole
      BY <1>1
    <2>2. HashOf[t[i].key] \in Nat
      BY <2>1 DEF Table, Hashed
    <2>3. QED
      BY <2>1, <2>2, LocateProbed
  <1>3. QED
    BY <1>2 DEF TableRight

\* Two maps in use are the same when their dictionaries are.
LEMMA SameFacts ==
    ASSUME MapInv, NEW m \in Maps, NEW n \in Maps, Usable(m), Usable(n)
    PROVE  SameAs(m, n) <=> dictionary[m] = dictionary[n]
  <1> DEFINE t == table[m]  u == table[n]  c == Capacity(t)  b == Capacity(u)
  <1>1. /\ GoodTable(MapEntries, t) /\ dictionary[m] = Pairs(Entries(t))
        /\ GoodTable(MapEntries, u) /\ dictionary[n] = Pairs(Entries(u))
    BY UsableFacts
  <1>2. SameAs(m, n) <=> /\ Cardinality(Present(t)) = Cardinality(Present(u))
                         /\ \A e \in Entries(t) :
                               Has(u, e.key) /\ u[Locate(u, e.key)].value = e.value
    BY DEF SameAs
  <1> HIDE DEF t, u
  <1>3. Hole \notin MapEntries
    BY MapHashed DEF Hashed
  <1>4. /\ Table(MapEntries, c, t) /\ KeysApart(c, t) /\ Entries(t) \subseteq MapEntries
        /\ Table(MapEntries, b, u) /\ KeysApart(b, u) /\ Entries(u) \subseteq MapEntries
        /\ Probed(b, u)
    BY <1>1, MapHashed, GoodFacts
  <1> HIDE DEF c, b
  <1>5. /\ IsFiniteSet(Entries(t)) /\ Cardinality(Entries(t)) = Cardinality(Present(t))
        /\ IsFiniteSet(Entries(u)) /\ Cardinality(Entries(u)) = Cardinality(Present(u))
    BY <1>3, <1>4, AsManyEntries
  <1>6. \A x, y \in MapEntries : x.key = y.key /\ x.value = y.value => x = y
    BY DEF MapEntries
  <1>7. ASSUME NEW e \in Entries(t)
        PROVE  Has(u, e.key) /\ u[Locate(u, e.key)].value = e.value <=> e \in Entries(u)
    <2>1. e \in MapEntries /\ HashOf[e.key] \in Nat
      BY <1>4, MapHashed DEF Hashed
    <2> DEFINE l == Locate(u, e.key)
    <2>2. /\ Has(u, e.key) <=> \E x \in Entries(u) : x.key = e.key
          /\ Has(u, e.key) => u[l] \in Entries(u) /\ u[l].key = e.key
      BY <1>4, <2>1, MapHashed, FoundFacts
    <2>3. ASSUME e \in Entries(u) PROVE Has(u, e.key) /\ u[l].value = e.value
      <3>1. Has(u, e.key)
        BY <2>2, <2>3
      <3>2. PICK i \in 0 .. b - 1 : u[i] # Hole /\ e = u[i]
        BY <1>3, <1>4, <2>3, TableFacts
      <3>3. l = i
        BY <1>4, <2>1, <3>2, MapHashed, LocateProbed
      <3>4. QED
        BY <3>1, <3>2, <3>3
    <2>4. ASSUME Has(u, e.key), u[l].value = e.value PROVE e \in Entries(u)
      <3>1. u[l] \in Entries(u) /\ u[l].key = e.key
        BY <2>2, <2>4
      <3>2. u[l] = e
        BY <1>4, <1>6, <2>1, <2>4, <3>1
      <3>3. QED
        BY <3>1, <3>2
    <2>5. QED
      BY <2>3, <2>4
  <1>8. SameAs(m, n) <=> /\ Cardinality(Entries(t)) = Cardinality(Entries(u))
                         /\ Entries(t) \subseteq Entries(u)
    BY <1>2, <1>5, <1>7
  <1>9. SameAs(m, n) <=> Entries(t) = Entries(u)
    BY <1>5, <1>8, FS_Subset
  <1>10. Entries(t) = Entries(u) <=> Pairs(Entries(t)) = Pairs(Entries(u))
    BY <1>4, PairsFacts
  <1>11. QED
    BY <1>1, <1>9, <1>10

\* A HashMap is its dictionary.
LEMMA MapInvFacts == MapInv => MapTypeOK /\ HashMapRight
  <1> SUFFICES ASSUME MapInv PROVE MapTypeOK /\ HashMapRight
    OBVIOUS
  <1>1. ASSUME NEW m \in Maps
        PROVE  /\ DOMAIN table[m] = 0 .. Capacity(table[m]) - 1
               /\ Entries(table[m]) \subseteq MapEntries
               /\ Pairs(Entries(table[m])) = dictionary[m]
               /\ TableRight(table[m])
               /\ IterationRight(table[m])
               /\ Usable(m) => Cardinality(Present(table[m])) < Capacity(table[m])
    <2> DEFINE t == table[m]
               c == Capacity(t)
    <2>1. MapOne(t, dictionary[m])
      BY DEF MapInv
    <2>2. Pairs(Entries(t)) = dictionary[m] /\ (GoodTable(MapEntries, t) \/ NoTable(t))
      BY <2>1 DEF MapOne
    <2>3. Usable(m) <=> c > 0
      BY DEF Usable
    <2> HIDE DEF t
    <2>4. CASE NoTable(t)
      <3>1. c = 0 /\ DOMAIN t = {} /\ Present(t) = {} /\ Entries(t) = {}
        BY <2>4, NoTableFacts
      <3>2. 0 .. 0 - 1 = {}
        OBVIOUS
      <3>3. TableRight(t)
        BY <3>1 DEF TableRight
      <3>4. IterationRight(t)
        BY <3>1, <3>2, IterationFacts
      <3>5. QED
        BY <2>2, <2>3, <3>1, <3>2, <3>3, <3>4 DEF t
    <2>5. CASE GoodTable(MapEntries, t)
      <3>1. /\ Table(MapEntries, c, t) /\ Probed(c, t) /\ HasHole(c, t)
            /\ Entries(t) \subseteq MapEntries /\ c \in Nat \ {0} /\ Hole \notin MapEntries
        BY <2>5, MapHashed, GoodFacts DEF Hashed
      <3> HIDE DEF c
      <3>2. TableRight(t)
        BY <3>1, MapHashed, TablesAreRight
      <3>3. Cardinality(Present(t)) \in 0 .. c /\ Cardinality(Present(t)) # c
        BY <3>1, PresentFacts
      <3>4. Cardinality(Present(t)) < c
        BY <3>1, <3>3
      <3>5. DOMAIN t = 0 .. c - 1
        BY <3>1 DEF Table
      <3>6. IterationRight(t)
        BY <3>1, <3>5, IterationFacts
      <3>7. QED
        BY <2>2, <3>1, <3>2, <3>4, <3>5, <3>6 DEF t, c
    <2>6. QED
      BY <2>2, <2>4, <2>5
  <1>2. MapTypeOK
    BY <1>1 DEF MapTypeOK, MapEntries
  <1>3. \A m, n \in Maps :
           Usable(m) /\ Usable(n) => (SameAs(m, n) <=> dictionary[m] = dictionary[n])
    BY SameFacts
  <1>4. QED
    BY <1>1, <1>2, <1>3 DEF HashMapRight, Pairs

\* A HashMap is its dictionary, whatever keys collide and however often it grew: every entry
\* is found where a probe looks for it, and there is a hole for other probes to stop at.
THEOREM MapsAreRight == MapSpec => [](MapTypeOK /\ HashMapRight)
  <1>1. QED
    BY InitMaps, MapStep, MapInvFacts, PTL DEF MapSpec

----------------------------------------------------------------------------
(* HashSet *)

\* What a set may hold
SetEntries == [key : SetKeys]

\* Keys of sets have hashes.
LEMMA SetHashed == Hashed(SetEntries)
  BY SetAssumption DEF SetEntries, Hashed

\* An entry is its key.
LEMMA EntryIsKey ==
    /\ \A e \in SetEntries : e = [key |-> e.key] /\ e.key \in SetKeys
    /\ \A k \in SetKeys : [key |-> k] \in SetEntries
  BY DEF SetEntries

\* Some place is in nobody's way: a hole, or in a full table the place that was taken last.
Spare(c, t) == \E L \in 0 .. c - 1 : Probed(c, WithoutPlace(t, L))

\* What the operations of a set rely on and leave
GoodSet(t) ==
    Table(SetEntries, Capacity(t), t) /\ Probed(Capacity(t), t) /\ Spare(Capacity(t), t)

\* A hole is such a place.
LEMMA HoleIsSpare ==
    ASSUME NEW c, NEW E, NEW t, Table(E, c, t), Probed(c, t), HasHole(c, t)
    PROVE  Spare(c, t)
  <1>1. PICK q \in 0 .. c - 1 : t[q] = Hole
    BY DEF HasHole
  <1>2. WithoutPlace(t, q) = t
    BY <1>1 DEF WithoutPlace, Table
  <1>3. QED
    BY <1>2 DEF Spare

\* The place that is taken last is in nobody's way.
LEMMA StoredSpare ==
    ASSUME NEW c, NEW t, Table(SetEntries, c, t), Probed(c, t), Spare(c, t),
           NEW e \in SetEntries, SpaceFor(c, t, e)
    PROVE  Spare(c, Stored(t, e))
  <1> DEFINE l == Locate(t, e.key)
             s == Stored(t, e)
  <1>1. StoredWell(SetEntries, c, t, e)
    BY SetHashed, StoredFacts
  <1>2. l \in 0 .. c - 1 /\ (t[l] = Hole \/ t[l].key = e.key) /\ s = [t EXCEPT ![l] = e]
    BY <1>1 DEF StoredWell, Stored
  <1> HIDE DEF l, s
  <1>3. CASE t[l] = Hole
    <2>1. WithoutPlace(s, l) = t
      BY <1>2, <1>3 DEF WithoutPlace, Table
    <2>2. QED
      BY <1>2, <2>1 DEF Spare, s
  <1>4. CASE t[l] # Hole
    <2>1. t[l] \in SetEntries /\ t[l].key = e.key
      BY <1>2, <1>4 DEF Table
    <2>2. t[l] = e
      BY <2>1, EntryIsKey
    <2>3. s = t
      BY <1>2, <2>2 DEF Table
    <2>4. QED
      BY <2>3 DEF s
  <1>5. QED
    BY <1>3, <1>4

\* add
LEMMA AddedFacts ==
    ASSUME NEW t, GoodSet(t), NEW e \in SetEntries
    PROVE  GoodSet(Added(t, e)) /\ Entries(Added(t, e)) = Entries(t) \cup {e}
  <1> DEFINE c == Capacity(t)
             k == e.key
             l == Locate(t, k)
  <1>1. /\ Table(SetEntries, c, t) /\ Probed(c, t) /\ Spare(c, t) /\ KeysApart(c, t)
        /\ Hole \notin SetEntries /\ HashOf[k] \in Nat
    BY SetHashed DEF GoodSet, Hashed, Probed
  <1> HIDE DEF c, k
  <1>2. c \in Nat \ {0}
    BY <1>1 DEF Table
  <1>3. \/ l = -1 /\ \A q \in 0 .. c - 1 : t[q] # Hole /\ t[q].key # k
        \/ /\ l \in 0 .. c - 1
           /\ t[l] = Hole \/ t[l].key = k
           /\ \A q \in 0 .. c - 1 : Off(c, k, q) < Off(c, k, l) => t[q] # Hole /\ t[q].key # k
    BY <1>1, SetHashed, LocateFacts
  <1>4. ASSUME NEW A, A \subseteq SetEntries PROVE Over(A, e) = A \cup {e}
    <2>1. \A x \in A : x.key = e.key => x = e
      BY <1>4, EntryIsKey
    <2>2. QED
      BY <2>1 DEF Over
  <1>5. ASSUME NEW b, NEW u, Table(SetEntries, b, u), Probed(b, u), Spare(b, u), SpaceFor(b, u, e)
        PROVE  GoodSet(Stored(u, e)) /\ Entries(Stored(u, e)) = Entries(u) \cup {e}
    <2>1. StoredWell(SetEntries, b, u, e)
      BY <1>5, SetHashed, StoredFacts
    <2>2. /\ Table(SetEntries, b, Stored(u, e)) /\ Probed(b, Stored(u, e))
          /\ Entries(Stored(u, e)) = Over(Entries(u), e)
      BY <2>1 DEF StoredWell
    <2>3. Spare(b, Stored(u, e))
      BY <1>5, StoredSpare
    <2>4. Capacity(Stored(u, e)) = b
      BY <1>1, <2>2, TableFacts
    <2>5. Entries(u) \subseteq SetEntries
      BY <1>1, <1>5, TableFacts
    <2>6. QED
      BY <1>4, <2>2, <2>3, <2>4, <2>5 DEF GoodSet
  <1>6. CASE l = -1
    <2> DEFINE b == 2 * c
               u == Refilled(t, b)[Capacity(t)]
    <2>1. Added(t, e) = Stored(u, e)
      BY <1>6 DEF Added, Placed, Grown, c, k
    <2>2. b \in Nat /\ c < b
      BY <1>2
    <2> HIDE DEF b
    <2>3. Table(SetEntries, b, u) /\ Probed(b, u) /\ HasHole(b, u) /\ Entries(u) = Entries(t)
      BY <1>1, <2>2, SetHashed, RefillFacts
    <2> HIDE DEF u
    <2>4. Spare(b, u) /\ SpaceFor(b, u, e)
      BY <2>3, HoleIsSpare DEF SpaceFor
    <2>5. QED
      BY <1>5, <2>1, <2>3, <2>4
  <1>7. CASE l # -1
    <2>1. l \in 0 .. c - 1 /\ (t[l] = Hole \/ t[l].key = k)
      BY <1>3, <1>7
    <2>2. SpaceFor(c, t, e)
      <3> HIDE DEF l
      <3>1. QED
        BY <2>1 DEF SpaceFor, HasHole, k
    <2>3. Added(t, e) = Stored(t, e)
      BY <1>7 DEF Added, Placed, k
    <2>4. QED
      BY <1>1, <1>5, <2>2, <2>3
  <1>8. QED
    BY <1>6, <1>7

\* A round puts the entry into the place it was taken out of, if no other.
LEMMA SetRoundIsTurn ==
    ASSUME NEW c, NEW E, Hashed(E), NEW A, NEW L, NEW x, NEW s, s \in States(E, c, A, L, x)
    PROVE  SetRound(s) = Turn(s)
  <1>1. CASE s.table[s.at] = Hole
    BY <1>1 DEF SetRound, Turn
  <1>2. CASE s.table[s.at] # Hole
    <2> DEFINE u == s.table
               p == s.at
               v == [u EXCEPT ![p] = Hole]
               m == Moved(u, p)
               k == u[p].key
    <2>1. p \in 0 .. c - 1 /\ (Before(E, c, A, L, x, u, p) \/ Beyond(E, c, A, u, p))
      BY DEF States
    <2>2. Table(E, c, u) /\ KeysApart(c, u)
      BY <2>1 DEF Before, Beyond, Closing, Probed
    <2>3. Table(E, c, m)
      BY <1>2, <2>1, <2>2, MovedKeeps
    <2>4. Table(E, c, v) /\ v[p] = Hole
      BY <2>1, <2>2 DEF Table
    <2>5. Hole \notin E /\ HashOf[k] \in Nat
      BY <1>2, <2>1, <2>2 DEF Hashed, Table
    <2>6. m = Stored(v, u[p])
      BY DEF Moved
    <2>7. SetRound(s) = LET w == Added(v, u[p]) IN [table |-> w, at |-> (p + 1) % Capacity(w)]
      BY <1>2 DEF SetRound
    <2>8. Turn(s) = [table |-> m, at |-> (p + 1) % Capacity(v)]
      BY <1>2 DEF Turn
    <2>9. Added(v, u[p]) = IF Locate(v, k) = -1 THEN Placed(Grown(v, 2 * Capacity(v)), u[p])
                           ELSE Stored(v, u[p])
      BY DEF Added, Placed
    <2> HIDE DEF v, m, k
    <2>10. Capacity(v) = c /\ Capacity(m) = c
      BY <2>3, <2>4, <2>5, TableFacts
    <2>11. Locate(v, k) # -1
      BY <2>1, <2>4, <2>5, LocateFacts
    <2>12. QED
      BY <2>6, <2>7, <2>8, <2>9, <2>10, <2>11
  <1>3. QED
    BY <1>1, <1>2

\* The loop of the code is such a loop.
LEMMA SetRoundsLoop ==
    ASSUME NEW c, NEW E, Hashed(E), NEW A, NEW L, NEW x, NEW t, NEW i,
           GapState(t, i) \in States(E, c, A, L, x)
    PROVE  Loop(States(E, c, A, L, x), GapState(t, i), SetRounds(t, i))
  <1> DEFINE V == States(E, c, A, L, x)
             s0 == GapState(t, i)
             Def(s) == s = [n \in Nat |-> IF n = 0 THEN s0 ELSE SetRound(s[n - 1])]
             R == SetRounds(t, i)
  <1>1. PICK f : Loop(V, s0, f)
    BY LoopExists
  <1>2. f \in [Nat -> V] /\ f[0] = s0 /\ \A n \in Nat : f[n + 1] = Turn(f[n])
    BY <1>1 DEF Loop
  <1>3. \A s \in V : SetRound(s) = Turn(s) /\ Turn(s) \in V
    BY SetRoundIsTurn, TurnFacts
  <1> HIDE DEF V, s0
  <1>4. ASSUME NEW n \in Nat PROVE f[n] = IF n = 0 THEN s0 ELSE SetRound(f[n - 1])
    <2>1. CASE n = 0
      BY <1>2, <2>1
    <2>2. CASE n # 0
      <3>1. n - 1 \in Nat /\ (n - 1) + 1 = n
        BY <2>2
      <3>2. f[n] = Turn(f[n - 1]) /\ f[n - 1] \in V
        BY <1>2, <3>1
      <3>3. QED
        BY <1>3, <2>2, <3>2
    <2>3. QED
      BY <2>1, <2>2
  <1>5. f = [n \in Nat |-> f[n]]
    BY <1>2
  <1>6. Def(f)
    BY <1>4, <1>5
  <1>7. R = CHOOSE s : Def(s)
    BY DEF SetRounds, s0, GapState
  <1>8. Def(R)
    BY <1>6, <1>7
  <1> HIDE DEF R
  <1>9. R[0] = s0 /\ \A n \in Nat : R[n + 1] = SetRound(R[n])
    <2>1. \A h : h = [n \in Nat |-> IF n = 0 THEN s0 ELSE SetRound(R[n - 1])] =>
             \A n \in Nat : h[n] = IF n = 0 THEN s0 ELSE SetRound(R[n - 1])
      OBVIOUS
    <2>2. \A n \in Nat : R[n] = IF n = 0 THEN s0 ELSE SetRound(R[n - 1])
      BY <1>8, <2>1
    <2>3. \A n \in Nat : n + 1 \in Nat /\ n + 1 # 0 /\ (n + 1) - 1 = n
      OBVIOUS
    <2>4. QED
      BY <2>2, <2>3
  <1> DEFINE T == {n \in Nat : R[n] \in V}
  <1>10. 0 \in T
    BY <1>2, <1>9
  <1>11. ASSUME NEW n \in Nat, n \in T PROVE n + 1 \in T
    BY <1>3, <1>9, <1>11
  <1> HIDE DEF T
  <1>12. Nat \subseteq T
    BY <1>10, <1>11, CountingUp
  <1>13. \A n \in Nat : R[n] \in V /\ R[n + 1] = Turn(R[n])
    BY <1>3, <1>9, <1>12 DEF T
  <1>14. DOMAIN R = Nat
    BY <1>8
  <1>15. R = [n \in Nat |-> R[n]]
    BY <1>8, <1>14
  <1>16. R \in [Nat -> V]
    BY <1>13, <1>15
  <1>17. QED
    BY <1>9, <1>13, <1>16 DEF Loop, V, s0, R

\* remove, full or not
LEMMA RemovedFacts ==
    ASSUME NEW t, GoodSet(t), NEW k \in SetKeys
    PROVE  GoodSet(Removed(t, k)) /\ Entries(Removed(t, k)) = {x \in Entries(t) : x.key # k}
  <1> DEFINE c == Capacity(t)
             E == SetEntries
             i == Locate(t, k)
             A == {x \in Entries(t) : x.key # k}
  <1>1. /\ Table(E, c, t) /\ Probed(c, t) /\ Spare(c, t) /\ KeysApart(c, t)
        /\ Hole \notin E /\ HashOf[k] \in Nat /\ Hashed(E)
    BY SetHashed, SetAssumption DEF GoodSet, Hashed, Probed
  <1> HIDE DEF c, E
  <1>2. c \in Nat \ {0}
    BY <1>1 DEF Table
  <1>3. CASE ~Has(t, k)
    <2>1. \A x \in Entries(t) : x.key # k
      BY <1>1, <1>3, FoundFacts
    <2>2. A = Entries(t) /\ Removed(t, k) = t
      BY <1>3, <2>1 DEF Removed
    <2>3. QED
      BY <2>2
  <1>4. CASE Has(t, k)
    <2>1. i # -1 /\ t[i] # Hole
      BY <1>4 DEF Has
    <2>2. \/ i = -1 /\ \A q \in 0 .. c - 1 : t[q] # Hole /\ t[q].key # k
          \/ /\ i \in 0 .. c - 1
             /\ t[i] = Hole \/ t[i].key = k
             /\ \A q \in 0 .. c - 1 :
                   Off(c, k, q) < Off(c, k, i) => t[q] # Hole /\ t[q].key # k
      BY <1>1, LocateFacts
    <2> DEFINE v == WithoutPlace(t, i)
               n == (i + 1) % c
    <2>3. Removed(t, k) = SetRounds(v, n)[2 * Capacity(v)].table
      BY <1>4 DEF Removed, RepairedSet, WithoutPlace, c
    <2> HIDE DEF i
    <2>4. i \in 0 .. c - 1 /\ t[i].key = k
      BY <2>1, <2>2
    <2>5. Table(E, c, v) /\ HasHole(c, v) /\ Entries(v) = A /\ n \in 0 .. c - 1
      <3>1. n \in 0 .. c - 1
        BY <1>2, <2>4, NextPlace
      <3>2. /\ Table(E, c, v) /\ HasHole(c, v)
            /\ Entries(v) = {x \in Entries(t) : x.key # t[i].key}
        BY <1>1, <2>1, <2>4, TakenOut
      <3>3. QED
        BY <2>4, <3>1, <3>2
    <2>6. \E L \in 0 .. c - 1 : Closing(E, c, v, n, L) \/ Probed(c, v)
      <3>1. CASE HasHole(c, t)
        BY <1>1, <2>1, <2>4, <3>1, ClosingInOne
      <3>2. CASE ~HasHole(c, t)
        <4>1. PICK L \in 0 .. c - 1 : Probed(c, WithoutPlace(t, L))
          BY <1>1 DEF Spare
        <4>2. CASE L = i
          BY <4>1, <4>2
        <4>3. CASE L # i
          <5>1. \A q \in 0 .. c - 1 : Gap(c, i, q) < Gap(c, i, L) => t[q] # Hole
            BY <3>2 DEF HasHole
          <5>2. Closing(E, c, v, n, L)
            BY <1>1, <2>1, <2>4, <4>1, <4>3, <5>1, ClosingBegins
          <5>3. QED
            BY <5>2
        <4>4. QED
          BY <4>2, <4>3
      <3>3. QED
        BY <3>1, <3>2
    <2> HIDE DEF v, n, A
    <2>7. PICK L \in 0 .. c - 1 : Closing(E, c, v, n, L) \/ Probed(c, v)
      BY <2>6
    <2>8. Before(E, c, A, L, v[L], v, n) \/ Beyond(E, c, A, v, n)
      BY <2>5, <2>7 DEF Before, Beyond
    <2>9. GapState(v, n) \in States(E, c, A, L, v[L])
      <3>1. GapState(v, n).table = v /\ GapState(v, n).at = n
        BY DEF GapState
      <3>2. v \in [0 .. c - 1 -> E \cup {Hole}]
        BY <2>5 DEF Table
      <3>3. GapState(v, n) \in [table : [0 .. c - 1 -> E \cup {Hole}], at : 0 .. c - 1]
        BY <2>5, <3>2 DEF GapState
      <3>4. QED
        BY <2>8, <3>1, <3>3 DEF States
    <2>10. Loop(States(E, c, A, L, v[L]), GapState(v, n), SetRounds(v, n))
      BY <1>1, <2>9, SetRoundsLoop
    <2>11. Capacity(v) = c /\ 2 * c \in Nat /\ 2 * c >= c
      BY <1>1, <1>2, <2>5, TableFacts
    <2> DEFINE u == SetRounds(v, n)[2 * c].table
    <2>12. Mended(E, c, A, u)
      BY <1>1, <1>2, <2>10, <2>11, LoopEnds
    <2>13. Removed(t, k) = u
      BY <2>3, <2>11
    <2> HIDE DEF u
    <2>14. Table(E, c, u) /\ Probed(c, u) /\ HasHole(c, u) /\ Entries(u) = A
      BY <2>12 DEF Mended
    <2>15. Capacity(u) = c
      BY <1>1, <2>14, TableFacts
    <2>16. Spare(c, u)
      BY <2>14, HoleIsSpare
    <2>17. QED
      BY <2>13, <2>14, <2>15, <2>16 DEF GoodSet, E, A
  <1>5. QED
    BY <1>3, <1>4

\* Adding some entries, one after the other, leaving holes out
AddStep(es, u, n) == IF es[n] = Hole THEN u ELSE Added(u, es[n])

\* f is the table after each of them.
Adds(t, c, es, f) ==
    f = [n \in 0 .. c |-> IF n = 0 THEN t ELSE AddStep(es, f[n - 1], n)]

\* Entries and holes, c in all
Some(c, es) == es \in [1 .. c -> SetEntries \cup {Hole}]

\* There is such a function.
LEMMA AddsExists ==
    ASSUME NEW c \in Nat, NEW es, Some(c, es), NEW t, GoodSet(t)
    PROVE  \E f : Adds(t, c, es, f)
  <1> DEFINE W == UNION {[0 .. b - 1 -> SetEntries \cup {Hole}] : b \in Nat}
             V == {u \in W : GoodSet(u)}
             step == [n \in 1 .. c |-> [u \in V |-> AddStep(es, u, n)]]
  <1>1. \A u : GoodSet(u) => u \in V
    <2> SUFFICES ASSUME NEW u, GoodSet(u) PROVE u \in W
      OBVIOUS
    <2>1. Table(SetEntries, Capacity(u), u)
      BY DEF GoodSet
    <2>2. QED
      BY <2>1 DEF Table
  <1>2. ASSUME NEW n \in 1 .. c, NEW u \in V PROVE AddStep(es, u, n) \in V
    <2>1. CASE es[n] = Hole
      BY <2>1 DEF AddStep
    <2>2. CASE es[n] # Hole
      <3>1. GoodSet(u) /\ es[n] \in SetEntries
        BY <2>2 DEF Some
      <3>2. GoodSet(Added(u, es[n]))
        BY <3>1, AddedFacts
      <3>3. QED
        BY <1>1, <2>2, <3>2 DEF AddStep
    <2>3. QED
      BY <2>1, <2>2
  <1>3. t \in V
    BY <1>1
  <1>4. /\ step \in [1 .. c -> [V -> V]]
        /\ \A n \in 1 .. c : \A u \in V : step[n][u] = AddStep(es, u, n)
    BY <1>2
  <1> HIDE DEF step, V
  <1>5. PICK f : FollowsTo(V, t, c, step, f)
    <2>1. StepsInTo(V, c, step)
      BY <1>4 DEF StepsInTo
    <2>2. QED
      BY <1>3, <2>1, BoundedRecursion
  <1>6. f \in [0 .. c -> V] /\ f[0] = t /\ \A k \in 1 .. c : f[k] = step[k][f[k - 1]]
    BY <1>5 DEF FollowsTo
  <1>7. ASSUME NEW n \in 0 .. c PROVE f[n] = IF n = 0 THEN t ELSE AddStep(es, f[n - 1], n)
    <2>1. CASE n = 0
      BY <1>6, <2>1
    <2>2. CASE n # 0
      <3>1. n \in 1 .. c /\ n - 1 \in 0 .. c
        BY <2>2
      <3>2. QED
        BY <1>4, <1>6, <2>2, <3>1
    <2>3. QED
      BY <2>1, <2>2
  <1>8. f = [n \in 0 .. c |-> f[n]]
    BY <1>6
  <1>9. Adds(t, c, es, f)
    BY <1>7, <1>8 DEF Adds
  <1>10. QED
    BY <1>9

\* All of them are in it then.
LEMMA AddsFacts ==
    ASSUME NEW c \in Nat, NEW es, Some(c, es), NEW t, GoodSet(t), NEW R, Adds(t, c, es, R)
    PROVE  /\ GoodSet(R[c])
           /\ Entries(R[c]) = Entries(t) \cup {x \in SetEntries : \E n \in 1 .. c : x = es[n]}
  <1> DEFINE B(n) == {x \in SetEntries : \E i \in 1 .. n : x = es[i]}
             Ok(n) == GoodSet(R[n]) /\ Entries(R[n]) = Entries(t) \cup B(n)
             T == {n \in Nat : n <= c => Ok(n)}
  <1>1. \A n \in 0 .. c : R[n] = IF n = 0 THEN t ELSE AddStep(es, R[n - 1], n)
    <2>1. \A h : h = [n \in 0 .. c |-> IF n = 0 THEN t ELSE AddStep(es, R[n - 1], n)] =>
             \A n \in 0 .. c : h[n] = IF n = 0 THEN t ELSE AddStep(es, R[n - 1], n)
      OBVIOUS
    <2>2. QED
      BY <2>1 DEF Adds
  <1>2. 0 \in T
    <2>1. 0 \in 0 .. c /\ B(0) = {}
      OBVIOUS
    <2>2. R[0] = t
      BY <1>1, <2>1
    <2>3. QED
      BY <2>1, <2>2
  <1>3. ASSUME NEW n \in Nat, n \in T PROVE n + 1 \in T
    <2> SUFFICES ASSUME n + 1 <= c PROVE Ok(n + 1)
      OBVIOUS
    <2>1. /\ n + 1 \in 0 .. c /\ n + 1 \in 1 .. c /\ n + 1 # 0 /\ (n + 1) - 1 = n /\ n <= c
      OBVIOUS
    <2> DEFINE u == R[n]
               e == es[n + 1]
    <2>2. R[n + 1] = IF e = Hole THEN u ELSE Added(u, e)
      BY <1>1, <2>1 DEF AddStep
    <2>3. GoodSet(u) /\ Entries(u) = Entries(t) \cup B(n)
      BY <1>3, <2>1
    <2>4. e \in SetEntries \cup {Hole} /\ Hole \notin SetEntries
      BY <2>1, SetHashed DEF Some, Hashed
    <2>5. B(n + 1) = IF e = Hole THEN B(n) ELSE B(n) \cup {e}
      <3>1. \A j : j \in 1 .. n + 1 <=> j \in 1 .. n \/ j = n + 1
        OBVIOUS
      <3>2. QED
        BY <2>4, <3>1
    <2> HIDE DEF u, e, B
    <2>6. CASE e = Hole
      BY <2>2, <2>3, <2>5, <2>6
    <2>7. CASE e # Hole
      <3>1. GoodSet(Added(u, e)) /\ Entries(Added(u, e)) = Entries(u) \cup {e}
        BY <2>3, <2>4, <2>7, AddedFacts
      <3>2. QED
        BY <2>2, <2>3, <2>5, <2>7, <3>1
    <2>8. QED
      BY <2>6, <2>7
  <1> HIDE DEF T
  <1>4. Nat \subseteq T
    BY <1>2, <1>3, CountingUp
  <1>5. c \in T /\ c <= c
    BY <1>4
  <1>6. QED
    BY <1>5 DEF T

\* addFrom's loop over the other set's places
LEMMA AddAllFacts ==
    ASSUME NEW t, GoodSet(t), NEW other, GoodSet(other)
    PROVE  LET R == AddAll(t, other)[Capacity(other)] IN
           GoodSet(R) /\ Entries(R) = Entries(t) \cup Entries(other)
  <1> DEFINE c == Capacity(other)
             es == [n \in 1 .. c |-> other[n - 1]]
             Def(f) == f = [n \in 0 .. c |->
                  IF n = 0 THEN t
                  ELSE IF other[n - 1] = Hole THEN f[n - 1] ELSE Added(f[n - 1], other[n - 1])]
             Q == AddAll(t, other)
  <1>1. Table(SetEntries, c, other) /\ Hole \notin SetEntries
    BY SetHashed DEF GoodSet, Hashed
  <1>2. c \in Nat
    BY <1>1 DEF Table
  <1>3. Q = CHOOSE f : Def(f)
    BY DEF AddAll
  <1> HIDE DEF c, Q
  <1>4. \A n \in 0 .. c : n # 0 => n \in 1 .. c /\ n - 1 \in 0 .. c - 1
    BY <1>2
  <1>5. Some(c, es) /\ \A n \in 1 .. c : es[n] = other[n - 1]
    <2>1. \A n \in 1 .. c : n - 1 \in 0 .. c - 1
      BY <1>2
    <2>2. QED
      BY <1>1, <2>1 DEF Some, Table
  <1> HIDE DEF es
  <1>6. \A f : Def(f) <=> Adds(t, c, es, f)
    <2> SUFFICES ASSUME NEW f
                 PROVE  [n \in 0 .. c |->
                            IF n = 0 THEN t
                            ELSE IF other[n - 1] = Hole THEN f[n - 1]
                                 ELSE Added(f[n - 1], other[n - 1])]
                        = [n \in 0 .. c |-> IF n = 0 THEN t ELSE AddStep(es, f[n - 1], n)]
      BY DEF Adds
    <2>1. \A n \in 0 .. c : n # 0 => es[n] = other[n - 1]
      BY <1>4, <1>5
    <2>2. QED
      BY <2>1 DEF AddStep
  <1>7. \E f : Adds(t, c, es, f)
    BY <1>2, <1>5, AddsExists
  <1>8. Def(Q)
    BY <1>3, <1>6, <1>7
  <1>9. Adds(t, c, es, Q)
    BY <1>6, <1>8
  <1>10. /\ GoodSet(Q[c])
         /\ Entries(Q[c]) = Entries(t) \cup {x \in SetEntries : \E n \in 1 .. c : x = es[n]}
    BY <1>2, <1>5, <1>9, AddsFacts
  <1>11. {x \in SetEntries : \E n \in 1 .. c : x = es[n]} = Entries(other)
    <2>1. ASSUME NEW x \in SetEntries, NEW n \in 1 .. c, x = es[n] PROVE x \in Entries(other)
      <3>1. n - 1 \in 0 .. c - 1 /\ other[n - 1] # Hole /\ x = other[n - 1]
        BY <1>1, <1>2, <1>5, <2>1
      <3>2. QED
        BY <1>1, <3>1, TableFacts
    <2>2. ASSUME NEW x \in Entries(other)
          PROVE  x \in SetEntries /\ \E n \in 1 .. c : x = es[n]
      <3>1. PICK i \in 0 .. c - 1 : other[i] # Hole /\ x = other[i]
        BY <1>1, TableFacts
      <3>2. i + 1 \in 1 .. c /\ (i + 1) - 1 = i
        BY <1>2
      <3>3. x = es[i + 1]
        BY <1>5, <3>1, <3>2
      <3>4. x \in SetEntries
        BY <1>1, TableFacts
      <3>5. QED
        BY <3>2, <3>3, <3>4
    <2>3. QED
      BY <2>1, <2>2
  <1>12. QED
    BY <1>10, <1>11 DEF Q, c

\* ... over some keys
LEMMA AddKeysFacts ==
    ASSUME NEW t, GoodSet(t), NEW keys \in Seq(SetKeys)
    PROVE  LET R == AddKeys(t, keys)[Len(keys)] IN
           /\ GoodSet(R)
           /\ Entries(R) = Entries(t) \cup {[key |-> keys[i]] : i \in 1 .. Len(keys)}
  <1> DEFINE c == Len(keys)
             es == [n \in 1 .. c |-> [key |-> keys[n]]]
             Def(f) == f = [n \in 0 .. c |->
                  IF n = 0 THEN t ELSE Added(f[n - 1], [key |-> keys[n]])]
             Q == AddKeys(t, keys)
  <1>1. c \in Nat /\ \A n \in 1 .. c : keys[n] \in SetKeys
    OBVIOUS
  <1>2. Q = CHOOSE f : Def(f)
    BY DEF AddKeys
  <1>3. \A n \in 1 .. c : [key |-> keys[n]] \in SetEntries
    BY <1>1, EntryIsKey
  <1>4. /\ Some(c, es) /\ \A n \in 1 .. c : es[n] = [key |-> keys[n]]
    BY <1>3 DEF Some
  <1>5. \A n \in 1 .. c : es[n] # Hole
    BY <1>3, <1>4, SetHashed DEF Hashed
  <1> HIDE DEF c, Q, es
  <1>6. \A f : Def(f) <=> Adds(t, c, es, f)
    <2> SUFFICES ASSUME NEW f
                 PROVE  [n \in 0 .. c |->
                            IF n = 0 THEN t ELSE Added(f[n - 1], [key |-> keys[n]])]
                        = [n \in 0 .. c |-> IF n = 0 THEN t ELSE AddStep(es, f[n - 1], n)]
      BY DEF Adds
    <2>1. \A n \in 0 .. c : n # 0 => n \in 1 .. c
      BY <1>1
    <2>2. \A n \in 0 .. c : n # 0 => es[n] = [key |-> keys[n]] /\ es[n] # Hole
      BY <1>4, <1>5, <2>1
    <2>3. QED
      BY <2>2 DEF AddStep
  <1>7. \E f : Adds(t, c, es, f)
    BY <1>1, <1>4, AddsExists
  <1>8. Def(Q)
    BY <1>2, <1>6, <1>7
  <1>9. Adds(t, c, es, Q)
    BY <1>6, <1>8
  <1>10. /\ GoodSet(Q[c])
         /\ Entries(Q[c]) = Entries(t) \cup {x \in SetEntries : \E n \in 1 .. c : x = es[n]}
    BY <1>1, <1>4, <1>9, AddsFacts
  <1>11. {x \in SetEntries : \E n \in 1 .. c : x = es[n]} = {[key |-> keys[i]] : i \in 1 .. c}
    BY <1>3, <1>4
  <1>12. QED
    BY <1>10, <1>11 DEF Q, c

\* A table in use, and one that grew
LEMMA GoodSetFacts ==
    ASSUME NEW t, GoodSet(t)
    PROVE  /\ Capacity(t) \in Nat \ {0} /\ ~NoTable(t)
           /\ Table(SetEntries, Capacity(t), t) /\ Probed(Capacity(t), t)
           /\ KeysApart(Capacity(t), t) /\ Hole \notin SetEntries
           /\ Entries(t) \subseteq SetEntries
           /\ Cardinality(Present(t)) \in Nat
  <1>1. Table(SetEntries, Capacity(t), t) /\ Probed(Capacity(t), t) /\ Hole \notin SetEntries
    BY SetHashed DEF GoodSet, Hashed
  <1>2. Capacity(t) \in Nat \ {0}
    BY <1>1 DEF Table
  <1>3. ~NoTable(t)
    BY <1>2, NoTableFacts
  <1>4. Entries(t) \subseteq SetEntries /\ KeysApart(Capacity(t), t)
    BY <1>1, TableFacts DEF Probed
  <1>5. Cardinality(Present(t)) \in 0 .. Capacity(t)
    BY <1>1, PresentFacts
  <1>6. QED
    BY <1>1, <1>2, <1>3, <1>4, <1>5

\* A set that has grown holds what it held.
LEMMA GrownFacts ==
    ASSUME NEW t, GoodSet(t), NEW b \in Nat, Capacity(t) < b
    PROVE  GoodSet(Grown(t, b)) /\ Entries(Grown(t, b)) = Entries(t)
  <1> DEFINE s == Refilled(t, b)[Capacity(t)]
  <1>1. /\ Table(SetEntries, Capacity(t), t) /\ KeysApart(Capacity(t), t)
        /\ Hole \notin SetEntries
    BY GoodSetFacts
  <1>2. Table(SetEntries, b, s) /\ Probed(b, s) /\ HasHole(b, s) /\ Entries(s) = Entries(t)
    BY <1>1, SetHashed, RefillFacts
  <1>3. Grown(t, b) = s
    BY DEF Grown
  <1> HIDE DEF s
  <1>4. Spare(b, s) /\ Capacity(s) = b
    BY <1>1, <1>2, HoleIsSpare, TableFacts
  <1>5. QED
    BY <1>2, <1>3, <1>4 DEF GoodSet

\* An empty table is good.
LEMMA EmptySetIsGood ==
    ASSUME NEW c \in Nat \ {0}
    PROVE  GoodSet(EmptyTable(c)) /\ Entries(EmptyTable(c)) = {}
  <1> DEFINE t == EmptyTable(c)
  <1>1. Hole \notin SetEntries
    BY SetHashed DEF Hashed
  <1>2. Table(SetEntries, c, t) /\ Probed(c, t) /\ HasHole(c, t) /\ Entries(t) = {}
    BY <1>1, EmptyFacts
  <1> HIDE DEF t
  <1>3. Capacity(t) = c /\ Spare(c, t)
    BY <1>1, <1>2, TableFacts, HoleIsSpare
  <1>4. QED
    BY <1>2, <1>3 DEF GoodSet, t

\* addFrom, from a set in use or one that was moved from
LEMMA AddedFromFacts ==
    ASSUME NEW t, GoodSet(t), NEW other, GoodSet(other) \/ NoTable(other)
    PROVE  /\ GoodSet(AddedFrom(t, other))
           /\ Entries(AddedFrom(t, other)) = Entries(t) \cup Entries(other)
  <1> DEFINE n == Cardinality(Present(other))
             b == 2 * Capacity(t) + n
             s == IF 4 * (Cardinality(Present(t)) + n) > 3 * Capacity(t) THEN Grown(t, b) ELSE t
             R == AddAll(s, other)[Capacity(other)]
  <1>1. n \in Nat
    <2>1. CASE GoodSet(other)
      BY <2>1, GoodSetFacts
    <2>2. CASE NoTable(other)
      <3>1. Present(other) = {}
        BY <2>2, NoTableFacts
      <3>2. QED
        BY <3>1, FS_EmptySet
    <2>3. QED
      BY <2>1, <2>2
  <1>2. Capacity(t) \in Nat \ {0}
    BY GoodSetFacts
  <1>3. AddedFrom(t, other) = R
    BY DEF AddedFrom
  <1> HIDE DEF n
  <1>4. b \in Nat /\ Capacity(t) < b
    BY <1>1, <1>2
  <1> HIDE DEF b
  <1>5. GoodSet(Grown(t, b)) /\ Entries(Grown(t, b)) = Entries(t)
    BY <1>4, GrownFacts
  <1>6. GoodSet(s) /\ Entries(s) = Entries(t)
    BY <1>5
  <1> HIDE DEF s
  <1>7. CASE GoodSet(other)
    <2>1. GoodSet(R) /\ Entries(R) = Entries(s) \cup Entries(other)
      BY <1>6, <1>7, AddAllFacts
    <2>2. QED
      BY <1>3, <1>6, <2>1
  <1>8. CASE NoTable(other)
    <2>1. Capacity(other) = 0 /\ Entries(other) = {}
      BY <1>8, NoTableFacts
    <2>2. AddAll(s, other)[0] = s
      <3> DEFINE Def(f) == f = [i \in 0 .. 0 |->
                      IF i = 0 THEN s
                      ELSE IF other[i - 1] = Hole THEN f[i - 1] ELSE Added(f[i - 1], other[i - 1])]
                 g == [i \in 0 .. 0 |-> s]
                 Q == AddAll(s, other)
      <3>1. 0 .. 0 = {0}
        OBVIOUS
      <3>2. Def(g)
        BY <3>1
      <3>3. Q = CHOOSE f : Def(f)
        BY <2>1 DEF AddAll
      <3>4. Def(Q)
        BY <3>2, <3>3
      <3> HIDE DEF Q
      <3>5. \A h : h = [i \in 0 .. 0 |->
                      IF i = 0 THEN s
                      ELSE IF other[i - 1] = Hole THEN Q[i - 1] ELSE Added(Q[i - 1], other[i - 1])]
                   => h[0] = s
        BY <3>1
      <3>6. QED
        BY <3>4, <3>5 DEF Q
    <2>3. R = s
      BY <2>1, <2>2
    <2>4. QED
      BY <1>3, <1>6, <2>1, <2>3
  <1>9. QED
    BY <1>7, <1>8

\* What a table stands for
KeysOf(A) == {e.key : e \in A}

\* A set and what it stands for
SetOne(t, d) == (GoodSet(t) \/ NoTable(t)) /\ d = KeysOf(Entries(t))

\* The invariant of the sets: each is probed, with a place in nobody's way, or was moved from.
SetInv ==
    /\ DOMAIN places = Sets /\ DOMAIN elements = Sets
    /\ \A s \in Sets : SetOne(places[s], elements[s])

\* A set in use has a good table.
LEMMA InUseFacts ==
    ASSUME SetInv, NEW s \in Sets, InUse(s)
    PROVE  GoodSet(places[s]) /\ elements[s] = KeysOf(Entries(places[s]))
  <1>1. SetOne(places[s], elements[s])
    BY DEF SetInv
  <1>2. CASE NoTable(places[s])
    BY <1>2, NoTableFacts DEF InUse
  <1>3. CASE GoodSet(places[s])
    BY <1>1, <1>3 DEF SetOne
  <1>4. QED
    BY <1>1, <1>2, <1>3 DEF SetOne

\* A new set, or a cleared one, stands for the empty set.
LEMMA FreshSet == \A c \in Nat : SetOne(EmptyTable(c), {})
  <1> SUFFICES ASSUME NEW c \in Nat PROVE SetOne(EmptyTable(c), {})
    OBVIOUS
  <1>1. (GoodSet(EmptyTable(c)) \/ NoTable(EmptyTable(c))) /\ Entries(EmptyTable(c)) = {}
    <2>1. CASE c = 0
      <3>1. NoTable(EmptyTable(c))
        BY <2>1 DEF NoTable
      <3>2. QED
        BY <3>1, NoTableFacts
    <2>2. CASE c # 0
      BY <2>2, EmptySetIsGood
    <2>3. QED
      BY <2>1, <2>2
  <1>2. KeysOf({}) = {}
    BY DEF KeysOf
  <1>3. QED
    BY <1>1, <1>2 DEF SetOne

\* The sets start right.
LEMMA InitSets == SetInit => SetInv
  <1>1. SetOne(EmptyTable(FirstSetCapacity), {})
    BY SetAssumption, FreshSet
  <1>2. QED
    BY <1>1 DEF SetInit, SetInv

\* Changing one set
LEMMA OneSet ==
    ASSUME SetInv, NEW s \in Sets, NEW t, NEW d, SetOne(t, d), Becomes(s, t, d)
    PROVE  SetInv'
  <1>1. DOMAIN places' = Sets /\ DOMAIN elements' = Sets
    BY DEF SetInv, Becomes
  <1>2. ASSUME NEW r \in Sets PROVE SetOne(places'[r], elements'[r])
    <2>1. CASE r = s
      <3>1. places'[r] = t /\ elements'[r] = d
        BY <2>1 DEF SetInv, Becomes
      <3>2. QED
        BY <3>1
    <2>2. CASE r # s
      <3>1. places'[r] = places[r] /\ elements'[r] = elements[r]
        BY <2>2 DEF SetInv, Becomes
      <3>2. SetOne(places[r], elements[r])
        BY DEF SetInv
      <3>3. QED
        BY <3>1, <3>2
    <2>3. QED
      BY <2>1, <2>2
  <1>3. QED
    BY <1>1, <1>2 DEF SetInv

\* How the keys follow the entries
LEMMA KeysOfFacts ==
    ASSUME NEW A, NEW B
    PROVE  /\ KeysOf(A \cup B) = KeysOf(A) \cup KeysOf(B)
           /\ \A k : KeysOf({[key |-> k]}) = {k}
  BY DEF KeysOf

\* add keeps the invariant.
LEMMA AddKeyKeeps ==
    ASSUME SetInv, NEW s \in Sets, NEW k \in SetKeys, AddKey(s, k)
    PROVE  SetInv'
  <1> DEFINE t == places[s]
             e == [key |-> k]
  <1>1. GoodSet(t) /\ elements[s] = KeysOf(Entries(t))
    BY InUseFacts DEF AddKey
  <1>2. e \in SetEntries /\ KeysOf({e}) = {k}
    BY EntryIsKey, KeysOfFacts
  <1>3. Becomes(s, Added(t, e), elements[s] \cup {k})
    BY DEF AddKey
  <1> HIDE DEF t, e
  <1>4. GoodSet(Added(t, e)) /\ Entries(Added(t, e)) = Entries(t) \cup {e}
    BY <1>1, <1>2, AddedFacts
  <1>5. KeysOf(Entries(t) \cup {e}) = elements[s] \cup {k}
    BY <1>1, <1>2, KeysOfFacts
  <1>6. SetOne(Added(t, e), elements[s] \cup {k})
    BY <1>4, <1>5 DEF SetOne
  <1>7. QED
    BY <1>3, <1>6, OneSet

\* remove keeps it.
LEMMA RemoveMemberKeeps ==
    ASSUME SetInv, NEW s \in Sets, NEW k \in SetKeys, RemoveMember(s, k)
    PROVE  SetInv'
  <1> DEFINE t == places[s]
             u == Removed(t, k)
             A == {x \in Entries(t) : x.key # k}
  <1>1. GoodSet(t) /\ elements[s] = KeysOf(Entries(t))
    BY InUseFacts DEF RemoveMember
  <1>2. Becomes(s, u, elements[s] \ {k})
    BY DEF RemoveMember
  <1> HIDE DEF t
  <1>3. GoodSet(u) /\ Entries(u) = A
    BY <1>1, RemovedFacts
  <1>4. KeysOf(A) = elements[s] \ {k}
    <2>1. KeysOf(A) = KeysOf(Entries(t)) \ {k}
      BY DEF KeysOf
    <2>2. QED
      BY <1>1, <2>1
  <1>5. SetOne(u, elements[s] \ {k})
    BY <1>3, <1>4 DEF SetOne
  <1>6. QED
    BY <1>2, <1>5, OneSet

\* clear keeps it.
LEMMA ClearSetKeeps ==
    ASSUME SetInv, NEW s \in Sets, ClearSet(s)
    PROVE  SetInv'
  <1>1. SetOne(places[s], elements[s])
    BY DEF SetInv
  <1>2. Capacity(places[s]) \in Nat
    BY <1>1, GoodSetFacts, NoTableFacts DEF SetOne
  <1>3. SetOne(EmptyTable(Capacity(places[s])), {})
    BY <1>2, FreshSet
  <1>4. QED
    BY <1>3, OneSet DEF ClearSet

\* addFrom keeps it.
LEMMA AddFromKeeps ==
    ASSUME SetInv, NEW s \in Sets, NEW r \in Sets, AddFrom(s, r)
    PROVE  SetInv'
  <1> DEFINE t == places[s]
             o == places[r]
             u == AddedFrom(t, o)
  <1>1. GoodSet(t) /\ elements[s] = KeysOf(Entries(t))
    BY InUseFacts DEF AddFrom
  <1>2. SetOne(o, elements[r])
    BY DEF SetInv
  <1>3. Becomes(s, u, elements[s] \cup elements[r])
    BY DEF AddFrom
  <1> HIDE DEF t, o
  <1>4. GoodSet(u) /\ Entries(u) = Entries(t) \cup Entries(o)
    BY <1>1, <1>2, AddedFromFacts DEF SetOne
  <1>5. KeysOf(Entries(t) \cup Entries(o)) = elements[s] \cup elements[r]
    BY <1>1, <1>2, KeysOfFacts DEF SetOne
  <1>6. SetOne(u, elements[s] \cup elements[r])
    BY <1>4, <1>5 DEF SetOne
  <1>7. QED
    BY <1>3, <1>6, OneSet

\* Sets built from keys keep it.
LEMMA BuildKeeps ==
    ASSUME SetInv, NEW s \in Sets, NEW keys \in Seq(SetKeys), Build(s, keys)
    PROVE  SetInv'
  <1> DEFINE c == (Len(keys) * 7) \div 5 + 1
             t == EmptyTable(c)
             u == AddKeys(t, keys)[Len(keys)]
             A == {[key |-> keys[i]] : i \in 1 .. Len(keys)}
             d == {keys[i] : i \in 1 .. Len(keys)}
  <1>1. c \in Nat \ {0}
    <2>1. Len(keys) * 7 \in Nat
      OBVIOUS
    <2>2. \A n \in Nat : n \div 5 \in Nat
      OBVIOUS
    <2>3. (Len(keys) * 7) \div 5 \in Nat
      BY <2>1, <2>2
    <2>4. \A n \in Nat : n + 1 \in Nat \ {0}
      OBVIOUS
    <2>5. QED
      BY <2>3, <2>4
  <1>2. Becomes(s, u, d)
    BY DEF Build
  <1> HIDE DEF c
  <1>3. GoodSet(t) /\ Entries(t) = {}
    BY <1>1, EmptySetIsGood
  <1> HIDE DEF t
  <1>4. GoodSet(u) /\ Entries(u) = Entries(t) \cup A
    BY <1>3, AddKeysFacts
  <1>5. KeysOf(A) = d
    <2>1. \A i \in 1 .. Len(keys) : [key |-> keys[i]].key = keys[i]
      OBVIOUS
    <2>2. ASSUME NEW x \in KeysOf(A) PROVE x \in d
      BY <2>1, <2>2 DEF KeysOf
    <2>3. ASSUME NEW i \in 1 .. Len(keys) PROVE keys[i] \in KeysOf(A)
      BY <2>1, <2>3 DEF KeysOf
    <2>4. QED
      BY <2>2, <2>3
  <1>6. Entries(u) = A
    BY <1>3, <1>4
  <1>7. SetOne(u, d)
    BY <1>4, <1>5, <1>6 DEF SetOne
  <1>8. QED
    BY <1>2, <1>7, OneSet

\* Copies keep it.
LEMMA CopySetKeeps ==
    ASSUME SetInv, NEW s \in Sets, NEW r \in Sets, CopySet(s, r)
    PROVE  SetInv'
  <1> DEFINE o == places[r]
             t == EmptyTable(Capacity(o))
             u == AddedFrom(t, o)
  <1>1. GoodSet(o) /\ elements[r] = KeysOf(Entries(o))
    BY InUseFacts DEF CopySet
  <1>2. Becomes(s, u, elements[r])
    BY DEF CopySet
  <1> HIDE DEF o
  <1>3. GoodSet(t) /\ Entries(t) = {}
    BY <1>1, GoodSetFacts, EmptySetIsGood
  <1> HIDE DEF t
  <1>4. GoodSet(u) /\ Entries(u) = Entries(t) \cup Entries(o)
    BY <1>1, <1>3, AddedFromFacts
  <1>5. Entries(u) = Entries(o)
    BY <1>3, <1>4
  <1>6. SetOne(u, elements[r])
    BY <1>1, <1>4, <1>5 DEF SetOne
  <1>7. QED
    BY <1>2, <1>6, OneSet

\* Moves keep it.
LEMMA MoveSetKeeps ==
    ASSUME SetInv, NEW s \in Sets, NEW r \in Sets, MoveSet(s, r)
    PROVE  SetInv'
  <1>1. DOMAIN places' = Sets /\ DOMAIN elements' = Sets
    BY DEF SetInv, MoveSet
  <1>2. ASSUME NEW o \in Sets PROVE SetOne(places'[o], elements'[o])
    <2>1. /\ places'[o] = IF o = r THEN EmptyTable(0) ELSE IF o = s THEN places[r] ELSE places[o]
          /\ elements'[o] = IF o = r THEN {} ELSE IF o = s THEN elements[r] ELSE elements[o]
      BY DEF SetInv, MoveSet
    <2>2. SetOne(EmptyTable(0), {})
      BY FreshSet
    <2>3. SetOne(places[r], elements[r]) /\ SetOne(places[o], elements[o])
      BY DEF SetInv
    <2>4. QED
      BY <2>1, <2>2, <2>3
  <1>3. QED
    BY <1>1, <1>2 DEF SetInv

\* Every operation keeps the invariant.
LEMMA SetStep == SetInv /\ [SetNext]_setVars => SetInv'
  <1> SUFFICES ASSUME SetInv, [SetNext]_setVars PROVE SetInv'
    OBVIOUS
  <1>1. ASSUME NEW s \in Sets, NEW k \in SetKeys, AddKey(s, k) PROVE SetInv'
    BY <1>1, AddKeyKeeps
  <1>2. ASSUME NEW s \in Sets, NEW k \in SetKeys, RemoveMember(s, k) PROVE SetInv'
    BY <1>2, RemoveMemberKeeps
  <1>3. ASSUME NEW s \in Sets, NEW k \in SetKeys, NEW l \in SetKeys, Build(s, <<k, l>>)
        PROVE  SetInv'
    <2>1. <<k, l>> \in Seq(SetKeys)
      OBVIOUS
    <2>2. QED
      BY <1>3, <2>1, BuildKeeps
  <1>4. ASSUME NEW s \in Sets, ClearSet(s) PROVE SetInv'
    BY <1>4, ClearSetKeeps
  <1>5. ASSUME NEW s \in Sets, NEW r \in Sets, AddFrom(s, r) PROVE SetInv'
    BY <1>5, AddFromKeeps
  <1>6. ASSUME NEW s \in Sets, NEW r \in Sets, CopySet(s, r) PROVE SetInv'
    BY <1>6, CopySetKeeps
  <1>7. ASSUME NEW s \in Sets, NEW r \in Sets, MoveSet(s, r) PROVE SetInv'
    BY <1>7, MoveSetKeeps
  <1>8. CASE UNCHANGED setVars
    BY <1>8 DEF setVars, SetInv
  <1>9. QED
    BY <1>1, <1>2, <1>3, <1>4, <1>5, <1>6, <1>7, <1>8 DEF SetNext

\* Keys and entries say the same.
LEMMA SameMembers ==
    ASSUME NEW A, A \subseteq SetEntries, NEW B, B \subseteq SetEntries
    PROVE  A \subseteq B <=> KeysOf(A) \subseteq KeysOf(B)
  <1>1. ASSUME KeysOf(A) \subseteq KeysOf(B), NEW x \in A PROVE x \in B
    <2>1. x.key \in KeysOf(B)
      BY <1>1 DEF KeysOf
    <2>2. PICK y \in B : x.key = y.key
      BY <2>1 DEF KeysOf
    <2>3. x = y
      BY <2>2, EntryIsKey
    <2>4. QED
      BY <2>3
  <1>2. A \subseteq B => KeysOf(A) \subseteq KeysOf(B)
    BY DEF KeysOf
  <1>3. QED
    BY <1>1, <1>2

\* isSubsetOf of two sets in use
LEMMA SubsetFacts ==
    ASSUME SetInv, NEW s \in Sets, NEW r \in Sets, InUse(s), InUse(r)
    PROVE  SubsetOf(s, r) <=> elements[s] \subseteq elements[r]
  <1> DEFINE t == places[s]
             u == places[r]
  <1>1. /\ GoodSet(t) /\ elements[s] = KeysOf(Entries(t))
        /\ GoodSet(u) /\ elements[r] = KeysOf(Entries(u))
    BY InUseFacts
  <1>2. SubsetOf(s, r) <=> /\ Cardinality(Present(t)) <= Cardinality(Present(u))
                           /\ \A e \in Entries(t) : Has(u, e.key)
    BY DEF SubsetOf
  <1> HIDE DEF t, u
  <1>3. /\ Entries(t) \subseteq SetEntries /\ Entries(u) \subseteq SetEntries
        /\ Table(SetEntries, Capacity(u), u) /\ Probed(Capacity(u), u)
        /\ Table(SetEntries, Capacity(t), t) /\ KeysApart(Capacity(t), t)
        /\ KeysApart(Capacity(u), u) /\ Hole \notin SetEntries
    BY <1>1, GoodSetFacts
  <1>4. /\ IsFiniteSet(Entries(t)) /\ Cardinality(Entries(t)) = Cardinality(Present(t))
        /\ IsFiniteSet(Entries(u)) /\ Cardinality(Entries(u)) = Cardinality(Present(u))
    BY <1>3, AsManyEntries
  <1>5. ASSUME NEW e \in Entries(t) PROVE Has(u, e.key) <=> e \in Entries(u)
    <2>1. e \in SetEntries /\ HashOf[e.key] \in Nat
      BY <1>3, SetHashed DEF Hashed
    <2>2. Has(u, e.key) <=> \E x \in Entries(u) : x.key = e.key
      BY <1>3, <2>1, SetHashed, FoundFacts
    <2>3. \A x \in Entries(u) : x.key = e.key => x = e
      BY <1>3, <2>1, EntryIsKey
    <2>4. QED
      BY <2>2, <2>3
  <1>6. Entries(t) \subseteq Entries(u) =>
           Cardinality(Present(t)) <= Cardinality(Present(u))
    BY <1>4, FS_Subset
  <1>7. SubsetOf(s, r) <=> Entries(t) \subseteq Entries(u)
    BY <1>2, <1>5, <1>6
  <1>8. QED
    BY <1>1, <1>3, <1>7, SameMembers

\* A HashSet is its elements.
LEMMA SetInvFacts == SetInv => SetTypeOK /\ HashSetRight
  <1> SUFFICES ASSUME SetInv PROVE SetTypeOK /\ HashSetRight
    OBVIOUS
  <1>1. ASSUME NEW s \in Sets
        PROVE  /\ DOMAIN places[s] = 0 .. Capacity(places[s]) - 1
               /\ Entries(places[s]) \subseteq SetEntries
    <2> DEFINE t == places[s]
    <2>1. GoodSet(t) \/ NoTable(t)
      BY DEF SetInv, SetOne
    <2> HIDE DEF t
    <2>2. CASE NoTable(t)
      <3>1. Capacity(t) = 0 /\ DOMAIN t = {} /\ Entries(t) = {}
        BY <2>2, NoTableFacts
      <3>2. 0 .. 0 - 1 = {}
        OBVIOUS
      <3>3. QED
        BY <3>1, <3>2 DEF t
    <2>3. CASE GoodSet(t)
      <3>1. Table(SetEntries, Capacity(t), t) /\ Entries(t) \subseteq SetEntries
        BY <2>3, GoodSetFacts
      <3>2. QED
        BY <3>1 DEF Table, t
    <2>4. QED
      BY <2>1, <2>2, <2>3
  <1>2. SetTypeOK
    BY <1>1 DEF SetTypeOK, SetEntries
  <1>3. ASSUME NEW s \in Sets, InUse(s)
        PROVE  /\ KeysOf(Entries(places[s])) = elements[s]
               /\ TableRight(places[s]) /\ IterationRight(places[s])
               /\ \A k \in SetKeys : Has(places[s], k) <=> k \in elements[s]
    <2> DEFINE t == places[s]
    <2>1. GoodSet(t) /\ elements[s] = KeysOf(Entries(t))
      BY <1>3, InUseFacts
    <2> HIDE DEF t
    <2>2. Table(SetEntries, Capacity(t), t) /\ Probed(Capacity(t), t)
      BY <2>1, GoodSetFacts
    <2>3. TableRight(t)
      BY <2>2, SetHashed, TablesAreRight
    <2>4. ASSUME NEW k \in SetKeys PROVE Has(t, k) <=> k \in elements[s]
      <3>1. HashOf[k] \in Nat
        BY SetAssumption
      <3>2. Has(t, k) <=> \E x \in Entries(t) : x.key = k
        BY <2>2, <3>1, SetHashed, FoundFacts
      <3>3. QED
        BY <2>1, <3>2 DEF KeysOf
    <2>5. IterationRight(t)
      <3>1. DOMAIN t = 0 .. Capacity(t) - 1 /\ Capacity(t) \in Nat
        BY <2>2 DEF Table
      <3>2. QED
        BY <3>1, IterationFacts
    <2>6. QED
      BY <2>1, <2>3, <2>4, <2>5 DEF t
  <1>4. \A s, r \in Sets : InUse(s) /\ InUse(r) =>
           (SubsetOf(s, r) <=> elements[s] \subseteq elements[r])
    BY SubsetFacts
  <1>5. QED
    BY <1>2, <1>3, <1>4 DEF HashSetRight, KeysOf

\* A HashSet holds its elements and finds no other, full or not: a removal leaves every
\* other element where a probe finds it, even when it has to go all the way round.
THEOREM SetsAreRight == SetSpec => [](SetTypeOK /\ HashSetRight)
  <1>1. QED
    BY InitSets, SetStep, SetInvFacts, PTL DEF SetSpec

----------------------------------------------------------------------------
(* ArrayList *)

\* What a slot may hold, and what a list may hold
ListObjects == Objects \cup {Default}
Slots == ListObjects \cup {Raw}

\* What a list is made of
ListRecords == [slots : Seq(Slots), length : Nat, allocated : Nat]

\* The slots hold vs, and nothing else.
HoldsList(x, vs) ==
    /\ x \in ListRecords
    /\ vs \in Seq(ListObjects) /\ Len(vs) = x.length
    /\ x.length <= Len(x.slots)
    /\ \A i \in 1 .. Len(x.slots) : x.slots[i] = IF i <= x.length THEN vs[i] ELSE Raw

\* There is memory for what is allocated.
Backed(x) == Len(x.slots) = x.allocated

\* A function on 1 .. n is a sequence.
LEMMA SequenceOf ==
    ASSUME NEW S, NEW n \in Nat, NEW f \in [1 .. n -> S]
    PROVE  f \in Seq(S) /\ Len(f) = n
  OBVIOUS

\* Sequences with the same items are the same.
LEMMA SameSequence ==
    ASSUME NEW S, NEW s \in Seq(S), NEW t \in Seq(S), Len(s) = Len(t),
           \A i \in 1 .. Len(s) : s[i] = t[i]
    PROVE  s = t
  OBVIOUS

\* Part of a sequence
LEMMA PartFacts ==
    ASSUME NEW S, NEW s \in Seq(S), NEW i \in Nat, NEW j \in Nat, i <= j, j <= Len(s)
    PROVE  /\ SubSeq(s, i + 1, j) \in Seq(S)
           /\ Len(SubSeq(s, i + 1, j)) = j - i
           /\ \A k \in 1 .. j - i : SubSeq(s, i + 1, j)[k] = s[i + k]
  OBVIOUS

\* Two sequences, one behind the other
LEMMA JoinFacts ==
    ASSUME NEW S, NEW s \in Seq(S), NEW t \in Seq(S)
    PROVE  /\ s \o t \in Seq(S)
           /\ Len(s \o t) = Len(s) + Len(t)
           /\ \A k \in 1 .. Len(s) : (s \o t)[k] = s[k]
           /\ \A k \in Len(s) + 1 .. Len(s) + Len(t) : (s \o t)[k] = t[k - Len(s)]
  OBVIOUS

\* Memory that was not constructed in
LEMMA RawFacts ==
    ASSUME NEW n \in Nat
    PROVE  /\ Raws(n) \in Seq(Slots) /\ Len(Raws(n)) = n
           /\ \A i \in 1 .. n : Raws(n)[i] = Raw
  BY DEF Raws, Slots

\* A list with other slots, and with another length or more memory
OtherSlots(x, t) == [x EXCEPT !.slots = t]
OtherLength(x, t, n) == [x EXCEPT !.slots = t, !.length = n]
OtherMemory(x, t, n) == [x EXCEPT !.slots = t, !.allocated = n]

\* What becomes of the fields
LEMMA SlotsFields ==
    ASSUME NEW x \in ListRecords, NEW t \in Seq(Slots)
    PROVE  /\ OtherSlots(x, t) \in ListRecords
           /\ OtherSlots(x, t).slots = t
           /\ OtherSlots(x, t).length = x.length
           /\ OtherSlots(x, t).allocated = x.allocated
  BY DEF ListRecords, OtherSlots

\* with another length
LEMMA LengthFields ==
    ASSUME NEW x \in ListRecords, NEW t \in Seq(Slots), NEW n \in Nat
    PROVE  /\ OtherLength(x, t, n) \in ListRecords
           /\ OtherLength(x, t, n).slots = t
           /\ OtherLength(x, t, n).length = n
           /\ OtherLength(x, t, n).allocated = x.allocated
  BY DEF ListRecords, OtherLength

\* and with more memory.
LEMMA MemoryFields ==
    ASSUME NEW x \in ListRecords, NEW t \in Seq(Slots), NEW n \in Nat
    PROVE  /\ OtherMemory(x, t, n) \in ListRecords
           /\ OtherMemory(x, t, n).slots = t
           /\ OtherMemory(x, t, n).length = x.length
           /\ OtherMemory(x, t, n).allocated = n
  BY DEF ListRecords, OtherMemory

\* prepare keeps the objects, and there is room for so many.
LEMMA PreparedFacts ==
    ASSUME NEW x, NEW vs, HoldsList(x, vs), Backed(x), NEW size \in Nat
    PROVE  LET y == Prepared(x, size) IN
           /\ HoldsList(y, vs) /\ Backed(y)
           /\ y.length = x.length /\ y.allocated >= size /\ y.allocated >= x.allocated
  <1> DEFINE y == Prepared(x, size)
             d == size - x.allocated
  <1>1. /\ x.slots \in Seq(Slots) /\ x.length \in Nat /\ x.allocated \in Nat
        /\ x \in ListRecords
        /\ Len(x.slots) = x.allocated /\ x.length <= x.allocated
    BY DEF HoldsList, Backed, ListRecords
  <1>2. CASE size > x.allocated
    <2>1. y = [x EXCEPT !.slots = x.slots \o Raws(d), !.allocated = size]
      BY <1>2 DEF Prepared
    <2>2. d \in Nat
      BY <1>1, <1>2
    <2> DEFINE t == x.slots \o Raws(d)
    <2>3. /\ t \in Seq(Slots) /\ Len(t) = size
          /\ \A k \in 1 .. Len(x.slots) : t[k] = x.slots[k]
          /\ \A k \in Len(x.slots) + 1 .. size : t[k] = Raws(d)[k - Len(x.slots)]
      <3>1. Raws(d) \in Seq(Slots) /\ Len(Raws(d)) = d
        BY <2>2, RawFacts
      <3>2. /\ t \in Seq(Slots) /\ Len(t) = Len(x.slots) + Len(Raws(d))
            /\ \A k \in 1 .. Len(x.slots) : t[k] = x.slots[k]
            /\ \A k \in Len(x.slots) + 1 .. Len(x.slots) + Len(Raws(d)) :
                  t[k] = Raws(d)[k - Len(x.slots)]
        <4>1. x.slots \in Seq(Slots)
          BY <1>1
        <4>2. QED
          BY <3>1, <4>1, JoinFacts, ZenonT(60)
      <3>3. Len(x.slots) + Len(Raws(d)) = size
        BY <1>1, <1>2, <3>1
      <3>4. QED
        BY <3>2, <3>3
    <2>4. \A k \in Len(x.slots) + 1 .. size : t[k] = Raw
      <3>1. \A k \in Len(x.slots) + 1 .. size : k - Len(x.slots) \in 1 .. d
        BY <1>1, <2>2
      <3>2. QED
        BY <2>2, <2>3, <3>1, RawFacts
    <2> HIDE DEF t, d
    <2>5. y.slots = t /\ y.length = x.length /\ y.allocated = size
          /\ y \in ListRecords
      <3>1. y = OtherMemory(x, t, size)
        BY <2>1 DEF t, OtherMemory
      <3> HIDE DEF y
      <3>2. QED
        BY <1>1, <2>3, <3>1, MemoryFields, ZenonT(60)
    <2> HIDE DEF y
    <2>6. \A i \in 1 .. size : t[i] = IF i <= x.length THEN vs[i] ELSE Raw
      <3> TAKE i \in 1 .. size
      <3>1. \A k \in 1 .. Len(x.slots) : x.slots[k] = IF k <= x.length THEN vs[k] ELSE Raw
        BY DEF HoldsList, ListRecords
      <3>2. CASE i <= x.allocated
        <4>1. i \in 1 .. Len(x.slots)
          BY <1>1, <3>2
        <4>2. QED
          BY <2>3, <3>1, <4>1
      <3>3. CASE ~(i <= x.allocated)
        <4>1. i \in Len(x.slots) + 1 .. size /\ ~(i <= x.length)
          BY <1>1, <3>3
        <4>2. QED
          BY <2>4, <4>1
      <3>4. QED
        BY <3>2, <3>3
    <2>7. HoldsList(y, vs) /\ Backed(y)
      <3>1. vs \in Seq(ListObjects) /\ Len(vs) = x.length
        BY DEF HoldsList, ListRecords
      <3>2. x.length <= Len(t)
        BY <1>1, <1>2, <2>3
      <3>3. QED
        BY <2>3, <2>5, <2>6, <3>1, <3>2 DEF HoldsList, Backed
    <2>8. QED
      BY <1>1, <1>2, <2>5, <2>7 DEF y
  <1>3. CASE ~(size > x.allocated)
    <2>1. y = x
      BY <1>3 DEF Prepared
    <2>2. QED
      BY <1>1, <1>3, <2>1
  <1>4. QED
    BY <1>2, <1>3

\* Objects are constructed behind the last.
LEMMA ConstructedFacts ==
    ASSUME NEW x, NEW vs, HoldsList(x, vs), Backed(x), NEW ws \in Seq(ListObjects),
           x.length + Len(ws) <= x.allocated
    PROVE  LET y == Constructed(x, ws) IN
           HoldsList(y, vs \o ws) /\ Backed(y) /\ y.allocated = x.allocated
  <1> DEFINE y == Constructed(x, ws)
             n == x.length + Len(ws)
             t == [i \in DOMAIN x.slots |-> IF i \in x.length + 1 .. n THEN ws[i - x.length]
                                            ELSE x.slots[i]]
  <1>1. /\ x.slots \in Seq(Slots) /\ x.length \in Nat /\ x.allocated \in Nat
        /\ x \in ListRecords
        /\ Len(x.slots) = x.allocated /\ x.length <= x.allocated
        /\ DOMAIN x.slots = 1 .. x.allocated
    BY DEF HoldsList, Backed, ListRecords
  <1>3. \A i \in x.length + 1 .. n : ws[i - x.length] \in ListObjects
    <2>1. \A i \in x.length + 1 .. n : i - x.length \in 1 .. Len(ws)
      BY <1>1
    <2>2. QED
      BY <2>1
  <1>4. t \in [1 .. x.allocated -> Slots]
    BY <1>1, <1>3 DEF Slots
  <1>5. t \in Seq(Slots) /\ Len(t) = x.allocated
    <2>1. x.allocated \in Nat
      BY <1>1
    <2> HIDE DEF t
    <2>2. QED
      BY <2>1, <1>4, SequenceOf
  <1>6. /\ vs \in Seq(ListObjects) /\ Len(vs) = x.length
        /\ \A i \in 1 .. x.allocated : x.slots[i] = IF i <= x.length THEN vs[i] ELSE Raw
    BY <1>1 DEF HoldsList, ListRecords
  <1> DEFINE us == vs \o ws
  <1>7. /\ us \in Seq(ListObjects) /\ Len(us) = n
        /\ \A k \in 1 .. x.length : us[k] = vs[k]
        /\ \A k \in x.length + 1 .. n : us[k] = ws[k - x.length]
    <2>1. /\ us \in Seq(ListObjects) /\ Len(us) = Len(vs) + Len(ws)
          /\ \A k \in 1 .. Len(vs) : us[k] = vs[k]
          /\ \A k \in Len(vs) + 1 .. Len(vs) + Len(ws) : us[k] = ws[k - Len(vs)]
      BY <1>6, JoinFacts
    <2>2. QED
      BY <1>6, <2>1
  <1>8. \A i \in 1 .. x.allocated : t[i] = IF i <= n THEN us[i] ELSE Raw
    <2> TAKE i \in 1 .. x.allocated
    <2>1. t[i] = IF i \in x.length + 1 .. n THEN ws[i - x.length] ELSE x.slots[i]
      BY <1>1
    <2> HIDE DEF t, us
    <2>2. QED
      BY <1>1, <1>6, <1>7, <2>1
  <1>9. n \in Nat /\ n <= x.allocated
    BY <1>1
  <1>10. y = OtherLength(x, t, n)
    BY DEF Constructed, OtherLength
  <1> HIDE DEF t, us, n, y
  <1>11. y \in ListRecords /\ y.slots = t /\ y.length = n /\ y.allocated = x.allocated
    <2>1. x \in ListRecords /\ t \in Seq(Slots) /\ n \in Nat
      BY <1>1, <1>5, <1>9
    <2>2. QED
      BY <2>1, <1>10, LengthFields
  <1>12. HoldsList(y, us) /\ Backed(y)
    BY <1>5, <1>7, <1>8, <1>9, <1>11 DEF HoldsList, Backed
  <1>13. QED
    BY <1>11, <1>12 DEF y, us

\* The objects from n on are destroyed.
LEMMA TruncatedFacts ==
    ASSUME NEW x, NEW vs, HoldsList(x, vs), NEW n \in Nat, n <= x.length
    PROVE  LET y == Truncated(x, n) IN
           /\ HoldsList(y, SubSeq(vs, 1, n)) /\ Len(y.slots) = Len(x.slots)
           /\ y.allocated = x.allocated /\ y.length = n
  <1> DEFINE y == Truncated(x, n)
             t == [i \in DOMAIN x.slots |-> IF i > n THEN Raw ELSE x.slots[i]]
             m == Len(x.slots)
             us == SubSeq(vs, 1, n)
  <1>1. /\ x.slots \in Seq(Slots) /\ x.length \in Nat /\ x.allocated \in Nat /\ m \in Nat
        /\ x \in ListRecords
        /\ x.length <= m
        /\ DOMAIN x.slots = 1 .. m
    BY DEF HoldsList, ListRecords
  <1>3. t \in [1 .. m -> Slots]
    BY <1>1 DEF Slots
  <1>4. t \in Seq(Slots) /\ Len(t) = m
    BY <1>1, <1>3, SequenceOf
  <1>5. /\ vs \in Seq(ListObjects) /\ Len(vs) = x.length
        /\ \A i \in 1 .. m : x.slots[i] = IF i <= x.length THEN vs[i] ELSE Raw
    BY <1>1 DEF HoldsList, ListRecords
  <1>6. /\ us \in Seq(ListObjects) /\ Len(us) = n
        /\ \A k \in 1 .. n : us[k] = vs[k]
    BY <1>1, <1>5
  <1>7. \A i \in 1 .. m : t[i] = IF i <= n THEN us[i] ELSE Raw
    <2> TAKE i \in 1 .. m
    <2>1. t[i] = IF i > n THEN Raw ELSE x.slots[i]
      BY <1>1
    <2> HIDE DEF t, us
    <2>2. QED
      BY <1>1, <1>5, <1>6, <2>1
  <1>8. y = OtherLength(x, t, n)
    BY DEF Truncated, OtherLength
  <1> HIDE DEF t, us, y
  <1>9. y \in ListRecords /\ y.slots = t /\ y.length = n /\ y.allocated = x.allocated
    <2>1. x \in ListRecords /\ t \in Seq(Slots)
      BY <1>1, <1>4
    <2>2. QED
      BY <2>1, <1>8, LengthFields
  <1>10. n <= m
    BY <1>1
  <1>11. HoldsList(y, us)
    BY <1>4, <1>6, <1>7, <1>9, <1>10 DEF HoldsList
  <1>12. QED
    BY <1>4, <1>9, <1>11 DEF y, us

\* An object takes another's place.
LEMMA ReplacedFacts ==
    ASSUME NEW x, NEW vs, HoldsList(x, vs), NEW i \in Nat \ {0}, i <= x.length,
           NEW v \in ListObjects
    PROVE  LET y == [x EXCEPT !.slots[i] = v] IN
           /\ HoldsList(y, [vs EXCEPT ![i] = v]) /\ Len(y.slots) = Len(x.slots)
           /\ y.allocated = x.allocated /\ y.length = x.length
  <1> DEFINE y == [x EXCEPT !.slots[i] = v]
             t == [x.slots EXCEPT ![i] = v]
             m == Len(x.slots)
             us == [vs EXCEPT ![i] = v]
  <1>1. /\ x.slots \in Seq(Slots) /\ x.length \in Nat /\ x.allocated \in Nat /\ m \in Nat
        /\ x \in ListRecords
        /\ x.length <= m
        /\ DOMAIN x.slots = 1 .. m
        /\ v \in Slots
    BY DEF HoldsList, Slots, ListRecords
  <1>2. y = OtherSlots(x, t)
    BY <1>1 DEF ListRecords, OtherSlots
  <1>3. t \in Seq(Slots) /\ Len(t) = m
    BY <1>1
  <1>4. /\ vs \in Seq(ListObjects) /\ Len(vs) = x.length
        /\ \A k \in 1 .. m : x.slots[k] = IF k <= x.length THEN vs[k] ELSE Raw
    BY <1>1 DEF HoldsList, ListRecords
  <1>5. us \in Seq(ListObjects) /\ Len(us) = x.length
    BY <1>1, <1>4
  <1>6. \A k \in 1 .. m : t[k] = IF k <= x.length THEN us[k] ELSE Raw
    <2> TAKE k \in 1 .. m
    <2>1. t[k] = IF k = i THEN v ELSE x.slots[k]
      BY <1>1
    <2>2. k <= x.length => us[k] = IF k = i THEN v ELSE vs[k]
      BY <1>1, <1>4
    <2> HIDE DEF t, us
    <2>3. QED
      BY <1>1, <1>4, <2>1, <2>2
  <1> HIDE DEF t, us, y
  <1>7. y \in ListRecords /\ y.slots = t /\ y.length = x.length /\ y.allocated = x.allocated
    BY <1>1, <1>2, <1>3, SlotsFields
  <1>8. HoldsList(y, us)
    BY <1>1, <1>3, <1>5, <1>6, <1>7 DEF HoldsList
  <1>9. QED
    BY <1>3, <1>7, <1>8 DEF y, us
\* The first slot is free for another, which is put in it.
LEMMA ShiftedFacts ==
    ASSUME NEW x, NEW vs, HoldsList(x, vs), Backed(x), x.length < x.allocated,
           NEW v \in ListObjects
    PROVE  LET y == [ShiftedUp(x) EXCEPT !.slots[1] = v, !.length = @ + 1] IN
           /\ HoldsList(y, <<v>> \o vs) /\ Backed(y) /\ y.allocated = x.allocated
  <1> DEFINE y == [ShiftedUp(x) EXCEPT !.slots[1] = v, !.length = @ + 1]
             r == [i \in DOMAIN x.slots |-> IF i = 1 THEN Raw
                                            ELSE IF i <= x.length + 1 THEN x.slots[i - 1]
                                            ELSE x.slots[i]]
             t == [r EXCEPT ![1] = v]
             m == x.allocated
             us == <<v>> \o vs
  <1>1. /\ x.slots \in Seq(Slots) /\ x.length \in Nat /\ m \in Nat
        /\ x \in ListRecords
        /\ x.length < m /\ Len(x.slots) = m
        /\ DOMAIN x.slots = 1 .. m
        /\ v \in Slots /\ Raw \in Slots
    BY DEF HoldsList, Slots, Backed, ListRecords
  <1>3. r \in [1 .. m -> Slots]
    <2>1. \A i \in 1 .. m : i # 1 => i - 1 \in 1 .. m
      BY <1>1
    <2>2. \A i \in 1 .. m : x.slots[i] \in Slots
      BY <1>1
    <2>3. QED
      BY <1>1, <2>1, <2>2
  <1>4. t \in [1 .. m -> Slots]
    BY <1>1, <1>3
  <1>5. t \in Seq(Slots) /\ Len(t) = m
    BY <1>1, <1>4, SequenceOf
  <1>6. /\ vs \in Seq(ListObjects) /\ Len(vs) = x.length
        /\ \A k \in 1 .. m : x.slots[k] = IF k <= x.length THEN vs[k] ELSE Raw
    BY <1>1 DEF HoldsList, ListRecords
  <1>7. /\ us \in Seq(ListObjects) /\ Len(us) = x.length + 1 /\ us[1] = v
        /\ \A k \in 2 .. x.length + 1 : us[k] = vs[k - 1]
    BY <1>1, <1>6
  <1>8. \A k \in 1 .. m : t[k] = IF k <= x.length + 1 THEN us[k] ELSE Raw
    <2> TAKE k \in 1 .. m
    <2>1. t[k] = IF k = 1 THEN v ELSE r[k]
      BY <1>1, <1>3
    <2>2. k # 1 => r[k] = IF k <= x.length + 1 THEN x.slots[k - 1] ELSE x.slots[k]
      BY <1>1
    <2>3. k # 1 => k - 1 \in 1 .. m
      BY <1>1
    <2>4. k # 1 /\ k <= x.length + 1 => x.slots[k - 1] = vs[k - 1] /\ us[k] = vs[k - 1]
      BY <1>1, <1>6, <1>7, <2>3
    <2>5. k > x.length + 1 => x.slots[k] = Raw
      BY <1>1, <1>6
    <2> HIDE DEF t, us, r
    <2>6. QED
      BY <1>1, <1>7, <2>1, <2>2, <2>4, <2>5
  <1>9. x.length + 1 \in Nat /\ x.length + 1 <= m
    BY <1>1
  <1> DEFINE z == OtherSlots(x, r)
  <1>10. y = [z EXCEPT !.slots[1] = v, !.length = @ + 1]
    BY DEF ShiftedUp, OtherSlots
  <1>11. r \in Seq(Slots)
    BY <1>1, <1>3, SequenceOf
  <1> HIDE DEF us, y, r
  <1>14. z \in ListRecords /\ z.slots = r /\ z.length = x.length /\ z.allocated = m
    BY <1>1, <1>11, SlotsFields
  <1> HIDE DEF z
  <1>15. y = OtherLength(z, t, x.length + 1)
    BY <1>10, <1>14 DEF ListRecords, OtherLength
  <1> HIDE DEF t
  <1>16. /\ y \in ListRecords
         /\ y.slots = t /\ y.length = x.length + 1 /\ y.allocated = m
    BY <1>5, <1>9, <1>14, <1>15, LengthFields
  <1>12. HoldsList(y, us) /\ Backed(y)
    BY <1>5, <1>7, <1>8, <1>9, <1>16 DEF HoldsList, Backed
  <1>13. QED
    BY <1>12, <1>16 DEF y, us

\* Fresh memory
LEMMA FreshListFacts ==
    ASSUME NEW n \in Nat
    PROVE  LET x == [slots |-> Raws(n), length |-> 0, allocated |-> n] IN
           HoldsList(x, <<>>) /\ Backed(x)
  <1> DEFINE x == [slots |-> Raws(n), length |-> 0, allocated |-> n]
  <1>1. /\ x.slots \in Seq(Slots) /\ Len(x.slots) = n /\ \A i \in 1 .. n : x.slots[i] = Raw
        /\ x.length = 0 /\ x.allocated = n
        /\ x \in ListRecords
    BY RawFacts DEF ListRecords
  <1>2. <<>> \in Seq(ListObjects) /\ Len(<<>>) = 0
    OBVIOUS
  <1> HIDE DEF x
  <1>3. HoldsList(x, <<>>) /\ Backed(x)
    BY <1>1, <1>2 DEF HoldsList, Backed
  <1>4. QED
    BY <1>3 DEF x

\* There is room for one more, and for as many as are added.
LEMMA RoomFacts ==
    ASSUME NEW x, NEW vs, HoldsList(x, vs), Backed(x), NEW count \in Nat
    PROVE  /\ HoldsList(RoomForOne(x), vs) /\ Backed(RoomForOne(x))
           /\ RoomForOne(x).length = x.length /\ x.length < RoomForOne(x).allocated
           /\ HoldsList(RoomFor(x, count), vs) /\ Backed(RoomFor(x, count))
           /\ RoomFor(x, count).length = x.length
           /\ x.length + count <= RoomFor(x, count).allocated
  <1>1. /\ x.length \in Nat /\ x.allocated \in Nat /\ x.length <= x.allocated
    BY DEF HoldsList, Backed, ListRecords
  <1>2. /\ HoldsList(RoomForOne(x), vs) /\ Backed(RoomForOne(x))
        /\ RoomForOne(x).length = x.length /\ x.length < RoomForOne(x).allocated
    <2> DEFINE size == IF x.allocated = 0 THEN FirstAllocated ELSE x.allocated * 2
    <2>1. size \in Nat /\ size > x.allocated
      BY <1>1, ArrayAssumption
    <2> HIDE DEF size
    <2> DEFINE y == Prepared(x, size)
    <2>2. /\ HoldsList(y, vs) /\ Backed(y) /\ y.length = x.length /\ y.allocated >= size
      BY <2>1, PreparedFacts
    <2>3. y.allocated \in Nat
      BY <2>2 DEF HoldsList, ListRecords
    <2>4. RoomForOne(x) = IF x.length = x.allocated THEN y ELSE x
      BY DEF RoomForOne, size
    <2> HIDE DEF y
    <2>5. QED
      BY <1>1, <2>1, <2>2, <2>3, <2>4
  <1>3. /\ HoldsList(RoomFor(x, count), vs) /\ Backed(RoomFor(x, count))
        /\ RoomFor(x, count).length = x.length
        /\ x.length + count <= RoomFor(x, count).allocated
    <2> DEFINE more == (count \div Portion + 1) * Portion
               size == x.allocated * 2 + more
    <2>1. more \in Nat /\ more >= count
      <3>1. count % Portion \in 0 .. Portion - 1 /\ count \div Portion \in Nat
            /\ count = (count \div Portion) * Portion + (count % Portion)
        BY ArrayAssumption
      <3> DEFINE q == count \div Portion
      <3>2. (q + 1) * Portion = q * Portion + Portion
        BY <3>1, ArrayAssumption
      <3> HIDE DEF q
      <3>3. QED
        BY <3>1, <3>2, ArrayAssumption DEF q
    <2> HIDE DEF more
    <2>2. size \in Nat /\ size >= x.length + count
      BY <1>1, <2>1
    <2> HIDE DEF size
    <2> DEFINE y == Prepared(x, size)
    <2>3. /\ HoldsList(y, vs) /\ Backed(y) /\ y.length = x.length /\ y.allocated >= size
      BY <2>2, PreparedFacts
    <2>4. y.allocated \in Nat
      BY <2>3 DEF HoldsList, ListRecords
    <2>5. RoomFor(x, count) = IF x.length + count > x.allocated THEN y ELSE x
      BY DEF RoomFor, size, more
    <2> HIDE DEF y
    <2>6. QED
      BY <1>1, <2>2, <2>3, <2>4, <2>5
  <1>4. QED
    BY <1>2, <1>3

\* One list: its memory, or none, and what it stands for
ArrayOne(x, vs) ==
    HoldsList(x, vs) /\ Len(x.slots) \in {0, x.allocated} /\ x.allocated <= MaxAllocated

\* All lists
ArrayInv ==
    /\ arrayList \in [ArrayLists -> ListRecords]
    /\ sequence \in [ArrayLists -> Seq(ListObjects)]
    /\ \A a \in ArrayLists : ArrayOne(arrayList[a], sequence[a])

\* What a list is when it has memory
LEMMA SoundFacts ==
    ASSUME ArrayInv, NEW a \in ArrayLists, Sound(a)
    PROVE  /\ HoldsList(arrayList[a], sequence[a]) /\ Backed(arrayList[a])
           /\ Len(sequence[a]) = arrayList[a].length /\ arrayList[a].length \in Nat
           /\ sequence[a] \in Seq(ListObjects)
  BY DEF ArrayInv, ArrayOne, Sound, Backed, HoldsList

\* A step that makes one list x, which holds vs
LEMMA TurnsKeeps ==
    ASSUME ArrayInv, NEW a \in ArrayLists, NEW x, NEW vs, HoldsList(x, vs),
           Len(x.slots) \in {0, x.allocated}, Turns(a, x, vs)
    PROVE  ArrayInv'
  <1>1. ArrayOne(x, vs)
    BY DEF ArrayOne, Turns
  <1>2. x \in ListRecords /\ vs \in Seq(ListObjects)
    BY DEF HoldsList, ListRecords
  <1>3. /\ arrayList' \in [ArrayLists -> ListRecords]
        /\ sequence' \in [ArrayLists -> Seq(ListObjects)]
        /\ arrayList'[a] = x /\ sequence'[a] = vs
        /\ \A b \in ArrayLists : b # a => /\ arrayList'[b] = arrayList[b]
                                          /\ sequence'[b] = sequence[b]
    BY <1>2 DEF ArrayInv, Turns
  <1>4. \A b \in ArrayLists : ArrayOne(arrayList'[b], sequence'[b])
    BY <1>1, <1>3 DEF ArrayInv
  <1>5. QED
    BY <1>3, <1>4 DEF ArrayInv

\* The first lists
LEMMA InitArrays == ArrayInit => ArrayInv
  <1> SUFFICES ASSUME ArrayInit PROVE ArrayInv
    OBVIOUS
  <1>1. /\ NoMemory \in ListRecords
        /\ NoMemory.slots = <<>> /\ NoMemory.length = 0 /\ NoMemory.allocated = 0
    BY DEF NoMemory, ListRecords
  <1>2. <<>> \in Seq(ListObjects) /\ Len(<<>>) = 0
    OBVIOUS
  <1>3. ArrayOne(NoMemory, <<>>)
    BY <1>1, <1>2, ArrayAssumption DEF ArrayOne, HoldsList
  <1>4. QED
    BY <1>1, <1>2, <1>3 DEF ArrayInit, ArrayInv

\* addFirst
LEMMA AddFirstKeeps ==
    ASSUME ArrayInv, NEW a \in ArrayLists, NEW v \in Objects, AddFirst(a, v)
    PROVE  ArrayInv'
  <1> DEFINE x == RoomForOne(arrayList[a])
             y == [ShiftedUp(x) EXCEPT !.slots[1] = v, !.length = @ + 1]
  <1>1. Sound(a) /\ Turns(a, y, <<v>> \o sequence[a])
    BY DEF AddFirst
  <1>2. HoldsList(arrayList[a], sequence[a]) /\ Backed(arrayList[a])
    BY <1>1, SoundFacts
  <1>3. HoldsList(x, sequence[a]) /\ Backed(x) /\ x.length < x.allocated
    BY <1>2, RoomFacts
  <1>4. v \in ListObjects
    BY DEF ListObjects
  <1> HIDE DEF x
  <1>5. HoldsList(y, <<v>> \o sequence[a]) /\ Backed(y)
    BY <1>3, <1>4, ShiftedFacts
  <1> HIDE DEF y
  <1>6. QED
    BY <1>1, <1>5, TurnsKeeps DEF Backed

\* Objects are added behind the last, one or many.
LEMMA AddManyKeeps ==
    ASSUME ArrayInv, NEW a \in ArrayLists, NEW v \in Objects, NEW w \in Objects,
           AddItem(a, v) \/ AddMany(a, <<v, w>>)
    PROVE  ArrayInv'
  <1>1. /\ <<v>> \in Seq(ListObjects) /\ Len(<<v>>) = 1
        /\ <<v, w>> \in Seq(ListObjects) /\ Len(<<v, w>>) = 2
    BY DEF ListObjects
  <1>2. HoldsList(arrayList[a], sequence[a]) /\ Backed(arrayList[a])
        /\ sequence[a] \in Seq(ListObjects) /\ arrayList[a].length \in Nat
    BY SoundFacts DEF AddItem, AddMany
  <1>3. CASE AddItem(a, v)
    <2> DEFINE x == RoomForOne(arrayList[a])
    <2>1. HoldsList(x, sequence[a]) /\ Backed(x) /\ x.length + 1 <= x.allocated
      <3>1. HoldsList(x, sequence[a]) /\ Backed(x) /\ x.length < x.allocated
        BY <1>2, RoomFacts
      <3>2. QED
        BY <3>1 DEF HoldsList, ListRecords
    <2>2. Turns(a, Constructed(x, <<v>>), sequence[a] \o <<v>>)
      <3>1. Append(sequence[a], v) = sequence[a] \o <<v>>
        BY <1>2, SMTT(30)
      <3>2. Turns(a, Constructed(x, <<v>>), Append(sequence[a], v))
        BY <1>3 DEF AddItem
      <3>3. QED
        BY <3>1, <3>2
    <2> HIDE DEF x
    <2>3. HoldsList(Constructed(x, <<v>>), sequence[a] \o <<v>>) /\ Backed(Constructed(x, <<v>>))
      BY <1>1, <2>1, ConstructedFacts
    <2>4. QED
      BY <2>2, <2>3, TurnsKeeps DEF Backed
  <1>4. CASE AddMany(a, <<v, w>>)
    <2> DEFINE ws == <<v, w>>
               x == RoomFor(arrayList[a], Len(ws))
    <2>1. HoldsList(x, sequence[a]) /\ Backed(x) /\ x.length + Len(ws) <= x.allocated
      BY <1>1, <1>2, RoomFacts
    <2>2. Turns(a, Constructed(x, ws), sequence[a] \o ws)
      BY <1>4 DEF AddMany
    <2>3. ws \in Seq(ListObjects)
      BY <1>1
    <2> HIDE DEF x, ws
    <2>4. HoldsList(Constructed(x, ws), sequence[a] \o ws) /\ Backed(Constructed(x, ws))
      BY <2>1, <2>3, ConstructedFacts
    <2>5. QED
      BY <2>2, <2>4, TurnsKeeps DEF Backed
  <1>5. QED
    BY <1>3, <1>4

\* The last goes, or its slot's object comes where another went.
LEMMA RemovalKeeps ==
    ASSUME ArrayInv, NEW a \in ArrayLists, NEW i \in Nat,
           PopBack(a) \/ UnorderedRemove(a, i)
    PROVE  ArrayInv'
  <1> DEFINE x == arrayList[a]
             vs == sequence[a]
             n == x.length
             y == Truncated(x, n - 1)
  <1>1. /\ HoldsList(x, vs) /\ Backed(x) /\ Len(vs) = n /\ n \in Nat /\ n > 0
        /\ vs \in Seq(ListObjects)
    BY SoundFacts DEF PopBack, UnorderedRemove
  <1>2. n - 1 \in Nat /\ n - 1 <= n
    BY <1>1
  <1>3. Front(vs) = SubSeq(vs, 1, n - 1)
    BY <1>1 DEF Front
  <1> HIDE DEF n
  <1>4. /\ HoldsList(y, SubSeq(vs, 1, n - 1)) /\ Len(y.slots) = Len(x.slots)
        /\ y.allocated = x.allocated /\ y.length = n - 1
    BY <1>1, <1>2, TruncatedFacts DEF n
  <1>5. HoldsList(y, Front(vs)) /\ Len(y.slots) \in {0, y.allocated}
    BY <1>1, <1>3, <1>4 DEF Backed
  <1>6. CASE PopBack(a)
    BY <1>5, <1>6, TurnsKeeps DEF PopBack, n
  <1>7. CASE UnorderedRemove(a, i)
    <2> DEFINE last == x.slots[n]
               z == [y EXCEPT !.slots[i] = last]
               us == [Front(vs) EXCEPT ![i] = Last(vs)]
    <2>1. i \in 1 .. n /\ Turns(a, IF i <= y.length THEN z ELSE y,
                                IF i = n THEN Front(vs) ELSE us)
      BY <1>7 DEF UnorderedRemove, n
    <2>2. last = vs[n] /\ Last(vs) = vs[n] /\ vs[n] \in ListObjects
      <3>1. n \in 1 .. Len(x.slots)
        BY <1>1 DEF HoldsList, n
      <3>2. last = vs[n]
        BY <1>1, <3>1 DEF HoldsList, n
      <3>3. Last(vs) = vs[n]
        BY <1>1 DEF Last
      <3>4. QED
        BY <1>1, <3>2, <3>3
    <2> HIDE DEF y
    <2>3. CASE i = n
      <3>1. Turns(a, y, Front(vs))
        BY <1>1, <1>4, <2>1, <2>3
      <3>2. QED
        BY <1>5, <3>1, TurnsKeeps
    <2>4. CASE i # n
      <3>1. i \in Nat \ {0} /\ i <= y.length
        BY <1>1, <1>4, <2>1, <2>4
      <3>2. Turns(a, z, us)
        BY <2>1, <2>4, <3>1
      <3>3. HoldsList(z, [Front(vs) EXCEPT ![i] = last]) /\ Len(z.slots) = Len(y.slots)
            /\ z.allocated = y.allocated
        BY <1>5, <2>2, <3>1, ReplacedFacts
      <3>4. HoldsList(z, us) /\ Len(z.slots) \in {0, z.allocated}
        BY <1>5, <2>2, <3>3
      <3> HIDE DEF z, us
      <3>5. QED
        BY <3>2, <3>4, TurnsKeeps
    <2>5. QED
      BY <2>3, <2>4
  <1>8. QED
    BY <1>6, <1>7

\* Objects that default constructors make, or none from n on
LEMMA ResizeKeeps ==
    ASSUME ArrayInv, NEW a \in ArrayLists, NEW n \in Nat, Resize(a, n)
    PROVE  ArrayInv'
  <1> DEFINE x == arrayList[a]
             vs == sequence[a]
             y == IF n > x.allocated THEN Prepared(x, 2 * n) ELSE x
             more == [i \in 1 .. n - x.length |-> Default]
  <1>1. /\ HoldsList(x, vs) /\ Backed(x) /\ Len(vs) = x.length /\ x.length \in Nat
        /\ x.allocated \in Nat
    BY SoundFacts DEF Resize, HoldsList, ListRecords
  <1>2. 2 * n \in Nat
    OBVIOUS
  <1>3. /\ HoldsList(Prepared(x, 2 * n), vs) /\ Backed(Prepared(x, 2 * n))
        /\ Prepared(x, 2 * n).length = x.length /\ Prepared(x, 2 * n).allocated >= 2 * n
    BY <1>1, <1>2, PreparedFacts
  <1>4. HoldsList(y, vs) /\ Backed(y) /\ y.length = x.length /\ y.allocated >= n
    <2>1. Prepared(x, 2 * n).allocated \in Nat
      BY <1>3 DEF HoldsList, ListRecords
    <2> DEFINE z == Prepared(x, 2 * n)
    <2>2. y = IF n > x.allocated THEN z ELSE x
      OBVIOUS
    <2> HIDE DEF z, y
    <2>3. QED
      BY <1>1, <1>3, <2>1, <2>2 DEF z
  <1>5. IF n > x.length THEN Turns(a, Constructed(y, more), vs \o more)
        ELSE Turns(a, Truncated(y, n), SubSeq(vs, 1, n))
    BY DEF Resize
  <1>6. CASE n > x.length
    <2>1. n - x.length \in Nat /\ more \in [1 .. n - x.length -> ListObjects]
      BY <1>1, <1>6 DEF ListObjects
    <2>2. more \in Seq(ListObjects) /\ Len(more) = n - x.length
      BY <2>1, SequenceOf
    <2> HIDE DEF y, more
    <2>3. y.length + Len(more) <= y.allocated
      BY <1>1, <1>4, <2>2, SMTT(30)
    <2>4. HoldsList(Constructed(y, more), vs \o more) /\ Backed(Constructed(y, more))
      BY <1>4, <2>2, <2>3, ConstructedFacts
    <2>5. QED
      BY <1>5, <1>6, <2>4, TurnsKeeps DEF Backed
  <1>7. CASE ~(n > x.length)
    <2> HIDE DEF y, more
    <2>1. n <= y.length
      BY <1>1, <1>4, <1>7
    <2>2. /\ HoldsList(Truncated(y, n), SubSeq(vs, 1, n))
          /\ Len(Truncated(y, n).slots) = Len(y.slots)
          /\ Truncated(y, n).allocated = y.allocated
      BY <1>4, <2>1, TruncatedFacts
    <2>3. QED
      BY <1>4, <1>5, <1>7, <2>2, TurnsKeeps DEF Backed
  <1>8. QED
    BY <1>6, <1>7

\* A slot is set.
LEMMA SetSlotKeeps ==
    ASSUME ArrayInv, NEW a \in ArrayLists, NEW n \in Nat \ {0}, NEW v \in Objects,
           SetSlot(a, n, v)
    PROVE  ArrayInv'
  <1> DEFINE x == arrayList[a]
             vs == sequence[a]
             y == [x EXCEPT !.slots[n] = v]
             us == [vs EXCEPT ![n] = v]
  <1>1. HoldsList(x, vs) /\ Backed(x)
    BY SoundFacts DEF SetSlot
  <1>2. n <= x.length /\ v \in ListObjects /\ Turns(a, y, us)
    BY DEF SetSlot, ListObjects
  <1>3. HoldsList(y, us) /\ Len(y.slots) = Len(x.slots) /\ y.allocated = x.allocated
    BY <1>1, <1>2, ReplacedFacts
  <1> HIDE DEF y, us
  <1>4. QED
    BY <1>1, <1>2, <1>3, TurnsKeeps DEF Backed

\* Room is made, or the list is emptied.
LEMMA ReserveKeeps ==
    ASSUME ArrayInv, NEW a \in ArrayLists, NEW n \in Nat, PrepareArray(a, n) \/ ClearArray(a)
    PROVE  ArrayInv'
  <1> DEFINE x == arrayList[a]
             vs == sequence[a]
  <1>1. /\ HoldsList(x, vs) /\ Backed(x) /\ x.length \in Nat /\ vs \in Seq(ListObjects)
    BY SoundFacts DEF PrepareArray, ClearArray
  <1>2. CASE PrepareArray(a, n)
    <2>1. HoldsList(Prepared(x, n), vs) /\ Backed(Prepared(x, n))
      BY <1>1, PreparedFacts
    <2>2. QED
      BY <1>2, <2>1, TurnsKeeps DEF PrepareArray, Backed
  <1>3. CASE ClearArray(a)
    <2> DEFINE y == Truncated(x, 0)
    <2>1. /\ HoldsList(y, SubSeq(vs, 1, 0)) /\ Len(y.slots) = Len(x.slots)
          /\ y.allocated = x.allocated
      BY <1>1, TruncatedFacts
    <2>2. SubSeq(vs, 1, 0) = <<>>
      BY <1>1
    <2>3. Turns(a, y, <<>>)
      BY <1>3 DEF ClearArray
    <2> HIDE DEF y
    <2>4. QED
      BY <1>1, <2>1, <2>2, <2>3, TurnsKeeps DEF Backed
  <1>4. QED
    BY <1>2, <1>3

\* A list of us in memory of its own, that has room for n
LEMMA CopiedFacts ==
    ASSUME NEW us \in Seq(ListObjects), NEW n \in Nat, Len(us) <= n
    PROVE  LET y == Constructed([slots |-> Raws(n), length |-> 0, allocated |-> n], us) IN
           HoldsList(y, us) /\ Len(y.slots) \in {0, y.allocated}
  <1> DEFINE x == [slots |-> Raws(n), length |-> 0, allocated |-> n]
             y == Constructed(x, us)
  <1>1. HoldsList(x, <<>>) /\ Backed(x)
    BY FreshListFacts
  <1>2. x.length + Len(us) <= x.allocated
    OBVIOUS
  <1>3. <<>> \o us = us
    OBVIOUS
  <1> HIDE DEF x
  <1>4. HoldsList(y, <<>> \o us) /\ Backed(y)
    BY <1>1, <1>2, ConstructedFacts
  <1> HIDE DEF y
  <1>5. HoldsList(y, us) /\ Len(y.slots) \in {0, y.allocated}
    BY <1>3, <1>4 DEF Backed
  <1>6. QED
    BY <1>5 DEF y, x

\* What the slots in use hold is the sequence, whole or in part.
LEMMA PartOfList ==
    ASSUME NEW x, NEW vs, HoldsList(x, vs), NEW i \in Nat, NEW j \in Nat, i <= j, j <= x.length
    PROVE  /\ SubSeq(x.slots, i + 1, j) = SubSeq(vs, i + 1, j)
           /\ SubSeq(vs, i + 1, j) \in Seq(ListObjects)
           /\ Len(SubSeq(vs, i + 1, j)) = j - i
  <1>1. /\ x.slots \in Seq(Slots) /\ x.length \in Nat /\ vs \in Seq(ListObjects)
        /\ Len(vs) = x.length /\ x.length <= Len(x.slots)
        /\ \A k \in 1 .. Len(x.slots) : x.slots[k] = IF k <= x.length THEN vs[k] ELSE Raw
    BY DEF HoldsList, ListRecords
  <1>2. vs \in Seq(Slots)
    BY <1>1 DEF Slots
  <1> DEFINE s == SubSeq(x.slots, i + 1, j)
             t == SubSeq(vs, i + 1, j)
  <1>3. /\ s \in Seq(Slots) /\ Len(s) = j - i
        /\ \A k \in 1 .. j - i : s[k] = x.slots[i + k]
    BY <1>1, PartFacts
  <1>4. /\ t \in Seq(ListObjects) /\ t \in Seq(Slots) /\ Len(t) = j - i
        /\ \A k \in 1 .. j - i : t[k] = vs[i + k]
    BY <1>1, <1>2, PartFacts
  <1>5. \A k \in 1 .. j - i : x.slots[i + k] = vs[i + k]
    <2>1. \A k \in 1 .. j - i : i + k \in 1 .. Len(x.slots) /\ i + k <= x.length
      BY <1>1
    <2>2. QED
      BY <1>1, <2>1
  <1> HIDE DEF s, t
  <1>6. s = t
    BY <1>3, <1>4, <1>5, SameSequence
  <1>7. QED
    BY <1>4, <1>6 DEF s, t

\* The whole
LEMMA WholeOfList ==
    ASSUME NEW x, NEW vs, HoldsList(x, vs)
    PROVE  SubSeq(x.slots, 1, x.length) = vs
  <1>1. /\ x.slots \in Seq(Slots) /\ x.length \in Nat /\ vs \in Seq(ListObjects)
        /\ Len(vs) = x.length /\ x.length <= Len(x.slots)
        /\ \A k \in 1 .. Len(x.slots) : x.slots[k] = IF k <= x.length THEN vs[k] ELSE Raw
    BY DEF HoldsList, ListRecords
  <1>2. vs \in Seq(Slots)
    BY <1>1 DEF Slots
  <1> DEFINE s == SubSeq(x.slots, 1, x.length)
  <1>3. /\ s \in Seq(Slots) /\ Len(s) = x.length
        /\ \A k \in 1 .. x.length : s[k] = x.slots[k]
    BY <1>1
  <1> HIDE DEF s
  <1>4. \A k \in 1 .. Len(s) : s[k] = vs[k]
    <2>1. \A k \in 1 .. x.length : k \in 1 .. Len(x.slots) /\ k <= x.length
      BY <1>1
    <2>2. QED
      BY <1>1, <1>3, <2>1
  <1>5. QED
    BY <1>1, <1>2, <1>3, <1>4, SameSequence DEF s

\* A copy of the whole, of a part, and a move
LEMMA CopyArrayKeeps ==
    ASSUME ArrayInv, NEW a \in ArrayLists, NEW b \in ArrayLists, CopyArray(a, b)
    PROVE  ArrayInv'
  <1> DEFINE x == arrayList[b]
             vs == sequence[b]
             part == SubSeq(x.slots, 1, x.length)
             n == x.allocated
  <1>1. /\ HoldsList(x, vs) /\ Backed(x) /\ Len(vs) = x.length /\ x.length \in Nat
        /\ vs \in Seq(ListObjects)
    BY SoundFacts DEF CopyArray
  <1>2. part = vs
    BY <1>1, WholeOfList
  <1>3. n \in Nat /\ x.length <= n
    BY <1>1 DEF HoldsList, Backed, ListRecords
  <1> DEFINE y == Constructed([slots |-> Raws(n), length |-> 0, allocated |-> n], part)
  <1>4. Turns(a, y, vs)
    BY DEF CopyArray, CopyOf
  <1>5. part \in Seq(ListObjects) /\ Len(part) <= n
    BY <1>1, <1>2, <1>3
  <1> HIDE DEF n, part
  <1>6. HoldsList(y, part) /\ Len(y.slots) \in {0, y.allocated}
    BY <1>3, <1>5, CopiedFacts
  <1> HIDE DEF y
  <1>7. QED
    BY <1>2, <1>4, <1>6, TurnsKeeps

\* From where to where is in the list, both ends counted from the end when negative.
LEMMA SubscriptKeeps ==
    ASSUME ArrayInv, NEW a \in ArrayLists, NEW b \in ArrayLists,
           NEW i \in Int, NEW j \in Int, Subscript(b, a, i, j)
    PROVE  ArrayInv'
  <1> DEFINE x == arrayList[a]
             vs == sequence[a]
             from == IF i < 0 THEN i + x.length ELSE i
             to == IF j <= 0 THEN j + x.length ELSE j
             part == SubSeq(x.slots, from + 1, to)
             n == Len(part)
  <1>1. /\ HoldsList(x, vs) /\ Backed(x) /\ Len(vs) = x.length /\ x.length \in Nat
    BY SoundFacts DEF Subscript
  <1>2. from \in Nat /\ to \in Nat /\ from <= to /\ to <= x.length
    BY <1>1 DEF Subscript
  <1> DEFINE y == Constructed([slots |-> Raws(n), length |-> 0, allocated |-> n], part)
  <1>3. Turns(b, y, SubSeq(vs, from + 1, to))
    BY DEF Subscript
  <1> HIDE DEF from, to
  <1> HIDE DEF x, vs
  <1>4. /\ SubSeq(x.slots, from + 1, to) = SubSeq(vs, from + 1, to)
        /\ SubSeq(vs, from + 1, to) \in Seq(ListObjects)
        /\ Len(SubSeq(vs, from + 1, to)) = to - from
    BY <1>1, <1>2, PartOfList
  <1>5. /\ part = SubSeq(vs, from + 1, to) /\ part \in Seq(ListObjects) /\ n = to - from
    BY <1>4
  <1>6. n \in Nat /\ Len(part) <= n
    BY <1>2, <1>5
  <1> DEFINE us == SubSeq(vs, from + 1, to)
  <1> HIDE DEF n, part
  <1>7. HoldsList(y, part) /\ Len(y.slots) \in {0, y.allocated}
    BY <1>5, <1>6, CopiedFacts
  <1> HIDE DEF y, us
  <1>8. Turns(b, y, part)
    BY <1>3, <1>5
  <1>9. QED
    BY <1>7, <1>8, TurnsKeeps

\* A move takes the memory; what is left has none.
LEMMA MoveArrayKeeps ==
    ASSUME ArrayInv, NEW a \in ArrayLists, NEW b \in ArrayLists, MoveArray(a, b)
    PROVE  ArrayInv'
  <1> DEFINE R == ListRecords
             x == arrayList[b]
             y == [x EXCEPT !.slots = <<>>, !.length = 0]
  <1>1. a # b /\ x \in R /\ ArrayOne(x, sequence[b])
        /\ sequence \in [ArrayLists -> Seq(ListObjects)]
        /\ arrayList \in [ArrayLists -> R]
    BY DEF ArrayInv, MoveArray
  <1>2. <<>> \in Seq(Slots) /\ <<>> \in Seq(ListObjects) /\ Len(<<>>) = 0
    OBVIOUS
  <1>3. y \in R /\ y.slots = <<>> /\ y.length = 0 /\ y.allocated = x.allocated
    <2>1. y = OtherLength(x, <<>>, 0)
      BY DEF OtherLength
    <2> HIDE DEF y, x
    <2>2. QED
      <3>1. x \in ListRecords /\ <<>> \in Seq(Slots) /\ 0 \in Nat
        BY <1>1, <1>2 DEF R
      <3>2. /\ OtherLength(x, <<>>, 0) \in ListRecords
            /\ OtherLength(x, <<>>, 0).slots = <<>>
            /\ OtherLength(x, <<>>, 0).length = 0
            /\ OtherLength(x, <<>>, 0).allocated = x.allocated
        BY <3>1, LengthFields, ZenonT(60)
      <3>3. QED
        BY <2>1, <3>2 DEF R
  <1>4. ArrayOne(y, <<>>)
    BY <1>1, <1>2, <1>3 DEF ArrayOne, HoldsList
  <1>5. /\ arrayList' = [arrayList EXCEPT ![a] = x, ![b] = y]
        /\ sequence' = [sequence EXCEPT ![a] = sequence[b], ![b] = <<>>]
    BY <1>1 DEF MoveArray
  <1>6. sequence[b] \in Seq(ListObjects)
    BY <1>1
  <1> HIDE DEF R, x, y
  <1>7. /\ arrayList' \in [ArrayLists -> R] /\ sequence' \in [ArrayLists -> Seq(ListObjects)]
        /\ arrayList'[a] = x /\ sequence'[a] = sequence[b]
        /\ arrayList'[b] = y /\ sequence'[b] = <<>>
        /\ \A c \in ArrayLists : c # a /\ c # b => /\ arrayList'[c] = arrayList[c]
                                                   /\ sequence'[c] = sequence[c]
    BY <1>1, <1>2, <1>3, <1>5, <1>6
  <1>8. \A c \in ArrayLists : ArrayOne(arrayList'[c], sequence'[c])
    BY <1>1, <1>4, <1>7 DEF ArrayInv
  <1>9. QED
    BY <1>7, <1>8 DEF ArrayInv, R

\* Every step
LEMMA ArrayStep == ArrayInv /\ [ArrayNext]_arrayVars => ArrayInv'
  <1> SUFFICES ASSUME ArrayInv, [ArrayNext]_arrayVars PROVE ArrayInv'
    OBVIOUS
  <1>1. CASE UNCHANGED arrayVars
    BY <1>1 DEF arrayVars, ArrayInv
  <1>2. CASE ArrayNext
    <2>1. PICK a \in ArrayLists :
            \/ \E v \in Objects : \/ AddItem(a, v) \/ AddFirst(a, v)
                                  \/ \E w \in Objects : AddMany(a, <<v, w>>)
                                  \/ \E i \in 1 .. MaxAllocated : SetSlot(a, i, v)
            \/ PopBack(a) \/ ClearArray(a)
            \/ \E i \in 0 .. MaxAllocated :
                  UnorderedRemove(a, i) \/ Resize(a, i) \/ PrepareArray(a, i)
            \/ \E b \in ArrayLists : \/ CopyArray(a, b) \/ MoveArray(a, b)
                                     \/ \E i, j \in -2 .. 2 : Subscript(a, b, i, j)
      BY <1>2 DEF ArrayNext
    <2>2. CASE \E v \in Objects : \/ AddItem(a, v) \/ AddFirst(a, v)
                                  \/ \E w \in Objects : AddMany(a, <<v, w>>)
      BY <2>2, AddManyKeeps, AddFirstKeeps
    <2>3. CASE \E v \in Objects : \E i \in 1 .. MaxAllocated : SetSlot(a, i, v)
      <3>1. \A i \in 1 .. MaxAllocated : i \in Nat \ {0}
        BY ArrayAssumption
      <3>2. QED
        BY <2>3, <3>1, SetSlotKeeps
    <2>4. CASE PopBack(a)
      BY <2>4, RemovalKeeps
    <2>5. CASE ClearArray(a)
      BY <2>5, ReserveKeeps
    <2>6. CASE \E i \in 0 .. MaxAllocated :
                  UnorderedRemove(a, i) \/ Resize(a, i) \/ PrepareArray(a, i)
      <3>1. \A i \in 0 .. MaxAllocated : i \in Nat
        BY ArrayAssumption
      <3>2. QED
        BY <2>6, <3>1, RemovalKeeps, ResizeKeeps, ReserveKeeps
    <2>7. CASE \E b \in ArrayLists : CopyArray(a, b) \/ MoveArray(a, b)
      BY <2>7, CopyArrayKeeps, MoveArrayKeeps
    <2>8. CASE \E b \in ArrayLists : \E i, j \in -2 .. 2 : Subscript(a, b, i, j)
      BY <2>8, SubscriptKeeps
    <2>9. QED
      BY <2>1, <2>2, <2>3, <2>4, <2>5, <2>6, <2>7, <2>8
  <1>3. QED
    BY <1>1, <1>2

\* What the invariant says
LEMMA ArrayInvFacts == ArrayInv => ArrayTypeOK /\ ArrayListRight
  <1> SUFFICES ASSUME ArrayInv, NEW a \in ArrayLists
               PROVE  /\ arrayList[a].slots \in Seq(Objects \cup {Default, Raw})
                      /\ arrayList[a].allocated \in 0 .. MaxAllocated
                      /\ arrayList[a].length \in 0 .. arrayList[a].allocated
                      /\ SubSeq(arrayList[a].slots, 1, arrayList[a].length) = sequence[a]
                      /\ \A i \in arrayList[a].length + 1 .. Len(arrayList[a].slots) :
                            arrayList[a].slots[i] = Raw
                      /\ Len(arrayList[a].slots) \in {0, arrayList[a].allocated}
    BY DEF ArrayTypeOK, ArrayListRight
  <1> DEFINE x == arrayList[a]
             vs == sequence[a]
  <1>1. HoldsList(x, vs) /\ Len(x.slots) \in {0, x.allocated} /\ x.allocated <= MaxAllocated
    BY DEF ArrayInv, ArrayOne
  <1>2. /\ x.slots \in Seq(Slots) /\ x.length \in Nat /\ x.allocated \in Nat
        /\ vs \in Seq(ListObjects) /\ Len(vs) = x.length /\ x.length <= Len(x.slots)
        /\ \A i \in 1 .. Len(x.slots) : x.slots[i] = IF i <= x.length THEN vs[i] ELSE Raw
    BY <1>1 DEF HoldsList, ListRecords
  <1>3. Slots = Objects \cup {Default, Raw}
    BY DEF Slots, ListObjects
  <1>4. SubSeq(x.slots, 1, x.length) = vs
    BY <1>1, WholeOfList
  <1>5. \A i \in x.length + 1 .. Len(x.slots) : x.slots[i] = Raw
    BY <1>2
  <1>6. x.allocated \in 0 .. MaxAllocated /\ x.length \in 0 .. x.allocated
    BY <1>1, <1>2, ArrayAssumption
  <1>7. QED
    BY <1>1, <1>2, <1>3, <1>4, <1>5, <1>6

\* ArrayList: the slots in use hold the sequence that the calls add up to and all others
\* hold no object, whatever moves, grows, shrinks or is copied.
THEOREM ArrayListsAreRight == ArraySpec => [](ArrayTypeOK /\ ArrayListRight)
  <1>1. QED
    BY InitArrays, ArrayStep, ArrayInvFacts, PTL DEF ArraySpec

----------------------------------------------------------------------------
(* ArraySet *)

\* What a function gives that is applied again and again
Iterated(V, first, step, f) ==
    f \in [Nat -> V] /\ \A k \in Nat : f[k] = IF k = 0 THEN first ELSE step[f[k - 1]]

\* There is what it gives.
LEMMA Iterates ==
    ASSUME NEW V, NEW first, first \in V, NEW step, step \in [V -> V]
    PROVE  \E f : Iterated(V, first, step, f)
  <1> DEFINE steps == [k \in Nat |-> step]
  <1>1. StepsIn(V, steps) /\ \A k \in Nat : steps[k] = step
    BY DEF StepsIn
  <1> HIDE DEF steps
  <1>2. PICK f : Follows(V, first, steps, f)
    BY <1>1, Recursion
  <1>3. f \in [Nat -> V] /\ \A k \in Nat : f[k] = Value(first, steps, f, k)
    BY <1>2 DEF Follows
  <1>4. \A k \in Nat : f[k] = IF k = 0 THEN first ELSE step[f[k - 1]]
    BY <1>1, <1>3 DEF Value
  <1>5. QED
    BY <1>3, <1>4 DEF Iterated

\* Items of a sequence
ItemsOf(e) == {e[k] : k \in DOMAIN e}

\* Every item is less than those behind it.
Rising(e) == \A i, j \in 1 .. Len(e) : i < j => e[i] < e[j]

\* What the search is about
SearchStates == [low : Int, high : Int, result : Int]

\* A state with other ends
OtherLow(s, a) == [s EXCEPT !.low = a, !.result = a]
OtherHigh(s, a) == [s EXCEPT !.high = a]

\* What becomes of the fields
LEMMA EndsFields ==
    ASSUME NEW s \in SearchStates, NEW a \in Int
    PROVE  /\ OtherLow(s, a) \in SearchStates
           /\ OtherLow(s, a).low = a
           /\ OtherLow(s, a).high = s.high
           /\ OtherLow(s, a).result = a
           /\ OtherHigh(s, a) \in SearchStates
           /\ OtherHigh(s, a).low = s.low
           /\ OtherHigh(s, a).high = a
           /\ OtherHigh(s, a).result = s.result
  BY DEF SearchStates, OtherLow, OtherHigh

\* How the search is defined
SearchFirst(e) == [low |-> 0, high |-> Len(e) - 1, result |-> 0]
LEMMA SearchEquation ==
    ASSUME NEW e, Len(e) \in Nat, NEW q
    PROVE  /\ SearchRounds(e, q)[0] = SearchFirst(e)
           /\ \A k \in Nat : SearchRounds(e, q)[k + 1] = SearchRound(e, q, SearchRounds(e, q)[k])
  <1> DEFINE V == SearchStates
             step == [s \in V |-> SearchRound(e, q, s)]
             Def(f) == f = [k \in Nat |-> IF k = 0 THEN SearchFirst(e)
                                          ELSE SearchRound(e, q, f[k - 1])]
             R == SearchRounds(e, q)
  <1>1. SearchFirst(e) \in V
    BY DEF SearchFirst, SearchStates
  <1>2. ASSUME NEW s \in V PROVE SearchRound(e, q, s) \in V
    <2> DEFINE mid == s.low + (s.high - s.low) \div 2
    <2>1. s.low \in Int /\ s.high \in Int /\ s.result \in Int
      BY DEF SearchStates
    <2>2. mid \in Int
      BY <2>1
    <2> HIDE DEF mid
    <2>3. /\ [low |-> mid, high |-> mid - 1, result |-> mid] \in V
          /\ [s EXCEPT !.low = mid + 1, !.result = mid + 1] \in V
          /\ [s EXCEPT !.high = mid - 1] \in V
      <3>1. mid - 1 \in Int /\ mid + 1 \in Int
        BY <2>2
      <3>2. QED
        BY <2>2, <3>1, EndsFields DEF SearchStates, OtherLow, OtherHigh
    <2> HIDE DEF V
    <2>4. QED
      BY <2>3 DEF SearchRound, mid
  <1>3. step \in [V -> V] /\ \A s \in V : step[s] = SearchRound(e, q, s)
    BY <1>2
  <1> HIDE DEF step, V
  <1>4. PICK f : Iterated(V, SearchFirst(e), step, f)
    BY <1>1, <1>3, Iterates
  <1>5. \A k \in Nat : f[k] = IF k = 0 THEN SearchFirst(e) ELSE SearchRound(e, q, f[k - 1])
    <2>1. \A k \in Nat : k # 0 => k - 1 \in Nat
      OBVIOUS
    <2>2. QED
      BY <1>3, <1>4, <2>1 DEF Iterated
  <1>6. f = [k \in Nat |-> f[k]]
    BY <1>4 DEF Iterated
  <1>7. Def(f)
    BY <1>5, <1>6
  <1>8. R = CHOOSE s : Def(s)
    BY DEF SearchRounds, SearchFirst
  <1>9. Def(R)
    BY <1>7, <1>8
  <1> HIDE DEF R
  <1>10. \A h : h = [k \in Nat |-> IF k = 0 THEN SearchFirst(e) ELSE SearchRound(e, q, R[k - 1])]
            => \A k \in Nat : h[k] = IF k = 0 THEN SearchFirst(e) ELSE SearchRound(e, q, R[k - 1])
    OBVIOUS
  <1>11. \A k \in Nat : R[k] = IF k = 0 THEN SearchFirst(e) ELSE SearchRound(e, q, R[k - 1])
    BY <1>9, <1>10
  <1>12. \A k \in Nat : k + 1 \in Nat /\ k + 1 # 0 /\ (k + 1) - 1 = k
    OBVIOUS
  <1>13. QED
    BY <1>11, <1>12 DEF R

\* What the loop keeps: what is before low is less than the query, what is behind high is
\* not, and every round takes one place at least from between.
SearchedBetween(e, q, k, low, high) ==
    /\ low \in 0 .. Len(e)
    /\ high \in low - 1 .. Len(e) - 1
    /\ low <= high => high - low + 1 <= Len(e) - k
    /\ \A i \in 1 .. low : e[i] < q
    /\ \A i \in high + 2 .. Len(e) : e[i] >= q
SearchedTo(e, q, k, s) ==
    s \in SearchStates /\ s.result = s.low /\ SearchedBetween(e, q, k, s.low, s.high)

\* One round
LEMMA SearchRoundFacts ==
    ASSUME NEW e \in Seq(Numbers), Rising(e), NEW q \in Numbers, NEW k \in Nat, NEW s,
           SearchedTo(e, q, k, s)
    PROVE  SearchedTo(e, q, k + 1, SearchRound(e, q, s))
  <1> DEFINE n == Len(e)
             mid == s.low + (s.high - s.low) \div 2
             t == SearchRound(e, q, s)
  <1>1. /\ s.low \in Int /\ s.high \in Int /\ s.result \in Int /\ s \in SearchStates
        /\ n \in Nat /\ s.low \in 0 .. n /\ s.high \in s.low - 1 .. n - 1 /\ s.result = s.low
        /\ s.low <= s.high => s.high - s.low + 1 <= n - k
        /\ \A i \in 1 .. s.low : e[i] < q
        /\ \A i \in s.high + 2 .. n : e[i] >= q
    BY DEF SearchedTo, SearchedBetween, SearchStates
  <1>2. \A i \in 1 .. n : e[i] \in Int
    <2>1. \A i \in 1 .. n : e[i] \in Numbers
      OBVIOUS
    <2>2. QED
      BY <2>1, NumbersAssumption
  <1>3. q \in Int
    BY NumbersAssumption
  <1>4. CASE s.low > s.high
    <2>1. t = s
      BY <1>4 DEF SearchRound
    <2>2. QED
      <3>1. SearchedBetween(e, q, k + 1, s.low, s.high)
        BY <1>1, <1>4 DEF SearchedBetween
      <3>2. QED
        BY <1>1, <2>1, <3>1 DEF SearchedTo
  <1>5. CASE ~(s.low > s.high)
    <2>1. mid \in s.low .. s.high
      <3> DEFINE h == s.high - s.low
      <3>1. h \in Nat /\ s.low + h = s.high
        BY <1>1, <1>5
      <3> HIDE DEF h
      <3>2. h \div 2 \in Nat /\ h \div 2 <= h
        BY <3>1
      <3>3. mid = s.low + h \div 2
        BY DEF h
      <3> HIDE DEF mid
      <3>4. QED
        BY <1>1, <3>1, <3>2, <3>3, SMTT(30)
    <2> HIDE DEF mid
    <2>2. mid \in Int /\ mid + 1 \in 1 .. n
      BY <1>1, <2>1
    <2>3. t = IF e[mid + 1] = q THEN [low |-> mid, high |-> mid - 1, result |-> mid]
              ELSE IF e[mid + 1] < q THEN [s EXCEPT !.low = mid + 1, !.result = mid + 1]
              ELSE [s EXCEPT !.high = mid - 1]
      BY <1>5 DEF SearchRound, mid
    <2> HIDE DEF t
    <2>4. \A i \in 1 .. mid : e[i] < e[mid + 1]
      <3>1. \A i \in 1 .. mid : i \in 1 .. n /\ i < mid + 1
        BY <2>2
      <3>2. QED
        BY <2>2, <3>1 DEF Rising
    <2>5. \A i \in mid + 2 .. n : e[mid + 1] < e[i]
      <3>1. \A i \in mid + 2 .. n : i \in 1 .. n /\ mid + 1 < i
        BY <2>2
      <3>2. QED
        BY <2>2, <3>1 DEF Rising
    <2>6. CASE e[mid + 1] = q
      <3>1. t = [low |-> mid, high |-> mid - 1, result |-> mid]
        BY <2>3, <2>6
      <3>2. \A i \in 1 .. mid : e[i] < q
        BY <2>4, <2>6
      <3>3. \A i \in mid + 1 .. n : e[i] >= q
        <4> TAKE i \in mid + 1 .. n
        <4>1. i \in 1 .. n /\ (i = mid + 1 \/ i \in mid + 2 .. n)
          BY <2>2
        <4>2. QED
          BY <1>2, <1>3, <2>2, <2>5, <2>6, <4>1
      <3>4. t \in SearchStates
        BY <2>2, <3>1 DEF SearchStates
      <3>5. /\ t.low = mid /\ t.high = mid - 1 /\ t.result = mid
            /\ (mid - 1) + 2 = mid + 1 /\ ~(mid <= mid - 1)
            /\ mid \in 0 .. n /\ mid - 1 \in mid - 1 .. n - 1
        BY <1>1, <2>2, <3>1
      <3>6. QED
        <4>1. \A i \in (mid - 1) + 2 .. n : e[i] >= q
          BY <3>3, <3>5
        <4>2. SearchedBetween(e, q, k + 1, mid, mid - 1)
          BY <3>2, <3>5, <4>1 DEF SearchedBetween
        <4>3. QED
          BY <3>4, <3>5, <4>2 DEF SearchedTo, t
    <2>7. CASE e[mid + 1] # q /\ e[mid + 1] < q
      <3>1. t = OtherLow(s, mid + 1)
        BY <2>3, <2>7 DEF OtherLow
      <3>2. \A i \in 1 .. mid + 1 : e[i] < q
        <4> TAKE i \in 1 .. mid + 1
        <4>1. i \in 1 .. n /\ (i = mid + 1 \/ i \in 1 .. mid)
          BY <2>2
        <4>2. QED
          BY <1>2, <1>3, <2>2, <2>4, <2>7, <4>1
      <3>3. t \in SearchStates /\ t.low = mid + 1 /\ t.high = s.high /\ t.result = mid + 1
        <4>1. mid + 1 \in Int
          BY <2>2
        <4>2. QED
          BY <1>1, <3>1, <4>1, EndsFields
      <3>4. /\ mid + 1 \in 0 .. n /\ s.high \in (mid + 1) - 1 .. n - 1
            /\ mid + 1 <= s.high => s.high - (mid + 1) + 1 <= n - (k + 1)
        BY <1>1, <1>5, <2>1, <2>2, SMTT(30)
      <3>5. QED
        <4>1. SearchedBetween(e, q, k + 1, mid + 1, s.high)
          BY <1>1, <3>2, <3>4 DEF SearchedBetween
        <4>2. QED
          BY <3>3, <4>1 DEF SearchedTo, t
    <2>8. CASE e[mid + 1] # q /\ ~(e[mid + 1] < q)
      <3>1. t = OtherHigh(s, mid - 1)
        BY <2>3, <2>8 DEF OtherHigh
      <3>2. \A i \in mid + 1 .. n : e[i] >= q
        <4> TAKE i \in mid + 1 .. n
        <4>1. i \in 1 .. n /\ (i = mid + 1 \/ i \in mid + 2 .. n)
          BY <2>2
        <4>2. QED
          BY <1>2, <1>3, <2>2, <2>5, <2>8, <4>1
      <3>3. t \in SearchStates /\ t.low = s.low /\ t.high = mid - 1 /\ t.result = s.result
        <4>1. mid - 1 \in Int
          BY <2>2
        <4>2. QED
          BY <1>1, <3>1, <4>1, EndsFields
      <3>4. mid - 1 \in s.low - 1 .. n - 1 /\ (mid - 1) + 2 = mid + 1
        BY <1>1, <2>1, <2>2
      <3>5. s.low <= mid - 1 => (mid - 1) - s.low + 1 <= n - (k + 1)
        BY <1>1, <1>5, <2>1, <2>2, SMTT(30)
      <3>6. QED
        <4>1. \A i \in (mid - 1) + 2 .. n : e[i] >= q
          BY <3>2, <3>4
        <4>2. SearchedBetween(e, q, k + 1, s.low, mid - 1)
          BY <1>1, <3>4, <3>5, <4>1 DEF SearchedBetween
        <4>3. QED
          BY <1>1, <3>3, <4>2 DEF SearchedTo, t
    <2>9. QED
      BY <2>6, <2>7, <2>8 DEF t
  <1>6. QED
    BY <1>4, <1>5

\* Where the search ends
Splits(e, q, r) ==
    /\ r \in 0 .. Len(e)
    /\ \A i \in 1 .. r : e[i] < q
    /\ \A i \in r + 1 .. Len(e) : e[i] >= q

\* It ends between what is less than the query and what is not.
LEMMA NearestFacts ==
    ASSUME NEW e \in Seq(Numbers), Rising(e), NEW q \in Numbers
    PROVE  Splits(e, q, NearestIndex(e, q))
  <1> DEFINE R == SearchRounds(e, q)
             T == {k \in Nat : SearchedTo(e, q, k, R[k])}
             n == Len(e)
  <1>1. n \in Nat
    OBVIOUS
  <1>2. R[0] = SearchFirst(e) /\ \A k \in Nat : R[k + 1] = SearchRound(e, q, R[k])
    BY <1>1, SearchEquation
  <1> HIDE DEF R
  <1>3. 0 \in T
    <2> DEFINE s == SearchFirst(e)
    <2>1. /\ s \in SearchStates /\ s.low = 0 /\ s.high = n - 1 /\ s.result = 0
      BY <1>1 DEF SearchFirst, SearchStates
    <2> HIDE DEF s
    <2>2. SearchedTo(e, q, 0, s)
      <3>1. SearchedBetween(e, q, 0, 0, n - 1)
        BY <1>1 DEF SearchedBetween
      <3>2. QED
        BY <2>1, <3>1 DEF SearchedTo
    <2>3. QED
      BY <1>2, <2>2 DEF s
  <1>4. ASSUME NEW k \in Nat, k \in T PROVE k + 1 \in T
    BY <1>2, <1>4, SearchRoundFacts
  <1> HIDE DEF T
  <1>5. Nat \subseteq T
    BY <1>3, <1>4, CountingUp
  <1>6. SearchedTo(e, q, n, R[n])
    BY <1>1, <1>5 DEF T
  <1> DEFINE s == R[n]
  <1>7. NearestIndex(e, q) = s.result
    BY DEF NearestIndex, R
  <1> HIDE DEF s
  <1>8. SearchedTo(e, q, n, s)
    BY <1>6 DEF s
  <1>9. /\ s.low \in 0 .. n /\ s.result = s.low /\ s.high \in s.low - 1 .. n - 1
        /\ s.low <= s.high => s.high - s.low + 1 <= n - n
        /\ \A i \in 1 .. s.low : e[i] < q
        /\ \A i \in s.high + 2 .. n : e[i] >= q
    BY <1>8 DEF SearchedTo, SearchedBetween
  <1>10. s.high = s.low - 1 /\ s.high + 2 = s.low + 1
    BY <1>1, <1>9
  <1>11. QED
    BY <1>7, <1>9, <1>10 DEF Splits

\* The search finds what is there and nothing else.
LEMMA FoundItems ==
    ASSUME NEW e \in Seq(Numbers), Rising(e), NEW q \in Numbers
    PROVE  Found(e, q) <=> q \in ItemsOf(e)
  <1> DEFINE r == NearestIndex(e, q)
             n == Len(e)
  <1>1. n \in Nat /\ DOMAIN e = 1 .. n /\ q \in Int /\ \A i \in 1 .. n : e[i] \in Int
    <2>1. n \in Nat /\ DOMAIN e = 1 .. n /\ \A i \in 1 .. n : e[i] \in Numbers
      OBVIOUS
    <2>2. QED
      BY <2>1, NumbersAssumption
  <1>2. /\ r \in 0 .. n /\ \A i \in 1 .. r : e[i] < q
        /\ \A i \in r + 1 .. n : e[i] >= q
    BY NearestFacts DEF Splits
  <1>3. Found(e, q) <=> r < n /\ e[r + 1] = q
    BY DEF Found
  <1> HIDE DEF r
  <1>4. ASSUME r < n, e[r + 1] = q PROVE q \in ItemsOf(e)
    <2>1. r + 1 \in DOMAIN e
      BY <1>1, <1>2, <1>4
    <2>2. QED
      BY <1>4, <2>1 DEF ItemsOf
  <1>5. ASSUME q \in ItemsOf(e) PROVE r < n /\ e[r + 1] = q
    <2>1. PICK k \in 1 .. n : e[k] = q
      BY <1>1, <1>5 DEF ItemsOf
    <2>2. ~(k \in 1 .. r)
      BY <1>1, <1>2, <2>1
    <2>3. r < n /\ r + 1 \in 1 .. n /\ k >= r + 1
      BY <1>1, <1>2, <2>2
    <2>4. e[r + 1] >= q
      BY <1>2, <2>3
    <2>5. k = r + 1 \/ e[r + 1] < e[k]
      BY <2>3 DEF Rising
    <2>6. QED
      BY <1>1, <2>1, <2>3, <2>4, <2>5
  <1>6. QED
    BY <1>3, <1>4, <1>5

\* Rising sequences
InOrder == {e \in Seq(Numbers) : Rising(e)}

\* Their items are numbers.
LEMMA InOrderFacts ==
    ASSUME NEW e \in InOrder
    PROVE  /\ e \in Seq(Numbers) /\ Rising(e) /\ Len(e) \in Nat /\ DOMAIN e = 1 .. Len(e)
           /\ \A i \in 1 .. Len(e) : e[i] \in Numbers /\ e[i] \in Int
  <1>1. /\ e \in Seq(Numbers) /\ Rising(e) /\ Len(e) \in Nat /\ DOMAIN e = 1 .. Len(e)
        /\ \A i \in 1 .. Len(e) : e[i] \in Numbers
    BY DEF InOrder
  <1>2. QED
    BY <1>1, NumbersAssumption

\* What is put between what is less and what is greater leaves the order.
LEMMA InsertedFacts ==
    ASSUME NEW e \in InOrder, NEW v \in Numbers, v \notin ItemsOf(e), NEW r, Splits(e, v, r)
    PROVE  Inserted(e, r, v) \in InOrder /\ ItemsOf(Inserted(e, r, v)) = ItemsOf(e) \cup {v}
  <1> DEFINE n == Len(e)
             a == SubSeq(e, 1, r)
             b == SubSeq(e, r + 1, n)
             c == a \o <<v>>
             f == Inserted(e, r, v)
  <1>1. /\ e \in Seq(Numbers) /\ Rising(e) /\ n \in Nat /\ DOMAIN e = 1 .. n
        /\ \A i \in 1 .. n : e[i] \in Numbers /\ e[i] \in Int
        /\ v \in Int
    BY InOrderFacts, NumbersAssumption
  <1>2. /\ r \in Nat /\ r <= n
        /\ \A i \in 1 .. r : e[i] < v
        /\ \A i \in r + 1 .. n : e[i] >= v
    BY <1>1 DEF Splits
  <1>3. a \in Seq(Numbers) /\ Len(a) = r /\ \A k \in 1 .. r : a[k] = e[k]
    BY <1>1, <1>2
  <1>4. /\ b \in Seq(Numbers) /\ Len(b) = n - r
        /\ \A k \in 1 .. n - r : b[k] = e[r + k]
    <2>1. e \in Seq(Numbers) /\ n \in Nat /\ r \in Nat /\ r <= n /\ n <= Len(e)
      BY <1>1, <1>2
    <2> HIDE DEF n
    <2>2. QED
      BY <2>1, PartFacts
  <1>5. <<v>> \in Seq(Numbers) /\ Len(<<v>>) = 1 /\ <<v>>[1] = v
    OBVIOUS
  <1> DEFINE w == <<v>>
  <1> HIDE DEF a, b, n, w
  <1>6. /\ a \o w \in Seq(Numbers) /\ Len(a \o w) = r + 1
        /\ \A k \in 1 .. r : (a \o w)[k] = e[k]
        /\ (a \o w)[r + 1] = v
    <2>1. w \in Seq(Numbers) /\ Len(w) = 1 /\ w[1] = v
      BY <1>5 DEF w
    <2>2. /\ a \o w \in Seq(Numbers) /\ Len(a \o w) = Len(a) + Len(w)
          /\ \A k \in 1 .. Len(a) : (a \o w)[k] = a[k]
          /\ \A k \in Len(a) + 1 .. Len(a) + Len(w) : (a \o w)[k] = w[k - Len(a)]
      BY <1>3, <2>1, JoinFacts, ZenonT(60)
    <2>3. r + 1 \in Len(a) + 1 .. Len(a) + Len(w) /\ (r + 1) - Len(a) = 1
      BY <1>2, <1>3, <2>1
    <2>4. QED
      BY <1>3, <2>1, <2>2, <2>3
  <1>7. c = a \o w
    BY DEF w
  <1> HIDE DEF c
  <1>8. /\ c \o b \in Seq(Numbers) /\ Len(c \o b) = n + 1
        /\ \A k \in 1 .. r + 1 : (c \o b)[k] = c[k]
        /\ \A k \in r + 2 .. n + 1 : (c \o b)[k] = e[k - 1]
    <2>1. c \in Seq(Numbers) /\ Len(c) = r + 1
      BY <1>6, <1>7
    <2>2. /\ c \o b \in Seq(Numbers) /\ Len(c \o b) = Len(c) + Len(b)
          /\ \A k \in 1 .. Len(c) : (c \o b)[k] = c[k]
          /\ \A k \in Len(c) + 1 .. Len(c) + Len(b) : (c \o b)[k] = b[k - Len(c)]
      <3>1. c \in Seq(Numbers) /\ b \in Seq(Numbers)
        BY <1>4, <2>1
      <3>2. QED
        BY <3>1, JoinFacts
    <2>3. n \in Nat
      BY <1>1
    <2>4. Len(c) + Len(b) = n + 1 /\ Len(c) + 1 = r + 2
      BY <1>2, <1>4, <2>1, <2>3
    <2>5. \A k \in r + 2 .. n + 1 : k - Len(c) \in 1 .. n - r /\ r + (k - Len(c)) = k - 1
      BY <1>2, <2>1, <2>3
    <2>6. QED
      BY <1>4, <2>1, <2>2, <2>4, <2>5
  <1>9. f = c \o b
    BY DEF Inserted, a, b, c, n
  <1> HIDE DEF f
  <1>10. /\ f \in Seq(Numbers) /\ Len(f) = n + 1 /\ DOMAIN f = 1 .. n + 1
         /\ \A k \in 1 .. r : f[k] = e[k]
         /\ f[r + 1] = v
         /\ \A k \in r + 2 .. n + 1 : f[k] = e[k - 1]
    <2>1. f \in Seq(Numbers) /\ Len(f) = n + 1
      BY <1>8, <1>9
    <2>2. DOMAIN f = 1 .. n + 1
      BY <2>1
    <2>3. \A k \in 1 .. r : k \in 1 .. r + 1
      BY <1>2
    <2>4. r + 1 \in 1 .. r + 1
      BY <1>2
    <2>5. QED
      BY <1>6, <1>7, <1>8, <1>9, <2>1, <2>2, <2>3, <2>4
  <1>11. \A k \in r + 1 .. n : v < e[k]
    <2> TAKE k \in r + 1 .. n
    <2>1. k \in 1 .. n /\ k \in DOMAIN e
      BY <1>1, <1>2
    <2>2. e[k] # v
      BY <2>1 DEF ItemsOf
    <2>3. QED
      BY <1>1, <1>2, <2>1, <2>2
  <1>12. ASSUME NEW i \in 1 .. n + 1, NEW j \in 1 .. n + 1, i < j PROVE f[i] < f[j]
    <2>0. n \in Nat /\ r \in Nat /\ r <= n
      BY <1>1, <1>2
    <2>1. CASE j <= r
      <3>1. i \in 1 .. n /\ j \in 1 .. n /\ i \in 1 .. r /\ j \in 1 .. r
        BY <1>12, <2>0, <2>1
      <3>2. QED
        BY <1>1, <1>10, <1>12, <3>1 DEF Rising, n
    <2>2. CASE j = r + 1
      <3>1. i \in 1 .. r
        BY <1>12, <2>0, <2>2
      <3>2. QED
        BY <1>2, <1>10, <2>2, <3>1
    <2>3. CASE j >= r + 2
      <3>1. j \in r + 2 .. n + 1 /\ j - 1 \in r + 1 .. n /\ j - 1 \in 1 .. n
        BY <2>0, <2>3
      <3>2. CASE i <= r
        <4>1. i \in 1 .. r /\ i \in 1 .. n /\ i < j - 1
          BY <2>0, <3>1, <3>2
        <4>2. e[i] < e[j - 1]
          BY <1>1, <3>1, <4>1 DEF Rising, n
        <4>3. QED
          BY <1>10, <3>1, <4>1, <4>2
      <3>3. CASE i = r + 1
        BY <1>10, <1>11, <3>1, <3>3
      <3>4. CASE i >= r + 2
        <4>1. i \in r + 2 .. n + 1 /\ i - 1 \in 1 .. n /\ i - 1 < j - 1
          BY <1>12, <2>0, <3>1, <3>4
        <4>2. e[i - 1] < e[j - 1]
          BY <1>1, <3>1, <4>1 DEF Rising, n
        <4>3. QED
          BY <1>10, <3>1, <4>1, <4>2
      <3>5. QED
        BY <2>0, <3>2, <3>3, <3>4
    <2>4. QED
      BY <2>0, <2>1, <2>2, <2>3
  <1>13. f \in InOrder
    BY <1>10, <1>12 DEF InOrder, Rising
  <1>14. ASSUME NEW x \in ItemsOf(f) PROVE x \in ItemsOf(e) \cup {v}
    <2>1. PICK k \in 1 .. n + 1 : f[k] = x
      BY <1>10 DEF ItemsOf
    <2>2. n \in Nat /\ r \in Nat /\ r <= n
      BY <1>1, <1>2
    <2>3. CASE k <= r
      <3>1. k \in 1 .. r /\ k \in DOMAIN e
        BY <1>1, <2>2, <2>3
      <3>2. QED
        BY <1>10, <2>1, <3>1 DEF ItemsOf
    <2>4. CASE k = r + 1
      BY <1>10, <2>1, <2>4
    <2>5. CASE k >= r + 2
      <3>1. k \in r + 2 .. n + 1 /\ k - 1 \in DOMAIN e
        BY <1>1, <2>2, <2>5
      <3>2. QED
        BY <1>10, <2>1, <3>1 DEF ItemsOf
    <2>6. QED
      BY <2>2, <2>3, <2>4, <2>5
  <1>15. ASSUME NEW x \in ItemsOf(e) \cup {v} PROVE x \in ItemsOf(f)
    <2>2. n \in Nat /\ r \in Nat /\ r <= n
      BY <1>1, <1>2
    <2>3. CASE x = v
      <3>1. r + 1 \in DOMAIN f
        BY <1>10, <2>2
      <3>2. QED
        BY <1>10, <2>3, <3>1 DEF ItemsOf
    <2>4. CASE x \in ItemsOf(e)
      <3>1. PICK k \in 1 .. n : e[k] = x
        BY <1>1, <2>4 DEF ItemsOf
      <3>2. CASE k <= r
        <4>1. k \in 1 .. r /\ k \in DOMAIN f
          BY <1>10, <2>2, <3>2
        <4>2. QED
          BY <1>10, <3>1, <4>1 DEF ItemsOf
      <3>3. CASE k > r
        <4>1. k + 1 \in r + 2 .. n + 1 /\ k + 1 \in DOMAIN f /\ (k + 1) - 1 = k
          BY <1>10, <2>2, <3>3
        <4>2. QED
          BY <1>10, <3>1, <4>1 DEF ItemsOf
      <3>4. QED
        BY <2>2, <3>2, <3>3
    <2>5. QED
      BY <1>15, <2>3, <2>4
  <1>16. QED
    BY <1>13, <1>14, <1>15 DEF f

\* addRaw leaves the order and adds what was not there.
LEMMA AddRawFacts ==
    ASSUME NEW e \in InOrder, NEW v \in Numbers
    PROVE  AddRaw(e, v) \in InOrder /\ ItemsOf(AddRaw(e, v)) = ItemsOf(e) \cup {v}
  <1>1. e \in Seq(Numbers) /\ Rising(e)
    BY InOrderFacts
  <1>2. Found(e, v) <=> v \in ItemsOf(e)
    BY <1>1, FoundItems
  <1>3. Splits(e, v, NearestIndex(e, v))
    BY <1>1, NearestFacts
  <1>4. CASE Found(e, v)
    BY <1>2, <1>4 DEF AddRaw
  <1>5. CASE ~Found(e, v)
    BY <1>2, <1>3, <1>5, InsertedFacts DEF AddRaw
  <1>6. QED
    BY <1>4, <1>5

\* removeAt leaves the order and removes what is at the place.
LEMMA RemovalFacts ==
    ASSUME NEW e \in InOrder, NEW r \in Nat, r < Len(e)
    PROVE  RemovedAt(e, r) \in InOrder /\ ItemsOf(RemovedAt(e, r)) = ItemsOf(e) \ {e[r + 1]}
  <1> DEFINE n == Len(e)
             a == SubSeq(e, 1, r)
             b == SubSeq(e, r + 2, n)
             f == RemovedAt(e, r)
  <1>1. /\ e \in Seq(Numbers) /\ Rising(e) /\ n \in Nat /\ DOMAIN e = 1 .. n
        /\ \A i \in 1 .. n : e[i] \in Numbers /\ e[i] \in Int
    BY InOrderFacts
  <1>2. r \in Nat /\ r < n
    OBVIOUS
  <1>3. a \in Seq(Numbers) /\ Len(a) = r /\ \A k \in 1 .. r : a[k] = e[k]
    BY <1>1, <1>2
  <1>4. /\ b \in Seq(Numbers) /\ Len(b) = n - (r + 1)
        /\ \A k \in 1 .. n - (r + 1) : b[k] = e[(r + 1) + k]
    <2>1. r + 1 \in Nat /\ r + 1 <= n /\ (r + 1) + 1 = r + 2
      BY <1>1, <1>2
    <2> DEFINE d == SubSeq(e, (r + 1) + 1, n)
    <2>2. /\ d \in Seq(Numbers) /\ Len(d) = n - (r + 1)
          /\ \A k \in 1 .. n - (r + 1) : d[k] = e[(r + 1) + k]
      <3>1. e \in Seq(Numbers) /\ n \in Nat /\ n <= Len(e)
        BY <1>1
      <3> HIDE DEF n
      <3>2. QED
        BY <2>1, <3>1, PartFacts
    <2>3. d = b
      BY <2>1
    <2> HIDE DEF d, b
    <2>4. QED
      BY <2>2, <2>3
  <1>5. f = a \o b
    BY DEF RemovedAt
  <1> HIDE DEF a, b, n, f
  <1>6. /\ f \in Seq(Numbers) /\ Len(f) = n - 1 /\ DOMAIN f = 1 .. n - 1
        /\ \A k \in 1 .. r : f[k] = e[k]
        /\ \A k \in r + 1 .. n - 1 : f[k] = e[k + 1]
    <2>1. /\ a \o b \in Seq(Numbers) /\ Len(a \o b) = Len(a) + Len(b)
          /\ \A k \in 1 .. Len(a) : (a \o b)[k] = a[k]
          /\ \A k \in Len(a) + 1 .. Len(a) + Len(b) : (a \o b)[k] = b[k - Len(a)]
      <3>1. a \in Seq(Numbers) /\ b \in Seq(Numbers)
        BY <1>3, <1>4
      <3>2. QED
        BY <3>1, JoinFacts
    <2>2. Len(a) + Len(b) = n - 1
      BY <1>1, <1>2, <1>3, <1>4
    <2>3. \A k \in r + 1 .. n - 1 :
             k - r \in 1 .. n - (r + 1) /\ (r + 1) + (k - r) = k + 1
      BY <1>1, <1>2
    <2>4. DOMAIN f = 1 .. Len(f)
      BY <1>5, <2>1
    <2>5. QED
      BY <1>3, <1>4, <1>5, <2>1, <2>2, <2>3, <2>4
  <1>7. ASSUME NEW i \in 1 .. n - 1, NEW j \in 1 .. n - 1, i < j PROVE f[i] < f[j]
    <2> DEFINE p == IF i <= r THEN i ELSE i + 1
               q == IF j <= r THEN j ELSE j + 1
    <2>1. /\ p \in 1 .. n /\ q \in 1 .. n /\ p < q
          /\ i \in 1 .. r \/ i \in r + 1 .. n - 1
          /\ j \in 1 .. r \/ j \in r + 1 .. n - 1
      BY <1>1, <1>2, <1>7
    <2>2. f[i] = e[p] /\ f[j] = e[q]
      <3>1. ASSUME NEW k \in 1 .. n - 1 PROVE f[k] = e[IF k <= r THEN k ELSE k + 1]
        <4>1. CASE k <= r
          <5>1. k \in 1 .. r
            BY <1>1, <1>2, <4>1
          <5>2. QED
            BY <1>6, <4>1, <5>1
        <4>2. CASE ~(k <= r)
          <5>1. k \in r + 1 .. n - 1
            BY <1>1, <1>2, <4>2
          <5>2. QED
            BY <1>6, <4>2, <5>1
        <4>3. QED
          BY <4>1, <4>2
      <3>2. QED
        BY <3>1
    <2> HIDE DEF p, q
    <2>3. QED
      BY <1>1, <2>1, <2>2 DEF Rising, n
  <1>8. f \in InOrder
    BY <1>6, <1>7 DEF InOrder, Rising
  <1>9. r + 1 \in 1 .. n
    BY <1>1, <1>2
  <1>10. ASSUME NEW x \in ItemsOf(f) PROVE x \in ItemsOf(e) \ {e[r + 1]}
    <2>1. PICK i \in 1 .. n - 1 : f[i] = x
      BY <1>6 DEF ItemsOf
    <2> DEFINE p == IF i <= r THEN i ELSE i + 1
    <2>2. p \in 1 .. n /\ p # r + 1 /\ (i \in 1 .. r \/ i \in r + 1 .. n - 1)
      BY <1>1, <1>2
    <2>3. f[i] = e[p]
      BY <1>1, <1>2, <1>6, <2>2
    <2> HIDE DEF p
    <2>4. p < r + 1 \/ r + 1 < p
      BY <1>2, <2>2
    <2>5. e[p] # e[r + 1]
      <3>1. e[p] < e[r + 1] \/ e[r + 1] < e[p]
        BY <1>1, <1>9, <2>2, <2>4 DEF Rising, n
      <3>2. QED
        BY <1>1, <1>9, <2>2, <3>1
    <2>6. QED
      BY <1>1, <2>1, <2>2, <2>3, <2>5 DEF ItemsOf
  <1>11. ASSUME NEW x \in ItemsOf(e) \ {e[r + 1]} PROVE x \in ItemsOf(f)
    <2>1. PICK k \in 1 .. n : e[k] = x
      BY <1>1 DEF ItemsOf
    <2>2. k # r + 1
      BY <2>1
    <2>3. CASE k <= r
      <3>1. k \in 1 .. r /\ k \in DOMAIN f
        BY <1>1, <1>2, <1>6, <2>3
      <3>2. QED
        BY <1>6, <2>1, <3>1 DEF ItemsOf
    <2>4. CASE k > r + 1
      <3>1. k - 1 \in r + 1 .. n - 1 /\ k - 1 \in DOMAIN f /\ (k - 1) + 1 = k
        BY <1>1, <1>2, <1>6, <2>4
      <3>2. QED
        BY <1>6, <2>1, <3>1 DEF ItemsOf
    <2>5. QED
      BY <1>2, <2>2, <2>3, <2>4
  <1>12. ItemsOf(f) = ItemsOf(e) \ {e[r + 1]}
    BY <1>10, <1>11
  <1>13. RemovedAt(e, r) = f
    BY DEF f
  <1>14. RemovedAt(e, r) \in InOrder
    BY <1>8, <1>13
  <1>15. ItemsOf(RemovedAt(e, r)) = ItemsOf(e) \ {e[r + 1]}
    BY <1>12, <1>13
  <1>16. QED
    BY <1>14, <1>15

\* What is true after k of vs have been added
AddedTo(e, vs, k, f) ==
    f \in InOrder /\ ItemsOf(f) = ItemsOf(e) \cup {vs[j] : j \in 1 .. k}

\* The recursion of AddedRaw
LEMMA AddedEquation ==
    ASSUME NEW e \in InOrder, NEW vs \in Seq(Numbers)
    PROVE  /\ AddedRaw(e, vs)[0] = e
           /\ \A k \in 1 .. Len(vs) : AddedRaw(e, vs)[k] = AddRaw(AddedRaw(e, vs)[k - 1], vs[k])
  <1> DEFINE V == InOrder
             n == Len(vs)
             step == [k \in 1 .. n |-> [f \in V |-> AddRaw(f, vs[k])]]
             Def(d) == d = [k \in 0 .. n |-> IF k = 0 THEN e ELSE AddRaw(d[k - 1], vs[k])]
             R == AddedRaw(e, vs)
  <1>1. n \in Nat /\ \A k \in 1 .. n : vs[k] \in Numbers
    OBVIOUS
  <1>2. \A k \in 1 .. n : \A f \in V : AddRaw(f, vs[k]) \in V
    BY <1>1, AddRawFacts
  <1>3. StepsInTo(V, n, step) /\ \A k \in 1 .. n : \A f \in V : step[k][f] = AddRaw(f, vs[k])
    BY <1>2 DEF StepsInTo
  <1>4. R = CHOOSE d : Def(d)
    BY DEF AddedRaw
  <1> HIDE DEF step, n, V
  <1>5. PICK d : FollowsTo(V, e, n, step, d)
    <2>1. e \in V
      BY DEF V
    <2>2. QED
      BY <1>1, <1>3, <2>1, BoundedRecursion
  <1>6. /\ d \in [0 .. n -> V] /\ d[0] = e
        /\ \A k \in 1 .. n : d[k] = step[k][d[k - 1]]
    BY <1>5 DEF FollowsTo
  <1>7. \A k \in 0 .. n : d[k] = IF k = 0 THEN e ELSE AddRaw(d[k - 1], vs[k])
    <2> TAKE k \in 0 .. n
    <2>1. CASE k = 0
      BY <1>6, <2>1
    <2>2. CASE k # 0
      <3>1. k \in 1 .. n /\ k - 1 \in 0 .. n
        BY <1>1, <2>2
      <3>2. d[k - 1] \in V
        BY <1>6, <3>1
      <3>3. QED
        BY <1>3, <1>6, <2>2, <3>1, <3>2
    <2>3. QED
      BY <2>1, <2>2
  <1>8. d = [k \in 0 .. n |-> d[k]]
    BY <1>6
  <1>9. Def(d)
    BY <1>7, <1>8
  <1>10. Def(R)
    BY <1>4, <1>9
  <1> HIDE DEF R
  <1>11. \A h : h = [k \in 0 .. n |-> IF k = 0 THEN e ELSE AddRaw(R[k - 1], vs[k])]
           => \A k \in 0 .. n : h[k] = IF k = 0 THEN e ELSE AddRaw(R[k - 1], vs[k])
    OBVIOUS
  <1>12. \A k \in 0 .. n : R[k] = IF k = 0 THEN e ELSE AddRaw(R[k - 1], vs[k])
    BY <1>10, <1>11
  <1>13. 0 \in 0 .. n /\ \A k \in 1 .. n : k \in 0 .. n /\ k # 0
    BY <1>1
  <1>14. QED
    BY <1>12, <1>13 DEF R, n

\* addFrom and addMany leave the order and add what was not there.
LEMMA AddRawAllFacts ==
    ASSUME NEW e \in InOrder, NEW vs \in Seq(Numbers)
    PROVE  AddRawAll(e, vs) \in InOrder /\ ItemsOf(AddRawAll(e, vs)) = ItemsOf(e) \cup ItemsOf(vs)
  <1> DEFINE n == Len(vs)
             R == AddedRaw(e, vs)
             T == {k \in Nat : k <= n => AddedTo(e, vs, k, R[k])}
  <1>1. n \in Nat /\ \A k \in 1 .. n : vs[k] \in Numbers
    OBVIOUS
  <1>2. R[0] = e /\ \A k \in 1 .. n : R[k] = AddRaw(R[k - 1], vs[k])
    BY AddedEquation
  <1>3. AddRawAll(e, vs) = R[n]
    BY DEF AddRawAll
  <1>4. DOMAIN vs = 1 .. n
    OBVIOUS
  <1> HIDE DEF R, n
  <1>5. 0 \in T
    <2>1. {vs[j] : j \in 1 .. 0} = {}
      OBVIOUS
    <2>2. AddedTo(e, vs, 0, e)
      BY <2>1 DEF AddedTo
    <2>3. QED
      BY <1>2, <2>2
  <1>6. ASSUME NEW k \in Nat, k \in T PROVE k + 1 \in T
    <2> SUFFICES ASSUME k + 1 <= n PROVE AddedTo(e, vs, k + 1, R[k + 1])
      OBVIOUS
    <2>1. k <= n /\ k + 1 \in 1 .. n /\ (k + 1) - 1 = k
      BY <1>1
    <2>2. AddedTo(e, vs, k, R[k])
      BY <1>6, <2>1
    <2>3. R[k] \in InOrder /\ ItemsOf(R[k]) = ItemsOf(e) \cup {vs[j] : j \in 1 .. k}
      BY <2>2 DEF AddedTo
    <2>4. R[k + 1] = AddRaw(R[k], vs[k + 1]) /\ vs[k + 1] \in Numbers
      BY <1>1, <1>2, <2>1
    <2>5. R[k + 1] \in InOrder /\ ItemsOf(R[k + 1]) = ItemsOf(R[k]) \cup {vs[k + 1]}
      BY <2>3, <2>4, AddRawFacts
    <2>6. {vs[j] : j \in 1 .. k + 1} = {vs[j] : j \in 1 .. k} \cup {vs[k + 1]}
      <3>1. 1 .. k + 1 = (1 .. k) \cup {k + 1}
        OBVIOUS
      <3>2. QED
        BY <3>1
    <2>7. QED
      BY <2>3, <2>5, <2>6 DEF AddedTo
  <1> HIDE DEF T
  <1>7. Nat \subseteq T
    BY <1>5, <1>6, CountingUp
  <1>8. AddedTo(e, vs, n, R[n])
    BY <1>1, <1>7 DEF T
  <1>9. ItemsOf(vs) = {vs[j] : j \in 1 .. n}
    BY <1>4 DEF ItemsOf
  <1>10. QED
    BY <1>3, <1>8, <1>9 DEF AddedTo

\* A round of isSubsetOf
MeetsOne(e, f, i, j) ==
    IF i \in {-1, Len(e)} THEN i
    ELSE IF e[i + 1] = f[j] THEN i + 1
    ELSE IF e[i + 1] < f[j] THEN -1
    ELSE i

\* The recursion of Met
LEMMA MetEquation ==
    ASSUME NEW e \in InOrder, NEW f \in InOrder
    PROVE  /\ Met(e, f)[0] = 0
           /\ \A j \in 1 .. Len(f) : Met(e, f)[j] = MeetsOne(e, f, Met(e, f)[j - 1], j)
  <1> DEFINE V == -1 .. Len(e)
             n == Len(f)
             step == [j \in 1 .. n |-> [i \in V |-> MeetsOne(e, f, i, j)]]
             One(d, j) == IF j = 0 THEN 0 ELSE MeetsOne(e, f, d[j - 1], j)
             Def(d) == d = [j \in 0 .. n |-> One(d, j)]
             R == Met(e, f)
  <1>1. n \in Nat /\ Len(e) \in Nat
    BY InOrderFacts
  <1>2. \A j \in 1 .. n : \A i \in V : MeetsOne(e, f, i, j) \in V
    BY <1>1 DEF MeetsOne
  <1>3. StepsInTo(V, n, step) /\ \A j \in 1 .. n : \A i \in V : step[j][i] = MeetsOne(e, f, i, j)
    BY <1>2 DEF StepsInTo
  <1>4. R = CHOOSE d : Def(d)
    BY DEF Met, MeetsOne
  <1>5. 0 \in V
    BY <1>1
  <1> HIDE DEF step, n, V
  <1>6. PICK d : FollowsTo(V, 0, n, step, d)
    BY <1>1, <1>3, <1>5, BoundedRecursion
  <1>7. /\ d \in [0 .. n -> V] /\ d[0] = 0
        /\ \A j \in 1 .. n : d[j] = step[j][d[j - 1]]
    BY <1>6 DEF FollowsTo
  <1>8. \A j \in 0 .. n : d[j] = One(d, j)
    <2> TAKE j \in 0 .. n
    <2>1. CASE j = 0
      BY <1>7, <2>1
    <2>2. CASE j # 0
      <3>1. j \in 1 .. n /\ j - 1 \in 0 .. n
        BY <1>1, <2>2
      <3>2. d[j - 1] \in V
        BY <1>7, <3>1
      <3>3. QED
        BY <1>3, <1>7, <2>2, <3>1, <3>2
    <2>3. QED
      BY <2>1, <2>2
  <1>9. d = [j \in 0 .. n |-> d[j]]
    BY <1>7
  <1>10. Def(d)
    BY <1>8, <1>9
  <1>11. Def(R)
    BY <1>4, <1>10
  <1> HIDE DEF R
  <1>12. \A h : h = [j \in 0 .. n |-> One(R, j)] => \A j \in 0 .. n : h[j] = One(R, j)
    OBVIOUS
  <1>13. \A j \in 0 .. n : R[j] = One(R, j)
    BY <1>11, <1>12
  <1>14. 0 \in 0 .. n /\ \A j \in 1 .. n : j \in 0 .. n /\ j # 0
    BY <1>1
  <1>15. QED
    BY <1>13, <1>14 DEF R, n

\* What i says after j of f have been looked at: the first i of e are among those and the
\* next is greater than all of them, or some of e is not in f.
MetTo(e, f, j, i) ==
    \/ i = -1 /\ \E k \in 1 .. Len(e) : e[k] \notin ItemsOf(f)
    \/ /\ i \in 0 .. Len(e)
       /\ \A k \in 1 .. i : \E l \in 1 .. j : f[l] = e[k]
       /\ i < Len(e) => \A l \in 1 .. j : f[l] < e[i + 1]

\* One round more
LEMMA MeetsOneFacts ==
    ASSUME NEW e \in InOrder, NEW f \in InOrder, NEW j \in 1 .. Len(f), NEW i,
           MetTo(e, f, j - 1, i)
    PROVE  MetTo(e, f, j, MeetsOne(e, f, i, j))
  <1> DEFINE n == Len(e)
             m == Len(f)
             r == MeetsOne(e, f, i, j)
  <1>1. /\ Rising(e) /\ n \in Nat /\ DOMAIN e = 1 .. n
        /\ \A k \in 1 .. n : e[k] \in Int
    BY InOrderFacts
  <1>2. /\ Rising(f) /\ m \in Nat /\ DOMAIN f = 1 .. m
        /\ \A k \in 1 .. m : f[k] \in Int
    BY InOrderFacts
  <1>3. j \in 1 .. m /\ j \in Nat /\ 1 .. j = (1 .. j - 1) \cup {j}
    BY <1>2
  <1>4. CASE i = -1
    <2>1. r = -1
      BY <1>4 DEF MeetsOne
    <2>2. -1 \notin 0 .. n
      BY <1>1
    <2>3. QED
      BY <1>4, <2>1, <2>2 DEF MetTo
  <1>5. CASE i # -1
    <2>1. /\ i \in 0 .. n
          /\ \A k \in 1 .. i : \E l \in 1 .. j - 1 : f[l] = e[k]
          /\ i < n => \A l \in 1 .. j - 1 : f[l] < e[i + 1]
      BY <1>5 DEF MetTo
    <2>2. \A k \in 1 .. i : \E l \in 1 .. j : f[l] = e[k]
      BY <1>3, <2>1
    <2>3. CASE i = n
      <3>1. r = i
        BY <2>3 DEF MeetsOne
      <3>2. ~(i < n)
        BY <1>1, <2>3
      <3>3. QED
        BY <2>1, <2>2, <3>1, <3>2 DEF MetTo
    <2>4. CASE i # n
      <3>1. i < n /\ i + 1 \in 1 .. n /\ i \in Nat
        <4>1. n \in Nat /\ i \in 0 .. n /\ i # n
          BY <1>1, <2>1, <2>4
        <4> HIDE DEF n
        <4>2. QED
          BY <4>1
      <3>2. r = IF e[i + 1] = f[j] THEN i + 1 ELSE IF e[i + 1] < f[j] THEN -1 ELSE i
        BY <1>5, <2>4 DEF MeetsOne
      <3> HIDE DEF r
      <3>3. \A l \in 1 .. j - 1 : f[l] < f[j] /\ l \in 1 .. m
        <4>1. \A l \in 1 .. j - 1 : l \in 1 .. m /\ l < j
          BY <1>3
        <4>2. QED
          BY <1>2, <1>3, <4>1 DEF Rising, m
      <3>4. CASE e[i + 1] = f[j]
        <4>1. r = i + 1 /\ i + 1 \in 0 .. n
          BY <3>1, <3>2, <3>4
        <4>2. \A k \in 1 .. i + 1 : \E l \in 1 .. j : f[l] = e[k]
          <5> TAKE k \in 1 .. i + 1
          <5>1. k \in 1 .. i \/ k = i + 1
            BY <3>1
          <5>2. QED
            BY <1>3, <2>2, <3>4, <5>1
        <4>3. ASSUME i + 1 < n, NEW l \in 1 .. j PROVE f[l] < e[(i + 1) + 1]
          <5>1. (i + 1) + 1 \in 1 .. n /\ i + 1 < (i + 1) + 1
            BY <1>1, <3>1, <4>3
          <5>2. e[i + 1] < e[(i + 1) + 1]
            BY <1>1, <3>1, <5>1 DEF Rising, n
          <5>3. f[l] = f[j] \/ f[l] < f[j]
            BY <1>3, <3>3
          <5>4. l \in 1 .. m
            BY <1>3
          <5>5. f[l] \in Int /\ f[j] \in Int /\ e[i + 1] \in Int /\ e[(i + 1) + 1] \in Int
            BY <1>1, <1>2, <1>3, <3>1, <5>1, <5>4
          <5>6. QED
            BY <3>4, <5>2, <5>3, <5>5
        <4>4. MetTo(e, f, j, i + 1)
          BY <4>1, <4>2, <4>3 DEF MetTo
        <4>5. QED
          BY <4>1, <4>4 DEF r
      <3>5. CASE e[i + 1] # f[j] /\ e[i + 1] < f[j]
        <4>1. r = -1
          BY <3>2, <3>5
        <4>2. e[i + 1] \notin ItemsOf(f)
          <5> SUFFICES ASSUME NEW l \in 1 .. m, f[l] = e[i + 1] PROVE FALSE
            BY <1>2 DEF ItemsOf
          <5>1. CASE l < j
            <6>1. l \in 1 .. j - 1
              BY <1>3, <5>1
            <6>2. f[l] < e[i + 1]
              BY <2>1, <3>1, <6>1
            <6>3. QED
              BY <1>1, <3>1, <6>2
          <5>2. CASE l = j
            BY <3>5, <5>2
          <5>3. CASE l > j
            <6>1. f[j] < f[l]
              BY <1>2, <1>3, <5>3 DEF Rising, m
            <6>2. QED
              BY <1>1, <1>2, <1>3, <3>1, <3>5, <6>1
          <5>4. QED
            BY <1>3, <5>1, <5>2, <5>3
        <4>3. MetTo(e, f, j, -1)
          BY <3>1, <4>2 DEF MetTo, n
        <4>4. QED
          BY <4>1, <4>3 DEF r
      <3>6. CASE e[i + 1] # f[j] /\ ~(e[i + 1] < f[j])
        <4>1. r = i
          BY <3>2, <3>6
        <4>2. f[j] < e[i + 1]
          BY <1>1, <1>2, <1>3, <3>1, <3>6
        <4>3. \A l \in 1 .. j : f[l] < e[i + 1]
          BY <1>3, <2>1, <3>1, <4>2
        <4>4. MetTo(e, f, j, i)
          BY <2>1, <2>2, <4>3 DEF MetTo
        <4>5. QED
          BY <4>1, <4>4 DEF r
      <3>7. QED
        BY <3>4, <3>5, <3>6
    <2>5. QED
      BY <2>3, <2>4
  <1>6. QED
    BY <1>4, <1>5

\* Items of a rising sequence that are all in another are no more than those.
LEMMA NoLonger ==
    ASSUME NEW e \in InOrder, NEW f \in InOrder, ItemsOf(e) \subseteq ItemsOf(f)
    PROVE  Len(e) <= Len(f)
  <1> DEFINE n == Len(e)
             m == Len(f)
  <1>1. /\ Rising(e) /\ n \in Nat /\ DOMAIN e = 1 .. n
        /\ \A k \in 1 .. n : e[k] \in Int
    BY InOrderFacts
  <1>2. /\ Rising(f) /\ m \in Nat /\ DOMAIN f = 1 .. m
        /\ \A k \in 1 .. m : f[k] \in Int
    BY InOrderFacts
  <1>3. \A k \in 1 .. n : \E l \in 1 .. m : f[l] = e[k]
    BY <1>1, <1>2 DEF ItemsOf
  <1> DEFINE Counted(k) == \E l \in 1 .. m : f[l] = e[k] /\ k <= l
             U == {k \in Nat : k \in 1 .. n => Counted(k)}
  <1>4. 0 \in U
    OBVIOUS
  <1>5. ASSUME NEW k \in Nat, k \in U PROVE k + 1 \in U
    <2> SUFFICES ASSUME k + 1 \in 1 .. n PROVE Counted(k + 1)
      OBVIOUS
    <2>1. PICK l \in 1 .. m : f[l] = e[k + 1]
      BY <1>3
    <2>2. CASE k = 0
      BY <1>2, <2>1, <2>2
    <2>3. CASE k # 0
      <3>1. k \in 1 .. n /\ k < k + 1
        BY <1>1, <2>3
      <3>2. PICK i \in 1 .. m : f[i] = e[k] /\ k <= i
        BY <1>5, <3>1
      <3>3. e[k] < e[k + 1]
        BY <1>1, <3>1 DEF Rising, n
      <3>4. i < l
        <4>1. ~(l < i) \/ f[l] < f[i]
          BY <1>2 DEF Rising, m
        <4>2. f[i] < f[l] /\ f[i] \in Int /\ f[l] \in Int
          BY <1>2, <2>1, <3>2, <3>3
        <4>3. i # l /\ ~(l < i)
          BY <4>1, <4>2
        <4>4. QED
          BY <1>2, <4>3
      <3>5. k + 1 <= l
        BY <1>2, <3>2, <3>4
      <3>6. QED
        BY <2>1, <3>5
    <2>4. QED
      BY <2>2, <2>3
  <1> HIDE DEF U, Counted
  <1>6. Nat \subseteq U
    BY <1>4, <1>5, CountingUp
  <1>7. CASE n = 0
    BY <1>2, <1>7
  <1>8. CASE n # 0
    <2>1. n \in 1 .. n
      BY <1>1, <1>8
    <2>2. Counted(n)
      BY <1>1, <1>6, <2>1 DEF U
    <2>3. PICK l \in 1 .. m : n <= l
      BY <2>2 DEF Counted
    <2>4. QED
      BY <1>1, <1>2, <2>3
  <1>9. QED
    BY <1>7, <1>8

\* The merge that decides on subsets decides right.
LEMMA SubsetsDecided ==
    ASSUME NEW e \in InOrder, NEW f \in InOrder
    PROVE  IsSubsetOf(e, f) <=> ItemsOf(e) \subseteq ItemsOf(f)
  <1> DEFINE n == Len(e)
             m == Len(f)
             R == Met(e, f)
             T == {j \in Nat : j <= m => MetTo(e, f, j, R[j])}
  <1>1. n \in Nat /\ DOMAIN e = 1 .. n
    BY InOrderFacts
  <1>2. /\ Rising(f) /\ m \in Nat /\ DOMAIN f = 1 .. m
        /\ \A k \in 1 .. m : f[k] \in Int
    BY InOrderFacts
  <1>3. R[0] = 0 /\ \A j \in 1 .. m : R[j] = MeetsOne(e, f, R[j - 1], j)
    BY MetEquation
  <1>4. IsSubsetOf(e, f) <=> n <= m /\ R[m] = n
    BY DEF IsSubsetOf
  <1> HIDE DEF R, n, m
  <1>5. 0 \in T
    <2>1. MetTo(e, f, 0, 0)
      BY <1>1 DEF MetTo, n
    <2>2. QED
      BY <1>3, <2>1
  <1>6. ASSUME NEW j \in Nat, j \in T PROVE j + 1 \in T
    <2> SUFFICES ASSUME j + 1 <= m PROVE MetTo(e, f, j + 1, R[j + 1])
      OBVIOUS
    <2>1. j <= m /\ j + 1 \in 1 .. m /\ (j + 1) - 1 = j
      BY <1>2
    <2>2. MetTo(e, f, j, R[j]) /\ R[j + 1] = MeetsOne(e, f, R[j], j + 1)
      BY <1>3, <1>6, <2>1
    <2> DEFINE k == j + 1
    <2>3. k \in 1 .. Len(f) /\ MetTo(e, f, k - 1, R[j])
      BY <2>1, <2>2 DEF m
    <2> HIDE DEF k
    <2>4. MetTo(e, f, k, MeetsOne(e, f, R[j], k))
      BY <2>3, MeetsOneFacts
    <2>5. QED
      BY <2>2, <2>4 DEF k
  <1> HIDE DEF T
  <1>7. Nat \subseteq T
    BY <1>5, <1>6, CountingUp
  <1>8. MetTo(e, f, m, R[m])
    BY <1>2, <1>7 DEF T
  <1>9. ASSUME R[m] = n PROVE ItemsOf(e) \subseteq ItemsOf(f)
    <2>1. n # -1
      BY <1>1
    <2>2. \A k \in 1 .. n : \E l \in 1 .. m : f[l] = e[k]
      BY <1>8, <1>9, <2>1 DEF MetTo
    <2>3. QED
      BY <1>1, <1>2, <2>2 DEF ItemsOf
  <1>10. ASSUME ItemsOf(e) \subseteq ItemsOf(f) PROVE n <= m /\ R[m] = n
    <2>1. n <= m
      BY <1>10, NoLonger DEF n, m
    <2> DEFINE i == R[m]
    <2> HIDE DEF i
    <2>2. \A k \in 1 .. n : e[k] \in ItemsOf(f)
      BY <1>1, <1>10 DEF ItemsOf
    <2>3. /\ i \in 0 .. n
          /\ i < n => \A l \in 1 .. m : f[l] < e[i + 1]
      BY <1>8, <2>2 DEF MetTo, n, i
    <2>4. ~(i < n)
      <3> SUFFICES ASSUME i < n PROVE FALSE
        OBVIOUS
      <3>1. i + 1 \in 1 .. n
        BY <1>1, <2>3
      <3>2. PICK l \in 1 .. m : f[l] = e[i + 1]
        BY <1>2, <2>2, <3>1 DEF ItemsOf
      <3>3. f[l] < f[l]
        BY <2>3, <3>2
      <3>4. QED
        BY <1>2, <3>3
    <2>5. i = n
      BY <1>1, <2>3, <2>4
    <2>6. QED
      BY <2>1, <2>5 DEF i
  <1>11. QED
    BY <1>4, <1>9, <1>10

----------------------------------------------------------------------------
(* The sets of the program *)

\* Each array is sorted and holds the set.
ArraySetInv ==
    /\ sorted \in [SortedSets -> InOrder]
    /\ members \in [SortedSets -> SUBSET Numbers]
    /\ \A s \in SortedSets : ItemsOf(sorted[s]) = members[s]

\* One set gets another array.
LEMMA StandsKeeps ==
    ASSUME ArraySetInv, NEW s \in SortedSets, NEW e \in InOrder, NEW m,
           ItemsOf(e) = m, Stands(s, e, m)
    PROVE  ArraySetInv'
  <1>1. /\ sorted' = [sorted EXCEPT ![s] = e]
        /\ members' = [members EXCEPT ![s] = m]
    BY DEF Stands
  <1>2. m \subseteq Numbers
    <2>1. \A k \in DOMAIN e : e[k] \in Numbers
      BY InOrderFacts
    <2>2. QED
      BY <2>1 DEF ItemsOf
  <1>3. /\ sorted' \in [SortedSets -> InOrder] /\ members' \in [SortedSets -> SUBSET Numbers]
        /\ sorted'[s] = e /\ members'[s] = m
        /\ \A r \in SortedSets : r # s => sorted'[r] = sorted[r] /\ members'[r] = members[r]
    BY <1>1, <1>2 DEF ArraySetInv
  <1>4. QED
    BY <1>3 DEF ArraySetInv

\* No items
LEMMA NothingInOrder == <<>> \in InOrder /\ ItemsOf(<<>>) = {}
  <1>1. <<>> \in Seq(Numbers) /\ Len(<<>>) = 0 /\ DOMAIN <<>> = {}
    OBVIOUS
  <1>2. QED
    BY <1>1 DEF InOrder, Rising, ItemsOf

\* add, addFrom, addMany
LEMMA InsertKeeps ==
    ASSUME ArraySetInv, NEW s \in SortedSets
    PROVE  /\ \A v \in Numbers : Insert(s, v) => ArraySetInv'
           /\ \A v, w \in Numbers : InsertMany(s, <<v, w>>) => ArraySetInv'
           /\ \A r \in SortedSets : InsertFrom(s, r) => ArraySetInv'
  <1>1. /\ sorted[s] \in InOrder /\ ItemsOf(sorted[s]) = members[s]
    BY DEF ArraySetInv
  <1>2. ASSUME NEW v \in Numbers, Insert(s, v) PROVE ArraySetInv'
    <2>1. /\ AddRaw(sorted[s], v) \in InOrder
          /\ ItemsOf(AddRaw(sorted[s], v)) = members[s] \cup {v}
      BY <1>1, AddRawFacts
    <2>2. QED
      BY <1>2, <2>1, StandsKeeps DEF Insert
  <1>3. ASSUME NEW v \in Numbers, NEW w \in Numbers, InsertMany(s, <<v, w>>) PROVE ArraySetInv'
    <2> DEFINE vs == <<v, w>>
    <2>1. vs \in Seq(Numbers)
      OBVIOUS
    <2>2. Stands(s, AddRawAll(sorted[s], vs), members[s] \cup ItemsOf(vs))
      BY <1>3 DEF InsertMany, ItemsOf
    <2> HIDE DEF vs
    <2>3. /\ AddRawAll(sorted[s], vs) \in InOrder
          /\ ItemsOf(AddRawAll(sorted[s], vs)) = members[s] \cup ItemsOf(vs)
      BY <1>1, <2>1, AddRawAllFacts
    <2>4. QED
      BY <2>2, <2>3, StandsKeeps
  <1>4. ASSUME NEW r \in SortedSets, InsertFrom(s, r) PROVE ArraySetInv'
    <2>1. sorted[r] \in InOrder /\ ItemsOf(sorted[r]) = members[r]
      BY DEF ArraySetInv
    <2>2. sorted[r] \in Seq(Numbers)
      BY <2>1, InOrderFacts
    <2>3. /\ AddRawAll(sorted[s], sorted[r]) \in InOrder
          /\ ItemsOf(AddRawAll(sorted[s], sorted[r])) = members[s] \cup members[r]
      BY <1>1, <2>1, <2>2, AddRawAllFacts
    <2>4. QED
      BY <1>4, <2>3, StandsKeeps DEF InsertFrom
  <1>5. QED
    BY <1>2, <1>3, <1>4

\* remove and removeAt
LEMMA RemoveNumberKeeps ==
    ASSUME ArraySetInv, NEW s \in SortedSets, NEW v \in Numbers, RemoveNumber(s, v)
    PROVE  ArraySetInv'
  <1> DEFINE e == sorted[s]
             r == NearestIndex(e, v)
  <1>1. e \in InOrder /\ ItemsOf(e) = members[s]
    BY DEF ArraySetInv
  <1>2. Stands(s, IF Found(e, v) THEN RemovedAt(e, r) ELSE e, members[s] \ {v})
    BY DEF RemoveNumber
  <1>3. Found(e, v) <=> r < Len(e) /\ e[r + 1] = v
    BY DEF Found
  <1>4. e \in Seq(Numbers) /\ Rising(e) /\ Len(e) \in Nat
    BY <1>1, InOrderFacts
  <1> HIDE DEF e
  <1>5. (Found(e, v) <=> v \in ItemsOf(e)) /\ r \in Nat
    <2>1. Splits(e, v, r)
      BY <1>4, NearestFacts
    <2>2. r \in 0 .. Len(e)
      BY <2>1 DEF Splits
    <2>3. Found(e, v) <=> v \in ItemsOf(e)
      BY <1>4, FoundItems
    <2> HIDE DEF r
    <2>4. QED
      BY <1>4, <2>2, <2>3
  <1> HIDE DEF r
  <1>6. CASE Found(e, v)
    <2>1. RemovedAt(e, r) \in InOrder /\ ItemsOf(RemovedAt(e, r)) = ItemsOf(e) \ {v}
      BY <1>1, <1>3, <1>5, <1>6, RemovalFacts
    <2>2. Stands(s, RemovedAt(e, r), members[s] \ {v})
      BY <1>2, <1>6
    <2>3. QED
      BY <1>1, <2>1, <2>2, StandsKeeps
  <1>7. CASE ~Found(e, v)
    <2>1. members[s] \ {v} = ItemsOf(e)
      BY <1>1, <1>5, <1>7
    <2>2. Stands(s, e, members[s] \ {v})
      BY <1>2, <1>7
    <2>3. QED
      BY <1>1, <2>1, <2>2, StandsKeeps
  <1>8. QED
    BY <1>6, <1>7

\* pop takes the largest.
LEMMA PopLargestKeeps ==
    ASSUME ArraySetInv, NEW s \in SortedSets, PopLargest(s)
    PROVE  ArraySetInv'
  <1> DEFINE e == sorted[s]
             n == Len(e)
             f == SubSeq(e, 1, n - 1)
  <1>1. e \in InOrder /\ ItemsOf(e) = members[s]
    BY DEF ArraySetInv
  <1>2. e # <<>> /\ Stands(s, f, {v \in members[s] : \E w \in members[s] : v < w})
    BY DEF PopLargest
  <1> HIDE DEF e
  <1>3. /\ e \in Seq(Numbers) /\ Rising(e) /\ n \in Nat /\ DOMAIN e = 1 .. n
        /\ \A i \in 1 .. n : e[i] \in Numbers /\ e[i] \in Int
    BY <1>1, InOrderFacts
  <1>4. n # 0
    BY <1>2, <1>3
  <1>5. /\ f \in Seq(Numbers) /\ Len(f) = n - 1
        /\ \A k \in 1 .. n - 1 : f[k] = e[k]
    BY <1>3, <1>4
  <1>6. DOMAIN f = 1 .. n - 1
    <2> HIDE DEF f, n
    <2>1. QED
      BY <1>5
  <1> HIDE DEF f
  <1>7. f \in InOrder
    <2>1. \A i, j \in 1 .. n - 1 : i \in 1 .. n /\ j \in 1 .. n
      BY <1>3
    <2>2. QED
      BY <1>3, <1>5, <2>1, SMTT(30) DEF InOrder, Rising
  <1>8. ItemsOf(f) = {v \in members[s] : \E w \in members[s] : v < w}
    <2>1. ASSUME NEW v \in ItemsOf(f)
          PROVE  v \in ItemsOf(e) /\ \E w \in ItemsOf(e) : v < w
      <3>1. PICK k \in 1 .. n - 1 : f[k] = v
        BY <1>6 DEF ItemsOf
      <3>2. k \in 1 .. n /\ n \in 1 .. n /\ k < n
        BY <1>3, <1>4
      <3>3. v = e[k] /\ e[k] < e[n]
        BY <1>3, <1>5, <3>1, <3>2 DEF Rising
      <3>4. e[k] \in ItemsOf(e) /\ e[n] \in ItemsOf(e)
        BY <1>3, <3>2 DEF ItemsOf
      <3>5. QED
        BY <3>3, <3>4
    <2>2. ASSUME NEW v \in ItemsOf(e), NEW w \in ItemsOf(e), v < w PROVE v \in ItemsOf(f)
      <3>1. PICK k \in 1 .. n : e[k] = v
        BY <1>3 DEF ItemsOf
      <3>2. PICK l \in 1 .. n : e[l] = w
        BY <1>3 DEF ItemsOf
      <3>3. k < n
        <4>1. k \in Nat /\ l \in Nat /\ k <= n /\ l <= n /\ n \in Nat
          BY <1>3
        <4>2. l < k => e[l] < e[k]
          BY <1>3 DEF Rising
        <4>3. e[k] < e[l] /\ e[k] \in Int /\ e[l] \in Int
          BY <1>3, <2>2, <3>1, <3>2
        <4>4. k # l /\ ~(l < k)
          BY <4>2, <4>3
        <4> HIDE DEF n
        <4>5. QED
          BY <4>1, <4>4
      <3>4. k \in 1 .. n - 1
        BY <1>3, <3>3
      <3>5. QED
        BY <1>5, <1>6, <3>1, <3>4 DEF ItemsOf
    <2>3. QED
      BY <1>1, <2>1, <2>2
  <1>9. QED
    BY <1>2, <1>7, <1>8, StandsKeeps

\* A move leaves an empty set.
LEMMA MoveNumbersKeeps ==
    ASSUME ArraySetInv, NEW s \in SortedSets, NEW r \in SortedSets, MoveNumbers(s, r)
    PROVE  ArraySetInv'
  <1>1. /\ s # r /\ sorted' = [sorted EXCEPT ![s] = sorted[r], ![r] = <<>>]
        /\ members' = [members EXCEPT ![s] = members[r], ![r] = {}]
    BY DEF MoveNumbers
  <1>2. <<>> \in InOrder /\ ItemsOf(<<>>) = {}
    BY NothingInOrder
  <1> DEFINE none == <<>>
  <1> HIDE DEF none
  <1>3. /\ none \in InOrder /\ ItemsOf(none) = {}
        /\ sorted' = [sorted EXCEPT ![s] = sorted[r], ![r] = none]
    BY <1>1, <1>2 DEF none
  <1>4. /\ sorted' \in [SortedSets -> InOrder] /\ members' \in [SortedSets -> SUBSET Numbers]
        /\ sorted'[s] = sorted[r] /\ members'[s] = members[r]
        /\ sorted'[r] = none /\ members'[r] = {}
        /\ \A q \in SortedSets : q # s /\ q # r => /\ sorted'[q] = sorted[q]
                                                   /\ members'[q] = members[q]
    BY <1>1, <1>3 DEF ArraySetInv
  <1>5. QED
    BY <1>3, <1>4 DEF ArraySetInv

\* Every step
LEMMA ArraySetStep == ArraySetInv /\ [ArraySetNext]_sortedVars => ArraySetInv'
  <1> SUFFICES ASSUME ArraySetInv, [ArraySetNext]_sortedVars PROVE ArraySetInv'
    OBVIOUS
  <1>1. CASE UNCHANGED sortedVars
    BY <1>1 DEF sortedVars, ArraySetInv
  <1>2. CASE ArraySetNext
    <2>1. PICK s \in SortedSets :
            \/ \E v \in Numbers : \/ Insert(s, v) \/ RemoveNumber(s, v)
                                  \/ \E w \in Numbers : InsertMany(s, <<v, w>>)
            \/ PopLargest(s) \/ ClearNumbers(s)
            \/ \E r \in SortedSets : InsertFrom(s, r) \/ CopyNumbers(s, r) \/ MoveNumbers(s, r)
      BY <1>2 DEF ArraySetNext
    <2>2. CASE \E v \in Numbers : \/ Insert(s, v) \/ RemoveNumber(s, v)
                                  \/ \E w \in Numbers : InsertMany(s, <<v, w>>)
      BY <2>2, InsertKeeps, RemoveNumberKeeps
    <2>3. CASE PopLargest(s)
      BY <2>3, PopLargestKeeps
    <2>4. CASE ClearNumbers(s)
      BY <2>4, NothingInOrder, StandsKeeps DEF ClearNumbers
    <2>5. CASE \E r \in SortedSets : InsertFrom(s, r) \/ CopyNumbers(s, r) \/ MoveNumbers(s, r)
      <3>1. PICK r \in SortedSets : InsertFrom(s, r) \/ CopyNumbers(s, r) \/ MoveNumbers(s, r)
        BY <2>5
      <3>2. CASE InsertFrom(s, r)
        BY <3>2, InsertKeeps
      <3>3. CASE CopyNumbers(s, r)
        <4>1. sorted[r] \in InOrder /\ ItemsOf(sorted[r]) = members[r]
          BY DEF ArraySetInv
        <4>2. QED
          BY <3>3, <4>1, StandsKeeps DEF CopyNumbers
      <3>4. CASE MoveNumbers(s, r)
        BY <3>4, MoveNumbersKeeps
      <3>5. QED
        BY <3>1, <3>2, <3>3, <3>4
    <2>6. QED
      BY <2>1, <2>2, <2>3, <2>4, <2>5
  <1>3. QED
    BY <1>1, <1>2

\* What the invariant says
LEMMA ArraySetInvFacts == ArraySetInv => ArraySetTypeOK /\ ArraySetRight
  <1> SUFFICES ASSUME ArraySetInv PROVE ArraySetTypeOK /\ ArraySetRight
    OBVIOUS
  <1>1. ASSUME NEW s \in SortedSets
        PROVE  /\ sorted[s] \in InOrder /\ sorted[s] \in Seq(Numbers)
               /\ {sorted[s][k] : k \in DOMAIN sorted[s]} = members[s]
               /\ \A k \in 1 .. Len(sorted[s]) - 1 : sorted[s][k] < sorted[s][k + 1]
               /\ \A v \in Numbers : Found(sorted[s], v) <=> v \in members[s]
    <2> DEFINE e == sorted[s]
    <2>1. e \in InOrder /\ ItemsOf(e) = members[s]
      BY DEF ArraySetInv
    <2> HIDE DEF e
    <2>2. e \in Seq(Numbers) /\ Rising(e) /\ Len(e) \in Nat
      BY <2>1, InOrderFacts
    <2>3. {e[k] : k \in DOMAIN e} = members[s]
      BY <2>1 DEF ItemsOf
    <2>4. \A k \in 1 .. Len(e) - 1 : e[k] < e[k + 1]
      <3>1. \A k \in 1 .. Len(e) - 1 : k \in 1 .. Len(e) /\ k + 1 \in 1 .. Len(e) /\ k < k + 1
        BY <2>2
      <3>2. QED
        BY <2>2, <3>1 DEF Rising
    <2>5. \A v \in Numbers : Found(e, v) <=> v \in members[s]
      BY <2>1, <2>2, FoundItems
    <2>6. QED
      BY <2>1, <2>2, <2>3, <2>4, <2>5 DEF e
  <1>2. ASSUME NEW s \in SortedSets, NEW r \in SortedSets
        PROVE  IsSubsetOf(sorted[s], sorted[r]) <=> members[s] \subseteq members[r]
    <2>1. /\ sorted[s] \in InOrder /\ ItemsOf(sorted[s]) = members[s]
          /\ sorted[r] \in InOrder /\ ItemsOf(sorted[r]) = members[r]
      BY DEF ArraySetInv
    <2>2. QED
      BY <2>1, SubsetsDecided
  <1>3. ArraySetTypeOK
    BY <1>1 DEF ArraySetTypeOK, ArraySetInv
  <1>4. QED
    BY <1>1, <1>2, <1>3 DEF ArraySetRight

\* ArraySet: every array is sorted and holds the set that the calls add up to, the binary
\* search finds what is there and nothing else, and isSubsetOf decides right.
THEOREM ArraySetsAreRight == ArraySetSpec => [](ArraySetTypeOK /\ ArraySetRight)
  <1>1. ArraySetInit => ArraySetInv
    BY NothingInOrder DEF ArraySetInit, ArraySetInv
  <1>2. QED
    BY <1>1, ArraySetStep, ArraySetInvFacts, PTL DEF ArraySetSpec

----------------------------------------------------------------------------
(* Nodes that are linked both ways *)

\* A node, and the node at place k of a path p, or none
Linking(v, m, n) == [value |-> v, previous |-> m, next |-> n]
PathAt(none, p, k) == IF k \in 1 .. Len(p) THEN p[k] ELSE none

\* A path meets no address twice.
Path(b, p) ==
    /\ p \in Seq(1 .. b)
    /\ \A i, j \in 1 .. Len(p) : p[i] = p[j] => i = j

\* The nodes on it
NodesIn(p) == {p[k] : k \in 1 .. Len(p)}

\* The nodes of the path hold vs and are linked, forward and backward.
Linked(none, h, p, vs) ==
    \A k \in 1 .. Len(p) :
       /\ p[k] \in DOMAIN h
       /\ h[p[k]] = Linking(vs[k], PathAt(none, p, k - 1), PathAt(none, p, k + 1))

\* A heap of addresses up to b has this path, and the nodes of O besides.
Chained(b, none, h, p, vs, O) ==
    /\ Path(b, p) /\ Len(vs) = Len(p) /\ Linked(none, h, p, vs)
    /\ DOMAIN h = NodesIn(p) \cup O /\ NodesIn(p) \cap O = {} /\ O \subseteq 1 .. b

\* The nodes of O are the same in both heaps.
SameNodes(O, h, g) == \A m \in O : g[m] = h[m]

\* A path
LEMMA PathFacts ==
    ASSUME NEW b \in Nat, NEW p, Path(b, p)
    PROVE  /\ p \in Seq(1 .. b) /\ Len(p) \in Nat /\ DOMAIN p = 1 .. Len(p)
           /\ \A k \in 1 .. Len(p) : p[k] \in 1 .. b
           /\ \A i, j \in 1 .. Len(p) : p[i] = p[j] => i = j
           /\ NodesIn(p) \subseteq 1 .. b
  BY DEF Path, NodesIn

\* It is no longer than there are addresses, and has as many nodes as places.
LEMMA PathLength ==
    ASSUME NEW b \in Nat, NEW p, Path(b, p)
    PROVE  /\ Len(p) <= b
           /\ IsFiniteSet(NodesIn(p)) /\ Cardinality(NodesIn(p)) = Len(p)
  <1> DEFINE S == 1 .. Len(p)
             T == NodesIn(p)
  <1>1. /\ Len(p) \in Nat /\ \A k \in S : p[k] \in 1 .. b
        /\ \A i, j \in S : p[i] = p[j] => i = j
        /\ DOMAIN p = S /\ T \subseteq 1 .. b /\ p \in [S -> 1 .. b]
    BY PathFacts
  <1>2. p \in [S -> T]
    BY <1>1 DEF NodesIn
  <1>3. \A x \in T : \E i \in S : p[i] = x
    BY DEF NodesIn
  <1>4. IsFiniteSet(S) /\ Cardinality(S) = Len(p)
    <2>1. \A n \in Nat : IsFiniteSet(1 .. n) /\ Cardinality(1 .. n) = n
      BY FS_Interval
    <2>2. QED
      BY <1>1, <2>1
  <1>5. IsFiniteSet(1 .. b) /\ Cardinality(1 .. b) = b
    BY FS_Interval
  <1> HIDE DEF S, T
  <1>6. p \in Surjection(S, T) /\ p \in Injection(S, T)
    BY <1>1, <1>2, <1>3 DEF Injection, IsInjective, Surjection
  <1>7. IsFiniteSet(T) /\ Cardinality(T) = Cardinality(S)
    BY <1>4, <1>6, FS_Surjection
  <1>8. Cardinality(T) <= Cardinality(1 .. b)
    BY <1>1, <1>5, FS_Subset
  <1>9. QED
    BY <1>4, <1>5, <1>7, <1>8 DEF T

\* One item before a sequence
LEMMA BeforeFacts ==
    ASSUME NEW S, NEW s \in Seq(S), NEW v \in S
    PROVE  /\ <<v>> \o s \in Seq(S) /\ Len(<<v>> \o s) = Len(s) + 1 /\ (<<v>> \o s)[1] = v
           /\ \A k \in 2 .. Len(s) + 1 : (<<v>> \o s)[k] = s[k - 1]
  OBVIOUS

\* A change of a node
LEMMA LinkingFields ==
    ASSUME NEW v, NEW m, NEW n, NEW c
    PROVE  /\ [Linking(v, m, n) EXCEPT !.next = c] = Linking(v, m, c)
           /\ [Linking(v, m, n) EXCEPT !.previous = c] = Linking(v, c, n)
           /\ [Linking(v, m, n) EXCEPT !.value = c] = Linking(c, m, n)
           /\ Linking(v, m, n).value = v
           /\ Linking(v, m, n).previous = m
           /\ Linking(v, m, n).next = n
  BY DEF Linking

\* A node has come at the end.
Lengthened(none, h, p, v, n, g) ==
    /\ DOMAIN g = DOMAIN h \cup {n} /\ g[n] = Linking(v, PathAt(none, p, Len(p)), none)
    /\ Len(p) # 0 => g[p[Len(p)]] = [h[p[Len(p)]] EXCEPT !.next = n]
    /\ \A m \in DOMAIN h : m # PathAt(none, p, Len(p)) => g[m] = h[m]

\* A node at the end
LEMMA ChainedLonger ==
    ASSUME NEW b \in Nat, NEW none, none \notin 1 .. b, NEW S, NEW h, NEW p, NEW vs \in Seq(S),
           NEW O, Chained(b, none, h, p, vs, O), NEW v \in S, NEW n \in 1 .. b,
           n \notin DOMAIN h, NEW g, Lengthened(none, h, p, v, n, g)
    PROVE  /\ Chained(b, none, g, Append(p, n), Append(vs, v), O)
           /\ SameNodes(O, h, g)
  <1> DEFINE d == Len(p)
             q == Append(p, n)
             ws == Append(vs, v)
  <1>1. /\ p \in Seq(1 .. b) /\ d \in Nat /\ \A k \in 1 .. d : p[k] \in 1 .. b
        /\ \A i, j \in 1 .. d : p[i] = p[j] => i = j
    BY PathFacts DEF Chained
  <1>2. /\ Len(vs) = d /\ DOMAIN h = NodesIn(p) \cup O /\ NodesIn(p) \cap O = {}
        /\ O \subseteq 1 .. b
        /\ \A k \in 1 .. d :
             /\ p[k] \in DOMAIN h
             /\ h[p[k]] = Linking(vs[k], PathAt(none, p, k - 1), PathAt(none, p, k + 1))
    BY DEF Chained, Linked
  <1>3. /\ q \in Seq(1 .. b) /\ Len(q) = d + 1 /\ \A k \in 1 .. d : q[k] = p[k]
        /\ q[d + 1] = n
    BY <1>1
  <1>4. ws \in Seq(S) /\ Len(ws) = d + 1 /\ (\A k \in 1 .. d : ws[k] = vs[k]) /\ ws[d + 1] = v
    BY <1>2
  <1>0. /\ DOMAIN g = DOMAIN h \cup {n} /\ g[n] = Linking(v, PathAt(none, p, d), none)
        /\ d # 0 => g[p[d]] = [h[p[d]] EXCEPT !.next = n]
        /\ \A m \in DOMAIN h : m # PathAt(none, p, d) => g[m] = h[m]
    BY DEF Lengthened
  <1> HIDE DEF q, ws
  <1>5. \A k \in 1 .. d + 1 : k \in 1 .. d \/ k = d + 1
    BY <1>1
  <1>6. \A k \in 1 .. d : p[k] # n
    BY <1>2
  <1>7. Path(b, q)
    <2>1. ASSUME NEW i \in 1 .. d + 1, NEW j \in 1 .. d + 1, q[i] = q[j] PROVE i = j
      <3>1. CASE i = d + 1
        BY <1>3, <1>5, <1>6, <2>1, <3>1
      <3>2. CASE i \in 1 .. d
        BY <1>1, <1>3, <1>5, <1>6, <2>1, <3>2
      <3>3. QED
        BY <1>5, <3>1, <3>2
    <2>2. QED
      BY <1>3, <2>1 DEF Path
  <1>8. ASSUME NEW k \in 1 .. d + 1
        PROVE  /\ q[k] \in DOMAIN g
               /\ g[q[k]] = Linking(ws[k], PathAt(none, q, k - 1), PathAt(none, q, k + 1))
    <2>1. CASE k = d + 1
      <3>1. PathAt(none, q, k + 1) = none
        BY <1>1, <1>3, <2>1 DEF PathAt
      <3>2. PathAt(none, q, k - 1) = PathAt(none, p, d)
        BY <1>1, <1>3, <2>1 DEF PathAt
      <3>3. QED
        BY <1>0, <1>3, <1>4, <2>1, <3>1, <3>2
    <2>2. CASE k \in 1 .. d
      <3>1. PathAt(none, q, k - 1) = PathAt(none, p, k - 1)
        <4>1. k - 1 \in 1 .. d + 1 <=> k - 1 \in 1 .. d
          BY <1>1, <2>2
        <4>2. QED
          BY <1>3, <4>1 DEF PathAt
      <3>2. /\ q[k] = p[k] /\ ws[k] = vs[k] /\ p[k] \in DOMAIN h
            /\ h[p[k]] = Linking(vs[k], PathAt(none, p, k - 1), PathAt(none, p, k + 1))
        BY <1>2, <1>3, <1>4, <2>2
      <3>3. CASE k = d
        <4>1. PathAt(none, q, k + 1) = n
          BY <1>1, <1>3, <3>3 DEF PathAt
        <4>2. d # 0
          BY <2>2, <3>3
        <4>3. g[p[d]] = [h[p[d]] EXCEPT !.next = n]
          BY <1>0, <4>2
        <4>4. g[p[d]] = Linking(vs[k], PathAt(none, p, k - 1), n)
          BY <3>2, <3>3, <4>3, LinkingFields
        <4>5. QED
          BY <1>0, <3>1, <3>2, <3>3, <4>1, <4>4
      <3>4. CASE k # d
        <4>1. k + 1 \in 1 .. d
          BY <1>1, <2>2, <3>4
        <4>2. PathAt(none, q, k + 1) = PathAt(none, p, k + 1)
          BY <1>1, <1>3, <4>1 DEF PathAt
        <4>3. p[k] # PathAt(none, p, d)
          BY <1>1, <2>2, <3>4 DEF PathAt
        <4>4. QED
          BY <1>0, <3>1, <3>2, <4>2, <4>3
      <3>5. QED
        BY <3>3, <3>4
    <2>3. QED
      BY <1>5, <2>1, <2>2
  <1>9. NodesIn(q) = NodesIn(p) \cup {n}
    <2>1. ASSUME NEW m \in NodesIn(q) PROVE m \in NodesIn(p) \cup {n}
      <3>1. PICK k \in 1 .. d + 1 : q[k] = m
        BY <1>3 DEF NodesIn
      <3>2. QED
        BY <1>3, <1>5, <3>1 DEF NodesIn
    <2>2. ASSUME NEW m \in NodesIn(p) \cup {n} PROVE m \in NodesIn(q)
      <3>1. (1 .. d) \subseteq 1 .. d + 1 /\ d + 1 \in 1 .. d + 1
        BY <1>1
      <3>2. QED
        BY <1>3, <3>1 DEF NodesIn
    <2>3. QED
      BY <2>1, <2>2
  <1>10. SameNodes(O, h, g)
    <2>1. ASSUME NEW m \in O PROVE m \in DOMAIN h /\ m # PathAt(none, p, d)
      <3>1. m \notin NodesIn(p) /\ m \in 1 .. b /\ m \in DOMAIN h
        BY <1>2
      <3>2. m \in NodesIn(p) \/ m # PathAt(none, p, d)
        BY <3>1 DEF PathAt, NodesIn
      <3>3. QED
        BY <3>1, <3>2
    <2>2. QED
      BY <1>0, <2>1 DEF SameNodes
  <1>11. QED
    BY <1>0, <1>2, <1>3, <1>4, <1>7, <1>8, <1>9, <1>10 DEF Chained, Linked, q, ws

\* A node has come at the beginning.
Preceded(none, h, p, v, n, g) ==
    /\ DOMAIN g = DOMAIN h \cup {n} /\ g[n] = Linking(v, none, PathAt(none, p, 1))
    /\ Len(p) # 0 => g[p[1]] = [h[p[1]] EXCEPT !.previous = n]
    /\ \A m \in DOMAIN h : m # PathAt(none, p, 1) => g[m] = h[m]

\* A node at the beginning
LEMMA ChainedBefore ==
    ASSUME NEW b \in Nat, NEW none, none \notin 1 .. b, NEW S, NEW h, NEW p, NEW vs \in Seq(S),
           NEW O, Chained(b, none, h, p, vs, O), NEW v \in S, NEW n \in 1 .. b,
           n \notin DOMAIN h, NEW g, Preceded(none, h, p, v, n, g)
    PROVE  /\ Chained(b, none, g, <<n>> \o p, <<v>> \o vs, O)
           /\ SameNodes(O, h, g)
  <1> DEFINE d == Len(p)
             q == <<n>> \o p
             ws == <<v>> \o vs
  <1>1. /\ p \in Seq(1 .. b) /\ d \in Nat /\ \A k \in 1 .. d : p[k] \in 1 .. b
        /\ \A i, j \in 1 .. d : p[i] = p[j] => i = j
    BY PathFacts DEF Chained
  <1>2. /\ Len(vs) = d /\ DOMAIN h = NodesIn(p) \cup O /\ NodesIn(p) \cap O = {}
        /\ O \subseteq 1 .. b
        /\ \A k \in 1 .. d :
             /\ p[k] \in DOMAIN h
             /\ h[p[k]] = Linking(vs[k], PathAt(none, p, k - 1), PathAt(none, p, k + 1))
    BY DEF Chained, Linked
  <1>3. /\ q \in Seq(1 .. b) /\ Len(q) = d + 1 /\ q[1] = n
        /\ \A k \in 2 .. d + 1 : q[k] = p[k - 1]
    BY <1>1, BeforeFacts
  <1>4. /\ ws \in Seq(S) /\ Len(ws) = d + 1 /\ ws[1] = v
        /\ \A k \in 2 .. d + 1 : ws[k] = vs[k - 1]
    BY <1>2, BeforeFacts
  <1>0. /\ DOMAIN g = DOMAIN h \cup {n} /\ g[n] = Linking(v, none, PathAt(none, p, 1))
        /\ d # 0 => g[p[1]] = [h[p[1]] EXCEPT !.previous = n]
        /\ \A m \in DOMAIN h : m # PathAt(none, p, 1) => g[m] = h[m]
    BY DEF Preceded
  <1> HIDE DEF q, ws
  <1>5. \A k \in 1 .. d + 1 : k = 1 \/ (k \in 2 .. d + 1 /\ k - 1 \in 1 .. d)
    BY <1>1
  <1>6. \A k \in 1 .. d : p[k] # n
    BY <1>2
  <1>7. Path(b, q)
    <2>1. ASSUME NEW i \in 1 .. d + 1, NEW j \in 1 .. d + 1, q[i] = q[j] PROVE i = j
      <3>1. CASE i = 1
        BY <1>3, <1>5, <1>6, <2>1, <3>1
      <3>2. CASE i # 1 /\ j = 1
        BY <1>3, <1>5, <1>6, <2>1, <3>2
      <3>3. CASE i # 1 /\ j # 1
        <4>1. q[i] = p[i - 1] /\ q[j] = p[j - 1] /\ i - 1 \in 1 .. d /\ j - 1 \in 1 .. d
          BY <1>3, <1>5, <3>3
        <4>2. i - 1 = j - 1
          BY <1>1, <2>1, <4>1
        <4>3. QED
          BY <4>2
      <3>4. QED
        BY <3>1, <3>2, <3>3
    <2>2. QED
      BY <1>3, <2>1 DEF Path
  <1>8. ASSUME NEW k \in 1 .. d + 1
        PROVE  /\ q[k] \in DOMAIN g
               /\ g[q[k]] = Linking(ws[k], PathAt(none, q, k - 1), PathAt(none, q, k + 1))
    <2>0. PathAt(none, q, k + 1) = PathAt(none, p, k)
      <3>1. k + 1 \in 1 .. d + 1 <=> k \in 1 .. d
        BY <1>1
      <3>2. k \in 1 .. d => q[k + 1] = p[k]
        <4>1. k \in 1 .. d => k + 1 \in 2 .. d + 1 /\ (k + 1) - 1 = k
          BY <1>1
        <4>2. QED
          BY <1>3, <4>1
      <3>3. QED
        BY <1>3, <3>1, <3>2 DEF PathAt
    <2>1. CASE k = 1
      <3>1. PathAt(none, q, k - 1) = none
        BY <1>1, <1>3, <2>1 DEF PathAt
      <3>2. QED
        BY <1>0, <1>3, <1>4, <2>0, <2>1, <3>1
    <2>2. CASE k # 1
      <3> DEFINE i == k - 1
      <3>1. i \in 1 .. d /\ k \in 2 .. d + 1 /\ i \in Nat /\ k = i + 1
        BY <1>5, <2>2
      <3>2. /\ q[k] = p[i] /\ ws[k] = vs[i] /\ p[i] \in DOMAIN h
            /\ h[p[i]] = Linking(vs[i], PathAt(none, p, i - 1), PathAt(none, p, i + 1))
        BY <1>2, <1>3, <1>4, <3>1
      <3>3. PathAt(none, q, k - 1) = q[i]
        BY <1>1, <1>3, <3>1 DEF PathAt
      <3> HIDE DEF i
      <3>4. CASE i = 1
        <4>1. q[i] = n /\ d # 0
          BY <1>3, <3>1, <3>4
        <4>2. g[p[1]] = [h[p[1]] EXCEPT !.previous = n]
          BY <1>0, <4>1
        <4>3. g[p[i]] = Linking(vs[i], n, PathAt(none, p, i + 1))
          BY <3>2, <3>4, <4>2, LinkingFields
        <4>4. QED
          BY <1>0, <2>0, <3>1, <3>2, <3>3, <4>1, <4>3
      <3>5. CASE i # 1
        <4>1. i - 1 \in 1 .. d /\ i \in 2 .. d + 1
          BY <1>1, <3>1, <3>5
        <4>2. q[i] = PathAt(none, p, i - 1)
          BY <1>3, <4>1 DEF PathAt
        <4>3. p[i] # PathAt(none, p, 1)
          BY <1>1, <3>1, <3>5 DEF PathAt
        <4>4. QED
          BY <1>0, <2>0, <3>1, <3>2, <3>3, <4>2, <4>3
      <3>6. QED
        BY <3>4, <3>5
    <2>3. QED
      BY <2>1, <2>2
  <1>9. NodesIn(q) = NodesIn(p) \cup {n}
    <2>1. ASSUME NEW m \in NodesIn(q) PROVE m \in NodesIn(p) \cup {n}
      <3>1. PICK k \in 1 .. d + 1 : q[k] = m
        BY <1>3 DEF NodesIn
      <3>2. QED
        BY <1>3, <1>5, <3>1 DEF NodesIn
    <2>2. ASSUME NEW m \in NodesIn(p) \cup {n} PROVE m \in NodesIn(q)
      <3>1. /\ 1 \in 1 .. d + 1
            /\ \A k \in 1 .. d : k + 1 \in 1 .. d + 1 /\ k + 1 \in 2 .. d + 1 /\ (k + 1) - 1 = k
        BY <1>1
      <3>2. CASE m = n
        BY <1>3, <3>1, <3>2 DEF NodesIn
      <3>3. CASE m \in NodesIn(p)
        <4>1. PICK k \in 1 .. d : p[k] = m
          BY <3>3 DEF NodesIn
        <4>2. q[k + 1] = m /\ k + 1 \in 1 .. d + 1
          BY <1>3, <3>1, <4>1
        <4>3. QED
          BY <1>3, <4>2 DEF NodesIn
      <3>4. QED
        BY <2>2, <3>2, <3>3
    <2>3. QED
      BY <2>1, <2>2
  <1>10. SameNodes(O, h, g)
    <2>1. ASSUME NEW m \in O PROVE m \in DOMAIN h /\ m # PathAt(none, p, 1)
      <3>1. m \notin NodesIn(p) /\ m \in 1 .. b /\ m \in DOMAIN h
        BY <1>2
      <3>2. m \in NodesIn(p) \/ m # PathAt(none, p, 1)
        BY <3>1 DEF PathAt, NodesIn
      <3>3. QED
        BY <3>1, <3>2
    <2>2. QED
      BY <1>0, <2>1 DEF SameNodes
  <1>11. QED
    BY <1>0, <1>2, <1>3, <1>4, <1>7, <1>8, <1>9, <1>10 DEF Chained, Linked, q, ws

\* What is left of a sequence without item k
SkipItem(s, k) == SubSeq(s, 1, k - 1) \o SubSeq(s, k + 1, Len(s))

\* Its items
LEMMA SkipItemFacts ==
    ASSUME NEW S, NEW s \in Seq(S), NEW k \in 1 .. Len(s)
    PROVE  /\ SkipItem(s, k) \in Seq(S) /\ Len(SkipItem(s, k)) = Len(s) - 1
           /\ \A i \in 1 .. k - 1 : SkipItem(s, k)[i] = s[i]
           /\ \A i \in k .. Len(s) - 1 : SkipItem(s, k)[i] = s[i + 1]
  <1> DEFINE d == Len(s)
             a == SubSeq(s, 1, k - 1)
             c == SubSeq(s, k + 1, d)
             w == SkipItem(s, k)
  <1>1. d \in Nat /\ k \in Nat /\ k >= 1 /\ k <= d
    OBVIOUS
  <1>2. a \in Seq(S) /\ Len(a) = k - 1 /\ \A i \in 1 .. k - 1 : a[i] = s[i]
    BY <1>1
  <1>3. c \in Seq(S) /\ Len(c) = d - k /\ \A i \in 1 .. d - k : c[i] = s[k + i]
    <2> HIDE DEF d
    <2>1. d <= Len(s)
      BY <1>1 DEF d
    <2>2. QED
      BY <1>1, <2>1, PartFacts
  <1>4. w = a \o c
    BY DEF SkipItem
  <1> HIDE DEF a, c, w, d
  <1>5. /\ a \o c \in Seq(S) /\ Len(a \o c) = Len(a) + Len(c)
        /\ \A i \in 1 .. Len(a) : (a \o c)[i] = a[i]
        /\ \A i \in Len(a) + 1 .. Len(a) + Len(c) : (a \o c)[i] = c[i - Len(a)]
    <2>1. a \in Seq(S) /\ c \in Seq(S)
      BY <1>2, <1>3
    <2>2. QED
      BY <2>1, JoinFacts
  <1>6. Len(a) + Len(c) = d - 1 /\ Len(a) + 1 = k
    BY <1>1, <1>2, <1>3
  <1>7. \A i \in k .. d - 1 : i - Len(a) \in 1 .. d - k /\ k + (i - Len(a)) = i + 1
    BY <1>1, <1>2
  <1>8. /\ w \in Seq(S) /\ Len(w) = d - 1
        /\ \A i \in 1 .. k - 1 : w[i] = s[i]
        /\ \A i \in k .. d - 1 : w[i] = s[i + 1]
    BY <1>2, <1>3, <1>4, <1>5, <1>6, <1>7
  <1>9. QED
    BY <1>8 DEF w, d

\* The node at place k has gone.
Shortened(none, h, p, k, g) ==
    /\ DOMAIN g = DOMAIN h \ {p[k]}
    /\ k > 1 => g[p[k - 1]] = [h[p[k - 1]] EXCEPT !.next = PathAt(none, p, k + 1)]
    /\ k < Len(p) => g[p[k + 1]] = [h[p[k + 1]] EXCEPT !.previous = PathAt(none, p, k - 1)]
    /\ \A m \in DOMAIN h \ {p[k], PathAt(none, p, k - 1), PathAt(none, p, k + 1)} :
          g[m] = h[m]

\* A node less
LEMMA ChainedShorter ==
    ASSUME NEW b \in Nat, NEW none, none \notin 1 .. b, NEW S, NEW h, NEW p, NEW vs \in Seq(S),
           NEW O, Chained(b, none, h, p, vs, O), NEW k \in 1 .. Len(p), NEW g,
           Shortened(none, h, p, k, g)
    PROVE  /\ Chained(b, none, g, SkipItem(p, k), SkipItem(vs, k), O)
           /\ SameNodes(O, h, g)
  <1> DEFINE d == Len(p)
             q == SkipItem(p, k)
             ws == SkipItem(vs, k)
  <1>1. /\ p \in Seq(1 .. b) /\ d \in Nat /\ \A i \in 1 .. d : p[i] \in 1 .. b
        /\ \A i, j \in 1 .. d : p[i] = p[j] => i = j
        /\ k \in Nat /\ k >= 1 /\ k <= d
    <2>1. /\ p \in Seq(1 .. b) /\ d \in Nat /\ \A i \in 1 .. d : p[i] \in 1 .. b
          /\ \A i, j \in 1 .. d : p[i] = p[j] => i = j
      BY PathFacts DEF Chained
    <2>2. k \in 1 .. d
      OBVIOUS
    <2> HIDE DEF d
    <2>3. QED
      BY <2>1, <2>2
  <1>2. /\ Len(vs) = d /\ DOMAIN h = NodesIn(p) \cup O /\ NodesIn(p) \cap O = {}
        /\ O \subseteq 1 .. b
        /\ \A i \in 1 .. d :
             /\ p[i] \in DOMAIN h
             /\ h[p[i]] = Linking(vs[i], PathAt(none, p, i - 1), PathAt(none, p, i + 1))
    BY DEF Chained, Linked
  <1>3. /\ q \in Seq(1 .. b) /\ Len(q) = d - 1
        /\ \A i \in 1 .. k - 1 : q[i] = p[i]
        /\ \A i \in k .. d - 1 : q[i] = p[i + 1]
    <2>1. p \in Seq(1 .. b)
      BY <1>1
    <2>2. QED
      BY <2>1, SkipItemFacts
  <1>4. /\ ws \in Seq(S) /\ Len(ws) = d - 1
        /\ \A i \in 1 .. k - 1 : ws[i] = vs[i]
        /\ \A i \in k .. d - 1 : ws[i] = vs[i + 1]
    <2>1. k \in 1 .. Len(vs)
      BY <1>2
    <2>2. /\ ws \in Seq(S) /\ Len(ws) = Len(vs) - 1
          /\ \A i \in 1 .. k - 1 : ws[i] = vs[i]
          /\ \A i \in k .. Len(vs) - 1 : ws[i] = vs[i + 1]
      BY <2>1, SkipItemFacts
    <2>3. QED
      BY <1>2, <2>2
  <1>0. /\ k > 1 => g[p[k - 1]] = [h[p[k - 1]] EXCEPT !.next = PathAt(none, p, k + 1)]
        /\ k < d => g[p[k + 1]] = [h[p[k + 1]] EXCEPT !.previous = PathAt(none, p, k - 1)]
        /\ DOMAIN g = DOMAIN h \ {p[k]}
        /\ \A m \in DOMAIN h \ {p[k], PathAt(none, p, k - 1), PathAt(none, p, k + 1)} :
              g[m] = h[m]
    BY DEF Shortened
  <1> HIDE DEF q, ws, d
  <1> DEFINE From(i) == IF i < k THEN i ELSE i + 1
  <1>5. ASSUME NEW i \in 1 .. d - 1
        PROVE  /\ From(i) \in 1 .. d /\ From(i) # k
               /\ q[i] = p[From(i)] /\ ws[i] = vs[From(i)]
    <2>1. CASE i < k
      <3>1. i \in 1 .. k - 1 /\ i \in 1 .. d /\ From(i) = i /\ i # k
        BY <1>1, <2>1
      <3>2. QED
        BY <1>3, <1>4, <3>1
    <2>2. CASE ~(i < k)
      <3>1. i \in k .. d - 1 /\ i + 1 \in 1 .. d /\ From(i) = i + 1 /\ i + 1 # k
        BY <1>1, <2>2
      <3>2. QED
        BY <1>3, <1>4, <3>1
    <2>3. QED
      BY <2>1, <2>2
  <1>6. ASSUME NEW i \in 0 .. d
        PROVE  PathAt(none, q, i) = IF i < k THEN PathAt(none, p, i) ELSE PathAt(none, p, i + 1)
    <2>1. CASE i < k
      <3>1. i \in 1 .. d - 1 <=> i \in 1 .. d
        BY <1>1, <2>1
      <3>2. i \in 1 .. d - 1 => q[i] = p[i]
        BY <1>1, <1>3, <2>1
      <3>3. QED
        BY <1>3, <2>1, <3>1, <3>2 DEF PathAt, d
    <2>2. CASE ~(i < k)
      <3>1. i \in 1 .. d - 1 <=> i + 1 \in 1 .. d
        BY <1>1, <2>2
      <3>2. i \in 1 .. d - 1 => q[i] = p[i + 1]
        BY <1>1, <1>3, <2>2
      <3>3. QED
        BY <1>3, <2>2, <3>1, <3>2 DEF PathAt, d
    <2>3. QED
      BY <2>1, <2>2
  <1>7. Path(b, q)
    <2>1. ASSUME NEW i \in 1 .. d - 1, NEW j \in 1 .. d - 1, q[i] = q[j] PROVE i = j
      <3>1. From(i) = From(j)
        BY <1>1, <1>5, <2>1, ZenonT(60)
      <3>2. QED
        BY <1>1, <3>1
    <2>2. QED
      BY <1>3, <2>1 DEF Path, d
  <1>8. ASSUME NEW i \in 1 .. d - 1
        PROVE  /\ q[i] \in DOMAIN g
               /\ g[q[i]] = Linking(ws[i], PathAt(none, q, i - 1), PathAt(none, q, i + 1))
    <2> DEFINE j == From(i)
    <2>1. j \in 1 .. d /\ j # k /\ q[i] = p[j] /\ ws[i] = vs[j] /\ j \in Nat
      <3>1. j \in 1 .. d /\ j # k /\ q[i] = p[j] /\ ws[i] = vs[j]
        BY <1>5
      <3> HIDE DEF j
      <3>2. QED
        BY <1>1, <3>1
    <2>2. /\ PathAt(none, q, i - 1) = IF j = k + 1 THEN PathAt(none, p, k - 1)
                                      ELSE PathAt(none, p, j - 1)
          /\ PathAt(none, q, i + 1) = IF j = k - 1 THEN PathAt(none, p, k + 1)
                                      ELSE PathAt(none, p, j + 1)
      <3>1. i - 1 \in 0 .. d /\ i + 1 \in 0 .. d /\ i \in Nat
        BY <1>1
      <3>2. PathAt(none, q, i - 1) = IF i - 1 < k THEN PathAt(none, p, i - 1)
                                     ELSE PathAt(none, p, (i - 1) + 1)
        BY <1>6, <3>1
      <3>3. PathAt(none, q, i + 1) = IF i + 1 < k THEN PathAt(none, p, i + 1)
                                     ELSE PathAt(none, p, (i + 1) + 1)
        BY <1>6, <3>1
      <3>4. CASE i < k
        <4>1. j = i /\ i - 1 < k /\ i # k + 1
          BY <1>1, <3>1, <3>4
        <4>2. CASE i + 1 < k
          <5>1. i # k - 1
            BY <1>1, <3>1, <4>2
          <5> HIDE DEF j
          <5>2. QED
            BY <3>2, <3>3, <4>1, <4>2, <5>1
        <4>3. CASE ~(i + 1 < k)
          <5>1. i = k - 1 /\ (i + 1) + 1 = k + 1
            BY <1>1, <3>1, <3>4, <4>3
          <5> HIDE DEF j
          <5>2. QED
            BY <3>2, <3>3, <4>1, <4>3, <5>1
        <4>4. QED
          BY <4>2, <4>3
      <3>5. CASE ~(i < k)
        <4>1. /\ j = i + 1 /\ ~(i + 1 < k) /\ j + 1 = (i + 1) + 1 /\ j # k - 1
              /\ j - 1 = i /\ (i - 1) + 1 = i
          BY <1>1, <3>1, <3>5
        <4>2. CASE i = k
          <5>1. i - 1 < k /\ j = k + 1 /\ i - 1 = k - 1
            BY <1>1, <3>1, <4>1, <4>2
          <5> HIDE DEF j
          <5>2. QED
            BY <3>2, <3>3, <4>1, <5>1
        <4>3. CASE i # k
          <5>1. ~(i - 1 < k) /\ j # k + 1
            BY <1>1, <3>1, <3>5, <4>1, <4>3
          <5> HIDE DEF j
          <5>2. QED
            BY <3>2, <3>3, <4>1, <5>1
        <4>4. QED
          BY <4>2, <4>3
      <3>6. QED
        BY <3>4, <3>5
    <2> HIDE DEF j, From
    <2>3. /\ p[j] \in DOMAIN h /\ p[j] # p[k]
          /\ h[p[j]] = Linking(vs[j], PathAt(none, p, j - 1), PathAt(none, p, j + 1))
      <3>1. p[j] # p[k]
        BY <1>1, <2>1 DEF d
      <3>2. QED
        BY <1>2, <2>1, <3>1
    <2>4. CASE j = k - 1
      <3>1. k > 1 /\ j # k + 1
        BY <1>1, <2>1, <2>4
      <3>2. g[p[k - 1]] = [h[p[k - 1]] EXCEPT !.next = PathAt(none, p, k + 1)]
        BY <1>0, <3>1
      <3>3. g[p[j]] = Linking(vs[j], PathAt(none, p, j - 1), PathAt(none, p, k + 1))
        BY <2>3, <2>4, <3>2, LinkingFields, SMTT(30)
      <3>4. QED
        BY <1>0, <2>1, <2>2, <2>3, <2>4, <3>1, <3>3
    <2>5. CASE j = k + 1
      <3>1. k < d /\ j # k - 1
        BY <1>1, <2>1, <2>5
      <3>2. g[p[k + 1]] = [h[p[k + 1]] EXCEPT !.previous = PathAt(none, p, k - 1)]
        BY <1>0, <3>1
      <3>3. g[p[j]] = Linking(vs[j], PathAt(none, p, k - 1), PathAt(none, p, j + 1))
        <4>1. h[p[k + 1]] = Linking(vs[j], PathAt(none, p, j - 1), PathAt(none, p, j + 1))
          BY <2>3, <2>5
        <4>2. QED
          BY <2>5, <3>2, <4>1, LinkingFields, SMTT(30)
      <3>4. QED
        BY <1>0, <2>1, <2>2, <2>3, <2>5, <3>1, <3>3
    <2>6. CASE j # k - 1 /\ j # k + 1
      <3>1. p[j] # PathAt(none, p, k - 1) /\ p[j] # PathAt(none, p, k + 1)
        BY <1>1, <2>1, <2>6 DEF PathAt, d
      <3>2. g[p[j]] = h[p[j]]
        BY <1>0, <2>3, <3>1
      <3>3. QED
        BY <1>0, <2>1, <2>2, <2>3, <2>6, <3>2
    <2>7. QED
      BY <2>4, <2>5, <2>6
  <1>9. NodesIn(q) = NodesIn(p) \ {p[k]}
    <2>1. ASSUME NEW m \in NodesIn(q) PROVE m \in NodesIn(p) \ {p[k]}
      <3>1. PICK i \in 1 .. d - 1 : q[i] = m
        BY <1>3 DEF NodesIn, d
      <3>2. m = p[From(i)] /\ From(i) \in 1 .. d /\ From(i) # k
        BY <1>5, <3>1
      <3> HIDE DEF From
      <3>3. QED
        BY <1>1, <3>2 DEF NodesIn, d
    <2>2. ASSUME NEW m \in NodesIn(p) \ {p[k]} PROVE m \in NodesIn(q)
      <3>1. PICK i \in 1 .. d : p[i] = m
        BY DEF NodesIn, d
      <3>2. i # k
        BY <3>1
      <3>3. CASE i < k
        <4>1. i \in 1 .. k - 1 /\ i \in 1 .. d - 1
          BY <1>1, <3>3
        <4>2. QED
          BY <1>3, <3>1, <4>1 DEF NodesIn, d
      <3>4. CASE i > k
        <4>1. i - 1 \in k .. d - 1 /\ i - 1 \in 1 .. d - 1 /\ (i - 1) + 1 = i
          BY <1>1, <3>4
        <4>2. QED
          BY <1>3, <3>1, <4>1 DEF NodesIn, d
      <3>5. QED
        BY <1>1, <3>2, <3>3, <3>4
    <2>3. QED
      BY <2>1, <2>2
  <1>10. p[k] \in NodesIn(p)
    BY <1>1 DEF NodesIn, d
  <1>11. SameNodes(O, h, g)
    <2>1. ASSUME NEW m \in O, NEW i \in {k - 1, k, k + 1} PROVE m # PathAt(none, p, i)
      <3>1. m \notin NodesIn(p) /\ m \in 1 .. b
        BY <1>2
      <3>2. QED
        BY <3>1 DEF PathAt, NodesIn
    <2>2. PathAt(none, p, k) = p[k]
      BY <1>1 DEF PathAt, d
    <2>3. \A m \in O : m \in DOMAIN h \ {p[k], PathAt(none, p, k - 1), PathAt(none, p, k + 1)}
      BY <1>2, <2>1, <2>2
    <2>4. QED
      BY <1>0, <2>3 DEF SameNodes
  <1>12. DOMAIN g = NodesIn(q) \cup O /\ NodesIn(q) \cap O = {}
    BY <1>0, <1>2, <1>9, <1>10
  <1>13. QED
    BY <1>2, <1>3, <1>4, <1>7, <1>8, <1>11, <1>12 DEF Chained, Linked, q, ws, d

\* The node at place k has another value.
Revalued(h, p, k, v, g) ==
    /\ DOMAIN g = DOMAIN h /\ g[p[k]] = [h[p[k]] EXCEPT !.value = v]
    /\ \A m \in DOMAIN h \ {p[k]} : g[m] = h[m]

\* Another value in a node
LEMMA ChainedValue ==
    ASSUME NEW b \in Nat, NEW none, NEW S, NEW h, NEW p, NEW vs \in Seq(S),
           NEW O, Chained(b, none, h, p, vs, O), NEW k \in 1 .. Len(p), NEW v \in S, NEW g,
           Revalued(h, p, k, v, g)
    PROVE  /\ Chained(b, none, g, p, [vs EXCEPT ![k] = v], O)
           /\ SameNodes(O, h, g)
  <1> DEFINE d == Len(p)
             ws == [vs EXCEPT ![k] = v]
  <1>1. /\ p \in Seq(1 .. b) /\ d \in Nat /\ \A i \in 1 .. d : p[i] \in 1 .. b
        /\ \A i, j \in 1 .. d : p[i] = p[j] => i = j
    BY PathFacts DEF Chained
  <1>2. /\ Len(vs) = d /\ DOMAIN h = NodesIn(p) \cup O /\ NodesIn(p) \cap O = {}
        /\ O \subseteq 1 .. b /\ Path(b, p)
        /\ \A i \in 1 .. d :
             /\ p[i] \in DOMAIN h
             /\ h[p[i]] = Linking(vs[i], PathAt(none, p, i - 1), PathAt(none, p, i + 1))
    BY DEF Chained, Linked
  <1>3. Len(ws) = d /\ ws[k] = v /\ \A i \in 1 .. d : i # k => ws[i] = vs[i]
    BY <1>2
  <1>0. /\ DOMAIN g = DOMAIN h /\ g[p[k]] = [h[p[k]] EXCEPT !.value = v]
        /\ \A m \in DOMAIN h \ {p[k]} : g[m] = h[m]
    BY DEF Revalued
  <1> HIDE DEF ws
  <1>4. ASSUME NEW i \in 1 .. d
        PROVE  /\ p[i] \in DOMAIN g
               /\ g[p[i]] = Linking(ws[i], PathAt(none, p, i - 1), PathAt(none, p, i + 1))
    <2>1. /\ p[i] \in DOMAIN h
          /\ h[p[i]] = Linking(vs[i], PathAt(none, p, i - 1), PathAt(none, p, i + 1))
      BY <1>2
    <2>2. CASE i = k
      BY <1>0, <1>3, <2>1, <2>2, LinkingFields
    <2>3. CASE i # k
      <3>1. p[i] # p[k]
        BY <1>1, <2>3
      <3>2. QED
        BY <1>0, <1>3, <2>1, <2>3, <3>1
    <2>4. QED
      BY <2>2, <2>3
  <1>5. p[k] \in NodesIn(p)
    BY DEF NodesIn
  <1>6. SameNodes(O, h, g)
    BY <1>0, <1>2, <1>5 DEF SameNodes
  <1>7. QED
    BY <1>0, <1>2, <1>3, <1>4, <1>6 DEF Chained, Linked, ws

\* All nodes of the path have gone.
Emptied(h, p, g) ==
    DOMAIN g = DOMAIN h \ NodesIn(p) /\ \A m \in DOMAIN g : g[m] = h[m]

\* All nodes gone
LEMMA ChainedNone ==
    ASSUME NEW b \in Nat, NEW none, NEW h, NEW p, NEW vs, NEW O, Chained(b, none, h, p, vs, O),
           NEW g, Emptied(h, p, g)
    PROVE  /\ Chained(b, none, g, <<>>, <<>>, O)
           /\ SameNodes(O, h, g)
  <1>1. /\ DOMAIN h = NodesIn(p) \cup O /\ NodesIn(p) \cap O = {} /\ O \subseteq 1 .. b
    BY DEF Chained
  <1>2. DOMAIN g = O
    BY <1>1 DEF Emptied
  <1>3. Len(<<>>) = 0 /\ <<>> \in Seq(1 .. b)
    OBVIOUS
  <1>4. NodesIn(<<>>) = {} /\ Path(b, <<>>) /\ Linked(none, g, <<>>, <<>>)
    BY <1>3 DEF NodesIn, Path, Linked
  <1>5. QED
    BY <1>1, <1>2, <1>3, <1>4 DEF Chained, SameNodes, Emptied

\* Where a walk is after each number of steps
StepsAlong(none, n, to, w) ==
    \A k \in Nat : w[k] = IF k = 0 THEN n
                           ELSE IF w[k - 1] = none THEN none ELSE to[w[k - 1]]

\* The links lead along p from its first node.
LeadsAlong(none, n, to, p) ==
    n = PathAt(none, p, 1) /\ \A k \in 1 .. Len(p) : to[p[k]] = PathAt(none, p, k + 1)

\* What it meets until there is nothing
Trodden(b, none, w) ==
    [k \in 1 .. Cardinality({j \in 0 .. b : w[j] # none}) |-> w[k - 1]]

\* A walk along a path meets its nodes in turn, and then nothing.
LEMMA WalkMeets ==
    ASSUME NEW b \in Nat, NEW none, none \notin 1 .. b, NEW p, Path(b, p), NEW n, NEW to,
           LeadsAlong(none, n, to, p), NEW w, StepsAlong(none, n, to, w)
    PROVE  /\ \A k \in Nat : w[k] = PathAt(none, p, k + 1)
           /\ Trodden(b, none, w) = p
  <1> DEFINE d == Len(p)
             T == {k \in Nat : w[k] = PathAt(none, p, k + 1)}
             J == {j \in 0 .. b : w[j] # none}
  <1>1. /\ p \in Seq(1 .. b) /\ d \in Nat /\ DOMAIN p = 1 .. d
        /\ \A k \in 1 .. d : p[k] \in 1 .. b
    BY PathFacts
  <1>2. n = PathAt(none, p, 1) /\ \A k \in 1 .. d : to[p[k]] = PathAt(none, p, k + 1)
    BY DEF LeadsAlong
  <1>3. d <= b
    BY PathLength
  <1>4. p = [k \in 1 .. d |-> p[k]]
    BY <1>1
  <1> HIDE DEF d
  <1>5. 0 \in T
    BY <1>2 DEF StepsAlong
  <1>6. ASSUME NEW k \in Nat, k \in T PROVE k + 1 \in T
    <2> DEFINE i == k + 1
    <2>1. i \in Nat /\ i # 0 /\ i - 1 = k
      OBVIOUS
    <2>2. w[k] = PathAt(none, p, i)
      BY <1>6
    <2> HIDE DEF i
    <2>3. w[i] = IF w[k] = none THEN none ELSE to[w[k]]
      BY <2>1 DEF StepsAlong
    <2>4. CASE i \in 1 .. d
      <3>1. w[k] = p[i] /\ p[i] # none
        BY <1>1, <2>2, <2>4 DEF PathAt, d
      <3>2. QED
        BY <1>2, <2>1, <2>3, <2>4, <3>1 DEF i
    <2>5. CASE i \notin 1 .. d
      <3>1. w[k] = none
        BY <2>2, <2>5 DEF PathAt, d
      <3>2. i + 1 \notin 1 .. d
        BY <1>1, <2>1, <2>5
      <3>3. PathAt(none, p, i + 1) = none
        BY <3>2 DEF PathAt, d
      <3>4. QED
        BY <2>1, <2>3, <3>1, <3>3 DEF i
    <2>6. QED
      BY <2>4, <2>5
  <1> HIDE DEF T
  <1>7. \A k \in Nat : w[k] = PathAt(none, p, k + 1)
    <2>1. Nat \subseteq T
      BY <1>5, <1>6, CountingUp
    <2>2. QED
      BY <2>1 DEF T
  <1>8. J = 0 .. d - 1
    <2>1. ASSUME NEW j \in 0 .. b PROVE w[j] # none <=> j \in 0 .. d - 1
      <3>1. j \in Nat /\ w[j] = PathAt(none, p, j + 1)
        BY <1>7
      <3>2. j + 1 \in 1 .. d <=> j \in 0 .. d - 1
        BY <1>1, <3>1
      <3>3. QED
        BY <1>1, <3>1, <3>2 DEF PathAt, d
    <2>2. \A j \in 0 .. d - 1 : j \in 0 .. b
      BY <1>1, <1>3
    <2>3. QED
      BY <2>1, <2>2
  <1>9. Cardinality(J) = d
    <2>1. \A m \in Nat : Cardinality(0 .. m - 1) = m
      BY FS_Interval
    <2>2. QED
      BY <1>1, <1>8, <2>1
  <1>10. \A k \in 1 .. d : w[k - 1] = p[k]
    <2> TAKE k \in 1 .. d
    <2>1. k - 1 \in Nat /\ (k - 1) + 1 = k
      BY <1>1
    <2>2. QED
      BY <1>7, <2>1 DEF PathAt, d
  <1> HIDE DEF J
  <1>11. [k \in 1 .. Cardinality(J) |-> w[k - 1]] = p
    BY <1>4, <1>9, <1>10
  <1>12. QED
    BY <1>7, <1>11 DEF J, Trodden

\* The same path the other way round
Backwards(p) == [k \in 1 .. Len(p) |-> p[Len(p) + 1 - k]]

\* It is a path, and leads from where the other ends.
LEMMA BackwardsFacts ==
    ASSUME NEW b \in Nat, NEW none, none \notin 1 .. b, NEW p, Path(b, p)
    PROVE  /\ Path(b, Backwards(p)) /\ Len(Backwards(p)) = Len(p)
           /\ \A k \in Int : PathAt(none, Backwards(p), k) = PathAt(none, p, Len(p) + 1 - k)
  <1> DEFINE d == Len(p)
             r == Backwards(p)
  <1>1. /\ d \in Nat /\ \A k \in 1 .. d : p[k] \in 1 .. b
        /\ \A i, j \in 1 .. d : p[i] = p[j] => i = j
    BY PathFacts
  <1>2. \A k \in 1 .. d : d + 1 - k \in 1 .. d
    BY <1>1
  <1>3. r = [k \in 1 .. d |-> p[d + 1 - k]]
    BY DEF Backwards
  <1> HIDE DEF d, r
  <1>4. r \in [1 .. d -> 1 .. b] /\ \A k \in 1 .. d : r[k] = p[d + 1 - k]
    BY <1>1, <1>2, <1>3
  <1>5. r \in Seq(1 .. b) /\ Len(r) = d
    BY <1>1, <1>4, SequenceOf
  <1>6. Path(b, r)
    <2>1. ASSUME NEW i \in 1 .. d, NEW j \in 1 .. d, r[i] = r[j] PROVE i = j
      <3>1. d + 1 - i = d + 1 - j
        BY <1>1, <1>2, <1>4, <2>1
      <3>2. QED
        BY <1>1, <3>1
    <2>2. QED
      BY <1>5, <2>1 DEF Path
  <1>7. ASSUME NEW k \in Int PROVE PathAt(none, r, k) = PathAt(none, p, d + 1 - k)
    <2>1. k \in 1 .. d <=> d + 1 - k \in 1 .. d
      BY <1>1
    <2>2. k \in 1 .. d => r[k] = p[d + 1 - k]
      BY <1>4
    <2>3. QED
      BY <1>5, <2>1, <2>2 DEF PathAt, d
  <1>8. QED
    BY <1>5, <1>6, <1>7 DEF d, r

\* A walk is defined by its steps.
GoesAlong(none, n, to, f) ==
    f = [k \in Nat |-> IF k = 0 THEN n ELSE IF f[k - 1] = none THEN none ELSE to[f[k - 1]]]

LEMMA DefinedWalk ==
    ASSUME NEW b \in Nat, NEW none, none \notin 1 .. b, NEW p, Path(b, p), NEW n, NEW to,
           LeadsAlong(none, n, to, p), NEW R, R = CHOOSE f : GoesAlong(none, n, to, f)
    PROVE  StepsAlong(none, n, to, R)
  <1> DEFINE d == Len(p)
             One(f, k) == IF k = 0 THEN n ELSE IF f[k - 1] = none THEN none ELSE to[f[k - 1]]
             g == [k \in Nat |-> PathAt(none, p, k + 1)]
  <1>1. d \in Nat /\ \A k \in 1 .. d : p[k] \in 1 .. b
    BY PathFacts
  <1>2. n = PathAt(none, p, 1) /\ \A k \in 1 .. d : to[p[k]] = PathAt(none, p, k + 1)
    BY DEF LeadsAlong
  <1>3. none \notin 1 .. b
    OBVIOUS
  <1> HIDE DEF d
  <1>4. ASSUME NEW k \in Nat PROVE g[k] = One(g, k)
    <2>1. g[k] = PathAt(none, p, k + 1)
      OBVIOUS
    <2>2. CASE k = 0
      BY <1>2, <2>1, <2>2
    <2>3. CASE k # 0
      <3>1. g[k - 1] = PathAt(none, p, k)
        <4>1. k - 1 \in Nat /\ (k - 1) + 1 = k
          BY <2>3
        <4>2. QED
          BY <4>1
      <3> HIDE DEF g
      <3>2. CASE k \in 1 .. d
        <4>1. g[k - 1] = p[k] /\ p[k] # none
          BY <1>1, <1>3, <3>1, <3>2 DEF PathAt, d
        <4>2. QED
          BY <1>2, <2>1, <2>3, <3>2, <4>1
      <3>3. CASE k \notin 1 .. d
        <4>1. g[k - 1] = none
          BY <3>1, <3>3 DEF PathAt, d
        <4>2. k + 1 \notin 1 .. d
          BY <1>1, <2>3, <3>3
        <4>3. g[k] = none
          BY <2>1, <4>2 DEF PathAt, d
        <4>4. QED
          BY <2>3, <4>1, <4>3
      <3>4. QED
        BY <3>2, <3>3
    <2>4. QED
      BY <2>2, <2>3
  <1>5. g = [k \in Nat |-> g[k]]
    OBVIOUS
  <1> HIDE DEF g
  <1>6. GoesAlong(none, n, to, g)
    BY <1>4, <1>5 DEF GoesAlong
  <1>7. GoesAlong(none, n, to, R)
    BY <1>6
  <1>8. R = [k \in Nat |-> One(R, k)]
    BY <1>7 DEF GoesAlong
  <1>9. \A f : f = [k \in Nat |-> One(R, k)] => \A k \in Nat : f[k] = One(R, k)
    OBVIOUS
  <1> HIDE DEF One
  <1>10. \A k \in Nat : R[k] = One(R, k)
    BY <1>8, <1>9, Zenon
  <1>11. QED
    BY <1>10 DEF StepsAlong, One

----------------------------------------------------------------------------
(* LinkedList *)

LEMMA WalkEquation ==
    ASSUME NEW p, Path(MaxNodes, p), NEW n, NEW to, LeadsAlong(NoCell, n, to, p)
    PROVE  StepsAlong(NoCell, n, to, Walk(n, to))
  <1> DEFINE R == Walk(n, to)
  <1>1. R = CHOOSE f : GoesAlong(NoCell, n, to, f)
    BY DEF Walk, GoesAlong
  <1> HIDE DEF R
  <1>2. QED
    BY <1>1, LinkedListAssumption, DefinedWalk DEF R

\* The nodes from the first on, and from the last back
LEMMA ChainFacts ==
    ASSUME NEW h, NEW p, NEW vs, NEW O, Chained(MaxNodes, NoCell, h, p, vs, O)
    PROVE  /\ Chain(h, PathAt(NoCell, p, 1)) = p
           /\ ChainBack(h, PathAt(NoCell, p, Len(p))) = Backwards(p)
  <1> DEFINE d == Len(p)
             nexts == [m \in DOMAIN h |-> h[m].next]
             previouses == [m \in DOMAIN h |-> h[m].previous]
             r == Backwards(p)
  <1>1. /\ Path(MaxNodes, p)
        /\ \A k \in 1 .. d :
             /\ p[k] \in DOMAIN h
             /\ h[p[k]] = Linking(vs[k], PathAt(NoCell, p, k - 1), PathAt(NoCell, p, k + 1))
    BY DEF Chained, Linked
  <1>2. MaxNodes \in Nat /\ NoCell \notin 1 .. MaxNodes
    BY LinkedListAssumption
  <1>3. d \in Nat
    BY <1>1, <1>2, PathFacts
  <1>4. \A k \in 1 .. d : /\ nexts[p[k]] = PathAt(NoCell, p, k + 1)
                          /\ previouses[p[k]] = PathAt(NoCell, p, k - 1)
    BY <1>1, LinkingFields
  <1>5. /\ Path(MaxNodes, r) /\ Len(r) = d
        /\ \A k \in Int : PathAt(NoCell, r, k) = PathAt(NoCell, p, d + 1 - k)
    BY <1>1, <1>2, BackwardsFacts
  <1> DEFINE n == PathAt(NoCell, p, 1)
             l == PathAt(NoCell, p, d)
  <1>6. Chain(h, n) = Walked(n, nexts) /\ ChainBack(h, l) = Walked(l, previouses)
    BY DEF Chain, ChainBack
  <1> HIDE DEF nexts, previouses, r, d, n, l
  <1>7. LeadsAlong(NoCell, n, nexts, p)
    BY <1>4 DEF LeadsAlong, n, d
  <1>8. LeadsAlong(NoCell, l, previouses, r)
    <2>1. l = PathAt(NoCell, r, 1)
      <3>1. PathAt(NoCell, r, 1) = PathAt(NoCell, p, d + 1 - 1) /\ d + 1 - 1 = d
        BY <1>3, <1>5
      <3>2. QED
        BY <3>1 DEF l
    <2>2. ASSUME NEW k \in 1 .. Len(r) PROVE previouses[r[k]] = PathAt(NoCell, r, k + 1)
      <3> DEFINE i == d + 1 - k
      <3>1. k \in 1 .. d /\ i \in 1 .. d /\ k + 1 \in Int /\ d + 1 - (k + 1) = i - 1 /\ k \in Int
        BY <1>3, <1>5
      <3>2. PathAt(NoCell, r, k) = PathAt(NoCell, p, i)
        BY <1>5, <3>1
      <3>3. PathAt(NoCell, r, k + 1) = PathAt(NoCell, p, i - 1)
        BY <1>5, <3>1
      <3> HIDE DEF i
      <3>4. r[k] = p[i]
        BY <3>1, <3>2 DEF PathAt, d
      <3>5. QED
        BY <1>4, <3>1, <3>3, <3>4
    <2>3. QED
      BY <2>1, <2>2 DEF LeadsAlong
  <1>9. StepsAlong(NoCell, n, nexts, Walk(n, nexts))
    BY <1>1, <1>7, WalkEquation
  <1>10. StepsAlong(NoCell, l, previouses, Walk(l, previouses))
    BY <1>5, <1>8, WalkEquation
  <1>11. Walked(n, nexts) = p
    <2> DEFINE w == Walk(n, nexts)
    <2>1. Walked(n, nexts) = Trodden(MaxNodes, NoCell, w)
      BY DEF Walked, Trodden
    <2>2. StepsAlong(NoCell, n, nexts, w)
      BY <1>9
    <2> HIDE DEF w
    <2>3. QED
      BY <1>1, <1>2, <1>7, <2>1, <2>2, WalkMeets
  <1>12. Walked(l, previouses) = r
    <2> DEFINE w == Walk(l, previouses)
    <2>1. Walked(l, previouses) = Trodden(MaxNodes, NoCell, w)
      BY DEF Walked, Trodden
    <2>2. StepsAlong(NoCell, l, previouses, w)
      BY <1>10
    <2> HIDE DEF w
    <2>3. Path(MaxNodes, r) /\ MaxNodes \in Nat /\ NoCell \notin 1 .. MaxNodes
      BY <1>2, <1>5
    <2>4. Trodden(MaxNodes, NoCell, w) = r
      BY <1>8, <2>2, <2>3, WalkMeets
    <2>5. QED
      BY <2>1, <2>4
  <1>13. QED
    BY <1>6, <1>11, <1>12 DEF n, l, r, d

\* What a path has at each place when a node is added behind, in front, or taken out
LEMMA PlacesOnPath ==
    ASSUME NEW b \in Nat, NEW none, none \notin 1 .. b, NEW p, Path(b, p)
    PROVE  /\ \A k \in Int : PathAt(none, p, k) = none <=> k \notin 1 .. Len(p)
           /\ \A n \in 1 .. b : \A k \in Int :
                 PathAt(none, Append(p, n), k) = IF k = Len(p) + 1 THEN n ELSE PathAt(none, p, k)
           /\ \A n \in 1 .. b : \A k \in Int :
                 PathAt(none, <<n>> \o p, k) = IF k = 1 THEN n ELSE PathAt(none, p, k - 1)
           /\ \A i \in 1 .. Len(p) : \A k \in Int :
                 PathAt(none, SkipItem(p, i), k)
                    = IF k < i THEN PathAt(none, p, k) ELSE PathAt(none, p, k + 1)
  <1> DEFINE d == Len(p)
  <1>1. p \in Seq(1 .. b) /\ d \in Nat /\ \A k \in 1 .. d : p[k] \in 1 .. b
    BY PathFacts
  <1>2. ASSUME NEW k \in Int PROVE PathAt(none, p, k) = none <=> k \notin 1 .. d
    BY <1>1 DEF PathAt
  <1>3. ASSUME NEW n \in 1 .. b, NEW k \in Int
        PROVE  PathAt(none, Append(p, n), k) = IF k = d + 1 THEN n ELSE PathAt(none, p, k)
    <2> DEFINE q == Append(p, n)
    <2>1. Len(q) = d + 1 /\ q[d + 1] = n /\ \A i \in 1 .. d : q[i] = p[i]
      BY <1>1
    <2> HIDE DEF q
    <2>2. PathAt(none, q, k) = IF k \in 1 .. d + 1 THEN q[k] ELSE none
      BY <2>1 DEF PathAt
    <2>3. PathAt(none, p, k) = IF k \in 1 .. d THEN p[k] ELSE none
      BY DEF PathAt
    <2> HIDE DEF d
    <2>4. PathAt(none, q, k) = IF k = d + 1 THEN n ELSE PathAt(none, p, k)
      BY <1>1, <2>1, <2>2, <2>3
    <2>5. QED
      BY <2>4 DEF q
  <1>4. ASSUME NEW n \in 1 .. b, NEW k \in Int
        PROVE  PathAt(none, <<n>> \o p, k) = IF k = 1 THEN n ELSE PathAt(none, p, k - 1)
    <2> DEFINE q == <<n>> \o p
    <2>1. Len(q) = d + 1 /\ q[1] = n /\ \A i \in 2 .. d + 1 : q[i] = p[i - 1]
      BY <1>1, BeforeFacts
    <2> HIDE DEF q
    <2>2. PathAt(none, q, k) = IF k \in 1 .. d + 1 THEN q[k] ELSE none
      BY <2>1 DEF PathAt
    <2>3. PathAt(none, p, k - 1) = IF k - 1 \in 1 .. d THEN p[k - 1] ELSE none
      BY DEF PathAt
    <2> HIDE DEF d
    <2>4. k - 1 \in 1 .. d <=> k \in 2 .. d + 1
      BY <1>1
    <2>5. k \in 1 .. d + 1 <=> k = 1 \/ k \in 2 .. d + 1
      BY <1>1
    <2>6. k \in 2 .. d + 1 => k # 1
      BY <1>1
    <2>7. PathAt(none, q, k) = IF k = 1 THEN n ELSE PathAt(none, p, k - 1)
      BY <2>1, <2>2, <2>3, <2>4, <2>5, <2>6
    <2>8. QED
      BY <2>7 DEF q
  <1>5. ASSUME NEW i \in 1 .. d, NEW k \in Int
        PROVE  PathAt(none, SkipItem(p, i), k)
                  = IF k < i THEN PathAt(none, p, k) ELSE PathAt(none, p, k + 1)
    <2> DEFINE q == SkipItem(p, i)
    <2>1. /\ Len(q) = d - 1 /\ \A j \in 1 .. i - 1 : q[j] = p[j]
          /\ \A j \in i .. d - 1 : q[j] = p[j + 1]
      BY <1>1, SkipItemFacts
    <2> HIDE DEF q
    <2>2. PathAt(none, q, k) = IF k \in 1 .. d - 1 THEN q[k] ELSE none
      BY <2>1 DEF PathAt
    <2>3. /\ PathAt(none, p, k) = IF k \in 1 .. d THEN p[k] ELSE none
          /\ PathAt(none, p, k + 1) = IF k + 1 \in 1 .. d THEN p[k + 1] ELSE none
      BY DEF PathAt
    <2> HIDE DEF d
    <2>4. CASE k < i
      <3>1. k \in 1 .. d <=> k \in 1 .. d - 1
        BY <1>1, <2>4
      <3>2. k \in 1 .. d - 1 => k \in 1 .. i - 1
        BY <1>1, <2>4
      <3>3. PathAt(none, q, k) = PathAt(none, p, k)
        BY <2>1, <2>2, <2>3, <3>1, <3>2
      <3>4. QED
        BY <2>4, <3>3 DEF q
    <2>5. CASE ~(k < i)
      <3>1. k + 1 \in 1 .. d <=> k \in 1 .. d - 1
        BY <1>1, <2>5
      <3>2. k \in 1 .. d - 1 => k \in i .. d - 1
        BY <1>1, <2>5
      <3>3. PathAt(none, q, k) = PathAt(none, p, k + 1)
        BY <2>1, <2>2, <2>3, <3>1, <3>2
      <3>4. QED
        BY <2>5, <3>3 DEF q
    <2>6. QED
      BY <2>4, <2>5
  <1>6. QED
    BY <1>2, <1>3, <1>4, <1>5 DEF d

\* A list whose nodes are those of path p, with the cursor on the c-th, or on none
Heading(p, c) ==
    [first |-> PathAt(NoCell, p, 1), last |-> PathAt(NoCell, p, Len(p)),
     cursor |-> PathAt(NoCell, p, c), length |-> Len(p)]

\* The nodes of O are nodes, whatever is in them, and stay so when nothing happens to them.
AreNodes(O, h) == \A m \in O : \E v, a, b : h[m] = Linking(v, a, b)

LEMMA NodesStay ==
    ASSUME NEW O, NEW h, NEW g, AreNodes(O, h), SameNodes(O, h, g)
    PROVE  AreNodes(O, g)
  BY DEF AreNodes, SameNodes

\* The heap and the list of s hold vs, on path p, with the cursor at c, beside the nodes O.
ListHolds(s, p, vs, c, O) ==
    /\ Chained(MaxNodes, NoCell, s.heap, p, vs, O) /\ AreNodes(O, s.heap)
    /\ s.list = Heading(p, c) /\ c \in 0 .. Len(p) /\ vs \in Seq(Items)

LEMMA ListHoldsFacts ==
    ASSUME NEW s, NEW p, NEW vs, NEW c, NEW O, ListHolds(s, p, vs, c, O)
    PROVE  /\ MaxNodes \in Nat /\ NoCell \notin 1 .. MaxNodes
           /\ Path(MaxNodes, p) /\ Len(p) \in Nat /\ p \in Seq(1 .. MaxNodes)
           /\ \A k \in 1 .. Len(p) : p[k] \in 1 .. MaxNodes /\ p[k] \in DOMAIN s.heap
           /\ \A i, j \in 1 .. Len(p) : p[i] = p[j] => i = j
           /\ vs \in Seq(Items) /\ Len(vs) = Len(p) /\ (vs = <<>> <=> Len(p) = 0)
           /\ s.list.first = PathAt(NoCell, p, 1) /\ s.list.last = PathAt(NoCell, p, Len(p))
           /\ s.list.cursor = PathAt(NoCell, p, c) /\ s.list.length = Len(p)
           /\ s.list.first = NoCell <=> Len(p) = 0
           /\ s.list.last = NoCell <=> Len(p) = 0
           /\ s.list.cursor = NoCell <=> c = 0
           /\ c \in Nat /\ c <= Len(p)
  <1>1. MaxNodes \in Nat /\ NoCell \notin 1 .. MaxNodes
    BY LinkedListAssumption
  <1>2. /\ Path(MaxNodes, p) /\ Len(vs) = Len(p) /\ Linked(NoCell, s.heap, p, vs)
        /\ s.list = Heading(p, c) /\ c \in 0 .. Len(p) /\ vs \in Seq(Items)
    BY DEF ListHolds, Chained
  <1>3. /\ p \in Seq(1 .. MaxNodes) /\ Len(p) \in Nat
        /\ \A k \in 1 .. Len(p) : p[k] \in 1 .. MaxNodes
        /\ \A i, j \in 1 .. Len(p) : p[i] = p[j] => i = j
    BY <1>1, <1>2, PathFacts
  <1>4. \A k \in 1 .. Len(p) : p[k] \in DOMAIN s.heap
    BY <1>2 DEF Linked
  <1>5. \A k \in Int : PathAt(NoCell, p, k) = NoCell <=> k \notin 1 .. Len(p)
    BY <1>1, <1>2, PlacesOnPath
  <1>6. vs = <<>> <=> Len(p) = 0
    BY <1>2
  <1>7. /\ s.list.first = PathAt(NoCell, p, 1) /\ s.list.last = PathAt(NoCell, p, Len(p))
        /\ s.list.cursor = PathAt(NoCell, p, c) /\ s.list.length = Len(p)
    BY <1>2 DEF Heading
  <1>8. c \in Nat /\ c <= Len(p)
    BY <1>2, <1>3
  <1>9. /\ 1 \in 1 .. Len(p) <=> Len(p) # 0
        /\ Len(p) \in 1 .. Len(p) <=> Len(p) # 0
        /\ c \in 1 .. Len(p) <=> c # 0
    BY <1>3, <1>8
  <1>10. QED
    BY <1>1, <1>2, <1>3, <1>4, <1>5, <1>6, <1>7, <1>8, <1>9

\* new gives an address that is free.
LEMMA FreshFacts ==
    ASSUME NEW h, FreeNodes(h) # {}
    PROVE  New(h) \in 1 .. MaxNodes /\ New(h) \notin DOMAIN h
  <1> DEFINE F == FreeNodes(h)
  <1>1. F \subseteq Nat /\ F # {} /\ F = (1 .. MaxNodes) \ DOMAIN h
    BY LinkedListAssumption DEF FreeNodes
  <1>2. New(h) = Min(F)
    BY DEF New
  <1> HIDE DEF F
  <1>3. PICK k \in F : \A m \in F : k <= m
    BY <1>1, LeastNumber
  <1>4. Min(F) \in F
    BY <1>3 DEF Min
  <1>5. QED
    BY <1>1, <1>2, <1>4

\* add
LEMMA Append1Facts ==
    ASSUME NEW s, NEW p, NEW vs, NEW c, NEW O, ListHolds(s, p, vs, c, O),
           NEW v \in Items, FreeNodes(s.heap) # {}
    PROVE  /\ ListHolds(Append1(s, v), Append(p, New(s.heap)), Append(vs, v),
                        IF vs = <<>> THEN 1 ELSE c, O)
           /\ SameNodes(O, s.heap, Append1(s, v).heap)
  <1> DEFINE d == Len(p)
             h == s.heap
             x == s.list
             n == New(h)
             g == With(h, n, Node(v, x.last, NoCell))
             t == Append1(s, v)
             q == Append(p, n)
             e == IF vs = <<>> THEN 1 ELSE c
  <1>0. Chained(MaxNodes, NoCell, h, p, vs, O) /\ x = Heading(p, c)
        /\ AreNodes(O, h)
    BY DEF ListHolds
  <1>1. /\ MaxNodes \in Nat /\ NoCell \notin 1 .. MaxNodes
        /\ Path(MaxNodes, p) /\ d \in Nat /\ p \in Seq(1 .. MaxNodes)
        /\ \A k \in 1 .. d : p[k] \in 1 .. MaxNodes /\ p[k] \in DOMAIN h
        /\ vs \in Seq(Items) /\ Len(vs) = d /\ (vs = <<>> <=> d = 0)
        /\ x.first = PathAt(NoCell, p, 1) /\ x.last = PathAt(NoCell, p, d)
        /\ x.cursor = PathAt(NoCell, p, c) /\ x.length = d
        /\ x.first = NoCell <=> d = 0
        /\ c \in Nat /\ c <= d
    BY ListHoldsFacts
  <1>2. n \in 1 .. MaxNodes /\ n \notin DOMAIN h
    BY FreshFacts
  <1>3. t = IF x.first # NoCell
            THEN [heap |-> [g EXCEPT ![x.last].next = n],
                  list |-> [x EXCEPT !.last = n, !.length = @ + 1]]
            ELSE [heap |-> g, list |-> Only(x, n)]
    BY DEF Append1
  <1>4. q \in Seq(1 .. MaxNodes) /\ Len(q) = d + 1 /\ Append(vs, v) \in Seq(Items)
    BY <1>1, <1>2
  <1>5. \A k \in Int :
           PathAt(NoCell, q, k) = IF k = d + 1 THEN n ELSE PathAt(NoCell, p, k)
    <2>1. /\ MaxNodes \in Nat /\ NoCell \notin 1 .. MaxNodes
          /\ Path(MaxNodes, p) /\ n \in 1 .. MaxNodes
      BY <1>1, <1>2
    <2> HIDE DEF n
    <2>2. QED
      BY <2>1, PlacesOnPath
  <1> HIDE DEF d, h, x, n, t, q
  <1>6. /\ DOMAIN g = DOMAIN h \cup {n} /\ g[n] = Linking(v, PathAt(NoCell, p, d), NoCell)
        /\ \A m \in DOMAIN h : g[m] = h[m]
    BY <1>1, <1>2 DEF With, Node, Linking
  <1> HIDE DEF g
  <1>7. ASSUME d = 0
        PROVE  /\ Lengthened(NoCell, h, p, v, n, t.heap)
               /\ t.list = Heading(q, e) /\ e \in 0 .. Len(q)
    <2>1. t.heap = g /\ t.list = Only(x, n) /\ e = 1
      BY <1>1, <1>3, <1>7
    <2>2. Lengthened(NoCell, h, p, v, n, t.heap)
      BY <1>6, <1>7, <2>1 DEF Lengthened, d
    <2>3. PathAt(NoCell, q, 1) = n /\ Len(q) = 1
      BY <1>4, <1>5, <1>7
    <2>4. t.list = Heading(q, e)
      BY <1>1, <1>7, <2>1, <2>3 DEF Only, Heading
    <2>5. e \in 0 .. Len(q)
      BY <2>1, <2>3
    <2>6. QED
      BY <2>2, <2>4, <2>5
  <1>8. ASSUME d # 0
        PROVE  /\ Lengthened(NoCell, h, p, v, n, t.heap)
               /\ t.list = Heading(q, e) /\ e \in 0 .. Len(q)
    <2>1. t.heap = [g EXCEPT ![x.last].next = n] /\ e = c
      BY <1>1, <1>3, <1>8
    <2>2. t.list = [x EXCEPT !.last = n, !.length = @ + 1]
      BY <1>1, <1>3, <1>8
    <2>3. d \in 1 .. d /\ x.last = p[d] /\ p[d] \in DOMAIN h /\ p[d] # n
      BY <1>1, <1>2, <1>8 DEF PathAt, d
    <2> DEFINE u == t.heap
    <2>4. /\ DOMAIN u = DOMAIN g /\ u[p[d]] = [g[p[d]] EXCEPT !.next = n]
          /\ \A m \in DOMAIN g : m # p[d] => u[m] = g[m]
      BY <1>6, <2>1, <2>3
    <2> HIDE DEF u
    <2>5. PathAt(NoCell, p, d) = p[d]
      BY <2>3 DEF PathAt, d
    <2>6. Lengthened(NoCell, h, p, v, n, u)
      BY <1>2, <1>6, <2>3, <2>4, <2>5 DEF Lengthened, d
    <2>7. /\ PathAt(NoCell, q, 1) = PathAt(NoCell, p, 1) /\ PathAt(NoCell, q, d + 1) = n
          /\ PathAt(NoCell, q, c) = PathAt(NoCell, p, c)
      <3>1. 1 \in Int /\ 1 # d + 1 /\ d + 1 \in Int /\ c \in Int /\ c # d + 1
        BY <1>1, <1>8
      <3>2. QED
        BY <1>5, <3>1
    <2>8. t.list = Heading(q, e)
      BY <1>0, <1>1, <1>4, <2>1, <2>2, <2>7 DEF Heading, d
    <2>9. e \in 0 .. Len(q)
      BY <1>1, <1>4, <2>1
    <2>10. QED
      BY <2>6, <2>8, <2>9 DEF u
  <1>9. /\ Lengthened(NoCell, h, p, v, n, t.heap)
        /\ t.list = Heading(q, e) /\ e \in 0 .. Len(q)
    BY <1>7, <1>8
  <1> HIDE DEF e
  <1>10. /\ Chained(MaxNodes, NoCell, t.heap, q, Append(vs, v), O)
         /\ SameNodes(O, h, t.heap)
    BY <1>0, <1>1, <1>2, <1>9, ChainedLonger DEF q
  <1>11. ListHolds(t, q, Append(vs, v), e, O)
    BY <1>0, <1>4, <1>9, <1>10, NodesStay DEF ListHolds
  <1>12. QED
    BY <1>10, <1>11 DEF h, n, t, q, e

\* insertAtBeginning
LEMMA PrependFacts ==
    ASSUME NEW s, NEW p, NEW vs, NEW c, NEW O, ListHolds(s, p, vs, c, O),
           NEW v \in Items, FreeNodes(s.heap) # {}
    PROVE  /\ ListHolds(Prepend(s, v), <<New(s.heap)>> \o p, <<v>> \o vs,
                        IF vs = <<>> THEN 1 ELSE IF c = 0 THEN 0 ELSE c + 1, O)
           /\ SameNodes(O, s.heap, Prepend(s, v).heap)
  <1> DEFINE d == Len(p)
             h == s.heap
             x == s.list
             n == New(h)
             g == With(h, n, Node(v, NoCell, x.first))
             t == Prepend(s, v)
             q == <<n>> \o p
             e == IF vs = <<>> THEN 1 ELSE IF c = 0 THEN 0 ELSE c + 1
  <1>0. Chained(MaxNodes, NoCell, h, p, vs, O) /\ x = Heading(p, c)
        /\ AreNodes(O, h)
    BY DEF ListHolds
  <1>1. /\ MaxNodes \in Nat /\ NoCell \notin 1 .. MaxNodes
        /\ Path(MaxNodes, p) /\ d \in Nat /\ p \in Seq(1 .. MaxNodes)
        /\ \A k \in 1 .. d : p[k] \in 1 .. MaxNodes /\ p[k] \in DOMAIN h
        /\ vs \in Seq(Items) /\ Len(vs) = d /\ (vs = <<>> <=> d = 0)
        /\ x.first = PathAt(NoCell, p, 1) /\ x.last = PathAt(NoCell, p, d)
        /\ x.cursor = PathAt(NoCell, p, c) /\ x.length = d
        /\ x.last = NoCell <=> d = 0
        /\ c \in Nat /\ c <= d
    BY ListHoldsFacts
  <1>2. n \in 1 .. MaxNodes /\ n \notin DOMAIN h
    BY FreshFacts
  <1>3. t = IF x.last # NoCell
            THEN [heap |-> [g EXCEPT ![x.first].previous = n],
                  list |-> [x EXCEPT !.first = n, !.length = @ + 1]]
            ELSE [heap |-> g, list |-> Only(x, n)]
    BY DEF Prepend
  <1>4. q \in Seq(1 .. MaxNodes) /\ Len(q) = d + 1 /\ <<v>> \o vs \in Seq(Items)
    BY <1>1, <1>2, BeforeFacts
  <1>5. \A k \in Int :
           PathAt(NoCell, q, k) = IF k = 1 THEN n ELSE PathAt(NoCell, p, k - 1)
    BY <1>1, <1>2, PlacesOnPath
  <1> HIDE DEF d, h, x, n, t, q
  <1>6. /\ DOMAIN g = DOMAIN h \cup {n} /\ g[n] = Linking(v, NoCell, PathAt(NoCell, p, 1))
        /\ \A m \in DOMAIN h : g[m] = h[m]
    BY <1>1, <1>2 DEF With, Node, Linking
  <1> HIDE DEF g
  <1>7. ASSUME d = 0
        PROVE  /\ Preceded(NoCell, h, p, v, n, t.heap)
               /\ t.list = Heading(q, e) /\ e \in 0 .. Len(q)
    <2>1. t.heap = g /\ t.list = Only(x, n) /\ e = 1
      BY <1>1, <1>3, <1>7
    <2>2. Preceded(NoCell, h, p, v, n, t.heap)
      BY <1>6, <1>7, <2>1 DEF Preceded, d
    <2>3. PathAt(NoCell, q, 1) = n /\ Len(q) = 1
      BY <1>4, <1>5, <1>7
    <2>4. t.list = Heading(q, e)
      BY <1>1, <1>7, <2>1, <2>3 DEF Only, Heading
    <2>5. e \in 0 .. Len(q)
      BY <2>1, <2>3
    <2>6. QED
      BY <2>2, <2>4, <2>5
  <1>8. ASSUME d # 0
        PROVE  /\ Preceded(NoCell, h, p, v, n, t.heap)
               /\ t.list = Heading(q, e) /\ e \in 0 .. Len(q)
    <2>1. t.heap = [g EXCEPT ![x.first].previous = n] /\ e = IF c = 0 THEN 0 ELSE c + 1
      BY <1>1, <1>3, <1>8
    <2>2. t.list = [x EXCEPT !.first = n, !.length = @ + 1]
      BY <1>1, <1>3, <1>8
    <2>3. 1 \in 1 .. d /\ x.first = p[1] /\ p[1] \in DOMAIN h /\ p[1] # n
      BY <1>1, <1>2, <1>8 DEF PathAt, d
    <2> DEFINE u == t.heap
    <2>4. /\ DOMAIN u = DOMAIN g /\ u[p[1]] = [g[p[1]] EXCEPT !.previous = n]
          /\ \A m \in DOMAIN g : m # p[1] => u[m] = g[m]
      BY <1>6, <2>1, <2>3
    <2> HIDE DEF u
    <2>5. PathAt(NoCell, p, 1) = p[1]
      BY <2>3 DEF PathAt, d
    <2>6. Preceded(NoCell, h, p, v, n, u)
      BY <1>2, <1>6, <2>3, <2>4, <2>5 DEF Preceded, d
    <2>7. /\ PathAt(NoCell, q, 1) = n /\ PathAt(NoCell, q, d + 1) = PathAt(NoCell, p, d)
          /\ PathAt(NoCell, q, e) = PathAt(NoCell, p, c)
      <3>0. \A k, i \in Int : k # 1 /\ k - 1 = i => PathAt(NoCell, q, k) = PathAt(NoCell, p, i)
        BY <1>5
      <3>1. 1 \in Int /\ 1 # d + 1 /\ d + 1 \in Int /\ d \in Int /\ d + 1 - 1 = d
        BY <1>1, <1>8
      <3>2. CASE c = 0
        <4>1. e = 0 /\ 0 - 1 = -1 /\ -1 \notin 1 .. d /\ 0 \notin 1 .. d /\ 0 \in Int /\ 0 # 1
          BY <1>1, <2>1, <3>2
        <4>2. PathAt(NoCell, q, 0) = PathAt(NoCell, p, -1)
          BY <1>5, <4>1
        <4>3. QED
          BY <1>5, <3>1, <3>2, <4>1, <4>2 DEF PathAt, d
      <3>3. CASE c # 0
        <4>1. e = c + 1 /\ c + 1 \in Int /\ c \in Int /\ c + 1 # 1 /\ c + 1 - 1 = c
          BY <1>1, <2>1, <3>3
        <4>2. PathAt(NoCell, q, c + 1) = PathAt(NoCell, p, c)
          BY <3>0, <4>1
        <4>3. PathAt(NoCell, q, 1) = n /\ PathAt(NoCell, q, d + 1) = PathAt(NoCell, p, d)
          BY <1>5, <3>0, <3>1
        <4>4. QED
          BY <4>1, <4>2, <4>3
      <3>4. QED
        BY <3>2, <3>3
    <2>8. t.list = Heading(q, e)
      BY <1>0, <1>1, <1>4, <2>2, <2>7 DEF Heading, d
    <2>9. e \in 0 .. Len(q)
      BY <1>1, <1>4, <2>1
    <2>10. QED
      BY <2>6, <2>8, <2>9 DEF u
  <1>9. /\ Preceded(NoCell, h, p, v, n, t.heap)
        /\ t.list = Heading(q, e) /\ e \in 0 .. Len(q)
    BY <1>7, <1>8
  <1> HIDE DEF e
  <1>10. /\ Chained(MaxNodes, NoCell, t.heap, q, <<v>> \o vs, O)
         /\ SameNodes(O, h, t.heap)
    BY <1>0, <1>1, <1>2, <1>9, ChainedBefore DEF q
  <1>11. ListHolds(t, q, <<v>> \o vs, e, O)
    BY <1>0, <1>4, <1>9, <1>10, NodesStay DEF ListHolds
  <1>12. QED
    BY <1>10, <1>11 DEF h, n, t, q, e

\* removeRaw of the k-th node: what it does to the nodes ...
LEMMA UnlinkedFacts ==
    ASSUME NEW s, NEW p, NEW vs, NEW c, NEW O, ListHolds(s, p, vs, c, O), NEW k \in 1 .. Len(p)
    PROVE  Shortened(NoCell, s.heap, p, k, Unlinked(s.heap, s.list, p[k]))
  <1> DEFINE d == Len(p)
             h == s.heap
             x == s.list
             n == p[k]
             g == Unlinked(h, x, n)
             One(m) == [h[m] EXCEPT
                          !.previous = IF n # x.last /\ m = h[n].next THEN h[n].previous ELSE @,
                          !.next = IF n # x.first /\ m = h[n].previous THEN h[n].next ELSE @]
  <1>1. /\ MaxNodes \in Nat /\ NoCell \notin 1 .. MaxNodes
        /\ Path(MaxNodes, p) /\ d \in Nat
        /\ \A i \in 1 .. d : p[i] \in 1 .. MaxNodes /\ p[i] \in DOMAIN h
        /\ \A i, j \in 1 .. d : p[i] = p[j] => i = j
        /\ x.first = PathAt(NoCell, p, 1) /\ x.last = PathAt(NoCell, p, d)
    BY ListHoldsFacts
  <1>2. /\ \A i \in 1 .. d :
             h[p[i]] = Linking(vs[i], PathAt(NoCell, p, i - 1), PathAt(NoCell, p, i + 1))
        /\ DOMAIN h \subseteq 1 .. MaxNodes
        /\ \A m \in DOMAIN h : \E v, a, b : h[m] = Linking(v, a, b)
    <2>1. Chained(MaxNodes, NoCell, h, p, vs, O) /\ AreNodes(O, h)
      BY DEF ListHolds
    <2>2. Linked(NoCell, h, p, vs) /\ DOMAIN h = NodesIn(p) \cup O /\ O \subseteq 1 .. MaxNodes
      BY <2>1 DEF Chained
    <2>3. NodesIn(p) \subseteq 1 .. MaxNodes
      BY <1>1, PathFacts
    <2>4. ASSUME NEW m \in DOMAIN h PROVE \E v, a, b : h[m] = Linking(v, a, b)
      <3>1. CASE m \in O
        BY <2>1, <3>1 DEF AreNodes
      <3>2. CASE m \in NodesIn(p)
        <4>1. PICK i \in 1 .. Len(p) : m = p[i]
          BY <3>2 DEF NodesIn
        <4>2. h[m] = Linking(vs[i], PathAt(NoCell, p, i - 1), PathAt(NoCell, p, i + 1))
          BY <2>2, <4>1 DEF Linked
        <4>3. QED
          BY <4>2
      <3>3. QED
        BY <2>2, <3>1, <3>2
    <2>5. QED
      BY <2>2, <2>3, <2>4 DEF Linked
  <1>3. g = [m \in DOMAIN h \ {n} |-> One(m)]
    BY DEF Unlinked
  <1>4. k \in 1 .. d
    OBVIOUS
  <1> HIDE DEF d, h, x, g
  <1> DEFINE a == PathAt(NoCell, p, k - 1)
             b == PathAt(NoCell, p, k + 1)
  <1>5. n \in DOMAIN h /\ h[n].previous = a /\ h[n].next = b
    BY <1>1, <1>2, <1>4, LinkingFields
  <1>6. n = x.last <=> k = d
    <2>1. d \in 1 .. d /\ x.last = p[d]
      BY <1>1, <1>4 DEF PathAt, d
    <2>2. QED
      BY <1>1, <1>4, <2>1
  <1>7. n = x.first <=> k = 1
    <2>1. 1 \in 1 .. d /\ x.first = p[1]
      BY <1>1, <1>4 DEF PathAt, d
    <2>2. QED
      BY <1>1, <1>4, <2>1
  <1>8. k = d => b = NoCell
    BY <1>1, <1>4 DEF PathAt, d
  <1>9. k = 1 => a = NoCell
    BY <1>1, <1>4 DEF PathAt, d
  <1>10. k # d => k + 1 \in 1 .. d /\ b = p[k + 1]
    BY <1>1, <1>4 DEF PathAt, d
  <1>11. k # 1 => k - 1 \in 1 .. d /\ a = p[k - 1]
    BY <1>1, <1>4 DEF PathAt, d
  <1>12. k # 1 /\ k # d => a # b
    BY <1>1, <1>4, <1>10, <1>11
  <1>13. (k # 1 => a # n) /\ (k # d => b # n)
    BY <1>1, <1>4, <1>10, <1>11
  <1> HIDE DEF a, b, n
  <1>14. ASSUME NEW m \in DOMAIN h \ {n}
         PROVE  One(m) = [h[m] EXCEPT !.previous = IF k # d /\ m = b THEN a ELSE @,
                                      !.next = IF k # 1 /\ m = a THEN b ELSE @]
    BY <1>5, <1>6, <1>7
  <1>15. DOMAIN g = DOMAIN h \ {n}
    BY <1>3
  <1>16. k > 1 => g[p[k - 1]] = [h[p[k - 1]] EXCEPT !.next = b]
    <2> SUFFICES ASSUME k > 1 PROVE g[p[k - 1]] = [h[p[k - 1]] EXCEPT !.next = b]
      OBVIOUS
    <2>1. k # 1 /\ k - 1 \in 1 .. d /\ a = p[k - 1] /\ a \in DOMAIN h \ {n}
      BY <1>1, <1>4, <1>11, <1>13
    <2>2. ~(k # d /\ a = b)
      BY <1>12, <2>1
    <2>3. g[a] = [h[a] EXCEPT !.previous = IF k # d /\ a = b THEN a ELSE @,
                              !.next = IF k # 1 /\ a = a THEN b ELSE @]
      BY <1>3, <1>14, <2>1
    <2>4. h[a] = Linking(vs[k - 1], PathAt(NoCell, p, k - 1 - 1), PathAt(NoCell, p, k - 1 + 1))
      BY <1>2, <2>1
    <2>5. g[a] = [h[a] EXCEPT !.next = b]
      BY <2>1, <2>2, <2>3, <2>4 DEF Linking
    <2>6. QED
      BY <2>1, <2>5
  <1>17. k < d => g[p[k + 1]] = [h[p[k + 1]] EXCEPT !.previous = a]
    <2> SUFFICES ASSUME k < d PROVE g[p[k + 1]] = [h[p[k + 1]] EXCEPT !.previous = a]
      OBVIOUS
    <2>1. k # d /\ k + 1 \in 1 .. d /\ b = p[k + 1] /\ b \in DOMAIN h \ {n}
      BY <1>1, <1>4, <1>10, <1>13
    <2>2. ~(k # 1 /\ b = a)
      BY <1>12, <2>1
    <2>3. g[b] = [h[b] EXCEPT !.previous = IF k # d /\ b = b THEN a ELSE @,
                              !.next = IF k # 1 /\ b = a THEN b ELSE @]
      BY <1>3, <1>14, <2>1
    <2>4. h[b] = Linking(vs[k + 1], PathAt(NoCell, p, k + 1 - 1), PathAt(NoCell, p, k + 1 + 1))
      BY <1>2, <2>1
    <2>5. g[b] = [h[b] EXCEPT !.previous = a]
      BY <2>1, <2>2, <2>3, <2>4 DEF Linking
    <2>6. QED
      BY <2>1, <2>5
  <1>18. ASSUME NEW m \in DOMAIN h \ {n, a, b} PROVE g[m] = h[m]
    <2>1. g[m] = [h[m] EXCEPT !.previous = IF k # d /\ m = b THEN a ELSE @,
                              !.next = IF k # 1 /\ m = a THEN b ELSE @]
      BY <1>3, <1>14
    <2>2. g[m] = [h[m] EXCEPT !.previous = @, !.next = @]
      BY <2>1
    <2>3. PICK v, y, z : h[m] = Linking(v, y, z)
      BY <1>2
    <2>4. QED
      BY <2>2, <2>3 DEF Linking
  <1>19. QED
    BY <1>15, <1>16, <1>17, <1>18 DEF Shortened, d, h, x, g, n, a, b

\* ... and to the list
LEMMA RemoveFacts ==
    ASSUME NEW s, NEW p, NEW vs, NEW c, NEW O, ListHolds(s, p, vs, c, O), NEW k \in 1 .. Len(p)
    PROVE  /\ ListHolds(RemoveRaw(s, p[k]), SkipItem(p, k), SkipItem(vs, k),
                        PlaceAfter(c, k, Len(vs)), O)
           /\ SameNodes(O, s.heap, RemoveRaw(s, p[k]).heap)
  <1> DEFINE d == Len(p)
             h == s.heap
             x == s.list
             n == p[k]
             t == RemoveRaw(s, n)
             q == SkipItem(p, k)
             ws == SkipItem(vs, k)
             e == PlaceAfter(c, k, Len(vs))
             A(i) == PathAt(NoCell, p, i)
  <1>0. Chained(MaxNodes, NoCell, h, p, vs, O) /\ x = Heading(p, c) /\ AreNodes(O, h)
    BY DEF ListHolds
  <1>1. /\ MaxNodes \in Nat /\ NoCell \notin 1 .. MaxNodes
        /\ Path(MaxNodes, p) /\ d \in Nat /\ p \in Seq(1 .. MaxNodes)
        /\ \A i \in 1 .. d : p[i] \in 1 .. MaxNodes /\ p[i] \in DOMAIN h
        /\ \A i, j \in 1 .. d : p[i] = p[j] => i = j
        /\ vs \in Seq(Items) /\ Len(vs) = d
        /\ x.first = A(1) /\ x.last = A(d)
        /\ x.cursor = A(c) /\ x.length = d
        /\ c \in Nat /\ c <= d
    BY ListHoldsFacts, ZenonT(60)
  <1>2. k \in 1 .. d
    OBVIOUS
  <1>3. t.heap = Unlinked(h, x, n)
        /\ t.list = [first |-> IF n = x.first THEN h[n].next ELSE x.first,
                     last |-> IF n = x.last THEN h[n].previous ELSE x.last,
                     cursor |-> IF n = x.cursor THEN h[n].next ELSE x.cursor,
                     length |-> x.length - 1]
    BY DEF RemoveRaw
  <1>4. Shortened(NoCell, h, p, k, t.heap)
    BY <1>3, UnlinkedFacts
  <1>5. h[n].previous = A(k - 1) /\ h[n].next = A(k + 1)
    BY <1>0, LinkingFields DEF Chained, Linked
  <1>6. ws \in Seq(Items) /\ Len(q) = d - 1
    BY <1>1, <1>2, SkipItemFacts
  <1>7. \A i \in Int : PathAt(NoCell, q, i) = IF i < k THEN A(i) ELSE A(i + 1)
    <2>1. /\ MaxNodes \in Nat /\ NoCell \notin 1 .. MaxNodes
          /\ Path(MaxNodes, p) /\ k \in 1 .. Len(p)
      BY <1>1
    <2>2. QED
      BY <2>1, PlacesOnPath
  <1>8. e = IF c > k THEN c - 1 ELSE IF c = k /\ k = d THEN 0 ELSE c
    BY <1>1 DEF PlaceAfter
  <1>9. \A i \in Int : i \in 1 .. d => A(i) = p[i]
    BY DEF PathAt
  <1>10. \A i \in Int : i \notin 1 .. d => A(i) = NoCell
    BY DEF PathAt
  <1> HIDE DEF d, h, x, n, t, q, ws, e, A
  <1>11. \A i \in 0 .. d : n = A(i) <=> i = k
    <2> TAKE i \in 0 .. d
    <2>1. CASE i = 0
      <3>1. i \in Int /\ i \notin 1 .. d /\ i # k
        BY <1>1, <1>2, <2>1
      <3>2. A(i) = NoCell /\ n \in 1 .. MaxNodes
        BY <1>1, <1>2, <1>10, <3>1 DEF n
      <3>3. QED
        BY <1>1, <3>1, <3>2
    <2>2. CASE i # 0
      <3>1. i \in Int /\ i \in 1 .. d
        BY <1>1, <2>2
      <3>2. A(i) = p[i]
        BY <1>9, <3>1
      <3>3. QED
        BY <1>1, <1>2, <3>1, <3>2 DEF n
    <2>3. QED
      BY <2>1, <2>2
  <1>12. /\ n = x.first <=> k = 1
         /\ n = x.last <=> k = d
         /\ n = x.cursor <=> k = c
    <2>1. 1 \in 0 .. d /\ d \in 0 .. d /\ c \in 0 .. d
      BY <1>1, <1>2
    <2>2. QED
      BY <1>1, <1>11, <2>1
  <1>13. e \in 0 .. Len(q) /\ e \in Int
    BY <1>1, <1>2, <1>6, <1>8
  <1>14. t.list.first = PathAt(NoCell, q, 1)
    <2>1. PathAt(NoCell, q, 1) = IF 1 < k THEN A(1) ELSE A(2)
      BY <1>7
    <2>2. k = 1 => k + 1 = 2
      BY <1>1
    <2>3. k # 1 => 1 < k
      BY <1>2, <1>1
    <2>4. QED
      BY <1>1, <1>3, <1>5, <1>12, <2>1, <2>2, <2>3
  <1>15. t.list.last = PathAt(NoCell, q, Len(q))
    <2>1. Len(q) \in Int /\ Len(q) = d - 1 /\ d - 1 + 1 = d
      BY <1>1, <1>6
    <2>2. PathAt(NoCell, q, d - 1) = IF d - 1 < k THEN A(d - 1) ELSE A(d)
      BY <1>7, <2>1
    <2>3. d - 1 < k <=> k = d
      BY <1>1, <1>2
    <2>4. QED
      BY <1>1, <1>3, <1>5, <1>12, <2>1, <2>2, <2>3
  <1>16. t.list.cursor = PathAt(NoCell, q, e)
    <2>1. PathAt(NoCell, q, e) = IF e < k THEN A(e) ELSE A(e + 1)
      BY <1>7, <1>13
    <2>2. CASE c > k
      <3>1. e = c - 1 /\ ~(e < k) /\ e + 1 = c /\ k # c
        BY <1>1, <1>2, <1>8, <2>2
      <3>2. QED
        BY <1>1, <1>3, <1>12, <2>1, <3>1
    <2>3. CASE c = k /\ k = d
      <3>1. e = 0 /\ e < k /\ k + 1 \notin 1 .. d /\ 0 \notin 1 .. d /\ k + 1 \in Int /\ 0 \in Int
        BY <1>1, <1>2, <1>8, <2>3
      <3>2. A(k + 1) = NoCell /\ A(0) = NoCell
        BY <1>10, <3>1
      <3>3. QED
        BY <1>3, <1>5, <1>12, <2>1, <2>3, <3>1, <3>2
    <2>4. CASE c = k /\ k # d
      <3>1. e = k /\ ~(e < k)
        BY <1>1, <1>2, <1>8, <2>4
      <3>2. QED
        BY <1>3, <1>5, <1>12, <2>1, <2>4, <3>1
    <2>5. CASE c < k
      <3>1. e = c /\ e < k /\ k # c
        BY <1>1, <1>2, <1>8, <2>5
      <3>2. QED
        BY <1>1, <1>3, <1>12, <2>1, <3>1
    <2>6. QED
      BY <1>1, <1>2, <2>2, <2>3, <2>4, <2>5
  <1>17. t.list = Heading(q, e)
    <2>1. t.list.length = Len(q)
      BY <1>1, <1>3, <1>6
    <2>2. t.list = [first |-> t.list.first, last |-> t.list.last,
                    cursor |-> t.list.cursor, length |-> t.list.length]
      BY <1>3
    <2>3. QED
      BY <1>14, <1>15, <1>16, <2>1, <2>2 DEF Heading
  <1>18. Chained(MaxNodes, NoCell, t.heap, q, ws, O) /\ SameNodes(O, h, t.heap)
    BY <1>0, <1>1, <1>4, ChainedShorter DEF q, ws
  <1>19. ListHolds(t, q, ws, e, O)
    BY <1>0, <1>6, <1>13, <1>17, <1>18, NodesStay DEF ListHolds
  <1>20. QED
    BY <1>18, <1>19 DEF h, n, t, q, ws, e

\* set of the k-th item
LEMMA SetItemFacts ==
    ASSUME NEW s, NEW p, NEW vs, NEW c, NEW O, ListHolds(s, p, vs, c, O), NEW k \in 1 .. Len(p),
           NEW v \in Items
    PROVE  LET t == [s EXCEPT !.heap[p[k]].value = v] IN
           s = [heap |-> s.heap, list |-> s.list] =>
              /\ ListHolds(t, p, [vs EXCEPT ![k] = v], c, O)
              /\ SameNodes(O, s.heap, t.heap)
  <1> DEFINE h == s.heap
             n == p[k]
             g == [h EXCEPT ![n].value = v]
             t == [s EXCEPT !.heap[n].value = v]
             ws == [vs EXCEPT ![k] = v]
  <1> SUFFICES ASSUME s = [heap |-> h, list |-> s.list]
               PROVE  ListHolds(t, p, ws, c, O) /\ SameNodes(O, h, t.heap)
    OBVIOUS
  <1>1. /\ Chained(MaxNodes, NoCell, h, p, vs, O) /\ AreNodes(O, h)
        /\ s.list = Heading(p, c) /\ c \in 0 .. Len(p) /\ vs \in Seq(Items)
    BY DEF ListHolds
  <1>2. MaxNodes \in Nat /\ NoCell \notin 1 .. MaxNodes /\ n \in DOMAIN h /\ Len(vs) = Len(p)
    BY ListHoldsFacts
  <1>3. t.heap = g /\ t.list = s.list
    OBVIOUS
  <1>4. ws \in Seq(Items)
    BY <1>1, <1>2
  <1> HIDE DEF t
  <1>5. Revalued(h, p, k, v, g)
    BY <1>2 DEF Revalued
  <1> HIDE DEF g, h, n
  <1>6. Chained(MaxNodes, NoCell, g, p, ws, O) /\ SameNodes(O, h, g)
    BY <1>1, <1>2, <1>5, ChainedValue
  <1>7. AreNodes(O, g)
    BY <1>1, <1>6, NodesStay
  <1>8. QED
    BY <1>1, <1>3, <1>4, <1>6, <1>7 DEF ListHolds

\* The cursor is set.
LEMMA CursorFacts ==
    ASSUME NEW s, NEW p, NEW vs, NEW c, NEW O, ListHolds(s, p, vs, c, O), NEW e \in 0 .. Len(p),
           NEW t, t.heap = s.heap, t.list = [s.list EXCEPT !.cursor = PathAt(NoCell, p, e)]
    PROVE  ListHolds(t, p, vs, e, O) /\ SameNodes(O, s.heap, t.heap)
  <1>1. /\ Chained(MaxNodes, NoCell, s.heap, p, vs, O) /\ AreNodes(O, s.heap)
        /\ s.list = Heading(p, c) /\ vs \in Seq(Items)
    BY DEF ListHolds
  <1>2. [Heading(p, c) EXCEPT !.cursor = PathAt(NoCell, p, e)] = Heading(p, e)
    BY DEF Heading
  <1>3. QED
    BY <1>1, <1>2 DEF ListHolds, SameNodes

\* The nodes that a list meets are its path.
LEMMA ListMeets ==
    ASSUME NEW s, NEW p, NEW vs, NEW c, NEW O, ListHolds(s, p, vs, c, O)
    PROVE  /\ Chain(s.heap, s.list.first) = p
           /\ ChainBack(s.heap, s.list.last) = Backwards(p)
           /\ ValuesOf(s.heap, s.list) = vs
           /\ \A k \in Int : FindItem(s.heap, s.list, k - 1) = PathAt(NoCell, p, k)
  <1> DEFINE d == Len(p)
             h == s.heap
             x == s.list
  <1>1. Chained(MaxNodes, NoCell, h, p, vs, O)
    BY DEF ListHolds
  <1>2. /\ Path(MaxNodes, p) /\ d \in Nat /\ p \in Seq(1 .. MaxNodes) /\ DOMAIN p = 1 .. d
        /\ vs \in Seq(Items) /\ Len(vs) = d
        /\ x.first = PathAt(NoCell, p, 1) /\ x.last = PathAt(NoCell, p, d) /\ x.length = d
    BY ListHoldsFacts
  <1>3. Chain(h, x.first) = p /\ ChainBack(h, x.last) = Backwards(p)
    BY <1>1, <1>2, ChainFacts
  <1>4. \A k \in 1 .. d : h[p[k]].value = vs[k]
    BY <1>1, LinkingFields DEF Chained, Linked
  <1>5. ValuesOf(h, x) = [k \in 1 .. d |-> h[p[k]].value]
    BY <1>2, <1>3 DEF ValuesOf
  <1>6. vs = [k \in 1 .. d |-> vs[k]]
    BY <1>2
  <1> HIDE DEF d, h, x
  <1>7. ValuesOf(h, x) = vs
    BY <1>4, <1>5, <1>6
  <1>8. ASSUME NEW k \in Int PROVE FindItem(h, x, k - 1) = PathAt(NoCell, p, k)
    <2>1. FindItem(h, x, k - 1) = IF k - 1 < 0 \/ k - 1 >= d THEN NoCell ELSE p[k - 1 + 1]
      BY <1>2, <1>3 DEF FindItem
    <2>2. k - 1 < 0 \/ k - 1 >= d <=> k \notin 1 .. d
      BY <1>2
    <2>3. k - 1 + 1 = k
      OBVIOUS
    <2>4. QED
      BY <2>1, <2>2, <2>3 DEF PathAt, d
  <1>9. QED
    BY <1>3, <1>7, <1>8 DEF h, x

\* clear
LEMMA ClearedFacts ==
    ASSUME NEW s, NEW p, NEW vs, NEW c, NEW O, ListHolds(s, p, vs, c, O)
    PROVE  /\ ListHolds(Cleared(s), <<>>, <<>>, 0, O)
           /\ SameNodes(O, s.heap, Cleared(s).heap)
           /\ Cleared(s) = [heap |-> Cleared(s).heap, list |-> Empty]
  <1> DEFINE h == s.heap
             g == [m \in DOMAIN h \ NodesIn(p) |-> h[m]]
             t == Cleared(s)
  <1>1. Chained(MaxNodes, NoCell, h, p, vs, O) /\ AreNodes(O, h)
    BY DEF ListHolds
  <1>2. Chain(h, s.list.first) = p
    BY ListMeets
  <1>3. DOMAIN p = 1 .. Len(p)
    BY ListHoldsFacts
  <1>4. {p[k] : k \in DOMAIN p} = NodesIn(p)
    BY <1>3 DEF NodesIn
  <1>5. t = [heap |-> g, list |-> Empty]
    BY <1>2, <1>4 DEF Cleared
  <1>6. Emptied(h, p, g)
    BY DEF Emptied
  <1> HIDE DEF t, g, h
  <1>7. Chained(MaxNodes, NoCell, g, <<>>, <<>>, O) /\ SameNodes(O, h, g)
    BY <1>1, <1>6, ChainedNone, LinkedListAssumption
  <1>8. Empty = Heading(<<>>, 0)
    BY DEF Empty, Heading, PathAt
  <1>9. 0 \in 0 .. Len(<<>>) /\ <<>> \in Seq(Items)
    OBVIOUS
  <1>10. AreNodes(O, g)
    BY <1>1, <1>7, NodesStay
  <1>11. ListHolds(t, <<>>, <<>>, 0, O)
    BY <1>5, <1>7, <1>8, <1>9, <1>10 DEF ListHolds
  <1>12. QED
    BY <1>5, <1>7, <1>11 DEF h, t

\* How many nodes are free
LEMMA FreeCount ==
    ASSUME NEW s, NEW p, NEW vs, NEW c, NEW O, ListHolds(s, p, vs, c, O)
    PROVE  /\ IsFiniteSet(O) /\ Cardinality(O) \in Nat
           /\ Cardinality(FreeNodes(s.heap)) = MaxNodes - Len(p) - Cardinality(O)
           /\ Len(p) + Cardinality(O) < MaxNodes => FreeNodes(s.heap) # {}
  <1> DEFINE D == NodesIn(p)
             F == FreeNodes(s.heap)
             N == 1 .. MaxNodes
  <1>1. /\ DOMAIN s.heap = D \cup O /\ D \cap O = {} /\ O \subseteq N /\ Path(MaxNodes, p)
    BY DEF ListHolds, Chained
  <1>2. MaxNodes \in Nat /\ Len(p) \in Nat
    BY ListHoldsFacts
  <1>3. IsFiniteSet(N) /\ Cardinality(N) = MaxNodes
    BY <1>2, FS_Interval, SMTT(30)
  <1>4. IsFiniteSet(D) /\ Cardinality(D) = Len(p) /\ D \subseteq N
    BY <1>1, <1>2, PathLength, PathFacts
  <1>5. F = N \ (D \cup O)
    BY <1>1 DEF FreeNodes
  <1> HIDE DEF D, F, N
  <1>6. IsFiniteSet(O) /\ Cardinality(O) \in Nat
    BY <1>1, <1>3, FS_Subset, FS_CardinalityType
  <1>7. /\ IsFiniteSet(D \cup O)
        /\ Cardinality(D \cup O) = Cardinality(D) + Cardinality(O) - Cardinality(D \cap O)
    BY <1>4, <1>6, FS_Union
  <1>8. Cardinality(D \cap O) = 0
    BY <1>1, FS_EmptySet
  <1>9. Cardinality(F) = Cardinality(N) - Cardinality(N \cap (D \cup O))
    BY <1>3, <1>5, FS_Difference
  <1>10. N \cap (D \cup O) = D \cup O
    BY <1>1, <1>4
  <1>11. Cardinality(F) = MaxNodes - Len(p) - Cardinality(O)
    <2>1. Cardinality(F) = Cardinality(N) - Cardinality(D \cup O)
      BY <1>9, <1>10
    <2>2. Cardinality(D \cup O) = Len(p) + Cardinality(O) - 0
      BY <1>4, <1>7, <1>8
    <2> DEFINE o == Cardinality(O)
               d == Len(p)
               f == Cardinality(F)
               u == Cardinality(D \cup O)
    <2>3. f = MaxNodes - u /\ u = d + o - 0 /\ o \in Nat /\ d \in Nat
      BY <1>2, <1>3, <1>6, <2>1, <2>2
    <2> HIDE DEF o, d, f, u
    <2>4. f = MaxNodes - d - o
      BY <1>2, <2>3
    <2>5. QED
      BY <2>4 DEF o, d, f
  <1>12. F = {} => Cardinality(F) = 0
    BY FS_EmptySet
  <1>13. QED
    BY <1>2, <1>6, <1>11, <1>12 DEF F

\* Some of vs have been added to s.
AppendsTo(s, vs, n, t) ==
    /\ t = [k \in 0 .. n |-> t[k]] /\ t[0] = s
    /\ \A k \in 1 .. n : t[k] = Append1(t[k - 1], vs[k])

\* The recursion of Appended is one: each round adds one more.
LEMMA AppendedEquation ==
    ASSUME NEW s, NEW vs, Len(vs) \in Nat
    PROVE  /\ Appended(s, vs)[0] = s
           /\ \A k \in 1 .. Len(vs) : Appended(s, vs)[k] = Append1(Appended(s, vs)[k - 1], vs[k])
  <1> DEFINE n == Len(vs)
             T == {m \in Nat : \E t : AppendsTo(s, vs, m, t)}
             Def(t) == t = [k \in 0 .. n |-> IF k = 0 THEN s ELSE Append1(t[k - 1], vs[k])]
             R == Appended(s, vs)
  <1>1. n \in Nat
    OBVIOUS
  <1>2. 0 \in T
    <2> DEFINE t == [k \in 0 .. 0 |-> s]
    <2>1. t = [k \in 0 .. 0 |-> t[k]] /\ t[0] = s
      OBVIOUS
    <2> HIDE DEF t
    <2>2. AppendsTo(s, vs, 0, t)
      BY <2>1 DEF AppendsTo
    <2>3. QED
      BY <2>2
  <1>3. ASSUME NEW m \in Nat, m \in T PROVE m + 1 \in T
    <2>1. PICK t : AppendsTo(s, vs, m, t)
      BY <1>3
    <2> DEFINE u == [k \in 0 .. m + 1 |-> IF k = m + 1 THEN Append1(t[m], vs[m + 1]) ELSE t[k]]
    <2>2. u = [k \in 0 .. m + 1 |-> u[k]]
      OBVIOUS
    <2>3. \A k \in 0 .. m : u[k] = t[k]
      <3>1. \A k \in 0 .. m : k \in 0 .. m + 1 /\ k # m + 1
        OBVIOUS
      <3>2. QED
        BY <3>1
    <2>4. u[m + 1] = Append1(t[m], vs[m + 1])
      OBVIOUS
    <2> HIDE DEF u
    <2>5. u[0] = s
      BY <2>1, <2>3 DEF AppendsTo
    <2>6. ASSUME NEW k \in 1 .. m + 1 PROVE u[k] = Append1(u[k - 1], vs[k])
      <3>1. CASE k = m + 1
        <4>1. m \in 0 .. m /\ k - 1 = m
          BY <3>1
        <4>2. u[k - 1] = t[m]
          BY <2>3, <4>1
        <4>3. QED
          BY <2>4, <3>1, <4>2
      <3>2. CASE k # m + 1
        <4>1. k \in 1 .. m /\ k \in 0 .. m /\ k - 1 \in 0 .. m
          BY <3>2
        <4>2. t[k] = Append1(t[k - 1], vs[k])
          BY <2>1, <4>1 DEF AppendsTo
        <4>3. u[k] = t[k] /\ u[k - 1] = t[k - 1]
          BY <2>3, <4>1
        <4>4. QED
          BY <4>2, <4>3
      <3>3. QED
        BY <3>1, <3>2
    <2>7. AppendsTo(s, vs, m + 1, u)
      BY <2>2, <2>5, <2>6 DEF AppendsTo
    <2>8. QED
      BY <2>7
  <1> HIDE DEF T
  <1>4. Nat \subseteq T
    BY <1>2, <1>3, CountingUp
  <1>5. PICK t : AppendsTo(s, vs, n, t)
    BY <1>1, <1>4 DEF T
  <1>6. R = CHOOSE f : Def(f)
    BY DEF Appended
  <1> HIDE DEF n
  <1>7. \A k \in 0 .. n : t[k] = IF k = 0 THEN s ELSE Append1(t[k - 1], vs[k])
    <2> TAKE k \in 0 .. n
    <2>1. CASE k = 0
      BY <1>5, <2>1 DEF AppendsTo
    <2>2. CASE k # 0
      <3>1. k \in 1 .. n
        BY <1>1, <2>2
      <3>2. QED
        BY <1>5, <2>2, <3>1 DEF AppendsTo
    <2>3. QED
      BY <2>1, <2>2
  <1>8. t = [k \in 0 .. n |-> t[k]]
    BY <1>5 DEF AppendsTo
  <1>9. Def(t)
    BY <1>7, <1>8
  <1> HIDE DEF Def, R
  <1>10. Def(R)
    BY <1>6, <1>9
  <1> USE DEF Def
  <1>11. \A f : f = [k \in 0 .. n |-> IF k = 0 THEN s ELSE Append1(R[k - 1], vs[k])]
            => \A k \in 0 .. n : f[k] = IF k = 0 THEN s ELSE Append1(R[k - 1], vs[k])
    OBVIOUS
  <1>12. \A k \in 0 .. n : R[k] = IF k = 0 THEN s ELSE Append1(R[k - 1], vs[k])
    BY <1>10, <1>11
  <1>13. 0 \in 0 .. n /\ \A k \in 1 .. n : k \in 0 .. n /\ k # 0
    BY <1>1
  <1>14. QED
    BY <1>12, <1>13 DEF R, n

\* What is true of the list after k rounds, from an empty list s
AppendedWell(s, vs, O, k, t) ==
    /\ \E p : ListHolds(t, p, SubSeq(vs, 1, k), IF k = 0 THEN 0 ELSE 1, O)
    /\ SameNodes(O, s.heap, t.heap)

\* addMany to an empty list, when there are free nodes for all
LEMMA AppendAllFacts ==
    ASSUME NEW s, NEW O, ListHolds(s, <<>>, <<>>, 0, O), NEW vs \in Seq(Items),
           Len(vs) + Cardinality(O) <= MaxNodes
    PROVE  /\ \E p : ListHolds(AppendAll(s, vs), p, vs, IF vs = <<>> THEN 0 ELSE 1, O)
           /\ SameNodes(O, s.heap, AppendAll(s, vs).heap)
  <1> DEFINE n == Len(vs)
             R == Appended(s, vs)
             T == {k \in Nat : k <= n => AppendedWell(s, vs, O, k, R[k])}
  <1>1. n \in Nat /\ \A k \in 1 .. n : vs[k] \in Items
    OBVIOUS
  <1>2. R[0] = s /\ \A k \in 1 .. n : R[k] = Append1(R[k - 1], vs[k])
    BY <1>1, AppendedEquation
  <1>3. AppendAll(s, vs) = R[n]
    BY DEF AppendAll
  <1>4. Cardinality(O) \in Nat /\ MaxNodes \in Nat
    BY FreeCount, LinkedListAssumption
  <1>5. SubSeq(vs, 1, 0) = <<>> /\ SubSeq(vs, 1, n) = vs
    OBVIOUS
  <1>6. \A k \in 1 .. n - 1 : SubSeq(vs, 1, k) # <<>>
    OBVIOUS
  <1>7. \A k \in 0 .. n - 1 : SubSeq(vs, 1, k + 1) = Append(SubSeq(vs, 1, k), vs[k + 1])
    OBVIOUS
  <1>8. \A k \in 0 .. n : Len(SubSeq(vs, 1, k)) = k
    OBVIOUS
  <1>9. n + Cardinality(O) <= MaxNodes
    OBVIOUS
  <1> HIDE DEF R, n
  <1>10. 0 \in T
    <2>1. ListHolds(s, <<>>, SubSeq(vs, 1, 0), IF 0 = 0 THEN 0 ELSE 1, O)
      BY <1>5
    <2>2. AppendedWell(s, vs, O, 0, s)
      BY <2>1 DEF AppendedWell, SameNodes
    <2>3. QED
      BY <1>2, <2>2
  <1>11. ASSUME NEW k \in Nat, k \in T PROVE k + 1 \in T
    <2> SUFFICES ASSUME k + 1 <= n PROVE AppendedWell(s, vs, O, k + 1, R[k + 1])
      OBVIOUS
    <2> DEFINE t == R[k]
               ws == SubSeq(vs, 1, k)
               v == vs[k + 1]
               c == IF k = 0 THEN 0 ELSE 1
    <2>1. k <= n /\ k + 1 \in 1 .. n /\ (k + 1) - 1 = k /\ k \in 0 .. n - 1 /\ k \in 0 .. n
      BY <1>1
    <2>2. AppendedWell(s, vs, O, k, t)
      BY <1>11, <2>1
    <2>3. R[k + 1] = Append1(t, v) /\ v \in Items
      BY <1>1, <1>2, <2>1
    <2>4. Len(ws) = k /\ SubSeq(vs, 1, k + 1) = Append(ws, v)
      BY <1>7, <1>8, <2>1
    <2>5. (ws = <<>> <=> k = 0)
      BY <1>1, <1>5, <1>6, <2>1
    <2> HIDE DEF t, ws, v
    <2>6. PICK p : ListHolds(t, p, ws, c, O)
      BY <2>2 DEF AppendedWell, ws
    <2>7. SameNodes(O, s.heap, t.heap)
      BY <2>2 DEF AppendedWell
    <2> HIDE DEF c
    <2>8. Len(p) = k
      BY <2>4, <2>6, ListHoldsFacts
    <2>9. FreeNodes(t.heap) # {}
      <3>1. Len(p) + Cardinality(O) < MaxNodes
        BY <1>1, <1>4, <1>9, <2>1, <2>8
      <3>2. QED
        BY <2>6, <3>1, FreeCount
    <2> DEFINE u == Append1(t, v)
               q == Append(p, New(t.heap))
               e == IF ws = <<>> THEN 1 ELSE c
    <2>10. ListHolds(u, q, Append(ws, v), e, O) /\ SameNodes(O, t.heap, u.heap)
      BY <2>3, <2>6, <2>9, Append1Facts
    <2>11. e = IF k + 1 = 0 THEN 0 ELSE 1
      BY <2>5 DEF c
    <2> HIDE DEF u, q, e
    <2>12. ListHolds(u, q, SubSeq(vs, 1, k + 1), IF k + 1 = 0 THEN 0 ELSE 1, O)
      BY <2>4, <2>10, <2>11
    <2>13. SameNodes(O, s.heap, u.heap)
      BY <2>7, <2>10 DEF SameNodes
    <2>14. R[k + 1] = u
      BY <2>3 DEF u
    <2>15. QED
      BY <2>12, <2>13, <2>14 DEF AppendedWell
  <1> HIDE DEF T
  <1>12. Nat \subseteq T
    BY <1>10, <1>11, CountingUp
  <1>13. AppendedWell(s, vs, O, n, R[n])
    BY <1>1, <1>12 DEF T
  <1>14. vs = <<>> <=> n = 0
    BY DEF n
  <1>15. QED
    BY <1>3, <1>5, <1>13, <1>14 DEF AppendedWell

----------------------------------------------------------------------------
(* All the lists on one heap *)

\* The nodes of the other lists
Elsewhere(p, l) == UNION {NodesIn(p[m]) : m \in Lists \ {l}}

\* Each list holds its items on its path, beside the nodes of the others; no node is lost.
ListsHold(h, x, p, vs, c) ==
    /\ DOMAIN x = Lists /\ DOMAIN p = Lists /\ DOMAIN vs = Lists /\ DOMAIN c = Lists
    /\ \A l \in Lists :
          ListHolds([heap |-> h, list |-> x[l]], p[l], vs[l], c[l], Elsewhere(p, l))
    /\ DOMAIN h = UNION {NodesIn(p[l]) : l \in Lists}

ListInv == \E p : ListsHold(cell, list, p, items, place)

LEMMA ElsewhereHas ==
    ASSUME NEW p, NEW l, NEW a
    PROVE  a \in Elsewhere(p, l) <=> \E m \in Lists \ {l} : a \in NodesIn(p[m])
  BY DEF Elsewhere

\* A node on a path is a node.
LEMMA OnPath ==
    ASSUME NEW s, NEW p, NEW vs, NEW c, NEW O, ListHolds(s, p, vs, c, O)
    PROVE  AreNodes(NodesIn(p), s.heap) /\ Linked(NoCell, s.heap, p, vs)
           /\ DOMAIN s.heap = NodesIn(p) \cup O /\ NodesIn(p) \cap O = {}
           /\ O \subseteq 1 .. MaxNodes /\ NodesIn(p) \subseteq 1 .. MaxNodes
           /\ AreNodes(O, s.heap)
  <1>1. Chained(MaxNodes, NoCell, s.heap, p, vs, O) /\ AreNodes(O, s.heap)
    BY DEF ListHolds
  <1>2. Linked(NoCell, s.heap, p, vs) /\ Path(MaxNodes, p)
    BY <1>1 DEF Chained
  <1>3. NodesIn(p) \subseteq 1 .. MaxNodes
    BY <1>2, PathFacts, LinkedListAssumption
  <1>4. AreNodes(NodesIn(p), s.heap)
    BY <1>2 DEF AreNodes, NodesIn, Linked
  <1>5. QED
    BY <1>1, <1>2, <1>3, <1>4 DEF Chained

\* List m, when list l alone has changed
LEMMA OtherList ==
    ASSUME NEW h, NEW x, NEW p, NEW vs, NEW c, ListsHold(h, x, p, vs, c), NEW l \in Lists,
           NEW s, NEW q, NEW w, NEW d, ListHolds(s, q, w, d, Elsewhere(p, l)),
           SameNodes(Elsewhere(p, l), h, s.heap), NEW m \in Lists, m # l
    PROVE  ListHolds([heap |-> s.heap, list |-> x[m]], p[m], vs[m], c[m],
                     Elsewhere([p EXCEPT ![l] = q], m))
  <1> DEFINE r == [p EXCEPT ![l] = q]
             g == s.heap
             O == Elsewhere(r, m)
             before == [heap |-> h, list |-> x[m]]
             after == [heap |-> g, list |-> x[m]]
  <1>1. DOMAIN p = Lists /\ ListHolds(before, p[m], vs[m], c[m], Elsewhere(p, m))
    BY DEF ListsHold
  <1>2. before.heap = h /\ before.list = x[m] /\ after.heap = g /\ after.list = x[m]
    OBVIOUS
  <1>3. \A k \in Lists : r[k] = IF k = l THEN q ELSE p[k]
    BY <1>1
  <1> HIDE DEF r, g, before, after, O
  <1>4. /\ AreNodes(NodesIn(q), g) /\ AreNodes(Elsewhere(p, l), g)
        /\ DOMAIN g = NodesIn(q) \cup Elsewhere(p, l) /\ NodesIn(q) \cap Elsewhere(p, l) = {}
        /\ NodesIn(q) \subseteq 1 .. MaxNodes /\ Elsewhere(p, l) \subseteq 1 .. MaxNodes
    BY OnPath DEF g
  <1>5. /\ Linked(NoCell, h, p[m], vs[m]) /\ DOMAIN h = NodesIn(p[m]) \cup Elsewhere(p, m)
        /\ NodesIn(p[m]) \cap Elsewhere(p, m) = {}
    BY <1>1, <1>2, OnPath
  <1>6. \A a : a \in O <=> \E k \in Lists \ {m} : a \in NodesIn(r[k])
    BY ElsewhereHas DEF O
  <1>7. \A a : a \in O <=> a \in NodesIn(q) \/ \E k \in Lists \ {m, l} : a \in NodesIn(p[k])
    BY <1>3, <1>6
  <1>8. \A a : a \in Elsewhere(p, l) <=>
               a \in NodesIn(p[m]) \/ \E k \in Lists \ {m, l} : a \in NodesIn(p[k])
    BY ElsewhereHas
  <1>9. \A a : (\E k \in Lists \ {m, l} : a \in NodesIn(p[k])) => a \in Elsewhere(p, m)
    BY ElsewhereHas
  <1>10. DOMAIN g = NodesIn(p[m]) \cup O
    BY <1>4, <1>7, <1>8
  <1>11. NodesIn(p[m]) \cap O = {}
    BY <1>4, <1>5, <1>7, <1>8, <1>9
  <1>12. O \subseteq 1 .. MaxNodes
    BY <1>4, <1>7, <1>8
  <1>13. AreNodes(O, g)
    BY <1>4, <1>7, <1>8 DEF AreNodes
  <1>14. \A k \in 1 .. Len(p[m]) : p[m][k] \in Elsewhere(p, l)
    BY <1>8 DEF NodesIn
  <1>15. Linked(NoCell, g, p[m], vs[m])
    BY <1>4, <1>5, <1>14 DEF Linked, SameNodes, g
  <1>16. /\ Path(MaxNodes, p[m]) /\ Len(vs[m]) = Len(p[m])
         /\ x[m] = Heading(p[m], c[m]) /\ c[m] \in 0 .. Len(p[m]) /\ vs[m] \in Seq(Items)
    BY <1>1, <1>2 DEF ListHolds, Chained
  <1>17. Chained(MaxNodes, NoCell, g, p[m], vs[m], O)
    BY <1>10, <1>11, <1>12, <1>15, <1>16 DEF Chained
  <1>18. ListHolds(after, p[m], vs[m], c[m], O)
    BY <1>2, <1>13, <1>16, <1>17 DEF ListHolds
  <1>19. QED
    BY <1>18 DEF after, O, r, g

\* Its own nodes do not matter to what is elsewhere.
LEMMA ElsewhereStays ==
    ASSUME NEW p, DOMAIN p = Lists, NEW l \in Lists, NEW q
    PROVE  Elsewhere([p EXCEPT ![l] = q], l) = Elsewhere(p, l)
  BY DEF Elsewhere

\* One list has changed, and all hold again.
LEMMA OneList ==
    ASSUME NEW h, NEW x, NEW p, NEW vs, NEW c, ListsHold(h, x, p, vs, c), NEW l \in Lists,
           NEW s, NEW q, NEW w, NEW d, ListHolds(s, q, w, d, Elsewhere(p, l)),
           SameNodes(Elsewhere(p, l), h, s.heap)
    PROVE  ListsHold(s.heap, [x EXCEPT ![l] = s.list], [p EXCEPT ![l] = q],
                     [vs EXCEPT ![l] = w], [c EXCEPT ![l] = d])
  <1> DEFINE y == [x EXCEPT ![l] = s.list]
             r == [p EXCEPT ![l] = q]
             u == [vs EXCEPT ![l] = w]
             e == [c EXCEPT ![l] = d]
             t == [heap |-> s.heap, list |-> s.list]
  <1>1. DOMAIN x = Lists /\ DOMAIN p = Lists /\ DOMAIN vs = Lists /\ DOMAIN c = Lists
    BY DEF ListsHold
  <1>2. DOMAIN y = Lists /\ DOMAIN r = Lists /\ DOMAIN u = Lists /\ DOMAIN e = Lists
    BY <1>1
  <1>3. y[l] = s.list /\ r[l] = q /\ u[l] = w /\ e[l] = d
    BY <1>1
  <1>4. \A m \in Lists \ {l} : y[m] = x[m] /\ r[m] = p[m] /\ u[m] = vs[m] /\ e[m] = c[m]
    BY <1>1
  <1>5. ListHolds(t, q, w, d, Elsewhere(p, l))
    BY DEF ListHolds
  <1>6. Elsewhere(r, l) = Elsewhere(p, l)
    BY <1>1, ElsewhereStays
  <1>7. \A m \in Lists \ {l} :
           ListHolds([heap |-> s.heap, list |-> x[m]], p[m], vs[m], c[m], Elsewhere(r, m))
    BY OtherList
  <1>8. DOMAIN s.heap = NodesIn(q) \cup Elsewhere(p, l)
    BY OnPath
  <1> HIDE DEF y, r, u, e
  <1>9. \A m \in Lists :
           ListHolds([heap |-> s.heap, list |-> y[m]], r[m], u[m], e[m], Elsewhere(r, m))
    BY <1>3, <1>4, <1>5, <1>6, <1>7
  <1>10. \A a : a \in Elsewhere(p, l) <=> \E m \in Lists \ {l} : a \in NodesIn(r[m])
    BY <1>6, ElsewhereHas
  <1>11. DOMAIN s.heap = UNION {NodesIn(r[m]) : m \in Lists}
    BY <1>3, <1>8, <1>10
  <1>12. ListsHold(s.heap, y, r, u, e)
    BY <1>2, <1>9, <1>11 DEF ListsHold
  <1>13. QED
    BY <1>12 DEF y, r, u, e

\* What is known of list l
LEMMA HoldsHere ==
    ASSUME NEW p, ListsHold(cell, list, p, items, place), NEW l \in Lists
    PROVE  /\ ListHolds(State(l), p[l], items[l], place[l], Elsewhere(p, l))
           /\ State(l).heap = cell /\ State(l).list = list[l]
           /\ State(l) = [heap |-> State(l).heap, list |-> State(l).list]
           /\ Len(p[l]) \in Nat /\ items[l] \in Seq(Items) /\ Len(items[l]) = Len(p[l])
           /\ place[l] \in 0 .. Len(p[l])
  <1>1. ListHolds(State(l), p[l], items[l], place[l], Elsewhere(p, l))
    BY DEF ListsHold, State
  <1>2. State(l) = [heap |-> cell, list |-> list[l]]
    BY DEF State
  <1>3. /\ Len(p[l]) \in Nat /\ items[l] \in Seq(Items) /\ Len(items[l]) = Len(p[l])
        /\ place[l] \in Nat /\ place[l] <= Len(p[l])
    BY <1>1, ListHoldsFacts
  <1>4. QED
    BY <1>1, <1>2, <1>3

\* List l becomes s, which holds what it should.
LEMMA BecomeHolds ==
    ASSUME NEW p, ListsHold(cell, list, p, items, place), NEW l \in Lists,
           NEW s, NEW q, NEW w, NEW d, ListHolds(s, q, w, d, Elsewhere(p, l)),
           SameNodes(Elsewhere(p, l), cell, s.heap), Become(l, s, w, d)
    PROVE  ListInv'
  <1>1. ListsHold(s.heap, [list EXCEPT ![l] = s.list], [p EXCEPT ![l] = q],
                  [items EXCEPT ![l] = w], [place EXCEPT ![l] = d])
    BY OneList
  <1>2. ListsHold(cell', list', [p EXCEPT ![l] = q], items', place')
    BY <1>1 DEF Become
  <1>3. QED
    BY <1>2 DEF ListInv

\* Adding an item at either end
LEMMA ListAddKeeps ==
    ASSUME ListInv, NEW l \in Lists, NEW v \in Items, Add(l, v) \/ InsertAtBeginning(l, v)
    PROVE  ListInv'
  <1> PICK p : ListsHold(cell, list, p, items, place)
    BY DEF ListInv
  <1> DEFINE O == Elsewhere(p, l)
             s == State(l)
  <1>1. ListHolds(s, p[l], items[l], place[l], O) /\ s.heap = cell
    BY HoldsHere
  <1>2. FreeNodes(s.heap) # {}
    BY <1>1 DEF Add, InsertAtBeginning
  <1> DEFINE t == Append1(s, v)
             w == Append(items[l], v)
             e == IF items[l] = <<>> THEN 1 ELSE place[l]
             tt == Prepend(s, v)
             ww == <<v>> \o items[l]
             ee == IF items[l] = <<>> THEN 1 ELSE IF place[l] = 0 THEN 0 ELSE place[l] + 1
  <1>3. Add(l, v) => Become(l, t, w, e)
    BY DEF Add
  <1>4. InsertAtBeginning(l, v) => Become(l, tt, ww, ee)
    BY DEF InsertAtBeginning
  <1>5. ListHolds(t, Append(p[l], New(s.heap)), w, e, O) /\ SameNodes(O, cell, t.heap)
    BY <1>1, <1>2, Append1Facts
  <1>6. ListHolds(tt, <<New(s.heap)>> \o p[l], ww, ee, O) /\ SameNodes(O, cell, tt.heap)
    BY <1>1, <1>2, PrependFacts
  <1> HIDE DEF t, w, e, tt, ww, ee, s
  <1>7. CASE Add(l, v)
    BY <1>3, <1>5, <1>7, BecomeHolds
  <1>8. CASE InsertAtBeginning(l, v)
    BY <1>4, <1>6, <1>8, BecomeHolds
  <1>9. QED
    BY <1>7, <1>8

\* What is left of items without item k, as remove puts it
LEMMA WithoutItem ==
    ASSUME NEW S, NEW vs \in Seq(S), NEW k \in 1 .. Len(vs)
    PROVE  /\ SubSeq(vs, 1, k - 1) \o SubSeq(vs, k + 1, Len(vs)) = SkipItem(vs, k)
           /\ SubSeq(vs, 1, Len(vs) - 1) = SkipItem(vs, Len(vs))
  <1> DEFINE n == Len(vs)
             w == SubSeq(vs, 1, n - 1)
  <1>1. SubSeq(vs, 1, k - 1) \o SubSeq(vs, k + 1, n) = SkipItem(vs, k)
    BY DEF SkipItem
  <1>2. SkipItem(vs, n) = w \o SubSeq(vs, n + 1, n)
    BY DEF SkipItem
  <1>3. SubSeq(vs, n + 1, n) = <<>> /\ w \in Seq(S)
    OBVIOUS
  <1> HIDE DEF w
  <1>4. w \o <<>> = w
    BY <1>3
  <1>5. SkipItem(vs, n) = w
    BY <1>2, <1>3, <1>4
  <1>6. QED
    BY <1>1, <1>5 DEF w

\* Taking out item k
LEMMA TakenFromList ==
    ASSUME NEW p, ListsHold(cell, list, p, items, place), NEW l \in Lists,
           NEW k \in 1 .. Len(items[l]),
           Become(l, RemoveRaw(State(l), p[l][k]), SkipItem(items[l], k),
                  PlaceAfter(place[l], k, Len(items[l])))
    PROVE  ListInv'
  <1> DEFINE O == Elsewhere(p, l)
             s == State(l)
             t == RemoveRaw(s, p[l][k])
  <1>1. ListHolds(s, p[l], items[l], place[l], O) /\ s.heap = cell /\ k \in 1 .. Len(p[l])
    BY HoldsHere
  <1>2. /\ ListHolds(t, SkipItem(p[l], k), SkipItem(items[l], k),
                     PlaceAfter(place[l], k, Len(items[l])), O)
        /\ SameNodes(O, cell, t.heap)
    BY <1>1, RemoveFacts
  <1> HIDE DEF t
  <1>3. Become(l, t, SkipItem(items[l], k), PlaceAfter(place[l], k, Len(items[l])))
    BY DEF t
  <1>4. QED
    BY <1>2, <1>3, BecomeHolds

\* remove(i), pop and remove at the cursor
LEMMA ListRemoveKeeps ==
    ASSUME ListInv, NEW l \in Lists, RemoveHere(l) \/ PopItem(l) \/ RemoveAtCursor(l)
    PROVE  ListInv'
  <1> PICK p : ListsHold(cell, list, p, items, place)
    BY DEF ListInv
  <1> DEFINE n == Len(items[l])
             s == State(l)
  <1>1. /\ ListHolds(s, p[l], items[l], place[l], Elsewhere(p, l))
        /\ s.heap = cell /\ s.list = list[l] /\ n \in Nat /\ Len(p[l]) = n
        /\ items[l] \in Seq(Items) /\ place[l] \in 0 .. n
    BY HoldsHere
  <1>2. \A k \in Int : FindItem(cell, list[l], k - 1) = PathAt(NoCell, p[l], k)
    BY <1>1, ListMeets
  <1>3. /\ list[l].last = PathAt(NoCell, p[l], n) /\ list[l].cursor = PathAt(NoCell, p[l], place[l])
        /\ list[l].last = NoCell <=> n = 0
        /\ list[l].cursor = NoCell <=> place[l] = 0
    BY <1>1, ListHoldsFacts
  <1>4. \A k \in 1 .. n : PathAt(NoCell, p[l], k) = p[l][k]
    BY <1>1 DEF PathAt
  <1>5. \A k \in 1 .. n :
           /\ SubSeq(items[l], 1, k - 1) \o SubSeq(items[l], k + 1, n) = SkipItem(items[l], k)
           /\ SubSeq(items[l], 1, n - 1) = SkipItem(items[l], n)
    BY <1>1, WithoutItem
  <1>6. CASE RemoveHere(l)
    <2> PICK k \in 1 .. n : DropItem(l, k)
      BY <1>6 DEF RemoveHere
    <2>1. FindItem(cell, list[l], k - 1) = p[l][k]
      <3>1. k \in Int
        OBVIOUS
      <3>2. FindItem(cell, list[l], k - 1) = PathAt(NoCell, p[l], k)
        BY <1>2, <3>1, Zenon
      <3>3. QED
        BY <1>4, <3>2
    <2>2. Become(l, RemoveRaw(s, p[l][k]), SkipItem(items[l], k), PlaceAfter(place[l], k, n))
      BY <1>5, <2>1 DEF DropItem
    <2>3. QED
      BY <2>2, TakenFromList
  <1>7. CASE PopItem(l)
    <2>1. n \in 1 .. n /\ list[l].last = p[l][n]
      BY <1>1, <1>3, <1>4, <1>7 DEF PopItem
    <2>2. Become(l, RemoveRaw(s, p[l][n]), SkipItem(items[l], n), PlaceAfter(place[l], n, n))
      BY <1>5, <1>7, <2>1 DEF PopItem
    <2>3. QED
      BY <2>1, <2>2, TakenFromList
  <1>8. CASE RemoveAtCursor(l)
    <2> DEFINE k == place[l]
    <2>1. k \in 1 .. n /\ list[l].cursor = p[l][k]
      BY <1>1, <1>3, <1>4, <1>8 DEF RemoveAtCursor
    <2>2. Become(l, RemoveRaw(s, p[l][k]), SkipItem(items[l], k), PlaceAfter(k, k, n))
      BY <1>5, <1>8, <2>1 DEF RemoveAtCursor
    <2>3. QED
      BY <2>1, <2>2, TakenFromList
  <1>9. QED
    BY <1>6, <1>7, <1>8

\* operator[]=
LEMMA ListSetItemKeeps ==
    ASSUME ListInv, NEW l \in Lists, NEW v \in Items, NEW k \in 1 .. MaxNodes, SetItem(l, k, v)
    PROVE  ListInv'
  <1> PICK p : ListsHold(cell, list, p, items, place)
    BY DEF ListInv
  <1> DEFINE s == State(l)
             t == [s EXCEPT !.heap[p[l][k]].value = v]
             w == [items[l] EXCEPT ![k] = v]
  <1>1. /\ ListHolds(s, p[l], items[l], place[l], Elsewhere(p, l))
        /\ s.heap = cell /\ s.list = list[l] /\ Len(p[l]) = Len(items[l])
        /\ s = [heap |-> s.heap, list |-> s.list]
    BY HoldsHere
  <1>2. k \in 1 .. Len(p[l])
    BY <1>1 DEF SetItem
  <1>3. FindItem(cell, list[l], k - 1) = p[l][k]
    <2>1. FindItem(cell, list[l], k - 1) = PathAt(NoCell, p[l], k)
      BY <1>1, <1>2, ListMeets
    <2>2. QED
      BY <1>2, <2>1 DEF PathAt
  <1>4. Become(l, t, w, place[l])
    BY <1>3 DEF SetItem
  <1>5. /\ ListHolds(t, p[l], w, place[l], Elsewhere(p, l))
        /\ SameNodes(Elsewhere(p, l), s.heap, t.heap)
    BY <1>1, <1>2, SetItemFacts
  <1> HIDE DEF t, w
  <1>6. QED
    BY <1>1, <1>4, <1>5, BecomeHolds

\* The cursor of list l goes to place e.
LEMMA CursorToKeeps ==
    ASSUME NEW p, ListsHold(cell, list, p, items, place), NEW l \in Lists,
           NEW e \in 0 .. Len(p[l]), CursorTo(l, PathAt(NoCell, p[l], e), e)
    PROVE  ListInv'
  <1> DEFINE s == State(l)
             t == [s EXCEPT !.list.cursor = PathAt(NoCell, p[l], e)]
  <1>1. /\ ListHolds(s, p[l], items[l], place[l], Elsewhere(p, l)) /\ s.heap = cell
        /\ s = [heap |-> s.heap, list |-> s.list]
    BY HoldsHere
  <1>2. t.heap = s.heap /\ t.list = [s.list EXCEPT !.cursor = PathAt(NoCell, p[l], e)]
    BY <1>1
  <1>3. Become(l, t, items[l], e)
    BY DEF CursorTo
  <1> HIDE DEF s, t
  <1>4. /\ ListHolds(t, p[l], items[l], e, Elsewhere(p, l))
        /\ SameNodes(Elsewhere(p, l), s.heap, t.heap)
    BY <1>1, <1>2, CursorFacts
  <1>5. QED
    BY <1>1, <1>3, <1>4, BecomeHolds

\* resetCursor, moving it to the last, and setting it to an item or to none
LEMMA CursorSetKeeps ==
    ASSUME ListInv, NEW l \in Lists,
           ResetCursor(l) \/ CursorToLast(l) \/ \E k \in 0 .. MaxNodes : SetCursor(l, k)
    PROVE  ListInv'
  <1> PICK p : ListsHold(cell, list, p, items, place)
    BY DEF ListInv
  <1> DEFINE n == Len(p[l])
             A(e) == PathAt(NoCell, p[l], e)
  <1>1. /\ ListHolds(State(l), p[l], items[l], place[l], Elsewhere(p, l))
        /\ State(l).heap = cell /\ State(l).list = list[l]
        /\ n \in Nat /\ Len(items[l]) = n /\ items[l] \in Seq(Items)
    BY HoldsHere
  <1>2. \A k \in Int : FindItem(cell, list[l], k - 1) = A(k)
    BY <1>1, ListMeets
  <1>3. list[l].first = A(1) /\ list[l].last = A(n) /\ (items[l] = <<>> <=> n = 0)
    BY <1>1, ListHoldsFacts
  <1>4. \A k \in Int \ 1 .. n : A(k) = A(0)
    BY <1>1 DEF PathAt
  <1>5. MaxNodes \in Nat /\ DOMAIN items[l] = 1 .. n
    BY <1>1, LinkedListAssumption
  <1>6. CASE ResetCursor(l)
    <2> DEFINE e == IF items[l] = <<>> THEN 0 ELSE 1
    <2>1. e \in 0 .. n /\ list[l].first = A(e)
      BY <1>1, <1>3, <1>4
    <2>2. CursorTo(l, A(e), e)
      BY <1>6, <2>1 DEF ResetCursor
    <2>3. QED
      BY <2>1, <2>2, CursorToKeeps
  <1>7. CASE CursorToLast(l)
    <2>1. n \in 0 .. n /\ CursorTo(l, A(n), n)
      BY <1>1, <1>3, <1>7 DEF CursorToLast
    <2>2. QED
      BY <2>1, CursorToKeeps
  <1>8. CASE \E k \in 0 .. MaxNodes : SetCursor(l, k)
    <2> PICK k \in 0 .. MaxNodes : SetCursor(l, k)
      BY <1>8
    <2> DEFINE e == IF k \in DOMAIN items[l] THEN k ELSE 0
    <2>1. k \in Int /\ e \in 0 .. n /\ (k \in 1 .. n => e = k) /\ (k \notin 1 .. n => e = 0)
      BY <1>1, <1>5
    <2>2. FindItem(cell, list[l], k - 1) = A(k)
      BY <1>2, <2>1, Zenon
    <2>3. A(k) = A(e)
      BY <1>4, <2>1
    <2>4. CursorTo(l, A(e), e)
      BY <2>2, <2>3 DEF SetCursor
    <2>5. QED
      BY <2>1, <2>4, CursorToKeeps
  <1>9. QED
    BY <1>6, <1>7, <1>8

\* next
LEMMA NextItemKeeps ==
    ASSUME ListInv, NEW l \in Lists, NextItem(l)
    PROVE  ListInv'
  <1> PICK p : ListsHold(cell, list, p, items, place)
    BY DEF ListInv
  <1> DEFINE n == Len(p[l])
             k == place[l]
             e == IF k = n THEN 0 ELSE k + 1
  <1>1. /\ ListHolds(State(l), p[l], items[l], k, Elsewhere(p, l))
        /\ State(l).heap = cell /\ State(l).list = list[l]
        /\ n \in Nat /\ Len(items[l]) = n /\ k \in 0 .. n
    BY HoldsHere
  <1>2. list[l].cursor = PathAt(NoCell, p[l], k) /\ (list[l].cursor = NoCell <=> k = 0)
    BY <1>1, ListHoldsFacts
  <1>3. k \in 1 .. n
    BY <1>1, <1>2 DEF NextItem
  <1>4. list[l].cursor = p[l][k]
    BY <1>2, <1>3 DEF PathAt
  <1>5. cell[p[l][k]]
           = Linking(items[l][k], PathAt(NoCell, p[l], k - 1), PathAt(NoCell, p[l], k + 1))
    <2>1. Linked(NoCell, State(l).heap, p[l], items[l])
      BY <1>1, OnPath
    <2>2. QED
      BY <1>1, <1>3, <2>1 DEF Linked
  <1>6. cell[p[l][k]].next = PathAt(NoCell, p[l], k + 1)
    BY <1>5 DEF Linking
  <1>7. PathAt(NoCell, p[l], k + 1) = PathAt(NoCell, p[l], e) /\ e \in 0 .. n
    BY <1>1, <1>3 DEF PathAt
  <1>8. CursorTo(l, PathAt(NoCell, p[l], e), e)
    BY <1>1, <1>4, <1>6, <1>7 DEF NextItem
  <1> HIDE DEF e, k
  <1>9. QED
    BY <1>7, <1>8, CursorToKeeps

\* clear
LEMMA ListClearKeeps ==
    ASSUME ListInv, NEW l \in Lists, ClearList(l)
    PROVE  ListInv'
  <1> PICK p : ListsHold(cell, list, p, items, place)
    BY DEF ListInv
  <1> DEFINE s == State(l)
             t == Cleared(s)
  <1>1. ListHolds(s, p[l], items[l], place[l], Elsewhere(p, l)) /\ s.heap = cell
    BY HoldsHere
  <1>2. ListHolds(t, <<>>, <<>>, 0, Elsewhere(p, l)) /\ SameNodes(Elsewhere(p, l), cell, t.heap)
    BY <1>1, ClearedFacts
  <1>3. Become(l, t, <<>>, 0)
    BY DEF ClearList
  <1> HIDE DEF t
  <1>4. QED
    BY <1>2, <1>3, BecomeHolds

\* operator=(const LinkedList&): the items of m are added to an empty list.
LEMMA AssignListKeeps ==
    ASSUME ListInv, NEW l \in Lists, NEW m \in Lists, AssignList(l, m)
    PROVE  ListInv'
  <1> PICK p : ListsHold(cell, list, p, items, place)
    BY DEF ListInv
  <1> DEFINE O == Elsewhere(p, l)
             s == State(l)
             t == Cleared(s)
             vs == items[m]
             e == IF vs = <<>> THEN 0 ELSE 1
  <1>1. /\ ListHolds(s, p[l], items[l], place[l], O) /\ s.heap = cell
        /\ Len(p[l]) \in Nat /\ Len(items[l]) = Len(p[l])
    BY HoldsHere
  <1>2. /\ ListHolds(State(m), p[m], vs, place[m], Elsewhere(p, m))
        /\ State(m).heap = cell /\ State(m).list = list[m] /\ vs \in Seq(Items)
    BY HoldsHere
  <1>3. ValuesOf(cell, list[m]) = vs
    BY <1>2, ListMeets
  <1>4. /\ Cardinality(O) \in Nat
        /\ Cardinality(FreeNodes(cell)) = MaxNodes - Len(p[l]) - Cardinality(O)
    BY <1>1, FreeCount
  <1>5. Len(vs) <= Cardinality(FreeNodes(cell)) + Len(items[l])
    BY DEF AssignList
  <1>6. Len(vs) + Cardinality(O) <= MaxNodes
    BY <1>1, <1>2, <1>4, <1>5, LinkedListAssumption
  <1>7. ListHolds(t, <<>>, <<>>, 0, O) /\ SameNodes(O, cell, t.heap)
    BY <1>1, ClearedFacts
  <1>8. Become(l, AppendAll(t, vs), vs, e)
    BY <1>3 DEF AssignList
  <1> HIDE DEF t, e, O
  <1>9. /\ \E q : ListHolds(AppendAll(t, vs), q, vs, e, O)
        /\ SameNodes(O, t.heap, AppendAll(t, vs).heap)
    BY <1>2, <1>6, <1>7, AppendAllFacts DEF e
  <1>10. PICK q : ListHolds(AppendAll(t, vs), q, vs, e, O)
    BY <1>9
  <1>11. SameNodes(O, cell, AppendAll(t, vs).heap)
    BY <1>7, <1>9 DEF SameNodes
  <1>12. QED
    BY <1>8, <1>10, <1>11, BecomeHolds DEF O

\* Two lists trade what they have.
Traded(f, l, m) ==
    [k \in DOMAIN f |-> IF k = l THEN f[m] ELSE IF k = m THEN f[l] ELSE f[k]]

LEMMA ElsewhereTraded ==
    ASSUME NEW p, DOMAIN p = Lists, NEW l \in Lists, NEW m \in Lists, l # m
    PROVE  LET r == Traded(p, l, m) IN
           /\ Elsewhere(r, l) = Elsewhere(p, m) /\ Elsewhere(r, m) = Elsewhere(p, l)
           /\ \A k \in Lists \ {l, m} : Elsewhere(r, k) = Elsewhere(p, k)
  <1> DEFINE r == Traded(p, l, m)
  <1>1. r[l] = p[m] /\ r[m] = p[l] /\ \A k \in Lists \ {l, m} : r[k] = p[k]
    BY DEF Traded
  <1> HIDE DEF r
  <1>2. \A k, a : a \in Elsewhere(r, k) <=> \E j \in Lists \ {k} : a \in NodesIn(r[j])
    BY ElsewhereHas
  <1>3. \A k, a : a \in Elsewhere(p, k) <=> \E j \in Lists \ {k} : a \in NodesIn(p[j])
    BY ElsewhereHas
  <1>4. \A a : a \in Elsewhere(r, l) <=> a \in Elsewhere(p, m)
    BY <1>1, <1>2, <1>3
  <1>5. \A a : a \in Elsewhere(r, m) <=> a \in Elsewhere(p, l)
    BY <1>1, <1>2, <1>3
  <1>6. \A k \in Lists \ {l, m} : \A a : a \in Elsewhere(r, k) <=> a \in Elsewhere(p, k)
    BY <1>1, <1>2, <1>3
  <1>7. Elsewhere(r, l) = Elsewhere(p, m) /\ Elsewhere(r, m) = Elsewhere(p, l)
    BY <1>4, <1>5
  <1>8. \A k \in Lists \ {l, m} : Elsewhere(r, k) = Elsewhere(p, k)
    BY <1>6
  <1>9. QED
    BY <1>7, <1>8 DEF r

LEMMA TradedHold ==
    ASSUME NEW h, NEW x, NEW p, NEW vs, NEW c, ListsHold(h, x, p, vs, c),
           NEW l \in Lists, NEW m \in Lists, l # m
    PROVE  ListsHold(h, Traded(x, l, m), Traded(p, l, m), Traded(vs, l, m),
                     Traded(c, l, m))
  <1> DEFINE y == Traded(x, l, m)
             r == Traded(p, l, m)
             u == Traded(vs, l, m)
             e == Traded(c, l, m)
             To(k) == IF k = l THEN m ELSE IF k = m THEN l ELSE k
  <1>1. DOMAIN x = Lists /\ DOMAIN p = Lists /\ DOMAIN vs = Lists /\ DOMAIN c = Lists
    BY DEF ListsHold
  <1>2. DOMAIN y = Lists /\ DOMAIN r = Lists /\ DOMAIN u = Lists /\ DOMAIN e = Lists
    BY <1>1 DEF Traded
  <1>3. \A k \in Lists : y[k] = x[To(k)] /\ r[k] = p[To(k)] /\ u[k] = vs[To(k)] /\ e[k] = c[To(k)]
    BY <1>1 DEF Traded
  <1>4. \A k \in Lists : To(k) \in Lists /\ To(To(k)) = k
    OBVIOUS
  <1>5. \A k \in Lists : Elsewhere(r, k) = Elsewhere(p, To(k))
    BY <1>1, ElsewhereTraded
  <1> HIDE DEF y, r, u, e, To
  <1>6. \A k \in Lists : ListHolds([heap |-> h, list |-> x[k]], p[k], vs[k], c[k], Elsewhere(p, k))
    BY DEF ListsHold
  <1>7. \A k \in Lists : ListHolds([heap |-> h, list |-> y[k]], r[k], u[k], e[k], Elsewhere(r, k))
    BY <1>3, <1>4, <1>5, <1>6
  <1>8. DOMAIN h = UNION {NodesIn(p[k]) : k \in Lists}
    BY DEF ListsHold
  <1>9. \A a : a \in DOMAIN h <=> \E k \in Lists : a \in NodesIn(p[k])
    BY <1>8
  <1>10. \A a : a \in DOMAIN h <=> \E k \in Lists : a \in NodesIn(r[k])
    BY <1>3, <1>4, <1>9
  <1>11. DOMAIN h = UNION {NodesIn(r[k]) : k \in Lists}
    BY <1>10
  <1>12. ListsHold(h, y, r, u, e)
    BY <1>2, <1>7, <1>11 DEF ListsHold
  <1>13. QED
    BY <1>12 DEF y, r, u, e

\* operator=(LinkedList&&): list l is cleared and takes over what m has.
LEMMA MoveListKeeps ==
    ASSUME ListInv, NEW l \in Lists, NEW m \in Lists, MoveList(l, m)
    PROVE  ListInv'
  <1> PICK p : ListsHold(cell, list, p, items, place)
    BY DEF ListInv
  <1> DEFINE s == State(l)
             t == Cleared(s)
             x == [list EXCEPT ![l] = Empty]
             r == [p EXCEPT ![l] = <<>>]
             u == [items EXCEPT ![l] = <<>>]
             e == [place EXCEPT ![l] = 0]
  <1>1. l # m
    BY DEF MoveList
  <1>2. DOMAIN list = Lists /\ DOMAIN items = Lists /\ DOMAIN place = Lists
    BY DEF ListsHold
  <1>3. ListHolds(s, p[l], items[l], place[l], Elsewhere(p, l)) /\ s.heap = cell
    BY HoldsHere
  <1>4. /\ ListHolds(t, <<>>, <<>>, 0, Elsewhere(p, l)) /\ SameNodes(Elsewhere(p, l), cell, t.heap)
        /\ t = [heap |-> t.heap, list |-> Empty]
    BY <1>3, ClearedFacts
  <1> HIDE DEF t
  <1>5. t.list = Empty
    BY <1>4
  <1>6. ListsHold(t.heap, [list EXCEPT ![l] = t.list], r, u, e)
    BY <1>4, OneList
  <1>7. ListsHold(t.heap, x, r, u, e)
    BY <1>5, <1>6
  <1>8. list' = Traded(x, l, m)
    BY <1>1, <1>2 DEF MoveList, Traded
  <1>9. items' = Traded(u, l, m)
    BY <1>1, <1>2 DEF MoveList, Traded
  <1>10. place' = Traded(e, l, m)
    BY <1>1, <1>2 DEF MoveList, Traded
  <1>11. cell' = t.heap
    BY DEF MoveList, t
  <1> HIDE DEF x, r, u, e
  <1>12. ListsHold(t.heap, Traded(x, l, m), Traded(r, l, m), Traded(u, l, m),
                   Traded(e, l, m))
    BY <1>1, <1>7, TradedHold
  <1>13. ListsHold(cell', list', Traded(r, l, m), items', place')
    BY <1>8, <1>9, <1>10, <1>11, <1>12
  <1>14. QED
    BY <1>13 DEF ListInv

\* Before anything has been added
LEMMA ListInitHolds ==
    ASSUME ListInit
    PROVE  ListInv
  <1> DEFINE p == [l \in Lists |-> <<>>]
  <1>1. /\ cell = <<>> /\ list = [l \in Lists |-> Empty]
        /\ items = [l \in Lists |-> <<>>] /\ place = [l \in Lists |-> 0]
    BY DEF ListInit
  <1>2. \A l : Elsewhere(p, l) = {}
    BY DEF Elsewhere, NodesIn
  <1>3. Chained(MaxNodes, NoCell, cell, <<>>, <<>>, {})
    <2>1. Path(MaxNodes, <<>>) /\ NodesIn(<<>>) = {} /\ DOMAIN cell = {}
      BY <1>1 DEF Path, NodesIn
    <2>2. QED
      BY <2>1 DEF Chained, Linked
  <1>4. Empty = Heading(<<>>, 0)
    BY DEF Empty, Heading, PathAt
  <1>5. \A s : s.heap = cell /\ s.list = Empty => ListHolds(s, <<>>, <<>>, 0, {})
    BY <1>3, <1>4 DEF ListHolds, AreNodes
  <1>6. \A l \in Lists :
           ListHolds([heap |-> cell, list |-> list[l]], p[l], items[l], place[l], Elsewhere(p, l))
    BY <1>1, <1>2, <1>5
  <1>7. DOMAIN cell = UNION {NodesIn(p[l]) : l \in Lists}
    BY <1>1 DEF NodesIn
  <1> HIDE DEF p
  <1>8. DOMAIN p = Lists
    BY DEF p
  <1>9. ListsHold(cell, list, p, items, place)
    BY <1>1, <1>6, <1>7, <1>8 DEF ListsHold
  <1>10. QED
    BY <1>9 DEF ListInv

\* Every operation
LEMMA ListNextKeeps ==
    ASSUME ListInv, [ListNext]_listVars
    PROVE  ListInv'
  <1>1. CASE UNCHANGED listVars
    BY <1>1 DEF ListInv, listVars
  <1>2. CASE ListNext
    <2> PICK l \in Lists :
          \/ \E v \in Items : \/ Add(l, v) \/ InsertAtBeginning(l, v)
                              \/ \E k \in 1 .. MaxNodes : SetItem(l, k, v)
          \/ RemoveHere(l) \/ PopItem(l) \/ RemoveAtCursor(l) \/ ClearList(l)
          \/ ResetCursor(l) \/ CursorToLast(l) \/ NextItem(l)
          \/ \E k \in 0 .. MaxNodes : SetCursor(l, k)
          \/ \E m \in Lists : AssignList(l, m) \/ MoveList(l, m)
      BY <1>2, Zenon DEF ListNext
    <2>1. CASE \E v \in Items : Add(l, v) \/ InsertAtBeginning(l, v)
      BY <2>1, ListAddKeeps
    <2>2. CASE \E v \in Items : \E k \in 1 .. MaxNodes : SetItem(l, k, v)
      BY <2>2, ListSetItemKeeps
    <2>3. CASE RemoveHere(l) \/ PopItem(l) \/ RemoveAtCursor(l)
      BY <2>3, ListRemoveKeeps
    <2>4. CASE ResetCursor(l) \/ CursorToLast(l) \/ \E k \in 0 .. MaxNodes : SetCursor(l, k)
      BY <2>4, CursorSetKeeps
    <2>5. CASE ClearList(l)
      BY <2>5, ListClearKeeps
    <2>6. CASE NextItem(l)
      BY <2>6, NextItemKeeps
    <2>7. CASE \E m \in Lists : AssignList(l, m)
      BY <2>7, AssignListKeeps
    <2>8. CASE \E m \in Lists : MoveList(l, m)
      BY <2>8, MoveListKeeps
    <2>9. QED
      BY <2>1, <2>2, <2>3, <2>4, <2>5, <2>6, <2>7, <2>8, Zenon
  <1>3. QED
    BY <1>1, <1>2

\* Where the invariant holds, the heap is well formed.
LEMMA ListTyped ==
    ASSUME ListInv
    PROVE  ListTypeOK
  <1> PICK p : ListsHold(cell, list, p, items, place)
    BY DEF ListInv
  <1>1. DOMAIN cell = UNION {NodesIn(p[l]) : l \in Lists}
    BY DEF ListsHold
  <1>2. ASSUME NEW l \in Lists
        PROVE  /\ {list[l].first, list[l].last, list[l].cursor} \subseteq DOMAIN cell \cup {NoCell}
               /\ NodesIn(p[l]) \subseteq 1 .. MaxNodes
               /\ \A n \in NodesIn(p[l]) : cell[n].value \in Items
    <2>1. /\ ListHolds(State(l), p[l], items[l], place[l], Elsewhere(p, l))
          /\ State(l).heap = cell /\ State(l).list = list[l]
          /\ items[l] \in Seq(Items) /\ Len(items[l]) = Len(p[l])
      BY HoldsHere
    <2>2. /\ \A k \in 1 .. Len(p[l]) : p[l][k] \in DOMAIN cell
          /\ list[l].first = PathAt(NoCell, p[l], 1)
          /\ list[l].last = PathAt(NoCell, p[l], Len(p[l]))
          /\ list[l].cursor = PathAt(NoCell, p[l], place[l])
      BY <2>1, ListHoldsFacts
    <2>3. \A k : PathAt(NoCell, p[l], k) \in DOMAIN cell \cup {NoCell}
      BY <2>2 DEF PathAt
    <2>4. Linked(NoCell, cell, p[l], items[l]) /\ NodesIn(p[l]) \subseteq 1 .. MaxNodes
      BY <2>1, OnPath
    <2>5. \A k \in 1 .. Len(p[l]) : cell[p[l][k]].value = items[l][k] /\ items[l][k] \in Items
      <3>1. \A k \in 1 .. Len(p[l]) : cell[p[l][k]].value = items[l][k]
        BY <2>4, LinkingFields DEF Linked
      <3>2. QED
        BY <2>1, <3>1
    <2>6. \A n \in NodesIn(p[l]) : cell[n].value \in Items
      BY <2>5 DEF NodesIn
    <2>7. QED
      BY <2>2, <2>3, <2>4, <2>6
  <1>3. QED
    BY <1>1, <1>2 DEF ListTypeOK

\* And forward and backward each list is what it stands for, and every node is in one.
LEMMA ListsMeet ==
    ASSUME ListInv
    PROVE  LinkedListRight
  <1> PICK p : ListsHold(cell, list, p, items, place)
    BY DEF ListInv
  <1> DEFINE there == [l \in Lists |-> Chain(cell, list[l].first)]
  <1>1. ASSUME NEW l \in Lists
        PROVE  /\ there[l] = p[l] /\ DOMAIN p[l] = 1 .. Len(p[l])
               /\ [k \in DOMAIN there[l] |-> cell[there[l][k]].value] = items[l]
               /\ ChainBack(cell, list[l].last)
                     = [k \in 1 .. Len(items[l]) |-> there[l][Len(items[l]) + 1 - k]]
               /\ list[l].length = Len(items[l])
               /\ list[l].cursor = IF place[l] = 0 THEN NoCell ELSE there[l][place[l]]
               /\ NodesIn(p[l]) \cap Elsewhere(p, l) = {}
    <2>1. /\ ListHolds(State(l), p[l], items[l], place[l], Elsewhere(p, l))
          /\ State(l).heap = cell /\ State(l).list = list[l]
          /\ Len(items[l]) = Len(p[l]) /\ place[l] \in 0 .. Len(p[l])
      BY HoldsHere
    <2>2. /\ Chain(cell, list[l].first) = p[l]
          /\ ChainBack(cell, list[l].last) = Backwards(p[l])
          /\ ValuesOf(cell, list[l]) = items[l]
      BY <2>1, ListMeets
    <2>3. there[l] = p[l]
      BY <2>2
    <2>4. p[l] \in Seq(1 .. MaxNodes) /\ Len(p[l]) \in Nat /\ list[l].length = Len(p[l])
          /\ list[l].cursor = PathAt(NoCell, p[l], place[l])
      BY <2>1, ListHoldsFacts
    <2>5. NodesIn(p[l]) \cap Elsewhere(p, l) = {}
      BY <2>1, OnPath
    <2> HIDE DEF there
    <2>6. [k \in DOMAIN there[l] |-> cell[there[l][k]].value] = items[l]
      BY <2>2, <2>3 DEF ValuesOf
    <2>7. ChainBack(cell, list[l].last)
             = [k \in 1 .. Len(items[l]) |-> there[l][Len(items[l]) + 1 - k]]
      BY <2>1, <2>2, <2>3 DEF Backwards
    <2>8. list[l].cursor = IF place[l] = 0 THEN NoCell ELSE there[l][place[l]]
      BY <2>1, <2>3, <2>4 DEF PathAt
    <2>9. DOMAIN p[l] = 1 .. Len(p[l])
      BY <2>4
    <2>10. QED
      BY <2>1, <2>3, <2>4, <2>5, <2>6, <2>7, <2>8, <2>9
  <1> HIDE DEF there
  <1>2. ASSUME NEW n \in DOMAIN cell
        PROVE  \E l \in Lists :
                  /\ \E k \in DOMAIN there[l] : there[l][k] = n
                  /\ \A m \in Lists \ {l} : \A k \in DOMAIN there[m] : there[m][k] # n
    <2>1. DOMAIN cell = UNION {NodesIn(p[l]) : l \in Lists}
      BY DEF ListsHold
    <2>2. PICK l \in Lists : n \in NodesIn(p[l])
      BY <2>1
    <2>3. \A m \in Lists : there[m] = p[m] /\ NodesIn(p[m]) = {p[m][k] : k \in DOMAIN p[m]}
      BY <1>1 DEF NodesIn
    <2>4. \E k \in DOMAIN p[l] : p[l][k] = n
      BY <2>2, <2>3
    <2>5. n \notin Elsewhere(p, l)
      BY <1>1, <2>2
    <2>6. \A m \in Lists \ {l} : n \notin NodesIn(p[m])
      BY <2>5, ElsewhereHas
    <2>7. \A m \in Lists \ {l} : \A k \in DOMAIN p[m] : p[m][k] # n
      BY <2>3, <2>6
    <2>8. QED
      BY <2>3, <2>4, <2>7
  <1>3. QED
    BY <1>1, <1>2 DEF LinkedListRight, there

\* A linked list (LinkedList.h), whatever the number of lists and of nodes: after any
\* operations its nodes, forward and backward, are its items, its cursor is on the item it
\* should be on, and no node is lost or shared.
THEOREM LinkedListsAreRight == ListSpec => [](ListTypeOK /\ LinkedListRight)
  <1>1. ListInit => ListInv
    BY ListInitHolds
  <1>2. ListInv /\ [ListNext]_listVars => ListInv'
    BY ListNextKeeps
  <1>3. ListInv => ListTypeOK /\ LinkedListRight
    BY ListTyped, ListsMeet
  <1>4. QED
    BY <1>1, <1>2, <1>3, PTL DEF ListSpec

----------------------------------------------------------------------------
(* Queue *)

\* The addresses of a slab are 1 .. SlabSize.
SlabSize == MaxQueue + 1

\* A queue whose nodes are those of path p; b: it has a slab.
QueueHead(p, b) ==
    [first |-> PathAt(NoNode, p, 1), last |-> PathAt(NoNode, p, Len(p)), n |-> Len(p), slab |-> b]

\* The slab and the queue of s hold vs, on path p, beside the nodes O.
QueueHolds(s, p, vs, b, O) ==
    /\ Chained(SlabSize, NoNode, s.heap, p, vs, O)
    /\ s.q = QueueHead(p, b) /\ b \in BOOLEAN /\ vs \in Seq(QueueItems)

LEMMA QueueHoldsFacts ==
    ASSUME NEW s, NEW p, NEW vs, NEW b, NEW O, QueueHolds(s, p, vs, b, O)
    PROVE  /\ SlabSize \in Nat /\ NoNode \notin 1 .. SlabSize
           /\ Path(SlabSize, p) /\ Len(p) \in Nat /\ p \in Seq(1 .. SlabSize)
           /\ \A k \in 1 .. Len(p) : p[k] \in 1 .. SlabSize /\ p[k] \in DOMAIN s.heap
           /\ \A i, j \in 1 .. Len(p) : p[i] = p[j] => i = j
           /\ vs \in Seq(QueueItems) /\ Len(vs) = Len(p) /\ (vs = <<>> <=> Len(p) = 0)
           /\ s.q.first = PathAt(NoNode, p, 1) /\ s.q.last = PathAt(NoNode, p, Len(p))
           /\ s.q.n = Len(p)
           /\ s.q.first = NoNode <=> Len(p) = 0
           /\ s.q.last = NoNode <=> Len(p) = 0
  <1>1. SlabSize \in Nat /\ NoNode \notin 1 .. SlabSize
    BY QueueAssumption DEF SlabSize
  <1>2. /\ Path(SlabSize, p) /\ Len(vs) = Len(p) /\ Linked(NoNode, s.heap, p, vs)
        /\ s.q = QueueHead(p, b) /\ vs \in Seq(QueueItems)
    BY DEF QueueHolds, Chained
  <1>3. /\ p \in Seq(1 .. SlabSize) /\ Len(p) \in Nat
        /\ \A k \in 1 .. Len(p) : p[k] \in 1 .. SlabSize
        /\ \A i, j \in 1 .. Len(p) : p[i] = p[j] => i = j
    BY <1>1, <1>2, PathFacts
  <1>4. \A k \in 1 .. Len(p) : p[k] \in DOMAIN s.heap
    BY <1>2 DEF Linked
  <1>5. \A k \in Int : PathAt(NoNode, p, k) = NoNode <=> k \notin 1 .. Len(p)
    BY <1>1, <1>2, PlacesOnPath
  <1>6. vs = <<>> <=> Len(p) = 0
    BY <1>2
  <1>7. /\ s.q.first = PathAt(NoNode, p, 1) /\ s.q.last = PathAt(NoNode, p, Len(p))
        /\ s.q.n = Len(p)
    BY <1>2 DEF QueueHead
  <1>8. (1 \in 1 .. Len(p) <=> Len(p) # 0) /\ (Len(p) \in 1 .. Len(p) <=> Len(p) # 0)
    BY <1>3
  <1>9. QED
    BY <1>1, <1>2, <1>3, <1>4, <1>5, <1>6, <1>7, <1>8

\* Three of its fields are others.
WithFields(x, y, z, n) == [x EXCEPT !.first = y, !.last = z, !.n = n]

LEMMA QueueFields ==
    ASSUME NEW f, NEW l, NEW k, NEW b, NEW y, NEW z, NEW n, NEW x,
           x = [first |-> f, last |-> l, n |-> k, slab |-> b]
    PROVE  WithFields(x, y, z, n) = [first |-> y, last |-> z, n |-> n, slab |-> b]
  <1>1. [x EXCEPT !.first = y] = [first |-> y, last |-> l, n |-> k, slab |-> b]
    OBVIOUS
  <1>2. \A u : u = [first |-> y, last |-> l, n |-> k, slab |-> b]
           => [u EXCEPT !.last = z] = [first |-> y, last |-> z, n |-> k, slab |-> b]
    OBVIOUS
  <1>3. \A u : u = [first |-> y, last |-> z, n |-> k, slab |-> b]
           => [u EXCEPT !.n = n] = [first |-> y, last |-> z, n |-> n, slab |-> b]
    OBVIOUS
  <1> DEFINE v == [x EXCEPT !.first = y]
             w == [v EXCEPT !.last = z]
  <1>4. WithFields(x, y, z, n) = [w EXCEPT !.n = n]
    BY DEF WithFields
  <1>5. v = [first |-> y, last |-> l, n |-> k, slab |-> b]
    BY <1>1
  <1> HIDE DEF v
  <1>6. w = [first |-> y, last |-> z, n |-> k, slab |-> b]
    BY <1>2, <1>5
  <1> HIDE DEF w
  <1>7. QED
    BY <1>3, <1>4, <1>6

\* How many nodes a slab has given
LEMMA QueueCount ==
    ASSUME NEW s, NEW p, NEW vs, NEW b, NEW O, QueueHolds(s, p, vs, b, O)
    PROVE  /\ IsFiniteSet(O) /\ Cardinality(O) \in Nat
           /\ Cardinality(DOMAIN s.heap) = Len(p) + Cardinality(O)
           /\ Len(p) + Cardinality(O) < SlabSize => Unused(s.heap) # {}
  <1> DEFINE D == NodesIn(p)
             F == Unused(s.heap)
             N == 1 .. SlabSize
             H == DOMAIN s.heap
  <1>1. H = D \cup O /\ D \cap O = {} /\ O \subseteq N /\ Path(SlabSize, p)
    BY DEF QueueHolds, Chained
  <1>2. SlabSize \in Nat /\ Len(p) \in Nat
    BY QueueHoldsFacts
  <1>3. IsFiniteSet(N) /\ Cardinality(N) = SlabSize
    BY <1>2, FS_Interval, SMTT(30)
  <1>4. IsFiniteSet(D) /\ Cardinality(D) = Len(p) /\ D \subseteq N
    BY <1>1, <1>2, PathLength, PathFacts
  <1>5. F = N \ H
    BY DEF Unused, SlabSize
  <1> HIDE DEF D, F, N, H
  <1>6. IsFiniteSet(O) /\ Cardinality(O) \in Nat
    BY <1>1, <1>3, FS_Subset, FS_CardinalityType
  <1>7. Cardinality(D \cup O) = Cardinality(D) + Cardinality(O) - Cardinality(D \cap O)
    BY <1>4, <1>6, FS_Union
  <1>8. Cardinality(H) = Len(p) + Cardinality(O)
    <2>1. Cardinality(D \cap O) = 0
      BY <1>1, FS_EmptySet
    <2>2. Cardinality(H) = Len(p) + Cardinality(O) - 0
      BY <1>1, <1>4, <1>7, <2>1
    <2> DEFINE o == Cardinality(O)
               d == Len(p)
               u == Cardinality(H)
    <2>3. u = d + o - 0 /\ o \in Nat /\ d \in Nat
      BY <1>2, <1>6, <2>2
    <2> HIDE DEF o, d, u
    <2>4. u = d + o
      BY <2>3
    <2>5. QED
      BY <2>4 DEF o, d, u
  <1>9. ASSUME F = {} PROVE H = N
    BY <1>1, <1>4, <1>5, <1>9
  <1>10. QED
    BY <1>2, <1>3, <1>6, <1>8, <1>9 DEF F, H

\* add
LEMMA EnqueuedFacts ==
    ASSUME NEW s, NEW p, NEW vs, NEW b, NEW O, QueueHolds(s, p, vs, b, O),
           NEW v \in QueueItems, Unused(s.heap) # {}
    PROVE  \E q : QueueHolds(Enqueued(s, v), q, Append(vs, v), b, O)
  <1> DEFINE d == Len(p)
             h == s.heap
             x == s.q
             n == Min(Unused(h))
             g == WithNode(h, n, [value |-> v, previous |-> x.last, next |-> NoNode])
             t == Enqueued(s, v)
             q == Append(p, n)
  <1>0. Chained(SlabSize, NoNode, h, p, vs, O) /\ x = QueueHead(p, b) /\ b \in BOOLEAN
    BY DEF QueueHolds
  <1>1. /\ SlabSize \in Nat /\ NoNode \notin 1 .. SlabSize
        /\ Path(SlabSize, p) /\ d \in Nat /\ p \in Seq(1 .. SlabSize)
        /\ \A k \in 1 .. d : p[k] \in 1 .. SlabSize /\ p[k] \in DOMAIN h
        /\ vs \in Seq(QueueItems)
        /\ x.first = PathAt(NoNode, p, 1) /\ x.last = PathAt(NoNode, p, d) /\ x.n = d
        /\ x.first = NoNode <=> d = 0
    BY QueueHoldsFacts
  <1>2. n \in 1 .. SlabSize /\ n \notin DOMAIN h
    <2> DEFINE F == Unused(h)
    <2>1. F \subseteq Nat /\ F # {} /\ F = (1 .. SlabSize) \ DOMAIN h
      BY <1>1 DEF Unused, SlabSize
    <2> HIDE DEF F
    <2>2. PICK k \in F : \A m \in F : k <= m
      BY <2>1, LeastNumber
    <2>3. Min(F) \in F
      BY <2>2 DEF Min
    <2>4. QED
      BY <2>1, <2>3 DEF F
  <1>3. /\ t.heap = IF x.first = NoNode THEN g ELSE [g EXCEPT ![x.last].next = n]
        /\ t.q = [x EXCEPT !.first = IF @ = NoNode THEN n ELSE @, !.last = n, !.n = @ + 1]
    BY DEF Enqueued
  <1>4. q \in Seq(1 .. SlabSize) /\ Len(q) = d + 1 /\ Append(vs, v) \in Seq(QueueItems)
    BY <1>1, <1>2
  <1>5. \A k \in Int :
           PathAt(NoNode, q, k) = IF k = d + 1 THEN n ELSE PathAt(NoNode, p, k)
    <2>1. /\ SlabSize \in Nat /\ NoNode \notin 1 .. SlabSize
          /\ Path(SlabSize, p) /\ n \in 1 .. SlabSize
      BY <1>1, <1>2
    <2> HIDE DEF n
    <2>2. QED
      BY <2>1, PlacesOnPath
  <1> HIDE DEF d, h, x, n, t, q
  <1>6. /\ DOMAIN g = DOMAIN h \cup {n} /\ g[n] = Linking(v, PathAt(NoNode, p, d), NoNode)
        /\ \A m \in DOMAIN h : g[m] = h[m]
    BY <1>1, <1>2 DEF WithNode, Linking
  <1> HIDE DEF g
  <1>7. Lengthened(NoNode, h, p, v, n, t.heap)
    <2>1. CASE d = 0
      BY <1>1, <1>3, <1>6, <2>1 DEF Lengthened, d
    <2>2. CASE d # 0
      <3> DEFINE u == t.heap
      <3>1. d \in 1 .. d /\ x.last = p[d] /\ p[d] \in DOMAIN h /\ p[d] # n
            /\ PathAt(NoNode, p, d) = p[d]
        BY <1>1, <1>2, <2>2 DEF PathAt, d
      <3>2. u = [g EXCEPT ![p[d]].next = n]
        BY <1>1, <1>3, <2>2, <3>1
      <3>3. /\ DOMAIN u = DOMAIN g /\ u[p[d]] = [g[p[d]] EXCEPT !.next = n]
            /\ \A m \in DOMAIN g : m # p[d] => u[m] = g[m]
        BY <1>6, <3>1, <3>2
      <3> HIDE DEF u
      <3>4. Lengthened(NoNode, h, p, v, n, u)
        BY <1>2, <1>6, <3>1, <3>3 DEF Lengthened, d
      <3>5. QED
        BY <3>4 DEF u
    <2>3. QED
      BY <2>1, <2>2
  <1>8. t.q = QueueHead(q, b)
    <2>1. PathAt(NoNode, q, d + 1) = n
      BY <1>1, <1>5
    <2>2. PathAt(NoNode, q, 1) = IF x.first = NoNode THEN n ELSE x.first
      BY <1>1, <1>5
    <2>3. QueueHead(q, b) = [first |-> IF x.first = NoNode THEN n ELSE x.first, last |-> n,
                             n |-> d + 1, slab |-> b]
      BY <1>4, <2>1, <2>2 DEF QueueHead
    <2>4. x = [first |-> x.first, last |-> x.last, n |-> d, slab |-> b]
      BY <1>0, <1>1 DEF QueueHead, d
    <2>5. t.q = WithFields(x, IF x.first = NoNode THEN n ELSE x.first, n, x.n + 1)
      BY <1>3 DEF WithFields
    <2>6. x.n + 1 = d + 1
      BY <1>1
    <2>7. QED
      BY <2>3, <2>4, <2>5, <2>6, QueueFields
  <1>9. Chained(SlabSize, NoNode, t.heap, q, Append(vs, v), O)
    BY <1>0, <1>1, <1>2, <1>7, ChainedLonger DEF q
  <1>10. QueueHolds(t, q, Append(vs, v), b, O)
    BY <1>0, <1>4, <1>8, <1>9 DEF QueueHolds
  <1>11. QED
    BY <1>10 DEF t

\* pop
LEMMA DequeuedFacts ==
    ASSUME NEW s, NEW p, NEW vs, NEW b, NEW O, QueueHolds(s, p, vs, b, O), vs # <<>>
    PROVE  QueueHolds(Dequeued(s), SkipItem(p, 1), Tail(vs), b, O)
  <1> DEFINE d == Len(p)
             h == s.heap
             x == s.q
             m == PathAt(NoNode, p, 2)
             g == Dequeued(s).heap
             q == SkipItem(p, 1)
  <1>0. Chained(SlabSize, NoNode, h, p, vs, O) /\ x = QueueHead(p, b) /\ b \in BOOLEAN
    BY DEF QueueHolds
  <1>1. /\ SlabSize \in Nat /\ NoNode \notin 1 .. SlabSize
        /\ Path(SlabSize, p) /\ d \in Nat /\ d # 0 /\ p \in Seq(1 .. SlabSize)
        /\ \A k \in 1 .. d : p[k] \in 1 .. SlabSize /\ p[k] \in DOMAIN h
        /\ \A i, j \in 1 .. d : p[i] = p[j] => i = j
        /\ vs \in Seq(QueueItems) /\ Len(vs) = d
        /\ x.first = PathAt(NoNode, p, 1)
    BY QueueHoldsFacts
  <1>2. 1 \in 1 .. d /\ PathAt(NoNode, p, 1) = p[1] /\ x.first = p[1]
    BY <1>1 DEF PathAt
  <1>3. h[p[1]] = Linking(vs[1], PathAt(NoNode, p, 1 - 1), PathAt(NoNode, p, 1 + 1))
    BY <1>0, <1>2 DEF Chained, Linked
  <1>4. h[p[1]].next = m
    BY <1>3 DEF Linking
  <1>5. /\ g = [i \in DOMAIN h \ {p[1]} |->
                   IF i = m THEN [h[i] EXCEPT !.previous = NoNode] ELSE h[i]]
        /\ Dequeued(s).q = [x EXCEPT !.first = m, !.last = IF m = NoNode THEN NoNode ELSE @,
                                     !.n = @ - 1]
    BY <1>2, <1>4 DEF Dequeued
  <1>6. /\ PathAt(NoNode, p, 0) = NoNode
        /\ (2 \in 1 .. d => m = p[2]) /\ (2 \notin 1 .. d => m = NoNode)
    BY DEF PathAt
  <1> HIDE DEF h, g, m, q
  <1>7. Shortened(NoNode, h, p, 1, g)
    <2>1. DOMAIN g = DOMAIN h \ {p[1]}
      BY <1>5
    <2>2. ASSUME 1 < d PROVE g[p[2]] = [h[p[2]] EXCEPT !.previous = NoNode]
      <3>1. 2 \in 1 .. d /\ p[2] # p[1] /\ p[2] \in DOMAIN h
        BY <1>1, <2>2
      <3>2. QED
        BY <1>5, <1>6, <3>1
    <2>3. \A i \in DOMAIN h \ {p[1], NoNode, m} : g[i] = h[i]
      BY <1>5
    <2>4. 1 - 1 = 0 /\ 1 + 1 = 2 /\ ~(1 > 1)
      OBVIOUS
    <2>5. QED
      BY <1>6, <2>1, <2>2, <2>3, <2>4 DEF Shortened, m, d
  <1>8. Chained(SlabSize, NoNode, g, q, SkipItem(vs, 1), O)
    BY <1>0, <1>1, <1>2, <1>7, ChainedShorter DEF q
  <1>9. SkipItem(vs, 1) = Tail(vs) /\ Tail(vs) \in Seq(QueueItems)
    <2>1. /\ SubSeq(vs, 1, 1 - 1) = <<>> /\ SubSeq(vs, 1 + 1, Len(vs)) = Tail(vs)
          /\ Tail(vs) \in Seq(QueueItems)
      BY <1>1
    <2>2. <<>> \o Tail(vs) = Tail(vs)
      BY <2>1
    <2>3. QED
      BY <2>1, <2>2 DEF SkipItem
  <1>10. Dequeued(s).q = QueueHead(q, b)
    <2>1. \A k \in Int : PathAt(NoNode, q, k)
                            = IF k < 1 THEN PathAt(NoNode, p, k) ELSE PathAt(NoNode, p, k + 1)
      <3>1. /\ SlabSize \in Nat /\ NoNode \notin 1 .. SlabSize
            /\ Path(SlabSize, p) /\ 1 \in 1 .. Len(p)
        BY <1>1, <1>2
      <3>2. QED
        BY <3>1, PlacesOnPath DEF q
    <2>2. Len(q) = d - 1
      BY <1>1, <1>2, SkipItemFacts DEF q
    <2>3. PathAt(NoNode, q, 1) = m
      BY <2>1 DEF m
    <2>4. PathAt(NoNode, q, d - 1) = IF m = NoNode THEN NoNode ELSE PathAt(NoNode, p, d)
      <3>1. CASE d = 1
        <4>1. 0 \in Int /\ 0 < 1 /\ d - 1 = 0 /\ 2 \notin 1 .. d
          BY <3>1
        <4>2. QED
          BY <1>6, <2>1, <4>1
      <3>2. CASE d # 1
        <4>1. d - 1 \in Int /\ ~(d - 1 < 1) /\ d - 1 + 1 = d /\ 2 \in 1 .. d
          BY <1>1, <3>2
        <4>2. m # NoNode
          BY <1>1, <1>6, <4>1
        <4>3. QED
          BY <2>1, <4>1, <4>2
      <3>3. QED
        BY <3>1, <3>2
    <2>5. x = [first |-> x.first, last |-> PathAt(NoNode, p, d), n |-> d, slab |-> b]
      BY <1>0 DEF QueueHead
    <2>6. QueueHead(q, b) = [first |-> m, n |-> d - 1, slab |-> b,
                             last |-> IF m = NoNode THEN NoNode ELSE PathAt(NoNode, p, d)]
      BY <2>2, <2>3, <2>4 DEF QueueHead
    <2>7. x.last = PathAt(NoNode, p, d) /\ x.n = d
      BY <1>0 DEF QueueHead
    <2>8. Dequeued(s).q = WithFields(x, m, IF m = NoNode THEN NoNode ELSE x.last, x.n - 1)
      BY <1>5 DEF WithFields
    <2> HIDE DEF x, d
    <2>9. QED
      BY <2>5, <2>6, <2>7, <2>8, QueueFields
  <1>11. QED
    BY <1>0, <1>8, <1>9, <1>10 DEF QueueHolds, g, q

\* An iterator meets the nodes in turn.
LEMMA OnwardFacts ==
    ASSUME NEW s, NEW p, NEW vs, NEW b, NEW O, QueueHolds(s, p, vs, b, O)
    PROVE  Onward(s.heap, s.q.first) = p
  <1> DEFINE to == [m \in DOMAIN s.heap |-> s.heap[m].next]
             n == s.q.first
             w == Going(to, n)
  <1>1. /\ SlabSize \in Nat /\ NoNode \notin 1 .. SlabSize /\ Path(SlabSize, p)
        /\ n = PathAt(NoNode, p, 1) /\ \A k \in 1 .. Len(p) : p[k] \in DOMAIN s.heap
    BY QueueHoldsFacts
  <1>2. \A k \in 1 .. Len(p) :
           s.heap[p[k]] = Linking(vs[k], PathAt(NoNode, p, k - 1), PathAt(NoNode, p, k + 1))
    BY DEF QueueHolds, Chained, Linked
  <1>3. \A k \in 1 .. Len(p) : to[p[k]] = PathAt(NoNode, p, k + 1)
    BY <1>1, <1>2, LinkingFields
  <1>4. Onward(s.heap, n) = Trodden(SlabSize, NoNode, w)
    BY DEF Onward, Trodden, SlabSize
  <1>5. w = CHOOSE f : GoesAlong(NoNode, n, to, f)
    BY DEF Going, GoesAlong
  <1> HIDE DEF to, n, w
  <1>6. LeadsAlong(NoNode, n, to, p)
    BY <1>1, <1>3 DEF LeadsAlong
  <1>7. StepsAlong(NoNode, n, to, w)
    BY <1>1, <1>5, <1>6, DefinedWalk
  <1>8. Trodden(SlabSize, NoNode, w) = p
    BY <1>1, <1>6, <1>7, WalkMeets
  <1>9. QED
    BY <1>4, <1>8 DEF n


\* Some of vs have been added to s.
EnqueuesTo(s, vs, n, t) ==
    /\ t = [k \in 0 .. n |-> t[k]] /\ t[0] = s
    /\ \A k \in 1 .. n : t[k] = Enqueued(t[k - 1], vs[k])

\* The recursion of EnqueuedSome is one: each round adds one more.
LEMMA EnqueuedEquation ==
    ASSUME NEW s, NEW vs, Len(vs) \in Nat
    PROVE  /\ EnqueuedSome(s, vs)[0] = s
           /\ \A k \in 1 .. Len(vs) :
                 EnqueuedSome(s, vs)[k] = Enqueued(EnqueuedSome(s, vs)[k - 1], vs[k])
  <1> DEFINE n == Len(vs)
             T == {m \in Nat : \E t : EnqueuesTo(s, vs, m, t)}
             Def(t) == t = [k \in 0 .. n |-> IF k = 0 THEN s ELSE Enqueued(t[k - 1], vs[k])]
             R == EnqueuedSome(s, vs)
  <1>1. n \in Nat
    OBVIOUS
  <1>2. 0 \in T
    <2> DEFINE t == [k \in 0 .. 0 |-> s]
    <2>1. t = [k \in 0 .. 0 |-> t[k]] /\ t[0] = s
      OBVIOUS
    <2> HIDE DEF t
    <2>2. EnqueuesTo(s, vs, 0, t)
      BY <2>1 DEF EnqueuesTo
    <2>3. QED
      BY <2>2
  <1>3. ASSUME NEW m \in Nat, m \in T PROVE m + 1 \in T
    <2>1. PICK t : EnqueuesTo(s, vs, m, t)
      BY <1>3
    <2> DEFINE u == [k \in 0 .. m + 1 |-> IF k = m + 1 THEN Enqueued(t[m], vs[m + 1]) ELSE t[k]]
    <2>2. u = [k \in 0 .. m + 1 |-> u[k]]
      OBVIOUS
    <2>3. \A k \in 0 .. m : u[k] = t[k]
      <3>1. \A k \in 0 .. m : k \in 0 .. m + 1 /\ k # m + 1
        OBVIOUS
      <3>2. QED
        BY <3>1
    <2>4. u[m + 1] = Enqueued(t[m], vs[m + 1])
      OBVIOUS
    <2> HIDE DEF u
    <2>5. u[0] = s
      BY <2>1, <2>3 DEF EnqueuesTo
    <2>6. ASSUME NEW k \in 1 .. m + 1 PROVE u[k] = Enqueued(u[k - 1], vs[k])
      <3>1. CASE k = m + 1
        <4>1. m \in 0 .. m /\ k - 1 = m
          BY <3>1
        <4>2. u[k - 1] = t[m]
          BY <2>3, <4>1
        <4>3. QED
          BY <2>4, <3>1, <4>2
      <3>2. CASE k # m + 1
        <4>1. k \in 1 .. m /\ k \in 0 .. m /\ k - 1 \in 0 .. m
          BY <3>2
        <4>2. t[k] = Enqueued(t[k - 1], vs[k])
          BY <2>1, <4>1 DEF EnqueuesTo
        <4>3. u[k] = t[k] /\ u[k - 1] = t[k - 1]
          BY <2>3, <4>1
        <4>4. QED
          BY <4>2, <4>3
      <3>3. QED
        BY <3>1, <3>2
    <2>7. EnqueuesTo(s, vs, m + 1, u)
      BY <2>2, <2>5, <2>6 DEF EnqueuesTo
    <2>8. QED
      BY <2>7
  <1> HIDE DEF T
  <1>4. Nat \subseteq T
    BY <1>2, <1>3, CountingUp
  <1>5. PICK t : EnqueuesTo(s, vs, n, t)
    BY <1>1, <1>4 DEF T
  <1>6. R = CHOOSE f : Def(f)
    BY DEF EnqueuedSome
  <1> HIDE DEF n
  <1>7. \A k \in 0 .. n : t[k] = IF k = 0 THEN s ELSE Enqueued(t[k - 1], vs[k])
    <2> TAKE k \in 0 .. n
    <2>1. CASE k = 0
      BY <1>5, <2>1 DEF EnqueuesTo
    <2>2. CASE k # 0
      <3>1. k \in 1 .. n
        BY <1>1, <2>2
      <3>2. QED
        BY <1>5, <2>2, <3>1 DEF EnqueuesTo
    <2>3. QED
      BY <2>1, <2>2
  <1>8. t = [k \in 0 .. n |-> t[k]]
    BY <1>5 DEF EnqueuesTo
  <1>9. Def(t)
    BY <1>7, <1>8
  <1> HIDE DEF Def, R
  <1>10. Def(R)
    BY <1>6, <1>9
  <1> USE DEF Def
  <1>11. \A f : f = [k \in 0 .. n |-> IF k = 0 THEN s ELSE Enqueued(R[k - 1], vs[k])]
            => \A k \in 0 .. n : f[k] = IF k = 0 THEN s ELSE Enqueued(R[k - 1], vs[k])
    OBVIOUS
  <1>12. \A k \in 0 .. n : R[k] = IF k = 0 THEN s ELSE Enqueued(R[k - 1], vs[k])
    BY <1>10, <1>11
  <1>13. 0 \in 0 .. n /\ \A k \in 1 .. n : k \in 0 .. n /\ k # 0
    BY <1>1
  <1>14. QED
    BY <1>12, <1>13 DEF R, n

\* What is true of the queue after k rounds: it holds the first k of vs.
EnqueuedWell(vs, b, O, k, t) == \E p : QueueHolds(t, p, SubSeq(vs, 1, k), b, O)

\* addMany to an empty queue, when there are nodes for all
LEMMA EnqueuedAllFacts ==
    ASSUME NEW s, NEW b, NEW O, QueueHolds(s, <<>>, <<>>, b, O), NEW vs \in Seq(QueueItems),
           Len(vs) + Cardinality(O) <= SlabSize
    PROVE  \E p : QueueHolds(EnqueuedAll(s, vs), p, vs, b, O)
  <1> DEFINE n == Len(vs)
             R == EnqueuedSome(s, vs)
             T == {k \in Nat : k <= n => EnqueuedWell(vs, b, O, k, R[k])}
  <1>1. n \in Nat /\ \A k \in 1 .. n : vs[k] \in QueueItems
    OBVIOUS
  <1>2. R[0] = s /\ \A k \in 1 .. n : R[k] = Enqueued(R[k - 1], vs[k])
    BY <1>1, EnqueuedEquation
  <1>3. EnqueuedAll(s, vs) = R[n]
    BY DEF EnqueuedAll
  <1>4. Cardinality(O) \in Nat /\ SlabSize \in Nat
    BY QueueCount, QueueHoldsFacts
  <1>5. SubSeq(vs, 1, 0) = <<>> /\ SubSeq(vs, 1, n) = vs
    OBVIOUS
  <1>6. \A k \in 0 .. n - 1 : SubSeq(vs, 1, k + 1) = Append(SubSeq(vs, 1, k), vs[k + 1])
    OBVIOUS
  <1>7. \A k \in 0 .. n : Len(SubSeq(vs, 1, k)) = k
    OBVIOUS
  <1>8. n + Cardinality(O) <= SlabSize
    OBVIOUS
  <1> HIDE DEF R, n
  <1>9. 0 \in T
    BY <1>2, <1>5 DEF EnqueuedWell
  <1>10. ASSUME NEW k \in Nat, k \in T PROVE k + 1 \in T
    <2> SUFFICES ASSUME k + 1 <= n PROVE EnqueuedWell(vs, b, O, k + 1, R[k + 1])
      OBVIOUS
    <2> DEFINE t == R[k]
               ws == SubSeq(vs, 1, k)
               v == vs[k + 1]
    <2>1. k <= n /\ k + 1 \in 1 .. n /\ (k + 1) - 1 = k /\ k \in 0 .. n - 1 /\ k \in 0 .. n
      BY <1>1
    <2>2. EnqueuedWell(vs, b, O, k, t)
      BY <1>10, <2>1
    <2>3. R[k + 1] = Enqueued(t, v) /\ v \in QueueItems
      BY <1>1, <1>2, <2>1
    <2>4. Len(ws) = k /\ SubSeq(vs, 1, k + 1) = Append(ws, v)
      BY <1>6, <1>7, <2>1
    <2> HIDE DEF t, ws, v
    <2>5. PICK p : QueueHolds(t, p, ws, b, O)
      BY <2>2 DEF EnqueuedWell, ws
    <2>6. Len(p) = k
      BY <2>4, <2>5, QueueHoldsFacts
    <2>7. Unused(t.heap) # {}
      <3>1. Len(p) + Cardinality(O) < SlabSize
        BY <1>1, <1>4, <1>8, <2>1, <2>6
      <3>2. QED
        BY <2>5, <3>1, QueueCount
    <2> DEFINE u == Enqueued(t, v)
    <2>8. \E q : QueueHolds(u, q, Append(ws, v), b, O)
      BY <2>3, <2>5, <2>7, EnqueuedFacts
    <2> HIDE DEF u
    <2>9. R[k + 1] = u
      BY <2>3 DEF u
    <2>10. QED
      BY <2>4, <2>8, <2>9 DEF EnqueuedWell
  <1> HIDE DEF T
  <1>11. Nat \subseteq T
    BY <1>9, <1>10, CountingUp
  <1>12. EnqueuedWell(vs, b, O, n, R[n])
    BY <1>1, <1>11 DEF T
  <1>13. QED
    BY <1>3, <1>5, <1>12 DEF EnqueuedWell

\* A slab and a queue that hold vs, with at most a spare node besides
QueueWell(s, vs) ==
    /\ Len(vs) <= MaxQueue
    /\ \E p, b : \E O \in {{}, {1}} : QueueHolds(s, p, vs, b, O)

\* All the queues
QueueInv ==
    /\ DOMAIN queueNode = Queues /\ DOMAIN queue = Queues /\ DOMAIN waiting = Queues
    /\ \A q \in Queues : QueueWell(Now(q), waiting[q])

\* Queue q has become s.
LEMMA BecomingKeeps ==
    ASSUME QueueInv, NEW q \in Queues, NEW s, NEW vs, QueueWell(s, vs), Becoming(q, s, vs)
    PROVE  QueueInv'
  <1>1. DOMAIN queueNode = Queues /\ DOMAIN queue = Queues /\ DOMAIN waiting = Queues
    BY DEF QueueInv
  <1>2. /\ queueNode' = [queueNode EXCEPT ![q] = s.heap] /\ queue' = [queue EXCEPT ![q] = s.q]
        /\ waiting' = [waiting EXCEPT ![q] = vs]
    BY DEF Becoming
  <1>3. DOMAIN queueNode' = Queues /\ DOMAIN queue' = Queues /\ DOMAIN waiting' = Queues
    BY <1>1, <1>2
  <1>4. QueueWell([heap |-> s.heap, q |-> s.q], vs)
    BY DEF QueueWell, QueueHolds
  <1>5. ASSUME NEW r \in Queues PROVE QueueWell(Now(r)', waiting'[r])
    <2>1. CASE r = q
      BY <1>1, <1>2, <1>4, <2>1 DEF Now
    <2>2. CASE r # q
      <3>1. Now(r)' = Now(r) /\ waiting'[r] = waiting[r]
        BY <1>1, <1>2, <2>2 DEF Now
      <3>2. QED
        BY <3>1 DEF QueueInv
    <2>3. QED
      BY <2>1, <2>2
  <1>6. QED
    BY <1>3, <1>5 DEF QueueInv

\* What is known of queue q
LEMMA QueueHere ==
    ASSUME QueueInv, NEW q \in Queues
    PROVE  /\ \E p, b : \E O \in {{}, {1}} : QueueHolds(Now(q), p, waiting[q], b, O)
           /\ Now(q).heap = queueNode[q] /\ Now(q).q = queue[q]
           /\ Now(q) = [heap |-> Now(q).heap, q |-> Now(q).q]
           /\ waiting[q] \in Seq(QueueItems) /\ Len(waiting[q]) <= MaxQueue
           /\ Meets(q) = waiting[q]
           /\ queue[q].first = NoNode <=> waiting[q] = <<>>
           /\ queue[q].last = NoNode <=> waiting[q] = <<>>
  <1>1. QueueWell(Now(q), waiting[q])
    BY DEF QueueInv
  <1>2. Now(q) = [heap |-> queueNode[q], q |-> queue[q]]
    BY DEF Now
  <1>3. PICK p, b : \E O \in {{}, {1}} : QueueHolds(Now(q), p, waiting[q], b, O)
    BY <1>1 DEF QueueWell
  <1>4. PICK O \in {{}, {1}} : QueueHolds(Now(q), p, waiting[q], b, O)
    BY <1>3
  <1> DEFINE vs == waiting[q]
             h == queueNode[q]
             d == Len(p)
  <1>5. Now(q).heap = h /\ Now(q).q = queue[q]
    BY <1>2
  <1>6. /\ vs \in Seq(QueueItems) /\ Len(vs) = d /\ (vs = <<>> <=> d = 0)
        /\ Now(q).q.first = NoNode <=> d = 0
        /\ Now(q).q.last = NoNode <=> d = 0
        /\ p \in Seq(1 .. SlabSize)
    BY <1>4, QueueHoldsFacts
  <1>7. Onward(h, queue[q].first) = p
    BY <1>4, <1>5, OnwardFacts
  <1>8. \A k \in 1 .. d : h[p[k]].value = vs[k]
    <2>1. Linked(NoNode, h, p, vs)
      BY <1>4, <1>5 DEF QueueHolds, Chained
    <2>2. QED
      BY <2>1, LinkingFields DEF Linked
  <1>9. Meets(q) = [k \in 1 .. d |-> h[p[k]].value]
    BY <1>6, <1>7 DEF Meets
  <1>10. vs = [k \in 1 .. d |-> vs[k]]
    BY <1>6
  <1> HIDE DEF vs, h, d
  <1>11. Meets(q) = vs
    BY <1>8, <1>9, <1>10
  <1>12. QED
    BY <1>1, <1>2, <1>3, <1>5, <1>6, <1>11 DEF vs, h, d, QueueWell


\* A new queue, in a new slab or in one with a spare node c
LEMMA NewQueueHolds ==
    ASSUME NEW c
    PROVE  /\ QueueHolds([heap |-> <<>>, q |-> EmptyQueue], <<>>, <<>>, TRUE, {})
           /\ QueueHolds([heap |-> WithNode(<<>>, 1, c), q |-> EmptyQueue], <<>>, <<>>, TRUE, {1})
  <1>1. SlabSize \in Nat /\ 1 \in 1 .. SlabSize
    BY QueueAssumption DEF SlabSize
  <1>2. EmptyQueue = QueueHead(<<>>, TRUE)
    BY DEF EmptyQueue, QueueHead, PathAt
  <1>3. Path(SlabSize, <<>>) /\ NodesIn(<<>>) = {} /\ Len(<<>>) = 0
    BY DEF Path, NodesIn
  <1>4. DOMAIN <<>> = {} /\ DOMAIN WithNode(<<>>, 1, c) = {1}
    BY DEF WithNode
  <1>5. ASSUME NEW h, NEW O, DOMAIN h = O, O \subseteq 1 .. SlabSize
        PROVE  Chained(SlabSize, NoNode, h, <<>>, <<>>, O)
    <2>1. Linked(NoNode, h, <<>>, <<>>)
      BY DEF Linked
    <2>2. QED
      BY <1>3, <1>5, <2>1 DEF Chained
  <1>6. /\ Chained(SlabSize, NoNode, <<>>, <<>>, <<>>, {})
        /\ Chained(SlabSize, NoNode, WithNode(<<>>, 1, c), <<>>, <<>>, {1})
    BY <1>1, <1>4, <1>5
  <1>7. QED
    BY <1>2, <1>6 DEF QueueHolds

\* There is at most one spare node.
LEMMA SpareCount ==
    ASSUME NEW O \in {{}, {1}}
    PROVE  Cardinality(O) \in 0 .. 1
  <1>1. Cardinality({}) = 0 /\ Cardinality({1}) = 1
    BY FS_EmptySet, FS_Singleton
  <1>2. QED
    BY <1>1

\* A queue that holds nothing
LEMMA EmptyWell ==
    ASSUME NEW s, NEW b, QueueHolds(s, <<>>, <<>>, b, {})
    PROVE  QueueWell(s, <<>>)
  <1>1. Len(<<>>) <= MaxQueue
    BY QueueAssumption
  <1>2. {} \in {{}, {1}}
    OBVIOUS
  <1>3. QED
    BY <1>1, <1>2, Zenon DEF QueueWell

\* add
LEMMA EnqueueKeeps ==
    ASSUME QueueInv, NEW q \in Queues, NEW v \in QueueItems, Enqueue(q, v)
    PROVE  QueueInv'
  <1> DEFINE vs == waiting[q]
             s == Now(q)
             t == Enqueued(s, v)
  <1>1. /\ \E p, b : \E O \in {{}, {1}} : QueueHolds(s, p, vs, b, O)
        /\ vs \in Seq(QueueItems)
    BY QueueHere
  <1>2. PICK p, b : \E O \in {{}, {1}} : QueueHolds(s, p, vs, b, O)
    BY <1>1
  <1>3. PICK O \in {{}, {1}} : QueueHolds(s, p, vs, b, O)
    BY <1>2
  <1>4. Len(vs) < MaxQueue /\ Becoming(q, t, Append(vs, v))
    BY DEF Enqueue
  <1> HIDE DEF s, vs
  <1>5. Len(p) = Len(vs) /\ Len(p) \in Nat
    BY <1>3, QueueHoldsFacts
  <1>6. Unused(s.heap) # {}
    <2>1. Cardinality(O) \in 0 .. 1
      BY SpareCount
    <2>2. Len(p) + Cardinality(O) < SlabSize
      BY <1>4, <1>5, <2>1, QueueAssumption DEF SlabSize
    <2>3. QED
      BY <1>3, <2>2, QueueCount
  <1>7. \E r : QueueHolds(t, r, Append(vs, v), b, O)
    BY <1>3, <1>6, EnqueuedFacts
  <1>8. Len(Append(vs, v)) <= MaxQueue
    BY <1>1, <1>4, QueueAssumption DEF vs
  <1> HIDE DEF t
  <1>9. QueueWell(t, Append(vs, v))
    BY <1>7, <1>8 DEF QueueWell
  <1>10. QED
    BY <1>4, <1>9, BecomingKeeps

\* pop
LEMMA DequeueKeeps ==
    ASSUME QueueInv, NEW q \in Queues, Dequeue(q)
    PROVE  QueueInv'
  <1> DEFINE vs == waiting[q]
             s == Now(q)
             t == Dequeued(s)
  <1>1. /\ \E p, b : \E O \in {{}, {1}} : QueueHolds(s, p, vs, b, O)
        /\ vs \in Seq(QueueItems) /\ Len(vs) <= MaxQueue
        /\ queue[q].first = NoNode <=> vs = <<>>
    BY QueueHere
  <1>2. PICK p, b : \E O \in {{}, {1}} : QueueHolds(s, p, vs, b, O)
    BY <1>1
  <1>3. PICK O \in {{}, {1}} : QueueHolds(s, p, vs, b, O)
    BY <1>2
  <1>4. vs # <<>> /\ Becoming(q, t, Tail(vs))
    BY <1>1 DEF Dequeue
  <1> HIDE DEF s, vs
  <1>5. QueueHolds(t, SkipItem(p, 1), Tail(vs), b, O)
    BY <1>3, <1>4, DequeuedFacts
  <1>6. Len(Tail(vs)) <= MaxQueue
    BY <1>1, <1>4, QueueAssumption
  <1> HIDE DEF t
  <1>7. QueueWell(t, Tail(vs))
    BY <1>5, <1>6 DEF QueueWell
  <1>8. QED
    BY <1>4, <1>7, BecomingKeeps

\* setLast
LEMMA SetLastKeeps ==
    ASSUME QueueInv, NEW q \in Queues, NEW v \in QueueItems, SetLast(q, v)
    PROVE  QueueInv'
  <1> DEFINE vs == waiting[q]
             s == Now(q)
             n == Len(vs)
             m == queue[q].last
             t == [s EXCEPT !.heap[m].value = v]
             ws == [vs EXCEPT ![n] = v]
             g == [s.heap EXCEPT ![m].value = v]
  <1>1. /\ \E p, b : \E O \in {{}, {1}} : QueueHolds(s, p, vs, b, O)
        /\ s.q = queue[q] /\ s = [heap |-> s.heap, q |-> s.q]
        /\ vs \in Seq(QueueItems) /\ Len(vs) <= MaxQueue
        /\ queue[q].last = NoNode <=> vs = <<>>
    BY QueueHere
  <1>2. PICK p, b : \E O \in {{}, {1}} : QueueHolds(s, p, vs, b, O)
    BY <1>1
  <1>3. PICK O \in {{}, {1}} : QueueHolds(s, p, vs, b, O)
    BY <1>2
  <1>4. vs # <<>> /\ Becoming(q, t, ws)
    BY <1>1 DEF SetLast
  <1>5. t.heap = g /\ t.q = s.q
    BY <1>1
  <1> HIDE DEF s, vs, t
  <1>6. /\ SlabSize \in Nat /\ NoNode \notin 1 .. SlabSize /\ Len(p) = n
        /\ s.q.last = PathAt(NoNode, p, n)
        /\ \A k \in 1 .. n : p[k] \in DOMAIN s.heap
    BY <1>3, QueueHoldsFacts
  <1>7. n \in 1 .. n
    BY <1>1, <1>4
  <1>8. m = p[n] /\ p[n] \in DOMAIN s.heap
    BY <1>1, <1>6, <1>7 DEF PathAt
  <1>9. Chained(SlabSize, NoNode, s.heap, p, vs, O) /\ s.q = QueueHead(p, b) /\ b \in BOOLEAN
    BY <1>3 DEF QueueHolds
  <1>10. Revalued(s.heap, p, n, v, g)
    BY <1>8 DEF Revalued
  <1> HIDE DEF g, n
  <1>11. Chained(SlabSize, NoNode, g, p, [vs EXCEPT ![n] = v], O)
    BY <1>1, <1>6, <1>7, <1>9, <1>10, ChainedValue
  <1>12. ws \in Seq(QueueItems) /\ Len(ws) <= MaxQueue
    BY <1>1, <1>7 DEF n
  <1>13. QueueHolds(t, p, ws, b, O)
    BY <1>5, <1>9, <1>11, <1>12 DEF QueueHolds
  <1> HIDE DEF ws
  <1>14. QueueWell(t, ws)
    BY <1>12, <1>13 DEF QueueWell
  <1>15. QED
    BY <1>4, <1>14, BecomingKeeps

\* clear, assignment and copying: a new queue, to which vs are added
LEMMA FreshQueueKeeps ==
    ASSUME QueueInv, NEW q \in Queues,
           ClearQueue(q) \/ \E r \in Queues : AssignQueue(q, r) \/ CopyQueue(q, r)
    PROVE  QueueInv'
  <1> DEFINE s == [heap |-> <<>>, q |-> EmptyQueue]
             z(r) == [heap |-> WithNode(<<>>, 1, queueNode[r][queue[r].first]),
                      q |-> EmptyQueue]
  <1>1. QueueHolds(s, <<>>, <<>>, TRUE, {}) /\ \A r : QueueHolds(z(r), <<>>, <<>>, TRUE, {1})
    BY NewQueueHolds
  <1> HIDE DEF s, z
  <1>2. ASSUME NEW O \in {{}, {1}}, NEW u, QueueHolds(u, <<>>, <<>>, TRUE, O), NEW r \in Queues
        PROVE  QueueWell(EnqueuedAll(u, Meets(r)), waiting[r])
    <2>1. /\ Meets(r) = waiting[r] /\ waiting[r] \in Seq(QueueItems)
          /\ Len(waiting[r]) <= MaxQueue
      BY QueueHere
    <2>2. Cardinality(O) \in 0 .. 1
      BY SpareCount
    <2>3. Len(waiting[r]) + Cardinality(O) <= SlabSize
      BY <2>1, <2>2, QueueAssumption DEF SlabSize
    <2>4. \E p : QueueHolds(EnqueuedAll(u, waiting[r]), p, waiting[r], TRUE, O)
      BY <1>2, <2>1, <2>3, EnqueuedAllFacts
    <2>5. QED
      BY <2>1, <2>4 DEF QueueWell
  <1>3. CASE ClearQueue(q)
    <2>1. Becoming(q, s, <<>>)
      BY <1>3 DEF ClearQueue, s
    <2>2. QueueWell(s, <<>>)
      BY <1>1, EmptyWell
    <2>3. QED
      BY <2>1, <2>2, BecomingKeeps
  <1>4. CASE \E r \in Queues : AssignQueue(q, r)
    <2> PICK r \in Queues : AssignQueue(q, r)
      BY <1>4
    <2>1. Becoming(q, EnqueuedAll(s, Meets(r)), waiting[r])
      BY DEF AssignQueue, s
    <2>2. QueueWell(EnqueuedAll(s, Meets(r)), waiting[r])
      BY <1>1, <1>2
    <2>3. QED
      BY <2>1, <2>2, BecomingKeeps
  <1>5. CASE \E r \in Queues : CopyQueue(q, r)
    <2> PICK r \in Queues : CopyQueue(q, r)
      BY <1>5
    <2>1. Becoming(q, EnqueuedAll(z(r), Meets(r)), waiting[r])
      BY DEF CopyQueue, z
    <2>2. QueueWell(EnqueuedAll(z(r), Meets(r)), waiting[r])
      BY <1>1, <1>2
    <2>3. QED
      BY <2>1, <2>2, BecomingKeeps
  <1>6. QED
    BY <1>3, <1>4, <1>5

\* One of its fields is another.
WithSlab(x, c) == [x EXCEPT !.slab = c]

LEMMA QueueSlab ==
    ASSUME NEW p, NEW b, NEW c, NEW x, x = QueueHead(p, b)
    PROVE  WithSlab(x, c) = QueueHead(p, c)
  <1> DEFINE f == PathAt(NoNode, p, 1)
             l == PathAt(NoNode, p, Len(p))
             n == Len(p)
  <1>1. /\ x = [first |-> f, last |-> l, n |-> n, slab |-> b]
        /\ QueueHead(p, c) = [first |-> f, last |-> l, n |-> n, slab |-> c]
    BY DEF QueueHead
  <1> HIDE DEF f, l, n
  <1>2. QED
    BY <1>1 DEF WithSlab

\* The move constructor: r is left without a slab.
LEMMA MoveQueueKeeps ==
    ASSUME QueueInv, NEW q \in Queues, NEW r \in Queues, MoveQueue(q, r)
    PROVE  QueueInv'
  <1> DEFINE none == [EmptyQueue EXCEPT !.slab = FALSE]
             gone == [heap |-> <<>>, q |-> none]
  <1>1. DOMAIN queueNode = Queues /\ DOMAIN queue = Queues /\ DOMAIN waiting = Queues
    BY DEF QueueInv
  <1>2. QueueWell(gone, <<>>)
    <2>1. Chained(SlabSize, NoNode, <<>>, <<>>, <<>>, {})
      BY NewQueueHolds DEF QueueHolds
    <2>2. none = QueueHead(<<>>, FALSE)
      <3>1. EmptyQueue = QueueHead(<<>>, TRUE)
        BY NewQueueHolds DEF QueueHolds
      <3>2. none = WithSlab(EmptyQueue, FALSE)
        BY DEF WithSlab
      <3> HIDE DEF none
      <3>3. WithSlab(EmptyQueue, FALSE) = QueueHead(<<>>, FALSE)
        BY <3>1, QueueSlab, ZenonT(30)
      <3>4. QED
        BY <3>2, <3>3
    <2> HIDE DEF none
    <2>3. QueueHolds(gone, <<>>, <<>>, FALSE, {})
      BY <2>1, <2>2 DEF QueueHolds
    <2>4. QED
      BY <2>3, EmptyWell
  <1>3. /\ q # r
        /\ queueNode' = [queueNode EXCEPT ![q] = queueNode[r], ![r] = <<>>]
        /\ queue' = [queue EXCEPT ![q] = queue[r], ![r] = none]
        /\ waiting' = [waiting EXCEPT ![q] = waiting[r], ![r] = <<>>]
    BY DEF MoveQueue
  <1> HIDE DEF none
  <1>4. DOMAIN queueNode' = Queues /\ DOMAIN queue' = Queues /\ DOMAIN waiting' = Queues
    BY <1>1, <1>3
  <1>5. Now(q)' = Now(r) /\ waiting'[q] = waiting[r]
    BY <1>1, <1>3 DEF Now
  <1>6. Now(r)' = gone /\ waiting'[r] = <<>>
    BY <1>1, <1>3 DEF Now
  <1>7. \A k \in Queues \ {q, r} : Now(k)' = Now(k) /\ waiting'[k] = waiting[k]
    BY <1>1, <1>3 DEF Now
  <1> HIDE DEF gone
  <1>8. ASSUME NEW k \in Queues PROVE QueueWell(Now(k)', waiting'[k])
    <2>1. CASE k = q
      BY <1>5, <2>1 DEF QueueInv
    <2>2. CASE k = r
      BY <1>2, <1>6, <2>2
    <2>3. CASE k \in Queues \ {q, r}
      BY <1>7, <2>3 DEF QueueInv
    <2>4. QED
      BY <2>1, <2>2, <2>3
  <1>9. QED
    BY <1>4, <1>8 DEF QueueInv

\* Before anything has been added
LEMMA QueueInitHolds ==
    ASSUME QueueInit
    PROVE  QueueInv
  <1>1. QueueWell([heap |-> <<>>, q |-> EmptyQueue], <<>>)
    BY NewQueueHolds, EmptyWell
  <1>2. QED
    BY <1>1 DEF QueueInit, QueueInv, Now

\* Every operation
LEMMA QueueNextKeeps ==
    ASSUME QueueInv, [QueueNext]_queueVars
    PROVE  QueueInv'
  <1>1. CASE UNCHANGED queueVars
    BY <1>1 DEF QueueInv, QueueWell, Now, queueVars
  <1>2. CASE QueueNext
    <2> PICK q \in Queues :
          \/ \E v \in QueueItems : Enqueue(q, v) \/ SetLast(q, v)
          \/ Dequeue(q) \/ ClearQueue(q)
          \/ \E r \in Queues : AssignQueue(q, r) \/ CopyQueue(q, r) \/ MoveQueue(q, r)
      BY <1>2, Zenon DEF QueueNext
    <2>1. CASE \E v \in QueueItems : Enqueue(q, v)
      BY <2>1, EnqueueKeeps
    <2>2. CASE \E v \in QueueItems : SetLast(q, v)
      BY <2>2, SetLastKeeps
    <2>3. CASE Dequeue(q)
      BY <2>3, DequeueKeeps
    <2>4. CASE ClearQueue(q) \/ \E r \in Queues : AssignQueue(q, r) \/ CopyQueue(q, r)
      BY <2>4, FreshQueueKeeps
    <2>5. CASE \E r \in Queues : MoveQueue(q, r)
      BY <2>5, MoveQueueKeeps
    <2>6. QED
      BY <2>1, <2>2, <2>3, <2>4, <2>5, Zenon
  <1>3. QED
    BY <1>1, <1>2

\* What the invariant says of the nodes of each queue
LEMMA QueuesMeet ==
    ASSUME QueueInv
    PROVE  QueueTypeOK /\ QueueRight
  <1>1. ASSUME NEW q \in Queues
        PROVE  LET nodes == Onward(queueNode[q], queue[q].first)  n == Len(waiting[q]) IN
               /\ DOMAIN queueNode[q] \subseteq 1 .. MaxQueue + 1
               /\ {queue[q].first, queue[q].last} \subseteq DOMAIN queueNode[q] \cup {NoNode}
               /\ queue[q].n \in Nat
               /\ Meets(q) = waiting[q]
               /\ queue[q].n = n
               /\ queue[q].last = IF n = 0 THEN NoNode ELSE nodes[n]
               /\ \A k \in 1 .. n :
                     queueNode[q][nodes[k]].previous = IF k = 1 THEN NoNode ELSE nodes[k - 1]
               /\ Cardinality(DOMAIN queueNode[q]) \in {n, n + 1}
    <2> DEFINE h == queueNode[q]
               x == queue[q]
               vs == waiting[q]
               n == Len(vs)
    <2>1. /\ \E p, b : \E O \in {{}, {1}} : QueueHolds(Now(q), p, vs, b, O)
          /\ Now(q).heap = h /\ Now(q).q = x /\ Meets(q) = vs
      BY QueueHere
    <2>2. PICK p, b : \E O \in {{}, {1}} : QueueHolds(Now(q), p, vs, b, O)
      BY <2>1
    <2>3. PICK O \in {{}, {1}} : QueueHolds(Now(q), p, vs, b, O)
      BY <2>2
    <2>4. /\ SlabSize \in Nat /\ NoNode \notin 1 .. SlabSize /\ Path(SlabSize, p)
          /\ n \in Nat /\ Len(p) = n /\ x.first = PathAt(NoNode, p, 1)
          /\ x.last = PathAt(NoNode, p, n) /\ x.n = n
          /\ \A k \in 1 .. n : p[k] \in DOMAIN h
      BY <2>1, <2>3, QueueHoldsFacts
    <2>5. Onward(h, x.first) = p
      BY <2>1, <2>3, OnwardFacts
    <2>6. Cardinality(DOMAIN h) = n + Cardinality(O) /\ Cardinality(O) \in 0 .. 1
      <3>1. Cardinality(DOMAIN Now(q).heap) = Len(p) + Cardinality(O)
        BY <2>3, QueueCount
      <3>2. QED
        BY <2>1, <2>4, <3>1, SpareCount
    <2>7. DOMAIN h = NodesIn(p) \cup O /\ O \subseteq 1 .. SlabSize /\ Linked(NoNode, h, p, vs)
      BY <2>1, <2>3 DEF QueueHolds, Chained
    <2>8. NodesIn(p) \subseteq 1 .. SlabSize
      BY <2>4, PathFacts
    <2> HIDE DEF h, x, vs, n
    <2>9. DOMAIN h \subseteq 1 .. MaxQueue + 1
      BY <2>7, <2>8 DEF SlabSize
    <2>10. \A k \in {1, n} : PathAt(NoNode, p, k) \in DOMAIN h \cup {NoNode}
      BY <2>4 DEF PathAt
    <2>11. x.last = IF n = 0 THEN NoNode ELSE p[n]
      BY <2>4 DEF PathAt
    <2>12. ASSUME NEW k \in 1 .. n
           PROVE  h[p[k]].previous = IF k = 1 THEN NoNode ELSE p[k - 1]
      <3>1. h[p[k]].previous = PathAt(NoNode, p, k - 1)
        BY <2>4, <2>7, LinkingFields DEF Linked
      <3>2. k - 1 \in 1 .. n <=> k # 1
        BY <2>4
      <3>3. QED
        BY <2>4, <3>1, <3>2 DEF PathAt
    <2>13. Cardinality(DOMAIN h) \in {n, n + 1}
      <3> DEFINE o == Cardinality(O)
      <3>1. o = 0 \/ o = 1
        BY <2>6
      <3> HIDE DEF o
      <3>2. Cardinality(DOMAIN h) = n + o
        BY <2>6 DEF o
      <3>3. QED
        BY <2>4, <3>1, <3>2
    <2>14. QED
      BY <2>1, <2>4, <2>5, <2>9, <2>10, <2>11, <2>12, <2>13, SMTT(30) DEF h, x, vs, n
  <1>2. QED
    BY <1>1 DEF QueueTypeOK, QueueRight

\* A queue (Queue.h), whatever the number of queues and of items: first in, first out, through
\* assignments, copies with their spare node and moves; its slab holds its nodes, and no others
\* but that one.
THEOREM QueuesAreRight == QueueSpec => [](QueueTypeOK /\ QueueRight)
  <1>1. QueueInit => QueueInv
    BY QueueInitHolds
  <1>2. QueueInv /\ [QueueNext]_queueVars => QueueInv'
    BY QueueNextKeeps
  <1>3. QueueInv => QueueTypeOK /\ QueueRight
    BY QueuesMeet
  <1>4. QED
    BY <1>1, <1>2, <1>3, PTL DEF QueueSpec

----------------------------------------------------------------------------
(* Side by side *)

\* The allocators keep what they promise, whatever is asked of each: masks and held blocks
\* agree, no free block is hidden, counts of nodes are exact, segments do not overlap.
THEOREM AllocatorsAreRight == SlabPointerSpec /\ StaticSpec => []AllocatorsRight
  <1>1. PointerInv => MasksExact /\ NothingHidden /\ NodesExact
    BY SlabInvFacts, PointerInvFacts DEF PointerInv
  <1>2. SlabPointerSpec => [](MasksExact /\ NothingHidden /\ NodesExact)
    BY <1>1, InitPointers, PointerStepKeeps, PTL DEF SlabPointerSpec
  <1>3. AllocatorsRight <=> (MasksExact /\ NothingHidden /\ NodesExact) /\ SegmentsDisjoint
    BY DEF AllocatorsRight
  <1>4. QED
    BY <1>2, <1>3, SegmentsApart, PTL

\* Every HashMap is its dictionary, every HashSet and every ArraySet its elements, and every
\* ArrayList, LinkedList and Queue its sequence, after any calls.
THEOREM ContainersAreRight ==
    MapSpec /\ SetSpec /\ ArraySpec /\ ArraySetSpec /\ ListSpec /\ QueueSpec
       => []ContainersRight
  <1>1. ContainersRight <=> /\ HashMapRight /\ HashSetRight
                            /\ ArrayListRight /\ ArraySetRight
                            /\ LinkedListRight /\ QueueRight
    BY DEF ContainersRight
  <1>2. QED
    BY <1>1, MapsAreRight, SetsAreRight, ArrayListsAreRight, ArraySetsAreRight,
       LinkedListsAreRight, QueuesAreRight, PTL
=============================================================================
