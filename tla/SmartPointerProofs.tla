--------------------------- MODULE SmartPointerProofs ---------------------------
(***************************************************************************)
(* Proofs about SmartPointer, for any finite sets of threads and handles   *)
(* and any set of blocks: counts are exact, a block is deleted once and by *)
(* the thread that took its count to zero, and a write by way of a         *)
(* copy-on-write handle is private.                                        *)
(*                                                                         *)
(* The inductive invariant says what a thread has in its hands at each     *)
(* step, that no thread works on a handle of another one, and that counts  *)
(* are the numbers of owners.                                              *)
(***************************************************************************)
EXTENDS SmartPointer, FiniteSetTheorems, TLAPS

Deleting == {"delete", "destroy"}

\* What a thread has in its hands at each step
Locals ==
    \A t \in Threads :
        /\ pc[t] = "idle" => loc[t] = NoCall
        /\ pc[t] # "idle" => loc[t].h \in Handles
        /\ loc[t].old # NoDetails <=> pc[t] \in {"release", "detach"} \cup Deleting
        /\ loc[t].strong # NoDetails <=> pc[t] \in {"alias", "unlock"}
        /\ loc[t].from # NoDetails <=> pc[t] \in {"lock", "exchange", "alias", "unlock"}
        /\ pc[t] \in {"load", "copy", "detach", "destroy", "write"} => details[loc[t].h] # NoDetails
        /\ pc[t] \in {"lock", "exchange"} => details[loc[t].from] # NoDetails
        /\ pc[t] \in {"lock", "exchange", "alias"} => details[loc[t].h] = NoDetails
        /\ pc[t] \in {"detach", "destroy"} => mode[loc[t].h] = "SHARED"

\* A handle that one thread changes is neither changed nor read by another.
Apart ==
    \A t, u \in Threads :
        t # u /\ loc[t].h # NoDetails => loc[t].h \notin {loc[u].h, loc[u].from}

CountInv ==
    \A b \in Blocks : IF b \in live THEN refs[b] = Owners(b) ELSE Owners(b) = 0

\* A count of zero has one thread that is about to delete the block.
Doomed ==
    /\ \A t \in Threads : pc[t] \in Deleting => loc[t].old \in live /\ refs[loc[t].old] = 0
    /\ \A t, u \in Threads : t # u /\ pc[t] \in Deleting /\ pc[u] \in Deleting => loc[t].old # loc[u].old
    /\ \A b \in live : refs[b] = 0 => \E t \in Threads : pc[t] \in Deleting /\ loc[t].old = b

\* Between the load in mut and the write nobody else becomes an owner.
Private ==
    \A t \in Threads :
        pc[t] = "write" /\ mode[loc[t].h] = "COPY_ON_WRITE" => refs[details[loc[t].h]] = 1

IInv == TypeOK /\ Locals /\ Apart /\ CountInv /\ Doomed /\ Private

----------------------------------------------------------------------------
(* Counting *)

One(x, b) == IF x = b THEN 1 ELSE 0

\* The places of a function on S that have a value
Places(f, S, b) == {x \in S : f[x] = b}

\* Two functions on S that differ at s only, if at all
DifferAt(f, g, S, s) == \A x \in S \ {s} : g[x] = f[x]

\* Their number, when one of them changes
LEMMA OnePlace ==
    ASSUME NEW S, IsFiniteSet(S), NEW f, NEW g, NEW s \in S, DifferAt(f, g, S, s), NEW b
    PROVE  Cardinality(Places(g, S, b))
             = Cardinality(Places(f, S, b)) + One(g[s], b) - One(f[s], b)
  <1> DEFINE F == Places(f, S, b)
             G == Places(g, S, b)
             rest == {x \in S \ {s} : f[x] = b}
  <1>1. IsFiniteSet(rest) /\ s \notin rest
    BY FS_Subset
  <1>2. Cardinality(rest) \in Nat /\ Cardinality(rest \cup {s}) = Cardinality(rest) + 1
    BY <1>1, FS_CardinalityType, FS_AddElement
  <1>3. F = (IF f[s] = b THEN rest \cup {s} ELSE rest)
    BY DEF Places, DifferAt
  <1>4. G = (IF g[s] = b THEN rest \cup {s} ELSE rest)
    BY DEF Places, DifferAt
  <1> HIDE DEF F, G, rest
  <1>5. Cardinality(F) = Cardinality(rest) + One(f[s], b)
    BY <1>2, <1>3 DEF One
  <1>6. Cardinality(G) = Cardinality(rest) + One(g[s], b)
    BY <1>2, <1>4 DEF One
  <1>7. One(f[s], b) \in {0, 1} /\ One(g[s], b) \in {0, 1}
    BY DEF One
  <1>8. Cardinality(G) = Cardinality(F) + One(g[s], b) - One(f[s], b)
    BY <1>2, <1>5, <1>6, <1>7
  <1>9. QED
    BY <1>8 DEF F, G

\* A place that has a value is counted, and two are counted twice.
LEMMA AtLeast ==
    ASSUME NEW S, IsFiniteSet(S), NEW T \in SUBSET S
    PROVE  /\ Cardinality(T) \in Nat
           /\ \A x \in T : Cardinality(T) >= 1
           /\ \A x, y \in T : x # y => Cardinality(T) >= 2
  <1>0. IsFiniteSet(T)
    BY FS_Subset
  <1>1. IsFiniteSet(T) /\ Cardinality(T) \in Nat
    BY <1>0, FS_CardinalityType
  <1>2. ASSUME NEW x \in T PROVE Cardinality(T \ {x}) = Cardinality(T) - 1 /\ Cardinality(T \ {x}) \in Nat
    BY <1>1, FS_RemoveElement, FS_CardinalityType
  <1>3. ASSUME NEW x \in T, NEW y \in T, x # y PROVE Cardinality(T) >= 2
    <2>1. IsFiniteSet(T \ {x}) /\ y \in T \ {x}
      BY <1>1, <1>3, FS_RemoveElement
    <2>2. Cardinality((T \ {x}) \ {y}) = Cardinality(T \ {x}) - 1 /\ Cardinality((T \ {x}) \ {y}) \in Nat
      BY <2>1, FS_RemoveElement, FS_CardinalityType
    <2>3. QED
      BY <1>1, <1>2, <2>2
  <1>4. ASSUME NEW x \in T PROVE Cardinality(T) >= 1
    <2>1. Cardinality(T) = Cardinality(T \ {x}) + 1 /\ Cardinality(T \ {x}) \in Nat
      BY <1>1, <1>2
    <2>2. QED
      BY <2>1
  <1>5. QED
    BY <1>1, <1>3, <1>4

\* How many owners a block has after a step of one thread, from what its handles add
LEMMA OwnersSum ==
    ASSUME TypeOK, TypeOK', NEW t \in Threads, NEW b, NEW k \in Int,
           Cardinality(Places(details', Handles, b)) = Cardinality(Places(details, Handles, b)) + k,
           \A u \in Threads \ {t} : loc'[u] = loc[u] /\ pc'[u] = pc[u]
    PROVE  /\ Owners(b) \in Nat
           /\ Owners(b)' = Owners(b) + k
                + One(loc'[t].strong, b) - One(loc[t].strong, b)
                + One(Leaving(t)', b) - One(Leaving(t), b)
  <1> DEFINE strongs == [u \in Threads |-> loc[u].strong]
             leaving == [u \in Threads |-> Leaving(u)]
             H == Cardinality(Places(details, Handles, b))
             S == Cardinality(Places(strongs, Threads, b))
             L == Cardinality(Places(leaving, Threads, b))
  <1>1. H' = H + k
    OBVIOUS
  <1>2. S' = S + One(strongs'[t], b) - One(strongs[t], b)
    <2>1. DifferAt(strongs, strongs', Threads, t)
      BY DEF DifferAt
    <2> HIDE DEF strongs
    <2>2. IsFiniteSet(Threads)
      BY PointerAssumption
    <2>3. QED
      BY <2>1, <2>2, OnePlace
  <1>3. L' = L + One(leaving'[t], b) - One(leaving[t], b)
    <2>1. DifferAt(leaving, leaving', Threads, t)
      BY DEF DifferAt, Leaving
    <2> HIDE DEF leaving
    <2>2. IsFiniteSet(Threads)
      BY PointerAssumption
    <2>3. QED
      BY <2>1, <2>2, OnePlace
  <1>4. /\ Places(details, Handles, b) = {g \in Handles : details[g] = b}
        /\ Places(strongs, Threads, b) = {u \in Threads : loc[u].strong = b}
        /\ Places(leaving, Threads, b) = {u \in Threads : Leaving(u) = b}
    BY DEF Places
  <1>5. Owners(b) = H + S + L
    BY <1>4 DEF Owners
  <1>6. /\ Places(details', Handles, b) = {g \in Handles : details'[g] = b}
        /\ Places(strongs', Threads, b) = {u \in Threads : loc'[u].strong = b}
        /\ Places(leaving', Threads, b) = {u \in Threads : Leaving(u)' = b}
    BY DEF Places
  <1>7. Owners(b)' = H' + S' + L'
    BY <1>6 DEF Owners
  <1>8. strongs[t] = loc[t].strong /\ leaving[t] = Leaving(t)
        /\ strongs'[t] = loc'[t].strong /\ leaving'[t] = Leaving(t)'
    OBVIOUS
  <1>10. H \in Nat /\ S \in Nat /\ L \in Nat
    <2>1. \A f, D : Places(f, D, b) \in SUBSET D
      BY DEF Places
    <2>2. QED
      BY <2>1, AtLeast, PointerAssumption
  <1> HIDE DEF H, S, L, strongs, leaving
  <1>9. \A x : One(x, b) \in {0, 1}
    BY DEF One
  <1>11. QED
    BY <1>1, <1>2, <1>3, <1>10, <1>5, <1>7, <1>8, <1>9

\* After a step that changes one handle
LEMMA Counted ==
    ASSUME TypeOK, TypeOK', NEW h \in Handles, NEW t \in Threads, NEW b,
           \A g \in Handles \ {h} : details'[g] = details[g],
           \A u \in Threads \ {t} : loc'[u] = loc[u] /\ pc'[u] = pc[u]
    PROVE  /\ Owners(b) \in Nat
           /\ Owners(b)' = Owners(b)
                + One(details'[h], b) - One(details[h], b)
                + One(loc'[t].strong, b) - One(loc[t].strong, b)
                + One(Leaving(t)', b) - One(Leaving(t), b)
  <1> DEFINE k == One(details'[h], b) - One(details[h], b)
  <1>1. k \in Int
    BY DEF One
  <1>2. Cardinality(Places(details', Handles, b)) = Cardinality(Places(details, Handles, b)) + k
    <2>1. Cardinality(Places(details, Handles, b)) \in Nat
      <3>1. Places(details, Handles, b) \in SUBSET Handles
        BY DEF Places
      <3>2. QED
        BY <3>1, AtLeast, PointerAssumption
    <2>2. One(details'[h], b) \in Nat /\ One(details[h], b) \in Nat
      BY DEF One
    <2>3. Cardinality(Places(details', Handles, b))
            = Cardinality(Places(details, Handles, b)) + One(details'[h], b) - One(details[h], b)
      <3>1. DifferAt(details, details', Handles, h)
        BY DEF DifferAt
      <3>2. QED
        BY <3>1, OnePlace, PointerAssumption
    <2>4. QED
      BY <2>1, <2>2, <2>3
  <1> HIDE DEF k
  <1>3. /\ Owners(b) \in Nat
        /\ Owners(b)' = Owners(b) + k
             + One(loc'[t].strong, b) - One(loc[t].strong, b)
             + One(Leaving(t)', b) - One(Leaving(t), b)
    BY <1>1, <1>2, OwnersSum
  <1>4. \A x : One(x, b) \in Nat
    BY DEF One
  <1>5. QED
    BY <1>3, <1>4 DEF k

\* A call puts b into its handle and takes what was there with it: b has one owner more.
LEMMA Swapped ==
    ASSUME TypeOK, TypeOK', Locals, NEW h \in Handles, NEW t \in Threads, NEW d, NEW m,
           SwapIn(t, h, d, m), pc[t] = "idle", NEW b \in Blocks
    PROVE  Owners(b)' = Owners(b) + One(d, b)
  <1>1. /\ \A g \in Handles \ {h} : details'[g] = details[g]
        /\ \A u \in Threads \ {t} : loc'[u] = loc[u] /\ pc'[u] = pc[u]
        /\ details'[h] = d
    BY DEF SwapIn, Goto, Return, TypeOK
  <1>2. /\ loc'[t].strong = NoDetails /\ loc[t].strong = NoDetails
        /\ Leaving(t) = NoDetails /\ Leaving(t)' = details[h]
    <2>1. loc[t] = NoCall /\ loc[t].strong = NoDetails /\ Leaving(t) = NoDetails
      BY DEF Locals, Leaving, NoCall, InCall
    <2>2. CASE details[h] = NoDetails
      BY <2>1, <2>2 DEF SwapIn, Goto, Return, TypeOK, Leaving, NoCall, InCall
    <2>3. CASE details[h] # NoDetails
      BY <2>1, <2>3 DEF SwapIn, Goto, TypeOK, Leaving, NoCall, InCall
    <2>4. QED
      BY <2>1, <2>2, <2>3
  <1>3. Owners(b) \in Nat /\ \A x : One(x, b) \in {0, 1}
    BY Counted, <1>1 DEF One
  <1>4. One(NoDetails, b) = 0
    BY PointerAssumption DEF One
  <1>5. QED
    BY Counted, <1>1, <1>2, <1>3, <1>4

\* Who has a block has a block that is there, and two who have it are counted.
LEMMA Had ==
    ASSUME IInv
    PROVE  /\ \A h \in Handles : details[h] # NoDetails =>
                  details[h] \in live /\ refs[details[h]] >= 1
           /\ \A h, g \in Handles : h # g /\ details[h] # NoDetails /\ details[g] = details[h] =>
                  refs[details[h]] >= 2
           /\ \A t \in Threads : Leaving(t) # NoDetails =>
                  /\ Leaving(t) \in live /\ refs[Leaving(t)] >= 1
                  /\ \A h \in Handles : details[h] = Leaving(t) => refs[details[h]] >= 2
           /\ \A t \in Threads : loc[t].strong # NoDetails =>
                  /\ loc[t].strong \in live /\ refs[loc[t].strong] >= 1
                  /\ \A h \in Handles : details[h] = loc[t].strong => refs[details[h]] >= 2
  <1> USE DEF IInv
  <1> DEFINE H(b) == {g \in Handles : details[g] = b}
             S(b) == {u \in Threads : loc[u].strong = b}
             L(b) == {u \in Threads : Leaving(u) = b}
  <1>1. ASSUME NEW b \in Blocks
        PROVE  /\ Cardinality(H(b)) \in Nat /\ Cardinality(S(b)) \in Nat /\ Cardinality(L(b)) \in Nat
               /\ \A x \in H(b) : Cardinality(H(b)) >= 1
               /\ \A x, y \in H(b) : x # y => Cardinality(H(b)) >= 2
               /\ \A x \in S(b) : Cardinality(S(b)) >= 1
               /\ \A x \in L(b) : Cardinality(L(b)) >= 1
    <2>1. H(b) \in SUBSET Handles /\ S(b) \in SUBSET Threads /\ L(b) \in SUBSET Threads
      OBVIOUS
    <2> HIDE DEF H, S, L
    <2>2. QED
      BY <2>1, AtLeast, PointerAssumption
  <1>2. ASSUME NEW b \in Blocks
        PROVE  /\ Owners(b) = Cardinality(H(b)) + Cardinality(S(b)) + Cardinality(L(b))
               /\ IF b \in live THEN refs[b] = Owners(b) ELSE Owners(b) = 0
    BY DEF Owners, CountInv
  <1>3. \A h \in Handles : details[h] # NoDetails => details[h] \in Blocks /\ h \in H(details[h])
    BY DEF TypeOK
  <1>4. \A t \in Threads : Leaving(t) # NoDetails => Leaving(t) \in Blocks /\ t \in L(Leaving(t))
    BY DEF TypeOK, Leaving
  <1>5. \A t \in Threads : loc[t].strong # NoDetails => loc[t].strong \in Blocks /\ t \in S(loc[t].strong)
    BY DEF TypeOK
  <1>6. \A g \in Handles, b \in Blocks : details[g] = b => g \in H(b)
    OBVIOUS
  <1> HIDE DEF H, S, L
  <1>7. \A h \in Handles : details[h] # NoDetails => details[h] \in live /\ refs[details[h]] >= 1
    BY <1>1, <1>2, <1>3
  <1>8. \A h, g \in Handles : h # g /\ details[h] # NoDetails /\ details[g] = details[h] =>
            refs[details[h]] >= 2
    BY <1>1, <1>2, <1>3, <1>6, <1>7
  <1>9. ASSUME NEW t \in Threads, Leaving(t) # NoDetails
        PROVE  /\ Leaving(t) \in live /\ refs[Leaving(t)] >= 1
               /\ \A h \in Handles : details[h] = Leaving(t) => refs[details[h]] >= 2
    BY <1>1, <1>2, <1>4, <1>6, <1>9
  <1>10. ASSUME NEW t \in Threads, loc[t].strong # NoDetails
         PROVE  /\ loc[t].strong \in live /\ refs[loc[t].strong] >= 1
                /\ \A h \in Handles : details[h] = loc[t].strong => refs[details[h]] >= 2
    BY <1>1, <1>2, <1>5, <1>6, <1>10
  <1>11. QED
    BY <1>7, <1>8, <1>9, <1>10

\* Blocks that are about to be deleted stay what they are when no count becomes zero.
LEMMA DoomedKept ==
    ASSUME Doomed, live \subseteq live',
           \A u \in Threads : /\ pc'[u] \in Deleting <=> pc[u] \in Deleting
                              /\ pc[u] \in Deleting => loc'[u].old = loc[u].old,
           \A b \in live : refs'[b] = 0 <=> refs[b] = 0,
           \A b \in live' \ live : refs'[b] # 0
    PROVE  Doomed'
  BY DEF Doomed

\* The types of what a call swaps
LEMMA SwapTypes ==
    ASSUME TypeOK, NEW h \in Handles, NEW t \in Threads, NEW d \in Blocks \cup {NoDetails},
           NEW m \in Modes, SwapIn(t, h, d, m),
           live' \subseteq Blocks, refs' \in [Blocks -> Nat], value' \in [Blocks -> Values]
    PROVE  TypeOK'
  <1>1. /\ details' \in [Handles -> Blocks \cup {NoDetails}]
        /\ mode' \in [Handles -> Modes]
    BY DEF SwapIn, TypeOK
  <1>2. /\ NoCall \in [h : Handles \cup {NoDetails}, from : Handles \cup {NoDetails},
                       old : Blocks \cup {NoDetails}, strong : Blocks \cup {NoDetails}, seen : Nat]
        /\ InCall(h, NoDetails, details[h])
                \in [h : Handles \cup {NoDetails}, from : Handles \cup {NoDetails},
                    old : Blocks \cup {NoDetails}, strong : Blocks \cup {NoDetails}, seen : Nat]
    BY DEF NoCall, InCall, TypeOK
  <1>3. \E p \in {"idle", "release"} : pc' = [pc EXCEPT ![t] = p]
    BY DEF SwapIn, Goto, Return
  <1>4. loc' = [loc EXCEPT ![t] = NoCall] \/ loc' = [loc EXCEPT ![t] = InCall(h, NoDetails, details[h])]
    BY DEF SwapIn, Goto, Return
  <1>5. QED
    BY <1>1, <1>2, <1>3, <1>4 DEF TypeOK

\* A call that swaps new contents into its handle leaves the other threads alone.
LEMMA SwapKeeps ==
    ASSUME IInv, TypeOK', NEW h \in Handles, NEW t \in Threads, NEW d, NEW m,
           MayChange(t, h), SwapIn(t, h, d, m)
    PROVE  /\ Locals' /\ Apart'
           /\ pc[t] = "idle" /\ pc'[t] \in {"idle", "release"}
           /\ \A u \in Threads \ {t} :
                  /\ pc'[u] = pc[u] /\ loc'[u] = loc[u]
                  /\ pc[u] = "write" => loc[u].h # h
           /\ \A g \in Handles \ {h} : details'[g] = details[g] /\ mode'[g] = mode[g]
  <1> USE DEF IInv
  <1>1. /\ pc[t] = "idle" /\ h \notin {loc[u].h : u \in Threads \ {t}}
        /\ h \notin {loc[u].from : u \in Threads \ {t}}
    BY DEF MayChange, Changing, Reading
  <1>2. /\ \A u \in Threads \ {t} : pc'[u] = pc[u] /\ loc'[u] = loc[u]
        /\ \A g \in Handles \ {h} : details'[g] = details[g] /\ mode'[g] = mode[g]
    BY DEF SwapIn, Goto, Return, TypeOK
  <1>3. \/ pc'[t] = "idle" /\ loc'[t] = NoCall
        \/ pc'[t] = "release" /\ loc'[t] = InCall(h, NoDetails, details[h]) /\ details[h] # NoDetails
    BY DEF SwapIn, Goto, Return, TypeOK
  <1>4. \A u \in Threads \ {t} : loc[u].h # h /\ loc[u].from # h
    BY <1>1
  <1>5. Locals'
    BY <1>2, <1>3, <1>4 DEF Locals, NoCall, InCall, Deleting, TypeOK
  <1>6. Apart'
    BY <1>2, <1>3, <1>4 DEF Apart, NoCall, InCall
  <1>7. QED
    BY <1>1, <1>2, <1>3, <1>4, <1>5, <1>6

----------------------------------------------------------------------------
(* Calls *)

\* reset and the destructor
LEMMA ResetStep ==
    ASSUME IInv, NEW t \in Threads, NEW h \in Handles, Reset(t, h)
    PROVE  IInv'
  <1> USE DEF IInv
  <1>0. MayChange(t, h) /\ SwapIn(t, h, NoDetails, "NULLPTR") /\ refs' = refs /\ live' = live
    BY DEF Reset, SwapIn
  <1>1. TypeOK'
    <2>1. NoDetails \in Blocks \cup {NoDetails} /\ "NULLPTR" \in Modes
      BY DEF TypeOK, Modes, Reset, SwapIn
    <2>2. live' \subseteq Blocks /\ refs' \in [Blocks -> Nat] /\ value' \in [Blocks -> Values]
      BY DEF TypeOK, Values, Reset, SwapIn
    <2>3. QED
      BY <1>0, <2>1, <2>2, SwapTypes
  <1>2. Locals' /\ Apart'
    BY <1>0, <1>1, SwapKeeps
  <1>3. CountInv'
    <2>1. \A c \in Blocks : Owners(c)' = Owners(c) + One(NoDetails, c)
      BY <1>0, <1>1, Swapped DEF MayChange
    <2>2. QED
      BY <1>0, <2>1, Had, PointerAssumption DEF CountInv, One, TypeOK, Fresh
  <1>4. Doomed'
    <2>1. \A u \in Threads : /\ pc'[u] \in Deleting <=> pc[u] \in Deleting
                             /\ pc[u] \in Deleting => loc'[u].old = loc[u].old
      BY <1>0, <1>1, SwapKeeps DEF Deleting
    <2>2. /\ live \subseteq live' /\ \A c \in live : refs'[c] = 0 <=> refs[c] = 0
          /\ \A c \in live' \ live : refs'[c] # 0
      BY <1>0, Had DEF Fresh, TypeOK
    <2>3. QED
      BY <2>1, <2>2, Zenon, DoomedKept
  <1>5. Private'
    <2>1. ASSUME NEW u \in Threads, pc'[u] = "write", mode'[loc'[u].h] = "COPY_ON_WRITE"
          PROVE  refs'[details'[loc'[u].h]] = 1
      <3>1. /\ u # t /\ pc[u] = "write" /\ loc'[u] = loc[u] /\ loc[u].h \in Handles \ {h}
            /\ details'[loc[u].h] = details[loc[u].h] /\ mode'[loc[u].h] = mode[loc[u].h]
        BY <1>0, <1>1, <2>1, SwapKeeps DEF Locals
      <3>2. details[loc[u].h] # NoDetails /\ refs[details[loc[u].h]] = 1
        BY <2>1, <3>1 DEF Private, Locals
      <3>3. QED
        BY <1>0, <3>1, <3>2, Had DEF TypeOK
    <2>2. QED
      BY <2>1 DEF Private
  <1>9. QED
    BY <1>1, <1>2, <1>3, <1>4, <1>5

\* A new object
LEMMA CreateStep ==
    ASSUME IInv, NEW t \in Threads, NEW h \in Handles, NEW b \in Blocks, NEW m \in Modes, Create(t, h, b, m)
    PROVE  IInv'
  <1> USE DEF IInv
  <1>0. MayChange(t, h) /\ SwapIn(t, h, b, m) /\ Fresh(b, 0)
    BY DEF Create, Fresh
  <1>1. TypeOK'
    <2>1. b \in Blocks \cup {NoDetails} /\ m \in Modes
      BY DEF TypeOK, Modes, Create, Fresh
    <2>2. live' \subseteq Blocks /\ refs' \in [Blocks -> Nat] /\ value' \in [Blocks -> Values]
      BY DEF TypeOK, Values, Create, Fresh
    <2>3. QED
      BY <1>0, <2>1, <2>2, SwapTypes
  <1>2. Locals' /\ Apart'
    BY <1>0, <1>1, SwapKeeps
  <1>3. CountInv'
    <2>1. \A c \in Blocks : Owners(c)' = Owners(c) + One(b, c)
      BY <1>0, <1>1, Swapped DEF MayChange
    <2>2. QED
      BY <1>0, <2>1, Had, PointerAssumption DEF CountInv, One, TypeOK, Fresh
  <1>4. Doomed'
    <2>1. \A u \in Threads : /\ pc'[u] \in Deleting <=> pc[u] \in Deleting
                             /\ pc[u] \in Deleting => loc'[u].old = loc[u].old
      BY <1>0, <1>1, SwapKeeps DEF Deleting
    <2>2. /\ live \subseteq live' /\ \A c \in live : refs'[c] = 0 <=> refs[c] = 0
          /\ \A c \in live' \ live : refs'[c] # 0
      BY <1>0, Had DEF Fresh, TypeOK
    <2>3. QED
      BY <2>1, <2>2, Zenon, DoomedKept
  <1>5. Private'
    <2>1. ASSUME NEW u \in Threads, pc'[u] = "write", mode'[loc'[u].h] = "COPY_ON_WRITE"
          PROVE  refs'[details'[loc'[u].h]] = 1
      <3>1. /\ u # t /\ pc[u] = "write" /\ loc'[u] = loc[u] /\ loc[u].h \in Handles \ {h}
            /\ details'[loc[u].h] = details[loc[u].h] /\ mode'[loc[u].h] = mode[loc[u].h]
        BY <1>0, <1>1, <2>1, SwapKeeps DEF Locals
      <3>2. details[loc[u].h] # NoDetails /\ refs[details[loc[u].h]] = 1
        BY <2>1, <3>1 DEF Private, Locals
      <3>3. QED
        BY <1>0, <3>1, <3>2, Had DEF Fresh, TypeOK
    <2>2. QED
      BY <2>1 DEF Private
  <1>9. QED
    BY <1>1, <1>2, <1>3, <1>4, <1>5

\* A copy of the object
LEMMA DeepCopyStep ==
    ASSUME IInv, NEW t \in Threads, NEW h \in Handles, NEW g \in Handles, NEW b \in Blocks, NEW m \in Modes, DeepCopy(t, h, g, b, m)
    PROVE  IInv'
  <1> USE DEF IInv
  <1>0. MayChange(t, h) /\ SwapIn(t, h, b, m) /\ Fresh(b, value[details[g]])
    BY DEF DeepCopy, Fresh, MayRead
  <1>1. TypeOK'
    <2>1. b \in Blocks \cup {NoDetails} /\ m \in Modes
      BY DEF TypeOK, Modes, DeepCopy, Fresh, MayRead
    <2>2. live' \subseteq Blocks /\ refs' \in [Blocks -> Nat] /\ value' \in [Blocks -> Values]
      BY DEF TypeOK, Values, DeepCopy, Fresh, MayRead
    <2>3. QED
      BY <1>0, <2>1, <2>2, SwapTypes
  <1>2. Locals' /\ Apart'
    BY <1>0, <1>1, SwapKeeps
  <1>3. CountInv'
    <2>1. \A c \in Blocks : Owners(c)' = Owners(c) + One(b, c)
      BY <1>0, <1>1, Swapped DEF MayChange
    <2>2. QED
      BY <1>0, <2>1, Had, PointerAssumption DEF CountInv, One, TypeOK, Fresh
  <1>4. Doomed'
    <2>1. \A u \in Threads : /\ pc'[u] \in Deleting <=> pc[u] \in Deleting
                             /\ pc[u] \in Deleting => loc'[u].old = loc[u].old
      BY <1>0, <1>1, SwapKeeps DEF Deleting
    <2>2. /\ live \subseteq live' /\ \A c \in live : refs'[c] = 0 <=> refs[c] = 0
          /\ \A c \in live' \ live : refs'[c] # 0
      BY <1>0, Had DEF Fresh, TypeOK
    <2>3. QED
      BY <2>1, <2>2, Zenon, DoomedKept
  <1>5. Private'
    <2>1. ASSUME NEW u \in Threads, pc'[u] = "write", mode'[loc'[u].h] = "COPY_ON_WRITE"
          PROVE  refs'[details'[loc'[u].h]] = 1
      <3>1. /\ u # t /\ pc[u] = "write" /\ loc'[u] = loc[u] /\ loc[u].h \in Handles \ {h}
            /\ details'[loc[u].h] = details[loc[u].h] /\ mode'[loc[u].h] = mode[loc[u].h]
        BY <1>0, <1>1, <2>1, SwapKeeps DEF Locals
      <3>2. details[loc[u].h] # NoDetails /\ refs[details[loc[u].h]] = 1
        BY <2>1, <3>1 DEF Private, Locals
      <3>3. QED
        BY <1>0, <3>1, <3>2, Had DEF Fresh, TypeOK, MayRead, Changing
    <2>2. QED
      BY <2>1 DEF Private
  <1>9. QED
    BY <1>1, <1>2, <1>3, <1>4, <1>5

\* Another reference to what g points to
LEMMA CopyStep ==
    ASSUME IInv, NEW t \in Threads, NEW h \in Handles, NEW g \in Handles, Copy(t, h, g)
    PROVE  IInv'
  <1> USE DEF IInv
  <1>0. MayChange(t, h) /\ SwapIn(t, h, details[g], ModeOfCopy(mode[g])) /\ h # g /\ MayRead(t, g)
        /\ details[g] # NoDetails /\ refs' = [refs EXCEPT ![details[g]] = @ + 1] /\ live' = live
    BY DEF Copy, ModeOfCopy, MayRead
  <1>1. TypeOK'
    <2>1. details[g] \in Blocks \cup {NoDetails} /\ ModeOfCopy(mode[g]) \in Modes
      BY DEF TypeOK, Modes, Copy, ModeOfCopy, MayRead
    <2>2. live' \subseteq Blocks /\ refs' \in [Blocks -> Nat] /\ value' \in [Blocks -> Values]
      BY DEF TypeOK, Values, Copy, ModeOfCopy, MayRead
    <2>3. QED
      BY <1>0, <2>1, <2>2, SwapTypes
  <1>2. Locals' /\ Apart'
    BY <1>0, <1>1, SwapKeeps
  <1>3. CountInv'
    <2>1. \A c \in Blocks : Owners(c)' = Owners(c) + One(details[g], c)
      BY <1>0, <1>1, Swapped DEF MayChange
    <2>2. QED
      BY <1>0, <2>1, Had, PointerAssumption DEF CountInv, One, TypeOK, Fresh
  <1>4. Doomed'
    <2>1. \A u \in Threads : /\ pc'[u] \in Deleting <=> pc[u] \in Deleting
                             /\ pc[u] \in Deleting => loc'[u].old = loc[u].old
      BY <1>0, <1>1, SwapKeeps DEF Deleting
    <2>2. /\ live \subseteq live' /\ \A c \in live : refs'[c] = 0 <=> refs[c] = 0
          /\ \A c \in live' \ live : refs'[c] # 0
      BY <1>0, Had DEF Fresh, TypeOK
    <2>3. QED
      BY <2>1, <2>2, Zenon, DoomedKept
  <1>5. Private'
    <2>1. ASSUME NEW u \in Threads, pc'[u] = "write", mode'[loc'[u].h] = "COPY_ON_WRITE"
          PROVE  refs'[details'[loc'[u].h]] = 1
      <3>1. /\ u # t /\ pc[u] = "write" /\ loc'[u] = loc[u] /\ loc[u].h \in Handles \ {h}
            /\ details'[loc[u].h] = details[loc[u].h] /\ mode'[loc[u].h] = mode[loc[u].h]
        BY <1>0, <1>1, <2>1, SwapKeeps DEF Locals
      <3>2. details[loc[u].h] # NoDetails /\ refs[details[loc[u].h]] = 1
        BY <2>1, <3>1 DEF Private, Locals
      <3>3. QED
        BY <1>0, <3>1, <3>2, Had DEF TypeOK, MayRead, Changing
    <2>2. QED
      BY <2>1 DEF Private
  <1>9. QED
    BY <1>1, <1>2, <1>3, <1>4, <1>5

\* The same, as copy on write
LEMMA GetWritableCopyStep ==
    ASSUME IInv, NEW t \in Threads, NEW h \in Handles, NEW g \in Handles, GetWritableCopy(t, h, g)
    PROVE  IInv'
  <1> USE DEF IInv
  <1>0. MayChange(t, h) /\ SwapIn(t, h, details[g], "COPY_ON_WRITE") /\ h # g /\ MayRead(t, g)
        /\ details[g] # NoDetails /\ refs' = [refs EXCEPT ![details[g]] = @ + 1] /\ live' = live
    BY DEF GetWritableCopy, MayRead
  <1>1. TypeOK'
    <2>1. details[g] \in Blocks \cup {NoDetails} /\ "COPY_ON_WRITE" \in Modes
      BY DEF TypeOK, Modes, GetWritableCopy, MayRead
    <2>2. live' \subseteq Blocks /\ refs' \in [Blocks -> Nat] /\ value' \in [Blocks -> Values]
      BY DEF TypeOK, Values, GetWritableCopy, MayRead
    <2>3. QED
      BY <1>0, <2>1, <2>2, SwapTypes
  <1>2. Locals' /\ Apart'
    BY <1>0, <1>1, SwapKeeps
  <1>3. CountInv'
    <2>1. \A c \in Blocks : Owners(c)' = Owners(c) + One(details[g], c)
      BY <1>0, <1>1, Swapped DEF MayChange
    <2>2. QED
      BY <1>0, <2>1, Had, PointerAssumption DEF CountInv, One, TypeOK, Fresh
  <1>4. Doomed'
    <2>1. \A u \in Threads : /\ pc'[u] \in Deleting <=> pc[u] \in Deleting
                             /\ pc[u] \in Deleting => loc'[u].old = loc[u].old
      BY <1>0, <1>1, SwapKeeps DEF Deleting
    <2>2. /\ live \subseteq live' /\ \A c \in live : refs'[c] = 0 <=> refs[c] = 0
          /\ \A c \in live' \ live : refs'[c] # 0
      BY <1>0, Had DEF Fresh, TypeOK
    <2>3. QED
      BY <2>1, <2>2, Zenon, DoomedKept
  <1>5. Private'
    <2>1. ASSUME NEW u \in Threads, pc'[u] = "write", mode'[loc'[u].h] = "COPY_ON_WRITE"
          PROVE  refs'[details'[loc'[u].h]] = 1
      <3>1. /\ u # t /\ pc[u] = "write" /\ loc'[u] = loc[u] /\ loc[u].h \in Handles \ {h}
            /\ details'[loc[u].h] = details[loc[u].h] /\ mode'[loc[u].h] = mode[loc[u].h]
        BY <1>0, <1>1, <2>1, SwapKeeps DEF Locals
      <3>2. details[loc[u].h] # NoDetails /\ refs[details[loc[u].h]] = 1
        BY <2>1, <3>1 DEF Private, Locals
      <3>3. QED
        BY <1>0, <3>1, <3>2, Had DEF TypeOK, MayRead, Changing
    <2>2. QED
      BY <2>1 DEF Private
  <1>9. QED
    BY <1>1, <1>2, <1>3, <1>4, <1>5

\* What g points to goes to h.
LEMMA MoveStep ==
    ASSUME IInv, NEW t \in Threads, NEW h \in Handles, NEW g \in Handles, Move(t, h, g)
    PROVE  IInv'
  <1> USE DEF IInv
  <1>0. /\ h # g /\ MayChange(t, h) /\ MayChange(t, g) /\ details[g] # NoDetails
        /\ details' = [details EXCEPT ![h] = details[g], ![g] = NoDetails]
        /\ mode' = [mode EXCEPT ![h] = mode[g], ![g] = "NULLPTR"]
        /\ live' = live /\ refs' = refs /\ value' = value
        /\ \/ pc' = [pc EXCEPT ![t] = "idle"] /\ loc' = [loc EXCEPT ![t] = NoCall] /\ details[h] = NoDetails
           \/ /\ pc' = [pc EXCEPT ![t] = "release"]
              /\ loc' = [loc EXCEPT ![t] = InCall(h, NoDetails, details[h])]
              /\ details[h] # NoDetails
    BY DEF Move, Goto, Return
  <1>a. /\ pc[t] = "idle" /\ loc[t] = NoCall
        /\ \A u \in Threads \ {t} : /\ loc[u].h \notin {h, g} /\ loc[u].from \notin {h, g}
                                    /\ pc'[u] = pc[u] /\ loc'[u] = loc[u]
        /\ \A x \in Handles \ {h, g} : details'[x] = details[x] /\ mode'[x] = mode[x]
    BY <1>0 DEF MayChange, Changing, Reading, Locals, TypeOK
  <1>b. \/ pc'[t] = "idle" /\ loc'[t] = NoCall /\ details[h] = NoDetails
        \/ pc'[t] = "release" /\ loc'[t] = InCall(h, NoDetails, details[h]) /\ details[h] # NoDetails
    BY <1>0 DEF TypeOK
  <1>1. TypeOK'
    <2>1. /\ details' \in [Handles -> Blocks \cup {NoDetails}]
          /\ mode' \in [Handles -> Modes]
      BY <1>0 DEF TypeOK, Modes
    <2>2. /\ pc' \in [Threads -> {"idle", "release", "delete", "load", "copy", "detach",
                                  "destroy", "write", "lock", "exchange", "alias", "unlock"}]
          /\ loc' \in [Threads -> [h : Handles \cup {NoDetails}, from : Handles \cup {NoDetails},
                                   old : Blocks \cup {NoDetails}, strong : Blocks \cup {NoDetails},
                                   seen : Nat]]
      BY <1>0 DEF TypeOK, NoCall, InCall
    <2>3. QED
      BY <1>0, <2>1, <2>2 DEF TypeOK
  <1>2. Locals' /\ Apart'
    <2>1. Locals'
      BY <1>a, <1>b DEF Locals, NoCall, InCall, Deleting, TypeOK
    <2>2. Apart'
      BY <1>a, <1>b DEF Apart, NoCall, InCall
    <2>3. QED
      BY <2>1, <2>2
  <1>3. CountInv'
    <2>1. ASSUME NEW c \in Blocks PROVE Owners(c)' = Owners(c)
      <3> DEFINE taken == [details EXCEPT ![h] = details[g]]
                 n(f) == Cardinality(Places(f, Handles, c))
      <3>1. DifferAt(details, taken, Handles, h) /\ DifferAt(taken, details', Handles, g)
        BY <1>0 DEF DifferAt, TypeOK
      <3>2. /\ taken[h] = details[g] /\ taken[g] = details[g] /\ details'[g] = NoDetails
        BY <1>0 DEF TypeOK
      <3> HIDE DEF taken
      <3>3. n(taken) = n(details) + One(taken[h], c) - One(details[h], c)
        BY <3>1, OnePlace, PointerAssumption
      <3>4. n(details') = n(taken) + One(details'[g], c) - One(taken[g], c)
        BY <3>1, OnePlace, PointerAssumption
      <3>5. n(details) \in Nat /\ n(taken) \in Nat
        <4>1. \A f : Places(f, Handles, c) \in SUBSET Handles
          BY DEF Places
        <4>2. QED
          BY <4>1, AtLeast, PointerAssumption
      <3>6. \A x : One(x, c) \in Nat
        BY DEF One
      <3>7. One(NoDetails, c) = 0
        BY PointerAssumption DEF One
      <3>8. n(details') = n(details) - One(details[h], c)
        BY <3>2, <3>3, <3>4, <3>5, <3>6, <3>7
      <3>9. 0 - One(details[h], c) \in Int /\ n(details') = n(details) + (0 - One(details[h], c))
        BY <3>5, <3>6, <3>8
      <3>10. /\ loc'[t].strong = NoDetails /\ loc[t].strong = NoDetails
             /\ Leaving(t) = NoDetails /\ Leaving(t)' = details[h]
        BY <1>a, <1>b DEF Leaving, NoCall, InCall
      <3>11. /\ Owners(c) \in Nat
             /\ Owners(c)' = Owners(c) + (0 - One(details[h], c))
                 + One(loc'[t].strong, c) - One(loc[t].strong, c)
                 + One(Leaving(t)', c) - One(Leaving(t), c)
        BY <1>a, <1>1, <3>9, OwnersSum
      <3>12. QED
        BY <3>6, <3>7, <3>10, <3>11
    <2>2. QED
      BY <1>0, <2>1 DEF CountInv
  <1>4. Doomed'
    <2>1. \A u \in Threads : /\ pc'[u] \in Deleting <=> pc[u] \in Deleting
                             /\ pc[u] \in Deleting => loc'[u].old = loc[u].old
      BY <1>a, <1>b DEF Deleting
    <2>2. /\ live \subseteq live' /\ \A c \in live : refs'[c] = 0 <=> refs[c] = 0
          /\ \A c \in live' \ live : refs'[c] # 0
      BY <1>0
    <2>3. QED
      BY <2>1, <2>2, Zenon, DoomedKept
  <1>5. Private'
    <2>1. \A u \in Threads : pc'[u] = "write" =>
             /\ pc[u] = "write" /\ loc'[u] = loc[u] /\ loc[u].h \in Handles \ {h, g}
      BY <1>a, <1>b DEF Locals
    <2>2. \A x \in Handles \ {h, g} : details'[x] = details[x] /\ mode'[x] = mode[x]
      BY <1>a
    <2>3. ASSUME NEW u \in Threads, pc'[u] = "write", mode'[loc'[u].h] = "COPY_ON_WRITE"
          PROVE  refs'[details'[loc'[u].h]] = 1
      <3>1. /\ pc[u] = "write" /\ loc'[u].h = loc[u].h /\ mode[loc[u].h] = "COPY_ON_WRITE"
            /\ details'[loc'[u].h] = details[loc[u].h]
        BY <2>1, <2>2, <2>3
      <3>2. QED
        BY <1>0, <3>1 DEF Private
    <2>4. QED
      BY <2>3 DEF Private
  <1>9. QED
    BY <1>1, <1>2, <1>3, <1>4, <1>5

----------------------------------------------------------------------------
(* Steps inside a call *)

\* A thread inside a call works on a handle of its own.
LEMMA OwnHandle ==
    ASSUME TypeOK, Locals, Apart, NEW t \in Threads, pc[t] # "idle"
    PROVE  /\ loc[t].h \in Handles /\ loc[t].h # NoDetails
           /\ \A u \in Threads \ {t} : loc[u].h # loc[t].h /\ loc[u].from # loc[t].h
  BY PointerAssumption DEF TypeOK, Locals, Apart

\* A count that is taken down to zero has one thread that deletes the block.
LEMMA DoomedDown ==
    ASSUME IInv, NEW t \in Threads, NEW b \in live, refs[b] >= 1, pc[t] \notin Deleting,
           refs' = [refs EXCEPT ![b] = @ - 1], live' = live,
           \A u \in Threads \ {t} : loc'[u] = loc[u] /\ pc'[u] = pc[u],
           refs[b] = 1 => pc'[t] \in Deleting /\ loc'[t].old = b,
           refs[b] # 1 => pc'[t] \notin Deleting
    PROVE  Doomed'
  <1> USE DEF IInv
  <1>1. /\ b \in Blocks /\ refs[b] \in Nat /\ refs'[b] = refs[b] - 1
        /\ \A c \in live \ {b} : refs'[c] = refs[c]
    BY DEF TypeOK
  <1>2. \A u \in Threads : pc[u] \in Deleting => loc[u].old # b
    BY <1>1 DEF Doomed
  <1>3. \A u \in Threads : pc'[u] \in Deleting => loc'[u].old \in live /\ refs'[loc'[u].old] = 0
    BY <1>1, <1>2 DEF Doomed
  <1>4. \A u, v \in Threads : u # v /\ pc'[u] \in Deleting /\ pc'[v] \in Deleting =>
            loc'[u].old # loc'[v].old
    BY <1>2 DEF Doomed
  <1>5. ASSUME NEW c \in live, refs'[c] = 0
        PROVE  \E u \in Threads : pc'[u] \in Deleting /\ loc'[u].old = c
    <2>1. CASE c = b
      BY <1>1, <1>5, <2>1
    <2>2. CASE c # b
      <3>1. PICK u \in Threads : pc[u] \in Deleting /\ loc[u].old = c
        BY <1>1, <1>5, <2>2 DEF Doomed
      <3>2. QED
        BY <3>1
    <2>3. QED
      BY <2>1, <2>2
  <1>6. QED
    BY <1>3, <1>4, <1>5, Zenon DEF Doomed

\* The thread that took it to zero deletes it.
LEMMA DoomedGone ==
    ASSUME IInv, NEW t \in Threads, pc[t] \in Deleting, pc'[t] \notin Deleting,
           refs' = refs, live' = live \ {loc[t].old},
           \A u \in Threads \ {t} : loc'[u] = loc[u] /\ pc'[u] = pc[u]
    PROVE  Doomed'
  <1> USE DEF IInv
  <1>1. \A u \in Threads : pc'[u] \in Deleting => u # t /\ loc'[u].old \in live' /\ refs'[loc'[u].old] = 0
    BY DEF Doomed
  <1>2. \A u, v \in Threads : u # v /\ pc'[u] \in Deleting /\ pc'[v] \in Deleting =>
            loc'[u].old # loc'[v].old
    BY DEF Doomed
  <1>3. \A c \in live' : refs'[c] = 0 => \E u \in Threads : pc'[u] \in Deleting /\ loc'[u].old = c
    BY DEF Doomed
  <1>4. QED
    BY <1>1, <1>2, <1>3, Zenon DEF Doomed

\* mut starts.
LEMMA MutStep ==
    ASSUME IInv, NEW t \in Threads, NEW h \in Handles, Mut(t, h)
    PROVE  IInv'
  <1> USE DEF IInv
  <1>0. /\ h \in Handles /\ pc[t] = "idle" /\ loc[t] = NoCall
        /\ \A u \in Threads \ {t} : loc[u].h # h /\ loc[u].from # h
    BY DEF Mut, MayChange, Changing, Reading, Locals
  <1>a. /\ \A u \in Threads \ {t} : pc'[u] = pc[u] /\ loc'[u] = loc[u]
        /\ \A g \in Handles \ {h} : details'[g] = details[g] /\ mode'[g] = mode[g]
    BY DEF TypeOK, Mut, Goto
  <1>1. TypeOK'
    BY <1>0, Had DEF TypeOK, Locals, Modes, Values, Leaving, NoCall, InCall, Mut, Goto
  <1>2. Locals' /\ Apart'
    <2>1. Locals'
      BY <1>0, <1>a, PointerAssumption, Had DEF Locals, Deleting, TypeOK, NoCall, InCall, Mut, Goto
    <2>2. Apart'
      BY <1>0, <1>a DEF Apart, MayRead, Changing, TypeOK, NoCall, InCall, Mut, Goto
    <2>3. QED
      BY <2>1, <2>2
  <1>3. CountInv'
    <2>1. ASSUME NEW c \in Blocks PROVE Owners(c)' = Owners(c)
      <3>1. /\ Owners(c) \in Nat
            /\ Owners(c)' = Owners(c)
                 + One(details'[h], c) - One(details[h], c)
                 + One(loc'[t].strong, c) - One(loc[t].strong, c)
                 + One(Leaving(t)', c) - One(Leaving(t), c)
        BY <1>0, <1>a, <1>1, Counted
      <3>2. One(NoDetails, c) = 0 /\ \A y : One(y, c) \in Nat
        BY PointerAssumption DEF One
      <3>3. QED
        BY <1>0, <3>1, <3>2, PointerAssumption DEF Locals, TypeOK, Leaving, NoCall, InCall, Mut, Goto
    <2>2. QED
      BY <2>1, Had DEF CountInv, One, Locals, TypeOK, Leaving, Doomed, Deleting, Mut, Goto
  <1>4. Doomed'
    <2>1. \A u \in Threads : /\ pc'[u] \in Deleting <=> pc[u] \in Deleting
                             /\ pc[u] \in Deleting => loc'[u].old = loc[u].old
      BY <1>0, <1>a DEF Deleting, TypeOK, Mut, Goto
    <2>2. /\ live \subseteq live' /\ \A c \in live : refs'[c] = 0 <=> refs[c] = 0
          /\ \A c \in live' \ live : refs'[c] # 0
      BY <1>0, Had DEF TypeOK, Locals, Mut, Goto
    <2>3. QED
      BY <2>1, <2>2, Zenon, DoomedKept
  <1>5. Private'
    <2>1. ASSUME NEW u \in Threads \ {t}, pc'[u] = "write", mode'[loc'[u].h] = "COPY_ON_WRITE"
          PROVE  refs'[details'[loc'[u].h]] = 1
      <3>1. /\ pc[u] = "write" /\ loc'[u] = loc[u] /\ loc[u].h \in Handles \ {h}
            /\ details'[loc[u].h] = details[loc[u].h] /\ mode'[loc[u].h] = mode[loc[u].h]
        BY <1>0, <1>a, <2>1 DEF Locals
      <3>2. details[loc[u].h] # NoDetails /\ refs[details[loc[u].h]] = 1
        BY <2>1, <3>1 DEF Private, Locals
      <3>3. refs'[details[loc[u].h]] = refs[details[loc[u].h]]
        BY <1>0, <3>1, <3>2, Had DEF TypeOK, Locals, Leaving, Apart, Mut, Goto
      <3>4. QED
        BY <3>1, <3>2, <3>3
    <2>2. pc'[t] = "write" /\ mode'[loc'[t].h] = "COPY_ON_WRITE" => refs'[details'[loc'[t].h]] = 1
      BY <1>0, Had DEF Private, Locals, TypeOK, NoCall, InCall, Mut, Goto
    <2>3. QED
      BY <2>1, <2>2 DEF Private
  <1>9. QED
    BY <1>1, <1>2, <1>3, <1>4, <1>5

\* ptr() starts.
LEMMA PtrStep ==
    ASSUME IInv, NEW t \in Threads, NEW h \in Handles, NEW g \in Handles, Ptr(t, h, g)
    PROVE  IInv'
  <1> USE DEF IInv
  <1>0. /\ h \in Handles /\ pc[t] = "idle" /\ loc[t] = NoCall
        /\ \A u \in Threads \ {t} : loc[u].h # h /\ loc[u].from # h
    BY DEF Ptr, MayChange, Changing, Reading, Locals
  <1>a. /\ \A u \in Threads \ {t} : pc'[u] = pc[u] /\ loc'[u] = loc[u]
        /\ \A o \in Handles \ {h} : details'[o] = details[o] /\ mode'[o] = mode[o]
    BY DEF TypeOK, Ptr, Goto
  <1>1. TypeOK'
    BY <1>0, Had DEF TypeOK, Locals, Modes, Values, Leaving, NoCall, InCall, Ptr, Goto
  <1>2. Locals' /\ Apart'
    <2>1. Locals'
      BY <1>0, <1>a, PointerAssumption, Had DEF Locals, Deleting, TypeOK, NoCall, InCall, Ptr, Goto
    <2>2. Apart'
      BY <1>0, <1>a DEF Apart, MayRead, Changing, TypeOK, NoCall, InCall, Ptr, Goto
    <2>3. QED
      BY <2>1, <2>2
  <1>3. CountInv'
    <2>1. ASSUME NEW c \in Blocks PROVE Owners(c)' = Owners(c)
      <3>1. /\ Owners(c) \in Nat
            /\ Owners(c)' = Owners(c)
                 + One(details'[h], c) - One(details[h], c)
                 + One(loc'[t].strong, c) - One(loc[t].strong, c)
                 + One(Leaving(t)', c) - One(Leaving(t), c)
        BY <1>0, <1>a, <1>1, Counted
      <3>2. One(NoDetails, c) = 0 /\ \A y : One(y, c) \in Nat
        BY PointerAssumption DEF One
      <3>3. QED
        BY <1>0, <3>1, <3>2, PointerAssumption DEF Locals, TypeOK, Leaving, NoCall, InCall, Ptr, Goto
    <2>2. QED
      BY <2>1, Had DEF CountInv, One, Locals, TypeOK, Leaving, Doomed, Deleting, Ptr, Goto
  <1>4. Doomed'
    <2>1. \A u \in Threads : /\ pc'[u] \in Deleting <=> pc[u] \in Deleting
                             /\ pc[u] \in Deleting => loc'[u].old = loc[u].old
      BY <1>0, <1>a DEF Deleting, TypeOK, Ptr, Goto
    <2>2. /\ live \subseteq live' /\ \A c \in live : refs'[c] = 0 <=> refs[c] = 0
          /\ \A c \in live' \ live : refs'[c] # 0
      BY <1>0, Had DEF TypeOK, Locals, Ptr, Goto
    <2>3. QED
      BY <2>1, <2>2, Zenon, DoomedKept
  <1>5. Private'
    <2>1. ASSUME NEW u \in Threads \ {t}, pc'[u] = "write", mode'[loc'[u].h] = "COPY_ON_WRITE"
          PROVE  refs'[details'[loc'[u].h]] = 1
      <3>1. /\ pc[u] = "write" /\ loc'[u] = loc[u] /\ loc[u].h \in Handles \ {h}
            /\ details'[loc[u].h] = details[loc[u].h] /\ mode'[loc[u].h] = mode[loc[u].h]
        BY <1>0, <1>a, <2>1 DEF Locals
      <3>2. details[loc[u].h] # NoDetails /\ refs[details[loc[u].h]] = 1
        BY <2>1, <3>1 DEF Private, Locals
      <3>3. refs'[details[loc[u].h]] = refs[details[loc[u].h]]
        BY <1>0, <3>1, <3>2, Had DEF TypeOK, Locals, Leaving, Apart, Ptr, Goto
      <3>4. QED
        BY <3>1, <3>2, <3>3
    <2>2. pc'[t] = "write" /\ mode'[loc'[t].h] = "COPY_ON_WRITE" => refs'[details'[loc'[t].h]] = 1
      BY <1>0, Had DEF Private, Locals, TypeOK, NoCall, InCall, Ptr, Goto
    <2>3. QED
      BY <2>1, <2>2 DEF Private
  <1>9. QED
    BY <1>1, <1>2, <1>3, <1>4, <1>5

\* A reference is given up.
LEMMA ReleaseStep ==
    ASSUME IInv, NEW t \in Threads, Release(t)
    PROVE  IInv'
  <1> USE DEF IInv
  <1>0. /\ loc[t].h \in Handles /\ loc[t].h # NoDetails
        /\ \A u \in Threads \ {t} : loc[u].h # loc[t].h /\ loc[u].from # loc[t].h
    BY OwnHandle DEF Release
  <1>a. /\ \A u \in Threads \ {t} : pc'[u] = pc[u] /\ loc'[u] = loc[u]
        /\ \A g \in Handles \ {loc[t].h} : details'[g] = details[g] /\ mode'[g] = mode[g]
    BY DEF TypeOK, Release, Decrement, LastReference, Goto, Return
  <1>b. /\ loc[t].old \in live /\ loc[t].old \in Blocks
        /\ refs[loc[t].old] \in Nat /\ refs[loc[t].old] >= 1
    <2>1. Leaving(t) = loc[t].old /\ Leaving(t) # NoDetails
      BY DEF Leaving, Locals, Release
    <2>2. QED
      BY <2>1, Had DEF TypeOK
  <1>1. TypeOK'
    <2>1. refs' \in [Blocks -> Nat]
      BY <1>b DEF TypeOK, Release, Decrement
    <2>2. \/ pc' = [pc EXCEPT ![t] = "delete"] /\ loc' = loc
          \/ pc' = [pc EXCEPT ![t] = "idle"] /\ loc' = [loc EXCEPT ![t] = NoCall]
      BY DEF Release, Goto, Return
    <2>3. QED
      BY <2>1, <2>2 DEF TypeOK, NoCall, InCall, Release
  <1>2. Locals' /\ Apart'
    <2>1. Locals'
      BY <1>0, <1>a, PointerAssumption, Had DEF Locals, Deleting, TypeOK, NoCall, InCall, Release, Decrement, LastReference, Goto, Return
    <2>2. Apart'
      BY <1>0, <1>a DEF Apart, MayRead, Changing, TypeOK, NoCall, InCall, Release, Decrement, LastReference, Goto, Return
    <2>3. QED
      BY <2>1, <2>2
  <1>3. CountInv'
    <2>1. ASSUME NEW c \in Blocks PROVE Owners(c)' = Owners(c) - One(loc[t].old, c)
      <3>1. /\ Owners(c) \in Nat
            /\ Owners(c)' = Owners(c)
                 + One(details'[loc[t].h], c) - One(details[loc[t].h], c)
                 + One(loc'[t].strong, c) - One(loc[t].strong, c)
                 + One(Leaving(t)', c) - One(Leaving(t), c)
        BY <1>0, <1>a, <1>1, Counted
      <3>2. One(NoDetails, c) = 0 /\ \A y : One(y, c) \in Nat
        BY PointerAssumption DEF One
      <3>3. QED
        BY <1>0, <3>1, <3>2, PointerAssumption DEF Locals, TypeOK, Leaving, NoCall, InCall, Release, Decrement, LastReference, Goto, Return
    <2>2. QED
      BY <2>1, Had DEF CountInv, One, Locals, TypeOK, Leaving, Doomed, Deleting, Release, Decrement, LastReference, Goto, Return
  <1>4. Doomed'
    <2>1. /\ pc[t] \notin Deleting /\ refs' = [refs EXCEPT ![loc[t].old] = @ - 1] /\ live' = live
          /\ refs[loc[t].old] = 1 => pc'[t] \in Deleting /\ loc'[t].old = loc[t].old
          /\ refs[loc[t].old] # 1 => pc'[t] \notin Deleting
      BY <1>0, <1>b DEF Deleting, TypeOK, NoCall, InCall, Release, Decrement, LastReference, Goto, Return
    <2>2. QED
      BY <1>a, <1>b, <2>1, DoomedDown
  <1>5. Private'
    <2>1. ASSUME NEW u \in Threads \ {t}, pc'[u] = "write", mode'[loc'[u].h] = "COPY_ON_WRITE"
          PROVE  refs'[details'[loc'[u].h]] = 1
      <3>1. /\ pc[u] = "write" /\ loc'[u] = loc[u] /\ loc[u].h \in Handles \ {loc[t].h}
            /\ details'[loc[u].h] = details[loc[u].h] /\ mode'[loc[u].h] = mode[loc[u].h]
        BY <1>0, <1>a, <2>1 DEF Locals
      <3>2. details[loc[u].h] # NoDetails /\ refs[details[loc[u].h]] = 1
        BY <2>1, <3>1 DEF Private, Locals
      <3>3. refs'[details[loc[u].h]] = refs[details[loc[u].h]]
        BY <1>0, <3>1, <3>2, Had DEF TypeOK, Locals, Leaving, Apart, Release, Decrement, LastReference, Goto, Return
      <3>4. QED
        BY <3>1, <3>2, <3>3
    <2>2. pc'[t] = "write" /\ mode'[loc'[t].h] = "COPY_ON_WRITE" => refs'[details'[loc'[t].h]] = 1
      BY <1>0, Had DEF Private, Locals, TypeOK, NoCall, InCall, Release, Decrement, LastReference, Goto, Return
    <2>3. QED
      BY <2>1, <2>2 DEF Private
  <1>9. QED
    BY <1>1, <1>2, <1>3, <1>4, <1>5

\* The block is deleted.
LEMMA DeleteStep ==
    ASSUME IInv, NEW t \in Threads, Delete(t)
    PROVE  IInv'
  <1> USE DEF IInv
  <1>0. /\ loc[t].h \in Handles /\ loc[t].h # NoDetails
        /\ \A u \in Threads \ {t} : loc[u].h # loc[t].h /\ loc[u].from # loc[t].h
    BY OwnHandle DEF Delete
  <1>a. /\ \A u \in Threads \ {t} : pc'[u] = pc[u] /\ loc'[u] = loc[u]
        /\ \A g \in Handles \ {loc[t].h} : details'[g] = details[g] /\ mode'[g] = mode[g]
    BY DEF TypeOK, Delete, Goto, Return
  <1>1. TypeOK'
    BY <1>0, Had DEF TypeOK, Locals, Modes, Values, Leaving, NoCall, InCall, Delete, Goto, Return
  <1>2. Locals' /\ Apart'
    <2>1. Locals'
      BY <1>0, <1>a, PointerAssumption, Had DEF Locals, Deleting, TypeOK, NoCall, InCall, Delete, Goto, Return
    <2>2. Apart'
      BY <1>0, <1>a DEF Apart, MayRead, Changing, TypeOK, NoCall, InCall, Delete, Goto, Return
    <2>3. QED
      BY <2>1, <2>2
  <1>3. CountInv'
    <2>1. ASSUME NEW c \in Blocks PROVE Owners(c)' = Owners(c)
      <3>1. /\ Owners(c) \in Nat
            /\ Owners(c)' = Owners(c)
                 + One(details'[loc[t].h], c) - One(details[loc[t].h], c)
                 + One(loc'[t].strong, c) - One(loc[t].strong, c)
                 + One(Leaving(t)', c) - One(Leaving(t), c)
        BY <1>0, <1>a, <1>1, Counted
      <3>2. One(NoDetails, c) = 0 /\ \A y : One(y, c) \in Nat
        BY PointerAssumption DEF One
      <3>3. QED
        BY <1>0, <3>1, <3>2, PointerAssumption DEF Locals, TypeOK, Leaving, NoCall, InCall, Delete, Goto, Return
    <2>2. QED
      BY <2>1, Had DEF CountInv, One, Locals, TypeOK, Leaving, Doomed, Deleting, Delete, Goto, Return
  <1>4. Doomed'
    BY <1>a, DoomedGone DEF Deleting, TypeOK, Delete, Goto, Return
  <1>5. Private'
    <2>1. ASSUME NEW u \in Threads \ {t}, pc'[u] = "write", mode'[loc'[u].h] = "COPY_ON_WRITE"
          PROVE  refs'[details'[loc'[u].h]] = 1
      <3>1. /\ pc[u] = "write" /\ loc'[u] = loc[u] /\ loc[u].h \in Handles \ {loc[t].h}
            /\ details'[loc[u].h] = details[loc[u].h] /\ mode'[loc[u].h] = mode[loc[u].h]
        BY <1>0, <1>a, <2>1 DEF Locals
      <3>2. details[loc[u].h] # NoDetails /\ refs[details[loc[u].h]] = 1
        BY <2>1, <3>1 DEF Private, Locals
      <3>3. refs'[details[loc[u].h]] = refs[details[loc[u].h]]
        BY <1>0, <3>1, <3>2, Had DEF TypeOK, Locals, Leaving, Apart, Delete, Goto, Return
      <3>4. QED
        BY <3>1, <3>2, <3>3
    <2>2. pc'[t] = "write" /\ mode'[loc'[t].h] = "COPY_ON_WRITE" => refs'[details'[loc'[t].h]] = 1
      BY <1>0, Had DEF Private, Locals, TypeOK, NoCall, InCall, Delete, Goto, Return
    <2>3. QED
      BY <2>1, <2>2 DEF Private
  <1>9. QED
    BY <1>1, <1>2, <1>3, <1>4, <1>5

\* mut reads the count.
LEMMA MutLoadStep ==
    ASSUME IInv, NEW t \in Threads, MutLoad(t)
    PROVE  IInv'
  <1> USE DEF IInv
  <1>0. /\ loc[t].h \in Handles /\ loc[t].h # NoDetails
        /\ \A u \in Threads \ {t} : loc[u].h # loc[t].h /\ loc[u].from # loc[t].h
    BY OwnHandle DEF MutLoad
  <1>a. /\ \A u \in Threads \ {t} : pc'[u] = pc[u] /\ loc'[u] = loc[u]
        /\ \A g \in Handles \ {loc[t].h} : details'[g] = details[g] /\ mode'[g] = mode[g]
    BY DEF TypeOK, MutLoad, Sole, Goto
  <1>1. TypeOK'
    BY <1>0, Had DEF TypeOK, Locals, Modes, Values, Leaving, NoCall, InCall, MutLoad, Sole, Goto
  <1>2. Locals' /\ Apart'
    <2>1. Locals'
      BY <1>0, <1>a, PointerAssumption, Had DEF Locals, Deleting, TypeOK, NoCall, InCall, MutLoad, Sole, Goto
    <2>2. Apart'
      BY <1>0, <1>a DEF Apart, MayRead, Changing, TypeOK, NoCall, InCall, MutLoad, Sole, Goto
    <2>3. QED
      BY <2>1, <2>2
  <1>3. CountInv'
    <2>1. ASSUME NEW c \in Blocks PROVE Owners(c)' = Owners(c)
      <3>1. /\ Owners(c) \in Nat
            /\ Owners(c)' = Owners(c)
                 + One(details'[loc[t].h], c) - One(details[loc[t].h], c)
                 + One(loc'[t].strong, c) - One(loc[t].strong, c)
                 + One(Leaving(t)', c) - One(Leaving(t), c)
        BY <1>0, <1>a, <1>1, Counted
      <3>2. One(NoDetails, c) = 0 /\ \A y : One(y, c) \in Nat
        BY PointerAssumption DEF One
      <3>3. QED
        BY <1>0, <3>1, <3>2, PointerAssumption DEF Locals, TypeOK, Leaving, NoCall, InCall, MutLoad, Sole, Goto
    <2>2. QED
      BY <2>1, Had DEF CountInv, One, Locals, TypeOK, Leaving, Doomed, Deleting, MutLoad, Sole, Goto
  <1>4. Doomed'
    <2>1. \A u \in Threads : /\ pc'[u] \in Deleting <=> pc[u] \in Deleting
                             /\ pc[u] \in Deleting => loc'[u].old = loc[u].old
      BY <1>0, <1>a DEF Deleting, TypeOK, MutLoad, Sole, Goto
    <2>2. /\ live \subseteq live' /\ \A c \in live : refs'[c] = 0 <=> refs[c] = 0
          /\ \A c \in live' \ live : refs'[c] # 0
      BY <1>0, Had DEF TypeOK, Locals, MutLoad, Sole, Goto
    <2>3. QED
      BY <2>1, <2>2, Zenon, DoomedKept
  <1>5. Private'
    <2>1. ASSUME NEW u \in Threads \ {t}, pc'[u] = "write", mode'[loc'[u].h] = "COPY_ON_WRITE"
          PROVE  refs'[details'[loc'[u].h]] = 1
      <3>1. /\ pc[u] = "write" /\ loc'[u] = loc[u] /\ loc[u].h \in Handles \ {loc[t].h}
            /\ details'[loc[u].h] = details[loc[u].h] /\ mode'[loc[u].h] = mode[loc[u].h]
        BY <1>0, <1>a, <2>1 DEF Locals
      <3>2. details[loc[u].h] # NoDetails /\ refs[details[loc[u].h]] = 1
        BY <2>1, <3>1 DEF Private, Locals
      <3>3. refs'[details[loc[u].h]] = refs[details[loc[u].h]]
        BY <1>0, <3>1, <3>2, Had DEF TypeOK, Locals, Leaving, Apart, MutLoad, Sole, Goto
      <3>4. QED
        BY <3>1, <3>2, <3>3
    <2>2. pc'[t] = "write" /\ mode'[loc'[t].h] = "COPY_ON_WRITE" => refs'[details'[loc'[t].h]] = 1
      BY <1>0, Had DEF Private, Locals, TypeOK, NoCall, InCall, MutLoad, Sole, Goto
    <2>3. QED
      BY <2>1, <2>2 DEF Private
  <1>9. QED
    BY <1>1, <1>2, <1>3, <1>4, <1>5

\* mut copies the object.
LEMMA MutCopyStep ==
    ASSUME IInv, NEW t \in Threads, NEW b \in Blocks, MutCopy(t, b)
    PROVE  IInv'
  <1> USE DEF IInv
  <1>0. /\ loc[t].h \in Handles /\ loc[t].h # NoDetails
        /\ \A u \in Threads \ {t} : loc[u].h # loc[t].h /\ loc[u].from # loc[t].h
    BY OwnHandle DEF MutCopy
  <1>a. /\ \A u \in Threads \ {t} : pc'[u] = pc[u] /\ loc'[u] = loc[u]
        /\ \A g \in Handles \ {loc[t].h} : details'[g] = details[g] /\ mode'[g] = mode[g]
    BY DEF TypeOK, MutCopy, Fresh, Goto
  <1>1. TypeOK'
    BY <1>0, Had DEF TypeOK, Locals, Modes, Values, Leaving, NoCall, InCall, MutCopy, Fresh, Goto
  <1>2. Locals' /\ Apart'
    <2>1. Locals'
      BY <1>0, <1>a, PointerAssumption, Had DEF Locals, Deleting, TypeOK, NoCall, InCall, MutCopy, Fresh, Goto
    <2>2. Apart'
      BY <1>0, <1>a DEF Apart, MayRead, Changing, TypeOK, NoCall, InCall, MutCopy, Fresh, Goto
    <2>3. QED
      BY <2>1, <2>2
  <1>3. CountInv'
    <2>1. ASSUME NEW c \in Blocks PROVE Owners(c)' = Owners(c) + One(b, c)
      <3>1. /\ Owners(c) \in Nat
            /\ Owners(c)' = Owners(c)
                 + One(details'[loc[t].h], c) - One(details[loc[t].h], c)
                 + One(loc'[t].strong, c) - One(loc[t].strong, c)
                 + One(Leaving(t)', c) - One(Leaving(t), c)
        BY <1>0, <1>a, <1>1, Counted
      <3>2. One(NoDetails, c) = 0 /\ \A y : One(y, c) \in Nat
        BY PointerAssumption DEF One
      <3>3. QED
        BY <1>0, <3>1, <3>2, PointerAssumption DEF Locals, TypeOK, Leaving, NoCall, InCall, MutCopy, Fresh, Goto
    <2>2. QED
      BY <2>1, Had DEF CountInv, One, Locals, TypeOK, Leaving, Doomed, Deleting, MutCopy, Fresh, Goto
  <1>4. Doomed'
    <2>1. \A u \in Threads : /\ pc'[u] \in Deleting <=> pc[u] \in Deleting
                             /\ pc[u] \in Deleting => loc'[u].old = loc[u].old
      BY <1>0, <1>a DEF Deleting, TypeOK, MutCopy, Fresh, Goto
    <2>2. /\ live \subseteq live' /\ \A c \in live : refs'[c] = 0 <=> refs[c] = 0
          /\ \A c \in live' \ live : refs'[c] # 0
      BY <1>0, Had DEF TypeOK, Locals, MutCopy, Fresh, Goto
    <2>3. QED
      BY <2>1, <2>2, Zenon, DoomedKept
  <1>5. Private'
    <2>1. ASSUME NEW u \in Threads \ {t}, pc'[u] = "write", mode'[loc'[u].h] = "COPY_ON_WRITE"
          PROVE  refs'[details'[loc'[u].h]] = 1
      <3>1. /\ pc[u] = "write" /\ loc'[u] = loc[u] /\ loc[u].h \in Handles \ {loc[t].h}
            /\ details'[loc[u].h] = details[loc[u].h] /\ mode'[loc[u].h] = mode[loc[u].h]
        BY <1>0, <1>a, <2>1 DEF Locals
      <3>2. details[loc[u].h] # NoDetails /\ refs[details[loc[u].h]] = 1
        BY <2>1, <3>1 DEF Private, Locals
      <3>3. refs'[details[loc[u].h]] = refs[details[loc[u].h]]
        BY <1>0, <3>1, <3>2, Had DEF TypeOK, Locals, Leaving, Apart, MutCopy, Fresh, Goto
      <3>4. QED
        BY <3>1, <3>2, <3>3
    <2>2. pc'[t] = "write" /\ mode'[loc'[t].h] = "COPY_ON_WRITE" => refs'[details'[loc'[t].h]] = 1
      BY <1>0, Had DEF Private, Locals, TypeOK, NoCall, InCall, MutCopy, Fresh, Goto
    <2>3. QED
      BY <2>1, <2>2 DEF Private
  <1>9. QED
    BY <1>1, <1>2, <1>3, <1>4, <1>5

\* mut gives the old reference up.
LEMMA MutDetachStep ==
    ASSUME IInv, NEW t \in Threads, MutDetach(t)
    PROVE  IInv'
  <1> USE DEF IInv
  <1>0. /\ loc[t].h \in Handles /\ loc[t].h # NoDetails
        /\ \A u \in Threads \ {t} : loc[u].h # loc[t].h /\ loc[u].from # loc[t].h
    BY OwnHandle DEF MutDetach
  <1>a. /\ \A u \in Threads \ {t} : pc'[u] = pc[u] /\ loc'[u] = loc[u]
        /\ \A g \in Handles \ {loc[t].h} : details'[g] = details[g] /\ mode'[g] = mode[g]
    BY DEF TypeOK, MutDetach, Decrement, LastReference, Goto
  <1>b. /\ loc[t].old \in live /\ loc[t].old \in Blocks
        /\ refs[loc[t].old] \in Nat /\ refs[loc[t].old] >= 1
    <2>1. Leaving(t) = loc[t].old /\ Leaving(t) # NoDetails
      BY DEF Leaving, Locals, MutDetach
    <2>2. QED
      BY <2>1, Had DEF TypeOK
  <1>1. TypeOK'
    BY <1>0, <1>b DEF TypeOK, Locals, Modes, Values, Leaving, NoCall, InCall, MutDetach, Decrement, LastReference, Goto
  <1>2. Locals' /\ Apart'
    <2>1. Locals'
      BY <1>0, <1>a, PointerAssumption, Had DEF Locals, Deleting, TypeOK, NoCall, InCall, MutDetach, Decrement, LastReference, Goto
    <2>2. Apart'
      BY <1>0, <1>a DEF Apart, MayRead, Changing, TypeOK, NoCall, InCall, MutDetach, Decrement, LastReference, Goto
    <2>3. QED
      BY <2>1, <2>2
  <1>3. CountInv'
    <2>1. ASSUME NEW c \in Blocks PROVE Owners(c)' = Owners(c) - One(loc[t].old, c)
      <3>1. /\ Owners(c) \in Nat
            /\ Owners(c)' = Owners(c)
                 + One(details'[loc[t].h], c) - One(details[loc[t].h], c)
                 + One(loc'[t].strong, c) - One(loc[t].strong, c)
                 + One(Leaving(t)', c) - One(Leaving(t), c)
        BY <1>0, <1>a, <1>1, Counted
      <3>2. One(NoDetails, c) = 0 /\ \A y : One(y, c) \in Nat
        BY PointerAssumption DEF One
      <3>3. /\ details' = details /\ loc'[t].strong = loc[t].strong
            /\ Leaving(t) = loc[t].old /\ Leaving(t)' = NoDetails
        BY <1>0 DEF TypeOK, Locals, Leaving, MutDetach, LastReference, Goto
      <3>4. QED
        BY <3>1, <3>2, <3>3
    <2>2. QED
      BY <2>1, Had DEF CountInv, One, Locals, TypeOK, Leaving, Doomed, Deleting, MutDetach, Decrement, LastReference, Goto
  <1>4. Doomed'
    <2>1. /\ pc[t] \notin Deleting /\ refs' = [refs EXCEPT ![loc[t].old] = @ - 1] /\ live' = live
          /\ refs[loc[t].old] = 1 => pc'[t] \in Deleting /\ loc'[t].old = loc[t].old
          /\ refs[loc[t].old] # 1 => pc'[t] \notin Deleting
      BY <1>0, <1>b DEF Deleting, TypeOK, NoCall, InCall, MutDetach, Decrement, LastReference, Goto
    <2>2. QED
      BY <1>a, <1>b, <2>1, DoomedDown
  <1>5. Private'
    <2>1. ASSUME NEW u \in Threads \ {t}, pc'[u] = "write", mode'[loc'[u].h] = "COPY_ON_WRITE"
          PROVE  refs'[details'[loc'[u].h]] = 1
      <3>1. /\ pc[u] = "write" /\ loc'[u] = loc[u] /\ loc[u].h \in Handles \ {loc[t].h}
            /\ details'[loc[u].h] = details[loc[u].h] /\ mode'[loc[u].h] = mode[loc[u].h]
        BY <1>0, <1>a, <2>1 DEF Locals
      <3>2. details[loc[u].h] # NoDetails /\ refs[details[loc[u].h]] = 1
        BY <2>1, <3>1 DEF Private, Locals
      <3>3. refs'[details[loc[u].h]] = refs[details[loc[u].h]]
        BY <1>0, <3>1, <3>2, Had DEF TypeOK, Locals, Leaving, Apart, MutDetach, Decrement, LastReference, Goto
      <3>4. QED
        BY <3>1, <3>2, <3>3
    <2>2. pc'[t] = "write" /\ mode'[loc'[t].h] = "COPY_ON_WRITE" => refs'[details'[loc'[t].h]] = 1
      BY <1>0, Had DEF Private, Locals, TypeOK, NoCall, InCall, MutDetach, Decrement, LastReference, Goto
    <2>3. QED
      BY <2>1, <2>2 DEF Private
  <1>9. QED
    BY <1>1, <1>2, <1>3, <1>4, <1>5

\* mut deletes the old block.
LEMMA MutDestroyStep ==
    ASSUME IInv, NEW t \in Threads, MutDestroy(t)
    PROVE  IInv'
  <1> USE DEF IInv
  <1>0. /\ loc[t].h \in Handles /\ loc[t].h # NoDetails
        /\ \A u \in Threads \ {t} : loc[u].h # loc[t].h /\ loc[u].from # loc[t].h
    BY OwnHandle DEF MutDestroy
  <1>a. /\ \A u \in Threads \ {t} : pc'[u] = pc[u] /\ loc'[u] = loc[u]
        /\ \A g \in Handles \ {loc[t].h} : details'[g] = details[g] /\ mode'[g] = mode[g]
    BY DEF TypeOK, MutDestroy, Goto
  <1>1. TypeOK'
    BY <1>0, Had DEF TypeOK, Locals, Modes, Values, Leaving, NoCall, InCall, MutDestroy, Goto
  <1>2. Locals' /\ Apart'
    <2>1. Locals'
      BY <1>0, <1>a, PointerAssumption, Had DEF Locals, Deleting, TypeOK, NoCall, InCall, MutDestroy, Goto
    <2>2. Apart'
      BY <1>0, <1>a DEF Apart, MayRead, Changing, TypeOK, NoCall, InCall, MutDestroy, Goto
    <2>3. QED
      BY <2>1, <2>2
  <1>3. CountInv'
    <2>1. ASSUME NEW c \in Blocks PROVE Owners(c)' = Owners(c)
      <3>1. /\ Owners(c) \in Nat
            /\ Owners(c)' = Owners(c)
                 + One(details'[loc[t].h], c) - One(details[loc[t].h], c)
                 + One(loc'[t].strong, c) - One(loc[t].strong, c)
                 + One(Leaving(t)', c) - One(Leaving(t), c)
        BY <1>0, <1>a, <1>1, Counted
      <3>2. One(NoDetails, c) = 0 /\ \A y : One(y, c) \in Nat
        BY PointerAssumption DEF One
      <3>3. QED
        BY <1>0, <3>1, <3>2, PointerAssumption DEF Locals, TypeOK, Leaving, NoCall, InCall, MutDestroy, Goto
    <2>2. QED
      BY <2>1, Had DEF CountInv, One, Locals, TypeOK, Leaving, Doomed, Deleting, MutDestroy, Goto
  <1>4. Doomed'
    BY <1>a, DoomedGone DEF Deleting, TypeOK, MutDestroy, Goto
  <1>5. Private'
    <2>1. ASSUME NEW u \in Threads \ {t}, pc'[u] = "write", mode'[loc'[u].h] = "COPY_ON_WRITE"
          PROVE  refs'[details'[loc'[u].h]] = 1
      <3>1. /\ pc[u] = "write" /\ loc'[u] = loc[u] /\ loc[u].h \in Handles \ {loc[t].h}
            /\ details'[loc[u].h] = details[loc[u].h] /\ mode'[loc[u].h] = mode[loc[u].h]
        BY <1>0, <1>a, <2>1 DEF Locals
      <3>2. details[loc[u].h] # NoDetails /\ refs[details[loc[u].h]] = 1
        BY <2>1, <3>1 DEF Private, Locals
      <3>3. refs'[details[loc[u].h]] = refs[details[loc[u].h]]
        BY <1>0, <3>1, <3>2, Had DEF TypeOK, Locals, Leaving, Apart, MutDestroy, Goto
      <3>4. QED
        BY <3>1, <3>2, <3>3
    <2>2. pc'[t] = "write" /\ mode'[loc'[t].h] = "COPY_ON_WRITE" => refs'[details'[loc'[t].h]] = 1
      BY <1>0, Had DEF Private, Locals, TypeOK, NoCall, InCall, MutDestroy, Goto
    <2>3. QED
      BY <2>1, <2>2 DEF Private
  <1>9. QED
    BY <1>1, <1>2, <1>3, <1>4, <1>5

\* The caller writes.
LEMMA MutWriteStep ==
    ASSUME IInv, NEW t \in Threads, MutWrite(t)
    PROVE  IInv'
  <1> USE DEF IInv
  <1>0. /\ loc[t].h \in Handles /\ loc[t].h # NoDetails
        /\ \A u \in Threads \ {t} : loc[u].h # loc[t].h /\ loc[u].from # loc[t].h
    BY OwnHandle DEF MutWrite
  <1>a. /\ \A u \in Threads \ {t} : pc'[u] = pc[u] /\ loc'[u] = loc[u]
        /\ \A g \in Handles \ {loc[t].h} : details'[g] = details[g] /\ mode'[g] = mode[g]
    BY DEF TypeOK, MutWrite, Goto, Return
  <1>1. TypeOK'
    BY <1>0, Had DEF TypeOK, Locals, Modes, Values, Leaving, NoCall, InCall, MutWrite, Goto, Return
  <1>2. Locals' /\ Apart'
    <2>1. Locals'
      BY <1>0, <1>a, PointerAssumption, Had DEF Locals, Deleting, TypeOK, NoCall, InCall, MutWrite, Goto, Return
    <2>2. Apart'
      BY <1>0, <1>a DEF Apart, MayRead, Changing, TypeOK, NoCall, InCall, MutWrite, Goto, Return
    <2>3. QED
      BY <2>1, <2>2
  <1>3. CountInv'
    <2>1. ASSUME NEW c \in Blocks PROVE Owners(c)' = Owners(c)
      <3>1. /\ Owners(c) \in Nat
            /\ Owners(c)' = Owners(c)
                 + One(details'[loc[t].h], c) - One(details[loc[t].h], c)
                 + One(loc'[t].strong, c) - One(loc[t].strong, c)
                 + One(Leaving(t)', c) - One(Leaving(t), c)
        BY <1>0, <1>a, <1>1, Counted
      <3>2. One(NoDetails, c) = 0 /\ \A y : One(y, c) \in Nat
        BY PointerAssumption DEF One
      <3>3. QED
        BY <1>0, <3>1, <3>2, PointerAssumption DEF Locals, TypeOK, Leaving, NoCall, InCall, MutWrite, Goto, Return
    <2>2. QED
      BY <2>1, Had DEF CountInv, One, Locals, TypeOK, Leaving, Doomed, Deleting, MutWrite, Goto, Return
  <1>4. Doomed'
    <2>1. \A u \in Threads : /\ pc'[u] \in Deleting <=> pc[u] \in Deleting
                             /\ pc[u] \in Deleting => loc'[u].old = loc[u].old
      BY <1>0, <1>a DEF Deleting, TypeOK, MutWrite, Goto, Return
    <2>2. /\ live \subseteq live' /\ \A c \in live : refs'[c] = 0 <=> refs[c] = 0
          /\ \A c \in live' \ live : refs'[c] # 0
      BY <1>0, Had DEF TypeOK, Locals, MutWrite, Goto, Return
    <2>3. QED
      BY <2>1, <2>2, Zenon, DoomedKept
  <1>5. Private'
    <2>1. ASSUME NEW u \in Threads \ {t}, pc'[u] = "write", mode'[loc'[u].h] = "COPY_ON_WRITE"
          PROVE  refs'[details'[loc'[u].h]] = 1
      <3>1. /\ pc[u] = "write" /\ loc'[u] = loc[u] /\ loc[u].h \in Handles \ {loc[t].h}
            /\ details'[loc[u].h] = details[loc[u].h] /\ mode'[loc[u].h] = mode[loc[u].h]
        BY <1>0, <1>a, <2>1 DEF Locals
      <3>2. details[loc[u].h] # NoDetails /\ refs[details[loc[u].h]] = 1
        BY <2>1, <3>1 DEF Private, Locals
      <3>3. refs'[details[loc[u].h]] = refs[details[loc[u].h]]
        BY <1>0, <3>1, <3>2, Had DEF TypeOK, Locals, Leaving, Apart, MutWrite, Goto, Return
      <3>4. QED
        BY <3>1, <3>2, <3>3
    <2>2. pc'[t] = "write" /\ mode'[loc'[t].h] = "COPY_ON_WRITE" => refs'[details'[loc'[t].h]] = 1
      BY <1>0, Had DEF Private, Locals, TypeOK, NoCall, InCall, MutWrite, Goto, Return
    <2>3. QED
      BY <2>1, <2>2 DEF Private
  <1>9. QED
    BY <1>1, <1>2, <1>3, <1>4, <1>5

\* lock reads the count.
LEMMA LockStep ==
    ASSUME IInv, NEW t \in Threads, Lock(t)
    PROVE  IInv'
  <1> USE DEF IInv
  <1>0. /\ loc[t].h \in Handles /\ loc[t].h # NoDetails
        /\ \A u \in Threads \ {t} : loc[u].h # loc[t].h /\ loc[u].from # loc[t].h
    BY OwnHandle DEF Lock
  <1>a. /\ \A u \in Threads \ {t} : pc'[u] = pc[u] /\ loc'[u] = loc[u]
        /\ \A g \in Handles \ {loc[t].h} : details'[g] = details[g] /\ mode'[g] = mode[g]
    BY DEF TypeOK, Lock, Goto
  <1>1. TypeOK'
    BY <1>0, Had DEF TypeOK, Locals, Modes, Values, Leaving, NoCall, InCall, Lock, Goto
  <1>2. Locals' /\ Apart'
    <2>1. Locals'
      BY <1>0, <1>a, PointerAssumption, Had DEF Locals, Deleting, TypeOK, NoCall, InCall, Lock, Goto
    <2>2. Apart'
      BY <1>0, <1>a DEF Apart, MayRead, Changing, TypeOK, NoCall, InCall, Lock, Goto
    <2>3. QED
      BY <2>1, <2>2
  <1>3. CountInv'
    <2>1. ASSUME NEW c \in Blocks PROVE Owners(c)' = Owners(c)
      <3>1. /\ Owners(c) \in Nat
            /\ Owners(c)' = Owners(c)
                 + One(details'[loc[t].h], c) - One(details[loc[t].h], c)
                 + One(loc'[t].strong, c) - One(loc[t].strong, c)
                 + One(Leaving(t)', c) - One(Leaving(t), c)
        BY <1>0, <1>a, <1>1, Counted
      <3>2. One(NoDetails, c) = 0 /\ \A y : One(y, c) \in Nat
        BY PointerAssumption DEF One
      <3>3. QED
        BY <1>0, <3>1, <3>2, PointerAssumption DEF Locals, TypeOK, Leaving, NoCall, InCall, Lock, Goto
    <2>2. QED
      BY <2>1, Had DEF CountInv, One, Locals, TypeOK, Leaving, Doomed, Deleting, Lock, Goto
  <1>4. Doomed'
    <2>1. \A u \in Threads : /\ pc'[u] \in Deleting <=> pc[u] \in Deleting
                             /\ pc[u] \in Deleting => loc'[u].old = loc[u].old
      BY <1>0, <1>a DEF Deleting, TypeOK, Lock, Goto
    <2>2. /\ live \subseteq live' /\ \A c \in live : refs'[c] = 0 <=> refs[c] = 0
          /\ \A c \in live' \ live : refs'[c] # 0
      BY <1>0, Had DEF TypeOK, Locals, Lock, Goto
    <2>3. QED
      BY <2>1, <2>2, Zenon, DoomedKept
  <1>5. Private'
    <2>1. ASSUME NEW u \in Threads \ {t}, pc'[u] = "write", mode'[loc'[u].h] = "COPY_ON_WRITE"
          PROVE  refs'[details'[loc'[u].h]] = 1
      <3>1. /\ pc[u] = "write" /\ loc'[u] = loc[u] /\ loc[u].h \in Handles \ {loc[t].h}
            /\ details'[loc[u].h] = details[loc[u].h] /\ mode'[loc[u].h] = mode[loc[u].h]
        BY <1>0, <1>a, <2>1 DEF Locals
      <3>2. details[loc[u].h] # NoDetails /\ refs[details[loc[u].h]] = 1
        BY <2>1, <3>1 DEF Private, Locals
      <3>3. refs'[details[loc[u].h]] = refs[details[loc[u].h]]
        BY <1>0, <3>1, <3>2, Had DEF TypeOK, Locals, Leaving, Apart, Lock, Goto
      <3>4. QED
        BY <3>1, <3>2, <3>3
    <2>2. pc'[t] = "write" /\ mode'[loc'[t].h] = "COPY_ON_WRITE" => refs'[details'[loc'[t].h]] = 1
      BY <1>0, Had DEF Private, Locals, TypeOK, NoCall, InCall, Lock, Goto
    <2>3. QED
      BY <2>1, <2>2 DEF Private
  <1>9. QED
    BY <1>1, <1>2, <1>3, <1>4, <1>5

\* The count that was read is exchanged.
LEMMA ExchangeTakenStep ==
    ASSUME IInv, NEW t \in Threads, Exchange(t), Unchanged(details[loc[t].from], loc[t].seen)
    PROVE  IInv'
  <1> USE DEF IInv
  <1>0. /\ loc[t].h \in Handles /\ loc[t].h # NoDetails
        /\ \A u \in Threads \ {t} : loc[u].h # loc[t].h /\ loc[u].from # loc[t].h
    BY OwnHandle DEF Exchange
  <1>a. /\ \A u \in Threads \ {t} : pc'[u] = pc[u] /\ loc'[u] = loc[u]
        /\ \A g \in Handles \ {loc[t].h} : details'[g] = details[g] /\ mode'[g] = mode[g]
    BY DEF TypeOK, Exchange, Unchanged, Goto
  <1>b. /\ details[loc[t].from] \in live /\ details[loc[t].from] \in Blocks
        /\ refs[details[loc[t].from]] \in Nat /\ refs[details[loc[t].from]] >= 1
    <2>1. details[loc[t].from] # NoDetails /\ loc[t].from \in Handles
      BY DEF Locals, TypeOK, Exchange
    <2>2. QED
      BY <2>1, Had DEF TypeOK
  <1>1. TypeOK'
    <2>1. refs' \in [Blocks -> Nat]
      <3>1. refs' = [refs EXCEPT ![details[loc[t].from]] = refs[details[loc[t].from]] + 1]
        BY <1>b DEF TypeOK, Exchange, Unchanged, Goto
      <3>2. refs[details[loc[t].from]] + 1 \in Nat
        BY <1>b
      <3>3. QED
        BY <3>1, <3>2 DEF TypeOK
    <2>2. loc' \in [Threads -> [h : Handles \cup {NoDetails}, from : Handles \cup {NoDetails},
                             old : Blocks \cup {NoDetails}, strong : Blocks \cup {NoDetails},
                             seen : Nat]]
      BY <1>0, <1>b DEF TypeOK, NoCall, InCall, Exchange, Unchanged, Goto
    <2>3. /\ details' \in [Handles -> Blocks \cup {NoDetails}]
          /\ mode' \in [Handles -> Modes]
          /\ live' = live /\ value' = value
      BY <1>0, <1>b DEF TypeOK, Modes, Exchange, Unchanged, Goto
    <2>4. pc' \in [Threads -> {"idle", "release", "delete", "load", "copy", "detach",
                            "destroy", "write", "lock", "exchange", "alias", "unlock"}]
      BY DEF TypeOK, Exchange, Unchanged, Goto
    <2>5. QED
      BY <2>1, <2>2, <2>3, <2>4 DEF TypeOK
  <1>2. Locals' /\ Apart'
    <2>1. Locals'
      BY <1>0, <1>a, PointerAssumption, Had DEF Locals, Deleting, TypeOK, NoCall, InCall, Exchange, Unchanged, Goto
    <2>2. Apart'
      BY <1>0, <1>a DEF Apart, MayRead, Changing, TypeOK, NoCall, InCall, Exchange, Unchanged, Goto
    <2>3. QED
      BY <2>1, <2>2
  <1>3. CountInv'
    <2>1. ASSUME NEW c \in Blocks PROVE Owners(c)' = Owners(c) + One(details[loc[t].from], c)
      <3>1. /\ Owners(c) \in Nat
            /\ Owners(c)' = Owners(c)
                 + One(details'[loc[t].h], c) - One(details[loc[t].h], c)
                 + One(loc'[t].strong, c) - One(loc[t].strong, c)
                 + One(Leaving(t)', c) - One(Leaving(t), c)
        BY <1>0, <1>a, <1>1, Counted
      <3>2. One(NoDetails, c) = 0 /\ \A y : One(y, c) \in Nat
        BY PointerAssumption DEF One
      <3>3. QED
        BY <1>0, <3>1, <3>2, PointerAssumption DEF Locals, TypeOK, Leaving, NoCall, InCall, Exchange, Unchanged, Goto
    <2>2. QED
      BY <2>1, Had DEF CountInv, One, Locals, TypeOK, Leaving, Doomed, Deleting, Exchange, Unchanged, Goto
  <1>4. Doomed'
    <2>1. \A u \in Threads : /\ pc'[u] \in Deleting <=> pc[u] \in Deleting
                             /\ pc[u] \in Deleting => loc'[u].old = loc[u].old
      BY <1>0, <1>a DEF Deleting, TypeOK, Exchange, Unchanged, Goto
    <2>2. /\ live \subseteq live' /\ \A c \in live : refs'[c] = 0 <=> refs[c] = 0
          /\ \A c \in live' \ live : refs'[c] # 0
      BY <1>0, Had DEF TypeOK, Locals, Exchange, Unchanged, Goto
    <2>3. QED
      BY <2>1, <2>2, Zenon, DoomedKept
  <1>5. Private'
    <2>1. ASSUME NEW u \in Threads \ {t}, pc'[u] = "write", mode'[loc'[u].h] = "COPY_ON_WRITE"
          PROVE  refs'[details'[loc'[u].h]] = 1
      <3>1. /\ pc[u] = "write" /\ loc'[u] = loc[u] /\ loc[u].h \in Handles \ {loc[t].h}
            /\ details'[loc[u].h] = details[loc[u].h] /\ mode'[loc[u].h] = mode[loc[u].h]
        BY <1>0, <1>a, <2>1 DEF Locals
      <3>2. details[loc[u].h] # NoDetails /\ refs[details[loc[u].h]] = 1
        BY <2>1, <3>1 DEF Private, Locals
      <3>3. refs'[details[loc[u].h]] = refs[details[loc[u].h]]
        BY <1>0, <3>1, <3>2, Had DEF TypeOK, Locals, Leaving, Apart, Exchange, Unchanged, Goto
      <3>4. QED
        BY <3>1, <3>2, <3>3
    <2>2. pc'[t] = "write" /\ mode'[loc'[t].h] = "COPY_ON_WRITE" => refs'[details'[loc'[t].h]] = 1
      BY <1>0, Had DEF Private, Locals, TypeOK, NoCall, InCall, Exchange, Unchanged, Goto
    <2>3. QED
      BY <2>1, <2>2 DEF Private
  <1>9. QED
    BY <1>1, <1>2, <1>3, <1>4, <1>5

\* It has changed and is read again.
LEMMA ExchangeAgainStep ==
    ASSUME IInv, NEW t \in Threads, Exchange(t), ~ Unchanged(details[loc[t].from], loc[t].seen)
    PROVE  IInv'
  <1> USE DEF IInv
  <1>0. /\ loc[t].h \in Handles /\ loc[t].h # NoDetails
        /\ \A u \in Threads \ {t} : loc[u].h # loc[t].h /\ loc[u].from # loc[t].h
    BY OwnHandle DEF Exchange
  <1>a. /\ \A u \in Threads \ {t} : pc'[u] = pc[u] /\ loc'[u] = loc[u]
        /\ \A g \in Handles \ {loc[t].h} : details'[g] = details[g] /\ mode'[g] = mode[g]
    BY DEF TypeOK, Exchange, Unchanged, Goto
  <1>1. TypeOK'
    BY <1>0, Had DEF TypeOK, Locals, Modes, Values, Leaving, NoCall, InCall, Exchange, Unchanged, Goto
  <1>2. Locals' /\ Apart'
    <2>1. Locals'
      BY <1>0, <1>a, PointerAssumption, Had DEF Locals, Deleting, TypeOK, NoCall, InCall, Exchange, Unchanged, Goto
    <2>2. Apart'
      BY <1>0, <1>a DEF Apart, MayRead, Changing, TypeOK, NoCall, InCall, Exchange, Unchanged, Goto
    <2>3. QED
      BY <2>1, <2>2
  <1>3. CountInv'
    <2>1. ASSUME NEW c \in Blocks PROVE Owners(c)' = Owners(c)
      <3>1. /\ Owners(c) \in Nat
            /\ Owners(c)' = Owners(c)
                 + One(details'[loc[t].h], c) - One(details[loc[t].h], c)
                 + One(loc'[t].strong, c) - One(loc[t].strong, c)
                 + One(Leaving(t)', c) - One(Leaving(t), c)
        BY <1>0, <1>a, <1>1, Counted
      <3>2. One(NoDetails, c) = 0 /\ \A y : One(y, c) \in Nat
        BY PointerAssumption DEF One
      <3>3. QED
        BY <1>0, <3>1, <3>2, PointerAssumption DEF Locals, TypeOK, Leaving, NoCall, InCall, Exchange, Unchanged, Goto
    <2>2. QED
      BY <2>1, Had DEF CountInv, One, Locals, TypeOK, Leaving, Doomed, Deleting, Exchange, Unchanged, Goto
  <1>4. Doomed'
    <2>1. \A u \in Threads : /\ pc'[u] \in Deleting <=> pc[u] \in Deleting
                             /\ pc[u] \in Deleting => loc'[u].old = loc[u].old
      BY <1>0, <1>a DEF Deleting, TypeOK, Exchange, Unchanged, Goto
    <2>2. /\ live \subseteq live' /\ \A c \in live : refs'[c] = 0 <=> refs[c] = 0
          /\ \A c \in live' \ live : refs'[c] # 0
      BY <1>0, Had DEF TypeOK, Locals, Exchange, Unchanged, Goto
    <2>3. QED
      BY <2>1, <2>2, Zenon, DoomedKept
  <1>5. Private'
    <2>1. ASSUME NEW u \in Threads \ {t}, pc'[u] = "write", mode'[loc'[u].h] = "COPY_ON_WRITE"
          PROVE  refs'[details'[loc'[u].h]] = 1
      <3>1. /\ pc[u] = "write" /\ loc'[u] = loc[u] /\ loc[u].h \in Handles \ {loc[t].h}
            /\ details'[loc[u].h] = details[loc[u].h] /\ mode'[loc[u].h] = mode[loc[u].h]
        BY <1>0, <1>a, <2>1 DEF Locals
      <3>2. details[loc[u].h] # NoDetails /\ refs[details[loc[u].h]] = 1
        BY <2>1, <3>1 DEF Private, Locals
      <3>3. refs'[details[loc[u].h]] = refs[details[loc[u].h]]
        BY <1>0, <3>1, <3>2, Had DEF TypeOK, Locals, Leaving, Apart, Exchange, Unchanged, Goto
      <3>4. QED
        BY <3>1, <3>2, <3>3
    <2>2. pc'[t] = "write" /\ mode'[loc'[t].h] = "COPY_ON_WRITE" => refs'[details'[loc'[t].h]] = 1
      BY <1>0, Had DEF Private, Locals, TypeOK, NoCall, InCall, Exchange, Unchanged, Goto
    <2>3. QED
      BY <2>1, <2>2 DEF Private
  <1>9. QED
    BY <1>1, <1>2, <1>3, <1>4, <1>5

\* ptr() const returns a copy-on-write pointer beside its temporary.
LEMMA AliasCopyStep ==
    ASSUME IInv, NEW t \in Threads, Alias(t), pc'[t] = "unlock"
    PROVE  IInv'
  <1> USE DEF IInv
  <1>0. /\ loc[t].h \in Handles /\ loc[t].h # NoDetails
        /\ \A u \in Threads \ {t} : loc[u].h # loc[t].h /\ loc[u].from # loc[t].h
    BY OwnHandle DEF Alias
  <1>a. /\ \A u \in Threads \ {t} : pc'[u] = pc[u] /\ loc'[u] = loc[u]
        /\ \A g \in Handles \ {loc[t].h} : details'[g] = details[g] /\ mode'[g] = mode[g]
    BY DEF TypeOK, Alias, Goto, Return
  <1>b. /\ loc[t].strong \in live /\ loc[t].strong \in Blocks
        /\ refs[loc[t].strong] \in Nat /\ refs[loc[t].strong] >= 1
    <2>1. loc[t].strong # NoDetails
      BY DEF Locals, Alias
    <2>2. QED
      BY <2>1, Had DEF TypeOK
  <1>1. TypeOK'
    <2>1. refs' \in [Blocks -> Nat]
      <3>1. refs' = [refs EXCEPT ![loc[t].strong] = refs[loc[t].strong] + 1]
        BY <1>b DEF TypeOK, Alias, Goto, Return
      <3>2. refs[loc[t].strong] + 1 \in Nat
        BY <1>b
      <3>3. QED
        BY <3>1, <3>2 DEF TypeOK
    <2>2. loc' \in [Threads -> [h : Handles \cup {NoDetails}, from : Handles \cup {NoDetails},
                             old : Blocks \cup {NoDetails}, strong : Blocks \cup {NoDetails},
                             seen : Nat]]
      BY <1>0, <1>b DEF TypeOK, NoCall, InCall, Alias, Goto, Return
    <2>3. /\ details' \in [Handles -> Blocks \cup {NoDetails}]
          /\ mode' \in [Handles -> Modes]
          /\ live' = live /\ value' = value
      BY <1>0, <1>b DEF TypeOK, Modes, Alias, Goto, Return
    <2>4. pc' \in [Threads -> {"idle", "release", "delete", "load", "copy", "detach",
                            "destroy", "write", "lock", "exchange", "alias", "unlock"}]
      BY DEF TypeOK, Alias, Goto, Return
    <2>5. QED
      BY <2>1, <2>2, <2>3, <2>4 DEF TypeOK
  <1>2. Locals' /\ Apart'
    <2>1. Locals'
      BY <1>0, <1>a, PointerAssumption, Had DEF Locals, Deleting, TypeOK, NoCall, InCall, Alias, Goto, Return
    <2>2. Apart'
      BY <1>0, <1>a DEF Apart, MayRead, Changing, TypeOK, NoCall, InCall, Alias, Goto, Return
    <2>3. QED
      BY <2>1, <2>2
  <1>3. CountInv'
    <2>1. ASSUME NEW c \in Blocks PROVE Owners(c)' = Owners(c) + One(loc[t].strong, c)
      <3>1. /\ Owners(c) \in Nat
            /\ Owners(c)' = Owners(c)
                 + One(details'[loc[t].h], c) - One(details[loc[t].h], c)
                 + One(loc'[t].strong, c) - One(loc[t].strong, c)
                 + One(Leaving(t)', c) - One(Leaving(t), c)
        BY <1>0, <1>a, <1>1, Counted
      <3>2. One(NoDetails, c) = 0 /\ \A y : One(y, c) \in Nat
        BY PointerAssumption DEF One
      <3>3. QED
        BY <1>0, <3>1, <3>2, PointerAssumption DEF Locals, TypeOK, Leaving, NoCall, InCall, Alias, Goto, Return
    <2>2. QED
      BY <2>1, Had DEF CountInv, One, Locals, TypeOK, Leaving, Doomed, Deleting, Alias, Goto, Return
  <1>4. Doomed'
    <2>1. \A u \in Threads : /\ pc'[u] \in Deleting <=> pc[u] \in Deleting
                             /\ pc[u] \in Deleting => loc'[u].old = loc[u].old
      BY <1>0, <1>a DEF Deleting, TypeOK, Alias, Goto, Return
    <2>2. /\ live \subseteq live' /\ \A c \in live : refs'[c] = 0 <=> refs[c] = 0
          /\ \A c \in live' \ live : refs'[c] # 0
      BY <1>0, Had DEF TypeOK, Locals, Alias, Goto, Return
    <2>3. QED
      BY <2>1, <2>2, Zenon, DoomedKept
  <1>5. Private'
    <2>1. ASSUME NEW u \in Threads \ {t}, pc'[u] = "write", mode'[loc'[u].h] = "COPY_ON_WRITE"
          PROVE  refs'[details'[loc'[u].h]] = 1
      <3>1. /\ pc[u] = "write" /\ loc'[u] = loc[u] /\ loc[u].h \in Handles \ {loc[t].h}
            /\ details'[loc[u].h] = details[loc[u].h] /\ mode'[loc[u].h] = mode[loc[u].h]
        BY <1>0, <1>a, <2>1 DEF Locals
      <3>2. details[loc[u].h] # NoDetails /\ refs[details[loc[u].h]] = 1
        BY <2>1, <3>1 DEF Private, Locals
      <3>3. refs'[details[loc[u].h]] = refs[details[loc[u].h]]
        BY <1>0, <3>1, <3>2, Had DEF TypeOK, Locals, Leaving, Apart, Alias, Goto, Return
      <3>4. QED
        BY <3>1, <3>2, <3>3
    <2>2. pc'[t] = "write" /\ mode'[loc'[t].h] = "COPY_ON_WRITE" => refs'[details'[loc'[t].h]] = 1
      BY <1>0, Had DEF Private, Locals, TypeOK, NoCall, InCall, Alias, Goto, Return
    <2>3. QED
      BY <2>1, <2>2 DEF Private
  <1>9. QED
    BY <1>1, <1>2, <1>3, <1>4, <1>5

\* ptr() returns its temporary.
LEMMA AliasMoveStep ==
    ASSUME IInv, NEW t \in Threads, Alias(t), pc'[t] # "unlock"
    PROVE  IInv'
  <1> USE DEF IInv
  <1>0. /\ loc[t].h \in Handles /\ loc[t].h # NoDetails
        /\ \A u \in Threads \ {t} : loc[u].h # loc[t].h /\ loc[u].from # loc[t].h
    BY OwnHandle DEF Alias
  <1>a. /\ \A u \in Threads \ {t} : pc'[u] = pc[u] /\ loc'[u] = loc[u]
        /\ \A g \in Handles \ {loc[t].h} : details'[g] = details[g] /\ mode'[g] = mode[g]
    BY DEF TypeOK, Alias, Goto, Return
  <1>b. /\ loc[t].strong \in live /\ loc[t].strong \in Blocks
        /\ refs[loc[t].strong] \in Nat /\ refs[loc[t].strong] >= 1
    <2>1. loc[t].strong # NoDetails
      BY DEF Locals, Alias
    <2>2. QED
      BY <2>1, Had DEF TypeOK
  <1>1. TypeOK'
    BY <1>0, <1>b, SMTT(30) DEF TypeOK, Locals, Modes, Values, Leaving, NoCall, InCall, Alias, Goto, Return
  <1>2. Locals' /\ Apart'
    <2>1. Locals'
      BY <1>0, <1>a, PointerAssumption, Had DEF Locals, Deleting, TypeOK, NoCall, InCall, Alias, Goto, Return
    <2>2. Apart'
      BY <1>0, <1>a DEF Apart, MayRead, Changing, TypeOK, NoCall, InCall, Alias, Goto, Return
    <2>3. QED
      BY <2>1, <2>2
  <1>3. CountInv'
    <2>1. ASSUME NEW c \in Blocks PROVE Owners(c)' = Owners(c)
      <3>1. /\ Owners(c) \in Nat
            /\ Owners(c)' = Owners(c)
                 + One(details'[loc[t].h], c) - One(details[loc[t].h], c)
                 + One(loc'[t].strong, c) - One(loc[t].strong, c)
                 + One(Leaving(t)', c) - One(Leaving(t), c)
        BY <1>0, <1>a, <1>1, Counted
      <3>2. One(NoDetails, c) = 0 /\ \A y : One(y, c) \in Nat
        BY PointerAssumption DEF One
      <3>3. QED
        BY <1>0, <3>1, <3>2, PointerAssumption DEF Locals, TypeOK, Leaving, NoCall, InCall, Alias, Goto, Return
    <2>2. QED
      BY <2>1, Had DEF CountInv, One, Locals, TypeOK, Leaving, Doomed, Deleting, Alias, Goto, Return
  <1>4. Doomed'
    <2>1. \A u \in Threads : /\ pc'[u] \in Deleting <=> pc[u] \in Deleting
                             /\ pc[u] \in Deleting => loc'[u].old = loc[u].old
      BY <1>0, <1>a DEF Deleting, TypeOK, Alias, Goto, Return
    <2>2. /\ live \subseteq live' /\ \A c \in live : refs'[c] = 0 <=> refs[c] = 0
          /\ \A c \in live' \ live : refs'[c] # 0
      BY <1>0, Had DEF TypeOK, Locals, Alias, Goto, Return
    <2>3. QED
      BY <2>1, <2>2, Zenon, DoomedKept
  <1>5. Private'
    <2>1. ASSUME NEW u \in Threads \ {t}, pc'[u] = "write", mode'[loc'[u].h] = "COPY_ON_WRITE"
          PROVE  refs'[details'[loc'[u].h]] = 1
      <3>1. /\ pc[u] = "write" /\ loc'[u] = loc[u] /\ loc[u].h \in Handles \ {loc[t].h}
            /\ details'[loc[u].h] = details[loc[u].h] /\ mode'[loc[u].h] = mode[loc[u].h]
        BY <1>0, <1>a, <2>1 DEF Locals
      <3>2. details[loc[u].h] # NoDetails /\ refs[details[loc[u].h]] = 1
        BY <2>1, <3>1 DEF Private, Locals
      <3>3. refs'[details[loc[u].h]] = refs[details[loc[u].h]]
        BY <1>0, <3>1, <3>2, Had DEF TypeOK, Locals, Leaving, Apart, Alias, Goto, Return
      <3>4. QED
        BY <3>1, <3>2, <3>3
    <2>2. pc'[t] = "write" /\ mode'[loc'[t].h] = "COPY_ON_WRITE" => refs'[details'[loc'[t].h]] = 1
      BY <1>0, Had DEF Private, Locals, TypeOK, NoCall, InCall, Alias, Goto, Return
    <2>3. QED
      BY <2>1, <2>2 DEF Private
  <1>9. QED
    BY <1>1, <1>2, <1>3, <1>4, <1>5

\* The temporary gives its reference up.
LEMMA UnlockStep ==
    ASSUME IInv, NEW t \in Threads, Unlock(t)
    PROVE  IInv'
  <1> USE DEF IInv
  <1>0. /\ loc[t].h \in Handles /\ loc[t].h # NoDetails
        /\ \A u \in Threads \ {t} : loc[u].h # loc[t].h /\ loc[u].from # loc[t].h
    BY OwnHandle DEF Unlock
  <1>a. /\ \A u \in Threads \ {t} : pc'[u] = pc[u] /\ loc'[u] = loc[u]
        /\ \A g \in Handles \ {loc[t].h} : details'[g] = details[g] /\ mode'[g] = mode[g]
    BY DEF TypeOK, Unlock, Decrement, LastReference, Goto, Return
  <1>b. /\ loc[t].strong \in live /\ loc[t].strong \in Blocks
        /\ refs[loc[t].strong] \in Nat /\ refs[loc[t].strong] >= 1
    <2>1. loc[t].strong # NoDetails
      BY DEF Locals, Unlock
    <2>2. QED
      BY <2>1, Had DEF TypeOK
  <1>1. TypeOK'
    <2>1. refs' \in [Blocks -> Nat]
      <3>1. refs' = [refs EXCEPT ![loc[t].strong] = refs[loc[t].strong] - 1]
        BY <1>b DEF TypeOK, Unlock, Decrement, LastReference, Goto, Return
      <3>2. refs[loc[t].strong] - 1 \in Nat
        BY <1>b
      <3>3. QED
        BY <3>1, <3>2 DEF TypeOK
    <2>2. loc' \in [Threads -> [h : Handles \cup {NoDetails}, from : Handles \cup {NoDetails},
                             old : Blocks \cup {NoDetails}, strong : Blocks \cup {NoDetails},
                             seen : Nat]]
      BY <1>0, <1>b DEF TypeOK, NoCall, InCall, Unlock, Decrement, LastReference, Goto, Return
    <2>3. /\ details' \in [Handles -> Blocks \cup {NoDetails}]
          /\ mode' \in [Handles -> Modes]
          /\ live' = live /\ value' = value
      BY <1>0, <1>b DEF TypeOK, Modes, Unlock, Decrement, LastReference, Goto, Return
    <2>4. pc' \in [Threads -> {"idle", "release", "delete", "load", "copy", "detach",
                            "destroy", "write", "lock", "exchange", "alias", "unlock"}]
      BY DEF TypeOK, Unlock, Decrement, LastReference, Goto, Return
    <2>5. QED
      BY <2>1, <2>2, <2>3, <2>4 DEF TypeOK
  <1>2. Locals' /\ Apart'
    <2>1. Locals'
      BY <1>0, <1>a, PointerAssumption, Had DEF Locals, Deleting, TypeOK, NoCall, InCall, Unlock, Decrement, LastReference, Goto, Return
    <2>2. Apart'
      BY <1>0, <1>a DEF Apart, MayRead, Changing, TypeOK, NoCall, InCall, Unlock, Decrement, LastReference, Goto, Return
    <2>3. QED
      BY <2>1, <2>2
  <1>3. CountInv'
    <2>1. ASSUME NEW c \in Blocks PROVE Owners(c)' = Owners(c) - One(loc[t].strong, c)
      <3>1. /\ Owners(c) \in Nat
            /\ Owners(c)' = Owners(c)
                 + One(details'[loc[t].h], c) - One(details[loc[t].h], c)
                 + One(loc'[t].strong, c) - One(loc[t].strong, c)
                 + One(Leaving(t)', c) - One(Leaving(t), c)
        BY <1>0, <1>a, <1>1, Counted
      <3>2. One(NoDetails, c) = 0 /\ \A y : One(y, c) \in Nat
        BY PointerAssumption DEF One
      <3>3. QED
        BY <1>0, <3>1, <3>2, PointerAssumption DEF Locals, TypeOK, Leaving, NoCall, InCall, Unlock, Decrement, LastReference, Goto, Return
    <2>2. QED
      BY <2>1, Had DEF CountInv, One, Locals, TypeOK, Leaving, Doomed, Deleting, Unlock, Decrement, LastReference, Goto, Return
  <1>4. Doomed'
    <2>1. /\ pc[t] \notin Deleting /\ refs' = [refs EXCEPT ![loc[t].strong] = @ - 1] /\ live' = live
          /\ refs[loc[t].strong] = 1 => pc'[t] \in Deleting /\ loc'[t].old = loc[t].strong
          /\ refs[loc[t].strong] # 1 => pc'[t] \notin Deleting
      BY <1>0, <1>b DEF Deleting, TypeOK, NoCall, InCall, Unlock, Decrement, LastReference, Goto, Return
    <2>2. QED
      BY <1>a, <1>b, <2>1, DoomedDown
  <1>5. Private'
    <2>1. ASSUME NEW u \in Threads \ {t}, pc'[u] = "write", mode'[loc'[u].h] = "COPY_ON_WRITE"
          PROVE  refs'[details'[loc'[u].h]] = 1
      <3>1. /\ pc[u] = "write" /\ loc'[u] = loc[u] /\ loc[u].h \in Handles \ {loc[t].h}
            /\ details'[loc[u].h] = details[loc[u].h] /\ mode'[loc[u].h] = mode[loc[u].h]
        BY <1>0, <1>a, <2>1 DEF Locals
      <3>2. details[loc[u].h] # NoDetails /\ refs[details[loc[u].h]] = 1
        BY <2>1, <3>1 DEF Private, Locals
      <3>3. refs'[details[loc[u].h]] = refs[details[loc[u].h]]
        BY <1>0, <3>1, <3>2, Had DEF TypeOK, Locals, Leaving, Apart, Unlock, Decrement, LastReference, Goto, Return
      <3>4. QED
        BY <3>1, <3>2, <3>3
    <2>2. pc'[t] = "write" /\ mode'[loc'[t].h] = "COPY_ON_WRITE" => refs'[details'[loc'[t].h]] = 1
      BY <1>0, Had DEF Private, Locals, TypeOK, NoCall, InCall, Unlock, Decrement, LastReference, Goto, Return
    <2>3. QED
      BY <2>1, <2>2 DEF Private
  <1>9. QED
    BY <1>1, <1>2, <1>3, <1>4, <1>5

----------------------------------------------------------------------------
(* The invariant *)

LEMMA InitInv == Init => IInv
  <1> SUFFICES ASSUME Init PROVE IInv
    OBVIOUS
  <1>1. TypeOK
    BY DEF Init, TypeOK, Modes, Values, NoCall, InCall
  <1>2. Locals /\ Apart /\ Doomed /\ Private
    BY PointerAssumption DEF Init, Locals, Apart, Doomed, Private, Deleting, NoCall, InCall
  <1>3. CountInv
    <2>1. ASSUME NEW b \in Blocks PROVE Owners(b) = 0
      <3>1. /\ {h \in Handles : details[h] = b} = {}
            /\ {t \in Threads : loc[t].strong = b} = {}
            /\ {t \in Threads : Leaving(t) = b} = {}
        BY PointerAssumption DEF Init, Leaving, NoCall, InCall
      <3>2. Cardinality({}) = 0
        BY FS_EmptySet
      <3>3. Owners(b) = Cardinality({}) + Cardinality({}) + Cardinality({})
        BY <3>1, Zenon DEF Owners
      <3>4. QED
        BY <3>2, <3>3
    <2>2. QED
      BY <2>1 DEF Init, CountInv
  <1>4. QED
    BY <1>1, <1>2, <1>3 DEF IInv

LEMMA StepInv == IInv /\ Next => IInv'
  <1> SUFFICES ASSUME IInv, NEW t \in Threads, Step(t) \/ Call(t) PROVE IInv'
    BY DEF Next
  <1>1. CASE Step(t)
    <2>1. CASE Release(t) \/ Delete(t)
      BY <2>1, ReleaseStep, DeleteStep
    <2>2. CASE MutLoad(t) \/ (\E b \in Blocks : MutCopy(t, b))
      BY <2>2, MutLoadStep, MutCopyStep
    <2>3. CASE MutDetach(t) \/ MutDestroy(t) \/ MutWrite(t)
      BY <2>3, MutDetachStep, MutDestroyStep, MutWriteStep
    <2>4. CASE Lock(t) \/ Exchange(t)
      BY <2>4, LockStep, ExchangeTakenStep, ExchangeAgainStep
    <2>5. CASE Alias(t) \/ Unlock(t)
      BY <2>5, AliasCopyStep, AliasMoveStep, UnlockStep
    <2>6. QED
      BY <1>1, <2>1, <2>2, <2>3, <2>4, <2>5 DEF Step
  <1>2. CASE Call(t)
    <2>1. PICK h \in Handles :
              \/ Reset(t, h) \/ Mut(t, h)
              \/ \E b \in Blocks, m \in Modes : Create(t, h, b, m)
              \/ \E g \in Handles :
                    \/ Copy(t, h, g) \/ Move(t, h, g) \/ GetWritableCopy(t, h, g) \/ Ptr(t, h, g)
                    \/ \E b \in Blocks, m \in Modes : DeepCopy(t, h, g, b, m)
      BY <1>2 DEF Call
    <2>2. CASE Reset(t, h) \/ Mut(t, h) \/ \E b \in Blocks, m \in Modes : Create(t, h, b, m)
      BY <2>2, ResetStep, MutStep, CreateStep
    <2>3. ASSUME NEW g \in Handles,
                 Copy(t, h, g) \/ Move(t, h, g) \/ GetWritableCopy(t, h, g) \/ Ptr(t, h, g)
          PROVE  IInv'
      BY <2>3, CopyStep, MoveStep, GetWritableCopyStep, PtrStep
    <2>4. ASSUME NEW g \in Handles, NEW b \in Blocks, NEW m \in Modes, DeepCopy(t, h, g, b, m)
          PROVE  IInv'
      BY <2>4, DeepCopyStep
    <2>5. QED
      BY <2>1, <2>2, <2>3, <2>4
  <1>3. QED
    BY <1>1, <1>2

LEMMA Invariance == Spec => []IInv
  <1>1. IInv /\ UNCHANGED vars => IInv'
    BY DEF vars, IInv, TypeOK, Locals, Apart, CountInv, Doomed, Private, Owners, Leaving
  <1>2. QED
    BY InitInv, StepInv, <1>1, PTL DEF Spec

----------------------------------------------------------------------------
(* Theorems *)

\* Pointers, counts and what threads have in their hands keep their types.
THEOREM PointerTypeCorrect == Spec => []TypeOK
  BY Invariance, PTL DEF IInv

\* release_ref, acquire_from_copy, mut and wp::lock keep the count equal to the number of
\* owners, whatever threads do between two operations on it; the thread that takes it to
\* zero, and no other, deletes the block.
THEOREM CountsStayExact == Spec => []CountsExact
  <1>1. IInv => CountsExact
    <2> SUFFICES ASSUME IInv PROVE CountsExact
      OBVIOUS
    <2>1. live \subseteq Blocks
      BY DEF IInv, TypeOK
    <2>2. /\ \A b \in live : refs[b] = Owners(b)
          /\ \A b \in Blocks \ live : Owners(b) = 0
      BY <2>1 DEF IInv, CountInv
    <2>3. ASSUME NEW b \in live, refs[b] = 0
          PROVE  Cardinality({t \in Threads : loc[t].old = b /\ pc[t] \in {"delete", "destroy"}}) = 1
      <3>1. PICK t \in Threads : pc[t] \in Deleting /\ loc[t].old = b
        BY <2>3 DEF IInv, Doomed
      <3>2. {u \in Threads : loc[u].old = b /\ pc[u] \in {"delete", "destroy"}} = {t}
        BY <3>1 DEF IInv, Doomed, Deleting
      <3>3. QED
        BY <3>2, FS_Singleton
    <2>4. QED
      BY <2>2, <2>3 DEF CountsExact
  <1>2. QED
    BY Invariance, <1>1, PTL

\* mut on a copy-on-write handle reads the count and writes later, and the two together are
\* still safe: no handle that another thread makes in between shares the object.
THEOREM WritesStayPrivate == Spec => WritesPrivate
  <1> DEFINE A == \A t \in Threads :
                     pc[t] = "write" /\ pc'[t] = "idle" /\ mode[loc[t].h] = "COPY_ON_WRITE" =>
                         \A g \in Handles \ {loc[t].h} : details[g] # details[loc[t].h]
  <1>1. IInv => A
    <2> SUFFICES ASSUME IInv, NEW t \in Threads, pc[t] = "write", mode[loc[t].h] = "COPY_ON_WRITE",
                        NEW g \in Handles \ {loc[t].h}, details[g] = details[loc[t].h]
                 PROVE  FALSE
      OBVIOUS
    <2>1. /\ loc[t].h \in Handles /\ details[loc[t].h] # NoDetails
          /\ refs[details[loc[t].h]] = 1
      BY DEF IInv, Locals, Private
    <2>2. refs[details[loc[t].h]] >= 2
      BY <2>1, Had
    <2>3. QED
      BY <2>1, <2>2
  <1>2. QED
    BY Invariance, <1>1, PTL DEF WritesPrivate
=============================================================================
