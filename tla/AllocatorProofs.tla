---------------------------- MODULE AllocatorProofs ----------------------------
(***************************************************************************)
(* Proofs about SlabAllocator, SlabPointer and StaticAllocator, for any    *)
(* words, addresses, sizes, bounds, and any finite sets of threads and     *)
(* pointers.                                                               *)
(*                                                                         *)
(* The slab: the blocks that the masks say are taken are those that        *)
(* callers hold, and the search for a free block misses none (SlabInv).    *)
(*                                                                         *)
(* Pointers on it: a node's count is the number of the pointers and calls  *)
(* that refer to it, and one thread takes it apart (PointerInv).  What a   *)
(* pointer says while it is being overwritten is of no meaning; Live       *)
(* leaves it out.                                                          *)
(*                                                                         *)
(* The static allocator: the chain of pools (PoolChain) always has room    *)
(* for the object of the next pool (StaticInv).                            *)
(*                                                                         *)
(* StayOf and Doubled are recursive functions.  That there are functions   *)
(* with such values is shown by counting up (Recursion), from the fact     *)
(* that every set of numbers has a least one.                              *)
(***************************************************************************)
EXTENDS SlabPointer, StaticAllocator, FiniteSetTheorems, TLAPS

----------------------------------------------------------------------------
(* Numbers *)

\* Every set of numbers has a least one.
LEMMA LeastNumber ==
    ASSUME NEW T, T \subseteq Nat, T # {}
    PROVE  \E n \in T : \A m \in T : n <= m
  <1>1. PICK n \in T : \A m \in T : <<m, n>> \notin OpToRel(<, Nat)
    BY NatLessThanWellFounded, WFMin
  <1>2. \A m \in T : ~(m < n)
    BY <1>1 DEF OpToRel
  <1>3. \A m \in T : m \in Nat
    OBVIOUS
  <1>4. QED
    BY <1>2, <1>3

\* So what holds of 0, and of a number when it holds of the one before, holds of all: here
\* said of sets of numbers.
LEMMA CountingUp ==
    ASSUME NEW T, 0 \in T, \A n \in Nat : n \in T => n + 1 \in T
    PROVE  Nat \subseteq T
  <1> SUFFICES ASSUME Nat \ T # {} PROVE FALSE
    OBVIOUS
  <1>1. PICK n \in Nat \ T : \A m \in Nat \ T : n <= m
    BY LeastNumber
  <1>2. n # 0
    OBVIOUS
  <1>3. n - 1 \in Nat /\ n = (n - 1) + 1 /\ ~(n <= n - 1)
    BY <1>2
  <1>4. n - 1 \in T
    BY <1>1, <1>3
  <1>5. QED
    BY <1>3, <1>4

\* The least number of a set that has one.
LEMMA MinFacts ==
    ASSUME NEW S, S \subseteq Nat, S # {}
    PROVE  Min(S) \in S /\ \A m \in S : Min(S) <= m
  <1>1. \E n \in S : \A m \in S : n <= m
    BY LeastNumber
  <1>2. QED
    BY <1>1 DEF Min

----------------------------------------------------------------------------
(* Recursive functions over numbers *)

\* The k-th value of a function g that begins with first and goes on with step[k].
Value(first, step, g, k) == IF k = 0 THEN first ELSE step[k][g[k - 1]]

\* g is such a function, as far as n.
UpTo(first, step, g, n) == g = [k \in 0 .. n |-> Value(first, step, g, k)]

\* What such a function gives at a place.
LEMMA UpToFacts ==
    ASSUME NEW first, NEW step, NEW n \in Nat, NEW g, UpTo(first, step, g, n), NEW k \in 0 .. n
    PROVE  g[k] = Value(first, step, g, k)
  <1>1. \A h : h = [i \in 0 .. n |-> Value(first, step, g, i)] => h[k] = Value(first, step, g, k)
    OBVIOUS
  <1>2. QED
    BY <1>1 DEF UpTo

\* There is such a function for every n,
LEMMA UpToExists ==
    ASSUME NEW first, NEW step
    PROVE  \A n \in Nat : \E g : UpTo(first, step, g, n)
  <1> DEFINE T == {n \in Nat : \E g : UpTo(first, step, g, n)}
  <1>1. 0 \in T
    <2> DEFINE g == [k \in 0 .. 0 |-> first]
    <2>1. \A k \in 0 .. 0 : k = 0
      OBVIOUS
    <2>2. g = [k \in 0 .. 0 |-> Value(first, step, g, k)]
      BY <2>1 DEF Value
    <2>3. QED
      BY <2>2 DEF UpTo
  <1>2. ASSUME NEW n \in Nat, n \in T PROVE n + 1 \in T
    <2>1. PICK g : UpTo(first, step, g, n)
      BY <1>2
    <2> DEFINE h == [k \in 0 .. n + 1 |-> IF k <= n THEN g[k] ELSE Value(first, step, g, k)]
    <2>2. \A k \in 0 .. n : h[k] = g[k]
      OBVIOUS
    <2>3. \A k \in 0 .. n + 1 : k # 0 => h[k - 1] = g[k - 1]
      <3>1. \A k \in 0 .. n + 1 : k # 0 => k - 1 \in 0 .. n
        OBVIOUS
      <3>2. QED
        BY <2>2, <3>1
    <2>4. ASSUME NEW k \in 0 .. n + 1 PROVE h[k] = Value(first, step, h, k)
      <3>1. Value(first, step, h, k) = Value(first, step, g, k)
        BY <2>3 DEF Value
      <3>2. CASE k <= n
        <4>1. k \in 0 .. n
          BY <3>2
        <4>2. QED
          BY <2>1, <2>2, <3>1, <4>1, UpToFacts
      <3>3. CASE ~(k <= n)
        BY <3>1, <3>3
      <3>4. QED
        BY <3>2, <3>3
    <2>5. DOMAIN h = 0 .. n + 1 /\ h = [k \in DOMAIN h |-> h[k]]
      OBVIOUS
    <2> HIDE DEF h
    <2>6. h = [k \in 0 .. n + 1 |-> Value(first, step, h, k)]
      BY <2>4, <2>5
    <2>7. QED
      BY <2>6 DEF UpTo
  <1> HIDE DEF T
  <1>3. Nat \subseteq T
    BY <1>1, <1>2, CountingUp
  <1>4. QED
    BY <1>3 DEF T

\* and one only, whatever n is, as far as it goes.
LEMMA UpToUnique ==
    ASSUME NEW first, NEW step, NEW m \in Nat, NEW n \in Nat, NEW g, NEW h,
           UpTo(first, step, g, m), UpTo(first, step, h, n)
    PROVE  \A k \in 0 .. m : k \in 0 .. n => g[k] = h[k]
  <1> DEFINE T == {k \in Nat : k \in 0 .. m /\ k \in 0 .. n => g[k] = h[k]}
  <1>1. 0 \in T
    <2>1. 0 \in 0 .. m /\ 0 \in 0 .. n
      OBVIOUS
    <2>2. g[0] = Value(first, step, g, 0) /\ h[0] = Value(first, step, h, 0)
      BY <2>1, UpToFacts
    <2>3. QED
      BY <2>2 DEF Value
  <1>2. ASSUME NEW k \in Nat, k \in T PROVE k + 1 \in T
    <2> SUFFICES ASSUME k + 1 \in 0 .. m, k + 1 \in 0 .. n PROVE g[k + 1] = h[k + 1]
      OBVIOUS
    <2>1. k \in 0 .. m /\ k \in 0 .. n /\ (k + 1) - 1 = k /\ k + 1 # 0
      OBVIOUS
    <2>2. g[k] = h[k]
      BY <1>2, <2>1
    <2>3. /\ g[k + 1] = Value(first, step, g, k + 1)
          /\ h[k + 1] = Value(first, step, h, k + 1)
      BY UpToFacts
    <2>4. QED
      BY <2>1, <2>2, <2>3 DEF Value
  <1> HIDE DEF T
  <1>3. Nat \subseteq T
    BY <1>1, <1>2, CountingUp
  <1>4. \A k \in 0 .. m : k \in Nat
    OBVIOUS
  <1>5. QED
    BY <1>3, <1>4 DEF T

\* The steps stay in V; f takes them, from first on.
StepsIn(V, step) == step \in [Nat -> [V -> V]]
Follows(V, first, step, f) ==
    f \in [Nat -> V] /\ \A k \in Nat : f[k] = Value(first, step, f, k)

\* So there is a function that does so for all numbers, and its values are where the steps lead.
LEMMA Recursion ==
    ASSUME NEW V, NEW first, NEW step, first \in V, StepsIn(V, step)
    PROVE  \E f : Follows(V, first, step, f)
  <1> DEFINE U(k) == CHOOSE g : UpTo(first, step, g, k)
             G == [k \in Nat |-> U(k)[k]]
  <1>1. \A k \in Nat : UpTo(first, step, U(k), k)
    BY UpToExists
  <1>2. ASSUME NEW k \in Nat PROVE G[k] = Value(first, step, G, k)
    <2>1. G[k] = Value(first, step, U(k), k)
      BY <1>1, UpToFacts
    <2>2. k # 0 => U(k)[k - 1] = G[k - 1]
      <3>1. k # 0 => k - 1 \in Nat /\ k - 1 \in 0 .. k /\ k - 1 \in 0 .. k - 1
        OBVIOUS
      <3> HIDE DEF U
      <3>2. QED
        BY <1>1, <3>1, UpToUnique
    <2>3. QED
      BY <2>1, <2>2 DEF Value
  <1>3. DOMAIN G = Nat /\ G = [k \in DOMAIN G |-> G[k]]
    OBVIOUS
  <1> HIDE DEF G
  <1> DEFINE T == {k \in Nat : G[k] \in V}
  <1>4. 0 \in T
    BY <1>2 DEF Value
  <1>5. ASSUME NEW k \in Nat, k \in T PROVE k + 1 \in T
    <2>1. k + 1 \in Nat /\ k + 1 # 0 /\ (k + 1) - 1 = k
      OBVIOUS
    <2>2. G[k + 1] = step[k + 1][G[k]]
      BY <1>2, <2>1 DEF Value
    <2>3. QED
      BY <1>5, <2>1, <2>2 DEF StepsIn
  <1> HIDE DEF T
  <1>6. Nat \subseteq T
    BY <1>4, <1>5, CountingUp
  <1>7. G \in [Nat -> V]
    BY <1>3, <1>6 DEF T
  <1>8. QED
    BY <1>2, <1>7 DEF Follows

\* The same as far as n only
StepsInTo(V, n, step) == step \in [1 .. n -> [V -> V]]

\* A function that starts with first and takes these steps
FollowsTo(V, first, n, step, f) ==
    f \in [0 .. n -> V] /\ f[0] = first /\ \A k \in 1 .. n : f[k] = step[k][f[k - 1]]

\* A recursive function as far as n exists too.
LEMMA BoundedRecursion ==
    ASSUME NEW V, NEW first, first \in V, NEW n, n \in Nat, NEW step, StepsInTo(V, n, step)
    PROVE  \E f : FollowsTo(V, first, n, step, f)
  <1> DEFINE more == [k \in Nat |-> [x \in V |-> IF k \in 1 .. n THEN step[k][x] ELSE x]]
  <1>1. StepsIn(V, more)
    <2>1. \A k \in Nat : \A x \in V : (IF k \in 1 .. n THEN step[k][x] ELSE x) \in V
      BY DEF StepsInTo
    <2>2. QED
      BY <2>1 DEF StepsIn
  <1>2. \A k \in 1 .. n : \A x \in V : more[k][x] = step[k][x]
    OBVIOUS
  <1> HIDE DEF more
  <1>3. PICK f : Follows(V, first, more, f)
    BY <1>1, Recursion
  <1>4. f \in [Nat -> V] /\ \A k \in Nat : f[k] = Value(first, more, f, k)
    BY <1>3 DEF Follows
  <1> DEFINE g == [k \in 0 .. n |-> f[k]]
  <1>5. g \in [0 .. n -> V] /\ \A k \in 0 .. n : g[k] = f[k]
    BY <1>4
  <1> HIDE DEF g
  <1>6. g[0] = first
    <2>1. 0 \in 0 .. n
      OBVIOUS
    <2>2. f[0] = first
      BY <1>4 DEF Value
    <2>3. QED
      BY <1>5, <2>1, <2>2
  <1>7. ASSUME NEW k \in 1 .. n PROVE g[k] = step[k][g[k - 1]]
    <2>1. k \in Nat /\ k # 0 /\ k \in 0 .. n /\ k - 1 \in 0 .. n
      OBVIOUS
    <2>2. g[k] = more[k][g[k - 1]] /\ g[k - 1] \in V
      BY <1>4, <1>5, <2>1 DEF Value
    <2>3. QED
      BY <1>2, <2>2
  <1>8. QED
    BY <1>5, <1>6, <1>7 DEF FollowsTo

----------------------------------------------------------------------------
(* Places in a ring of c *)

\* The place d steps on from place r
Ring(c, r, d) == IF r + d < c THEN r + d ELSE r + d - c

\* How many steps it is from place r to place p
Gap(c, r, p) == IF r <= p THEN p - r ELSE p + c - r

\* A remainder is what is left over.
LEMMA Remainders ==
    ASSUME NEW c \in Nat \ {0}, NEW h \in Nat
    PROVE  /\ h % c \in 0 .. c - 1
           /\ \E q \in Nat : h = q * c + (h % c)
  <1>1. h % c \in 0 .. c - 1
    OBVIOUS
  <1>2. h \div c \in Nat /\ h = (h \div c) * c + (h % c)
    OBVIOUS
  <1>3. QED
    BY <1>1, <1>2

\* and it is the only one.
LEMMA RemainderIs ==
    ASSUME NEW c \in Nat \ {0}, NEW q \in Nat, NEW r \in 0 .. c - 1
    PROVE  (q * c + r) % c = r
  OBVIOUS

\* Steps that wrap around
LEMMA StepsOn ==
    ASSUME NEW c \in Nat \ {0}, NEW h \in Nat, NEW d \in 0 .. c - 1
    PROVE  (h + d) % c = Ring(c, h % c, d)
  <1>1. h % c \in 0 .. c - 1
    BY Remainders
  <1>2. PICK q \in Nat : h = q * c + (h % c)
    BY Remainders
  <1> DEFINE r == h % c
  <1>3. q * c \in Nat /\ (q + 1) * c = q * c + c /\ q + 1 \in Nat
    OBVIOUS
  <1>4. CASE r + d < c
    <2>1. r + d \in 0 .. c - 1 /\ h + d = q * c + (r + d)
      BY <1>1, <1>2, <1>3, <1>4
    <2>2. (q * c + (r + d)) % c = r + d
      BY <2>1, RemainderIs
    <2>3. QED
      BY <1>4, <2>1, <2>2 DEF Ring
  <1>5. CASE ~(r + d < c)
    <2>1. r + d - c \in 0 .. c - 1 /\ h + d = (q + 1) * c + (r + d - c)
      BY <1>1, <1>2, <1>3, <1>5
    <2>2. ((q + 1) * c + (r + d - c)) % c = r + d - c
      BY <1>3, <2>1, RemainderIs
    <2>3. QED
      BY <1>5, <2>1, <2>2 DEF Ring
  <1>6. QED
    BY <1>4, <1>5

\* Ring and Gap are inverse to each other.
LEMMA RingGap ==
    ASSUME NEW c \in Nat \ {0}, NEW r \in 0 .. c - 1
    PROVE  /\ \A p \in 0 .. c - 1 : Gap(c, r, p) \in 0 .. c - 1 /\ Ring(c, r, Gap(c, r, p)) = p
           /\ \A d \in 0 .. c - 1 : Ring(c, r, d) \in 0 .. c - 1 /\ Gap(c, r, Ring(c, r, d)) = d
  BY DEF Ring, Gap

----------------------------------------------------------------------------
(* Chunks that stay *)

\* What StayOf says of its value at k
Stay(g, k) ==
    IF k = 0 THEN <<>>
    ELSE IF AllFree(chunks[k]) THEN g[k - 1]
    ELSE Append(g[k - 1], chunks[k])

\* It is a recursion over sequences of the chunks.
LEMMA StayOfEquation == \A k \in Nat : StayOf[k] = Stay(StayOf, k)
  <1> DEFINE C == {chunks[k] : k \in Nat}
             V == Seq(C)
             step == [k \in Nat |-> [s \in V |-> IF AllFree(chunks[k]) THEN s
                                                 ELSE Append(s, chunks[k])]]
             Def(f) == f = [k \in Nat |-> Stay(f, k)]
  <1>1. \A k \in Nat : \A s \in V : Append(s, chunks[k]) \in V
    <2>1. \A k \in Nat : chunks[k] \in C
      OBVIOUS
    <2> HIDE DEF C
    <2>2. QED
      BY <2>1
  <1>2. <<>> \in V
    OBVIOUS
  <1> HIDE DEF V
  <1>3. StepsIn(V, step)
    BY <1>1 DEF StepsIn
  <1>4. \A k \in Nat : \A s \in V : step[k][s] = IF AllFree(chunks[k]) THEN s
                                                ELSE Append(s, chunks[k])
    OBVIOUS
  <1> HIDE DEF step
  <1>5. PICK f : Follows(V, <<>>, step, f)
    BY <1>2, <1>3, Recursion
  <1>6. ASSUME NEW k \in Nat PROVE f[k] = Stay(f, k)
    <2>1. k # 0 => k - 1 \in Nat
      OBVIOUS
    <2>2. k # 0 => f[k - 1] \in V
      BY <1>5, <2>1 DEF Follows
    <2>3. f[k] = Value(<<>>, step, f, k)
      BY <1>5 DEF Follows
    <2>4. QED
      BY <1>4, <2>2, <2>3 DEF Value, Stay
  <1>7. DOMAIN f = Nat /\ f = [k \in DOMAIN f |-> f[k]]
    BY <1>5 DEF Follows
  <1>8. Def(f)
    BY <1>6, <1>7
  <1>9. StayOf = CHOOSE h : Def(h)
    BY DEF StayOf, Stay
  <1>10. Def(StayOf)
    BY <1>8, <1>9
  <1>11. \A h : h = [i \in Nat |-> Stay(StayOf, i)] => \A k \in Nat : h[k] = Stay(StayOf, k)
    OBVIOUS
  <1>12. QED
    BY <1>10, <1>11

----------------------------------------------------------------------------
(* One chunk *)

\* What the list is made of
Chunks == [at : Addresses, width : Nat, numBlocks : Nat \ {0}, last : Nat, free : SUBSET Nat]

\* Words of the mask: w is block b's exactly when b is one of its blocks.
LEMMA WordOf ==
    ASSUME NEW b \in Nat, NEW w \in Nat
    PROVE  /\ b \div WordBlocks \in Nat
           /\ b \div WordBlocks = w <=> w * WordBlocks <= b /\ b < (w + 1) * WordBlocks
  BY SlabAssumption

\* The words of a chunk with n blocks.
LEMMA WordsOfChunk ==
    ASSUME NEW n \in Nat \ {0}
    PROVE  /\ (n - 1) \div WordBlocks \in Nat
           /\ \A b \in 0 .. n - 1 : b \div WordBlocks \in 0 .. (n - 1) \div WordBlocks
           /\ \A w \in Nat : (w + 1) * WordBlocks < n => w + 1 \in 0 .. (n - 1) \div WordBlocks
           /\ n \div WordBlocks \in Nat
           /\ n \div WordBlocks <= (n - 1) \div WordBlocks + 1
           /\ n % WordBlocks = 0 => n \div WordBlocks = (n - 1) \div WordBlocks + 1
           /\ n >= WordBlocks => n \div WordBlocks >= 1
  BY SlabAssumption

\* What is known of each chunk: its free blocks are blocks of it, and a chunk of whole words
\* with a free block has one where the search looks.
ChunkSound(c) ==
    /\ c \in Chunks
    /\ c.last \in 0 .. (c.numBlocks - 1) \div WordBlocks
    /\ c.free \subseteq 0 .. c.numBlocks - 1
    /\ c.numBlocks % WordBlocks = 0 /\ c.free # {} => HasRoom(c)

\* Same chunk with another mask and another place to start from.
LEMMA ChangedChunk ==
    ASSUME NEW c \in Chunks, NEW f \in SUBSET Nat, NEW l \in Nat
    PROVE  LET d == [c EXCEPT !.free = f, !.last = l] IN
           /\ d \in Chunks /\ d.free = f /\ d.last = l
           /\ d.at = c.at /\ d.width = c.width /\ d.numBlocks = c.numBlocks
  BY DEF Chunks

\* alloc takes a free block of the chunk, and nothing else.
LEMMA TakeFacts ==
    ASSUME NEW c, ChunkSound(c), HasRoom(c)
    PROVE  LET b == NextFreeBlock(c)  d == TakeBlock(c) IN
           /\ b \in c.free
           /\ ChunkSound(d) /\ d.free = c.free \ {b}
           /\ d.at = c.at /\ d.width = c.width /\ d.numBlocks = c.numBlocks
  <1> DEFINE n == c.numBlocks
             words == {i \in c.last .. AllWords(c) - 1 : Word(c, i) # {}}
             w == Min(words)
             bits == {b \in c.free : b \div WordBlocks = w}
             b == NextFreeBlock(c)
             e == [c EXCEPT !.free = @ \ {b}]
             l == LastAfter(e, b)
             d == TakeBlock(c)
  <1>1. /\ c \in Chunks /\ n \in Nat \ {0} /\ c.last \in Nat /\ c.free \in SUBSET Nat
        /\ c.free \subseteq 0 .. n - 1
    BY DEF ChunkSound, Chunks
  <1>2. words \subseteq Nat
    BY <1>1, SlabAssumption, WordsOfChunk DEF AllWords
  <1>3. words # {}
    <2>1. PICK i \in c.last .. WholeWords(c) - 1 : Word(c, i) # {}
      BY DEF HasRoom
    <2>2. /\ n \div WordBlocks \in Nat /\ (n - 1) \div WordBlocks \in Nat
          /\ n \div WordBlocks <= (n - 1) \div WordBlocks + 1
      BY <1>1, WordsOfChunk
    <2>3. i \in c.last .. n \div WordBlocks - 1
      BY <2>1 DEF WholeWords
    <2>4. \A p, q \in Nat : p <= q + 1 /\ i \in c.last .. p - 1 => i \in c.last .. (q + 1) - 1
      BY <1>1
    <2>5. i \in c.last .. AllWords(c) - 1
      BY <2>2, <2>3, <2>4 DEF AllWords
    <2>6. QED
      BY <2>1, <2>5
  <1>4. w \in words /\ w \in Nat
    BY <1>2, <1>3, MinFacts
  <1>5. bits \subseteq Nat /\ bits # {}
    BY <1>1, <1>4 DEF Word
  <1>6. b = Min(bits)
    BY DEF NextFreeBlock
  <1>7. b \in bits
    BY <1>5, <1>6, MinFacts
  <1>8. b \in c.free /\ b \in Nat /\ b \div WordBlocks = w
    BY <1>1, <1>7
  <1> HIDE DEF b, bits, w, words
  <1>9. /\ e \in Chunks /\ e.free = c.free \ {b} /\ e.last = c.last
        /\ e.at = c.at /\ e.width = c.width /\ e.numBlocks = n
    BY <1>1 DEF Chunks
  <1> HIDE DEF e
  <1>10. l \in 0 .. (n - 1) \div WordBlocks
    <2>1. 0 \in 0 .. (n - 1) \div WordBlocks
      BY <1>1, WordsOfChunk
    <2>2. w \in 0 .. (n - 1) \div WordBlocks
      BY <1>1, <1>8, WordsOfChunk
    <2>3. l \in {w, 0} \/ (l = w + 1 /\ (w + 1) * WordBlocks < n)
      BY <1>8, <1>9 DEF LastAfter
    <2>4. QED
      BY <1>1, <1>4, <2>1, <2>2, <2>3, WordsOfChunk
  <1>11. l \in Nat
    BY <1>1, <1>10, WordsOfChunk
  <1>12. d = [e EXCEPT !.last = l]
    BY DEF TakeBlock, e, b
  <1>13. /\ d \in Chunks /\ d.free = c.free \ {b} /\ d.last = l
         /\ d.at = c.at /\ d.width = c.width /\ d.numBlocks = n
    BY <1>9, <1>11, <1>12 DEF Chunks
  <1>14. d.free \subseteq 0 .. n - 1
    BY <1>1, <1>13
  <1>15. ASSUME n % WordBlocks = 0, d.free # {} PROVE HasRoom(d)
    <2>1. PICK f : f \in d.free
      BY <1>15
    <2>2. /\ f \in 0 .. n - 1 /\ f \in Nat
          /\ n \div WordBlocks = (n - 1) \div WordBlocks + 1
          /\ (n - 1) \div WordBlocks \in Nat
      BY <1>1, <1>14, <1>15, <2>1, WordsOfChunk
    <2>3. \A i \in Nat : Word(d, i) = Word(e, i)
      BY <1>9, <1>13 DEF Word
    <2>4. CASE l = 0
      <3>1. f \div WordBlocks \in 0 .. n \div WordBlocks - 1
        BY <1>1, <2>2, WordsOfChunk
      <3>2. f \in Word(d, f \div WordBlocks)
        BY <2>1 DEF Word
      <3>3. QED
        BY <1>13, <2>4, <3>1, <3>2 DEF HasRoom, WholeWords
    <2>5. CASE l # 0
      <3>1. Word(e, l) # {}
        BY <1>4, <1>8, <2>5 DEF LastAfter
      <3>2. l \in l .. n \div WordBlocks - 1
        BY <1>1, <1>10, <1>11, <2>2
      <3>3. QED
        BY <1>11, <1>13, <2>3, <3>1, <3>2 DEF HasRoom, WholeWords
    <2>6. QED
      BY <2>4, <2>5
  <1> HIDE DEF d, l
  <1>16. ChunkSound(d)
    BY <1>10, <1>13, <1>14, <1>15 DEF ChunkSound
  <1>17. QED
    BY <1>8, <1>13, <1>16 DEF b, d

\* free puts a block of the chunk back, and the search finds it.
LEMMA FreedFacts ==
    ASSUME NEW c, ChunkSound(c), NEW b \in 0 .. c.numBlocks - 1
    PROVE  LET d == Freed(c, b) IN
           /\ ChunkSound(d) /\ d.free = c.free \cup {b}
           /\ d.at = c.at /\ d.width = c.width /\ d.numBlocks = c.numBlocks
  <1> DEFINE n == c.numBlocks
             w == b \div WordBlocks
             d == Freed(c, b)
  <1>1. /\ c \in Chunks /\ n \in Nat \ {0} /\ c.free \in SUBSET Nat
        /\ c.free \subseteq 0 .. n - 1
    BY DEF ChunkSound, Chunks
  <1>2. b \in Nat /\ w \in 0 .. (n - 1) \div WordBlocks /\ w \in Nat
    BY <1>1, WordsOfChunk
  <1>3. /\ d \in Chunks /\ d.free = c.free \cup {b} /\ d.last = w
        /\ d.at = c.at /\ d.width = c.width /\ d.numBlocks = n
    BY <1>1, <1>2 DEF Chunks, Freed
  <1>4. ASSUME n % WordBlocks = 0 PROVE HasRoom(d)
    <2>1. n \div WordBlocks = (n - 1) \div WordBlocks + 1 /\ (n - 1) \div WordBlocks \in Nat
      BY <1>1, <1>4, WordsOfChunk
    <2>2. w \in w .. n \div WordBlocks - 1
      BY <1>2, <2>1
    <2>3. b \in Word(d, w)
      BY <1>3 DEF Word
    <2>4. QED
      BY <1>3, <2>2, <2>3 DEF HasRoom, WholeWords
  <1> HIDE DEF d, w
  <1>5. ChunkSound(d)
    BY <1>1, <1>2, <1>3, <1>4 DEF ChunkSound
  <1>6. QED
    BY <1>3, <1>5 DEF d

\* A new chunk is all free, and has room when it has a whole word.
LEMMA NewFacts ==
    ASSUME NEW a \in Addresses, NEW width \in Nat, NEW n \in Nat \ {0}
    PROVE  LET c == NewChunk(a, width, n) IN
           /\ ChunkSound(c) /\ c.at = a /\ c.numBlocks = n /\ c.free = 0 .. n - 1
           /\ n >= WordBlocks => HasRoom(c)
  <1> DEFINE c == NewChunk(a, width, n)
  <1>1. /\ c.at = a /\ c.numBlocks = n /\ c.free = 0 .. n - 1 /\ c.last = 0 /\ c.width = width
        /\ c = [at |-> a, width |-> width, numBlocks |-> n, last |-> 0, free |-> 0 .. n - 1]
    BY DEF NewChunk
  <1>2. c \in Chunks
    BY <1>1 DEF Chunks
  <1>3. ASSUME n >= WordBlocks PROVE HasRoom(c)
    <2>1. 0 \in 0 .. n \div WordBlocks - 1
      BY <1>3, WordsOfChunk
    <2>2. 0 \div WordBlocks = 0 /\ 0 \in 0 .. n - 1
      BY SlabAssumption
    <2>3. 0 \in Word(c, 0)
      BY <1>1, <2>2 DEF Word
    <2>4. QED
      BY <1>1, <2>1, <2>3 DEF HasRoom, WholeWords
  <1>4. n % WordBlocks = 0 => n >= WordBlocks
    BY SlabAssumption
  <1>5. 0 \in 0 .. (n - 1) \div WordBlocks
    BY WordsOfChunk
  <1> HIDE DEF c
  <1>6. ChunkSound(c)
    BY <1>1, <1>2, <1>3, <1>4, <1>5 DEF ChunkSound
  <1>7. QED
    BY <1>1, <1>3, <1>6 DEF c

----------------------------------------------------------------------------
(* The list of chunks, and what callers hold *)

\* Chunk c has given out its block b.
GivenOut(c, a, b) == c.at = a /\ b \in 0 .. c.numBlocks - 1 /\ b \notin c.free

\* Every chunk is sound, no two have the same memory, and what callers hold is what the
\* chunks have given out.
SlabInv ==
    /\ chunks \in Seq(Chunks)
    /\ held \subseteq Addresses \X Nat
    /\ \A k \in DOMAIN chunks : ChunkSound(chunks[k])
    /\ \A k, l \in DOMAIN chunks : chunks[k].at = chunks[l].at => k = l
    /\ \A a, b : <<a, b>> \in held <=> \E k \in DOMAIN chunks : GivenOut(chunks[k], a, b)

\* One chunk changes, and one block with it.
LEMMA ChunkChanges ==
    ASSUME SlabInv, NEW k \in DOMAIN chunks, NEW d, ChunkSound(d),
           d.at = chunks[k].at, d.numBlocks = chunks[k].numBlocks,
           chunks' = [chunks EXCEPT ![k] = d],
           NEW b \in 0 .. d.numBlocks - 1,
           \/ d.free = chunks[k].free \ {b} /\ held' = held \cup {<<d.at, b>>}
           \/ d.free = chunks[k].free \cup {b} /\ held' = held \ {<<d.at, b>>}
    PROVE  SlabInv'
  <1>1. /\ DOMAIN chunks' = DOMAIN chunks /\ chunks'[k] = d
        /\ \A l \in DOMAIN chunks : l # k => chunks'[l] = chunks[l]
    BY DEF SlabInv
  <1>2. d \in Chunks
    BY DEF ChunkSound
  <1>3. chunks' \in Seq(Chunks)
    BY <1>2 DEF SlabInv
  <1>4. d.at \in Addresses /\ b \in Nat
    BY <1>2 DEF Chunks
  <1>5. held' \subseteq Addresses \X Nat
    BY <1>4 DEF SlabInv
  <1>6. \A l \in DOMAIN chunks : ChunkSound(chunks'[l])
    BY <1>1 DEF SlabInv
  <1>7. \A l \in DOMAIN chunks : chunks'[l].at = chunks[l].at
    BY <1>1
  <1>8. \A l, m \in DOMAIN chunks : chunks'[l].at = chunks'[m].at => l = m
    BY <1>7 DEF SlabInv
  <1>9. ASSUME NEW a, NEW c
        PROVE  <<a, c>> \in held' <=> \E l \in DOMAIN chunks : GivenOut(chunks'[l], a, c)
    <2>1. <<a, c>> \in held <=> \E l \in DOMAIN chunks : GivenOut(chunks[l], a, c)
      BY DEF SlabInv
    <2>2. \A l \in DOMAIN chunks :
             l # k => (GivenOut(chunks'[l], a, c) <=> GivenOut(chunks[l], a, c))
      BY <1>1
    <2>3. CASE a = d.at
      <3>1. \A l \in DOMAIN chunks : l # k => ~GivenOut(chunks[l], a, c)
        BY <2>3 DEF SlabInv, GivenOut
      <3>2. GivenOut(d, a, c) <=> c \in 0 .. d.numBlocks - 1 /\ c \notin d.free
        BY <2>3 DEF GivenOut
      <3>3. GivenOut(chunks[k], a, c) <=> c \in 0 .. d.numBlocks - 1 /\ c \notin chunks[k].free
        BY <2>3 DEF GivenOut
      <3>4. (\E l \in DOMAIN chunks : GivenOut(chunks'[l], a, c)) <=> GivenOut(d, a, c)
        BY <1>1, <2>2, <3>1
      <3>5. <<a, c>> \in held <=> GivenOut(chunks[k], a, c)
        BY <2>1, <3>1
      <3>6. <<a, c>> = <<d.at, b>> <=> c = b
        BY <2>3
      <3>7. QED
        BY <3>2, <3>3, <3>4, <3>5, <3>6
    <2>4. CASE a # d.at
      <3>1. ~GivenOut(chunks[k], a, c) /\ ~GivenOut(chunks'[k], a, c)
        BY <1>1, <2>4 DEF GivenOut
      <3>2. <<a, c>> # <<d.at, b>>
        BY <2>4
      <3>3. <<a, c>> \in held' <=> <<a, c>> \in held
        BY <3>2
      <3>4. QED
        BY <2>1, <2>2, <3>1, <3>3
    <2>5. QED
      BY <2>3, <2>4
  <1>10. QED
    BY <1>1, <1>3, <1>5, <1>6, <1>8, <1>9 DEF SlabInv

\* A chunk is put at the beginning of the list, with its first block taken or without.
LEMMA ChunkAdded ==
    ASSUME SlabInv, NEW d, ChunkSound(d), d.at \in FreeAddresses,
           chunks' = <<d>> \o chunks,
           \/ d.free = 0 .. d.numBlocks - 1 /\ held' = held
           \/ \E b \in 0 .. d.numBlocks - 1 :
                 d.free = (0 .. d.numBlocks - 1) \ {b} /\ held' = held \cup {<<d.at, b>>}
    PROVE  SlabInv'
  <1>1. d \in Chunks
    BY DEF ChunkSound
  <1>2. /\ chunks' \in Seq(Chunks) /\ Len(chunks) \in Nat
        /\ DOMAIN chunks = 1 .. Len(chunks) /\ DOMAIN chunks' = 1 .. Len(chunks) + 1
        /\ chunks'[1] = d
        /\ \A k \in DOMAIN chunks : k + 1 \in DOMAIN chunks' /\ chunks'[k + 1] = chunks[k]
    <2>1. chunks \in Seq(Chunks) /\ <<d>> \in Seq(Chunks) /\ Len(<<d>>) = 1 /\ <<d>>[1] = d
      BY <1>1 DEF SlabInv
    <2>2. \A s \in Seq(Chunks), t \in Seq(Chunks) :
             /\ s \o t \in Seq(Chunks) /\ Len(s) \in Nat /\ Len(t) \in Nat
             /\ DOMAIN t = 1 .. Len(t)
             /\ DOMAIN (s \o t) = 1 .. Len(s) + Len(t)
             /\ \A i \in 1 .. Len(s) + Len(t) :
                   (s \o t)[i] = IF i <= Len(s) THEN s[i] ELSE t[i - Len(s)]
      OBVIOUS
    <2>3. \A i \in 1 .. 1 + Len(chunks) : chunks'[i] = IF i <= 1 THEN d ELSE chunks[i - 1]
      BY <2>1, <2>2
    <2>4. Len(chunks) \in Nat /\ DOMAIN chunks = 1 .. Len(chunks) /\ chunks' \in Seq(Chunks)
          /\ DOMAIN chunks' = 1 .. 1 + Len(chunks)
      BY <2>1, <2>2
    <2>5. QED
      BY <2>3, <2>4
  <1>3. \A k \in DOMAIN chunks' : k = 1 \/ \E l \in DOMAIN chunks : k = l + 1
    <2>1. \A k \in 1 .. Len(chunks) + 1 : k = 1 \/ (k - 1 \in 1 .. Len(chunks) /\ k = (k - 1) + 1)
      BY <1>2
    <2>2. QED
      BY <1>2, <2>1
  <1>4. \A k \in DOMAIN chunks : chunks[k].at # d.at
    BY DEF FreeAddresses
  <1>5. 1 \in DOMAIN chunks'
    BY <1>2
  <1>6. \A k \in DOMAIN chunks' : ChunkSound(chunks'[k])
    BY <1>2, <1>3 DEF SlabInv
  <1>7. ASSUME NEW k \in DOMAIN chunks', NEW l \in DOMAIN chunks', chunks'[k].at = chunks'[l].at
        PROVE  k = l
    <2>1. CASE k = 1 \/ l = 1
      BY <1>2, <1>3, <1>4, <1>7, <2>1
    <2>2. CASE ~(k = 1 \/ l = 1)
      <3>1. PICK i \in DOMAIN chunks, j \in DOMAIN chunks : k = i + 1 /\ l = j + 1
        BY <1>3, <2>2
      <3>2. chunks[i].at = chunks[j].at
        BY <1>2, <1>7, <3>1
      <3>3. QED
        BY <3>1, <3>2 DEF SlabInv
    <2>3. QED
      BY <2>1, <2>2
  <1>8. held' \subseteq Addresses \X Nat
    BY DEF SlabInv, FreeAddresses
  <1>9. ASSUME NEW a, NEW c
        PROVE  <<a, c>> \in held' <=> \E l \in DOMAIN chunks' : GivenOut(chunks'[l], a, c)
    <2>1. <<a, c>> \in held <=> \E l \in DOMAIN chunks : GivenOut(chunks[l], a, c)
      BY DEF SlabInv
    <2>2. (\E l \in DOMAIN chunks' : GivenOut(chunks'[l], a, c)) <=>
             GivenOut(d, a, c) \/ \E l \in DOMAIN chunks : GivenOut(chunks[l], a, c)
      BY <1>2, <1>3, <1>5
    <2>3. <<a, c>> \in held' <=> <<a, c>> \in held \/ GivenOut(d, a, c)
      <3>1. CASE d.free = 0 .. d.numBlocks - 1 /\ held' = held
        BY <3>1 DEF GivenOut
      <3>2. CASE \E b \in 0 .. d.numBlocks - 1 :
                    d.free = (0 .. d.numBlocks - 1) \ {b} /\ held' = held \cup {<<d.at, b>>}
        BY <3>2 DEF GivenOut
      <3>3. QED
        BY <3>1, <3>2
    <2>4. QED
      BY <2>1, <2>2, <2>3
  <1>10. QED
    BY <1>2, <1>6, <1>7, <1>8, <1>9 DEF SlabInv

\* A new chunk has a whole word at least.
LEMMA GrowthFacts ==
    ASSUME SlabInv, NEW size \in Nat
    PROVE  /\ RoundedSize(size) \in Nat
           /\ Growth(size) \in Nat \ {0} /\ Growth(size) >= WordBlocks
  <1> DEFINE K == OfWidth(RoundedSize(size))
             S(k) == {k} \X (0 .. chunks[k].numBlocks - 1)
             blocks == UNION {S(k) : k \in K}
  <1>1. \A k \in DOMAIN chunks : chunks[k].numBlocks \in Nat
    BY DEF SlabInv, ChunkSound, Chunks
  <1>2. IsFiniteSet(K)
    <2>1. IsFiniteSet(1 .. Len(chunks)) /\ DOMAIN chunks = 1 .. Len(chunks)
      BY FS_Interval DEF SlabInv
    <2>2. K \subseteq DOMAIN chunks
      BY DEF OfWidth
    <2>3. QED
      BY <2>1, <2>2, FS_Subset
  <1>3. \A k \in K : IsFiniteSet(S(k))
    <2>1. ASSUME NEW k \in K PROVE IsFiniteSet(0 .. chunks[k].numBlocks - 1)
      <3>1. 0 \in Int /\ chunks[k].numBlocks - 1 \in Int
        BY <1>1 DEF OfWidth
      <3>2. QED
        BY <3>1, FS_Interval
    <2>2. \A k \in K : IsFiniteSet({k})
      BY FS_Singleton
    <2>3. QED
      BY <2>1, <2>2, FS_Product
  <1>4. IsFiniteSet({S(k) : k \in K})
    <2> DEFINE f == [k \in K |-> S(k)]
               T == {S(k) : k \in K}
    <2> HIDE DEF S, K
    <2>1. f \in Surjection(K, T)
      BY DEF Surjection
    <2>2. QED
      BY <1>2, <2>1, FS_Surjection
  <1>5. IsFiniteSet(blocks)
    <2>1. \A T \in {S(k) : k \in K} : IsFiniteSet(T)
      BY <1>3
    <2> HIDE DEF S, K
    <2>2. QED
      BY <1>4, <2>1, FS_UNION
  <1>6. Cardinality(blocks) \in Nat
    BY <1>5, FS_CardinalityType
  <1>7. Growth(size) = LET n == 3 * Cardinality(blocks) IN
                       IF n < WordBlocks THEN (IF size <= 32 THEN 4 * WordBlocks ELSE WordBlocks)
                       ELSE n
    BY DEF Growth
  <1> HIDE DEF blocks
  <1>8. QED
    BY <1>6, <1>7, SlabAssumption DEF RoundedSize

\* alloc gives out a block that nobody has.
LEMMA AllocFacts ==
    ASSUME SlabInv, NEW size \in Nat, NEW a \in Addresses, AllocSteps(size, a)
    PROVE  SlabInv' /\ \E p \in Addresses \X Nat : p \notin held /\ held' = held \cup {p}
  <1> DEFINE fit == {k \in OfWidth(RoundedSize(size)) : HasRoom(chunks[k])}
             new == NewChunk(a, RoundedSize(size), Growth(size))
  <1>1. CASE fit # {}
    <2> DEFINE k == Min(fit)
               c == chunks[k]
               d == TakeBlock(c)
               b == NextFreeBlock(c)
    <2>1. a = c.at /\ chunks' = [chunks EXCEPT ![k] = d] /\ held' = held \cup {<<a, b>>}
      BY <1>1 DEF AllocSteps
    <2>2. fit \subseteq Nat
      BY DEF OfWidth, SlabInv
    <2>3. k \in fit
      BY <1>1, <2>2, MinFacts
    <2>4. k \in DOMAIN chunks /\ HasRoom(c) /\ ChunkSound(c)
      BY <2>3 DEF OfWidth, SlabInv
    <2> HIDE DEF k, fit
    <2>5. /\ b \in c.free /\ ChunkSound(d) /\ d.free = c.free \ {b}
          /\ d.at = c.at /\ d.numBlocks = c.numBlocks
      BY <2>4, TakeFacts
    <2>6. b \in 0 .. c.numBlocks - 1 /\ b \in Nat
      BY <2>4, <2>5 DEF ChunkSound, Chunks
    <2> HIDE DEF b, d
    <2>7. SlabInv'
      BY <2>1, <2>4, <2>5, <2>6, ChunkChanges
    <2>8. <<a, b>> \notin held
      <3>1. ASSUME NEW l \in DOMAIN chunks, GivenOut(chunks[l], a, b) PROVE FALSE
        <4>1. l = k
          BY <2>1, <2>4, <3>1 DEF GivenOut, SlabInv
        <4>2. QED
          BY <2>5, <3>1, <4>1 DEF GivenOut
      <3>2. QED
        BY <3>1 DEF SlabInv
    <2>9. QED
      BY <2>1, <2>6, <2>7, <2>8
  <1>2. CASE fit = {}
    <2> DEFINE b == NextFreeBlock(new)
               d == TakeBlock(new)
    <2>1. a \in FreeAddresses /\ chunks' = <<d>> \o chunks /\ held' = held \cup {<<a, b>>}
      BY <1>2 DEF AllocSteps
    <2>2. /\ RoundedSize(size) \in Nat
          /\ Growth(size) \in Nat \ {0} /\ Growth(size) >= WordBlocks
      BY GrowthFacts
    <2>3. /\ ChunkSound(new) /\ new.at = a /\ new.numBlocks = Growth(size)
          /\ new.free = 0 .. Growth(size) - 1 /\ HasRoom(new)
      BY <2>2, NewFacts
    <2> HIDE DEF new
    <2>4. /\ b \in new.free /\ ChunkSound(d) /\ d.free = new.free \ {b}
          /\ d.at = a /\ d.numBlocks = Growth(size)
      BY <2>3, TakeFacts
    <2>5. b \in 0 .. d.numBlocks - 1 /\ b \in Nat
      BY <2>2, <2>3, <2>4
    <2> HIDE DEF b, d
    <2>6. SlabInv'
      BY <2>1, <2>3, <2>4, <2>5, ChunkAdded
    <2>7. <<a, b>> \notin held
      BY <2>1 DEF SlabInv, GivenOut, FreeAddresses
    <2>8. QED
      BY <2>1, <2>5, <2>6, <2>7
  <1> HIDE DEF fit
  <1>3. QED
    BY <1>1, <1>2

\* free finds the chunk of what it is given.
LEMMA FreeFacts ==
    ASSUME SlabInv, NEW p \in held, FreeSteps(p)
    PROVE  SlabInv' /\ held' = held \ {p}
  <1> DEFINE k == ChunkOf(p)
             c == chunks[k]
             d == Freed(c, p[2])
  <1>1. p = <<p[1], p[2]>>
    BY DEF SlabInv
  <1>2. \E l \in DOMAIN chunks : GivenOut(chunks[l], p[1], p[2])
    BY <1>1 DEF SlabInv
  <1>3. k \in DOMAIN chunks /\ c.at = p[1]
    BY <1>2 DEF ChunkOf, GivenOut
  <1>4. GivenOut(c, p[1], p[2])
    BY <1>2, <1>3 DEF GivenOut, SlabInv
  <1>5. chunks' = [chunks EXCEPT ![k] = d] /\ held' = held \ {p}
    BY DEF FreeSteps
  <1> HIDE DEF k
  <1>6. ChunkSound(c) /\ p[2] \in 0 .. c.numBlocks - 1
    BY <1>3, <1>4 DEF GivenOut, SlabInv
  <1>7. ChunkSound(d) /\ d.free = c.free \cup {p[2]} /\ d.at = c.at /\ d.numBlocks = c.numBlocks
    BY <1>6, FreedFacts
  <1>8. SlabInv'
    <2>1. PICK b : b = p[2]
      OBVIOUS
    <2>2. p = <<d.at, b>>
      BY <1>1, <1>3, <1>7, <2>1
    <2> HIDE DEF d, c
    <2>3. /\ ChunkSound(d) /\ d.at = chunks[k].at /\ d.numBlocks = chunks[k].numBlocks
          /\ d.free = chunks[k].free \cup {b} /\ b \in 0 .. d.numBlocks - 1
      BY <1>6, <1>7, <2>1 DEF c
    <2>4. chunks' = [chunks EXCEPT ![k] = d] /\ held' = held \ {<<d.at, b>>}
      BY <1>5, <2>2
    <2>5. QED
      BY <1>3, <2>3, <2>4, ChunkChanges
  <1>9. QED
    BY <1>5, <1>8

\* prepare makes a chunk of half words, one at least.
LEMMA PrepareKeeps ==
    ASSUME SlabInv, NEW count \in Nat, NEW size \in Nat, NEW a \in Addresses,
           PrepareSteps(count, size, a)
    PROVE  SlabInv'
  <1> DEFINE half == WordBlocks \div 2
             n == ((count + half - 1) \div half) * half
             d == NewChunk(a, size, n)
  <1>1. /\ count > half /\ a \in FreeAddresses
        /\ chunks' = <<d>> \o chunks /\ held' = held
    BY DEF PrepareSteps
  <1>2. half \in Nat \ {0}
    BY SlabAssumption
  <1> HIDE DEF half
  <1>3. (count + half - 1) \div half \in Nat \ {0}
    <2>1. \A m \in Nat, h \in Nat \ {0} : m >= h => m \div h \in Nat \ {0}
      OBVIOUS
    <2>2. count + half - 1 \in Nat /\ count + half - 1 >= half
      BY <1>1, <1>2
    <2>3. QED
      BY <1>2, <2>1, <2>2
  <1>4. n \in Nat \ {0}
    BY <1>2, <1>3
  <1> HIDE DEF n
  <1>5. /\ ChunkSound(d) /\ d.at = a /\ d.numBlocks = n /\ d.free = 0 .. n - 1
    BY <1>4, NewFacts
  <1> HIDE DEF d
  <1>6. QED
    BY <1>1, <1>5, ChunkAdded

\* The first chunks that stay: each is one of them that is not all free, in its place.
StaysRight(k) ==
    LET s == StayOf[k] IN
    /\ s \in Seq(Chunks)
    /\ \A j \in DOMAIN s : \E l \in 1 .. k : s[j] = chunks[l] /\ ~AllFree(chunks[l])
    /\ \A l \in 1 .. k : ~AllFree(chunks[l]) => \E j \in DOMAIN s : s[j] = chunks[l]
    /\ \A i, j \in DOMAIN s : s[i].at = s[j].at => i = j

\* All chunks that stay, when the list was gone through.
LEMMA StaysAreRight ==
    ASSUME SlabInv
    PROVE  StaysRight(Len(chunks))
  <1> DEFINE T == {k \in Nat : k <= Len(chunks) => StaysRight(k)}
  <1>1. 0 \in T
    <2>1. StayOf[0] = <<>>
      BY StayOfEquation DEF Stay
    <2>2. <<>> \in Seq(Chunks) /\ DOMAIN <<>> = {} /\ 1 .. 0 = {}
      OBVIOUS
    <2> DEFINE s == StayOf[0]
    <2>3. s \in Seq(Chunks) /\ DOMAIN s = {}
      BY <2>1, <2>2
    <2> HIDE DEF s
    <2>4. StaysRight(0)
      BY <2>2, <2>3 DEF StaysRight, s
    <2>5. QED
      BY <2>4
  <1>2. ASSUME NEW k \in Nat, k \in T PROVE k + 1 \in T
    <2> SUFFICES ASSUME k + 1 <= Len(chunks) PROVE StaysRight(k + 1)
      OBVIOUS
    <2> DEFINE s == StayOf[k]
               c == chunks[k + 1]
    <2>1. /\ Len(chunks) \in Nat /\ DOMAIN chunks = 1 .. Len(chunks)
          /\ \A l \in DOMAIN chunks : chunks[l] \in Chunks
      BY DEF SlabInv
    <2>2. /\ StaysRight(k) /\ k + 1 \in DOMAIN chunks /\ k + 1 \in 1 .. k + 1
          /\ \A l \in 1 .. k : l \in DOMAIN chunks /\ l # k + 1 /\ l \in 1 .. k + 1
          /\ \A l \in 1 .. k + 1 : l = k + 1 \/ l \in 1 .. k
      BY <1>2, <2>1
    <2>3. /\ s \in Seq(Chunks)
          /\ \A j \in DOMAIN s : \E l \in 1 .. k : s[j] = chunks[l] /\ ~AllFree(chunks[l])
          /\ \A l \in 1 .. k : ~AllFree(chunks[l]) => \E j \in DOMAIN s : s[j] = chunks[l]
          /\ \A i, j \in DOMAIN s : s[i].at = s[j].at => i = j
      BY <2>2 DEF StaysRight
    <2>4. StayOf[k + 1] = IF AllFree(c) THEN s ELSE Append(s, c)
      <3>1. k + 1 \in Nat /\ k + 1 # 0 /\ (k + 1) - 1 = k
        OBVIOUS
      <3>2. QED
        BY <3>1, StayOfEquation DEF Stay
    <2> HIDE DEF s
    <2>5. CASE AllFree(c)
      BY <2>2, <2>3, <2>4, <2>5 DEF StaysRight
    <2>6. CASE ~AllFree(c)
      <3> DEFINE u == Append(s, c)
                 n == Len(s)
      <3>1. c \in Chunks
        BY <2>1, <2>2
      <3>2. /\ u \in Seq(Chunks) /\ n \in Nat /\ DOMAIN s = 1 .. n /\ DOMAIN u = 1 .. n + 1
            /\ u[n + 1] = c /\ \A j \in 1 .. n : u[j] = s[j]
        BY <2>3, <3>1
      <3> HIDE DEF u, n
      <3>3. /\ n + 1 \in DOMAIN u
            /\ \A j \in DOMAIN s : j \in DOMAIN u /\ j # n + 1 /\ u[j] = s[j]
            /\ \A j \in DOMAIN u : j = n + 1 \/ j \in DOMAIN s
        BY <3>2
      <3>4. \A j \in DOMAIN u : \E l \in 1 .. k + 1 : u[j] = chunks[l] /\ ~AllFree(chunks[l])
        BY <2>2, <2>3, <2>6, <3>2, <3>3
      <3>5. \A l \in 1 .. k + 1 : ~AllFree(chunks[l]) => \E j \in DOMAIN u : u[j] = chunks[l]
        <4>1. ASSUME NEW l \in 1 .. k, ~AllFree(chunks[l])
              PROVE  \E j \in DOMAIN u : u[j] = chunks[l]
          BY <2>3, <3>3, <4>1
        <4>2. \E j \in DOMAIN u : u[j] = c
          BY <3>2, <3>3
        <4>3. QED
          BY <2>2, <4>1, <4>2
      <3>6. ASSUME NEW j \in DOMAIN s PROVE s[j].at # c.at
        <4>1. PICK l \in 1 .. k : s[j] = chunks[l]
          BY <2>3
        <4>2. l \in DOMAIN chunks /\ l # k + 1
          BY <2>2
        <4>3. chunks[l].at # c.at
          BY <2>2, <4>2 DEF SlabInv
        <4>4. QED
          BY <4>1, <4>3
      <3>7. ASSUME NEW i \in DOMAIN u, NEW j \in DOMAIN u, u[i].at = u[j].at PROVE i = j
        <4>1. CASE i = n + 1 \/ j = n + 1
          BY <3>2, <3>3, <3>6, <3>7, <4>1
        <4>2. CASE ~(i = n + 1 \/ j = n + 1)
          <5>1. i \in DOMAIN s /\ j \in DOMAIN s
            BY <3>3, <4>2
          <5>2. s[i].at = s[j].at
            BY <3>3, <3>7, <5>1
          <5>3. QED
            BY <2>3, <5>1, <5>2
        <4>3. QED
          BY <4>1, <4>2
      <3>8. StayOf[k + 1] = u
        BY <2>4, <2>6 DEF u
      <3>9. QED
        BY <3>2, <3>4, <3>5, <3>7, <3>8 DEF StaysRight
    <2>7. QED
      BY <2>5, <2>6
  <1> HIDE DEF T
  <1>3. Nat \subseteq T
    BY <1>1, <1>2, CountingUp
  <1>4. Len(chunks) \in Nat
    BY DEF SlabInv
  <1>5. QED
    BY <1>3, <1>4 DEF T

\* A chunk that is all free has given out nothing, so that what goes is not missed.
LEMMA DestroyKeeps ==
    ASSUME SlabInv, DestroyUnallocatedChunks
    PROVE  SlabInv' /\ held' = held
  <1>1. chunks' = StayOf[Len(chunks)] /\ held' = held
    BY DEF DestroyUnallocatedChunks
  <1>2. DOMAIN chunks = 1 .. Len(chunks)
    BY DEF SlabInv
  <1>3. /\ chunks' \in Seq(Chunks)
        /\ \A j \in DOMAIN chunks' : \E l \in DOMAIN chunks :
              chunks'[j] = chunks[l] /\ ~AllFree(chunks[l])
        /\ \A l \in DOMAIN chunks : ~AllFree(chunks[l]) =>
              \E j \in DOMAIN chunks' : chunks'[j] = chunks[l]
        /\ \A i, j \in DOMAIN chunks' : chunks'[i].at = chunks'[j].at => i = j
    BY <1>1, <1>2, StaysAreRight DEF StaysRight
  <1>4. ASSUME NEW l \in DOMAIN chunks, AllFree(chunks[l]), NEW a, NEW b
        PROVE  ~GivenOut(chunks[l], a, b)
    <2> DEFINE c == chunks[l]
    <2>1. c.numBlocks \in Nat \ {0} /\ c.free \subseteq 0 .. c.numBlocks - 1
      BY DEF SlabInv, ChunkSound, Chunks
    <2>2. /\ IsFiniteSet(0 .. c.numBlocks - 1)
          /\ Cardinality(0 .. c.numBlocks - 1) = c.numBlocks
      <3>1. 0 \in Int /\ c.numBlocks - 1 \in Int /\ ~(0 > c.numBlocks - 1)
            /\ (c.numBlocks - 1) - 0 + 1 = c.numBlocks
        BY <2>1
      <3>2. QED
        BY <3>1, FS_Interval
    <2>3. Cardinality(c.free) = c.numBlocks
      BY <1>4 DEF AllFree
    <2>4. 0 .. c.numBlocks - 1 = c.free
      BY <2>1, <2>2, <2>3, FS_Subset
    <2>5. QED
      BY <2>4 DEF GivenOut
  <1>5. ASSUME NEW a, NEW b
        PROVE  (\E l \in DOMAIN chunks : GivenOut(chunks[l], a, b)) <=>
                  \E j \in DOMAIN chunks' : GivenOut(chunks'[j], a, b)
    BY <1>3, <1>4
  <1>6. \A j \in DOMAIN chunks' : ChunkSound(chunks'[j])
    BY <1>3 DEF SlabInv
  <1>7. QED
    BY <1>1, <1>3, <1>5, <1>6 DEF SlabInv

\* At the start there are no chunks.
LEMMA InitSlab == SlabInit => SlabInv
  BY DEF SlabInit, SlabInv

\* Every operation of the slab keeps it sound.
LEMMA SlabStep == SlabInv /\ [SlabNext]_slabVars => SlabInv'
  <1> SUFFICES ASSUME SlabInv, [SlabNext]_slabVars PROVE SlabInv'
    OBVIOUS
  <1>1. CASE Alloc
    BY <1>1, AllocFacts, SlabAssumption DEF Alloc
  <1>2. CASE FreeBlock
    BY <1>2, FreeFacts DEF FreeBlock
  <1>3. CASE FreeAll
    BY <1>3 DEF FreeAll, SlabInv
  <1>4. CASE Prepare
    BY <1>4, PrepareKeeps, SlabAssumption DEF Prepare
  <1>5. CASE DestroyUnallocatedChunks
    BY <1>5, DestroyKeeps
  <1>6. CASE UNCHANGED slabVars
    BY <1>6 DEF slabVars, SlabInv, GivenOut
  <1>7. QED
    BY <1>1, <1>2, <1>3, <1>4, <1>5, <1>6 DEF SlabNext

\* What it says of the masks, the search and the types.
LEMMA SlabInvFacts ==
    ASSUME SlabInv
    PROVE  SlabTypeOK /\ MasksExact /\ NothingHidden
  <1>1. SlabTypeOK
    BY DEF SlabInv, SlabTypeOK, ChunkSound, Chunks
  <1>2. NothingHidden
    BY DEF SlabInv, NothingHidden, ChunkSound
  <1>3. \A p \in held : p = <<p[1], p[2]>>
    BY DEF SlabInv
  <1>4. ASSUME NEW p
        PROVE  p \in held <=>
                  p \in UNION {{<<chunks[k].at, b>> :
                                    b \in (0 .. chunks[k].numBlocks - 1) \ chunks[k].free} :
                                 k \in DOMAIN chunks}
    <2>1. ASSUME p \in held
          PROVE  \E k \in DOMAIN chunks : \E b \in (0 .. chunks[k].numBlocks - 1) \ chunks[k].free :
                    p = <<chunks[k].at, b>>
      BY <1>3, <2>1 DEF SlabInv, GivenOut
    <2>2. ASSUME NEW k \in DOMAIN chunks, NEW b \in (0 .. chunks[k].numBlocks - 1) \ chunks[k].free,
                 p = <<chunks[k].at, b>>
          PROVE  p \in held
      BY <2>2 DEF SlabInv, GivenOut
    <2>3. QED
      BY <2>1, <2>2
  <1>5. \A p \in held : Controls(p)
    <2>1. ASSUME NEW p \in held PROVE Controls(p)
      <3>1. PICK k \in DOMAIN chunks : GivenOut(chunks[k], p[1], p[2])
        BY <1>3 DEF SlabInv
      <3>2. chunks[k].numBlocks \in Nat
        BY DEF SlabInv, ChunkSound, Chunks
      <3>3. QED
        BY <3>1, <3>2 DEF GivenOut, Controls
    <2>2. QED
      BY <2>1
  <1>6. MasksExact
    BY <1>4, <1>5 DEF SlabInv, MasksExact
  <1>7. QED
    BY <1>1, <1>2, <1>6

\* alloc gives no block to two callers, destroyUnallocatedChunks takes no chunk of which a
\* block is in use, and every free finds its chunk.
THEOREM SlabExact == SlabSpec => [](SlabTypeOK /\ MasksExact)
  BY InitSlab, SlabStep, SlabInvFacts, PTL DEF SlabSpec

\* No free block of a chunk of whole words hides from getNextChunkForSize, whose search
\* starts at the word of the last block taken or freed.
THEOREM NothingIsHidden == SlabSpec => []NothingHidden
  BY InitSlab, SlabStep, SlabInvFacts, PTL DEF SlabSpec

----------------------------------------------------------------------------
(* Pointers on the slab *)

\* Blocks, the calls that threads are in, and nodes
Blocks == Addresses \X Nat
MaybeBlock == Blocks \cup {NoBlock}
Stages == {"idle", "sub", "object", "node", "assign", "make"}
Calls == [of : Pointers \cup {NoBlock}, from : Pointers \cup {NoBlock},
          old : MaybeBlock, to : MaybeBlock, object : MaybeBlock]
Nodes == [refs : Nat, object : MaybeBlock]

\* The kinds of the variables; a node is a block that is out.
PointerTypes ==
    /\ refNode \in [Pointers -> MaybeBlock]
    /\ at \in [Users -> Stages]
    /\ call \in [Users -> Calls]
    /\ node \in [DOMAIN node -> Nodes]
    /\ DOMAIN node \subseteq held

\* Thread u has counted the old reference out, if there was one, and the pointer has not
\* been overwritten yet: its value is of no meaning.
Past(u) == at[u] \notin {"idle", "sub"}

\* Thread u is taking node n apart.
Freeing(u, n) == at[u] \in {"object", "node"} /\ call[u].old = n

\* What a call in progress knows.
CallsInv ==
    \A u \in Users :
       /\ at[u] = "idle" => call[u] = Nothing
       /\ at[u] # "idle" => call[u].of \in Pointers /\ call[u].old = refNode[call[u].of]
       /\ at[u] \in {"sub", "object", "node"} => call[u].old \in DOMAIN node
       /\ at[u] \in {"object", "node"} =>
             /\ node[call[u].old].refs = 0
             /\ at[u] = "object" <=> node[call[u].old].object # NoBlock
       /\ call[u].from # NoBlock =>
             call[u].from # call[u].of /\ refNode[call[u].from] = call[u].to
       /\ call[u].object # NoBlock => call[u].to = NoBlock /\ call[u].from = NoBlock
       /\ at[u] = "make" => call[u].object # NoBlock
       /\ call[u].to \in DOMAIN node \cup {NoBlock}

\* Two threads are not in calls on the same pointer.
Separate ==
    \A u, v \in Users : u # v =>
       /\ call[u].of # NoBlock => call[u].of \notin {call[v].of, call[v].from}
       /\ call[u].from # NoBlock => call[u].from \notin {call[v].of, call[v].from}

\* The pointers and the threads that hold a reference to node n.
Live(n) == {p \in Pointers : refNode[p] = n /\ \A u \in Users : call[u].of = p => ~Past(u)}
Carrying(n) == {u \in Users : call[u].to = n /\ call[u].from = NoBlock}

\* What a pointer refers to is there.
LiveInv == \A n : Live(n) # {} => n \in DOMAIN node \cup {NoBlock}

\* A count is the number of references.
CountInv ==
    \A n \in DOMAIN node : node[n].refs = Cardinality(Live(n)) + Cardinality(Carrying(n))

\* One thread takes apart a node without references.
FreeingInv ==
    /\ \A n \in DOMAIN node : node[n].refs = 0 => \E u \in Users : Freeing(u, n)
    /\ \A n \in DOMAIN node : \A u, v \in Users : Freeing(u, n) /\ Freeing(v, n) => u = v

\* An object is a block that is out, no node, and has one owner.
OwnersInv ==
    /\ \A n \in DOMAIN node : node[n].object # NoBlock =>
          /\ node[n].object \in held \ DOMAIN node
          /\ \A m \in DOMAIN node : node[m].object = node[n].object => m = n
          /\ \A u \in Users : call[u].object # node[n].object
    /\ \A u \in Users : call[u].object # NoBlock =>
          /\ call[u].object \in held \ DOMAIN node
          /\ \A v \in Users : call[v].object = call[u].object => v = u

\* The inductive invariant
PointerInv ==
    /\ SlabInv /\ PointerTypes /\ CallsInv /\ Separate
    /\ LiveInv /\ CountInv /\ FreeingInv /\ OwnersInv

\* alloc gives a block that nobody has.
LEMMA GivenFacts ==
    ASSUME SlabInv, \E a \in Addresses : Given(a)
    PROVE  /\ SlabInv'
           /\ GivenBlock \in Blocks /\ GivenBlock # NoBlock
           /\ GivenBlock \notin held /\ held' = held \cup {GivenBlock}
  <1>1. PICK a \in Addresses, size \in Sizes : AllocSteps(size, a)
    BY DEF Given
  <1>2. SlabInv' /\ \E p \in Addresses \X Nat : p \notin held /\ held' = held \cup {p}
    BY <1>1, AllocFacts, SlabAssumption
  <1>3. PICK p \in Addresses \X Nat : p \notin held /\ held' = held \cup {p}
    BY <1>2
  <1>4. \A b : b \in held' \ held <=> b = p
    BY <1>3
  <1>5. GivenBlock = p
    BY <1>4 DEF GivenBlock
  <1>6. QED
    BY <1>2, <1>3, <1>5, SlabPointerAssumption DEF Blocks

\* The references to a node can be counted.
LEMMA ReferencesFinite ==
    \A n : /\ IsFiniteSet(Live(n)) /\ IsFiniteSet(Carrying(n))
           /\ Cardinality(Live(n)) \in Nat /\ Cardinality(Carrying(n)) \in Nat
  <1>1. \A n : Live(n) \in SUBSET Pointers /\ Carrying(n) \in SUBSET Users
    BY DEF Live, Carrying
  <1>2. QED
    BY <1>1, SlabPointerAssumption, FS_Subset, FS_CardinalityType

\* No references at all is a count of zero, and one alone is a count of one.
LEMMA CountFacts ==
    ASSUME NEW S, IsFiniteSet(S), NEW x
    PROVE  /\ Cardinality({}) = 0 /\ Cardinality({x}) = 1
           /\ x \in S => Cardinality(S) \in Nat /\ Cardinality(S) >= 1
           /\ x \in S => Cardinality(S \ {x}) = Cardinality(S) - 1
           /\ x \notin S => Cardinality(S \cup {x}) = Cardinality(S) + 1
  <1>1. Cardinality({}) = 0 /\ Cardinality({x}) = 1
    BY FS_EmptySet, FS_Singleton
  <1>2. x \in S => Cardinality(S \ {x}) = Cardinality(S) - 1
    BY FS_RemoveElement
  <1>3. x \notin S => Cardinality(S \cup {x}) = Cardinality(S) + 1
    BY FS_AddElement
  <1>4. Cardinality(S) \in Nat /\ Cardinality(S \ {x}) \in Nat
    BY FS_RemoveElement, FS_CardinalityType
  <1>5. QED
    BY <1>1, <1>2, <1>3, <1>4

\* A pointer that changes has one thread, so that counting pointers and taking off threads
\* gives the pointers that refer to the node.
LEMMA ReferencesCounted ==
    ASSUME PointerInv, NEW n \in DOMAIN node
    PROVE  PointersTo(n) = Cardinality(Live(n)) + Cardinality(Carrying(n))
  <1> DEFINE A == {p \in Pointers : refNode[p] = n}
             C == {u \in Users : call[u].old = n /\ refNode[call[u].of] = n
                                  /\ at[u] \notin {"idle", "sub"}}
             D == {call[u].of : u \in C}
             f == [u \in C |-> call[u].of]
  <1>1. n # NoBlock
    BY SlabPointerAssumption DEF PointerInv, SlabInv, PointerTypes
  <1>2. IsFiniteSet(A) /\ IsFiniteSet(C)
    BY SlabPointerAssumption, FS_Subset
  <1>3. \A u \in C : call[u].of \in Pointers /\ call[u].of # NoBlock
    BY SlabPointerAssumption DEF PointerInv, CallsInv
  <1>4. f \in Surjection(C, D)
    BY DEF Surjection
  <1>5. \A u, v \in C : call[u].of = call[v].of => u = v
    BY <1>3 DEF PointerInv, Separate
  <1>6. f \in Injection(C, D)
    BY <1>5 DEF Injection, IsInjective
  <1>7. Cardinality(D) = Cardinality(C)
    BY <1>2, <1>4, <1>6, FS_Surjection
  <1>8. D \subseteq A
    BY <1>3
  <1>9. Live(n) = A \ D
    <2>1. ASSUME NEW p \in A, NEW u \in Users, call[u].of = p, Past(u) PROVE p \in D
      <3>1. call[u].old = n
        BY <2>1 DEF PointerInv, CallsInv, Past
      <3>2. u \in C
        BY <2>1, <3>1 DEF Past
      <3>3. QED
        BY <2>1, <3>2
    <2>2. ASSUME NEW u \in C PROVE Past(u)
      BY DEF Past
    <2>3. QED
      BY <2>1, <2>2 DEF Live
  <1>10. A \cap D = D
    BY <1>8
  <1>11. Cardinality(Live(n)) = Cardinality(A) - Cardinality(C)
    <2> HIDE DEF A, C, D
    <2>1. Cardinality(A \ D) = Cardinality(A) - Cardinality(A \cap D)
      BY <1>2, FS_Difference
    <2>2. QED
      BY <1>7, <1>9, <1>10, <2>1
  <1>12. Cardinality(A) \in Nat /\ Cardinality(C) \in Nat /\ Cardinality(Carrying(n)) \in Nat
    BY <1>2, FS_CardinalityType, ReferencesFinite
  <1>13. PointersTo(n) = Cardinality(A) + Cardinality(Carrying(n)) - Cardinality(C)
    BY DEF PointersTo, Carrying
  <1> HIDE DEF A, C
  <1>14. QED
    BY <1>11, <1>12, <1>13

\* What the invariant says of the nodes and the types.
LEMMA PointerInvFacts ==
    ASSUME PointerInv
    PROVE  SlabPointerTypeOK /\ NodesExact
  <1>1. SlabTypeOK
    BY SlabInvFacts DEF PointerInv
  <1>2. SlabPointerTypeOK
    BY <1>1 DEF PointerInv, PointerTypes, SlabPointerTypeOK, Nodes, MaybeBlock, Blocks, Stages
  <1>3. NodeBlocks \cup ObjectBlocks \subseteq held
    BY DEF PointerInv, PointerTypes, OwnersInv, NodeBlocks, ObjectBlocks
  <1>4. NodeBlocks \cap ObjectBlocks = {}
    BY DEF PointerInv, OwnersInv, NodeBlocks, ObjectBlocks
  <1>5. ASSUME NEW n \in DOMAIN node PROVE node[n].refs = PointersTo(n)
    BY ReferencesCounted DEF PointerInv, CountInv
  <1>6. ASSUME NEW n \in DOMAIN node, node[n].refs = 0
        PROVE  Cardinality({u \in Users : call[u].old = n /\ at[u] \in {"object", "node"}}) = 1
    <2>1. PICK u \in Users : Freeing(u, n)
      BY <1>6 DEF PointerInv, FreeingInv
    <2>2. \A v \in Users : Freeing(v, n) => v = u
      BY <2>1 DEF PointerInv, FreeingInv
    <2>3. {v \in Users : call[v].old = n /\ at[v] \in {"object", "node"}} = {u}
      BY <2>1, <2>2 DEF Freeing
    <2>4. QED
      BY <2>3, FS_Singleton
  <1>7. ASSUME NEW p \in Pointers
        PROVE  \/ refNode[p] \in DOMAIN node \cup {NoBlock}
               \/ \E u \in Users : call[u].of = p /\ at[u] \in {"make", "assign"}
    <2>1. CASE p \in Live(refNode[p])
      BY <2>1 DEF PointerInv, LiveInv
    <2>2. CASE p \notin Live(refNode[p])
      <3>1. PICK u \in Users : call[u].of = p /\ Past(u)
        BY <2>2 DEF Live
      <3>2. CASE at[u] \in {"object", "node"}
        BY <3>1, <3>2 DEF PointerInv, CallsInv
      <3>3. CASE at[u] \notin {"object", "node"}
        <4>1. at[u] \in {"make", "assign"}
          BY <3>1, <3>3 DEF PointerInv, PointerTypes, Stages, Past
        <4>2. QED
          BY <3>1, <4>1
      <3>4. QED
        BY <3>2, <3>3
    <2>3. QED
      BY <2>1, <2>2
  <1>8. NodesExact
    BY <1>3, <1>4, <1>5, <1>6, <1>7 DEF NodesExact
  <1>9. QED
    BY <1>2, <1>8

\* At the start there are no nodes.
LEMMA InitPointers == SlabPointerInit => PointerInv
  <1> SUFFICES ASSUME SlabPointerInit PROVE PointerInv
    OBVIOUS
  <1>1. SlabInv
    BY InitSlab DEF SlabPointerInit
  <1>2. Nothing \in Calls
    BY DEF Nothing, Calls, MaybeBlock
  <1>3. DOMAIN node = {}
    BY DEF SlabPointerInit
  <1>4. PointerTypes
    <2>1. node \in [{} -> Nodes]
      BY <1>3 DEF SlabPointerInit
    <2>2. QED
      BY <1>2, <1>3, <2>1 DEF SlabPointerInit, PointerTypes, MaybeBlock, Stages
  <1>5. CallsInv /\ Separate /\ OwnersInv
    BY <1>3 DEF SlabPointerInit, CallsInv, Separate, OwnersInv, Nothing
  <1>6. LiveInv /\ CountInv /\ FreeingInv
    BY <1>3 DEF SlabPointerInit, LiveInv, CountInv, FreeingInv, Live
  <1>7. QED
    BY <1>1, <1>4, <1>5, <1>6 DEF PointerInv

\* The fields, whatever is known of the rest.
LEMMA PointerFacts ==
    ASSUME PointerInv
    PROVE  /\ \A n \in DOMAIN node : /\ n \in held /\ n \in Blocks /\ n # NoBlock
                                     /\ node[n].refs \in Nat /\ node[n].object \in MaybeBlock
           /\ held \subseteq Blocks /\ NoBlock \notin Blocks /\ NoBlock \notin Pointers
           /\ \A u \in Users : /\ call[u].of \in Pointers \cup {NoBlock}
                               /\ call[u].from \in Pointers \cup {NoBlock}
                               /\ call[u].old \in MaybeBlock /\ call[u].to \in MaybeBlock
                               /\ call[u].object \in MaybeBlock
           /\ \A u \in Users : at[u] = "idle" =>
                 /\ call[u].of = NoBlock /\ call[u].from = NoBlock /\ call[u].old = NoBlock
                 /\ call[u].to = NoBlock /\ call[u].object = NoBlock
  <1>1. /\ held \subseteq Blocks /\ NoBlock \notin Blocks /\ NoBlock \notin Pointers
    BY SlabPointerAssumption DEF PointerInv, SlabInv, Blocks
  <1>2. ASSUME NEW n \in DOMAIN node
        PROVE  /\ n \in held /\ n \in Blocks /\ n # NoBlock
               /\ node[n].refs \in Nat /\ node[n].object \in MaybeBlock
    <2>1. node[n] \in Nodes
      BY DEF PointerInv, PointerTypes
    <2>2. QED
      BY <1>1, <2>1 DEF PointerInv, PointerTypes, Nodes
  <1>3. ASSUME NEW u \in Users
        PROVE  /\ call[u].of \in Pointers \cup {NoBlock}
               /\ call[u].from \in Pointers \cup {NoBlock}
               /\ call[u].old \in MaybeBlock /\ call[u].to \in MaybeBlock
               /\ call[u].object \in MaybeBlock
    <2>1. call[u] \in Calls
      BY DEF PointerInv, PointerTypes
    <2>2. QED
      BY <2>1 DEF Calls
  <1>4. ASSUME NEW u \in Users, at[u] = "idle"
        PROVE  /\ call[u].of = NoBlock /\ call[u].from = NoBlock /\ call[u].old = NoBlock
               /\ call[u].to = NoBlock /\ call[u].object = NoBlock
    BY <1>4 DEF PointerInv, CallsInv, Nothing
  <1>5. QED
    BY <1>1, <1>2, <1>3, <1>4

\* A pointer that no call overwrites refers to a node or to nothing, and what it refers to
\* has a count.
LEMMA LiveFacts ==
    ASSUME PointerInv, NEW p \in Pointers, \A u \in Users : call[u].of = p => ~Past(u),
           refNode[p] # NoBlock
    PROVE  p \in Live(refNode[p]) /\ refNode[p] \in DOMAIN node /\ node[refNode[p]].refs >= 1
  <1> DEFINE n == refNode[p]
  <1>1. p \in Live(n)
    BY DEF Live
  <1>2. n \in DOMAIN node
    BY <1>1 DEF PointerInv, LiveInv
  <1>3. /\ Cardinality(Live(n)) \in Nat /\ Cardinality(Live(n)) >= 1
        /\ Cardinality(Carrying(n)) \in Nat
    BY <1>1, ReferencesFinite, CountFacts
  <1>4. node[n].refs = Cardinality(Live(n)) + Cardinality(Carrying(n))
    BY <1>2 DEF PointerInv, CountInv
  <1> HIDE DEF n
  <1>5. QED
    BY <1>1, <1>2, <1>3, <1>4 DEF n

\* The source of a move, and the pointer of a call that has not counted out, are live.
LEMMA CallsAreLive ==
    ASSUME PointerInv, NEW u \in Users
    PROVE  /\ call[u].from # NoBlock => \A v \in Users : call[v].of # call[u].from
           /\ at[u] = "sub" => \A v \in Users : call[v].of = call[u].of => ~Past(v)
  <1>1. ASSUME call[u].from # NoBlock, NEW v \in Users PROVE call[v].of # call[u].from
    BY <1>1 DEF PointerInv, Separate, CallsInv
  <1>2. ASSUME at[u] = "sub", NEW v \in Users, call[v].of = call[u].of PROVE ~Past(v)
    <2>1. call[u].of # NoBlock
      BY <1>2, SlabPointerAssumption DEF PointerInv, CallsInv
    <2>2. v = u
      BY <1>2, <2>1 DEF PointerInv, Separate
    <2>3. QED
      BY <1>2, <2>2 DEF Past
  <1>3. QED
    BY <1>1, <1>2

\* Other users of the slab do not touch what is held.
LEMMA OtherKeeps ==
    ASSUME PointerInv, OtherStep
    PROVE  PointerInv'
  <1>1. SlabInv' /\ held' = held /\ UNCHANGED <<refNode, node, at, call>>
    BY DestroyKeeps DEF PointerInv, OtherStep, pointerVars
  <1>2. PointerTypes' /\ CallsInv' /\ Separate' /\ FreeingInv' /\ OwnersInv'
    BY <1>1 DEF PointerInv, PointerTypes, CallsInv, Separate, FreeingInv, Freeing, OwnersInv
  <1>3. LiveInv' /\ CountInv'
    BY <1>1 DEF PointerInv, LiveInv, CountInv, Live, Carrying, Past
  <1>4. QED
    BY <1>1, <1>2, <1>3 DEF PointerInv

\* FreeObject: the block goes, the node stays for its turn.
LEMMA FreeObjectKeeps ==
    ASSUME PointerInv, NEW u \in Users, FreeObject(u)
    PROVE  PointerInv'
  <1>1. PICK n, o : n = call[u].old /\ o = node[n].object
    OBVIOUS
  <1>2. /\ at[u] = "object" /\ FreeSteps(o)
        /\ node' = [node EXCEPT ![n].object = NoBlock]
        /\ at' = [at EXCEPT ![u] = "node"]
        /\ refNode' = refNode /\ call' = call
    BY <1>1 DEF FreeObject, Goes
  <1>3. n \in DOMAIN node /\ node[n].refs = 0 /\ o # NoBlock /\ Freeing(u, n)
    BY <1>1, <1>2 DEF PointerInv, CallsInv, Freeing
  <1>4. o \in held /\ o \notin DOMAIN node
    BY <1>1, <1>3 DEF PointerInv, OwnersInv
  <1>5. SlabInv' /\ held' = held \ {o}
    BY <1>2, <1>4, FreeFacts DEF PointerInv
  <1>6. /\ DOMAIN node' = DOMAIN node
        /\ node'[n].refs = 0 /\ node'[n].object = NoBlock /\ node'[n] \in Nodes
        /\ \A m \in DOMAIN node : m # n => node'[m] = node[m]
    <2>1. node[n] \in Nodes
      BY <1>3 DEF PointerInv, PointerTypes
    <2>2. [node[n] EXCEPT !.object = NoBlock] = [refs |-> 0, object |-> NoBlock]
      BY <1>3, <2>1 DEF Nodes
    <2>3. node'[n] = [refs |-> 0, object |-> NoBlock]
      BY <1>2, <1>3, <2>2
    <2>4. QED
      BY <1>2, <2>3 DEF Nodes, MaybeBlock
  <1>7. /\ at'[u] = "node" /\ \A v \in Users : v # u => at'[v] = at[v]
        /\ at' \in [Users -> Stages]
    BY <1>2 DEF PointerInv, PointerTypes, Stages
  <1>8. PointerTypes'
    <2>1. node' \in [DOMAIN node' -> Nodes]
      <3>1. \A m \in DOMAIN node : node'[m] \in Nodes
        BY <1>6 DEF PointerInv, PointerTypes
      <3>2. node' = [m \in DOMAIN node |-> node'[m]]
        BY <1>2
      <3>3. QED
        BY <1>6, <3>1, <3>2
    <2>2. QED
      BY <1>2, <1>4, <1>5, <1>6, <1>7, <2>1 DEF PointerInv, PointerTypes
  <1>9. \A v \in Users : v # u => \A m : Freeing(v, m) => m # n
    BY <1>3 DEF PointerInv, FreeingInv
  <1>10. \A v \in Users : \A m : Freeing(v, m)' <=> Freeing(v, m)
    BY <1>2, <1>7 DEF Freeing
  <1>11. CallsInv'
    <2>1. ASSUME NEW v \in Users, v # u, at[v] \in {"object", "node"}
          PROVE  node'[call[v].old] = node[call[v].old]
      BY <1>6, <1>9, <2>1 DEF PointerInv, CallsInv, Freeing
    <2>2. QED
      BY <1>1, <1>2, <1>3, <1>6, <1>7, <2>1 DEF PointerInv, CallsInv
  <1>12. Separate'
    BY <1>2 DEF PointerInv, Separate
  <1>13. \A k : Live(k)' = Live(k) /\ Carrying(k)' = Carrying(k)
    BY <1>2, <1>7 DEF Live, Carrying, Past
  <1>14. LiveInv' /\ CountInv'
    <2>1. \A m \in DOMAIN node : node'[m].refs = node[m].refs
      BY <1>3, <1>6
    <2>2. QED
      BY <1>6, <1>13, <2>1 DEF PointerInv, LiveInv, CountInv
  <1>15. FreeingInv'
    <2>1. \A m \in DOMAIN node : node'[m].refs = node[m].refs
      BY <1>3, <1>6
    <2>2. QED
      BY <1>6, <1>10, <2>1 DEF PointerInv, FreeingInv
  <1>16. OwnersInv'
    <2>1. \A m \in DOMAIN node : m # n => node[m].object # o
      BY <1>1, <1>3 DEF PointerInv, OwnersInv
    <2>2. \A v \in Users : call[v].object # o
      BY <1>1, <1>3 DEF PointerInv, OwnersInv
    <2>3. QED
      BY <1>2, <1>5, <1>6, <2>1, <2>2 DEF PointerInv, OwnersInv
  <1>17. QED
    BY <1>5, <1>8, <1>11, <1>12, <1>14, <1>15, <1>16 DEF PointerInv

\* FreeNode: nobody refers to the node any more.
LEMMA FreeNodeKeeps ==
    ASSUME PointerInv, NEW u \in Users, FreeNode(u)
    PROVE  PointerInv'
  <1>1. PICK n, a : n = call[u].old /\ a = RestOfCall(u)
    OBVIOUS
  <1>2. /\ at[u] = "node" /\ FreeSteps(n)
        /\ node' = [m \in DOMAIN node \ {n} |-> node[m]]
        /\ at' = [at EXCEPT ![u] = a]
        /\ refNode' = refNode /\ call' = call
    BY <1>1 DEF FreeNode, Goes, RemoveNode
  <1>3. /\ n \in DOMAIN node /\ node[n].refs = 0 /\ Freeing(u, n)
        /\ node[n].object = NoBlock
    BY <1>1, <1>2 DEF PointerInv, CallsInv, Freeing
  <1>4. a \in {"make", "assign"} /\ (a = "make" => call[u].object # NoBlock)
    BY <1>1 DEF RestOfCall
  <1>5. SlabInv' /\ held' = held \ {n}
    <2>1. n \in held
      BY <1>3 DEF PointerInv, PointerTypes
    <2>2. QED
      BY <1>2, <2>1, FreeFacts DEF PointerInv
  <1>6. Live(n) = {} /\ Carrying(n) = {}
    <2>1. Cardinality(Live(n)) + Cardinality(Carrying(n)) = 0
      BY <1>3 DEF PointerInv, CountInv
    <2>2. Cardinality(Live(n)) = 0 /\ Cardinality(Carrying(n)) = 0
      BY <2>1, ReferencesFinite
    <2>3. QED
      BY <2>2, ReferencesFinite, FS_EmptySet
  <1>7. /\ DOMAIN node' = DOMAIN node \ {n}
        /\ \A m \in DOMAIN node' : node'[m] = node[m]
    BY <1>2
  <1>8. /\ at'[u] = a /\ \A v \in Users : v # u => at'[v] = at[v]
        /\ at' \in [Users -> Stages]
    BY <1>2, <1>4 DEF PointerInv, PointerTypes, Stages
  <1>9. PointerTypes'
    <2>1. node' \in [DOMAIN node' -> Nodes]
      BY <1>2, <1>7 DEF PointerInv, PointerTypes
    <2>2. QED
      BY <1>2, <1>5, <1>7, <1>8, <2>1 DEF PointerInv, PointerTypes
  <1>10. \A v \in Users : call[v].to # n
    <2>1. ASSUME NEW v \in Users, call[v].to = n PROVE FALSE
      <3>1. call[v].from # NoBlock
        BY <1>6, <2>1 DEF Carrying
      <3>2. call[v].from \in Pointers /\ refNode[call[v].from] = n
        BY <2>1, <3>1, PointerFacts DEF PointerInv, CallsInv
      <3>3. call[v].from \in Live(n)
        BY <3>1, <3>2, CallsAreLive DEF Live
      <3>4. QED
        BY <1>6, <3>3
    <2>2. QED
      BY <2>1
  <1>11. \A v \in Users : v # u /\ at[v] \in {"sub", "object", "node"} => call[v].old # n
    <2>1. ASSUME NEW v \in Users, at[v] = "sub", call[v].old = n PROVE FALSE
      <3>1. call[v].of \in Pointers /\ refNode[call[v].of] = n
        BY <2>1 DEF PointerInv, CallsInv
      <3>2. call[v].of \in Live(n)
        BY <2>1, <3>1, CallsAreLive DEF Live
      <3>3. QED
        BY <1>6, <3>2
    <2>2. ASSUME NEW v \in Users, v # u, at[v] \in {"object", "node"}, call[v].old = n PROVE FALSE
      BY <1>3, <2>2 DEF PointerInv, FreeingInv, Freeing
    <2>3. QED
      BY <2>1, <2>2
  <1>12. CallsInv'
    <2>1. ASSUME NEW v \in Users, v # u, at[v] \in {"sub", "object", "node"}
          PROVE  call[v].old \in DOMAIN node' /\ node'[call[v].old] = node[call[v].old]
      BY <1>7, <1>11, <2>1 DEF PointerInv, CallsInv
    <2>2. \A v \in Users : call[v].to \in DOMAIN node' \cup {NoBlock}
      BY <1>7, <1>10 DEF PointerInv, CallsInv
    <2>3. ASSUME NEW v \in Users, v # u
          PROVE  /\ at'[v] \in {"sub", "object", "node"} => call'[v].old \in DOMAIN node'
                 /\ at'[v] \in {"object", "node"} =>
                       /\ node'[call'[v].old].refs = 0
                       /\ at'[v] = "object" <=> node'[call'[v].old].object # NoBlock
      <3>1. at'[v] = at[v] /\ call'[v] = call[v]
        BY <1>2, <1>8, <2>3
      <3>2. /\ at[v] \in {"sub", "object", "node"} => call[v].old \in DOMAIN node
            /\ at[v] \in {"object", "node"} =>
                  /\ node[call[v].old].refs = 0
                  /\ at[v] = "object" <=> node[call[v].old].object # NoBlock
        BY DEF PointerInv, CallsInv
      <3>3. QED
        BY <2>1, <2>3, <3>1, <3>2
    <2>4. at'[u] \notin {"idle", "sub", "object", "node"}
      BY <1>4, <1>8
    <2>5. /\ \A v \in Users : at'[v] = "idle" => at[v] = "idle"
          /\ \A v \in Users : at'[v] # "idle" => at[v] # "idle"
          /\ \A v \in Users : at'[v] = "make" => call[v].object # NoBlock
      BY <1>2, <1>4, <1>8 DEF PointerInv, CallsInv
    <2>6. QED
      BY <1>2, <2>2, <2>3, <2>4, <2>5 DEF PointerInv, CallsInv
  <1>13. Separate'
    BY <1>2 DEF PointerInv, Separate
  <1>14. \A k : Live(k)' = Live(k) /\ Carrying(k)' = Carrying(k)
    BY <1>2, <1>4, <1>8 DEF Live, Carrying, Past
  <1>15. LiveInv' /\ CountInv'
    BY <1>6, <1>7, <1>14 DEF PointerInv, LiveInv, CountInv
  <1>16. FreeingInv'
    <2>1. \A v \in Users : \A m : m # n => (Freeing(v, m)' <=> Freeing(v, m))
      BY <1>1, <1>2, <1>8 DEF Freeing
    <2>2. QED
      BY <1>7, <2>1 DEF PointerInv, FreeingInv
  <1>17. OwnersInv'
    BY <1>2, <1>3, <1>5, <1>7 DEF PointerInv, OwnersInv
  <1>18. QED
    BY <1>5, <1>9, <1>12, <1>13, <1>15, <1>16, <1>17 DEF PointerInv

\* Sub: the pointer's reference goes; the last one takes the node apart.
LEMMA SubKeeps ==
    ASSUME PointerInv, NEW u \in Users, Sub(u)
    PROVE  PointerInv'
  <1>1. PICK n, p, a : /\ n = call[u].old /\ p = call[u].of
                       /\ a = IF ~WasLast(n) THEN RestOfCall(u)
                              ELSE IF node[n].object # NoBlock THEN "object" ELSE "node"
    OBVIOUS
  <1>2. /\ at[u] = "sub"
        /\ node' = [node EXCEPT ![n].refs = @ - 1]
        /\ at' = [at EXCEPT ![u] = a]
        /\ UNCHANGED <<chunks, held, refNode, call>>
    BY <1>1 DEF Sub, Goes, slabVars
  <1>3. n \in DOMAIN node /\ p \in Pointers /\ refNode[p] = n /\ n # NoBlock
    BY <1>1, <1>2, PointerFacts DEF PointerInv, CallsInv
  <1>4. p \in Live(n) /\ node[n].refs \in Nat /\ node[n].refs >= 1
    BY <1>1, <1>2, <1>3, CallsAreLive, LiveFacts, PointerFacts
  <1>5. /\ a \in Stages /\ a \notin {"idle", "sub"}
        /\ a \in {"object", "node"} => node[n].refs = 1
        /\ node[n].refs = 1 => a \in {"object", "node"}
        /\ a \in {"object", "node"} => (a = "object" <=> node[n].object # NoBlock)
        /\ a = "make" => call[u].object # NoBlock
    BY <1>1 DEF Stages, WasLast, RestOfCall
  <1>6. SlabInv'
    BY <1>2, SlabStep DEF PointerInv, slabVars
  <1>7. /\ DOMAIN node' = DOMAIN node
        /\ node'[n].refs = node[n].refs - 1 /\ node'[n].object = node[n].object
        /\ node'[n] \in Nodes
        /\ \A m \in DOMAIN node : m # n => node'[m] = node[m]
    <2>1. PICK r, o : r = node[n].refs /\ o = node[n].object
      OBVIOUS
    <2>2. node[n] \in Nodes
      BY <1>3 DEF PointerInv, PointerTypes
    <2>3. r \in Nat /\ r >= 1 /\ o \in MaybeBlock
      BY <1>4, <2>1, <2>2 DEF Nodes
    <2>4. [node[n] EXCEPT !.refs = @ - 1] = [refs |-> r - 1, object |-> o]
      BY <2>1, <2>2 DEF Nodes
    <2>5. node'[n] = [refs |-> r - 1, object |-> o]
      BY <1>2, <1>3, <2>4
    <2>6. node'[n] \in Nodes
      BY <2>3, <2>5 DEF Nodes
    <2>7. QED
      BY <1>2, <2>1, <2>5, <2>6
  <1>8. /\ at'[u] = a /\ \A v \in Users : v # u => at'[v] = at[v]
        /\ at' \in [Users -> Stages]
    BY <1>2, <1>5 DEF PointerInv, PointerTypes
  <1>9. PointerTypes'
    <2>1. node' \in [DOMAIN node' -> Nodes]
      <3>1. \A m \in DOMAIN node : node'[m] \in Nodes
        BY <1>7 DEF PointerInv, PointerTypes
      <3>2. node' = [m \in DOMAIN node |-> node'[m]]
        BY <1>2
      <3>3. QED
        BY <1>7, <3>1, <3>2
    <2>2. QED
      BY <1>2, <1>7, <1>8, <2>1 DEF PointerInv, PointerTypes
  <1>10. \A v \in Users : ~Freeing(v, n)
    BY <1>4 DEF PointerInv, CallsInv, Freeing
  <1>11. CallsInv'
    <2>1. ASSUME NEW v \in Users, v # u, at[v] \in {"object", "node"}
          PROVE  node'[call[v].old] = node[call[v].old]
      BY <1>7, <1>10, <2>1 DEF PointerInv, CallsInv, Freeing
    <2>2. a \in {"object", "node"} => node'[n].refs = 0
      BY <1>5, <1>7
    <2>3. ASSUME NEW v \in Users, v # u
          PROVE  /\ at'[v] \in {"sub", "object", "node"} => call'[v].old \in DOMAIN node'
                 /\ at'[v] \in {"object", "node"} =>
                       /\ node'[call'[v].old].refs = 0
                       /\ at'[v] = "object" <=> node'[call'[v].old].object # NoBlock
      <3>1. at'[v] = at[v] /\ call'[v] = call[v]
        BY <1>2, <1>8, <2>3
      <3>2. /\ at[v] \in {"sub", "object", "node"} => call[v].old \in DOMAIN node
            /\ at[v] \in {"object", "node"} =>
                  /\ node[call[v].old].refs = 0
                  /\ at[v] = "object" <=> node[call[v].old].object # NoBlock
        BY DEF PointerInv, CallsInv
      <3>3. QED
        BY <1>7, <2>1, <2>3, <3>1, <3>2
    <2>4. /\ at'[u] \in {"sub", "object", "node"} => call'[u].old \in DOMAIN node'
          /\ at'[u] \in {"object", "node"} =>
                /\ node'[call'[u].old].refs = 0
                /\ at'[u] = "object" <=> node'[call'[u].old].object # NoBlock
      BY <1>1, <1>2, <1>3, <1>5, <1>7, <1>8, <2>2
    <2>5. /\ \A v \in Users : at'[v] = "idle" => at[v] = "idle"
          /\ \A v \in Users : at'[v] # "idle" => at[v] # "idle"
          /\ \A v \in Users : at'[v] = "make" => call[v].object # NoBlock
      BY <1>2, <1>5, <1>8 DEF PointerInv, CallsInv
    <2>6. QED
      BY <1>2, <1>7, <2>3, <2>4, <2>5 DEF PointerInv, CallsInv
  <1>12. Separate'
    BY <1>2 DEF PointerInv, Separate
  <1>13. \A k : Carrying(k)' = Carrying(k)
    BY <1>2 DEF Carrying
  <1>14. \A k : Live(k)' = IF k = n THEN Live(n) \ {p} ELSE Live(k)
    <2>1. \A v \in Users : v # u => (Past(v)' <=> Past(v))
      BY <1>8 DEF Past
    <2>2. Past(u)' /\ ~Past(u)
      BY <1>2, <1>5, <1>8 DEF Past
    <2>3. \A k, r : r \in Live(k)' <=> r \in Live(k) /\ r # p
      BY <1>1, <1>2, <2>1, <2>2 DEF Live
    <2>4. \A k : p \in Live(k) => k = n
      BY <1>3 DEF Live
    <2>5. QED
      BY <2>3, <2>4
  <1>15. LiveInv'
    BY <1>7, <1>14 DEF PointerInv, LiveInv
  <1>16. CountInv'
    <2>1. ASSUME NEW m \in DOMAIN node, m # n
          PROVE  node'[m].refs = Cardinality(Live(m)') + Cardinality(Carrying(m)')
      BY <1>7, <1>13, <1>14, <2>1 DEF PointerInv, CountInv
    <2>2. node'[n].refs = Cardinality(Live(n)') + Cardinality(Carrying(n)')
      <3>1. Cardinality(Live(n) \ {p}) = Cardinality(Live(n)) - 1
        BY <1>4, ReferencesFinite, CountFacts
      <3>2. node[n].refs = Cardinality(Live(n)) + Cardinality(Carrying(n))
        BY <1>3 DEF PointerInv, CountInv
      <3>3. Cardinality(Live(n)) \in Nat /\ Cardinality(Carrying(n)) \in Nat
        BY ReferencesFinite
      <3>4. QED
        BY <1>7, <1>13, <1>14, <3>1, <3>2, <3>3
    <2>3. QED
      BY <1>7, <2>1, <2>2 DEF CountInv
  <1>17. FreeingInv'
    <2>1. \A v \in Users : \A m : m # n => (Freeing(v, m)' <=> Freeing(v, m))
      BY <1>1, <1>2, <1>5, <1>8 DEF Freeing
    <2>2. \A v \in Users : Freeing(v, n)' => v = u
      BY <1>2, <1>8, <1>10 DEF Freeing
    <2>3. node'[n].refs = 0 => Freeing(u, n)'
      BY <1>1, <1>2, <1>4, <1>5, <1>7, <1>8 DEF Freeing
    <2>4. ASSUME NEW m \in DOMAIN node
          PROVE  /\ node'[m].refs = 0 => \E v \in Users : Freeing(v, m)'
                 /\ \A v, w \in Users : Freeing(v, m)' /\ Freeing(w, m)' => v = w
      <3>1. CASE m = n
        BY <2>2, <2>3, <3>1
      <3>2. CASE m # n
        BY <1>7, <2>1, <3>2 DEF PointerInv, FreeingInv
      <3>3. QED
        BY <3>1, <3>2
    <2>5. QED
      BY <1>7, <2>4 DEF FreeingInv
  <1>18. OwnersInv'
    <2>1. \A m \in DOMAIN node : node'[m].object = node[m].object
      BY <1>7
    <2>2. QED
      BY <1>2, <1>7, <2>1 DEF PointerInv, OwnersInv
  <1>19. QED
    BY <1>6, <1>9, <1>11, <1>12, <1>15, <1>16, <1>17, <1>18 DEF PointerInv

\* A call ends: the thread is idle, and has nothing.
LEMMA DoneFacts ==
    ASSUME PointerInv, NEW u \in Users, Done(u)
    PROVE  /\ at' \in [Users -> Stages] /\ call' \in [Users -> Calls]
           /\ at'[u] = "idle" /\ call'[u] = Nothing
           /\ call'[u].of = NoBlock /\ call'[u].from = NoBlock /\ call'[u].old = NoBlock
           /\ call'[u].to = NoBlock /\ call'[u].object = NoBlock
           /\ \A v \in Users : v # u => at'[v] = at[v] /\ call'[v] = call[v]
  <1>1. Nothing \in Calls
    BY DEF Nothing, Calls, MaybeBlock
  <1>2. at' = [at EXCEPT ![u] = "idle"] /\ call' = [call EXCEPT ![u] = Nothing]
    BY DEF Done, Goes
  <1>3. at'[u] = "idle" /\ call'[u] = Nothing
    BY <1>2 DEF PointerInv, PointerTypes
  <1>4. QED
    BY <1>1, <1>2, <1>3 DEF PointerInv, PointerTypes, Stages, Nothing

\* AssignNode: the reference that was on its way is the pointer's.
LEMMA AssignKeeps ==
    ASSUME PointerInv, NEW u \in Users, AssignNode(u)
    PROVE  PointerInv'
  <1>1. PICK p, q, t : p = call[u].of /\ q = call[u].from /\ t = call[u].to
    OBVIOUS
  <1>2. /\ at[u] = "assign" /\ Done(u) /\ UNCHANGED <<chunks, held, node>>
        /\ refNode' = [r \in Pointers |-> IF r = p THEN t ELSE IF r = q THEN NoBlock
                                          ELSE refNode[r]]
    BY <1>1 DEF AssignNode, slabVars
  <1>3. /\ p \in Pointers /\ t \in DOMAIN node \cup {NoBlock} /\ t \in MaybeBlock /\ p # NoBlock
        /\ q \in Pointers \cup {NoBlock} /\ q # p
        /\ q # NoBlock => refNode[q] = t
    BY <1>1, <1>2, PointerFacts DEF PointerInv, CallsInv
  <1>4. /\ at' \in [Users -> Stages] /\ call' \in [Users -> Calls]
        /\ at'[u] = "idle" /\ call'[u] = Nothing
        /\ call'[u].of = NoBlock /\ call'[u].from = NoBlock /\ call'[u].old = NoBlock
        /\ call'[u].to = NoBlock /\ call'[u].object = NoBlock
        /\ \A v \in Users : v # u => at'[v] = at[v] /\ call'[v] = call[v]
    BY <1>2, DoneFacts
  <1>5. SlabInv'
    BY <1>2, SlabStep DEF PointerInv, slabVars
  <1>6. /\ refNode'[p] = t
        /\ q # NoBlock => refNode'[q] = NoBlock
        /\ \A r \in Pointers : r # p /\ r # q => refNode'[r] = refNode[r]
    BY <1>2, <1>3
  <1>7. PointerTypes'
    <2>1. refNode' \in [Pointers -> MaybeBlock]
      BY <1>2, <1>3 DEF PointerInv, PointerTypes, MaybeBlock
    <2>2. QED
      BY <1>2, <1>4, <2>1 DEF PointerInv, PointerTypes
  <1>8. \A v \in Users : v # u => /\ call[v].of # p /\ (call[v].of = q => q = NoBlock)
                                  /\ call[v].from # p /\ (call[v].from = q => q = NoBlock)
    BY <1>1, <1>3 DEF PointerInv, Separate
  <1>9. CallsInv'
    <2>1. ASSUME NEW v \in Users, v # u
          PROVE  /\ at[v] # "idle" => refNode'[call[v].of] = refNode[call[v].of]
                 /\ call[v].from # NoBlock => refNode'[call[v].from] = refNode[call[v].from]
      <3>1. at[v] # "idle" => call[v].of \in Pointers /\ call[v].of # p /\ call[v].of # q
        BY <1>8, <2>1, PointerFacts DEF PointerInv, CallsInv
      <3>2. call[v].from # NoBlock =>
               call[v].from \in Pointers /\ call[v].from # p /\ call[v].from # q
        BY <1>8, <2>1, PointerFacts
      <3>3. QED
        BY <1>6, <3>1, <3>2
    <2>2. QED
      BY <1>2, <1>4, <2>1 DEF PointerInv, CallsInv
  <1>10. Separate'
    <2>1. ASSUME NEW v \in Users, NEW w \in Users, v # w
          PROVE  /\ call'[v].of # NoBlock => call'[v].of \notin {call'[w].of, call'[w].from}
                 /\ call'[v].from # NoBlock => call'[v].from \notin {call'[w].of, call'[w].from}
      <3>1. CASE v = u
        BY <1>4, <3>1
      <3>2. CASE w = u
        BY <1>4, <3>2
      <3>3. CASE v # u /\ w # u
        BY <1>4, <2>1, <3>3 DEF PointerInv, Separate
      <3>4. QED
        BY <3>1, <3>2, <3>3
    <2>2. QED
      BY <2>1 DEF Separate
  <1>11. /\ \A k : p \notin Live(k)
         /\ \A k : p \in Live(k)' <=> k = t
         /\ q # NoBlock => /\ \A k : q \in Live(k) <=> k = t
                           /\ \A k : q \in Live(k)' => k = NoBlock
         /\ \A k, r : r # p /\ r # q => (r \in Live(k)' <=> r \in Live(k))
    <2>1. Past(u)
      BY <1>2 DEF Past
    <2>2. \A v \in Users : v # u => (Past(v)' <=> Past(v))
      BY <1>4 DEF Past
    <2>3. \A k : p \notin Live(k)
      BY <1>1, <2>1 DEF Live
    <2>4. \A k : p \in Live(k)' <=> k = t
      BY <1>3, <1>4, <1>6, <1>8 DEF Live
    <2>5. q # NoBlock => \A k : q \in Live(k) <=> k = t
      BY <1>1, <1>3, CallsAreLive DEF Live
    <2>6. q # NoBlock => \A k : q \in Live(k)' => k = NoBlock
      BY <1>6 DEF Live
    <2>7. ASSUME NEW k, NEW r, r # p, r # q PROVE r \in Live(k)' <=> r \in Live(k)
      <3>1. r \in Pointers => refNode'[r] = refNode[r] /\ r # NoBlock
        BY <1>6, <2>7, PointerFacts
      <3>2. ASSUME r \in Pointers, NEW v \in Users
            PROVE  (call'[v].of = r => ~Past(v)') <=> (call[v].of = r => ~Past(v))
        BY <1>1, <1>4, <2>2, <2>7, <3>1, <3>2
      <3>3. QED
        BY <3>1, <3>2 DEF Live
    <2>8. QED
      BY <2>3, <2>4, <2>5, <2>6, <2>7
  <1>12. LiveInv'
    <2>1. ASSUME NEW k, NEW r \in Live(k)' PROVE k \in DOMAIN node \cup {NoBlock}
      <3>1. CASE r # p /\ r # q
        BY <1>11, <3>1 DEF PointerInv, LiveInv
      <3>2. CASE r = p
        BY <1>3, <1>11, <3>2
      <3>3. CASE r = q
        <4>1. r \in Pointers
          BY DEF Live
        <4>2. q # NoBlock
          BY <3>3, <4>1, PointerFacts
        <4>3. QED
          BY <1>11, <3>3, <4>2
      <3>4. QED
        BY <3>1, <3>2, <3>3
    <2>2. QED
      BY <1>2, <2>1 DEF LiveInv
  <1>13. \A k : k # NoBlock /\ k # t => Live(k)' = Live(k) /\ Carrying(k)' = Carrying(k)
    <2>1. ASSUME NEW k, k # NoBlock, k # t PROVE Live(k)' = Live(k)
      <3>1. \A r : r \in Live(k)' <=> r \in Live(k)
        <4>1. ASSUME NEW r, r = q PROVE r \in Live(k)' <=> r \in Live(k)
          <5>1. CASE q = NoBlock
            BY <4>1, <5>1, PointerFacts DEF Live
          <5>2. CASE q # NoBlock
            BY <1>11, <2>1, <4>1, <5>2
          <5>3. QED
            BY <5>1, <5>2
        <4>2. QED
          BY <1>11, <2>1, <4>1
      <3>2. QED
        BY <3>1
    <2>2. ASSUME NEW k, k # NoBlock, k # t PROVE Carrying(k)' = Carrying(k)
      BY <1>1, <1>4, <2>2 DEF Carrying
    <2>3. QED
      BY <2>1, <2>2
  <1>14. t # NoBlock => Cardinality(Live(t)') + Cardinality(Carrying(t)')
                           = Cardinality(Live(t)) + Cardinality(Carrying(t))
    <2> SUFFICES ASSUME t # NoBlock
                 PROVE  Cardinality(Live(t)') + Cardinality(Carrying(t)')
                           = Cardinality(Live(t)) + Cardinality(Carrying(t))
      OBVIOUS
    <2>1. /\ IsFiniteSet(Live(t)) /\ IsFiniteSet(Carrying(t))
          /\ Cardinality(Live(t)) \in Nat /\ Cardinality(Carrying(t)) \in Nat
      BY ReferencesFinite
    <2>2. CASE q = NoBlock
      <3>1. Live(t)' = Live(t) \cup {p} /\ p \notin Live(t)
        <4>1. \A r : r = NoBlock => r \notin Live(t) /\ r \notin Live(t)'
          BY PointerFacts DEF Live
        <4>2. \A r : r \in Live(t)' <=> r \in Live(t) \/ r = p
          BY <1>11, <2>2, <4>1
        <4>3. QED
          BY <1>11, <4>2
      <3>2. Carrying(t)' = Carrying(t) \ {u} /\ u \in Carrying(t)
        BY <1>1, <1>4, <2>2 DEF Carrying
      <3>3. /\ Cardinality(Live(t)') = Cardinality(Live(t)) + 1
            /\ Cardinality(Carrying(t)') = Cardinality(Carrying(t)) - 1
        BY <2>1, <3>1, <3>2, CountFacts
      <3>4. QED
        BY <2>1, <3>3
    <2>3. CASE q # NoBlock
      <3>1. /\ Live(t)' = (Live(t) \ {q}) \cup {p} /\ q \in Live(t)
            /\ p \notin Live(t) \ {q}
        <4>1. \A r : r \in Live(t)' <=> (r \in Live(t) /\ r # q) \/ r = p
          BY <1>3, <1>11, <2>3
        <4>2. QED
          BY <1>11, <2>3, <4>1
      <3>2. Carrying(t)' = Carrying(t)
        BY <1>1, <1>4, <2>3 DEF Carrying
      <3>3. /\ IsFiniteSet(Live(t) \ {q})
            /\ Cardinality(Live(t) \ {q}) = Cardinality(Live(t)) - 1
        BY <2>1, <3>1, CountFacts, FS_RemoveElement
      <3>4. Cardinality(Live(t)') = Cardinality(Live(t) \ {q}) + 1
        BY <3>1, <3>3, CountFacts
      <3>5. QED
        BY <2>1, <3>2, <3>3, <3>4
    <2>4. QED
      BY <2>2, <2>3
  <1>15. CountInv'
    <2>1. ASSUME NEW n \in DOMAIN node
          PROVE  node[n].refs = Cardinality(Live(n)') + Cardinality(Carrying(n)')
      <3>1. n # NoBlock /\ node[n].refs = Cardinality(Live(n)) + Cardinality(Carrying(n))
        BY PointerFacts DEF PointerInv, CountInv
      <3>2. QED
        BY <1>13, <1>14, <3>1
    <2>2. QED
      BY <1>2, <2>1 DEF CountInv
  <1>16. FreeingInv'
    <2>1. \A v \in Users : \A m : Freeing(v, m)' <=> Freeing(v, m)
      BY <1>2, <1>4 DEF Freeing
    <2>2. QED
      BY <1>2, <2>1 DEF PointerInv, FreeingInv
  <1>17. OwnersInv'
    BY <1>2, <1>4 DEF PointerInv, OwnersInv
  <1>18. QED
    BY <1>5, <1>7, <1>9, <1>10, <1>12, <1>15, <1>16, <1>17 DEF PointerInv

\* A pointer without a call is not being overwritten.
LEMMA AvailableFacts ==
    ASSUME PointerInv, NEW u \in Users, NEW p \in Pointers, Available(u, p)
    PROVE  /\ at[u] = "idle" /\ p # NoBlock
           /\ call[u].of = NoBlock /\ call[u].from = NoBlock /\ call[u].old = NoBlock
           /\ call[u].to = NoBlock /\ call[u].object = NoBlock
           /\ \A v \in Users : call[v].of # p /\ call[v].from # p
  BY PointerFacts DEF Available

\* MakeIns and MakeNode: p gets the new node g, whose object o is the one of u's call, if any,
\* and the call is over.
Made(u, p, g, o) ==
    /\ at[u] \in {"idle", "make"}
    /\ o = call[u].object /\ call[u].to = NoBlock /\ call[u].from = NoBlock
    /\ call[u].of \in {p, NoBlock}
    /\ p \in Live(refNode[p]) => refNode[p] = NoBlock
    /\ \A v \in Users : v # u => call[v].of # p /\ call[v].from # p
    /\ SlabInv' /\ g \in Blocks /\ g # NoBlock /\ g \notin held /\ held' = held \cup {g}
    /\ AddNode(g, o) /\ refNode' = [refNode EXCEPT ![p] = g]
    /\ at' \in [Users -> Stages] /\ call' \in [Users -> Calls]
    /\ at'[u] = "idle" /\ call'[u] = Nothing
    /\ \A v \in Users : v # u => at'[v] = at[v] /\ call'[v] = call[v]

\* A new node has its pointer, and a count of one.
LEMMA NodeMade ==
    ASSUME PointerInv, NEW u \in Users, NEW p \in Pointers, NEW g, NEW o, Made(u, p, g, o)
    PROVE  PointerInv'
  <1> USE DEF Made
  <1>1. /\ refNode'[p] = g /\ refNode' \in [Pointers -> MaybeBlock]
        /\ \A r \in Pointers : r # p => refNode'[r] = refNode[r]
    BY DEF PointerInv, PointerTypes, MaybeBlock
  <1>2. /\ g \notin DOMAIN node /\ o \in MaybeBlock /\ p # NoBlock
        /\ \A n \in DOMAIN node : n # NoBlock
    BY PointerFacts
  <1>3. /\ DOMAIN node' = DOMAIN node \cup {g}
        /\ node'[g].refs = 1 /\ node'[g].object = o
        /\ \A n \in DOMAIN node : node'[n] = node[n]
        /\ node' \in [DOMAIN node' -> Nodes]
    <2>1. node' = [n \in DOMAIN node \cup {g} |->
                      IF n = g THEN [refs |-> 1, object |-> o] ELSE node[n]]
      BY DEF AddNode
    <2>2. [refs |-> 1, object |-> o] \in Nodes
      BY <1>2 DEF Nodes
    <2>3. \A n \in DOMAIN node : node[n] \in Nodes
      BY DEF PointerInv, PointerTypes
    <2>4. QED
      BY <1>2, <2>1, <2>2, <2>3
  <1>4. PointerTypes'
    BY <1>1, <1>3 DEF PointerInv, PointerTypes
  <1>5. /\ call'[u].of = NoBlock /\ call'[u].from = NoBlock /\ call'[u].old = NoBlock
        /\ call'[u].to = NoBlock /\ call'[u].object = NoBlock
    BY DEF Nothing
  <1>6. CallsInv'
    <2>1. ASSUME NEW v \in Users, v # u
          PROVE  /\ at[v] # "idle" => refNode'[call[v].of] = refNode[call[v].of]
                 /\ call[v].from # NoBlock => refNode'[call[v].from] = refNode[call[v].from]
      <3>1. at[v] # "idle" => call[v].of \in Pointers /\ call[v].of # p
        BY <2>1 DEF PointerInv, CallsInv
      <3>2. call[v].from # NoBlock => call[v].from \in Pointers /\ call[v].from # p
        BY <2>1, PointerFacts
      <3>3. QED
        BY <1>1, <3>1, <3>2
    <2>2. QED
      BY <1>3, <1>5, <2>1 DEF PointerInv, CallsInv
  <1>7. Separate'
    <2>1. ASSUME NEW v \in Users, NEW w \in Users, v # w
          PROVE  /\ call'[v].of # NoBlock => call'[v].of \notin {call'[w].of, call'[w].from}
                 /\ call'[v].from # NoBlock => call'[v].from \notin {call'[w].of, call'[w].from}
      <3>1. CASE v = u
        BY <1>5, <3>1
      <3>2. CASE w = u
        BY <1>5, <3>2
      <3>3. CASE v # u /\ w # u
        BY <2>1, <3>3 DEF PointerInv, Separate
      <3>4. QED
        BY <3>1, <3>2, <3>3
    <2>2. QED
      BY <2>1 DEF Separate
  <1>8. /\ \A k : p \in Live(k)' <=> k = g
        /\ \A k : p \in Live(k) => k = NoBlock
        /\ \A k, r : r # p => (r \in Live(k)' <=> r \in Live(k))
    <2>1. \A v \in Users : v # u => (Past(v)' <=> Past(v))
      BY DEF Past
    <2>2. \A k : p \in Live(k)' <=> k = g
      BY <1>1, <1>2, <1>5 DEF Live
    <2>3. \A k : p \in Live(k) => k = NoBlock
      <3>1. \A k : p \in Live(k) => k = refNode[p]
        BY DEF Live
      <3>2. QED
        BY <3>1
    <2>4. ASSUME NEW k, NEW r, r # p PROVE r \in Live(k)' <=> r \in Live(k)
      <3>1. r \in Pointers => refNode'[r] = refNode[r] /\ r # NoBlock
        BY <1>1, <2>4, PointerFacts
      <3>2. ASSUME r \in Pointers, NEW v \in Users
            PROVE  (call'[v].of = r => ~Past(v)') <=> (call[v].of = r => ~Past(v))
        BY <1>5, <2>1, <2>4, <3>1, <3>2
      <3>3. QED
        BY <3>1, <3>2 DEF Live
    <2>5. QED
      BY <2>2, <2>3, <2>4
  <1>9. \A k : k # NoBlock => Carrying(k)' = Carrying(k)
    BY <1>5 DEF Carrying
  <1>10. LiveInv'
    <2>1. ASSUME NEW k, NEW r \in Live(k)' PROVE k \in DOMAIN node' \cup {NoBlock}
      <3>1. CASE r # p
        BY <1>3, <1>8, <3>1 DEF PointerInv, LiveInv
      <3>2. CASE r = p
        BY <1>3, <1>8, <3>2
      <3>3. QED
        BY <3>1, <3>2
    <2>2. QED
      BY <2>1 DEF LiveInv
  <1>11. Live(g) = {} /\ Carrying(g) = {}
    BY <1>2 DEF PointerInv, LiveInv, CallsInv, Carrying
  <1>12. CountInv'
    <2>1. node'[g].refs = Cardinality(Live(g)') + Cardinality(Carrying(g)')
      <3>1. Live(g)' = {p} /\ Carrying(g)' = {}
        BY <1>8, <1>9, <1>11
      <3>2. Cardinality({p}) = 1 /\ Cardinality({}) = 0
        BY FS_Singleton, FS_EmptySet
      <3>3. QED
        BY <1>3, <3>1, <3>2
    <2>2. ASSUME NEW n \in DOMAIN node
          PROVE  node'[n].refs = Cardinality(Live(n)') + Cardinality(Carrying(n)')
      <3>1. n # g /\ n # NoBlock
        BY <1>2
      <3>2. Live(n)' = Live(n)
        <4>1. \A r : r \in Live(n)' <=> r \in Live(n)
          BY <1>8, <3>1
        <4>2. QED
          BY <4>1
      <3>3. QED
        BY <1>3, <1>9, <3>1, <3>2 DEF PointerInv, CountInv
    <2>3. QED
      BY <1>3, <2>1, <2>2 DEF CountInv
  <1>13. FreeingInv'
    <2>1. \A v \in Users : \A m : Freeing(v, m)' <=> Freeing(v, m)
      BY DEF Freeing
    <2>2. \A v \in Users : ~Freeing(v, g)
      BY <1>2 DEF PointerInv, CallsInv, Freeing
    <2>3. ASSUME NEW m \in DOMAIN node
          PROVE  /\ node'[m].refs = 0 => \E v \in Users : Freeing(v, m)'
                 /\ \A v, w \in Users : Freeing(v, m)' /\ Freeing(w, m)' => v = w
      BY <1>3, <2>1 DEF PointerInv, FreeingInv
    <2>4. QED
      BY <1>3, <2>1, <2>2, <2>3 DEF FreeingInv
  <1>14. OwnersInv'
    <2>1. ASSUME NEW n \in DOMAIN node, node[n].object # NoBlock
          PROVE  /\ node[n].object \in held' \ DOMAIN node'
                 /\ node[n].object # o
                 /\ \A v \in Users : call'[v].object # node[n].object
      <3>1. /\ node[n].object \in held \ DOMAIN node
            /\ \A v \in Users : call[v].object # node[n].object
        BY <2>1 DEF PointerInv, OwnersInv
      <3>2. \A v \in Users : call'[v].object \in {call[v].object, NoBlock}
        BY <1>5
      <3>3. QED
        BY <1>3, <2>1, <3>1, <3>2
    <2>2. o # NoBlock => /\ o \in held' \ DOMAIN node'
                         /\ \A v \in Users : call'[v].object # o
      <3>1. o # NoBlock => o \in held \ DOMAIN node /\ \A v \in Users : v # u => call[v].object # o
        BY DEF PointerInv, OwnersInv
      <3>2. QED
        BY <1>3, <1>5, <3>1
    <2>3. ASSUME NEW v \in Users, call'[v].object # NoBlock
          PROVE  /\ call'[v].object \in held' \ DOMAIN node'
                 /\ \A w \in Users : call'[w].object = call'[v].object => w = v
      <3>1. v # u /\ call'[v].object = call[v].object /\ call[v].object # NoBlock
        BY <1>5, <2>3
      <3>2. /\ call[v].object \in held \ DOMAIN node
            /\ \A w \in Users : call[w].object = call[v].object => w = v
        BY <3>1 DEF PointerInv, OwnersInv
      <3>3. \A w \in Users : call'[w].object \in {call[w].object, NoBlock}
        BY <1>5
      <3>4. QED
        BY <1>3, <3>1, <3>2, <3>3
    <2>4. \A n \in DOMAIN node' : node'[n].object # NoBlock =>
             /\ node'[n].object \in held' \ DOMAIN node'
             /\ \A v \in Users : call'[v].object # node'[n].object
      BY <1>3, <2>1, <2>2
    <2>5. \A n, m \in DOMAIN node' :
             node'[n].object # NoBlock /\ node'[m].object = node'[n].object => m = n
      BY <1>3, <2>1 DEF PointerInv, OwnersInv
    <2>6. QED
      BY <2>3, <2>4, <2>5 DEF OwnersInv
  <1>15. QED
    BY <1>4, <1>6, <1>7, <1>10, <1>12, <1>13, <1>14 DEF PointerInv

\* MakeIns: a node with its object inside.
LEMMA MakeInsKeeps ==
    ASSUME PointerInv, NEW u \in Users, NEW p \in Pointers, MakeIns(u, p)
    PROVE  PointerInv'
  <1>1. PICK g : g = GivenBlock
    OBVIOUS
  <1>2. /\ Available(u, p) /\ refNode[p] = NoBlock /\ \E a \in Addresses : Given(a)
        /\ AddNode(g, NoBlock) /\ refNode' = [refNode EXCEPT ![p] = g]
        /\ at' = at /\ call' = call
    BY <1>1 DEF MakeIns
  <1>3. /\ SlabInv' /\ g \in Blocks /\ g # NoBlock /\ g \notin held /\ held' = held \cup {g}
    BY <1>1, <1>2, GivenFacts DEF PointerInv
  <1>4. /\ at[u] = "idle" /\ call[u].object = NoBlock /\ call[u].to = NoBlock
        /\ call[u].from = NoBlock /\ call[u].of = NoBlock
        /\ \A v \in Users : call[v].of # p /\ call[v].from # p
    BY <1>2, AvailableFacts
  <1>5. at' \in [Users -> Stages] /\ call' \in [Users -> Calls] /\ call'[u] = Nothing
    BY <1>2, <1>4 DEF PointerInv, PointerTypes, CallsInv
  <1>6. /\ at[u] \in {"idle", "make"} /\ NoBlock = call[u].object
        /\ call[u].of \in {p, NoBlock}
        /\ p \in Live(refNode[p]) => refNode[p] = NoBlock
        /\ \A v \in Users : v # u => call[v].of # p /\ call[v].from # p
        /\ at'[u] = "idle"
        /\ \A v \in Users : v # u => at'[v] = at[v] /\ call'[v] = call[v]
    BY <1>2, <1>4
  <1>7. Made(u, p, g, NoBlock)
    BY <1>2, <1>3, <1>4, <1>5, <1>6 DEF Made
  <1>8. QED
    BY <1>7, NodeMade

\* MakeNode: the node of an object that was allocated before.
LEMMA MakeNodeKeeps ==
    ASSUME PointerInv, NEW u \in Users, MakeNode(u)
    PROVE  PointerInv'
  <1>1. PICK g, p, o : g = GivenBlock /\ p = call[u].of /\ o = call[u].object
    OBVIOUS
  <1>2. /\ at[u] = "make" /\ \E a \in Addresses : Given(a)
        /\ AddNode(g, o) /\ refNode' = [refNode EXCEPT ![p] = g] /\ Done(u)
    BY <1>1 DEF MakeNode
  <1>3. /\ SlabInv' /\ g \in Blocks /\ g # NoBlock /\ g \notin held /\ held' = held \cup {g}
    BY <1>1, <1>2, GivenFacts DEF PointerInv
  <1>4. /\ at' \in [Users -> Stages] /\ call' \in [Users -> Calls]
        /\ at'[u] = "idle" /\ call'[u] = Nothing
        /\ \A v \in Users : v # u => at'[v] = at[v] /\ call'[v] = call[v]
    BY <1>2, DoneFacts
  <1>5. p \in Pointers /\ o # NoBlock /\ call[u].to = NoBlock /\ call[u].from = NoBlock
    BY <1>1, <1>2 DEF PointerInv, CallsInv
  <1>6. p \notin Live(refNode[p])
    BY <1>1, <1>2 DEF Live, Past
  <1>7. \A v \in Users : v # u => call[v].of # p /\ call[v].from # p
    BY <1>1, <1>5, PointerFacts DEF PointerInv, Separate
  <1>8. /\ at[u] \in {"idle", "make"} /\ o = call[u].object
        /\ call[u].of \in {p, NoBlock}
        /\ p \in Live(refNode[p]) => refNode[p] = NoBlock
    BY <1>1, <1>2, <1>6
  <1>9. Made(u, p, g, o)
    BY <1>2, <1>3, <1>4, <1>5, <1>7, <1>8 DEF Made
  <1>10. QED
    BY <1>5, <1>9, NodeMade

\* Thread u begins a call that is to give p the reference t, or a node for the object o; t
\* comes from the pointer q, or is counted already.
Begins(u, p, q, t, o) ==
    /\ p \in Pointers /\ q \in Pointers \cup {NoBlock}
    /\ t \in DOMAIN node \cup {NoBlock} /\ o \in MaybeBlock
    /\ Available(u, p)
    /\ q # NoBlock => Available(u, q) /\ q # p /\ refNode[q] = t
    /\ o # NoBlock => t = NoBlock /\ q = NoBlock
    /\ \E c \in Calls :
          /\ c.of = p /\ c.from = q /\ c.old = refNode[p] /\ c.to = t /\ c.object = o
          /\ call' = [call EXCEPT ![u] = c]
    /\ Goes(u, IF refNode[p] # NoBlock THEN "sub" ELSE IF o # NoBlock THEN "make" ELSE "assign")
    /\ refNode' = refNode
    /\ IF t # NoBlock /\ q = NoBlock
       THEN node[t].refs >= 1 /\ node' = [node EXCEPT ![t].refs = @ + 1]
       ELSE node' = node
    /\ SlabInv'
    /\ IF o # NoBlock THEN o \notin held /\ held' = held \cup {o} ELSE held' = held

\* The beginning of a call keeps it, with the count of what it copies one higher.
LEMMA BeginsKeeps ==
    ASSUME PointerInv, NEW u \in Users, NEW p, NEW q, NEW t, NEW o, Begins(u, p, q, t, o)
    PROVE  PointerInv'
  <1> DEFINE a == IF refNode[p] # NoBlock THEN "sub" ELSE IF o # NoBlock THEN "make" ELSE "assign"
  <1>1. /\ p \in Pointers /\ q \in Pointers \cup {NoBlock} /\ p # NoBlock
        /\ t \in DOMAIN node \cup {NoBlock} /\ o \in MaybeBlock
        /\ refNode' = refNode /\ SlabInv' /\ refNode[p] \in MaybeBlock
    BY PointerFacts DEF Begins, PointerInv, PointerTypes
  <1>2. /\ at[u] = "idle"
        /\ call[u].of = NoBlock /\ call[u].from = NoBlock /\ call[u].old = NoBlock
        /\ call[u].to = NoBlock /\ call[u].object = NoBlock
        /\ \A v \in Users : call[v].of # p /\ call[v].from # p
    BY <1>1, AvailableFacts DEF Begins
  <1>3. q # NoBlock => /\ q # p /\ refNode[q] = t
                       /\ \A v \in Users : call[v].of # q /\ call[v].from # q
    BY <1>1, AvailableFacts DEF Begins
  <1>4. o # NoBlock => t = NoBlock /\ q = NoBlock
    BY DEF Begins
  <1>5. /\ a \in {"sub", "make", "assign"} /\ a \in Stages
        /\ a = "sub" <=> refNode[p] # NoBlock
        /\ a = "make" => o # NoBlock
    BY DEF Stages
  <1>6. /\ at' \in [Users -> Stages] /\ at'[u] = a
        /\ \A v \in Users : v # u => at'[v] = at[v]
    <2>1. at' = [at EXCEPT ![u] = a]
      BY DEF Begins, Goes
    <2> HIDE DEF a
    <2>2. QED
      BY <1>5, <2>1 DEF PointerInv, PointerTypes
  <1> HIDE DEF a
  <1>7. /\ call' \in [Users -> Calls]
        /\ call'[u].of = p /\ call'[u].from = q /\ call'[u].old = refNode[p]
        /\ call'[u].to = t /\ call'[u].object = o
        /\ \A v \in Users : v # u => call'[v] = call[v]
    <2>1. PICK c \in Calls :
             /\ c.of = p /\ c.from = q /\ c.old = refNode[p] /\ c.to = t /\ c.object = o
             /\ call' = [call EXCEPT ![u] = c]
      BY DEF Begins
    <2>2. call'[u] = c /\ call' \in [Users -> Calls] /\ \A v \in Users : v # u => call'[v] = call[v]
      BY <2>1 DEF PointerInv, PointerTypes
    <2>3. QED
      BY <2>1, <2>2
  <1>8. /\ DOMAIN node' = DOMAIN node
        /\ node' \in [DOMAIN node' -> Nodes]
        /\ \A n \in DOMAIN node : node'[n].object = node[n].object
        /\ \A n \in DOMAIN node :
              node'[n].refs = node[n].refs + IF n = t /\ q = NoBlock THEN 1 ELSE 0
        /\ t # NoBlock /\ q = NoBlock => node[t].refs >= 1
    <2>1. \A n \in DOMAIN node : node[n] \in Nodes /\ n # NoBlock /\ node[n].refs \in Nat
      BY PointerFacts DEF PointerInv, PointerTypes
    <2>2. CASE t # NoBlock /\ q = NoBlock
      <3>1. t \in DOMAIN node /\ node[t].refs >= 1 /\ node' = [node EXCEPT ![t].refs = @ + 1]
        BY <1>1, <2>2 DEF Begins
      <3>2. PICK r, x : r = node[t].refs /\ x = node[t].object
        OBVIOUS
      <3>3. r \in Nat /\ x \in MaybeBlock
        BY <2>1, <3>1, <3>2 DEF Nodes
      <3>4. [node[t] EXCEPT !.refs = @ + 1] = [refs |-> r + 1, object |-> x]
        BY <2>1, <3>1, <3>2 DEF Nodes
      <3>5. node'[t] = [refs |-> r + 1, object |-> x]
        BY <3>1, <3>4
      <3>6. node'[t] \in Nodes
        BY <3>3, <3>5 DEF Nodes
      <3>7. DOMAIN node' = DOMAIN node /\ \A n \in DOMAIN node : n # t => node'[n] = node[n]
        BY <3>1
      <3>8. node' = [n \in DOMAIN node' |-> node'[n]]
        BY <3>1
      <3>9. \A n \in DOMAIN node : node'[n] \in Nodes
        BY <2>1, <3>6, <3>7
      <3>10. node' \in [DOMAIN node' -> Nodes]
        BY <3>7, <3>8, <3>9
      <3>11. \A n \in DOMAIN node :
                 node'[n].refs = node[n].refs + IF n = t /\ q = NoBlock THEN 1 ELSE 0
        BY <2>1, <2>2, <3>2, <3>3, <3>5, <3>7
      <3>12. \A n \in DOMAIN node : node'[n].object = node[n].object
        BY <3>2, <3>5, <3>7
      <3>13. QED
        BY <3>1, <3>7, <3>10, <3>11, <3>12
    <2>3. CASE ~(t # NoBlock /\ q = NoBlock)
      <3>1. node' = node
        BY <2>3 DEF Begins
      <3>2. QED
        BY <2>1, <2>3, <3>1 DEF PointerInv, PointerTypes
    <2>4. QED
      BY <2>2, <2>3
  <1>9. /\ held \subseteq held'
        /\ o # NoBlock => o \in held' /\ o \notin held
        /\ \A n \in DOMAIN node : n \in held
    BY DEF Begins, PointerInv, PointerTypes
  <1>10. PointerTypes'
    BY <1>1, <1>6, <1>7, <1>8, <1>9 DEF PointerInv, PointerTypes
  <1>11. \A v \in Users : \A m : Freeing(v, m)' <=> Freeing(v, m)
    BY <1>2, <1>5, <1>6, <1>7 DEF Freeing
  <1>12. \A v \in Users : \A m : m \in DOMAIN node /\ Freeing(v, m) => node'[m].refs = node[m].refs
    <2>1. ASSUME NEW v \in Users, NEW m \in DOMAIN node, Freeing(v, m)
          PROVE  node'[m].refs = node[m].refs
      <3>1. node[m].refs = 0 /\ m # NoBlock
        BY <2>1, PointerFacts DEF PointerInv, CallsInv, Freeing
      <3>2. ~(m = t /\ q = NoBlock)
        BY <1>8, <3>1
      <3>3. QED
        BY <1>8, <3>1, <3>2
    <2>2. QED
      BY <2>1
  <1>13. CallsInv'
    <2>1. ASSUME NEW v \in Users, v # u, at[v] \in {"object", "node"}
          PROVE  node'[call[v].old].refs = node[call[v].old].refs
      BY <1>12, <2>1 DEF PointerInv, CallsInv, Freeing
    <2>2. a = "sub" => refNode[p] \in DOMAIN node
      BY <1>1, <1>2, <1>5, LiveFacts
    <2>3. ASSUME NEW v \in Users, v # u
          PROVE  /\ at'[v] = "idle" => call'[v] = Nothing
                 /\ at'[v] # "idle" =>
                       call'[v].of \in Pointers /\ call'[v].old = refNode'[call'[v].of]
                 /\ at'[v] \in {"sub", "object", "node"} => call'[v].old \in DOMAIN node'
                 /\ at'[v] \in {"object", "node"} =>
                       /\ node'[call'[v].old].refs = 0
                       /\ at'[v] = "object" <=> node'[call'[v].old].object # NoBlock
                 /\ call'[v].from # NoBlock =>
                       call'[v].from # call'[v].of /\ refNode'[call'[v].from] = call'[v].to
                 /\ call'[v].object # NoBlock => call'[v].to = NoBlock /\ call'[v].from = NoBlock
                 /\ at'[v] = "make" => call'[v].object # NoBlock
                 /\ call'[v].to \in DOMAIN node' \cup {NoBlock}
      BY <1>1, <1>6, <1>7, <1>8, <2>1, <2>3 DEF PointerInv, CallsInv
    <2>4. /\ at'[u] # "idle" /\ call'[u].of \in Pointers /\ call'[u].old = refNode'[call'[u].of]
          /\ at'[u] = "sub" => call'[u].old \in DOMAIN node'
          /\ at'[u] \notin {"object", "node"}
          /\ call'[u].from # NoBlock =>
                call'[u].from # call'[u].of /\ refNode'[call'[u].from] = call'[u].to
          /\ call'[u].object # NoBlock => call'[u].to = NoBlock /\ call'[u].from = NoBlock
          /\ at'[u] = "make" => call'[u].object # NoBlock
          /\ call'[u].to \in DOMAIN node' \cup {NoBlock}
      BY <1>1, <1>3, <1>4, <1>5, <1>6, <1>7, <1>8, <2>2
    <2>5. QED
      BY <2>3, <2>4 DEF CallsInv
  <1>14. Separate'
    <2>1. ASSUME NEW v \in Users, NEW w \in Users, v # w
          PROVE  /\ call'[v].of # NoBlock => call'[v].of \notin {call'[w].of, call'[w].from}
                 /\ call'[v].from # NoBlock => call'[v].from \notin {call'[w].of, call'[w].from}
      <3>1. CASE v = u
        <4>1. call'[w] = call[w]
          BY <1>7, <2>1, <3>1
        <4>2. QED
          BY <1>2, <1>3, <1>7, <3>1, <4>1
      <3>2. CASE w = u
        <4>1. call'[v] = call[v]
          BY <1>7, <2>1, <3>2
        <4>2. /\ call[v].of # p /\ call[v].from # p
              /\ q # NoBlock => call[v].of # q /\ call[v].from # q
          BY <1>2, <1>3
        <4>3. QED
          BY <1>7, <3>2, <4>1, <4>2
      <3>3. CASE v # u /\ w # u
        BY <1>7, <2>1, <3>3 DEF PointerInv, Separate
      <3>4. QED
        BY <3>1, <3>2, <3>3
    <2>2. QED
      BY <2>1 DEF Separate
  <1>15. \A k : k # NoBlock => Live(k)' = Live(k)
    <2>1. \A v \in Users : v # u => (Past(v)' <=> Past(v))
      BY <1>6 DEF Past
    <2>2. Past(u)' => refNode[p] = NoBlock
      BY <1>5, <1>6 DEF Past
    <2>3. ASSUME NEW k, k # NoBlock, NEW r \in Pointers, refNode[r] = k, NEW v \in Users
          PROVE  (call'[v].of = r => ~Past(v)') <=> (call[v].of = r => ~Past(v))
      <3>1. CASE v # u
        BY <1>7, <2>1, <3>1
      <3>2. CASE v = u
        <4>1. call[u].of # r
          BY <1>2, PointerFacts
        <4>2. call'[u].of = r => ~Past(u)'
          BY <1>7, <2>2, <2>3
        <4>3. QED
          BY <3>2, <4>1, <4>2
      <3>3. QED
        BY <3>1, <3>2
    <2>4. ASSUME NEW k, k # NoBlock PROVE Live(k)' = Live(k)
      BY <1>1, <2>3, <2>4 DEF Live
    <2>5. QED
      BY <2>4
  <1>16. \A k : k # NoBlock =>
            Carrying(k)' = IF k = t /\ q = NoBlock THEN Carrying(k) \cup {u} ELSE Carrying(k)
    <2>1. ASSUME NEW k, k # NoBlock, NEW v
          PROVE  v \in Carrying(k)' <=> v \in Carrying(k) \/ (v = u /\ k = t /\ q = NoBlock)
      BY <1>2, <1>7, <2>1 DEF Carrying
    <2>2. QED
      BY <2>1
  <1>17. \A k : k # NoBlock => u \notin Carrying(k)
    BY <1>2 DEF Carrying
  <1>18. LiveInv'
    BY <1>8, <1>15 DEF PointerInv, LiveInv
  <1>19. CountInv'
    <2>1. ASSUME NEW n \in DOMAIN node
          PROVE  node'[n].refs = Cardinality(Live(n)') + Cardinality(Carrying(n)')
      <3>1. n # NoBlock /\ node[n].refs = Cardinality(Live(n)) + Cardinality(Carrying(n))
        BY PointerFacts DEF PointerInv, CountInv
      <3>2. /\ Cardinality(Live(n)) \in Nat /\ Cardinality(Carrying(n)) \in Nat
            /\ Cardinality(Carrying(n) \cup {u}) = Cardinality(Carrying(n)) + 1
        BY <1>17, <3>1, ReferencesFinite, CountFacts
      <3>3. Live(n)' = Live(n)
        BY <1>15, <3>1
      <3>4. CASE n = t /\ q = NoBlock
        <4>1. node'[n].refs = node[n].refs + 1 /\ Carrying(n)' = Carrying(n) \cup {u}
          BY <1>8, <1>16, <3>1, <3>4
        <4>2. QED
          BY <3>1, <3>2, <3>3, <4>1
      <3>5. CASE ~(n = t /\ q = NoBlock)
        <4>1. node'[n].refs = node[n].refs + 0 /\ Carrying(n)' = Carrying(n)
          BY <1>8, <1>16, <3>1, <3>5
        <4>2. QED
          BY <3>1, <3>2, <3>3, <4>1
      <3>6. QED
        BY <3>4, <3>5
    <2>2. QED
      BY <1>8, <2>1 DEF CountInv
  <1>20. FreeingInv'
    <2>1. ASSUME NEW m \in DOMAIN node, node'[m].refs = 0 PROVE node[m].refs = 0
      BY <1>8, <2>1, PointerFacts
    <2>2. QED
      BY <1>8, <1>11, <2>1 DEF PointerInv, FreeingInv
  <1>21. OwnersInv'
    <2>1. ASSUME NEW n \in DOMAIN node, node[n].object # NoBlock
          PROVE  /\ node[n].object \in held' \ DOMAIN node'
                 /\ \A v \in Users : call'[v].object # node[n].object
      <3>1. /\ node[n].object \in held \ DOMAIN node
            /\ \A v \in Users : call[v].object # node[n].object
        BY <2>1 DEF PointerInv, OwnersInv
      <3>2. \A v \in Users : v # u => call'[v].object = call[v].object
        BY <1>7
      <3>3. call'[u].object # node[n].object
        BY <1>7, <1>9, <2>1, <3>1
      <3>4. QED
        BY <1>8, <1>9, <3>1, <3>2, <3>3
    <2>2. ASSUME NEW v \in Users, v # u, call[v].object # NoBlock
          PROVE  /\ call[v].object \in held' \ DOMAIN node'
                 /\ call[v].object # o
                 /\ \A w \in Users : w # u /\ call[w].object = call[v].object => w = v
      <3>1. /\ call[v].object \in held \ DOMAIN node
            /\ \A w \in Users : call[w].object = call[v].object => w = v
        BY <2>2 DEF PointerInv, OwnersInv
      <3>2. QED
        BY <1>8, <1>9, <2>2, <3>1
    <2>3. o # NoBlock => o \in held' \ DOMAIN node'
      BY <1>8, <1>9
    <2>4. ASSUME NEW v \in Users, call'[v].object # NoBlock
          PROVE  /\ call'[v].object \in held' \ DOMAIN node'
                 /\ \A w \in Users : call'[w].object = call'[v].object => w = v
      <3>1. CASE v = u
        BY <1>7, <2>2, <2>3, <2>4, <3>1
      <3>2. CASE v # u
        BY <1>7, <2>2, <2>4, <3>2
      <3>3. QED
        BY <3>1, <3>2
    <2>5. \A n, m \in DOMAIN node' :
             node'[n].object # NoBlock /\ node'[m].object = node'[n].object => m = n
      BY <1>8 DEF PointerInv, OwnersInv
    <2>6. QED
      BY <1>8, <2>1, <2>4, <2>5 DEF OwnersInv
  <1>22. QED
    BY <1>1, <1>10, <1>13, <1>14, <1>18, <1>19, <1>20, <1>21 DEF PointerInv

\* MakeObject: the block of the object belongs to the call.
LEMMA MakeObjectKeeps ==
    ASSUME PointerInv, NEW u \in Users, NEW p \in Pointers, MakeObject(u, p)
    PROVE  PointerInv'
  <1>1. PICK g : g = GivenBlock
    OBVIOUS
  <1>2. /\ Available(u, p) /\ \E a \in Addresses : Given(a)
        /\ call' = [call EXCEPT ![u] = [Nothing EXCEPT !.of = p, !.old = refNode[p], !.object = g]]
        /\ Goes(u, IF refNode[p] = NoBlock THEN "make" ELSE "sub")
        /\ refNode' = refNode /\ node' = node
    BY <1>1 DEF MakeObject
  <1>3. /\ SlabInv' /\ g \in Blocks /\ g # NoBlock /\ g \notin held /\ held' = held \cup {g}
    BY <1>1, <1>2, GivenFacts DEF PointerInv
  <1>4. PICK c \in Calls :
             /\ c.of = p /\ c.from = NoBlock /\ c.old = refNode[p] /\ c.to = NoBlock /\ c.object = g
             /\ call' = [call EXCEPT ![u] = c]
    <2> DEFINE c == [Nothing EXCEPT !.of = p, !.old = refNode[p], !.object = g]
    <2>1. c \in Calls
      BY <1>2, <1>3, PointerFacts DEF PointerInv, PointerTypes, Nothing, Calls, MaybeBlock
    <2>2. c.of = p /\ c.from = NoBlock /\ c.old = refNode[p] /\ c.to = NoBlock /\ c.object = g
      BY DEF Nothing
    <2>3. QED
      BY <1>2, <2>1, <2>2
  <1>5. (IF refNode[p] = NoBlock THEN "make" ELSE "sub")
           = IF refNode[p] # NoBlock THEN "sub" ELSE IF g # NoBlock THEN "make" ELSE "assign"
    BY <1>3
  <1>6. Begins(u, p, NoBlock, NoBlock, g)
    BY <1>2, <1>3, <1>4, <1>5 DEF Begins, MaybeBlock
  <1>7. QED
    BY <1>6, BeginsKeeps

\* CopyFrom: the source has its node, which is alive, so that counting is safe.
LEMMA CopyFromKeeps ==
    ASSUME PointerInv, NEW u \in Users, NEW p \in Pointers, NEW q \in Pointers, CopyFrom(u, p, q)
    PROVE  PointerInv'
  <1>1. PICK t : t = refNode[q]
    OBVIOUS
  <1>2. /\ Available(u, p) /\ Available(u, q)
        /\ IF t = NoBlock THEN node' = node ELSE node' = [node EXCEPT ![t].refs = @ + 1]
        /\ call' = [call EXCEPT ![u] = [Nothing EXCEPT !.of = p, !.old = refNode[p], !.to = t]]
        /\ Goes(u, IF refNode[p] = NoBlock THEN "assign" ELSE "sub")
        /\ UNCHANGED <<chunks, held, refNode>>
    BY <1>1 DEF CopyFrom, slabVars
  <1>3. SlabInv'
    BY <1>2, SlabStep DEF PointerInv, slabVars
  <1>4. t # NoBlock => t \in DOMAIN node /\ node[t].refs >= 1
    BY <1>1, <1>2, AvailableFacts, LiveFacts
  <1>5. PICK c \in Calls :
             /\ c.of = p /\ c.from = NoBlock /\ c.old = refNode[p] /\ c.to = t /\ c.object = NoBlock
             /\ call' = [call EXCEPT ![u] = c]
    <2> DEFINE c == [Nothing EXCEPT !.of = p, !.old = refNode[p], !.to = t]
    <2>1. c \in Calls
      BY <1>2, <1>4, PointerFacts DEF PointerInv, PointerTypes, Nothing, Calls, MaybeBlock
    <2>2. c.of = p /\ c.from = NoBlock /\ c.old = refNode[p] /\ c.to = t /\ c.object = NoBlock
      BY DEF Nothing
    <2>3. QED
      BY <1>2, <2>1, <2>2
  <1>6. (IF refNode[p] = NoBlock THEN "assign" ELSE "sub")
           = IF refNode[p] # NoBlock THEN "sub" ELSE IF NoBlock # NoBlock THEN "make" ELSE "assign"
    OBVIOUS
  <1>7. Begins(u, p, NoBlock, t, NoBlock)
    BY <1>2, <1>3, <1>4, <1>5, <1>6 DEF Begins, MaybeBlock
  <1>8. QED
    BY <1>7, BeginsKeeps

\* MoveFrom: the reference of the source is to change hands.
LEMMA MoveFromKeeps ==
    ASSUME PointerInv, NEW u \in Users, NEW p \in Pointers, NEW q \in Pointers, MoveFrom(u, p, q)
    PROVE  PointerInv'
  <1>1. PICK t : t = refNode[q]
    OBVIOUS
  <1>2. /\ Available(u, p) /\ Available(u, q) /\ refNode[p] # t
        /\ call' = [call EXCEPT ![u] = [Nothing EXCEPT !.of = p, !.from = q, !.old = refNode[p],
                                                       !.to = t]]
        /\ Goes(u, IF refNode[p] = NoBlock THEN "assign" ELSE "sub")
        /\ UNCHANGED <<chunks, held, refNode, node>>
    BY <1>1 DEF MoveFrom, slabVars
  <1>3. SlabInv'
    BY <1>2, SlabStep DEF PointerInv, slabVars
  <1>4. t # NoBlock => t \in DOMAIN node
    BY <1>1, <1>2, AvailableFacts, LiveFacts
  <1>5. PICK c \in Calls :
             /\ c.of = p /\ c.from = q /\ c.old = refNode[p] /\ c.to = t /\ c.object = NoBlock
             /\ call' = [call EXCEPT ![u] = c]
    <2> DEFINE c == [Nothing EXCEPT !.of = p, !.from = q, !.old = refNode[p], !.to = t]
    <2>1. c \in Calls
      BY <1>2, <1>4, PointerFacts DEF PointerInv, PointerTypes, Nothing, Calls, MaybeBlock
    <2>2. c.of = p /\ c.from = q /\ c.old = refNode[p] /\ c.to = t /\ c.object = NoBlock
      BY DEF Nothing
    <2>3. QED
      BY <1>2, <2>1, <2>2
  <1>6. (IF refNode[p] = NoBlock THEN "assign" ELSE "sub")
           = IF refNode[p] # NoBlock THEN "sub" ELSE IF NoBlock # NoBlock THEN "make" ELSE "assign"
    OBVIOUS
  <1>7. q # NoBlock /\ q # p
    BY <1>1, <1>2, PointerFacts
  <1>8. Begins(u, p, q, t, NoBlock)
    BY <1>1, <1>2, <1>3, <1>4, <1>5, <1>6, <1>7 DEF Begins, MaybeBlock
  <1>9. QED
    BY <1>8, BeginsKeeps

\* DropPointer: nothing takes the place of the old reference.
LEMMA DropKeeps ==
    ASSUME PointerInv, NEW u \in Users, NEW p \in Pointers, DropPointer(u, p)
    PROVE  PointerInv'
  <1>1. /\ Available(u, p) /\ refNode[p] # NoBlock
        /\ call' = [call EXCEPT ![u] = [Nothing EXCEPT !.of = p, !.old = refNode[p]]]
        /\ Goes(u, "sub")
        /\ UNCHANGED <<chunks, held, refNode, node>>
    BY DEF DropPointer, slabVars
  <1>2. SlabInv'
    BY <1>1, SlabStep DEF PointerInv, slabVars
  <1>3. PICK c \in Calls :
             /\ c.of = p /\ c.from = NoBlock /\ c.old = refNode[p]
             /\ c.to = NoBlock /\ c.object = NoBlock
             /\ call' = [call EXCEPT ![u] = c]
    <2> DEFINE c == [Nothing EXCEPT !.of = p, !.old = refNode[p]]
    <2>1. c \in Calls
      BY <1>1, PointerFacts DEF PointerInv, PointerTypes, Nothing, Calls, MaybeBlock
    <2>2. c.of = p /\ c.from = NoBlock /\ c.old = refNode[p] /\ c.to = NoBlock /\ c.object = NoBlock
      BY DEF Nothing
    <2>3. QED
      BY <1>1, <2>1, <2>2
  <1>4. "sub" = IF refNode[p] # NoBlock THEN "sub"
                ELSE IF NoBlock # NoBlock THEN "make" ELSE "assign"
    BY <1>1
  <1>5. Begins(u, p, NoBlock, NoBlock, NoBlock)
    BY <1>1, <1>2, <1>3, <1>4 DEF Begins, MaybeBlock
  <1>6. QED
    BY <1>5, BeginsKeeps

\* Every step of every call keeps it.
LEMMA PointerStepKeeps == PointerInv /\ [SlabPointerNext]_slabPointerVars => PointerInv'
  <1> SUFFICES ASSUME PointerInv, [SlabPointerNext]_slabPointerVars PROVE PointerInv'
    OBVIOUS
  <1>1. CASE OtherStep
    BY <1>1, OtherKeeps
  <1>2. ASSUME NEW u \in Users, PointerStep(u) PROVE PointerInv'
    <2>1. CASE MakeNode(u) \/ Sub(u) \/ FreeObject(u) \/ FreeNode(u) \/ AssignNode(u)
      BY <2>1, MakeNodeKeeps, SubKeeps, FreeObjectKeeps, FreeNodeKeeps, AssignKeeps
    <2>2. ASSUME NEW p \in Pointers, MakeIns(u, p) \/ MakeObject(u, p) \/ DropPointer(u, p)
          PROVE  PointerInv'
      BY <2>2, MakeInsKeeps, MakeObjectKeeps, DropKeeps
    <2>3. ASSUME NEW p \in Pointers, NEW q \in Pointers, CopyFrom(u, p, q) \/ MoveFrom(u, p, q)
          PROVE  PointerInv'
      BY <2>3, CopyFromKeeps, MoveFromKeeps
    <2>4. QED
      BY <1>2, <2>1, <2>2, <2>3 DEF PointerStep
  <1>3. CASE UNCHANGED slabPointerVars
    <2>1. UNCHANGED <<chunks, held, refNode, node, at, call>>
      BY <1>3 DEF slabPointerVars, slabVars, pointerVars
    <2>2. SlabInv'
      BY <2>1, SlabStep DEF PointerInv, slabVars
    <2>3. PointerTypes' /\ CallsInv' /\ Separate' /\ FreeingInv' /\ OwnersInv'
      BY <2>1 DEF PointerInv, PointerTypes, CallsInv, Separate, FreeingInv, Freeing, OwnersInv
    <2>4. LiveInv' /\ CountInv'
      BY <2>1 DEF PointerInv, LiveInv, CountInv, Live, Carrying, Past
    <2>5. QED
      BY <2>2, <2>3, <2>4 DEF PointerInv
  <1>4. QED
    BY <1>1, <1>2, <1>3 DEF SlabPointerNext

\* A node and its object are there exactly as long as something refers to the node, are
\* freed once, by one thread, and are nobody else's, in whatever order threads make, copy,
\* move and drop pointers to it.
THEOREM NodesAreExact == SlabPointerSpec => [](SlabPointerTypeOK /\ NodesExact)
  BY InitPointers, PointerStepKeeps, PointerInvFacts, PTL DEF SlabPointerSpec

----------------------------------------------------------------------------
(* The chain of pools *)

\* Doubled is what its definition says.
LEMMA DoubledEquation ==
    /\ Doubled \in [Nat -> Nat]
    /\ \A n \in Nat : Doubled[n] = IF n = 0 THEN 1 ELSE 2 * Doubled[n - 1]
  <1> DEFINE step == [k \in Nat |-> [x \in Nat |-> 2 * x]]
             Def(f) == f = [n \in Nat |-> IF n = 0 THEN 1 ELSE 2 * f[n - 1]]
  <1>1. StepsIn(Nat, step)
    BY DEF StepsIn
  <1>2. \A k \in Nat : \A x \in Nat : step[k][x] = 2 * x
    OBVIOUS
  <1> HIDE DEF step
  <1>3. PICK f : Follows(Nat, 1, step, f)
    <2>1. 1 \in Nat
      OBVIOUS
    <2>2. QED
      BY <1>1, <2>1, Recursion
  <1>4. \A n \in Nat : f[n] = IF n = 0 THEN 1 ELSE 2 * f[n - 1]
    <2>1. ASSUME NEW n \in Nat, n # 0 PROVE f[n] = 2 * f[n - 1]
      <3>1. n - 1 \in Nat
        BY <2>1
      <3>2. f[n - 1] \in Nat
        BY <1>3, <3>1 DEF Follows
      <3>3. QED
        BY <1>2, <1>3, <2>1, <3>2 DEF Value, Follows
    <2>2. QED
      BY <1>3, <2>1 DEF Value, Follows
  <1>5. Def(f)
    BY <1>3, <1>4 DEF Follows
  <1>6. Doubled = CHOOSE h : Def(h)
    BY DEF Doubled
  <1>7. Def(Doubled)
    BY <1>5, <1>6
  <1>8. \A h : Def(h) => \A n \in Nat : h[n] = IF n = 0 THEN 1 ELSE 2 * h[n - 1]
    OBVIOUS
  <1>9. \A n \in Nat : Doubled[n] = IF n = 0 THEN 1 ELSE 2 * Doubled[n - 1]
    BY <1>7, <1>8
  <1>10. DOMAIN Doubled = Nat /\ Doubled = [n \in DOMAIN Doubled |-> Doubled[n]]
    BY <1>7
  <1> DEFINE T == {n \in Nat : Doubled[n] \in Nat}
  <1>11. 0 \in T
    BY <1>9
  <1>12. ASSUME NEW n \in Nat, n \in T PROVE n + 1 \in T
    <2>1. n + 1 \in Nat /\ n + 1 # 0 /\ (n + 1) - 1 = n
      OBVIOUS
    <2>2. Doubled[n + 1] = 2 * Doubled[n]
      BY <1>9, <2>1
    <2>3. QED
      BY <1>12, <2>2
  <1> HIDE DEF T
  <1>13. Nat \subseteq T
    BY <1>11, <1>12, CountingUp
  <1>14. QED
    BY <1>9, <1>10, <1>13 DEF T

\* So it grows beyond every number.
LEMMA DoubledGrows == \A n \in Nat : Doubled[n] \in Nat /\ Doubled[n] > n
  <1> DEFINE T == {n \in Nat : Doubled[n] \in Nat /\ Doubled[n] > n}
  <1>1. 0 \in T
    BY DoubledEquation
  <1>2. ASSUME NEW n \in Nat, n \in T PROVE n + 1 \in T
    <2>1. n + 1 \in Nat /\ n + 1 # 0 /\ (n + 1) - 1 = n
      OBVIOUS
    <2>2. Doubled[n + 1] = 2 * Doubled[n]
      BY <2>1, DoubledEquation
    <2>3. QED
      BY <1>2, <2>2
  <1> HIDE DEF T
  <1>3. Nat \subseteq T
    BY <1>1, <1>2, CountingUp
  <1>4. QED
    BY <1>3 DEF T

\* What the chain is made of
PoolRecs == [capacity : Nat, used : Nat, next : Int]

\* A pool with the next one's object at its end, and the last pool of the chain.
Full(p) == p.next >= 0 /\ p.next + ObjectSize <= p.capacity /\ p.used = p.capacity
Open(p) == p.next = -1 /\ p.used + ObjectSize <= p.capacity

\* A chain with memory
PoolChain(c) ==
    /\ c \in Seq(PoolRecs) /\ Len(c) >= 1
    /\ \A k \in DOMAIN c : IF k < Len(c) THEN Full(c[k]) ELSE Open(c[k])

\* Where the memory ends that pool p has handed out to callers.
End(p) == IF p.next >= 0 THEN p.next ELSE p.used

\* A pool that hands the rest of its memory to the next one's object.
LEMMA SpiltFacts ==
    ASSUME NEW p \in PoolRecs, Open(p)
    PROVE  Spilt(p) \in PoolRecs /\ Full(Spilt(p)) /\ End(Spilt(p)) = End(p)
  <1> DEFINE q == Spilt(p)
  <1>1. q \in PoolRecs
    <2>1. p.used \in Int /\ p.capacity \in Nat
      BY DEF PoolRecs
    <2>2. \A r \in PoolRecs : \A n \in Int : [r EXCEPT !.next = n] \in PoolRecs
      BY DEF PoolRecs
    <2>3. \A r \in PoolRecs : \A n \in Nat : [r EXCEPT !.used = n] \in PoolRecs
      BY DEF PoolRecs
    <2>4. PICK e \in PoolRecs : e = [p EXCEPT !.next = p.used]
      BY <2>1, <2>2
    <2>5. q = [e EXCEPT !.used = p.capacity]
      BY <2>4 DEF Spilt, PoolRecs
    <2>6. QED
      BY <2>1, <2>3, <2>5
  <1>2. q.capacity = p.capacity /\ q.used = p.capacity /\ q.next = p.used
    BY DEF PoolRecs, Spilt
  <1>3. p.capacity \in Nat /\ p.used \in Nat
    BY DEF PoolRecs
  <1> HIDE DEF q
  <1>4. Full(q) /\ End(q) = End(p)
    BY <1>2, <1>3 DEF Open, Full, End
  <1>5. QED
    BY <1>1, <1>4 DEF q

\* The capacities that follow grow until a request fits, and the model's bound is far enough.
LEMMA SomePoolFits ==
    ASSUME NEW p \in PoolRecs, p.capacity >= 1, NEW size \in Requests
    PROVE  \E n \in 1 .. 2 + size + ObjectSize : Fits(Pool(p.capacity * Doubled[n]), size)
  <1> DEFINE n == size + ObjectSize
  <1>1. size \in Nat /\ ObjectSize \in Nat /\ n \in Nat /\ n \in 1 .. 2 + size + ObjectSize
    BY StaticAssumption
  <1>2. Doubled[n] \in Nat /\ Doubled[n] > n
    BY <1>1, DoubledGrows
  <1>3. \A c, d \in Nat : c >= 1 => c * d \in Nat /\ c * d >= d
    OBVIOUS
  <1>4. p.capacity \in Nat
    BY DEF PoolRecs
  <1> HIDE DEF n
  <1>5. p.capacity * Doubled[n] \in Nat /\ p.capacity * Doubled[n] > n
    BY <1>1, <1>2, <1>3, <1>4
  <1>6. size + ObjectSize <= p.capacity * Doubled[n]
    BY <1>1, <1>5 DEF n
  <1>7. QED
    BY <1>1, <1>6 DEF Fits, Pool

\* A chain that begins as the pools do, and has room at its end.
Extends(c, size) ==
    /\ PoolChain(c) /\ Fits(c[Len(c)], size)
    /\ Len(pools) <= Len(c)
    /\ \A k \in DOMAIN pools : End(c[k]) = End(pools[k])

\* WithRoom makes such a chain.
LEMMA ChainExtended ==
    ASSUME PoolChain(pools), NEW size \in Requests
    PROVE  Extends(WithRoom(size), size)
  <1> DEFINE k == Len(pools)
             p == pools[k]
             More(n) == [i \in 1 .. n |-> LET q == Pool(p.capacity * Doubled[i]) IN
                                          IF i < n THEN Spilt(q) ELSE q]
             S == {n \in 1 .. 2 + size + ObjectSize : Fits(Pool(p.capacity * Doubled[n]), size)}
             least == Min(S)
             spilt == [pools EXCEPT ![k] = Spilt(p)]
  <1>1. k \in Nat /\ k >= 1 /\ k \in DOMAIN pools /\ p \in PoolRecs /\ Open(p)
    BY DEF PoolChain
  <1>2. CASE Fits(p, size)
    <2>1. WithRoom(size) = pools
      BY <1>2 DEF WithRoom
    <2>2. QED
      BY <1>1, <1>2, <2>1 DEF Extends, PoolChain
  <1>3. CASE ~Fits(p, size)
    <2>1. WithRoom(size) = spilt \o More(least)
      BY <1>3 DEF WithRoom
    <2>2. p.capacity \in Nat /\ p.used \in Nat /\ p.next = -1 /\ p.used + ObjectSize <= p.capacity
      BY <1>1 DEF PoolRecs, Open
    <2>3. p.capacity >= 1 /\ ObjectSize \in Nat
      BY <2>2, StaticAssumption
    <2>4. S # {} /\ S \subseteq Nat
      BY <1>1, <2>3, SomePoolFits
    <2>5. least \in S
      BY <2>4, MinFacts
    <2>6. least \in Nat /\ least >= 1 /\ Fits(Pool(p.capacity * Doubled[least]), size)
      BY <2>5, <2>3, StaticAssumption
    <2> HIDE DEF S, least
    \* the pools that follow
    <2>7. ASSUME NEW i \in 1 .. least
          PROVE  /\ More(least)[i] \in PoolRecs
                 /\ i < least => Full(More(least)[i])
                 /\ i = least => Open(More(least)[i]) /\ Fits(More(least)[i], size)
      <3> DEFINE d == p.capacity * Doubled[i]
      <3>1. i \in Nat /\ Doubled[i] \in Nat /\ Doubled[i] >= 1
        BY <2>6, DoubledGrows
      <3>2. \A a, b \in Nat : b >= 1 => a * b \in Nat /\ a * b >= a
        OBVIOUS
      <3>3. d \in Nat /\ d >= p.capacity
        BY <2>2, <3>1, <3>2
      <3>4. d >= ObjectSize
        BY <2>2, <2>3, <3>3
      <3>5. i = least => Fits(Pool(d), size)
        BY <2>6
      <3>6. More(least)[i] = IF i < least THEN Spilt(Pool(d)) ELSE Pool(d)
        OBVIOUS
      <3> HIDE DEF d, More
      <3>7. Pool(d) \in PoolRecs /\ Open(Pool(d))
        BY <3>3, <3>4, <2>3 DEF Pool, PoolRecs, Open
      <3>8. Spilt(Pool(d)) \in PoolRecs /\ Full(Spilt(Pool(d)))
        BY <3>7, SpiltFacts
      <3>9. QED
        BY <3>1, <2>6, <3>5, <3>6, <3>7, <3>8
    <2>8. More(least) \in [1 .. least -> PoolRecs]
      BY <2>7
    <2>9. More(least) \in Seq(PoolRecs) /\ Len(More(least)) = least
      <3> HIDE DEF More
      <3>1. \A f \in [1 .. least -> PoolRecs] : f \in Seq(PoolRecs) /\ Len(f) = least
        BY <2>6
      <3>2. QED
        BY <2>8, <3>1
    \* the last pool so far
    <2>10. /\ Spilt(p) \in PoolRecs /\ Full(Spilt(p)) /\ End(Spilt(p)) = End(p)
      BY <1>1, SpiltFacts
    <2>11. /\ spilt \in Seq(PoolRecs) /\ Len(spilt) = k
           /\ \A j \in 1 .. k : spilt[j] = IF j = k THEN Spilt(p) ELSE pools[j]
      BY <1>1, <2>10 DEF PoolChain
    <2> DEFINE c == WithRoom(size)
    <2> HIDE DEF More, spilt
    <2>12. /\ c \in Seq(PoolRecs) /\ Len(c) = k + least
           /\ \A j \in 1 .. k + least : c[j] = IF j <= k THEN spilt[j] ELSE More(least)[j - k]
      <3>1. PICK s, t : s = spilt /\ t = More(least) /\ s \in Seq(PoolRecs) /\ t \in Seq(PoolRecs)
        BY <2>9, <2>11
      <3>2. c = s \o t
        BY <2>1, <3>1
      <3>3. /\ c \in Seq(PoolRecs) /\ Len(c) = Len(spilt) + Len(More(least))
            /\ \A j \in 1 .. Len(spilt) + Len(More(least)) :
                  c[j] = IF j <= Len(spilt) THEN spilt[j] ELSE More(least)[j - Len(spilt)]
        <4> HIDE DEF c
        <4>1. /\ s \o t \in Seq(PoolRecs) /\ Len(s \o t) = Len(s) + Len(t)
              /\ \A j \in 1 .. Len(s) + Len(t) :
                    (s \o t)[j] = IF j <= Len(s) THEN s[j] ELSE t[j - Len(s)]
          BY <3>1
        <4>2. QED
          BY <3>1, <3>2, <4>1
      <3>4. Len(spilt) = k /\ Len(More(least)) = least
        BY <2>9, <2>11
      <3> HIDE DEF c, k
      <3>5. QED
        BY <3>3, <3>4
    <2> HIDE DEF c
    <2>13. ASSUME NEW j \in 1 .. k + least
           PROVE  /\ j < k + least => Full(c[j])
                  /\ j = k + least => Open(c[j]) /\ Fits(c[j], size)
      <3>1. CASE j <= k
        <4>1. j \in 1 .. k /\ j < k + least /\ j \in DOMAIN pools
          BY <1>1, <2>6, <3>1 DEF PoolChain
        <4>2. j # k => Full(pools[j])
          BY <4>1, <1>1 DEF PoolChain
        <4>3. QED
          BY <2>10, <2>11, <2>12, <3>1, <4>1, <4>2
      <3>2. CASE ~(j <= k)
        <4>1. /\ j - k \in 1 .. least
              /\ j - k < least <=> j < k + least
              /\ j - k = least <=> j = k + least
          BY <1>1, <2>6, <3>2
        <4>2. c[j] = More(least)[j - k]
          BY <2>12, <3>2
        <4>3. QED
          BY <2>7, <4>1, <4>2
      <3>3. QED
        BY <3>1, <3>2
    <2>14. DOMAIN c = 1 .. k + least /\ k + least \in 1 .. k + least /\ k + least >= 1
      BY <1>1, <2>6, <2>12
    <2>15. PoolChain(c)
      BY <2>12, <2>13, <2>14 DEF PoolChain
    <2>16. ASSUME NEW j \in DOMAIN pools PROVE End(c[j]) = End(pools[j])
      <3>1. j \in 1 .. k /\ j \in 1 .. k + least
        BY <1>1, <2>6 DEF PoolChain
      <3>2. QED
        BY <2>10, <2>11, <2>12, <3>1
    <2>17. Fits(c[Len(c)], size) /\ Len(pools) <= Len(c)
      BY <1>1, <2>6, <2>12, <2>13, <2>14
    <2>18. QED
      BY <2>15, <2>16, <2>17 DEF Extends, c
  <1>4. QED
    BY <1>2, <1>3

\* The chain has memory, or is the one empty pool of the beginning; what callers were given lies
\* before the end of its pool's part for callers, and apart from the rest.
StaticInv ==
    /\ PoolChain(pools) \/ (pools = <<Pool(0)>> /\ given = {})
    /\ Len(pools) <= MaxPools
    /\ given \subseteq [pool : 1 .. MaxPools, first : Nat, last : Nat]
    /\ \A s \in given : s.pool \in DOMAIN pools /\ s.last < End(pools[s.pool])
    /\ \A s, t \in given : s.pool = t.pool /\ s # t => s.last < t.first \/ t.last < s.first

\* One pool alone
LEMMA OnePool ==
    ASSUME NEW p
    PROVE  Len(<<p>>) = 1 /\ DOMAIN <<p>> = {1} /\ <<p>>[1] = p
  OBVIOUS

\* A new pool, which may be a chain of its own
LEMMA PoolFacts ==
    ASSUME NEW n \in Nat
    PROVE  /\ Pool(n) \in PoolRecs /\ Pool(n).capacity = n /\ Pool(n).used = 0 /\ Pool(n).next = -1
           /\ n >= ObjectSize => Open(Pool(n)) /\ PoolChain(<<Pool(n)>>)
  <1>1. Pool(n) \in PoolRecs /\ Pool(n).capacity = n /\ Pool(n).used = 0 /\ Pool(n).next = -1
    BY DEF Pool, PoolRecs
  <1>2. ObjectSize \in Nat
    BY StaticAssumption
  <1>3. ASSUME n >= ObjectSize PROVE Open(Pool(n)) /\ PoolChain(<<Pool(n)>>)
    <2>1. Open(Pool(n))
      BY <1>1, <1>2, <1>3 DEF Open
    <2>2. <<Pool(n)>> \in Seq(PoolRecs)
      BY <1>1
    <2>3. QED
      BY <2>1, <2>2, OnePool DEF PoolChain
  <1>4. QED
    BY <1>1, <1>3

\* There is memory as soon as there is a chain.
LEMMA MemoryFacts ==
    ASSUME StaticInv
    PROVE  HasMemory <=> PoolChain(pools)
  <1>1. ASSUME PoolChain(pools) PROVE HasMemory
    <2>1. 1 \in DOMAIN pools /\ pools[1] \in PoolRecs
      BY <1>1 DEF PoolChain
    <2>2. Full(pools[1]) \/ Open(pools[1])
      BY <1>1, <2>1 DEF PoolChain
    <2>3. pools[1].capacity \in Nat /\ pools[1].used \in Nat /\ pools[1].next \in Int
      BY <2>1 DEF PoolRecs
    <2>4. QED
      BY <2>2, <2>3, StaticAssumption DEF Full, Open, HasMemory
  <1>2. ASSUME ~PoolChain(pools) PROVE ~HasMemory
    <2>1. pools[1] = Pool(0)
      BY <1>2, OnePool DEF StaticInv
    <2>2. Pool(0).capacity = 0
      BY DEF Pool
    <2>3. QED
      BY <2>1, <2>2 DEF HasMemory
  <1>3. QED
    BY <1>1, <1>2

\* At the start there is the empty pool.
LEMMA InitStatic == StaticInit => StaticInv
  BY OnePool, StaticAssumption DEF StaticInit, StaticInv

\* A capacity makes the first pool.
LEMMA SetCapacityKeeps ==
    ASSUME StaticInv, NEW capacity \in Capacities, SetCapacity(capacity)
    PROVE  StaticInv'
  <1>1. given = {} /\ given' = {} /\ pools' = <<Pool(capacity)>>
    BY MemoryFacts DEF SetCapacity, StaticInv
  <1>2. capacity \in Nat /\ (capacity = 0 \/ capacity >= ObjectSize)
    BY StaticAssumption
  <1>3. PoolChain(<<Pool(capacity)>>) \/ capacity = 0
    BY <1>2, PoolFacts
  <1>4. Len(pools') <= MaxPools
    BY <1>1, OnePool, StaticAssumption
  <1>5. PoolChain(pools)' \/ (pools' = <<Pool(0)>> /\ given' = {})
    BY <1>1, <1>3 DEF PoolChain
  <1>6. QED
    BY <1>1, <1>4, <1>5 DEF StaticInv

\* What alloc gives lies behind what was given in its pool, and leaves room for the next
\* pool's object.
LEMMA AllocStaticKeeps ==
    ASSUME StaticInv, NEW size \in Requests, AllocStatic(size)
    PROVE  StaticInv'
  <1> DEFINE chain == IF HasMemory THEN WithRoom(size) ELSE <<Pool(Factor * size)>>
             k == Len(chain)
             from == chain[k].used
             new == [pool |-> k, first |-> from, last |-> from + size - 1]
  <1>1. /\ k <= MaxPools
        /\ pools' = [chain EXCEPT ![k].used = from + size]
        /\ given' = given \cup {new}
    BY DEF AllocStatic
  <1>2. size \in Nat \ {0} /\ ObjectSize \in Nat
    BY StaticAssumption
  <1>3. /\ PoolChain(chain) /\ Fits(chain[k], size)
        /\ \A s \in given : s.pool \in DOMAIN chain /\ End(chain[s.pool]) = End(pools[s.pool])
    <2>1. CASE HasMemory
      <3>1. Extends(WithRoom(size), size)
        BY <2>1, MemoryFacts, ChainExtended
      <3>2. Extends(chain, size)
        BY <2>1, <3>1
      <3> HIDE DEF chain
      <3>3. DOMAIN pools \subseteq DOMAIN chain
        BY <3>2, <2>1, MemoryFacts DEF Extends, PoolChain
      <3>4. QED
        BY <3>2, <3>3 DEF Extends, StaticInv
    <2>2. CASE ~HasMemory
      <3>1. given = {}
        BY <2>2, MemoryFacts DEF StaticInv
      <3>2. /\ Factor * size \in Nat
            /\ Factor * size >= size + ObjectSize /\ Factor * size >= ObjectSize
        <4>1. Factor \in Nat
          BY StaticAssumption
        <4>2. \A a, b \in Nat : a * b \in Nat
          OBVIOUS
        <4>3. Factor * size \in Nat
          BY <1>2, <4>1, <4>2
        <4>4. Factor * size >= size + ObjectSize
          BY StaticAssumption
        <4>5. QED
          BY <1>2, <4>3, <4>4
      <3> DEFINE n == Factor * size
      <3>3. n \in Nat /\ n >= size + ObjectSize /\ n >= ObjectSize
        BY <3>2
      <3>4. chain = <<Pool(n)>>
        BY <2>2
      <3> HIDE DEF n, chain
      <3>5. k = 1 /\ chain[k] = Pool(n) /\ PoolChain(chain)
        BY <3>3, <3>4, PoolFacts, OnePool
      <3>6. Fits(Pool(n), size)
        <4>1. Pool(n).capacity = n /\ Pool(n).used = 0
          BY DEF Pool
        <4>2. QED
          BY <1>2, <3>3, <4>1 DEF Fits
      <3>7. QED
        BY <3>1, <3>5, <3>6
    <2>3. QED
      BY <2>1, <2>2
  <1> HIDE DEF chain
  <1> DEFINE p == chain[k]
             q == [p EXCEPT !.used = from + size]
  <1>4. /\ k \in Nat /\ k >= 1 /\ k \in DOMAIN chain /\ DOMAIN chain = 1 .. k
        /\ p \in PoolRecs /\ Open(p)
    BY <1>3 DEF PoolChain
  <1>5. /\ p.used \in Nat /\ p.capacity \in Nat /\ p.next = -1 /\ from = p.used
        /\ size + from + ObjectSize <= p.capacity
    BY <1>3, <1>4 DEF PoolRecs, Open, Fits
  <1>6. /\ q \in PoolRecs /\ q.used = from + size /\ q.capacity = p.capacity /\ q.next = -1
    <2>1. from + size \in Nat
      BY <1>2, <1>5
    <2>2. \A n \in Nat : \A r \in PoolRecs : LET e == [r EXCEPT !.used = n] IN
             e \in PoolRecs /\ e.used = n /\ e.capacity = r.capacity /\ e.next = r.next
      BY DEF PoolRecs
    <2> HIDE DEF p
    <2>3. QED
      BY <1>4, <1>5, <2>1, <2>2
  <1>7. pools' = [chain EXCEPT ![k] = q]
    BY <1>1, <1>3, <1>4 DEF PoolChain
  <1> HIDE DEF q
  <1>8. Open(q) /\ End(q) = from + size /\ End(p) = from
    BY <1>2, <1>5, <1>6 DEF Open, End
  <1>9. /\ pools' \in Seq(PoolRecs) /\ Len(pools') = k /\ DOMAIN pools' = 1 .. k
        /\ \A j \in 1 .. k : pools'[j] = IF j = k THEN q ELSE chain[j]
    BY <1>3, <1>4, <1>6, <1>7 DEF PoolChain
  <1>10. PoolChain(pools)'
    <2> HIDE DEF k
    <2>1. ASSUME NEW j \in 1 .. k
          PROVE  IF j < k THEN Full(pools'[j]) ELSE Open(pools'[j])
      <3>1. CASE j = k
        BY <1>4, <1>8, <1>9, <3>1
      <3>2. CASE j # k
        <4>1. j \in Nat /\ j < k /\ j \in DOMAIN chain
          BY <1>4, <3>2
        <4>2. Full(chain[j])
          BY <1>3, <4>1 DEF PoolChain, k
        <4>3. QED
          BY <1>9, <3>2, <4>1, <4>2
      <3>3. QED
        BY <3>1, <3>2
    <2>2. PoolChain(pools')
      BY <1>4, <1>9, <2>1 DEF PoolChain
    <2>3. QED
      BY <2>2 DEF PoolChain, Full, Open
  <1>11. new \in [pool : 1 .. MaxPools, first : Nat, last : Nat]
    <2>1. k \in 1 .. MaxPools /\ from \in Nat /\ from + size - 1 \in Nat
      BY <1>1, <1>2, <1>4, <1>5, StaticAssumption
    <2>2. QED
      BY <2>1
  <1>12. new.pool = k /\ new.first = from /\ new.last = from + size - 1
    OBVIOUS
  <1> HIDE DEF new, from, k
  <1>13. ASSUME NEW s \in given
         PROVE  /\ s.pool \in 1 .. k /\ s.last \in Nat /\ s.last < End(chain[s.pool])
                /\ s.pool = k => s.last < from
    <2>1. s.last < End(chain[s.pool]) /\ s.pool \in 1 .. k
      BY <1>3, <1>4 DEF StaticInv
    <2>2. s.last \in Nat
      BY DEF StaticInv
    <2>3. QED
      BY <1>8, <2>1, <2>2
  <1>14. ASSUME NEW s \in given'
         PROVE  s.pool \in DOMAIN pools' /\ s.last < End(pools'[s.pool])
    <2>1. CASE s = new
      BY <1>2, <1>4, <1>5, <1>8, <1>9, <1>12, <2>1
    <2>2. CASE s # new
      <3>1. s \in given
        BY <1>1, <2>2
      <3>2. s.pool \in 1 .. k /\ s.last \in Nat /\ s.last < End(chain[s.pool])
            /\ (s.pool = k => s.last < from)
        BY <1>13, <3>1
      <3>3. CASE s.pool = k
        BY <1>2, <1>5, <1>8, <1>9, <3>2, <3>3
      <3>4. CASE s.pool # k
        BY <1>9, <3>2, <3>4
      <3>5. QED
        BY <3>3, <3>4
    <2>3. QED
      BY <2>1, <2>2
  <1>15. ASSUME NEW s \in given', NEW t \in given', s.pool = t.pool, s # t
         PROVE  s.last < t.first \/ t.last < s.first
    <2>1. CASE s \in given /\ t \in given
      BY <1>15, <2>1 DEF StaticInv
    <2>2. CASE s = new
      <3>1. t \in given /\ t.pool = k
        BY <1>1, <1>12, <1>15, <2>2
      <3>2. QED
        BY <1>12, <1>13, <2>2, <3>1
    <2>3. CASE t = new
      <3>1. s \in given /\ s.pool = k
        BY <1>1, <1>12, <1>15, <2>3
      <3>2. QED
        BY <1>12, <1>13, <2>3, <3>1
    <2>4. QED
      BY <1>1, <2>1, <2>2, <2>3
  <1>16. given' \subseteq [pool : 1 .. MaxPools, first : Nat, last : Nat]
    BY <1>1, <1>11 DEF StaticInv
  <1>17. Len(pools') <= MaxPools
    BY <1>1, <1>9 DEF k
  <1>18. QED
    <2>1. \A s \in given' : s.pool \in DOMAIN pools' /\ s.last < End(pools'[s.pool])
      BY <1>14
    <2>2. \A s, t \in given' : s.pool = t.pool /\ s # t => s.last < t.first \/ t.last < s.first
      BY <1>15
    <2>3. (\A s \in given : s.pool \in DOMAIN pools /\ s.last < End(pools[s.pool]))'
      BY <2>1 DEF End
    <2>4. QED
      BY <1>10, <1>16, <1>17, <2>2, <2>3 DEF StaticInv

\* reset keeps the first pool's memory, with nothing in it.
LEMMA ResetKeeps ==
    ASSUME StaticInv, ResetPools
    PROVE  StaticInv'
  <1> DEFINE p == pools[1]
             q == [p EXCEPT !.used = 0, !.next = -1]
  <1>1. PoolChain(pools) /\ pools' = <<q>> /\ given' = {}
    BY MemoryFacts DEF ResetPools
  <1>2. p \in PoolRecs /\ (Full(p) \/ Open(p))
    BY <1>1 DEF PoolChain
  <1>3. p.capacity \in Nat /\ p.used \in Nat /\ p.next \in Int
    BY <1>2 DEF PoolRecs
  <1>4. p.capacity >= ObjectSize /\ ObjectSize \in Nat
    BY <1>2, <1>3, StaticAssumption DEF Full, Open
  <1>5. q = Pool(p.capacity)
    <2>1. \A r \in PoolRecs : \A n \in Nat :
             [r EXCEPT !.used = n] \in PoolRecs /\ [r EXCEPT !.used = n].capacity = r.capacity
             /\ [r EXCEPT !.used = n].used = n
      BY DEF PoolRecs
    <2>2. PICK e \in PoolRecs : e = [p EXCEPT !.used = 0] /\ e.capacity = p.capacity /\ e.used = 0
      BY <1>2, <2>1
    <2>3. \A r \in PoolRecs : \A n \in Int :
             [r EXCEPT !.next = n] \in PoolRecs /\ [r EXCEPT !.next = n].capacity = r.capacity
             /\ [r EXCEPT !.next = n].used = r.used /\ [r EXCEPT !.next = n].next = n
      BY DEF PoolRecs
    <2>4. PICK f \in PoolRecs : f = [e EXCEPT !.next = -1] /\ f.capacity = p.capacity
                                /\ f.used = 0 /\ f.next = -1
      <3>1. -1 \in Int
        OBVIOUS
      <3>2. [e EXCEPT !.next = -1] \in PoolRecs
        BY <2>3, <3>1
      <3> DEFINE f == [e EXCEPT !.next = -1]
      <3>3. f.capacity = e.capacity /\ f.used = e.used /\ f.next = -1
        BY <2>3, <3>1
      <3>4. QED
        BY <2>2, <3>2, <3>3
    <2>5. q = f
      BY <1>2, <2>2, <2>4 DEF PoolRecs
    <2>6. \A a, b \in PoolRecs :
             a.capacity = b.capacity /\ a.used = b.used /\ a.next = b.next => a = b
      BY DEF PoolRecs
    <2> HIDE DEF p, q
    <2>7. PICK g \in PoolRecs : g = Pool(p.capacity) /\ g.capacity = p.capacity /\ g.used = 0
                                /\ g.next = -1
      BY <1>3, PoolFacts
    <2>8. f = g
      BY <2>4, <2>6, <2>7
    <2>9. QED
      BY <2>5, <2>7, <2>8
  <1>6. PoolChain(<<q>>) /\ Len(<<q>>) = 1
    BY <1>3, <1>4, <1>5, PoolFacts, OnePool
  <1>7. PoolChain(pools)'
    BY <1>1, <1>6 DEF PoolChain
  <1>8. Len(pools') <= MaxPools
    BY <1>1, <1>6, StaticAssumption
  <1>9. QED
    BY <1>1, <1>7, <1>8 DEF StaticInv

\* Every call of the allocator keeps it.
LEMMA StaticStep == StaticInv /\ [StaticNext]_staticVars => StaticInv'
  <1> SUFFICES ASSUME StaticInv, [StaticNext]_staticVars PROVE StaticInv'
    OBVIOUS
  <1>1. CASE \E capacity \in Capacities : SetCapacity(capacity)
    BY <1>1, SetCapacityKeeps
  <1>2. CASE \E size \in Requests : AllocStatic(size)
    BY <1>2, AllocStaticKeeps
  <1>3. CASE ResetPools
    BY <1>3, ResetKeeps
  <1>4. CASE UNCHANGED staticVars
    BY <1>4 DEF staticVars, StaticInv, PoolChain, Full, Open, End
  <1>5. QED
    BY <1>1, <1>2, <1>3, <1>4 DEF StaticNext

\* What a pool of the chain is
LEMMA EndFacts ==
    ASSUME StaticInv, NEW k \in DOMAIN pools
    PROVE  /\ pools[k] \in PoolRecs
           /\ pools[k].used \in 0 .. pools[k].capacity
           /\ pools[k].next \in -1 .. pools[k].capacity - 1
           /\ End(pools[k]) <= pools[k].used /\ End(pools[k]) <= pools[k].capacity
           /\ pools[k].next >= 0 <=> k < Len(pools)
           /\ pools[k].next >= 0 => pools[k].next + ObjectSize <= pools[k].capacity
  <1> DEFINE p == pools[k]
  <1>1. CASE PoolChain(pools)
    <2>1. p \in PoolRecs /\ k \in 1 .. Len(pools) /\ Len(pools) \in Nat
          /\ (IF k < Len(pools) THEN Full(p) ELSE Open(p))
      BY <1>1 DEF PoolChain
    <2>2. p.capacity \in Nat /\ p.used \in Nat /\ p.next \in Int /\ ObjectSize \in Nat \ {0}
      BY <2>1, StaticAssumption DEF PoolRecs
    <2> HIDE DEF p
    <2>3. QED
      BY <2>1, <2>2 DEF Full, Open, End, p
  <1>2. CASE pools = <<Pool(0)>>
    <2>1. k = 1 /\ p = Pool(0) /\ Len(pools) = 1
      BY <1>2, OnePool
    <2>2. p \in PoolRecs /\ p.capacity = 0 /\ p.used = 0 /\ p.next = -1
      BY <2>1, PoolFacts
    <2> HIDE DEF p
    <2>3. End(p) = 0
      BY <2>2 DEF End
    <2>4. QED
      BY <2>1, <2>2, <2>3 DEF p
  <1>3. QED
    BY <1>1, <1>2 DEF StaticInv

\* What it says of the types and the segments.
LEMMA StaticFacts ==
    ASSUME StaticInv
    PROVE  StaticTypeOK /\ SegmentsDisjoint
  <1>1. StaticTypeOK
    <2>1. Len(pools) \in 1 .. MaxPools
      <3>1. Len(pools) \in Nat /\ Len(pools) >= 1
        BY OnePool DEF StaticInv, PoolChain
      <3>2. QED
        BY <3>1, StaticAssumption DEF StaticInv
    <2>2. QED
      BY <2>1, EndFacts DEF StaticInv, StaticTypeOK
  <1>2. ASSUME NEW s \in given
        PROVE  /\ s.pool \in DOMAIN pools /\ s.last \in Nat /\ s.first \in Nat
               /\ s.last < End(pools[s.pool])
    BY DEF StaticInv
  <1>3. ASSUME NEW s \in given
        PROVE  /\ s.last < pools[s.pool].capacity
               /\ \A byte \in s.first .. s.last : InPools(s.pool, byte)
               /\ pools[s.pool].next >= 0 => s.last < pools[s.pool].next
    <2> DEFINE p == pools[s.pool]
    <2>1. p.used \in Nat /\ p.capacity \in Nat /\ p.next \in Int
      BY <1>2, EndFacts DEF PoolRecs
    <2>2. End(p) <= p.used /\ End(p) <= p.capacity /\ End(p) \in Int
      BY <1>2, <2>1, EndFacts DEF End
    <2>3. s.last < End(p) /\ s.last \in Nat /\ s.first \in Nat
      BY <1>2
    <2> HIDE DEF p
    <2>4. s.last < p.capacity /\ s.last < p.used /\ (p.next >= 0 => s.last < p.next)
      BY <2>1, <2>2, <2>3 DEF End
    <2>5. \A byte \in s.first .. s.last : byte < p.used
      BY <2>1, <2>3, <2>4
    <2>6. QED
      BY <2>4, <2>5 DEF InPools, p
  <1> DEFINE Object(k) == [pool |-> k, first |-> pools[k].next,
                           last |-> pools[k].next + ObjectSize - 1]
  <1>4. ASSUME NEW s \in Segments, s \notin given
        PROVE  \E k \in DOMAIN pools :
                  /\ pools[k].next >= 0
                  /\ s.pool = k /\ s.first = pools[k].next
                  /\ s.last = pools[k].next + ObjectSize - 1
                  /\ s = Object(k)
    BY <1>4 DEF Segments
  <1>5. ASSUME NEW s \in Segments PROVE s.last < pools[s.pool].capacity
    <2>1. CASE s \in given
      BY <1>3, <2>1
    <2>2. CASE s \notin given
      <3>1. PICK k \in DOMAIN pools :
               /\ pools[k].next >= 0
               /\ s.pool = k /\ s.last = pools[k].next + ObjectSize - 1
        BY <1>4, <2>2
      <3>2. pools[k].next \in Int /\ pools[k].capacity \in Nat /\ ObjectSize \in Nat
            /\ pools[k].next + ObjectSize <= pools[k].capacity
        BY <3>1, EndFacts, StaticAssumption DEF PoolRecs
      <3>3. QED
        BY <3>1, <3>2
    <2>3. QED
      BY <2>1, <2>2
  <1>6. ASSUME NEW s \in given, NEW t \in Segments, t \notin given, s.pool = t.pool
        PROVE  s.last < t.first
    BY <1>3, <1>4, <1>6
  <1>7. ASSUME NEW s \in Segments, NEW t \in Segments, s.pool = t.pool, s # t
        PROVE  s.last < t.first \/ t.last < s.first
    <2>1. CASE s \in given /\ t \in given
      BY <1>7, <2>1 DEF StaticInv
    <2>2. CASE s \in given /\ t \notin given
      BY <1>6, <1>7, <2>2
    <2>3. CASE s \notin given /\ t \in given
      BY <1>6, <1>7, <2>3
    <2>4. CASE s \notin given /\ t \notin given
      <3>1. PICK k \in DOMAIN pools : s.pool = k /\ s = Object(k)
        BY <1>4, <2>4
      <3>2. PICK l \in DOMAIN pools : t.pool = l /\ t = Object(l)
        BY <1>4, <2>4
      <3>3. s = t
        BY <1>7, <3>1, <3>2
      <3>4. QED
        BY <1>7, <3>3
    <2>5. QED
      BY <2>1, <2>2, <2>3, <2>4
  <1>8. \A k \in DOMAIN pools : pools[k].next >= 0 <=> k < Len(pools)
    BY EndFacts
  <1>9. SegmentsDisjoint
    BY <1>3, <1>5, <1>7, <1>8 DEF SegmentsDisjoint
  <1>10. QED
    BY <1>1, <1>9

\* StaticAllocator::alloc gives memory that overlaps nothing else that is in use, neither what
\* callers have nor the object of the next pool, and nothing reaches over the end of a pool's
\* memory, whatever is asked for and however often the pools are reset.
THEOREM SegmentsApart == StaticSpec => [](StaticTypeOK /\ SegmentsDisjoint)
  BY InitStatic, StaticStep, StaticFacts, PTL DEF StaticSpec
================================================================================
