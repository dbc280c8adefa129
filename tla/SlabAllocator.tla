----------------------------- MODULE SlabAllocator -----------------------------
(***************************************************************************)
(* SlabAllocator: src/alloc/SlabAllocator.cpp.                             *)
(*                                                                         *)
(* A list of chunks, each an array of blocks of one width with a bit mask  *)
(* of the free ones, W blocks to a word (32 in the code), and the word     *)
(* where the search for a free block starts.  Every operation below holds  *)
(* the lock from its start to its end and is one step.  malloc gives every *)
(* chunk that is asked for: what happens when it does not, and the two     *)
(* counters that do without the lock, are in README.md.                    *)
(*                                                                         *)
(* Widths are in bytes, rounded up to a multiple of 16.  A caller frees    *)
(* what it was given, once: anything else aborts the program.              *)
(***************************************************************************)
EXTENDS Integers, Sequences, FiniteSets, SequencesExt

CONSTANTS WordBlocks,            \* blocks in a word of the mask
          Addresses,    \* where malloc may put a chunk
          Sizes,        \* the sizes that are asked for
          Counts,       \* what prepare is asked for
          MaxBlocks     \* bound: blocks in all chunks together

ASSUME SlabAssumption ==
    /\ WordBlocks \in Nat /\ WordBlocks >= 2
    /\ Sizes \subseteq Nat /\ Counts \subseteq Nat
    /\ MaxBlocks \in Nat

VARIABLES chunks,       \* the list, from its beginning
          held          \* <<address, block>> of what callers were given and did not free

slabVars == <<chunks, held>>

SlabTypeOK ==
    /\ \A k \in DOMAIN chunks :
          /\ chunks[k].at \in Addresses
          /\ chunks[k].numBlocks \in Nat \ {0}
          /\ chunks[k].last \in 0 .. (chunks[k].numBlocks - 1) \div WordBlocks
          /\ chunks[k].free \subseteq 0 .. chunks[k].numBlocks - 1
    /\ held \subseteq Addresses \X Nat

SlabInit == chunks = <<>> /\ held = {}

----------------------------------------------------------------------------

RoundedSize(size) == ((size + 15) \div 16) * 16

\* freeBlocks[i]
Word(c, i) == {b \in c.free : b \div WordBlocks = i}

\* n of getNextFreeBlockId: all words, the last of which may stand for less than W blocks
AllWords(c) == (c.numBlocks - 1) \div WordBlocks + 1

\* numBlocks / 32: the words that stand for W blocks each
WholeWords(c) == c.numBlocks \div WordBlocks

\* createSlabChunk: all blocks free.  The shift count of the last word is negative for
\* more than 32 blocks; the shift instruction takes it modulo 32, which is what is meant.
NewChunk(at, width, n) ==
    [at |-> at, width |-> width, numBlocks |-> n, last |-> 0, free |-> 0 .. n - 1]

FreeAddresses == Addresses \ {chunks[k].at : k \in DOMAIN chunks}

\* getNextFreeBlockId: the lowest block of the first word with one, from last on
NextFreeBlock(c) ==
    Min({b \in c.free : b \div WordBlocks = Min({i \in c.last .. AllWords(c) - 1 : Word(c, i) # {}})})

\* (bug) The word after the last is not looked at before the search returns to the first.
LastStays(c, b) == b \div WordBlocks

\* Where the next search starts, b having been taken from c (its bit is gone already).
LastAfter(c, b) ==
    LET i == b \div WordBlocks IN
    IF Word(c, i) # {} THEN i
    ELSE IF (i + 1) * WordBlocks < c.numBlocks /\ Word(c, i + 1) # {} THEN i + 1
    ELSE 0

\* alloc on the chunk that getNextChunkForSize has returned
TakeBlock(c) ==
    LET b == NextFreeBlock(c)
        d == [c EXCEPT !.free = @ \ {b}]
    IN  [d EXCEPT !.last = LastAfter(d, b)]

\* The loop of getNextChunkForSize on one chunk: whole words only, from last on.
HasRoom(c) == \E i \in c.last .. WholeWords(c) - 1 : Word(c, i) # {}

OfWidth(w) == {k \in DOMAIN chunks : chunks[k].width = w}

TotalBlocks == FoldSeq(LAMBDA c, n : n + c.numBlocks, 0, chunks)

\* "Quadruples the amount allocated to this size"
Growth(size) ==
    LET blocks == UNION {{k} \X (0 .. chunks[k].numBlocks - 1) : k \in OfWidth(RoundedSize(size))}
        n == 3 * Cardinality(blocks)
    IN  IF n < WordBlocks THEN (IF size <= 32 THEN 4 * WordBlocks ELSE WordBlocks) ELSE n

\* Some chunk with room, or a new one at the beginning of the list, gives a block.
AllocSteps(size, at) ==
    LET fit == {k \in OfWidth(RoundedSize(size)) : HasRoom(chunks[k])} IN
    IF fit # {}
    THEN LET k == Min(fit)  c == chunks[k] IN
         /\ at = c.at
         /\ chunks' = [chunks EXCEPT ![k] = TakeBlock(c)]
         /\ held' = held \cup {<<at, NextFreeBlock(c)>>}
    ELSE LET c == NewChunk(at, RoundedSize(size), Growth(size)) IN
         /\ at \in FreeAddresses
         /\ TotalBlocks + Growth(size) <= MaxBlocks
         /\ chunks' = <<TakeBlock(c)>> \o chunks
         /\ held' = held \cup {<<at, NextFreeBlock(c)>>}

Alloc == \E size \in Sizes, at \in Addresses : AllocSteps(size, at)

\* getChunkOfMemory: the chunks do not overlap, so one of them at most has the address.
ChunkOf(p) == CHOOSE k \in DOMAIN chunks : chunks[k].at = p[1]

\* internalFree
Freed(c, b) == [c EXCEPT !.free = @ \cup {b}, !.last = b \div WordBlocks]

\* free, and freeIfPresent of a block that is present
FreeSteps(p) ==
    LET k == ChunkOf(p) IN
    /\ chunks' = [chunks EXCEPT ![k] = Freed(chunks[k], p[2])]
    /\ held' = held \ {p}

FreeBlock == \E p \in held : FreeSteps(p)

\* freeAll: callers forget what they have.
FreeAll ==
    /\ chunks # <<>>
    /\ chunks' = <<>>
    /\ held' = {}

\* prepare: half a word is the unit of the count, and the size is not rounded, so that a
\* size of 40 makes a chunk that no alloc will look at.
PrepareSteps(count, size, at) ==
    LET half == WordBlocks \div 2
        n == ((count + half - 1) \div half) * half
    IN
    /\ count > half
    /\ at \in FreeAddresses
    /\ TotalBlocks + n <= MaxBlocks
    /\ chunks' = <<NewChunk(at, size, n)>> \o chunks
    /\ UNCHANGED held

Prepare == \E count \in Counts, size \in Sizes, at \in Addresses : PrepareSteps(count, size, at)

\* "Chunk is completely free, destroy it"
AllFree(c) == Cardinality(c.free) = c.numBlocks

\* Those of the first k chunks that stay, in their order
StayOf[k \in Nat] ==
    IF k = 0 THEN <<>>
    ELSE IF AllFree(chunks[k]) THEN StayOf[k - 1]
    ELSE Append(StayOf[k - 1], chunks[k])

DestroyUnallocatedChunks ==
    /\ \E k \in DOMAIN chunks : AllFree(chunks[k])
    /\ chunks' = StayOf[Len(chunks)]
    /\ UNCHANGED held

SlabNext == Alloc \/ FreeBlock \/ FreeAll \/ Prepare \/ DestroyUnallocatedChunks

SlabSpec == SlabInit /\ [][SlabNext]_slabVars

----------------------------------------------------------------------------
(* Queries *)

\* getBytesAllocated: the free blocks of a last word that is not whole are not counted
\* as free.
BytesAllocated ==
    FoldSeq(LAMBDA c, n : n + c.width *
                (c.numBlocks - Cardinality({b \in c.free : b \div WordBlocks < WholeWords(c)})),
            0, chunks)

\* contains, and the answer of freeIfPresent
Controls(p) == \E k \in DOMAIN chunks : chunks[k].at = p[1] /\ p[2] < chunks[k].numBlocks

----------------------------------------------------------------------------
(* Properties *)

\* The masks are the complement of what callers hold: no block is given to two callers, no
\* chunk goes while one of its blocks is in use, and every free finds its chunk.
MasksExact ==
    /\ \A k, l \in DOMAIN chunks : chunks[k].at = chunks[l].at => k = l
    /\ held = UNION {{<<chunks[k].at, b>> : b \in (0 .. chunks[k].numBlocks - 1) \ chunks[k].free}
                      : k \in DOMAIN chunks}
    /\ \A p \in held : Controls(p)

\* The start of the search hides no free block of a chunk made of whole words: a new chunk
\* is made only when every block of this width is in use.
NothingHidden ==
    \A k \in DOMAIN chunks :
       chunks[k].numBlocks % WordBlocks = 0 /\ chunks[k].free # {} => HasRoom(chunks[k])

\* "The number of bytes allocated by alloc()", never less, and exact when all chunks are
\* made of whole words.
BytesRight ==
    LET used == MapThenSumSet(LAMBDA k : chunks[k].width *
                                 Cardinality({p \in held : p[1] = chunks[k].at}),
                              DOMAIN chunks)
    IN  /\ BytesAllocated >= used
        /\ (\A k \in DOMAIN chunks : chunks[k].numBlocks % WordBlocks = 0) => BytesAllocated = used
=============================================================================
