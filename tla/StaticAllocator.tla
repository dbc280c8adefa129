---------------------------- MODULE StaticAllocator ----------------------------
(***************************************************************************)
(* StaticAllocator: include/alloc/StaticAllocator.h.                       *)
(*                                                                         *)
(* A chain of pools.  A pool hands out its memory from the front; one that *)
(* has no room for a request puts the object of the next pool, of twice    *)
(* its capacity, at the end of what it has handed out.  Room for such an   *)
(* object must therefore always be left.                                   *)
(*                                                                         *)
(* The capacity a pool is built with is at least the size of that object,  *)
(* or nothing: with less, the first spill writes behind the memory.        *)
(***************************************************************************)
EXTENDS Integers, Sequences, FiniteSets, FiniteSetsExt

CONSTANTS ObjectSize,     \* sizeof(StaticAllocator)
          Factor,         \* the first request sets the capacity to so many of its size: 128
          Capacities,     \* what the constructor and prepare are given
          Requests,       \* what alloc is asked for
          MaxPools, MaxGiven    \* bounds

ASSUME StaticAssumption ==
    /\ ObjectSize \in Nat \ {0} /\ MaxPools \in Nat \ {0}
    /\ Capacities \subseteq Nat /\ \A c \in Capacities : c = 0 \/ c >= ObjectSize
    /\ Requests \subseteq Nat \ {0}
    /\ Factor \in Nat /\ \A size \in Requests : Factor * size >= size + ObjectSize

VARIABLES pools,     \* the chain: capacity, used, and where the next object is, or -1
          given      \* what alloc has returned: pool, first and last byte

staticVars == <<pools, given>>

\* A pool without memory yet is the first one alone, with nothing in it.
Pool(capacity) == [capacity |-> capacity, used |-> 0, next |-> -1]

StaticTypeOK ==
    /\ Len(pools) \in 1 .. MaxPools
    /\ \A k \in DOMAIN pools : /\ pools[k].used \in 0 .. pools[k].capacity
                               /\ pools[k].next \in -1 .. pools[k].capacity - 1
    /\ given \subseteq [pool : 1 .. MaxPools, first : Nat, last : Nat]

StaticInit == pools = <<Pool(0)>> /\ given = {}

HasMemory == pools[1].capacity > 0

\* StaticAllocator(size), and prepare on one without memory
SetCapacity(capacity) ==
    /\ ~HasMemory
    /\ pools' = <<Pool(capacity)>>
    /\ UNCHANGED given

Fits(p, size) == size + p.used + ObjectSize <= p.capacity

\* "Allocate a new MemoryPool": its object goes to the end of what is used.
Spilt(p) == [p EXCEPT !.next = p.used, !.used = p.capacity]

\* memory_capacity * 2 of each pool that follows, for a first one of 1
Doubled[n \in Nat] == IF n = 0 THEN 1 ELSE 2 * Doubled[n - 1]

\* The chain that has room for the request at its end: the last pool as it is, or followed
\* by pools of twice, four times ... its capacity, of which all but the last are too small
\* even when empty.
WithRoom(size) ==
    LET k == Len(pools)
        p == pools[k]
        More(n) == [i \in 1 .. n |-> LET q == Pool(p.capacity * Doubled[i]) IN
                                     IF i < n THEN Spilt(q) ELSE q]
        least == Min({n \in 1 .. 2 + size + ObjectSize : Fits(Pool(p.capacity * Doubled[n]), size)})
    IN  IF Fits(p, size) THEN pools
        ELSE [pools EXCEPT ![k] = Spilt(p)] \o More(least)

AllocStatic(size) ==
    LET chain == IF HasMemory THEN WithRoom(size) ELSE <<Pool(Factor * size)>>
        k == Len(chain)
        from == chain[k].used
    IN  /\ k <= MaxPools
        /\ Cardinality(given) < MaxGiven
        /\ pools' = [chain EXCEPT ![k].used = from + size]
        /\ given' = given \cup {[pool |-> k, first |-> from, last |-> from + size - 1]}

\* reset: the next pools are destroyed, and nobody uses what they gave.
ResetPools ==
    /\ HasMemory
    /\ pools' = <<[pools[1] EXCEPT !.used = 0, !.next = -1]>>
    /\ given' = {}

StaticNext ==
    \/ \E capacity \in Capacities : SetCapacity(capacity)
    \/ \E size \in Requests : AllocStatic(size)
    \/ ResetPools

StaticSpec == StaticInit /\ [][StaticNext]_staticVars

----------------------------------------------------------------------------

\* contains
InPools(k, byte) == byte < pools[k].used

\* Everything that is in use: what callers were given, and the objects of the next pools.
Segments ==
    given \cup {[pool |-> k, first |-> pools[k].next, last |-> pools[k].next + ObjectSize - 1]
                 : k \in {i \in DOMAIN pools : pools[i].next >= 0}}

\* Nothing that is in use overlaps anything else, or the end of its memory, and contains
\* knows all that alloc has returned: after any sequence of requests and resets there is
\* room for the object of the next pool.
SegmentsDisjoint ==
    /\ \A s \in Segments : s.last < pools[s.pool].capacity
    /\ \A s, t \in Segments : s.pool = t.pool /\ s # t => s.last < t.first \/ t.last < s.first
    /\ \A s \in given : \A byte \in s.first .. s.last : InPools(s.pool, byte)
    /\ \A k \in DOMAIN pools : (pools[k].next >= 0) <=> (k < Len(pools))
=============================================================================
