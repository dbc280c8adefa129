----------------------------- MODULE MemoryManager -----------------------------
(***************************************************************************)
(* MemoryManager and its ModuleLevelAllocators: alloc/MemoryManager.cpp.   *)
(*                                                                         *)
(* Each module counts the memory it has given out.  malloc is the          *)
(* program's own; the slab of a module is never used.  The counters and    *)
(* the map of sizes have no lock: one thread uses a module at a time.      *)
(***************************************************************************)
EXTENDS Integers, FiniteSets, FiniteSetsExt

CONSTANTS MaxAllocators,      \* MAX_ALLOCATORS, 32
          HeapAddresses,         \* what malloc may return
          Bytes,              \* sizes that are asked for
          MaxTotal            \* bound: counted bytes per module

VARIABLES numAllocators,      \* the first one is there from the start
          ptrToSize,          \* per module: <<address, size>>
          totalMemoryUsed     \* per module

managerVars == <<numAllocators, ptrToSize, totalMemoryUsed>>

Modules == 1 .. MaxAllocators

ManagerTypeOK ==
    /\ numAllocators \in Modules
    /\ ptrToSize \in [Modules -> SUBSET (HeapAddresses \X Bytes)]
    /\ totalMemoryUsed \in [Modules -> 0 .. MaxTotal]

ManagerInit ==
    /\ numAllocators = 1
    /\ ptrToSize = [m \in Modules |-> {}]
    /\ totalMemoryUsed = [m \in Modules |-> 0]

----------------------------------------------------------------------------

\* createModule: when there are too many, the caller gets the default module.
CreateModule ==
    /\ numAllocators < MaxAllocators
    /\ numAllocators' = numAllocators + 1
    /\ UNCHANGED <<ptrToSize, totalMemoryUsed>>

TakenAddresses == {p[1] : p \in UNION {ptrToSize[m] : m \in Modules}}

\* "16 is for the extra use by malloc/free"
Charge(size) == ((15 + size) \div 16) * 16 + 16

\* What remove of the map of sizes returns: the size as it was asked for.
Recorded(size) == size

AllocIn(m, size) ==
    /\ totalMemoryUsed[m] + Charge(size) <= MaxTotal
    /\ TakenAddresses # HeapAddresses
    /\ totalMemoryUsed' = [totalMemoryUsed EXCEPT ![m] = @ + Charge(size)]
    /\ ptrToSize' = [ptrToSize EXCEPT ![m] = @ \cup {<<Min(HeapAddresses \ TakenAddresses), size>>}]
    /\ UNCHANGED numAllocators

FreeIn(m, p) ==
    /\ totalMemoryUsed' = [totalMemoryUsed EXCEPT ![m] = @ - Recorded(p[2])]
    /\ ptrToSize' = [ptrToSize EXCEPT ![m] = @ \ {p}]
    /\ UNCHANGED numAllocators

ManagerNext ==
    \/ CreateModule
    \/ \E m \in 1 .. numAllocators :
          \/ \E size \in Bytes : AllocIn(m, size)
          \/ \E p \in ptrToSize[m] : FreeIn(m, p)

----------------------------------------------------------------------------

\* A module counts at least what it has given out: the counter never wraps below zero.
\* (It is not exact: what a free takes away is less than what the alloc has added.)
CountersCover ==
    \A m \in Modules :
       totalMemoryUsed[m] >= MapThenSumSet(LAMBDA p : p[2], ptrToSize[m])
=============================================================================
