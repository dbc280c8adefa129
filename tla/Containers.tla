------------------------------ MODULE Containers ------------------------------
(***************************************************************************)
(* The allocators, and containers in arrays, side by side.  They share no  *)
(* state: what holds of one holds whatever the others do.                  *)
(***************************************************************************)
EXTENDS SlabPointer, StaticAllocator, HashMap, HashSet, ArrayList, ArraySet, LinkedList,
        Queue

\* No block of a slab and no byte of a static pool is handed out twice, the slab's search
\* misses no free block, and a SlabPointer's node lives exactly as long as a reference to it.
AllocatorsRight == MasksExact /\ NothingHidden /\ NodesExact /\ SegmentsDisjoint

\* After any sequence of calls a hash table holds the dictionary or the set that they add
\* up to, a probe for any other key ends at a hole, and iterators meet every entry once; an
\* ArrayList holds its sequence, and an object in no slot that is not in use; an ArraySet is
\* sorted, holds its set and finds what is in it and nothing else; a LinkedList is its
\* sequence forward and backward, its cursor on the item it should be on, and no node is lost;
\* and a Queue gives back what was added, in order.
ContainersRight ==
    /\ HashMapRight /\ HashSetRight /\ ArrayListRight /\ ArraySetRight
    /\ LinkedListRight /\ QueueRight
=============================================================================
