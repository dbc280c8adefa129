------------------------------ MODULE SlabPointer ------------------------------
(***************************************************************************)
(* SlabPointer: include/alloc/SlabAllocator.h, on the slab allocator.      *)
(*                                                                         *)
(* A pointer has a node, a block of the slab with a count; the object is   *)
(* inside the node (RefCountNodeIns) or another block (RefCountNodePtr).   *)
(* Threads use pointers of their own, or the same one after each other;    *)
(* counts are shared.  A step is one operation on a count or one call of   *)
(* the slab, whose lock makes it one step.  Other users of the slab        *)
(* allocate and free between the steps.                                    *)
(***************************************************************************)
EXTENDS SlabAllocator

CONSTANTS Users,        \* threads
          Pointers,
          MaxHeld,      \* bound: blocks in use at a time
          NoBlock

ASSUME SlabPointerAssumption ==
    /\ IsFiniteSet(Users) /\ IsFiniteSet(Pointers)
    /\ NoBlock \notin Pointers \cup (Addresses \X Nat)

VARIABLES refNode,      \* the node of a pointer, or Null
          node,         \* the nodes: count, and the block of the object or Null
          at,           \* what each thread does next
          call          \* the call it is in

pointerVars == <<refNode, node, at, call>>
slabPointerVars == <<slabVars, pointerVars>>

\* of: the pointer that changes; from: the one it is assigned from; old: the node it gives
\* up; to: the node it gets; object: a block that waits for its node.
Nothing == [of |-> NoBlock, from |-> NoBlock, old |-> NoBlock, to |-> NoBlock, object |-> NoBlock]

SlabPointerTypeOK ==
    /\ SlabTypeOK
    /\ \A p \in Pointers : refNode[p] \in (Addresses \X Nat) \cup {NoBlock}
    /\ \A n \in DOMAIN node : node[n].refs \in Nat
    /\ at \in [Users -> {"idle", "sub", "object", "node", "assign", "make"}]

SlabPointerInit ==
    /\ SlabInit
    /\ refNode = [p \in Pointers |-> NoBlock]
    /\ node = <<>>
    /\ at = [u \in Users |-> "idle"]
    /\ call = [u \in Users |-> Nothing]

----------------------------------------------------------------------------

\* Thread u may work on p: no other thread is in a call on it.
Available(u, p) ==
    at[u] = "idle" /\ \A v \in Users \ {u} : p \notin {call[v].of, call[v].from}

Goes(u, a) == at' = [at EXCEPT ![u] = a]

Done(u) == Goes(u, "idle") /\ call' = [call EXCEPT ![u] = Nothing]

\* Functions over the nodes that are there.
AddNode(n, object) == node' = [m \in DOMAIN node \cup {n} |->
                                  IF m = n THEN [refs |-> 1, object |-> object] ELSE node[m]]
RemoveNode(n) == node' = [m \in DOMAIN node \ {n} |-> node[m]]

\* The block that alloc returns in this step.
Given(a) == Cardinality(held) < MaxHeld /\ \E size \in Sizes : AllocSteps(size, a)
GivenBlock == CHOOSE b \in held' \ held : TRUE

\* slab.allocate<RefCountNodeIns>(): a value moved or copied into its node
MakeIns(u, p) ==
    /\ Available(u, p) /\ refNode[p] = NoBlock
    /\ \E a \in Addresses : Given(a)
    /\ AddNode(GivenBlock, NoBlock)
    /\ refNode' = [refNode EXCEPT ![p] = GivenBlock]
    /\ UNCHANGED <<at, call>>

\* The caller takes a block for an object; SlabPointer(T* ptr) or reset(ptr) comes next.
MakeObject(u, p) ==
    /\ Available(u, p)
    /\ \E a \in Addresses : Given(a)
    /\ call' = [call EXCEPT ![u] = [Nothing EXCEPT !.of = p, !.old = refNode[p],
                                                   !.object = GivenBlock]]
    /\ Goes(u, IF refNode[p] = NoBlock THEN "make" ELSE "sub")
    /\ UNCHANGED <<refNode, node>>

\* Its node, with a count of one
MakeNode(u) ==
    /\ at[u] = "make"
    /\ \E a \in Addresses : Given(a)
    /\ AddNode(GivenBlock, call[u].object)
    /\ refNode' = [refNode EXCEPT ![call[u].of] = GivenBlock]
    /\ Done(u)

\* operator=(const SlabPointer&), and the copy constructor: the reference is taken before
\* the old one is given up.
CopyFrom(u, p, q) ==
    /\ Available(u, p) /\ Available(u, q) /\ refNode[p] # refNode[q]
    /\ IF refNode[q] = NoBlock
       THEN UNCHANGED node
       ELSE node' = [node EXCEPT ![refNode[q]].refs = @ + 1]
    /\ call' = [call EXCEPT ![u] = [Nothing EXCEPT !.of = p, !.old = refNode[p],
                                                   !.to = refNode[q]]]
    /\ Goes(u, IF refNode[p] = NoBlock THEN "assign" ELSE "sub")
    /\ UNCHANGED <<slabVars, refNode>>

\* operator=(SlabPointer&&), and the move constructor
MoveFrom(u, p, q) ==
    /\ Available(u, p) /\ Available(u, q) /\ refNode[p] # refNode[q]
    /\ call' = [call EXCEPT ![u] = [Nothing EXCEPT !.of = p, !.from = q, !.old = refNode[p],
                                                   !.to = refNode[q]]]
    /\ Goes(u, IF refNode[p] = NoBlock THEN "assign" ELSE "sub")
    /\ UNCHANGED <<slabVars, refNode, node>>

\* reset() and the destructor
DropPointer(u, p) ==
    /\ Available(u, p) /\ refNode[p] # NoBlock
    /\ call' = [call EXCEPT ![u] = [Nothing EXCEPT !.of = p, !.old = refNode[p]]]
    /\ Goes(u, "sub")
    /\ UNCHANGED <<slabVars, refNode, node>>

\* fetch_sub returned 1
WasLast(n) == node[n].refs = 1

\* What follows when the old reference is gone.
RestOfCall(u) == IF call[u].object # NoBlock THEN "make" ELSE "assign"

Sub(u) ==
    LET n == call[u].old IN
    /\ at[u] = "sub"
    /\ node' = [node EXCEPT ![n].refs = @ - 1]
    /\ Goes(u, IF ~WasLast(n) THEN RestOfCall(u)
             ELSE IF node[n].object # NoBlock THEN "object" ELSE "node")
    /\ UNCHANGED <<slabVars, refNode, call>>

\* destroy: slab.free(ptr)
FreeObject(u) ==
    /\ at[u] = "object"
    /\ FreeSteps(node[call[u].old].object)
    /\ node' = [node EXCEPT ![call[u].old].object = NoBlock]
    /\ Goes(u, "node")
    /\ UNCHANGED <<refNode, call>>

\* destroy: slab.free(this).  The pointer has the address for a while.
FreeNode(u) ==
    /\ at[u] = "node"
    /\ FreeSteps(call[u].old)
    /\ RemoveNode(call[u].old)
    /\ Goes(u, RestOfCall(u))
    /\ UNCHANGED <<refNode, call>>

AssignNode(u) ==
    /\ at[u] = "assign"
    /\ refNode' = [p \in Pointers |-> IF p = call[u].of THEN call[u].to
                                      ELSE IF p = call[u].from THEN NoBlock
                                      ELSE refNode[p]]
    /\ Done(u)
    /\ UNCHANGED <<slabVars, node>>

PointerStep(u) ==
    \/ MakeNode(u) \/ Sub(u) \/ FreeObject(u) \/ FreeNode(u) \/ AssignNode(u)
    \/ \E p \in Pointers :
          \/ MakeIns(u, p) \/ MakeObject(u, p) \/ DropPointer(u, p)
          \/ \E q \in Pointers : CopyFrom(u, p, q) \/ MoveFrom(u, p, q)

----------------------------------------------------------------------------

\* The blocks that pointers and calls own.
NodeBlocks == DOMAIN node
ObjectBlocks ==
    ({node[n].object : n \in DOMAIN node} \cup {call[u].object : u \in Users}) \ {NoBlock}

\* Another user of the slab gives back the chunks that are free.
OtherStep == DestroyUnallocatedChunks /\ UNCHANGED pointerVars

SlabPointerNext == OtherStep \/ \E u \in Users : PointerStep(u)

SlabPointerSpec == SlabPointerInit /\ [][SlabPointerNext]_slabPointerVars

----------------------------------------------------------------------------

\* The references to a node: pointers, and copies on their way into one, less the one that
\* a thread has counted out and not yet overwritten.
PointersTo(n) ==
    Cardinality({p \in Pointers : refNode[p] = n})
    + Cardinality({u \in Users : call[u].to = n /\ call[u].from = NoBlock})
    - Cardinality({u \in Users : call[u].old = n /\ refNode[call[u].of] = n
                                  /\ at[u] \notin {"idle", "sub"}})

\* Nodes and objects are blocks that the slab holds for one owner each, a count is the
\* number of references, and a node without any has one thread that is freeing it: no
\* order of drops on two threads frees a block twice or leaves one behind.
NodesExact ==
    /\ NodeBlocks \cup ObjectBlocks \subseteq held
    /\ NodeBlocks \cap ObjectBlocks = {}
    /\ \A n \in DOMAIN node :
          /\ node[n].refs = PointersTo(n)
          /\ node[n].refs = 0 => Cardinality({u \in Users : call[u].old = n
                                                 /\ at[u] \in {"object", "node"}}) = 1
    /\ \A p \in Pointers :
          refNode[p] \in DOMAIN node \cup {NoBlock}
          \/ \E u \in Users : call[u].of = p /\ at[u] \in {"make", "assign"}
=============================================================================
