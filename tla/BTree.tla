--------------------------------- MODULE BTree ---------------------------------
(***************************************************************************)
(* The on-disk B-tree of include/fs/BTree.h.                               *)
(*                                                                         *)
(* The state is the file: a function from offsets to nodes.  insert,       *)
(* overwrite and remove hold the tree's mutex exclusively from end to end, *)
(* find and findNext share it, so each is one step.  Inside the step the   *)
(* reads and writes of nodes are made in the order of the code, because    *)
(* the code works on copies of nodes that other writes of the same         *)
(* operation make stale.                                                   *)
(*                                                                         *)
(* Keys.  The code looks at keys through compare only, so only their order *)
(* matters.  The keys in the tree are always 2, 4, .., 2 * size; an odd    *)
(* number is a key between two of them that is not in the tree.  After a   *)
(* key comes or goes the others are renumbered (Renumbered).               *)
(*                                                                         *)
(* Offsets.  addNode takes a new place at the end of the file; the code    *)
(* never reuses a place.  Here a place that the tree no longer reaches is  *)
(* taken back after the operation (Collected), which keeps the file small. *)
(***************************************************************************)
EXTENDS Integers, FiniteSets, Sequences

LOCAL INSTANCE SequencesExt

CONSTANTS N,         \* the maximum number of elements in a node
          MaxKeys,   \* bound: keys in the tree
          MaxNodes   \* bound: places for nodes

ASSUME BTreeAssumption ==
    /\ N \in Nat \ {0, 1}
    /\ MaxKeys \in Nat
    /\ MaxNodes \in Nat \ {0}

Root == 0
Offsets == 0 .. MaxNodes - 1

VARIABLES
    nodes,  \* the node at each offset, or Absent
    size,   \* history: how many keys the calls so far have left in the tree
    out     \* the last call: "right" or "wrong" answer, or "corrupt" (it threw)

vars == <<nodes, size, out>>

\* btree_node_t: nElements is Len(elems), nChildren is Len(kids), and indexInParent
\* counts from 0.
Node(parent, index, elems, kids) ==
    [parent |-> parent, index |-> index, elems |-> elems, kids |-> kids]

EmptyRoot == Node(Root, -1, <<>>, <<>>)
Absent == [absent |-> TRUE]

nEl(n) == Len(n.elems)
nCh(n) == Len(n.kids)
IsLeaf(n) == n.kids = <<>>

minElements == N \div 2

----------------------------------------------------------------------------
(* Storage: getNode, addNode, overwriteNode, overwriteNodeHeader.  m is the file in *)
(* the middle of an operation.                                                       *)

\* addNode's place.  MaxNodes is large enough: TLC stops where there is none.
FreshOffset(m) == CHOOSE o \in Offsets : m[o] = Absent /\ \A p \in 0 .. o - 1 : m[p] # Absent

\* getNode accepts what validateOnDiskNode accepts.
Valid(n) ==
    /\ nEl(n) <= N
    /\ nCh(n) \in {0, nEl(n) + 1}
    /\ n.index \in -1 .. N

\* (bug) Children keep the index they had.
ReparentedOnly(m, n, o, from) ==
    [p \in Offsets |->
        IF \E j \in from + 1 .. nCh(n) : n.kids[j] = p
        THEN [m[p] EXCEPT !.parent = o]
        ELSE m[p]]

\* reindexChildren: writeChildHeader for the children of n, which is at offset o, from
\* position from on.
Reindexed(m, n, o, from) ==
    [p \in Offsets |->
        IF \E j \in from + 1 .. nCh(n) : n.kids[j] = p
        THEN [m[p] EXCEPT !.parent = o,
                          !.index = (CHOOSE j \in from + 1 .. nCh(n) : n.kids[j] = p) - 1]
        ELSE m[p]]

----------------------------------------------------------------------------
(* Search *)

\* Where val is or would be among the elements of n, counting from 0: the result of the
\* binary searches of findNearest, findNext and locateKey.
Position(n, val) == Cardinality({j \in 1 .. nEl(n) : n.elems[j] < val})

Holds(n, val) == \E j \in 1 .. nEl(n) : n.elems[j] = val

\* findNearest: the offset of the node that holds val, or of the leaf it belongs in.
RECURSIVE Nearest(_, _, _)
Nearest(m, o, val) ==
    IF Holds(m[o], val) \/ IsLeaf(m[o])
    THEN o
    ELSE Nearest(m, m[o].kids[Position(m[o], val) + 1], val)

\* find
Find(val) == Holds(nodes[Nearest(nodes, Root, val)], val)

None == -1

\* (bug) findNext that only looks into the last node of the path.
RECURSIVE FindNextInLeaf(_, _, _)
FindNextInLeaf(o, val, best) ==
    LET n == nodes[o]  i == Position(n, val) IN
    IF IsLeaf(n) THEN (IF i < nEl(n) THEN n.elems[i + 1] ELSE None)
    ELSE FindNextInLeaf(n.kids[i + 1], val, best)

\* findNext from node o on, with the best candidate so far: val if it is there, else
\* the smallest larger key, else None.
RECURSIVE FindNextFrom(_, _, _)
FindNextFrom(o, val, best) ==
    LET n == nodes[o]
        i == Position(n, val)
        b == IF i < nEl(n) /\ (best = None \/ n.elems[i + 1] < best) THEN n.elems[i + 1]
             ELSE best
    IN IF Holds(n, val) THEN val
       ELSE IF IsLeaf(n) THEN b
       ELSE FindNextFrom(n.kids[i + 1], val, b)

FindNext(val) == FindNextFrom(Root, val, None)

----------------------------------------------------------------------------
(* Splitting.  A split returns the file, the two halves as the caller's copies of them *)
(* (left, rhs) and their offsets.                                                      *)

RECURSIVE SplitChild(_, _, _, _)

\* splitRoot: the root's contents move to a new place, below a new and empty root.
SplitRoot(m, oldRoot) ==
    LET o == FreshOffset(m)
        moved == [oldRoot EXCEPT !.parent = Root, !.index = 0]
        m1 == [m EXCEPT ![o] = moved]
        m2 == [p \in Offsets |-> IF \E j \in 1 .. nCh(moved) : moved.kids[j] = p
                                 THEN [m1[p] EXCEPT !.parent = o] ELSE m1[p]]
    IN SplitChild(m2, Node(Root, -1, <<>>, <<o>>), moved, o)

\* The parent of child was split into s.left and s.rhs: which of the two it is in now is
\* seen from its index, and its copy is told.
InHalf(s, child) ==
    IF child.index > nEl(s.left)
    THEN [m |-> s.m, parent |-> s.rhs,
          child |-> [child EXCEPT !.index = @ - (nEl(s.left) + 1), !.parent = s.rhsOff]]
    ELSE [m |-> s.m, parent |-> s.left,
          child |-> [child EXCEPT !.parent = IF @ = Root THEN s.off ELSE @]]

\* The upper part of splitChild: a full parent is split first.
ParentReady(m, parent, child) ==
    IF nEl(parent) < N
    THEN [m |-> m, parent |-> parent, child |-> child]
    ELSE InHalf(IF child.parent = Root THEN SplitRoot(m, parent)
                ELSE SplitChild(m, m[parent.parent], parent, child.parent),
                child)

\* How many elements of a split child stay in it; the middle one goes up, and the other
\* (nElements + 1) / 2 - 1 go to the new child.
Staying(child) == nEl(child) - ((nEl(child) + 1) \div 2 - 1) - 1

\* The lower part of splitChild, on the file, parent and child in r: the upper half of the
\* child goes to a new node after it, the element in the middle goes up.
SplitReady(r, childOff) ==
    LET parent == r.parent
        child == r.child
        i == child.index
        l == Staying(child)
        newOff == FreshOffset(r.m)
        newChild == Node(child.parent, i + 1, SubSeq(child.elems, l + 2, nEl(child)),
                         SubSeq(child.kids, l + 2, nCh(child)))
        left == [child EXCEPT !.elems = SubSeq(@, 1, l),
                               !.kids = IF IsLeaf(child) THEN <<>> ELSE SubSeq(@, 1, l + 1)]
        grown == [parent EXCEPT !.kids = InsertAt(@, i + 2, newOff),
                                !.elems = InsertAt(@, i + 1, child.elems[l + 1])]
        m1 == [r.m EXCEPT ![newOff] = newChild]
        m2 == [p \in Offsets |->
                  IF \E j \in i + 3 .. nCh(grown) : grown.kids[j] = p
                  THEN [m1[p] EXCEPT !.index =
                           (CHOOSE j \in i + 3 .. nCh(grown) : grown.kids[j] = p) - 1]
                  ELSE m1[p]]
        m3 == Reindexed(m2, newChild, newOff, 0)
        m4 == [m3 EXCEPT ![childOff] = left, ![child.parent] = grown]
    IN [m |-> m4, left |-> left, off |-> childOff, rhs |-> newChild, rhsOff |-> newOff]

\* splitChild
SplitChild(m, parent, child, childOff) == SplitReady(ParentReady(m, parent, child), childOff)

\* addToNodeUnchecked
Added(n, val, i) == [n EXCEPT !.elems = InsertAt(@, i + 1, val)]

\* val, number i of a leaf that was split into s.left and s.rhs, goes into one of them.
AddedToHalf(s, val, i) ==
    IF i > nEl(s.left)
    THEN [s.m EXCEPT ![s.rhsOff] = Added(s.rhs, val, i - nEl(s.left) - 1)]
    ELSE [s.m EXCEPT ![s.off] = Added(s.left, val, i)]

\* val goes into the leaf n at o.
InsertedAt(m, o, n, val) ==
    IF nEl(n) < N
    THEN [m EXCEPT ![o] = Added(n, val, Position(n, val))]
    ELSE AddedToHalf(IF o = Root THEN SplitRoot(m, n) ELSE SplitChild(m, m[n.parent], n, o),
                     val, Position(n, val))

\* insert (and overwrite) of a key that is not there.
Inserted(m, val) ==
    LET o == Nearest(m, Root, val) IN InsertedAt(m, o, m[o], val)

----------------------------------------------------------------------------
(* Removing *)

\* borrowFromSibling when the sibling is the one before child i.
BorrowFromLeft(m, parent, o, i) ==
    LET cOff == parent.kids[i + 1]  child == m[cOff]
        sOff == parent.kids[i]      sib == m[sOff]
        c == [child EXCEPT !.elems = <<parent.elems[i]>> \o @,
                           !.kids = IF IsLeaf(child) THEN @ ELSE <<Last(sib.kids)>> \o @]
        s == [sib EXCEPT !.elems = Front(@),
                         !.kids = IF IsLeaf(child) THEN @ ELSE Front(@)]
        p == [parent EXCEPT !.elems[i] = Last(sib.elems)]
    IN [Reindexed(m, c, cOff, 0) EXCEPT ![sOff] = s, ![cOff] = c, ![o] = p]

\* ... the one after it.
BorrowFromRight(m, parent, o, i) ==
    LET cOff == parent.kids[i + 1]  child == m[cOff]
        sOff == parent.kids[i + 2]  sib == m[sOff]
        c == [child EXCEPT !.elems = Append(@, parent.elems[i + 1]),
                           !.kids = IF IsLeaf(child) THEN @ ELSE Append(@, Head(sib.kids))]
        s == [sib EXCEPT !.elems = Tail(@),
                         !.kids = IF IsLeaf(child) THEN @ ELSE Tail(@)]
        p == [parent EXCEPT !.elems[i + 1] = Head(sib.elems)]
        m1 == IF IsLeaf(child) THEN m ELSE Reindexed(m, c, cOff, nCh(c) - 1)
    IN [Reindexed(m1, s, sOff, 0) EXCEPT ![sOff] = s, ![cOff] = c, ![o] = p]

\* absorbOnlyChild: the root takes over the contents of its only child.
Absorbed(m, n, o) ==
    LET child == [m[n.kids[1]] EXCEPT !.parent = n.parent, !.index = n.index]
    IN [Reindexed(m, child, o, 0) EXCEPT ![o] = child]

\* mergeChildren: child i + 1, and the element between the two, go into child i.
Merged(m, parent, o, i) ==
    LET lOff == parent.kids[i + 1]  left == m[lOff]
        right == m[parent.kids[i + 2]]
        l == [left EXCEPT !.elems = @ \o <<parent.elems[i + 1]>> \o right.elems,
                          !.kids = @ \o right.kids]
        p == [parent EXCEPT !.elems = RemoveAt(@, i + 1), !.kids = RemoveAt(@, i + 2)]
        m1 == [Reindexed(m, l, lOff, nCh(left)) EXCEPT ![lOff] = l]
        m2 == Reindexed(m1, p, o, i + 1)
    IN IF o = Root /\ p.elems = <<>> /\ nCh(p) = 1
       THEN Absorbed(m2, p, o)
       ELSE [m2 EXCEPT ![o] = p]

\* (bug) A child at the minimum is let be.
CanLoseAny(n) == nEl(n) >= minElements

\* (bug) A child is merged with a sibling that has one more than the minimum.
CanLoseTwo(n) == nEl(n) > minElements + 1

CanLoseKey(n) == nEl(n) > minElements

\* ensureChildCanLoseKey
ChildReady(m, parent, o, i) ==
    IF CanLoseKey(m[parent.kids[i + 1]]) THEN m
    ELSE IF i > 0 /\ CanLoseKey(m[parent.kids[i]]) THEN BorrowFromLeft(m, parent, o, i)
    ELSE IF i + 1 < nCh(parent) /\ CanLoseKey(m[parent.kids[i + 2]])
         THEN BorrowFromRight(m, parent, o, i)
    ELSE Merged(m, parent, o, IF i > 0 THEN i - 1 ELSE i)

\* (bug) The first key of the child, leaf or not.
FirstInNode(m, o) == m[o].elems[1]

\* minInSubtree
RECURSIVE MinInSubtree(_, _)
MinInSubtree(m, o) ==
    IF IsLeaf(m[o]) THEN m[o].elems[1] ELSE MinInSubtree(m, m[o].kids[1])

\* removeFrom: the file and the answer.  A node read back that is not valid ends the
\* call with BTreeCorruptError.  (The code may notice in the middle of the writes of a
\* merge; nothing is done with the tree after that, so it does not matter here.)
RECURSIVE RemovedFrom(_, _, _)

\* The way down from n, at o, once its child i may lose a key: m1 is the file now.  A node
\* that was merged is looked at again.
Descended(m1, n, o, i, val) ==
    IF ~Valid(m1[o]) THEN [m |-> m1, ret |-> "corrupt"]
    ELSE IF nEl(m1[o]) # nEl(n) \/ nCh(m1[o]) # nCh(n) THEN RemovedFrom(m1, o, val)
    ELSE RemovedFrom(m1, m1[o].kids[i + 1], val)

RemovedFrom(m, o, val) ==
    LET n == m[o]
        i == Position(n, val)
    IN IF ~Valid(n) THEN [m |-> m, ret |-> "corrupt"]
       ELSE IF Holds(n, val) /\ IsLeaf(n)
            THEN [m |-> [m EXCEPT ![o].elems = RemoveAt(@, i + 1)], ret |-> "true"]
       ELSE IF IsLeaf(n) THEN [m |-> m, ret |-> "false"]
       ELSE IF Holds(n, val)
            THEN LET r == n.kids[i + 2]  succ == MinInSubtree(m, r) IN
                 IF CanLoseKey(m[r])
                 THEN RemovedFrom([m EXCEPT ![o].elems[i + 1] = succ], r, succ)
                 ELSE RemovedFrom(ChildReady(m, n, o, i + 1), o, val)
       ELSE Descended(ChildReady(m, n, o, i), n, o, i, val)

----------------------------------------------------------------------------
(* The state between operations *)

RECURSIVE Below(_, _)
Below(m, o) ==
    {o} \cup UNION {Below(m, m[o].kids[j]) : j \in 1 .. nCh(m[o])}

\* Places the tree does not reach are free again.
Collected(m) ==
    LET R == Below(m, Root) IN [o \in Offsets |-> IF o \in R THEN m[o] ELSE Absent]

\* Every element e becomes new[e].
Renumbered(m, new) ==
    [o \in Offsets |->
        IF m[o] = Absent THEN Absent
        ELSE [m[o] EXCEPT !.elems = [j \in DOMAIN @ |-> new[@[j]]]]]

\* BTree::initialize
Init ==
    /\ nodes = [o \in Offsets |-> IF o = Root THEN EmptyRoot ELSE Absent]
    /\ size = 0
    /\ out = "right"

Keys == {2 * j : j \in 1 .. size}
Probes == 1 .. 2 * size + 1

\* insert, and overwrite, of a key that is in the tree.
insertPresent(val) ==
    /\ val \in Keys
    /\ out' = IF Find(val) THEN "right" ELSE "wrong"
    /\ UNCHANGED <<nodes, size>>

\* insert, and overwrite, of one that is not.
insert(val) ==
    LET new == [e \in Keys \cup {val} |->
                   IF e < val THEN e ELSE IF e = val THEN val + 1 ELSE e + 2] IN
    /\ val \in Probes \ Keys
    /\ size < MaxKeys
    /\ size' = size + 1
    /\ nodes' = Renumbered(Collected(Inserted(nodes, val)), new)
    /\ out' = IF Find(val) THEN "wrong" ELSE "right"

\* remove
remove(val) ==
    LET new == [e \in Keys |-> IF val \in Keys /\ e > val THEN e - 2 ELSE e] IN
    /\ val \in Probes
    /\ \E r \in {RemovedFrom(nodes, Root, val)} :
         /\ nodes' = Renumbered(Collected(r.m), new)
         /\ out' = IF r.ret = "corrupt" THEN "corrupt"
                   ELSE IF (r.ret = "true") = (val \in Keys) THEN "right" ELSE "wrong"
    /\ size' = IF val \in Keys THEN size - 1 ELSE size

\* Nothing is done with a tree that was found corrupt.
Next ==
    /\ out # "corrupt"
    /\ \E val \in Probes : insertPresent(val) \/ insert(val) \/ remove(val)

Spec == Init /\ [][Next]_vars

----------------------------------------------------------------------------
(* Properties *)

Reached == Below(nodes, Root)

TypeOK ==
    /\ size \in 0 .. MaxKeys
    /\ out \in {"right", "wrong", "corrupt"}
    /\ \A o \in Offsets : nodes[o] = Absent <=> o \notin Reached
    /\ \A o \in Reached : Valid(nodes[o])

\* The keys from left to right below a node.
RECURSIVE InOrder(_)
InOrder(o) ==
    LET n == nodes[o] IN
    IF IsLeaf(n) THEN n.elems
    ELSE FlattenSeq([j \in 1 .. nCh(n) |->
            IF j <= nEl(n) THEN Append(InOrder(n.kids[j]), n.elems[j]) ELSE InOrder(n.kids[j])])

\* The tree is the sorted sequence of the keys that were inserted and not removed:
\* through splits that reach the root, borrows, merges and the root's collapse no key
\* is lost, doubled or put in the wrong place.
ContentsRight == InOrder(Root) = [j \in 1 .. size |-> 2 * j]

\* Every child knows its parent and its place in it - what the next split goes by - and
\* no node has two parents.
LinksExact ==
    /\ \A o \in Reached : \A j \in 1 .. nCh(nodes[o]) :
          /\ nodes[nodes[o].kids[j]].parent = o
          /\ nodes[nodes[o].kids[j]].index = j - 1
    /\ \A o, p \in Reached : o # p =>
          ToSet(nodes[o].kids) \cap ToSet(nodes[p].kids) = {}
    /\ nodes[Root].index = -1

RECURSIVE Height(_)
Height(o) == IF IsLeaf(nodes[o]) THEN 0 ELSE 1 + Height(nodes[o].kids[1])

\* All leaves are at one depth, and no node but the root is less than half full.
BalancedAndFilled ==
    \A o \in Reached :
        /\ \A j \in 1 .. nCh(nodes[o]) : Height(nodes[o].kids[j]) = Height(o) - 1
        /\ o # Root => nEl(nodes[o]) >= minElements

\* find finds exactly the keys of the tree, findNext the least key not below its
\* argument.
LookupsRight ==
    \A val \in Probes :
        /\ Find(val) <=> val \in Keys
        /\ FindNext(val) = IF val \in Keys THEN val
                           ELSE IF val < 2 * size THEN val + 1 ELSE None

\* insert and remove say whether the key was there, and find no node corrupt.
AnswersRight == out \notin {"wrong", "corrupt"}

\* A tree that only its own operations wrote is never found corrupt.
NeverCorrupt == out # "corrupt"
=============================================================================
