------------------------------ MODULE FrozenBTree ------------------------------
(***************************************************************************)
(* The read-only B-tree of include/fs/FrozenBTree.h: build writes a tree   *)
(* over sorted items, bottom up, and the searches of BTreeBase read it     *)
(* back.  The searches are those of module BTree, over the built file.     *)
(*                                                                         *)
(* Items are 2, 4, .., 2 * items, in the order of the comparator; odd      *)
(* numbers are the keys between them.  An offset counts nodes.             *)
(***************************************************************************)
EXTENDS Integers, Sequences

LOCAL INSTANCE SequencesExt

CONSTANTS Widths,    \* values of the template parameter N
          MaxItems   \* bound: items given to build

VARIABLES
    width,   \* N
    itemCount,   \* how many items build was given
    file     \* the nodes it appended to dst, in order

frozenVars == <<width, itemCount, file>>

\* A pending node; kids are pending nodes too (childIndices).
Pending(elems, kids) == [elems |-> elems, kids |-> kids]

\* How many of the remaining items go into the next leaf.
Take(n, remaining) ==
    IF remaining <= n THEN remaining
    ELSE IF remaining = n + 1 THEN n - 1
    ELSE n

\* The leaf level for the items after the i-th of m, and the items promoted between leaves.
RECURSIVE LeafLevel(_, _, _)
LeafLevel(n, i, m) ==
    LET next == i + Take(n, m - i)
        leaf == Pending([j \in 1 .. next - i |-> 2 * (i + j)], <<>>)
        rest == LeafLevel(n, next + 1, m)
    IN IF next >= m THEN [nodes |-> <<leaf>>, seps |-> <<>>]
       ELSE IF next + 1 >= m THEN [nodes |-> <<leaf>>, seps |-> <<2 * (next + 1)>>]
       ELSE [nodes |-> <<leaf>> \o rest.nodes, seps |-> <<2 * (next + 1)>> \o rest.seps]

\* childCount
GroupSize(n, kids) == IF n + 1 < kids THEN n + 1 ELSE kids

\* The level of parents over a level of nodes and the separators between them.
RECURSIVE ParentLevel(_, _)
ParentLevel(n, level) ==
    LET c == GroupSize(n, Len(level.nodes))
        parent == Pending(SubSeq(level.seps, 1, c - 1), SubSeq(level.nodes, 1, c))
        rest == ParentLevel(n, [nodes |-> SubSeq(level.nodes, c + 1, Len(level.nodes)),
                                seps |-> SubSeq(level.seps, c + 1, Len(level.seps))])
    IN IF c = Len(level.nodes) THEN [nodes |-> <<parent>>, seps |-> <<>>]
       ELSE [nodes |-> <<parent>> \o rest.nodes, seps |-> <<level.seps[c]>> \o rest.seps]

RECURSIVE RootOf(_, _)
RootOf(n, level) ==
    IF Len(level.nodes) = 1 THEN level.nodes[1] ELSE RootOf(n, ParentLevel(n, level))

\* The nodes in breadth-first order: a whole level, then the children of that level.
RECURSIVE BreadthFirst(_)
BreadthFirst(level) ==
    IF level = <<>> THEN <<>>
    ELSE level \o BreadthFirst(FlattenSeq([j \in 1 .. Len(level) |-> level[j].kids]))

\* The node at place k, counted from 0: its children come after those of the nodes before it.
FirstKid(bfs, k) == 1 + FoldLeft(LAMBDA sum, p : sum + Len(p.kids), 0, SubSeq(bfs, 1, k))

ParentPlace(bfs, k) ==
    IF k = 0 THEN 0
    ELSE CHOOSE p \in 0 .. k - 1 :
             k \in FirstKid(bfs, p) .. FirstKid(bfs, p) + Len(bfs[p + 1].kids) - 1

Frozen(bfs) ==
    [k \in 0 .. Len(bfs) - 1 |->
        LET p == ParentPlace(bfs, k) IN
        [parent |-> p,
         index |-> IF k = 0 THEN -1 ELSE k - FirstKid(bfs, p),
         elems |-> bfs[k + 1].elems,
         kids |-> [c \in 1 .. Len(bfs[k + 1].kids) |-> FirstKid(bfs, k) + c - 1]]]

FrozenInit ==
    /\ width \in Widths
    /\ itemCount = 0
    /\ file = Frozen(BreadthFirst(<<RootOf(width, LeafLevel(width, 0, 0))>>))

\* The program builds its next read-only segment, with some items more.
BuildTree ==
    /\ itemCount < MaxItems
    /\ itemCount' = itemCount + 1
    /\ file' = Frozen(BreadthFirst(<<RootOf(width, LeafLevel(width, 0, itemCount + 1))>>))
    /\ UNCHANGED width

FrozenNext == BuildTree

----------------------------------------------------------------------------
(* Properties *)

\* The built file, read by the operations of BTreeBase.
Read(n) == INSTANCE BTree WITH N <- n, MaxKeys <- MaxItems, MaxNodes <- MaxItems + 1,
                               nodes <- file, size <- itemCount, out <- "right"

\* Every node passes the validation of getNode.
Accepted ==
    \A k \in DOMAIN file :
        /\ Len(file[k].elems) <= width
        /\ Len(file[k].kids) \in {0, Len(file[k].elems) + 1}
        /\ file[k].index \in -1 .. width

\* Reading the file back in order gives the items, the links between its nodes agree, and
\* every search for a key that is there or is not finds what the items say.
FrozenRight ==
    /\ Accepted
    /\ \A n \in Widths : n = width => Read(n)!ContentsRight /\ Read(n)!LookupsRight
    /\ \A k \in DOMAIN file : \A c \in 1 .. Len(file[k].kids) :
           /\ file[file[k].kids[c]].parent = k
           /\ file[file[k].kids[c]].index = c - 1
=============================================================================
