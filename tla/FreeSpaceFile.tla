----------------------------- MODULE FreeSpaceFile -----------------------------
(***************************************************************************)
(* A file whose free regions are kept in a B-tree in the same file:        *)
(* src/src/fs/FreeSpaceFile.cpp over include/fs/BTree.h.                   *)
(*                                                                         *)
(* The B-tree is seen from outside: a set of regions ordered by size and   *)
(* then offset, each of whose operations is atomic under its own mutex     *)
(* (module BTree looks inside).  What is left of it is that an insertion   *)
(* may need a new node, which addNode puts at the end of the file - where  *)
(* getFreeRegion, under no mutex, also takes space.                        *)
(***************************************************************************)
EXTENDS Integers, FiniteSets

CONSTANTS Callers,     \* threads
          NoCaller,
          Lengths,     \* lengths of regions
          NodeSize,    \* length of a node of the tree
          Align,       \* padding of a new region or node at the end of the file
          MaxFileEnd,  \* bound: length of the file
          MaxSplits,   \* bound: nodes added to the tree
          Serial       \* does the program make its calls one at a time?

ASSUME FreeSpaceAssumption ==
    /\ NoCaller \notin Callers
    /\ Lengths \subseteq Nat \ {0}
    /\ NodeSize \in Nat \ {0} /\ Align \in Nat \ {0}
    /\ MaxFileEnd \in Nat /\ NodeSize <= MaxFileEnd /\ MaxSplits \in Nat
    /\ Serial \in BOOLEAN

VARIABLES
    freeRegions, \* the regions in the tree
    treeNodes,   \* where the nodes of the tree are
    fileEnd,     \* the length of the file
    inUse,       \* regions the program was given and has not freed
    mutex,       \* who is inside the tree's insert
    inCall,      \* where each caller is in a call
    wanted,      \* the length asked for, or the region being freed
    got          \* the region found, or the end of the file seen

spaceVars == <<freeRegions, treeNodes, fileEnd, inUse, mutex, inCall, wanted, got>>

Region(start, length) == [offset |-> start, size |-> length]
NoRegion == Region(0, 0)
Regions == [offset : 0 .. MaxFileEnd, size : Lengths]

SpaceTypeOK ==
    /\ freeRegions \subseteq Regions
    /\ treeNodes \subseteq [offset : 0 .. MaxFileEnd, size : {NodeSize}]
    /\ fileEnd \in 0 .. MaxFileEnd
    /\ \A r \in inUse : r.region \in Regions
    /\ mutex \in Callers \cup {NoCaller}
    /\ inCall \in [Callers -> {"idle", "remove", "end", "extend", "node", "write"}]
    /\ \A t \in Callers : mutex = t <=> inCall[t] \in {"node", "write"}

\* BTree::initialize has written the root; getHeaderEnd is its end.
SpaceInit ==
    /\ freeRegions = {}
    /\ treeNodes = {Region(0, NodeSize)}
    /\ fileEnd = NodeSize
    /\ inUse = {}
    /\ mutex = NoCaller
    /\ inCall = [t \in Callers |-> "idle"]
    /\ wanted = [t \in Callers |-> NoRegion]
    /\ got = [t \in Callers |-> NoRegion]

----------------------------------------------------------------------------

MayCall(t) ==
    /\ inCall[t] = "idle"
    /\ Serial => \A u \in Callers : inCall[u] = "idle"

GotoStep(t, p) == inCall' = [inCall EXCEPT ![t] = p]

\* The call returns; its local variables are gone.
ReturnFrom(t) ==
    /\ GotoStep(t, "idle")
    /\ wanted' = [wanted EXCEPT ![t] = NoRegion]
    /\ got' = [got EXCEPT ![t] = NoRegion]

\* free_region_pair_t::compare
SortsBefore(a, b) == a.size < b.size \/ (a.size = b.size /\ a.offset < b.offset)

\* The regions that findNext of {0, length} may find ...
Fitting(length) == {r \in freeRegions : r.size >= length}

\* ... and the one it finds: the smallest that fits, of these the first in the file.
BestFit(length) ==
    CHOOSE r \in Fitting(length) : \A s \in Fitting(length) : s = r \/ SortsBefore(r, s)

\* seekToEndWithPadding
PaddedEnd(e) == ((e + Align - 1) \div Align) * Align

\* The program is given length bytes at start.  Regions are told apart even when they
\* are the same bytes.
Give(t, start, length) ==
    inUse' = inUse \cup {[region |-> Region(start, length),
                        nr |-> Cardinality({h \in inUse : h.region = Region(start, length)})]}

\* getFreeRegion: look for a region in the tree ...
GetFreeRegion(t, length) ==
    /\ MayCall(t)
    /\ mutex = NoCaller
    /\ wanted' = [wanted EXCEPT ![t] = Region(0, length)]
    /\ IF Fitting(length) # {}
       THEN /\ got' = [got EXCEPT ![t] = BestFit(length)]
            /\ GotoStep(t, "remove")
       ELSE /\ GotoStep(t, "end")
            /\ UNCHANGED got
    /\ UNCHANGED <<freeRegions, treeNodes, fileEnd, inUse, mutex>>

\* (bug) The region is handed out and stays in the tree.
RegionNotRemoved(r) == freeRegions

\* freeRegions.remove(pair), whose answer nobody looks at.
RemovedRegion(r) == freeRegions \ {r}

\* ... and take it out.  What is over of a larger region is in the tree no more.
RemoveFound(t) ==
    /\ inCall[t] = "remove"
    /\ mutex = NoCaller
    /\ freeRegions' = RemovedRegion(got[t])
    /\ Give(t, got[t].offset, wanted[t].size)
    /\ ReturnFrom(t)
    /\ UNCHANGED <<treeNodes, fileEnd, mutex>>

\* No region fits: the end of the file ...
SeekEnd(t) ==
    /\ inCall[t] = "end"
    /\ PaddedEnd(fileEnd) + wanted[t].size <= MaxFileEnd
    /\ got' = [got EXCEPT ![t] = Region(PaddedEnd(fileEnd), wanted[t].size)]
    /\ GotoStep(t, "extend")
    /\ UNCHANGED <<freeRegions, treeNodes, fileEnd, inUse, mutex, wanted>>

\* (bug) The file is not made longer.
NotExtended(r) == fileEnd

\* ftruncate(fd, out + length)
Extended(r) == r.offset + r.size

\* ... is moved behind the new region.
Extend(t) ==
    /\ inCall[t] = "extend"
    /\ fileEnd' = Extended(got[t])
    /\ Give(t, got[t].offset, got[t].size)
    /\ ReturnFrom(t)
    /\ UNCHANGED <<freeRegions, treeNodes, mutex>>

\* (bug) insert takes no lock.
LockedByNobody(t) == NoCaller

\* insert holds the tree's mutex while it adds a node.
LockedBy(t) == t

\* markFreeRegion: the program gives back a region, or the first part of one.  The
\* insertion may split a node.
MarkFreeRegion(t, h, length) ==
    LET r == Region(h.region.offset, length) IN
    /\ MayCall(t)
    /\ mutex = NoCaller
    /\ length <= h.region.size
    /\ inUse' = inUse \ {h}
    /\ \/ /\ freeRegions' = freeRegions \cup {r}
          /\ UNCHANGED <<mutex, inCall, wanted>>
       \/ /\ Cardinality(treeNodes) <= MaxSplits
          /\ mutex' = LockedBy(t)
          /\ wanted' = [wanted EXCEPT ![t] = r]
          /\ GotoStep(t, "node")
          /\ UNCHANGED freeRegions
    /\ UNCHANGED <<treeNodes, fileEnd, got>>

\* addNode: the end of the file ...
AddTreeNode(t) ==
    /\ inCall[t] = "node"
    /\ PaddedEnd(fileEnd) + NodeSize <= MaxFileEnd
    /\ got' = [got EXCEPT ![t] = Region(PaddedEnd(fileEnd), NodeSize)]
    /\ GotoStep(t, "write")
    /\ UNCHANGED <<freeRegions, treeNodes, fileEnd, inUse, mutex, wanted>>

\* ... and the pwrite of the node, after which the insertion is done.
WriteNode(t) ==
    LET e == got[t].offset + NodeSize IN
    /\ inCall[t] = "write"
    /\ treeNodes' = treeNodes \cup {got[t]}
    /\ fileEnd' = IF e > fileEnd THEN e ELSE fileEnd
    /\ freeRegions' = freeRegions \cup {wanted[t]}
    /\ mutex' = NoCaller
    /\ ReturnFrom(t)
    /\ UNCHANGED inUse

SpaceNext ==
    \E t \in Callers :
        \/ \E n \in Lengths : GetFreeRegion(t, n)
        \/ RemoveFound(t) \/ SeekEnd(t) \/ Extend(t)
        \/ \E h \in inUse, n \in Lengths : MarkFreeRegion(t, h, n)
        \/ AddTreeNode(t) \/ WriteNode(t)

SpaceSpec == SpaceInit /\ [][SpaceNext]_spaceVars

----------------------------------------------------------------------------
(* Properties *)

Overlap(r, s) == r.offset < s.offset + s.size /\ s.offset < r.offset + r.size

\* The tree's nodes, the free regions and the regions in use do not overlap, and no
\* region is given out twice.
RegionsDisjoint ==
    /\ \A h, g \in inUse : h # g => ~Overlap(h.region, g.region)
    /\ \A h \in inUse : \A r \in freeRegions \cup treeNodes : ~Overlap(h.region, r)
    /\ \A r \in freeRegions, s \in treeNodes : ~Overlap(r, s)
    /\ \A r, s \in freeRegions : r # s => ~Overlap(r, s)
    /\ \A r, s \in treeNodes : r # s => ~Overlap(r, s)

\* Nothing in use is cut off the end of the file.
InsideFile ==
    \A r \in {h.region : h \in inUse} \cup treeNodes : r.offset + r.size <= fileEnd

\* "must not corrupt the BTree's on-disk nodes": no region is given out on top of one.
NodesIntact == \A h \in inUse : \A r \in treeNodes : ~Overlap(h.region, r)
=============================================================================
