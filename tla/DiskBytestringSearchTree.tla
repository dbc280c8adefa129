----------------------- MODULE DiskBytestringSearchTree ------------------------
(***************************************************************************)
(* The prefix tree on disk of src/src/fs/DiskBytestringSearchTree.cpp.     *)
(*                                                                         *)
(* A node lies in a region that FreeSpaceFile gave out.  The file is seen  *)
(* as a function from offsets to nodes, and offsets and sizes count bytes, *)
(* because a node that is written past the end of its region falls onto    *)
(* the header of the next one (Damaged).  What is in a region stays there  *)
(* when the region is given back.                                          *)
(*                                                                         *)
(* A transaction is written out as a whole; an interruption inside insert  *)
(* (CHECK_INTERRUPTION) leaves the nodes that were already in the file.    *)
(***************************************************************************)
EXTENDS Integers, FiniteSets, Sequences

LOCAL INSTANCE SequencesExt

CONSTANTS DiskKeys,        \* bytestrings: nonempty sequences of bytes
          DiskValues,      \* values, which are not 0
          LeafRoom,    \* children a new node has room for; 4 in the code
          GrowthRoom,  \* children that realloc leaves room for; 2 in the code
          MaxEnd       \* bound: length of the file

VARIABLES
    disk,    \* the node at each offset where one was ever written
    regions, \* the length of each region that is in use
    free,    \* the length of each region that was given back
    end,     \* the length of the file
    dict     \* history: what the calls so far say is in the tree

diskVars == <<disk, regions, free, end, dict>>

Header == 24
ChildEntry == 8
Junk == -1
NoValue == 0
RootOffset == 0

\* disk_bytestring_node_t; children is a function from bytes to offsets, which the code
\* keeps as a sorted array.
DiskNode(parent, data, memory, prefix, children) ==
    [parent |-> parent, data |-> data, memory |-> memory, prefix |-> prefix,
     children |-> children]

NoChildren == [b \in {} |-> 0]

computeSize(n) == Header + Len(n.prefix) + ChildEntry * Cardinality(DOMAIN n.children)

\* create and createLeaf: a node with room for children.
NewNode(parent, data, prefix) ==
    DiskNode(parent, data, Header + Len(prefix) + ChildEntry * LeafRoom, prefix, NoChildren)

\* The children of the node sort before its prefix, so the first bytes that leave the
\* region are those of the last children.  They fall on parent, then on dataOffset.
Damaged(n, bytes) ==
    [n EXCEPT !.parent = IF bytes > 0 THEN Junk ELSE @,
              !.data = IF bytes > 8 THEN Junk ELSE @]

\* node->write at an offset.
WrittenNode(d, o, n) ==
    [x \in DOMAIN d \cup {o} |->
        IF x = o THEN n
        ELSE IF o < x /\ x < o + computeSize(n) THEN Damaged(d[x], o + computeSize(n) - x)
        ELSE d[x]]

\* Bound: no write goes further into the next node than its first two fields.
Shallow(d, o, n) == \A x \in DOMAIN d : o < x => o + computeSize(n) - x <= 16

\* addChild
WithChild(n, byte, o) ==
    LET grown == [n EXCEPT !.children =
                     [b \in DOMAIN @ \cup {byte} |-> IF b = byte THEN o ELSE @[b]]]
        needed == computeSize(n) + ChildEntry
    IN IF needed > n.memory
       THEN [grown EXCEPT !.memory = needed + ChildEntry * GrowthRoom]
       ELSE grown

----------------------------------------------------------------------------
(* FreeSpaceFile::getFreeRegion and markFreeRegion, as module FreeSpaceFile has them. *)

Padded(e) == ((e + 7) \div 8) * 8

FitsRegion(fs, length) == {o \in DOMAIN fs.free : fs.free[o] >= length}

\* The space in the middle of an operation, and the place it gives out.
RegionFor(fs, length) ==
    IF FitsRegion(fs, length) = {} THEN Padded(fs.end)
    ELSE CHOOSE o \in FitsRegion(fs, length) : \A x \in FitsRegion(fs, length) :
            fs.free[o] < fs.free[x] \/ (fs.free[o] = fs.free[x] /\ o <= x)

TakenFrom(fs, length) ==
    LET o == RegionFor(fs, length) IN
    [regions |-> [x \in DOMAIN fs.regions \cup {o} |->
                     IF x # o THEN fs.regions[x]
                     ELSE IF o \in DOMAIN fs.free THEN fs.free[o] ELSE length],
     free |-> [x \in DOMAIN fs.free \ {o} |-> fs.free[x]],
     end |-> IF FitsRegion(fs, length) = {} THEN o + length ELSE fs.end]

GivenBack(fs, o, length) ==
    [fs EXCEPT !.regions = [x \in DOMAIN @ \ {o} |-> @[x]],
               !.free = [x \in DOMAIN @ \cup {o} |-> IF x = o THEN length ELSE @[x]]]

Space == [regions |-> regions, free |-> free, end |-> end]

Settle(fs, d) ==
    /\ fs.end <= MaxEnd
    /\ regions' = fs.regions /\ free' = fs.free /\ end' = fs.end
    /\ disk' = d

----------------------------------------------------------------------------
(* findNearestNode *)

EmptyEntry == "EMPTY_ENTRY"
Exact == "EXACT"
ToSplit == "TO_SPLIT"

Suffix(key, i) == SubSeq(key, i + 1, Len(key))

\* The search for key from the node at offset o on, i bytes of the key being matched.
RECURSIVE NearestFrom(_, _, _)
NearestFrom(key, o, i) ==
    LET n == disk[o]  j == i + Len(n.prefix) IN
    IF ~IsPrefix(n.prefix, Suffix(key, i)) THEN [match |-> ToSplit, offset |-> o, index |-> i]
    ELSE IF j = Len(key) THEN [match |-> Exact, offset |-> o, index |-> j]
    ELSE IF key[j + 1] \notin DOMAIN n.children
         THEN [match |-> EmptyEntry, offset |-> o, index |-> j + 1]
    ELSE NearestFrom(key, n.children[key[j + 1]], j + 1)

NearestNode(key) == NearestFrom(key, RootOffset, 0)

\* find: 0 when there is no such key.
FoundNode(key) ==
    LET r == NearestNode(key) IN IF r.match = Exact THEN disk[r.offset].data ELSE NoValue

----------------------------------------------------------------------------

\* initialize: the root has room for every byte.
DiskInit ==
    LET root == DiskNode(0, NoValue, Header + ChildEntry * 256, <<>>, NoChildren) IN
    /\ disk = [o \in {RootOffset} |-> root]
    /\ regions = [o \in {RootOffset} |-> root.memory]
    /\ free = [o \in {} |-> 0]
    /\ end = root.memory
    /\ dict = [k \in DiskKeys |-> NoValue]

\* insert, EXACT: the header is written back with the new value.
insertExact(key, value, overwrite) ==
    LET r == NearestNode(key)  n == disk[r.offset] IN
    /\ r.match = Exact
    /\ IF n.data # NoValue /\ ~overwrite
       THEN UNCHANGED <<disk, dict>>
       ELSE /\ disk' = [disk EXCEPT ![r.offset].data = value]
            /\ dict' = [dict EXCEPT ![key] = value]
    /\ UNCHANGED <<regions, free, end>>

\* (bug) The parent is not told of the move.
NotMigrated(parent, old, new) == parent

\* migrateChild
Migrated(parent, old, new) ==
    [parent EXCEPT !.children = [b \in DOMAIN @ |-> IF @[b] = old THEN new ELSE @[b]]]

\* insert, EMPTY_ENTRY: a leaf for the rest of the key, and a child for it in the nearest
\* node.  A node that has outgrown its memory is moved, and the node at its parent offset
\* told.
insertLeaf(key, value) ==
    LET r == NearestNode(key)
        n == disk[r.offset]
        leaf == NewNode(r.offset, value, Suffix(key, r.index))
        leafOffset == RegionFor(Space, leaf.memory)
        fs == TakenFrom(Space, leaf.memory)
        d == WrittenNode(disk, leafOffset, leaf)
        grown == WithChild(n, key[r.index], leafOffset)
        newOffset == RegionFor(fs, grown.memory)
        fs2 == TakenFrom(fs, grown.memory)
        d2 == WrittenNode(d, newOffset, grown)
        parent == d2[n.parent]
    IN
    /\ r.match = EmptyEntry
    /\ \/ \* CHECK_INTERRUPTION(1): the leaf is there and nothing leads to it.
          /\ Settle(fs, d)
          /\ UNCHANGED dict
       \/ /\ grown.memory = n.memory
          /\ Shallow(d, r.offset, grown)
          /\ Settle(fs, WrittenNode(d, r.offset, grown))
          /\ dict' = [dict EXCEPT ![key] = value]
       \/ /\ grown.memory # n.memory
          /\ n.parent \in DOMAIN d2
          /\ Settle(GivenBack(fs2, r.offset, n.memory),
                    WrittenNode(d2, n.parent, Migrated(parent, r.offset, newOffset)))
          /\ dict' = [dict EXCEPT ![key] = value]

CommonLength(s, t) ==
    CHOOSE i \in 0 .. Len(s) :
        /\ i <= Len(t) /\ SubSeq(s, 1, i) = SubSeq(t, 1, i)
        /\ (i < Len(s) /\ i < Len(t)) => s[i + 1] # t[i + 1]

\* updatePrefix: the first byte after the common part is matched by the parent's entry.
Trimmed(prefix, mismatchAt) == SubSeq(prefix, mismatchAt + 2, Len(prefix))

\* insert, TO_SPLIT: the node keeps what is left of its prefix and moves, and a new node
\* with the common part takes its place.  The moved node's memory is not made to fit the
\* region it is given, and its children still name the old place as their parent.
insertSplit(key, value) ==
    LET r == NearestNode(key)
        n == disk[r.offset]
        rest == Suffix(key, r.index)
        mismatchAt == CommonLength(n.prefix, rest)
        moved == [n EXCEPT !.prefix = Trimmed(@, mismatchAt), !.parent = r.offset]
        movedOffset == RegionFor(Space, computeSize(moved))
        fs == TakenFrom(Space, computeSize(moved))
        d == WrittenNode(disk, movedOffset, moved)
        parent == WithChild(NewNode(n.parent, NoValue, SubSeq(n.prefix, 1, mismatchAt)),
                            n.prefix[mismatchAt + 1], movedOffset)
        leaf == NewNode(r.offset, value, Suffix(rest, mismatchAt + 1))
        leafOffset == RegionFor(fs, leaf.memory)
        fs2 == TakenFrom(fs, leaf.memory)
        top == IF mismatchAt = Len(rest) THEN [parent EXCEPT !.data = value]
               ELSE WithChild(parent, rest[mismatchAt + 1], leafOffset)
        end2 == IF mismatchAt = Len(rest) THEN fs ELSE fs2
        d2 == IF mismatchAt = Len(rest) THEN d ELSE WrittenNode(d, leafOffset, leaf)
    IN
    /\ r.match = ToSplit
    /\ \/ \* CHECK_INTERRUPTION(3): the node is copied and nothing leads to the copy.
          /\ Settle(fs, d)
          /\ UNCHANGED dict
       \/ /\ Shallow(d2, r.offset, top)
          /\ Settle(end2, WrittenNode(d2, r.offset, top))
          /\ dict' = [dict EXCEPT ![key] = value]

\* remove: the node stays, without its value.
remove(key) ==
    LET r == NearestNode(key) IN
    /\ r.match = Exact
    /\ disk' = [disk EXCEPT ![r.offset].data = NoValue]
    /\ dict' = [dict EXCEPT ![key] = NoValue]
    /\ UNCHANGED <<regions, free, end>>

DiskNext ==
    \E key \in DiskKeys :
        \/ \E value \in DiskValues :
              \/ \E overwrite \in BOOLEAN : insertExact(key, value, overwrite)
              \/ insertLeaf(key, value)
              \/ insertSplit(key, value)
        \/ remove(key)

DiskSpec == DiskInit /\ [][DiskNext]_diskVars

----------------------------------------------------------------------------
(* Properties *)

\* find gives the value of the last insert of each key, whatever was inserted since.
FindsWhatWasInserted == \A key \in DiskKeys : FoundNode(key) = dict[key]

\* What is in use of the file is there once: no two regions overlap, and none that is in use
\* was given back.
RegionsApart ==
    /\ \A o, x \in DOMAIN regions : o < x => o + regions[o] <= x
    /\ DOMAIN regions \cap DOMAIN free = {}
=============================================================================
