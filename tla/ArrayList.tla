------------------------------- MODULE ArrayList -------------------------------
(***************************************************************************)
(* ArrayList: include/ds/ArrayList.h.                                      *)
(*                                                                         *)
(* The memory is a sequence of slots; a slot without an object in it is    *)
(* Raw.  exportMemory, and with it a move, leaves the list without memory  *)
(* but with its old capacity: "This must be the LAST function called on    *)
(* the object", and a moved-from list too is only assigned to or           *)
(* destroyed.  An item that is added is no reference into the same list.   *)
(***************************************************************************)
EXTENDS Integers, Sequences, FiniteSets, SequencesExt

CONSTANTS ArrayLists, Objects,
          Default,             \* T()
          Raw,
          FirstAllocated,      \* 8: what add allocates first
          Portion,             \* 16: addMany allocates in portions
          MaxAllocated         \* bound

ASSUME ArrayAssumption ==
    FirstAllocated \in Nat \ {0} /\ Portion \in Nat \ {0} /\ MaxAllocated \in Nat

VARIABLES arrayList,      \* of each list: slots, length, and allocated
          sequence    \* what it stands for

arrayVars == <<arrayList, sequence>>

NoMemory == [slots |-> <<>>, length |-> 0, allocated |-> 0]

ArrayTypeOK ==
    \A a \in ArrayLists :
       /\ arrayList[a].slots \in Seq(Objects \cup {Default, Raw})
       /\ arrayList[a].allocated \in 0 .. MaxAllocated
       /\ arrayList[a].length \in 0 .. arrayList[a].allocated

ArrayInit ==
    /\ arrayList = [a \in ArrayLists |-> NoMemory]
    /\ sequence = [a \in ArrayLists |-> <<>>]

----------------------------------------------------------------------------

Raws(n) == [i \in 1 .. n |-> Raw]

\* (bug) prepare may be asked for less than there is.
ShrinksToo(x, size) ==
    [x EXCEPT !.slots = SubSeq(@ \o Raws(size), 1, size), !.allocated = size]

\* prepare: what is there is moved or reallocated, never less.
Prepared(x, size) ==
    IF size > x.allocated
    THEN [x EXCEPT !.slots = @ \o Raws(size - x.allocated), !.allocated = size]
    ELSE x

\* Placement new of vs in the slots behind the last
Constructed(x, vs) ==
    [x EXCEPT !.slots = [i \in DOMAIN @ |-> IF i \in x.length + 1 .. x.length + Len(vs)
                                            THEN vs[i - x.length] ELSE @[i]],
              !.length = @ + Len(vs)]

RoomForOne(x) ==
    IF x.length = x.allocated
    THEN Prepared(x, IF x.allocated = 0 THEN FirstAllocated ELSE x.allocated * 2)
    ELSE x

RoomFor(x, count) ==
    IF x.length + count > x.allocated
    THEN Prepared(x, x.allocated * 2 + (count \div Portion + 1) * Portion)
    ELSE x

\* addFirst: from the last to the first, each object is moved one slot up.
ShiftedUp(x) ==
    [x EXCEPT !.slots = [i \in DOMAIN @ |-> IF i = 1 THEN Raw
                                            ELSE IF i <= x.length + 1 THEN @[i - 1] ELSE @[i]]]

\* pop, and the tail of resize: objects from n on are destroyed.
Truncated(x, n) ==
    [x EXCEPT !.slots = [i \in DOMAIN @ |-> IF i > n THEN Raw ELSE @[i]], !.length = n]

\* A copy has the other's capacity, and copies of its objects.
CopyOf(x) ==
    Constructed([slots |-> Raws(x.allocated), length |-> 0, allocated |-> x.allocated],
                SubSeq(x.slots, 1, x.length))

----------------------------------------------------------------------------

\* Not exported or moved from
Sound(a) == Len(arrayList[a].slots) = arrayList[a].allocated

Turns(a, x, vs) ==
    /\ x.allocated <= MaxAllocated
    /\ arrayList' = [arrayList EXCEPT ![a] = x]
    /\ sequence' = [sequence EXCEPT ![a] = vs]

AddItem(a, v) ==
    /\ Sound(a)
    /\ Turns(a, Constructed(RoomForOne(arrayList[a]), <<v>>), Append(sequence[a], v))

AddFirst(a, v) ==
    LET x == ShiftedUp(RoomForOne(arrayList[a])) IN
    /\ Sound(a)
    /\ Turns(a, [x EXCEPT !.slots[1] = v, !.length = @ + 1], <<v>> \o sequence[a])

\* addMany of an array, a container or a string, and addCopies
AddMany(a, vs) ==
    /\ Sound(a)
    /\ Turns(a, Constructed(RoomFor(arrayList[a], Len(vs)), vs), sequence[a] \o vs)

\* set: no effect behind the end
SetSlot(a, i, v) ==
    /\ Sound(a)
    /\ i <= arrayList[a].length
    /\ Turns(a, [arrayList[a] EXCEPT !.slots[i] = v], [sequence[a] EXCEPT ![i] = v])

PopBack(a) ==
    /\ Sound(a) /\ arrayList[a].length > 0
    /\ Turns(a, Truncated(arrayList[a], arrayList[a].length - 1), Front(sequence[a]))

\* unorderedRemove: the popped object replaces object i, if i is still there.
UnorderedRemove(a, i) ==
    LET x == arrayList[a]  y == Truncated(x, x.length - 1)  last == x.slots[x.length] IN
    /\ Sound(a) /\ i \in 1 .. x.length
    /\ Turns(a, IF i <= y.length THEN [y EXCEPT !.slots[i] = last] ELSE y,
             IF i = x.length THEN Front(sequence[a])
             ELSE [Front(sequence[a]) EXCEPT ![i] = Last(sequence[a])])

\* resize: twice the length when it has to grow; new objects are default ones.
Resize(a, n) ==
    LET x == arrayList[a]  y == IF n > x.allocated THEN Prepared(x, 2 * n) ELSE x  vs == sequence[a] IN
    /\ Sound(a)
    /\ IF n > x.length
       THEN LET more == [i \in 1 .. n - x.length |-> Default] IN
            Turns(a, Constructed(y, more), vs \o more)
       ELSE Turns(a, Truncated(y, n), SubSeq(vs, 1, n))

PrepareArray(a, n) == Sound(a) /\ Turns(a, Prepared(arrayList[a], n), sequence[a])

ClearArray(a) == Sound(a) /\ Turns(a, Truncated(arrayList[a], 0), <<>>)

\* subscriptInPlace: from i to j, either from the end when negative, j also when zero
Subscript(b, a, i, j) ==
    LET n == arrayList[a].length
        from == IF i < 0 THEN i + n ELSE i
        to == IF j <= 0 THEN j + n ELSE j
        part == SubSeq(arrayList[a].slots, from + 1, to)
    IN  /\ a # b /\ Sound(a)
        /\ 0 <= from /\ from < to /\ to <= n
        /\ Turns(b, Constructed([slots |-> Raws(Len(part)), length |-> 0, allocated |-> Len(part)],
                                part),
                 SubSeq(sequence[a], from + 1, to))

CopyArray(a, b) == a # b /\ Sound(b) /\ Turns(a, CopyOf(arrayList[b]), sequence[b])

\* The move constructor and operator=(ArrayList&&): exportMemory on the other
MoveArray(a, b) ==
    /\ a # b
    /\ arrayList' = [arrayList EXCEPT ![a] = arrayList[b], ![b] = [@ EXCEPT !.slots = <<>>, !.length = 0]]
    /\ sequence' = [sequence EXCEPT ![a] = sequence[b], ![b] = <<>>]

ArrayNext ==
    \E a \in ArrayLists :
       \/ \E v \in Objects : \/ AddItem(a, v) \/ AddFirst(a, v)
                             \/ \E w \in Objects : AddMany(a, <<v, w>>)
                             \/ \E i \in 1 .. MaxAllocated : SetSlot(a, i, v)
       \/ PopBack(a) \/ ClearArray(a)
       \/ \E i \in 0 .. MaxAllocated : UnorderedRemove(a, i) \/ Resize(a, i) \/ PrepareArray(a, i)
       \/ \E b \in ArrayLists : \/ CopyArray(a, b) \/ MoveArray(a, b)
                            \/ \E i, j \in -2 .. 2 : Subscript(a, b, i, j)

ArraySpec == ArrayInit /\ [][ArrayNext]_arrayVars

----------------------------------------------------------------------------

\* The slots up to the length hold the sequence, all others hold no object: nothing is
\* constructed twice, destroyed twice or lost when the memory moves.
ArrayListRight ==
    \A a \in ArrayLists :
       LET x == arrayList[a] IN
       /\ SubSeq(x.slots, 1, x.length) = sequence[a]
       /\ \A i \in x.length + 1 .. Len(x.slots) : x.slots[i] = Raw
       /\ Len(x.slots) \in {0, x.allocated}
=============================================================================
