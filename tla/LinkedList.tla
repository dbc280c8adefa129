------------------------------ MODULE LinkedList ------------------------------
(***************************************************************************)
(* LinkedList: include/ds/LinkedList.h, with its cursor.                   *)
(*                                                                         *)
(* Several lists on one heap of nodes.  new takes the lowest free address. *)
(* pop, remove at the cursor, next and getCursor dereference what they are *)
(* given: callers have something there.                                    *)
(***************************************************************************)
EXTENDS Integers, Sequences, FiniteSets, FiniteSetsExt

CONSTANTS Lists, Items,
          MaxNodes,      \* bound: the addresses of nodes are 1 .. MaxNodes
          NoCell         \* nullptr

ASSUME LinkedListAssumption == MaxNodes \in Nat /\ NoCell \notin 1 .. MaxNodes

VARIABLES cell,      \* the nodes that are allocated
          list,      \* first, last, cursor and length of each list
          items,     \* the sequence it stands for
          place      \* the cursor's position in it, or 0

listVars == <<cell, list, items, place>>

Empty == [first |-> NoCell, last |-> NoCell, cursor |-> NoCell, length |-> 0]

ListTypeOK ==
    /\ DOMAIN cell \subseteq 1 .. MaxNodes
    /\ \A l \in Lists : {list[l].first, list[l].last, list[l].cursor}
                            \subseteq DOMAIN cell \cup {NoCell}
    /\ \A n \in DOMAIN cell : cell[n].value \in Items

ListInit ==
    /\ cell = <<>>
    /\ list = [l \in Lists |-> Empty]
    /\ items = [l \in Lists |-> <<>>]
    /\ place = [l \in Lists |-> 0]

----------------------------------------------------------------------------
(* Each operation on the pair of a heap and a list *)

Node(v, p, n) == [value |-> v, previous |-> p, next |-> n]
FreeNodes(h) == (1 .. MaxNodes) \ DOMAIN h
New(h) == Min(FreeNodes(h))
With(h, n, c) == [m \in DOMAIN h \cup {n} |-> IF m = n THEN c ELSE h[m]]

Only(x, n) == [first |-> n, last |-> n, cursor |-> n, length |-> x.length + 1]

\* add
Append1(s, v) ==
    LET h == s.heap  x == s.list  n == New(h)
        g == With(h, n, Node(v, x.last, NoCell))
    IN  IF x.first # NoCell
        THEN [heap |-> [g EXCEPT ![x.last].next = n],
              list |-> [x EXCEPT !.last = n, !.length = @ + 1]]
        ELSE [heap |-> g, list |-> Only(x, n)]

\* insertAtBeginning
Prepend(s, v) ==
    LET h == s.heap  x == s.list  n == New(h)
        g == With(h, n, Node(v, NoCell, x.first))
    IN  IF x.last # NoCell
        THEN [heap |-> [g EXCEPT ![x.first].previous = n],
              list |-> [x EXCEPT !.first = n, !.length = @ + 1]]
        ELSE [heap |-> g, list |-> Only(x, n)]

\* removeRaw: what becomes of the nodes beside n ...
Unlinked(h, x, n) ==
    [m \in DOMAIN h \ {n} |->
        [h[m] EXCEPT !.previous = IF n # x.last /\ m = h[n].next THEN h[n].previous ELSE @,
                     !.next = IF n # x.first /\ m = h[n].previous THEN h[n].next ELSE @]]

\* ... and of the list
RemoveRaw(s, n) ==
    LET h == s.heap  x == s.list IN
    [heap |-> Unlinked(h, x, n),
     list |-> [first |-> IF n = x.first THEN h[n].next ELSE x.first,
               last |-> IF n = x.last THEN h[n].previous ELSE x.last,
               cursor |-> IF n = x.cursor THEN h[n].next ELSE x.cursor,
               length |-> x.length - 1]]

\* Where a walk is that starts at node n and goes from each node to where `to' leads
Walk(n, to) ==
    LET at[k \in Nat] == IF k = 0 THEN n
                         ELSE IF at[k - 1] = NoCell THEN NoCell ELSE to[at[k - 1]]
    IN  at

\* The nodes it meets, until there is none
Walked(n, to) ==
    [k \in 1 .. Cardinality({j \in 0 .. MaxNodes : Walk(n, to)[j] # NoCell}) |->
        Walk(n, to)[k - 1]]

\* From node n on, by way of next, and by way of previous
Chain(h, n) == Walked(n, [m \in DOMAIN h |-> h[m].next])
ChainBack(h, n) == Walked(n, [m \in DOMAIN h |-> h[m].previous])

\* findItem: the i-th node from 0, or null
FindItem(h, x, i) == IF i < 0 \/ i >= x.length THEN NoCell ELSE Chain(h, x.first)[i + 1]

\* clear: every node from the first on is deleted.
Cleared(s) ==
    LET nodes == Chain(s.heap, s.list.first) IN
    [heap |-> [m \in DOMAIN s.heap \ {nodes[k] : k \in DOMAIN nodes} |-> s.heap[m]],
     list |-> Empty]

\* What a range-for over a list meets
ValuesOf(h, x) == LET nodes == Chain(h, x.first) IN [k \in DOMAIN nodes |-> h[nodes[k]].value]

\* The list when k of vs have been added
Appended(s, vs) ==
    LET t[k \in 0 .. Len(vs)] == IF k = 0 THEN s ELSE Append1(t[k - 1], vs[k]) IN t

AppendAll(s, vs) == Appended(s, vs)[Len(vs)]

----------------------------------------------------------------------------

State(l) == [heap |-> cell, list |-> list[l]]

\* List l has become s; it stands for vs, with the cursor at p.
Become(l, s, vs, p) ==
    /\ cell' = s.heap
    /\ list' = [list EXCEPT ![l] = s.list]
    /\ items' = [items EXCEPT ![l] = vs]
    /\ place' = [place EXCEPT ![l] = p]

Add(l, v) ==
    /\ FreeNodes(cell) # {}
    /\ Become(l, Append1(State(l), v), Append(items[l], v),
              IF items[l] = <<>> THEN 1 ELSE place[l])

InsertAtBeginning(l, v) ==
    /\ FreeNodes(cell) # {}
    /\ Become(l, Prepend(State(l), v), <<v>> \o items[l],
              IF items[l] = <<>> THEN 1 ELSE IF place[l] = 0 THEN 0 ELSE place[l] + 1)

\* Where the cursor is when item k of n has been taken out: on the next one, if it was there.
PlaceAfter(p, k, n) == IF p > k THEN p - 1 ELSE IF p = k /\ k = n THEN 0 ELSE p

DropItem(l, k) ==
    LET vs == items[l]  n == Len(vs) IN
    Become(l, RemoveRaw(State(l), FindItem(cell, list[l], k - 1)),
           SubSeq(vs, 1, k - 1) \o SubSeq(vs, k + 1, n), PlaceAfter(place[l], k, n))

\* remove(i), and removeByElement, which takes the first that is equal
RemoveHere(l) == \E k \in 1 .. Len(items[l]) : DropItem(l, k)

\* pop: the last
PopItem(l) ==
    /\ list[l].last # NoCell
    /\ Become(l, RemoveRaw(State(l), list[l].last), SubSeq(items[l], 1, Len(items[l]) - 1),
              PlaceAfter(place[l], Len(items[l]), Len(items[l])))

\* remove(): at the cursor
RemoveAtCursor(l) ==
    /\ list[l].cursor # NoCell
    /\ LET vs == items[l]  k == place[l] IN
       Become(l, RemoveRaw(State(l), list[l].cursor),
              SubSeq(vs, 1, k - 1) \o SubSeq(vs, k + 1, Len(vs)), PlaceAfter(k, k, Len(vs)))

SetItem(l, k, v) ==
    LET n == FindItem(cell, list[l], k - 1) IN
    /\ k \in 1 .. Len(items[l])
    /\ Become(l, [State(l) EXCEPT !.heap[n].value = v], [items[l] EXCEPT ![k] = v], place[l])

CursorTo(l, n, p) == Become(l, [State(l) EXCEPT !.list.cursor = n], items[l], p)

ResetCursor(l) == CursorTo(l, list[l].first, IF items[l] = <<>> THEN 0 ELSE 1)
CursorToLast(l) == CursorTo(l, list[l].last, Len(items[l]))
SetCursor(l, k) ==
    CursorTo(l, FindItem(cell, list[l], k - 1), IF k \in DOMAIN items[l] THEN k ELSE 0)

\* next
NextItem(l) ==
    /\ list[l].cursor # NoCell
    /\ CursorTo(l, cell[list[l].cursor].next,
                IF place[l] = Len(items[l]) THEN 0 ELSE place[l] + 1)

\* operator=(const LinkedList&) and the copy constructor
AssignList(l, m) ==
    /\ l # m
    /\ Len(items[m]) <= Cardinality(FreeNodes(cell)) + Len(items[l])
    /\ Become(l, AppendAll(Cleared(State(l)), ValuesOf(cell, list[m])), items[m],
              IF items[m] = <<>> THEN 0 ELSE 1)

\* operator=(LinkedList&&) and the move constructor
MoveList(l, m) ==
    /\ l # m
    /\ cell' = Cleared(State(l)).heap
    /\ list' = [list EXCEPT ![l] = list[m], ![m] = Empty]
    /\ items' = [items EXCEPT ![l] = items[m], ![m] = <<>>]
    /\ place' = [place EXCEPT ![l] = place[m], ![m] = 0]

ClearList(l) == Become(l, Cleared(State(l)), <<>>, 0)

ListNext ==
    \E l \in Lists :
       \/ \E v \in Items : \/ Add(l, v) \/ InsertAtBeginning(l, v)
                           \/ \E k \in 1 .. MaxNodes : SetItem(l, k, v)
       \/ RemoveHere(l) \/ PopItem(l) \/ RemoveAtCursor(l) \/ ClearList(l)
       \/ ResetCursor(l) \/ CursorToLast(l) \/ NextItem(l)
       \/ \E k \in 0 .. MaxNodes : SetCursor(l, k)
       \/ \E m \in Lists : AssignList(l, m) \/ MoveList(l, m)

ListSpec == ListInit /\ [][ListNext]_listVars

----------------------------------------------------------------------------

\* The nodes of a list, forward from the first and backward from the last, are its items;
\* the cursor is on the item it should be on, whatever was taken out beside or under it;
\* and every node that is allocated is in one list.
LinkedListRight ==
    LET there == [l \in Lists |-> Chain(cell, list[l].first)] IN
    /\ \A l \in Lists :
          LET n == Len(items[l]) IN
          /\ [k \in DOMAIN there[l] |-> cell[there[l][k]].value] = items[l]
          /\ ChainBack(cell, list[l].last) = [k \in 1 .. n |-> there[l][n + 1 - k]]
          /\ list[l].length = n
          /\ list[l].cursor = IF place[l] = 0 THEN NoCell ELSE there[l][place[l]]
    /\ \A n \in DOMAIN cell :
          \E l \in Lists : /\ \E k \in DOMAIN there[l] : there[l][k] = n
                          /\ \A m \in Lists \ {l} : \A k \in DOMAIN there[m] : there[m][k] # n
=============================================================================
