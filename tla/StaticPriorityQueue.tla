-------------------------- MODULE StaticPriorityQueue --------------------------
(***************************************************************************)
(* StaticPriorityQueue: include/ds/PriorityQueue.h.                        *)
(*                                                                         *)
(* An array in no order, with the lowest priority in it remembered.        *)
(* Indices are from 0, as in the code.  read and pop need an item.         *)
(***************************************************************************)
EXTENDS Integers, Sequences, FiniteSets, FiniteSetsExt

CONSTANTS PQCapacity,
          Priorities,      \* those that callers use
          Highest          \* INT_MAX

VARIABLES content,           \* the priorities of the items, in the order of the array
          lowestPriority,
          raised             \* setPriority has raised an item from the lowest priority

pqVars == <<content, lowestPriority, raised>>

PQTypeOK ==
    /\ content \in Seq(Priorities) /\ Len(content) <= PQCapacity
    /\ lowestPriority \in Priorities \cup {Highest}
    /\ raised \in BOOLEAN

PQInit == content = <<>> /\ lowestPriority = Highest /\ raised = FALSE

----------------------------------------------------------------------------

Indices(c) == 0 .. Len(c) - 1
PriorityAt(c, i) == c[i + 1]
PutPriority(c, i, p) == [c EXCEPT ![i + 1] = p]

\* lastIndex: the first item with the lowest priority; without one nothing is below
\* INT_MIN, and the answer is the first item.
LastIndex ==
    LET at == {i \in Indices(content) : PriorityAt(content, i) = lowestPriority} IN
    IF content = <<>> THEN -1 ELSE IF at = {} THEN 0 ELSE Min(at)

\* firstIndex: the first item of the highest priority
FirstIndex ==
    LET top == {i \in Indices(content) : \A j \in Indices(content) : PriorityAt(content, j) <= PriorityAt(content, i)}
    IN  IF content = <<>> THEN -1 ELSE Min(top)

\* (bug) The item that is going counts too.
RecomputedWithAll(c, ignore) == Min({PriorityAt(c, i) : i \in Indices(c)} \cup {Highest})

\* recomputeLowestPriority
Recomputed(c, ignore) == Min({PriorityAt(c, i) : i \in Indices(c) \ {ignore}} \cup {Highest})

AddPriority(p) ==
    IF Len(content) = PQCapacity
    THEN /\ p > lowestPriority
         /\ content' = PutPriority(content, LastIndex, p)
         /\ lowestPriority' = Recomputed(content', -1)
         /\ raised' = FALSE
    ELSE /\ content' = Append(content, p)
         /\ lowestPriority' = Min({p, lowestPriority})
         /\ UNCHANGED raised

\* remove: the last item of the array takes the place.
RemovePriority(i) ==
    LET n == Len(content) IN
    /\ lowestPriority' = IF PriorityAt(content, i) = lowestPriority THEN Recomputed(content, i)
                         ELSE lowestPriority
    /\ content' = SubSeq(PutPriority(content, i, content[n]), 1, n - 1)
    /\ raised' = (raised /\ PriorityAt(content, i) # lowestPriority)

\* read, pop
ReadPriority == content # <<>> /\ RemovePriority(FirstIndex)
PopLowest == content # <<>> /\ RemovePriority(LastIndex)

SetPriority(i, p) ==
    /\ i \in Indices(content)
    /\ content' = PutPriority(content, i, p)
    /\ lowestPriority' = Min({p, lowestPriority})
    /\ raised' = (raised \/ (PriorityAt(content, i) = lowestPriority /\ p > lowestPriority))

ClearPriorities == content' = <<>> /\ lowestPriority' = Highest /\ raised' = FALSE

\* One round of the inner loop of sort: item i is exchanged with each of those before it
\* that have a lower priority.
RECURSIVE Exchanged(_, _, _), SortedFrom(_, _)
Exchanged(c, i, j) ==
    IF j = i THEN c
    ELSE Exchanged(IF PriorityAt(c, i) > PriorityAt(c, j) THEN PutPriority(PutPriority(c, i, PriorityAt(c, j)), j, PriorityAt(c, i)) ELSE c,
                   i, j + 1)
SortedFrom(c, i) == IF i >= Len(c) THEN c ELSE SortedFrom(Exchanged(c, i, 0), i + 1)

\* sort
Sort == content' = SortedFrom(content, 1) /\ UNCHANGED <<lowestPriority, raised>>

PQNext ==
    \/ \E p \in Priorities : AddPriority(p)
    \/ \E i \in 0 .. PQCapacity - 1 : i \in Indices(content) /\ RemovePriority(i)
    \/ ReadPriority \/ PopLowest \/ ClearPriorities \/ Sort
    \/ \E i \in 0 .. PQCapacity - 1, p \in Priorities : SetPriority(i, p)

PQSpec == PQInit /\ [][PQNext]_pqVars

----------------------------------------------------------------------------

\* "Returns the lowest priority item": the item that last, pop and an add to a full queue
\* take.
LastIsLowest ==
    content # <<>> => PriorityAt(content, LastIndex) = Min({PriorityAt(content, i) : i \in Indices(content)})

\* It is, and the remembered priority is exact, as long as setPriority has not raised an
\* item from the lowest priority; remembered too low is the worst that can be.  sort puts
\* the items in falling order and keeps them.
PriorityQueueRight ==
    LET n == Len(content)  s == SortedFrom(content, 1) IN
    /\ \A i \in Indices(content) : lowestPriority <= PriorityAt(content, i)
    /\ ~raised => LastIsLowest /\ lowestPriority = Recomputed(content, -1)
    /\ \A k \in 1 .. n - 1 : s[k] >= s[k + 1]
    /\ \A p \in Priorities : Cardinality({k \in 1 .. n : s[k] = p})
                             = Cardinality({k \in 1 .. n : content[k] = p})
=============================================================================
