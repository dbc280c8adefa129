------------------------------ MODULE ShortQueue ------------------------------
(***************************************************************************)
(* ShortQueue: include/ds/ShortQueue.h.                                    *)
(*                                                                         *)
(* The few best items, sorted by priority, the best (lowest) first.  One   *)
(* that was moved from has no room at all and is assigned to or destroyed. *)
(***************************************************************************)
EXTENDS Integers, Sequences, FiniteSets, SequencesExt

CONSTANTS Room,        \* count: how many items it keeps
          Ranks,       \* priorities
          Marks        \* items

VARIABLES short,      \* the array, of <<item, priority>>
          best,       \* what it should keep: <<item, priority, order of arrival>>
          clock       \* arrivals

shortVars == <<short, best, clock>>

ShortTypeOK ==
    /\ short \in Seq(Marks \X Ranks) /\ Len(short) <= Room
    /\ best \subseteq Marks \X Ranks \X (0 .. clock)

ShortInit == short = <<>> /\ best = {} /\ clock = 0

----------------------------------------------------------------------------

\* How many items stay in front: the loops shift those of a greater priority.
NotWorse(q, p) == Cardinality({k \in DOMAIN q : q[k][2] <= p})

InPlace(q, e) == InsertAt(q, NotWorse(q, e[2]) + 1, e)

\* insert: into a full queue only what is better than the last, which goes.
Inserting(q, e) ==
    IF Len(q) < Room THEN InPlace(q, e)
    ELSE IF e[2] < q[Len(q)][2] THEN InPlace(Front(q), e)
    ELSE q

\* updatePriorityAt: out of its place and in again
Updating(q, k, p) == InPlace(RemoveAt(q, k), <<q[k][1], p>>)

\* The reference: a sequence of what best holds, by priority and then by arrival.
ServedBefore(a, b) == a[2] < b[2] \/ (a[2] = b[2] /\ a[3] < b[3])
InTurn(b) == SetToSortSeq(b, ServedBefore)
Best(b) == LET s == InTurn(b) IN {s[k] : k \in 1 .. (IF Len(s) < Room THEN Len(s) ELSE Room)}

\* Arrivals are counted from the oldest that is kept.
Renumbered(b) == {<<e[1], e[2], Cardinality({f \in b : f[3] < e[3]})>> : e \in b}
Keep(b) == best' = Renumbered(b) /\ clock' = Cardinality(b)

Offer(v, p) ==
    /\ short' = Inserting(short, <<v, p>>)
    /\ Keep(Best(best \cup {<<v, p, clock>>}))

\* deleteMin
DeleteMin ==
    /\ short # <<>>
    /\ short' = Tail(short)
    /\ Keep(best \ {InTurn(best)[1]})

UpdatePriority(k, p) ==
    LET e == InTurn(best)[k] IN
    /\ k \in DOMAIN short
    /\ short' = Updating(short, k, p)
    /\ Keep((best \ {e}) \cup {<<e[1], p, clock>>})

ShortNext ==
    \/ \E v \in Marks, p \in Ranks : Offer(v, p)
    \/ DeleteMin
    \/ \E k \in 1 .. Room, p \in Ranks : UpdatePriority(k, p)

----------------------------------------------------------------------------

\* The queue is the best of what was offered, by priority and then by arrival, after any
\* sequence of offers, removals and changes of priority.
ShortQueueRight ==
    LET s == InTurn(best) IN short = [k \in DOMAIN s |-> <<s[k][1], s[k][2]>>]
=============================================================================
