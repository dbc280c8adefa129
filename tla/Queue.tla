--------------------------------- MODULE Queue ---------------------------------
(***************************************************************************)
(* Queue: include/ds/Queue.h.                                              *)
(*                                                                         *)
(* A doubly linked list whose nodes come from a slab of its own.  The copy *)
(* constructor first copies the other queue's first node and never links   *)
(* or frees that copy, so it is not for an empty queue; a queue that was   *)
(* moved from has no slab and is only destroyed; the constructors from a   *)
(* value leave the slab uninitialised and are not modelled.                *)
(***************************************************************************)
EXTENDS Integers, Sequences, FiniteSets, FiniteSetsExt

CONSTANTS Queues, QueueItems,
          MaxQueue,     \* bound: items in a queue; its slab has one address more, for a spare
          NoNode        \* nullptr

ASSUME QueueAssumption == MaxQueue \in Nat /\ NoNode \notin 1 .. MaxQueue + 1

VARIABLES queueNode,    \* per queue: the nodes its slab has given
          queue,        \* per queue: first, last, n and whether it has a slab
          waiting       \* the sequence it stands for

queueVars == <<queueNode, queue, waiting>>

EmptyQueue == [first |-> NoNode, last |-> NoNode, n |-> 0, slab |-> TRUE]

QueueTypeOK ==
    \A q \in Queues :
       /\ DOMAIN queueNode[q] \subseteq 1 .. MaxQueue + 1
       /\ {queue[q].first, queue[q].last} \subseteq DOMAIN queueNode[q] \cup {NoNode}
       /\ queue[q].n \in Nat

QueueInit ==
    /\ queueNode = [q \in Queues |-> <<>>]
    /\ queue = [q \in Queues |-> EmptyQueue]
    /\ waiting = [q \in Queues |-> <<>>]

----------------------------------------------------------------------------

Unused(h) == (1 .. MaxQueue + 1) \ DOMAIN h

WithNode(h, n, c) == [m \in DOMAIN h \cup {n} |-> IF m = n THEN c ELSE h[m]]

\* add, on the pair of a slab and a queue
Enqueued(s, v) ==
    LET n == Min(Unused(s.heap))
        h == WithNode(s.heap, n, [value |-> v, previous |-> s.q.last, next |-> NoNode])
    IN  [heap |-> IF s.q.first = NoNode THEN h ELSE [h EXCEPT ![s.q.last].next = n],
         q |-> [s.q EXCEPT !.first = IF @ = NoNode THEN n ELSE @, !.last = n, !.n = @ + 1]]

\* The queue when k of vs have been added
EnqueuedSome(s, vs) ==
    LET t[k \in 0 .. Len(vs)] == IF k = 0 THEN s ELSE Enqueued(t[k - 1], vs[k]) IN t

EnqueuedAll(s, vs) == EnqueuedSome(s, vs)[Len(vs)]

\* pop
Dequeued(s) ==
    LET n == s.q.first
        then == s.heap[n].next
        h == [m \in DOMAIN s.heap \ {n} |->
                 IF m = then THEN [s.heap[m] EXCEPT !.previous = NoNode] ELSE s.heap[m]]
    IN  [heap |-> h,
         q |-> [s.q EXCEPT !.first = then, !.last = IF then = NoNode THEN NoNode ELSE @, !.n = @ - 1]]

\* Where an iterator is that began at node n, and the nodes it meets until there is none
Going(to, n) ==
    LET at[k \in Nat] == IF k = 0 THEN n
                         ELSE IF at[k - 1] = NoNode THEN NoNode ELSE to[at[k - 1]]
    IN  at

Onward(h, n) ==
    LET at == Going([m \in DOMAIN h |-> h[m].next], n) IN
    [k \in 1 .. Cardinality({j \in 0 .. MaxQueue + 1 : at[j] # NoNode}) |-> at[k - 1]]

Meets(q) == LET nodes == Onward(queueNode[q], queue[q].first) IN
            [k \in DOMAIN nodes |-> queueNode[q][nodes[k]].value]

----------------------------------------------------------------------------

Now(q) == [heap |-> queueNode[q], q |-> queue[q]]

Becoming(q, s, vs) ==
    /\ queueNode' = [queueNode EXCEPT ![q] = s.heap]
    /\ queue' = [queue EXCEPT ![q] = s.q]
    /\ waiting' = [waiting EXCEPT ![q] = vs]

Enqueue(q, v) ==
    /\ queue[q].slab /\ Len(waiting[q]) < MaxQueue
    /\ Becoming(q, Enqueued(Now(q), v), Append(waiting[q], v))

Dequeue(q) ==
    /\ queue[q].first # NoNode
    /\ Becoming(q, Dequeued(Now(q)), Tail(waiting[q]))

\* setLast
SetLast(q, v) ==
    /\ queue[q].last # NoNode
    /\ Becoming(q, [Now(q) EXCEPT !.heap[queue[q].last].value = v],
                [waiting[q] EXCEPT ![Len(waiting[q])] = v])

\* clear, and the destructor followed by a new queue
ClearQueue(q) == Becoming(q, [heap |-> <<>>, q |-> EmptyQueue], <<>>)

\* operator=: freeAll, then the other's elements one by one
AssignQueue(q, r) ==
    /\ q # r /\ queue[q].slab
    /\ Becoming(q, EnqueuedAll([heap |-> <<>>, q |-> EmptyQueue], Meets(r)), waiting[r])

\* The copy constructor
CopyQueue(q, r) ==
    LET spare == WithNode(<<>>, 1, queueNode[r][queue[r].first]) IN
    /\ q # r /\ queue[r].first # NoNode
    /\ Becoming(q, EnqueuedAll([heap |-> spare, q |-> EmptyQueue], Meets(r)), waiting[r])

\* The move constructor
MoveQueue(q, r) ==
    /\ q # r
    /\ queueNode' = [queueNode EXCEPT ![q] = queueNode[r], ![r] = <<>>]
    /\ queue' = [queue EXCEPT ![q] = queue[r], ![r] = [EmptyQueue EXCEPT !.slab = FALSE]]
    /\ waiting' = [waiting EXCEPT ![q] = waiting[r], ![r] = <<>>]

QueueNext ==
    \E q \in Queues :
       \/ \E v \in QueueItems : Enqueue(q, v) \/ SetLast(q, v)
       \/ Dequeue(q) \/ ClearQueue(q)
       \/ \E r \in Queues : AssignQueue(q, r) \/ CopyQueue(q, r) \/ MoveQueue(q, r)

QueueSpec == QueueInit /\ [][QueueNext]_queueVars

----------------------------------------------------------------------------

\* First in, first out: a queue meets its items in the order they came, links back as it
\* links forward, and its slab holds its nodes and at most the spare one of a copy.
QueueRight ==
    \A q \in Queues :
       LET nodes == Onward(queueNode[q], queue[q].first)  n == Len(waiting[q]) IN
       /\ Meets(q) = waiting[q]
       /\ queue[q].n = n
       /\ queue[q].last = IF n = 0 THEN NoNode ELSE nodes[n]
       /\ \A k \in 1 .. n : queueNode[q][nodes[k]].previous = IF k = 1 THEN NoNode ELSE nodes[k - 1]
       /\ Cardinality(DOMAIN queueNode[q]) \in {n, n + 1}
=============================================================================
