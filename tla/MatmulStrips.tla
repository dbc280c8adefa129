------------------------------ MODULE MatmulStrips -----------------------------
(***************************************************************************)
(* The strips of a matrix product: ndmRunNStrips of ndarray_matmul.cpp, on *)
(* the default ThreadPool.                                                 *)
(*                                                                         *)
(* A large product gives a strip of columns to the caller and to each      *)
(* worker by parallelFor.  Of the pool only what module ThreadPoolAbs      *)
(* promises is used: a call begins, each slot runs once, the call ends.    *)
(* Products are computed by clients, by tasks on the workers, and in the   *)
(* body of a parallelFor that a client has called for purposes of its own. *)
(* The pool is not shut down while products are computed.                  *)
(***************************************************************************)
EXTENDS Integers, FiniteSets

CONSTANTS PoolSizes,    \* bound: sizes of the pool
          Clients,      \* threads outside the pool
          Products,     \* bound: [n, align, small]: columns, their alignment, little work
          Nobody

ASSUME StripsAssumption ==
    /\ PoolSizes \subseteq Nat
    /\ Nobody \notin Clients
    /\ \A size \in PoolSizes : (Clients \cup {Nobody}) \cap 1 .. size = {}
    /\ \A p \in Products : p.n \in Nat \ {0} /\ p.align \in Nat \ {0} /\ p.small \in BOOLEAN

VARIABLES
    poolWorkers,  \* the threads of the pool
    stage,      \* where each thread is in ndmRunNStrips
    product,    \* the product it computes
    within,     \* what the product is computed in: a call, a task, or a slot of a body
    written,    \* how often each column of it was computed
    gemmPfor,   \* the mutex: its owner, or Nobody
    forOwner,   \* who has called parallelFor, or Nobody
    forFn,      \* what the slots run: "strips" of a product, or a "body" with a product
    slotsRun    \* the slots of the call that were run

stripsVars == <<poolWorkers, stage, product, within, written, gemmPfor, forOwner, forFn, slotsRun>>

CallerSlot == 0
MatmulThreads == poolWorkers \cup Clients
SlotCount == Cardinality(poolWorkers) + 1

None == [n |-> 0, align |-> 1, small |-> TRUE]

Columns(p) == 0 .. p.n - 1

StripsTypeOK ==
    /\ \E size \in PoolSizes : poolWorkers = 1 .. size
    /\ stage \in [MatmulThreads -> {"idle", "start", "whole", "lock", "for", "strip", "wait", "end"}]
    /\ product \in [MatmulThreads -> Products \cup {None}]
    /\ within \in [MatmulThreads -> {"call", "task", "slot"}]
    /\ DOMAIN written = MatmulThreads
    /\ \A t \in MatmulThreads : written[t] \in [Columns(product[t]) -> Nat]
    /\ {gemmPfor, forOwner} \subseteq MatmulThreads \cup {Nobody}
    /\ forFn \in {"strips", "body"}
    /\ slotsRun \subseteq poolWorkers \cup {CallerSlot}

StripsInit ==
    /\ \E size \in PoolSizes : poolWorkers = 1 .. size
    /\ stage = [t \in MatmulThreads |-> "idle"]
    /\ product = [t \in MatmulThreads |-> None]
    /\ within = [t \in MatmulThreads |-> "call"]
    /\ written = [t \in MatmulThreads |-> <<>>]
    /\ gemmPfor = Nobody
    /\ forOwner = Nobody
    /\ forFn = "strips"
    /\ slotsRun = {}

----------------------------------------------------------------------------
(* The division into strips *)

CeilDiv(a, b) == (a + b - 1) \div b

\* (bug) What is left of the columns is nobody's.
StripsLeaveRest(p, slots) == CeilDiv(p.n \div slots, p.align) * p.align

\* nc: the columns of a strip, a multiple of the alignment
StripColumns(p, slots) == CeilDiv(CeilDiv(p.n, slots), p.align) * p.align

\* ndmStripWorker: the last strips may be short, or empty.
Strip(p, slot, slots) ==
    {j \in Columns(p) : slot * StripColumns(p, slots) <= j /\ j < (slot + 1) * StripColumns(p, slots)}

\* The columns of a product that thread t computes, once more
Compute(t, columns) ==
    written' = [written EXCEPT ![t] = [j \in DOMAIN @ |-> IF j \in columns THEN @[j] + 1 ELSE @[j]]]

----------------------------------------------------------------------------
(* A call of parallelFor: BeginCall, RunSlot and EndCall of ThreadPoolAbs *)

BeginFor(t, fn) ==
    /\ forOwner = Nobody
    /\ forOwner' = t
    /\ forFn' = fn
    /\ slotsRun' = {}

RunForSlot(slot) ==
    /\ forOwner # Nobody
    /\ slot \notin slotsRun
    /\ slotsRun' = slotsRun \cup {slot}
    /\ UNCHANGED <<forOwner, forFn>>

ReturnFromFor ==
    /\ slotsRun = poolWorkers \cup {CallerSlot}
    /\ slotsRun' = {}
    /\ forOwner' = Nobody
    /\ UNCHANGED forFn

----------------------------------------------------------------------------
(* Where products come from *)

Enter(t, p, place) ==
    /\ stage[t] = "idle"
    /\ stage' = [stage EXCEPT ![t] = "start"]
    /\ product' = [product EXCEPT ![t] = p]
    /\ within' = [within EXCEPT ![t] = place]
    /\ written' = [written EXCEPT ![t] = [j \in Columns(p) |-> 0]]
    /\ UNCHANGED gemmPfor

\* workerLoop looks for a parallelFor before it takes a task.
OwesSlot(w) == forOwner # Nobody /\ w \notin slotsRun

MultiplyInClient(c, p) == Enter(c, p, "call") /\ UNCHANGED <<forOwner, forFn, slotsRun>>

MultiplyInTask(w, p) ==
    /\ ~ OwesSlot(w)
    /\ Enter(w, p, "task")
    /\ UNCHANGED <<forOwner, forFn, slotsRun>>

\* A parallelFor with a body that computes a product in every slot.  A pool with no
\* threads just calls the body: see MultiplyInClient.
MultiplyInBody(c, p) ==
    /\ poolWorkers # {}
    /\ Enter(c, p, "slot")
    /\ BeginFor(c, "body")

MultiplyInSlot(w, p) ==
    /\ OwesSlot(w) /\ forFn = "body"
    /\ Enter(w, p, "slot")
    /\ UNCHANGED <<forOwner, forFn, slotsRun>>

----------------------------------------------------------------------------
(* ndmRunNStrips *)

StripsGoto(t, s) == stage' = [stage EXCEPT ![t] = s]

\* pool.isWorkerThread()
isWorkerThread(t) == t \in poolWorkers

\* The whole product at once: little work, no workers, one strip, or a thread of the pool
ComputesWhole(t) ==
    LET p == product[t] IN
    p.small \/ SlotCount < 2 \/ StripColumns(p, SlotCount) >= p.n \/ isWorkerThread(t)

Decide(t) ==
    /\ stage[t] = "start"
    /\ StripsGoto(t, IF ComputesWhole(t) THEN "whole" ELSE "lock")
    /\ UNCHANGED <<product, within, written, gemmPfor, forOwner, forFn, slotsRun>>

\* fn(ctx, 0, N); the guard of gemmPfor, if there is one, ends here.
ComputeWhole(t) ==
    /\ stage[t] = "whole"
    /\ Compute(t, Columns(product[t]))
    /\ StripsGoto(t, "end")
    /\ gemmPfor' = IF gemmPfor = t THEN Nobody ELSE gemmPfor
    /\ UNCHANGED <<product, within, forOwner, forFn, slotsRun>>

TakeGemmPfor(t) ==
    /\ stage[t] = "lock"
    /\ gemmPfor = Nobody
    /\ gemmPfor' = t
    /\ StripsGoto(t, "for")
    /\ UNCHANGED <<product, within, written, forOwner, forFn, slotsRun>>

BeginStrips(t) ==
    /\ stage[t] = "for"
    /\ BeginFor(t, "strips")
    /\ StripsGoto(t, "strip")
    /\ UNCHANGED <<product, within, written, gemmPfor>>

\* "ThreadPool::parallelFor is not nestable"
NotNestable(t) ==
    /\ stage[t] = "for"
    /\ forOwner # Nobody
    /\ StripsGoto(t, "whole")
    /\ UNCHANGED <<product, within, written, gemmPfor, forOwner, forFn, slotsRun>>

\* The caller's slot
FirstStrip(t) ==
    /\ stage[t] = "strip"
    /\ Compute(t, Strip(product[t], CallerSlot, SlotCount))
    /\ StripsGoto(t, "wait")
    /\ RunForSlot(CallerSlot)
    /\ UNCHANGED <<product, within, gemmPfor>>

\* A worker's slot: it is neither in a task nor in another slot.
WorkerStrip(w) ==
    /\ stage[w] = "idle"
    /\ forFn = "strips"
    /\ RunForSlot(w)
    /\ Compute(forOwner, Strip(product[forOwner], w, SlotCount))
    /\ UNCHANGED <<stage, product, within, gemmPfor>>

\* parallelFor returns: to the product, or to the client whose body it ran.
EndFor(t) ==
    /\ stage[t] = "wait"
    /\ ReturnFromFor
    /\ StripsGoto(t, IF forFn = "strips" THEN "end" ELSE "idle")
    /\ gemmPfor' = IF forFn = "strips" THEN Nobody ELSE gemmPfor
    /\ UNCHANGED <<product, within, written>>

ProductDone(t) ==
    LET slot == IF t \in poolWorkers THEN t ELSE CallerSlot IN
    /\ stage[t] = "end"
    /\ product' = [product EXCEPT ![t] = None]
    /\ written' = [written EXCEPT ![t] = <<>>]
    /\ within' = [within EXCEPT ![t] = "call"]
    /\ UNCHANGED gemmPfor
    /\ \/ /\ within[t] = "slot"
          /\ StripsGoto(t, IF slot = CallerSlot THEN "wait" ELSE "idle")
          /\ RunForSlot(slot)
       \/ /\ within[t] # "slot"
          /\ StripsGoto(t, "idle")
          /\ UNCHANGED <<forOwner, forFn, slotsRun>>

StripsNext ==
    /\ UNCHANGED poolWorkers
    /\ \/ \E c \in Clients, p \in Products : MultiplyInClient(c, p) \/ MultiplyInBody(c, p)
       \/ \E w \in poolWorkers, p \in Products : MultiplyInTask(w, p) \/ MultiplyInSlot(w, p)
       \/ \E w \in poolWorkers : WorkerStrip(w)
       \/ \E t \in MatmulThreads :
             \/ Decide(t) \/ ComputeWhole(t) \/ ProductDone(t)
             \/ TakeGemmPfor(t) \/ BeginStrips(t) \/ NotNestable(t)
             \/ FirstStrip(t) \/ EndFor(t)

StripsSpec == StripsInit /\ [][StripsNext]_stripsVars

----------------------------------------------------------------------------
(* Properties *)

\* Every column of a product is computed, by one slot, whoever calls and however the
\* columns divide: ndmStripWorker's bounds, and the ways back to the whole product.
ColumnsOnce ==
    \A t \in MatmulThreads :
        /\ \A j \in DOMAIN written[t] : written[t][j] <= 1
        /\ stage[t] = "end" => \A j \in DOMAIN written[t] : written[t][j] = 1

\* Whom a thread waits for: the owner of gemmPfor, or the slots that were not run.
WaitsFor(t) ==
    (IF stage[t] = "lock" /\ gemmPfor # Nobody THEN {gemmPfor} ELSE {})
    \cup (IF stage[t] = "wait" THEN poolWorkers \ slotsRun ELSE {})

\* No threads wait for each other in a circle: a product never waits for a slot that runs
\* on the thread of the product itself, or behind a mutex whose owner waits for that slot.
NoCircle ==
    ~ \E circle \in (SUBSET MatmulThreads) \ {{}} :
          \A t \in circle : WaitsFor(t) \cap circle # {}

\* A product that is computed in strips is complete and nothing in it is done twice, and it
\* always comes to an end as far as its threads depend on each other.
StripsRight == ColumnsOnce /\ NoCircle
=============================================================================
