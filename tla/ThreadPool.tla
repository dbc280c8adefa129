------------------------------- MODULE ThreadPool -------------------------------
(***************************************************************************)
(* The thread pool of src/src/parallel/ThreadPool.cpp: worker threads that *)
(* share one mutex (queueMutex) and ONE condition variable (condition)     *)
(* with the threads that call submit, parallelFor and shutdown.            *)
(*                                                                         *)
(* Atomicity.  A section of code that runs under queueMutex is one step,   *)
(* enabled when the mutex is free.  Three things are not atomic in the     *)
(* code and are separate steps here: notify_one and notify_all, which the  *)
(* code calls after it released the mutex; pforDone, an atomic that the    *)
(* workers increment WITHOUT the mutex; and therefore the parallelFor      *)
(* caller's "check pforDone, then wait", during which the caller holds the *)
(* mutex (state "forBlock") and a worker may still increment and notify.   *)
(*                                                                         *)
(* A thread blocked on the condition variable is in state "asleep" (a      *)
(* worker) or "forWait" (a parallelFor caller).  A wakeup, notified or     *)
(* spurious, sends it back to re-acquire the mutex and to re-check.        *)
(*                                                                         *)
(* Calls that change nothing are not actions: submit and parallelFor that  *)
(* throw on a stopped or busy pool, parallelFor on a pool of no threads    *)
(* (it runs fn on the caller), shutdown of a stopped pool (it returns at   *)
(* once and joins nothing), isDone, isShutdown, getQueueSize.              *)
(***************************************************************************)
EXTENDS Naturals, Sequences, FiniteSets

CONSTANTS MaxThreads,   \* the largest pool
          Clients,      \* the threads that use the pool
          Tasks,        \* the tasks they may submit, each once
          Throwing,     \* the tasks whose run() throws
          NoTask,       \* no task: an empty sp
          NoFn,         \* the null function pointer
          MaxEpoch,     \* bound: parallelFor calls of a behaviour
          MaxSpurious   \* bound: spurious wakeups of a behaviour

ASSUME PoolAssumption ==
    /\ MaxThreads \in Nat
    /\ Throwing \subseteq Tasks
    /\ NoTask \notin Tasks
    /\ NoFn \notin Clients
    /\ MaxEpoch \in Nat
    /\ MaxSpurious \in Nat

\* The workerId of each thread the constructor may start; 0 is the caller's slot.
Workers == 1 .. MaxThreads

VARIABLES
    pool,       \* workers: the threads the constructor started
    queue,      \* tasks: accepted and not yet popped
    stop,       \* stop
    pforEpoch,  \* number of parallelFor calls published
    pforBusy,   \* a parallelFor is in progress
    pforFn,     \* pforFn and pforCtx: the call they belong to, or NoFn
    pforDone,   \* workers that have finished their slot of that call
    wpc,        \* where each worker is in workerLoop
    wtask,      \* the task a worker holds
    wfn,        \* the worker's copy of pforFn/pforCtx
    lastEpoch,  \* the last epoch a worker took part in
    cpc,        \* where each client thread is
    target,     \* the task a client in wait() waits for
    finished,   \* the tasks whose finished flag is set
    joined,     \* history: the shutdown call that set stop has returned
    aborted,    \* a task threw on a worker: std::terminate
    spurious    \* history: spurious wakeups so far

workerVars == <<wpc, wtask, wfn, lastEpoch>>
forVars == <<pforEpoch, pforBusy, pforFn, pforDone>>
clientVars == <<cpc, target>>
vars == <<pool, queue, stop, forVars, workerVars, clientVars,
          finished, joined, aborted, spurious>>

WorkerStates == {"loop", "asleep", "for", "forNotify", "run", "doneNotify", "exited"}
ClientStates == {"idle", "submitNotify", "forNotify", "forBody", "forCheck", "forBlock",
                 "forWait", "waitCheck", "doneWait", "shutNotify", "shutJoin"}

\* A client inside parallelFor, from the publication of the call to its return.
InFor(c) == cpc[c] \in {"forNotify", "forBody", "forCheck", "forBlock", "forWait"}

\* A worker that has run its slot of the call in progress.
SlotDone(w) == lastEpoch[w] = pforEpoch /\ wpc[w] # "for"

TypeOK ==
    /\ \E threads \in 0 .. MaxThreads : pool = 1 .. threads
    /\ queue \in Seq(Tasks)
    /\ stop \in BOOLEAN
    /\ pforEpoch \in 0 .. MaxEpoch
    /\ pforBusy \in BOOLEAN
    /\ pforFn \in Clients \cup {NoFn}
    /\ pforDone \in 0 .. Cardinality(pool)
    /\ wpc \in [Workers -> WorkerStates]
    /\ wtask \in [Workers -> Tasks \cup {NoTask}]
    /\ wfn \in [Workers -> Clients \cup {NoFn}]
    /\ lastEpoch \in [Workers -> 0 .. MaxEpoch]
    /\ cpc \in [Clients -> ClientStates]
    /\ target \in [Clients -> Tasks \cup {NoTask}]
    /\ finished \subseteq Tasks
    /\ joined \in BOOLEAN
    /\ aborted \in BOOLEAN
    /\ spurious \in 0 .. MaxSpurious

Init ==
    /\ \E threads \in 0 .. MaxThreads : pool = 1 .. threads
    /\ queue = <<>>
    /\ stop = FALSE
    /\ pforEpoch = 0
    /\ pforBusy = FALSE
    /\ pforFn = NoFn
    /\ pforDone = 0
    /\ wpc = [w \in Workers |-> "loop"]
    /\ wtask = [w \in Workers |-> NoTask]
    /\ wfn = [w \in Workers |-> NoFn]
    /\ lastEpoch = [w \in Workers |-> 0]
    /\ cpc = [c \in Clients |-> "idle"]
    /\ target = [c \in Clients |-> NoTask]
    /\ finished = {}
    /\ joined = FALSE
    /\ aborted = FALSE
    /\ spurious = 0

----------------------------------------------------------------------------
(* queueMutex and condition *)

\* The only step boundary inside a critical section is the parallelFor caller's.
MutexFree == \A c \in Clients : cpc[c] # "forBlock"

\* Worker states and client states after everyone on the condition variable woke.
WokenWorkers == [w \in Workers |-> IF wpc[w] = "asleep" THEN "loop" ELSE wpc[w]]
WokenClients == [c \in Clients |-> IF cpc[c] = "forWait" THEN "forCheck" ELSE cpc[c]]

\* condition.notify_one(), called by client c, which then goes to state next:
\* the one that wakes is ANY sleeper, a worker or a waiting parallelFor caller.
NotifyOne(c, next) ==
    \/ \E w \in Workers :
         /\ wpc[w] = "asleep"
         /\ wpc' = [wpc EXCEPT ![w] = "loop"]
         /\ cpc' = [cpc EXCEPT ![c] = next]
    \/ \E d \in Clients :
         /\ cpc[d] = "forWait"
         /\ cpc' = [cpc EXCEPT ![d] = "forCheck", ![c] = next]
         /\ UNCHANGED wpc
    \/ /\ \A w \in Workers : wpc[w] # "asleep"
       /\ \A d \in Clients : cpc[d] # "forWait"
       /\ cpc' = [cpc EXCEPT ![c] = next]
       /\ UNCHANGED wpc

\* condition.notify_all(), called by client c, which then goes to state next.
NotifyAll(c, next) ==
    /\ wpc' = WokenWorkers
    /\ cpc' = [WokenClients EXCEPT ![c] = next]

\* Any wait may end without a notification.
SpuriousWake ==
    /\ spurious < MaxSpurious
    /\ spurious' = spurious + 1
    /\ \/ \E w \in Workers : /\ wpc[w] = "asleep"
                             /\ wpc' = [wpc EXCEPT ![w] = "loop"]
                             /\ UNCHANGED cpc
       \/ \E c \in Clients : /\ cpc[c] = "forWait"
                             /\ cpc' = [cpc EXCEPT ![c] = "forCheck"]
                             /\ UNCHANGED wpc
       \/ \E c \in Clients : /\ cpc[c] = "doneWait"
                             /\ cpc' = [cpc EXCEPT ![c] = "waitCheck"]
                             /\ UNCHANGED wpc
    /\ UNCHANGED <<pool, queue, stop, forVars, wtask, wfn, lastEpoch, target,
                   finished, joined, aborted>>

----------------------------------------------------------------------------
(* workerLoop.  A worker in "loop" is about to take queueMutex. *)

\* The checks at the top of the loop, in the code's order: a new epoch first,
\* then a task, then stop, and otherwise the worker sleeps.
Looping(w) == w \in pool /\ wpc[w] = "loop" /\ MutexFree

WorkerJoinFor(w) ==
    /\ Looping(w)
    /\ pforEpoch # lastEpoch[w]
    /\ lastEpoch' = [lastEpoch EXCEPT ![w] = pforEpoch]
    /\ wfn' = [wfn EXCEPT ![w] = pforFn]
    /\ wpc' = [wpc EXCEPT ![w] = "for"]
    /\ UNCHANGED <<pool, queue, stop, forVars, wtask, clientVars,
                   finished, joined, aborted, spurious>>

WorkerTake(w) ==
    /\ Looping(w)
    /\ pforEpoch = lastEpoch[w]
    /\ queue # <<>>
    /\ wtask' = [wtask EXCEPT ![w] = Head(queue)]
    /\ queue' = Tail(queue)
    /\ wpc' = [wpc EXCEPT ![w] = "run"]
    /\ UNCHANGED <<pool, stop, forVars, wfn, lastEpoch, clientVars,
                   finished, joined, aborted, spurious>>

\* (bug) A worker that leaves as soon as it sees stop, with tasks still queued.
WorkerExitUndrained(w) ==
    /\ Looping(w)
    /\ pforEpoch = lastEpoch[w]
    /\ stop
    /\ wpc' = [wpc EXCEPT ![w] = "exited"]
    /\ UNCHANGED <<pool, queue, stop, forVars, wtask, wfn, lastEpoch, clientVars,
                   finished, joined, aborted, spurious>>

WorkerExit(w) ==
    /\ Looping(w)
    /\ pforEpoch = lastEpoch[w]
    /\ queue = <<>>
    /\ stop
    /\ wpc' = [wpc EXCEPT ![w] = "exited"]
    /\ UNCHANGED <<pool, queue, stop, forVars, wtask, wfn, lastEpoch, clientVars,
                   finished, joined, aborted, spurious>>

WorkerSleep(w) ==
    /\ Looping(w)
    /\ pforEpoch = lastEpoch[w]
    /\ queue = <<>>
    /\ ~stop
    /\ wpc' = [wpc EXCEPT ![w] = "asleep"]
    /\ UNCHANGED <<pool, queue, stop, forVars, wtask, wfn, lastEpoch, clientVars,
                   finished, joined, aborted, spurious>>

\* fn(workerId, nw, ctx) returns; pforDone is incremented without the mutex and
\* the worker that completes the count goes on to notify, without the mutex too.
WorkerForDone(w) ==
    /\ wpc[w] = "for"
    /\ pforDone' = pforDone + 1
    /\ wfn' = [wfn EXCEPT ![w] = NoFn]
    /\ wpc' = [wpc EXCEPT ![w] =
                   IF pforDone + 1 >= Cardinality(pool) THEN "forNotify" ELSE "loop"]
    /\ UNCHANGED <<pool, queue, stop, pforEpoch, pforBusy, pforFn, wtask, lastEpoch,
                   clientVars, finished, joined, aborted, spurious>>

WorkerForNotify(w) ==
    /\ wpc[w] = "forNotify"
    /\ wpc' = [WokenWorkers EXCEPT ![w] = "loop"]
    /\ cpc' = WokenClients
    /\ UNCHANGED <<pool, queue, stop, forVars, wtask, wfn, lastEpoch, target,
                   finished, joined, aborted, spurious>>

\* run() returns or throws, and markFinished sets the flag under doneMutex ...
WorkerFinish(w) ==
    /\ wpc[w] = "run"
    /\ finished' = finished \cup {wtask[w]}
    /\ wpc' = [wpc EXCEPT ![w] = "doneNotify"]
    /\ UNCHANGED <<pool, queue, stop, forVars, wtask, wfn, lastEpoch, clientVars,
                   joined, aborted, spurious>>

\* (bug) markFinished that sets the flag and forgets doneCv.notify_all().
WorkerDoneSilent(w) ==
    /\ wpc[w] = "doneNotify"
    /\ wpc' = [wpc EXCEPT ![w] = "loop"]
    /\ wtask' = [wtask EXCEPT ![w] = NoTask]
    /\ aborted' = (wtask[w] \in Throwing)
    /\ UNCHANGED <<pool, queue, stop, forVars, wfn, lastEpoch, clientVars,
                   finished, joined, spurious>>

\* ... and then wakes the task's waiters.  An exception is rethrown out of the
\* thread's function, which ends the process.
WorkerDoneNotify(w) ==
    /\ wpc[w] = "doneNotify"
    /\ cpc' = [c \in Clients |-> IF cpc[c] = "doneWait" /\ target[c] = wtask[w]
                                 THEN "waitCheck" ELSE cpc[c]]
    /\ wpc' = [wpc EXCEPT ![w] = "loop"]
    /\ wtask' = [wtask EXCEPT ![w] = NoTask]
    /\ aborted' = (wtask[w] \in Throwing)
    /\ UNCHANGED <<pool, queue, stop, forVars, wfn, lastEpoch, target,
                   finished, joined, spurious>>

WorkerStep(w) ==
    \/ WorkerJoinFor(w) \/ WorkerTake(w) \/ WorkerExit(w) \/ WorkerSleep(w)
    \/ WorkerForDone(w) \/ WorkerForNotify(w)
    \/ WorkerFinish(w) \/ WorkerDoneNotify(w)

----------------------------------------------------------------------------
(* The calls of the client threads *)

\* Tasks that were accepted: in the queue, in a worker's hands, or finished.
Accepted ==
    {queue[i] : i \in 1 .. Len(queue)} \cup {wtask[w] : w \in {v \in Workers : wtask[v] # NoTask}}
        \cup finished

\* (bug) submit without its stop check.
SubmitAfterStop(c, t) ==
    /\ cpc[c] = "idle"
    /\ MutexFree
    /\ t \notin Accepted
    /\ queue' = Append(queue, t)
    /\ cpc' = [cpc EXCEPT ![c] = "submitNotify"]
    /\ UNCHANGED <<pool, stop, forVars, workerVars, target,
                   finished, joined, aborted, spurious>>

Submit(c, t) ==
    /\ cpc[c] = "idle"
    /\ MutexFree
    /\ ~stop
    /\ t \notin Accepted
    /\ queue' = Append(queue, t)
    /\ cpc' = [cpc EXCEPT ![c] = "submitNotify"]
    /\ UNCHANGED <<pool, stop, forVars, workerVars, target,
                   finished, joined, aborted, spurious>>

\* (bug) submit that wakes nobody.
SubmitSilent(c) ==
    /\ cpc[c] = "submitNotify"
    /\ cpc' = [cpc EXCEPT ![c] = "idle"]
    /\ UNCHANGED <<pool, queue, stop, forVars, workerVars, target,
                   finished, joined, aborted, spurious>>

SubmitNotify(c) ==
    /\ cpc[c] = "submitNotify"
    /\ NotifyOne(c, "idle")
    /\ UNCHANGED <<pool, queue, stop, forVars, wtask, wfn, lastEpoch, target,
                   finished, joined, aborted, spurious>>

\* (bug) parallelFor that does not refuse a second call while one is in progress.
ParallelForNested(c) ==
    /\ cpc[c] = "idle"
    /\ pool # {}
    /\ MutexFree
    /\ ~stop
    /\ pforEpoch < MaxEpoch
    /\ pforBusy' = TRUE
    /\ pforFn' = c
    /\ pforDone' = 0
    /\ pforEpoch' = pforEpoch + 1
    /\ cpc' = [cpc EXCEPT ![c] = "forNotify"]
    /\ UNCHANGED <<pool, queue, stop, workerVars, target,
                   finished, joined, aborted, spurious>>

\* (bug) parallelFor that does not reset the count of the previous call.
ParallelForNoReset(c) ==
    /\ cpc[c] = "idle"
    /\ pool # {}
    /\ MutexFree
    /\ ~stop
    /\ ~pforBusy
    /\ pforEpoch < MaxEpoch
    /\ pforBusy' = TRUE
    /\ pforFn' = c
    /\ pforEpoch' = pforEpoch + 1
    /\ cpc' = [cpc EXCEPT ![c] = "forNotify"]
    /\ UNCHANGED <<pool, queue, stop, pforDone, workerVars, target,
                   finished, joined, aborted, spurious>>

ParallelFor(c) ==
    /\ cpc[c] = "idle"
    /\ pool # {}
    /\ MutexFree
    /\ ~stop
    /\ ~pforBusy
    /\ pforEpoch < MaxEpoch
    /\ pforBusy' = TRUE
    /\ pforFn' = c
    /\ pforDone' = 0
    /\ pforEpoch' = pforEpoch + 1
    /\ cpc' = [cpc EXCEPT ![c] = "forNotify"]
    /\ UNCHANGED <<pool, queue, stop, workerVars, target,
                   finished, joined, aborted, spurious>>

ParallelForNotify(c) ==
    /\ cpc[c] = "forNotify"
    /\ NotifyAll(c, "forBody")
    /\ UNCHANGED <<pool, queue, stop, forVars, wtask, wfn, lastEpoch, target,
                   finished, joined, aborted, spurious>>

\* fn(0, nPool + 1, ctx) on the caller.
ParallelForBody(c) ==
    /\ cpc[c] = "forBody"
    /\ cpc' = [cpc EXCEPT ![c] = "forCheck"]
    /\ UNCHANGED <<pool, queue, stop, forVars, workerVars, target,
                   finished, joined, aborted, spurious>>

\* while (pforDone < nPool): the caller took the mutex and found slots missing.
ParallelForMustWait(c) ==
    /\ cpc[c] = "forCheck"
    /\ MutexFree
    /\ pforDone < Cardinality(pool)
    /\ cpc' = [cpc EXCEPT ![c] = "forBlock"]
    /\ UNCHANGED <<pool, queue, stop, forVars, workerVars, target,
                   finished, joined, aborted, spurious>>

\* condition.wait(lock): gives the mutex back and sleeps, in one step.
ParallelForWait(c) ==
    /\ cpc[c] = "forBlock"
    /\ cpc' = [cpc EXCEPT ![c] = "forWait"]
    /\ UNCHANGED <<pool, queue, stop, forVars, workerVars, target,
                   finished, joined, aborted, spurious>>

\* (bug) The caller waits for one slot too few.
ParallelForReturnEarly(c) ==
    /\ cpc[c] = "forCheck"
    /\ MutexFree
    /\ pforDone + 1 >= Cardinality(pool)
    /\ pforBusy' = FALSE
    /\ pforFn' = NoFn
    /\ cpc' = [cpc EXCEPT ![c] = "idle"]
    /\ UNCHANGED <<pool, queue, stop, pforEpoch, pforDone, workerVars, target,
                   finished, joined, aborted, spurious>>

ParallelForReturn(c) ==
    /\ cpc[c] = "forCheck"
    /\ MutexFree
    /\ pforDone >= Cardinality(pool)
    /\ pforBusy' = FALSE
    /\ pforFn' = NoFn
    /\ cpc' = [cpc EXCEPT ![c] = "idle"]
    /\ UNCHANGED <<pool, queue, stop, pforEpoch, pforDone, workerVars, target,
                   finished, joined, aborted, spurious>>

\* wait() on an accepted task; waitAll() is a client that waits for its tasks in turn.
Wait(c, t) ==
    /\ cpc[c] = "idle"
    /\ t \in Accepted
    /\ target' = [target EXCEPT ![c] = t]
    /\ cpc' = [cpc EXCEPT ![c] = "waitCheck"]
    /\ UNCHANGED <<pool, queue, stop, forVars, workerVars,
                   finished, joined, aborted, spurious>>

\* The flag is read under doneMutex, which markFinished holds to set it: check and
\* wait are one step with respect to markFinished.
WaitBlock(c) ==
    /\ cpc[c] = "waitCheck"
    /\ target[c] \notin finished
    /\ cpc' = [cpc EXCEPT ![c] = "doneWait"]
    /\ UNCHANGED <<pool, queue, stop, forVars, workerVars, target,
                   finished, joined, aborted, spurious>>

WaitReturn(c) ==
    /\ cpc[c] = "waitCheck"
    /\ target[c] \in finished
    /\ cpc' = [cpc EXCEPT ![c] = "idle"]
    /\ target' = [target EXCEPT ![c] = NoTask]
    /\ UNCHANGED <<pool, queue, stop, forVars, workerVars,
                   finished, joined, aborted, spurious>>

Shutdown(c) ==
    /\ cpc[c] = "idle"
    /\ MutexFree
    /\ ~stop
    /\ stop' = TRUE
    /\ cpc' = [cpc EXCEPT ![c] = "shutNotify"]
    /\ UNCHANGED <<pool, queue, forVars, workerVars, target,
                   finished, joined, aborted, spurious>>

\* (bug) shutdown that wakes one sleeper instead of all of them.
ShutdownNotifyOne(c) ==
    /\ cpc[c] = "shutNotify"
    /\ NotifyOne(c, "shutJoin")
    /\ UNCHANGED <<pool, queue, stop, forVars, wtask, wfn, lastEpoch, target,
                   finished, joined, aborted, spurious>>

ShutdownNotify(c) ==
    /\ cpc[c] = "shutNotify"
    /\ NotifyAll(c, "shutJoin")
    /\ UNCHANGED <<pool, queue, stop, forVars, wtask, wfn, lastEpoch, target,
                   finished, joined, aborted, spurious>>

\* The loop of joins ends when every worker has left workerLoop.
ShutdownJoin(c) ==
    /\ cpc[c] = "shutJoin"
    /\ \A w \in pool : wpc[w] = "exited"
    /\ joined' = TRUE
    /\ cpc' = [cpc EXCEPT ![c] = "idle"]
    /\ UNCHANGED <<pool, queue, stop, forVars, workerVars, target, finished, aborted, spurious>>

\* What a client does inside a call; starting a call is its own choice.
ClientStep(c) ==
    \/ SubmitNotify(c)
    \/ ParallelForNotify(c) \/ ParallelForBody(c) \/ ParallelForMustWait(c)
    \/ ParallelForWait(c) \/ ParallelForReturn(c)
    \/ WaitBlock(c) \/ WaitReturn(c)
    \/ ShutdownNotify(c) \/ ShutdownJoin(c)

ClientCall(c) ==
    \/ \E t \in Tasks : Submit(c, t) \/ Wait(c, t)
    \/ ParallelFor(c)
    \/ Shutdown(c)

Next ==
    /\ ~aborted
    /\ \/ \E w \in Workers : WorkerStep(w)
       \/ \E c \in Clients : ClientStep(c) \/ ClientCall(c)
       \/ SpuriousWake

Spec == Init /\ [][Next]_vars

\* The scheduler runs every thread that can run, and every fn and task ends.
\* Weak fairness is enough for a thread that wants the mutex to get it: the calls
\* that take it are finitely many (each task is submitted once, MaxEpoch, MaxSpurious).
Fairness ==
    /\ \A w \in Workers : WF_vars(~aborted /\ WorkerStep(w))
    /\ \A c \in Clients : WF_vars(~aborted /\ ClientStep(c))

FairSpec == Spec /\ Fairness

----------------------------------------------------------------------------
(* Properties *)

\* A worker inside fn works on the call in progress: its copy of pforFn/pforCtx is
\* that call's, and the caller whose stack holds ctx has not left parallelFor.
SlotContextAlive ==
    \A w \in pool : wpc[w] = "for" =>
        /\ pforBusy
        /\ wfn[w] = pforFn
        /\ pforFn \in Clients
        /\ InFor(pforFn)

\* The barrier of parallelFor: when no call is in progress every worker has run its
\* slot of the last one, and while the count is full no slot is missing.
BarrierComplete ==
    /\ ~pforBusy => \A w \in pool : SlotDone(w)
    /\ pforDone = Cardinality(pool) => \A w \in pool : SlotDone(w)

\* When the shutdown that stopped the pool has returned, every accepted task has
\* been run to its end (the test LargeNumberOfTasks relies on it) and no thread of
\* the pool will touch its members again.
ShutdownDrains ==
    joined /\ pool # {} =>
        /\ queue = <<>>
        /\ Accepted = finished
        /\ \A w \in pool : wpc[w] = "exited"

\* A parallelFor caller that sleeps although its count is complete, with no worker
\* left that will notify: it missed the only notification it was going to get.
Stranded ==
    \E c \in Clients :
        /\ cpc[c] = "forWait"
        /\ pforDone = Cardinality(pool)
        /\ \A w \in pool : wpc[w] # "forNotify"

\* An accepted task is eventually finished, although its notify_one may wake a
\* waiting parallelFor caller instead of a worker.  A stranded caller is the one that
\* can swallow it for good: it wakes, returns, and tells no worker of the task.
AcceptedTaskFinishes ==
    [](~Stranded /\ pool # {}) =>
        \A t \in Tasks : t \in Accepted ~> (t \in finished \/ aborted)

\* wait and waitAll return once the tasks they wait for have been run.
WaitReturns ==
    [](~Stranded /\ pool # {}) =>
        \A c \in Clients : cpc[c] \in {"waitCheck", "doneWait"} ~> (cpc[c] = "idle" \/ aborted)

\* The shutdown that stops the pool returns, even if a parallelFor is in progress or
\* its caller is stranded: notify_all after stop wakes everybody.
ShutdownReturns ==
    \A c \in Clients : cpc[c] = "shutNotify" ~> (cpc[c] = "idle" \/ aborted)

\* "Zero-alloc barrier: run fn on the caller and every pool thread"
\* (include/parallel/ThreadPool.h): the call that started returns.
ParallelForReturns ==
    \A c \in Clients : cpc[c] = "forBody" ~> (cpc[c] = "idle" \/ aborted)

----------------------------------------------------------------------------
(* What the threads that use a pool see of it *)

\* The tasks that are being run: taken from the queue and not marked finished.
Running == {wtask[w] : w \in {v \in Workers : wpc[v] = "run"}}

\* The slots of the parallelFor in progress that have been run; 0 is the caller's.
SlotsRun ==
    IF pforBusy
    THEN {w \in pool : SlotDone(w)} \cup
         (IF cpc[pforFn] \in {"forCheck", "forBlock", "forWait"} THEN {0} ELSE {})
    ELSE {}

Abs == INSTANCE ThreadPoolAbs WITH
    Caller  <- 0,
    pending <- queue,
    running <- Running,
    done    <- finished,
    open    <- ~stop,
    call    <- pforBusy,
    slots   <- SlotsRun,
    dead    <- aborted

\* Every behaviour of the pool is one the abstract pool allows.
ImplementsAbs == Abs!Spec
=============================================================================
