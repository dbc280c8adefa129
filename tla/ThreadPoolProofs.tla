---------------------------- MODULE ThreadPoolProofs ----------------------------
(***************************************************************************)
(* Proofs about ThreadPool, for pools of any size, any clients and tasks.  *)
(*                                                                         *)
(* The barrier of parallelFor rests on a counter (pforDone) that workers   *)
(* increment outside the mutex.  The inductive invariant ties the counter  *)
(* to the workers it stands for: it is the number of workers that have     *)
(* taken part in the current epoch and have left fn.                       *)
(*                                                                         *)
(* The last part proves that ThreadPool implements ThreadPoolAbs: initial  *)
(* states map to initial states, and every step to a step of the abstract  *)
(* pool or to none.                                                        *)
(***************************************************************************)
EXTENDS ThreadPool, FiniteSetTheorems, TLAPS

\* TypeOK without the bound on pforDone, which is not inductive by itself.
Types ==
    /\ \E threads \in 0 .. MaxThreads : pool = 1 .. threads
    /\ queue \in Seq(Tasks)
    /\ stop \in BOOLEAN
    /\ pforEpoch \in 0 .. MaxEpoch
    /\ pforBusy \in BOOLEAN
    /\ pforFn \in Clients \cup {NoFn}
    /\ pforDone \in Nat
    /\ wpc \in [Workers -> WorkerStates]
    /\ wtask \in [Workers -> Tasks \cup {NoTask}]
    /\ wfn \in [Workers -> Clients \cup {NoFn}]
    /\ lastEpoch \in [Workers -> 0 .. MaxEpoch]
    /\ cpc \in [Clients -> ClientStates]
    /\ target \in [Clients -> Tasks \cup {NoTask}]
    /\ finished \subseteq Tasks
    /\ joined \in BOOLEAN
    /\ aborted \in BOOLEAN
    /\ spurious \in 0 .. MaxSpurious

\* A worker holds a task exactly while it runs it or reports it.
Holding ==
    /\ \A w \in Workers : (wtask[w] # NoTask) <=> (wpc[w] \in {"run", "doneNotify"})
    /\ \A w \in Workers : w \notin pool => wpc[w] = "loop"

\* One call at a time: the client inside parallelFor is the owner of pforFn.
OneCall ==
    /\ \A c \in Clients : InFor(c) => pforBusy /\ pforFn = c
    /\ pforBusy => pforFn \in Clients /\ InFor(pforFn)

\* No worker falls more than one epoch behind, and only while a call is in progress.
EpochInv ==
    /\ pforBusy => pforEpoch > 0
    /\ \A w \in pool :
         \/ lastEpoch[w] = pforEpoch
         \/ pforBusy /\ lastEpoch[w] + 1 = pforEpoch /\ wpc[w] # "for"
    /\ \A w \in Workers :
         wpc[w] = "for" => pforBusy /\ lastEpoch[w] = pforEpoch /\ wfn[w] = pforFn

SlotsDone == {w \in pool : SlotDone(w)}

\* The counter counts the slots that are done.
CountInv ==
    /\ pforEpoch > 0 => pforDone = Cardinality(SlotsDone)
    /\ pforEpoch = 0 => pforDone = 0

\* Workers leave only when the pool is stopped and drained, and nothing comes after.
DrainInv ==
    /\ \A w \in Workers : wpc[w] = "exited" => stop /\ queue = <<>>
    /\ joined => \A w \in pool : wpc[w] = "exited"

\* The inductive invariant.
IInv == Types /\ Holding /\ OneCall /\ EpochInv /\ CountInv /\ DrainInv

----------------------------------------------------------------------------
(* The size of a pool, and what a wakeup does *)

\* A pool is a finite set of workers.
LEMMA PoolFacts ==
    ASSUME Types
    PROVE  /\ pool \subseteq Workers
           /\ IsFiniteSet(pool)
           /\ Cardinality(pool) \in Nat
  <1>1. PICK threads \in 0 .. MaxThreads : pool = 1 .. threads
    BY DEF Types
  <1>2. IsFiniteSet(pool)
    BY <1>1, FS_Interval
  <1>3. pool \subseteq Workers
    BY <1>1, PoolAssumption DEF Workers
  <1>4. QED
    BY <1>2, <1>3, FS_CardinalityType

\* Of the workers, the steps that notify (or wake spuriously) move sleepers and the
\* notifier itself to the top of their loop, and no other.
OnlyWakes ==
    \A w \in Workers :
        \/ wpc'[w] = wpc[w]
        \/ wpc[w] \in {"asleep", "forNotify"} /\ wpc'[w] = "loop"

LEMMA WakeupsOnly ==
    ASSUME Types,
           \/ \E w \in Workers : WorkerForNotify(w)
           \/ \E c \in Clients :
                 SubmitNotify(c) \/ ParallelForNotify(c) \/ ShutdownNotify(c)
           \/ SpuriousWake
    PROVE  OnlyWakes
  <1> USE DEF OnlyWakes, Types
  <1>1. ASSUME NEW w \in Workers, WorkerForNotify(w) PROVE OnlyWakes
    BY <1>1 DEF WorkerForNotify, WokenWorkers
  <1>2. ASSUME NEW c \in Clients, SubmitNotify(c) PROVE OnlyWakes
    BY <1>2 DEF SubmitNotify, NotifyOne
  <1>3. ASSUME NEW c \in Clients, ParallelForNotify(c) PROVE OnlyWakes
    BY <1>3 DEF ParallelForNotify, NotifyAll, WokenWorkers
  <1>4. ASSUME NEW c \in Clients, ShutdownNotify(c) PROVE OnlyWakes
    BY <1>4 DEF ShutdownNotify, NotifyAll, WokenWorkers
  <1>5. ASSUME SpuriousWake PROVE OnlyWakes
    BY <1>5 DEF SpuriousWake
  <1>6. QED
    BY <1>1, <1>2, <1>3, <1>4, <1>5

\* A full count means that no slot is missing.
LEMMA FullCount ==
    ASSUME Types, CountInv, pforEpoch > 0, pforDone >= Cardinality(pool)
    PROVE  \A w \in pool : SlotDone(w)
  <1>1. SlotsDone \subseteq pool
    BY DEF SlotsDone
  <1>2. IsFiniteSet(SlotsDone) /\ Cardinality(SlotsDone) <= Cardinality(pool)
    BY <1>1, PoolFacts, FS_Subset
  <1>3. Cardinality(SlotsDone) = Cardinality(pool)
    BY <1>2, PoolFacts, FS_CardinalityType DEF CountInv
  <1>4. SlotsDone = pool
    BY <1>1, <1>3, PoolFacts, FS_Subset
  <1>5. QED
    BY <1>4 DEF SlotsDone

----------------------------------------------------------------------------
(* Each part of the invariant is kept by every step *)

\* Every step keeps the types.
LEMMA TypesStep ==
    ASSUME Types, Holding, Next
    PROVE  Types'
  <1> USE DEF Types, WorkerStates, ClientStates
  <1>1. ASSUME NEW w \in Workers, WorkerJoinFor(w) PROVE Types'
    BY <1>1 DEF WorkerJoinFor, Looping, forVars, workerVars, clientVars
  <1>2. ASSUME NEW w \in Workers, WorkerTake(w) PROVE Types'
    BY <1>2 DEF WorkerTake, Looping, forVars, workerVars, clientVars
  <1>3. ASSUME NEW w \in Workers, WorkerExit(w) PROVE Types'
    BY <1>3 DEF WorkerExit, Looping, forVars, workerVars, clientVars
  <1>4. ASSUME NEW w \in Workers, WorkerSleep(w) PROVE Types'
    BY <1>4 DEF WorkerSleep, Looping, forVars, workerVars, clientVars
  <1>5. ASSUME NEW w \in Workers, WorkerForDone(w) PROVE Types'
    BY <1>5 DEF WorkerForDone, forVars, workerVars, clientVars
  <1>6. ASSUME NEW w \in Workers, WorkerForNotify(w) PROVE Types'
    BY <1>6 DEF WorkerForNotify, WokenWorkers, WokenClients, forVars, workerVars,
       clientVars
  <1>7. ASSUME NEW w \in Workers, WorkerFinish(w) PROVE Types'
    BY <1>7 DEF WorkerFinish, Holding, forVars, workerVars, clientVars
  <1>8. ASSUME NEW w \in Workers, WorkerDoneNotify(w) PROVE Types'
    BY <1>8 DEF WorkerDoneNotify, forVars, workerVars, clientVars
  <1>9. ASSUME NEW c \in Clients, SubmitNotify(c) PROVE Types'
    BY <1>9 DEF SubmitNotify, NotifyOne, forVars, workerVars, clientVars
  <1>10. ASSUME NEW c \in Clients, ParallelForNotify(c) PROVE Types'
    BY <1>10 DEF ParallelForNotify, NotifyAll, WokenWorkers, WokenClients, forVars,
       workerVars, clientVars
  <1>11. ASSUME NEW c \in Clients, ParallelForBody(c) PROVE Types'
    BY <1>11 DEF ParallelForBody, forVars, workerVars, clientVars
  <1>12. ASSUME NEW c \in Clients, ParallelForMustWait(c) PROVE Types'
    BY <1>12 DEF ParallelForMustWait, forVars, workerVars, clientVars
  <1>13. ASSUME NEW c \in Clients, ParallelForWait(c) PROVE Types'
    BY <1>13 DEF ParallelForWait, forVars, workerVars, clientVars
  <1>14. ASSUME NEW c \in Clients, ParallelForReturn(c) PROVE Types'
    BY <1>14 DEF ParallelForReturn, forVars, workerVars, clientVars
  <1>15. ASSUME NEW c \in Clients, WaitBlock(c) PROVE Types'
    BY <1>15 DEF WaitBlock, forVars, workerVars, clientVars
  <1>16. ASSUME NEW c \in Clients, WaitReturn(c) PROVE Types'
    BY <1>16 DEF WaitReturn, forVars, workerVars, clientVars
  <1>17. ASSUME NEW c \in Clients, ShutdownNotify(c) PROVE Types'
    BY <1>17 DEF ShutdownNotify, NotifyAll, WokenWorkers, WokenClients, forVars,
       workerVars, clientVars
  <1>18. ASSUME NEW c \in Clients, ShutdownJoin(c) PROVE Types'
    BY <1>18 DEF ShutdownJoin, forVars, workerVars, clientVars
  <1>19. ASSUME NEW c \in Clients, ParallelFor(c) PROVE Types'
    <2>1. pforEpoch' \in 0 .. MaxEpoch
      BY <1>19, PoolAssumption DEF ParallelFor
    <2>2. /\ pforDone' \in Nat
          /\ pforBusy' \in BOOLEAN
          /\ pforFn' \in Clients \cup {NoFn}
          /\ cpc' \in [Clients -> ClientStates]
      BY <1>19 DEF ParallelFor
    <2>3. UNCHANGED <<pool, queue, stop, wpc, wtask, wfn, lastEpoch, target,
                      finished, joined, aborted, spurious>>
      BY <1>19 DEF ParallelFor, workerVars
    <2>4. QED
      BY <2>1, <2>2, <2>3
  <1>20. ASSUME NEW c \in Clients, Shutdown(c) PROVE Types'
    BY <1>20 DEF Shutdown, forVars, workerVars, clientVars
  <1>21. ASSUME NEW c \in Clients, NEW t \in Tasks, Submit(c, t) PROVE Types'
    BY <1>21 DEF Submit, forVars, workerVars, clientVars
  <1>22. ASSUME NEW c \in Clients, NEW t \in Tasks, Wait(c, t) PROVE Types'
    BY <1>22 DEF Wait, forVars, workerVars, clientVars
  <1>23. ASSUME SpuriousWake PROVE Types'
    <2>1. spurious' \in 0 .. MaxSpurious
      BY <1>23, PoolAssumption DEF SpuriousWake
    <2>2. wpc' \in [Workers -> WorkerStates] /\ cpc' \in [Clients -> ClientStates]
      BY <1>23 DEF SpuriousWake
    <2>3. QED
      BY <1>23, <2>1, <2>2 DEF SpuriousWake, forVars
  <1>24. QED
    BY <1>1, <1>2, <1>3, <1>4, <1>5, <1>6, <1>7, <1>8, <1>9, <1>10, <1>11, <1>12, <1>13,
       <1>14, <1>15, <1>16, <1>17, <1>18, <1>19, <1>20, <1>21, <1>22, <1>23 DEF Next,
       WorkerStep, ClientStep, ClientCall

\* Every step keeps the tasks in the hands of the workers that run them.
LEMMA HoldingStep ==
    ASSUME Types, Holding, Next
    PROVE  Holding'
  <1> USE DEF Types, Holding, WorkerStates
  <1>1. ASSUME NEW w \in Workers, WorkerJoinFor(w) PROVE Holding'
    BY <1>1 DEF WorkerJoinFor, Looping, forVars, workerVars, clientVars
  <1>2. ASSUME NEW w \in Workers, WorkerTake(w) PROVE Holding'
    BY <1>2, PoolAssumption DEF WorkerTake, Looping, forVars, workerVars, clientVars
  <1>3. ASSUME NEW w \in Workers, WorkerExit(w) PROVE Holding'
    BY <1>3 DEF WorkerExit, Looping, forVars, workerVars, clientVars
  <1>4. ASSUME NEW w \in Workers, WorkerSleep(w) PROVE Holding'
    BY <1>4 DEF WorkerSleep, Looping, forVars, workerVars, clientVars
  <1>5. ASSUME NEW w \in Workers, WorkerForDone(w) PROVE Holding'
    BY <1>5 DEF WorkerForDone, forVars, workerVars, clientVars
  <1>6. ASSUME NEW w \in Workers, WorkerForNotify(w) PROVE Holding'
    BY <1>6 DEF WorkerForNotify, WokenWorkers, WokenClients, forVars, workerVars,
       clientVars
  <1>7. ASSUME NEW w \in Workers, WorkerFinish(w) PROVE Holding'
    BY <1>7 DEF WorkerFinish, forVars, workerVars, clientVars
  <1>8. ASSUME NEW w \in Workers, WorkerDoneNotify(w) PROVE Holding'
    BY <1>8 DEF WorkerDoneNotify, forVars, workerVars, clientVars
  <1>9. ASSUME NEW c \in Clients, SubmitNotify(c) PROVE Holding'
    BY <1>9 DEF SubmitNotify, NotifyOne, forVars, workerVars, clientVars
  <1>10. ASSUME NEW c \in Clients, ParallelForNotify(c) PROVE Holding'
    BY <1>10 DEF ParallelForNotify, NotifyAll, WokenWorkers, WokenClients, forVars,
       workerVars, clientVars
  <1>11. ASSUME NEW c \in Clients, ParallelForBody(c) PROVE Holding'
    BY <1>11 DEF ParallelForBody, forVars, workerVars, clientVars
  <1>12. ASSUME NEW c \in Clients, ParallelForMustWait(c) PROVE Holding'
    BY <1>12 DEF ParallelForMustWait, forVars, workerVars, clientVars
  <1>13. ASSUME NEW c \in Clients, ParallelForWait(c) PROVE Holding'
    BY <1>13 DEF ParallelForWait, forVars, workerVars, clientVars
  <1>14. ASSUME NEW c \in Clients, ParallelForReturn(c) PROVE Holding'
    BY <1>14 DEF ParallelForReturn, forVars, workerVars, clientVars
  <1>15. ASSUME NEW c \in Clients, WaitBlock(c) PROVE Holding'
    BY <1>15 DEF WaitBlock, forVars, workerVars, clientVars
  <1>16. ASSUME NEW c \in Clients, WaitReturn(c) PROVE Holding'
    BY <1>16 DEF WaitReturn, forVars, workerVars, clientVars
  <1>17. ASSUME NEW c \in Clients, ShutdownNotify(c) PROVE Holding'
    BY <1>17 DEF ShutdownNotify, NotifyAll, WokenWorkers, WokenClients, forVars,
       workerVars, clientVars
  <1>18. ASSUME NEW c \in Clients, ShutdownJoin(c) PROVE Holding'
    BY <1>18 DEF ShutdownJoin, forVars, workerVars, clientVars
  <1>19. ASSUME NEW c \in Clients, ParallelFor(c) PROVE Holding'
    BY <1>19 DEF ParallelFor, forVars, workerVars, clientVars
  <1>20. ASSUME NEW c \in Clients, Shutdown(c) PROVE Holding'
    BY <1>20 DEF Shutdown, forVars, workerVars, clientVars
  <1>21. ASSUME NEW c \in Clients, NEW t \in Tasks, Submit(c, t) PROVE Holding'
    BY <1>21 DEF Submit, forVars, workerVars, clientVars
  <1>22. ASSUME NEW c \in Clients, NEW t \in Tasks, Wait(c, t) PROVE Holding'
    BY <1>22 DEF Wait, forVars, workerVars, clientVars
  <1>23. ASSUME SpuriousWake PROVE Holding'
    BY <1>23 DEF SpuriousWake, forVars
  <1>24. QED
    BY <1>1, <1>2, <1>3, <1>4, <1>5, <1>6, <1>7, <1>8, <1>9, <1>10, <1>11, <1>12, <1>13,
       <1>14, <1>15, <1>16, <1>17, <1>18, <1>19, <1>20, <1>21, <1>22, <1>23 DEF Next,
       WorkerStep, ClientStep, ClientCall

\* parallelFor is not nestable: no step lets a second client in.
LEMMA OneCallStep ==
    ASSUME Types, OneCall, Next
    PROVE  OneCall'
  <1> USE DEF Types, OneCall, InFor, ClientStates
  <1>1. ASSUME NEW w \in Workers, WorkerJoinFor(w) PROVE OneCall'
    BY <1>1 DEF WorkerJoinFor, Looping, forVars, workerVars, clientVars
  <1>2. ASSUME NEW w \in Workers, WorkerTake(w) PROVE OneCall'
    BY <1>2 DEF WorkerTake, Looping, forVars, workerVars, clientVars
  <1>3. ASSUME NEW w \in Workers, WorkerExit(w) PROVE OneCall'
    BY <1>3 DEF WorkerExit, Looping, forVars, workerVars, clientVars
  <1>4. ASSUME NEW w \in Workers, WorkerSleep(w) PROVE OneCall'
    BY <1>4 DEF WorkerSleep, Looping, forVars, workerVars, clientVars
  <1>5. ASSUME NEW w \in Workers, WorkerForDone(w) PROVE OneCall'
    BY <1>5 DEF WorkerForDone, forVars, workerVars, clientVars
  <1>6. ASSUME NEW w \in Workers, WorkerForNotify(w) PROVE OneCall'
    BY <1>6 DEF WorkerForNotify, WokenWorkers, WokenClients, forVars, workerVars,
       clientVars
  <1>7. ASSUME NEW w \in Workers, WorkerFinish(w) PROVE OneCall'
    BY <1>7 DEF WorkerFinish, forVars, workerVars, clientVars
  <1>8. ASSUME NEW w \in Workers, WorkerDoneNotify(w) PROVE OneCall'
    BY <1>8 DEF WorkerDoneNotify, forVars, workerVars, clientVars
  <1>9. ASSUME NEW c \in Clients, SubmitNotify(c) PROVE OneCall'
    BY <1>9 DEF SubmitNotify, NotifyOne, forVars, workerVars, clientVars
  <1>10. ASSUME NEW c \in Clients, ParallelForNotify(c) PROVE OneCall'
    BY <1>10 DEF ParallelForNotify, NotifyAll, WokenWorkers, WokenClients, forVars,
       workerVars, clientVars
  <1>11. ASSUME NEW c \in Clients, ParallelForBody(c) PROVE OneCall'
    BY <1>11 DEF ParallelForBody, forVars, workerVars, clientVars
  <1>12. ASSUME NEW c \in Clients, ParallelForMustWait(c) PROVE OneCall'
    BY <1>12 DEF ParallelForMustWait, forVars, workerVars, clientVars
  <1>13. ASSUME NEW c \in Clients, ParallelForWait(c) PROVE OneCall'
    BY <1>13 DEF ParallelForWait, forVars, workerVars, clientVars
  <1>14. ASSUME NEW c \in Clients, ParallelForReturn(c) PROVE OneCall'
    BY <1>14 DEF ParallelForReturn, forVars, workerVars, clientVars
  <1>15. ASSUME NEW c \in Clients, WaitBlock(c) PROVE OneCall'
    BY <1>15 DEF WaitBlock, forVars, workerVars, clientVars
  <1>16. ASSUME NEW c \in Clients, WaitReturn(c) PROVE OneCall'
    BY <1>16 DEF WaitReturn, forVars, workerVars, clientVars
  <1>17. ASSUME NEW c \in Clients, ShutdownNotify(c) PROVE OneCall'
    BY <1>17 DEF ShutdownNotify, NotifyAll, WokenWorkers, WokenClients, forVars,
       workerVars, clientVars
  <1>18. ASSUME NEW c \in Clients, ShutdownJoin(c) PROVE OneCall'
    BY <1>18 DEF ShutdownJoin, forVars, workerVars, clientVars
  <1>19. ASSUME NEW c \in Clients, ParallelFor(c) PROVE OneCall'
    BY <1>19 DEF ParallelFor, forVars, workerVars, clientVars
  <1>20. ASSUME NEW c \in Clients, Shutdown(c) PROVE OneCall'
    BY <1>20 DEF Shutdown, forVars, workerVars, clientVars
  <1>21. ASSUME NEW c \in Clients, NEW t \in Tasks, Submit(c, t) PROVE OneCall'
    BY <1>21 DEF Submit, forVars, workerVars, clientVars
  <1>22. ASSUME NEW c \in Clients, NEW t \in Tasks, Wait(c, t) PROVE OneCall'
    BY <1>22 DEF Wait, forVars, workerVars, clientVars
  <1>23. ASSUME SpuriousWake PROVE OneCall'
    BY <1>23 DEF SpuriousWake, forVars
  <1>24. QED
    BY <1>1, <1>2, <1>3, <1>4, <1>5, <1>6, <1>7, <1>8, <1>9, <1>10, <1>11, <1>12, <1>13,
       <1>14, <1>15, <1>16, <1>17, <1>18, <1>19, <1>20, <1>21, <1>22, <1>23 DEF Next,
       WorkerStep, ClientStep, ClientCall

\* Every step keeps each worker in the current epoch or one call behind.
LEMMA EpochStep ==
    ASSUME Types, Holding, OneCall, CountInv, EpochInv, Next
    PROVE  EpochInv'
  <1> USE DEF Types, EpochInv
  <1> USE PoolFacts
  <1>1. ASSUME NEW w \in Workers, WorkerJoinFor(w) PROVE EpochInv'
    BY <1>1 DEF WorkerJoinFor, Looping, forVars
  <1>2. ASSUME NEW w \in Workers, WorkerTake(w) PROVE EpochInv'
    BY <1>2 DEF WorkerTake, Looping, forVars, workerVars, clientVars
  <1>3. ASSUME NEW w \in Workers, WorkerExit(w) PROVE EpochInv'
    BY <1>3 DEF WorkerExit, Looping, forVars, workerVars, clientVars
  <1>4. ASSUME NEW w \in Workers, WorkerSleep(w) PROVE EpochInv'
    BY <1>4 DEF WorkerSleep, Looping, forVars, workerVars, clientVars
  <1>5. ASSUME NEW w \in Workers, WorkerForDone(w) PROVE EpochInv'
    BY <1>5 DEF WorkerForDone, forVars, workerVars, clientVars
  <1>6. ASSUME NEW w \in Workers, WorkerForNotify(w) PROVE EpochInv'
    BY <1>6, WakeupsOnly DEF WorkerForNotify, forVars, workerVars, clientVars, OnlyWakes
  <1>7. ASSUME NEW w \in Workers, WorkerFinish(w) PROVE EpochInv'
    BY <1>7 DEF WorkerFinish, forVars, workerVars, clientVars
  <1>8. ASSUME NEW w \in Workers, WorkerDoneNotify(w) PROVE EpochInv'
    BY <1>8 DEF WorkerDoneNotify, forVars, workerVars, clientVars
  <1>9. ASSUME NEW c \in Clients, SubmitNotify(c) PROVE EpochInv'
    BY <1>9, WakeupsOnly DEF SubmitNotify, forVars, workerVars, clientVars, OnlyWakes
  <1>10. ASSUME NEW c \in Clients, ParallelForNotify(c) PROVE EpochInv'
    BY <1>10, WakeupsOnly DEF ParallelForNotify, forVars, workerVars, clientVars,
       OnlyWakes
  <1>11. ASSUME NEW c \in Clients, ParallelForBody(c) PROVE EpochInv'
    BY <1>11 DEF ParallelForBody, forVars, workerVars, clientVars
  <1>12. ASSUME NEW c \in Clients, ParallelForMustWait(c) PROVE EpochInv'
    BY <1>12 DEF ParallelForMustWait, forVars, workerVars, clientVars
  <1>13. ASSUME NEW c \in Clients, ParallelForWait(c) PROVE EpochInv'
    BY <1>13 DEF ParallelForWait, forVars, workerVars, clientVars
  <1>14. ASSUME NEW c \in Clients, ParallelForReturn(c) PROVE EpochInv'
    <2>1. pforBusy
      BY <1>14 DEF ParallelForReturn, OneCall, InFor
    <2>2. \A w \in pool : SlotDone(w)
      BY <1>14, <2>1, FullCount DEF ParallelForReturn
    <2>3. QED
      BY <1>14, <2>1, <2>2 DEF ParallelForReturn, SlotDone, Holding, workerVars
  <1>15. ASSUME NEW c \in Clients, WaitBlock(c) PROVE EpochInv'
    BY <1>15 DEF WaitBlock, forVars, workerVars, clientVars
  <1>16. ASSUME NEW c \in Clients, WaitReturn(c) PROVE EpochInv'
    BY <1>16 DEF WaitReturn, forVars, workerVars, clientVars
  <1>17. ASSUME NEW c \in Clients, ShutdownNotify(c) PROVE EpochInv'
    BY <1>17, WakeupsOnly DEF ShutdownNotify, forVars, workerVars, clientVars, OnlyWakes
  <1>18. ASSUME NEW c \in Clients, ShutdownJoin(c) PROVE EpochInv'
    BY <1>18 DEF ShutdownJoin, forVars, workerVars, clientVars
  <1>19. ASSUME NEW c \in Clients, ParallelFor(c) PROVE EpochInv'
    BY <1>19 DEF ParallelFor, forVars, workerVars, clientVars
  <1>20. ASSUME NEW c \in Clients, Shutdown(c) PROVE EpochInv'
    BY <1>20 DEF Shutdown, forVars, workerVars, clientVars
  <1>21. ASSUME NEW c \in Clients, NEW t \in Tasks, Submit(c, t) PROVE EpochInv'
    BY <1>21 DEF Submit, forVars, workerVars, clientVars
  <1>22. ASSUME NEW c \in Clients, NEW t \in Tasks, Wait(c, t) PROVE EpochInv'
    BY <1>22 DEF Wait, forVars, workerVars, clientVars
  <1>23. ASSUME SpuriousWake PROVE EpochInv'
    BY <1>23, WakeupsOnly DEF SpuriousWake, forVars, OnlyWakes
  <1>24. QED
    BY <1>1, <1>2, <1>3, <1>4, <1>5, <1>6, <1>7, <1>8, <1>9, <1>10, <1>11, <1>12, <1>13,
       <1>14, <1>15, <1>16, <1>17, <1>18, <1>19, <1>20, <1>21, <1>22, <1>23 DEF Next,
       WorkerStep, ClientStep, ClientCall

\* Every step keeps pforDone equal to the number of slots that are done.
LEMMA CountStep ==
    ASSUME Types, Holding, EpochInv, CountInv, Next
    PROVE  CountInv'
  <1> DEFINE Same == /\ SlotsDone' = SlotsDone
                     /\ pforDone' = pforDone
                     /\ pforEpoch' = pforEpoch
  <1> USE PoolFacts DEF Types
  <1>0. Same => CountInv'
    BY DEF CountInv
  <1>1. ASSUME NEW w \in Workers, WorkerJoinFor(w) PROVE CountInv'
    <2>1. Same
      BY <1>1 DEF WorkerJoinFor, Looping, SlotsDone, SlotDone, forVars, workerVars
    <2>2. QED
      BY <1>0, <2>1
  <1>2. ASSUME NEW w \in Workers, WorkerTake(w) PROVE CountInv'
    <2>1. Same
      BY <1>2 DEF WorkerTake, Looping, SlotsDone, SlotDone, forVars, workerVars
    <2>2. QED
      BY <1>0, <2>1
  <1>3. ASSUME NEW w \in Workers, WorkerExit(w) PROVE CountInv'
    <2>1. Same
      BY <1>3 DEF WorkerExit, Looping, SlotsDone, SlotDone, forVars, workerVars
    <2>2. QED
      BY <1>0, <2>1
  <1>4. ASSUME NEW w \in Workers, WorkerSleep(w) PROVE CountInv'
    <2>1. Same
      BY <1>4 DEF WorkerSleep, Looping, SlotsDone, SlotDone, forVars, workerVars
    <2>2. QED
      BY <1>0, <2>1
  <1>5. ASSUME NEW w \in Workers, WorkerForDone(w) PROVE CountInv'
    <2>1. w \in pool /\ w \notin SlotsDone
      BY <1>5 DEF WorkerForDone, Holding, SlotsDone, SlotDone
    <2>2. SlotsDone' = SlotsDone \cup {w}
      BY <1>5, <2>1 DEF WorkerForDone, EpochInv, SlotsDone, SlotDone
    <2>3. IsFiniteSet(SlotsDone)
      BY FS_Subset DEF SlotsDone
    <2>4. Cardinality(SlotsDone') = Cardinality(SlotsDone) + 1
      BY <2>1, <2>2, <2>3, FS_AddElement
    <2>5. QED
      BY <1>5, <2>4 DEF WorkerForDone, CountInv, EpochInv
  <1>6. ASSUME NEW w \in Workers, WorkerForNotify(w) PROVE CountInv'
    <2>1. Same
      BY <1>6, WakeupsOnly DEF WorkerForNotify, OnlyWakes, SlotsDone, SlotDone, forVars,
         workerVars
    <2>2. QED
      BY <1>0, <2>1
  <1>7. ASSUME NEW w \in Workers, WorkerFinish(w) PROVE CountInv'
    <2>1. Same
      BY <1>7 DEF WorkerFinish, SlotsDone, SlotDone, forVars, workerVars
    <2>2. QED
      BY <1>0, <2>1
  <1>8. ASSUME NEW w \in Workers, WorkerDoneNotify(w) PROVE CountInv'
    <2>1. Same
      BY <1>8 DEF WorkerDoneNotify, SlotsDone, SlotDone, forVars, workerVars
    <2>2. QED
      BY <1>0, <2>1
  <1>9. ASSUME NEW c \in Clients, SubmitNotify(c) PROVE CountInv'
    <2>1. Same
      BY <1>9, WakeupsOnly DEF SubmitNotify, OnlyWakes, SlotsDone, SlotDone, forVars,
         workerVars
    <2>2. QED
      BY <1>0, <2>1
  <1>10. ASSUME NEW c \in Clients, ParallelForNotify(c) PROVE CountInv'
    <2>1. Same
      BY <1>10, WakeupsOnly DEF ParallelForNotify, OnlyWakes, SlotsDone, SlotDone,
         forVars, workerVars
    <2>2. QED
      BY <1>0, <2>1
  <1>11. ASSUME NEW c \in Clients, ParallelForBody(c) PROVE CountInv'
    <2>1. Same
      BY <1>11 DEF ParallelForBody, SlotsDone, SlotDone, forVars, workerVars
    <2>2. QED
      BY <1>0, <2>1
  <1>12. ASSUME NEW c \in Clients, ParallelForMustWait(c) PROVE CountInv'
    <2>1. Same
      BY <1>12 DEF ParallelForMustWait, SlotsDone, SlotDone, forVars, workerVars
    <2>2. QED
      BY <1>0, <2>1
  <1>13. ASSUME NEW c \in Clients, ParallelForWait(c) PROVE CountInv'
    <2>1. Same
      BY <1>13 DEF ParallelForWait, SlotsDone, SlotDone, forVars, workerVars
    <2>2. QED
      BY <1>0, <2>1
  <1>14. ASSUME NEW c \in Clients, ParallelForReturn(c) PROVE CountInv'
    <2>1. Same
      BY <1>14 DEF ParallelForReturn, SlotsDone, SlotDone, forVars, workerVars
    <2>2. QED
      BY <1>0, <2>1
  <1>15. ASSUME NEW c \in Clients, WaitBlock(c) PROVE CountInv'
    <2>1. Same
      BY <1>15 DEF WaitBlock, SlotsDone, SlotDone, forVars, workerVars
    <2>2. QED
      BY <1>0, <2>1
  <1>16. ASSUME NEW c \in Clients, WaitReturn(c) PROVE CountInv'
    <2>1. Same
      BY <1>16 DEF WaitReturn, SlotsDone, SlotDone, forVars, workerVars
    <2>2. QED
      BY <1>0, <2>1
  <1>17. ASSUME NEW c \in Clients, ShutdownNotify(c) PROVE CountInv'
    <2>1. Same
      BY <1>17, WakeupsOnly DEF ShutdownNotify, OnlyWakes, SlotsDone, SlotDone, forVars,
         workerVars
    <2>2. QED
      BY <1>0, <2>1
  <1>18. ASSUME NEW c \in Clients, ShutdownJoin(c) PROVE CountInv'
    <2>1. Same
      BY <1>18 DEF ShutdownJoin, SlotsDone, SlotDone, forVars, workerVars
    <2>2. QED
      BY <1>0, <2>1
  <1>19. ASSUME NEW c \in Clients, ParallelFor(c) PROVE CountInv'
    <2>1. \A w \in pool : lastEpoch[w] = pforEpoch
      BY <1>19 DEF ParallelFor, EpochInv
    <2>2. SlotsDone' = {}
      BY <1>19, <2>1 DEF ParallelFor, SlotsDone, SlotDone, workerVars
    <2>3. QED
      BY <1>19, <2>2, FS_EmptySet DEF ParallelFor, CountInv
  <1>20. ASSUME NEW c \in Clients, Shutdown(c) PROVE CountInv'
    <2>1. Same
      BY <1>20 DEF Shutdown, SlotsDone, SlotDone, forVars, workerVars
    <2>2. QED
      BY <1>0, <2>1
  <1>21. ASSUME NEW c \in Clients, NEW t \in Tasks, Submit(c, t) PROVE CountInv'
    <2>1. Same
      BY <1>21 DEF Submit, SlotsDone, SlotDone, forVars, workerVars
    <2>2. QED
      BY <1>0, <2>1
  <1>22. ASSUME NEW c \in Clients, NEW t \in Tasks, Wait(c, t) PROVE CountInv'
    <2>1. Same
      BY <1>22 DEF Wait, SlotsDone, SlotDone, forVars, workerVars
    <2>2. QED
      BY <1>0, <2>1
  <1>23. ASSUME SpuriousWake PROVE CountInv'
    <2>1. Same
      BY <1>23, WakeupsOnly DEF SpuriousWake, OnlyWakes, SlotsDone, SlotDone, forVars
    <2>2. QED
      BY <1>0, <2>1
  <1>24. QED
    BY <1>1, <1>2, <1>3, <1>4, <1>5, <1>6, <1>7, <1>8, <1>9, <1>10, <1>11, <1>12,
       <1>13, <1>14, <1>15, <1>16, <1>17, <1>18, <1>19, <1>20, <1>21, <1>22, <1>23 DEF
       Next, WorkerStep, ClientStep, ClientCall

\* No step puts work before a worker that has left.
LEMMA DrainStep ==
    ASSUME Types, Holding, DrainInv, Next
    PROVE  DrainInv'
  <1> USE DEF Types, DrainInv
  <1> USE PoolFacts
  <1>1. ASSUME NEW w \in Workers, WorkerJoinFor(w) PROVE DrainInv'
    BY <1>1 DEF WorkerJoinFor, Looping, forVars, workerVars, clientVars
  <1>2. ASSUME NEW w \in Workers, WorkerTake(w) PROVE DrainInv'
    BY <1>2 DEF WorkerTake, Looping, forVars, workerVars, clientVars
  <1>3. ASSUME NEW w \in Workers, WorkerExit(w) PROVE DrainInv'
    BY <1>3 DEF WorkerExit, Looping, forVars, workerVars, clientVars
  <1>4. ASSUME NEW w \in Workers, WorkerSleep(w) PROVE DrainInv'
    BY <1>4 DEF WorkerSleep, Looping, forVars, workerVars, clientVars
  <1>5. ASSUME NEW w \in Workers, WorkerForDone(w) PROVE DrainInv'
    BY <1>5 DEF WorkerForDone, forVars, workerVars, clientVars
  <1>6. ASSUME NEW w \in Workers, WorkerForNotify(w) PROVE DrainInv'
    BY <1>6, WakeupsOnly DEF WorkerForNotify, forVars, workerVars, clientVars, OnlyWakes
  <1>7. ASSUME NEW w \in Workers, WorkerFinish(w) PROVE DrainInv'
    BY <1>7 DEF WorkerFinish, forVars, workerVars, clientVars
  <1>8. ASSUME NEW w \in Workers, WorkerDoneNotify(w) PROVE DrainInv'
    BY <1>8 DEF WorkerDoneNotify, forVars, workerVars, clientVars
  <1>9. ASSUME NEW c \in Clients, SubmitNotify(c) PROVE DrainInv'
    BY <1>9, WakeupsOnly DEF SubmitNotify, forVars, workerVars, clientVars, OnlyWakes
  <1>10. ASSUME NEW c \in Clients, ParallelForNotify(c) PROVE DrainInv'
    BY <1>10, WakeupsOnly DEF ParallelForNotify, forVars, workerVars, clientVars,
       OnlyWakes
  <1>11. ASSUME NEW c \in Clients, ParallelForBody(c) PROVE DrainInv'
    BY <1>11 DEF ParallelForBody, forVars, workerVars, clientVars
  <1>12. ASSUME NEW c \in Clients, ParallelForMustWait(c) PROVE DrainInv'
    BY <1>12 DEF ParallelForMustWait, forVars, workerVars, clientVars
  <1>13. ASSUME NEW c \in Clients, ParallelForWait(c) PROVE DrainInv'
    BY <1>13 DEF ParallelForWait, forVars, workerVars, clientVars
  <1>14. ASSUME NEW c \in Clients, ParallelForReturn(c) PROVE DrainInv'
    BY <1>14 DEF ParallelForReturn, forVars, workerVars, clientVars
  <1>15. ASSUME NEW c \in Clients, WaitBlock(c) PROVE DrainInv'
    BY <1>15 DEF WaitBlock, forVars, workerVars, clientVars
  <1>16. ASSUME NEW c \in Clients, WaitReturn(c) PROVE DrainInv'
    BY <1>16 DEF WaitReturn, forVars, workerVars, clientVars
  <1>17. ASSUME NEW c \in Clients, ShutdownNotify(c) PROVE DrainInv'
    BY <1>17, WakeupsOnly DEF ShutdownNotify, forVars, workerVars, clientVars, OnlyWakes
  <1>18. ASSUME NEW c \in Clients, ShutdownJoin(c) PROVE DrainInv'
    BY <1>18 DEF ShutdownJoin, forVars, workerVars, clientVars
  <1>19. ASSUME NEW c \in Clients, ParallelFor(c) PROVE DrainInv'
    BY <1>19 DEF ParallelFor, forVars, workerVars, clientVars
  <1>20. ASSUME NEW c \in Clients, Shutdown(c) PROVE DrainInv'
    BY <1>20 DEF Shutdown, forVars, workerVars, clientVars
  <1>21. ASSUME NEW c \in Clients, NEW t \in Tasks, Submit(c, t) PROVE DrainInv'
    BY <1>21 DEF Submit, forVars, workerVars, clientVars
  <1>22. ASSUME NEW c \in Clients, NEW t \in Tasks, Wait(c, t) PROVE DrainInv'
    BY <1>22 DEF Wait, forVars, workerVars, clientVars
  <1>23. ASSUME SpuriousWake PROVE DrainInv'
    BY <1>23, WakeupsOnly DEF SpuriousWake, forVars, OnlyWakes
  <1>24. QED
    BY <1>1, <1>2, <1>3, <1>4, <1>5, <1>6, <1>7, <1>8, <1>9, <1>10, <1>11, <1>12, <1>13,
       <1>14, <1>15, <1>16, <1>17, <1>18, <1>19, <1>20, <1>21, <1>22, <1>23 DEF Next,
       WorkerStep, ClientStep, ClientCall

----------------------------------------------------------------------------
(* The invariant, and the properties it gives *)

\* The inductive invariant holds in every reachable state.
THEOREM Invariance == Spec => []IInv
  <1>1. Init => IInv
    <2> SUFFICES ASSUME Init PROVE IInv
      OBVIOUS
    <2>1. Types
      <3>1. /\ 0 \in 0 .. MaxEpoch
            /\ 0 \in 0 .. MaxSpurious
        BY PoolAssumption
      <3>2. /\ wpc \in [Workers -> WorkerStates]
            /\ wtask \in [Workers -> Tasks \cup {NoTask}]
            /\ wfn \in [Workers -> Clients \cup {NoFn}]
            /\ cpc \in [Clients -> ClientStates]
            /\ target \in [Clients -> Tasks \cup {NoTask}]
        BY DEF Init, WorkerStates, ClientStates
      <3>3. lastEpoch \in [Workers -> 0 .. MaxEpoch]
        BY <3>1 DEF Init
      <3>4. queue \in Seq(Tasks)
        BY DEF Init
      <3>5. QED
        BY <3>1, <3>2, <3>3, <3>4 DEF Init, Types
    <2>2. Holding /\ OneCall /\ CountInv /\ DrainInv
      BY DEF Init, Holding, OneCall, InFor, CountInv, DrainInv
    <2>3. EpochInv
      BY <2>1, PoolFacts DEF Init, EpochInv
    <2>4. QED
      BY <2>1, <2>2, <2>3 DEF IInv
  <1>2. IInv /\ [Next]_vars => IInv'
    <2> SUFFICES ASSUME IInv, [Next]_vars PROVE IInv'
      OBVIOUS
    <2>1. CASE Next
      BY <2>1, TypesStep, HoldingStep, OneCallStep, EpochStep, CountStep, DrainStep
         DEF IInv
    <2>2. CASE UNCHANGED vars
      BY <2>2 DEF IInv, Types, Holding, OneCall, InFor, EpochInv, CountInv, SlotsDone,
                  SlotDone, DrainInv, vars, forVars, workerVars, clientVars
    <2>3. QED
      BY <2>1, <2>2
  <1>3. QED
    BY <1>1, <1>2, PTL DEF Spec

\* The type invariant: in particular the count never exceeds the number of workers,
\* although it is incremented by threads that do not hold the mutex.
THEOREM TypeCorrect == Spec => []TypeOK
  <1>1. IInv => TypeOK
    <2> SUFFICES ASSUME IInv PROVE TypeOK
      OBVIOUS
    <2>1. pforDone <= Cardinality(pool)
      <3>1. CASE pforEpoch > 0
        <4>1. SlotsDone \subseteq pool
          BY DEF SlotsDone
        <4>2. QED
          BY <3>1, <4>1, PoolFacts, FS_Subset DEF IInv, CountInv
      <3>2. CASE pforEpoch = 0
        BY <3>2, PoolFacts DEF IInv, CountInv, Types
      <3>3. QED
        BY <3>1, <3>2 DEF IInv, Types
    <2>2. pforDone \in 0 .. Cardinality(pool)
      BY <2>1, PoolFacts DEF IInv, Types
    <2>3. QED
      BY <2>2 DEF IInv, Types, TypeOK
  <1>2. QED
    BY <1>1, Invariance, PTL

\* No worker is inside fn with the fn and ctx of a call that has returned.
THEOREM ContextStaysAlive == Spec => []SlotContextAlive
  <1>1. IInv => SlotContextAlive
    BY PoolFacts DEF IInv, EpochInv, OneCall, SlotContextAlive
  <1>2. QED
    BY <1>1, Invariance, PTL

\* parallelFor is a barrier: between calls, and when the count is full, every worker
\* has run its slot of the latest call.
THEOREM BarrierHolds == Spec => []BarrierComplete
  <1>1. IInv => BarrierComplete
    <2> SUFFICES ASSUME IInv PROVE BarrierComplete
      OBVIOUS
    <2>1. ~pforBusy => \A w \in pool : SlotDone(w)
      BY PoolFacts DEF IInv, EpochInv, SlotDone
    <2>2. ASSUME pforDone = Cardinality(pool) PROVE \A w \in pool : SlotDone(w)
      <3>1. CASE pforEpoch > 0
        BY <2>2, <3>1, PoolFacts, FullCount DEF IInv
      <3>2. CASE pforEpoch = 0
        BY <2>1, <3>2 DEF IInv, EpochInv
      <3>3. QED
        BY <3>1, <3>2 DEF IInv, Types
    <2>3. QED
      BY <2>1, <2>2 DEF BarrierComplete
  <1>2. QED
    BY <1>1, Invariance, PTL

\* A shutdown that has returned leaves no accepted task behind.
THEOREM ShutdownLeavesNothing == Spec => []ShutdownDrains
  <1>1. IInv => ShutdownDrains
    <2> SUFFICES ASSUME IInv, joined, pool # {}
                 PROVE  /\ queue = <<>>
                        /\ Accepted = finished
                        /\ \A w \in pool : wpc[w] = "exited"
      BY DEF ShutdownDrains
    <2>1. \A w \in pool : wpc[w] = "exited"
      BY DEF IInv, DrainInv
    <2>2. queue = <<>>
      BY <2>1, PoolFacts DEF IInv, DrainInv
    <2>3. \A w \in Workers : wtask[w] = NoTask
      BY <2>1 DEF IInv, Holding
    <2>4. Accepted = finished
      BY <2>2, <2>3 DEF Accepted
    <2>5. QED
      BY <2>1, <2>2, <2>4
  <1>2. QED
    BY <1>1, Invariance, PTL

----------------------------------------------------------------------------
(* ThreadPool implements ThreadPoolAbs *)

\* A task is in the queue once, or in the hands of one worker, and not in both.
Handed ==
    /\ \A i, j \in 1 .. Len(queue) : queue[i] = queue[j] => i = j
    /\ \A w \in Workers : \A i \in 1 .. Len(queue) : wtask[w] # queue[i]
    /\ \A w, v \in Workers : wtask[w] = wtask[v] /\ wtask[w] # NoTask => w = v

InShutdown(c) == cpc[c] \in {"shutNotify", "shutJoin"}

\* One client shuts the pool down, and the workers that left were at the last call.
Closing ==
    /\ joined => stop
    /\ \A c \in Clients : InShutdown(c) => stop /\ ~joined
    /\ \A c, d \in Clients : InShutdown(c) /\ InShutdown(d) => c = d
    /\ \A w \in Workers : wpc[w] = "exited" => lastEpoch[w] = pforEpoch

\* The invariant under which steps are mapped.
RInv == IInv /\ Handed /\ Closing

----------------------------------------------------------------------------
(* The invariant of the mapping *)

\* No step puts a task into two hands.
LEMMA HandedStep ==
    ASSUME Types, Holding, Handed, Next
    PROVE  Handed'
  <1> DEFINE Same == queue' = queue /\ wtask' = wtask
  <1>0. Same => Handed'
    BY DEF Handed
  <1>1. ASSUME NEW w \in Workers, WorkerJoinFor(w) PROVE Handed'
    BY <1>1, <1>0 DEF WorkerJoinFor
  <1>2. ASSUME NEW w \in Workers, WorkerTake(w) PROVE Handed'
    <2>1. /\ queue \in Seq(Tasks)
          /\ queue # <<>>
          /\ queue' = Tail(queue)
          /\ wtask' = [wtask EXCEPT ![w] = Head(queue)]
          /\ wtask \in [Workers -> Tasks \cup {NoTask}]
      BY <1>2 DEF WorkerTake, Types
    <2>2. /\ Len(queue') = Len(queue) - 1
          /\ \A i \in 1 .. Len(queue') : queue'[i] = queue[i + 1]
          /\ Head(queue) = queue[1]
          /\ Len(queue) \in Nat \ {0}
      BY <2>1
    <2>3. \A i \in 1 .. Len(queue') : i + 1 \in 1 .. Len(queue) /\ i + 1 # 1
      BY <2>2
    <2>4. \A i, j \in 1 .. Len(queue') : queue'[i] = queue'[j] => i = j
      BY <2>2, <2>3 DEF Handed
    <2>5. \A v \in Workers : \A i \in 1 .. Len(queue') : wtask'[v] # queue'[i]
      BY <2>1, <2>2, <2>3 DEF Handed
    <2>6. \A v \in Workers : v # w => wtask[v] # Head(queue)
      BY <2>2 DEF Handed
    <2>7. \A v, u \in Workers : wtask'[v] = wtask'[u] /\ wtask'[v] # NoTask => v = u
      BY <2>1, <2>6 DEF Handed
    <2>8. QED
      BY <2>4, <2>5, <2>7 DEF Handed
  <1>3. ASSUME NEW w \in Workers, WorkerExit(w) PROVE Handed'
    BY <1>3, <1>0 DEF WorkerExit, workerVars
  <1>4. ASSUME NEW w \in Workers, WorkerSleep(w) PROVE Handed'
    BY <1>4, <1>0 DEF WorkerSleep, workerVars
  <1>5. ASSUME NEW w \in Workers, WorkerForDone(w) PROVE Handed'
    BY <1>5, <1>0 DEF WorkerForDone, workerVars
  <1>6. ASSUME NEW w \in Workers, WorkerForNotify(w) PROVE Handed'
    BY <1>6, <1>0 DEF WorkerForNotify, workerVars
  <1>7. ASSUME NEW w \in Workers, WorkerFinish(w) PROVE Handed'
    BY <1>7, <1>0 DEF WorkerFinish, workerVars
  <1>8. ASSUME NEW w \in Workers, WorkerDoneNotify(w) PROVE Handed'
    <2>1. /\ queue' = queue
          /\ wtask' = [wtask EXCEPT ![w] = NoTask]
      BY <1>8 DEF WorkerDoneNotify
    <2>2. \A i \in 1 .. Len(queue) : queue[i] # NoTask
      BY PoolAssumption DEF Types
    <2>3. QED
      BY <2>1, <2>2 DEF Handed, Types
  <1>9. ASSUME NEW c \in Clients, SubmitNotify(c) PROVE Handed'
    BY <1>9, <1>0 DEF SubmitNotify, workerVars
  <1>10. ASSUME NEW c \in Clients, ParallelForNotify(c) PROVE Handed'
    BY <1>10, <1>0 DEF ParallelForNotify, workerVars
  <1>11. ASSUME NEW c \in Clients, ParallelForBody(c) PROVE Handed'
    BY <1>11, <1>0 DEF ParallelForBody, workerVars
  <1>12. ASSUME NEW c \in Clients, ParallelForMustWait(c) PROVE Handed'
    BY <1>12, <1>0 DEF ParallelForMustWait, workerVars
  <1>13. ASSUME NEW c \in Clients, ParallelForWait(c) PROVE Handed'
    BY <1>13, <1>0 DEF ParallelForWait, workerVars
  <1>14. ASSUME NEW c \in Clients, ParallelForReturn(c) PROVE Handed'
    BY <1>14, <1>0 DEF ParallelForReturn, workerVars
  <1>15. ASSUME NEW c \in Clients, WaitBlock(c) PROVE Handed'
    BY <1>15, <1>0 DEF WaitBlock, workerVars
  <1>16. ASSUME NEW c \in Clients, WaitReturn(c) PROVE Handed'
    BY <1>16, <1>0 DEF WaitReturn, workerVars
  <1>17. ASSUME NEW c \in Clients, ShutdownNotify(c) PROVE Handed'
    BY <1>17, <1>0 DEF ShutdownNotify, workerVars
  <1>18. ASSUME NEW c \in Clients, ShutdownJoin(c) PROVE Handed'
    BY <1>18, <1>0 DEF ShutdownJoin, workerVars
  <1>19. ASSUME NEW c \in Clients, ParallelFor(c) PROVE Handed'
    BY <1>19, <1>0 DEF ParallelFor, workerVars
  <1>20. ASSUME NEW c \in Clients, Shutdown(c) PROVE Handed'
    BY <1>20, <1>0 DEF Shutdown, workerVars
  <1>21. ASSUME NEW c \in Clients, NEW t \in Tasks, Submit(c, t) PROVE Handed'
    <2>1. /\ queue \in Seq(Tasks)
          /\ queue' = Append(queue, t)
          /\ wtask' = wtask
      BY <1>21 DEF Submit, workerVars, Types
    <2>2. /\ \A i \in 1 .. Len(queue) : queue[i] # t
          /\ \A w \in Workers : wtask[w] # t
      BY <1>21, PoolAssumption DEF Submit, Accepted
    <2>3. /\ Len(queue') = Len(queue) + 1
          /\ \A i \in 1 .. Len(queue) : queue'[i] = queue[i]
          /\ queue'[Len(queue) + 1] = t
          /\ Len(queue) \in Nat
      BY <2>1
    <2>4. QED
      BY <2>1, <2>2, <2>3 DEF Handed
  <1>22. ASSUME NEW c \in Clients, NEW t \in Tasks, Wait(c, t) PROVE Handed'
    BY <1>22, <1>0 DEF Wait, workerVars
  <1>23. ASSUME SpuriousWake PROVE Handed'
    BY <1>23, <1>0 DEF SpuriousWake, workerVars
  <1>24. QED
    BY <1>1, <1>2, <1>3, <1>4, <1>5, <1>6, <1>7, <1>8, <1>9, <1>10, <1>11, <1>12,
       <1>13, <1>14, <1>15, <1>16, <1>17, <1>18, <1>19, <1>20, <1>21, <1>22, <1>23 DEF Next,
       WorkerStep, ClientStep, ClientCall

\* Shutting down is done by one client, and no call begins once a worker has left.
LEMMA ClosingStep ==
    ASSUME Types, Holding, DrainInv, Closing, Next
    PROVE  Closing'
  <1> USE DEF Types, Closing, InShutdown, ClientStates
  <1>1. ASSUME NEW w \in Workers, WorkerJoinFor(w) PROVE Closing'
    BY <1>1 DEF WorkerJoinFor, Looping, forVars, workerVars, clientVars
  <1>2. ASSUME NEW w \in Workers, WorkerTake(w) PROVE Closing'
    BY <1>2 DEF WorkerTake, Looping, forVars, workerVars, clientVars
  <1>3. ASSUME NEW w \in Workers, WorkerExit(w) PROVE Closing'
    BY <1>3 DEF WorkerExit, Looping, forVars, workerVars, clientVars
  <1>4. ASSUME NEW w \in Workers, WorkerSleep(w) PROVE Closing'
    BY <1>4 DEF WorkerSleep, Looping, forVars, workerVars, clientVars
  <1>5. ASSUME NEW w \in Workers, WorkerForDone(w) PROVE Closing'
    BY <1>5 DEF WorkerForDone, forVars, workerVars, clientVars
  <1>6. ASSUME NEW w \in Workers, WorkerForNotify(w) PROVE Closing'
    BY <1>6, WakeupsOnly DEF WorkerForNotify, WokenWorkers, WokenClients, OnlyWakes,
       forVars
  <1>7. ASSUME NEW w \in Workers, WorkerFinish(w) PROVE Closing'
    BY <1>7 DEF WorkerFinish, forVars, workerVars, clientVars
  <1>8. ASSUME NEW w \in Workers, WorkerDoneNotify(w) PROVE Closing'
    BY <1>8 DEF WorkerDoneNotify, forVars, workerVars, clientVars
  <1>9. ASSUME NEW c \in Clients, SubmitNotify(c) PROVE Closing'
    BY <1>9, WakeupsOnly DEF SubmitNotify, NotifyOne, OnlyWakes, forVars
  <1>10. ASSUME NEW c \in Clients, ParallelForNotify(c) PROVE Closing'
    BY <1>10, WakeupsOnly DEF ParallelForNotify,
       NotifyAll, WokenWorkers, WokenClients, OnlyWakes, forVars
  <1>11. ASSUME NEW c \in Clients, ParallelForBody(c) PROVE Closing'
    BY <1>11 DEF ParallelForBody, forVars, workerVars, clientVars
  <1>12. ASSUME NEW c \in Clients, ParallelForMustWait(c) PROVE Closing'
    BY <1>12 DEF ParallelForMustWait, forVars, workerVars, clientVars
  <1>13. ASSUME NEW c \in Clients, ParallelForWait(c) PROVE Closing'
    BY <1>13 DEF ParallelForWait, forVars, workerVars, clientVars
  <1>14. ASSUME NEW c \in Clients, ParallelForReturn(c) PROVE Closing'
    BY <1>14 DEF ParallelForReturn, forVars, workerVars, clientVars
  <1>15. ASSUME NEW c \in Clients, WaitBlock(c) PROVE Closing'
    BY <1>15 DEF WaitBlock, forVars, workerVars, clientVars
  <1>16. ASSUME NEW c \in Clients, WaitReturn(c) PROVE Closing'
    BY <1>16 DEF WaitReturn, forVars, workerVars, clientVars
  <1>17. ASSUME NEW c \in Clients, ShutdownNotify(c) PROVE Closing'
    BY <1>17, WakeupsOnly DEF ShutdownNotify, NotifyAll, WokenWorkers, WokenClients,
       OnlyWakes, forVars
  <1>18. ASSUME NEW c \in Clients, ShutdownJoin(c) PROVE Closing'
    BY <1>18 DEF ShutdownJoin, forVars, workerVars, clientVars
  <1>19. ASSUME NEW c \in Clients, ParallelFor(c) PROVE Closing'
    BY <1>19 DEF ParallelFor, DrainInv, workerVars
  <1>20. ASSUME NEW c \in Clients, Shutdown(c) PROVE Closing'
    BY <1>20 DEF Shutdown, forVars, workerVars, clientVars
  <1>21. ASSUME NEW c \in Clients, NEW t \in Tasks, Submit(c, t) PROVE Closing'
    BY <1>21 DEF Submit, forVars, workerVars, clientVars
  <1>22. ASSUME NEW c \in Clients, NEW t \in Tasks, Wait(c, t) PROVE Closing'
    BY <1>22 DEF Wait, forVars, workerVars, clientVars
  <1>23. ASSUME SpuriousWake PROVE Closing'
    BY <1>23, WakeupsOnly DEF SpuriousWake, OnlyWakes, forVars
  <1>24. QED
    BY <1>1, <1>2, <1>3, <1>4, <1>5, <1>6, <1>7, <1>8, <1>9, <1>10, <1>11, <1>12,
       <1>13, <1>14, <1>15, <1>16, <1>17, <1>18, <1>19, <1>20, <1>21, <1>22, <1>23 DEF Next,
       WorkerStep, ClientStep, ClientCall

\* The invariant of the mapping holds throughout.
THEOREM MappingInvariance == Spec => []RInv
  <1>1. Init => Handed /\ Closing
    BY DEF Init, Handed, Closing, InShutdown
  <1>2. IInv /\ Handed /\ Closing /\ [Next]_vars => (Handed /\ Closing)'
    <2> SUFFICES ASSUME IInv, Handed, Closing, [Next]_vars PROVE Handed' /\ Closing'
      OBVIOUS
    <2>1. CASE Next
      BY <2>1, HandedStep, ClosingStep DEF IInv
    <2>2. CASE UNCHANGED vars
      BY <2>2 DEF Handed, Closing, InShutdown, vars, forVars, workerVars, clientVars
    <2>3. QED
      BY <2>1, <2>2
  <1>3. QED
    BY <1>1, <1>2, Invariance, PTL DEF Spec, RInv

----------------------------------------------------------------------------
(* The mapping of steps *)

\* What ThreadPoolAbs sees of the pool stays as it is.
Unseen ==
    /\ Running' = Running
    /\ SlotsRun' = SlotsRun
    /\ UNCHANGED <<pool, queue, finished, stop, joined, pforBusy, aborted>>

\* The state of a client in parallelFor whose slot has been run.
BodyRun(c) == cpc[c] \in {"forCheck", "forBlock", "forWait"}

\* Running and SlotsRun depend on few things.
LEMMA SeenParts ==
    ASSUME Types, OneCall
    PROVE  /\ (\A w \in Workers : /\ wtask'[w] = wtask[w]
                                  /\ wpc'[w] = "run" <=> wpc[w] = "run") => Running' = Running
           /\ (/\ UNCHANGED <<pool, pforBusy, pforFn>>
               /\ \A w \in pool : SlotDone(w)' <=> SlotDone(w)
               /\ pforBusy => (BodyRun(pforFn)' <=> BodyRun(pforFn))) => SlotsRun' = SlotsRun
  <1>1. (\A w \in Workers : /\ wtask'[w] = wtask[w]
                            /\ wpc'[w] = "run" <=> wpc[w] = "run") => Running' = Running
    BY DEF Running
  <1>2. (/\ UNCHANGED <<pool, pforBusy, pforFn>>
         /\ \A w \in pool : SlotDone(w)' <=> SlotDone(w)
         /\ pforBusy => (BodyRun(pforFn)' <=> BodyRun(pforFn))) => SlotsRun' = SlotsRun
    BY DEF SlotsRun, BodyRun
  <1>3. QED
    BY <1>1, <1>2

\* Every step of the pool is a step of the abstract pool, or one it does not see.
LEMMA StepMapped ==
    ASSUME RInv, Next
    PROVE  Abs!Next \/ Unseen
  <1> USE PoolFacts, SeenParts DEF RInv, IInv, Types
  <1>0. ~aborted
    BY DEF Next

  <1>1. ASSUME NEW w \in Workers, WorkerJoinFor(w) PROVE Abs!Next \/ Unseen
    BY <1>1 DEF WorkerJoinFor, Looping, Unseen, SlotDone, BodyRun, OneCall, InFor,
       forVars, workerVars, clientVars
  <1>2. ASSUME NEW w \in Workers, WorkerTake(w) PROVE Abs!Next \/ Unseen
    <2>1. Running' = Running \cup {Head(queue)}
      BY <1>2 DEF WorkerTake, Looping, Running
    <2>2. SlotsRun' = SlotsRun
      BY <1>2 DEF WorkerTake, Looping, forVars, clientVars, SlotDone, BodyRun
    <2>3. Abs!Start
      BY <1>2, <2>1, <2>2 DEF WorkerTake, Looping, forVars, Abs!Start
    <2>4. QED
      BY <1>0, <2>3 DEF Abs!Next
  <1>3. ASSUME NEW w \in Workers, WorkerExit(w) PROVE Abs!Next \/ Unseen
    BY <1>3 DEF WorkerExit, Looping, Unseen, SlotDone, BodyRun, OneCall, InFor,
       forVars, workerVars, clientVars
  <1>4. ASSUME NEW w \in Workers, WorkerSleep(w) PROVE Abs!Next \/ Unseen
    BY <1>4 DEF WorkerSleep, Looping, Unseen, SlotDone, BodyRun, OneCall, InFor,
       forVars, workerVars, clientVars
  <1>5. ASSUME NEW w \in Workers, WorkerForDone(w) PROVE Abs!Next \/ Unseen
    <2>1. w \in pool /\ pforBusy /\ ~SlotDone(w)
      BY <1>5 DEF WorkerForDone, Holding, EpochInv, SlotDone
    <2>2. Running' = Running
      BY <1>5 DEF WorkerForDone
    <2>3. SlotDone(w)' /\ \A v \in pool : v # w => (SlotDone(v)' <=> SlotDone(v))
      BY <1>5, <2>1 DEF WorkerForDone, EpochInv, SlotDone
    <2>4. SlotsRun' = SlotsRun \cup {w} /\ w \notin SlotsRun
      BY <1>5, <2>1, <2>3 DEF WorkerForDone, clientVars, SlotsRun, Workers
    <2>5. Abs!RunSlot(w)
      BY <1>5, <2>1, <2>2, <2>4 DEF WorkerForDone, Abs!RunSlot
    <2>6. QED
      BY <1>0, <2>1, <2>5 DEF Abs!Next
  <1>6. ASSUME NEW w \in Workers, WorkerForNotify(w) PROVE Abs!Next \/ Unseen
    BY <1>6, WakeupsOnly DEF WorkerForNotify, WokenWorkers, WokenClients, OnlyWakes,
       Unseen, SlotDone, BodyRun, OneCall, InFor, forVars
  <1>7. ASSUME NEW w \in Workers, WorkerFinish(w) PROVE Abs!Next \/ Unseen
    <2>1. wtask[w] \in Tasks /\ wtask[w] \in Running
      BY <1>7 DEF WorkerFinish, Holding, Running
    <2>2. \A v \in Workers : v # w => wtask[v] # wtask[w]
      BY <2>1, PoolAssumption DEF Handed
    <2>3. Running' = Running \ {wtask[w]}
      BY <1>7, <2>2 DEF WorkerFinish, Running
    <2>4. SlotsRun' = SlotsRun
      BY <1>7 DEF WorkerFinish, forVars, clientVars, SlotDone, BodyRun
    <2>5. Abs!Finish(wtask[w])
      BY <1>7, <2>1, <2>3, <2>4 DEF WorkerFinish, forVars, Abs!Finish
    <2>6. QED
      BY <1>0, <2>1, <2>5 DEF Abs!Next
  <1>8. ASSUME NEW w \in Workers, WorkerDoneNotify(w) PROVE Abs!Next \/ Unseen
    <2>1. Running' = Running
      BY <1>8 DEF WorkerDoneNotify, Running
    <2>2. SlotsRun' = SlotsRun
      <3>1. \A v \in pool : SlotDone(v)' <=> SlotDone(v)
        BY <1>8 DEF WorkerDoneNotify, forVars, SlotDone
      <3>2. \A c \in Clients : BodyRun(c)' <=> BodyRun(c)
        BY <1>8 DEF WorkerDoneNotify, BodyRun
      <3>3. QED
        BY <1>8, <3>1, <3>2 DEF WorkerDoneNotify, forVars, OneCall
    <2>3. CASE aborted'
      BY <1>0, <1>8, <2>1, <2>2, <2>3 DEF WorkerDoneNotify, forVars, Abs!Next, Abs!Die
    <2>4. CASE ~aborted'
      <3>1. aborted' = aborted
        <4>1. aborted' \in BOOLEAN
          BY <1>8 DEF WorkerDoneNotify
        <4>2. aborted \in BOOLEAN
          OBVIOUS
        <4>3. aborted = FALSE /\ aborted' = FALSE
          BY <4>1, <4>2, <1>0, <2>4
        <4>4. QED
          BY <4>3
      <3>2. QED
        BY <1>8, <2>1, <2>2, <3>1 DEF WorkerDoneNotify, forVars, Unseen
    <2>5. QED
      BY <2>3, <2>4
  <1>9. ASSUME NEW c \in Clients, SubmitNotify(c) PROVE Abs!Next \/ Unseen
    BY <1>9, WakeupsOnly DEF SubmitNotify, NotifyOne, OnlyWakes, Unseen, SlotDone,
       BodyRun, OneCall, InFor, forVars
  <1>10. ASSUME NEW c \in Clients, ParallelForNotify(c) PROVE Abs!Next \/ Unseen
    BY <1>10, WakeupsOnly DEF ParallelForNotify,
       NotifyAll, WokenWorkers, WokenClients, OnlyWakes, Unseen, SlotDone, BodyRun,
       OneCall, InFor, forVars
  <1>11. ASSUME NEW c \in Clients, ParallelForBody(c) PROVE Abs!Next \/ Unseen
    <2>1. pforBusy /\ pforFn = c /\ ~BodyRun(c) /\ BodyRun(c)'
      BY <1>11 DEF ParallelForBody, OneCall, InFor, BodyRun
    <2>2. Running' = Running
      BY <1>11 DEF ParallelForBody, workerVars
    <2>3. SlotsRun' = SlotsRun \cup {0} /\ 0 \notin SlotsRun
      BY <1>11, <2>1 DEF ParallelForBody, SlotsRun, SlotDone, BodyRun, forVars, workerVars, Workers
    <2>4. Abs!RunSlot(0)
      BY <1>11, <2>1, <2>2, <2>3 DEF ParallelForBody, forVars, Abs!RunSlot
    <2>5. QED
      BY <1>0, <2>4 DEF Abs!Next
  <1>12. ASSUME NEW c \in Clients, ParallelForMustWait(c) PROVE Abs!Next \/ Unseen
    BY <1>12 DEF ParallelForMustWait, Unseen, SlotDone, BodyRun, OneCall, InFor,
       forVars, workerVars, clientVars
  <1>13. ASSUME NEW c \in Clients, ParallelForWait(c) PROVE Abs!Next \/ Unseen
    BY <1>13 DEF ParallelForWait, Unseen, SlotDone, BodyRun, OneCall, InFor, forVars,
       workerVars, clientVars
  <1>14. ASSUME NEW c \in Clients, ParallelForReturn(c) PROVE Abs!Next \/ Unseen
    <2>1. pforBusy /\ pforFn = c /\ BodyRun(c)
      BY <1>14 DEF ParallelForReturn, OneCall, InFor, BodyRun
    <2>2. \A w \in pool : SlotDone(w)
      BY <1>14, <2>1, FullCount DEF ParallelForReturn, EpochInv
    <2>3. SlotsRun = pool \cup {0} /\ SlotsRun' = {}
      BY <1>14, <2>1, <2>2 DEF ParallelForReturn, SlotsRun, BodyRun
    <2>4. Running' = Running
      BY <1>14 DEF ParallelForReturn, workerVars
    <2>5. Abs!EndCall
      BY <1>14, <2>1, <2>3, <2>4 DEF ParallelForReturn, Abs!EndCall
    <2>6. QED
      BY <1>0, <2>5 DEF Abs!Next
  <1>15. ASSUME NEW c \in Clients, WaitBlock(c) PROVE Abs!Next \/ Unseen
    BY <1>15 DEF WaitBlock, Unseen, SlotDone, BodyRun, OneCall, InFor, forVars,
       workerVars, clientVars
  <1>16. ASSUME NEW c \in Clients, WaitReturn(c) PROVE Abs!Next \/ Unseen
    BY <1>16 DEF WaitReturn, Unseen, SlotDone, BodyRun, OneCall, InFor, forVars,
       workerVars, clientVars
  <1>17. ASSUME NEW c \in Clients, ShutdownNotify(c) PROVE Abs!Next \/ Unseen
    BY <1>17, WakeupsOnly DEF ShutdownNotify, NotifyAll, WokenWorkers, WokenClients,
       OnlyWakes, Unseen, SlotDone, BodyRun, OneCall, InFor, forVars
  <1>18. ASSUME NEW c \in Clients, ShutdownJoin(c) PROVE Abs!Next \/ Unseen
    <2>1. stop /\ ~joined /\ \A w \in pool : wpc[w] = "exited"
      BY <1>18 DEF ShutdownJoin, Closing, InShutdown
    <2>2. Running = {} /\ Running' = Running
      BY <1>18, <2>1 DEF ShutdownJoin, Running, Holding, workerVars
    <2>3. pool # {} => queue = <<>>
      BY <2>1 DEF DrainInv
    <2>4. SlotsRun' = SlotsRun
      BY <1>18 DEF ShutdownJoin, forVars, workerVars, SlotDone, BodyRun, OneCall, InFor
    <2>5. pforBusy => pool \subseteq SlotsRun
      BY <2>1 DEF SlotsRun, SlotDone, Closing
    <2>6. Abs!Join
      BY <1>18, <2>1, <2>2, <2>3, <2>4, <2>5 DEF ShutdownJoin, forVars, Abs!Join
    <2>7. QED
      BY <1>0, <2>6 DEF Abs!Next
  <1>19. ASSUME NEW c \in Clients, ParallelFor(c) PROVE Abs!Next \/ Unseen
    <2>1. \A w \in pool : lastEpoch[w] = pforEpoch
      BY <1>19 DEF ParallelFor, EpochInv
    <2>2. \A w \in pool : ~SlotDone(w)'
      BY <1>19, <2>1 DEF ParallelFor, SlotDone, workerVars
    <2>3. SlotsRun = {} /\ SlotsRun' = {}
      BY <1>19, <2>2 DEF ParallelFor, SlotsRun
    <2>4. Running' = Running
      BY <1>19 DEF ParallelFor, workerVars
    <2>5. Abs!BeginCall
      BY <1>19, <2>3, <2>4 DEF ParallelFor, Abs!BeginCall
    <2>6. QED
      BY <1>0, <2>5 DEF Abs!Next
  <1>20. ASSUME NEW c \in Clients, Shutdown(c) PROVE Abs!Next \/ Unseen
    <2>1. Running' = Running /\ SlotsRun' = SlotsRun
      BY <1>20 DEF Shutdown, forVars, workerVars, SlotDone, BodyRun, OneCall, InFor
    <2>2. Abs!Close
      BY <1>20, <2>1 DEF Shutdown, forVars, Abs!Close
    <2>3. QED
      BY <1>0, <2>2 DEF Abs!Next
  <1>21. ASSUME NEW c \in Clients, NEW t \in Tasks, Submit(c, t) PROVE Abs!Next \/ Unseen
    <2>1. Running' = Running /\ SlotsRun' = SlotsRun
      BY <1>21 DEF Submit, forVars, workerVars, SlotDone, BodyRun, OneCall, InFor
    <2>2. t \notin Abs!InQueue \cup Running \cup finished
      BY <1>21, PoolAssumption DEF Submit, Accepted, Abs!InQueue, Running
    <2>3. Abs!Accept(t)
      BY <1>21, <2>1, <2>2 DEF Submit, forVars, Abs!Accept
    <2>4. QED
      BY <1>0, <2>3 DEF Abs!Next
  <1>22. ASSUME NEW c \in Clients, NEW t \in Tasks, Wait(c, t) PROVE Abs!Next \/ Unseen
    BY <1>22 DEF Wait, Unseen, SlotDone, BodyRun, OneCall, InFor, forVars,
       workerVars, clientVars
  <1>23. ASSUME SpuriousWake PROVE Abs!Next \/ Unseen
    BY <1>23, WakeupsOnly DEF SpuriousWake, OnlyWakes, Unseen, SlotDone, BodyRun,
       OneCall, InFor, forVars
  <1>24. QED
    BY <1>1, <1>2, <1>3, <1>4, <1>5, <1>6, <1>7, <1>8, <1>9, <1>10, <1>11, <1>12,
       <1>13, <1>14, <1>15, <1>16, <1>17, <1>18, <1>19, <1>20, <1>21, <1>22, <1>23 DEF Next,
       WorkerStep, ClientStep, ClientCall

\* A ThreadPool does what ThreadPoolAbs says: tasks start in order and once, a parallelFor
\* runs every slot once between its beginning and its end, shutdown ends with nothing left.
THEOREM Refinement == Spec => ImplementsAbs
  <1>1. Init => Abs!Init
    BY DEF Init, Abs!Init, Running, SlotsRun
  <1>2. RInv /\ [Next]_vars => [Abs!Next]_(Abs!absVars)
    <2> SUFFICES ASSUME RInv, [Next]_vars PROVE [Abs!Next]_(Abs!absVars)
      OBVIOUS
    <2>1. Unseen => UNCHANGED Abs!absVars
      BY DEF Unseen, Abs!absVars
    <2>2. CASE Next
      BY <2>1, <2>2, StepMapped
    <2>3. CASE UNCHANGED vars
      <3>1. Unseen
        BY <2>3 DEF vars, Unseen, Running, SlotsRun, SlotDone, forVars, workerVars, clientVars
      <3>2. QED
        BY <2>1, <3>1
    <2>4. QED
      BY <2>2, <2>3
  <1>3. QED
    BY <1>1, <1>2, MappingInvariance, PTL DEF Spec, ImplementsAbs, Abs!Spec
=============================================================================
