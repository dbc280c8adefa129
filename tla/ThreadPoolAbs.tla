------------------------------ MODULE ThreadPoolAbs ------------------------------
(***************************************************************************)
(* What a ThreadPool promises to the threads that use it, with no mutex,   *)
(* no condition variable and no epoch:                                     *)
(*   - an accepted task is started at most once, in submission order, and  *)
(*     is done once it has been run;                                       *)
(*   - after the pool is closed nothing is accepted, and the closing call  *)
(*     returns only when nothing is pending or running;                    *)
(*   - one parallelFor call is a barrier: between its beginning and its    *)
(*     end every slot (the caller and each pool thread) runs exactly once. *)
(* ThreadPool is shown to implement this module.                           *)
(***************************************************************************)
EXTENDS Naturals, Sequences

CONSTANTS Tasks,    \* the tasks that may be submitted
          Caller    \* the slot of parallelFor that runs on the calling thread

VARIABLES pool,      \* the pool's threads, fixed by the constructor
          pending,   \* tasks accepted and not started, oldest first
          running,   \* tasks being run
          done,      \* tasks that have been run
          open,      \* does the pool accept work?
          joined,    \* has the closing call returned?
          call,      \* is a parallelFor in progress?
          slots,     \* the slots of that call that have been run
          dead       \* an exception left a task on a worker: the process is gone

absVars == <<pool, pending, running, done, open, joined, call, slots, dead>>

InQueue == {pending[i] : i \in 1 .. Len(pending)}

Init ==
    /\ pending = <<>>
    /\ running = {}
    /\ done = {}
    /\ open = TRUE
    /\ joined = FALSE
    /\ call = FALSE
    /\ slots = {}
    /\ dead = FALSE

Accept(t) ==
    /\ open
    /\ t \notin InQueue \cup running \cup done
    /\ pending' = Append(pending, t)
    /\ UNCHANGED <<pool, running, done, open, joined, call, slots, dead>>

Start ==
    /\ pending # <<>>
    /\ pool # {}
    /\ pending' = Tail(pending)
    /\ running' = running \cup {Head(pending)}
    /\ UNCHANGED <<pool, done, open, joined, call, slots, dead>>

Finish(t) ==
    /\ t \in running
    /\ running' = running \ {t}
    /\ done' = done \cup {t}
    /\ UNCHANGED <<pool, pending, open, joined, call, slots, dead>>

Close ==
    /\ open
    /\ open' = FALSE
    /\ UNCHANGED <<pool, pending, running, done, joined, call, slots, dead>>

\* A pool with no threads has nobody to drain it: its shutdown returns at once.
Join ==
    /\ ~open
    /\ ~joined
    /\ pool # {} => pending = <<>>
    /\ running = {}
    /\ call => pool \subseteq slots
    /\ joined' = TRUE
    /\ UNCHANGED <<pool, pending, running, done, open, call, slots, dead>>

BeginCall ==
    /\ open
    /\ ~call
    /\ call' = TRUE
    /\ UNCHANGED <<pool, pending, running, done, open, joined, slots, dead>>

RunSlot(s) ==
    /\ call
    /\ s \notin slots
    /\ slots' = slots \cup {s}
    /\ UNCHANGED <<pool, pending, running, done, open, joined, call, dead>>

EndCall ==
    /\ call
    /\ slots = pool \cup {Caller}
    /\ call' = FALSE
    /\ slots' = {}
    /\ UNCHANGED <<pool, pending, running, done, open, joined, dead>>

Die ==
    /\ dead' = TRUE
    /\ UNCHANGED <<pool, pending, running, done, open, joined, call, slots>>

Next ==
    /\ ~dead
    /\ \/ \E t \in Tasks : Accept(t) \/ Finish(t)
       \/ Start
       \/ Close
       \/ Join
       \/ BeginCall
       \/ \E s \in pool \cup {Caller} : RunSlot(s)
       \/ EndCall
       \/ Die

Spec == Init /\ [][Next]_absVars
=============================================================================
