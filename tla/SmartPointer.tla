------------------------------ MODULE SmartPointer ------------------------------
(***************************************************************************)
(* sp and wp: include/alloc/pointer.h.                                     *)
(*                                                                         *)
(* A block is a control block with its object in one allocation; it holds  *)
(* an atomic count.  A handle is an sp: a block and a mode of its own.     *)
(* Several threads use several handles at a time and one handle at most    *)
(* one at a time, as for any C++ object; what they share are the counts.   *)
(* Every load, increment, decrement and exchange of a count is a step, and *)
(* so are the copy and the deletion of a block.                            *)
(*                                                                         *)
(* The object is SpManaged: ptr() takes a strong reference from the weak   *)
(* one inside the object.  "lock() / expired() are only safe while at      *)
(* least one sp owns it": a thread calls ptr() through a handle that is    *)
(* left alone meanwhile.                                                   *)
(***************************************************************************)
EXTENDS Integers, FiniteSets

CONSTANTS Threads,
          Handles,
          Blocks,        \* addresses that new may return
          NoDetails

ASSUME PointerAssumption ==
    /\ NoDetails \notin Handles \cup Blocks
    /\ IsFiniteSet(Threads) /\ IsFiniteSet(Handles)

VARIABLES
    details,   \* the block a handle points to, or NoDetails
    mode,      \* its type
    live,      \* blocks that are allocated
    refs,      \* the counts
    value,     \* the objects
    pc,        \* where each thread is
    loc        \* its local variables

vars == <<details, mode, live, refs, value, pc, loc>>

Modes == {"UNIQUE", "SHARED", "COPY_ON_WRITE", "NULLPTR"}
Values == {0, 1}

\* h: the handle worked on; from: the one read; old: the block that is given up;
\* strong: the block of a temporary sp; seen: the count that was read.
InCall(h, from, old) == [h |-> h, from |-> from, old |-> old, strong |-> NoDetails, seen |-> 0]
NoCall == InCall(NoDetails, NoDetails, NoDetails)

TypeOK ==
    /\ details \in [Handles -> Blocks \cup {NoDetails}]
    /\ mode \in [Handles -> Modes]
    /\ live \subseteq Blocks
    /\ refs \in [Blocks -> Nat]
    /\ value \in [Blocks -> Values]
    /\ pc \in [Threads -> {"idle", "release", "delete", "load", "copy", "detach",
                           "destroy", "write", "lock", "exchange", "alias", "unlock"}]
    /\ loc \in [Threads -> [h : Handles \cup {NoDetails}, from : Handles \cup {NoDetails},
                          old : Blocks \cup {NoDetails}, strong : Blocks \cup {NoDetails},
                          seen : Nat]]

Init ==
    /\ details = [h \in Handles |-> NoDetails]
    /\ mode = [h \in Handles |-> "NULLPTR"]
    /\ live = {}
    /\ refs = [b \in Blocks |-> 0]
    /\ value = [b \in Blocks |-> 0]
    /\ pc = [t \in Threads |-> "idle"]
    /\ loc = [t \in Threads |-> NoCall]

----------------------------------------------------------------------------

\* Handles that another thread changes, or has passed to a call as const.
Changing(t) == {loc[u].h : u \in Threads \ {t}}
Reading(t) == {loc[u].from : u \in Threads \ {t}}

\* Thread t may start a call that changes h, or one that reads g.
MayChange(t, h) == pc[t] = "idle" /\ h \notin Changing(t) \cup Reading(t)
MayRead(t, g) == g \notin Changing(t)

Goto(t, p) == pc' = [pc EXCEPT ![t] = p]

Return(t) ==
    /\ Goto(t, "idle")
    /\ loc' = [loc EXCEPT ![t] = NoCall]

\* new sp_pointer_details_concrete_t<U>: a free address, a count of one.
Fresh(b, v) ==
    /\ b \notin live
    /\ live' = live \cup {b}
    /\ refs' = [refs EXCEPT ![b] = 1]
    /\ value' = [value EXCEPT ![b] = v]

\* The handle takes its new contents, by way of a temporary that is swapped with it and
\* whose destructor gives up the old block.
SwapIn(t, h, b, m) ==
    /\ details' = [details EXCEPT ![h] = b]
    /\ mode' = [mode EXCEPT ![h] = m]
    /\ IF details[h] = NoDetails
       THEN Return(t)
       ELSE /\ Goto(t, "release")
            /\ loc' = [loc EXCEPT ![t] = InCall(h, NoDetails, details[h])]

\* sp(type, args...), create
Create(t, h, b, m) ==
    /\ MayChange(t, h)
    /\ m \in {"UNIQUE", "SHARED"}
    /\ Fresh(b, 0)
    /\ SwapIn(t, h, b, m)

\* "UNIQUE copied -> copy becomes COW, original stays UNIQUE"
ModeOfCopy(m) == IF m = "UNIQUE" THEN "COPY_ON_WRITE" ELSE m

\* acquire_from_copy into a temporary, and operator=
Copy(t, h, g) ==
    /\ MayChange(t, h) /\ MayRead(t, g) /\ h # g
    /\ details[g] # NoDetails
    /\ refs' = [refs EXCEPT ![details[g]] = @ + 1]
    /\ SwapIn(t, h, details[g], ModeOfCopy(mode[g]))
    /\ UNCHANGED <<live, value>>

\* sp(sp&&) and its operator=: what was in h is given up, g is empty.
Move(t, h, g) ==
    /\ MayChange(t, h) /\ MayChange(t, g) /\ h # g
    /\ details[g] # NoDetails
    /\ details' = [details EXCEPT ![h] = details[g], ![g] = NoDetails]
    /\ mode' = [mode EXCEPT ![h] = mode[g], ![g] = "NULLPTR"]
    /\ IF details[h] = NoDetails
       THEN Return(t)
       ELSE /\ Goto(t, "release")
            /\ loc' = [loc EXCEPT ![t] = InCall(h, NoDetails, details[h])]
    /\ UNCHANGED <<live, refs, value>>

\* reset and the destructor
Reset(t, h) ==
    /\ MayChange(t, h)
    /\ details[h] # NoDetails
    /\ SwapIn(t, h, NoDetails, "NULLPTR")
    /\ UNCHANGED <<live, refs, value>>

\* getWritableCopy: "a new reference explicitly marked as COPY_ON_WRITE"
GetWritableCopy(t, h, g) ==
    /\ MayChange(t, h) /\ MayRead(t, g) /\ h # g
    /\ details[g] # NoDetails
    /\ refs' = [refs EXCEPT ![details[g]] = @ + 1]
    /\ SwapIn(t, h, details[g], "COPY_ON_WRITE")
    /\ UNCHANGED <<live, value>>

\* copy: a new block at once
DeepCopy(t, h, g, b, m) ==
    /\ MayChange(t, h) /\ MayRead(t, g) /\ h # g
    /\ details[g] # NoDetails
    /\ m \in {"UNIQUE", "SHARED", "COPY_ON_WRITE"}
    /\ Fresh(b, value[details[g]])
    /\ SwapIn(t, h, b, m)

----------------------------------------------------------------------------
(* release_ref *)

\* (bug) The block is deleted when one reference is left.
LastButOne(b) == refs[b] = 2

\* fetch_sub(1) == 1
LastReference(b) == refs[b] = 1

Decrement(b) == refs' = [refs EXCEPT ![b] = @ - 1]

Release(t) ==
    /\ pc[t] = "release"
    /\ Decrement(loc[t].old)
    /\ IF LastReference(loc[t].old)
       THEN Goto(t, "delete") /\ UNCHANGED loc
       ELSE Return(t)
    /\ UNCHANGED <<details, mode, live, value>>

\* delete details
Delete(t) ==
    /\ pc[t] = "delete"
    /\ live' = live \ {loc[t].old}
    /\ Return(t)
    /\ UNCHANGED <<details, mode, refs, value>>

----------------------------------------------------------------------------
(* mut *)

\* A thread that was handed a null pointer does not call mut.
Mut(t, h) ==
    /\ MayChange(t, h)
    /\ details[h] # NoDetails
    /\ loc' = [loc EXCEPT ![t] = InCall(h, NoDetails, NoDetails)]
    /\ Goto(t, IF mode[h] = "COPY_ON_WRITE" THEN "load" ELSE "write")
    /\ UNCHANGED <<details, mode, live, refs, value>>

\* (bug) Two references may share an object that is about to be written.
FewRefs(b) == refs[b] <= 2

\* refs.load() == 1
Sole(b) == refs[b] = 1

MutLoad(t) ==
    /\ pc[t] = "load"
    /\ Goto(t, IF Sole(details[loc[t].h]) THEN "write" ELSE "copy")
    /\ UNCHANGED <<details, mode, live, refs, value, loc>>

\* details = old->copy(); type = SHARED
MutCopy(t, b) ==
    LET h == loc[t].h IN
    /\ pc[t] = "copy"
    /\ Fresh(b, value[details[h]])
    /\ details' = [details EXCEPT ![h] = b]
    /\ mode' = [mode EXCEPT ![h] = "SHARED"]
    /\ loc' = [loc EXCEPT ![t].old = details[h]]
    /\ Goto(t, "detach")

\* "drop old ref"
MutDetach(t) ==
    /\ pc[t] = "detach"
    /\ Decrement(loc[t].old)
    /\ IF LastReference(loc[t].old)
       THEN Goto(t, "destroy") /\ UNCHANGED loc
       ELSE /\ Goto(t, "write")
            /\ loc' = [loc EXCEPT ![t].old = NoDetails]
    /\ UNCHANGED <<details, mode, live, value>>

\* delete old
MutDestroy(t) ==
    /\ pc[t] = "destroy"
    /\ live' = live \ {loc[t].old}
    /\ loc' = [loc EXCEPT ![t].old = NoDetails]
    /\ Goto(t, "write")
    /\ UNCHANGED <<details, mode, refs, value>>

\* The caller writes through the reference.
MutWrite(t) ==
    /\ pc[t] = "write"
    /\ value' = [value EXCEPT ![details[loc[t].h]] = 1 - @]
    /\ Return(t)
    /\ UNCHANGED <<details, mode, live, refs>>

----------------------------------------------------------------------------
(* SpManaged::ptr() const, called through g; its answer is put into h *)

Ptr(t, h, g) ==
    /\ MayChange(t, h) /\ MayRead(t, g) /\ h # g
    /\ details[g] # NoDetails /\ details[h] = NoDetails
    /\ loc' = [loc EXCEPT ![t] = InCall(h, g, NoDetails)]
    /\ Goto(t, "lock")
    /\ UNCHANGED <<details, mode, live, refs, value>>

\* wp::lock: n = refs.load()
Lock(t) ==
    /\ pc[t] = "lock"
    /\ loc' = [loc EXCEPT ![t].seen = refs[details[loc[t].from]]]
    /\ Goto(t, "exchange")
    /\ UNCHANGED <<details, mode, live, refs, value>>

\* compare_exchange_weak(n, n + 1) succeeds, or fails and reads the count again
Unchanged(b, n) == refs[b] = n

Exchange(t) ==
    LET b == details[loc[t].from]  n == loc[t].seen IN
    /\ pc[t] = "exchange"
    /\ \/ /\ Unchanged(b, n)
          /\ refs' = [refs EXCEPT ![b] = n + 1]
          /\ loc' = [loc EXCEPT ![t].strong = b]
          /\ Goto(t, "alias")
       \/ /\ refs[b] # n
          /\ loc' = [loc EXCEPT ![t].seen = refs[b]]
          /\ UNCHANGED <<pc, refs>>
    /\ UNCHANGED <<details, mode, live, value>>

\* strong.getWritableCopy(), or strong itself for ptr() that is not const
Alias(t) ==
    LET h == loc[t].h  b == loc[t].strong IN
    /\ pc[t] = "alias"
    /\ details' = [details EXCEPT ![h] = b]
    /\ \/ /\ mode' = [mode EXCEPT ![h] = "COPY_ON_WRITE"]
          /\ refs' = [refs EXCEPT ![b] = @ + 1]
          /\ Goto(t, "unlock")
          /\ UNCHANGED loc
       \/ /\ mode' = [mode EXCEPT ![h] = "SHARED"]
          /\ UNCHANGED refs
          /\ Return(t)
    /\ UNCHANGED <<live, value>>

\* ~strong
Unlock(t) ==
    /\ pc[t] = "unlock"
    /\ Decrement(loc[t].strong)
    /\ IF LastReference(loc[t].strong)
       THEN /\ Goto(t, "delete")
            /\ loc' = [loc EXCEPT ![t] = InCall(loc[t].h, NoDetails, loc[t].strong)]
       ELSE Return(t)
    /\ UNCHANGED <<details, mode, live, value>>

----------------------------------------------------------------------------

Step(t) ==
    \/ Release(t) \/ Delete(t)
    \/ MutLoad(t) \/ (\E b \in Blocks : MutCopy(t, b)) \/ MutDetach(t) \/ MutDestroy(t)
    \/ MutWrite(t)
    \/ Lock(t) \/ Exchange(t) \/ Alias(t) \/ Unlock(t)

Call(t) ==
    \E h \in Handles :
        \/ Reset(t, h) \/ Mut(t, h)
        \/ \E b \in Blocks, m \in Modes : Create(t, h, b, m)
        \/ \E g \in Handles :
              \/ Copy(t, h, g) \/ Move(t, h, g) \/ GetWritableCopy(t, h, g) \/ Ptr(t, h, g)
              \/ \E b \in Blocks, m \in Modes : DeepCopy(t, h, g, b, m)

Next == \E t \in Threads : Step(t) \/ Call(t)

Spec == Init /\ [][Next]_vars

----------------------------------------------------------------------------
(* Properties *)

\* A reference that thread t is about to give up
Leaving(t) == IF pc[t] \in {"release", "detach"} THEN loc[t].old ELSE NoDetails

\* How many hold a reference to a block: handles, temporaries in ptr(), and threads that
\* are about to give one up.
Owners(b) ==
    Cardinality({h \in Handles : details[h] = b})
    + Cardinality({t \in Threads : loc[t].strong = b})
    + Cardinality({t \in Threads : Leaving(t) = b})

\* Counts are exact at every step of every thread, and a block is there as long as it
\* has an owner: it is deleted once, by the thread that took the count to zero.
CountsExact ==
    /\ \A b \in live : refs[b] = Owners(b)
    /\ \A b \in Blocks \ live : Owners(b) = 0
    /\ \A b \in live : refs[b] = 0 =>
          Cardinality({t \in Threads : loc[t].old = b /\ pc[t] \in {"delete", "destroy"}}) = 1

\* What a handle reads.
Sees(h) == IF details[h] = NoDetails THEN NoDetails ELSE value[details[h]]

\* "Sharing is permitted, but mut() will trigger a deep copy if other references exist": a
\* write by way of a copy-on-write handle is seen by no other handle.
WritesPrivate ==
    [][\A t \in Threads :
          pc[t] = "write" /\ pc'[t] = "idle" /\ mode[loc[t].h] = "COPY_ON_WRITE" =>
              \A g \in Handles \ {loc[t].h} : details[g] # details[loc[t].h]]_vars
=============================================================================
