------------------------------- MODULE FdIOProofs -------------------------------
(***************************************************************************)
(* Proofs about FdIO, for any threads, file and bounds: the types; who     *)
(* holds the mutex can go on; mapping cuts off newer bytes only; where the *)
(* cursor is used inside transactions only, transactions are atomic; and,  *)
(* where moreover no write() goes over a queued one, reads see the latest  *)
(* data and a settled file holds the last writes.                          *)
(*                                                                         *)
(* The last two rest on one invariant, Layered.  A write's byte goes from  *)
(* the queue (QueuedAfter) through a flush (Flying) to the file, or from a *)
(* call straight to the file, and LayersInv says that along this way newer *)
(* is always on top of older.                                              *)
(***************************************************************************)
EXTENDS FdIO, FiniteSetTheorems, TLAPS

\* The fields of a call's local variables, and the places in a call.
Fields == {"call", "where", "ids", "n", "op", "opn", "old", "end", "snap", "seen"}
States == {"idle", "lock", "flush", "sys", "end", "grow", "restore"}

\* The steps of a call that are made under the mutex.
UnderMutex(t) == pc[t] \in {"flush", "end", "grow", "restore"}

\* The kinds of the variables, as far as steps need them to change one thread's part.
Shape ==
    /\ owner \in Threads \cup {None}
    /\ txn \subseteq Threads
    /\ pc \in [Threads -> States]
    /\ DOMAIN at = Threads
    /\ DOMAIN loc = Threads
    /\ \A t \in Threads : DOMAIN loc[t] = Fields

\* A thread in a transaction, or in a step under the mutex, is the owner of the mutex, and
\* the owner is such a thread.
MutexInv ==
    /\ \A t \in txn : owner = t
    /\ \A t \in Threads : UnderMutex(t) => owner = t
    /\ owner # None => owner \in txn \/ UnderMutex(owner)

\* The cursor is used in transactions only, and getMmapHandle, in the middle of moving it,
\* knows where it belongs.
CursorInv ==
    /\ \A t \in Threads : pc[t] \in {"end", "grow", "restore"} => loc[t].call = "mmap"
    /\ \A t \in Threads : pc[t] # "idle" /\ loc[t].call \in {"read", "write"} => t \in txn
    /\ \A t \in txn :
          /\ pc[t] \notin {"grow", "restore"} => cursor = at[t]
          /\ UnderMutex(t) => loc[t].old = at[t] \/ loc[t].call # "mmap"

----------------------------------------------------------------------------

\* Calls keep their local variables, and threads their places in them.
LEMMA ShapeStep ==
    ASSUME Shape, Next
    PROVE  Shape'
  <1> USE DEF Shape, States, Fields
  <1>1. ASSUME NEW t \in Threads, NEW where \in Bytes, NEW n \in 1 .. MaxLen,
               QueueWrite(t, where, n)
        PROVE  Shape'
    BY <1>1 DEF QueueWrite, Calling, NewWrite, kernelVars, histVars
  <1>2. ASSUME NEW t \in Threads, NEW where \in Bytes, NEW n \in 1 .. MaxLen,
               Pwrite(t, where, n)
        PROVE  Shape'
    BY <1>2 DEF Pwrite, Calling, Begin, NewWrite, NoCall, kernelVars, histVars
  <1>3. ASSUME NEW t \in Threads, Pread(t) PROVE Shape'
    BY <1>3 DEF Pread, Calling, Begin, NoCall, kernelVars, histVars
  <1>4. ASSUME NEW t \in Threads, Flush(t) PROVE Shape'
    BY <1>4 DEF Flush, Calling, Begin, NoCall, kernelVars, histVars
  <1>5. ASSUME NEW t \in Threads, NEW n \in 1 .. MaxLen,
               GetMmapHandle(t, n)
        PROVE  Shape'
    BY <1>5 DEF GetMmapHandle, Calling, Begin, NoCall, kernelVars, histVars
  <1>6. ASSUME NEW t \in Threads, NEW n \in 1 .. MaxLen, Read(t, n) PROVE Shape'
    BY <1>6 DEF Read, Calling, Begin, NoCall, MayUseCursor, kernelVars, histVars
  <1>7. ASSUME NEW t \in Threads, NEW n \in 1 .. MaxLen, Write(t, n) PROVE Shape'
    BY <1>7 DEF Write, Calling, Begin, NewWrite, NoCall, MayUseCursor, kernelVars,
       histVars
  <1>8. ASSUME NEW t \in Threads, NEW p \in Bytes, Seek(t, p) PROVE Shape'
    BY <1>8 DEF Seek, Calling, MayUseCursor, Moved, kernelVars, histVars
  <1>9. ASSUME NEW t \in Threads, BeginTransaction(t) PROVE Shape'
    BY <1>9 DEF BeginTransaction, Calling, kernelVars, histVars
  <1>10. ASSUME NEW t \in Threads, EndTransaction(t) PROVE Shape'
    BY <1>10 DEF EndTransaction, kernelVars, histVars
  <1>11. ASSUME NEW t \in Threads, Acquire(t) PROVE Shape'
    BY <1>11 DEF Acquire, Free, kernelVars, histVars
  <1>12. ASSUME NEW t \in Threads, FlushPop(t) PROVE Shape'
    BY <1>12 DEF FlushPop, Flushing, kernelVars, histVars
  <1>13. ASSUME NEW t \in Threads, NEW k \in 1 .. Size,
               FlushWrite(t, k)
        PROVE  Shape'
    BY <1>13 DEF FlushWrite, Flushing, kernelVars, histVars
  <1>14. ASSUME NEW t \in Threads, FlushFail(t) PROVE Shape'
    BY <1>14 DEF FlushFail, Flushing, kernelVars, histVars
  <1>15. ASSUME NEW t \in Threads, FlushEnd(t) PROVE Shape'
    BY <1>15 DEF FlushEnd, Drained, Flushing, Released, Return, NoCall, kernelVars,
       histVars
  <1>16. ASSUME NEW t \in Threads, NEW k \in 1 .. Size, SysWrite(t, k) PROVE Shape'
    BY <1>16 DEF SysWrite, IsWrite, Moved, Return, NoCall, kernelVars, histVars
  <1>17. ASSUME NEW t \in Threads, SysFail(t) PROVE Shape'
    BY <1>17 DEF SysFail, IsWrite, Return, NoCall, kernelVars, histVars
  <1>18. ASSUME NEW t \in Threads, NEW k \in 1 .. Size, SysRead(t, k) PROVE Shape'
    BY <1>18 DEF SysRead, IsWrite, Moved, kernelVars, histVars
  <1>19. ASSUME NEW t \in Threads, SysReadEnd(t) PROVE Shape'
    BY <1>19 DEF SysReadEnd, IsWrite, Return, NoCall, kernelVars, histVars
  <1>20. ASSUME NEW t \in Threads, MmapEnd(t) PROVE Shape'
    BY <1>20 DEF MmapEnd, kernelVars, histVars
  <1>21. ASSUME NEW t \in Threads, MmapGrow(t) PROVE Shape'
    BY <1>21 DEF MmapGrow, kernelVars, histVars
  <1>22. ASSUME NEW t \in Threads, MmapRestore(t) PROVE Shape'
    BY <1>22 DEF MmapRestore, Released, RestoredCursor, Return, NoCall, kernelVars,
       histVars
  <1>23. QED
    BY <1>1, <1>2, <1>3, <1>4, <1>5, <1>6, <1>7, <1>8, <1>9, <1>10, <1>11, <1>12,
       <1>13, <1>14, <1>15, <1>16, <1>17, <1>18, <1>19, <1>20, <1>21, <1>22
       DEF Next, Step, Call

\* No step lets a second thread in, and none forgets the mutex.
LEMMA MutexStep ==
    ASSUME Shape, MutexInv, Next
    PROVE  MutexInv'
  <1> USE FdIOAssumption DEF Shape, States, MutexInv, UnderMutex
  <1>1. ASSUME NEW t \in Threads, NEW where \in Bytes, NEW n \in 1 .. MaxLen,
               QueueWrite(t, where, n)
        PROVE  MutexInv'
    BY <1>1 DEF QueueWrite, Calling, NewWrite, kernelVars, histVars
  <1>2. ASSUME NEW t \in Threads, NEW where \in Bytes, NEW n \in 1 .. MaxLen,
               Pwrite(t, where, n)
        PROVE  MutexInv'
    BY <1>2 DEF Pwrite, Calling, Begin, NewWrite, NoCall, kernelVars, histVars
  <1>3. ASSUME NEW t \in Threads, Pread(t) PROVE MutexInv'
    BY <1>3 DEF Pread, Calling, Begin, NoCall, kernelVars, histVars
  <1>4. ASSUME NEW t \in Threads, Flush(t) PROVE MutexInv'
    BY <1>4 DEF Flush, Calling, Begin, NoCall, kernelVars, histVars
  <1>5. ASSUME NEW t \in Threads, NEW n \in 1 .. MaxLen,
               GetMmapHandle(t, n)
        PROVE  MutexInv'
    BY <1>5 DEF GetMmapHandle, Calling, Begin, NoCall, kernelVars, histVars
  <1>6. ASSUME NEW t \in Threads, NEW n \in 1 .. MaxLen, Read(t, n) PROVE MutexInv'
    BY <1>6 DEF Read, Calling, Begin, NoCall, MayUseCursor, kernelVars, histVars
  <1>7. ASSUME NEW t \in Threads, NEW n \in 1 .. MaxLen, Write(t, n) PROVE MutexInv'
    BY <1>7 DEF Write, Calling, Begin, NewWrite, NoCall, MayUseCursor, kernelVars,
       histVars
  <1>8. ASSUME NEW t \in Threads, NEW p \in Bytes, Seek(t, p) PROVE MutexInv'
    BY <1>8 DEF Seek, Calling, MayUseCursor, Moved, kernelVars, histVars
  <1>9. ASSUME NEW t \in Threads, BeginTransaction(t) PROVE MutexInv'
    BY <1>9 DEF BeginTransaction, Calling, kernelVars, histVars
  <1>10. ASSUME NEW t \in Threads, EndTransaction(t) PROVE MutexInv'
    BY <1>10 DEF EndTransaction, kernelVars, histVars
  <1>11. ASSUME NEW t \in Threads, Acquire(t) PROVE MutexInv'
    BY <1>11 DEF Acquire, Free, kernelVars, histVars
  <1>12. ASSUME NEW t \in Threads, FlushPop(t) PROVE MutexInv'
    BY <1>12 DEF FlushPop, Flushing, kernelVars, histVars
  <1>13. ASSUME NEW t \in Threads, NEW k \in 1 .. Size,
               FlushWrite(t, k)
        PROVE  MutexInv'
    BY <1>13 DEF FlushWrite, Flushing, kernelVars, histVars
  <1>14. ASSUME NEW t \in Threads, FlushFail(t) PROVE MutexInv'
    BY <1>14 DEF FlushFail, Flushing, kernelVars, histVars
  <1>15. ASSUME NEW t \in Threads, FlushEnd(t) PROVE MutexInv'
    BY <1>15 DEF FlushEnd, Drained, Flushing, Released, Return, NoCall, kernelVars,
       histVars
  <1>16. ASSUME NEW t \in Threads, NEW k \in 1 .. Size,
               SysWrite(t, k)
        PROVE  MutexInv'
    BY <1>16 DEF SysWrite, IsWrite, Moved, Return, NoCall, kernelVars, histVars
  <1>17. ASSUME NEW t \in Threads, SysFail(t) PROVE MutexInv'
    BY <1>17 DEF SysFail, IsWrite, Return, NoCall, kernelVars, histVars
  <1>18. ASSUME NEW t \in Threads, NEW k \in 1 .. Size,
               SysRead(t, k)
        PROVE  MutexInv'
    BY <1>18 DEF SysRead, IsWrite, Moved, kernelVars, histVars
  <1>19. ASSUME NEW t \in Threads, SysReadEnd(t) PROVE MutexInv'
    BY <1>19 DEF SysReadEnd, IsWrite, Return, NoCall, kernelVars, histVars
  <1>20. ASSUME NEW t \in Threads, MmapEnd(t) PROVE MutexInv'
    BY <1>20 DEF MmapEnd, kernelVars, histVars
  <1>21. ASSUME NEW t \in Threads, MmapGrow(t) PROVE MutexInv'
    BY <1>21 DEF MmapGrow, kernelVars, histVars
  <1>22. ASSUME NEW t \in Threads, MmapRestore(t) PROVE MutexInv'
    BY <1>22 DEF MmapRestore, Released, RestoredCursor, Return, NoCall, kernelVars,
       histVars
  <1>23. QED
    BY <1>1, <1>2, <1>3, <1>4, <1>5, <1>6, <1>7, <1>8, <1>9, <1>10, <1>11, <1>12,
       <1>13, <1>14, <1>15, <1>16, <1>17, <1>18, <1>19, <1>20, <1>21, <1>22
       DEF Next, Step, Call

\* Where the cursor is used inside transactions only, no step of another thread moves it.
LEMMA CursorStep ==
    ASSUME ~SharedCursor, Shape, MutexInv, CursorInv, Next
    PROVE  CursorInv'
  <1> USE FdIOAssumption DEF Shape, States, Fields, MutexInv, CursorInv, UnderMutex
  <1>1. ASSUME NEW t \in Threads, NEW where \in Bytes, NEW n \in 1 .. MaxLen,
               QueueWrite(t, where, n)
        PROVE  CursorInv'
    BY <1>1 DEF QueueWrite, Calling, NewWrite, kernelVars, histVars
  <1>2. ASSUME NEW t \in Threads, NEW where \in Bytes, NEW n \in 1 .. MaxLen,
               Pwrite(t, where, n)
        PROVE  CursorInv'
    BY <1>2 DEF Pwrite, Calling, Begin, NewWrite, NoCall, kernelVars, histVars
  <1>3. ASSUME NEW t \in Threads, Pread(t) PROVE CursorInv'
    BY <1>3 DEF Pread, Calling, Begin, NoCall, kernelVars, histVars
  <1>4. ASSUME NEW t \in Threads, Flush(t) PROVE CursorInv'
    BY <1>4 DEF Flush, Calling, Begin, NoCall, kernelVars, histVars
  <1>5. ASSUME NEW t \in Threads, NEW n \in 1 .. MaxLen,
               GetMmapHandle(t, n)
        PROVE  CursorInv'
    BY <1>5 DEF GetMmapHandle, Calling, Begin, NoCall, kernelVars, histVars
  <1>6. ASSUME NEW t \in Threads, NEW n \in 1 .. MaxLen, Read(t, n) PROVE CursorInv'
    BY <1>6 DEF Read, Calling, Begin, NoCall, MayUseCursor, kernelVars, histVars
  <1>7. ASSUME NEW t \in Threads, NEW n \in 1 .. MaxLen,
               Write(t, n)
        PROVE  CursorInv'
    BY <1>7 DEF Write, Calling, Begin, NewWrite, NoCall, MayUseCursor, kernelVars,
       histVars
  <1>8. ASSUME NEW t \in Threads, NEW p \in Bytes, Seek(t, p) PROVE CursorInv'
    BY <1>8 DEF Seek, Calling, MayUseCursor, Moved, kernelVars, histVars
  <1>9. ASSUME NEW t \in Threads, BeginTransaction(t) PROVE CursorInv'
    BY <1>9 DEF BeginTransaction, Calling, kernelVars, histVars
  <1>10. ASSUME NEW t \in Threads, EndTransaction(t) PROVE CursorInv'
    BY <1>10 DEF EndTransaction, kernelVars, histVars
  <1>11. ASSUME NEW t \in Threads, Acquire(t) PROVE CursorInv'
    BY <1>11 DEF Acquire, Free, kernelVars, histVars
  <1>12. ASSUME NEW t \in Threads, FlushPop(t) PROVE CursorInv'
    BY <1>12 DEF FlushPop, Flushing, kernelVars, histVars
  <1>13. ASSUME NEW t \in Threads, NEW k \in 1 .. Size,
               FlushWrite(t, k)
        PROVE  CursorInv'
    BY <1>13 DEF FlushWrite, Flushing, kernelVars, histVars
  <1>14. ASSUME NEW t \in Threads, FlushFail(t) PROVE CursorInv'
    BY <1>14 DEF FlushFail, Flushing, kernelVars, histVars
  <1>15. ASSUME NEW t \in Threads, FlushEnd(t) PROVE CursorInv'
    BY <1>15 DEF FlushEnd, Drained, Flushing, Released, Return, NoCall, kernelVars,
       histVars
  <1>16. ASSUME NEW t \in Threads, NEW k \in 1 .. Size,
               SysWrite(t, k)
        PROVE  CursorInv'
    BY <1>16 DEF SysWrite, IsWrite, Moved, Return, NoCall, kernelVars, histVars
  <1>17. ASSUME NEW t \in Threads, SysFail(t) PROVE CursorInv'
    BY <1>17 DEF SysFail, IsWrite, Return, NoCall, kernelVars, histVars
  <1>18. ASSUME NEW t \in Threads, NEW k \in 1 .. Size,
               SysRead(t, k)
        PROVE  CursorInv'
    BY <1>18 DEF SysRead, IsWrite, Moved, kernelVars, histVars
  <1>19. ASSUME NEW t \in Threads, SysReadEnd(t) PROVE CursorInv'
    BY <1>19 DEF SysReadEnd, IsWrite, Return, NoCall, kernelVars, histVars
  <1>20. ASSUME NEW t \in Threads, MmapEnd(t) PROVE CursorInv'
    BY <1>20 DEF MmapEnd, kernelVars, histVars
  <1>21. ASSUME NEW t \in Threads, MmapGrow(t) PROVE CursorInv'
    BY <1>21 DEF MmapGrow, kernelVars, histVars
  <1>22. ASSUME NEW t \in Threads, MmapRestore(t) PROVE CursorInv'
    BY <1>22 DEF MmapRestore, Released, RestoredCursor, Return, NoCall, kernelVars,
       histVars
  <1>23. QED
    BY <1>1, <1>2, <1>3, <1>4, <1>5, <1>6, <1>7, <1>8, <1>9, <1>10, <1>11, <1>12,
       <1>13, <1>14, <1>15, <1>16, <1>17, <1>18, <1>19, <1>20, <1>21, <1>22
       DEF Next, Step, Call

\* Whoever holds the mutex is in a transaction or on its way to release it.
THEOREM MutexMoves == Spec => []MutexHeldByRunner
  <1>1. Init => Shape /\ MutexInv
    BY FdIOAssumption DEF Init, Shape, States, Fields, NoCall, MutexInv, UnderMutex
  <1>2. Shape /\ MutexInv /\ [Next]_vars => (Shape /\ MutexInv)'
    <2> SUFFICES ASSUME Shape, MutexInv, [Next]_vars PROVE Shape' /\ MutexInv'
      OBVIOUS
    <2>1. CASE Next
      BY <2>1, ShapeStep, MutexStep
    <2>2. CASE UNCHANGED vars
      BY <2>2 DEF vars, Shape, MutexInv, UnderMutex
    <2>3. QED
      BY <2>1, <2>2
  <1>3. Shape /\ MutexInv => MutexHeldByRunner
    BY DEF Shape, MutexInv, MutexHeldByRunner, UnderMutex, Free
  <1>4. QED
    BY <1>1, <1>2, <1>3, PTL DEF Spec

\* "An FdTransaction is atomic", provided that nobody uses the cursor outside of one.
THEOREM TransactionsAreAtomic ==
    ASSUME ~SharedCursor
    PROVE  Spec => []TransactionAtomic
  <1>1. Init => Shape /\ MutexInv /\ CursorInv
    BY FdIOAssumption DEF Init, Shape, States, Fields, NoCall, MutexInv, UnderMutex,
       CursorInv
  <1>2. Shape /\ MutexInv /\ CursorInv /\ [Next]_vars => (Shape /\ MutexInv /\ CursorInv)'
    <2> SUFFICES ASSUME Shape, MutexInv, CursorInv, [Next]_vars
                 PROVE  Shape' /\ MutexInv' /\ CursorInv'
      OBVIOUS
    <2>1. CASE Next
      BY <2>1, ShapeStep, MutexStep, CursorStep
    <2>2. CASE UNCHANGED vars
      BY <2>2 DEF vars, kernelVars, Shape, MutexInv, UnderMutex, CursorInv
    <2>3. QED
      BY <2>1, <2>2
  <1>3. CursorInv => TransactionAtomic
    BY DEF CursorInv, TransactionAtomic
  <1>4. QED
    BY <1>1, <1>2, <1>3, PTL DEF Spec

----------------------------------------------------------------------------
(* Numbers *)

\* What writeQueue holds: a position and the numbers of the bytes from there on.
QueuedWrites == [where : Nat, ids : Seq(Ids)]

\* Positions and lengths are numbers.
Numbers ==
    /\ len \in Nat
    /\ cursor \in Nat
    /\ queue \in Seq(QueuedWrites)
    /\ \A t \in Threads :
          /\ loc[t].where \in Nat
          /\ loc[t].n \in Nat
          /\ loc[t].old \in Nat
          /\ loc[t].opn \in Nat
          /\ loc[t].op \in QueuedWrites

\* Queued writes have positions, and no write is one.
LEMMA QueuedWriteFacts ==
    /\ NoOp \in QueuedWrites
    /\ \A r \in QueuedWrites : r.where \in Nat
  <1>1. <<>> \in Seq(Ids)
    OBVIOUS
  <1>2. NoOp \in QueuedWrites
    BY <1>1 DEF NoOp, QueuedWrites
  <1>3. QED
    BY <1>2 DEF QueuedWrites

\* Merging makes a write of two.
LEMMA MergedType ==
    ASSUME NEW q \in Seq(QueuedWrites), NEW op \in QueuedWrites
    PROVE  Merged(q, op) \in Seq(QueuedWrites)
  <1> DEFINE last == q[Len(q)]
             behind == [last EXCEPT !.ids = @ \o op.ids]
             front == [where |-> op.where, ids |-> op.ids \o last.ids]
  <1>1. CASE q = <<>>
    BY <1>1 DEF Merged
  <1>2. CASE q # <<>>
    <2>1. Len(q) \in 1 .. Len(q) /\ last \in QueuedWrites
      BY <1>2
    <2>2. front \in QueuedWrites /\ behind \in QueuedWrites
      <3>1. /\ last.where \in Nat /\ op.where \in Nat
            /\ last.ids \in Seq(Ids) /\ op.ids \in Seq(Ids)
        BY <2>1 DEF QueuedWrites
      <3>2. last.ids \o op.ids \in Seq(Ids) /\ op.ids \o last.ids \in Seq(Ids)
        BY <3>1
      <3>3. behind \in QueuedWrites
        <4>1. \A r \in QueuedWrites, s \in Seq(Ids) : [r EXCEPT !.ids = s] \in QueuedWrites
          BY DEF QueuedWrites
        <4>2. QED
          BY <2>1, <3>2, <4>1
      <3>4. QED
        BY <3>1, <3>2, <3>3 DEF QueuedWrites
    <2>3. /\ [q EXCEPT ![Len(q)] = behind] \in Seq(QueuedWrites)
          /\ [q EXCEPT ![Len(q)] = front] \in Seq(QueuedWrites)
      BY <2>1, <2>2
    <2>4. Append(q, op) \in Seq(QueuedWrites)
      OBVIOUS
    <2>5. Merged(q, op) \in {[q EXCEPT ![Len(q)] = behind],
                             [q EXCEPT ![Len(q)] = front], Append(q, op)}
      BY <1>2, <2>1 DEF Merged
    <2>6. QED
      BY <2>3, <2>4, <2>5
  <1>3. QED
    BY <1>1, <1>2

\* A queued write repeats one write's number.
LEMMA OneWriteBuffer ==
    ASSUME NEW n \in Nat, NEW v \in Ids
    PROVE  [i \in 1 .. n |-> v] \in Seq(Ids)
  OBVIOUS

\* Every step keeps positions and lengths numbers.
LEMMA NumbersStep ==
    ASSUME Shape, Numbers, Next
    PROVE  Numbers'
  <1>0. ASSUME NEW t \in Threads, UNCHANGED <<len, cursor, queue>>,
               UNCHANGED loc \/ loc' = [loc EXCEPT ![t] = NoCall]
        PROVE  Numbers'
    <2>1. /\ NoCall.where \in Nat /\ NoCall.n \in Nat /\ NoCall.old \in Nat
          /\ NoCall.opn \in Nat /\ NoCall.op \in QueuedWrites
      BY QueuedWriteFacts DEF NoCall
    <2>2. \A u \in Threads : loc'[u] = loc[u] \/ loc'[u] = NoCall
      BY <1>0 DEF Shape
    <2>3. QED
      BY <1>0, <2>1, <2>2 DEF Numbers
  <1>a. ASSUME NEW t \in Threads, NEW k \in 1 .. Size
        PROVE  Next0(t) + k \in Nat /\ loc[t].n + k \in Nat
    <2>1. loc[t].n \in Nat /\ loc[t].where \in Nat /\ cursor \in Nat
      BY DEF Numbers
    <2>2. k \in Nat
      BY FdIOAssumption
    <2>3. Next0(t) \in Nat
      BY <2>1 DEF Next0
    <2>4. QED
      BY <2>1, <2>2, <2>3
  <1> USE FdIOAssumption, QueuedWriteFacts DEF Shape, States, Fields, Numbers, Bytes
  <1>1. ASSUME NEW t \in Threads, NEW where \in Bytes, NEW n \in 1 .. MaxLen,
               QueueWrite(t, where, n)
        PROVE  Numbers'
    <2> DEFINE op == [where |-> where, ids |-> [i \in 1 .. n |-> NewId]]
    <2>1. op \in QueuedWrites
      <3>1. NewId \in Ids /\ n \in Nat /\ where \in Nat
        BY <1>1 DEF QueueWrite, NewWrite
      <3>2. [i \in 1 .. n |-> NewId] \in Seq(Ids)
        BY <3>1, OneWriteBuffer
      <3>3. QED
        BY <3>1, <3>2 DEF QueuedWrites
    <2>2. queue' \in Seq(QueuedWrites)
      BY <1>1, <2>1, MergedType DEF QueueWrite
    <2>3. QED
      BY <1>1, <2>2 DEF QueueWrite, kernelVars
  <1>2. ASSUME NEW t \in Threads, NEW where \in Bytes, NEW n \in 1 .. MaxLen,
               Pwrite(t, where, n)
        PROVE  Numbers'
    BY <1>2 DEF Pwrite, Calling, Begin, NewWrite, NoCall, kernelVars
  <1>3. ASSUME NEW t \in Threads, Pread(t) PROVE Numbers'
    BY <1>3 DEF Pread, Calling, Begin, NoCall, kernelVars
  <1>4. ASSUME NEW t \in Threads, Flush(t) PROVE Numbers'
    BY <1>4 DEF Flush, Calling, Begin, NoCall, kernelVars
  <1>5. ASSUME NEW t \in Threads, NEW n \in 1 .. MaxLen,
               GetMmapHandle(t, n)
        PROVE  Numbers'
    BY <1>5 DEF GetMmapHandle, Calling, Begin, NoCall, kernelVars
  <1>6. ASSUME NEW t \in Threads, NEW n \in 1 .. MaxLen, Read(t, n) PROVE Numbers'
    BY <1>6 DEF Read, Calling, Begin, NoCall, MayUseCursor, kernelVars
  <1>7. ASSUME NEW t \in Threads, NEW n \in 1 .. MaxLen, Write(t, n) PROVE Numbers'
    BY <1>7 DEF Write, Calling, Begin, NewWrite, NoCall, MayUseCursor, kernelVars
  <1>8. ASSUME NEW t \in Threads, NEW p \in Bytes, Seek(t, p) PROVE Numbers'
    BY <1>8 DEF Seek, Calling, MayUseCursor, Moved, kernelVars
  <1>9. ASSUME NEW t \in Threads, BeginTransaction(t) PROVE Numbers'
    <2>1. UNCHANGED <<len, cursor, queue, loc>>
      BY <1>9 DEF BeginTransaction, kernelVars
    <2>2. QED
      BY <2>1, <1>0
  <1>10. ASSUME NEW t \in Threads, EndTransaction(t) PROVE Numbers'
    <2>1. UNCHANGED <<len, cursor, queue, loc>>
      BY <1>10 DEF EndTransaction, kernelVars
    <2>2. QED
      BY <2>1, <1>0
  <1>11. ASSUME NEW t \in Threads, Acquire(t) PROVE Numbers'
    BY <1>11 DEF Acquire, kernelVars
  <1>12. ASSUME NEW t \in Threads, FlushPop(t) PROVE Numbers'
    <2>1. Head(queue) \in QueuedWrites /\ Tail(queue) \in Seq(QueuedWrites)
      BY <1>12 DEF FlushPop
    <2>2. QED
      BY <1>12, <2>1 DEF FlushPop, kernelVars
  <1>13. ASSUME NEW t \in Threads, NEW k \in 1 .. Size,
               FlushWrite(t, k)
        PROVE  Numbers'
    <2>1. /\ loc[t].opn + k \in Nat
          /\ loc[t].op.where + loc[t].opn + k \in Nat
      <3>1. loc[t].opn \in Nat /\ loc[t].op.where \in Nat /\ k \in Nat
        BY DEF QueuedWrites
      <3>2. \A a, c, d \in Nat : a + d \in Nat /\ c + a + d \in Nat
        OBVIOUS
      <3>3. QED
        BY <3>1, <3>2
    <2>2. len' \in Nat
      BY <1>13, <2>1 DEF FlushWrite, AtLeast
    <2>3. \/ loc' = [loc EXCEPT ![t].op = NoOp, ![t].opn = 0]
          \/ loc' = [loc EXCEPT ![t].opn = loc[t].opn + k]
      BY <1>13 DEF FlushWrite
    <2>4. QED
      BY <1>13, <2>1, <2>2, <2>3, ZenonT(60) DEF FlushWrite
  <1>14. ASSUME NEW t \in Threads, FlushFail(t) PROVE Numbers'
    BY <1>14 DEF FlushFail, Flushing, kernelVars
  <1>15. ASSUME NEW t \in Threads, FlushEnd(t) PROVE Numbers'
    <2>1. /\ UNCHANGED <<len, cursor, queue>>
          /\ UNCHANGED loc \/ loc' = [loc EXCEPT ![t] = NoCall]
      BY <1>15 DEF FlushEnd, Return, kernelVars
    <2>2. QED
      BY <2>1, <1>0
  <1>16. ASSUME NEW t \in Threads, NEW k \in 1 .. Size,
               SysWrite(t, k)
        PROVE  Numbers'
    <2>1. Next0(t) + k \in Nat /\ loc[t].n + k \in Nat
      BY <1>a
    <2>2. len' \in Nat /\ cursor' \in Nat
      BY <1>16, <2>1 DEF SysWrite, AtLeast
    <2>3. loc' = [loc EXCEPT ![t] = NoCall] \/ loc' = [loc EXCEPT ![t].n = loc[t].n + k]
      BY <1>16 DEF SysWrite, Return
    <2>4. queue' = queue
      BY <1>16 DEF SysWrite
    <2>5. CASE loc' = [loc EXCEPT ![t] = NoCall]
      BY <2>2, <2>4, <2>5 DEF NoCall
    <2>6. CASE loc' = [loc EXCEPT ![t].n = loc[t].n + k]
      BY <2>1, <2>2, <2>4, <2>6
    <2>7. QED
      BY <2>3, <2>5, <2>6
  <1>17. ASSUME NEW t \in Threads, SysFail(t) PROVE Numbers'
    <2>1. /\ UNCHANGED <<len, cursor, queue>>
          /\ UNCHANGED loc \/ loc' = [loc EXCEPT ![t] = NoCall]
      BY <1>17 DEF SysFail, Return, kernelVars
    <2>2. QED
      BY <2>1, <1>0
  <1>18. ASSUME NEW t \in Threads, NEW k \in 1 .. Size, SysRead(t, k) PROVE Numbers'
    <2>1. Next0(t) + k \in Nat /\ loc[t].n + k \in Nat
      BY <1>a
    <2>2. cursor' \in Nat
      BY <1>18, <2>1 DEF SysRead
    <2>3. \A u \in Threads :
            /\ loc'[u].where = loc[u].where /\ loc'[u].old = loc[u].old
            /\ loc'[u].op = loc[u].op       /\ loc'[u].opn = loc[u].opn
            /\ loc'[u].n \in {loc[u].n, loc[t].n + k}
      BY <1>18 DEF SysRead
    <2>4. QED
      BY <1>18, <2>1, <2>2, <2>3 DEF SysRead
  <1>19. ASSUME NEW t \in Threads, SysReadEnd(t) PROVE Numbers'
    <2>1. /\ UNCHANGED <<len, cursor, queue>>
          /\ UNCHANGED loc \/ loc' = [loc EXCEPT ![t] = NoCall]
      BY <1>19 DEF SysReadEnd, Return, kernelVars
    <2>2. QED
      BY <2>1, <1>0
  <1>20. ASSUME NEW t \in Threads, MmapEnd(t) PROVE Numbers'
    BY <1>20 DEF MmapEnd, kernelVars
  <1>21. ASSUME NEW t \in Threads, MmapGrow(t) PROVE Numbers'
    BY <1>21 DEF MmapGrow, kernelVars, AtLeast, GrownTo
  <1>22. ASSUME NEW t \in Threads, MmapRestore(t) PROVE Numbers'
    BY <1>22 DEF MmapRestore, Released, RestoredCursor, Return, NoCall, kernelVars
  <1>23. QED
    BY <1>1, <1>2, <1>3, <1>4, <1>5, <1>6, <1>7, <1>8, <1>9, <1>10, <1>11, <1>12,
       <1>13, <1>14, <1>15, <1>16, <1>17, <1>18, <1>19, <1>20, <1>21, <1>22
       DEF Next, Step, Call

----------------------------------------------------------------------------
(* Merging queued writes *)

\* Queued write op, past its first i bytes, has write x's byte for b.
HoldsAt(op, i, x, b) == \E j \in i + 1 .. Len(op.ids) : op.ids[j] = x /\ b = op.where + j - 1

\* Write c is a followed by b, where a ends.
Joined(a, b, c) ==
    /\ a.where + Len(a.ids) = b.where
    /\ c = [where |-> a.where, ids |-> a.ids \o b.ids]

\* The queue after a merge: all but the last write stay, and the last is the new write or is
\* joined with it.
LEMMA MergedShape ==
    ASSUME NEW q \in Seq(QueuedWrites), NEW op \in QueuedWrites
    PROVE  \E n \in Nat \ {0} :
              /\ DOMAIN Merged(q, op) = 1 .. n
              /\ \A i \in 1 .. n - 1 : i \in DOMAIN q /\ Merged(q, op)[i] = q[i]
              /\ \/ Len(q) = n - 1 /\ Merged(q, op)[n] = op
                 \/ /\ Len(q) = n
                    /\ \/ Joined(q[n], op, Merged(q, op)[n])
                       \/ Joined(op, q[n], Merged(q, op)[n])
  <1> DEFINE n == Len(q)
             last == q[n]
             behind == [last EXCEPT !.ids = @ \o op.ids]
             front == [where |-> op.where, ids |-> op.ids \o last.ids]
  <1>1. ASSUME Merged(q, op) = Append(q, op)
        PROVE  /\ n + 1 \in Nat \ {0} /\ DOMAIN Merged(q, op) = 1 .. n + 1
               /\ \A i \in 1 .. n : i \in DOMAIN q /\ Merged(q, op)[i] = q[i]
               /\ Merged(q, op)[n + 1] = op
    BY <1>1
  <1>2. ASSUME q # <<>>, NEW r, Merged(q, op) = [q EXCEPT ![n] = r]
        PROVE  /\ n \in Nat \ {0} /\ DOMAIN Merged(q, op) = 1 .. n
               /\ \A i \in 1 .. n - 1 : i \in DOMAIN q /\ Merged(q, op)[i] = q[i]
               /\ Merged(q, op)[n] = r
    BY <1>2
  <1>3. ASSUME q # <<>> PROVE last \in QueuedWrites
    BY <1>3
  <1>4. CASE q # <<>> /\ last.where + Len(last.ids) = op.where
    <2>1. Merged(q, op) = [q EXCEPT ![n] = behind]
      BY <1>4 DEF Merged
    <2>2. behind = [where |-> last.where, ids |-> last.ids \o op.ids]
      <3>1. ASSUME NEW r \in QueuedWrites, NEW v
            PROVE  [r EXCEPT !.ids = v] = [where |-> r.where, ids |-> v]
        <4>1. PICK w \in Nat, s \in Seq(Ids) : r = [where |-> w, ids |-> s]
          BY DEF QueuedWrites
        <4>2. QED
          BY <4>1
      <3>2. behind = [last EXCEPT !.ids = last.ids \o op.ids]
        OBVIOUS
      <3>3. QED
        BY <1>3, <1>4, <3>1, <3>2
    <2> HIDE DEF behind, last
    <2>3. Joined(last, op, Merged(q, op)[n])
      BY <1>2, <1>4, <2>1, <2>2 DEF Joined
    <2>4. QED
      BY <1>2, <1>4, <2>1, <2>3 DEF last
  <1>5. CASE /\ q # <<>> /\ op.where + Len(op.ids) = last.where
             /\ ~(last.where + Len(last.ids) = op.where)
    <2>1. Merged(q, op) = [q EXCEPT ![n] = front]
      BY <1>5 DEF Merged
    <2> HIDE DEF front
    <2>2. Merged(q, op)[n] = front
      BY <1>2, <1>5, <2>1
    <2>3. Joined(op, last, Merged(q, op)[n])
      BY <1>5, <2>2 DEF Joined, front
    <2>4. QED
      BY <1>2, <1>5, <2>1, <2>3
  <1>6. CASE ~(q # <<>> /\ \/ last.where + Len(last.ids) = op.where
                           \/ op.where + Len(op.ids) = last.where)
    <2>1. Merged(q, op) = Append(q, op)
      BY <1>6 DEF Merged
    <2>2. n = (n + 1) - 1 /\ n \in Nat
      OBVIOUS
    <2>3. QED
      BY <1>1, <2>1, <2>2
  <1>7. QED
    BY <1>4, <1>5, <1>6

\* A byte of two buffers put together is one of the first or one of the second.
LEMMA ConcatFacts ==
    ASSUME NEW s \in Seq(Ids), NEW u \in Seq(Ids)
    PROVE  /\ s \o u \in Seq(Ids) /\ Len(s \o u) = Len(s) + Len(u)
           /\ Len(s) \in Nat /\ Len(u) \in Nat
           /\ \A j \in 1 .. Len(s) : (s \o u)[j] = s[j]
           /\ \A j \in 1 .. Len(u) : (s \o u)[Len(s) + j] = u[j]
  OBVIOUS

\* The bytes s at p hold x at y.
Placed(s, p, x, y) == \E j \in 1 .. Len(s) : s[j] = x /\ y = p + j - 1

\* Two adjacent buffers hold together what each of them holds.
LEMMA ConcatHolds ==
    ASSUME NEW p \in Nat, NEW s \in Seq(Ids), NEW u \in Seq(Ids), NEW x, NEW y
    PROVE  Placed(s \o u, p, x, y) <=> Placed(s, p, x, y) \/ Placed(u, p + Len(s), x, y)
  <1> DEFINE c == s \o u
  <1>0. /\ Len(s) \in Nat /\ Len(u) \in Nat /\ Len(c) = Len(s) + Len(u)
        /\ \A j \in 1 .. Len(s) : c[j] = s[j]
        /\ \A j \in 1 .. Len(u) : c[Len(s) + j] = u[j]
    BY ConcatFacts
  <1> HIDE DEF c
  <1>1. ASSUME NEW m \in Nat, NEW n \in Nat, m = Len(s), n = Len(u)
        PROVE  Placed(c, p, x, y) <=> Placed(s, p, x, y) \/ Placed(u, p + Len(s), x, y)
    <2>1. /\ Len(c) = m + n
          /\ \A j \in 1 .. m : c[j] = s[j]
          /\ \A j \in 1 .. n : c[m + j] = u[j]
      BY <1>0, <1>1
    <2>2. ASSUME NEW j \in 1 .. m + n, c[j] = x, y = p + j - 1
          PROVE  \/ \E i \in 1 .. m : s[i] = x /\ y = p + i - 1
                 \/ \E i \in 1 .. n : u[i] = x /\ y = p + m + i - 1
      <3>1. CASE j <= m
        BY <2>1, <2>2, <3>1
      <3>2. CASE ~(j <= m)
        <4>1. j - m \in 1 .. n /\ y = p + m + (j - m) - 1 /\ m + (j - m) = j
          BY <2>2, <3>2
        <4>2. u[j - m] = x
          BY <2>1, <2>2, <4>1
        <4>3. QED
          BY <4>1, <4>2
      <3>3. QED
        BY <3>1, <3>2
    <2>3. ASSUME NEW j \in 1 .. m, s[j] = x, y = p + j - 1
          PROVE  j \in 1 .. m + n /\ c[j] = x
      BY <2>1, <2>3
    <2>4. ASSUME NEW j \in 1 .. n, u[j] = x, y = p + m + j - 1
          PROVE  m + j \in 1 .. m + n /\ c[m + j] = x /\ y = p + (m + j) - 1
      BY <2>1, <2>4
    <2>5. (\E j \in 1 .. m + n : c[j] = x /\ y = p + j - 1) <=>
              \/ \E j \in 1 .. m : s[j] = x /\ y = p + j - 1
              \/ \E j \in 1 .. n : u[j] = x /\ y = p + m + j - 1
      BY <2>2, <2>3, <2>4
    <2>6. QED
      BY <1>1, <2>1, <2>5 DEF Placed
  <1>2. QED
    BY <1>0, <1>1 DEF c

\* Two writes joined write what both did.
LEMMA JoinedFacts ==
    ASSUME NEW a \in QueuedWrites, NEW b \in QueuedWrites, NEW c, Joined(a, b, c)
    PROVE  /\ c \in QueuedWrites
           /\ c.where = a.where /\ c.where + Len(c.ids) = b.where + Len(b.ids)
           /\ a.ids # <<>> \/ b.ids # <<>> => c.ids # <<>>
           /\ \A x, y : HoldsAt(c, 0, x, y) <=> HoldsAt(a, 0, x, y) \/ HoldsAt(b, 0, x, y)
  <1>1. PICK p, q, s, u : p = a.where /\ q = b.where /\ s = a.ids /\ u = b.ids
    OBVIOUS
  <1>2. /\ p \in Nat /\ q \in Nat /\ s \in Seq(Ids) /\ u \in Seq(Ids) /\ p + Len(s) = q
        /\ c.where = p /\ c.ids = s \o u /\ c = [where |-> p, ids |-> s \o u]
    BY <1>1 DEF Joined, QueuedWrites
  <1>3. /\ s \o u \in Seq(Ids) /\ Len(s \o u) = Len(s) + Len(u)
        /\ Len(s) \in Nat /\ Len(u) \in Nat
    BY <1>2, ConcatFacts
  <1>4. c \in QueuedWrites
    BY <1>2, <1>3 DEF QueuedWrites
  <1>5. c.where = a.where /\ c.where + Len(c.ids) = b.where + Len(b.ids)
    <2>1. p + (Len(s) + Len(u)) = (p + Len(s)) + Len(u)
      BY <1>2, <1>3
    <2>2. QED
      BY <1>1, <1>2, <1>3, <2>1
  <1>6. s # <<>> \/ u # <<>> => s \o u # <<>>
    BY <1>2
  <1>7. ASSUME NEW x, NEW y
        PROVE  HoldsAt(c, 0, x, y) <=> HoldsAt(a, 0, x, y) \/ HoldsAt(b, 0, x, y)
    <2>1. HoldsAt(c, 0, x, y) <=> Placed(s \o u, p, x, y)
      BY <1>2 DEF HoldsAt, Placed
    <2>2. HoldsAt(a, 0, x, y) <=> Placed(s, p, x, y)
      BY <1>1 DEF HoldsAt, Placed
    <2>3. HoldsAt(b, 0, x, y) <=> Placed(u, p + Len(s), x, y)
      BY <1>1, <1>2 DEF HoldsAt, Placed
    <2>4. QED
      BY <1>2, <2>1, <2>2, <2>3, ConcatHolds
  <1>8. QED
    BY <1>1, <1>2, <1>4, <1>5, <1>6, <1>7

\* What a queue holds once op is merged into it: what it held, and op last.
LEMMA MergedHolds ==
    ASSUME NEW q \in Seq(QueuedWrites), NEW op \in QueuedWrites
    PROVE  \E n \in Nat \ {0} :
              /\ DOMAIN Merged(q, op) = 1 .. n
              /\ DOMAIN q \subseteq 1 .. n
              /\ \A i \in 1 .. n : \A x, b :
                    HoldsAt(Merged(q, op)[i], 0, x, b) <=>
                       \/ i \in DOMAIN q /\ HoldsAt(q[i], 0, x, b)
                       \/ i = n /\ HoldsAt(op, 0, x, b)
  <1>1. PICK n \in Nat \ {0} :
              /\ DOMAIN Merged(q, op) = 1 .. n
              /\ \A i \in 1 .. n - 1 : i \in DOMAIN q /\ Merged(q, op)[i] = q[i]
              /\ \/ Len(q) = n - 1 /\ Merged(q, op)[n] = op
                 \/ /\ Len(q) = n
                    /\ \/ Joined(q[n], op, Merged(q, op)[n])
                       \/ Joined(op, q[n], Merged(q, op)[n])
    BY MergedShape
  <1>2. DOMAIN q = 1 .. Len(q) /\ Len(q) \in Nat /\ Len(q) \in {n - 1, n}
    BY <1>1
  <1>3. DOMAIN q \subseteq 1 .. n
    <2>1. \A m \in Nat : m \in {n - 1, n} => 1 .. m \subseteq 1 .. n
      OBVIOUS
    <2>2. QED
      BY <1>2, <2>1
  <1>4. ASSUME NEW x, NEW b
        PROVE  HoldsAt(Merged(q, op)[n], 0, x, b) <=>
                       \/ n \in DOMAIN q /\ HoldsAt(q[n], 0, x, b)
                       \/ HoldsAt(op, 0, x, b)
    <2>1. CASE Len(q) = n - 1 /\ Merged(q, op)[n] = op
      <3>1. n \notin DOMAIN q
        BY <1>2, <2>1
      <3>2. QED
        BY <2>1, <3>1
    <2>2. CASE /\ Len(q) = n
               /\ \/ Joined(q[n], op, Merged(q, op)[n])
                  \/ Joined(op, q[n], Merged(q, op)[n])
      <3>1. n \in DOMAIN q /\ q[n] \in QueuedWrites
        BY <1>2, <2>2
      <3>2. QED
        BY <2>2, <3>1, JoinedFacts
    <2>3. QED
      BY <1>1, <2>1, <2>2
  <1>5. ASSUME NEW i \in 1 .. n - 1, NEW x, NEW b
        PROVE  HoldsAt(Merged(q, op)[i], 0, x, b) <=>
                       \/ i \in DOMAIN q /\ HoldsAt(q[i], 0, x, b)
                       \/ i = n /\ HoldsAt(op, 0, x, b)
    <2>1. i # n
      OBVIOUS
    <2>2. QED
      BY <1>1, <2>1
  <1>6. \A i \in 1 .. n : i = n \/ i \in 1 .. n - 1
    OBVIOUS
  <1>7. \A i \in 1 .. n : \A x, b :
                    HoldsAt(Merged(q, op)[i], 0, x, b) <=>
                       \/ i \in DOMAIN q /\ HoldsAt(q[i], 0, x, b)
                       \/ i = n /\ HoldsAt(op, 0, x, b)
    BY <1>4, <1>5, <1>6, Zenon
  <1>8. QED
    BY <1>1, <1>3, <1>7

\* Merged writes are as wide as what was merged.
LEMMA MergedBounds ==
    ASSUME NEW q \in Seq(QueuedWrites), NEW op \in QueuedWrites,
           op.ids # <<>>, op.where + Len(op.ids) <= Size,
           \A i \in DOMAIN q : q[i].ids # <<>> /\ q[i].where + Len(q[i].ids) <= Size
    PROVE  \A i \in DOMAIN Merged(q, op) :
              /\ Merged(q, op)[i].ids # <<>>
              /\ Merged(q, op)[i].where + Len(Merged(q, op)[i].ids) <= Size
  <1> DEFINE Fits(r) == r.ids # <<>> /\ r.where + Len(r.ids) <= Size
  <1>1. PICK n \in Nat \ {0} :
              /\ DOMAIN Merged(q, op) = 1 .. n
              /\ \A i \in 1 .. n - 1 : i \in DOMAIN q /\ Merged(q, op)[i] = q[i]
              /\ \/ Len(q) = n - 1 /\ Merged(q, op)[n] = op
                 \/ /\ Len(q) = n
                    /\ \/ Joined(q[n], op, Merged(q, op)[n])
                       \/ Joined(op, q[n], Merged(q, op)[n])
    BY MergedShape
  <1>2. ASSUME NEW a \in QueuedWrites, NEW b \in QueuedWrites, NEW c, Joined(a, b, c),
               Fits(a), Fits(b)
        PROVE  Fits(c)
    BY <1>2, JoinedFacts
  <1>3. Fits(op) /\ \A i \in DOMAIN q : Fits(q[i])
    OBVIOUS
  <1> HIDE DEF Fits
  <1>4. Fits(Merged(q, op)[n])
    <2>1. CASE Len(q) = n
      <3>1. n \in DOMAIN q /\ q[n] \in QueuedWrites
        BY <2>1
      <3>2. QED
        BY <1>1, <1>2, <1>3, <2>1, <3>1
    <2>2. QED
      BY <1>1, <1>3, <2>1
  <1>5. \A i \in 1 .. n : i = n \/ i \in 1 .. n - 1
    OBVIOUS
  <1>6. \A i \in DOMAIN Merged(q, op) : Fits(Merged(q, op)[i])
    BY <1>1, <1>3, <1>4, <1>5
  <1>7. QED
    BY <1>6 DEF Fits

----------------------------------------------------------------------------
(* Types and bounds *)

\* A call's local variables stay inside the file and the buffers they count in.
IsBounded(l) ==
    /\ l.ids \in Seq(Ids \cup {Hole})
    /\ l.n <= Len(l.ids)
    /\ l.opn <= Len(l.op.ids)
    /\ l.op.where + Len(l.op.ids) <= Size
    /\ l.where <= Size
    /\ l.old <= Size
    /\ l.call \in {"pwrite", "write"} => l.ids # <<>> /\ l.ids[1] \in Ids

\* The file, its length and its cursor are within the bound, and so is what a transaction
\* remembers of the cursor.
FileBounds ==
    /\ file \in [Bytes -> Ids \cup {Hole}]
    /\ len <= Size
    /\ cursor <= Size
    /\ at \in [Threads -> -1 .. Size]

\* No queued write is empty or reaches over the bound.
QueueBounds ==
    \A i \in DOMAIN queue :
       queue[i].ids # <<>> /\ queue[i].where + Len(queue[i].ids) <= Size

\* The history is about writes and bytes.
HistoryTypes ==
    /\ range \in [Ids -> SUBSET Bytes]
    /\ before \in [Ids -> SUBSET Ids]
    /\ done \subseteq Ids

CallBounds == \A t \in Threads : IsBounded(loc[t])

Bounds == FileBounds /\ QueueBounds /\ HistoryTypes /\ CallBounds

\* A call begins with nothing transferred and nothing to flush.
LEMMA FreshIsBounded ==
    ASSUME NEW l, l.n = 0, l.opn = 0, l.op = NoOp, l.old = 0, l.where \in 0 .. Size,
           l.ids \in Seq(Ids \cup {Hole}),
           l.call \in {"pwrite", "write"} => l.ids # <<>> /\ l.ids[1] \in Ids
    PROVE  IsBounded(l)
  BY FdIOAssumption DEF IsBounded, NoOp

\* A buffer that repeats one write's number is a buffer of numbers.
LEMMA ConstantBuffer ==
    ASSUME NEW n \in Nat, NEW v \in Ids \cup {Hole}
    PROVE  /\ [i \in 1 .. n |-> v] \in Seq(Ids \cup {Hole})
           /\ n > 0 => [i \in 1 .. n |-> v] # <<>> /\ [i \in 1 .. n |-> v][1] = v
  OBVIOUS

\* Bytes transferred inside the file are bytes of the file.
LEMMA SpanInside ==
    ASSUME NEW where \in Nat, NEW i \in Nat, NEW k \in Nat, NEW n \in Nat, k <= n - i
    PROVE  /\ where + i + k \in Nat /\ where + i + k <= where + n /\ where + n \in Nat
           /\ \A b \in Span(where + i, k) : b - where + 1 \in 1 .. n
  BY DEF Span

\* What queueWrite is given: n bytes of the new write.
LEMMA QueuedOp ==
    ASSUME Numbers, NEW t, NEW where \in Bytes, NEW n \in 1 .. MaxLen, QueueWrite(t, where, n)
    PROVE  \E op \in QueuedWrites :
              /\ op = [where |-> where, ids |-> [i \in 1 .. n |-> NewId]]
              /\ op.ids # <<>> /\ op.where + Len(op.ids) <= Size
              /\ \A x, b : HoldsAt(op, 0, x, b) <=> x = NewId /\ b \in Span(where, n)
              /\ queue' = Merged(queue, op)
  <1> DEFINE ids == [i \in 1 .. n |-> NewId]
             op == [where |-> where, ids |-> ids]
  <1>1. NewId \in Ids /\ n \in Nat /\ n > 0 /\ where \in Nat /\ where + n <= Size
    BY FdIOAssumption DEF QueueWrite, NewWrite, Bytes
  <1>2. /\ ids \in Seq(Ids) /\ Len(ids) = n /\ ids # <<>>
        /\ \A i \in 1 .. n : ids[i] = NewId
    BY <1>1
  <1> HIDE DEF ids
  <1>3. op \in QueuedWrites /\ op.where = where /\ op.ids = ids
    BY <1>1, <1>2 DEF QueuedWrites
  <1>4. queue' = Merged(queue, op)
    BY DEF QueueWrite, ids
  <1> HIDE DEF op
  <1>5. ASSUME NEW x, NEW b
        PROVE  HoldsAt(op, 0, x, b) <=> x = NewId /\ b \in Span(where, n)
    <2>1. HoldsAt(op, 0, x, b) <=> \E j \in 1 .. n : x = NewId /\ b = where + j - 1
      <3>1. Len(op.ids) = n /\ \A j \in 1 .. n : op.ids[j] = NewId
        BY <1>2, <1>3
      <3>2. 0 + 1 = 1
        OBVIOUS
      <3>3. QED
        BY <1>3, <3>1, <3>2, Zenon DEF HoldsAt
    <2>2. (\E j \in 1 .. n : b = where + j - 1) <=> b \in Span(where, n)
      <3>1. ASSUME b \in Span(where, n)
              PROVE  b - where + 1 \in 1 .. n /\ b = where + (b - where + 1) - 1
        BY <1>1, <3>1 DEF Span
      <3>2. ASSUME NEW j \in 1 .. n, b = where + j - 1 PROVE b \in Span(where, n)
        BY <1>1, <3>2 DEF Span
      <3>3. QED
        BY <3>1, <3>2
    <2>3. QED
      BY <2>1, <2>2
  <1>6. QED
    BY <1>1, <1>2, <1>3, <1>4, <1>5 DEF op, ids

\* Every step keeps the cursor, the queue and the calls' local variables inside the file.
LEMMA BoundsStep ==
    ASSUME Shape, Numbers, Bounds, Next
    PROVE  Bounds'
  <1>0. <<>> \in Seq(Ids \cup {Hole})
    OBVIOUS
  <1>a. IsBounded(NoCall)
    <2>1. /\ NoCall.n = 0 /\ NoCall.opn = 0 /\ NoCall.op = NoOp /\ NoCall.old = 0
          /\ NoCall.where = 0 /\ NoCall.ids \in Seq(Ids \cup {Hole}) /\ NoCall.call = "none"
      BY <1>0 DEF NoCall
    <2> HIDE DEF NoCall
    <2>2. QED
      BY <2>1, FreshIsBounded, FdIOAssumption
  <1>b. ASSUME NEW t \in Threads, NEW p, NEW l, Begin(t, p, l), DOMAIN l = Fields,
               l.n = 0, l.opn = 0, l.op = NoOp, l.old = 0, l.where \in 0 .. Size,
               l.ids \in Seq(Ids \cup {Hole}),
               l.call \in {"pwrite", "write"} => l.ids # <<>> /\ l.ids[1] \in Ids
        PROVE  CallBounds'
    <2>1. IsBounded([l EXCEPT !.snap = done])
      <3> DEFINE m == [l EXCEPT !.snap = done]
      <3>1. /\ m.n = 0 /\ m.opn = 0 /\ m.op = NoOp /\ m.old = 0 /\ m.where = l.where
            /\ m.ids = l.ids /\ m.call = l.call
        BY <1>b DEF Fields
      <3> HIDE DEF m
      <3>2. IsBounded(m)
        BY <1>b, <3>1, FreshIsBounded
      <3>3. QED
        BY <3>2 DEF m
    <2>2. \A u \in Threads : loc'[u] \in {loc[u], [l EXCEPT !.snap = done]}
      BY <1>b DEF Begin, Shape
    <2>3. QED
      BY <2>1, <2>2 DEF Bounds, CallBounds
  <1>c. ASSUME NEW t \in Threads, UNCHANGED loc \/ loc' = [loc EXCEPT ![t] = NoCall]
        PROVE  CallBounds'
    <2>1. \A u \in Threads : loc'[u] \in {loc[u], NoCall}
      BY <1>c DEF Shape
    <2>2. QED
      BY <2>1, <1>a DEF Bounds, CallBounds
  <1>d. ASSUME UNCHANGED <<file, len, cursor, at>> PROVE FileBounds'
    BY <1>d DEF Bounds, FileBounds
  <1>e. ASSUME UNCHANGED queue PROVE QueueBounds'
    BY <1>e DEF Bounds, QueueBounds
  <1>f. ASSUME UNCHANGED <<range, before, done>> PROVE HistoryTypes'
    BY <1>f DEF Bounds, HistoryTypes
  <1>g. ASSUME NEW id, NEW where \in Nat, NEW n \in 1 .. MaxLen, NewWrite(id, where, n),
               done' \in {done, done \cup {id}}
        PROVE  HistoryTypes'
    <2>1. Span(where, n) \subseteq Bytes
      BY <1>g, FdIOAssumption DEF NewWrite, Span, Bytes
    <2>2. QED
      BY <1>g, <2>1 DEF NewWrite, Bounds, HistoryTypes
  <1>1. ASSUME NEW t \in Threads, NEW where \in Bytes, NEW n \in 1 .. MaxLen,
               QueueWrite(t, where, n)
        PROVE  Bounds'
    <2>1. /\ UNCHANGED <<file, len, cursor, at, loc>> /\ where \in Nat
          /\ NewWrite(NewId, where, n) /\ done' = done \cup {NewId}
      BY <1>1, FdIOAssumption DEF QueueWrite, Bytes, kernelVars
    <2>2. QueueBounds'
      <3>1. PICK op \in QueuedWrites :
                   op.ids # <<>> /\ op.where + Len(op.ids) <= Size /\ queue' = Merged(queue, op)
        BY <1>1, QueuedOp
      <3>2. queue \in Seq(QueuedWrites)
        BY DEF Numbers
      <3>3. \A i \in DOMAIN queue :
               queue[i].ids # <<>> /\ queue[i].where + Len(queue[i].ids) <= Size
        BY DEF Bounds, QueueBounds
      <3>4. QED
        BY <3>1, <3>2, <3>3, MergedBounds DEF QueueBounds
    <2>3. QED
      BY <1>c, <1>d, <1>g, <2>1, <2>2 DEF Bounds
  <1>2. ASSUME NEW t \in Threads, NEW where \in Bytes, NEW n \in 1 .. MaxLen,
               Pwrite(t, where, n)
        PROVE  Bounds'
    <2> DEFINE ids == [i \in 1 .. n |-> NewId]
               l == [NoCall EXCEPT !.call = "pwrite", !.where = where, !.ids = ids]
    <2>1. /\ NewId \in Ids /\ n \in Nat /\ n > 0 /\ where \in Nat /\ where + n <= Size
          /\ Begin(t, "lock", l) /\ NewWrite(NewId, where, n)
          /\ UNCHANGED <<file, len, cursor, at, queue, done>>
      BY <1>2, FdIOAssumption DEF Pwrite, NewWrite, Bytes, kernelVars
    <2>2. ids \in Seq(Ids \cup {Hole}) /\ ids # <<>> /\ ids[1] \in Ids
      BY <2>1, ConstantBuffer
    <2> HIDE DEF ids
    <2>3. /\ DOMAIN l = Fields /\ l.n = 0 /\ l.opn = 0 /\ l.op = NoOp /\ l.old = 0
          /\ l.where = where /\ l.ids = ids
      BY DEF NoCall, Fields
    <2>4. where \in 0 .. Size
      BY <2>1, FdIOAssumption
    <2> HIDE DEF l
    <2>5. CallBounds'
      BY <1>b, <2>1, <2>2, <2>3, <2>4
    <2>6. QED
      BY <1>d, <1>e, <1>g, <2>1, <2>5 DEF Bounds
  <1>3. ASSUME NEW t \in Threads, Pread(t) PROVE Bounds'
    <2> DEFINE ids == [i \in 1 .. Size |-> Hole]
               l == [NoCall EXCEPT !.call = "pread", !.ids = ids]
    <2>1. ids \in Seq(Ids \cup {Hole})
      BY ConstantBuffer, FdIOAssumption
    <2> HIDE DEF ids
    <2>2. /\ DOMAIN l = Fields /\ l.n = 0 /\ l.opn = 0 /\ l.op = NoOp /\ l.old = 0
          /\ l.where = 0 /\ l.ids = ids /\ l.call = "pread"
      BY DEF NoCall, Fields
    <2>3. Begin(t, "lock", l) /\ UNCHANGED <<file, len, cursor, at, queue, range, before, done>>
      BY <1>3 DEF Pread, kernelVars, histVars, ids
    <2> HIDE DEF l
    <2>4. CallBounds'
      BY <1>b, <2>1, <2>2, <2>3, FdIOAssumption
    <2>5. QED
      BY <1>d, <1>e, <1>f, <2>3, <2>4 DEF Bounds
  <1>4. ASSUME NEW t \in Threads, Flush(t) PROVE Bounds'
    <2> DEFINE l == [NoCall EXCEPT !.call = "flush"]
    <2>1. /\ DOMAIN l = Fields /\ l.n = 0 /\ l.opn = 0 /\ l.op = NoOp /\ l.old = 0
          /\ l.where = 0 /\ l.ids \in Seq(Ids \cup {Hole}) /\ l.call = "flush"
      BY <1>0 DEF NoCall, Fields
    <2>2. Begin(t, "lock", l) /\ UNCHANGED <<file, len, cursor, at, queue, range, before, done>>
      BY <1>4 DEF Flush, kernelVars, histVars
    <2> HIDE DEF l
    <2>3. CallBounds'
      BY <1>b, <2>1, <2>2, FdIOAssumption
    <2>4. QED
      BY <1>d, <1>e, <1>f, <2>2, <2>3 DEF Bounds
  <1>5. ASSUME NEW t \in Threads, NEW n \in 1 .. MaxLen, GetMmapHandle(t, n) PROVE Bounds'
    <2> DEFINE l == [NoCall EXCEPT !.call = "mmap", !.where = n]
    <2>1. /\ DOMAIN l = Fields /\ l.n = 0 /\ l.opn = 0 /\ l.op = NoOp /\ l.old = 0
          /\ l.where = n /\ l.ids \in Seq(Ids \cup {Hole}) /\ l.call = "mmap"
      BY <1>0 DEF NoCall, Fields
    <2>2. Begin(t, "lock", l) /\ UNCHANGED <<file, len, cursor, at, queue, range, before, done>>
      BY <1>5 DEF GetMmapHandle, kernelVars, histVars
    <2> HIDE DEF l
    <2>3. CallBounds'
      BY <1>b, <2>1, <2>2, FdIOAssumption
    <2>4. QED
      BY <1>d, <1>e, <1>f, <2>2, <2>3 DEF Bounds
  <1>6. ASSUME NEW t \in Threads, NEW n \in 1 .. MaxLen, Read(t, n) PROVE Bounds'
    <2> DEFINE ids == [i \in 1 .. n |-> Hole]
               l == [NoCall EXCEPT !.call = "read", !.ids = ids]
    <2>1. ids \in Seq(Ids \cup {Hole})
      BY ConstantBuffer, FdIOAssumption
    <2> HIDE DEF ids
    <2>2. /\ DOMAIN l = Fields /\ l.n = 0 /\ l.opn = 0 /\ l.op = NoOp /\ l.old = 0
          /\ l.where = 0 /\ l.ids = ids /\ l.call = "read"
      BY DEF NoCall, Fields
    <2>3. Begin(t, "lock", l) /\ UNCHANGED <<file, len, cursor, at, queue, range, before, done>>
      BY <1>6 DEF Read, kernelVars, histVars, ids
    <2> HIDE DEF l
    <2>4. CallBounds'
      BY <1>b, <2>1, <2>2, <2>3, FdIOAssumption
    <2>5. QED
      BY <1>d, <1>e, <1>f, <2>3, <2>4 DEF Bounds
  <1>7. ASSUME NEW t \in Threads, NEW n \in 1 .. MaxLen, Write(t, n) PROVE Bounds'
    <2> DEFINE ids == [i \in 1 .. n |-> NewId]
               l == [NoCall EXCEPT !.call = "write", !.where = cursor, !.ids = ids]
    <2>1. /\ NewId \in Ids /\ n \in Nat /\ n > 0 /\ cursor \in Nat /\ cursor + n <= Size
          /\ Begin(t, "sys", l) /\ NewWrite(NewId, cursor, n)
          /\ UNCHANGED <<file, len, cursor, at, queue, done>>
      BY <1>7, FdIOAssumption DEF Write, NewWrite, Numbers, kernelVars
    <2>2. ids \in Seq(Ids \cup {Hole}) /\ ids # <<>> /\ ids[1] \in Ids
      BY <2>1, ConstantBuffer
    <2> HIDE DEF ids
    <2>3. /\ DOMAIN l = Fields /\ l.n = 0 /\ l.opn = 0 /\ l.op = NoOp /\ l.old = 0
          /\ l.where = cursor /\ l.ids = ids
      BY DEF NoCall, Fields
    <2>4. cursor \in 0 .. Size
      BY <2>1, FdIOAssumption
    <2> HIDE DEF l
    <2>5. CallBounds'
      BY <1>b, <2>1, <2>2, <2>3, <2>4
    <2>6. QED
      BY <1>d, <1>e, <1>g, <2>1, <2>5 DEF Bounds
  <1>8. ASSUME NEW t \in Threads, NEW p \in Bytes, Seek(t, p) PROVE Bounds'
    <2>1. UNCHANGED <<file, len, queue, loc, range, before, done>>
      BY <1>8 DEF Seek, histVars
    <2>2. FileBounds'
      BY <1>8, FdIOAssumption DEF Seek, Moved, Bytes, Bounds, FileBounds, Shape
    <2>3. QED
      BY <1>c, <1>e, <1>f, <2>1, <2>2 DEF Bounds
  <1>9. ASSUME NEW t \in Threads, BeginTransaction(t) PROVE Bounds'
    <2>1. UNCHANGED <<file, len, cursor, queue, loc, range, before, done>>
      BY <1>9 DEF BeginTransaction, kernelVars, histVars
    <2>2. FileBounds'
      BY <1>9, <2>1, FdIOAssumption DEF BeginTransaction, Bounds, FileBounds, Numbers
    <2>3. QED
      BY <1>c, <1>e, <1>f, <2>1, <2>2 DEF Bounds
  <1>10. ASSUME NEW t \in Threads, EndTransaction(t) PROVE Bounds'
    <2>1. UNCHANGED <<file, len, cursor, queue, loc, range, before, done>>
      BY <1>10 DEF EndTransaction, kernelVars, histVars
    <2>2. FileBounds'
      BY <1>10, <2>1, FdIOAssumption DEF EndTransaction, Bounds, FileBounds
    <2>3. QED
      BY <1>c, <1>e, <1>f, <2>1, <2>2 DEF Bounds
  <1>11. ASSUME NEW t \in Threads, Acquire(t) PROVE Bounds'
    <2>1. UNCHANGED <<file, len, cursor, at, queue, range, before, done>>
      BY <1>11 DEF Acquire, kernelVars, histVars
    <2>2. CallBounds'
      BY <1>11 DEF Acquire, Shape, Fields, Bounds, FileBounds, CallBounds, IsBounded
    <2>3. QED
      BY <1>d, <1>e, <1>f, <2>1, <2>2 DEF Bounds
  <1>12. ASSUME NEW t \in Threads, FlushPop(t) PROVE Bounds'
    <2>1. UNCHANGED <<file, len, cursor, at, range, before, done>>
      BY <1>12 DEF FlushPop, kernelVars, histVars
    <2>2. /\ queue # <<>> /\ queue \in Seq(QueuedWrites) /\ queue' = Tail(queue)
          /\ loc' = [loc EXCEPT ![t].op = Head(queue), ![t].opn = 0]
      BY <1>12 DEF FlushPop, Numbers
    <2>3. QueueBounds'
      <3>1. \A i \in DOMAIN Tail(queue) : i + 1 \in DOMAIN queue /\ Tail(queue)[i] = queue[i + 1]
        BY <2>2
      <3>2. QED
        BY <2>2, <3>1 DEF Bounds, QueueBounds
    <2>4. CallBounds'
      <3>1. Head(queue).where + Len(Head(queue).ids) <= Size /\ 0 <= Len(Head(queue).ids)
        <4>1. 1 \in DOMAIN queue /\ Head(queue) = queue[1] /\ queue[1] \in QueuedWrites
          BY <2>2
        <4>2. QED
          BY <4>1 DEF Bounds, QueueBounds, QueuedWrites
      <3>2. QED
        BY <2>2, <3>1 DEF Shape, Fields, Bounds, CallBounds, IsBounded
    <2>5. QED
      BY <1>d, <1>f, <2>1, <2>3, <2>4 DEF Bounds
  <1>13. ASSUME NEW t \in Threads, NEW k \in 1 .. Size, FlushWrite(t, k) PROVE Bounds'
    <2> DEFINE op == loc[t].op  i == loc[t].opn
    <2>1. /\ op.where \in Nat /\ op.ids \in Seq(Ids) /\ Len(op.ids) \in Nat /\ i \in Nat
          /\ len \in Nat /\ k \in Nat /\ k <= Len(op.ids) - i
      BY <1>13 DEF FlushWrite, Numbers, QueuedWrites
    <2>9. /\ op.where + i + k \in Nat /\ op.where + i + k <= op.where + Len(op.ids)
          /\ op.where + Len(op.ids) \in Nat
          /\ \A b \in Span(op.where + i, k) : b - op.where + 1 \in 1 .. Len(op.ids)
      BY <2>1, SpanInside
    <2>2. op.where + Len(op.ids) <= Size /\ len <= Size
      BY DEF Bounds, CallBounds, IsBounded, FileBounds
    <2>3. UNCHANGED <<cursor, at, queue, range, before, done>>
      BY <1>13 DEF FlushWrite, histVars
    <2>4. file' \in [Bytes -> Ids \cup {Hole}]
      <3>1. file' = Put(file, op.where, op.ids, i, k)
        BY <1>13 DEF FlushWrite, Flushed
      <3>2. \A b \in Bytes : b \in Span(op.where + i, k) => op.ids[b - op.where + 1] \in Ids
        <4>1. \A j \in 1 .. Len(op.ids) : op.ids[j] \in Ids
          BY <2>1
        <4>2. QED
          BY <4>1, <2>9
      <3>3. QED
        BY <3>1, <3>2 DEF Put, Bounds, FileBounds
    <2>5. len' <= Size
      <3>1. op.where + i + k <= Size
        BY <2>2, <2>9, FdIOAssumption
      <3>2. QED
        BY <1>13, <2>2, <3>1 DEF FlushWrite, AtLeast
    <2>6. CallBounds'
      <3>1. CASE loc' = [loc EXCEPT ![t].op = NoOp, ![t].opn = 0]
        <4>1. NoOp.where = 0 /\ NoOp.ids = <<>>
          BY DEF NoOp
        <4>2. \A u \in Threads :
                /\ loc'[u] = loc[u] \/ (loc'[u].op = NoOp /\ loc'[u].opn = 0)
                /\ \A f \in {"ids", "n", "where", "old", "call"} : loc'[u][f] = loc[u][f]
          BY <3>1 DEF Shape, Fields
        <4>3. NoOp.where + Len(NoOp.ids) <= Size /\ 0 <= Len(NoOp.ids)
          BY <4>1, FdIOAssumption
        <4>4. ASSUME NEW u \in Threads PROVE IsBounded(loc'[u])
          <5>1. IsBounded(loc[u])
            BY DEF Bounds, CallBounds
          <5>2. CASE loc'[u] = loc[u]
            BY <5>1, <5>2
          <5>3. CASE loc'[u].op = NoOp /\ loc'[u].opn = 0
            BY <4>2, <4>3, <5>1, <5>3 DEF IsBounded
          <5>4. QED
            BY <4>2, <5>2, <5>3
        <4>5. QED
          BY <4>4 DEF CallBounds
      <3>2. CASE loc' = [loc EXCEPT ![t].opn = i + k]
        <4>1. i + k <= Len(op.ids)
          BY <2>1
        <4>2. QED
          BY <3>2, <4>1 DEF Shape, Fields, Bounds, CallBounds, IsBounded
      <3>3. QED
        BY <1>13, <3>1, <3>2 DEF FlushWrite
    <2>7. FileBounds'
      BY <2>3, <2>4, <2>5 DEF Bounds, FileBounds
    <2>8. QED
      BY <1>e, <1>f, <2>3, <2>6, <2>7 DEF Bounds
  <1>14. ASSUME NEW t \in Threads, FlushFail(t) PROVE Bounds'
    <2>1. /\ UNCHANGED <<file, len, cursor, at, queue, range, before, done>>
          /\ loc' = [loc EXCEPT ![t].op = NoOp, ![t].opn = 0]
      BY <1>14 DEF FlushFail, kernelVars
    <2>2. CallBounds'
      <3>1. NoOp.where = 0 /\ NoOp.ids = <<>>
        BY DEF NoOp
      <3>2. QED
        BY <2>1, <3>1, FdIOAssumption DEF Shape, Fields, Bounds, CallBounds, IsBounded
    <2>3. QED
      BY <1>d, <1>e, <1>f, <2>1, <2>2 DEF Bounds
  <1>15. ASSUME NEW t \in Threads, FlushEnd(t) PROVE Bounds'
    <2>1. /\ UNCHANGED <<file, len, cursor, at, queue, range, before, done>>
          /\ UNCHANGED loc \/ loc' = [loc EXCEPT ![t] = NoCall]
      BY <1>15 DEF FlushEnd, Return, kernelVars, histVars
    <2>2. QED
      BY <1>c, <1>d, <1>e, <1>f, <2>1 DEF Bounds
  <1>16. ASSUME NEW t \in Threads, NEW k \in 1 .. Size, SysWrite(t, k) PROVE Bounds'
    <2> DEFINE p == Next0(t)  id == loc[t].ids[1]
    <2>1. /\ p \in Nat /\ p + k <= Size /\ id \in Ids /\ len \in Nat /\ cursor \in Nat
          /\ len <= Size /\ cursor <= Size /\ loc[t].n \in Nat /\ loc[t].n + k <= Len(loc[t].ids)
      <3>1. loc[t].n \in Nat /\ loc[t].where \in Nat /\ cursor \in Nat /\ len \in Nat
        BY DEF Numbers
      <3>2. loc[t].call \in {"pwrite", "write"} /\ k \in 1 .. Left(t) /\ p + k <= Size
        BY <1>16 DEF SysWrite, IsWrite
      <3>3. IsBounded(loc[t]) /\ len <= Size /\ cursor <= Size
        BY DEF Bounds, FileBounds, CallBounds
      <3>4. p \in Nat
        BY <3>1 DEF Next0
      <3>5. loc[t].n + k <= Len(loc[t].ids)
        BY <3>1, <3>2, <3>3 DEF Left, IsBounded
      <3>6. QED
        BY <3>1, <3>2, <3>3, <3>4, <3>5 DEF IsBounded
    <2>2. queue' = queue /\ range' = range /\ before' = before /\ done' \in {done, done \cup {id}}
      BY <1>16 DEF SysWrite
    <2>3. HistoryTypes'
      BY <2>1, <2>2 DEF Bounds, HistoryTypes
    <2>4. FileBounds'
      <3>1. file' \in [Bytes -> Ids \cup {Hole}]
        BY <1>16, <2>1 DEF SysWrite, Bounds, FileBounds
      <3>2. len' <= Size
        BY <1>16, <2>1 DEF SysWrite, AtLeast
      <3>3. p + k \in -1 .. Size /\ p + k <= Size
        BY <2>1, FdIOAssumption
      <3>4. cursor' \in {cursor, p + k} /\ at' \in {at, [at EXCEPT ![t] = p + k]}
        BY <1>16 DEF SysWrite, Moved
      <3>5. at' \in [Threads -> -1 .. Size] /\ cursor' <= Size
        BY <2>1, <3>3, <3>4 DEF Bounds, FileBounds
      <3>6. QED
        BY <3>1, <3>2, <3>5 DEF FileBounds
    <2>5. CallBounds'
      <3>1. CASE loc' = [loc EXCEPT ![t] = NoCall]
        BY <1>c, <3>1
      <3>2. CASE loc' = [loc EXCEPT ![t].n = loc[t].n + k]
        BY <2>1, <3>2 DEF Shape, Fields, Bounds, CallBounds, IsBounded
      <3>3. QED
        BY <1>16, <3>1, <3>2 DEF SysWrite, Return
    <2>6. QED
      BY <1>e, <2>2, <2>3, <2>4, <2>5 DEF Bounds
  <1>17. ASSUME NEW t \in Threads, SysFail(t) PROVE Bounds'
    <2>1. /\ UNCHANGED <<file, len, cursor, at, queue, range, before>>
          /\ loc' = [loc EXCEPT ![t] = NoCall]
          /\ done' = done \cup {loc[t].ids[1]} /\ loc[t].call \in {"pwrite", "write"}
      BY <1>17 DEF SysFail, Return, kernelVars, IsWrite
    <2>2. loc[t].ids[1] \in Ids
      BY <2>1 DEF Bounds, CallBounds, IsBounded
    <2>3. HistoryTypes'
      BY <2>1, <2>2 DEF Bounds, HistoryTypes
    <2>4. QED
      BY <1>c, <1>d, <1>e, <2>1, <2>3 DEF Bounds
  <1>18. ASSUME NEW t \in Threads, NEW k \in 1 .. Size, SysRead(t, k) PROVE Bounds'
    <2> DEFINE p == Next0(t)
    <2>1. /\ UNCHANGED <<file, len, queue, range, before, done>>
          /\ cursor' \in {cursor, p + k} /\ at' \in {at, [at EXCEPT ![t] = p + k]}
          /\ k \in 1 .. Left(t) /\ p + k <= len
          /\ loc' = [loc EXCEPT ![t].n = @ + k,
                                ![t].seen = @ \cup {<<b, file[b]>> : b \in Span(p, k)}]
      BY <1>18 DEF SysRead, Moved, histVars
    <2>2. /\ p \in Nat /\ loc[t].n \in Nat /\ len \in Nat /\ cursor \in Nat
          /\ len <= Size /\ cursor <= Size
      <3>1. loc[t].n \in Nat /\ loc[t].where \in Nat /\ cursor \in Nat /\ len \in Nat
        BY DEF Numbers
      <3>2. QED
        BY <3>1 DEF Next0, Bounds, FileBounds
    <2>3. FileBounds'
      <3>1. p + k \in -1 .. Size /\ p + k <= Size
        BY <2>1, <2>2, FdIOAssumption
      <3>2. QED
        BY <2>1, <2>2, <3>1 DEF Bounds, FileBounds
    <2>4. CallBounds'
      <3>1. loc[t].n + k <= Len(loc[t].ids)
        BY <2>1, <2>2 DEF Left, Bounds, CallBounds, IsBounded
      <3>2. QED
        BY <2>1, <3>1 DEF Shape, Fields, Bounds, CallBounds, IsBounded
    <2>5. QED
      BY <1>e, <1>f, <2>1, <2>3, <2>4 DEF Bounds
  <1>19. ASSUME NEW t \in Threads, SysReadEnd(t) PROVE Bounds'
    <2>1. /\ UNCHANGED <<file, len, cursor, at, queue, range, before, done>>
          /\ loc' = [loc EXCEPT ![t] = NoCall]
      BY <1>19 DEF SysReadEnd, Return, kernelVars, histVars
    <2>2. QED
      BY <1>c, <1>d, <1>e, <1>f, <2>1 DEF Bounds
  <1>20. ASSUME NEW t \in Threads, MmapEnd(t) PROVE Bounds'
    <2>1. /\ UNCHANGED <<file, len, at, queue, range, before, done>> /\ cursor' = len
          /\ loc' = [loc EXCEPT ![t].end = len]
      BY <1>20 DEF MmapEnd, histVars
    <2>2. CallBounds'
      BY <2>1 DEF Shape, Fields, Bounds, CallBounds, IsBounded
    <2>3. FileBounds'
      BY <2>1 DEF Bounds, FileBounds
    <2>4. QED
      BY <1>e, <1>f, <2>1, <2>2, <2>3 DEF Bounds
  <1>21. ASSUME NEW t \in Threads, MmapGrow(t) PROVE Bounds'
    <2>1. /\ UNCHANGED <<cursor, at, queue, loc, range, before, done>>
          /\ len' \in GrownTo(loc[t].where)
          /\ file' = [b \in Bytes |-> IF b < len' THEN file[b] ELSE Hole]
      BY <1>21 DEF MmapGrow
    <2>2. len' <= Size
      BY <2>1 DEF GrownTo, AtLeast, Bounds, FileBounds, CallBounds, IsBounded
    <2>3. FileBounds'
      BY <2>1, <2>2 DEF Bounds, FileBounds
    <2>4. QED
      BY <1>c, <1>e, <1>f, <2>1, <2>3 DEF Bounds
  <1>22. ASSUME NEW t \in Threads, MmapRestore(t) PROVE Bounds'
    <2>1. /\ UNCHANGED <<file, len, at, queue, range, before, done>> /\ cursor' = loc[t].old
          /\ loc' = [loc EXCEPT ![t] = NoCall]
      BY <1>22 DEF MmapRestore, RestoredCursor, Return, histVars
    <2>2. FileBounds'
      BY <2>1 DEF Bounds, FileBounds, CallBounds, IsBounded
    <2>3. QED
      BY <1>c, <1>e, <1>f, <2>1, <2>2 DEF Bounds
  <1>23. QED
    BY <1>1, <1>2, <1>3, <1>4, <1>5, <1>6, <1>7, <1>8, <1>9, <1>10, <1>11, <1>12,
       <1>13, <1>14, <1>15, <1>16, <1>17, <1>18, <1>19, <1>20, <1>21, <1>22
       DEF Next, Step, Call

\* At the start no call is made and nothing is queued.
LEMMA InitTyped == Init => Shape /\ Numbers /\ Bounds
  <1>0. <<>> \in Seq(Ids \cup {Hole})
    OBVIOUS
  <1>1. Init => Shape
    BY FdIOAssumption DEF Init, Shape, States, Fields, NoCall
  <1>2. Init => Numbers
    BY QueuedWriteFacts DEF Init, Numbers, NoCall
  <1>3. Init => Bounds
    <2>1. IsBounded(NoCall)
      <3>1. /\ NoCall.n = 0 /\ NoCall.opn = 0 /\ NoCall.op = NoOp /\ NoCall.old = 0
            /\ NoCall.where = 0 /\ NoCall.ids \in Seq(Ids \cup {Hole}) /\ NoCall.call = "none"
        BY <1>0 DEF NoCall
      <3> HIDE DEF NoCall
      <3>2. QED
        BY <3>1, FreshIsBounded, FdIOAssumption
    <2>2. Init => FileBounds /\ HistoryTypes /\ QueueBounds
      BY FdIOAssumption DEF Init, FileBounds, HistoryTypes, QueueBounds
    <2>3. Init => CallBounds
      BY <2>1 DEF Init, CallBounds
    <2>4. QED
      BY <2>2, <2>3 DEF Bounds
  <1>4. QED
    BY <1>1, <1>2, <1>3

\* TypeOK: queued writes lie inside the file and no call transfers more than its buffer holds.
THEOREM TypesHold == Spec => []TypeOK
  <1>1. Shape /\ Numbers /\ Bounds /\ [Next]_vars => (Shape /\ Numbers /\ Bounds)'
    <2> SUFFICES ASSUME Shape, Numbers, Bounds, [Next]_vars
                 PROVE  Shape' /\ Numbers' /\ Bounds'
      OBVIOUS
    <2>1. CASE Next
      BY <2>1, ShapeStep, NumbersStep, BoundsStep
    <2>2. CASE UNCHANGED vars
      BY <2>2 DEF vars, kernelVars, histVars, Shape, Numbers, Bounds, FileBounds,
         QueueBounds, HistoryTypes, CallBounds
    <2>3. QED
      BY <2>1, <2>2
  <1>2. Shape /\ Numbers /\ Bounds => TypeOK
    <2> SUFFICES ASSUME Shape, Numbers, Bounds PROVE TypeOK
      OBVIOUS
    <2>1. len \in 0 .. Size /\ cursor \in 0 .. Size
      BY FdIOAssumption DEF Numbers, Bounds, FileBounds
    <2>2. ASSUME NEW i \in DOMAIN queue PROVE queue[i].where \in Bytes
      <3>1. queue[i] \in QueuedWrites
        BY DEF Numbers
      <3>2. PICK w \in Nat, s \in Seq(Ids) : queue[i].where = w /\ queue[i].ids = s
        BY <3>1 DEF QueuedWrites
      <3>3. s # <<>> /\ w + Len(s) <= Size
        BY <3>2 DEF Bounds, QueueBounds
      <3>4. Len(s) \in Nat /\ Len(s) # 0
        BY <3>3
      <3>5. QED
        BY <3>2, <3>3, <3>4, FdIOAssumption DEF Bytes
    <2>3. QED
      BY <2>1, <2>2 DEF TypeOK, Shape, States, Bounds, FileBounds, QueueBounds, HistoryTypes,
         CallBounds, IsBounded
  <1>3. QED
    BY InitTyped, <1>1, <1>2, PTL DEF Spec

----------------------------------------------------------------------------
(* What a step may change *)

\* A thread that is not flushing has nothing in flight, and one that is in no call has no
\* local variables.
CallsInv ==
    \A t \in Threads :
       /\ pc[t] # "flush" \/ ~Flushing(t) => loc[t].op = NoOp /\ loc[t].opn = 0
       /\ pc[t] = "idle" => loc[t] = NoCall

\* A thread that is not flushing has nothing in flight, after every step.
LEMMA CallsStep ==
    ASSUME Shape, Numbers, Bounds, CallsInv, Next
    PROVE  CallsInv'
  <1>0. NoCall.op = NoOp /\ NoCall.opn = 0
    BY DEF NoCall
  <1> DEFINE Ok(p, l) == /\ p # "flush" \/ ~(l.opn < Len(l.op.ids)) => l.op = NoOp /\ l.opn = 0
                         /\ p = "idle" => l = NoCall
  <1>a. CallsInv <=> \A t \in Threads : Ok(pc[t], loc[t])
    BY DEF CallsInv, Flushing
  <1>b. CallsInv' <=> \A t \in Threads : Ok(pc'[t], loc'[t])
    BY DEF CallsInv, Flushing
  <1>c. ASSUME NEW t \in Threads,
               \A u \in Threads \ {t} : pc'[u] = pc[u] /\ loc'[u] = loc[u],
               Ok(pc'[t], loc'[t])
        PROVE  CallsInv'
    BY <1>a, <1>b, <1>c
  <1>d. ASSUME NEW t \in Threads, NEW p, NEW l, Begin(t, p, l), DOMAIN l = Fields,
               l.opn = 0, l.op = NoOp, p \in {"lock", "sys"}
        PROVE  CallsInv'
    <2>1. pc' = [pc EXCEPT ![t] = p] /\ loc' = [loc EXCEPT ![t] = [l EXCEPT !.snap = done]]
      BY <1>d DEF Begin
    <2>2. loc'[t].op = NoOp /\ loc'[t].opn = 0 /\ pc'[t] \in {"lock", "sys"}
      BY <1>d, <2>1 DEF Shape, Fields
    <2>3. \A u \in Threads \ {t} : pc'[u] = pc[u] /\ loc'[u] = loc[u]
      BY <2>1 DEF Shape
    <2>4. Ok(pc'[t], loc'[t])
      BY <2>2
    <2> HIDE DEF Ok
    <2>5. QED
      BY <1>c, <2>3, <2>4
  <1>e. ASSUME NEW t \in Threads, UNCHANGED <<pc, loc>> PROVE CallsInv'
    BY <1>e DEF CallsInv, Flushing
  <1>f. ASSUME NEW t \in Threads, Return(t) PROVE CallsInv'
    <2>1. \A u \in Threads : \/ pc'[u] = pc[u] /\ loc'[u] = loc[u]
                             \/ pc'[u] = "idle" /\ loc'[u] = NoCall
      BY <1>f DEF Return, Shape
    <2>2. QED
      BY <1>0, <1>a, <1>b, <2>1
  <1>g. ASSUME NEW t \in Threads, UNCHANGED loc, NEW p \in {"sys", "end", "restore"},
               pc' = [pc EXCEPT ![t] = p], pc[t] # "flush" \/ ~Flushing(t)
        PROVE  CallsInv'
    <2>1. Ok(pc'[t], loc'[t])
      BY <1>g DEF Shape, CallsInv, Flushing
    <2>2. \A u \in Threads \ {t} : pc'[u] = pc[u] /\ loc'[u] = loc[u]
      BY <1>g DEF Shape
    <2> HIDE DEF Ok
    <2>3. QED
      BY <1>c, <2>1, <2>2
  <1> HIDE DEF Ok
  <1>1. ASSUME NEW t \in Threads, NEW where \in Bytes, NEW n \in 1 .. MaxLen,
               QueueWrite(t, where, n)
        PROVE  CallsInv'
    BY <1>1, <1>e DEF QueueWrite
  <1>2. ASSUME NEW t \in Threads, NEW where \in Bytes, NEW n \in 1 .. MaxLen,
               Pwrite(t, where, n)
        PROVE  CallsInv'
    <2> DEFINE l == [NoCall EXCEPT !.call = "pwrite", !.where = where,
                                 !.ids = [i \in 1 .. n |-> NewId]]
    <2>1. Begin(t, "lock", l)
      BY <1>2 DEF Pwrite
    <2>2. DOMAIN l = Fields /\ l.opn = 0 /\ l.op = NoOp
      BY DEF NoCall, Fields
    <2> HIDE DEF l
    <2>3. QED
      BY <1>d, <2>1, <2>2
  <1>3. ASSUME NEW t \in Threads, Pread(t)
        PROVE  CallsInv'
    <2> DEFINE l == [NoCall EXCEPT !.call = "pread", !.ids = [i \in 1 .. Size |-> Hole]]
    <2>1. Begin(t, "lock", l)
      BY <1>3 DEF Pread
    <2>2. DOMAIN l = Fields /\ l.opn = 0 /\ l.op = NoOp
      BY DEF NoCall, Fields
    <2> HIDE DEF l
    <2>3. QED
      BY <1>d, <2>1, <2>2
  <1>4. ASSUME NEW t \in Threads, Flush(t)
        PROVE  CallsInv'
    <2> DEFINE l == [NoCall EXCEPT !.call = "flush"]
    <2>1. Begin(t, "lock", l)
      BY <1>4 DEF Flush
    <2>2. DOMAIN l = Fields /\ l.opn = 0 /\ l.op = NoOp
      BY DEF NoCall, Fields
    <2> HIDE DEF l
    <2>3. QED
      BY <1>d, <2>1, <2>2
  <1>5. ASSUME NEW t \in Threads, NEW n \in 1 .. MaxLen, GetMmapHandle(t, n)
        PROVE  CallsInv'
    <2> DEFINE l == [NoCall EXCEPT !.call = "mmap", !.where = n]
    <2>1. Begin(t, "lock", l)
      BY <1>5 DEF GetMmapHandle
    <2>2. DOMAIN l = Fields /\ l.opn = 0 /\ l.op = NoOp
      BY DEF NoCall, Fields
    <2> HIDE DEF l
    <2>3. QED
      BY <1>d, <2>1, <2>2
  <1>6. ASSUME NEW t \in Threads, NEW n \in 1 .. MaxLen, Read(t, n)
        PROVE  CallsInv'
    <2> DEFINE l == [NoCall EXCEPT !.call = "read", !.ids = [i \in 1 .. n |-> Hole]]
    <2>1. Begin(t, "lock", l)
      BY <1>6 DEF Read
    <2>2. DOMAIN l = Fields /\ l.opn = 0 /\ l.op = NoOp
      BY DEF NoCall, Fields
    <2> HIDE DEF l
    <2>3. QED
      BY <1>d, <2>1, <2>2
  <1>7. ASSUME NEW t \in Threads, NEW n \in 1 .. MaxLen, Write(t, n)
        PROVE  CallsInv'
    <2> DEFINE l == [NoCall EXCEPT !.call = "write", !.where = cursor,
                                 !.ids = [i \in 1 .. n |-> NewId]]
    <2>1. Begin(t, "sys", l)
      BY <1>7 DEF Write
    <2>2. DOMAIN l = Fields /\ l.opn = 0 /\ l.op = NoOp
      BY DEF NoCall, Fields
    <2> HIDE DEF l
    <2>3. QED
      BY <1>d, <2>1, <2>2
  <1>8. ASSUME NEW t \in Threads, NEW p \in Bytes, Seek(t, p)
        PROVE  CallsInv'
    BY <1>8, <1>e DEF Seek
  <1>9. ASSUME NEW t \in Threads, BeginTransaction(t)
        PROVE  CallsInv'
    BY <1>9, <1>e DEF BeginTransaction
  <1>10. ASSUME NEW t \in Threads, EndTransaction(t)
        PROVE  CallsInv'
    BY <1>10, <1>e DEF EndTransaction
  <1>11. ASSUME NEW t \in Threads, Acquire(t)
        PROVE  CallsInv'
    <2>1. \A u \in Threads \ {t} : pc'[u] = pc[u] /\ loc'[u] = loc[u]
      BY <1>11 DEF Acquire, Shape
    <2>2. Ok(pc'[t], loc'[t])
      BY <1>11 DEF Acquire, Ok, Shape, Fields, CallsInv, Flushing
    <2>3. QED
      BY <1>c, <2>1, <2>2
  <1>12. ASSUME NEW t \in Threads, FlushPop(t)
        PROVE  CallsInv'
    <2>1. \A u \in Threads \ {t} : pc'[u] = pc[u] /\ loc'[u] = loc[u]
      BY <1>12 DEF FlushPop, Shape
    <2>2. pc'[t] = "flush" /\ loc'[t].opn = 0 /\ loc'[t].op = Head(queue)
      BY <1>12 DEF FlushPop, Shape, Fields
    <2>3. Len(Head(queue).ids) > 0
      <3>1. Head(queue) = queue[1] /\ 1 \in DOMAIN queue /\ queue[1] \in QueuedWrites
        BY <1>12 DEF FlushPop, Numbers
      <3>2. queue[1].ids \in Seq(Ids) /\ queue[1].ids # <<>>
        BY <3>1 DEF QueuedWrites, Bounds, QueueBounds
      <3>3. QED
        BY <3>1, <3>2
    <2>4. Ok(pc'[t], loc'[t])
      BY <2>2, <2>3 DEF Ok
    <2>5. QED
      BY <1>c, <2>1, <2>4
  <1>13. ASSUME NEW t \in Threads, NEW k \in 1 .. Size, FlushWrite(t, k)
        PROVE  CallsInv'
    <2>1. \A u \in Threads \ {t} : pc'[u] = pc[u] /\ loc'[u] = loc[u]
      BY <1>13 DEF FlushWrite, Shape
    <2>2. pc'[t] = "flush" /\ pc[t] = "flush"
      BY <1>13 DEF FlushWrite
    <2>3. CASE loc' = [loc EXCEPT ![t].op = NoOp, ![t].opn = 0]
      <3>1. loc'[t].op = NoOp /\ loc'[t].opn = 0
        BY <2>3 DEF Shape, Fields
      <3>2. Ok(pc'[t], loc'[t])
        BY <2>2, <3>1 DEF Ok
      <3>3. QED
        BY <1>c, <2>1, <3>2
    <2>4. CASE /\ loc' = [loc EXCEPT ![t].opn = loc[t].opn + k]
               /\ loc[t].opn + k # Len(loc[t].op.ids)
      <3>1. loc'[t].opn = loc[t].opn + k /\ loc'[t].op = loc[t].op
        BY <2>4 DEF Shape, Fields
      <3>2. /\ loc[t].opn \in Nat /\ Len(loc[t].op.ids) \in Nat /\ k \in Nat
            /\ k <= Len(loc[t].op.ids) - loc[t].opn
        BY <1>13 DEF FlushWrite, Numbers, QueuedWrites
      <3>3. loc[t].opn + k < Len(loc[t].op.ids)
        <4>1. \A i, j, m \in Nat : j <= m - i /\ i + j # m => i + j < m
          OBVIOUS
        <4>2. QED
          BY <2>4, <3>2, <4>1
      <3>4. Ok(pc'[t], loc'[t])
        BY <2>2, <3>1, <3>3 DEF Ok
      <3>5. QED
        BY <1>c, <2>1, <3>4
    <2>5. QED
      BY <1>13, <2>3, <2>4 DEF FlushWrite
  <1>14. ASSUME NEW t \in Threads, FlushFail(t)
        PROVE  CallsInv'
    <2>1. \A u \in Threads \ {t} : pc'[u] = pc[u] /\ loc'[u] = loc[u]
      BY <1>14 DEF FlushFail, Shape
    <2>2. Ok(pc'[t], loc'[t])
      BY <1>14 DEF FlushFail, Ok, Shape, Fields, CallsInv, Flushing
    <2>3. QED
      BY <1>c, <2>1, <2>2
  <1>15. ASSUME NEW t \in Threads, FlushEnd(t)
        PROVE  CallsInv'
    <2>1. CASE Return(t)
      BY <1>f, <2>1
    <2>2. CASE /\ pc' = [pc EXCEPT ![t] = IF loc[t].call = "mmap" THEN "end" ELSE "sys"]
               /\ UNCHANGED loc
      <3>1. ~Flushing(t)
        BY <1>15 DEF FlushEnd, Drained
      <3>2. (IF loc[t].call = "mmap" THEN "end" ELSE "sys") \in {"sys", "end", "restore"}
        OBVIOUS
      <3>3. QED
        BY <1>g, <2>2, <3>1, <3>2
    <2>3. QED
      BY <1>15, <2>1, <2>2 DEF FlushEnd
  <1>16. ASSUME NEW t \in Threads, NEW k \in 1 .. Size, SysWrite(t, k)
        PROVE  CallsInv'
    <2>1. CASE Return(t)
      BY <1>f, <2>1
    <2>2. CASE /\ loc' = [loc EXCEPT ![t].n = @ + k] /\ UNCHANGED pc
      <3>1. /\ \A u \in Threads \ {t} : pc'[u] = pc[u] /\ loc'[u] = loc[u]
            /\ loc'[t].op = loc[t].op /\ loc'[t].opn = loc[t].opn /\ pc'[t] = "sys"
        BY <1>16, <2>2 DEF SysWrite, Shape, Fields
      <3>2. Ok(pc'[t], loc'[t])
        BY <1>16, <3>1 DEF SysWrite, Ok, CallsInv
      <3>3. QED
        BY <1>c, <3>1, <3>2
    <2>3. QED
      BY <1>16, <2>1, <2>2 DEF SysWrite
  <1>17. ASSUME NEW t \in Threads, SysFail(t)
        PROVE  CallsInv'
    BY <1>17, <1>f DEF SysFail
  <1>18. ASSUME NEW t \in Threads, NEW k \in 1 .. Size, SysRead(t, k)
        PROVE  CallsInv'
    <2>1. \A u \in Threads \ {t} : pc'[u] = pc[u] /\ loc'[u] = loc[u]
      BY <1>18 DEF SysRead, Shape
    <2>2. Ok(pc'[t], loc'[t])
      BY <1>18 DEF SysRead, Ok, Shape, Fields, CallsInv, Flushing
    <2>3. QED
      BY <1>c, <2>1, <2>2
  <1>19. ASSUME NEW t \in Threads, SysReadEnd(t)
        PROVE  CallsInv'
    BY <1>19, <1>f DEF SysReadEnd
  <1>20. ASSUME NEW t \in Threads, MmapEnd(t)
        PROVE  CallsInv'
    <2>1. \A u \in Threads \ {t} : pc'[u] = pc[u] /\ loc'[u] = loc[u]
      BY <1>20 DEF MmapEnd, Shape
    <2>2. Ok(pc'[t], loc'[t])
      BY <1>20 DEF MmapEnd, Ok, Shape, Fields, CallsInv, Flushing
    <2>3. QED
      BY <1>c, <2>1, <2>2
  <1>21. ASSUME NEW t \in Threads, MmapGrow(t)
        PROVE  CallsInv'
    <2>1. \A u \in Threads \ {t} : pc'[u] = pc[u] /\ loc'[u] = loc[u]
      BY <1>21 DEF MmapGrow, Shape
    <2>2. Ok(pc'[t], loc'[t])
      BY <1>21 DEF MmapGrow, Ok, Shape, Fields, CallsInv, Flushing
    <2>3. QED
      BY <1>c, <2>1, <2>2
  <1>22. ASSUME NEW t \in Threads, MmapRestore(t)
        PROVE  CallsInv'
    BY <1>22, <1>f DEF MmapRestore
  <1>23. QED
    BY <1>1, <1>2, <1>3, <1>4, <1>5, <1>6, <1>7, <1>8, <1>9, <1>10, <1>11, <1>12,
       <1>13, <1>14, <1>15, <1>16, <1>17, <1>18, <1>19, <1>20, <1>21, <1>22
       DEF Next, Step, Call

\* The steps that move bytes, or write the history.
Moves(t) ==
    \/ \E where \in Bytes, n \in 1 .. MaxLen : QueueWrite(t, where, n) \/ Pwrite(t, where, n)
    \/ \E n \in 1 .. MaxLen : Write(t, n)
    \/ FlushPop(t) \/ FlushFail(t) \/ SysFail(t)
    \/ \E k \in 1 .. Size : FlushWrite(t, k) \/ SysWrite(t, k)

\* The others leave every byte where it is, in flight or queued, and in the file too unless
\* growFileTo cuts it off.
Quiet ==
    /\ UNCHANGED <<queue, range, before, done>>
    /\ \A u \in Threads : loc'[u].op = loc[u].op /\ loc'[u].opn = loc[u].opn
    /\ UNCHANGED <<file, lost>> \/ \E t \in Threads : MmapGrow(t)

\* There is nothing behind the end of the file.
NothingBehind == \A b \in Bytes : b >= len => file[b] = Hole

\* Every step is one that moves bytes or leaves them all where they are.
LEMMA QuietStep ==
    ASSUME Shape, CallsInv, Next
    PROVE  Quiet \/ \E t \in Threads : Moves(t)
  <1>0. NoCall.op = NoOp /\ NoCall.opn = 0
    BY DEF NoCall
  <1>a. ASSUME NEW t \in Threads, Return(t), pc[t] # "flush" \/ ~Flushing(t)
        PROVE  \A u \in Threads : loc'[u].op = loc[u].op /\ loc'[u].opn = loc[u].opn
    <2>1. loc[t].op = NoOp /\ loc[t].opn = 0
      BY <1>a DEF CallsInv
    <2>2. \A u \in Threads : loc'[u] = IF u = t THEN NoCall ELSE loc[u]
      BY <1>a DEF Return, Shape
    <2>3. QED
      BY <1>0, <2>1, <2>2
  <1>b. ASSUME NEW t \in Threads, NEW p, NEW l, Begin(t, p, l), pc[t] = "idle",
               DOMAIN l = Fields, l.op = NoOp, l.opn = 0
        PROVE  \A u \in Threads : loc'[u].op = loc[u].op /\ loc'[u].opn = loc[u].opn
    <2>1. loc[t].op = NoOp /\ loc[t].opn = 0
      BY <1>b DEF CallsInv
    <2>2. \A u \in Threads : loc'[u] = IF u = t THEN [l EXCEPT !.snap = done] ELSE loc[u]
      BY <1>b DEF Begin, Shape
    <2>3. [l EXCEPT !.snap = done].op = NoOp /\ [l EXCEPT !.snap = done].opn = 0
      BY <1>b DEF Fields
    <2>4. QED
      BY <2>1, <2>2, <2>3
  <1>c. ASSUME UNCHANGED <<file, queue, range, before, done, lost, loc>> PROVE Quiet
    BY <1>c DEF Quiet
  <1>1. ASSUME NEW t \in Threads, Pread(t) PROVE Quiet
    <2> DEFINE l == [NoCall EXCEPT !.call = "pread", !.ids = [i \in 1 .. Size |-> Hole]]
    <2>1. /\ Begin(t, "lock", l) /\ pc[t] = "idle"
          /\ UNCHANGED <<file, queue, range, before, done, lost>>
      BY <1>1 DEF Pread, Calling, kernelVars, histVars
    <2>2. DOMAIN l = Fields /\ l.opn = 0 /\ l.op = NoOp
      BY DEF NoCall, Fields
    <2> HIDE DEF l
    <2>3. QED
      BY <1>b, <2>1, <2>2 DEF Quiet
  <1>2. ASSUME NEW t \in Threads, Flush(t) PROVE Quiet
    <2> DEFINE l == [NoCall EXCEPT !.call = "flush"]
    <2>1. /\ Begin(t, "lock", l) /\ pc[t] = "idle"
          /\ UNCHANGED <<file, queue, range, before, done, lost>>
      BY <1>2 DEF Flush, Calling, kernelVars, histVars
    <2>2. DOMAIN l = Fields /\ l.opn = 0 /\ l.op = NoOp
      BY DEF NoCall, Fields
    <2> HIDE DEF l
    <2>3. QED
      BY <1>b, <2>1, <2>2 DEF Quiet
  <1>3. ASSUME NEW t \in Threads, NEW n \in 1 .. MaxLen, GetMmapHandle(t, n) PROVE Quiet
    <2> DEFINE l == [NoCall EXCEPT !.call = "mmap", !.where = n]
    <2>1. /\ Begin(t, "lock", l) /\ pc[t] = "idle"
          /\ UNCHANGED <<file, queue, range, before, done, lost>>
      BY <1>3 DEF GetMmapHandle, Calling, kernelVars, histVars
    <2>2. DOMAIN l = Fields /\ l.opn = 0 /\ l.op = NoOp
      BY DEF NoCall, Fields
    <2> HIDE DEF l
    <2>3. QED
      BY <1>b, <2>1, <2>2 DEF Quiet
  <1>4. ASSUME NEW t \in Threads, NEW n \in 1 .. MaxLen, Read(t, n) PROVE Quiet
    <2> DEFINE l == [NoCall EXCEPT !.call = "read", !.ids = [i \in 1 .. n |-> Hole]]
    <2>1. /\ Begin(t, "lock", l) /\ pc[t] = "idle"
          /\ UNCHANGED <<file, queue, range, before, done, lost>>
      BY <1>4 DEF Read, Calling, kernelVars, histVars
    <2>2. DOMAIN l = Fields /\ l.opn = 0 /\ l.op = NoOp
      BY DEF NoCall, Fields
    <2> HIDE DEF l
    <2>3. QED
      BY <1>b, <2>1, <2>2 DEF Quiet
  <1>5. ASSUME NEW t \in Threads, NEW p \in Bytes, Seek(t, p) PROVE Quiet
    BY <1>c, <1>5 DEF Seek, kernelVars, histVars
  <1>6. ASSUME NEW t \in Threads, BeginTransaction(t) PROVE Quiet
    BY <1>c, <1>6 DEF BeginTransaction, kernelVars, histVars
  <1>7. ASSUME NEW t \in Threads, EndTransaction(t) PROVE Quiet
    BY <1>c, <1>7 DEF EndTransaction, kernelVars, histVars
  <1>8. ASSUME NEW t \in Threads, Acquire(t) PROVE Quiet
    BY <1>8 DEF Acquire, Quiet, Shape, Fields, kernelVars, histVars
  <1>9. ASSUME NEW t \in Threads, NEW k \in 1 .. Size, SysRead(t, k) PROVE Quiet
    BY <1>9 DEF SysRead, Quiet, Shape, Fields, kernelVars, histVars
  <1>10. ASSUME NEW t \in Threads, MmapEnd(t) PROVE Quiet
    BY <1>10 DEF MmapEnd, Quiet, Shape, Fields, kernelVars, histVars
  <1>11. ASSUME NEW t \in Threads, SysReadEnd(t) PROVE Quiet
    <2>1. Return(t) /\ pc[t] # "flush" /\ UNCHANGED <<file, queue, range, before, done, lost>>
      BY <1>11 DEF SysReadEnd, kernelVars, histVars
    <2>2. QED
      BY <1>a, <2>1 DEF Quiet
  <1>12. ASSUME NEW t \in Threads, MmapRestore(t) PROVE Quiet
    <2>1. Return(t) /\ pc[t] # "flush" /\ UNCHANGED <<file, queue, range, before, done, lost>>
      BY <1>12 DEF MmapRestore, kernelVars, histVars
    <2>2. QED
      BY <1>a, <2>1 DEF Quiet
  <1>13. ASSUME NEW t \in Threads, FlushEnd(t) PROVE Quiet
    <2>1. /\ Return(t) \/ UNCHANGED loc
          /\ ~Flushing(t) /\ UNCHANGED <<file, queue, range, before, done, lost>>
      BY <1>13 DEF FlushEnd, Drained, kernelVars, histVars
    <2>2. QED
      BY <1>a, <1>c, <2>1 DEF Quiet
  <1>14. ASSUME NEW t \in Threads, MmapGrow(t) PROVE Quiet
    BY <1>14 DEF MmapGrow, Quiet
  <1>15. QED
    BY <1>1, <1>2, <1>3, <1>4, <1>5, <1>6, <1>7, <1>8, <1>9, <1>10, <1>11, <1>12,
       <1>13, <1>14 DEF Next, Step, Call, Moves

\* The bytes behind the end stay holes, in every step.
LEMMA NothingBehindStep ==
    ASSUME Shape, Numbers, Bounds, CallsInv, NothingBehind, Next
    PROVE  NothingBehind'
  <1>a. ASSUME UNCHANGED <<file, len>> PROVE NothingBehind'
    BY <1>a DEF NothingBehind
  <1>b. ASSUME NEW p \in Nat, NEW n \in Nat, NEW f, p + n <= Size, len' = AtLeast(len, p + n),
               file' = [b \in Bytes |-> IF b \in Span(p, n) THEN f[b] ELSE file[b]]
        PROVE  NothingBehind'
    <2>1. len \in Nat
      BY DEF Numbers
    <2> SUFFICES ASSUME NEW b \in Bytes, b >= len' PROVE file'[b] = Hole
      BY DEF NothingBehind
    <2>2. b \in Nat /\ b >= len /\ b >= p + n
      BY <1>b, <2>1, FdIOAssumption DEF AtLeast, Bytes
    <2>3. b \notin Span(p, n)
      BY <1>b, <2>2 DEF Span
    <2>4. QED
      BY <1>b, <2>2, <2>3 DEF NothingBehind
  <1>1. ASSUME NEW t \in Threads, NEW k \in 1 .. Size, FlushWrite(t, k) PROVE NothingBehind'
    <2> DEFINE op == loc[t].op  i == loc[t].opn
               f == [b \in Bytes |-> op.ids[b - op.where + 1]]
    <2>1. /\ op.where \in Nat /\ i \in Nat /\ Len(op.ids) \in Nat
          /\ k \in Nat /\ k <= Len(op.ids) - i
      BY <1>1 DEF FlushWrite, Numbers, QueuedWrites
    <2>2. op.where + Len(op.ids) <= Size
      BY DEF Bounds, CallBounds, IsBounded
    <2>0. op.where + i \in Nat
      <3>1. \A a, c \in Nat : a + c \in Nat
        OBVIOUS
      <3> HIDE DEF op, i
      <3>2. QED
        BY <2>1, <3>1
    <2>3. /\ op.where + i + k \in Nat /\ op.where + i + k <= op.where + Len(op.ids)
          /\ op.where + Len(op.ids) \in Nat
      BY <2>1, SpanInside
    <2>4. op.where + i + k <= Size
      BY <2>2, <2>3, FdIOAssumption
    <2>5. file' = [b \in Bytes |-> IF b \in Span(op.where + i, k) THEN f[b] ELSE file[b]]
      BY <1>1 DEF FlushWrite, Flushed, Put
    <2>6. len' = AtLeast(len, op.where + i + k)
      BY <1>1 DEF FlushWrite
    <2> HIDE DEF f
    <2>7. QED
      BY <1>b, <2>0, <2>1, <2>4, <2>5, <2>6
  <1>2. ASSUME NEW t \in Threads, NEW k \in 1 .. Size, SysWrite(t, k) PROVE NothingBehind'
    <2> DEFINE p == Next0(t)
               f == [b \in Bytes |-> loc[t].ids[1]]
    <2>1. p \in Nat /\ k \in Nat
      <3>1. loc[t].n \in Nat /\ loc[t].where \in Nat /\ cursor \in Nat
        BY DEF Numbers
      <3>2. QED
        BY <3>1 DEF Next0
    <2>2. file' = [b \in Bytes |-> IF b \in Span(p, k) THEN f[b] ELSE file[b]]
      BY <1>2 DEF SysWrite
    <2>3. p + k <= Size /\ len' = AtLeast(len, p + k)
      BY <1>2 DEF SysWrite
    <2> HIDE DEF f, p
    <2>4. QED
      BY <1>b, <2>1, <2>2, <2>3
  <1>3. ASSUME NEW t \in Threads, MmapGrow(t) PROVE NothingBehind'
    <2>1. /\ len' \in GrownTo(loc[t].where)
          /\ file' = [b \in Bytes |-> IF b < len' THEN file[b] ELSE Hole]
      BY <1>3 DEF MmapGrow
    <2>2. len' \in Nat
      BY <2>1 DEF GrownTo, AtLeast, Numbers
    <2>3. \A b \in Bytes : b >= len' => ~(b < len')
      BY <2>2, FdIOAssumption DEF Bytes
    <2>4. QED
      BY <2>1, <2>3 DEF NothingBehind
  <1>4. ASSUME NEW t \in Threads, NEW where \in Bytes, NEW n \in 1 .. MaxLen,
               QueueWrite(t, where, n) PROVE NothingBehind'
    BY <1>a, <1>4 DEF QueueWrite, kernelVars
  <1>5. ASSUME NEW t \in Threads, NEW where \in Bytes, NEW n \in 1 .. MaxLen,
               Pwrite(t, where, n) PROVE NothingBehind'
    BY <1>a, <1>5 DEF Pwrite, kernelVars
  <1>6. ASSUME NEW t \in Threads, Pread(t) PROVE NothingBehind'
    BY <1>a, <1>6 DEF Pread, kernelVars
  <1>7. ASSUME NEW t \in Threads, Flush(t) PROVE NothingBehind'
    BY <1>a, <1>7 DEF Flush, kernelVars
  <1>8. ASSUME NEW t \in Threads, NEW n \in 1 .. MaxLen, GetMmapHandle(t, n) PROVE NothingBehind'
    BY <1>a, <1>8 DEF GetMmapHandle, kernelVars
  <1>9. ASSUME NEW t \in Threads, NEW n \in 1 .. MaxLen, Read(t, n) PROVE NothingBehind'
    BY <1>a, <1>9 DEF Read, kernelVars
  <1>10. ASSUME NEW t \in Threads, NEW n \in 1 .. MaxLen, Write(t, n) PROVE NothingBehind'
    BY <1>a, <1>10 DEF Write, kernelVars
  <1>11. ASSUME NEW t \in Threads, NEW p \in Bytes, Seek(t, p) PROVE NothingBehind'
    BY <1>a, <1>11 DEF Seek, kernelVars
  <1>12. ASSUME NEW t \in Threads, BeginTransaction(t) PROVE NothingBehind'
    BY <1>a, <1>12 DEF BeginTransaction, kernelVars
  <1>13. ASSUME NEW t \in Threads, EndTransaction(t) PROVE NothingBehind'
    BY <1>a, <1>13 DEF EndTransaction, kernelVars
  <1>14. ASSUME NEW t \in Threads, Acquire(t) PROVE NothingBehind'
    BY <1>a, <1>14 DEF Acquire, kernelVars
  <1>15. ASSUME NEW t \in Threads, FlushPop(t) PROVE NothingBehind'
    BY <1>a, <1>15 DEF FlushPop, kernelVars
  <1>16. ASSUME NEW t \in Threads, FlushFail(t) PROVE NothingBehind'
    BY <1>a, <1>16 DEF FlushFail, kernelVars
  <1>17. ASSUME NEW t \in Threads, FlushEnd(t) PROVE NothingBehind'
    BY <1>a, <1>17 DEF FlushEnd, kernelVars
  <1>18. ASSUME NEW t \in Threads, SysFail(t) PROVE NothingBehind'
    BY <1>a, <1>18 DEF SysFail, kernelVars
  <1>19. ASSUME NEW t \in Threads, NEW k \in 1 .. Size, SysRead(t, k) PROVE NothingBehind'
    BY <1>a, <1>19 DEF SysRead, kernelVars
  <1>20. ASSUME NEW t \in Threads, SysReadEnd(t) PROVE NothingBehind'
    BY <1>a, <1>20 DEF SysReadEnd, kernelVars
  <1>21. ASSUME NEW t \in Threads, MmapEnd(t) PROVE NothingBehind'
    BY <1>a, <1>21 DEF MmapEnd, kernelVars
  <1>22. ASSUME NEW t \in Threads, MmapRestore(t) PROVE NothingBehind'
    BY <1>a, <1>22 DEF MmapRestore, kernelVars
  <1>23. QED
    BY <1>1, <1>2, <1>3, <1>4, <1>5, <1>6, <1>7, <1>8, <1>9, <1>10, <1>11, <1>12,
       <1>13, <1>14, <1>15, <1>16, <1>17, <1>18, <1>19, <1>20, <1>21, <1>22
       DEF Next, Step, Call

\* growFileTo changes a byte only by cutting it off, when the file is longer than the mapping
\* needs, and then every write that had put something there has lost it.
LEMMA CutBytes ==
    ASSUME Numbers, Bounds, NothingBehind, NEW t \in Threads, MmapGrow(t),
           NEW b \in Bytes, file'[b] # file[b]
    PROVE  /\ file'[b] = Hole /\ loc[t].where <= b
           /\ \A w \in Ids : b \in range[w] \ Ahead(w) => <<w, b>> \in lost'
  <1>1. /\ len' \in {AtLeast(len, loc[t].where), loc[t].where, len}
        /\ file'[b] = IF b < len' THEN file[b] ELSE Hole
        /\ lost' = lost \cup CutOff(len')
    BY DEF MmapGrow, GrownTo
  <1>2. loc[t].where \in Nat
    BY DEF Numbers
  <1>3. len \in Nat /\ b \in Nat
    BY FdIOAssumption DEF Numbers, Bytes
  <1>4. ~(b < len') /\ file'[b] = Hole
    BY <1>1
  <1>5. b < len
    BY <1>1, <1>3, <1>4 DEF NothingBehind
  <1>6. len' = loc[t].where
    BY <1>1, <1>3, <1>4, <1>5 DEF AtLeast
  <1>7. len' <= b
    BY <1>2, <1>3, <1>4, <1>6
  <1>8. ASSUME NEW w \in Ids, b \in range[w] \ Ahead(w) PROVE <<w, b>> \in CutOff(len')
    BY <1>5, <1>7, <1>8 DEF CutOff
  <1>9. QED
    BY <1>1, <1>4, <1>6, <1>7, <1>8

\* Where another thread than u moves, or u is not at a place that counts.
Same(u) ==
    /\ \A f \in {"call", "where", "ids", "n", "snap", "seen"} : loc'[u][f] = loc[u][f]
    /\ pc'[u] = "sys" <=> pc[u] = "sys"
    /\ loc[u].call = "write" => at'[u] = at[u]

\* u leaves its call, or enters one that reads or maps.
Leaves(u) ==
    /\ pc'[u] # "sys"
    /\ loc'[u].call \notin {"pwrite", "write"}
    /\ loc'[u].snap \subseteq done
    /\ loc'[u].seen = {}

\* The steps that count for what u reads and writes: it begins to write, has drained the queue,
\* or transfers bytes.
Acts(u) ==
    \/ \E where \in Bytes, n \in 1 .. MaxLen : Pwrite(u, where, n)
    \/ \E n \in 1 .. MaxLen : Write(u, n)
    \/ FlushEnd(u)
    \/ \E k \in 1 .. Size : SysWrite(u, k) \/ SysRead(u, k)

\* Only t moves.
Others(t) ==
    \A u \in Threads \ {t} : loc'[u] = loc[u] /\ pc'[u] = pc[u] /\ at'[u] = at[u]

\* A step is one thread's, which goes on, leaves its call or takes one of the steps that count
\* for what it has read and written.
LEMMA ThreadStep ==
    ASSUME Shape, CallsInv, Next
    PROVE  \E t \in Threads : Others(t) /\ (Same(t) \/ Leaves(t) \/ Acts(t))
  <1>0. /\ NoCall.call = "none" /\ NoCall.snap = {} /\ NoCall.seen = {}
        /\ DOMAIN NoCall = Fields
    BY DEF NoCall, Fields
  <1>a. ASSUME NEW t \in Threads, UNCHANGED loc, pc'[t] = "sys" <=> pc[t] = "sys",
               pc[t] = "idle" \/ at'[t] = at[t]
        PROVE  Same(t)
    BY <1>0, <1>a DEF Same, CallsInv
  <1>b. ASSUME NEW t \in Threads, NEW p, NEW l, Begin(t, p, l), DOMAIN l = Fields,
               p # "sys", l.call \notin {"pwrite", "write"}, l.seen = {}, UNCHANGED at
        PROVE  Others(t) /\ Leaves(t)
    BY <1>b DEF Begin, Others, Leaves, Shape, Fields
  <1>c. ASSUME NEW t \in Threads, Return(t), UNCHANGED at
        PROVE  Others(t) /\ Leaves(t)
    BY <1>0, <1>c DEF Return, Others, Leaves, Shape
  <1>1. ASSUME NEW t \in Threads, NEW where \in Bytes, NEW n \in 1 .. MaxLen,
               QueueWrite(t, where, n)
        PROVE  Others(t) /\ Same(t)
    <2>1. /\ UNCHANGED loc /\ (pc'[t] = "sys" <=> pc[t] = "sys")
          /\ pc[t] = "idle" \/ at'[t] = at[t]
      BY <1>1 DEF QueueWrite, Calling, NewWrite, Shape
    <2>2. Others(t)
      BY <1>1 DEF QueueWrite, Calling, NewWrite, Others, Shape
    <2>3. QED
      BY <1>a, <2>1, <2>2
  <1>2. ASSUME NEW t \in Threads, NEW where \in Bytes, NEW n \in 1 .. MaxLen,
               Pwrite(t, where, n)
        PROVE  Others(t) /\ Acts(t)
    <2>1. Others(t)
      BY <1>2 DEF Pwrite, Begin, Others, Shape
    <2>2. QED
      BY <1>2, <2>1 DEF Acts
  <1>3. ASSUME NEW t \in Threads, Pread(t)
        PROVE  Others(t) /\ Leaves(t)
    <2> DEFINE l == [NoCall EXCEPT !.call = "pread", !.ids = [i \in 1 .. Size |-> Hole]]
    <2>1. Begin(t, "lock", l) /\ UNCHANGED at
      BY <1>3 DEF Pread
    <2>2. DOMAIN l = Fields /\ l.call \notin {"pwrite", "write"} /\ l.seen = {}
      BY DEF NoCall, Fields
    <2> HIDE DEF l
    <2>3. QED
      BY <1>b, <2>1, <2>2
  <1>4. ASSUME NEW t \in Threads, Flush(t)
        PROVE  Others(t) /\ Leaves(t)
    <2> DEFINE l == [NoCall EXCEPT !.call = "flush"]
    <2>1. Begin(t, "lock", l) /\ UNCHANGED at
      BY <1>4 DEF Flush
    <2>2. DOMAIN l = Fields /\ l.call \notin {"pwrite", "write"} /\ l.seen = {}
      BY DEF NoCall, Fields
    <2> HIDE DEF l
    <2>3. QED
      BY <1>b, <2>1, <2>2
  <1>5. ASSUME NEW t \in Threads, NEW n \in 1 .. MaxLen, GetMmapHandle(t, n)
        PROVE  Others(t) /\ Leaves(t)
    <2> DEFINE l == [NoCall EXCEPT !.call = "mmap", !.where = n]
    <2>1. Begin(t, "lock", l) /\ UNCHANGED at
      BY <1>5 DEF GetMmapHandle
    <2>2. DOMAIN l = Fields /\ l.call \notin {"pwrite", "write"} /\ l.seen = {}
      BY DEF NoCall, Fields
    <2> HIDE DEF l
    <2>3. QED
      BY <1>b, <2>1, <2>2
  <1>6. ASSUME NEW t \in Threads, NEW n \in 1 .. MaxLen, Read(t, n)
        PROVE  Others(t) /\ Leaves(t)
    <2> DEFINE l == [NoCall EXCEPT !.call = "read", !.ids = [i \in 1 .. n |-> Hole]]
    <2>1. Begin(t, "lock", l) /\ UNCHANGED at
      BY <1>6 DEF Read
    <2>2. DOMAIN l = Fields /\ l.call \notin {"pwrite", "write"} /\ l.seen = {}
      BY DEF NoCall, Fields
    <2> HIDE DEF l
    <2>3. QED
      BY <1>b, <2>1, <2>2
  <1>7. ASSUME NEW t \in Threads, NEW n \in 1 .. MaxLen, Write(t, n)
        PROVE  Others(t) /\ Acts(t)
    <2>1. Others(t)
      BY <1>7 DEF Write, Begin, Others, Shape
    <2>2. QED
      BY <1>7, <2>1 DEF Acts
  <1>8. ASSUME NEW t \in Threads, NEW p \in Bytes, Seek(t, p)
        PROVE  Others(t) /\ Same(t)
    <2>1. /\ UNCHANGED loc /\ (pc'[t] = "sys" <=> pc[t] = "sys")
          /\ pc[t] = "idle" \/ at'[t] = at[t]
      BY <1>8 DEF Seek, Calling, Moved, Shape
    <2>2. Others(t)
      BY <1>8 DEF Seek, Calling, Moved, Others, Shape
    <2>3. QED
      BY <1>a, <2>1, <2>2
  <1>9. ASSUME NEW t \in Threads, BeginTransaction(t)
        PROVE  Others(t) /\ Same(t)
    <2>1. /\ UNCHANGED loc /\ (pc'[t] = "sys" <=> pc[t] = "sys")
          /\ pc[t] = "idle" \/ at'[t] = at[t]
      BY <1>9 DEF BeginTransaction, Calling, Shape
    <2>2. Others(t)
      BY <1>9 DEF BeginTransaction, Calling, Others, Shape
    <2>3. QED
      BY <1>a, <2>1, <2>2
  <1>10. ASSUME NEW t \in Threads, EndTransaction(t)
        PROVE  Others(t) /\ Same(t)
    <2>1. /\ UNCHANGED loc /\ (pc'[t] = "sys" <=> pc[t] = "sys")
          /\ pc[t] = "idle" \/ at'[t] = at[t]
      BY <1>10 DEF EndTransaction, Shape
    <2>2. Others(t)
      BY <1>10 DEF EndTransaction, Others, Shape
    <2>3. QED
      BY <1>a, <2>1, <2>2
  <1>11. ASSUME NEW t \in Threads, Acquire(t)
        PROVE  Others(t) /\ Same(t)
    BY <1>11 DEF Acquire, Others, Same, Shape, Fields
  <1>12. ASSUME NEW t \in Threads, FlushPop(t)
        PROVE  Others(t) /\ Same(t)
    BY <1>12 DEF FlushPop, Others, Same, Shape, Fields
  <1>13. ASSUME NEW t \in Threads, NEW k \in 1 .. Size, FlushWrite(t, k)
        PROVE  Others(t) /\ Same(t)
    BY <1>13 DEF FlushWrite, Others, Same, Shape, Fields
  <1>14. ASSUME NEW t \in Threads, FlushFail(t)
        PROVE  Others(t) /\ Same(t)
    BY <1>14 DEF FlushFail, Others, Same, Shape, Fields
  <1>15. ASSUME NEW t \in Threads, FlushEnd(t)
        PROVE  Others(t) /\ Acts(t)
    <2>1. Others(t)
      BY <1>15 DEF FlushEnd, Return, Others, Shape
    <2>2. QED
      BY <1>15, <2>1 DEF Acts
  <1>16. ASSUME NEW t \in Threads, NEW k \in 1 .. Size, SysWrite(t, k)
        PROVE  Others(t) /\ Acts(t)
    <2>1. Others(t)
      BY <1>16 DEF SysWrite, Return, Moved, Others, Shape
    <2>2. QED
      BY <1>16, <2>1 DEF Acts
  <1>17. ASSUME NEW t \in Threads, SysFail(t)
        PROVE  Others(t) /\ Leaves(t)
    BY <1>c, <1>17 DEF SysFail
  <1>18. ASSUME NEW t \in Threads, NEW k \in 1 .. Size, SysRead(t, k)
        PROVE  Others(t) /\ Acts(t)
    <2>1. Others(t)
      BY <1>18 DEF SysRead, Moved, Others, Shape
    <2>2. QED
      BY <1>18, <2>1 DEF Acts
  <1>19. ASSUME NEW t \in Threads, SysReadEnd(t)
        PROVE  Others(t) /\ Leaves(t)
    BY <1>c, <1>19 DEF SysReadEnd
  <1>20. ASSUME NEW t \in Threads, MmapEnd(t)
        PROVE  Others(t) /\ Same(t)
    BY <1>20 DEF MmapEnd, Others, Same, Shape, Fields
  <1>21. ASSUME NEW t \in Threads, MmapGrow(t)
        PROVE  Others(t) /\ Same(t)
    <2>1. /\ UNCHANGED loc /\ (pc'[t] = "sys" <=> pc[t] = "sys")
          /\ pc[t] = "idle" \/ at'[t] = at[t]
      BY <1>21 DEF MmapGrow, Shape
    <2>2. Others(t)
      BY <1>21 DEF MmapGrow, Others, Shape
    <2>3. QED
      BY <1>a, <2>1, <2>2
  <1>22. ASSUME NEW t \in Threads, MmapRestore(t)
        PROVE  Others(t) /\ Leaves(t)
    BY <1>c, <1>22 DEF MmapRestore
  <1>23. QED
    BY <1>1, <1>2, <1>3, <1>4, <1>5, <1>6, <1>7, <1>8, <1>9, <1>10, <1>11, <1>12,
       <1>13, <1>14, <1>15, <1>16, <1>17, <1>18, <1>19, <1>20, <1>21, <1>22
       DEF Next, Step, Call

\* The threads that do not move keep their calls.
LEMMA OthersSame ==
    ASSUME NEW t, Others(t), NEW u \in Threads \ {t}
    PROVE  Same(u)
  BY DEF Others, Same

----------------------------------------------------------------------------
(* What waits to be written *)

\* A step of t that moves bytes leaves the other threads alone, and the flush of a queued
\* write leaves t's own call alone.
LEMMA MovesOthers ==
    ASSUME Shape, CallsInv, NEW t \in Threads, Moves(t)
    PROVE  Others(t)
  <1>1. ASSUME NEW where, NEW n, QueueWrite(t, where, n) \/ Pwrite(t, where, n)
        PROVE  Others(t)
    BY <1>1 DEF QueueWrite, Pwrite, Begin, Others, Shape
  <1>2. ASSUME NEW n, Write(t, n) PROVE Others(t)
    BY <1>2 DEF Write, Begin, Others, Shape
  <1>3. ASSUME FlushPop(t) \/ FlushFail(t) \/ SysFail(t) PROVE Others(t)
    BY <1>3 DEF FlushPop, FlushFail, SysFail, Return, Others, Shape
  <1>4. ASSUME NEW k, FlushWrite(t, k) \/ SysWrite(t, k) PROVE Others(t)
    BY <1>4 DEF FlushWrite, SysWrite, Return, Moved, Others, Shape
  <1>5. QED
    BY <1>1, <1>2, <1>3, <1>4 DEF Moves

\* The writes called so far.
Used == {w \in Ids : range[w] # {}}

\* A flush has taken write x's byte b from the queue and not written it yet.
Flying(x, b) == \E t \in Threads : HoldsAt(loc[t].op, loc[t].opn, x, b)

\* A queued write behind the i-th has write x's byte b.
QueuedAfter(i, x, b) == \E j \in DOMAIN queue : j > i /\ HoldsAt(queue[j], 0, x, b)

\* Write x's byte b is on its way to the file.
Waiting(x, b) == Flying(x, b) \/ QueuedAfter(0, x, b)

\* The number of the write t is making.
Id(t) == loc[t].ids[1]

\* Writes are numbered in order, a write knows of earlier ones that returned, and only writes
\* that returned wait: queueWrite returns at once.
HistoryInv ==
    /\ \E k \in 0 .. MaxWrites : Used = 1 .. k
    /\ done \subseteq Used
    /\ \A w \in Ids : before[w] \subseteq done /\ w \notin before[w]
    /\ \A x, b : Waiting(x, b) => x \in done

\* A write in progress has a number of its own, the bytes and the past it was called with.
WritersInv ==
    /\ \A t \in Threads : loc[t].snap \subseteq done
    /\ \A t \in Threads : IsWrite(t) =>
          /\ Id(t) \notin done
          /\ range[Id(t)] = Span(loc[t].where, Len(loc[t].ids))
          /\ before[Id(t)] = loc[t].snap
    /\ \A t, u \in Threads : IsWrite(t) /\ IsWrite(u) /\ Id(t) = Id(u) => t = u

\* The number of a new write is new.
LEMMA NewIdIsNew ==
    ASSUME HistoryInv, NewId \in Ids
    PROVE  /\ range[NewId] = {}
           /\ \E k \in 0 .. MaxWrites - 1 : NewId = k + 1 /\ Used = 1 .. k
  <1>1. PICK k \in 0 .. MaxWrites : Used = 1 .. k
    BY DEF HistoryInv
  <1>2. k \in Nat
    BY FdIOAssumption
  <1>3. Cardinality(1 .. k) = k
    BY <1>2, FS_Interval
  <1>4. NewId = k + 1
    BY <1>1, <1>3 DEF NewId, Used
  <1>5. k + 1 <= MaxWrites /\ k + 1 \notin 1 .. k
    BY <1>2, <1>4, FdIOAssumption DEF Ids
  <1>6. QED
    BY <1>1, <1>2, <1>4, <1>5, FdIOAssumption DEF Used

\* Only one thread, which holds the mutex, has bytes in flight.
LEMMA OneFlies ==
    ASSUME Shape, MutexInv, CallsInv, NEW t \in Threads, pc[t] = "flush", NEW x, NEW b
    PROVE  Flying(x, b) <=> HoldsAt(loc[t].op, loc[t].opn, x, b)
  <1>1. ASSUME NEW u \in Threads, u # t PROVE ~HoldsAt(loc[u].op, loc[u].opn, x, b)
    <2>1. pc[u] # "flush"
      BY <1>1 DEF MutexInv, UnderMutex
    <2>2. loc[u].op = NoOp /\ loc[u].opn = 0
      BY <2>1 DEF CallsInv
    <2>3. QED
      BY <2>2 DEF HoldsAt, NoOp
  <1>2. QED
    BY <1>1 DEF Flying

\* Nothing is in flight while the one that flushes is between two queued writes.
LEMMA NobodyFlies ==
    ASSUME Shape, MutexInv, CallsInv, NEW t \in Threads, pc[t] = "flush", ~Flushing(t), NEW x, NEW b
    PROVE  ~Flying(x, b)
  <1>1. loc[t].op = NoOp /\ loc[t].opn = 0
    BY DEF CallsInv
  <1>2. ~HoldsAt(loc[t].op, loc[t].opn, x, b)
    BY <1>1 DEF HoldsAt, NoOp
  <1>3. QED
    BY <1>2, OneFlies

\* queueWrite puts its write behind all the others.
LEMMA QueueWriteLayers ==
    ASSUME Shape, Numbers, NEW t \in Threads, NEW where \in Bytes, NEW n \in 1 .. MaxLen,
           QueueWrite(t, where, n)
    PROVE  /\ \A x, b : Flying(x, b)' <=> Flying(x, b)
           /\ \E m \in Nat \ {0} :
                 /\ DOMAIN queue' = 1 .. m
                 /\ DOMAIN queue \subseteq 1 .. m
                 /\ \A i \in 1 .. m : \A x, b :
                       HoldsAt(queue'[i], 0, x, b) <=>
                          \/ i \in DOMAIN queue /\ HoldsAt(queue[i], 0, x, b)
                          \/ i = m /\ x = NewId /\ b \in Span(where, n)
  <1>1. \A x, b : Flying(x, b)' <=> Flying(x, b)
    BY DEF QueueWrite, Flying
  <1>2. PICK op \in QueuedWrites :
              /\ \A x, b : HoldsAt(op, 0, x, b) <=> x = NewId /\ b \in Span(where, n)
              /\ queue' = Merged(queue, op)
    BY QueuedOp
  <1>3. queue \in Seq(QueuedWrites)
    BY DEF Numbers
  <1>4. PICK m \in Nat \ {0} :
              /\ DOMAIN Merged(queue, op) = 1 .. m
              /\ DOMAIN queue \subseteq 1 .. m
              /\ \A i \in 1 .. m : \A x, b :
                    HoldsAt(Merged(queue, op)[i], 0, x, b) <=>
                       \/ i \in DOMAIN queue /\ HoldsAt(queue[i], 0, x, b)
                       \/ i = m /\ HoldsAt(op, 0, x, b)
    BY <1>3, MergedHolds
  <1>5. ASSUME NEW i \in 1 .. m, NEW x, NEW b
        PROVE  HoldsAt(queue'[i], 0, x, b) <=>
                          \/ i \in DOMAIN queue /\ HoldsAt(queue[i], 0, x, b)
                          \/ i = m /\ x = NewId /\ b \in Span(where, n)
    <2>1. HoldsAt(Merged(queue, op)[i], 0, x, b) <=>
                       \/ i \in DOMAIN queue /\ HoldsAt(queue[i], 0, x, b)
                       \/ i = m /\ HoldsAt(op, 0, x, b)
      BY <1>4
    <2>2. HoldsAt(op, 0, x, b) <=> x = NewId /\ b \in Span(where, n)
      BY <1>2
    <2>3. QED
      BY <1>2, <2>1, <2>2
  <1>6. DOMAIN queue' = 1 .. m
    BY <1>2, <1>4
  <1>7. QED
    BY <1>1, <1>4, <1>5, <1>6

\* What is popped flies instead of being queued.
LEMMA FlushPopLayers ==
    ASSUME Shape, Numbers, MutexInv, CallsInv, NEW t \in Threads, FlushPop(t)
    PROVE  /\ 1 \in DOMAIN queue
           /\ \A x, b : ~Flying(x, b)
           /\ \A x, b : Flying(x, b)' => HoldsAt(queue[1], 0, x, b)
           /\ \A x, b : HoldsAt(queue[1], 0, x, b) => Flying(x, b)'
           /\ \A i \in DOMAIN queue' : i + 1 \in DOMAIN queue /\ queue'[i] = queue[i + 1]
           /\ \A i \in DOMAIN queue : i = 1 \/ (i - 1 \in DOMAIN queue' /\ queue'[i - 1] = queue[i])
           /\ \A i \in DOMAIN queue : i \in Nat \ {0}
  <1>1. /\ pc[t] = "flush" /\ ~Flushing(t) /\ queue # <<>> /\ queue' = Tail(queue)
        /\ loc' = [loc EXCEPT ![t].op = Head(queue), ![t].opn = 0]
    BY DEF FlushPop
  <1>2. \A x, b : ~Flying(x, b)
    BY <1>1, NobodyFlies
  <1>3. queue \in Seq(QueuedWrites)
    BY DEF Numbers
  <1>4. /\ 1 \in DOMAIN queue /\ Head(queue) = queue[1]
        /\ \A i \in DOMAIN Tail(queue) : i + 1 \in DOMAIN queue /\ Tail(queue)[i] = queue[i + 1]
        /\ \A i \in DOMAIN queue :
              i = 1 \/ (i - 1 \in DOMAIN Tail(queue) /\ Tail(queue)[i - 1] = queue[i])
        /\ \A i \in DOMAIN queue : i \in Nat \ {0}
    BY <1>1, <1>3
  <1>5. ASSUME NEW x, NEW b
        PROVE  Flying(x, b)' <=> HoldsAt(queue[1], 0, x, b)
    <2>1. loc'[t].op = queue[1] /\ loc'[t].opn = 0
      BY <1>1, <1>4 DEF Shape, Fields
    <2>2. \A u \in Threads \ {t} : loc'[u] = loc[u]
      BY <1>1 DEF Shape
    <2>3. \A u \in Threads \ {t} : ~HoldsAt(loc'[u].op, loc'[u].opn, x, b)
      BY <1>2, <2>2 DEF Flying
    <2>4. Flying(x, b)' <=> HoldsAt(loc'[t].op, loc'[t].opn, x, b)
      BY <2>3 DEF Flying
    <2>5. QED
      BY <2>1, <2>4
  <1>6. QED
    BY <1>1, <1>2, <1>4, <1>5

\* What is written to the file no longer flies.
LEMMA FlushWriteLayers ==
    ASSUME Shape, Numbers, Bounds, MutexInv, CallsInv, NEW t \in Threads, NEW k \in 1 .. Size,
           FlushWrite(t, k)
    PROVE  /\ \A x, b : Flying(x, b)' => Flying(x, b)
           /\ \A x, b : Flying(x, b) => Flying(x, b)' \/ (b \in Bytes /\ file'[b] = x)
           /\ \A b \in Bytes : file'[b] = file[b] \/ Flying(file'[b], b)
  <1> DEFINE op == loc[t].op  i == loc[t].opn
  <1>1. PICK p, s, m : p = op.where /\ s = op.ids /\ m = i
    OBVIOUS
  <1>2. /\ p \in Nat /\ s \in Seq(Ids) /\ m \in Nat /\ Len(s) \in Nat
        /\ k \in Nat /\ k <= Len(s) - m
        /\ k > 0
    BY <1>1 DEF FlushWrite, Numbers, QueuedWrites
  <1>3. p + Len(s) <= Size
    BY <1>1 DEF Bounds, CallBounds, IsBounded
  <1>4. \A x, b : Flying(x, b) <=> \E j \in m + 1 .. Len(s) : s[j] = x /\ b = p + j - 1
    <2>1. pc[t] = "flush"
      BY DEF FlushWrite
    <2>2. QED
      BY <1>1, <2>1, OneFlies DEF HoldsAt
  <1>5. ASSUME NEW x, NEW b
        PROVE  Flying(x, b)' <=> \E j \in m + k + 1 .. Len(s) : s[j] = x /\ b = p + j - 1
    <2>1. \A u \in Threads \ {t} : ~HoldsAt(loc'[u].op, loc'[u].opn, x, b)
      <3>1. ASSUME NEW u \in Threads \ {t} PROVE ~HoldsAt(loc'[u].op, loc'[u].opn, x, b)
        <4>1. loc'[u] = loc[u]
          BY DEF FlushWrite, Shape
        <4>2. pc[u] # "flush"
          BY DEF FlushWrite, MutexInv, UnderMutex
        <4>3. loc[u].op = NoOp /\ loc[u].opn = 0
          BY <4>2 DEF CallsInv
        <4>4. QED
          BY <4>1, <4>3 DEF HoldsAt, NoOp
      <3>2. QED
        BY <3>1
    <2>2. Flying(x, b)' <=> HoldsAt(loc'[t].op, loc'[t].opn, x, b)
      BY <2>1 DEF Flying
    <2>3. CASE m + k = Len(s)
      <3>1. loc'[t].op = NoOp /\ loc'[t].opn = 0
        BY <1>1, <2>3 DEF FlushWrite, Shape, Fields
      <3>2. ~HoldsAt(loc'[t].op, loc'[t].opn, x, b)
        BY <3>1 DEF HoldsAt, NoOp
      <3>3. m + k + 1 .. Len(s) = {}
        BY <1>2, <2>3
      <3>4. QED
        BY <2>2, <3>2, <3>3
    <2>4. CASE m + k # Len(s)
      <3>1. loc'[t].op = op /\ loc'[t].opn = m + k
        BY <1>1, <2>4 DEF FlushWrite, Shape, Fields
      <3>2. QED
        BY <1>1, <2>2, <3>1 DEF HoldsAt
    <2>5. QED
      BY <2>3, <2>4
  <1>6. file' = [b \in Bytes |-> IF b \in Span(p + m, k) THEN s[b - p + 1] ELSE file[b]]
    BY <1>1 DEF FlushWrite, Flushed, Put
  <1>7. ASSUME NEW x, NEW b, NEW j \in m + 1 .. Len(s), s[j] = x, b = p + j - 1
        PROVE  \/ j \in m + k + 1 .. Len(s)
               \/ b \in Bytes /\ file'[b] = x
    <2>1. CASE j <= m + k
      <3>1. b \in Bytes /\ b \in Span(p + m, k) /\ b - p + 1 = j
        BY <1>2, <1>3, <1>7, <2>1, FdIOAssumption DEF Bytes, Span
      <3>2. QED
        BY <1>6, <1>7, <3>1
    <2>2. CASE ~(j <= m + k)
      BY <1>2, <2>2
    <2>3. QED
      BY <2>1, <2>2
  <1>8. ASSUME NEW b \in Bytes, b \in Span(p + m, k)
        PROVE  b - p + 1 \in m + 1 .. Len(s) /\ b = p + (b - p + 1) - 1
    BY <1>2, <1>8, FdIOAssumption DEF Bytes, Span
  <1>9. m + k + 1 .. Len(s) \subseteq m + 1 .. Len(s)
    BY <1>2
  <1>10. \A x, b : Flying(x, b)' => Flying(x, b)
    BY <1>4, <1>5, <1>9
  <1>11. \A x, b : Flying(x, b) => Flying(x, b)' \/ (b \in Bytes /\ file'[b] = x)
    BY <1>4, <1>5, <1>7
  <1>12. \A b \in Bytes : file'[b] = file[b] \/ Flying(file'[b], b)
    BY <1>4, <1>6, <1>8
  <1>13. QED
    BY <1>10, <1>11, <1>12

\* What is given up no longer flies, and is lost.
LEMMA FlushFailLayers ==
    ASSUME Shape, MutexInv, CallsInv, NEW t \in Threads, FlushFail(t)
    PROVE  /\ \A x, b : ~Flying(x, b)'
           /\ \A x, b : Flying(x, b) => <<x, b>> \in lost'
  <1>1. pc[t] = "flush" /\ loc' = [loc EXCEPT ![t].op = NoOp, ![t].opn = 0]
    BY DEF FlushFail
  <1>2. ASSUME NEW x, NEW b PROVE ~Flying(x, b)'
    <2>1. ASSUME NEW u \in Threads PROVE ~HoldsAt(loc'[u].op, loc'[u].opn, x, b)
      <3>1. loc'[u].op = NoOp /\ loc'[u].opn = 0
        BY <1>1 DEF Shape, Fields, CallsInv, MutexInv, UnderMutex
      <3>2. QED
        BY <3>1 DEF HoldsAt, NoOp
    <2>2. QED
      BY <2>1 DEF Flying
  <1>3. ASSUME NEW x, NEW b, Flying(x, b) PROVE <<x, b>> \in lost'
    <2>1. HoldsAt(loc[t].op, loc[t].opn, x, b)
      BY <1>1, <1>3, OneFlies
    <2>2. QED
      BY <2>1 DEF HoldsAt, FlushFail
  <1>4. QED
    BY <1>2, <1>3

\* Calls of pwrite and write, and their own system calls, leave the queue alone.
LEMMA DirectLayers ==
    ASSUME Shape, CallsInv, NEW t \in Threads,
           \/ \E where \in Bytes, n \in 1 .. MaxLen : Pwrite(t, where, n)
           \/ \E n \in 1 .. MaxLen : Write(t, n)
           \/ SysFail(t)
           \/ \E k \in 1 .. Size : SysWrite(t, k)
    PROVE  /\ queue' = queue
           /\ \A u \in Threads : loc'[u].op = loc[u].op /\ loc'[u].opn = loc[u].opn
  <1>1. queue' = queue
    BY DEF Pwrite, Write, SysFail, SysWrite
  <1>2. Others(t)
    BY MovesOthers DEF Moves
  <1>3. pc[t] # "flush"
    BY DEF Pwrite, Write, SysFail, SysWrite, Calling
  <1>4. loc[t].op = NoOp /\ loc[t].opn = 0
    BY <1>3 DEF CallsInv
  <1>5. NoCall.op = NoOp /\ NoCall.opn = 0 /\ DOMAIN NoCall = Fields
    BY DEF NoCall, Fields
  <1>6. loc'[t].op = loc[t].op /\ loc'[t].opn = loc[t].opn
    <2>1. ASSUME NEW where, NEW n, Pwrite(t, where, n)
          PROVE  loc'[t].op = NoOp /\ loc'[t].opn = 0
      BY <2>1 DEF Pwrite, Begin, NoCall, Shape
    <2>2. ASSUME NEW n, Write(t, n)
          PROVE  loc'[t].op = NoOp /\ loc'[t].opn = 0
      BY <2>2 DEF Write, Begin, NoCall, Shape
    <2>3. ASSUME Return(t)
          PROVE  loc'[t].op = NoOp /\ loc'[t].opn = 0
      BY <1>5, <2>3 DEF Return, Shape
    <2>4. ASSUME NEW k, SysWrite(t, k)
          PROVE  loc'[t].op = NoOp /\ loc'[t].opn = 0
      <3>1. CASE loc' = [loc EXCEPT ![t].n = @ + k]
        BY <1>4, <3>1 DEF Shape, Fields
      <3>2. QED
        BY <2>3, <2>4, <3>1 DEF SysWrite
    <2>5. QED
      BY <1>4, <2>1, <2>2, <2>3, <2>4 DEF SysFail
  <1>7. QED
    BY <1>1, <1>2, <1>6 DEF Others

\* What is in flight and queued stays so when the queue and the flushes do.
LEMMA LayersSame ==
    ASSUME queue' = queue, \A u \in Threads : loc'[u].op = loc[u].op /\ loc'[u].opn = loc[u].opn
    PROVE  /\ \A x, b : Flying(x, b)' <=> Flying(x, b)
           /\ \A i, x, b : QueuedAfter(i, x, b)' <=> QueuedAfter(i, x, b)
  BY DEF Flying, QueuedAfter

\* Nothing waits to be written but what waited before and the write being queued.
LEMMA WaitingStep ==
    ASSUME Shape, Numbers, Bounds, MutexInv, CallsInv, HistoryInv,
           Quiet \/ \E t \in Threads : Moves(t), NEW x, NEW b, Waiting(x, b)'
    PROVE  Waiting(x, b) \/ x \in done' \ done
  <1>1. ASSUME queue' = queue,
               \A u \in Threads : loc'[u].op = loc[u].op /\ loc'[u].opn = loc[u].opn
        PROVE  Waiting(x, b)
    BY <1>1, LayersSame DEF Waiting
  <1>2. CASE Quiet
    BY <1>1, <1>2 DEF Quiet
  <1>3. ASSUME NEW t \in Threads, NEW where \in Bytes, NEW n \in 1 .. MaxLen,
               QueueWrite(t, where, n)
        PROVE  Waiting(x, b) \/ x \in done' \ done
    <2>1. /\ \A y, c : Flying(y, c)' <=> Flying(y, c)
          /\ \E m \in Nat \ {0} :
                 /\ DOMAIN queue' = 1 .. m
                 /\ DOMAIN queue \subseteq 1 .. m
                 /\ \A i \in 1 .. m : \A y, c :
                       HoldsAt(queue'[i], 0, y, c) <=>
                          \/ i \in DOMAIN queue /\ HoldsAt(queue[i], 0, y, c)
                          \/ i = m /\ y = NewId /\ c \in Span(where, n)
      BY <1>3, QueueWriteLayers
    <2>2. Waiting(x, b) \/ x = NewId
      BY <2>1 DEF Waiting, QueuedAfter
    <2>3. NewId \in done' /\ NewId \in Ids
      BY <1>3 DEF QueueWrite, NewWrite
    <2>4. NewId \notin done
      BY <2>3, NewIdIsNew DEF HistoryInv, Used
    <2>5. QED
      BY <2>2, <2>3, <2>4
  <1>4. ASSUME NEW t \in Threads, FlushPop(t)
        PROVE  Waiting(x, b)
    <2>1. /\ 1 \in DOMAIN queue
          /\ \A y, c : Flying(y, c)' => HoldsAt(queue[1], 0, y, c)
          /\ \A i \in DOMAIN queue' : i + 1 \in DOMAIN queue /\ queue'[i] = queue[i + 1]
          /\ \A i \in DOMAIN queue : i \in Nat \ {0}
      BY <1>4, FlushPopLayers
    <2>2. \A i \in DOMAIN queue : i > 0
      BY <2>1
    <2>3. QED
      BY <2>1, <2>2 DEF Waiting, QueuedAfter
  <1>5. ASSUME NEW t \in Threads, NEW k \in 1 .. Size, FlushWrite(t, k)
        PROVE  Waiting(x, b)
    <2>1. Flying(x, b)' => Flying(x, b)
      BY <1>5, FlushWriteLayers
    <2>2. queue' = queue
      BY <1>5 DEF FlushWrite
    <2>3. QED
      BY <2>1, <2>2 DEF Waiting, QueuedAfter
  <1>6. ASSUME NEW t \in Threads, FlushFail(t)
        PROVE  Waiting(x, b)
    <2>1. ~Flying(x, b)'
      BY <1>6, FlushFailLayers
    <2>2. queue' = queue
      BY <1>6 DEF FlushFail
    <2>3. QED
      BY <2>1, <2>2 DEF Waiting, QueuedAfter
  <1>7. ASSUME NEW t \in Threads, 
               \/ \E where \in Bytes, n \in 1 .. MaxLen : Pwrite(t, where, n)
               \/ \E n \in 1 .. MaxLen : Write(t, n)
               \/ SysFail(t)
               \/ \E k \in 1 .. Size : SysWrite(t, k)
        PROVE  Waiting(x, b)
    BY <1>1, <1>7, DirectLayers
  <1>8. QED
    BY <1>2, <1>3, <1>4, <1>5, <1>6, <1>7 DEF Moves

\* What is in the history stays there.
LEMMA HistoryGrows ==
    ASSUME Shape, Bounds, HistoryInv, Quiet \/ \E t \in Threads : Moves(t)
    PROVE  /\ done \subseteq done' /\ lost \subseteq lost'
           /\ \A w \in Used : range'[w] = range[w] /\ before'[w] = before[w]
  <1>1. CASE Quiet
    BY <1>1 DEF Quiet, MmapGrow
  <1>2. ASSUME NEW id \in Ids, id = NewId, NEW where, NEW n, NewWrite(id, where, n)
        PROVE  \A w \in Used : range'[w] = range[w] /\ before'[w] = before[w]
    <2>1. NewId \notin Used
      BY <1>2, NewIdIsNew DEF Used
    <2>2. QED
      BY <1>2, <2>1 DEF NewWrite, Used, Bounds, HistoryTypes
  <1>3. ASSUME NEW t \in Threads, NEW where \in Bytes, NEW n \in 1 .. MaxLen,
               QueueWrite(t, where, n) \/ Pwrite(t, where, n)
        PROVE  /\ done \subseteq done' /\ lost \subseteq lost'
               /\ \A w \in Used : range'[w] = range[w] /\ before'[w] = before[w]
    <2>1. NewWrite(NewId, where, n) /\ done \subseteq done' /\ lost \subseteq lost'
      BY <1>3 DEF QueueWrite, Pwrite
    <2>2. QED
      BY <1>2, <2>1 DEF NewWrite
  <1>4. ASSUME NEW t \in Threads, NEW n \in 1 .. MaxLen, Write(t, n)
        PROVE  /\ done \subseteq done' /\ lost \subseteq lost'
               /\ \A w \in Used : range'[w] = range[w] /\ before'[w] = before[w]
    <2>1. NewWrite(NewId, cursor, n) /\ done \subseteq done' /\ lost \subseteq lost'
      BY <1>4 DEF Write
    <2>2. QED
      BY <1>2, <2>1 DEF NewWrite
  <1>5. ASSUME NEW t \in Threads, FlushPop(t) \/ FlushFail(t) \/ SysFail(t)
        PROVE  /\ done \subseteq done' /\ lost \subseteq lost' /\ range' = range /\ before' = before
    BY <1>5 DEF FlushPop, FlushFail, SysFail, histVars
  <1>6. ASSUME NEW t \in Threads, NEW k \in 1 .. Size, FlushWrite(t, k) \/ SysWrite(t, k)
        PROVE  /\ done \subseteq done' /\ lost \subseteq lost' /\ range' = range /\ before' = before
    BY <1>6 DEF FlushWrite, SysWrite, histVars
  <1>7. QED
    BY <1>1, <1>3, <1>4, <1>5, <1>6 DEF Moves

\* Every step keeps the numbers of the writes in order, and only returned writes wait.
LEMMA HistoryStep ==
    ASSUME Shape, Numbers, Bounds, MutexInv, CallsInv, HistoryInv, WritersInv,
           Quiet \/ \E t \in Threads : Moves(t)
    PROVE  HistoryInv'
  <1>1. ASSUME NEW id, id = NewId, NEW where \in Nat, NEW n \in 1 .. MaxLen,
               NewWrite(id, where, n), done' \in {done, done \cup {id}}
        PROVE  /\ \E k \in 0 .. MaxWrites : Used' = 1 .. k
               /\ done' \subseteq Used'
               /\ \A w \in Ids : before'[w] \subseteq done' /\ w \notin before'[w]
    <2>1. id \in Ids /\ range' = [range EXCEPT ![id] = Span(where, n)]
          /\ before' = [before EXCEPT ![id] = done]
      BY <1>1 DEF NewWrite
    <2>2. PICK k \in 0 .. MaxWrites - 1 : id = k + 1 /\ Used = 1 .. k
      BY <1>1, <2>1, NewIdIsNew
    <2>3. Span(where, n) # {}
      <3>1. where \in Span(where, n)
        BY FdIOAssumption DEF Span
      <3>2. QED
        BY <3>1
    <2>4. Used' = Used \cup {id}
      BY <2>1, <2>3 DEF Used, Bounds, HistoryTypes
    <2>5. k + 1 \in 0 .. MaxWrites /\ 1 .. k + 1 = (1 .. k) \cup {k + 1}
      BY <2>2, FdIOAssumption
    <2>6. Used' = 1 .. k + 1
      BY <2>2, <2>4, <2>5
    <2>7. id \notin done
      BY <1>1, <2>1, NewIdIsNew DEF HistoryInv, Used
    <2>8. done' \subseteq Used'
      BY <1>1, <2>4 DEF HistoryInv
    <2>9. \A w \in Ids : before'[w] \subseteq done' /\ w \notin before'[w]
      BY <1>1, <2>1, <2>7 DEF HistoryInv, Bounds, HistoryTypes
    <2>10. QED
      BY <2>5, <2>6, <2>8, <2>9
  <1>2. ASSUME range' = range, before' = before, done \subseteq done', done' \subseteq Used
        PROVE  /\ \E k \in 0 .. MaxWrites : Used' = 1 .. k
               /\ done' \subseteq Used'
               /\ \A w \in Ids : before'[w] \subseteq done' /\ w \notin before'[w]
    <2>1. Used' = Used
      BY <1>2 DEF Used
    <2>2. QED
      BY <1>2, <2>1 DEF HistoryInv
  <1>3. /\ \E k \in 0 .. MaxWrites : Used' = 1 .. k
        /\ done' \subseteq Used'
        /\ \A w \in Ids : before'[w] \subseteq done' /\ w \notin before'[w]
    <2>1. CASE Quiet
      BY <1>2, <2>1 DEF Quiet, HistoryInv
    <2>2. ASSUME NEW t \in Threads, NEW where \in Bytes, NEW n \in 1 .. MaxLen,
                 QueueWrite(t, where, n) \/ Pwrite(t, where, n)
          PROVE  /\ NewWrite(NewId, where, n) /\ done' \in {done, done \cup {NewId}}
                 /\ where \in Nat
      BY <2>2, FdIOAssumption DEF QueueWrite, Pwrite, Bytes
    <2>3. ASSUME NEW t \in Threads, NEW n \in 1 .. MaxLen, Write(t, n)
          PROVE  NewWrite(NewId, cursor, n) /\ done' = done /\ cursor \in Nat
      BY <2>3 DEF Write, Numbers
    <2>4. ASSUME NEW t \in Threads,
                 \/ FlushPop(t) \/ FlushFail(t)
                 \/ \E k \in 1 .. Size : FlushWrite(t, k)
          PROVE  range' = range /\ before' = before /\ done' = done
      BY <2>4 DEF FlushPop, FlushFail, FlushWrite, histVars
    <2>5. ASSUME NEW t \in Threads, SysFail(t) \/ \E k \in 1 .. Size : SysWrite(t, k)
          PROVE  range' = range /\ before' = before /\ done \subseteq done' /\ done' \subseteq Used
      <3>1. /\ range' = range /\ before' = before /\ done' \in {done, done \cup {Id(t)}}
            /\ IsWrite(t)
        BY <2>5 DEF SysFail, SysWrite, Id
      <3>2. Id(t) \in Used
        <4>1. IsBounded(loc[t]) /\ loc[t].where \in Nat
          BY DEF Bounds, CallBounds, Numbers
        <4>2. Id(t) \in Ids /\ loc[t].ids # <<>> /\ loc[t].ids \in Seq(Ids \cup {Hole})
          BY <3>1, <4>1 DEF IsBounded, IsWrite, Id
        <4>3. Len(loc[t].ids) \in Nat /\ Len(loc[t].ids) > 0
          BY <4>2
        <4>4. loc[t].where \in Span(loc[t].where, Len(loc[t].ids))
          BY <4>1, <4>3 DEF Span
        <4>5. QED
          BY <3>1, <4>2, <4>4 DEF WritersInv, Used
      <3>3. QED
        BY <3>1, <3>2 DEF HistoryInv
    <2>6. QED
      BY <1>1, <1>2, <2>1, <2>2, <2>3, <2>4, <2>5 DEF Moves, HistoryInv
  <1>4. \A x, b : Waiting(x, b)' => x \in done'
    <2>1. ASSUME NEW x, NEW b, Waiting(x, b)' PROVE x \in done'
      <3>1. Waiting(x, b) \/ x \in done' \ done
        BY <2>1, WaitingStep
      <3>2. QED
        BY <3>1, HistoryGrows DEF HistoryInv
    <2>2. QED
      BY <2>1
  <1>5. QED
    BY <1>3, <1>4 DEF HistoryInv

----------------------------------------------------------------------------
(* Writes in progress *)

\* The number of a write in progress is in use.
LEMMA WriterFacts ==
    ASSUME Shape, Numbers, Bounds, WritersInv, NEW t \in Threads, IsWrite(t)
    PROVE  /\ Id(t) \in Used
           /\ loc[t].where \in Nat /\ loc[t].n \in Nat /\ Len(loc[t].ids) \in Nat
           /\ loc[t].n <= Len(loc[t].ids)
           /\ range[Id(t)] = Span(loc[t].where, Len(loc[t].ids))
  <1>1. IsBounded(loc[t]) /\ loc[t].where \in Nat /\ loc[t].n \in Nat
    BY DEF Bounds, CallBounds, Numbers
  <1>2. Id(t) \in Ids /\ loc[t].ids # <<>> /\ loc[t].ids \in Seq(Ids \cup {Hole})
    BY <1>1 DEF IsBounded, IsWrite, Id
  <1>3. Len(loc[t].ids) \in Nat /\ Len(loc[t].ids) > 0
    BY <1>2
  <1>4. loc[t].where \in Span(loc[t].where, Len(loc[t].ids))
    BY <1>1, <1>3 DEF Span
  <1>5. QED
    BY <1>1, <1>2, <1>3, <1>4 DEF IsBounded, WritersInv, Used

\* u's call goes on.
Keeps(u) == \A f \in {"call", "where", "ids", "snap"} : loc'[u][f] = loc[u][f]

\* u has no write in progress any more.
Quits(u) == loc'[u].call \notin {"pwrite", "write"} /\ loc'[u].snap \subseteq done

\* u begins to write the bytes at p.
Starts(u, p, n) ==
    /\ loc'[u].call \in {"pwrite", "write"}
    /\ loc'[u].where = p /\ loc'[u].n = 0 /\ loc'[u].ids = [i \in 1 .. n |-> NewId]
    /\ loc'[u].snap = done /\ loc'[u].seen = {} /\ done' = done
    /\ NewWrite(NewId, p, n)

\* pwrite and write begin with the next number, and with what had returned by then.
LEMMA StartFacts ==
    ASSUME NEW u \in Threads, Shape
    PROVE  /\ \A where, n : Pwrite(u, where, n) =>
                 Starts(u, where, n) /\ loc'[u].call = "pwrite" /\ pc'[u] = "lock"
           /\ \A n : Write(u, n) =>
                 Starts(u, cursor, n) /\ loc'[u].call = "write" /\ pc'[u] = "sys"
  <1>1. ASSUME NEW where, NEW n, Pwrite(u, where, n)
        PROVE  Starts(u, where, n) /\ loc'[u].call = "pwrite" /\ pc'[u] = "lock"
    <2>1. /\ NewWrite(NewId, where, n) /\ done' = done /\ pc'[u] = "lock"
          /\ loc'[u] = [[NoCall EXCEPT !.call = "pwrite", !.where = where,
                                      !.ids = [i \in 1 .. n |-> NewId]] EXCEPT !.snap = done]
      BY <1>1 DEF Pwrite, Begin, Shape
    <2>2. QED
      BY <2>1 DEF Starts, NoCall
  <1>2. ASSUME NEW n, Write(u, n)
        PROVE  Starts(u, cursor, n) /\ loc'[u].call = "write" /\ pc'[u] = "sys"
    <2>1. /\ NewWrite(NewId, cursor, n) /\ done' = done /\ pc'[u] = "sys"
          /\ loc'[u] = [[NoCall EXCEPT !.call = "write", !.where = cursor,
                                      !.ids = [i \in 1 .. n |-> NewId]] EXCEPT !.snap = done]
      BY <1>2 DEF Write, Begin, Shape
    <2>2. QED
      BY <2>1 DEF Starts, NoCall
  <1>3. QED
    BY <1>1, <1>2

\* One thread at a time begins a write, or leaves its call, and the others keep theirs.
LEMMA CallStep ==
    ASSUME Shape, Numbers, CallsInv, Next
    PROVE  \E t \in Threads :
              /\ \A u \in Threads \ {t} : Keeps(u)
              /\ \/ Keeps(t) \/ Quits(t)
                 \/ \E p \in Nat, n \in 1 .. MaxLen : Starts(t, p, n)
  <1>1. PICK t \in Threads : Others(t) /\ (Same(t) \/ Leaves(t) \/ Acts(t))
    BY ThreadStep
  <1>2. \A u \in Threads \ {t} : Keeps(u)
    BY <1>1 DEF Others, Keeps
  <1>3. NoCall.call = "none" /\ NoCall.snap = {}
    BY DEF NoCall
  <1>4. ASSUME Return(t) PROVE Quits(t)
    BY <1>3, <1>4 DEF Return, Quits, Shape
  <1>5. CASE Same(t) \/ Leaves(t)
    BY <1>5, <1>2 DEF Same, Leaves, Keeps, Quits
  <1>6. ASSUME NEW where \in Bytes, NEW n \in 1 .. MaxLen, Pwrite(t, where, n)
        PROVE  where \in Nat /\ Starts(t, where, n)
    BY <1>6, StartFacts, FdIOAssumption DEF Bytes
  <1>7. ASSUME NEW n \in 1 .. MaxLen, Write(t, n)
        PROVE  cursor \in Nat /\ Starts(t, cursor, n)
    BY <1>7, StartFacts DEF Numbers
  <1>8. ASSUME FlushEnd(t) PROVE Keeps(t) \/ Quits(t)
    BY <1>4, <1>8 DEF FlushEnd, Keeps
  <1>9. ASSUME NEW k \in 1 .. Size, SysWrite(t, k) PROVE Keeps(t) \/ Quits(t)
    <2>1. CASE loc' = [loc EXCEPT ![t].n = @ + k]
      BY <2>1 DEF Keeps, Shape, Fields
    <2>2. QED
      BY <1>4, <1>9, <2>1 DEF SysWrite
  <1>10. ASSUME NEW k \in 1 .. Size, SysRead(t, k) PROVE Keeps(t)
    BY <1>10 DEF SysRead, Keeps, Shape, Fields
  <1>11. QED
    BY <1>1, <1>2, <1>5, <1>6, <1>7, <1>8, <1>9, <1>10 DEF Acts

\* A write that returns is a new one, or that of a thread that is done with it.
LEMMA DoneStep ==
    ASSUME Shape, HistoryInv, Quiet \/ \E t \in Threads : Moves(t), NEW x \in done' \ done
    PROVE  x \notin Used \/ \E t \in Threads : IsWrite(t) /\ x = Id(t) /\ ~IsWrite(t)'
  <1>1. ASSUME NEW t \in Threads, Return(t) PROVE ~IsWrite(t)'
    BY <1>1 DEF Return, NoCall, IsWrite, Shape
  <1>2. CASE Quiet
    BY <1>2 DEF Quiet
  <1>3. ASSUME NEW t \in Threads, NEW where, NEW n,
               QueueWrite(t, where, n)
        PROVE  x = NewId /\ NewId \in Ids
    BY <1>3 DEF QueueWrite, NewWrite
  <1>4. ASSUME NEW t \in Threads,
               \/ \E where, n : Pwrite(t, where, n)
               \/ \E n : Write(t, n)
               \/ FlushPop(t) \/ FlushFail(t)
               \/ \E k : FlushWrite(t, k)
        PROVE  FALSE
    BY <1>4 DEF Pwrite, Write, FlushPop, FlushFail, FlushWrite, histVars
  <1>5. ASSUME NEW t \in Threads, SysFail(t) \/ \E k : SysWrite(t, k)
        PROVE  IsWrite(t) /\ x = Id(t) /\ Return(t)
    BY <1>5 DEF SysFail, SysWrite, Id
  <1>6. ASSUME NewId \in Ids PROVE NewId \notin Used
    BY <1>6, NewIdIsNew DEF Used
  <1>7. QED
    BY <1>1, <1>2, <1>3, <1>4, <1>5, <1>6 DEF Moves

\* Every step keeps a number of its own for each write in progress.
LEMMA WritersStep ==
    ASSUME Shape, Numbers, Bounds, CallsInv, HistoryInv, WritersInv, Next,
           Quiet \/ \E t \in Threads : Moves(t)
    PROVE  WritersInv'
  <1>1. PICK t \in Threads :
              /\ \A u \in Threads \ {t} : Keeps(u)
              /\ \/ Keeps(t) \/ Quits(t)
                 \/ \E p \in Nat, n \in 1 .. MaxLen : Starts(t, p, n)
    BY CallStep
  <1>2. /\ done \subseteq done'
        /\ \A w \in Used : range'[w] = range[w] /\ before'[w] = before[w]
    BY HistoryGrows
  <1>3. ASSUME NEW u \in Threads, Keeps(u), IsWrite(u)'
        PROVE  /\ IsWrite(u) /\ Id(u)' = Id(u) /\ Id(u) \in Used
               /\ Id(u)' \notin done'
               /\ range'[Id(u)'] = Span(loc'[u].where, Len(loc'[u].ids))
               /\ before'[Id(u)'] = loc'[u].snap
    <2>1. IsWrite(u) /\ Id(u)' = Id(u)
      BY <1>3 DEF Keeps, IsWrite, Id
    <2>2. Id(u) \in Used
      BY <2>1, WriterFacts
    <2>3. Id(u) \notin done'
      <3>1. SUFFICES ASSUME Id(u) \in done' PROVE FALSE
        OBVIOUS
      <3>2. Id(u) \notin done
        BY <2>1 DEF WritersInv
      <3>3. PICK v \in Threads : IsWrite(v) /\ Id(u) = Id(v) /\ ~IsWrite(v)'
        BY <2>2, <3>1, <3>2, DoneStep
      <3>4. v = u
        BY <2>1, <3>3 DEF WritersInv
      <3>5. QED
        BY <1>3, <3>3, <3>4
    <2>4. range'[Id(u)] = Span(loc'[u].where, Len(loc'[u].ids)) /\ before'[Id(u)] = loc'[u].snap
      BY <1>2, <1>3, <2>1, <2>2 DEF Keeps, WritersInv
    <2>5. QED
      BY <2>1, <2>2, <2>3, <2>4
  <1>4. ASSUME NEW p \in Nat, NEW n \in 1 .. MaxLen, Starts(t, p, n)
        PROVE  /\ Id(t)' = NewId /\ NewId \notin Used /\ NewId \notin done'
               /\ range'[NewId] = Span(loc'[t].where, Len(loc'[t].ids))
               /\ before'[NewId] = loc'[t].snap
    <2>1. NewId \in Ids /\ n \in Nat /\ n > 0
      BY <1>4, FdIOAssumption DEF Starts, NewWrite
    <2>2. NewId \notin Used /\ NewId \notin done
      BY <2>1, NewIdIsNew DEF Used, HistoryInv
    <2>3. Id(t)' = NewId /\ Len(loc'[t].ids) = n
      BY <1>4, <2>1 DEF Starts, Id
    <2>4. range'[NewId] = Span(p, n) /\ before'[NewId] = done
      BY <1>4, <2>1 DEF Starts, NewWrite, Bounds, HistoryTypes
    <2>5. QED
      BY <1>4, <2>2, <2>3, <2>4 DEF Starts
  <1>5. \A u \in Threads : loc'[u].snap \subseteq done'
    <2>1. \A u \in Threads : Keeps(u) => loc'[u].snap = loc[u].snap
      BY DEF Keeps
    <2>2. \A u \in Threads : loc[u].snap \subseteq done
      BY DEF WritersInv
    <2>3. ASSUME NEW p, NEW n, Starts(t, p, n) PROVE loc'[t].snap \subseteq done
      BY <2>3 DEF Starts
    <2>4. QED
      BY <1>1, <1>2, <2>1, <2>2, <2>3 DEF Quits
  <1>6. Quits(t) => ~IsWrite(t)'
    BY DEF Quits, IsWrite
  <1>7. \A u \in Threads : IsWrite(u)' =>
          /\ Id(u)' \notin done'
          /\ range'[Id(u)'] = Span(loc'[u].where, Len(loc'[u].ids))
          /\ before'[Id(u)'] = loc'[u].snap
    BY <1>1, <1>3, <1>4, <1>6
  <1>8. \A u, v \in Threads : IsWrite(u)' /\ IsWrite(v)' /\ Id(u)' = Id(v)' => u = v
    BY <1>1, <1>3, <1>4, <1>6 DEF WritersInv
  <1>9. QED
    BY <1>5, <1>7, <1>8 DEF WritersInv

----------------------------------------------------------------------------
(* What a write in progress finds and leaves *)

\* A write() is always at its transaction's cursor, and a pwrite that has not drained the queue
\* has written nothing.
PlaceInv ==
    \A t \in Threads :
       /\ loc[t].call = "write" => pc[t] = "sys" /\ at[t] = loc[t].where + loc[t].n
       /\ IsWrite(t) /\ pc[t] # "sys" => loc[t].n = 0

\* Once a call has drained the queue, nothing that was written before it began waits any more:
\* pread, pwrite and read flush first, and what is queued later is newer.  write() does not
\* flush; nothing waits for the bytes it goes over.
SettleInv ==
    \A t \in Threads : pc[t] = "sys" =>
       \A x \in loc[t].snap, b \in Bytes : Waiting(x, b) =>
          loc[t].call = "write" /\ b \notin Span(loc[t].where, Len(loc[t].ids))

\* Byte b holds nothing that write w should have gone over, unless w's byte was cut off.
Over(w, b) == <<w, b>> \in lost \/ (file[b] # Hole /\ file[b] \notin before[w])

\* The bytes a write in progress has put in the file are not overwritten by older ones.
WrittenInv ==
    \A t \in Threads : IsWrite(t) /\ pc[t] = "sys" =>
       \A b \in Span(loc[t].where, loc[t].n) : Over(Id(t), b)

\* Byte b of w holds nothing older than w unless w is still on its way there, and
\* whatever older value is on its way comes before w.
Atop(w, b) ==
    /\ file[b] = Hole \/ file[b] \in before[w] => Waiting(w, b)
    /\ \A x \in before[w] : Flying(x, b) => QueuedAfter(0, w, b)
    /\ \A x \in before[w], i \in DOMAIN queue :
          HoldsAt(queue[i], 0, x, b) => QueuedAfter(i, w, b)

\* The latest write is on top, for every write that returned and every byte of it that was not
\* given up.
LayersInv == \A w \in done : \A b \in range[w] : <<w, b>> \notin lost => Atop(w, b)

\* A direct write goes on where it stopped: pwrite by its arguments, write because nobody else
\* moves the cursor in a transaction.
LEMMA WritePlace ==
    ASSUME Shape, CursorInv, PlaceInv, NEW t \in Threads, IsWrite(t), pc[t] = "sys"
    PROVE  /\ Next0(t) = loc[t].where + loc[t].n
           /\ loc[t].call = "write" => t \in txn
  BY DEF IsWrite, Next0, PlaceInv, CursorInv, Shape

\* The write system call finishes the write or advances it by what was transferred.
LEMMA SysWriteLoc ==
    ASSUME Shape, NEW t \in Threads, NEW k \in 1 .. Size, SysWrite(t, k)
    PROVE  \/ pc'[t] = "idle" /\ loc'[t] = NoCall /\ done' = done \cup {Id(t)} /\ k = Left(t)
           \/ /\ pc'[t] = "sys" /\ done' = done
              /\ \A f \in {"call", "where", "ids", "snap", "seen"} : loc'[t][f] = loc[t][f]
              /\ loc'[t].n = loc[t].n + k
  <1>1. CASE Return(t) /\ done' = done \cup {loc[t].ids[1]} /\ k = Left(t)
    BY <1>1 DEF Return, Shape, Id
  <1>2. CASE loc' = [loc EXCEPT ![t].n = @ + k] /\ UNCHANGED <<pc, done>>
    BY <1>2 DEF SysWrite, Shape, Fields
  <1>3. QED
    BY <1>1, <1>2 DEF SysWrite

\* Every step keeps a write() where its transaction left the cursor.
LEMMA PlaceStep ==
    ASSUME ~SharedCursor, Shape, Numbers, CursorInv, CallsInv, PlaceInv, Next
    PROVE  PlaceInv'
  <1> DEFINE P(u) == /\ loc'[u].call = "write" =>
                           pc'[u] = "sys" /\ at'[u] = loc'[u].where + loc'[u].n
                     /\ IsWrite(u)' /\ pc'[u] # "sys" => loc'[u].n = 0
  <1>1. PICK t \in Threads : Others(t) /\ (Same(t) \/ Leaves(t) \/ Acts(t))
    BY ThreadStep
  <1>2. ASSUME NEW u \in Threads, Same(u) PROVE P(u)
    BY <1>2 DEF Same, PlaceInv, IsWrite
  <1>3. ASSUME Leaves(t) PROVE P(t)
    BY <1>3 DEF Leaves, IsWrite
  <1>4. ASSUME NEW where, NEW n, Pwrite(t, where, n) PROVE P(t)
    BY <1>4, StartFacts DEF Starts
  <1>5. ASSUME NEW n \in 1 .. MaxLen, Write(t, n) PROVE P(t)
    <2>1. loc'[t].where = cursor /\ loc'[t].n = 0 /\ pc'[t] = "sys"
      BY <1>5, StartFacts DEF Starts
    <2>2. t \in txn /\ pc[t] = "idle" /\ at' = at
      BY <1>5 DEF Write, MayUseCursor, Calling
    <2>3. at[t] = cursor /\ cursor \in Nat
      BY <2>2 DEF CursorInv, Numbers
    <2>4. QED
      BY <2>1, <2>2, <2>3
  <1>6. ASSUME FlushEnd(t) PROVE P(t)
    <2>1. CASE Return(t)
      BY <2>1 DEF Return, NoCall, Shape, IsWrite
    <2>2. CASE loc' = loc /\ pc[t] = "flush"
      BY <2>2 DEF PlaceInv, IsWrite
    <2>3. QED
      BY <1>6, <2>1, <2>2 DEF FlushEnd
  <1>7. ASSUME NEW k \in 1 .. Size, SysWrite(t, k) PROVE P(t)
    <2>1. CASE loc'[t] = NoCall
      BY <2>1 DEF NoCall, IsWrite
    <2>2. CASE /\ pc'[t] = "sys" /\ loc'[t].n = loc[t].n + k
               /\ loc'[t].call = loc[t].call /\ loc'[t].where = loc[t].where
      <3>1. CASE loc[t].call = "write"
        <4>1. Next0(t) = loc[t].where + loc[t].n /\ t \in txn
          BY <1>7, <3>1, WritePlace DEF SysWrite
        <4>2. at'[t] = loc[t].where + loc[t].n + k
          BY <1>7, <3>1, <4>1 DEF SysWrite, Moved, Shape
        <4>3. loc[t].where \in Nat /\ loc[t].n \in Nat /\ k \in Nat
          BY DEF Numbers
        <4>4. loc[t].where + loc[t].n + k = loc[t].where + (loc[t].n + k)
          BY <4>3
        <4>5. QED
          BY <2>2, <4>2, <4>4
      <3>2. QED
        BY <2>2, <3>1
    <2>3. QED
      BY <1>7, <2>1, <2>2, SysWriteLoc
  <1>8. ASSUME NEW k \in 1 .. Size, SysRead(t, k) PROVE P(t)
    <2>1. loc'[t].call = loc[t].call /\ ~IsWrite(t)
      BY <1>8 DEF SysRead, Shape, Fields
    <2>2. QED
      BY <2>1 DEF IsWrite
  <1>9. P(t)
    BY <1>1, <1>2, <1>3, <1>4, <1>5, <1>6, <1>7, <1>8 DEF Acts
  <1>10. \A u \in Threads : P(u)
    BY <1>1, <1>2, <1>9, OthersSame
  <1>11. QED
    BY <1>10 DEF PlaceInv

\* Bytes that wait are pending.
LEMMA WaitingIsPending ==
    ASSUME Shape, Numbers, NEW x, NEW b, Waiting(x, b)
    PROVE  b \in Pending
  <1>1. ASSUME NEW op \in QueuedWrites, NEW i \in Nat, HoldsAt(op, i, x, b)
        PROVE  b \in Span(op.where, Len(op.ids))
    <2>1. PICK p, s : p = op.where /\ s = op.ids
      OBVIOUS
    <2>2. p \in Nat /\ s \in Seq(Ids) /\ Len(s) \in Nat
      BY <2>1 DEF QueuedWrites
    <2>3. PICK j \in i + 1 .. Len(s) : b = p + j - 1
      BY <1>1, <2>1 DEF HoldsAt
    <2>4. b \in Span(p, Len(s))
      BY <2>2, <2>3 DEF Span
    <2>5. QED
      BY <2>1, <2>4
  <1>2. CASE Flying(x, b)
    <2>1. PICK t \in Threads : HoldsAt(loc[t].op, loc[t].opn, x, b)
      BY <1>2 DEF Flying
    <2>2. b \in Span(loc[t].op.where, Len(loc[t].op.ids))
      BY <1>1, <2>1 DEF Numbers
    <2>3. QED
      BY <2>2 DEF Pending
  <1>3. CASE QueuedAfter(0, x, b)
    <2>1. PICK i \in DOMAIN queue : HoldsAt(queue[i], 0, x, b)
      BY <1>3 DEF QueuedAfter
    <2>2. queue[i] \in QueuedWrites
      BY DEF Numbers
    <2>3. b \in Span(queue[i].where, Len(queue[i].ids))
      BY <1>1, <2>1, <2>2
    <2>4. QED
      BY <2>3 DEF Pending
  <1>4. QED
    BY <1>2, <1>3 DEF Waiting

\* No step makes an older write wait behind the back of a call that has drained the queue.
LEMMA SettleStep ==
    ASSUME ~CursorOverQueue, Shape, Numbers, Bounds, MutexInv, CallsInv, HistoryInv, WritersInv,
           SettleInv, Next, Quiet \/ \E t \in Threads : Moves(t)
    PROVE  SettleInv'
  <1> DEFINE P(u) == pc'[u] = "sys" =>
                \A x \in loc'[u].snap, b \in Bytes : Waiting(x, b)' =>
                   loc'[u].call = "write" /\ b \notin Span(loc'[u].where, Len(loc'[u].ids))
  <1>1. PICK t \in Threads : Others(t) /\ (Same(t) \/ Leaves(t) \/ Acts(t))
    BY ThreadStep
  <1>0. \A x \in done : \A b : Waiting(x, b)' => Waiting(x, b)
    BY WaitingStep
  <1>2. ASSUME NEW u \in Threads, pc'[u] = "sys" => pc[u] = "sys",
               loc'[u].call = loc[u].call, loc'[u].where = loc[u].where,
               loc'[u].ids = loc[u].ids, loc'[u].snap = loc[u].snap
        PROVE  P(u)
    <2>1. loc[u].snap \subseteq done
      BY DEF WritersInv
    <2>2. QED
      BY <1>0, <1>2, <2>1 DEF SettleInv
  <1>3. ASSUME NEW u \in Threads, Same(u) PROVE P(u)
    BY <1>2, <1>3 DEF Same
  <1>4. ASSUME Leaves(t) \/ \E where, n : Pwrite(t, where, n) PROVE P(t)
    BY <1>4, StartFacts DEF Leaves
  <1>5. ASSUME NEW n \in 1 .. MaxLen, Write(t, n) PROVE P(t)
    <2>1. loc'[t].where = cursor /\ loc'[t].call = "write" /\ loc'[t].snap = done
          /\ loc'[t].ids = [i \in 1 .. n |-> NewId]
      BY <1>5, StartFacts DEF Starts
    <2>2. Len(loc'[t].ids) = n
      BY <2>1, FdIOAssumption
    <2>3. Span(cursor, n) \cap Pending = {}
      BY <1>5 DEF Write
    <2>4. QED
      BY <1>0, <2>1, <2>2, <2>3, WaitingIsPending
  <1>6. ASSUME FlushEnd(t) PROVE P(t)
    <2>1. pc[t] = "flush" /\ ~Flushing(t) /\ queue = <<>>
      BY <1>6 DEF FlushEnd, Drained
    <2>2. \A x, b : ~Waiting(x, b)
      BY <2>1, NobodyFlies DEF Waiting, QueuedAfter
    <2>3. CASE Return(t)
      BY <2>3 DEF Return, Shape
    <2>4. CASE loc' = loc
      <3>1. loc[t].snap \subseteq done
        BY DEF WritersInv
      <3>2. QED
        BY <1>0, <2>2, <2>4, <3>1
    <2>5. QED
      BY <1>6, <2>3, <2>4 DEF FlushEnd
  <1>7. ASSUME NEW k \in 1 .. Size, SysWrite(t, k) PROVE P(t)
    <2>1. CASE pc'[t] = "idle"
      BY <2>1
    <2>2. CASE \A f \in {"call", "where", "ids", "snap", "seen"} : loc'[t][f] = loc[t][f]
      BY <1>2, <1>7, <2>2 DEF SysWrite
    <2>3. QED
      BY <1>7, <2>1, <2>2, SysWriteLoc
  <1>8. ASSUME NEW k \in 1 .. Size, SysRead(t, k) PROVE P(t)
    <2>1. /\ loc'[t].call = loc[t].call /\ loc'[t].where = loc[t].where
          /\ loc'[t].ids = loc[t].ids /\ loc'[t].snap = loc[t].snap /\ pc[t] = "sys"
      BY <1>8 DEF SysRead, Shape, Fields
    <2>2. QED
      BY <1>2, <2>1
  <1> HIDE DEF P
  <1>9. P(t)
    BY <1>1, <1>3, <1>4, <1>5, <1>6, <1>7, <1>8 DEF Acts
  <1>10. \A u \in Threads : P(u)
    BY <1>1, <1>3, <1>9, OthersSame
  <1>11. QED
    BY <1>10 DEF P, SettleInv

\* Who changes a byte of the file: a flush that had it in flight, a write in progress, or a
\* growth that cuts.
LEMMA FileStep ==
    ASSUME Shape, Numbers, Bounds, MutexInv, CallsInv, Quiet \/ \E t \in Threads : Moves(t),
           NEW b \in Bytes, file'[b] # file[b]
    PROVE  \/ Flying(file'[b], b)
           \/ \E t \in Threads, k \in 1 .. Size :
                 /\ SysWrite(t, k) /\ IsWrite(t) /\ file'[b] = Id(t)
                 /\ b \in Span(Next0(t), k)
           \/ \E t \in Threads : MmapGrow(t)
  <1>1. CASE Quiet
    BY <1>1 DEF Quiet
  <1>2. ASSUME NEW t \in Threads, NEW k \in 1 .. Size, FlushWrite(t, k) PROVE Flying(file'[b], b)
    BY <1>2, FlushWriteLayers
  <1>3. ASSUME NEW t \in Threads, NEW k \in 1 .. Size, SysWrite(t, k)
        PROVE  IsWrite(t) /\ file'[b] = Id(t) /\ b \in Span(Next0(t), k)
    <2>1. IsWrite(t) /\ file' = [c \in Bytes |-> IF c \in Span(Next0(t), k) THEN Id(t) ELSE file[c]]
      BY <1>3 DEF SysWrite, Id
    <2>2. QED
      BY <2>1
  <1>4. ASSUME NEW t \in Threads,
               \/ \E where, n : QueueWrite(t, where, n) \/ Pwrite(t, where, n)
               \/ \E n : Write(t, n)
               \/ FlushPop(t) \/ FlushFail(t) \/ SysFail(t)
        PROVE  FALSE
    BY <1>4 DEF QueueWrite, Pwrite, Write, FlushPop, FlushFail, SysFail, kernelVars
  <1>5. QED
    BY <1>1, <1>2, <1>3, <1>4 DEF Moves

\* No step puts an older write over the bytes a write in progress has written.
LEMMA WrittenStep ==
    ASSUME Shape, Numbers, Bounds, MutexInv, CursorInv, CallsInv, HistoryInv, WritersInv,
           PlaceInv, SettleInv, WrittenInv, NothingBehind, Next,
           Quiet \/ \E t \in Threads : Moves(t)
    PROVE  WrittenInv'
  <1> DEFINE Now(w, b) == <<w, b>> \in lost' \/ (file'[b] # Hole /\ file'[b] \notin before'[w])
             P(u) == IsWrite(u)' /\ pc'[u] = "sys" =>
                        \A b \in Span(loc'[u].where, loc'[u].n) : Now(Id(u)', b)
  <1>1. PICK t \in Threads : Others(t) /\ (Same(t) \/ Leaves(t) \/ Acts(t))
    BY ThreadStep
  <1>2. ASSUME NEW u \in Threads, IsWrite(u), pc[u] = "sys"
        PROVE  /\ before'[Id(u)] = before[Id(u)]
               /\ Span(loc[u].where, loc[u].n) \subseteq Span(loc[u].where, Len(loc[u].ids))
               /\ Span(loc[u].where, Len(loc[u].ids)) \subseteq Bytes
               /\ Id(u) \in Ids /\ Id(u) # Hole /\ before[Id(u)] = loc[u].snap
               /\ before[Id(u)] \subseteq done /\ Id(u) \notin done
    <2>1. /\ Id(u) \in Used
          /\ loc[u].where \in Nat /\ loc[u].n \in Nat /\ Len(loc[u].ids) \in Nat
          /\ loc[u].n <= Len(loc[u].ids)
          /\ range[Id(u)] = Span(loc[u].where, Len(loc[u].ids))
      BY <1>2, WriterFacts
    <2>2. Span(loc[u].where, loc[u].n) \subseteq Span(loc[u].where, Len(loc[u].ids))
      BY <2>1 DEF Span
    <2>3. Id(u) \in Ids /\ Id(u) # Hole
      BY <2>1 DEF Used, Ids, Hole
    <2>4. Span(loc[u].where, Len(loc[u].ids)) \subseteq Bytes
      BY <2>1, <2>3 DEF Bounds, HistoryTypes
    <2>5. before'[Id(u)] = before[Id(u)]
      BY <2>1, HistoryGrows
    <2>6. QED
      BY <1>2, <2>2, <2>3, <2>4, <2>5 DEF WritersInv, HistoryInv
  <1>3. ASSUME NEW u \in Threads, IsWrite(u), pc[u] = "sys",
               NEW b \in Span(loc[u].where, loc[u].n)
        PROVE  Now(Id(u), b)
    <2>0. before'[Id(u)] = before[Id(u)] /\ lost \subseteq lost'
      BY <1>2, <1>3, HistoryGrows
    <2>1. b \in Bytes /\ b \in Span(loc[u].where, Len(loc[u].ids))
      BY <1>2, <1>3
    <2>2. CASE file'[b] = file[b]
      <3>1. Over(Id(u), b)
        BY <1>3 DEF WrittenInv
      <3>2. QED
        BY <2>0, <2>2, <3>1 DEF Over
    <2>3. CASE Flying(file'[b], b)
      <3>1. file'[b] \in done
        BY <2>3 DEF HistoryInv, Waiting
      <3>2. file'[b] # Hole
        BY <3>1 DEF Bounds, HistoryTypes, Ids, Hole
      <3>3. file'[b] \notin loc[u].snap
        BY <1>3, <2>1, <2>3 DEF SettleInv, Waiting
      <3>4. QED
        BY <1>2, <1>3, <2>0, <3>2, <3>3
    <2>4. ASSUME NEW v \in Threads, NEW k \in 1 .. Size, SysWrite(v, k), IsWrite(v),
                 file'[b] = Id(v)
          PROVE  Now(Id(u), b)
      <3>1. pc[v] = "sys"
        BY <2>4 DEF SysWrite
      <3>2. QED
        BY <1>2, <1>3, <2>0, <2>4, <3>1
    <2>5. ASSUME NEW v \in Threads, MmapGrow(v), file'[b] # file[b]
          PROVE  Now(Id(u), b)
      <3>1. /\ Id(u) \in Used /\ range[Id(u)] = Span(loc[u].where, Len(loc[u].ids))
            /\ loc[u].where \in Nat /\ loc[u].n \in Nat /\ Len(loc[u].ids) \in Nat
        BY <1>3, WriterFacts
      <3>2. b \notin Span(loc[u].where + loc[u].n, Left(u))
        BY <1>3, <3>1 DEF Span
      <3>3. b \notin Ahead(Id(u))
        BY <1>3, <3>2 DEF WritersInv, Ahead, Id
      <3>4. <<Id(u), b>> \in lost'
        BY <1>2, <1>3, <2>1, <2>5, <3>1, <3>3, CutBytes
      <3>5. QED
        BY <3>4
    <2>6. QED
      BY <2>1, <2>2, <2>3, <2>4, <2>5, FileStep
  <1>4. ASSUME NEW u \in Threads, Same(u) PROVE P(u)
    <2> SUFFICES ASSUME IsWrite(u)', pc'[u] = "sys", NEW b \in Span(loc'[u].where, loc'[u].n)
                 PROVE  Now(Id(u)', b)
      OBVIOUS
    <2>1. IsWrite(u) /\ pc[u] = "sys" /\ b \in Span(loc[u].where, loc[u].n) /\ Id(u)' = Id(u)
      BY <1>4 DEF Same, IsWrite, Id
    <2>2. QED
      BY <1>2, <1>3, <2>1
  <1>5. ASSUME Leaves(t) \/ \E where, n : Pwrite(t, where, n) PROVE P(t)
    BY <1>5, StartFacts DEF Leaves
  <1>6. ASSUME NEW u \in Threads, loc'[u].n = 0, loc'[u].where \in Nat PROVE P(u)
    BY <1>6 DEF Span
  <1>7. ASSUME NEW n \in 1 .. MaxLen, Write(t, n) PROVE P(t)
    <2>1. loc'[t].where = cursor /\ loc'[t].n = 0 /\ cursor \in Nat
      BY <1>7, StartFacts DEF Starts, Numbers
    <2>2. QED
      BY <1>6, <2>1
  <1>8. ASSUME FlushEnd(t) PROVE P(t)
    <2>1. CASE Return(t)
      BY <2>1 DEF Return, Shape
    <2>2. CASE loc' = loc /\ pc[t] = "flush"
      <3>1. IsWrite(t)' => IsWrite(t) /\ loc'[t].n = 0 /\ loc'[t].where \in Nat
        BY <2>2 DEF IsWrite, PlaceInv, Numbers
      <3>2. QED
        BY <1>6, <3>1
    <2>3. QED
      BY <1>8, <2>1, <2>2 DEF FlushEnd
  <1>9. ASSUME NEW k \in 1 .. Size, SysWrite(t, k) PROVE P(t)
    <2>1. IsWrite(t) /\ pc[t] = "sys"
      BY <1>9 DEF SysWrite
    <2>2. CASE pc'[t] = "idle"
      BY <2>2
    <2>3. CASE /\ \A f \in {"call", "where", "ids", "snap", "seen"} : loc'[t][f] = loc[t][f]
               /\ loc'[t].n = loc[t].n + k
      <3> SUFFICES ASSUME NEW b \in Span(loc'[t].where, loc'[t].n)
                   PROVE  Now(Id(t)', b)
        OBVIOUS
      <3>1. Id(t)' = Id(t) /\ b \in Span(loc[t].where, loc[t].n + k)
        BY <2>3 DEF Id
      <3>2. Next0(t) = loc[t].where + loc[t].n /\ loc[t].where \in Nat /\ loc[t].n \in Nat
        BY <2>1, WritePlace DEF Numbers
      <3>3. b \in Span(loc[t].where, loc[t].n) \/ b \in Span(Next0(t), k)
        BY <3>1, <3>2 DEF Span
      <3>4. CASE b \in Span(loc[t].where, loc[t].n)
        BY <1>2, <1>3, <2>1, <3>1, <3>4
      <3>5. CASE b \in Span(Next0(t), k)
        <4>1. b \in Bytes
          <5>1. Next0(t) \in Nat /\ Next0(t) + k <= Size
            BY <1>9, <3>2 DEF SysWrite
          <5>2. QED
            BY <3>5, <5>1, FdIOAssumption DEF Span, Bytes
        <4>2. file'[b] = Id(t)
          BY <1>9, <3>5, <4>1 DEF SysWrite, Id
        <4>3. QED
          BY <1>2, <2>1, <3>1, <4>2
      <3>6. QED
        BY <3>3, <3>4, <3>5
    <2>4. QED
      BY <1>9, <2>2, <2>3, SysWriteLoc
  <1>10. ASSUME NEW k \in 1 .. Size, SysRead(t, k) PROVE P(t)
    <2>1. loc'[t].call = loc[t].call /\ ~IsWrite(t)
      BY <1>10 DEF SysRead, Shape, Fields
    <2>2. QED
      BY <2>1 DEF IsWrite
  <1> HIDE DEF P
  <1>11. P(t)
    BY <1>1, <1>4, <1>5, <1>7, <1>8, <1>9, <1>10 DEF Acts
  <1>12. \A u \in Threads : P(u)
    BY <1>1, <1>4, <1>11, OthersSame
  <1>13. QED
    BY <1>12 DEF P, WrittenInv, Over

----------------------------------------------------------------------------
(* The latest write is on top *)

\* A queued write puts one value in a byte.
LEMMA HoldsOne ==
    ASSUME NEW r \in QueuedWrites, NEW x, NEW y, NEW b, HoldsAt(r, 0, x, b), HoldsAt(r, 0, y, b)
    PROVE  x = y
  <1>1. PICK p, s : p = r.where /\ s = r.ids
    OBVIOUS
  <1>2. p \in Nat /\ s \in Seq(Ids) /\ Len(s) \in Nat
    BY <1>1 DEF QueuedWrites
  <1>3. PICK j \in 1 .. Len(s) : s[j] = x /\ b = p + j - 1
    BY <1>1 DEF HoldsAt
  <1>4. PICK k \in 1 .. Len(s) : s[k] = y /\ b = p + k - 1
    BY <1>1 DEF HoldsAt
  <1>5. j = k
    BY <1>2, <1>3, <1>4
  <1>6. QED
    BY <1>3, <1>4, <1>5

\* The bytes of a buffer of m bytes are those transferred and those left.
LEMMA SpanSplit ==
    ASSUME NEW p \in Nat, NEW n \in Nat, NEW m \in Nat, NEW b \in Span(p, m)
    PROVE  b \in Span(p, n) \/ b \in Span(p + n, m - n)
  BY DEF Span

\* No step puts an older write over a newer one, in the file, in flight or in the queue.
LEMMA LayersStep ==
    ASSUME Shape, Numbers, Bounds, MutexInv, CursorInv, CallsInv, HistoryInv, WritersInv,
           PlaceInv, SettleInv, WrittenInv, LayersInv, NothingBehind,
           Quiet \/ \E t \in Threads : Moves(t)
    PROVE  LayersInv'
  <1>1. /\ done \subseteq done' /\ lost \subseteq lost'
        /\ \A w \in Used : range'[w] = range[w] /\ before'[w] = before[w]
    BY HistoryGrows
  <1>2. ASSUME NEW w \in done, NEW b \in range'[w], <<w, b>> \notin lost'
        PROVE  /\ w \in Ids /\ w # Hole /\ b \in Bytes /\ b \in range[w] /\ <<w, b>> \notin lost
               /\ before'[w] = before[w] /\ before[w] \subseteq done /\ w \notin before[w]
               /\ file[b] = Hole \/ file[b] \in before[w] => Waiting(w, b)
               /\ \A x \in before[w] : Flying(x, b) => QueuedAfter(0, w, b)
               /\ \A x \in before[w], i \in DOMAIN queue :
                     HoldsAt(queue[i], 0, x, b) => QueuedAfter(i, w, b)
    <2>1. w \in Used /\ w \in Ids /\ w # Hole
      BY DEF HistoryInv, Used, Ids, Hole
    <2>2. b \in range[w] /\ <<w, b>> \notin lost /\ before'[w] = before[w]
      BY <1>1, <1>2, <2>1
    <2>3. b \in Bytes
      BY <2>1, <2>2 DEF Bounds, HistoryTypes
    <2>4. QED
      BY <2>1, <2>2, <2>3 DEF LayersInv, Atop, HistoryInv
  \* Where neither the file nor the queue changes for what was written before.
  <1>3. ASSUME queue' = queue,
               \A u \in Threads : loc'[u].op = loc[u].op /\ loc'[u].opn = loc[u].opn,
               NEW w \in done, NEW b \in range'[w], <<w, b>> \notin lost',
               file'[b] = file[b] \/ (file'[b] # Hole /\ file'[b] \notin done)
        PROVE  Atop(w, b)'
    <2>1. /\ \A x : Flying(x, b)' <=> Flying(x, b)
          /\ \A i, x : QueuedAfter(i, x, b)' <=> QueuedAfter(i, x, b)
      BY <1>3, LayersSame
    <2>2. QED
      BY <1>2, <1>3, <2>1 DEF Atop, Waiting
  <1>4. CASE Quiet
    <2>0. /\ queue' = queue /\ done' = done
          /\ \A u \in Threads : loc'[u].op = loc[u].op /\ loc'[u].opn = loc[u].opn
      BY <1>4 DEF Quiet
    <2>1. ASSUME NEW w \in done, NEW b \in range'[w], <<w, b>> \notin lost'
          PROVE  file'[b] = file[b]
      <3>1. w \in Ids /\ b \in Bytes /\ b \in range[w]
        BY <1>2, <2>1
      <3>2. b \notin Ahead(w)
        BY <2>1 DEF WritersInv, Ahead, Id
      <3>3. ASSUME NEW t \in Threads, MmapGrow(t) PROVE file'[b] = file[b]
        BY <2>1, <3>1, <3>2, <3>3, CutBytes
      <3>4. QED
        BY <1>4, <3>3 DEF Quiet
    <2>2. \A w \in done' : \A b \in range'[w] : <<w, b>> \notin lost' => Atop(w, b)'
      BY <1>3, <2>0, <2>1
    <2>3. QED
      BY <2>2 DEF LayersInv, Atop
  <1>5. ASSUME NEW t \in Threads, NEW where \in Bytes, NEW n \in 1 .. MaxLen,
               QueueWrite(t, where, n), NEW w \in done', NEW b \in range'[w], <<w, b>> \notin lost'
        PROVE  Atop(w, b)'
    <2>1. NewId \in Ids /\ file' = file /\ done' = done \cup {NewId}
          /\ range' = [range EXCEPT ![NewId] = Span(where, n)]
          /\ before' = [before EXCEPT ![NewId] = done]
      BY <1>5 DEF QueueWrite, NewWrite, kernelVars
    <2>2. NewId \notin done
      BY <2>1, NewIdIsNew DEF HistoryInv, Used
    <2>3. /\ \A x, c : Flying(x, c)' <=> Flying(x, c)
          /\ \E m \in Nat \ {0} :
                 /\ DOMAIN queue' = 1 .. m
                 /\ DOMAIN queue \subseteq 1 .. m
                 /\ \A i \in 1 .. m : \A x, c :
                       HoldsAt(queue'[i], 0, x, c) <=>
                          \/ i \in DOMAIN queue /\ HoldsAt(queue[i], 0, x, c)
                          \/ i = m /\ x = NewId /\ c \in Span(where, n)
      BY <1>5, QueueWriteLayers
    <2>4. PICK m \in Nat \ {0} :
                 /\ DOMAIN queue' = 1 .. m
                 /\ DOMAIN queue \subseteq 1 .. m
                 /\ \A i \in 1 .. m : \A x, c :
                       HoldsAt(queue'[i], 0, x, c) <=>
                          \/ i \in DOMAIN queue /\ HoldsAt(queue[i], 0, x, c)
                          \/ i = m /\ x = NewId /\ c \in Span(where, n)
      BY <2>3
    <2>5. CASE w \in done
      <3>1. \A i, x : QueuedAfter(i, x, b) => QueuedAfter(i, x, b)'
        BY <2>4 DEF QueuedAfter
      <3>2. \A x \in before[w] : x # NewId
        BY <1>2, <1>5, <2>2, <2>5
      <3>3. QED
        BY <1>2, <1>5, <2>1, <2>3, <2>4, <2>5, <3>1, <3>2 DEF Atop, Waiting
    <2>6. CASE w = NewId
      <3>1. b \in Span(where, n) /\ before'[w] = done
        BY <1>5, <2>1, <2>6 DEF Bounds, HistoryTypes
      <3>2. m \in DOMAIN queue' /\ HoldsAt(queue'[m], 0, w, b)
        BY <2>4, <2>6, <3>1
      <3>3. QueuedAfter(0, w, b)'
        BY <2>4, <3>2 DEF QueuedAfter
      <3>4. ASSUME NEW x \in done, NEW i \in DOMAIN queue', HoldsAt(queue'[i], 0, x, b)
            PROVE  QueuedAfter(i, w, b)'
        <4>1. CASE i = m
          <5>1. PICK op \in QueuedWrites : queue' = Merged(queue, op)
            BY <1>5, QueuedOp
          <5>2. queue'[m] \in QueuedWrites
            BY <3>2, <5>1, MergedType DEF Numbers
          <5>3. x = w
            BY <3>2, <3>4, <4>1, <5>2, HoldsOne
          <5>4. QED
            BY <2>2, <2>6, <3>4, <5>3
        <4>2. CASE i < m
          BY <2>4, <3>2, <4>2 DEF QueuedAfter
        <4>3. QED
          BY <2>4, <4>1, <4>2
      <3>5. QED
        BY <3>1, <3>3, <3>4 DEF Atop, Waiting
    <2>7. QED
      BY <1>5, <2>1, <2>5, <2>6
  <1>6. ASSUME NEW t \in Threads, FlushPop(t),
               NEW w \in done', NEW b \in range'[w], <<w, b>> \notin lost'
        PROVE  Atop(w, b)'
    <2>1. file' = file /\ done' = done
      BY <1>6 DEF FlushPop, kernelVars, histVars
    <2>2. /\ 1 \in DOMAIN queue
          /\ \A x, c : ~Flying(x, c)
          /\ \A x, c : Flying(x, c)' => HoldsAt(queue[1], 0, x, c)
          /\ \A x, c : HoldsAt(queue[1], 0, x, c) => Flying(x, c)'
          /\ \A i \in DOMAIN queue' : i + 1 \in DOMAIN queue /\ queue'[i] = queue[i + 1]
          /\ \A i \in DOMAIN queue : i = 1 \/ (i - 1 \in DOMAIN queue' /\ queue'[i - 1] = queue[i])
          /\ \A i \in DOMAIN queue : i \in Nat \ {0}
      BY <1>6, FlushPopLayers
    <2>3. ASSUME NEW i \in Nat, i > 0, QueuedAfter(i, w, b)
          PROVE  QueuedAfter(i - 1, w, b)'
      <3>1. PICK j \in DOMAIN queue : j > i /\ HoldsAt(queue[j], 0, w, b)
        BY <2>3 DEF QueuedAfter
      <3>2. j \in Nat /\ j # 1 /\ j - 1 > i - 1
        BY <2>2, <2>3, <3>1
      <3>3. QED
        BY <2>2, <3>1, <3>2 DEF QueuedAfter
    <2>4. Waiting(w, b) => Waiting(w, b)'
      <3>1. ASSUME Waiting(w, b) PROVE Waiting(w, b)'
        <4>1. PICK j \in DOMAIN queue : HoldsAt(queue[j], 0, w, b)
          BY <2>2, <3>1 DEF Waiting, QueuedAfter
        <4>2. CASE j = 1
          BY <2>2, <4>1, <4>2 DEF Waiting
        <4>3. CASE j # 1
          <5>1. j - 1 > 0 /\ j - 1 \in DOMAIN queue' /\ queue'[j - 1] = queue[j]
            BY <2>2, <4>3
          <5>2. QED
            BY <4>1, <5>1 DEF Waiting, QueuedAfter
        <4>4. QED
          BY <4>2, <4>3
      <3>2. QED
        BY <3>1
    <2>5. ASSUME NEW x \in before[w], Flying(x, b)' PROVE QueuedAfter(0, w, b)'
      <3>1. QueuedAfter(1, w, b)
        BY <1>2, <1>6, <2>1, <2>2, <2>5
      <3>2. 1 \in Nat /\ 1 > 0 /\ 1 - 1 = 0
        OBVIOUS
      <3>3. QED
        BY <2>3, <3>1, <3>2
    <2>6. ASSUME NEW x \in before[w], NEW i \in DOMAIN queue', HoldsAt(queue'[i], 0, x, b)
          PROVE  QueuedAfter(i, w, b)'
      <3>1. i + 1 \in DOMAIN queue /\ queue'[i] = queue[i + 1] /\ i + 1 \in Nat
        BY <2>2
      <3>2. QueuedAfter(i + 1, w, b)
        BY <1>2, <1>6, <2>1, <2>6, <3>1
      <3>3. i \in Nat
        BY <1>6 DEF FlushPop, Numbers
      <3>4. i + 1 > 0 /\ (i + 1) - 1 = i
        BY <3>3
      <3>5. QED
        BY <2>3, <3>1, <3>2, <3>4
    <2>7. QED
      BY <1>2, <1>6, <2>1, <2>4, <2>5, <2>6 DEF Atop
  <1>7. ASSUME NEW t \in Threads, NEW k \in 1 .. Size, FlushWrite(t, k),
               NEW w \in done', NEW b \in range'[w], <<w, b>> \notin lost'
        PROVE  Atop(w, b)'
    <2>1. queue' = queue /\ done' = done
      BY <1>7 DEF FlushWrite, histVars
    <2>2. /\ \A x, c : Flying(x, c)' => Flying(x, c)
          /\ \A x, c : Flying(x, c) => Flying(x, c)' \/ (c \in Bytes /\ file'[c] = x)
          /\ \A c \in Bytes : file'[c] = file[c] \/ Flying(file'[c], c)
      BY <1>7, FlushWriteLayers
    <2>3. \A i, x : QueuedAfter(i, x, b)' <=> QueuedAfter(i, x, b)
      BY <2>1 DEF QueuedAfter
    <2>4. ASSUME file'[b] = Hole \/ file'[b] \in before[w] PROVE Waiting(w, b)'
      <3>1. CASE file'[b] = file[b]
        BY <1>2, <1>7, <2>1, <2>2, <2>3, <2>4, <3>1 DEF Waiting
      <3>2. CASE Flying(file'[b], b)
        <4>1. file'[b] # Hole
          BY <3>2 DEF HistoryInv, Waiting, Used, Ids, Hole
        <4>2. QED
          BY <1>2, <1>7, <2>1, <2>3, <2>4, <3>2, <4>1 DEF Waiting
      <3>3. QED
        BY <1>2, <1>7, <2>1, <2>2, <3>1, <3>2
    <2>5. QED
      BY <1>2, <1>7, <2>1, <2>2, <2>3, <2>4 DEF Atop
  <1>8. ASSUME NEW t \in Threads, FlushFail(t),
               NEW w \in done', NEW b \in range'[w], <<w, b>> \notin lost'
        PROVE  Atop(w, b)'
    <2>1. queue' = queue /\ done' = done /\ file' = file
      BY <1>8 DEF FlushFail, kernelVars
    <2>2. /\ \A x, c : ~Flying(x, c)'
          /\ \A x, c : Flying(x, c) => <<x, c>> \in lost'
      BY <1>8, FlushFailLayers
    <2>3. \A i, x : QueuedAfter(i, x, b)' <=> QueuedAfter(i, x, b)
      BY <2>1 DEF QueuedAfter
    <2>4. ~Flying(w, b)
      BY <1>8, <2>2
    <2>5. QED
      BY <1>2, <1>8, <2>1, <2>2, <2>3, <2>4 DEF Atop, Waiting
  <1>9. ASSUME NEW t \in Threads,
               \/ \E where \in Bytes, n \in 1 .. MaxLen : Pwrite(t, where, n)
               \/ \E n \in 1 .. MaxLen : Write(t, n),
               NEW w \in done', NEW b \in range'[w], <<w, b>> \notin lost'
        PROVE  Atop(w, b)'
    <2>1. file' = file /\ done' = done
      BY <1>9 DEF Pwrite, Write, kernelVars
    <2>2. QED
      BY <1>3, <1>9, <2>1, DirectLayers
  \* The system call of a write changes bytes to a write that has not returned yet, and
  \* the write of a call that returns is on top of its bytes.
  <1>10. ASSUME NEW t \in Threads, IsWrite(t), pc[t] = "sys", NEW w, w = Id(t),
                NEW b \in range[w], <<w, b>> \notin lost, queue' = queue,
                \A u \in Threads : loc'[u].op = loc[u].op /\ loc'[u].opn = loc[u].opn,
                \/ b \in Span(loc[t].where, loc[t].n) /\ file'[b] = file[b]
                \/ file'[b] = w
         PROVE  Atop(w, b)'
    <2>1. /\ w \in Used /\ range[w] = Span(loc[t].where, Len(loc[t].ids))
          /\ before[w] = loc[t].snap
      BY <1>10, WriterFacts DEF WritersInv
    <2>2. /\ w \in Ids /\ w # Hole /\ b \in Bytes /\ before'[w] = before[w]
          /\ w \notin before[w]
      BY <1>1, <1>10, <2>1 DEF Used, Ids, Hole, Bounds, HistoryTypes, HistoryInv
    <2>3. \A x \in before[w] : ~Waiting(x, b)
      BY <1>10, <2>1, <2>2 DEF SettleInv
    <2>4. /\ \A x : Flying(x, b)' <=> Flying(x, b)
          /\ \A i, x : QueuedAfter(i, x, b)' <=> QueuedAfter(i, x, b)
      BY <1>10, LayersSame
    <2>5. file'[b] # Hole /\ file'[b] \notin before[w]
      BY <1>10, <2>2 DEF WrittenInv, Over
    <2>6. \A x \in before[w], i \in DOMAIN queue : ~HoldsAt(queue[i], 0, x, b)
      <3>1. \A i \in DOMAIN queue : i > 0
        BY DEF Numbers
      <3>2. QED
        BY <2>3, <3>1 DEF Waiting, QueuedAfter
    <2>7. QED
      BY <1>10, <2>2, <2>3, <2>4, <2>5, <2>6 DEF Atop, Waiting
  <1>11. ASSUME NEW t \in Threads, SysFail(t),
                NEW w \in done', NEW b \in range'[w], <<w, b>> \notin lost'
         PROVE  Atop(w, b)'
    <2>1. /\ file' = file /\ done' = done \cup {Id(t)} /\ IsWrite(t) /\ pc[t] = "sys"
          /\ range' = range
          /\ lost' = lost \cup {<<Id(t), c>> : c \in Span(loc[t].where + loc[t].n, Left(t))}
      BY <1>11 DEF SysFail, Id, kernelVars
    <2>2. /\ queue' = queue
          /\ \A u \in Threads : loc'[u].op = loc[u].op /\ loc'[u].opn = loc[u].opn
      BY <1>11, DirectLayers
    <2>3. CASE w \in done
      BY <1>3, <1>11, <2>1, <2>2, <2>3
    <2>4. CASE w = Id(t)
      <3>1. /\ b \in Span(loc[t].where, Len(loc[t].ids))
            /\ loc[t].where \in Nat /\ loc[t].n \in Nat /\ Len(loc[t].ids) \in Nat
            /\ b \in range[Id(t)]
        BY <1>11, <2>1, <2>4, WriterFacts
      <3>2. b \notin Span(loc[t].where + loc[t].n, Left(t))
        BY <1>11, <2>1, <2>4
      <3>3. b \in Span(loc[t].where, loc[t].n)
        BY <3>1, <3>2, SpanSplit DEF Left
      <3>4. QED
        BY <1>1, <1>10, <1>11, <2>1, <2>2, <2>4, <3>1, <3>3
    <2>5. QED
      BY <1>11, <2>1, <2>3, <2>4
  <1>12. ASSUME NEW t \in Threads, NEW k \in 1 .. Size, SysWrite(t, k),
                NEW w \in done', NEW b \in range'[w], <<w, b>> \notin lost'
         PROVE  Atop(w, b)'
    <2>1. /\ IsWrite(t) /\ pc[t] = "sys" /\ range' = range
          /\ file' = [c \in Bytes |-> IF c \in Span(Next0(t), k) THEN Id(t) ELSE file[c]]
      BY <1>12 DEF SysWrite, Id
    <2>2. /\ queue' = queue
          /\ \A u \in Threads : loc'[u].op = loc[u].op /\ loc'[u].opn = loc[u].opn
      BY <1>12, DirectLayers
    <2>3. /\ Id(t) \in Used /\ Id(t) \notin done
          /\ loc[t].where \in Nat /\ loc[t].n \in Nat /\ Len(loc[t].ids) \in Nat
          /\ range[Id(t)] = Span(loc[t].where, Len(loc[t].ids))
      BY <2>1, WriterFacts DEF WritersInv
    <2>4. Id(t) # Hole /\ Next0(t) = loc[t].where + loc[t].n
      BY <2>1, <2>3, WritePlace DEF Used, Ids, Hole
    <2>5. CASE w \in done
      <3>1. b \in Bytes
        BY <1>2, <1>12, <2>5
      <3>2. file'[b] = file[b] \/ file'[b] = Id(t)
        BY <2>1, <3>1
      <3>3. QED
        BY <1>3, <1>12, <2>2, <2>3, <2>4, <2>5, <3>2
    <2>6. CASE w \notin done
      <3>1. w = Id(t) /\ k = Left(t)
        BY <1>12, <2>6, SysWriteLoc
      <3>2. b \in Span(loc[t].where, Len(loc[t].ids)) /\ b \in range[Id(t)]
        BY <1>12, <2>1, <2>3, <3>1
      <3>3. b \in Span(loc[t].where, loc[t].n) \/ b \in Span(Next0(t), k)
        BY <2>3, <2>4, <3>1, <3>2, SpanSplit DEF Left
      <3>4. b \in Bytes
        BY <2>3, <3>2 DEF Used, Bounds, HistoryTypes
      <3>5. \/ b \in Span(loc[t].where, loc[t].n) /\ file'[b] = file[b]
            \/ file'[b] = Id(t)
        BY <2>1, <3>3, <3>4
      <3>6. QED
        BY <1>1, <1>10, <1>12, <2>1, <2>2, <3>1, <3>2, <3>5
    <2>7. QED
      BY <2>5, <2>6
  <1>13. ASSUME NEW t \in Threads, Moves(t)
         PROVE  \A w \in done' : \A b \in range'[w] : <<w, b>> \notin lost' => Atop(w, b)'
    BY <1>5, <1>6, <1>7, <1>8, <1>9, <1>11, <1>12, <1>13 DEF Moves
  <1>14. ASSUME \A w \in done' : \A b \in range'[w] : <<w, b>> \notin lost' => Atop(w, b)'
         PROVE  LayersInv'
    BY <1>14 DEF LayersInv, Atop
  <1>15. QED
    BY <1>4, <1>13, <1>14

\* No step lets a call see a byte overwritten before it began.
LEMMA ReadsStep ==
    ASSUME Shape, Numbers, Bounds, CallsInv, HistoryInv, WritersInv, SettleInv, LayersInv,
           ReadsLatest, Next, Quiet \/ \E t \in Threads : Moves(t)
    PROVE  ReadsLatest'
  <1> DEFINE Fresh(w, b, v) ==
                b \in range'[w] /\ <<w, b>> \notin lost' => v # Hole /\ v \notin before'[w]
             P(u) == \A s \in loc'[u].seen, w \in loc'[u].snap : Fresh(w, s[1], s[2])
  <1>1. PICK t \in Threads : Others(t) /\ (Same(t) \/ Leaves(t) \/ Acts(t))
    BY ThreadStep
  <1>2. ASSUME NEW W, W \subseteq done, NEW b, NEW v, ~Stale(b, v, W)
        PROVE  \A w \in W : Fresh(w, b, v)
    <2>1. /\ lost \subseteq lost'
          /\ \A w \in Used : range'[w] = range[w] /\ before'[w] = before[w]
      BY HistoryGrows
    <2>2. QED
      BY <1>2, <2>1 DEF Stale, Wrote, HistoryInv
  <1>3. ASSUME NEW u \in Threads, loc'[u].snap = loc[u].snap, loc'[u].seen = loc[u].seen
        PROVE  P(u)
    <2>1. loc[u].snap \subseteq done
      BY DEF WritersInv
    <2>2. ASSUME NEW s \in loc[u].seen PROVE ~Stale(s[1], s[2], loc[u].snap)
      BY DEF ReadsLatest
    <2>3. QED
      BY <1>2, <1>3, <2>1, <2>2
  <1>4. ASSUME NEW u \in Threads, Same(u) PROVE P(u)
    BY <1>3, <1>4 DEF Same
  <1>5. ASSUME loc'[t].seen = {} PROVE P(t)
    BY <1>5
  <1>6. ASSUME Return(t) PROVE P(t)
    <2>1. loc'[t].seen = {}
      BY <1>6 DEF Return, NoCall, Shape
    <2>2. QED
      BY <1>5, <2>1
  <1>7. ASSUME NEW k \in 1 .. Size, SysRead(t, k) PROVE P(t)
    <2>1. /\ loc'[t].snap = loc[t].snap /\ pc[t] = "sys" /\ ~IsWrite(t)
          /\ loc'[t].seen = loc[t].seen \cup {<<b, file[b]>> : b \in Span(Next0(t), k)}
          /\ Next0(t) + k <= len
          /\ UNCHANGED <<range, before, lost>>
      BY <1>7 DEF SysRead, histVars, Shape, Fields
    <2>2. loc[t].snap \subseteq done
      BY DEF WritersInv
    <2>3. ASSUME NEW s \in loc[t].seen PROVE ~Stale(s[1], s[2], loc[t].snap)
      BY DEF ReadsLatest
    <2>4. ASSUME NEW b \in Span(Next0(t), k) PROVE ~Stale(b, file[b], loc[t].snap)
      <3>1. b \in Bytes
        <4>1. loc[t].n \in Nat /\ loc[t].where \in Nat /\ cursor \in Nat /\ len \in Nat
          BY DEF Numbers
        <4>2. Next0(t) \in Nat
          BY <4>1 DEF Next0
        <4>3. len <= Size
          BY DEF Bounds, FileBounds
        <4>4. QED
          BY <2>1, <4>1, <4>2, <4>3, FdIOAssumption DEF Span, Bytes
      <3>2. ASSUME NEW w \in loc[t].snap, Wrote(w, b), file[b] = Hole \/ file[b] \in before[w]
            PROVE  FALSE
        <4>1. Waiting(w, b)
          BY <2>2, <3>2 DEF LayersInv, Atop, Wrote
        <4>2. loc[t].call = "write"
          BY <2>1, <3>1, <4>1 DEF SettleInv
        <4>3. QED
          BY <2>1, <4>2 DEF IsWrite
      <3>3. QED
        BY <3>2 DEF Stale
    <2>5. \A s \in loc'[t].seen : ~Stale(s[1], s[2], loc[t].snap)
      BY <2>1, <2>3, <2>4
    <2>6. QED
      BY <1>2, <2>1, <2>2, <2>5
  <1>8. ASSUME FlushEnd(t) PROVE P(t)
    BY <1>3, <1>6, <1>8 DEF FlushEnd
  <1>9. ASSUME NEW k \in 1 .. Size, SysWrite(t, k) PROVE P(t)
    <2>1. CASE loc'[t] = NoCall
      <3>1. loc'[t].seen = {}
        BY <2>1 DEF NoCall
      <3>2. QED
        BY <1>5, <3>1
    <2>2. CASE \A f \in {"call", "where", "ids", "snap", "seen"} : loc'[t][f] = loc[t][f]
      BY <1>3, <2>2
    <2>3. QED
      BY <1>9, <2>1, <2>2, SysWriteLoc
  <1>10. ASSUME \/ Leaves(t) \/ \E where, n : Pwrite(t, where, n)
                \/ \E n : Write(t, n)
         PROVE  P(t)
    BY <1>5, <1>10, StartFacts DEF Leaves, Starts
  <1> HIDE DEF P
  <1>11. P(t)
    BY <1>1, <1>4, <1>7, <1>8, <1>9, <1>10 DEF Acts
  <1>12. \A u \in Threads : P(u)
    BY <1>1, <1>4, <1>11, OthersSame
  <1>13. QED
    BY <1>12 DEF P, ReadsLatest, Stale, Wrote

----------------------------------------------------------------------------
(* What readers and the settled file see *)

\* All that holds between the calls in progress, the queue and the file, when the cursor
\* is used in transactions only and no write() goes over a queued one.
Layered ==
    /\ Shape /\ Numbers /\ Bounds
    /\ MutexInv /\ CursorInv /\ CallsInv /\ NothingBehind
    /\ HistoryInv /\ WritersInv
    /\ PlaceInv /\ SettleInv /\ WrittenInv /\ LayersInv
    /\ ReadsLatest

\* At the start there is no write at all.
LEMMA InitLayered == Init => Layered
  <1> SUFFICES ASSUME Init PROVE Layered
    OBVIOUS
  <1>1. Shape /\ Numbers /\ Bounds
    BY InitTyped
  <1>2. /\ NoCall.call = "none" /\ NoCall.op = NoOp /\ NoCall.opn = 0
        /\ NoCall.snap = {} /\ NoCall.seen = {}
    BY DEF NoCall
  <1>3. \A x, b : ~Waiting(x, b)
    <2>1. \A x, b : ~HoldsAt(NoOp, 0, x, b)
      BY DEF HoldsAt, NoOp
    <2>2. QED
      BY <1>2, <2>1 DEF Init, Waiting, Flying, QueuedAfter
  <1>4. MutexInv /\ CursorInv
    BY FdIOAssumption DEF Init, MutexInv, UnderMutex, CursorInv
  <1>5. CallsInv /\ NothingBehind /\ ReadsLatest
    BY <1>2 DEF Init, CallsInv, NothingBehind, ReadsLatest
  <1>6. \A t \in Threads : ~IsWrite(t) /\ pc[t] = "idle" /\ loc[t].snap = {}
    BY <1>2 DEF Init, IsWrite
  <1>7. HistoryInv
    <2>1. Used = {} /\ done = {} /\ \A w \in Ids : before[w] = {}
      BY DEF Init, Used
    <2>2. Used = 1 .. 0 /\ 0 \in 0 .. MaxWrites
      BY <2>1, FdIOAssumption
    <2>3. QED
      BY <1>3, <2>1, <2>2 DEF HistoryInv
  <1>8. WritersInv /\ PlaceInv /\ SettleInv /\ WrittenInv
    BY <1>2, <1>6 DEF WritersInv, PlaceInv, SettleInv, WrittenInv, IsWrite
  <1>9. LayersInv
    BY DEF Init, LayersInv, Atop
  <1>10. QED
    BY <1>1, <1>4, <1>5, <1>7, <1>8, <1>9 DEF Layered

\* Every step keeps all of it.
LEMMA LayeredStep ==
    ASSUME ~SharedCursor, ~CursorOverQueue, Layered, [Next]_vars
    PROVE  Layered'
  <1>1. CASE Next
    <2>1. Quiet \/ \E t \in Threads : Moves(t)
      BY <1>1, QuietStep DEF Layered
    <2>2. Shape' /\ Numbers' /\ Bounds'
      BY <1>1, ShapeStep, NumbersStep, BoundsStep DEF Layered
    <2>3. MutexInv' /\ CursorInv' /\ CallsInv' /\ NothingBehind'
      BY <1>1, MutexStep, CursorStep, CallsStep, NothingBehindStep DEF Layered
    <2>4. HistoryInv' /\ WritersInv'
      BY <1>1, <2>1, HistoryStep, WritersStep DEF Layered
    <2>5. PlaceInv' /\ SettleInv' /\ WrittenInv'
      BY <1>1, <2>1, PlaceStep, SettleStep, WrittenStep DEF Layered
    <2>6. LayersInv' /\ ReadsLatest'
      BY <1>1, <2>1, LayersStep, ReadsStep DEF Layered
    <2>7. QED
      BY <2>2, <2>3, <2>4, <2>5, <2>6 DEF Layered
  <1>2. CASE UNCHANGED vars
    <2>1. UNCHANGED <<file, len, cursor, queue, owner, txn, pc, loc, range, before, done, lost, at>>
      BY <1>2 DEF vars, kernelVars, histVars
    <2>2. Shape' /\ Numbers' /\ Bounds'
      BY <2>1 DEF Layered, Shape, Numbers, Bounds, FileBounds, QueueBounds, HistoryTypes,
         CallBounds
    <2>3. MutexInv' /\ CursorInv' /\ CallsInv' /\ NothingBehind'
      BY <2>1 DEF Layered, MutexInv, UnderMutex, CursorInv, CallsInv, Flushing, NothingBehind
    <2>4. /\ \A x, b : Waiting(x, b)' <=> Waiting(x, b)
          /\ \A x, b : Flying(x, b)' <=> Flying(x, b)
          /\ \A i, x, b : QueuedAfter(i, x, b)' <=> QueuedAfter(i, x, b)
      BY <2>1, LayersSame DEF Waiting
    <2>5. HistoryInv' /\ WritersInv'
      BY <2>1, <2>4 DEF Layered, HistoryInv, Used, WritersInv, IsWrite, Id
    <2>6. PlaceInv' /\ SettleInv' /\ WrittenInv'
      BY <2>1, <2>4 DEF Layered, PlaceInv, SettleInv, WrittenInv, Over, IsWrite, Id
    <2>7. LayersInv' /\ ReadsLatest'
      BY <2>1, <2>4 DEF Layered, LayersInv, Atop, ReadsLatest, Stale, Wrote
    <2>8. QED
      BY <2>2, <2>3, <2>5, <2>6, <2>7 DEF Layered
  <1>3. QED
    BY <1>1, <1>2

\* Idle threads and an empty queue leave nothing waiting, so that the file holds the
\* last writes.
LEMMA NothingWaits ==
    ASSUME Layered
    PROVE  SettledFile
  <1> SUFFICES ASSUME queue = <<>>, \A t \in Threads : pc[t] = "idle",
                      NEW b \in Bytes, Stale(b, file[b], done)
               PROVE  FALSE
    BY DEF SettledFile
  <1>1. PICK w \in done : Wrote(w, b) /\ (file[b] = Hole \/ file[b] \in before[w])
    BY DEF Stale
  <1>2. Waiting(w, b)
    BY <1>1 DEF Layered, LayersInv, Atop, Wrote
  <1>3. ~QueuedAfter(0, w, b)
    BY DEF QueuedAfter
  <1>4. ~Flying(w, b)
    <2>1. \A t \in Threads : loc[t].op = NoOp /\ loc[t].opn = 0
      BY DEF Layered, CallsInv
    <2>2. QED
      BY <2>1 DEF Flying, HoldsAt, NoOp
  <1>5. QED
    BY <1>2, <1>3, <1>4 DEF Waiting

\* "so the read sees the latest data", whatever is queued, merged, being flushed by another
\* thread, cut short or given up.
THEOREM ReadsSeeLatest ==
    ASSUME ~SharedCursor, ~CursorOverQueue
    PROVE  Spec => []ReadsLatest
  <1>1. Layered /\ [Next]_vars => Layered'
    BY LayeredStep
  <1>2. Layered => ReadsLatest
    BY DEF Layered
  <1>3. QED
    BY InitLayered, <1>1, <1>2, PTL DEF Spec

\* No write that returned is lost from a file that is settled.
THEOREM FileSettles ==
    ASSUME ~SharedCursor, ~CursorOverQueue
    PROVE  Spec => []SettledFile
  <1>1. Layered /\ [Next]_vars => Layered'
    BY LayeredStep
  <1>2. Layered => SettledFile
    BY NothingWaits
  <1>3. QED
    BY InitLayered, <1>1, <1>2, PTL DEF Spec

----------------------------------------------------------------------------
(* What a growth cuts off *)

\* While getMmapHandle is about to grow the file, what is behind the end it has seen was put
\* there by writes that had not returned when it was called.
GrowthInv ==
    \A t \in Threads : pc[t] = "grow" =>
       /\ loc[t].end \in Nat /\ loc[t].end < loc[t].where
       /\ \A b \in Bytes : loc[t].end <= b => file[b] \notin loc[t].snap

\* What the argument needs of the queue, of the calls and of the history.
GrowthParts ==
    /\ Shape /\ Numbers /\ Bounds /\ MutexInv /\ CallsInv /\ NothingBehind
    /\ HistoryInv /\ WritersInv /\ GrowthInv

\* Only a look at the end of the file leads to its growth.
LEMMA GrowthStarts ==
    ASSUME Shape, Next, NEW u \in Threads, pc'[u] = "grow"
    PROVE  MmapEnd(u) \/ (pc[u] = "grow" /\ loc'[u] = loc[u])
  <1> DEFINE Goal == MmapEnd(u) \/ (pc[u] = "grow" /\ loc'[u] = loc[u])
  <1> SUFFICES ASSUME NEW t \in Threads, Step(t) \/ Call(t) \/ EndTransaction(t) PROVE Goal
    BY DEF Next
  <1>1. ASSUME NEW where, NEW n, QueueWrite(t, where, n) \/ Pwrite(t, where, n) PROVE Goal
    BY <1>1 DEF QueueWrite, Pwrite, Begin, Calling, Shape
  <1>2. ASSUME Pread(t) \/ Flush(t) PROVE Goal
    BY <1>2 DEF Pread, Flush, Begin, Calling, Shape
  <1>3. ASSUME NEW n, Read(t, n) \/ Write(t, n) \/ GetMmapHandle(t, n) PROVE Goal
    BY <1>3 DEF Read, Write, GetMmapHandle, Begin, Calling, Shape
  <1>4. ASSUME NEW p, Seek(t, p) PROVE Goal
    BY <1>4 DEF Seek, Calling, Shape
  <1>5. ASSUME BeginTransaction(t) \/ EndTransaction(t) PROVE Goal
    BY <1>5 DEF BeginTransaction, EndTransaction, Calling, Shape
  <1>6. ASSUME Acquire(t) \/ FlushPop(t) \/ FlushFail(t) PROVE Goal
    BY <1>6 DEF Acquire, FlushPop, FlushFail, Shape
  <1>7. ASSUME FlushEnd(t) \/ SysFail(t) \/ SysReadEnd(t) \/ MmapRestore(t) PROVE Goal
    BY <1>7 DEF FlushEnd, SysFail, SysReadEnd, MmapRestore, Return, Shape
  <1>8. ASSUME NEW k, FlushWrite(t, k) \/ SysWrite(t, k) \/ SysRead(t, k) PROVE Goal
    BY <1>8 DEF FlushWrite, SysWrite, SysRead, Return, Shape
  <1>9. ASSUME MmapEnd(t) \/ MmapGrow(t) PROVE Goal
    BY <1>9 DEF MmapEnd, MmapGrow, Shape
  <1> HIDE DEF Goal
  <1>10. QED
    BY <1>1, <1>2, <1>3, <1>4, <1>5, <1>6, <1>7, <1>8, <1>9 DEF Step, Call

\* A thread that is about to grow the file holds the mutex, so that nobody flushes, and a
\* direct write in progress has not returned.
LEMMA GrowthStep ==
    ASSUME GrowthParts, Next
    PROVE  GrowthInv'
  <1> USE DEF GrowthParts
  <1>0. Quiet \/ \E t \in Threads : Moves(t)
    BY QuietStep
  <1>1. ASSUME NEW u \in Threads, pc[u] = "grow", NEW b \in Bytes, loc[u].end <= b
        PROVE  file'[b] \notin loc[u].snap
    <2>1. loc[u].snap \subseteq done /\ done \subseteq Ids
      BY DEF WritersInv, Bounds, HistoryTypes
    <2>2. CASE file'[b] = file[b]
      BY <1>1, <2>2 DEF GrowthInv
    <2>3. CASE Flying(file'[b], b)
      <3>1. PICK v \in Threads : HoldsAt(loc[v].op, loc[v].opn, file'[b], b)
        BY <2>3 DEF Flying
      <3>2. pc[v] # "flush"
        BY <1>1 DEF MutexInv, UnderMutex
      <3>3. loc[v].op = NoOp /\ loc[v].opn = 0
        BY <3>2 DEF CallsInv
      <3>4. QED
        BY <3>1, <3>3 DEF HoldsAt, NoOp
    <2>4. ASSUME NEW v \in Threads, IsWrite(v), file'[b] = Id(v)
          PROVE  file'[b] \notin loc[u].snap
      BY <2>1, <2>4 DEF WritersInv
    <2>5. ASSUME NEW v \in Threads, MmapGrow(v), file'[b] # file[b]
          PROVE  file'[b] \notin loc[u].snap
      BY <2>1, <2>5, CutBytes DEF Ids, Hole
    <2>6. QED
      BY <1>0, <2>2, <2>3, <2>4, <2>5, FileStep
  <1>2. ASSUME NEW u \in Threads, MmapEnd(u), pc'[u] = "grow"
        PROVE  /\ loc'[u].end \in Nat /\ loc'[u].end < loc'[u].where
               /\ \A b \in Bytes : loc'[u].end <= b => file'[b] \notin loc'[u].snap
    <2>1. /\ loc'[u].end = len /\ loc'[u].where = loc[u].where /\ loc'[u].snap = loc[u].snap
          /\ len < loc[u].where /\ file' = file
      BY <1>2 DEF MmapEnd, Shape, Fields
    <2>2. len \in Nat /\ loc[u].snap \subseteq Ids
      BY DEF Numbers, WritersInv, Bounds, HistoryTypes
    <2>3. \A b \in Bytes : len <= b => file[b] = Hole
      BY <2>2, FdIOAssumption DEF NothingBehind, Bytes
    <2>4. Hole \notin Ids
      BY DEF Ids, Hole
    <2>5. QED
      BY <2>1, <2>2, <2>3, <2>4
  <1>3. ASSUME NEW u \in Threads, pc[u] = "grow", loc'[u] = loc[u]
        PROVE  /\ loc'[u].end \in Nat /\ loc'[u].end < loc'[u].where
               /\ \A b \in Bytes : loc'[u].end <= b => file'[b] \notin loc'[u].snap
    BY <1>1, <1>3 DEF GrowthInv
  <1>4. \A u \in Threads : pc'[u] = "grow" => MmapEnd(u) \/ (pc[u] = "grow" /\ loc'[u] = loc[u])
    BY GrowthStarts
  <1>5. QED
    BY <1>2, <1>3, <1>4 DEF GrowthInv

\* "Grow": no byte is cut off that a write had put in the file that returned before the
\* mapping was asked for, whatever is written between the look at the end and growFileTo.
THEOREM GrowthSparesReturned == Spec => GrowthCutsOnlyNewer
  <1>1. Init => GrowthParts
    <2>1. Init => GrowthInv
      BY DEF Init, GrowthInv
    <2>2. QED
      BY <2>1, InitLayered DEF Layered, GrowthParts
  <1>2. ASSUME GrowthParts, [Next]_vars PROVE GrowthParts'
    <2>1. CASE Next
      <3>1. Quiet \/ \E t \in Threads : Moves(t)
        BY <1>2, <2>1, QuietStep DEF GrowthParts
      <3>2. Shape' /\ Numbers' /\ Bounds'
        BY <1>2, <2>1, ShapeStep, NumbersStep, BoundsStep DEF GrowthParts
      <3>3. MutexInv' /\ CallsInv' /\ NothingBehind'
        BY <1>2, <2>1, MutexStep, CallsStep, NothingBehindStep DEF GrowthParts
      <3>4. HistoryInv' /\ WritersInv'
        BY <1>2, <2>1, <3>1, HistoryStep, WritersStep DEF GrowthParts
      <3>5. GrowthInv'
        BY <1>2, <2>1, GrowthStep
      <3>6. QED
        BY <3>2, <3>3, <3>4, <3>5 DEF GrowthParts
    <2>2. CASE UNCHANGED vars
      <3>1. UNCHANGED <<file, len, cursor, queue, owner, txn, pc, loc, range, before, done, at>>
        BY <2>2 DEF vars, kernelVars, histVars
      <3>2. Shape' /\ Numbers' /\ Bounds'
        BY <1>2, <3>1 DEF GrowthParts, Shape, Numbers, Bounds, FileBounds, QueueBounds,
           HistoryTypes, CallBounds
      <3>3. MutexInv' /\ CallsInv' /\ NothingBehind' /\ GrowthInv'
        BY <1>2, <3>1 DEF GrowthParts, MutexInv, UnderMutex, CallsInv, Flushing, NothingBehind,
           GrowthInv
      <3>4. \A x, b : Waiting(x, b)' <=> Waiting(x, b)
        BY <3>1, LayersSame DEF Waiting
      <3>5. HistoryInv' /\ WritersInv'
        BY <1>2, <3>1, <3>4 DEF GrowthParts, HistoryInv, Used, WritersInv, IsWrite, Id
      <3>6. QED
        BY <3>2, <3>3, <3>5 DEF GrowthParts
    <2>3. QED
      BY <1>2, <2>1, <2>2
  <1>3. ASSUME GrowthParts, Next, NEW b \in Bytes, file[b] # Hole, file'[b] = Hole
        PROVE  \E t \in Threads : pc[t] = "grow" /\ file[b] \notin loc[t].snap
    <2>1. Quiet \/ \E t \in Threads : Moves(t)
      BY <1>3, QuietStep DEF GrowthParts
    <2>2. Hole \notin Ids
      BY DEF Ids, Hole
    <2>3. ~Flying(Hole, b)
      BY <1>3, <2>2 DEF GrowthParts, HistoryInv, Waiting, Bounds, HistoryTypes
    <2>4. \A t \in Threads : IsWrite(t) => Id(t) # Hole
      BY <1>3, <2>2, WriterFacts DEF GrowthParts, Used
    <2>5. PICK t \in Threads : MmapGrow(t)
      BY <1>3, <2>1, <2>3, <2>4, FileStep DEF GrowthParts
    <2>6. pc[t] = "grow" /\ loc[t].where <= b
      BY <1>3, <2>5, CutBytes DEF MmapGrow, GrowthParts
    <2>7. loc[t].end \in Nat /\ loc[t].end < loc[t].where /\ loc[t].where \in Nat /\ b \in Nat
      BY <1>3, <2>6, FdIOAssumption DEF GrowthParts, GrowthInv, Numbers, Bytes
    <2>8. loc[t].end <= b
      BY <2>6, <2>7
    <2>9. QED
      BY <1>3, <2>6, <2>8 DEF GrowthParts, GrowthInv
  <1>4. GrowthParts /\ [Next]_vars =>
          [\A b \in Bytes : file[b] # Hole /\ file'[b] = Hole =>
              \E t \in Threads : pc[t] = "grow" /\ file[b] \notin loc[t].snap]_vars
    BY <1>3
  <1>5. QED
    BY <1>1, <1>2, <1>4, PTL DEF Spec, GrowthCutsOnlyNewer

=============================================================================
