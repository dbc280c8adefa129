---------------------------------- MODULE FdIO ----------------------------------
(***************************************************************************)
(* Reading and writing one open file through src/src/fs/FdHandle.cpp.      *)
(*                                                                         *)
(* queueWrite leaves a positional write in FdHandleData::writeQueue,       *)
(* merging it with the last one when the two are adjacent.  pread, pwrite, *)
(* read, flush and getMmapHandle drain the queue under the handle's        *)
(* recursive mutex; the system call that follows is made without it.       *)
(* write, and seek, take no mutex at all.  An FdTransaction holds the      *)
(* mutex over a series of calls.  There is one file cursor, in the kernel, *)
(* for everybody.                                                          *)
(*                                                                         *)
(* A byte of the file is the number of the write that put it there, so     *)
(* that old data is told apart from new.  Each system call is one step and *)
(* may transfer any part of what it was asked for; at most MaxErrors calls *)
(* of ::pwrite or ::write fail.                                            *)
(***************************************************************************)
EXTENDS Integers, Sequences, FiniteSets

CONSTANTS Threads,
          None,            \* no thread holds the mutex
          Size,            \* bound: the file has at most Size bytes
          MaxLen,          \* bound: length of one write
          MaxWrites,       \* bound: writes in a behaviour
          MaxCalls,        \* bound: calls and transactions in a behaviour
          MaxErrors,       \* bound: failing system calls
          SharedCursor,    \* may a thread use the cursor outside a transaction?
          CursorOverQueue  \* may write() hit bytes whose queued write is pending?

ASSUME FdIOAssumption ==
    /\ None \notin Threads
    /\ Size \in Nat /\ MaxLen \in 0 .. Size /\ MaxWrites \in Nat
    /\ MaxCalls \in Nat /\ MaxErrors \in Nat
    /\ {SharedCursor, CursorOverQueue} \subseteq BOOLEAN

Ids == 1 .. MaxWrites
Hole == 0
Bytes == 0 .. Size - 1

VARIABLES
    file,     \* the bytes of the file, in the kernel
    len,      \* its length
    cursor,   \* its cursor
    queue,    \* FdHandleData::writeQueue
    owner,    \* who holds FdHandleData::mutex
    txn,      \* the threads that hold it for an FdTransaction
    pc,       \* where each thread is in its call
    loc,      \* the call's arguments and local variables
    calls,    \* calls made so far
    errors,   \* system calls failed so far
    \* history
    range,    \* the bytes each write was asked to write
    before,   \* the writes that had returned when each write was called
    done,     \* the writes that have returned
    lost,     \* <<write, byte>>: given up as a system call failed, or cut off again
    at        \* where a transaction found or left the cursor, or -1

kernelVars == <<file, len, cursor>>
histVars == <<range, before, done, lost>>
vars == <<kernelVars, queue, owner, txn, pc, loc, calls, errors, histVars, at>>

\* call; where, ids: position and bytes of a write (of a read, ids is only as long as
\* the buffer); n: bytes transferred; op, opn: the queued write being flushed and how
\* much of it is; old, end: getMmapHandle's previousOffset and currentSize;
\* snap: the writes that had returned when the call began; seen: <<byte, write>> read.
NoOp == [where |-> 0, ids |-> <<>>]
NoCall == [call |-> "none", where |-> 0, ids |-> <<>>, n |-> 0, op |-> NoOp, opn |-> 0,
           old |-> 0, end |-> 0, snap |-> {}, seen |-> {}]

SeqsUpTo(S, n) == UNION {[1 .. k -> S] : k \in 0 .. n}
Ops == [where : Bytes, ids : SeqsUpTo(Ids, Size)]

TypeOK ==
    /\ file \in [Bytes -> Ids \cup {Hole}]
    /\ len \in 0 .. Size
    /\ cursor \in 0 .. Size
    /\ \A i \in DOMAIN queue :
         /\ queue[i].where \in Bytes
         /\ queue[i].ids # <<>>
         /\ queue[i].where + Len(queue[i].ids) <= Size
    /\ owner \in Threads \cup {None}
    /\ txn \subseteq Threads
    /\ pc \in [Threads -> {"idle", "lock", "flush", "sys", "end", "grow", "restore"}]
    /\ \A t \in Threads : loc[t].opn <= Len(loc[t].op.ids) /\ loc[t].n <= Len(loc[t].ids)
    /\ range \in [Ids -> SUBSET Bytes]
    /\ before \in [Ids -> SUBSET Ids]
    /\ done \subseteq Ids
    /\ at \in [Threads -> -1 .. Size]

Init ==
    /\ file = [b \in Bytes |-> Hole]
    /\ len = 0
    /\ cursor = 0
    /\ queue = <<>>
    /\ owner = None
    /\ txn = {}
    /\ pc = [t \in Threads |-> "idle"]
    /\ loc = [t \in Threads |-> NoCall]
    /\ calls = 0
    /\ errors = 0
    /\ range = [w \in Ids |-> {}]
    /\ before = [w \in Ids |-> {}]
    /\ done = {}
    /\ lost = {}
    /\ at = [t \in Threads |-> -1]

----------------------------------------------------------------------------
(* Helpers *)

Span(where, n) == where .. where + n - 1

\* (bug) The mutex is not recursive.
FreeForOthers(t) == owner = None

Free(t) == owner \in {None, t}

\* Who holds the mutex when t lets go of a lock_guard: the mutex is recursive.
Released(t) == IF t \in txn THEN t ELSE None

\* The bytes queued and not yet in the file, those of a flush in progress included.
Pending ==
    UNION ({Span(queue[i].where, Len(queue[i].ids)) : i \in DOMAIN queue}
           \cup {Span(loc[t].op.where, Len(loc[t].op.ids)) : t \in Threads})

\* f with the bytes ids[i + 1 .. i + k] at where + i.
Put(f, where, ids, i, k) ==
    [b \in Bytes |-> IF b \in Span(where + i, k) THEN ids[b - where + 1] ELSE f[b]]

AtLeast(a, b) == IF a > b THEN a ELSE b

\* Calls are bounded, and a thread makes one call at a time.
Calling(t) == pc[t] = "idle" /\ calls < MaxCalls /\ calls' = calls + 1

\* The next write is called, for the bytes at where.
NewId == Cardinality({w \in Ids : range[w] # {}}) + 1
NewWrite(id, where, n) ==
    /\ id \in Ids
    /\ n \in 1 .. MaxLen
    /\ where + n <= Size
    /\ range' = [range EXCEPT ![id] = Span(where, n)]
    /\ before' = [before EXCEPT ![id] = done]

Begin(t, p, l) ==
    /\ pc' = [pc EXCEPT ![t] = p]
    /\ loc' = [loc EXCEPT ![t] = [l EXCEPT !.snap = done]]

Return(t) ==
    /\ pc' = [pc EXCEPT ![t] = "idle"]
    /\ loc' = [loc EXCEPT ![t] = NoCall]

----------------------------------------------------------------------------
(* queueWrite *)

\* (bug) A write that ends where the last one starts is put after it.
MergedBehind(q, op) ==
    LET last == q[Len(q)] IN
    IF q # <<>> /\ last.where + Len(last.ids) = op.where
    THEN [q EXCEPT ![Len(q)].ids = @ \o op.ids]
    ELSE IF q # <<>> /\ op.where + Len(op.ids) = last.where
         THEN [q EXCEPT ![Len(q)].ids = @ \o op.ids, ![Len(q)].where = op.where]
         ELSE Append(q, op)

\* (bug) A write put in front of the last one does not move its position.
MergedUnmoved(q, op) ==
    LET last == q[Len(q)] IN
    IF q # <<>> /\ last.where + Len(last.ids) = op.where
    THEN [q EXCEPT ![Len(q)].ids = @ \o op.ids]
    ELSE IF q # <<>> /\ op.where + Len(op.ids) = last.where
         THEN [q EXCEPT ![Len(q)].ids = op.ids \o @]
         ELSE Append(q, op)

\* The queue q with op: merged with the last queued write when adjacent to it.
Merged(q, op) ==
    LET last == q[Len(q)] IN
    IF q # <<>> /\ last.where + Len(last.ids) = op.where
    THEN [q EXCEPT ![Len(q)].ids = @ \o op.ids]
    ELSE IF q # <<>> /\ op.where + Len(op.ids) = last.where
         THEN [q EXCEPT ![Len(q)] = [where |-> op.where, ids |-> op.ids \o @.ids]]
         ELSE Append(q, op)

QueueWrite(t, where, n) ==
    LET id == NewId IN
    /\ Calling(t)
    /\ Free(t)
    /\ NewWrite(id, where, n)
    /\ queue' = Merged(queue, [where |-> where, ids |-> [i \in 1 .. n |-> id]])
    /\ done' = done \cup {id}
    /\ UNCHANGED <<kernelVars, owner, txn, pc, loc, errors, lost, at>>

----------------------------------------------------------------------------
(* Calls *)

\* pread, pwrite, read, flush and getMmapHandle begin by taking the mutex.
Pwrite(t, where, n) ==
    LET id == NewId IN
    /\ Calling(t)
    /\ NewWrite(id, where, n)
    /\ Begin(t, "lock", [NoCall EXCEPT !.call = "pwrite", !.where = where,
                                       !.ids = [i \in 1 .. n |-> id]])
    /\ UNCHANGED <<kernelVars, queue, owner, txn, errors, done, lost, at>>

Pread(t) ==
    /\ Calling(t)
    /\ Begin(t, "lock", [NoCall EXCEPT !.call = "pread", !.ids = [i \in 1 .. Size |-> Hole]])
    /\ UNCHANGED <<kernelVars, queue, owner, txn, errors, histVars, at>>

Flush(t) ==
    /\ Calling(t)
    /\ Begin(t, "lock", [NoCall EXCEPT !.call = "flush"])
    /\ UNCHANGED <<kernelVars, queue, owner, txn, errors, histVars, at>>

\* getMmapHandle(0, n)
GetMmapHandle(t, n) ==
    /\ Calling(t)
    /\ Begin(t, "lock", [NoCall EXCEPT !.call = "mmap", !.where = n])
    /\ UNCHANGED <<kernelVars, queue, owner, txn, errors, histVars, at>>

\* FdHandle or FdTransaction, read, write and seek use the kernel's cursor.
MayUseCursor(t) == SharedCursor \/ t \in txn

\* Thread t moved the cursor to p.
Moved(t, p) == IF t \in txn THEN [at EXCEPT ![t] = p] ELSE at

Read(t, n) ==
    /\ MayUseCursor(t)
    /\ Calling(t)
    /\ Begin(t, "lock", [NoCall EXCEPT !.call = "read", !.ids = [i \in 1 .. n |-> Hole]])
    /\ UNCHANGED <<kernelVars, queue, owner, txn, errors, histVars, at>>

\* write neither takes the mutex nor drains the queue.
Write(t, n) ==
    LET id == NewId IN
    /\ MayUseCursor(t)
    /\ Calling(t)
    /\ NewWrite(id, cursor, n)
    /\ CursorOverQueue \/ Span(cursor, n) \cap Pending = {}
    /\ Begin(t, "sys", [NoCall EXCEPT !.call = "write", !.where = cursor,
                                      !.ids = [i \in 1 .. n |-> id]])
    /\ UNCHANGED <<kernelVars, queue, owner, txn, errors, done, lost, at>>

Seek(t, p) ==
    /\ MayUseCursor(t)
    /\ Calling(t)
    /\ cursor' = p
    /\ at' = Moved(t, p)
    /\ UNCHANGED <<file, len, queue, owner, txn, pc, loc, errors, histVars>>

\* FdTransaction(handle) and ~FdTransaction.
BeginTransaction(t) ==
    /\ Calling(t)
    /\ owner = None
    /\ owner' = t
    /\ txn' = txn \cup {t}
    /\ at' = [at EXCEPT ![t] = cursor]
    /\ UNCHANGED <<kernelVars, queue, pc, loc, errors, histVars>>

EndTransaction(t) ==
    /\ t \in txn
    /\ pc[t] = "idle"
    /\ owner' = None
    /\ txn' = txn \ {t}
    /\ at' = [at EXCEPT ![t] = -1]
    /\ UNCHANGED <<kernelVars, queue, pc, loc, calls, errors, histVars>>

----------------------------------------------------------------------------
(* flushWrites, under the mutex *)

\* The mutex is taken; getMmapHandle notes where the cursor is.
Acquire(t) ==
    /\ pc[t] = "lock"
    /\ Free(t)
    /\ owner' = t
    /\ pc' = [pc EXCEPT ![t] = "flush"]
    /\ loc' = [loc EXCEPT ![t].old = cursor]
    /\ UNCHANGED <<kernelVars, queue, txn, calls, errors, histVars, at>>

Flushing(t) == loc[t].opn < Len(loc[t].op.ids)

\* writeQueue.pop()
FlushPop(t) ==
    /\ pc[t] = "flush"
    /\ ~Flushing(t)
    /\ queue # <<>>
    /\ loc' = [loc EXCEPT ![t].op = Head(queue), ![t].opn = 0]
    /\ queue' = Tail(queue)
    /\ UNCHANGED <<kernelVars, owner, txn, pc, calls, errors, histVars, at>>

\* (bug) After a short write the rest goes to the start of the range.
FlushedAtStart(f, op, i, k) ==
    [b \in Bytes |-> IF b \in Span(op.where, k) THEN op.ids[b - op.where + 1 + i] ELSE f[b]]

\* The file after ::pwrite of k more bytes of op, i of which are written.
Flushed(f, op, i, k) == Put(f, op.where, op.ids, i, k)

\* ::pwrite writes k bytes of what is left of the queued write.
FlushWrite(t, k) ==
    LET op == loc[t].op  i == loc[t].opn IN
    /\ pc[t] = "flush"
    /\ Flushing(t)
    /\ k \in 1 .. Len(op.ids) - i
    /\ file' = Flushed(file, op, i, k)
    /\ len' = AtLeast(len, op.where + i + k)
    /\ loc' = IF i + k = Len(op.ids)
              THEN [loc EXCEPT ![t].op = NoOp, ![t].opn = 0]
              ELSE [loc EXCEPT ![t].opn = i + k]
    /\ UNCHANGED <<cursor, queue, owner, txn, pc, calls, errors, histVars, at>>

\* ::pwrite fails: what is left of this queued write is given up.
FlushFail(t) ==
    LET op == loc[t].op IN
    /\ pc[t] = "flush"
    /\ Flushing(t)
    /\ errors < MaxErrors
    /\ errors' = errors + 1
    /\ lost' = lost \cup {<<op.ids[j], op.where + j - 1>> : j \in loc[t].opn + 1 .. Len(op.ids)}
    /\ loc' = [loc EXCEPT ![t].op = NoOp, ![t].opn = 0]
    /\ UNCHANGED <<kernelVars, queue, owner, txn, pc, calls, range, before, done, at>>

Drained(t) == ~Flushing(t) /\ queue = <<>>

\* The queue is empty.  getMmapHandle keeps the mutex; flush returns; the others let
\* the mutex go and make their system call.
FlushEnd(t) ==
    /\ pc[t] = "flush"
    /\ Drained(t)
    /\ owner' = IF loc[t].call = "mmap" THEN owner ELSE Released(t)
    /\ IF loc[t].call = "flush"
       THEN Return(t)
       ELSE /\ pc' = [pc EXCEPT ![t] = IF loc[t].call = "mmap" THEN "end" ELSE "sys"]
            /\ UNCHANGED loc
    /\ UNCHANGED <<kernelVars, queue, txn, calls, errors, histVars, at>>

----------------------------------------------------------------------------
(* The system calls of pwrite, write, pread and read *)

Left(t) == Len(loc[t].ids) - loc[t].n

IsWrite(t) == loc[t].call \in {"pwrite", "write"}

\* Position of the next byte to be transferred.
Next0(t) == IF loc[t].call \in {"write", "read"} THEN cursor ELSE loc[t].where + loc[t].n

\* k bytes are written at the position; where they land counts as the write's range.
SysWrite(t, k) ==
    LET p == Next0(t)  l == loc[t]  id == l.ids[1] IN
    /\ pc[t] = "sys"
    /\ IsWrite(t)
    /\ k \in 1 .. Left(t)
    /\ p + k <= Size
    /\ file' = [b \in Bytes |-> IF b \in Span(p, k) THEN id ELSE file[b]]
    /\ len' = AtLeast(len, p + k)
    /\ IF l.call = "write"
       THEN /\ cursor' = p + k
            /\ at' = Moved(t, p + k)
       ELSE UNCHANGED <<cursor, at>>
    /\ IF k = Left(t)
       THEN Return(t) /\ done' = done \cup {id}
       ELSE /\ loc' = [loc EXCEPT ![t].n = @ + k]
            /\ UNCHANGED <<pc, done>>
    /\ UNCHANGED <<queue, owner, txn, calls, errors, range, before, lost>>

\* ::pwrite or ::write fails: the call returns, its other bytes are not written.
SysFail(t) ==
    LET id == loc[t].ids[1] IN
    /\ pc[t] = "sys"
    /\ IsWrite(t)
    /\ errors < MaxErrors
    /\ errors' = errors + 1
    /\ lost' = lost \cup {<<id, b>> : b \in Span(loc[t].where + loc[t].n, Left(t))}
    /\ done' = done \cup {id}
    /\ Return(t)
    /\ UNCHANGED <<kernelVars, queue, owner, txn, calls, range, before, at>>

\* k bytes are read.
SysRead(t, k) ==
    LET p == Next0(t) IN
    /\ pc[t] = "sys"
    /\ ~IsWrite(t)
    /\ k \in 1 .. Left(t)
    /\ p + k <= len
    /\ loc' = [loc EXCEPT ![t].n = @ + k,
                          ![t].seen = @ \cup {<<b, file[b]>> : b \in Span(p, k)}]
    /\ IF loc[t].call = "read"
       THEN /\ cursor' = p + k
            /\ at' = Moved(t, p + k)
       ELSE UNCHANGED <<cursor, at>>
    /\ UNCHANGED <<file, len, queue, owner, txn, pc, calls, errors, histVars>>

\* The buffer is full, or the end of the file is reached: the call returns.
SysReadEnd(t) ==
    /\ pc[t] = "sys"
    /\ ~IsWrite(t)
    /\ Left(t) = 0 \/ Next0(t) >= len
    /\ Return(t)
    /\ UNCHANGED <<kernelVars, queue, owner, txn, calls, errors, histVars, at>>

----------------------------------------------------------------------------
(* The rest of getMmapHandle, under the mutex *)

\* (bug) The file is given the length of the mapping, whatever its own.
MmapEndUnchecked(t) ==
    /\ pc[t] = "end"
    /\ cursor' = len
    /\ loc' = [loc EXCEPT ![t].end = len]
    /\ pc' = [pc EXCEPT ![t] = "grow"]
    /\ UNCHANGED <<file, len, queue, owner, txn, calls, errors, histVars, at>>

\* currentSize = lseek(fd, 0, SEEK_END)
MmapEnd(t) ==
    /\ pc[t] = "end"
    /\ cursor' = len
    /\ loc' = [loc EXCEPT ![t].end = len]
    /\ pc' = [pc EXCEPT ![t] = IF len < loc[t].where THEN "grow" ELSE "restore"]
    /\ UNCHANGED <<file, len, queue, owner, txn, calls, errors, histVars, at>>

\* The lengths growFileTo(fd, currentSize, needed) may leave, in a file that may be longer
\* than currentSize by now: posix_fallocate never cuts, the ftruncate it falls back to
\* does, and when that fails too the mapping is given up.
GrownTo(needed) == {AtLeast(len, needed), needed, len}

\* The bytes write w has still to put in the file by a system call of its own.
Ahead(w) ==
    UNION {Span(loc[t].where + loc[t].n, Left(t)) :
              t \in {u \in Threads : IsWrite(u) /\ loc[u].ids[1] = w}}

\* What the writes have put behind the first n bytes of the file.
CutOff(n) == {x \in Ids \X Bytes : x[2] \in range[x[1]] \ Ahead(x[1]) /\ n <= x[2] /\ x[2] < len}

MmapGrow(t) ==
    /\ pc[t] = "grow"
    /\ len' \in GrownTo(loc[t].where)
    /\ file' = [b \in Bytes |-> IF b < len' THEN file[b] ELSE Hole]
    /\ lost' = lost \cup CutOff(len')
    /\ pc' = [pc EXCEPT ![t] = "restore"]
    /\ UNCHANGED <<cursor, queue, owner, txn, loc, calls, errors, range, before, done, at>>

\* (bug) The cursor stays at the end of the file.
UnrestoredCursor(t) == cursor

\* lseek(fd, previousOffset, SEEK_SET)
RestoredCursor(t) == loc[t].old

MmapRestore(t) ==
    /\ pc[t] = "restore"
    /\ cursor' = RestoredCursor(t)
    /\ owner' = Released(t)
    /\ Return(t)
    /\ UNCHANGED <<file, len, queue, txn, calls, errors, histVars, at>>

----------------------------------------------------------------------------

\* What a thread does inside a call.
Step(t) ==
    \/ Acquire(t)
    \/ FlushPop(t) \/ FlushFail(t) \/ FlushEnd(t)
    \/ \E k \in 1 .. Size : FlushWrite(t, k) \/ SysWrite(t, k) \/ SysRead(t, k)
    \/ SysFail(t) \/ SysReadEnd(t)
    \/ MmapEnd(t) \/ MmapGrow(t) \/ MmapRestore(t)

\* The calls it may make.
Call(t) ==
    \/ \E where \in Bytes, n \in 1 .. MaxLen : QueueWrite(t, where, n) \/ Pwrite(t, where, n)
    \/ Pread(t) \/ Flush(t)
    \/ \E n \in 1 .. MaxLen : Read(t, n) \/ Write(t, n) \/ GetMmapHandle(t, n)
    \/ \E p \in Bytes : Seek(t, p)
    \/ BeginTransaction(t)

Next == \E t \in Threads : Step(t) \/ Call(t) \/ EndTransaction(t)

Spec == Init /\ [][Next]_vars

----------------------------------------------------------------------------
(* Properties *)

\* Write w has put its value in byte b, as far as those who called it can tell.
Wrote(w, b) == b \in range[w] /\ <<w, b>> \notin lost

\* Byte b holding v is old news to one who knows the writes W have returned.
Stale(b, v, W) == \E w \in W : Wrote(w, b) /\ (v = Hole \/ v \in before[w])

\* "so the read sees the latest data": no call reads a byte that was overwritten by a
\* write that had returned before the call began - queued, merged, being flushed by
\* another thread, cut short or direct.
ReadsLatest ==
    \A t \in Threads : \A s \in loc[t].seen : ~Stale(s[1], s[2], loc[t].snap)

\* When nothing is queued and nobody is writing, the file holds the last writes.
SettledFile ==
    (queue = <<>> /\ \A t \in Threads : pc[t] = "idle") =>
        \A b \in Bytes : ~Stale(b, file[b], done)

\* "An FdTransaction is atomic": nothing moves the cursor but the transaction's own
\* calls, and getMmapHandle puts it back.
TransactionAtomic ==
    \A t \in txn : pc[t] \notin {"grow", "restore"} => cursor = at[t]

\* "Grow": whatever another thread writes between getMmapHandle's look at the end and
\* growFileTo, and whichever call growFileTo ends in, no byte is cut off that a write had put
\* in the file that returned before the mapping was asked for.  (Newer ones may be: the
\* unlocked pwrite and write do not wait for the mapping.)
GrowthCutsOnlyNewer ==
    [][\A b \in Bytes :
          file[b] # Hole /\ file'[b] = Hole =>
              \E t \in Threads : pc[t] = "grow" /\ file[b] \notin loc[t].snap]_vars

\* Nobody waits for the mutex in vain: who holds it is in a transaction, where it can
\* take the mutex again, or is on its way through flushWrites or getMmapHandle.
MutexHeldByRunner ==
    owner # None =>
        \/ owner \in txn /\ (pc[owner] = "lock" => Free(owner))
        \/ pc[owner] \in {"flush", "end", "grow", "restore"}
=============================================================================
