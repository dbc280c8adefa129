# libexcessive in TLA+

libexcessive is a C++ library: containers, reference-counted pointers and memory
managers, reference-counted file handles, search trees kept in files, a thread
pool, and arithmetic on big numbers and n-dimensional arrays.  This directory
holds TLA+ modules translated from its source, TLC configurations that check them
on small instances, and proofs that TLAPS checks for every instance.  Paths below
are relative to the repository.

Contents: [the system](#the-system), [what is modelled](#what-is-modelled),
[the runs](#the-runs), [findings](#findings), [the proofs](#the-proofs),
[what is not modelled](#what-is-not-modelled), [plan](#plan).

## The system

Components, what they keep, what they do, and what makes them right.

| component | state | operations | what must hold |
|---|---|---|---|
| **Thread pool** `src/parallel/ThreadPool.cpp` | task queue, stop flag, the parallelFor call in progress (epoch, function, count of finished slots), worker threads; one mutex, one condition variable | submit, parallelFor, wait, waitAll, shutdown; workerLoop | a parallelFor is a barrier; its context, on the caller's stack, is never used after it returned; every accepted task runs once; shutdown drains; nobody sleeps for ever |
| **File handle registry** `src/fs/FdHandle.cpp` | process-wide map descriptor → handle data with a count, set of descriptors being closed; handles hold only the number | open, from, wrap, pipe, copy, move, assign, close; mappings | a handle never means another file, whatever was closed and reopened under its number; a file is closed exactly when its last reference goes |
| **File handle input/output** `src/fs/FdHandle.cpp` | queue of positional writes, recursive mutex; the kernel's file and cursor | queueWrite, pread, pwrite, read, write, seek, flush, getMmapHandle, FdTransaction | reads see the latest data; nothing queued is lost; a transaction is atomic; growing a file for a mapping cuts off nothing older than the mapping |
| **Disk B-tree** `include/fs/BTree.h` | nodes in a file, each with its parent's offset and its index there | insert, overwrite, find, findNext, remove | the keys in order, balanced, half full; back links right; never found corrupt |
| **Free space file** `src/fs/FreeSpaceFile.cpp` | free regions in a B-tree in the same file, end of the file | getFreeRegion, markFreeRegion | regions and nodes never overlap |
| **Disk bytestring search tree** `src/fs/DiskBytestringSearchTree.cpp` | radix tree in a FreeSpaceFile, parent offsets | put, get, remove, iteration, interruption points | what was put is found; after an interruption the old or the new tree is there |
| **Frozen B-tree** `include/fs/FrozenBTree.h` | read-only file | build, find, findNext | lookups agree with the sorted input |
| **Slab allocator** `src/alloc/SlabAllocator.cpp` | chunks of blocks of one width, a bit mask of the free ones, the word where a search starts; one lock | alloc, free, prepare, destroyUnallocatedChunks; SlabPointer | no block given out twice; nothing free reported full; a node lives as long as its pointers |
| **Memory manager, static allocator** `src/alloc/MemoryManager.cpp`, `include/alloc/StaticAllocator.h` | byte counts of each module; a chain of pools | createModule, alloc, free; alloc, reset | counters cover what is out; pieces of memory disjoint |
| **Smart pointers** `include/alloc/pointer.h` | control block: an atomic count; a handle has a mode (unique, shared, copy on write) | copy, move, mut, reset, lock, ptr | destroyed once, when the last strong reference goes; a copy-on-write write is private |
| **Hash containers** `include/ds/HashMap.h`, `HashSet.h` | open-addressing table, bit mask of used places | put, get, remove, resize, iteration, set operations | agrees with a map or a set |
| **Sequence containers** `include/ds/*` | nodes and cursors, growing arrays, sorted arrays, bounded queues | push, pop, insert, remove, copy, move | agrees with a sequence, a queue, a set |
| **N-dimensional arrays** `include/NDArray.h`, `src/NDArray.cpp`, `src/ndarray_*` | shapes, strides, offsets, buffers shared copy-on-write; packed bits and 3-bit lanes | views, promotion, element-wise and reducing kernels, argmin, scores, matrix products | a write is seen by no other array; index arithmetic inside the buffer; vector loops agree with one plain loop; strips of parallelFor disjoint |
| **Big integers** `include/bigint.h`, `include/LongKey.h` | an array of words | arithmetic, shifts, roots, conversions | agrees with arithmetic modulo a power of two |
| **Strings, hashing, mathematics, time, logging** | values | pure functions | agree with their definition |

How they interact.  The disk B-tree reads and writes through `FdHandle` and takes its own
`shared_mutex` over a whole call.  `FreeSpaceFile` keeps its free regions in such a tree and
appends to the same file the tree appends its nodes to, outside the tree's mutex.  The bytestring
tree allocates from a `FreeSpaceFile` and edits inside an `FdTransaction`.  The n-dimensional
arrays call `ThreadPool::getDefault().parallelFor` with a context on their stack, from clients,
from tasks and from the bodies of other parallelFors.  Tasks are held by `sp`, whose counts are
atomic.  `Queue` and `SlabPointer` take their nodes from a slab.  The registry is shared by every
handle of the process, and under it the kernel gives closed descriptor numbers to the next `open`.

Which behaviours are hard.  Concurrency without the lock that seems to guard it
(`pforDone` and the notifications of the pool, `write` and `seek` of a handle, the end
of a free space file); state looked up under a lock and used after it (handle data,
`findNearestNode`); reuse of numbers and addresses (descriptors, handle data, node
places); partial transfers and failing system calls; code that works on copies of
nodes that the same operation rewrites; removal from a hash cluster; vector loops whose
tails, accumulators and pad bits differ from build to build; the sharing of buffers
between arrays that may write.  `PROJECT.json` lists each of these under
`hazards`, at the line where it bites, with the properties that cover it or the
reason none does yet.

## What is modelled

### ThreadPool, ThreadPoolAbs, ThreadPoolProofs

`ThreadPool` is workerLoop, submit, parallelFor, wait, shutdown, with the one mutex
and the one condition variable that workers and parallelFor callers share.  A section
under `queueMutex` is one step.  What the code does *outside* the mutex is a step of
its own: each `notify_one` and `notify_all`, the increment of the atomic `pforDone`
and, for this reason, the parallelFor caller's "check the count, then wait".  During
the latter the caller holds the mutex (state `forBlock`) and `MutexFree` is false,
which stops everybody except a worker that counts and notifies.  `notify_one` wakes
any sleeper, worker or caller; a bounded number of wakeups is spurious.

| code | actions |
|---|---|
| workerLoop (ThreadPool.cpp) | `WorkerJoinFor`, `WorkerTake`, `WorkerExit`, `WorkerSleep`, in the order in which the code looks at epoch, queue and stop; `WorkerForDone`, `WorkerForNotify`; `WorkerFinish`, `WorkerDoneNotify` |
| submit | `Submit`, `SubmitNotify` |
| parallelFor | `ParallelFor`, `ParallelForNotify`, `ParallelForBody`, `ParallelForMustWait`, `ParallelForWait`, `ParallelForReturn` |
| ThreadPoolTask::wait, markFinished | `Wait`, `WaitBlock`, `WaitReturn`; `WorkerFinish`, `WorkerDoneNotify` |
| shutdown | `Shutdown`, `ShutdownNotify`, `ShutdownJoin` |

A task that throws is finished first (markFinished) and then ends the process:
`aborted`, after which nothing happens.

`ThreadPoolAbs` says what the pool promises without mutex, condition variable or
epoch: tasks start in order and at most once, nothing is accepted after closing, and a
parallelFor runs every slot exactly once between its beginning and its end.
`ImplementsAbs` is the refinement: the queue maps to `pending`, the tasks in the
workers' hands to `running` (`Running`), and the slots of a call in progress are the
workers with `SlotDone` and, once its body has run, the caller (`SlotsRun`).  TLC checks it
on an instance, `ThreadPoolProofs` proves it.

### FdRegistry, FdRegistryProofs

Handles, handle data, the registry, the set of closing descriptors and the kernel's
table of descriptors.  Every open file has a number of its own that the code never
sees; `hfile` and `dfile` remember which file a handle or a handle data was made for,
so that a handle whose descriptor was reused is told from one that is right.  The
sections under `state.mutex` and the system calls are one step each; in between a
thread is in a state of its own (`pc`), e.g. between `internNewFile` and the
constructor that counts the handle, or between the removal of the registry entry and
`::close`.  `::open` returns the lowest free descriptor.

What the program may do is a parameter where the code cannot know it: one thread at a
time is inside each handle object (as for any C++ object).  `SharedWraps` lets two
threads `wrap` one descriptor at a time, and `FailedRemap` lets a mapping that failed be
assigned over.  Both are FALSE in the passing run; `FdRegistryRemap.cfg` sets the
second.  With `SharedWraps = TRUE` in a copy of `FdRegistry.cfg` (under `Spec`) TLC
finds a handle with no registered data: the entry that `wrap` found is counted in
a second critical section, and may be gone by then.

### FdIO, FdIOProofs

One open file: the write queue with its merging, flushWrites, and the calls that drain
it.  A byte of the file is the number of the write that put it there, so that old data
is told from new.  Each `::pwrite`, `::write`, `::pread`, `::read` is a step that
transfers any part of what it was asked for, or fails (`MaxErrors`).  The history
variables `range`, `before`, `done`, `lost` say which writes had returned when a write
or a read began, and which bytes a failing call gave up; `Stale` is read off them.  The
mutex is recursive and an `FdTransaction` keeps it.

Two constants stand for what is the caller's choice, both FALSE in `FdIO.cfg`: `SharedCursor` (another thread may use `seek`, `read` and `write` while one is
in a transaction; TRUE in `FdIOTransaction.cfg`), `CursorOverQueue` (`write` may hit bytes
whose queued write is pending: with TRUE, `ReadsLatest` and `SettledFile` are violated,
as `write` does not drain the queue).

growFileTo may end in `posix_fallocate`, which never cuts, in the `ftruncate` it falls back to, or
in neither (`GrownTo`).  The `ftruncate` goes to a length computed from the look at the end, so
that it shortens a file that another thread's `pwrite` or `write`, which take no mutex, has made
longer in between, and the bytes behind are gone, also those of a write that began after the
mapping was called and has returned.  `GrowthCutsOnlyNewer` says that nothing else is gone: no
byte of a write that had returned before the mapping was called.  What is cut off counts as
given up in `lost`, like the bytes of a failing call.

### BTree

The tree as a function from offsets to nodes.  The code holds the tree's mutex over a
call, so a call is one step; within it node reads and writes are made in the code's
order, because splitChild, borrowFromSibling and mergeChildren go on working with
copies of nodes that they have just rewritten.  `SplitChild` splits a full parent first
(`ParentReady`), exactly as in the code, up to `SplitRoot`.  Only the order of keys
matters to the code, so keys are kept as 2, 4, .. 2 * size and renumbered after a call:
odd numbers are the probes in the gaps.  Places that are no longer reached are reclaimed
(the code leaks them), which keeps the state finite.  A node that getNode would reject
makes `out` "corrupt".

### FreeSpaceFile, FreeSpaceFileProofs

The allocator over that tree, seen from outside: a set of regions ordered by size and
offset.  What is inside the tree's mutex is a step; find and remove are two steps, the
look at the end of the file and `ftruncate` are two, and so are addNode's look and its
`pwrite`, which happen under the tree's mutex but not under one that getFreeRegion
takes.  `Serial` says that the program makes its calls one at a time.

### SmartPointer, SmartPointerProofs

`sp` and `wp` of `include/alloc/pointer.h`.  A handle is an `sp`: a block and a mode.  One
thread at a time is inside a handle, as for any C++ object; a handle that was passed to a
call as const may be read by several (`MayChange`, `MayRead`).  What threads share is the
count of a block, and each load, increment, decrement and exchange of it is a step, as are
the copy of an object and the deletion of a block.  `loc` keeps what a thread has in its
local variables between two steps.

| code | actions |
|---|---|
| constructors, operator=, reset, destructor, getWritableCopy, copy | `Create`, `Copy`, `Move`, `Reset`, `GetWritableCopy`, `DeepCopy`, by way of a temporary (`SwapIn`) |
| release_ref | `Release`, `Delete` |
| mut, detach_if_needed | `Mut`, `MutLoad`, `MutCopy`, `MutDetach`, `MutDestroy`, `MutWrite` |
| wp::lock, SpManaged::ptr | `Ptr`, `Lock`, `Exchange`, `Alias`, `Unlock` |

`lock` is documented as safe only while some `sp` owns the object, and is modelled so:
`ptr()` is called through a handle that is left alone meanwhile.

### SlabAllocator, SlabPointer, StaticAllocator, MemoryManager, AllocatorProofs

`SlabAllocator` has a sequence of chunks, each with a width, the set of its free blocks and
the word a search starts at; every call holds the lock and is one step.  Users
are the history variable: what was given out and not given back.  `SlabPointer` runs on it,
with a step for each operation on a node's count and for each call of the slab.
`MemoryManager` has the modules' counters.  `StaticAllocator` has the chain of pools and the
segments handed out, with the room that must be left for the next pool's object.

### OpenAddressing, HashMap, HashSet, ContainerProofs

`OpenAddressing` holds what the two tables have in common: the probe, iteration in both
directions, and `TableRight`.  `HashMap` and `HashSet` have their own insertion, the repair
of the cluster behind a removed entry, growth, and the copies and moves of whole tables.
The hash function is a constant, so that keys meet where a run wants them to.  The loops are
recursive functions over the number of places they have passed, which `ContainerProofs`
reasons about; `IterationRight` says that an iterator meets each entry once in either direction.

### LinkedList, Queue, ArrayList, ArraySet, StaticPriorityQueue, ShortQueue

Each container with its own representation (nodes with both links, a cursor, an array with
raw slots, a sorted array, an unsorted array with its lowest priority, a short sorted array)
and, beside it, the sequence, set or bag that its calls add up to.  The properties compare
the two, through links in both directions and cursors, and say which slots hold objects.
`ArraySet` has its binary search and the merge of isSubsetOf round by round; `LinkedList` has a
walk along the links where the code has an iterator, and so has `Queue`.

### FrozenBTree, DiskBytestringSearchTree, MCDiskTree

`FrozenBTree` is `build`: levels from the leaves up, the breadth-first order, the offsets
of children and parents computed from counts; the searches are those of `BTree`, on what
was built.  `DiskBytestringSearchTree` is a function from offsets to nodes over regions of
the free space file.  Sizes are bytes, because a node written past the end of its region
falls on its neighbour (`Damaged`).  `insert` has its cases (exact node, new leaf, split
in an edge, split with a leaf), each with the points at which it may be interrupted, and
what is in the file there.  `FindsWhatWasInserted` compares the searches with what the calls
added up to, and `RegionsApart` says that no two regions overlap and none in use was given back.
Both hold in `library`, whose keys split leaves, make a node outgrow its region and move, with its
parent told, and give regions back, but never add a child to a node that a split moved.
`MCDiskTree` has keys that do, and there the tree loses one (see the findings).

### BigInt

Numbers as functions from word indices to words of `W` bits; every operator as the code's
loop over words (carries, borrows, rows of a product, shift and subtract, Newton's steps).
The module goes through pairs of numbers and compares with arithmetic.  Shifts by the whole
word, undefined in C++, are tried both ways.

### N-dimensional arrays

| module | what it models |
|---|---|
| `NDArrayViews` | buffers with counts, arrays that detach before they write, wrapped memory that is never left; views made by broadcast, reshape, permute, transpose, slices; copies and reshapes of owned arrays |
| `NDArrayTypes` | the element type of a result for every pair of types and scalar, and of sums, means, products and unary functions |
| `HalfFloat` | F16 and BF16 conversions bit by bit: rounding to even, subnormals, overflow, NaN |
| `Lanes`, `HalfKernels`, `Scores` | loops over lanes as each processor's build has them: blocks, narrower blocks, tails, and how accumulators are combined |
| `PackedLanes` | arrays of bits and of 3-bit integers: word arithmetic with pad bits, masks, tables, classification, any/all/count, scores |
| `ArgExtremum` | argmin and argmax: bests per lane and their merge, bytes, bits, packed lanes, views along an axis |
| `MatmulStrips`, `MatmulStripsProofs` | ndmRunNStrips: which thread computes which columns, with the mutex, the pool and the ways back to the whole product |
| `MatmulKernels` | the packed panels and tiles of the products, the unsigned-times-signed correction of bytes, packed lanes, matrix times vector, scaled groups |
| `Matmul` | ndmatmul and ndgemvScaled on views: which operands are accepted, the shape of the result, planes copied or used in place; `OperandsSpec` runs it alone |

`MatmulStrips` uses of the pool only what `ThreadPoolAbs` promises (a call begins, each
slot runs once, the call ends), which `ThreadPoolProofs` proves of `ThreadPool`.  Its
threads are clients, tasks on the workers and slots of a body that a client runs, so that
a product may be wanted where parallelFor must not be called.

Arithmetic of kernels is exact in the models; what a float rounds is a matter of
`HalfFloat`.  What the models keep is which lane is combined with which, how often, and
what is left at the end of an array.

### MC modules

`MCFdIO` gives the constants of `FdIO` their values, with symmetry over threads, which is sound
there because every property is an invariant or an action property.  `ThreadPool`,
`FdRegistry` and `BTree` are run as they are, and so are `FreeSpaceFile` and `Matmul` by their
findings.  `Containers` puts the allocators
and the containers in arrays side by side and has the two properties that
the run `library` and the theorems share, `AllocatorsRight` and `ContainersRight`.  `MCLibrary` extends the modules of all other
components.  They share no state, so its variable `part` names the one that moves in a
behaviour, and the state space is the sum of the parts' and not their product.  Two of each
kind of container are interchangeable (`SYMMETRY`).  `MCDiskTree` gives the search tree the
keys of the finding.

## The runs

Passing runs:

| run | instance | what it shows |
|---|---|---|
| `thread_pool` | pools of 0, 1 and 2 workers, two client threads, two tasks, one of which throws, two parallelFor calls, one spurious wakeup | the barrier (`BarrierComplete`), the context's lifetime (`SlotContextAlive`), `ShutdownDrains`, the refinement `ImplementsAbs`; liveness `AcceptedTaskFinishes`, `WaitReturns`, `ShutdownReturns` |
| `fd_registry` | two threads, two handles, one mapping, two descriptors, two files, three addresses | `HandleMeansItsFile`, `RefsExact`, `PointersAlive`, `ClosedOnlyWhenUnused`; liveness `LastDropCloses`, `OpenCompletes` |
| `fd_io` | two threads, three bytes, writes of up to two bytes, three writes in four calls, one failure | `ReadsLatest`, `SettledFile`, `TransactionAtomic`, `MutexHeldByRunner`, `GrowthCutsOnlyNewer` |
| `btree` | nodes of three keys, trees of up to ten keys | `ContentsRight`, `LinksExact`, `BalancedAndFilled`, `LookupsRight`, `AnswersRight` |
| `library` | one part at a time, see below | `CountsExact`, `WritesPrivate` of counted pointers; `AllocatorsRight`, `ContainersRight`, `SequencesRight`, `TreesRight`, `RegionsDisjoint`, `InsideFile`, `NumbersAndTypesRight`, `ArraysRight`, `StripsRight` |

Why the bounds are enough for what is asked.  Two clients are the fewest that can compete
for a parallelFor, or shut the pool down while the other waits; two workers are the
fewest for which the barrier has a middle (one slot counted, one not), and for which
`notify_one` can choose; two epochs are the fewest in which a late worker of one call can
meet the next.  Two files and two descriptors are what reuse of a number needs, and the
second thread is the one that reuses it while the first is closing.  Three bytes and
writes of two are the fewest in which writes overlap in part and merge on either side, and
in which a short transfer leaves something.  With three keys a node, ten keys make
three levels: splits that climb to the root, borrows from either side by leaves and by
inner nodes, merges and the root's collapse all happen.

The parts of `library`:

| part | instance | why it is enough |
|---|---|---|
| `pointer` | two threads, three handles, two blocks | two handles that share a block and a third that can come to share it while `mut` is between its load and its write; a second block for the copy |
| `slab`, `slab pointer` | words of two blocks, at most eight blocks in two chunks; two users, two pointers | a chunk with a partial last word, one with several words, and a full one; a free behind and before the search's start |
| `static`, `manager` | capacities of 3, 5 and 8 bytes, an object of 3, four pools; two modules, three addresses | requests that fit, that just do not, and that need a chain of new pools |
| `map`, `set` | keys that meet at their own places and at the end of the table, tables of up to eight and six places | a cluster that wraps round, a removal in the middle of two clusters that have grown together, a growth that separates them |
| `linked list`, `queue` | two of each, three and two nodes | first, middle and last node; copies and moves onto themselves and each other |
| `array list`, `array set` | at most four slots; subsets of five numbers | growth and shrinking by the portion; every place of the binary search |
| `priority queue`, `short queue` | three places, three priorities | full queues, equal priorities, the lowest removed or raised |
| `frozen tree` | nodes of two to four keys, up to forty items | four levels, a last node at its minimum, every remainder of a group |
| `free space` | two threads that take turns, files of up to twelve bytes, regions of one and three bytes, two new nodes | the root, a second node and several regions fit; a region given back in part and given out again |
| `disk tree` | five keys: a prefix and four below it, in files of up to 2280 bytes; a new node has room for two children and a grown one for one more, half of the code's four and two | every case of insert, each interrupted and not; a node made by a split has its two children written where it is, as in the code, and one more than fit moves it; the region it left is used again |
| `big int` | three words of two bits, all first operands with a list of second ones | a carry through all words, a product of all rows, shifts across words |
| `promotion`, `half` | all pairs of types, scalars around every bound; wide floats of 4 + 5 bits, halves of 3 + 2 | every row of the table; rounding at, below and above the middle, into and out of subnormals |
| `kernels`, `packed`, `extremum` | up to 67 lanes in seven builds; up to ten packed lanes; arrays of up to seven elements, NaN among them | the widest block twice, and each narrower block and tail; dirty bits past the end |
| `views` | two arrays, one view, two buffers, four elements, four calls | sharing, detaching while a view stays, wrapped memory |
| `strips` | pools of none, one and two workers, two clients, five columns aligned to two and four to one | short, empty and even strips; a client that finds the pool busy with the other's body |
| `products`, `product views` | up to five rows, eight columns, depth nine, panels of four rows and four or eight deep, one to three slots; axes of length up to two in five layouts | every tile full and cut, panels begun and ended, batches that are broadcast |

Deadlock.  `thread_pool`, `fd_registry`, `fd_io` and `library` set
`CHECK_DEADLOCK FALSE`, because there the program may rightly stop (a pool shut down,
bounds used up, all inputs gone through).  That nobody is stuck is what the liveness properties and
`MutexHeldByRunner` say.  `btree` has no such states and checks for deadlock.

Fairness.  `ThreadPool!FairSpec` has weak fairness for each worker and for each client
*inside* a call; starting a call is the client's choice.  It says that the operating
system runs every thread that can run and that tasks and loop bodies end.  A thread that
wants the mutex gets it because only finitely many calls take it.  No fairness is assumed
of wakeups: a spurious one may never come.  `FdRegistry!FairSpec` has weak fairness for each
thread inside a call, for the same reason: system calls return.

Two of the pool's liveness properties, `AcceptedTaskFinishes` and `WaitReturns`, are
stated for behaviours in which no parallelFor caller is stranded (see the first finding):
a stranded caller can swallow the `notify_one` of a submit.  `ShutdownReturns` needs no
such premise.

## Findings

Runs in which TLC finds that the code does not do what the repository says of it:

- `thread_pool_barrier`, `ParallelForReturns`: the caller of parallelFor checks `pforDone`
  and waits, under `queueMutex`; the last worker counts and calls `notify_all` without
  it.  When both happen between the check and the wait the notification is lost, and the
  caller sleeps until something else wakes it.
- `fd_remap`, `ClosedOnlyWhenUnused`: a mapping that failed took no reference but keeps the
  pointer, and its move assignment gives up a reference: somebody else's.
- `fd_transaction`, `TransactionAtomic`: `FdHandle::seek` and `write` do not take the mutex
  of a transaction, so they move its cursor.
- `btree_even`, `NeverCorrupt`: for an even `N` a merge makes a node of `N + 1` keys, which
  the tree then reports as corrupt.  Five insertions and one removal suffice for N = 4.
- `free_space_threads`, `NodesIntact`: getFreeRegion and addNode both take the end of the
  file, in two steps, under no common lock.
- `disk_tree`, `FindsWhatWasInserted`: insert's split moves the old node to a region of
  `computeSize()` bytes (DiskBytestringSearchTree.cpp:263-265), 24 for a leaf with nothing left of
  its prefix, and the node goes on with the `nodeMemory` of its old region, 58.  Two children that
  it gets later are written in place (212-214) over the leaf that the split put behind it.  The
  keys 111, 112, 1111 and 1112 suffice, inserted in that order: 112 is not found.  No node with
  children has moved by then and migrateChild was not called.
- `product_batch`, `BatchKeepsItsAxis`: a product with one matrix in the batch is of rank 2
  (ndarray_matmul.cpp:2694), where NDArray.h:357 says that rank 3 gives (B,M,N).  By the same line
  a batch of none gives an M by N matrix of zeros, where NDArray.h:364 says that it is empty.
  `MatmulOfViewsRight` leaves both lengths out.

### Seen while modelling

Places where code and expectation part and that no run of this project shows.  Where a
model would run into one, its inputs stay away from it, or its property excludes it, as
its header says.

- Slab: a partial last word is invisible to the search for a chunk with room and to
  getBytesAllocated; prepare does not round its size as alloc does; when malloc fails,
  getNextChunkForSize takes the lock that its caller holds; getBytesControlled and
  countChunks walk a shared cursor without the lock.
- Memory manager: alloc adds the size rounded up plus a header, free subtracts the recorded
  size, so the counter drifts up; counters and the map of sizes have no lock; cleanup works
  on the global slab.  Static allocator: a capacity below the size of its own object
  overflows at the first spill; exportAndTrim drops what realloc returned.
- HashMap and HashSet: a table that was moved from has capacity zero, and a lookup divides by
  it; `HashSet(0)` corrects the parameter and not the member.
- StaticPriorityQueue: setPriority that raises the lowest item leaves the remembered lowest
  priority as it was.  Queue: the copy
  constructor needs a first node and leaks its copy of it; a queue built from a value has no
  slab; reverse iteration from the end.  ArrayList: a list that was moved from keeps its
  capacity without memory, so that add writes through null; adding a list's own element.
- FdHandle: close marks the data that all copies of a stream share; assigning to a mapping
  does not unmap what it held.
- Disk search tree, besides the finding: the children of a node that a split moves go on naming
  the old place as their parent (258), so that a later move of one of them would tell the wrong
  node; no run has keys enough for that.  When a moved node moves again, markFreeRegion is told
  more than its region; find and remove leak a node.
  Frozen tree: build appends to its output but computes offsets from zero.
- BigInt: adding or multiplying by a negative int is not sign-extended through all words;
  LongKey's `<=` and `>=` are true when the top words are equal and its comparison goes from the
  lowest word; the large-number multiplication never ends; `% 0` and the root of zero; roots
  5 to 8 may be off; `/=` and `%=` do not compile.
- NDArray: logicalAnd, logicalOr and logicalXor with an array change the copies that share
  a BINARY buffer (modelled as `LogicalInPlace`; `ArraysKeepContents` leaves such buffers out);
  argmin and argmax with NaN depend on where it stands; the NEON reduction of F16 combines
  partial products by addition (modelled, left out of the property); 64-bit scores of bytes
  widen a 32-bit sum; countNonzero counts pad bits of wrapped memory that any and all mask;
  a reshaped prefix keeps the memory size of the whole, so that `==` and conversions look
  past the end; wrap accepts rows that do not fill their words; the types chosen for
  int64 scalars and for doubles beyond 2^256.
- ndmatmul: the vector branches of gemvDense are never instantiated.

## The proofs

`ThreadPoolProofs` proves, for every number of workers, every set of clients and tasks and
every bound, from the assumption `PoolAssumption` on the constants alone (the sets of
clients and tasks may be infinite):

| theorem | says |
|---|---|
| `TypeCorrect` | `Spec => []TypeOK`; in particular the count never passes the number of workers |
| `ContextStaysAlive` | `Spec => []SlotContextAlive` |
| `BarrierHolds` | `Spec => []BarrierComplete` |
| `ShutdownLeavesNothing` | `Spec => []ShutdownDrains` |

All four follow from `Invariance`, `Spec => []IInv`.  `TypeOK` and the properties are not
inductive: nothing in them stops an unlocked increment from overshooting, or a worker from
starting the slot of a call that has returned.  The parts of `IInv` are

- `Types`: the types, with `pforDone` in `Nat` only;
- `Holding`: a worker has a task exactly when it runs or announces one, and a worker that
  the constructor did not start never moves;
- `OneCall`: while `pforBusy`, exactly one client is in parallelFor and it is `pforFn`;
  otherwise none is;
- `EpochInv`: a worker is at `pforEpoch` or, during a call only, one behind it, and one that is in
  its slot has the function of the call in progress;
- `CountInv`: `pforDone` *is* the number of workers with `SlotDone`.  This is the fact that
  replaces the missing lock: each worker adds one exactly when it becomes such a worker, so
  a full count means that all are;
- `DrainInv`: once a worker has left, the pool is stopped and the queue is empty, and stays
  so; a shutdown that returned has seen every worker leave.

The module has a lemma for each part, with a step for each action that can disturb it, and
lemmas on cardinalities (adding a worker to the finished ones adds one; a full count is the
whole pool).  What `IInv` says was checked with TLC on the instance of `thread_pool` before.

Its last part proves `Refinement`, `Spec => ImplementsAbs`, from the same assumption: the pool
starts where `ThreadPoolAbs` starts, and each of its steps is a step of it or changes nothing
there (`StepMapped`, a case for each action).  Mapping a step needs `IInv` and two parts more
(`MappingInvariance`, `Spec => []RInv`):

- `Handed`: a task is in one place, at one position of the queue or in one worker's hands,
  so that taking or finishing it removes just that task from `Running`;
- `Closing`: one client shuts the pool down, after it was stopped, and a worker that left had
  seen the last call, so that no slot can be missing when the pool is reported closed.

`FdIOProofs` proves, for any number of threads, bytes, calls, writes and failures
(`FdIOAssumption`; of the bounds it asks that a write may fit in the file, `MaxLen <= Size`):

| theorem | premises on the constants | says |
|---|---|---|
| `TypesHold` | none | `Spec => []TypeOK` |
| `MutexMoves` | none | `Spec => []MutexHeldByRunner` |
| `TransactionsAreAtomic` | `~SharedCursor` | `Spec => []TransactionAtomic` |
| `GrowthSparesReturned` | none | `Spec => GrowthCutsOnlyNewer` |
| `ReadsSeeLatest` | `~SharedCursor`, `~CursorOverQueue` | `Spec => []ReadsLatest` |
| `FileSettles` | the same two | `Spec => []SettledFile` |

The premises are not for convenience: with `SharedCursor` TLC violates `TransactionAtomic` (the run
`fd_transaction`), with `CursorOverQueue` `ReadsLatest` (described under FdIO).

`MutexMoves` and `TransactionsAreAtomic` rest on `MutexInv` (a thread in a transaction or in a step
under the mutex *is* the owner, and the owner is such a thread) and `CursorInv` (without a shared
cursor only transactions use it, and getMmapHandle, in the middle of moving it, still
has the position it must put back).  `TypesHold` needs to know that positions and lengths are
numbers inside the file, also those of writes merged in the queue (`Numbers`, `Bounds`,
`MergedType`, `MergedBounds`).

`GrowthSparesReturned` holds because of `GrowthInv`: behind the end that getMmapHandle has seen there is
nothing that had returned when it was called.  That is so at the look, as nothing is behind the end
(`NothingBehind`), and stays so because the mapping holds the mutex until it has grown the
file: nobody flushes meanwhile, so what comes behind that end is of direct writes in progress,
each with a number that had not returned (`HistoryInv`, `WritersInv`).

`ReadsSeeLatest` and `FileSettles` follow from one invariant, `Layered`.  A write's byte is on its
way to the file in a queued write (`QueuedAfter`) or in a flush that has popped it
(`Flying`); direct writes go straight there.  The parts are

- `CallsInv`, `NothingBehind`: only a flush has bytes in its hands, and behind the end of the file
  there is nothing, so that growing it uncovers nothing;
- `HistoryInv`, `WritersInv`: writes are numbered in the order of their calls, each write in
  progress has a number of its own, and what waits has returned;
- `PlaceInv`: a `write` in a transaction goes on where it stopped;
- `SettleInv`: once a call has drained the queue nothing waits that had returned before the
  call began, although the system call comes after the mutex was released: what others queue
  meanwhile is newer.  `write` does not drain, and is safe only because nothing waits for
  the bytes that it goes over;
- `WrittenInv`: what a write in progress has put in the file is not overwritten by older bytes, but
  for what growFileTo cut off;
- `LayersInv`: for a write that returned, and a byte of it that was not given up, the file has nothing
  older there unless the write itself is still waiting (`Atop`), and whatever older value
  is in flight or queued has the write behind it in the queue.

`SettleInv`, `WrittenInv` and `LayersInv` were checked with TLC on the instance of `fd_io` before
they were proved.  Each step either moves bytes (`Moves`) or leaves all of them where they are
(`Quiet`, `QuietStep`), and is one thread's (`ThreadStep`), so that the lemmas have a case for
each of the nine actions that move bytes.  `MergedHolds` says what merging does to the queue, once
for all of them: what each queued write holds, with the new one's bytes added to the last.

`FdRegistryProofs` proves, for any finite sets of threads, handles and mappings, any number of
descriptors and files and any addresses (`RegistryAssumption`), and with two premises on the
program, `~SharedWraps` and `~FailedRemap`:

| theorem | says |
|---|---|
| `RegistryTypeCorrect` | `Spec => []TypeOK` |
| `HandlesMeanTheirFiles` | `Spec => []HandleMeansItsFile` |
| `RefsStayExact` | `Spec => []RefsExact` |
| `PointersStayAlive` | `Spec => []PointersAlive` |
| `NeverClosedInUse` | `Spec => ClosedOnlyWhenUnused` |

What happens without the premises is under FdRegistry and in the run `fd_remap`.  The argument is
that a descriptor's number has one owner at each moment, and `IInv` says who: nobody has it in
the kernel (`KernelInv`), one thread is making a handle of it (`MakingInv`: nothing is registered
for it, or data that nobody has counted), data is registered for it and is that of the file which
the number names (`RegisteredInv`, `HandleInv`, `MapInv`), or one thread is closing it
(`ClosingInv`: the number is in `closing`, and the file is open until that thread is done).
`Referenced` excludes data that is registered and that nobody will ever count.  `Locals` and
`Apart` say what a thread holds between its steps and that no two threads work on one object.
The counts are as in `SmartPointerProofs`: a step changes one handle, one mapping and one thread,
and moves the count by what these hold of it (`RefsMoved`, `StillExact`), or moves a descriptor
from one handle to another and changes no count (`MovedExact`).  `Holders` turns a count of one
in the hands of the thread that gives it up into the fact that nobody else refers to the data,
which is what allows DecRef to take the number out of the registry.

`SmartPointerProofs` proves, for any finite sets of threads and handles and any set of blocks
(`PointerAssumption`):

| theorem | says |
|---|---|
| `PointerTypeCorrect` | `Spec => []TypeOK` |
| `CountsStayExact` | `Spec => []CountsExact` |
| `WritesStayPrivate` | `Spec => WritesPrivate` |

`CountsExact` is not inductive, because nothing in it says that a thread between two steps
still has in its hands what it counts on.  `IInv` adds `Locals` (what each local variable holds
at each step), `Apart` (no thread works on a handle that another one changes or reads),
`Doomed` (a block whose count is zero has exactly one thread about to delete it) and `Private`
(between `mut`'s load of a count of one and its write the count stays one).  The heart is
`OwnersSum` and `Counted`: a step changes one handle, one temporary and one reference that is
leaving, so the number of owners moves by what these three gain and lose; each action's count
moves by the same amount.  `Had` turns counts back into facts: two holders mean a count of two,
so nobody can join a block whose count is one without being its holder.

`MatmulStripsProofs` proves, for every size of the pool, all clients, and products of any
number of columns and any alignment (`StripsAssumption`):

| theorem | says |
|---|---|
| `StripsTypeCorrect` | `StripsSpec => []StripsTypeOK` |
| `ColumnsComputedOnce` | `StripsSpec => []ColumnsOnce` |
| `NobodyWaitsInACircle` | `StripsSpec => []NoCircle` |
| `StripsAreRight` | `StripsSpec => []StripsRight`, the property of the run `library`: the three together |

The first lemmas are about the division: the rounded strips have room for all columns
(`StripsWide`), every column is in a strip (`StripsCover`) and in one only (`StripsApart`).
`IInv` then says who owns the call of parallelFor and the mutex (`CallOwned`, `MutexOwned`), that
the threads of the pool never wait in a product (`WorkersGoOn`), and that what is written of a
product is exactly the strips of the slots that ran (`Written`).  A circle would need a
thread that waits for the mutex, whose owner waits for a worker, which waits for nothing.

`AllocatorProofs` proves, for words of two blocks or more, any addresses, sizes and bounds
(`SlabAssumption`), for any finite sets of threads and pointers
(`SlabPointerAssumption`), and for any capacities that hold the object of the next pool
(`StaticAssumption`):

| theorem | says |
|---|---|
| `SlabExact` | `SlabSpec => [](SlabTypeOK /\ MasksExact)` |
| `NothingIsHidden` | `SlabSpec => []NothingHidden` |
| `NodesAreExact` | `SlabPointerSpec => [](SlabPointerTypeOK /\ NodesExact)` |
| `SegmentsApart` | `StaticSpec => [](StaticTypeOK /\ SegmentsDisjoint)` |

Together they are `AllocatorsAreRight` (in `ContainerProofs`), `SlabPointerSpec /\ StaticSpec =>
[]AllocatorsRight`, the property of the run `library`.  The byte counts are not part of it.
`SlabInv` says that what callers hold is what some chunk has given out, and of each chunk
(`ChunkSound`) that a free block of whole words is not hidden from the search.  The latter is where
`LastAfter` matters: a search starts at a word that has a free block, or at the first one.

`PointerInv` adds, to the sound slab, what a call holds between its steps (`CallsInv`), that no
two threads work on one pointer (`Separate`), and who owns what.  `Live(n)` are the pointers that
refer to `n`, without those that are being overwritten after their reference was counted out,
whose value may be the address of a node that is gone, or that is somebody else's by now;
`Carrying(n)` are the copies on their way into a pointer.  A count is the number of both
(`CountInv`), what is alive is there (`LiveInv`), a count of zero has one thread that frees the
node (`FreeingInv`), and an object's block has one owner, a node or a call (`OwnersInv`). 
`CopyFrom` is safe because its source is alive, so that the count it raises is not zero. 
`NodeMade` and `BeginsKeeps` say once what the two ways to make a node, and the four ways to begin
a call, have in common.  `PointerInv` was checked with TLC with two threads and three pointers
before.

`StaticInv` says that every pool but the last has the next one's object behind all that it gave
(`Full`), and that the last has room for one (`Open`), which alloc must leave and a new pool must
bring along.  A new pool's capacity is twice the last one's; that a request fits sooner or later,
within the bound that the model looks at, is `SomePoolFits`.  `StaticAssumption` asks of
capacities what the code does not check: a pool of less than its own object's size overflows at
its first spill.

`StayOf`, the loop of destroyUnallocatedChunks, and `Doubled` are recursive functions.  What they do for
every number is shown by induction over sets of numbers (`CountingUp`, from the order of the
numbers being well-founded, `LeastNumber`), because the library's induction theorems take an
operator.  `Recursion` says once that functions with such values exist.

`FreeSpaceFileProofs` proves, for any number of threads, all lengths, sizes of a node,
alignments and bounds (`FreeSpaceAssumption`):

| theorem | premise on the constants | says |
|---|---|---|
| `FreeSpaceTypeCorrect` | none | `SpaceSpec => []SpaceTypeOK` |
| `NoRegionTwice` | `Serial` | `SpaceSpec => []RegionsDisjoint` |
| `NothingCutOff` | `Serial` | `SpaceSpec => []InsideFile` |

The run `free_space_threads` shows what happens without `Serial`.  `IInv` says how far a
call has come: it is the only one (`Alone`); free regions are inside the file, too
(`FreeInside`); and between two of its steps (`CallGoesOn`) the region that it found is still
free, the end of the file that it saw is still the end, and nothing lies where the region is
that it is about to give back.  The arithmetic is in lemmas of its own: an end that is padded
up to an alignment is not before the old end, and what begins there overlaps nothing.

`ContainerProofs` proves, for any keys, values, numbers and hash function, any capacities
and any sets of containers (`MapAssumption`, `SetAssumption`, `ArrayAssumption`,
`NumbersAssumption`, `LinkedListAssumption`, `QueueAssumption`):

| theorem | says |
|---|---|
| `MapsAreRight` | `MapSpec => [](MapTypeOK /\ HashMapRight)` |
| `SetsAreRight` | `SetSpec => [](SetTypeOK /\ HashSetRight)` |
| `ArrayListsAreRight` | `ArraySpec => [](ArrayTypeOK /\ ArrayListRight)` |
| `ArraySetsAreRight` | `ArraySetSpec => [](ArraySetTypeOK /\ ArraySetRight)` |
| `LinkedListsAreRight` | `ListSpec => [](ListTypeOK /\ LinkedListRight)` |
| `QueuesAreRight` | `QueueSpec => [](QueueTypeOK /\ QueueRight)` |
| `ContainersAreRight` | the six together: `[]ContainersRight`, the property of the run `library` |

- Hash tables.  An entry is found when there are only entries between it and its key's own
  place, round the ring of places (`Probed`).  A removal breaks this for entries behind the hole,
  and the loop that repairs it takes each of them out and puts it back.  Its invariant is
  `Closing`: from the place that the loop has come to up to the next hole, what ways are open
  and over which holes the others lead; at the hole nothing is left to repair.  A map always
  has a hole (`GoodTable`).  A set may be full; then the loop goes round to the hole that it
  moves itself, and ends well because one place of a full table, the one taken last, is in
  nobody's way (`Spare`).  `MapInv` and `SetInv` add that the entries are the dictionary's or
  the set's.  Growth and copies put entry after entry into an empty table; iteration is the
  enumeration of the places taken, by rank.
- `ArrayInv` says of each list which slots hold its elements, that the slots behind them are
  raw, and that a list without memory is empty; a move leaves a list that its caller must not add to,
  and the invariant says so instead of excluding it.
- Array sets.  The search keeps what is before its lower end below the query and what is behind its
  upper end above it (`SearchedBetween`), and halves what is between; where it ends, the array splits
  (`Splits`).  The merge of isSubsetOf keeps which elements it has met (`MetTo`).  `ArraySetInv`:
  strictly sorted, and its elements are the set.
- Linked lists.  A list is a path, a sequence of addresses with none twice, each of whose nodes
  points at its neighbours on the path (`Chained`).  An operation splices the path of one list
  and leaves every node of the others as it is (`ListHolds`, `SameNodes`, `OneList`), which
  `ListInv` needs to say, as a new node comes from what the paths together leave free.  The walks
  that clear, copy and compare a list then meet its path (`ListMeets`).
- A queue is such a path on a slab of its own, of which the queue knows both ends (`QueueHolds`); beside
  it the slab may hold the spare node that the copy constructor leaves, and `QueueInv` says that
  it never holds more.  That there is room for both is what `QueueAssumption` and the guard
  of `Enqueue` are for.

`MapInv`, `SetInv`, `ArrayInv`, `ArraySetInv`, `ListInv` and `QueueInv` hold of the instances of
`library` by the same theorems; TLC checks there what they imply.

Only model-checked, and why:

- Liveness: fairness and ENABLED are outside the prover's reach.
- Everything of `BTree`.  Its searches, splits and merges are recursive over the height of a
  tree of nodes that are changed in place; the operators are RECURSIVE, with which the
  prover loses its SMT backend, and a proof would need the theory of such trees first.
- `StaticPriorityQueue`, `ShortQueue` (`SequencesRight`); `FrozenBTree` and
  `DiskBytestringSearchTree` (`TreesRight`).
- `BigInt`, `NDArrayTypes`, `HalfFloat` and the kernels, which compute what is compared with a
  definition over bounded inputs (`NumbersAndTypesRight`, `ArraysRight`).
- The byte counts of slabs and modules (`BytesRight`, `CountersCover`), which compare sums over
  chunks.  The library's theorems about folds take operators as parameters, which the prover
  cannot instantiate; the detour by sets of numbers (`Recursion`) is possible where the
  recursion is a function over numbers, as in `StayOf` and the loops of the containers.

## What is not modelled

- Crashes of the machine and `fdatasync`/`syncfs`; a crash between two node writes of a
  B-tree call, for which the code promises nothing.
- Of FdHandle: the poll loop of sockets, failing reads and `lseek`s, the destructor of the
  process-wide state.
- Of the pool: parallelFor with a function that throws, a destructor that runs on a worker.
  parallelFor called from a worker is what `MatmulStrips` shows to be avoided.  Calls that
  change nothing are not actions.
- Of the B-tree: `insertNonFull` and `scanNode`, which nothing calls.
- Of the allocators: malloc that fails, `realloc`, `exportAndTrim`, `cleanup`, and the counters
  that are read or written without a lock.
- Of the containers: sorting, searching and joining helpers that only read.
- Of the search tree on disk: two threads in one tree.
- Of the big integers: Karatsuba's multiplication, the roots found with doubles, conversions from
  and to doubles, bitwise operators.
- Of the n-dimensional arrays: element-wise arithmetic and reductions of full-width elements,
  reductions along axes, and the transcendental functions of `ndarray_unary.cpp`.  The first two
  repeat, type by type, the loops that `HalfKernels` and `Scores` model; the last are numerics.
- Memory order.  `pforDone`, counts and the tasks' flags are released and acquired, and all
  else that threads share is under a mutex, so that interleavings of steps are what is left.
  SlabPointer's relaxed decrement is the exception and is modelled as if it were ordered.
- Byte strings and utilities, mathematics, hashing, time, logging: values and formatting,
  with no state worth exploring; tests reach what a bounded model would.

## Plan

1. `ThreadPool`, `ThreadPoolAbs` and their proofs: most of the library's concurrency.  Done.
2. `FdRegistry`: shared by all of the file code.  Done, with its proofs.
3. `FdIO`: what a file holds, given that handles mean what they should.  Done, with its
   proofs.
4. `BTree`: the node algorithms, atomic under the tree's lock.  Done.
5. `FreeSpaceFile` over an abstract `BTree`, and its proofs.  Done.
6. `SlabAllocator`, `SlabPointer`, `MemoryManager`, `StaticAllocator`.  Done but for failing
   allocations, with proofs of all but the memory manager.
7. `SmartPointer` and its proofs.  Done.
8. `DiskBytestringSearchTree`, `FrozenBTree`.  Done for one thread.
9. Hash and sequence containers, each against its abstract map, set or sequence.  Done.
10. `MatmulStrips` on what `ThreadPoolAbs` promises, and its proofs.  Done.
11. Big integers, and n-dimensional arrays: storage, types, halves, packed lanes, scores,
    extrema, products.  Open: element-wise operations and reductions of full-width arrays, along
    an axis and over views.

Theorems left: the bounded queues, by lemmas such as those of `ContainerProofs`;
the byte counts of the slab; the B-tree, once its recursion is one over numbers.
