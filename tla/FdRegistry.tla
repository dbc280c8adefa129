------------------------------- MODULE FdRegistry -------------------------------
(***************************************************************************)
(* The reference-counted file handles of src/src/fs/FdHandle.cpp.          *)
(*                                                                         *)
(* An FdHandle holds nothing but a descriptor NUMBER.  What the number     *)
(* means is looked up, under state.mutex, in the process-wide registry     *)
(* state.fileDescriptors, which maps it to a FdHandleData with a reference *)
(* count.  The last handle removes the entry, puts the number in           *)
(* state.closing, and only then - outside the mutex - flushes and closes   *)
(* the descriptor.  From ::close on, the kernel may give the number to     *)
(* another thread's ::open, before the closing thread has finished.        *)
(*                                                                         *)
(* Atomicity.  Each section under state.mutex is one step, each system     *)
(* call is one step, and what is between two of them in the code is a      *)
(* state of its own here.  In particular the number returned by ::open is  *)
(* interned in one critical section and counted in another (internNewFile, *)
(* then FdHandle(int)).                                                    *)
(*                                                                         *)
(* The kernel is external: a descriptor is free (0) or names an open file; *)
(* every open file has a number of its own, so that a reused descriptor is *)
(* told apart from the file it used to name.  ::open returns the lowest    *)
(* free descriptor.                                                        *)
(***************************************************************************)
EXTENDS Integers, FiniteSets

CONSTANTS MaxFd,        \* bound: descriptors are 0 .. MaxFd
          MaxOpens,     \* bound: files opened in a behaviour
          Data,         \* addresses a FdHandleData may be allocated at
          Null,         \* no object: a null pointer, or errorHandle
          Handles,      \* the program's FdHandle objects
          Maps,         \* the program's MmapHandle objects
          Threads,      \* the program's threads
          SharedWraps,  \* may two threads wrap one raw descriptor at a time?
          FailedRemap   \* may a failed mapping be move-assigned over?

ASSUME RegistryAssumption ==
    /\ MaxFd \in Nat
    /\ MaxOpens \in Nat
    /\ Null \notin Data
    /\ Null \notin Handles \cup Maps
    /\ IsFiniteSet(Handles) /\ IsFiniteSet(Maps) /\ IsFiniteSet(Threads)
    /\ Handles \cap Maps = {}
    /\ SharedWraps \in BOOLEAN
    /\ FailedRemap \in BOOLEAN

Fds == 0 .. MaxFd
NoFd == -1
Files == 1 .. MaxOpens
NoFile == 0

VARIABLES
    kernel,    \* the open file each descriptor names, or NoFile
    opens,     \* files opened so far
    raw,       \* descriptors the program holds outside any FdHandle
    registry,  \* state.fileDescriptors
    closing,   \* state.closing
    alive,     \* the FdHandleData objects that exist
    dfd,       \* FdHandleData::fd
    owns,      \* FdHandleData::ownsFd
    refs,      \* FdHandleData::refs
    dfile,     \* history: the file dfd named when the object was made
    hfd,       \* FdHandle::fd
    hfile,     \* history: the file the handle was made for
    mdata,     \* MmapHandle::handleData
    mok,       \* MmapHandle::data is not null
    pc,        \* where each thread is in a call of this module
    arg        \* that call's arguments and local variables

kernelVars == <<kernel, opens, raw>>
dataVars == <<alive, dfd, owns, refs, dfile>>
handleVars == <<hfd, hfile>>
mapVars == <<mdata, mok>>
vars == <<kernelVars, registry, closing, dataVars, handleVars, mapVars, pc, arg>>

Calls == {"idle", "intern", "count", "use", "map", "dec", "destroy", "unclose",
          "moved", "copied", "mapped"}

\* h, src: the handles named by the call; m: its mapping; fd, file, own: the
\* descriptor being wrapped; data: a FdHandleData looked up under the mutex and used
\* after; fresh, ok: the result of mmap; then: where to go when decRef is done.
NoArg == [h |-> Null, src |-> Null, m |-> Null, fd |-> NoFd, file |-> NoFile,
          own |-> FALSE, data |-> Null, fresh |-> Null, ok |-> FALSE, then |-> "idle"]

Args == [h : Handles \cup {Null}, src : Handles \cup {Null}, m : Maps \cup {Null},
         fd : Fds \cup {NoFd}, file : Files \cup {NoFile}, own : BOOLEAN,
         data : Data \cup {Null}, fresh : Data \cup {Null}, ok : BOOLEAN,
         then : {"idle", "moved", "copied", "mapped"}]

TypeOK ==
    /\ kernel \in [Fds -> Files \cup {NoFile}]
    /\ opens \in 0 .. MaxOpens
    /\ raw \subseteq Fds
    /\ registry \in [Fds -> Data \cup {Null}]
    /\ closing \subseteq Fds
    /\ alive \subseteq Data
    /\ dfd \in [Data -> Fds]
    /\ owns \in [Data -> BOOLEAN]
    /\ refs \in [Data -> Nat]
    /\ dfile \in [Data -> Files \cup {NoFile}]
    /\ hfd \in [Handles -> Fds \cup {NoFd}]
    /\ hfile \in [Handles -> Files \cup {NoFile}]
    /\ mdata \in [Maps -> Data \cup {Null}]
    /\ mok \in [Maps -> BOOLEAN]
    /\ pc \in [Threads -> Calls]
    /\ arg \in [Threads -> Args]

Init ==
    /\ kernel = [f \in Fds |-> NoFile]
    /\ opens = 0
    /\ raw = {}
    /\ registry = [f \in Fds |-> Null]
    /\ closing = {}
    /\ alive = {}
    /\ dfd = [d \in Data |-> 0]
    /\ owns = [d \in Data |-> FALSE]
    /\ refs = [d \in Data |-> 0]
    /\ dfile = [d \in Data |-> NoFile]
    /\ hfd = [h \in Handles |-> NoFd]
    /\ hfile = [h \in Handles |-> NoFile]
    /\ mdata = [m \in Maps |-> Null]
    /\ mok = [m \in Maps |-> FALSE]
    /\ pc = [t \in Threads |-> "idle"]
    /\ arg = [t \in Threads |-> NoArg]

----------------------------------------------------------------------------
(* How the program uses the objects: one thread at a time inside each handle or *)
(* mapping object, as for any C++ object.                                       *)

Busy(x) == \E t \in Threads : pc[t] # "idle" /\ x \in {arg[t].h, arg[t].src, arg[t].m}

Empty(h) == hfd[h] = NoFd /\ ~Busy(h)

Held(h) == hfd[h] # NoFd /\ ~Busy(h)

\* Some handle or some call in progress is concerned with descriptor fd.
InUse(fd) ==
    \/ \E h \in Handles : hfd[h] = fd
    \/ \E m \in Maps : mdata[m] # Null /\ dfd[mdata[m]] = fd
    \/ \E t \in Threads : pc[t] # "idle" /\ arg[t].fd = fd
    \/ \E t \in Threads : \E d \in {arg[t].data, arg[t].fresh} \ {Null} : dfd[d] = fd

\* Thread t goes from idle into state p with locals a.
Enter(t, p, a) ==
    /\ pc[t] = "idle"
    /\ pc' = [pc EXCEPT ![t] = p]
    /\ arg' = [arg EXCEPT ![t] = a]

\* Thread t leaves the call.
Leave(t) ==
    /\ pc' = [pc EXCEPT ![t] = "idle"]
    /\ arg' = [arg EXCEPT ![t] = NoArg]

LowestFree(fd) == kernel[fd] = NoFile /\ \A f \in Fds : f < fd => kernel[f] # NoFile

----------------------------------------------------------------------------
(* Making a handle: open, from, wrap *)

\* ::open in FdHandle::open.  When it fails nothing changes: FdHandle(-1).
Open(t, h) ==
    \E fd \in Fds :
        /\ Empty(h)
        /\ opens < MaxOpens
        /\ LowestFree(fd)
        /\ opens' = opens + 1
        /\ kernel' = [kernel EXCEPT ![fd] = opens + 1]
        /\ Enter(t, "intern", [NoArg EXCEPT !.h = h, !.fd = fd, !.file = opens + 1, !.own = TRUE])
        /\ UNCHANGED <<raw, registry, closing, dataVars, handleVars, mapVars>>

\* The program opens a descriptor of its own (socket, pipe, a standard stream).
RawOpen ==
    \E fd \in Fds :
        /\ opens < MaxOpens
        /\ LowestFree(fd)
        /\ opens' = opens + 1
        /\ kernel' = [kernel EXCEPT ![fd] = opens + 1]
        /\ raw' = raw \cup {fd}
        /\ UNCHANGED <<registry, closing, dataVars, handleVars, mapVars, pc, arg>>

\* ... and closes it when no FdHandle uses it any more.
RawClose(fd) ==
    /\ fd \in raw
    /\ ~InUse(fd)
    /\ raw' = raw \ {fd}
    /\ kernel' = [kernel EXCEPT ![fd] = NoFile]
    /\ UNCHANGED <<opens, registry, closing, dataVars, handleVars, mapVars, pc, arg>>

\* FdHandle::from(fd): the handle owns the descriptor from here on.  pipe() does this
\* for each end of a pipe.
From(t, h, fd) ==
    /\ Empty(h)
    /\ fd \in raw
    /\ ~InUse(fd)
    /\ raw' = raw \ {fd}
    /\ Enter(t, "intern", [NoArg EXCEPT !.h = h, !.fd = fd, !.file = kernel[fd], !.own = TRUE])
    /\ UNCHANGED <<kernel, opens, registry, closing, dataVars, handleVars, mapVars>>

\* FdHandle::wrap(fd): the program keeps the descriptor.
Wrap(t, h, fd) ==
    /\ Empty(h)
    /\ fd \in raw
    /\ SharedWraps \/ ~InUse(fd)
    /\ Enter(t, "intern", [NoArg EXCEPT !.h = h, !.fd = fd, !.file = kernel[fd]])
    /\ UNCHANGED <<kernelVars, registry, closing, dataVars, handleVars, mapVars>>

\* internNewFile, internExistingFd: wait until the number is no longer being closed,
\* then make a FdHandleData for it unless it has one.
Intern(t) ==
    LET fd == arg[t].fd IN
    /\ pc[t] = "intern"
    /\ fd \notin closing
    /\ IF registry[fd] = Null
       THEN \E d \in Data \ alive :
              /\ alive' = alive \cup {d}
              /\ dfd' = [dfd EXCEPT ![d] = fd]
              /\ owns' = [owns EXCEPT ![d] = arg[t].own]
              /\ refs' = [refs EXCEPT ![d] = 0]
              /\ dfile' = [dfile EXCEPT ![d] = kernel[fd]]
              /\ registry' = [registry EXCEPT ![fd] = d]
       ELSE UNCHANGED <<registry, dataVars>>
    /\ pc' = [pc EXCEPT ![t] = "count"]
    /\ UNCHANGED <<kernelVars, closing, handleVars, mapVars, arg>>

\* (bug) A handle that is not counted.
NoIncRef(fd) == UNCHANGED refs

\* refs++ of the data that is registered for fd now, if there is any.
IncRefOf(fd) ==
    refs' = IF registry[fd] = Null THEN refs
            ELSE [refs EXCEPT ![registry[fd]] = @ + 1]

\* FdHandle(int fd): count the handle, if the number is registered.
Count(t) ==
    /\ pc[t] = "count"
    /\ IncRefOf(arg[t].fd)
    /\ hfd' = [hfd EXCEPT ![arg[t].h] = arg[t].fd]
    /\ hfile' = [hfile EXCEPT ![arg[t].h] = arg[t].file]
    /\ Leave(t)
    /\ UNCHANGED <<kernelVars, registry, closing, alive, dfd, owns, dfile, mapVars>>

----------------------------------------------------------------------------
(* Copying, moving, using and dropping handles *)

\* FdHandle(const FdHandle&)
Copy(t, g, h) ==
    /\ pc[t] = "idle"
    /\ Held(g)
    /\ Empty(h)
    /\ IncRefOf(hfd[g])
    /\ hfd' = [hfd EXCEPT ![h] = hfd[g]]
    /\ hfile' = [hfile EXCEPT ![h] = hfile[g]]
    /\ UNCHANGED <<kernelVars, registry, closing, alive, dfd, owns, dfile, mapVars, pc, arg>>

\* FdHandle(FdHandle&&)
Move(t, g, h) ==
    /\ pc[t] = "idle"
    /\ Held(g)
    /\ Empty(h)
    /\ hfd' = [hfd EXCEPT ![h] = hfd[g], ![g] = NoFd]
    /\ hfile' = [hfile EXCEPT ![h] = hfile[g], ![g] = NoFile]
    /\ UNCHANGED <<kernelVars, registry, closing, dataVars, mapVars, pc, arg>>

\* read, write, flush, ...: getHandleData looks the number up under the mutex, and the
\* operation works on what it found after the mutex is released.
Use(t, h) ==
    /\ Held(h)
    /\ Enter(t, "use", [NoArg EXCEPT !.h = h, !.fd = hfd[h], !.data = registry[hfd[h]]])
    /\ UNCHANGED <<kernelVars, registry, closing, dataVars, handleVars, mapVars>>

EndUse(t) ==
    /\ pc[t] = "use"
    /\ Leave(t)
    /\ UNCHANGED <<kernelVars, registry, closing, dataVars, handleVars, mapVars>>

\* close() and ~FdHandle: the handle gives its reference up (DecRef does the rest).
Drop(t, h) ==
    /\ Held(h)
    /\ Enter(t, "dec", [NoArg EXCEPT !.h = h, !.fd = hfd[h], !.data = registry[hfd[h]]])
    /\ hfd' = [hfd EXCEPT ![h] = NoFd]
    /\ hfile' = [hfile EXCEPT ![h] = NoFile]
    /\ UNCHANGED <<kernelVars, registry, closing, dataVars, mapVars>>

\* operator=(FdHandle&&) and operator=(const FdHandle&) on a handle that holds
\* something give that up first; then is the rest of the assignment.
Assign(t, g, h, then) ==
    /\ g # h
    /\ Held(g)
    /\ Held(h)
    /\ Enter(t, "dec", [NoArg EXCEPT !.h = h, !.src = g, !.fd = hfd[h],
                                     !.data = registry[hfd[h]], !.then = then])
    /\ hfd' = [hfd EXCEPT ![h] = NoFd]
    /\ hfile' = [hfile EXCEPT ![h] = NoFile]
    /\ UNCHANGED <<kernelVars, registry, closing, dataVars, mapVars>>

\* fd = other.fd; other.fd = -1
AssignMoved(t) ==
    LET g == arg[t].src  h == arg[t].h IN
    /\ pc[t] = "moved"
    /\ hfd' = [hfd EXCEPT ![h] = hfd[g], ![g] = NoFd]
    /\ hfile' = [hfile EXCEPT ![h] = hfile[g], ![g] = NoFile]
    /\ Leave(t)
    /\ UNCHANGED <<kernelVars, registry, closing, dataVars, mapVars>>

\* fd = other.fd; getHandleData(fd).incRef()
AssignCopied(t) ==
    LET g == arg[t].src  h == arg[t].h IN
    /\ pc[t] = "copied"
    /\ hfd' = [hfd EXCEPT ![h] = hfd[g]]
    /\ hfile' = [hfile EXCEPT ![h] = hfile[g]]
    /\ IncRefOf(hfd[g])
    /\ Leave(t)
    /\ UNCHANGED <<kernelVars, registry, closing, alive, dfd, owns, dfile, mapVars>>

----------------------------------------------------------------------------
(* Giving a reference up: FdHandleData::decRef *)

\* (bug) The last reference but one counts as the last.
LastRefEarly(d) == refs[d] - 1 <= 1

\* (bug) No reference counts as the last.
LastRefNever(d) == refs[d] - 1 < 0

\* Is this the last reference to d?
LastRef(d) == refs[d] - 1 <= 0

\* refs--, and if it was the last the number leaves the registry and is closing.
\* decRef on errorHandle (its key is -1) counts its own refs down and returns.
DecRef(t) ==
    LET d == arg[t].data IN
    /\ pc[t] = "dec"
    /\ IF d = Null
       THEN /\ pc' = [pc EXCEPT ![t] = arg[t].then]
            /\ UNCHANGED <<registry, closing, refs>>
       ELSE /\ refs' = [refs EXCEPT ![d] = @ - 1]
            /\ IF LastRef(d)
               THEN /\ pc' = [pc EXCEPT ![t] = "destroy"]
                    /\ registry' = [registry EXCEPT ![dfd[d]] = Null]
                    /\ closing' = closing \cup {dfd[d]}
               ELSE /\ pc' = [pc EXCEPT ![t] = arg[t].then]
                    /\ UNCHANGED <<registry, closing>>
    /\ arg' = IF pc'[t] = "idle" THEN [arg EXCEPT ![t] = NoArg] ELSE arg
    /\ UNCHANGED <<kernelVars, alive, dfd, owns, dfile, handleVars, mapVars>>

\* destroy(): ~FdHandleData flushes, closes the descriptor if it owns it, and the
\* object is gone.
Destroy(t) ==
    LET d == arg[t].data IN
    /\ pc[t] = "destroy"
    /\ kernel' = IF owns[d] THEN [kernel EXCEPT ![dfd[d]] = NoFile] ELSE kernel
    /\ alive' = alive \ {d}
    /\ pc' = [pc EXCEPT ![t] = "unclose"]
    /\ UNCHANGED <<opens, raw, registry, closing, dfd, owns, refs, dfile,
                   handleVars, mapVars, arg>>

\* (bug) The number stays in the closing set.
StillClosing(fd) == closing

\* The closing set without fd.
NoLongerClosing(fd) == closing \ {fd}

\* closing.remove(key); cv.notify_all().  decRef copied the key before the object died
\* (its address may belong to a new object by now).
Unclose(t) ==
    /\ pc[t] = "unclose"
    /\ closing' = NoLongerClosing(arg[t].fd)
    /\ pc' = [pc EXCEPT ![t] = arg[t].then]
    /\ arg' = IF arg[t].then = "idle" THEN [arg EXCEPT ![t] = NoArg] ELSE arg
    /\ UNCHANGED <<kernelVars, registry, dataVars, handleVars, mapVars>>

----------------------------------------------------------------------------
(* Mappings *)

\* m = h.getMmapHandle(...): the file's data is looked up ...
Remap(t, h, m) ==
    /\ Held(h)
    /\ ~Busy(m)
    /\ FailedRemap \/ mdata[m] = Null \/ mok[m]
    /\ Enter(t, "map", [NoArg EXCEPT !.h = h, !.m = m, !.fd = hfd[h],
                                     !.data = registry[hfd[h]]])
    /\ UNCHANGED <<kernelVars, registry, closing, dataVars, handleVars, mapVars>>

\* (bug) No mapping counts.
NeverCounts(d, ok) == FALSE

\* A mapping of d counts if mmap worked; errorHandle counts for nobody.
Counts(d, ok) == ok /\ d # Null

\* ... MmapHandle(handleData, data, end) takes a reference if mmap (and all before
\* it) worked, and keeps the pointer in any case ...
MapMade(t) ==
    LET d == arg[t].data  m == arg[t].m IN
    /\ pc[t] = "map"
    /\ \E ok \in BOOLEAN :
        /\ refs' = IF Counts(d, ok) THEN [refs EXCEPT ![d] = @ + 1] ELSE refs
        /\ arg' = [arg EXCEPT ![t].fresh = d, ![t].ok = ok, ![t].data = mdata[m],
                              ![t].fd = IF mdata[m] = Null THEN NoFd ELSE dfd[mdata[m]],
                              ![t].then = "mapped"]
    /\ pc' = [pc EXCEPT ![t] = IF mdata[m] = Null THEN "mapped" ELSE "dec"]
    /\ mdata' = [mdata EXCEPT ![m] = Null]
    /\ mok' = [mok EXCEPT ![m] = FALSE]
    /\ UNCHANGED <<kernelVars, registry, closing, alive, dfd, owns, dfile, handleVars>>

\* ... and operator=(MmapHandle&&), after decRef of what m held, takes it over.
MapAssigned(t) ==
    /\ pc[t] = "mapped"
    /\ mdata' = [mdata EXCEPT ![arg[t].m] = arg[t].fresh]
    /\ mok' = [mok EXCEPT ![arg[t].m] = arg[t].ok]
    /\ Leave(t)
    /\ UNCHANGED <<kernelVars, registry, closing, dataVars, handleVars>>

\* ~MmapHandle: a mapping gives its reference up; a failed one never had any.
Unmap(t, m) ==
    /\ mdata[m] # Null
    /\ ~Busy(m)
    /\ IF mok[m]
       THEN Enter(t, "dec", [NoArg EXCEPT !.m = m, !.fd = dfd[mdata[m]], !.data = mdata[m]])
       ELSE pc[t] = "idle" /\ UNCHANGED <<pc, arg>>
    /\ mdata' = [mdata EXCEPT ![m] = Null]
    /\ mok' = [mok EXCEPT ![m] = FALSE]
    /\ UNCHANGED <<kernelVars, registry, closing, dataVars, handleVars>>

----------------------------------------------------------------------------

\* What a thread does inside a call.
Step(t) ==
    \/ Intern(t) \/ Count(t)
    \/ EndUse(t)
    \/ DecRef(t) \/ Destroy(t) \/ Unclose(t)
    \/ AssignMoved(t) \/ AssignCopied(t)
    \/ MapMade(t) \/ MapAssigned(t)

\* The calls a thread may start.
Call(t) ==
    \/ \E h \in Handles :
         \/ Open(t, h) \/ Use(t, h) \/ Drop(t, h)
         \/ \E fd \in Fds : From(t, h, fd) \/ Wrap(t, h, fd)
         \/ \E g \in Handles :
              \/ Copy(t, g, h) \/ Move(t, g, h)
              \/ Assign(t, g, h, "moved") \/ Assign(t, g, h, "copied")
         \/ \E m \in Maps : Remap(t, h, m)
    \/ \E m \in Maps : Unmap(t, m)

Next ==
    \/ \E t \in Threads : Step(t) \/ Call(t)
    \/ RawOpen
    \/ \E fd \in Fds : RawClose(fd)

Spec == Init /\ [][Next]_vars

\* A thread inside a call goes on with it.
FairSpec == Spec /\ \A t \in Threads : WF_vars(Step(t))

----------------------------------------------------------------------------
(* Properties *)

\* A handle never means another file: its number is registered, and the registered
\* object and the kernel's descriptor are still the file the handle was made for -
\* whatever was closed and reopened under the same number meanwhile.
HandleMeansItsFile ==
    \A h \in Handles : hfd[h] # NoFd =>
        /\ registry[hfd[h]] # Null
        /\ dfile[registry[hfd[h]]] = hfile[h]
        /\ kernel[hfd[h]] = hfile[h]

\* The references to d: handles of its number, mappings, threads that are about to
\* give one up, and mappings made and not yet assigned.
HandlesOf(d) == {h \in Handles : hfd[h] = dfd[d]}
MapsOf(d) == {m \in Maps : mok[m] /\ mdata[m] = d}
DecsOf(d) == {t \in Threads : pc[t] = "dec" /\ arg[t].data = d}
NewsOf(d) == {t \in Threads : arg[t].fresh = d /\ arg[t].ok}

\* The count of a registered object is the number of references to it.
RefsExact ==
    \A fd \in Fds : registry[fd] # Null =>
        LET d == registry[fd] IN
        /\ d \in alive
        /\ dfd[d] = fd
        /\ refs[d] = Cardinality(HandlesOf(d)) + Cardinality(MapsOf(d))
                      + Cardinality(DecsOf(d)) + Cardinality(NewsOf(d))

\* What a call looked up under the mutex and uses after it still exists, and so does
\* what a mapping points to.
PointersAlive ==
    /\ \A t \in Threads : pc[t] \in {"use", "map", "dec", "destroy"} =>
                             arg[t].data \in alive
    /\ \A t \in Threads : arg[t].ok => arg[t].fresh \in alive
    /\ \A m \in Maps : mok[m] => mdata[m] \in alive

\* "File automatically closes when all references go out of scope" (README.md), and
\* not before: a step that closes a file leaves no handle or mapping of it behind,
\* and no thread inside a call on it.
ClosedOnlyWhenUnused ==
    [][\A fd \in Fds : kernel[fd] # NoFile /\ kernel'[fd] # kernel[fd] =>
          /\ \A h \in Handles : hfile[h] # kernel[fd]
          /\ \A m \in Maps : mok[m] => dfile[mdata[m]] # kernel[fd]
          /\ \A t \in Threads : pc[t] \in {"intern", "count"} => arg[t].file # kernel[fd]
          /\ \A t \in Threads : pc[t] \in {"use", "map", "dec"} =>
                                   dfile[arg[t].data] # kernel[fd]]_vars

\* A file that was handed to a handle and that nothing refers to any more.
Abandoned(f) ==
    /\ \E fd \in Fds \ raw : kernel[fd] = f
    /\ \A h \in Handles : hfile[h] # f
    /\ \A m \in Maps : mok[m] => dfile[mdata[m]] # f
    /\ \A t \in Threads : /\ arg[t].file # f
                           /\ arg[t].ok => dfile[arg[t].fresh] # f

\* ... is eventually closed by the thread that gave the last reference up.
LastDropCloses == \A f \in Files : Abandoned(f) ~> ~Abandoned(f)

\* A thread that waits for its number to leave the closing set gets its handle.
OpenCompletes == \A t \in Threads : pc[t] = "intern" ~> pc[t] = "idle"
=============================================================================
