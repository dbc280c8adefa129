---------------------------- MODULE FdRegistryProofs ----------------------------
(***************************************************************************)
(* What the registry of FdHandle.cpp keeps, for every number of threads,   *)
(* handles, mappings, descriptors and files.                               *)
(*                                                                         *)
(* Two things are the program's: it does not wrap a descriptor twice at a  *)
(* time, and it does not assign over a mapping that failed (~SharedWraps,  *)
(* ~FailedRemap).  What happens otherwise is in the README.                *)
(***************************************************************************)
EXTENDS FdRegistry, FiniteSetTheorems, TLAPS

(***************************************************************************)
(* The invariant                                                           *)
(***************************************************************************)

\* What a thread's local variables hold in each part of a call, and how the objects that it
\* works on are meanwhile
LocalsOf(t) ==
    LET a == arg[t] IN
    /\ pc[t] = "idle" => a = NoArg
    /\ pc[t] \in {"intern", "count"} =>
          /\ a.h \in Handles /\ hfd[a.h] = NoFd /\ a.src = Null /\ a.m = Null
          /\ a.fd \in Fds /\ a.file # NoFile /\ a.data = Null /\ a.then = "idle"
    /\ pc[t] \in {"use", "map"} =>
          /\ a.h \in Handles /\ hfd[a.h] = a.fd /\ a.src = Null
          /\ a.fd \in Fds /\ a.data = registry[a.fd] /\ a.then = "idle"
    /\ pc[t] = "map" => a.m \in Maps /\ (mdata[a.m] = Null \/ mok[a.m])
    /\ pc[t] \in {"dec", "destroy", "unclose"} => a.fd \in Fds /\ a.data \in Data
    /\ pc[t] = "dec" => registry[a.fd] = a.data
    /\ pc[t] \in {"moved", "copied", "mapped"} => a.then = pc[t]
    /\ a.then \in {"moved", "copied"} =>
          /\ pc[t] \in {"dec", "destroy", "unclose", a.then}
          /\ a.h \in Handles /\ a.src \in Handles /\ a.h # a.src
          /\ hfd[a.h] = NoFd /\ hfd[a.src] # NoFd
    /\ a.then = "mapped" =>
          /\ pc[t] \in {"dec", "destroy", "unclose", "mapped"}
          /\ a.m \in Maps /\ mok[a.m] = FALSE
    /\ a.fresh # Null \/ a.ok => a.then = "mapped"

Locals == \A t \in Threads : LocalsOf(t)

\* One thread at a time works on an object.
Objects(t) == {arg[t].h, arg[t].src, arg[t].m} \ {Null}
Apart == \A t, u \in Threads : t # u => Objects(t) \cap Objects(u) = {}

\* A file is open under one descriptor, and what the program holds is open.
KernelInv ==
    /\ \A f \in Fds : kernel[f] \in 0 .. opens
    /\ \A f, g \in Fds : kernel[f] = kernel[g] /\ kernel[f] # NoFile => f = g
    /\ \A f \in raw : kernel[f] # NoFile

\* The data registered for fd is that of the file which fd names.
RegisteredInv ==
    \A fd \in Fds : registry[fd] # Null =>
        LET d == registry[fd] IN
        /\ d \in alive /\ dfd[d] = fd /\ fd \notin closing
        /\ dfile[d] = kernel[fd] /\ kernel[fd] # NoFile
        /\ owns[d] <=> fd \notin raw

HandleInv ==
    \A h \in Handles :
        /\ hfd[h] # NoFd => registry[hfd[h]] # Null /\ hfile[h] = kernel[hfd[h]]
        /\ hfd[h] = NoFd => hfile[h] = NoFile

\* What a mapping counts on is registered, also while it is being made.
MapInv ==
    /\ \A m \in Maps : mok[m] => mdata[m] # Null /\ registry[dfd[mdata[m]]] = mdata[m]
    /\ \A t \in Threads : arg[t].ok =>
          arg[t].fresh # Null /\ registry[dfd[arg[t].fresh]] = arg[t].fresh

\* A thread that makes a handle is the first and only one that is concerned with its
\* descriptor: nothing is registered for it, or something that nobody has counted.
MakingInv ==
    \A t \in Threads : pc[t] \in {"intern", "count"} =>
        /\ kernel[arg[t].fd] = arg[t].file
        /\ arg[t].own <=> arg[t].fd \notin raw
        /\ \A u \in Threads \ {t} :
              pc[u] \in {"intern", "count", "destroy"} => arg[u].fd # arg[t].fd
        /\ pc[t] = "intern" => registry[arg[t].fd] = Null
        /\ pc[t] = "count" => /\ registry[arg[t].fd] # Null
                              /\ refs[registry[arg[t].fd]] = 0

\* What a thread is closing, no other thread closes, and the file is still open until it is
\* destroyed.
ClosingInv ==
    \A t \in Threads :
        /\ pc[t] \in {"destroy", "unclose"} =>
              /\ arg[t].fd \in closing
              /\ \A u \in Threads \ {t} :
                    pc[u] \in {"destroy", "unclose"} => arg[u].fd # arg[t].fd
        /\ pc[t] = "destroy" =>
              LET d == arg[t].data IN
              /\ d \in alive /\ dfd[d] = arg[t].fd
              /\ dfile[d] = kernel[arg[t].fd] /\ kernel[arg[t].fd] # NoFile
              /\ owns[d] <=> arg[t].fd \notin raw

\* What is registered is referred to, or is about to be.
Referenced ==
    \A fd \in Fds : registry[fd] # Null =>
        refs[registry[fd]] > 0 \/ \E t \in Threads : pc[t] = "count" /\ arg[t].fd = fd

IInv == /\ TypeOK /\ Locals /\ Apart /\ KernelInv /\ RegisteredInv /\ HandleInv /\ MapInv
        /\ MakingInv /\ ClosingInv /\ Referenced /\ RefsExact

-----------------------------------------------------------------------------
(* References *)

Refs(d) == Cardinality(HandlesOf(d)) + Cardinality(MapsOf(d))
             + Cardinality(DecsOf(d)) + Cardinality(NewsOf(d))

\* What one handle, mapping or thread adds to them
One(condition) == IF condition THEN 1 ELSE 0
OnHandle(h, d) == One(h \in HandlesOf(d))
OnMap(m, d) == One(m \in MapsOf(d))
OnDec(t, d) == One(t \in DecsOf(d))
OnNew(t, d) == One(t \in NewsOf(d))

\* What h, m and t hold of d, the data that is registered for descriptor fd
Share(h, m, t, fd, d) ==
    One(h \in Handles /\ hfd[h] = fd)
      + One(m \in Maps /\ mok[m] /\ mdata[m] = d)
      + One(t \in Threads /\ pc[t] = "dec" /\ arg[t].data = d)
      + One(t \in Threads /\ arg[t].fresh = d /\ arg[t].ok)

\* Two sets that differ in x only
LEMMA DifferInOne ==
    ASSUME NEW S, IsFiniteSet(S), NEW A \in SUBSET S, NEW B \in SUBSET S, NEW x,
           \A y \in S \ {x} : y \in A <=> y \in B
    PROVE  /\ Cardinality(A) \in Nat /\ Cardinality(B) \in Nat
           /\ Cardinality(B) = Cardinality(A) + One(x \in B) - One(x \in A)
  <1>1. IsFiniteSet(A) /\ IsFiniteSet(B)
    BY FS_Subset
  <1>2. Cardinality(A) \in Nat /\ Cardinality(B) \in Nat
    BY <1>1, FS_CardinalityType
  <1>3. CASE x \in A /\ x \notin B
    <2>1. B = A \ {x}
      BY <1>3
    <2>2. QED
      BY <1>1, <1>2, <1>3, <2>1, FS_RemoveElement DEF One
  <1>4. CASE x \notin A /\ x \in B
    <2>1. B = A \cup {x}
      BY <1>4
    <2>2. QED
      BY <1>1, <1>2, <1>4, <2>1, FS_AddElement DEF One
  <1>5. CASE x \in A <=> x \in B
    <2>1. A = B
      BY <1>5
    <2>2. QED
      BY <1>2, <1>5, <2>1 DEF One
  <1>6. QED
    BY <1>3, <1>4, <1>5

\* A set with x in it has at least one element, and if it has no more, no other.
LEMMA AtLeastOne ==
    ASSUME NEW S, IsFiniteSet(S), NEW A \in SUBSET S
    PROVE  /\ Cardinality(A) \in Nat
           /\ A # {} => Cardinality(A) > 0
           /\ Cardinality(A) = 1 => \A x, y \in A : x = y
  <1>1. IsFiniteSet(A)
    BY FS_Subset
  <1>2. Cardinality(A) \in Nat
    BY <1>1, FS_CardinalityType
  <1>3. A # {} => Cardinality(A) > 0
    BY <1>1, <1>2, FS_EmptySet
  <1>4. ASSUME NEW x \in A, NEW y \in A, x # y
        PROVE  Cardinality(A) > 1
    <2>1. IsFiniteSet(A \ {x}) /\ Cardinality(A \ {x}) = Cardinality(A) - 1
      BY <1>1, FS_RemoveElement
    <2>2. y \in A \ {x}
      BY <1>4
    <2>3. Cardinality(A \ {x}) # 0 /\ Cardinality(A \ {x}) \in Nat
      BY <2>1, <2>2, FS_EmptySet, FS_CardinalityType
    <2>4. QED
      BY <1>2, <2>1, <2>3
  <1>5. QED
    BY <1>2, <1>3, <1>4

\* What d is referred to by, read off the number
LEMMA Holders ==
    ASSUME NEW d
    PROVE  /\ Refs(d) \in Nat
           /\ \A h \in Handles : hfd[h] = dfd[d] => Refs(d) > 0
           /\ \A m \in Maps : mok[m] /\ mdata[m] = d => Refs(d) > 0
           /\ \A t \in Threads : arg[t].fresh = d /\ arg[t].ok => Refs(d) > 0
           /\ \A t \in Threads : pc[t] = "dec" /\ arg[t].data = d =>
                 /\ Refs(d) > 0
                 /\ Refs(d) <= 1 =>
                       /\ \A h \in Handles : hfd[h] # dfd[d]
                       /\ \A m \in Maps : ~(mok[m] /\ mdata[m] = d)
                       /\ \A u \in Threads : ~(arg[u].fresh = d /\ arg[u].ok)
                       /\ \A u \in Threads \ {t} : ~(pc[u] = "dec" /\ arg[u].data = d)
  <1> DEFINE H == HandlesOf(d)
             M == MapsOf(d)
             D == DecsOf(d)
             N == NewsOf(d)
  <1>1. /\ H \in SUBSET Handles /\ M \in SUBSET Maps
        /\ D \in SUBSET Threads /\ N \in SUBSET Threads
    BY DEF HandlesOf, MapsOf, DecsOf, NewsOf
  <1>2. /\ \A h \in Handles : h \in H <=> hfd[h] = dfd[d]
        /\ \A m \in Maps : m \in M <=> mok[m] /\ mdata[m] = d
        /\ \A t \in Threads : t \in D <=> pc[t] = "dec" /\ arg[t].data = d
        /\ \A t \in Threads : t \in N <=> arg[t].fresh = d /\ arg[t].ok
    BY DEF HandlesOf, MapsOf, DecsOf, NewsOf
  <1> HIDE DEF H, M, D, N
  <1>3. /\ Cardinality(H) \in Nat /\ (H # {} => Cardinality(H) > 0)
        /\ Cardinality(M) \in Nat /\ (M # {} => Cardinality(M) > 0)
        /\ Cardinality(D) \in Nat /\ (D # {} => Cardinality(D) > 0)
        /\ Cardinality(N) \in Nat /\ (N # {} => Cardinality(N) > 0)
        /\ Cardinality(D) = 1 => \A t, u \in D : t = u
    BY <1>1, AtLeastOne, RegistryAssumption
  <1>4. Refs(d) = Cardinality(H) + Cardinality(M) + Cardinality(D) + Cardinality(N)
    BY DEF Refs, H, M, D, N
  <1>5. /\ Refs(d) \in Nat
        /\ H # {} \/ M # {} \/ D # {} \/ N # {} => Refs(d) > 0
        /\ Refs(d) <= 1 /\ D # {} => H = {} /\ M = {} /\ N = {} /\ \A t, u \in D : t = u
    <2>1. Refs(d) \in Nat /\ (H # {} \/ M # {} \/ D # {} \/ N # {} => Refs(d) > 0)
      BY <1>3, <1>4
    <2>2. Refs(d) <= 1 /\ D # {} => H = {} /\ M = {} /\ N = {} /\ Cardinality(D) = 1
      <3>1. SUFFICES ASSUME Refs(d) <= 1, D # {}
                     PROVE  H = {} /\ M = {} /\ N = {} /\ Cardinality(D) = 1
        OBVIOUS
      <3>2. Cardinality(D) \in Nat /\ Cardinality(D) > 0
        BY <1>3, <3>1
      <3>3. ~(Cardinality(H) > 0) /\ ~(Cardinality(M) > 0) /\ ~(Cardinality(N) > 0)
            /\ Cardinality(D) = 1
        <4>1. /\ Cardinality(H) \in Nat /\ Cardinality(M) \in Nat
              /\ Cardinality(D) \in Nat /\ Cardinality(N) \in Nat
          BY <1>3
        <4>2. Cardinality(H) + Cardinality(M) + Cardinality(D) + Cardinality(N) <= 1
          BY <1>4, <3>1
        <4>3. QED
          BY <4>1, <3>2, <4>2
      <3>4. QED
        BY <1>3, <3>3
    <2>3. QED
      BY <1>3, <2>1, <2>2
  <1>6. QED
    BY <1>2, <1>5

\* How a step changes the number of references to d that changes at most one handle, one
\* mapping and one thread
LEMMA RefsMoved ==
    ASSUME NEW d, dfd'[d] = dfd[d], NEW h, NEW m, NEW t,
           \A g \in Handles \ {h} : hfd'[g] = hfd[g],
           \A n \in Maps \ {m} : mok'[n] = mok[n] /\ mdata'[n] = mdata[n],
           \A u \in Threads \ {t} : pc'[u] = pc[u] /\ arg'[u] = arg[u]
    PROVE  Refs(d)' = Refs(d) + OnHandle(h, d)' - OnHandle(h, d) + OnMap(m, d)' - OnMap(m, d)
                       + OnDec(t, d)' - OnDec(t, d) + OnNew(t, d)' - OnNew(t, d)
  <1>1. /\ HandlesOf(d) \in SUBSET Handles /\ HandlesOf(d)' \in SUBSET Handles
        /\ MapsOf(d) \in SUBSET Maps /\ MapsOf(d)' \in SUBSET Maps
        /\ DecsOf(d) \in SUBSET Threads /\ DecsOf(d)' \in SUBSET Threads
        /\ NewsOf(d) \in SUBSET Threads /\ NewsOf(d)' \in SUBSET Threads
    BY DEF HandlesOf, MapsOf, DecsOf, NewsOf
  <1>2. \A g \in Handles \ {h} : g \in HandlesOf(d) <=> g \in HandlesOf(d)'
    BY DEF HandlesOf
  <1>3. \A n \in Maps \ {m} : n \in MapsOf(d) <=> n \in MapsOf(d)'
    BY DEF MapsOf
  <1>4. \A u \in Threads \ {t} : u \in DecsOf(d) <=> u \in DecsOf(d)'
    BY DEF DecsOf
  <1>5. \A u \in Threads \ {t} : u \in NewsOf(d) <=> u \in NewsOf(d)'
    BY DEF NewsOf
  <1>6. /\ Cardinality(HandlesOf(d)) \in Nat /\ Cardinality(HandlesOf(d)') \in Nat
        /\ Cardinality(HandlesOf(d)') = Cardinality(HandlesOf(d)) + OnHandle(h, d)' - OnHandle(h, d)
    BY <1>1, <1>2, DifferInOne, RegistryAssumption DEF OnHandle, One
  <1>7. /\ Cardinality(MapsOf(d)) \in Nat /\ Cardinality(MapsOf(d)') \in Nat
        /\ Cardinality(MapsOf(d)') = Cardinality(MapsOf(d)) + OnMap(m, d)' - OnMap(m, d)
    BY <1>1, <1>3, DifferInOne, RegistryAssumption DEF OnMap, One
  <1>8. /\ Cardinality(DecsOf(d)) \in Nat /\ Cardinality(DecsOf(d)') \in Nat
        /\ Cardinality(DecsOf(d)') = Cardinality(DecsOf(d)) + OnDec(t, d)' - OnDec(t, d)
    BY <1>1, <1>4, DifferInOne, RegistryAssumption DEF OnDec, One
  <1>9. /\ Cardinality(NewsOf(d)) \in Nat /\ Cardinality(NewsOf(d)') \in Nat
        /\ Cardinality(NewsOf(d)') = Cardinality(NewsOf(d)) + OnNew(t, d)' - OnNew(t, d)
    BY <1>1, <1>5, DifferInOne, RegistryAssumption DEF OnNew, One
  <1>10. \A c : One(c) \in {0, 1}
    BY DEF One
  <1>11. QED
    BY <1>6, <1>7, <1>8, <1>9, <1>10 DEF Refs, OnHandle, OnMap, OnDec, OnNew

-----------------------------------------------------------------------------
(* What the invariant says *)

\* Numbers and descriptors
LEMMA Descriptors == NoFd \notin Fds /\ NoFile \notin Files /\ \A fd \in Fds : fd \in Nat
  BY RegistryAssumption DEF NoFd, Fds, NoFile, Files

\* What is referred to is registered, and counted, and nobody is making it.
LEMMA Counted ==
    ASSUME IInv
    PROVE  /\ \A fd \in Fds : registry[fd] # Null =>
                 /\ registry[fd] \in Data /\ dfd[registry[fd]] = fd
                 /\ refs[registry[fd]] = Refs(registry[fd])
           /\ \A h \in Handles : hfd[h] # NoFd =>
                 hfd[h] \in Fds /\ registry[hfd[h]] # Null /\ refs[registry[hfd[h]]] > 0
           /\ \A m \in Maps : mok[m] =>
                 /\ mdata[m] \in Data /\ dfd[mdata[m]] \in Fds
                 /\ registry[dfd[mdata[m]]] = mdata[m] /\ refs[mdata[m]] > 0
           /\ \A t \in Threads : arg[t].ok =>
                 /\ arg[t].fresh \in Data /\ dfd[arg[t].fresh] \in Fds
                 /\ registry[dfd[arg[t].fresh]] = arg[t].fresh /\ refs[arg[t].fresh] > 0
           /\ \A t \in Threads : pc[t] = "dec" =>
                 /\ arg[t].data \in Data /\ arg[t].fd \in Fds /\ dfd[arg[t].data] = arg[t].fd
                 /\ registry[arg[t].fd] = arg[t].data /\ refs[arg[t].data] > 0
           /\ \A t \in Threads : pc[t] \in {"intern", "count"} =>
                 registry[arg[t].fd] = Null \/ refs[registry[arg[t].fd]] = 0
  <1> USE DEF IInv
  <1>1. \A fd \in Fds : registry[fd] # Null =>
            /\ registry[fd] \in Data /\ dfd[registry[fd]] = fd
            /\ refs[registry[fd]] = Refs(registry[fd])
    BY DEF TypeOK, RefsExact, Refs
  <1>2. ASSUME NEW h \in Handles, hfd[h] # NoFd
        PROVE  hfd[h] \in Fds /\ registry[hfd[h]] # Null /\ refs[registry[hfd[h]]] > 0
    <2>1. hfd[h] \in Fds /\ registry[hfd[h]] # Null
      BY <1>2 DEF TypeOK, HandleInv
    <2>2. QED
      BY <1>1, <2>1, Holders
  <1>3. ASSUME NEW m \in Maps, mok[m]
        PROVE  /\ mdata[m] \in Data /\ dfd[mdata[m]] \in Fds
               /\ registry[dfd[mdata[m]]] = mdata[m] /\ refs[mdata[m]] > 0
    <2>1. /\ mdata[m] \in Data /\ dfd[mdata[m]] \in Fds
          /\ registry[dfd[mdata[m]]] = mdata[m] /\ mdata[m] # Null
      BY <1>3 DEF TypeOK, MapInv
    <2>2. Refs(mdata[m]) > 0
      BY <1>3, Holders
    <2>3. QED
      BY <1>1, <2>1, <2>2
  <1>4. ASSUME NEW t \in Threads, arg[t].ok
        PROVE  /\ arg[t].fresh \in Data /\ dfd[arg[t].fresh] \in Fds
               /\ registry[dfd[arg[t].fresh]] = arg[t].fresh /\ refs[arg[t].fresh] > 0
    <2>1. /\ arg[t].fresh \in Data /\ dfd[arg[t].fresh] \in Fds
          /\ registry[dfd[arg[t].fresh]] = arg[t].fresh /\ arg[t].fresh # Null
      BY <1>4 DEF TypeOK, Args, MapInv
    <2>2. Refs(arg[t].fresh) > 0
      BY <1>4, Holders
    <2>3. QED
      BY <1>1, <2>1, <2>2
  <1>5. ASSUME NEW t \in Threads, pc[t] = "dec"
        PROVE  /\ arg[t].data \in Data /\ arg[t].fd \in Fds /\ dfd[arg[t].data] = arg[t].fd
               /\ registry[arg[t].fd] = arg[t].data /\ refs[arg[t].data] > 0
    <2>1. arg[t].data \in Data /\ arg[t].fd \in Fds /\ registry[arg[t].fd] = arg[t].data
      BY <1>5 DEF Locals, LocalsOf
    <2>2. arg[t].data # Null
      BY <2>1, RegistryAssumption
    <2>3. Refs(arg[t].data) > 0
      BY <1>5, Holders
    <2>4. QED
      BY <1>1, <2>1, <2>2, <2>3
  <1>6. \A t \in Threads : pc[t] \in {"intern", "count"} =>
            registry[arg[t].fd] = Null \/ refs[registry[arg[t].fd]] = 0
    BY DEF MakingInv
  <1>7. QED
    BY <1>1, <1>2, <1>3, <1>4, <1>5, <1>6

\* Nothing is registered for a descriptor that nobody is concerned with.
LEMMA NotInUse ==
    ASSUME IInv, NEW fd \in Fds, ~InUse(fd)
    PROVE  /\ registry[fd] = Null
           /\ \A h \in Handles : hfd[h] # fd
           /\ \A t \in Threads : pc[t] # "idle" => arg[t].fd # fd
           /\ \A t \in Threads :
                 pc[t] \in {"intern", "count", "destroy"} => arg[t].fd \in Fds \ {fd}
  <1> USE DEF IInv
  <1>0. \A t \in Threads : pc[t] \in {"intern", "count", "destroy"} => arg[t].fd \in Fds
    BY DEF Locals, LocalsOf
  <1>1. /\ \A h \in Handles : hfd[h] # fd
        /\ \A m \in Maps : mdata[m] # Null => dfd[mdata[m]] # fd
        /\ \A t \in Threads : pc[t] # "idle" => arg[t].fd # fd
        /\ \A t \in Threads : \A d \in {arg[t].data, arg[t].fresh} \ {Null} : dfd[d] # fd
    BY DEF InUse
  <1>2. SUFFICES ASSUME registry[fd] # Null
                 PROVE  FALSE
    BY <1>0, <1>1
  <1> DEFINE d == registry[fd]
  <1>3. d \in Data /\ dfd[d] = fd /\ d # Null /\ refs[d] = Refs(d)
    BY <1>2, Counted
  <1>4. refs[d] > 0
    BY <1>1, <1>2 DEF Referenced
  <1> HIDE DEF d
  <1>5. HandlesOf(d) = {} /\ MapsOf(d) = {}
    BY <1>1, <1>3 DEF HandlesOf, MapsOf
  <1>6. DecsOf(d) = {} /\ NewsOf(d) = {}
    BY <1>1, <1>3 DEF DecsOf, NewsOf
  <1>7. Refs(d) = 0
    BY <1>5, <1>6, FS_EmptySet DEF Refs
  <1>8. QED
    BY <1>3, <1>4, <1>7

\* ... nor for one that the kernel has free.
LEMMA NotOpen ==
    ASSUME IInv, NEW fd \in Fds, kernel[fd] = NoFile
    PROVE  /\ registry[fd] = Null /\ fd \notin raw
           /\ \A h \in Handles : hfd[h] # fd
           /\ \A t \in Threads :
                 pc[t] \in {"intern", "count", "destroy"} => arg[t].fd \in Fds \ {fd}
  <1> USE DEF IInv
  <1>1. registry[fd] = Null /\ fd \notin raw
    BY DEF RegisteredInv, KernelInv
  <1>2. \A h \in Handles : hfd[h] # fd
    BY <1>1, Descriptors DEF HandleInv
  <1>3. \A t \in Threads : pc[t] \in {"intern", "count"} =>
            arg[t].fd \in Fds /\ arg[t].file # NoFile
    BY DEF Locals, LocalsOf
  <1>4. \A t \in Threads : pc[t] \in {"intern", "count"} => arg[t].fd # fd
    BY <1>3 DEF MakingInv
  <1>5. \A t \in Threads : pc[t] = "destroy" => arg[t].fd \in Fds \ {fd}
    BY DEF Locals, LocalsOf, ClosingInv
  <1>6. QED
    BY <1>1, <1>2, <1>3, <1>4, <1>5

\* No thread works on an object that is not busy ...
LEMMA NotBusy ==
    ASSUME Locals, NEW x, x # Null, ~Busy(x)
    PROVE  \A u \in Threads : arg[u].h # x /\ arg[u].src # x /\ arg[u].m # x
  <1>1. \A u \in Threads : pc[u] # "idle" => arg[u].h # x /\ arg[u].src # x /\ arg[u].m # x
    BY DEF Busy
  <1>2. \A u \in Threads : pc[u] = "idle" =>
            arg[u].h = Null /\ arg[u].src = Null /\ arg[u].m = Null
    BY DEF Locals, LocalsOf, NoArg
  <1>3. QED
    BY <1>1, <1>2

\* ... and no other thread on one that t works on.
LEMMA Mine ==
    ASSUME Apart, NEW t \in Threads, NEW x \in Objects(t)
    PROVE  \A u \in Threads \ {t} : arg[u].h # x /\ arg[u].src # x /\ arg[u].m # x
  BY DEF Apart, Objects

LEMMA ObjectTypes ==
    /\ \A h \in Handles : h # Null /\ h \notin Maps
    /\ \A m \in Maps : m # Null /\ m \notin Handles
  BY RegistryAssumption

\* A step that registers nothing new and that changes at most one handle, one mapping and one
\* thread keeps the counts exact if it adds to the count what these add to the references.
LEMMA StillExact ==
    ASSUME IInv, RegisteredInv', UNCHANGED dfd, NEW h, NEW m, NEW t,
           \A g \in Handles \ {h} : hfd'[g] = hfd[g],
           \A n \in Maps \ {m} : mok'[n] = mok[n] /\ mdata'[n] = mdata[n],
           \A u \in Threads \ {t} : pc'[u] = pc[u] /\ arg'[u] = arg[u],
           \A fd \in Fds : registry'[fd] # Null => registry'[fd] = registry[fd],
           \A fd \in Fds : \A d \in Data : registry[fd] = d /\ registry'[fd] = d =>
               refs'[d] = refs[d] + Share(h, m, t, fd, d)' - Share(h, m, t, fd, d)
    PROVE  RefsExact'
  <1>1. ASSUME NEW fd \in Fds, NEW d, registry'[fd] = d, d # Null
        PROVE  d \in alive' /\ dfd'[d] = fd /\ refs'[d] = Refs(d)'
    <2>1. registry[fd] = d /\ d \in Data /\ dfd[d] = fd /\ refs[d] = Refs(d) /\ Refs(d) \in Nat
      BY <1>1, Counted, Holders
    <2>2. d \in alive' /\ dfd'[d] = fd
      BY <1>1 DEF RegisteredInv
    <2>3. Refs(d)' = Refs(d) + OnHandle(h, d)' - OnHandle(h, d) + OnMap(m, d)' - OnMap(m, d)
                       + OnDec(t, d)' - OnDec(t, d) + OnNew(t, d)' - OnNew(t, d)
      BY RefsMoved
    <2>4. /\ Share(h, m, t, fd, d)' = OnHandle(h, d)' + OnMap(m, d)' + OnDec(t, d)' + OnNew(t, d)'
          /\ Share(h, m, t, fd, d) = OnHandle(h, d) + OnMap(m, d) + OnDec(t, d) + OnNew(t, d)
      BY <2>1, <2>2 DEF Share, OnHandle, OnMap, OnDec, OnNew, HandlesOf, MapsOf, DecsOf, NewsOf
    <2>5. /\ \A c : One(c) \in {0, 1}
          /\ refs'[d] = refs[d] + Share(h, m, t, fd, d)' - Share(h, m, t, fd, d)
      BY <1>1, <2>1 DEF One
    <2>6. QED
      BY <2>1, <2>2, <2>3, <2>4, <2>5 DEF OnHandle, OnMap, OnDec, OnNew
  <1>2. QED
    BY <1>1 DEF RefsExact, Refs

\* Moving a handle's descriptor to another handle leaves all counts as they are.
LEMMA MovedExact ==
    ASSUME IInv, RegisteredInv', UNCHANGED <<registry, dfd, refs, mdata, mok>>,
           NEW g \in Handles, NEW h \in Handles, hfd[h] = NoFd, hfd[g] \in Fds,
           hfd'[h] = hfd[g], hfd'[g] = NoFd,
           \A i \in Handles \ {g, h} : hfd'[i] = hfd[i],
           \A u \in Threads : /\ pc'[u] = "dec" <=> pc[u] = "dec"
                              /\ pc[u] = "dec" => arg'[u].data = arg[u].data
                              /\ arg'[u].ok <=> arg[u].ok
                              /\ arg[u].ok => arg'[u].fresh = arg[u].fresh
    PROVE  RefsExact'
  <1>1. ASSUME NEW fd \in Fds, NEW d, registry'[fd] = d, d # Null
        PROVE  d \in alive' /\ dfd'[d] = fd /\ refs'[d] = Refs(d)'
    <2>1. d \in Data /\ dfd[d] = fd /\ refs[d] = Refs(d)
      BY <1>1, Counted
    <2>2. d \in alive'
      BY <1>1 DEF RegisteredInv
    <2>3. /\ MapsOf(d)' = MapsOf(d)
          /\ DecsOf(d)' = DecsOf(d) /\ NewsOf(d)' = NewsOf(d)
      BY DEF MapsOf, DecsOf, NewsOf
    <2>4. Cardinality(HandlesOf(d)') = Cardinality(HandlesOf(d))
      <3> DEFINE A == HandlesOf(d)
                 B == HandlesOf(d) \ {g}
                 C == HandlesOf(d)'
      <3>1. A \in SUBSET Handles /\ B \in SUBSET Handles /\ C \in SUBSET Handles
        BY DEF HandlesOf
      <3>2. /\ g \in A <=> hfd[g] = fd
            /\ h \in C <=> hfd[g] = fd
            /\ g \notin B /\ g \notin C /\ h \notin A /\ h \notin B
        BY <2>1, Descriptors DEF HandlesOf
      <3>3. \A i \in Handles \ {g} : i \in A <=> i \in B
        OBVIOUS
      <3>4. \A i \in Handles \ {h} : i \in B <=> i \in C
        BY <2>1, <3>2 DEF HandlesOf
      <3> HIDE DEF A, B, C
      <3>5. /\ Cardinality(A) \in Nat /\ Cardinality(B) \in Nat
            /\ Cardinality(B) = Cardinality(A) + One(g \in B) - One(g \in A)
        BY <3>1, <3>3, DifferInOne, RegistryAssumption
      <3>6. /\ Cardinality(C) \in Nat
            /\ Cardinality(C) = Cardinality(B) + One(h \in C) - One(h \in B)
        BY <3>1, <3>4, DifferInOne, RegistryAssumption
      <3>7. Cardinality(C) = Cardinality(A)
        BY <3>2, <3>5, <3>6 DEF One
      <3>8. QED
        BY <3>7 DEF A, C
    <2>5. QED
      BY <2>1, <2>2, <2>3, <2>4 DEF Refs
  <1>2. QED
    BY <1>1 DEF RefsExact, Refs

-----------------------------------------------------------------------------
(* Steps *)

\* In each lemma, the steps with letters and 0 say what the action finds (p, q, 0, a, c, h), what it
\* changes and what it leaves (e, f, g), and what that means for the counts (b, k); then each
\* part of the invariant has a step of its own.

\* A copy counts.
LEMMA CopyStep ==
    ASSUME IInv, NEW t \in Threads, NEW g \in Handles, NEW h \in Handles, Copy(t, g, h)
    PROVE  IInv'
  <1> USE DEF IInv
  <1>0. /\ hfd[g] # NoFd /\ hfd[h] = NoFd /\ g # h /\ pc[t] = "idle"
        /\ \A u \in Threads : arg[u].h # h /\ arg[u].src # h
    BY NotBusy, ObjectTypes DEF Copy, Held, Empty
  <1>a. /\ hfd[g] \in Fds /\ registry[hfd[g]] # Null /\ registry[hfd[g]] \in Data
        /\ refs[registry[hfd[g]]] > 0 /\ dfd[registry[hfd[g]]] = hfd[g]
    BY <1>0, Counted
  <1>f. /\ UNCHANGED <<kernel, opens, raw, registry, closing, alive, dfd, owns, dfile>>
        /\ UNCHANGED <<mdata, mok, pc, arg>>
        /\ hfd'[h] = hfd[g] /\ hfile'[h] = hfile[g]
        /\ \A i \in Handles \ {h} : hfd'[i] = hfd[i] /\ hfile'[i] = hfile[i]
        /\ refs'[registry[hfd[g]]] = refs[registry[hfd[g]]] + 1
        /\ \A d \in Data \ {registry[hfd[g]]} : refs'[d] = refs[d]
    BY <1>0, <1>a DEF Copy, IncRefOf, kernelVars, mapVars, TypeOK
  <1>b. \A fd \in Fds : registry[fd] # Null =>
        (refs'[registry[fd]] = 0 <=> refs[registry[fd]] = 0)
        /\ (refs'[registry[fd]] > 0 <=> refs[registry[fd]] > 0)
    BY <1>f, <1>a, Counted DEF TypeOK
  <1>1. TypeOK'
    BY <1>0, <1>a DEF TypeOK, Copy, IncRefOf, kernelVars, mapVars
  <1>2. Locals'
    BY <1>0, <1>f, Descriptors, ObjectTypes DEF Locals, LocalsOf, HandleInv, TypeOK
  <1>3. Apart'
    BY <1>0, <1>f DEF Apart, Objects
  <1>4. KernelInv'
    BY <1>f DEF KernelInv
  <1>5. RegisteredInv'
    BY <1>f DEF RegisteredInv
  <1>6. HandleInv'
    BY <1>0, <1>f DEF HandleInv, TypeOK
  <1>7. MapInv'
    BY <1>0, <1>f DEF MapInv, TypeOK
  <1>8. MakingInv'
    BY <1>0, <1>f, <1>b DEF MakingInv, Locals, LocalsOf
  <1>9. ClosingInv'
    BY <1>0, <1>f DEF ClosingInv
  <1>10. Referenced'
    BY <1>0, <1>f, <1>b DEF Referenced
  <1>11. RefsExact'
    <2>1. \A k \in Fds : \A e \in Data : registry[k] = e /\ registry'[k] = e =>
              refs'[e] = refs[e] + Share(h, Null, Null, k, e)' - Share(h, Null, Null, k, e)
      BY <1>0, <1>a, <1>f, Descriptors, ObjectTypes, RegistryAssumption, Counted
         DEF Share, One, TypeOK
    <2>2. QED
      BY <1>5, <1>f, <2>1, StillExact
  <1>12. QED
    BY <1>1, <1>2, <1>3, <1>4, <1>5, <1>6, <1>7, <1>8, <1>9, <1>10, <1>11

\* A file that was opened is new, and its descriptor was nobody's.
LEMMA OpenStep ==
    ASSUME IInv, NEW t \in Threads, NEW h \in Handles, Open(t, h)
    PROVE  IInv'
  <1> USE DEF IInv
  <1>p. PICK fd \in Fds :
        /\ Empty(h) /\ opens < MaxOpens /\ LowestFree(fd)
        /\ opens' = opens + 1
        /\ kernel' = [kernel EXCEPT ![fd] = opens + 1]
        /\ Enter(t, "intern", [NoArg EXCEPT !.h = h, !.fd = fd, !.file = opens + 1, !.own = TRUE])
        /\ UNCHANGED <<raw, registry, closing, dataVars, handleVars, mapVars>>
    BY DEF Open
  <1>n. /\ opens \in Nat /\ opens + 1 \in Files /\ opens + 1 \in 0 .. MaxOpens
        /\ opens + 1 # NoFile /\ kernel[fd] = NoFile
    BY <1>p, RegistryAssumption DEF LowestFree, TypeOK, Files, NoFile
  <1>0. /\ hfd[h] = NoFd /\ pc[t] = "idle" /\ arg[t] = NoArg
        /\ \A u \in Threads : arg[u].h # h /\ arg[u].src # h /\ arg[u].m # h
    BY <1>p, NotBusy, ObjectTypes DEF Enter, Empty, Locals, LocalsOf
  <1>c. /\ registry[fd] = Null
        /\ \A i \in Handles : hfd[i] # fd
        /\ \A u \in Threads : pc[u] \in {"intern", "count", "destroy"} => arg[u].fd \in Fds \ {fd}
        /\ fd \notin raw
    BY <1>n, NotOpen
  <1>k. /\ opens' = opens + 1
        /\ kernel'[fd] = opens + 1 /\ \A f \in Fds \ {fd} : kernel'[f] = kernel[f]
    BY <1>p DEF TypeOK
  <1>f. /\ UNCHANGED <<registry, closing, alive, dfd, owns, dfile, refs>>
        /\ UNCHANGED <<raw, hfd, hfile, mdata, mok>>
        /\ \A u \in Threads \ {t} : pc'[u] = pc[u] /\ arg'[u] = arg[u]
        /\ pc'[t] = "intern" /\ arg'[t].h = h /\ arg'[t].src = Null /\ arg'[t].m = Null
        /\ arg'[t].fd = fd /\ arg'[t].file = opens + 1 /\ arg'[t].own = TRUE
        /\ arg'[t].data = Null
        /\ arg'[t].fresh = Null /\ arg'[t].ok = FALSE /\ arg'[t].then = "idle"
    BY <1>p, <1>n, <1>0 DEF Enter, NoArg, kernelVars, dataVars, handleVars, mapVars, TypeOK
  <1>1. TypeOK'
    BY <1>p, <1>n, <1>0
       DEF TypeOK, Enter, NoArg, Args, Calls, kernelVars, dataVars, handleVars, mapVars
  <1>2. Locals'
    BY <1>n, <1>0, <1>c, <1>k, <1>f, Descriptors, ObjectTypes
       DEF Locals, LocalsOf, HandleInv, TypeOK
  <1>3. Apart'
    BY <1>n, <1>0, <1>c, <1>k, <1>f DEF Apart, Objects
  <1>4. KernelInv'
    BY <1>n, <1>c, <1>k, <1>f DEF KernelInv, TypeOK
  <1>5. RegisteredInv'
    BY <1>c, <1>k, <1>f DEF RegisteredInv
  <1>6. HandleInv'
    BY <1>n, <1>0, <1>c, <1>k, <1>f DEF HandleInv, TypeOK
  <1>7. MapInv'
    BY <1>n, <1>0, <1>c, <1>k, <1>f DEF MapInv, TypeOK
  <1>8. MakingInv'
    BY <1>n, <1>0, <1>c, <1>k, <1>f DEF MakingInv, Locals, LocalsOf
  <1>9. ClosingInv'
    BY <1>n, <1>0, <1>c, <1>k, <1>f DEF ClosingInv
  <1>10. Referenced'
    BY <1>n, <1>0, <1>c, <1>k, <1>f DEF Referenced
  <1>11. RefsExact'
    <2>1. \A k \in Fds : \A e \in Data : registry[k] = e /\ registry'[k] = e =>
              refs'[e] = refs[e] + Share(Null, Null, t, k, e)' - Share(Null, Null, t, k, e)
      BY <1>0, <1>f, Descriptors, ObjectTypes, RegistryAssumption, Counted
         DEF NoArg, Share, One, TypeOK
    <2>2. QED
      BY <1>5, <1>f, <2>1, StillExact
  <1>12. QED
    BY <1>1, <1>2, <1>3, <1>4, <1>5, <1>6, <1>7, <1>8, <1>9, <1>10, <1>11

\* ... also when the program opens it itself.
LEMMA RawOpenStep ==
    ASSUME IInv, RawOpen
    PROVE  IInv'
  <1> USE DEF IInv
  <1>p. PICK fd \in Fds :
        /\ opens < MaxOpens /\ LowestFree(fd)
        /\ opens' = opens + 1
        /\ kernel' = [kernel EXCEPT ![fd] = opens + 1]
        /\ raw' = raw \cup {fd}
        /\ UNCHANGED <<registry, closing, dataVars, handleVars, mapVars, pc, arg>>
    BY DEF RawOpen
  <1>0. /\ opens \in Nat /\ opens + 1 \in Files /\ opens + 1 \in 0 .. MaxOpens
        /\ opens + 1 # NoFile /\ kernel[fd] = NoFile
    BY <1>p, RegistryAssumption DEF LowestFree, TypeOK, Files, NoFile
  <1>c. /\ registry[fd] = Null
        /\ \A i \in Handles : hfd[i] # fd
        /\ \A u \in Threads : pc[u] \in {"intern", "count", "destroy"} => arg[u].fd \in Fds \ {fd}
    BY <1>0, NotOpen
  <1>f. /\ UNCHANGED <<registry, closing, alive, dfd, owns, dfile, refs>>
        /\ UNCHANGED <<hfd, hfile, mdata, mok, pc, arg>>
        /\ opens' = opens + 1 /\ raw' = raw \cup {fd}
        /\ kernel'[fd] = opens + 1 /\ \A f \in Fds \ {fd} : kernel'[f] = kernel[f]
    BY <1>p, <1>0 DEF kernelVars, dataVars, handleVars, mapVars, TypeOK
  <1>1. TypeOK'
    BY <1>p, <1>0 DEF TypeOK, kernelVars, dataVars, handleVars, mapVars
  <1>2. Locals'
    BY <1>0, <1>c, <1>f, Descriptors, ObjectTypes DEF Locals, LocalsOf, HandleInv, TypeOK
  <1>3. Apart'
    BY <1>0, <1>c, <1>f DEF Apart, Objects
  <1>4. KernelInv'
    BY <1>0, <1>c, <1>f DEF KernelInv, TypeOK
  <1>5. RegisteredInv'
    BY <1>c, <1>f DEF RegisteredInv
  <1>6. HandleInv'
    BY <1>0, <1>c, <1>f DEF HandleInv, TypeOK
  <1>7. MapInv'
    BY <1>0, <1>c, <1>f DEF MapInv, TypeOK
  <1>8. MakingInv'
    BY <1>0, <1>c, <1>f DEF MakingInv, Locals, LocalsOf
  <1>9. ClosingInv'
    BY <1>0, <1>c, <1>f DEF ClosingInv
  <1>10. Referenced'
    BY <1>0, <1>c, <1>f DEF Referenced
  <1>11. RefsExact'
    <2>1. \A k \in Fds : \A e \in Data : registry[k] = e /\ registry'[k] = e =>
              refs'[e] = refs[e] + Share(Null, Null, Null, k, e)' - Share(Null, Null, Null, k, e)
      BY <1>f, Descriptors, ObjectTypes, RegistryAssumption, Counted
         DEF NoArg, Share, One, TypeOK
    <2>2. QED
      BY <1>5, <1>f, <2>1, StillExact
  <1>12. QED
    BY <1>1, <1>2, <1>3, <1>4, <1>5, <1>6, <1>7, <1>8, <1>9, <1>10, <1>11

\* What the program closes itself, nobody uses.
LEMMA RawCloseStep ==
    ASSUME IInv, NEW fd \in Fds, RawClose(fd)
    PROVE  IInv'
  <1> USE DEF IInv
  <1>0. fd \in raw /\ ~InUse(fd)
    BY DEF RawClose
  <1>c. /\ registry[fd] = Null
        /\ \A i \in Handles : hfd[i] # fd
        /\ \A u \in Threads : pc[u] \in {"intern", "count", "destroy"} => arg[u].fd \in Fds \ {fd}
    BY <1>0, NotInUse
  <1>f. /\ UNCHANGED <<registry, closing, alive, dfd, owns, dfile, refs>>
        /\ UNCHANGED <<opens, hfd, hfile, mdata, mok, pc, arg>>
        /\ raw' = raw \ {fd}
        /\ kernel'[fd] = NoFile /\ \A f \in Fds \ {fd} : kernel'[f] = kernel[f]
    BY DEF RawClose, kernelVars, dataVars, handleVars, mapVars, TypeOK
  <1>1. TypeOK'
    BY DEF TypeOK, RawClose, NoFile, kernelVars, dataVars, handleVars, mapVars
  <1>2. Locals'
    BY <1>0, <1>c, <1>f, Descriptors, ObjectTypes DEF Locals, LocalsOf, HandleInv, TypeOK
  <1>3. Apart'
    BY <1>0, <1>c, <1>f DEF Apart, Objects
  <1>4. KernelInv'
    BY <1>c, <1>f DEF KernelInv, TypeOK, NoFile
  <1>5. RegisteredInv'
    BY <1>c, <1>f DEF RegisteredInv
  <1>6. HandleInv'
    BY <1>0, <1>c, <1>f DEF HandleInv, TypeOK
  <1>7. MapInv'
    BY <1>0, <1>c, <1>f DEF MapInv, TypeOK
  <1>8. MakingInv'
    BY <1>0, <1>c, <1>f DEF MakingInv, Locals, LocalsOf
  <1>9. ClosingInv'
    BY <1>0, <1>c, <1>f DEF ClosingInv
  <1>10. Referenced'
    BY <1>0, <1>c, <1>f DEF Referenced
  <1>11. RefsExact'
    <2>1. \A k \in Fds : \A e \in Data : registry[k] = e /\ registry'[k] = e =>
              refs'[e] = refs[e] + Share(Null, Null, Null, k, e)' - Share(Null, Null, Null, k, e)
      BY <1>f, Descriptors, ObjectTypes, RegistryAssumption, Counted
         DEF NoArg, Share, One, TypeOK
    <2>2. QED
      BY <1>5, <1>f, <2>1, StillExact
  <1>12. QED
    BY <1>1, <1>2, <1>3, <1>4, <1>5, <1>6, <1>7, <1>8, <1>9, <1>10, <1>11

\* A descriptor that is handed to a handle is nobody else's ...
LEMMA FromStep ==
    ASSUME IInv, NEW t \in Threads, NEW h \in Handles, NEW fd \in Fds, From(t, h, fd)
    PROVE  IInv'
  <1> USE DEF IInv
  <1>0. /\ hfd[h] = NoFd /\ pc[t] = "idle" /\ arg[t] = NoArg
        /\ fd \in raw /\ ~InUse(fd) /\ kernel[fd] # NoFile
        /\ \A u \in Threads : arg[u].h # h /\ arg[u].src # h /\ arg[u].m # h
    BY NotBusy, ObjectTypes DEF From, Enter, Empty, Locals, LocalsOf, KernelInv
  <1>c. /\ registry[fd] = Null
        /\ \A i \in Handles : hfd[i] # fd
        /\ \A u \in Threads : pc[u] \in {"intern", "count", "destroy"} => arg[u].fd \in Fds \ {fd}
    BY <1>0, NotInUse
  <1>f. /\ UNCHANGED <<registry, closing, alive, dfd, owns, dfile, refs>>
        /\ UNCHANGED <<kernel, opens, hfd, hfile, mdata, mok>>
        /\ raw' = raw \ {fd}
        /\ \A u \in Threads \ {t} : pc'[u] = pc[u] /\ arg'[u] = arg[u]
        /\ pc'[t] = "intern" /\ arg'[t].h = h /\ arg'[t].src = Null /\ arg'[t].m = Null
        /\ arg'[t].fd = fd /\ arg'[t].file = kernel[fd] /\ arg'[t].own = TRUE
        /\ arg'[t].data = Null
        /\ arg'[t].fresh = Null /\ arg'[t].ok = FALSE /\ arg'[t].then = "idle"
    BY <1>0 DEF From, Enter, NoArg, kernelVars, dataVars, handleVars, mapVars, TypeOK
  <1>1. TypeOK'
    <2>1. arg' \in [Threads -> Args] /\ pc' \in [Threads -> Calls]
      <3>1. /\ kernel[fd] \in Files
            /\ pc' = [pc EXCEPT ![t] = "intern"]
            /\ arg' = [arg EXCEPT ![t] = [NoArg EXCEPT !.h = h, !.fd = fd, !.file = kernel[fd],
                                                        !.own = TRUE]]
        BY <1>0 DEF From, Enter, TypeOK
      <3>2. QED
        BY <3>1 DEF TypeOK, NoArg, Args, Calls
    <2>2. QED
      BY <2>1, <1>f DEF TypeOK
  <1>2. Locals'
    BY <1>0, <1>c, <1>f, Descriptors, ObjectTypes DEF Locals, LocalsOf, HandleInv, TypeOK
  <1>3. Apart'
    <2>1. Objects(t)' \subseteq {h}
      BY <1>f DEF Objects
    <2>2. \A u \in Threads \ {t} : Objects(u)' = Objects(u) /\ h \notin Objects(u)
      BY <1>0, <1>f DEF Objects
    <2>3. QED
      BY <2>1, <2>2 DEF Apart
  <1>4. KernelInv'
    BY <1>f DEF KernelInv
  <1>5. RegisteredInv'
    BY <1>c, <1>f DEF RegisteredInv
  <1>6. HandleInv'
    BY <1>0, <1>c, <1>f DEF HandleInv, TypeOK
  <1>7. MapInv'
    BY <1>0, <1>c, <1>f DEF MapInv, TypeOK
  <1>8. MakingInv'
    BY <1>0, <1>c, <1>f DEF MakingInv, Locals, LocalsOf
  <1>9. ClosingInv'
    BY <1>0, <1>c, <1>f DEF ClosingInv
  <1>10. Referenced'
    BY <1>0, <1>c, <1>f DEF Referenced
  <1>11. RefsExact'
    <2>1. \A k \in Fds : \A e \in Data : registry[k] = e /\ registry'[k] = e =>
              refs'[e] = refs[e] + Share(Null, Null, t, k, e)' - Share(Null, Null, t, k, e)
      BY <1>0, <1>f, Descriptors, ObjectTypes, RegistryAssumption, Counted
         DEF NoArg, Share, One, TypeOK
    <2>2. QED
      BY <1>5, <1>f, <2>1, StillExact
  <1>12. QED
    BY <1>1, <1>2, <1>3, <1>4, <1>5, <1>6, <1>7, <1>8, <1>9, <1>10, <1>11

\* ... nor is one that is wrapped, if the program does not wrap it twice.
LEMMA WrapStep ==
    ASSUME IInv, ~SharedWraps, NEW t \in Threads, NEW h \in Handles, NEW fd \in Fds, Wrap(t, h, fd)
    PROVE  IInv'
  <1> USE DEF IInv
  <1>0. /\ hfd[h] = NoFd /\ pc[t] = "idle" /\ arg[t] = NoArg
        /\ fd \in raw /\ ~InUse(fd) /\ kernel[fd] # NoFile
        /\ \A u \in Threads : arg[u].h # h /\ arg[u].src # h /\ arg[u].m # h
    BY NotBusy, ObjectTypes DEF Wrap, Enter, Empty, Locals, LocalsOf, KernelInv
  <1>c. /\ registry[fd] = Null
        /\ \A i \in Handles : hfd[i] # fd
        /\ \A u \in Threads : pc[u] \in {"intern", "count", "destroy"} => arg[u].fd \in Fds \ {fd}
    BY <1>0, NotInUse
  <1>f. /\ UNCHANGED <<registry, closing, alive, dfd, owns, dfile, refs>>
        /\ UNCHANGED <<kernel, opens, hfd, hfile, mdata, mok>>
        /\ raw' = raw
        /\ \A u \in Threads \ {t} : pc'[u] = pc[u] /\ arg'[u] = arg[u]
        /\ pc'[t] = "intern" /\ arg'[t].h = h /\ arg'[t].src = Null /\ arg'[t].m = Null
        /\ arg'[t].fd = fd /\ arg'[t].file = kernel[fd] /\ arg'[t].own = FALSE
        /\ arg'[t].data = Null
        /\ arg'[t].fresh = Null /\ arg'[t].ok = FALSE /\ arg'[t].then = "idle"
    BY <1>0 DEF Wrap, Enter, NoArg, kernelVars, dataVars, handleVars, mapVars, TypeOK
  <1>1. TypeOK'
    BY <1>0
       DEF TypeOK, Wrap, Enter, NoArg, Args, Calls, kernelVars, dataVars, handleVars, mapVars
  <1>2. Locals'
    BY <1>0, <1>c, <1>f, Descriptors, ObjectTypes DEF Locals, LocalsOf, HandleInv, TypeOK
  <1>3. Apart'
    BY <1>0, <1>c, <1>f DEF Apart, Objects
  <1>4. KernelInv'
    BY <1>f DEF KernelInv
  <1>5. RegisteredInv'
    BY <1>c, <1>f DEF RegisteredInv
  <1>6. HandleInv'
    BY <1>0, <1>c, <1>f DEF HandleInv, TypeOK
  <1>7. MapInv'
    BY <1>0, <1>c, <1>f DEF MapInv, TypeOK
  <1>8. MakingInv'
    BY <1>0, <1>c, <1>f DEF MakingInv, Locals, LocalsOf
  <1>9. ClosingInv'
    BY <1>0, <1>c, <1>f DEF ClosingInv
  <1>10. Referenced'
    BY <1>0, <1>c, <1>f DEF Referenced
  <1>11. RefsExact'
    <2>1. \A k \in Fds : \A e \in Data : registry[k] = e /\ registry'[k] = e =>
              refs'[e] = refs[e] + Share(Null, Null, t, k, e)' - Share(Null, Null, t, k, e)
      BY <1>0, <1>f, Descriptors, ObjectTypes, RegistryAssumption, Counted
         DEF NoArg, Share, One, TypeOK
    <2>2. QED
      BY <1>5, <1>f, <2>1, StillExact
  <1>12. QED
    BY <1>1, <1>2, <1>3, <1>4, <1>5, <1>6, <1>7, <1>8, <1>9, <1>10, <1>11

\* An operation on a file looks its data up.
LEMMA UseStep ==
    ASSUME IInv, NEW t \in Threads, NEW h \in Handles, Use(t, h)
    PROVE  IInv'
  <1> USE DEF IInv
  <1>0. /\ hfd[h] # NoFd /\ pc[t] = "idle" /\ arg[t] = NoArg
        /\ \A u \in Threads : arg[u].h # h /\ arg[u].src # h /\ arg[u].m # h
    BY NotBusy, ObjectTypes DEF Use, Enter, Held, Locals, LocalsOf
  <1>a. /\ hfd[h] \in Fds /\ registry[hfd[h]] # Null /\ registry[hfd[h]] \in Data
        /\ refs[registry[hfd[h]]] > 0 /\ dfd[registry[hfd[h]]] = hfd[h]
    BY <1>0, Counted
  <1>f. /\ UNCHANGED <<kernel, opens, raw, registry, closing, alive, dfd, owns, dfile, refs>>
        /\ UNCHANGED <<hfd, hfile, mdata, mok>>
        /\ \A u \in Threads \ {t} : pc'[u] = pc[u] /\ arg'[u] = arg[u]
        /\ pc'[t] = "use" /\ arg'[t].h = h /\ arg'[t].src = Null /\ arg'[t].m = Null
        /\ arg'[t].fd = hfd[h] /\ arg'[t].file = NoFile /\ arg'[t].own = FALSE
        /\ arg'[t].data = registry[hfd[h]]
        /\ arg'[t].fresh = Null /\ arg'[t].ok = FALSE /\ arg'[t].then = "idle"
    BY <1>0, <1>a DEF Use, Enter, NoArg, kernelVars, dataVars, handleVars, mapVars, TypeOK
  <1>1. TypeOK'
    BY <1>0, <1>a
       DEF TypeOK, Use, Enter, NoArg, Args, Calls, kernelVars, dataVars, handleVars, mapVars
  <1>2. Locals'
    BY <1>0, <1>f, Descriptors, ObjectTypes DEF Locals, LocalsOf, HandleInv, TypeOK
  <1>3. Apart'
    BY <1>0, <1>f DEF Apart, Objects
  <1>4. KernelInv'
    BY <1>f DEF KernelInv
  <1>5. RegisteredInv'
    BY <1>f DEF RegisteredInv
  <1>6. HandleInv'
    BY <1>0, <1>f DEF HandleInv, TypeOK
  <1>7. MapInv'
    BY <1>0, <1>f DEF MapInv, TypeOK
  <1>8. MakingInv'
    BY <1>0, <1>f DEF MakingInv, Locals, LocalsOf
  <1>9. ClosingInv'
    BY <1>0, <1>f DEF ClosingInv
  <1>10. Referenced'
    BY <1>0, <1>f DEF Referenced
  <1>11. RefsExact'
    <2>1. \A k \in Fds : \A e \in Data : registry[k] = e /\ registry'[k] = e =>
              refs'[e] = refs[e] + Share(Null, Null, t, k, e)' - Share(Null, Null, t, k, e)
      BY <1>0, <1>a, <1>f, Descriptors, ObjectTypes, RegistryAssumption, Counted
         DEF NoArg, Share, One, TypeOK
    <2>2. QED
      BY <1>5, <1>f, <2>1, StillExact
  <1>12. QED
    BY <1>1, <1>2, <1>3, <1>4, <1>5, <1>6, <1>7, <1>8, <1>9, <1>10, <1>11

\* ... and is done with it.
LEMMA EndUseStep ==
    ASSUME IInv, NEW t \in Threads, EndUse(t)
    PROVE  IInv'
  <1> USE DEF IInv
  <1>0. /\ pc[t] = "use" /\ arg[t].ok = FALSE
    BY DEF EndUse, Locals, LocalsOf, TypeOK, Args
  <1>f. /\ UNCHANGED <<kernel, opens, raw, registry, closing, alive, dfd, owns, dfile, refs>>
        /\ UNCHANGED <<hfd, hfile, mdata, mok>>
        /\ \A u \in Threads \ {t} : pc'[u] = pc[u] /\ arg'[u] = arg[u]
        /\ pc'[t] = "idle" /\ arg'[t] = NoArg
    BY <1>0 DEF EndUse, Leave, NoArg, kernelVars, dataVars, handleVars, mapVars, TypeOK
  <1>1. TypeOK'
    BY <1>0 DEF TypeOK, EndUse, Leave, NoArg, Args, Calls, kernelVars, dataVars, handleVars,
       mapVars
  <1>2. Locals'
    <2>1. LocalsOf(t)'
      BY <1>0, <1>f DEF LocalsOf, NoArg
    <2>2. ASSUME NEW u \in Threads \ {t}
          PROVE  LocalsOf(u)'
      BY <1>0, <1>f, Descriptors, ObjectTypes DEF Locals, LocalsOf, TypeOK
    <2>3. QED
      BY <2>1, <2>2 DEF Locals
  <1>3. Apart'
    <2>1. Objects(t)' = {} /\ \A u \in Threads \ {t} : Objects(u)' = Objects(u)
      BY <1>f DEF Objects, NoArg
    <2>2. QED
      BY <2>1 DEF Apart
  <1>4. KernelInv'
    BY <1>f DEF KernelInv
  <1>5. RegisteredInv'
    BY <1>f DEF RegisteredInv
  <1>6. HandleInv'
    BY <1>0, <1>f DEF HandleInv, TypeOK
  <1>7. MapInv'
    BY <1>0, <1>f DEF MapInv, NoArg, TypeOK
  <1>8. MakingInv'
    BY <1>0, <1>f DEF MakingInv, Locals, LocalsOf
  <1>9. ClosingInv'
    BY <1>0, <1>f DEF ClosingInv
  <1>10. Referenced'
    BY <1>0, <1>f DEF Referenced
  <1>11. RefsExact'
    <2>1. \A k \in Fds : \A e \in Data : registry[k] = e /\ registry'[k] = e =>
              refs'[e] = refs[e] + Share(Null, Null, t, k, e)' - Share(Null, Null, t, k, e)
      BY <1>0, <1>f, Descriptors, ObjectTypes, RegistryAssumption, Counted
         DEF NoArg, Share, One, TypeOK
    <2>2. QED
      BY <1>5, <1>f, <2>1, StillExact
  <1>12. QED
    BY <1>1, <1>2, <1>3, <1>4, <1>5, <1>6, <1>7, <1>8, <1>9, <1>10, <1>11

\* A move leaves a count as it is.
LEMMA MoveStep ==
    ASSUME IInv, NEW t \in Threads, NEW g \in Handles, NEW h \in Handles, Move(t, g, h)
    PROVE  IInv'
  <1> USE DEF IInv
  <1>0. /\ hfd[g] # NoFd /\ hfd[g] \in Fds /\ hfd[h] = NoFd /\ g # h /\ pc[t] = "idle"
        /\ \A u \in Threads : arg[u].h # h /\ arg[u].src # h /\ arg[u].m # h
        /\ \A u \in Threads : arg[u].h # g /\ arg[u].src # g /\ arg[u].m # g
    BY NotBusy, ObjectTypes DEF Move, Held, Empty, TypeOK
  <1>f. /\ UNCHANGED <<kernel, opens, raw, registry, closing, alive, dfd, owns, dfile, refs>>
        /\ UNCHANGED <<mdata, mok, pc, arg>>
        /\ hfd'[h] = hfd[g] /\ hfile'[h] = hfile[g] /\ hfd'[g] = NoFd /\ hfile'[g] = NoFile
        /\ \A i \in Handles \ {g, h} : hfd'[i] = hfd[i] /\ hfile'[i] = hfile[i]
    BY <1>0 DEF Move, kernelVars, dataVars, mapVars, TypeOK
  <1>1. TypeOK'
    BY DEF TypeOK, Move, kernelVars, dataVars, mapVars
  <1>2. Locals'
    BY <1>0, <1>f, Descriptors, ObjectTypes DEF Locals, LocalsOf, HandleInv, TypeOK
  <1>3. Apart'
    BY <1>0, <1>f DEF Apart, Objects
  <1>4. KernelInv'
    BY <1>f DEF KernelInv
  <1>5. RegisteredInv'
    BY <1>f DEF RegisteredInv
  <1>6. HandleInv'
    BY <1>0, <1>f DEF HandleInv, TypeOK
  <1>7. MapInv'
    BY <1>0, <1>f DEF MapInv, TypeOK
  <1>8. MakingInv'
    BY <1>0, <1>f DEF MakingInv, Locals, LocalsOf
  <1>9. ClosingInv'
    BY <1>0, <1>f DEF ClosingInv
  <1>10. Referenced'
    BY <1>0, <1>f DEF Referenced
  <1>11. RefsExact'
    BY <1>5, <1>0, <1>f, MovedExact
  <1>12. QED
    BY <1>1, <1>2, <1>3, <1>4, <1>5, <1>6, <1>7, <1>8, <1>9, <1>10, <1>11

\* ... also as the rest of an assignment.
LEMMA AssignMovedStep ==
    ASSUME IInv, NEW t \in Threads, AssignMoved(t)
    PROVE  IInv'
  <1> USE DEF IInv
  <1>p. PICK g \in Handles, h \in Handles :
        /\ arg[t].src = g /\ arg[t].h = h /\ g # h /\ ~arg[t].ok
        /\ hfd[h] = NoFd /\ hfd[g] # NoFd
    BY DEF AssignMoved, Locals, LocalsOf
  <1>0. /\ hfd[g] \in Fds /\ pc[t] = "moved"
        /\ \A u \in Threads \ {t} : arg[u].h # h /\ arg[u].src # h /\ arg[u].m # h
        /\ \A u \in Threads \ {t} : arg[u].h # g /\ arg[u].src # g /\ arg[u].m # g
    BY <1>p, Mine, ObjectTypes DEF AssignMoved, TypeOK, Objects
  <1>f. /\ UNCHANGED <<kernel, opens, raw, registry, closing, alive, dfd, owns, dfile, refs>>
        /\ UNCHANGED <<mdata, mok>>
        /\ hfd'[h] = hfd[g] /\ hfile'[h] = hfile[g] /\ hfd'[g] = NoFd /\ hfile'[g] = NoFile
        /\ \A i \in Handles \ {g, h} : hfd'[i] = hfd[i] /\ hfile'[i] = hfile[i]
        /\ \A u \in Threads \ {t} : pc'[u] = pc[u] /\ arg'[u] = arg[u]
        /\ pc'[t] = "idle" /\ arg'[t] = NoArg
    BY <1>p, <1>0 DEF AssignMoved, Leave, kernelVars, dataVars, mapVars, TypeOK
  <1>1. TypeOK'
    BY <1>p DEF TypeOK, AssignMoved, Leave, NoArg, Args, Calls, kernelVars, dataVars, mapVars
  <1>2. Locals'
    <2>1. LocalsOf(t)'
      BY <1>p, <1>0, <1>f DEF LocalsOf, NoArg
    <2>2. ASSUME NEW u \in Threads \ {t}
          PROVE  LocalsOf(u)'
      BY <1>p, <1>0, <1>f, Descriptors, ObjectTypes DEF Locals, LocalsOf, TypeOK
    <2>3. QED
      BY <2>1, <2>2 DEF Locals
  <1>3. Apart'
    <2>1. Objects(t)' = {} /\ \A u \in Threads \ {t} : Objects(u)' = Objects(u)
      BY <1>f DEF Objects, NoArg
    <2>2. QED
      BY <2>1 DEF Apart
  <1>4. KernelInv'
    BY <1>f DEF KernelInv
  <1>5. RegisteredInv'
    BY <1>f DEF RegisteredInv
  <1>6. HandleInv'
    BY <1>p, <1>0, <1>f DEF HandleInv, TypeOK
  <1>7. MapInv'
    BY <1>p, <1>0, <1>f DEF MapInv, NoArg, TypeOK
  <1>8. MakingInv'
    BY <1>p, <1>0, <1>f DEF MakingInv, Locals, LocalsOf
  <1>9. ClosingInv'
    BY <1>p, <1>0, <1>f DEF ClosingInv
  <1>10. Referenced'
    BY <1>p, <1>0, <1>f DEF Referenced
  <1>11. RefsExact'
    BY <1>5, <1>p, <1>0, <1>f, MovedExact DEF NoArg
  <1>12. QED
    BY <1>1, <1>2, <1>3, <1>4, <1>5, <1>6, <1>7, <1>8, <1>9, <1>10, <1>11

\* A handle that is dropped becomes a reference that its thread gives up.
LEMMA DropStep ==
    ASSUME IInv, NEW t \in Threads, NEW h \in Handles, Drop(t, h)
    PROVE  IInv'
  <1> USE DEF IInv
  <1>0. /\ hfd[h] # NoFd /\ hfd[h] \in Fds /\ pc[t] = "idle" /\ arg[t] = NoArg
        /\ \A u \in Threads : arg[u].h # h /\ arg[u].src # h /\ arg[u].m # h
    <2>1. ~Busy(h) /\ hfd[h] # NoFd /\ pc[t] = "idle"
      BY DEF Drop, Enter, Held
    <2>2. hfd[h] \in Fds /\ arg[t] = NoArg
      BY <2>1 DEF TypeOK, Locals, LocalsOf
    <2>3. QED
      BY <2>1, <2>2, NotBusy, ObjectTypes
  <1>a. /\ hfd[h] \in Fds /\ registry[hfd[h]] # Null /\ registry[hfd[h]] \in Data
        /\ refs[registry[hfd[h]]] > 0 /\ dfd[registry[hfd[h]]] = hfd[h]
    BY <1>0, Counted
  <1>f. /\ UNCHANGED <<kernel, opens, raw, registry, closing, alive, dfd, owns, dfile, refs>>
        /\ UNCHANGED <<mdata, mok>>
        /\ hfd'[h] = NoFd /\ hfile'[h] = NoFile
        /\ \A i \in Handles \ {h} : hfd'[i] = hfd[i] /\ hfile'[i] = hfile[i]
        /\ \A u \in Threads \ {t} : pc'[u] = pc[u] /\ arg'[u] = arg[u]
        /\ pc'[t] = "dec" /\ arg'[t].h = h /\ arg'[t].src = Null /\ arg'[t].m = Null
        /\ arg'[t].fd = hfd[h] /\ arg'[t].file = NoFile /\ arg'[t].own = FALSE
        /\ arg'[t].data = registry[hfd[h]]
        /\ arg'[t].fresh = Null /\ arg'[t].ok = FALSE /\ arg'[t].then = "idle"
    BY <1>0, <1>a DEF Drop, Enter, NoArg, kernelVars, dataVars, mapVars, TypeOK
  <1>1. TypeOK'
    BY <1>0, <1>a DEF TypeOK, Drop, Enter, NoArg, Args, Calls, NoFd, NoFile, kernelVars,
       dataVars, mapVars
  <1>2. Locals'
    <2>1. LocalsOf(t)'
      BY <1>0, <1>a, <1>f DEF LocalsOf
    <2>2. ASSUME NEW u \in Threads \ {t}
          PROVE  LocalsOf(u)'
      BY <1>0, <1>a, <1>f, Descriptors, ObjectTypes DEF Locals, LocalsOf, TypeOK
    <2>3. QED
      BY <2>1, <2>2 DEF Locals
  <1>3. Apart'
    <2>1. Objects(t)' \subseteq {h}
      BY <1>f DEF Objects
    <2>2. \A u \in Threads \ {t} : Objects(u)' = Objects(u) /\ h \notin Objects(u)
      BY <1>0, <1>f DEF Objects
    <2>3. QED
      BY <2>1, <2>2 DEF Apart
  <1>4. KernelInv'
    BY <1>f DEF KernelInv
  <1>5. RegisteredInv'
    BY <1>f DEF RegisteredInv
  <1>6. HandleInv'
    BY <1>0, <1>a, <1>f DEF HandleInv, TypeOK
  <1>7. MapInv'
    BY <1>0, <1>a, <1>f DEF MapInv, TypeOK
  <1>8. MakingInv'
    BY <1>0, <1>a, <1>f DEF MakingInv, Locals, LocalsOf
  <1>9. ClosingInv'
    BY <1>0, <1>a, <1>f DEF ClosingInv
  <1>10. Referenced'
    BY <1>0, <1>a, <1>f DEF Referenced
  <1>11. RefsExact'
    <2>1. \A k \in Fds : \A e \in Data : registry[k] = e /\ registry'[k] = e =>
              refs'[e] = refs[e] + Share(h, Null, t, k, e)' - Share(h, Null, t, k, e)
      BY <1>0, <1>a, <1>f, Descriptors, ObjectTypes, RegistryAssumption, Counted
         DEF NoArg, Share, One, TypeOK
    <2>2. QED
      BY <1>5, <1>f, <2>1, StillExact
  <1>12. QED
    BY <1>1, <1>2, <1>3, <1>4, <1>5, <1>6, <1>7, <1>8, <1>9, <1>10, <1>11

\* ... and so does one that is assigned over.
LEMMA AssignStep ==
    ASSUME IInv, NEW t \in Threads, NEW g \in Handles, NEW h \in Handles,
           NEW then \in {"moved", "copied"}, Assign(t, g, h, then)
    PROVE  IInv'
  <1> USE DEF IInv
  <1>p. g # h /\ Held(g) /\ Held(h) /\ pc[t] = "idle"
    BY DEF Assign, Enter
  <1>b. /\ \A u \in Threads : arg[u].h # h /\ arg[u].src # h /\ arg[u].m # h
        /\ \A u \in Threads : arg[u].h # g /\ arg[u].src # g /\ arg[u].m # g
    BY <1>p, NotBusy, ObjectTypes DEF Held
  <1>0. /\ hfd[h] # NoFd /\ hfd[h] \in Fds /\ pc[t] = "idle" /\ arg[t] = NoArg
        /\ \A u \in Threads : arg[u].h # h /\ arg[u].src # h /\ arg[u].m # h
        /\ g # h /\ hfd[g] # NoFd
        /\ \A u \in Threads : arg[u].h # g /\ arg[u].src # g /\ arg[u].m # g
    BY <1>p, <1>b DEF Held, Locals, LocalsOf, TypeOK
  <1>a. /\ hfd[h] \in Fds /\ registry[hfd[h]] # Null /\ registry[hfd[h]] \in Data
        /\ refs[registry[hfd[h]]] > 0 /\ dfd[registry[hfd[h]]] = hfd[h]
    BY <1>0, Counted
  <1>f. /\ UNCHANGED <<kernel, opens, raw, registry, closing, alive, dfd, owns, dfile, refs>>
        /\ UNCHANGED <<mdata, mok>>
        /\ hfd'[h] = NoFd /\ hfile'[h] = NoFile
        /\ \A i \in Handles \ {h} : hfd'[i] = hfd[i] /\ hfile'[i] = hfile[i]
        /\ \A u \in Threads \ {t} : pc'[u] = pc[u] /\ arg'[u] = arg[u]
        /\ pc'[t] = "dec" /\ arg'[t].h = h /\ arg'[t].src = g /\ arg'[t].m = Null
        /\ arg'[t].fd = hfd[h] /\ arg'[t].file = NoFile /\ arg'[t].own = FALSE
        /\ arg'[t].data = registry[hfd[h]]
        /\ arg'[t].fresh = Null /\ arg'[t].ok = FALSE /\ arg'[t].then = then
    BY <1>0, <1>a DEF Assign, Enter, NoArg, kernelVars, dataVars, mapVars, TypeOK
  <1>1. TypeOK'
    BY <1>0, <1>a DEF TypeOK, Assign, Enter, NoArg, Args, Calls, NoFd, NoFile, kernelVars,
       dataVars, mapVars
  <1>2. Locals'
    <2>1. LocalsOf(t)'
      BY <1>0, <1>a, <1>f DEF LocalsOf
    <2>2. ASSUME NEW u \in Threads \ {t}
          PROVE  LocalsOf(u)'
      BY <1>0, <1>a, <1>f, Descriptors, ObjectTypes DEF Locals, LocalsOf, TypeOK
    <2>3. QED
      BY <2>1, <2>2 DEF Locals
  <1>3. Apart'
    <2>1. Objects(t)' \subseteq {h, g}
      BY <1>f DEF Objects
    <2>2. \A u \in Threads \ {t} : Objects(u)' = Objects(u) /\ h \notin Objects(u) /\ g \notin Objects(u)
      BY <1>0, <1>f DEF Objects
    <2>3. QED
      BY <2>1, <2>2 DEF Apart
  <1>4. KernelInv'
    BY <1>f DEF KernelInv
  <1>5. RegisteredInv'
    BY <1>f DEF RegisteredInv
  <1>6. HandleInv'
    BY <1>0, <1>a, <1>f DEF HandleInv, TypeOK
  <1>7. MapInv'
    BY <1>0, <1>a, <1>f DEF MapInv, TypeOK
  <1>8. MakingInv'
    BY <1>0, <1>a, <1>f DEF MakingInv, Locals, LocalsOf
  <1>9. ClosingInv'
    BY <1>0, <1>a, <1>f DEF ClosingInv
  <1>10. Referenced'
    BY <1>0, <1>a, <1>f DEF Referenced
  <1>11. RefsExact'
    <2>1. \A k \in Fds : \A e \in Data : registry[k] = e /\ registry'[k] = e =>
              refs'[e] = refs[e] + Share(h, Null, t, k, e)' - Share(h, Null, t, k, e)
      BY <1>0, <1>a, <1>f, Descriptors, ObjectTypes, RegistryAssumption, Counted
         DEF NoArg, Share, One, TypeOK
    <2>2. QED
      BY <1>5, <1>f, <2>1, StillExact
  <1>12. QED
    BY <1>1, <1>2, <1>3, <1>4, <1>5, <1>6, <1>7, <1>8, <1>9, <1>10, <1>11

\* The handle that was made is the first that counts.
LEMMA CountStep ==
    ASSUME IInv, NEW t \in Threads, Count(t)
    PROVE  IInv'
  <1> USE DEF IInv
  <1>p. PICK h \in Handles, fd \in Fds, d \in Data :
        /\ arg[t].h = h /\ arg[t].fd = fd /\ pc[t] = "count" /\ hfd[h] = NoFd
        /\ registry[fd] = d /\ arg[t].then = "idle" /\ ~arg[t].ok
        /\ kernel[fd] = arg[t].file /\ refs[d] = 0 /\ registry[fd] # Null
    <2>1. pc[t] = "count"
      BY DEF Count
    <2>2. /\ arg[t].h \in Handles /\ arg[t].fd \in Fds /\ hfd[arg[t].h] = NoFd
          /\ arg[t].then = "idle" /\ ~arg[t].ok
      BY <2>1 DEF Locals, LocalsOf
    <2>3. /\ kernel[arg[t].fd] = arg[t].file
          /\ registry[arg[t].fd] # Null /\ refs[registry[arg[t].fd]] = 0
      BY <2>1 DEF MakingInv
    <2>4. registry[arg[t].fd] \in Data
      BY <2>2, <2>3, Counted
    <2>5. QED
      BY <2>1, <2>2, <2>3, <2>4
  <1>c. /\ dfd[d] = fd
        /\ \A u \in Threads \ {t} : pc[u] \in {"intern", "count"} => arg[u].fd # fd
    BY <1>p, Counted DEF MakingInv
  <1>0. \A u \in Threads \ {t} : arg[u].h # h /\ arg[u].src # h /\ arg[u].m # h
    BY <1>p, Mine, ObjectTypes DEF Objects
  <1>f. /\ UNCHANGED <<kernel, opens, raw, registry, closing, alive, dfd, owns, dfile>>
        /\ UNCHANGED <<mdata, mok>>
        /\ hfd'[h] = fd /\ hfile'[h] = kernel[fd]
        /\ \A i \in Handles \ {h} : hfd'[i] = hfd[i] /\ hfile'[i] = hfile[i]
        /\ refs'[d] = 1 /\ \A e \in Data \ {d} : refs'[e] = refs[e]
        /\ \A u \in Threads \ {t} : pc'[u] = pc[u] /\ arg'[u] = arg[u]
        /\ pc'[t] = "idle" /\ arg'[t] = NoArg
    BY <1>p, <1>c, RegistryAssumption DEF Count, Leave, IncRefOf, kernelVars, mapVars, TypeOK
  <1>b. \A k \in Fds \ {fd} : registry[k] # Null =>
        registry[k] \in Data \ {d} /\ refs'[registry[k]] = refs[registry[k]]
    BY <1>p, <1>c, <1>f, Counted
  <1>1. TypeOK'
    BY <1>p, RegistryAssumption
       DEF TypeOK, Count, Leave, IncRefOf, NoArg, Args, Calls, kernelVars, mapVars
  <1>2. Locals'
    <2>1. LocalsOf(t)'
      BY <1>p, <1>0, <1>f DEF LocalsOf, NoArg
    <2>2. ASSUME NEW u \in Threads \ {t}
          PROVE  LocalsOf(u)'
      BY <1>p, <1>0, <1>f, Descriptors, ObjectTypes DEF Locals, LocalsOf, TypeOK
    <2>3. QED
      BY <2>1, <2>2 DEF Locals
  <1>3. Apart'
    <2>1. Objects(t)' = {} /\ \A u \in Threads \ {t} : Objects(u)' = Objects(u)
      BY <1>f DEF Objects, NoArg
    <2>2. QED
      BY <2>1 DEF Apart
  <1>4. KernelInv'
    BY <1>f DEF KernelInv
  <1>5. RegisteredInv'
    BY <1>f DEF RegisteredInv
  <1>6. HandleInv'
    BY <1>p, <1>f, Descriptors DEF HandleInv
  <1>7. MapInv'
    BY <1>p, <1>0, <1>f DEF MapInv, NoArg, TypeOK
  <1>8. MakingInv'
    BY <1>p, <1>c, <1>f, <1>b DEF MakingInv, Locals, LocalsOf
  <1>9. ClosingInv'
    BY <1>p, <1>0, <1>f DEF ClosingInv
  <1>10. Referenced'
    BY <1>p, <1>f, <1>b DEF Referenced
  <1>11. RefsExact'
    <2>1. \A k \in Fds : \A e \in Data : registry[k] = e /\ registry'[k] = e =>
              refs'[e] = refs[e] + Share(h, Null, t, k, e)' - Share(h, Null, t, k, e)
      BY <1>p, <1>c, <1>f, Descriptors, ObjectTypes, RegistryAssumption, Counted
         DEF NoArg, Share, One, TypeOK
    <2>2. QED
      BY <1>5, <1>f, <2>1, StillExact
  <1>12. QED
    BY <1>1, <1>2, <1>3, <1>4, <1>5, <1>6, <1>7, <1>8, <1>9, <1>10, <1>11

\* The rest of an assignment counts like a copy.
LEMMA AssignCopiedStep ==
    ASSUME IInv, NEW t \in Threads, AssignCopied(t)
    PROVE  IInv'
  <1> USE DEF IInv
  <1>p. PICK g \in Handles, h \in Handles :
        /\ arg[t].src = g /\ arg[t].h = h /\ g # h /\ ~arg[t].ok /\ pc[t] = "copied"
        /\ hfd[h] = NoFd /\ hfd[g] # NoFd
    BY DEF AssignCopied, Locals, LocalsOf
  <1>0. \A u \in Threads \ {t} : arg[u].h # h /\ arg[u].src # h /\ arg[u].m # h
    BY <1>p, Mine, ObjectTypes DEF Objects
  <1>a. /\ hfd[g] \in Fds /\ registry[hfd[g]] # Null /\ registry[hfd[g]] \in Data
        /\ refs[registry[hfd[g]]] > 0 /\ dfd[registry[hfd[g]]] = hfd[g]
    BY <1>p, Counted
  <1>f. /\ UNCHANGED <<kernel, opens, raw, registry, closing, alive, dfd, owns, dfile>>
        /\ UNCHANGED <<mdata, mok>>
        /\ hfd'[h] = hfd[g] /\ hfile'[h] = hfile[g]
        /\ \A i \in Handles \ {h} : hfd'[i] = hfd[i] /\ hfile'[i] = hfile[i]
        /\ refs'[registry[hfd[g]]] = refs[registry[hfd[g]]] + 1
        /\ \A d \in Data \ {registry[hfd[g]]} : refs'[d] = refs[d]
        /\ \A u \in Threads \ {t} : pc'[u] = pc[u] /\ arg'[u] = arg[u]
        /\ pc'[t] = "idle" /\ arg'[t] = NoArg
    BY <1>p, <1>a DEF AssignCopied, Leave, IncRefOf, kernelVars, mapVars, TypeOK
  <1>b. \A fd \in Fds : registry[fd] # Null =>
        (refs'[registry[fd]] = 0 <=> refs[registry[fd]] = 0)
        /\ (refs'[registry[fd]] > 0 <=> refs[registry[fd]] > 0)
    BY <1>f, <1>a, Counted DEF TypeOK
  <1>1. TypeOK'
    BY <1>p, <1>a
       DEF TypeOK, AssignCopied, Leave, IncRefOf, NoArg, Args, Calls, kernelVars, mapVars
  <1>2. Locals'
    <2>1. LocalsOf(t)'
      BY <1>p, <1>0, <1>f DEF LocalsOf, NoArg
    <2>2. ASSUME NEW u \in Threads \ {t}
          PROVE  LocalsOf(u)'
      BY <1>p, <1>0, <1>f, Descriptors, ObjectTypes DEF Locals, LocalsOf, TypeOK
    <2>3. QED
      BY <2>1, <2>2 DEF Locals
  <1>3. Apart'
    <2>1. Objects(t)' = {} /\ \A u \in Threads \ {t} : Objects(u)' = Objects(u)
      BY <1>f DEF Objects, NoArg
    <2>2. QED
      BY <2>1 DEF Apart
  <1>4. KernelInv'
    BY <1>f DEF KernelInv
  <1>5. RegisteredInv'
    BY <1>f DEF RegisteredInv
  <1>6. HandleInv'
    BY <1>p, <1>0, <1>f DEF HandleInv, TypeOK
  <1>7. MapInv'
    BY <1>p, <1>0, <1>f DEF MapInv, NoArg, TypeOK
  <1>8. MakingInv'
    BY <1>p, <1>0, <1>f, <1>b DEF MakingInv, Locals, LocalsOf
  <1>9. ClosingInv'
    BY <1>p, <1>0, <1>f DEF ClosingInv
  <1>10. Referenced'
    BY <1>p, <1>0, <1>f, <1>b DEF Referenced
  <1>11. RefsExact'
    <2>1. \A k \in Fds : \A e \in Data : registry[k] = e /\ registry'[k] = e =>
              refs'[e] = refs[e] + Share(h, Null, t, k, e)' - Share(h, Null, t, k, e)
      BY <1>p, <1>a, <1>f, Descriptors, ObjectTypes, RegistryAssumption, Counted
         DEF NoArg, Share, One, TypeOK
    <2>2. QED
      BY <1>5, <1>f, <2>1, StillExact
  <1>12. QED
    BY <1>1, <1>2, <1>3, <1>4, <1>5, <1>6, <1>7, <1>8, <1>9, <1>10, <1>11

\* A mapping is made from a handle that stays as it is.
LEMMA RemapStep ==
    ASSUME IInv, ~FailedRemap, NEW t \in Threads, NEW h \in Handles, NEW m \in Maps, Remap(t, h, m)
    PROVE  IInv'
  <1> USE DEF IInv
  <1>0. /\ hfd[h] # NoFd /\ pc[t] = "idle" /\ arg[t] = NoArg /\ (mdata[m] = Null \/ mok[m])
        /\ \A u \in Threads : arg[u].h # h /\ arg[u].src # h /\ arg[u].m # h
        /\ \A u \in Threads : arg[u].h # m /\ arg[u].src # m /\ arg[u].m # m
    BY NotBusy, ObjectTypes DEF Remap, Enter, Held, Locals, LocalsOf
  <1>a. /\ hfd[h] \in Fds /\ registry[hfd[h]] # Null /\ registry[hfd[h]] \in Data
        /\ refs[registry[hfd[h]]] > 0 /\ dfd[registry[hfd[h]]] = hfd[h]
    BY <1>0, Counted
  <1>f. /\ UNCHANGED <<kernel, opens, raw, registry, closing, alive, dfd, owns, dfile, refs>>
        /\ UNCHANGED <<hfd, hfile, mdata, mok>>
        /\ \A u \in Threads \ {t} : pc'[u] = pc[u] /\ arg'[u] = arg[u]
        /\ pc'[t] = "map" /\ arg'[t].h = h /\ arg'[t].src = Null /\ arg'[t].m = m
        /\ arg'[t].fd = hfd[h] /\ arg'[t].file = NoFile /\ arg'[t].own = FALSE
        /\ arg'[t].data = registry[hfd[h]]
        /\ arg'[t].fresh = Null /\ arg'[t].ok = FALSE /\ arg'[t].then = "idle"
    BY <1>0, <1>a DEF Remap, Enter, NoArg, kernelVars, dataVars, handleVars, mapVars, TypeOK
  <1>1. TypeOK'
    BY <1>0, <1>a
       DEF TypeOK, Remap, Enter, NoArg, Args, Calls, kernelVars, dataVars, handleVars, mapVars
  <1>2. Locals'
    <2>1. LocalsOf(t)'
      BY <1>0, <1>a, <1>f DEF LocalsOf
    <2>2. ASSUME NEW u \in Threads \ {t}
          PROVE  LocalsOf(u)'
      BY <1>0, <1>a, <1>f, Descriptors, ObjectTypes DEF Locals, LocalsOf, TypeOK
    <2>3. QED
      BY <2>1, <2>2 DEF Locals
  <1>3. Apart'
    <2>1. Objects(t)' \subseteq {h, m}
      BY <1>f DEF Objects
    <2>2. \A u \in Threads \ {t} : Objects(u)' = Objects(u) /\ h \notin Objects(u) /\ m \notin Objects(u)
      BY <1>0, <1>f DEF Objects
    <2>3. QED
      BY <2>1, <2>2 DEF Apart
  <1>4. KernelInv'
    BY <1>f DEF KernelInv
  <1>5. RegisteredInv'
    BY <1>f DEF RegisteredInv
  <1>6. HandleInv'
    BY <1>0, <1>f DEF HandleInv, TypeOK
  <1>7. MapInv'
    BY <1>0, <1>f DEF MapInv, TypeOK
  <1>8. MakingInv'
    BY <1>0, <1>f DEF MakingInv, Locals, LocalsOf
  <1>9. ClosingInv'
    BY <1>0, <1>f DEF ClosingInv
  <1>10. Referenced'
    BY <1>0, <1>f DEF Referenced
  <1>11. RefsExact'
    <2>1. \A k \in Fds : \A e \in Data : registry[k] = e /\ registry'[k] = e =>
              refs'[e] = refs[e] + Share(Null, Null, t, k, e)' - Share(Null, Null, t, k, e)
      BY <1>0, <1>a, <1>f, Descriptors, ObjectTypes, RegistryAssumption, Counted
         DEF NoArg, Share, One, TypeOK
    <2>2. QED
      BY <1>5, <1>f, <2>1, StillExact
  <1>12. QED
    BY <1>1, <1>2, <1>3, <1>4, <1>5, <1>6, <1>7, <1>8, <1>9, <1>10, <1>11

\* A mapping that is given up becomes a reference that its thread gives up.
LEMMA UnmapStep ==
    ASSUME IInv, NEW t \in Threads, NEW m \in Maps, mok[m], Unmap(t, m)
    PROVE  IInv'
  <1> USE DEF IInv
  <1>0. /\ pc[t] = "idle" /\ arg[t] = NoArg
        /\ \A u \in Threads : arg[u].h # m /\ arg[u].src # m /\ arg[u].m # m
    BY NotBusy, ObjectTypes DEF Unmap, Enter, Locals, LocalsOf
  <1>a. /\ mdata[m] \in Data /\ dfd[mdata[m]] \in Fds
        /\ registry[dfd[mdata[m]]] = mdata[m] /\ refs[mdata[m]] > 0
    BY Counted
  <1>e. /\ Enter(t, "dec", [NoArg EXCEPT !.m = m, !.fd = dfd[mdata[m]], !.data = mdata[m]])
        /\ mdata' = [mdata EXCEPT ![m] = Null]
        /\ mok' = [mok EXCEPT ![m] = FALSE]
        /\ UNCHANGED <<kernelVars, registry, closing, dataVars, handleVars>>
    BY DEF Unmap
  <1>f. /\ UNCHANGED <<kernel, opens, raw, registry, closing, alive, dfd, owns, dfile, refs>>
        /\ UNCHANGED <<hfd, hfile>>
        /\ mdata'[m] = Null /\ mok'[m] = FALSE
        /\ \A n \in Maps \ {m} : mdata'[n] = mdata[n] /\ mok'[n] = mok[n]
        /\ \A u \in Threads \ {t} : pc'[u] = pc[u] /\ arg'[u] = arg[u]
        /\ pc'[t] = "dec" /\ arg'[t].h = Null /\ arg'[t].src = Null /\ arg'[t].m = m
        /\ arg'[t].fd = dfd[mdata[m]] /\ arg'[t].file = NoFile /\ arg'[t].own = FALSE
        /\ arg'[t].data = mdata[m]
        /\ arg'[t].fresh = Null /\ arg'[t].ok = FALSE /\ arg'[t].then = "idle"
    BY <1>0, <1>a, <1>e DEF Enter, NoArg, kernelVars, dataVars, handleVars, TypeOK
  <1>1. TypeOK'
    BY <1>0, <1>a, <1>e
       DEF TypeOK, Enter, NoArg, Args, Calls, kernelVars, dataVars, handleVars
  <1>2. Locals'
    <2>1. LocalsOf(t)'
      BY <1>0, <1>a, <1>f DEF LocalsOf
    <2>2. ASSUME NEW u \in Threads \ {t}
          PROVE  LocalsOf(u)'
      BY <1>0, <1>a, <1>f, Descriptors, ObjectTypes DEF Locals, LocalsOf, TypeOK
    <2>3. QED
      BY <2>1, <2>2 DEF Locals
  <1>3. Apart'
    <2>1. Objects(t)' \subseteq {m}
      BY <1>f DEF Objects
    <2>2. \A u \in Threads \ {t} : Objects(u)' = Objects(u) /\ m \notin Objects(u)
      BY <1>0, <1>f DEF Objects
    <2>3. QED
      BY <2>1, <2>2 DEF Apart
  <1>4. KernelInv'
    BY <1>f DEF KernelInv
  <1>5. RegisteredInv'
    BY <1>f DEF RegisteredInv
  <1>6. HandleInv'
    BY <1>0, <1>a, <1>f DEF HandleInv, TypeOK
  <1>7. MapInv'
    BY <1>0, <1>a, <1>f DEF MapInv, TypeOK
  <1>8. MakingInv'
    BY <1>0, <1>a, <1>f DEF MakingInv, Locals, LocalsOf
  <1>9. ClosingInv'
    BY <1>0, <1>a, <1>f DEF ClosingInv
  <1>10. Referenced'
    BY <1>0, <1>a, <1>f DEF Referenced
  <1>11. RefsExact'
    <2>1. \A k \in Fds : \A e \in Data : registry[k] = e /\ registry'[k] = e =>
              refs'[e] = refs[e] + Share(Null, m, t, k, e)' - Share(Null, m, t, k, e)
      BY <1>0, <1>a, <1>f, Descriptors, ObjectTypes, RegistryAssumption, Counted
         DEF NoArg, Share, One, TypeOK
    <2>2. QED
      BY <1>5, <1>f, <2>1, StillExact
  <1>12. QED
    BY <1>1, <1>2, <1>3, <1>4, <1>5, <1>6, <1>7, <1>8, <1>9, <1>10, <1>11

\* ... but one that failed never counted.
LEMMA UnmapFailedStep ==
    ASSUME IInv, NEW t \in Threads, NEW m \in Maps, ~mok[m], Unmap(t, m)
    PROVE  IInv'
  <1> USE DEF IInv
  <1>0. \A u \in Threads : arg[u].h # m /\ arg[u].src # m /\ arg[u].m # m
    BY NotBusy, ObjectTypes DEF Unmap
  <1>f. /\ UNCHANGED <<kernel, opens, raw, registry, closing, alive, dfd, owns, dfile, refs>>
        /\ UNCHANGED <<hfd, hfile, pc, arg>>
        /\ mdata'[m] = Null /\ mok'[m] = FALSE
        /\ \A n \in Maps \ {m} : mdata'[n] = mdata[n] /\ mok'[n] = mok[n]
    BY DEF Unmap, kernelVars, dataVars, handleVars, TypeOK
  <1>1. TypeOK'
    BY DEF TypeOK, Unmap, kernelVars, dataVars, handleVars
  <1>2. Locals'
    BY <1>0, <1>f, Descriptors, ObjectTypes DEF Locals, LocalsOf, HandleInv, TypeOK
  <1>3. Apart'
    BY <1>0, <1>f DEF Apart, Objects
  <1>4. KernelInv'
    BY <1>f DEF KernelInv
  <1>5. RegisteredInv'
    BY <1>f DEF RegisteredInv
  <1>6. HandleInv'
    BY <1>0, <1>f DEF HandleInv, TypeOK
  <1>7. MapInv'
    BY <1>0, <1>f DEF MapInv, TypeOK
  <1>8. MakingInv'
    BY <1>0, <1>f DEF MakingInv, Locals, LocalsOf
  <1>9. ClosingInv'
    BY <1>0, <1>f DEF ClosingInv
  <1>10. Referenced'
    BY <1>0, <1>f DEF Referenced
  <1>11. RefsExact'
    <2>1. \A k \in Fds : \A e \in Data : registry[k] = e /\ registry'[k] = e =>
              refs'[e] = refs[e] + Share(Null, m, Null, k, e)' - Share(Null, m, Null, k, e)
      BY <1>f, Descriptors, ObjectTypes, RegistryAssumption, Counted DEF Share, One, TypeOK
    <2>2. QED
      BY <1>5, <1>f, <2>1, StillExact
  <1>12. QED
    BY <1>1, <1>2, <1>3, <1>4, <1>5, <1>6, <1>7, <1>8, <1>9, <1>10, <1>11

\* A mapping takes over what was made for it.
LEMMA MapAssignedStep ==
    ASSUME IInv, NEW t \in Threads, MapAssigned(t)
    PROVE  IInv'
  <1> USE DEF IInv
  <1>p. PICK m \in Maps : arg[t].m = m /\ mok[m] = FALSE /\ pc[t] = "mapped"
    BY DEF MapAssigned, Locals, LocalsOf
  <1>0. \A u \in Threads \ {t} : arg[u].h # m /\ arg[u].src # m /\ arg[u].m # m
    BY <1>p, Mine, ObjectTypes DEF Objects
  <1>a. /\ arg[t].fresh \in Data \cup {Null} /\ arg[t].ok \in BOOLEAN
        /\ arg[t].ok => arg[t].fresh # Null /\ registry[dfd[arg[t].fresh]] = arg[t].fresh
    BY DEF TypeOK, Args, MapInv
  <1>f. /\ UNCHANGED <<kernel, opens, raw, registry, closing, alive, dfd, owns, dfile, refs>>
        /\ UNCHANGED <<hfd, hfile>>
        /\ mdata'[m] = arg[t].fresh /\ mok'[m] = arg[t].ok
        /\ \A n \in Maps \ {m} : mdata'[n] = mdata[n] /\ mok'[n] = mok[n]
        /\ \A u \in Threads \ {t} : pc'[u] = pc[u] /\ arg'[u] = arg[u]
        /\ pc'[t] = "idle" /\ arg'[t] = NoArg
    BY <1>p DEF MapAssigned, Leave, NoArg, kernelVars, dataVars, handleVars, TypeOK
  <1>1. TypeOK'
    BY <1>p, <1>a
       DEF TypeOK, MapAssigned, Leave, NoArg, Args, Calls, kernelVars, dataVars, handleVars
  <1>2. Locals'
    <2>1. LocalsOf(t)'
      BY <1>p, <1>0, <1>a, <1>f DEF LocalsOf, NoArg
    <2>2. ASSUME NEW u \in Threads \ {t}
          PROVE  LocalsOf(u)'
      BY <1>p, <1>0, <1>a, <1>f, Descriptors, ObjectTypes DEF Locals, LocalsOf, TypeOK
    <2>3. QED
      BY <2>1, <2>2 DEF Locals
  <1>3. Apart'
    <2>1. Objects(t)' = {} /\ \A u \in Threads \ {t} : Objects(u)' = Objects(u)
      BY <1>f DEF Objects, NoArg
    <2>2. QED
      BY <2>1 DEF Apart
  <1>4. KernelInv'
    BY <1>f DEF KernelInv
  <1>5. RegisteredInv'
    BY <1>f DEF RegisteredInv
  <1>6. HandleInv'
    BY <1>p, <1>0, <1>a, <1>f DEF HandleInv, TypeOK
  <1>7. MapInv'
    BY <1>p, <1>0, <1>a, <1>f DEF MapInv, NoArg, TypeOK
  <1>8. MakingInv'
    BY <1>p, <1>0, <1>a, <1>f DEF MakingInv, Locals, LocalsOf
  <1>9. ClosingInv'
    BY <1>p, <1>0, <1>a, <1>f DEF ClosingInv
  <1>10. Referenced'
    BY <1>p, <1>0, <1>a, <1>f DEF Referenced
  <1>11. RefsExact'
    <2>1. \A k \in Fds : \A e \in Data : registry[k] = e /\ registry'[k] = e =>
              refs'[e] = refs[e] + Share(Null, m, t, k, e)' - Share(Null, m, t, k, e)
      BY <1>p, <1>a, <1>f, Descriptors, ObjectTypes, RegistryAssumption, Counted
         DEF NoArg, Share, One, TypeOK
    <2>2. QED
      BY <1>5, <1>f, <2>1, StillExact
  <1>12. QED
    BY <1>1, <1>2, <1>3, <1>4, <1>5, <1>6, <1>7, <1>8, <1>9, <1>10, <1>11

\* A mapping that was made counts if mmap worked; what its object held before is given up.
LEMMA MapMadeStep ==
    ASSUME IInv, NEW t \in Threads, MapMade(t)
    PROVE  IInv'
  <1> USE DEF IInv
  <1>p. PICK h \in Handles, m \in Maps, d \in Data :
        /\ arg[t].h = h /\ arg[t].m = m /\ arg[t].data = d /\ ~arg[t].ok /\ pc[t] = "map"
        /\ arg[t].src = Null /\ registry[dfd[d]] = d /\ refs[d] > 0
        /\ (mdata[m] = Null \/ mok[m])
    <2>1. pc[t] = "map"
      BY DEF MapMade
    <2>2. /\ arg[t].h \in Handles /\ arg[t].m \in Maps /\ arg[t].fd \in Fds /\ ~arg[t].ok
          /\ arg[t].src = Null /\ hfd[arg[t].h] = arg[t].fd
          /\ arg[t].data = registry[arg[t].fd]
          /\ (mdata[arg[t].m] = Null \/ mok[arg[t].m])
      BY <2>1 DEF Locals, LocalsOf
    <2>3. /\ arg[t].data \in Data /\ registry[dfd[arg[t].data]] = arg[t].data
          /\ refs[arg[t].data] > 0
      BY <2>2, Descriptors, Counted
    <2>4. QED
      BY <2>1, <2>2, <2>3
  <1>q. PICK ok \in BOOLEAN :
        /\ refs' = IF Counts(d, ok) THEN [refs EXCEPT ![d] = @ + 1] ELSE refs
        /\ arg' = [arg EXCEPT ![t].fresh = d, ![t].ok = ok, ![t].data = mdata[m],
                              ![t].fd = IF mdata[m] = Null THEN NoFd ELSE dfd[mdata[m]],
                              ![t].then = "mapped"]
    BY <1>p DEF MapMade
  <1>0. \A u \in Threads \ {t} : arg[u].h # m /\ arg[u].src # m /\ arg[u].m # m
    BY <1>p, Mine, ObjectTypes DEF Objects
  <1>a. mdata[m] # Null =>
        /\ mok[m] /\ mdata[m] \in Data /\ dfd[mdata[m]] \in Fds
        /\ registry[dfd[mdata[m]]] = mdata[m]
    BY <1>p, Counted
  <1>f. /\ UNCHANGED <<kernel, opens, raw, registry, closing, alive, dfd, owns, dfile>>
        /\ UNCHANGED <<hfd, hfile>>
        /\ mdata'[m] = Null /\ mok'[m] = FALSE
        /\ \A n \in Maps \ {m} : mdata'[n] = mdata[n] /\ mok'[n] = mok[n]
        /\ refs'[d] = IF ok THEN refs[d] + 1 ELSE refs[d]
        /\ \A e \in Data \ {d} : refs'[e] = refs[e]
    BY <1>p, <1>q, RegistryAssumption DEF MapMade, Counts, kernelVars, handleVars, TypeOK
  <1>g. /\ \A u \in Threads \ {t} : pc'[u] = pc[u] /\ arg'[u] = arg[u]
        /\ arg'[t].h = h /\ arg'[t].src = Null /\ arg'[t].m = m
        /\ arg'[t].data = mdata[m] /\ arg'[t].fresh = d
        /\ arg'[t].ok = ok /\ arg'[t].then = "mapped"
        /\ pc'[t] = IF mdata[m] = Null THEN "mapped" ELSE "dec"
        /\ pc'[t] \in {"mapped", "dec"}
        /\ mdata[m] # Null => arg'[t].fd = dfd[mdata[m]]
    BY <1>p, <1>q DEF MapMade, TypeOK, Args
  <1>b. \A k \in Fds : registry[k] # Null =>
        /\ refs'[registry[k]] = 0 <=> refs[registry[k]] = 0
        /\ refs'[registry[k]] > 0 <=> refs[registry[k]] > 0
    BY <1>p, <1>f, Counted DEF TypeOK
  <1>1. TypeOK'
    <2>1. /\ kernel' = kernel /\ opens' = opens /\ raw' = raw /\ registry' = registry
          /\ closing' = closing /\ alive' = alive /\ dfd' = dfd /\ owns' = owns
          /\ dfile' = dfile /\ hfd' = hfd /\ hfile' = hfile
      BY <1>f
    <2>2. refs' \in [Data -> Nat]
      BY <1>q DEF TypeOK, Counts
    <2>3. mdata' \in [Maps -> Data \cup {Null}] /\ mok' \in [Maps -> BOOLEAN]
      BY DEF MapMade, TypeOK
    <2>4. pc' \in [Threads -> Calls]
      BY DEF MapMade, TypeOK, Calls
    <2>5. arg' \in [Threads -> Args]
      <3>1. arg[t] \in Args /\ mdata[m] \in Data \cup {Null}
        BY DEF TypeOK
      <3> DEFINE fd == IF mdata[m] = Null THEN NoFd ELSE dfd[mdata[m]]
                 a == [arg[t] EXCEPT !.fresh = d, !.ok = ok, !.data = mdata[m], !.fd = fd,
                                     !.then = "mapped"]
      <3>2. fd \in Fds \cup {NoFd}
        BY <1>a
      <3>3. a \in Args
        <4> HIDE DEF fd
        <4> QED
          BY <3>1, <3>2 DEF Args
      <3>4. arg' = [arg EXCEPT ![t] = a]
        BY <1>q
      <3> HIDE DEF a
      <3>5. QED
        BY <3>3, <3>4 DEF TypeOK
    <2>6. QED
      BY <2>1, <2>2, <2>3, <2>4, <2>5 DEF TypeOK
  <1>2. Locals'
    <2>1. LocalsOf(t)'
      BY <1>p, <1>0, <1>a, <1>f, <1>g DEF LocalsOf
    <2>2. ASSUME NEW u \in Threads \ {t}
          PROVE  LocalsOf(u)'
      BY <1>p, <1>0, <1>a, <1>f, <1>g, Descriptors, ObjectTypes DEF Locals, LocalsOf, TypeOK
    <2>3. QED
      BY <2>1, <2>2 DEF Locals
  <1>3. Apart'
    <2>1. Objects(t)' = Objects(t)
      BY <1>p, <1>g DEF Objects
    <2>2. \A u \in Threads \ {t} : Objects(u)' = Objects(u)
      BY <1>g DEF Objects
    <2>3. QED
      BY <2>1, <2>2 DEF Apart
  <1>4. KernelInv'
    BY <1>f DEF KernelInv
  <1>5. RegisteredInv'
    BY <1>f DEF RegisteredInv
  <1>6. HandleInv'
    BY <1>p, <1>0, <1>a, <1>f, <1>g DEF HandleInv, TypeOK
  <1>7. MapInv'
    BY <1>p, <1>f, <1>g, RegistryAssumption DEF MapInv
  <1>8. MakingInv'
    BY <1>p, <1>f, <1>g, <1>b DEF MakingInv, Locals, LocalsOf
  <1>9. ClosingInv'
    BY <1>p, <1>0, <1>a, <1>f, <1>g DEF ClosingInv
  <1>10. Referenced'
    BY <1>p, <1>f, <1>g, <1>b DEF Referenced
  <1>11. RefsExact'
    <2>1. ASSUME NEW k \in Fds, NEW e \in Data, registry[k] = e
          PROVE  refs'[e] = refs[e] + Share(Null, m, t, k, e)' - Share(Null, m, t, k, e)
      <3>1. e # Null /\ refs[e] \in Nat
        BY RegistryAssumption DEF TypeOK
      <3>2. /\ One(Null \in Handles /\ hfd'[Null] = k) = 0
            /\ One(Null \in Handles /\ hfd[Null] = k) = 0
            /\ One(m \in Maps /\ mok'[m] /\ mdata'[m] = e) = 0
            /\ One(t \in Threads /\ pc[t] = "dec" /\ arg[t].data = e) = 0
            /\ One(t \in Threads /\ arg[t].fresh = e /\ arg[t].ok) = 0
        BY <1>p, <1>f, ObjectTypes DEF One
      <3>3. One(m \in Maps /\ mok[m] /\ mdata[m] = e)
              = One(t \in Threads /\ pc'[t] = "dec" /\ arg'[t].data = e)
        BY <1>a, <1>g, <3>1 DEF One
      <3>4. One(t \in Threads /\ arg'[t].fresh = e /\ arg'[t].ok) = One(d = e /\ ok)
        BY <1>g DEF One
      <3>5. refs'[e] = refs[e] + One(d = e /\ ok)
        BY <1>f, <3>1 DEF One
      <3>6. One(m \in Maps /\ mok[m] /\ mdata[m] = e) \in {0, 1} /\ One(d = e /\ ok) \in {0, 1}
        BY DEF One
      <3>7. QED
        BY <3>1, <3>2, <3>3, <3>4, <3>5, <3>6 DEF Share
    <2>2. /\ UNCHANGED <<dfd, hfd, registry>>
          /\ \A n \in Maps \ {m} : mok'[n] = mok[n] /\ mdata'[n] = mdata[n]
          /\ \A u \in Threads \ {t} : pc'[u] = pc[u] /\ arg'[u] = arg[u]
      BY <1>f, <1>g
    <2>3. QED
      BY <1>5, <2>1, <2>2, StillExact
  <1>12. QED
    BY <1>1, <1>2, <1>3, <1>4, <1>5, <1>6, <1>7, <1>8, <1>9, <1>10, <1>11

\* A reference that is not the last is given up.
LEMMA DecRefStep ==
    ASSUME IInv, NEW t \in Threads, ~LastRef(arg[t].data), DecRef(t)
    PROVE  IInv'
  <1> USE DEF IInv
  <1>p. PICK d \in Data, fd \in Fds :
        /\ arg[t].data = d /\ arg[t].fd = fd /\ pc[t] = "dec" /\ d # Null
        /\ registry[fd] = d /\ dfd[d] = fd /\ refs[d] > 0 /\ refs[d] = Refs(d) /\ refs[d] \in Nat
    <2>1. pc[t] = "dec"
      BY DEF DecRef
    <2>2. /\ arg[t].data \in Data /\ arg[t].fd \in Fds /\ registry[arg[t].fd] = arg[t].data
          /\ dfd[arg[t].data] = arg[t].fd /\ refs[arg[t].data] > 0
      BY <2>1, Counted
    <2>3. arg[t].data # Null
      BY <2>2, RegistryAssumption
    <2>4. refs[arg[t].data] = Refs(arg[t].data) /\ refs[arg[t].data] \in Nat
      BY <2>2, <2>3, Counted DEF TypeOK
    <2>5. QED
      BY <2>1, <2>2, <2>3, <2>4
  <1>h. arg[t].then \in {"idle", "moved", "copied", "mapped"}
    BY DEF TypeOK, Args
  <1>e. /\ refs' = [refs EXCEPT ![d] = @ - 1]
        /\ pc' = [pc EXCEPT ![t] = arg[t].then]
        /\ arg' = IF pc'[t] = "idle" THEN [arg EXCEPT ![t] = NoArg] ELSE arg
        /\ UNCHANGED <<registry, closing, kernelVars, alive, dfd, owns, dfile, handleVars, mapVars>>
        /\ refs[d] > 1
    BY <1>p DEF DecRef, LastRef
  <1>f. /\ UNCHANGED <<kernel, opens, raw, registry, closing, alive, dfd, owns, dfile>>
        /\ UNCHANGED <<hfd, hfile, mdata, mok>>
        /\ refs'[d] = refs[d] - 1
        /\ \A e \in Data \ {d} : refs'[e] = refs[e]
    BY <1>e DEF kernelVars, handleVars, mapVars, TypeOK
  <1>g. /\ \A u \in Threads \ {t} : pc'[u] = pc[u] /\ arg'[u] = arg[u]
        /\ pc'[t] = arg[t].then
        /\ arg'[t] = IF arg[t].then = "idle" THEN NoArg ELSE arg[t]
    BY <1>e DEF TypeOK
  <1>k. /\ pc'[t] # "dec"
        /\ arg'[t].ok <=> arg[t].ok
        /\ arg[t].ok => arg'[t].fresh = arg[t].fresh
    BY <1>h, <1>g DEF Locals, LocalsOf, NoArg
  <1>b. \A k \in Fds : registry[k] # Null =>
        /\ refs'[registry[k]] = 0 <=> refs[registry[k]] = 0
        /\ refs'[registry[k]] > 0 <=> refs[registry[k]] > 0
    BY <1>p, <1>e, <1>f, Counted DEF TypeOK
  <1>1. TypeOK'
    <2>1. refs' \in [Data -> Nat]
      BY <1>e DEF TypeOK
    <2>2. pc' \in [Threads -> Calls] /\ arg' \in [Threads -> Args]
      BY <1>h, <1>e DEF TypeOK, Calls, Args, NoArg
    <2>3. QED
      BY <1>f, <2>1, <2>2 DEF TypeOK
  <1>2. Locals'
    <2>1. arg[t].then = "idle" => LocalsOf(t)'
      BY <1>p, <1>h, <1>f, <1>g DEF LocalsOf, NoArg
    <2>2. arg[t].then # "idle" => LocalsOf(t)'
      BY <1>p, <1>h, <1>f, <1>g, Descriptors, ObjectTypes DEF Locals, LocalsOf, TypeOK, Args
    <2>3. ASSUME NEW u \in Threads \ {t}
          PROVE  LocalsOf(u)'
      BY <1>p, <1>h, <1>f, <1>g, Descriptors, ObjectTypes DEF Locals, LocalsOf, TypeOK
    <2>4. QED
      BY <2>1, <2>2, <2>3 DEF Locals
  <1>3. Apart'
    <2>1. Objects(t)' \subseteq Objects(t)
      BY <1>g DEF Objects, NoArg
    <2>2. \A u \in Threads \ {t} : Objects(u)' = Objects(u)
      BY <1>g DEF Objects
    <2>3. QED
      BY <2>1, <2>2 DEF Apart
  <1>4. KernelInv'
    BY <1>f DEF KernelInv
  <1>5. RegisteredInv'
    BY <1>f DEF RegisteredInv
  <1>6. HandleInv'
    BY <1>p, <1>h, <1>f, <1>g DEF HandleInv, TypeOK
  <1>7. MapInv'
    BY <1>f, <1>g DEF MapInv, NoArg
  <1>8. MakingInv'
    BY <1>p, <1>h, <1>f, <1>g, <1>b DEF MakingInv, Locals, LocalsOf
  <1>9. ClosingInv'
    BY <1>h, <1>f, <1>g DEF ClosingInv
  <1>10. Referenced'
    BY <1>p, <1>f, <1>g, <1>b DEF Referenced
  <1>11. RefsExact'
    <2>1. \A k \in Fds : \A e \in Data : registry[k] = e /\ registry'[k] = e =>
              refs'[e] = refs[e] + Share(Null, Null, t, k, e)' - Share(Null, Null, t, k, e)
      BY <1>p, <1>k, <1>f, Descriptors, ObjectTypes, RegistryAssumption, Counted
         DEF Share, One, TypeOK
    <2>2. QED
      BY <1>5, <1>f, <1>g, <2>1, StillExact
  <1>12. QED
    BY <1>1, <1>2, <1>3, <1>4, <1>5, <1>6, <1>7, <1>8, <1>9, <1>10, <1>11

\* With the last reference the descriptor leaves the registry: nobody else refers to it.
LEMMA LastDecRefStep ==
    ASSUME IInv, NEW t \in Threads, LastRef(arg[t].data), DecRef(t)
    PROVE  IInv'
  <1> USE DEF IInv
  <1>p. PICK d \in Data, fd \in Fds :
        /\ arg[t].data = d /\ arg[t].fd = fd /\ pc[t] = "dec" /\ d # Null
        /\ registry[fd] = d /\ dfd[d] = fd /\ refs[d] > 0 /\ refs[d] = Refs(d) /\ refs[d] \in Nat
    <2>1. pc[t] = "dec"
      BY DEF DecRef
    <2>2. /\ arg[t].data \in Data /\ arg[t].fd \in Fds /\ registry[arg[t].fd] = arg[t].data
          /\ dfd[arg[t].data] = arg[t].fd /\ refs[arg[t].data] > 0
      BY <2>1, Counted
    <2>3. arg[t].data # Null
      BY <2>2, RegistryAssumption
    <2>4. refs[arg[t].data] = Refs(arg[t].data) /\ refs[arg[t].data] \in Nat
      BY <2>2, <2>3, Counted DEF TypeOK
    <2>5. QED
      BY <2>1, <2>2, <2>3, <2>4
  <1>e. /\ refs' = [refs EXCEPT ![d] = @ - 1]
        /\ pc' = [pc EXCEPT ![t] = "destroy"]
        /\ registry' = [registry EXCEPT ![fd] = Null]
        /\ closing' = closing \cup {fd}
        /\ arg' = arg
        /\ UNCHANGED <<kernelVars, alive, dfd, owns, dfile, handleVars, mapVars>>
        /\ refs[d] <= 1
    BY <1>p DEF DecRef, LastRef, TypeOK
  <1>n. /\ \A h \in Handles : hfd[h] # fd
        /\ \A m \in Maps : mok[m] => mdata[m] # d
        /\ \A u \in Threads : arg[u].ok => arg[u].fresh # d
        /\ \A u \in Threads \ {t} : pc[u] = "dec" => arg[u].data # d
    BY <1>p, <1>e, Holders
  <1>c. /\ \A u \in Threads : pc[u] \in {"intern", "count"} => arg[u].fd # fd
        /\ \A u \in Threads : pc[u] \in {"destroy", "unclose"} => arg[u].fd # fd
        /\ d \in alive /\ fd \notin closing /\ dfile[d] = kernel[fd] /\ kernel[fd] # NoFile
        /\ owns[d] <=> fd \notin raw
    BY <1>p, Counted DEF RegisteredInv, ClosingInv
  <1>f. /\ UNCHANGED <<kernel, opens, raw, alive, dfd, owns, dfile>>
        /\ UNCHANGED <<hfd, hfile, mdata, mok, arg>>
        /\ registry'[fd] = Null /\ \A k \in Fds \ {fd} : registry'[k] = registry[k]
        /\ closing' = closing \cup {fd}
        /\ pc'[t] = "destroy" /\ \A u \in Threads \ {t} : pc'[u] = pc[u]
        /\ \A e \in Data \ {d} : refs'[e] = refs[e]
    BY <1>e DEF kernelVars, handleVars, mapVars, TypeOK
  <1>b. \A k \in Fds \ {fd} : registry[k] # Null =>
        registry[k] \in Data \ {d} /\ refs'[registry[k]] = refs[registry[k]]
    BY <1>p, <1>f, Counted
  <1>1. TypeOK'
    <2>1. refs' \in [Data -> Nat]
      BY <1>p, <1>e DEF TypeOK
    <2>2. QED
      BY <1>e, <1>f, <2>1 DEF TypeOK, Calls
  <1>2. Locals'
    <2>1. LocalsOf(t)'
      BY <1>p, <1>n, <1>f DEF Locals, LocalsOf
    <2>2. ASSUME NEW u \in Threads \ {t}
          PROVE  LocalsOf(u)'
      BY <1>p, <1>n, <1>f, Descriptors, ObjectTypes DEF Locals, LocalsOf, TypeOK
    <2>3. QED
      BY <2>1, <2>2 DEF Locals
  <1>3. Apart'
    BY <1>f DEF Apart, Objects
  <1>4. KernelInv'
    BY <1>f DEF KernelInv
  <1>5. RegisteredInv'
    BY <1>c, <1>f DEF RegisteredInv
  <1>6. HandleInv'
    BY <1>n, <1>f DEF HandleInv, TypeOK
  <1>7. MapInv'
    BY <1>p, <1>n, <1>f, Counted DEF MapInv, TypeOK
  <1>8. MakingInv'
    BY <1>p, <1>c, <1>f, <1>b DEF MakingInv, Locals, LocalsOf
  <1>9. ClosingInv'
    BY <1>p, <1>c, <1>f DEF ClosingInv
  <1>10. Referenced'
    BY <1>p, <1>f, <1>b DEF Referenced
  <1>11. RefsExact'
    <2>1. \A k \in Fds : \A e \in Data : registry[k] = e /\ registry'[k] = e =>
              refs'[e] = refs[e] + Share(Null, Null, t, k, e)' - Share(Null, Null, t, k, e)
      BY <1>p, <1>f, <1>b, Descriptors, ObjectTypes, RegistryAssumption, Counted
         DEF Share, One, TypeOK
    <2>2. QED
      BY <1>5, <1>f, <2>1, StillExact
  <1>12. QED
    BY <1>1, <1>2, <1>3, <1>4, <1>5, <1>6, <1>7, <1>8, <1>9, <1>10, <1>11

\* A file is closed when nothing is registered for its descriptor any more.
LEMMA DestroyStep ==
    ASSUME IInv, NEW t \in Threads, Destroy(t)
    PROVE  IInv'
  <1> USE DEF IInv
  <1>p. PICK d \in Data, fd \in Fds :
        /\ arg[t].data = d /\ arg[t].fd = fd /\ pc[t] = "destroy" /\ fd \in closing
        /\ \A u \in Threads \ {t} : pc[u] \in {"destroy", "unclose"} => arg[u].fd # fd
    BY DEF Destroy, Locals, LocalsOf, ClosingInv
  <1>c. /\ registry[fd] = Null /\ dfd[d] = fd /\ (owns[d] => fd \notin raw)
        /\ \A h \in Handles : hfd[h] # fd
        /\ \A u \in Threads : pc[u] \in {"intern", "count"} => arg[u].fd # fd
    <2>1. dfd[d] = fd /\ (owns[d] => fd \notin raw)
      BY <1>p DEF ClosingInv
    <2>2. registry[fd] = Null
      BY <1>p DEF RegisteredInv
    <2>3. \A h \in Handles : hfd[h] # fd
      BY <2>2, Descriptors DEF HandleInv
    <2>4. \A u \in Threads : pc[u] \in {"intern", "count"} => arg[u].fd # fd
      BY <1>p DEF MakingInv
    <2>5. QED
      BY <2>1, <2>2, <2>3, <2>4
  <1>f. /\ UNCHANGED <<opens, raw, registry, closing, dfd, owns, refs, dfile>>
        /\ UNCHANGED <<hfd, hfile, mdata, mok, arg>>
        /\ alive' = alive \ {d}
        /\ kernel'[fd] = (IF owns[d] THEN NoFile ELSE kernel[fd])
        /\ \A k \in Fds \ {fd} : kernel'[k] = kernel[k]
        /\ pc'[t] = "unclose" /\ \A u \in Threads \ {t} : pc'[u] = pc[u]
    BY <1>p, <1>c DEF Destroy, handleVars, mapVars, TypeOK
  <1>1. TypeOK'
    BY <1>p, <1>c DEF TypeOK, Destroy, Calls, NoFile, handleVars, mapVars
  <1>2. Locals'
    <2>1. LocalsOf(t)'
      BY <1>p, <1>f DEF Locals, LocalsOf
    <2>2. ASSUME NEW u \in Threads \ {t}
          PROVE  LocalsOf(u)'
      BY <1>p, <1>f DEF Locals, LocalsOf
    <2>3. QED
      BY <2>1, <2>2 DEF Locals
  <1>3. Apart'
    BY <1>f DEF Apart, Objects
  <1>4. KernelInv'
    BY <1>p, <1>c, <1>f DEF KernelInv, TypeOK, NoFile
  <1>5. RegisteredInv'
    BY <1>p, <1>c, <1>f DEF RegisteredInv
  <1>6. HandleInv'
    BY <1>p, <1>c, <1>f DEF HandleInv, TypeOK
  <1>7. MapInv'
    BY <1>p, <1>c, <1>f DEF MapInv, TypeOK
  <1>8. MakingInv'
    BY <1>p, <1>c, <1>f DEF MakingInv, Locals, LocalsOf
  <1>9. ClosingInv'
    BY <1>p, <1>c, <1>f DEF ClosingInv, Locals, LocalsOf
  <1>10. Referenced'
    BY <1>p, <1>c, <1>f DEF Referenced
  <1>11. RefsExact'
    <2>1. \A k \in Fds : \A e \in Data : registry[k] = e /\ registry'[k] = e =>
              refs'[e] = refs[e] + Share(Null, Null, t, k, e)' - Share(Null, Null, t, k, e)
      BY <1>p, <1>f, Descriptors, ObjectTypes, RegistryAssumption, Counted
         DEF NoArg, Share, One, TypeOK
    <2>2. QED
      BY <1>5, <1>f, <2>1, StillExact
  <1>12. QED
    BY <1>1, <1>2, <1>3, <1>4, <1>5, <1>6, <1>7, <1>8, <1>9, <1>10, <1>11

\* Then the descriptor is no longer being closed.
LEMMA UncloseStep ==
    ASSUME IInv, NEW t \in Threads, Unclose(t)
    PROVE  IInv'
  <1> USE DEF IInv
  <1>p. PICK d \in Data, fd \in Fds :
        /\ arg[t].data = d /\ arg[t].fd = fd /\ pc[t] = "unclose" /\ fd \in closing
        /\ \A u \in Threads \ {t} : pc[u] \in {"destroy", "unclose"} => arg[u].fd # fd
    BY DEF Unclose, Locals, LocalsOf, ClosingInv
  <1>h. arg[t].then \in {"idle", "moved", "copied", "mapped"}
    BY DEF TypeOK, Args
  <1>e. /\ closing' = closing \ {fd}
        /\ pc' = [pc EXCEPT ![t] = arg[t].then]
        /\ arg' = IF arg[t].then = "idle" THEN [arg EXCEPT ![t] = NoArg] ELSE arg
        /\ UNCHANGED <<kernelVars, registry, dataVars, handleVars, mapVars>>
    BY <1>p DEF Unclose, NoLongerClosing
  <1>f. /\ UNCHANGED <<kernel, opens, raw, registry, alive, dfd, owns, dfile, refs>>
        /\ UNCHANGED <<hfd, hfile, mdata, mok>>
        /\ closing' = closing \ {fd}
    BY <1>e DEF kernelVars, dataVars, handleVars, mapVars
  <1>g. /\ \A u \in Threads \ {t} : pc'[u] = pc[u] /\ arg'[u] = arg[u]
        /\ pc'[t] = arg[t].then
        /\ arg'[t] = IF arg[t].then = "idle" THEN NoArg ELSE arg[t]
    BY <1>e DEF TypeOK
  <1>k. /\ pc'[t] # "dec"
        /\ arg'[t].ok <=> arg[t].ok
        /\ arg[t].ok => arg'[t].fresh = arg[t].fresh
    BY <1>h, <1>g DEF Locals, LocalsOf, NoArg
  <1>1. TypeOK'
    <2>1. pc' \in [Threads -> Calls] /\ arg' \in [Threads -> Args]
      BY <1>h, <1>e DEF TypeOK, Calls, Args, NoArg
    <2>2. QED
      BY <1>f, <2>1 DEF TypeOK
  <1>2. Locals'
    <2>1. arg[t].then = "idle" => LocalsOf(t)'
      BY <1>p, <1>h, <1>f, <1>g DEF LocalsOf, NoArg
    <2>2. arg[t].then # "idle" => LocalsOf(t)'
      BY <1>p, <1>h, <1>f, <1>g, Descriptors, ObjectTypes DEF Locals, LocalsOf, TypeOK, Args
    <2>3. ASSUME NEW u \in Threads \ {t}
          PROVE  LocalsOf(u)'
      BY <1>p, <1>h, <1>f, <1>g, Descriptors, ObjectTypes DEF Locals, LocalsOf, TypeOK
    <2>4. QED
      BY <2>1, <2>2, <2>3 DEF Locals
  <1>3. Apart'
    <2>1. Objects(t)' \subseteq Objects(t)
      BY <1>g DEF Objects, NoArg
    <2>2. \A u \in Threads \ {t} : Objects(u)' = Objects(u)
      BY <1>g DEF Objects
    <2>3. QED
      BY <2>1, <2>2 DEF Apart
  <1>4. KernelInv'
    BY <1>f DEF KernelInv
  <1>5. RegisteredInv'
    BY <1>f DEF RegisteredInv
  <1>6. HandleInv'
    BY <1>p, <1>h, <1>f, <1>g DEF HandleInv, TypeOK
  <1>7. MapInv'
    BY <1>f, <1>g DEF MapInv, NoArg
  <1>8. MakingInv'
    BY <1>p, <1>h, <1>f, <1>g DEF MakingInv
  <1>9. ClosingInv'
    BY <1>p, <1>h, <1>f, <1>g DEF ClosingInv
  <1>10. Referenced'
    BY <1>p, <1>h, <1>f, <1>g DEF Referenced
  <1>11. RefsExact'
    <2>1. \A k \in Fds : \A e \in Data : registry[k] = e /\ registry'[k] = e =>
              refs'[e] = refs[e] + Share(Null, Null, t, k, e)' - Share(Null, Null, t, k, e)
      BY <1>p, <1>k, <1>f, Descriptors, ObjectTypes, RegistryAssumption, Counted
         DEF Share, One, TypeOK
    <2>2. QED
      BY <1>5, <1>f, <1>g, <2>1, StillExact
  <1>12. QED
    BY <1>1, <1>2, <1>3, <1>4, <1>5, <1>6, <1>7, <1>8, <1>9, <1>10, <1>11

\* What is made for a descriptor is its own, and nobody has counted it.
LEMMA InternStep ==
    ASSUME IInv, NEW t \in Threads, Intern(t)
    PROVE  IInv'
  <1> USE DEF IInv
  <1>p. PICK fd \in Fds :
        /\ arg[t].fd = fd /\ pc[t] = "intern" /\ fd \notin closing
        /\ registry[fd] = Null /\ kernel[fd] # NoFile
        /\ arg[t].own <=> fd \notin raw
        /\ \A u \in Threads \ {t} :
              pc[u] \in {"intern", "count", "destroy"} => arg[u].fd # fd
    BY DEF Intern, Locals, LocalsOf, MakingInv
  <1>q. PICK d \in Data \ alive :
        /\ alive' = alive \cup {d}
        /\ dfd' = [dfd EXCEPT ![d] = fd]
        /\ owns' = [owns EXCEPT ![d] = arg[t].own]
        /\ refs' = [refs EXCEPT ![d] = 0]
        /\ dfile' = [dfile EXCEPT ![d] = kernel[fd]]
        /\ registry' = [registry EXCEPT ![fd] = d]
    BY <1>p DEF Intern
  <1>e. /\ UNCHANGED <<kernel, opens, raw, closing, hfd, hfile, mdata, mok, arg>>
        /\ pc' = [pc EXCEPT ![t] = "count"]
    BY DEF Intern, kernelVars, handleVars, mapVars
  <1>f. /\ dfd'[d] = fd /\ owns'[d] = arg[t].own /\ refs'[d] = 0 /\ dfile'[d] = kernel[fd]
        /\ \A x \in Data \ {d} : /\ dfd'[x] = dfd[x] /\ owns'[x] = owns[x]
                                 /\ refs'[x] = refs[x] /\ dfile'[x] = dfile[x]
        /\ registry'[fd] = d /\ \A k \in Fds \ {fd} : registry'[k] = registry[k]
        /\ pc'[t] = "count" /\ \A u \in Threads \ {t} : pc'[u] = pc[u]
    BY <1>q, <1>e DEF TypeOK
  <1>b. /\ \A k \in Fds : registry[k] # Null => k # fd /\ registry[k] \in Data \ {d}
        /\ \A h \in Handles : hfd[h] # fd
        /\ \A m \in Maps : mok[m] => mdata[m] \in Data \ {d} /\ dfd[mdata[m]] \in Fds \ {fd}
        /\ \A u \in Threads : arg[u].ok =>
                                 arg[u].fresh \in Data \ {d} /\ dfd[arg[u].fresh] \in Fds \ {fd}
        /\ \A u \in Threads : pc[u] = "dec" => arg[u].data \in Data \ {d} /\ arg[u].fd # fd
        /\ \A u \in Threads : pc[u] = "destroy" => arg[u].data \in Data \ {d}
    <2>1. \A k \in Fds : registry[k] # Null => k # fd /\ registry[k] \in Data \ {d}
      BY <1>p, <1>q, Counted DEF RegisteredInv
    <2>2. \A h \in Handles : hfd[h] # fd
      BY <1>p, Descriptors DEF HandleInv
    <2>3. \A m \in Maps : mok[m] => mdata[m] \in Data \ {d} /\ dfd[mdata[m]] \in Fds \ {fd}
      BY <1>p, <2>1, Counted DEF MapInv
    <2>4. \A u \in Threads : arg[u].ok =>
              arg[u].fresh \in Data \ {d} /\ dfd[arg[u].fresh] \in Fds \ {fd}
      BY <1>p, <2>1, Counted DEF MapInv
    <2>5. \A u \in Threads : pc[u] = "dec" => arg[u].data \in Data \ {d} /\ arg[u].fd # fd
      BY <1>p, <2>1, Counted, RegistryAssumption
    <2>6. \A u \in Threads : pc[u] = "destroy" => arg[u].data \in Data \ {d}
      BY <1>q DEF ClosingInv, Locals, LocalsOf
    <2>7. QED
      BY <2>1, <2>2, <2>3, <2>4, <2>5, <2>6
  <1>1. TypeOK'
    <2>1. arg[t].own \in BOOLEAN
      BY DEF TypeOK, Args
    <2>2. QED
      BY <1>p, <1>q, <1>e, <2>1 DEF TypeOK, Calls
  <1>2. Locals'
    <2>1. LocalsOf(t)'
      BY <1>p, <1>e, <1>f, <1>b DEF Locals, LocalsOf
    <2>2. ASSUME NEW u \in Threads \ {t}
          PROVE  LocalsOf(u)'
      BY <1>p, <1>e, <1>f, <1>b, Descriptors, ObjectTypes, RegistryAssumption
         DEF Locals, LocalsOf, TypeOK
    <2>3. QED
      BY <2>1, <2>2 DEF Locals
  <1>3. Apart'
    BY <1>e DEF Apart, Objects
  <1>4. KernelInv'
    BY <1>e DEF KernelInv
  <1>5. RegisteredInv'
    BY <1>p, <1>q, <1>e, <1>f, <1>b DEF RegisteredInv
  <1>6. HandleInv'
    BY <1>p, <1>e, <1>f, <1>b DEF HandleInv, TypeOK
  <1>7. MapInv'
    BY <1>e, <1>f, <1>b DEF MapInv
  <1>8. MakingInv'
    BY <1>p, <1>e, <1>f, <1>b, RegistryAssumption DEF MakingInv, Locals, LocalsOf
  <1>9. ClosingInv'
    BY <1>p, <1>q, <1>e, <1>f, <1>b DEF ClosingInv, Locals, LocalsOf
  <1>10. Referenced'
    BY <1>p, <1>e, <1>f, <1>b DEF Referenced
  <1>11. RefsExact'
    <2>1. ASSUME NEW k \in Fds \ {fd}, NEW x \in Data \ {d}, registry[k] = x
          PROVE  x \in alive' /\ dfd'[x] = k /\ refs'[x] = Refs(x)'
      <3>1. dfd[x] = k /\ refs[x] = Refs(x) /\ x \in alive'
        BY <1>q, <2>1, Counted, RegistryAssumption DEF RegisteredInv
      <3>2. /\ HandlesOf(x)' = HandlesOf(x) /\ MapsOf(x)' = MapsOf(x)
            /\ DecsOf(x)' = DecsOf(x) /\ NewsOf(x)' = NewsOf(x)
        BY <1>p, <1>e, <1>f DEF HandlesOf, MapsOf, DecsOf, NewsOf
      <3>3. QED
        BY <1>f, <3>1, <3>2 DEF Refs
    <2>2. refs'[d] = Refs(d)'
      <3>1. HandlesOf(d)' = {} /\ MapsOf(d)' = {} /\ DecsOf(d)' = {} /\ NewsOf(d)' = {}
        BY <1>p, <1>e, <1>f, <1>b DEF HandlesOf, MapsOf, DecsOf, NewsOf
      <3>2. QED
        BY <1>f, <3>1, FS_EmptySet DEF Refs
    <2>3. QED
      BY <1>q, <1>f, <1>b, <2>1, <2>2 DEF RefsExact, Refs
  <1>12. QED
    BY <1>1, <1>2, <1>3, <1>4, <1>5, <1>6, <1>7, <1>8, <1>9, <1>10, <1>11

\* Every step of the program
LEMMA IInvStep ==
    ASSUME ~SharedWraps, ~FailedRemap, IInv, [Next]_vars
    PROVE  IInv'
  <1>1. CASE UNCHANGED vars
    <2>1. /\ UNCHANGED <<kernel, opens, raw, registry, closing, alive, dfd, owns, refs, dfile>>
          /\ UNCHANGED <<hfd, hfile, mdata, mok, pc, arg>>
      BY <1>1 DEF vars, kernelVars, dataVars, handleVars, mapVars
    <2>2. TypeOK' /\ Locals' /\ Apart'
      <3>1. TypeOK'
        BY <2>1 DEF IInv, TypeOK
      <3>2. Locals'
        BY <2>1 DEF IInv, Locals, LocalsOf
      <3>3. Apart'
        <4>1. \A u \in Threads : Objects(u)' = Objects(u)
          BY <2>1 DEF Objects
        <4>2. QED
          BY <4>1 DEF IInv, Apart
      <3>4. QED
        BY <3>1, <3>2, <3>3
    <2>3. KernelInv' /\ RegisteredInv' /\ HandleInv' /\ MapInv'
      BY <2>1 DEF IInv, KernelInv, RegisteredInv, HandleInv, MapInv
    <2>4. MakingInv' /\ ClosingInv' /\ Referenced'
      BY <2>1 DEF IInv, MakingInv, ClosingInv, Referenced
    <2>5. RefsExact'
      <3>1. \A d : /\ HandlesOf(d)' = HandlesOf(d) /\ MapsOf(d)' = MapsOf(d)
                   /\ DecsOf(d)' = DecsOf(d) /\ NewsOf(d)' = NewsOf(d)
        BY <2>1 DEF HandlesOf, MapsOf, DecsOf, NewsOf
      <3>2. QED
        BY <2>1, <3>1 DEF IInv, RefsExact
    <2>6. QED
      BY <2>2, <2>3, <2>4, <2>5 DEF IInv
  <1>2. ASSUME NEW t \in Threads, Step(t)
        PROVE  IInv'
    <2>1. CASE Intern(t) \/ Count(t)
      BY <2>1, InternStep, CountStep
    <2>2. CASE EndUse(t)
      BY <2>2, EndUseStep
    <2>3. CASE DecRef(t)
      BY <2>3, DecRefStep, LastDecRefStep
    <2>4. CASE Destroy(t) \/ Unclose(t)
      BY <2>4, DestroyStep, UncloseStep
    <2>5. CASE AssignMoved(t) \/ AssignCopied(t)
      BY <2>5, AssignMovedStep, AssignCopiedStep
    <2>6. CASE MapMade(t) \/ MapAssigned(t)
      BY <2>6, MapMadeStep, MapAssignedStep
    <2>7. QED
      BY <1>2, <2>1, <2>2, <2>3, <2>4, <2>5, <2>6 DEF Step
  <1>3. ASSUME NEW t \in Threads, Call(t)
        PROVE  IInv'
    <2>1. ASSUME NEW h \in Handles, Open(t, h) \/ Use(t, h) \/ Drop(t, h)
          PROVE  IInv'
      BY <2>1, OpenStep, UseStep, DropStep
    <2>2. ASSUME NEW h \in Handles, NEW fd \in Fds, From(t, h, fd) \/ Wrap(t, h, fd)
          PROVE  IInv'
      BY <2>2, FromStep, WrapStep
    <2>3. ASSUME NEW g \in Handles, NEW h \in Handles, Copy(t, g, h) \/ Move(t, g, h)
          PROVE  IInv'
      BY <2>3, CopyStep, MoveStep
    <2>4. ASSUME NEW g \in Handles, NEW h \in Handles,
                 Assign(t, g, h, "moved") \/ Assign(t, g, h, "copied")
          PROVE  IInv'
      BY <2>4, AssignStep
    <2>5. ASSUME NEW h \in Handles, NEW m \in Maps, Remap(t, h, m)
          PROVE  IInv'
      BY <2>5, RemapStep
    <2>6. ASSUME NEW m \in Maps, Unmap(t, m)
          PROVE  IInv'
      BY <2>6, UnmapStep, UnmapFailedStep
    <2>7. QED
      BY <1>3, <2>1, <2>2, <2>3, <2>4, <2>5, <2>6 DEF Call
  <1>4. CASE RawOpen
    BY <1>4, RawOpenStep
  <1>5. ASSUME NEW fd \in Fds, RawClose(fd)
        PROVE  IInv'
    BY <1>5, RawCloseStep
  <1>6. QED
    BY <1>1, <1>2, <1>3, <1>4, <1>5 DEF Next

LEMMA IInvInit == Init => IInv
  <1> SUFFICES ASSUME Init
               PROVE  IInv
    OBVIOUS
  <1>1. TypeOK
    BY RegistryAssumption DEF Init, TypeOK, Fds, Files, NoFd, NoFile, NoArg, Args, Calls
  <1>2. Locals /\ Apart
    BY DEF Init, Locals, LocalsOf, Apart, Objects, NoArg
  <1>3. KernelInv
    BY DEF Init, KernelInv, NoFile
  <1>4. RegisteredInv /\ Referenced /\ RefsExact
    BY DEF Init, RegisteredInv, Referenced, RefsExact
  <1>5. HandleInv /\ MapInv
    BY DEF Init, HandleInv, MapInv, NoArg
  <1>6. MakingInv /\ ClosingInv
    BY DEF Init, MakingInv, ClosingInv
  <1>7. QED
    BY <1>1, <1>2, <1>3, <1>4, <1>5, <1>6 DEF IInv

LEMMA RegistryInvariance == ASSUME ~SharedWraps, ~FailedRemap PROVE Spec => []IInv
  <1>1. IInv /\ [Next]_vars => IInv'
    BY IInvStep
  <1>2. QED
    BY IInvInit, <1>1, PTL DEF Spec

-----------------------------------------------------------------------------
(* Theorems *)

\* FdHandle.cpp's registry, closing set and counts, and all that its callers hold, keep their
\* types.
THEOREM RegistryTypeCorrect == ASSUME ~SharedWraps, ~FailedRemap PROVE Spec => []TypeOK
  <1>1. IInv => TypeOK
    BY DEF IInv
  <1>2. QED
    BY RegistryInvariance, <1>1, PTL

\* getHandleData never finds another file's data under a handle's number, however often the
\* kernel gave the number to somebody else.
THEOREM HandlesMeanTheirFiles ==
    ASSUME ~SharedWraps, ~FailedRemap
    PROVE  Spec => []HandleMeansItsFile
  <1>1. IInv => HandleMeansItsFile
    <2> SUFFICES ASSUME IInv, NEW h \in Handles, hfd[h] # NoFd
                 PROVE  /\ registry[hfd[h]] # Null
                        /\ dfile[registry[hfd[h]]] = hfile[h]
                        /\ kernel[hfd[h]] = hfile[h]
      BY DEF HandleMeansItsFile
    <2>1. hfd[h] \in Fds /\ registry[hfd[h]] # Null
      BY Counted
    <2>2. hfile[h] = kernel[hfd[h]]
      BY DEF IInv, HandleInv
    <2>3. dfile[registry[hfd[h]]] = kernel[hfd[h]]
      BY <2>1 DEF IInv, RegisteredInv
    <2>4. QED
      BY <2>1, <2>2, <2>3
  <1>2. QED
    BY RegistryInvariance, <1>1, PTL

\* FdHandleData::refs counts the handles, the mappings and the calls that hold a reference,
\* at every step between the lookups and the counting.
THEOREM RefsStayExact == ASSUME ~SharedWraps, ~FailedRemap PROVE Spec => []RefsExact
  <1>1. IInv => RefsExact
    BY DEF IInv
  <1>2. QED
    BY RegistryInvariance, <1>1, PTL

\* The FdHandleData that a call looked up under the mutex outlives the call's use of it, and so
\* does that of a mapping.
THEOREM PointersStayAlive == ASSUME ~SharedWraps, ~FailedRemap PROVE Spec => []PointersAlive
  <1>1. IInv => PointersAlive
    <2> SUFFICES ASSUME IInv
                 PROVE  PointersAlive
      OBVIOUS
    <2>1. \A fd \in Fds : registry[fd] # Null => registry[fd] \in alive
      BY DEF IInv, RegisteredInv
    <2>2. ASSUME NEW t \in Threads, pc[t] \in {"use", "map"}
          PROVE  arg[t].data \in alive
      <3>1. hfd[arg[t].h] = arg[t].fd /\ arg[t].h \in Handles /\ arg[t].fd \in Fds
            /\ arg[t].data = registry[arg[t].fd]
        BY <2>2 DEF IInv, Locals, LocalsOf
      <3>2. QED
        BY <2>1, <3>1, Counted, Descriptors
    <2>3. \A t \in Threads : pc[t] = "dec" => arg[t].data \in alive
      BY <2>1, Counted, RegistryAssumption
    <2>4. \A t \in Threads : pc[t] = "destroy" => arg[t].data \in alive
      BY DEF IInv, ClosingInv
    <2>5. \A t \in Threads : arg[t].ok => arg[t].fresh \in alive
      BY <2>1, Counted, RegistryAssumption
    <2>6. \A m \in Maps : mok[m] => mdata[m] \in alive
      BY <2>1, Counted, RegistryAssumption
    <2>7. QED
      BY <2>2, <2>3, <2>4, <2>5, <2>6 DEF PointersAlive
  <1>2. QED
    BY RegistryInvariance, <1>1, PTL

\* A file that nothing is registered for, and that nobody is making a handle of, nobody means.
LEMMA NobodyMeans ==
    ASSUME IInv, NEW fd \in Fds, kernel[fd] # NoFile, registry[fd] = Null,
           \A t \in Threads : pc[t] \in {"intern", "count"} => arg[t].fd # fd
    PROVE  /\ \A h \in Handles : hfile[h] # kernel[fd]
           /\ \A m \in Maps : mok[m] => dfile[mdata[m]] # kernel[fd]
           /\ \A t \in Threads : pc[t] \in {"intern", "count"} => arg[t].file # kernel[fd]
           /\ \A t \in Threads : pc[t] \in {"use", "map", "dec"} =>
                                    dfile[arg[t].data] # kernel[fd]
  <1> USE DEF IInv
  <1>1. /\ \A k \in Fds : kernel[k] = kernel[fd] => k = fd
        /\ \A k \in Fds : registry[k] # Null => dfile[registry[k]] = kernel[k]
    BY DEF KernelInv, RegisteredInv
  <1>2. \A h \in Handles : hfile[h] # kernel[fd]
    BY <1>1, Counted DEF HandleInv
  <1>3. \A m \in Maps : mok[m] => dfile[mdata[m]] # kernel[fd]
    BY <1>1, Counted, RegistryAssumption
  <1>4. ASSUME NEW t \in Threads, pc[t] \in {"intern", "count"}
        PROVE  arg[t].file # kernel[fd]
    <2>1. arg[t].fd \in Fds /\ arg[t].file = kernel[arg[t].fd]
      BY <1>4 DEF Locals, LocalsOf, MakingInv
    <2>2. QED
      BY <1>1, <1>4, <2>1
  <1>5. ASSUME NEW t \in Threads, pc[t] \in {"use", "map", "dec"}
        PROVE  dfile[arg[t].data] # kernel[fd]
    <2>1. arg[t].fd \in Fds /\ arg[t].data = registry[arg[t].fd] /\ registry[arg[t].fd] # Null
      <3>1. CASE pc[t] = "dec"
        BY <3>1, Counted, RegistryAssumption
      <3>2. CASE pc[t] \in {"use", "map"}
        <4>1. /\ arg[t].h \in Handles /\ hfd[arg[t].h] = arg[t].fd /\ arg[t].fd \in Fds
              /\ arg[t].data = registry[arg[t].fd]
          BY <3>2 DEF Locals, LocalsOf
        <4>2. QED
          BY <4>1, Counted, Descriptors
      <3>3. QED
        BY <1>5, <3>1, <3>2
    <2>2. QED
      BY <1>1, <2>1
  <1>6. QED
    BY <1>2, <1>3, <1>4, <1>5

\* Which steps change what a descriptor names
LEMMA KernelChange ==
    ASSUME IInv, Next, NEW fd \in Fds, kernel'[fd] # kernel[fd], kernel[fd] # NoFile
    PROVE  \/ RawClose(fd)
           \/ \E t \in Threads : Destroy(t) /\ dfd[arg[t].data] = fd
  <1>1. ASSUME NEW t \in Threads, Step(t)
        PROVE  Destroy(t) /\ dfd[arg[t].data] = fd
    <2>1. CASE Destroy(t)
      BY <2>1 DEF Destroy, IInv, TypeOK
    <2>2. CASE ~Destroy(t)
      BY <1>1, <2>2 DEF Step, Intern, Count, EndUse, DecRef, Unclose, AssignMoved, AssignCopied,
                        MapMade, MapAssigned, kernelVars
    <2>3. QED
      BY <2>1, <2>2
  <1>2. ASSUME NEW t \in Threads, Call(t)
        PROVE  FALSE
    <2>1. ASSUME NEW h \in Handles, Open(t, h)
          PROVE  FALSE
      BY <2>1 DEF Open, LowestFree, IInv, TypeOK
    <2>2. ASSUME ~\E h \in Handles : Open(t, h)
          PROVE  FALSE
      <3>1. CASE \E h, g \in Handles : \/ Use(t, h) \/ Drop(t, h) \/ Copy(t, g, h)
                                        \/ Move(t, g, h) \/ Assign(t, g, h, "moved")
                                        \/ Assign(t, g, h, "copied")
        BY <3>1 DEF Use, Drop, Copy, Move, Assign, kernelVars
      <3>2. CASE \E h \in Handles, f \in Fds : From(t, h, f) \/ Wrap(t, h, f)
        BY <3>2 DEF From, Wrap, kernelVars
      <3>3. CASE \E m \in Maps : Unmap(t, m) \/ \E h \in Handles : Remap(t, h, m)
        BY <3>3 DEF Remap, Unmap, kernelVars
      <3>4. QED
        BY <1>2, <2>2, <3>1, <3>2, <3>3 DEF Call
    <2>3. QED
      BY <2>1, <2>2
  <1>3. ASSUME RawOpen
        PROVE  FALSE
    BY <1>3 DEF RawOpen, LowestFree, IInv, TypeOK
  <1>4. ASSUME NEW k \in Fds, RawClose(k)
        PROVE  RawClose(fd)
    BY <1>4 DEF RawClose, IInv, TypeOK
  <1>5. QED
    BY <1>1, <1>2, <1>3, <1>4 DEF Next

\* ~FdHandleData and the program's own close take a file away from nobody.
THEOREM NeverClosedInUse ==
    ASSUME ~SharedWraps, ~FailedRemap
    PROVE  Spec => ClosedOnlyWhenUnused
  <1> DEFINE Unused == \A fd \in Fds : kernel[fd] # NoFile /\ kernel'[fd] # kernel[fd] =>
          /\ \A h \in Handles : hfile[h] # kernel[fd]
          /\ \A m \in Maps : mok[m] => dfile[mdata[m]] # kernel[fd]
          /\ \A t \in Threads : pc[t] \in {"intern", "count"} => arg[t].file # kernel[fd]
          /\ \A t \in Threads : pc[t] \in {"use", "map", "dec"} =>
                                   dfile[arg[t].data] # kernel[fd]
  <1>1. IInv /\ [Next]_vars => [Unused]_vars
    <2> SUFFICES ASSUME IInv, Next, NEW fd \in Fds, kernel[fd] # NoFile, kernel'[fd] # kernel[fd]
                 PROVE  /\ \A h \in Handles : hfile[h] # kernel[fd]
                        /\ \A m \in Maps : mok[m] => dfile[mdata[m]] # kernel[fd]
                        /\ \A t \in Threads : pc[t] \in {"intern", "count"} =>
                                                 arg[t].file # kernel[fd]
                        /\ \A t \in Threads : pc[t] \in {"use", "map", "dec"} =>
                                                 dfile[arg[t].data] # kernel[fd]
      OBVIOUS
    <2>1. /\ registry[fd] = Null
          /\ \A t \in Threads : pc[t] \in {"intern", "count"} => arg[t].fd # fd
      <3>1. CASE RawClose(fd)
        BY <3>1, NotInUse DEF RawClose
      <3>2. ASSUME NEW t \in Threads, Destroy(t), dfd[arg[t].data] = fd
            PROVE  /\ registry[fd] = Null
                   /\ \A u \in Threads : pc[u] \in {"intern", "count"} => arg[u].fd # fd
        <4>1. arg[t].fd = fd /\ fd \in closing /\ pc[t] = "destroy"
          BY <3>2 DEF IInv, ClosingInv, Destroy
        <4>2. QED
          BY <4>1 DEF IInv, RegisteredInv, MakingInv
      <3>3. QED
        BY <3>1, <3>2, KernelChange
    <2>2. QED
      BY <2>1, NobodyMeans
  <1>2. QED
    BY RegistryInvariance, <1>1, PTL DEF Spec, ClosedOnlyWhenUnused
=============================================================================
