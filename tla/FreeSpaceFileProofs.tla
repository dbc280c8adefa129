-------------------------- MODULE FreeSpaceFileProofs --------------------------
(***************************************************************************)
(* What FreeSpaceFile keeps of the regions of a file, for every number of  *)
(* threads, all lengths and every bound.                                   *)
(*                                                                         *)
(* Types hold whoever calls.  That regions do not overlap and stay inside  *)
(* the file is proved of programs that make one call at a time (Serial):   *)
(* of others it is false, as the run free_space_threads shows.             *)
(***************************************************************************)
EXTENDS FreeSpaceFile, WellFoundedInduction, TLAPS

(***************************************************************************)
(* The invariants                                                          *)
(***************************************************************************)

\* What the local variables of each call may be
LocalTypes ==
    /\ wanted \in [Callers -> [offset : Nat, size : Nat]]
    /\ got \in [Callers -> [offset : Nat, size : Nat]]
    /\ \A t \in Callers :
          /\ inCall[t] # "idle" => wanted[t] \in Regions
          /\ inCall[t] \in {"remove", "extend"} => got[t] \in Regions
          /\ inCall[t] = "write" => got[t].size = NodeSize
          /\ inCall[t] \in {"extend", "write"} => got[t].offset + got[t].size <= MaxFileEnd

Types == SpaceTypeOK /\ LocalTypes

\* One call at a time
Alone == \A t, u \in Callers : inCall[t] # "idle" /\ inCall[u] # "idle" => t = u

\* Free regions are in the file, too.
FreeInside == \A r \in freeRegions : r.offset + r.size <= fileEnd

\* Between two steps of a call: what it found is still free, and fits; the end that it saw
\* is still the end; and nothing else lies where the region is that it gives back.
CallGoesOn ==
    \A t \in Callers :
        /\ inCall[t] = "remove" => got[t] \in freeRegions /\ wanted[t].size <= got[t].size
        /\ inCall[t] \in {"extend", "write"} => got[t].offset >= fileEnd
        /\ inCall[t] \in {"node", "write"} =>
              /\ wanted[t].offset + wanted[t].size <= fileEnd
              /\ \A h \in inUse : ~Overlap(h.region, wanted[t])
              /\ \A r \in freeRegions \cup treeNodes : ~Overlap(r, wanted[t])

IInv == Types /\ Alone /\ FreeInside /\ CallGoesOn /\ RegionsDisjoint /\ InsideFile

-----------------------------------------------------------------------------
(* Arithmetic and orders *)

LEMMA LengthType == \A n \in Lengths : n \in Nat /\ n > 0
  BY FreeSpaceAssumption

LEMMA RegionType ==
    \A r \in Regions : /\ r.offset \in 0 .. MaxFileEnd /\ r.offset \in Nat
                       /\ r.size \in Lengths /\ r.size \in Nat /\ r.size > 0
                       /\ r = [offset |-> r.offset, size |-> r.size]
                       /\ r \in [offset : Nat, size : Nat]
  <1> SUFFICES ASSUME NEW r \in Regions
               PROVE  /\ r.offset \in 0 .. MaxFileEnd /\ r.offset \in Nat
                      /\ r.size \in Lengths /\ r.size \in Nat /\ r.size > 0
                      /\ r = [offset |-> r.offset, size |-> r.size]
                      /\ r \in [offset : Nat, size : Nat]
    OBVIOUS
  <1>1. r.offset \in 0 .. MaxFileEnd /\ r.size \in Lengths
    BY DEF Regions
  <1>2. r = [offset |-> r.offset, size |-> r.size]
    BY DEF Regions
  <1>3. r.offset \in Nat
    BY <1>1, FreeSpaceAssumption
  <1>4. r.size \in Nat /\ r.size > 0
    BY <1>1, LengthType
  <1>5. r \in [offset : Nat, size : Nat]
    BY <1>2, <1>3, <1>4
  <1>6. QED
    BY <1>1, <1>2, <1>3, <1>4, <1>5

LEMMA PaddedUp ==
    ASSUME NEW e \in Nat
    PROVE  PaddedEnd(e) \in Nat /\ e <= PaddedEnd(e)
  <1> DEFINE q == (e + Align - 1) \div Align
  <1>1. Align \in Nat /\ Align > 0
    BY FreeSpaceAssumption
  <1>2. q \in Nat /\ Align * q <= e + Align - 1 /\ e + Align - 1 < Align * q + Align
    BY <1>1
  <1>3. Align * q = q * Align /\ q * Align \in Nat
    BY <1>1, <1>2
  <1>4. PaddedEnd(e) = q * Align
    BY DEF PaddedEnd
  <1> HIDE DEF q
  <1>5. QED
    BY <1>1, <1>2, <1>3, <1>4

\* Every set of numbers has a least one.
LEMMA LeastNumber ==
    ASSUME NEW T, T \subseteq Nat, T # {}
    PROVE  \E n \in T : \A m \in T : n <= m
  <1>1. PICK n \in T : \A m \in T : <<m, n>> \notin OpToRel(<, Nat)
    BY NatLessThanWellFounded, WFMin
  <1>2. \A m \in T : ~(m < n)
    BY <1>1 DEF OpToRel
  <1>3. \A m \in T : m \in Nat
    OBVIOUS
  <1>4. QED
    BY <1>2, <1>3

\* findNext finds a region that fits if there is one.
LEMMA BestFits ==
    ASSUME SpaceTypeOK, NEW length, Fitting(length) # {}
    PROVE  BestFit(length) \in Fitting(length)
  <1> DEFINE F == Fitting(length)
             sizes == {r.size : r \in F}
  <1>1. \A r \in F : r \in freeRegions /\ r = [offset |-> r.offset, size |-> r.size]
                      /\ r.offset \in Nat /\ r.size \in Nat
    BY RegionType DEF Fitting, SpaceTypeOK
  <1>2. PICK n \in sizes : \A m \in sizes : n <= m
    BY <1>1, LeastNumber
  <1> DEFINE offsets == {r.offset : r \in {s \in F : s.size = n}}
  <1>3. PICK o \in offsets : \A m \in offsets : o <= m
    BY <1>1, LeastNumber
  <1>4. PICK b \in F : b.size = n /\ b.offset = o
    BY <1>3
  <1>5. \A s \in F : s = b \/ SortsBefore(b, s)
    BY <1>1, <1>2, <1>3, <1>4 DEF SortsBefore
  <1> HIDE DEF F
  <1>6. QED
    BY <1>4, <1>5 DEF BestFit, F
-----------------------------------------------------------------------------
(* Types *)

LEMMA TypesInit == SpaceInit => Types
  BY FreeSpaceAssumption DEF SpaceInit, Types, SpaceTypeOK, LocalTypes, Region, NoRegion

LEMMA GiveType ==
    ASSUME NEW t \in Callers, NEW start, NEW length, Give(t, start, length),
           Region(start, length) \in Regions, \A h \in inUse : h.region \in Regions
    PROVE  \A h \in inUse' : h.region \in Regions
  BY DEF Give

LEMMA TypesStep == Types /\ [SpaceNext]_spaceVars => Types'
  <1> SUFFICES ASSUME Types, [SpaceNext]_spaceVars
               PROVE  Types'
    OBVIOUS
  <1> USE FreeSpaceAssumption
  <1>0. Types /\ \A n \in Lengths : n \in Nat /\ n > 0
    BY LengthType
  <1>1. ASSUME NEW t \in Callers, NEW n \in Lengths, GetFreeRegion(t, n)
        PROVE  Types'
    <2>1. CASE Fitting(n) # {}
      <3>1. BestFit(n) \in Regions
        BY <2>1, BestFits DEF Fitting, Types, SpaceTypeOK
      <3>2. QED
        <4>1. SpaceTypeOK'
          BY <1>0, <1>1, <2>1 DEF GetFreeRegion, MayCall, GotoStep, Types, SpaceTypeOK
        <4>2. LocalTypes'
          <5>1. Region(0, n) \in Regions /\ Region(0, n) \in [offset : Nat, size : Nat]
            BY <1>0 DEF Regions, Region
          <5>2. QED
            BY <1>1, <2>1, <3>1, <5>1, RegionType
               DEF GetFreeRegion, MayCall, GotoStep, Types, SpaceTypeOK, LocalTypes
        <4>3. QED
          BY <4>1, <4>2 DEF Types
    <2>2. CASE Fitting(n) = {}
      BY <1>0, <1>1, <2>2
      DEF GetFreeRegion, MayCall, GotoStep, Types, SpaceTypeOK, LocalTypes, Regions, Region
    <2>3. QED
      BY <2>1, <2>2
  <1>2. ASSUME NEW t \in Callers, RemoveFound(t)
        PROVE  Types'
    <2>1. Region(got[t].offset, wanted[t].size) \in Regions
      BY <1>2 DEF RemoveFound, Types, LocalTypes, Regions, Region
    <2>2. \A h \in inUse' : h.region \in Regions
      BY <1>2, <2>1, GiveType DEF RemoveFound, Types, SpaceTypeOK
    <2>3. QED
      BY <1>0, <1>2, <2>2
         DEF RemoveFound, RemovedRegion, ReturnFrom, GotoStep, Types, SpaceTypeOK, LocalTypes,
             Regions, NoRegion, Region
  <1>3. ASSUME NEW t \in Callers, SeekEnd(t)
        PROVE  Types'
    <2>1. PaddedEnd(fileEnd) \in Nat
      BY PaddedUp DEF Types, SpaceTypeOK
    <2> HIDE DEF PaddedEnd
    <2>2. wanted[t].size \in Lengths
      BY <1>3 DEF SeekEnd, Types, LocalTypes, Regions
    <2>3. QED
      BY <1>0, <1>3, <2>1, <2>2
         DEF SeekEnd, GotoStep, Types, SpaceTypeOK, LocalTypes, Regions, Region
  <1>4. ASSUME NEW t \in Callers, Extend(t)
        PROVE  Types'
    <2>1. /\ Region(got[t].offset, got[t].size) \in Regions
          /\ got[t].offset + got[t].size \in 0 .. MaxFileEnd
      BY <1>0, <1>4 DEF Extend, Types, LocalTypes, Regions, Region
    <2>2. \A h \in inUse' : h.region \in Regions
      BY <1>4, <2>1, GiveType DEF Extend, Types, SpaceTypeOK
    <2>3. QED
      BY <1>0, <1>4, <2>1, <2>2
         DEF Extend, Extended, ReturnFrom, GotoStep, Types, SpaceTypeOK, LocalTypes, Regions,
             NoRegion, Region
  <1>5. ASSUME NEW t \in Callers, NEW h \in inUse, NEW n \in Lengths, MarkFreeRegion(t, h, n)
        PROVE  Types'
    <2>1. Region(h.region.offset, n) \in Regions
      BY <1>0 DEF Types, SpaceTypeOK, Regions, Region
    <2>2. SpaceTypeOK'
      BY <1>0, <1>5, <2>1 DEF MarkFreeRegion, LockedBy, MayCall, GotoStep, Types, SpaceTypeOK
    <2>3. LocalTypes'
      BY <1>5, <2>1, RegionType
      DEF MarkFreeRegion, MayCall, GotoStep, Types, SpaceTypeOK, LocalTypes
    <2>4. QED
      BY <2>2, <2>3 DEF Types
  <1>6. ASSUME NEW t \in Callers, AddTreeNode(t)
        PROVE  Types'
    <2>1. PaddedEnd(fileEnd) \in Nat
      BY PaddedUp DEF Types, SpaceTypeOK
    <2>2. QED
      BY <1>0, <1>6, <2>1
         DEF AddTreeNode, GotoStep, Types, SpaceTypeOK, LocalTypes, Regions, Region
  <1>7. ASSUME NEW t \in Callers, WriteNode(t)
        PROVE  Types'
    <2>1. /\ got[t] \in [offset : 0 .. MaxFileEnd, size : {NodeSize}]
          /\ got[t].offset + NodeSize \in 0 .. MaxFileEnd
      BY <1>0, <1>7 DEF WriteNode, Types, LocalTypes
    <2>2. QED
      BY <1>0, <1>7, <2>1
         DEF WriteNode, ReturnFrom, GotoStep, Types, SpaceTypeOK, LocalTypes, NoRegion, Region
  <1>8. CASE UNCHANGED spaceVars
    BY <1>8 DEF spaceVars, Types, SpaceTypeOK, LocalTypes
  <1>9. QED
    BY <1>1, <1>2, <1>3, <1>4, <1>5, <1>6, <1>7, <1>8 DEF SpaceNext
-----------------------------------------------------------------------------
(* Regions that do not overlap, in programs that make one call at a time *)

\* A part of a region overlaps nothing that the whole does not.
LEMMA PartOverlaps ==
    ASSUME NEW r \in [offset : Nat, size : Nat], NEW s \in [offset : Nat, size : Nat],
           NEW n \in Nat, n <= r.size, ~Overlap(r, s)
    PROVE  ~Overlap(Region(r.offset, n), s) /\ ~Overlap(s, Region(r.offset, n)) /\ ~Overlap(s, r)
  BY DEF Overlap, Region

\* Nothing in the file overlaps what begins at its end.
LEMMA BehindTheEnd ==
    ASSUME NEW r \in [offset : Nat, size : Nat], NEW s \in [offset : Nat, size : Nat],
           NEW e \in Nat, s.offset + s.size <= e, e <= r.offset
    PROVE  ~Overlap(r, s) /\ ~Overlap(s, r)
  BY DEF Overlap

LEMMA OverlapsBack ==
    ASSUME NEW r, NEW s
    PROVE  Overlap(r, s) <=> Overlap(s, r)
  BY DEF Overlap

\* What may lie in the file
LEMMA AllTyped ==
    ASSUME Types
    PROVE  /\ \A h \in inUse : h.region \in [offset : Nat, size : Nat] /\ h.region \in Regions
           /\ \A r \in freeRegions \cup treeNodes : r \in [offset : Nat, size : Nat]
           /\ \A t \in Callers : wanted[t] \in [offset : Nat, size : Nat]
                                 /\ got[t] \in [offset : Nat, size : Nat]
           /\ fileEnd \in Nat
  <1>1. \A r \in treeNodes : r \in [offset : Nat, size : Nat]
    BY FreeSpaceAssumption DEF Types, SpaceTypeOK
  <1>2. fileEnd \in Nat
    BY FreeSpaceAssumption DEF Types, SpaceTypeOK
  <1>3. QED
    BY <1>1, <1>2, RegionType DEF Types, SpaceTypeOK, LocalTypes

\* The program is given bytes on which nothing lies.
LEMMA Given ==
    ASSUME Types, NEW t \in Callers, NEW start \in Nat, NEW n \in Nat, Give(t, start, n),
           \A h \in inUse : ~Overlap(h.region, Region(start, n)),
           \A h, g \in inUse : h # g => ~Overlap(h.region, g.region)
    PROVE  /\ \A h \in inUse' : h \in inUse \/ h.region = Region(start, n)
           /\ \A h, g \in inUse' : h # g => ~Overlap(h.region, g.region)
  <1> DEFINE new == [region |-> Region(start, n),
                     nr |-> Cardinality({h \in inUse : h.region = Region(start, n)})]
  <1>1. inUse' = inUse \cup {new} /\ new.region = Region(start, n)
    BY DEF Give
  <1> HIDE DEF new
  <1>2. QED
    BY <1>1, OverlapsBack

LEMMA IInvInit == SpaceInit => IInv
  <1> SUFFICES ASSUME SpaceInit
               PROVE  IInv
    OBVIOUS
  <1>1. Types
    BY TypesInit
  <1>2. Alone /\ FreeInside /\ CallGoesOn /\ RegionsDisjoint
    BY DEF SpaceInit, Alone, FreeInside, CallGoesOn, RegionsDisjoint
  <1>3. InsideFile
    BY FreeSpaceAssumption DEF SpaceInit, InsideFile, Region
  <1>4. QED
    BY <1>1, <1>2, <1>3 DEF IInv

\* Only the thread that is in a call moves, and a call starts when no thread is in one.
LEMMA AloneStep ==
    ASSUME Types, Alone, Serial, [SpaceNext]_spaceVars
    PROVE  /\ Alone'
           /\ \A t, u \in Callers : inCall[t] # "idle" /\ t # u => inCall[u] = "idle"
  <1>1. ASSUME NEW t \in Callers, NEW p, inCall[t] # "idle" \/ \A u \in Callers : inCall[u] = "idle",
               GotoStep(t, p) \/ inCall' = inCall
        PROVE  Alone'
    BY <1>1 DEF Alone, GotoStep, Types, SpaceTypeOK
  <1>2. Alone'
    <2>1. ASSUME NEW t \in Callers, NEW n \in Lengths, GetFreeRegion(t, n)
          PROVE  Alone'
      BY <1>1, <2>1 DEF GetFreeRegion, MayCall
    <2>2. ASSUME NEW t \in Callers, RemoveFound(t)
          PROVE  Alone'
      BY <1>1, <2>2 DEF RemoveFound, ReturnFrom
    <2>3. ASSUME NEW t \in Callers, SeekEnd(t)
          PROVE  Alone'
      BY <1>1, <2>3 DEF SeekEnd
    <2>4. ASSUME NEW t \in Callers, Extend(t)
          PROVE  Alone'
      BY <1>1, <2>4 DEF Extend, ReturnFrom
    <2>5. ASSUME NEW t \in Callers, NEW h \in inUse, NEW n \in Lengths, MarkFreeRegion(t, h, n)
          PROVE  Alone'
      BY <1>1, <2>5 DEF MarkFreeRegion, MayCall
    <2>6. ASSUME NEW t \in Callers, AddTreeNode(t)
          PROVE  Alone'
      BY <1>1, <2>6 DEF AddTreeNode
    <2>7. ASSUME NEW t \in Callers, WriteNode(t)
          PROVE  Alone'
      BY <1>1, <2>7 DEF WriteNode, ReturnFrom
    <2>8. CASE UNCHANGED spaceVars
      BY <2>8 DEF spaceVars, Alone
    <2>9. QED
      BY <2>1, <2>2, <2>3, <2>4, <2>5, <2>6, <2>7, <2>8 DEF SpaceNext
  <1>3. QED
    BY <1>2 DEF Alone

LEMMA IInvStep == Serial /\ IInv /\ [SpaceNext]_spaceVars => IInv'
  <1> SUFFICES ASSUME Serial, IInv, [SpaceNext]_spaceVars
               PROVE  IInv'
    OBVIOUS
  <1>a. Types' /\ Alone'
    BY TypesStep, AloneStep DEF IInv
  <1>b. \A t, u \in Callers : inCall[t] # "idle" /\ t # u => inCall[u] = "idle"
    BY AloneStep DEF IInv
  <1>c. /\ \A h \in inUse : h.region \in [offset : Nat, size : Nat] /\ h.region \in Regions
        /\ \A r \in freeRegions \cup treeNodes : r \in [offset : Nat, size : Nat]
        /\ \A t \in Callers : wanted[t] \in [offset : Nat, size : Nat]
                              /\ got[t] \in [offset : Nat, size : Nat]
        /\ fileEnd \in Nat
    BY AllTyped DEF IInv
  <1>1. ASSUME NEW t \in Callers, NEW n \in Lengths, GetFreeRegion(t, n)
        PROVE  IInv'
    <2>1. RegionsDisjoint' /\ InsideFile' /\ FreeInside'
      BY <1>1 DEF GetFreeRegion, IInv, RegionsDisjoint, InsideFile, FreeInside
    <2>2. \A u \in Callers \ {t} : inCall'[u] = "idle"
      BY <1>1 DEF GetFreeRegion, MayCall, GotoStep, IInv, Types, SpaceTypeOK
    <2>3. CallGoesOn'
      <3>1. CASE Fitting(n) # {}
        <4>1. BestFit(n) \in freeRegions /\ n <= BestFit(n).size
          BY <3>1, BestFits DEF Fitting, IInv, Types
        <4>2. inCall'[t] = "remove" /\ got'[t] = BestFit(n) /\ wanted'[t].size = n
          BY <1>1, <3>1 DEF GetFreeRegion, GotoStep, Region, IInv, Types, SpaceTypeOK, LocalTypes
        <4>3. freeRegions' = freeRegions
          BY <1>1 DEF GetFreeRegion
        <4>4. QED
          BY <2>2, <4>1, <4>2, <4>3 DEF CallGoesOn
      <3>2. CASE Fitting(n) = {}
        <4>1. inCall'[t] = "end"
          BY <1>1, <3>2 DEF GetFreeRegion, GotoStep, IInv, Types, SpaceTypeOK
        <4>2. QED
          BY <2>2, <4>1 DEF CallGoesOn
      <3>3. QED
        BY <3>1, <3>2
    <2>4. QED
      BY <1>a, <2>1, <2>3 DEF IInv
  <1>2. ASSUME NEW t \in Callers, RemoveFound(t)
        PROVE  IInv'
    <2> DEFINE part == Region(got[t].offset, wanted[t].size)
    <2>1. /\ got[t] \in freeRegions /\ wanted[t].size <= got[t].size
          /\ got[t].offset \in Nat /\ wanted[t].size \in Nat
      BY <1>2, <1>c DEF RemoveFound, IInv, CallGoesOn
    <2>2. /\ freeRegions' = freeRegions \ {got[t]} /\ treeNodes' = treeNodes /\ fileEnd' = fileEnd
          /\ Give(t, got[t].offset, wanted[t].size)
      BY <1>2 DEF RemoveFound, RemovedRegion
    <2>3. \A h \in inUse : ~Overlap(h.region, part)
      BY <2>1, <1>c, PartOverlaps, OverlapsBack DEF IInv, RegionsDisjoint
    <2>4. \A r \in freeRegions' \cup treeNodes : ~Overlap(part, r)
      BY <2>1, <2>2, <1>c, PartOverlaps DEF IInv, RegionsDisjoint
    <2>5. /\ \A h \in inUse' : h \in inUse \/ h.region = part
          /\ \A h, g \in inUse' : h # g => ~Overlap(h.region, g.region)
      BY <2>1, <2>2, <2>3, Given DEF IInv, RegionsDisjoint
    <2>6. part.offset + part.size <= fileEnd
      BY <2>1, <1>c DEF IInv, FreeInside, Region
    <2> HIDE DEF part
    <2>7. RegionsDisjoint'
      BY <2>2, <2>4, <2>5 DEF IInv, RegionsDisjoint
    <2>8. InsideFile' /\ FreeInside'
      BY <2>2, <2>5, <2>6 DEF IInv, InsideFile, FreeInside
    <2>9. \A u \in Callers : inCall'[u] = "idle"
      BY <1>2, <1>b DEF RemoveFound, ReturnFrom, GotoStep, IInv, Types, SpaceTypeOK
    <2>10. QED
      BY <1>a, <2>7, <2>8, <2>9 DEF IInv, CallGoesOn
  <1>3. ASSUME NEW t \in Callers, SeekEnd(t)
        PROVE  IInv'
    <2>1. RegionsDisjoint' /\ InsideFile' /\ FreeInside'
      BY <1>3 DEF SeekEnd, IInv, RegionsDisjoint, InsideFile, FreeInside
    <2>2. \A u \in Callers \ {t} : inCall'[u] = "idle"
      BY <1>3, <1>b DEF SeekEnd, GotoStep, IInv, Types, SpaceTypeOK
    <2>3. inCall'[t] = "extend" /\ got'[t].offset = PaddedEnd(fileEnd) /\ fileEnd' = fileEnd
      BY <1>3 DEF SeekEnd, GotoStep, Region, IInv, Types, SpaceTypeOK, LocalTypes
    <2>4. CallGoesOn'
      BY <2>2, <2>3, <1>c, PaddedUp DEF CallGoesOn
    <2>5. QED
      BY <1>a, <2>1, <2>4 DEF IInv
  <1>4. ASSUME NEW t \in Callers, Extend(t)
        PROVE  IInv'
    <2> DEFINE new == Region(got[t].offset, got[t].size)
    <2>1. got[t].offset \in Nat /\ got[t].size \in Nat /\ fileEnd <= got[t].offset
      BY <1>4, <1>c DEF Extend, IInv, CallGoesOn
    <2>2. /\ freeRegions' = freeRegions /\ treeNodes' = treeNodes
          /\ fileEnd' = got[t].offset + got[t].size
          /\ Give(t, got[t].offset, got[t].size)
      BY <1>4 DEF Extend, Extended
    <2>3. /\ \A h \in inUse : ~Overlap(h.region, new)
          /\ \A r \in freeRegions \cup treeNodes : ~Overlap(new, r)
      <3>1. new \in [offset : Nat, size : Nat] /\ new.offset = got[t].offset
        BY <2>1 DEF Region
      <3>2. QED
        BY <2>1, <3>1, <1>c, BehindTheEnd DEF IInv, InsideFile, FreeInside
    <2>5. /\ \A h \in inUse' : h \in inUse \/ h.region = new
          /\ \A h, g \in inUse' : h # g => ~Overlap(h.region, g.region)
      BY <2>1, <2>2, <2>3, Given DEF IInv, RegionsDisjoint
    <2>6. new.offset + new.size = fileEnd' /\ fileEnd <= fileEnd'
      BY <2>1, <2>2, <1>c DEF Region
    <2> HIDE DEF new
    <2>7. RegionsDisjoint'
      BY <2>2, <2>3, <2>5 DEF IInv, RegionsDisjoint
    <2>8. InsideFile' /\ FreeInside'
      <3>1. fileEnd' \in Nat /\ \A k \in Nat : k <= fileEnd => k <= fileEnd'
        BY <2>1, <2>2, <2>6, <1>c
      <3>2. \A r : r \in [offset : Nat, size : Nat] => r.offset + r.size \in Nat
        OBVIOUS
      <3>3. QED
        BY <2>2, <2>5, <2>6, <1>c, <3>1, <3>2 DEF IInv, InsideFile, FreeInside
    <2>9. \A u \in Callers : inCall'[u] = "idle"
      BY <1>4, <1>b DEF Extend, ReturnFrom, GotoStep, IInv, Types, SpaceTypeOK
    <2>10. QED
      BY <1>a, <2>7, <2>8, <2>9 DEF IInv, CallGoesOn
  <1>5. ASSUME NEW t \in Callers, NEW h \in inUse, NEW n \in Lengths, MarkFreeRegion(t, h, n)
        PROVE  IInv'
    <2> DEFINE part == Region(h.region.offset, n)
    <2>1. /\ n \in Nat /\ n <= h.region.size /\ inUse' = inUse \ {h}
          /\ treeNodes' = treeNodes /\ fileEnd' = fileEnd
      BY <1>5, LengthType DEF MarkFreeRegion
    <2>2. /\ \A g \in inUse' : ~Overlap(g.region, part)
          /\ \A r \in freeRegions \cup treeNodes : ~Overlap(part, r) /\ ~Overlap(r, part)
      <3>1. \A g \in inUse' : ~Overlap(h.region, g.region)
        BY <2>1 DEF IInv, RegionsDisjoint
      <3>2. \A r \in freeRegions \cup treeNodes : ~Overlap(h.region, r)
        BY DEF IInv, RegionsDisjoint
      <3>3. QED
        BY <2>1, <3>1, <3>2, <1>c, PartOverlaps
    <2>3. part.offset + part.size <= fileEnd
      BY <2>1, <1>c DEF Region, IInv, InsideFile
    <2>4. \A u \in Callers \ {t} : inCall'[u] = "idle"
      BY <1>5 DEF MarkFreeRegion, MayCall, GotoStep, IInv, Types, SpaceTypeOK
    <2>5. CASE freeRegions' = freeRegions \cup {part} /\ UNCHANGED <<mutex, inCall, wanted>>
      <3>1. RegionsDisjoint'
        BY <2>1, <2>2, <2>5 DEF IInv, RegionsDisjoint
      <3>2. InsideFile' /\ FreeInside'
        BY <2>1, <2>3, <2>5 DEF IInv, InsideFile, FreeInside
      <3>3. inCall'[t] = "idle"
        BY <1>5, <2>5 DEF MarkFreeRegion, MayCall
      <3>4. QED
        BY <1>a, <2>4, <3>1, <3>2, <3>3 DEF IInv, CallGoesOn
    <2>6. CASE /\ wanted' = [wanted EXCEPT ![t] = part] /\ GotoStep(t, "node")
               /\ UNCHANGED freeRegions
      <3>1. RegionsDisjoint' /\ InsideFile' /\ FreeInside'
        BY <2>1, <2>6 DEF IInv, RegionsDisjoint, InsideFile, FreeInside
      <3>2. inCall'[t] = "node" /\ wanted'[t] = part
        BY <2>6 DEF GotoStep, IInv, Types, SpaceTypeOK, LocalTypes
      <3> HIDE DEF part
      <3>3. CallGoesOn'
        BY <2>1, <2>2, <2>3, <2>4, <2>6, <3>2 DEF CallGoesOn
      <3>4. QED
        BY <1>a, <3>1, <3>3 DEF IInv
    <2>7. QED
      BY <1>5, <2>5, <2>6 DEF MarkFreeRegion
  <1>6. ASSUME NEW t \in Callers, AddTreeNode(t)
        PROVE  IInv'
    <2>1. RegionsDisjoint' /\ InsideFile' /\ FreeInside'
      BY <1>6 DEF AddTreeNode, IInv, RegionsDisjoint, InsideFile, FreeInside
    <2>2. \A u \in Callers \ {t} : inCall'[u] = "idle"
      BY <1>6, <1>b DEF AddTreeNode, GotoStep, IInv, Types, SpaceTypeOK
    <2>3. inCall'[t] = "write" /\ got'[t].offset = PaddedEnd(fileEnd)
      BY <1>6 DEF AddTreeNode, GotoStep, Region, IInv, Types, SpaceTypeOK, LocalTypes
    <2>4. inCall[t] = "node" /\ UNCHANGED <<freeRegions, treeNodes, fileEnd, inUse, wanted>>
      BY <1>6 DEF AddTreeNode
    <2>5. CallGoesOn'
      BY <2>2, <2>3, <2>4, <1>c, PaddedUp DEF IInv, CallGoesOn
    <2>6. QED
      BY <1>a, <2>1, <2>5 DEF IInv
  <1>7. ASSUME NEW t \in Callers, WriteNode(t)
        PROVE  IInv'
    <2> DEFINE node == got[t]
               free == wanted[t]
    <2>1. /\ treeNodes' = treeNodes \cup {node} /\ freeRegions' = freeRegions \cup {free}
          /\ inUse' = inUse
          /\ node.size = NodeSize /\ NodeSize \in Nat
      BY <1>7, FreeSpaceAssumption DEF WriteNode, IInv, Types, LocalTypes
    <2>2. /\ node \in [offset : Nat, size : Nat] /\ free \in [offset : Nat, size : Nat]
          /\ fileEnd <= node.offset /\ free.offset + free.size <= fileEnd
          /\ \A h \in inUse : ~Overlap(h.region, free)
          /\ \A r \in freeRegions \cup treeNodes : ~Overlap(r, free) /\ ~Overlap(free, r)
      BY <1>7, <1>c, OverlapsBack DEF WriteNode, IInv, CallGoesOn
    <2>3. fileEnd' = node.offset + node.size /\ fileEnd <= fileEnd'
      BY <1>7, <2>1, <2>2, <1>c DEF WriteNode
    <2> HIDE DEF node, free
    <2>4. /\ \A h \in inUse : ~Overlap(h.region, node)
          /\ \A r \in freeRegions \cup treeNodes \cup {free} :
                ~Overlap(node, r) /\ ~Overlap(r, node)
      BY <2>2, <1>c, BehindTheEnd DEF IInv, InsideFile, FreeInside
    <2>5. RegionsDisjoint'
      BY <2>1, <2>2, <2>4 DEF IInv, RegionsDisjoint
    <2>6. InsideFile' /\ FreeInside'
      <3>1. fileEnd' \in Nat /\ \A k \in Nat : k <= fileEnd => k <= fileEnd'
        BY <2>2, <2>3, <1>c
      <3>2. \A r : r \in [offset : Nat, size : Nat] => r.offset + r.size \in Nat
        OBVIOUS
      <3>3. QED
        BY <2>1, <2>2, <2>3, <1>c, <3>1, <3>2 DEF IInv, InsideFile, FreeInside
    <2>7. \A u \in Callers : inCall'[u] = "idle"
      BY <1>7, <1>b DEF WriteNode, ReturnFrom, GotoStep, IInv, Types, SpaceTypeOK
    <2>8. QED
      BY <1>a, <2>5, <2>6, <2>7 DEF IInv, CallGoesOn
  <1>8. CASE UNCHANGED spaceVars
    BY <1>8, <1>a DEF spaceVars, IInv, FreeInside, CallGoesOn, RegionsDisjoint, InsideFile
  <1>9. QED
    BY <1>1, <1>2, <1>3, <1>4, <1>5, <1>6, <1>7, <1>8 DEF SpaceNext

-----------------------------------------------------------------------------
(* The theorems *)

\* Whoever calls, the tree's mutex is held by a thread exactly while it inserts with a new
\* node, and regions, nodes and the end of the file are what their types say.
THEOREM FreeSpaceTypeCorrect == SpaceSpec => []SpaceTypeOK
  <1>1. SpaceSpec => []Types
    BY TypesInit, TypesStep, PTL DEF SpaceSpec
  <1>2. Types => SpaceTypeOK
    BY DEF Types
  <1>3. QED
    BY <1>1, <1>2, PTL

LEMMA FreeSpaceInvariance == ASSUME Serial PROVE SpaceSpec => []IInv
  <1>1. IInv /\ [SpaceNext]_spaceVars => IInv'
    BY IInvStep
  <1>2. QED
    BY IInvInit, <1>1, PTL DEF SpaceSpec

\* getFreeRegion and markFreeRegion, one at a time: no region is handed out twice, none is
\* handed out on a node of the tree, and what is free is free.
THEOREM NoRegionTwice == ASSUME Serial PROVE SpaceSpec => []RegionsDisjoint
  <1>1. SpaceSpec => []IInv
    BY FreeSpaceInvariance
  <1>2. IInv => RegionsDisjoint
    BY DEF IInv
  <1>3. QED
    BY <1>1, <1>2, PTL

\* ... and the file never ends before a region that is in use or a node.
THEOREM NothingCutOff == ASSUME Serial PROVE SpaceSpec => []InsideFile
  <1>1. SpaceSpec => []IInv
    BY FreeSpaceInvariance
  <1>2. IInv => InsideFile
    BY DEF IInv
  <1>3. QED
    BY <1>1, <1>2, PTL
=============================================================================
