------------------------------ MODULE MCLibrary ------------------------------
(***************************************************************************)
(* The parts of the library apart from the thread pool, the file handles   *)
(* and the B-tree, on small instances.  They share no state, so one part   *)
(* moves in a behaviour, the one that `part' names; all others keep their  *)
(* first state.  The properties say of each part what its module states.   *)
(***************************************************************************)
EXTENDS SmartPointer, Containers, MemoryManager, FreeSpaceFile,
        StaticPriorityQueue, ShortQueue, FrozenBTree, DiskBytestringSearchTree, BigInt,
        NDArrayTypes, HalfFloat, Scores, NDArrayViews, PackedLanes,
        ArgExtremum, MatmulKernels, Matmul, TLC

CONSTANTS alpha, beta \* two containers of each kind

VARIABLE part       \* which part moves

MCMaps == {alpha, beta}
Interchangeable == Permutations(MCMaps) \cup Permutations(Threads)

\* The keys of the two hash tables meet: at their own places, and at the end of the table.
MCHashOf == 0 :> 3 @@ 1 :> 7 @@ 2 :> 6 @@ 3 :> 0

\* A prefix and four keys below it: a split, a node that three children outgrow, and a fourth
\* child after its region was given back.
MCKeys == {<<1>>, <<1, 1>>, <<1, 2>>, <<1, 3>>, <<1, 4>>}

\* Scalars in quarters: about the bounds of the types, and halves and quarters.
MCQuarters ==
    {4 * n : n \in {-16777217, -65536, -2049, -257, -129, -128, -5, -4, -1, 0, 1, 2, 3, 4, 7,
                    127, 128, 255, 256, 257, 2047, 2048, 2049, 65504, 65520,
                    16777215, 16777216, 16777217, 500000001}}
    \cup {-1, 1, 2, 5, 6, 1023, 1025, 67108865}

\* Strips that divide evenly, that end with a short one, and that leave a worker without one
MCProducts == {[n |-> 5, align |-> 2, small |-> FALSE], [n |-> 4, align |-> 1, small |-> FALSE]}

MCShapes == {<<2, 2>>, <<4>>, <<2, 1>>}

----------------------------------------------------------------------------

Parts == {"pointer", "slab", "slab pointer", "static", "manager", "map", "set", "linked list",
          "queue", "array list", "array set", "priority queue", "short queue", "frozen tree",
          "free space", "disk tree", "big int", "promotion", "half", "kernels", "views", "packed", "extremum",
          "strips", "products", "product views"}

\* What a part chooses at its beginning is chosen when it is the one that moves.
LibraryInit ==
    /\ part \in Parts
    /\ Init
    /\ SlabPointerInit /\ StaticInit /\ ManagerInit
    /\ MapInit /\ SetInit /\ ListInit /\ QueueInit /\ ArrayInit
    /\ ArraySetInit /\ PQInit /\ ShortInit
    /\ FrozenInit /\ (part # "frozen tree" => width = 2)
    /\ SpaceInit /\ DiskInit
    /\ BigInit /\ (part # "big int" => y = 0)
    /\ TypesInit /\ HalfInit
    /\ KernelInit /\ (part # "kernels" => build = "portable")
    /\ ViewsInit
    /\ PackedInit
    /\ (part # "packed" => packed = [n |-> 0, seed |-> 0, dirty |-> FALSE, avx |-> FALSE])
    /\ ExtremumInit
    /\ StripsInit /\ (part # "strips" => poolWorkers = {})
    /\ MatmulInit /\ (part # "products" => factors = [m |-> 1, n |-> 1, k |-> 1])
    /\ OperandsInit

LibraryNext ==
    /\ UNCHANGED part
    /\ IF part = "pointer" THEN Next ELSE UNCHANGED vars
    /\ CASE part = "slab" -> SlabNext /\ UNCHANGED pointerVars
         [] part = "slab pointer" -> SlabPointerNext
         [] OTHER -> UNCHANGED slabPointerVars
    /\ IF part = "static" THEN StaticNext ELSE UNCHANGED staticVars
    /\ IF part = "manager" THEN ManagerNext ELSE UNCHANGED managerVars
    /\ IF part = "map" THEN MapNext ELSE UNCHANGED mapVars
    /\ IF part = "set" THEN SetNext ELSE UNCHANGED setVars
    /\ IF part = "linked list" THEN ListNext ELSE UNCHANGED listVars
    /\ IF part = "queue" THEN QueueNext ELSE UNCHANGED queueVars
    /\ IF part = "array list" THEN ArrayNext ELSE UNCHANGED arrayVars
    /\ IF part = "array set" THEN ArraySetNext ELSE UNCHANGED sortedVars
    /\ IF part = "priority queue" THEN PQNext ELSE UNCHANGED pqVars
    /\ IF part = "short queue" THEN ShortNext ELSE UNCHANGED shortVars
    /\ IF part = "frozen tree" THEN FrozenNext ELSE UNCHANGED frozenVars
    /\ IF part = "free space" THEN SpaceNext ELSE UNCHANGED spaceVars
    /\ IF part = "disk tree" THEN DiskNext ELSE UNCHANGED diskVars
    /\ IF part = "big int" THEN BigNext ELSE UNCHANGED bigVars
    /\ IF part = "promotion" THEN TypesNext ELSE UNCHANGED typesVars
    /\ IF part = "half" THEN HalfNext ELSE UNCHANGED halfVars
    /\ IF part = "kernels" THEN KernelNext ELSE UNCHANGED kernelVars
    /\ IF part = "views" THEN ViewsNext ELSE UNCHANGED viewVars
    /\ IF part = "packed" THEN PackedNext ELSE UNCHANGED packedVars
    /\ IF part = "extremum" THEN ExtremumNext ELSE UNCHANGED extremumVars
    /\ IF part = "strips" THEN StripsNext ELSE UNCHANGED stripsVars
    /\ IF part = "products" THEN MatmulNext ELSE UNCHANGED matmulVars
    /\ IF part = "product views" THEN OperandsNext ELSE UNCHANGED operandVars

libraryVars ==
    <<part, vars, slabPointerVars, staticVars, managerVars, mapVars, setVars, listVars,
      queueVars, arrayVars, sortedVars, pqVars, shortVars, frozenVars, spaceVars, diskVars,
      bigVars, typesVars, halfVars, kernelVars, viewVars, packedVars, extremumVars, stripsVars,
      matmulVars, operandVars>>

LibrarySpec == LibraryInit /\ [][LibraryNext]_libraryVars

----------------------------------------------------------------------------

\* Every variable of every part keeps to its type: among them, no counter of a chunk, an
\* array or a table is past its end.
LibraryTypeOK ==
    /\ part = "pointer" => TypeOK
    /\ part = "slab" => SlabTypeOK
    /\ part = "slab pointer" => SlabPointerTypeOK
    /\ part = "static" => StaticTypeOK
    /\ part = "manager" => ManagerTypeOK
    /\ part = "map" => MapTypeOK
    /\ part = "set" => SetTypeOK
    /\ part = "linked list" => ListTypeOK
    /\ part = "queue" => QueueTypeOK
    /\ part = "array list" => ArrayTypeOK
    /\ part = "array set" => ArraySetTypeOK
    /\ part = "priority queue" => PQTypeOK
    /\ part = "short queue" => ShortTypeOK
    /\ part = "free space" => SpaceTypeOK
    /\ part = "strips" => StripsTypeOK

\* A priority queue remembers the lowest priority it holds, and a short queue keeps the best of
\* what it was offered.
SequencesRight ==
    /\ part = "priority queue" => PriorityQueueRight
    /\ part = "short queue" => ShortQueueRight

\* A frozen tree reads back as the items it was built of, with every offset inside the
\* file.  The search tree finds what was inserted and no other, after a split, after the
\* move of a node that its children outgrew, after removals and interrupted insertions, and
\* no two of its regions overlap.  No node that a split moved gets children here: run
\* disk_tree shows what becomes of one.
TreesRight ==
    /\ part = "frozen tree" => FrozenRight
    /\ part = "disk tree" => FindsWhatWasInserted /\ RegionsApart

\* Arithmetic modulo 2^(W * N), its conversions, the types that hold a result, and halves;
\* and the counted bytes of slabs and modules cover the bytes that are out.
NumbersAndTypesRight ==
    /\ part = "big int" => NumbersRight
    /\ part = "promotion" => TypesRight
    /\ part = "half" => HalvesRight
    /\ part = "slab" => BytesRight
    /\ part = "manager" => CountersCover

\* Arrays: a write through one array is seen through no other; views show the elements of
\* their array; and every kernel of every build gives what one loop over the lanes gives.
ArraysRight ==
    /\ part = "views" => ViewsRight
    /\ part = "kernels" => HalfKernelsRight /\ ScoresRight /\ GemvRight
    /\ part = "packed" => PackedRight
    /\ part = "extremum" => ArgExtremumRight
    /\ part = "products" => MatmulRight
    /\ part = "product views" => MatmulViewsRight
=============================================================================
