------------------------------ MODULE NDArrayViews -----------------------------
(***************************************************************************)
(* The storage of arrays and the views of it: NDArrayBuffer, NDArray and   *)
(* NDArrayView of include/NDArray.h and src/NDArray.cpp.                   *)
(*                                                                         *)
(* Arrays share a buffer until one of them is written.  A view has a shape *)
(* and strides of its own over a shared buffer; when the array it came from *)
(* is written the array moves away and the view stays.  Memory wrapped by  *)
(* the caller is never left: whoever holds it sees every write.            *)
(*                                                                         *)
(* A cell is an element; its type plays no part here.                      *)
(***************************************************************************)
EXTENDS Integers, Sequences, FiniteSets

CONSTANTS Arrays, Views,
          Buffers,        \* control blocks that may be allocated
          External,       \* the memory of the caller
          NoBuffer,
          Shapes,         \* bound: the shapes that are asked for
          MaxElements,    \* elements of the caller's memory; bound on those of a view
          MaxCalls        \* bound

VARIABLES
    array,   \* [shape, buffer]
    view,    \* [shape, strides, offset, buffer]
    heap,    \* the contents of buffers
    calls,   \* how many there were: a write stores a number of its own
    want,    \* history: what each array holds, flat
    saw,     \* history: what each view shows, flat; of External the places
    spoiled  \* history: a shared buffer was written in place

viewVars == <<array, view, heap, calls, want, saw, spoiled>>

----------------------------------------------------------------------------
(* Shapes *)

\* numElements
Count(shape) ==
    LET n[i \in 0 .. Len(shape)] == IF i = 0 THEN 1 ELSE n[i - 1] * shape[i] IN n[Len(shape)]

\* denseRowMajorStrides, fillDenseStrides: an axis of length 0 counts as 1
DenseStrides(shape) ==
    LET s[i \in 1 .. Len(shape) + 1] ==
            IF i = Len(shape) + 1 THEN 1
            ELSE s[i + 1] * (IF shape[i] > 0 THEN shape[i] ELSE 1)
    IN [d \in 1 .. Len(shape) |-> s[d + 1]]

\* The index vectors of a shape, the last axis fastest.
Coordinate(shape, flat) ==
    [d \in 1 .. Len(shape) |->
        (flat \div Count(SubSeq(shape, d + 1, Len(shape)))) % shape[d]]
FlatOf(shape, at) ==
    LET f[d \in 0 .. Len(shape)] == IF d = 0 THEN 0 ELSE f[d - 1] * shape[d] + at[d]
    IN f[Len(shape)]

Dot(at, strides) ==
    LET f[d \in 0 .. Len(at)] == IF d = 0 THEN 0 ELSE f[d - 1] + at[d] * strides[d] IN f[Len(at)]

----------------------------------------------------------------------------
(* Views *)

DenseIfEqual(strides, d, expect) == strides[d] = expect

\* The strides of the axes that are longer than 1 are dense.
isContiguous(v) ==
    \A d \in 1 .. Len(v.shape) :
        v.shape[d] > 1 =>
            DenseIfEqual(v.strides, d,
                         Count([e \in 1 .. Len(v.shape) - d |->
                                   IF v.shape[d + e] > 1 THEN v.shape[d + e] ELSE 1]))

elementOffset(v, flat) ==
    IF isContiguous(v) THEN v.offset + flat
    ELSE v.offset + Dot(Coordinate(v.shape, flat), v.strides)

computeOffset(v, at) == v.offset + Dot(at, v.strides)

isBroadcastableTo(v, target) ==
    /\ Len(v.shape) <= Len(target)
    /\ \A i \in 1 .. Len(v.shape) :
          v.shape[Len(v.shape) + 1 - i] \in {1, target[Len(target) + 1 - i]}

broadcastTo(v, target) ==
    LET more == Len(target) - Len(v.shape) IN
    [v EXCEPT !.shape = target,
              !.strides = [d \in 1 .. Len(target) |->
                  IF d > more /\ v.shape[d - more] = target[d] THEN v.strides[d - more] ELSE 0]]

reshape(v, shape) == [v EXCEPT !.shape = shape, !.strides = DenseStrides(shape)]

\* axes: a permutation of 1 .. rank
permute(v, axes) ==
    [v EXCEPT !.shape = [d \in 1 .. Len(axes) |-> v.shape[axes[d]]],
              !.strides = [d \in 1 .. Len(axes) |-> v.strides[axes[d]]]]

transpose(v) ==
    LET r == Len(v.shape) IN permute(v, [d \in 1 .. r |-> r + 1 - d])

swapaxes(v, a, b) ==
    permute(v, [d \in 1 .. Len(v.shape) |-> IF d = a THEN b ELSE IF d = b THEN a ELSE d])

WithoutAxis(seq, d) == SubSeq(seq, 1, d - 1) \o SubSeq(seq, d + 1, Len(seq))

\* slice(axis, index); row and col are the first and the last axis
sliceAt(v, axis, index) ==
    [v EXCEPT !.shape = WithoutAxis(@, axis), !.strides = WithoutAxis(@, axis),
              !.offset = @ + index * v.strides[axis]]

\* slice(axis, start, end)
sliceRange(v, axis, start, end) ==
    [v EXCEPT !.shape[axis] = end - start, !.offset = @ + start * v.strides[axis]]

\* Lane k of copy(): a run of memory, or rows one after another with an odometer.
copyLane(v, k) ==
    IF isContiguous(v) THEN v.offset + k
    ELSE LET r == Len(v.shape)
             at == Coordinate(v.shape, k)
             row == v.offset + Dot(SubSeq(at, 1, r - 1), SubSeq(v.strides, 1, r - 1))
         IN row + at[r] * v.strides[r]

----------------------------------------------------------------------------
(* Storage *)

EmptyArray == [shape |-> <<0>>, buffer |-> NoBuffer]
EmptyView == [shape |-> <<0>>, strides |-> <<1>>, offset |-> 0, buffer |-> NoBuffer]

NoHistory == [external |-> FALSE, at |-> <<>>]

\* numReferences: arrays and views that hold a buffer
References(b) == {a \in Arrays : array[a].buffer = b} \cup {v \in Views : view[v].buffer = b}
Unreferenced == {b \in Buffers : References(b) = {}}

\* One array is replaced; a buffer that nobody is left to hold is freed.
Assign(a, new, cells) ==
    /\ array' = [array EXCEPT ![a] = new]
    /\ heap' = [b \in DOMAIN heap |->
                   IF b = new.buffer THEN cells
                   ELSE IF b \in Buffers /\ References(b) \subseteq {a} THEN <<>>
                   ELSE heap[b]]

AssignView(v, new) ==
    /\ view' = [view EXCEPT ![v] = new]
    /\ heap' = [b \in DOMAIN heap |->
                   IF b \in Buffers /\ b # new.buffer /\ References(b) \subseteq {v} THEN <<>>
                   ELSE heap[b]]

Cells(n) == [i \in 0 .. n - 1 |-> i]

\* The constructors from a shape and a vector: initialize() and a copy.
Construct(a, b, shape) ==
    LET n == Count(shape) IN
    /\ b \in Unreferenced /\ n > 0
    /\ Assign(a, [shape |-> shape, buffer |-> b], Cells(n))
    /\ want' = [want EXCEPT ![a] = Cells(n)]
    /\ UNCHANGED <<view, saw>>

\* wrap: makeWrapBuffer asks for memory that is large enough.
Wrap(a, shape) ==
    /\ Count(shape) \in 1 .. MaxElements
    /\ Assign(a, [shape |-> shape, buffer |-> External], heap[External])
    /\ want' = [want EXCEPT ![a] = <<>>]
    /\ UNCHANGED <<view, saw>>

\* NDArray(const NDArray&), and reshape: the buffer is shared.
Share(a, c, shape) ==
    /\ a # c
    /\ array[c].buffer # NoBuffer
    /\ Count(shape) = Count(array[c].shape)
    /\ Assign(a, [array[c] EXCEPT !.shape = shape], heap[array[c].buffer])
    /\ want' = [want EXCEPT ![a] = want[c]]
    /\ UNCHANGED <<view, saw>>

\* NDArray(NDArray&&) and stealFrom: the source is empty afterwards.
TakeOver(a, c) ==
    /\ a # c
    /\ array[c].buffer # NoBuffer
    /\ array' = [array EXCEPT ![a] = array[c], ![c] = EmptyArray]
    /\ heap' = [b \in DOMAIN heap |->
                   IF b \in Buffers /\ References(b) = {a} THEN <<>> ELSE heap[b]]
    /\ want' = [want EXCEPT ![a] = want[c], ![c] = <<>>]
    /\ UNCHANGED <<view, saw>>

\* (bug) An array that shares its buffer with one other writes it in place.
SharedByMany(n) == n > 2

SharedBySome(n) == n > 1

\* setAtOffset: ensureWritable, then the store.  c: a buffer for the copy
Write(a, i, c) ==
    LET b == array[a].buffer
        detach == b # External /\ SharedBySome(Cardinality(References(b)))
        to == IF detach THEN c ELSE b
        cells == [heap[b] EXCEPT ![i] = 100 + calls]
    IN /\ b # NoBuffer /\ i < Count(array[a].shape)
       /\ detach => c \in Unreferenced
       /\ Assign(a, [array[a] EXCEPT !.buffer = to], cells)
       /\ want' = [want EXCEPT ![a] = IF b = External THEN @ ELSE [@ EXCEPT ![i] = 100 + calls]]
       /\ UNCHANGED <<view, saw>>

\* logicalAnd, logicalOr and logicalXor with another array, of an array of bits: asBinary
\* shares the buffer, stealFrom takes that share, and the words are written in place without
\* ensureWritable.
LogicalInPlace(a) ==
    LET A == array[a]
        cells == [i \in DOMAIN heap[A.buffer] |->
                     IF i < Count(A.shape) THEN 100 + calls ELSE heap[A.buffer][i]]
    IN /\ A.buffer # NoBuffer
       /\ Assign(a, A, cells)
       /\ want' = [want EXCEPT ![a] = IF A.buffer = External THEN @ ELSE cells]
       /\ spoiled' = (A.buffer # External /\ SharedBySome(Cardinality(References(A.buffer))))
       /\ UNCHANGED <<view, saw>>

Drop(a) ==
    /\ array[a].buffer # NoBuffer
    /\ Assign(a, EmptyArray, <<>>)
    /\ want' = [want EXCEPT ![a] = <<>>]
    /\ UNCHANGED <<view, saw>>

----------------------------------------------------------------------------
(* Views of storage.  Each carries along what it must show, by index. *)

\* What shows when element k of the new shape is element g[k] of the old one.
Seen(v, n, g) ==
    [saw[v] EXCEPT !.at = [k \in 0 .. n - 1 |-> saw[v].at[g[k]]]]

ViewOf(v, a) ==
    LET A == array[a]  n == Count(A.shape) IN
    /\ A.buffer # NoBuffer
    /\ AssignView(v, [shape |-> A.shape, strides |-> DenseStrides(A.shape), offset |-> 0,
                      buffer |-> A.buffer])
    /\ saw' = [saw EXCEPT ![v] = IF A.buffer = External
                                 THEN [external |-> TRUE, at |-> Cells(n)]
                                 ELSE [external |-> FALSE,
                                       at |-> [i \in 0 .. n - 1 |-> want[a][i]]]]
    /\ UNCHANGED <<array, want>>

\* NDArrayView::wrap with a row stride, for a shape of rank 2
WrapRows(v, shape, stride) ==
    /\ Len(shape) = 2 /\ stride >= shape[2]
    /\ Count(shape) > 0 /\ (shape[1] - 1) * stride + shape[2] <= MaxElements
    /\ AssignView(v, [shape |-> shape, strides |-> <<stride, 1>>, offset |-> 0,
                      buffer |-> External])
    /\ saw' = [saw EXCEPT ![v] = [external |-> TRUE,
                                  at |-> [k \in 0 .. Count(shape) - 1 |->
                                             (k \div shape[2]) * stride + (k % shape[2])]]]
    /\ UNCHANGED <<array, want>>

\* The view is replaced by one made from it; index k of the new one is old[k] of the old one.
Replace(v, new, old) ==
    /\ Count(new.shape) <= MaxElements
    /\ AssignView(v, new)
    /\ saw' = [saw EXCEPT ![v] = Seen(v, Count(new.shape), old)]
    /\ UNCHANGED <<array, want>>

Broadcast(v, target) ==
    LET more == Len(target) - Len(view[v].shape)
        Back(at) == [d \in 1 .. Len(view[v].shape) |->
                        IF view[v].shape[d] = 1 THEN 0 ELSE at[more + d]]
    IN /\ view[v].buffer # NoBuffer /\ isBroadcastableTo(view[v], target)
       /\ Replace(v, broadcastTo(view[v], target),
                  [k \in 0 .. Count(target) - 1 |->
                      FlatOf(view[v].shape, Back(Coordinate(target, k)))])

Reshape(v, shape) ==
    /\ view[v].buffer # NoBuffer /\ isContiguous(view[v])
    /\ Count(shape) = Count(view[v].shape)
    /\ Replace(v, reshape(view[v], shape), Cells(Count(shape)))

\* permute, transpose and swapaxes
Turn(v, new, axes) ==
    LET Back(at) == [d \in 1 .. Len(axes) |-> at[CHOOSE e \in 1 .. Len(axes) : axes[e] = d]]
    IN Replace(v, new, [k \in 0 .. Count(new.shape) - 1 |->
                           FlatOf(view[v].shape, Back(Coordinate(new.shape, k)))])

Rank(v) == Len(view[v].shape)
AxisOrders(r) == {p \in [1 .. r -> 1 .. r] : \A d, e \in 1 .. r : d # e => p[d] # p[e]}

Permute(v) == \E axes \in AxisOrders(Rank(v)) : Turn(v, permute(view[v], axes), axes)

Transpose(v) ==
    Rank(v) >= 2 /\ Turn(v, transpose(view[v]), [d \in 1 .. Rank(v) |-> Rank(v) + 1 - d])

Swapaxes(v) ==
    \E a, b \in 1 .. Rank(v) :
        Turn(v, swapaxes(view[v], a, b),
             [d \in 1 .. Rank(v) |-> IF d = a THEN b ELSE IF d = b THEN a ELSE d])

SliceAt(v) ==
    \E axis \in 1 .. Rank(v) : \E index \in 0 .. view[v].shape[axis] - 1 :
        LET new == sliceAt(view[v], axis, index)
            Back(at) == SubSeq(at, 1, axis - 1) \o <<index>> \o SubSeq(at, axis, Len(at))
        IN Replace(v, new, [k \in 0 .. Count(new.shape) - 1 |->
                               FlatOf(view[v].shape, Back(Coordinate(new.shape, k)))])

SliceRange(v) ==
    \E axis \in 1 .. Rank(v) : \E end \in 1 .. view[v].shape[axis] : \E start \in 0 .. end - 1 :
        LET new == sliceRange(view[v], axis, start, end)
            Back(at) == [at EXCEPT ![axis] = @ + start]
        IN Replace(v, new, [k \in 0 .. Count(new.shape) - 1 |->
                               FlatOf(view[v].shape, Back(Coordinate(new.shape, k)))])

\* What element k of a view holds, by the history.
Shown(v, k) == IF saw[v].external THEN heap[External][saw[v].at[k]] ELSE saw[v].at[k]

\* copy() and copy().reshape(shape)
CopyView(a, b, v, shape) ==
    LET n == Count(view[v].shape) IN
    /\ view[v].buffer # NoBuffer /\ b \in Unreferenced /\ n > 0 /\ Count(shape) = n
    /\ Assign(a, [shape |-> shape, buffer |-> b],
              [k \in 0 .. n - 1 |-> heap[view[v].buffer][copyLane(view[v], k)]])
    /\ want' = [want EXCEPT ![a] = [k \in 0 .. n - 1 |-> Shown(v, k)]]
    /\ UNCHANGED <<view, saw>>

\* reshapeOwned when the buffer is owned, contiguous and starts at 0: it is shared, with
\* whatever it holds behind the view.
ReshapeOwned(a, v, shape) ==
    LET V == view[v] IN
    /\ V.buffer \in Buffers /\ isContiguous(V) /\ V.offset = 0
    /\ Count(shape) = Count(V.shape)
    /\ Assign(a, [shape |-> shape, buffer |-> V.buffer], heap[V.buffer])
    /\ want' = [want EXCEPT ![a] = [k \in DOMAIN heap[V.buffer] |->
                                       IF k < Count(shape) THEN Shown(v, k) ELSE heap[V.buffer][k]]]
    /\ UNCHANGED <<view, saw>>

DropView(v) ==
    /\ view[v].buffer # NoBuffer
    /\ AssignView(v, EmptyView)
    /\ saw' = [saw EXCEPT ![v] = NoHistory]
    /\ UNCHANGED <<array, want>>

----------------------------------------------------------------------------

ViewsInit ==
    /\ array = [a \in Arrays |-> EmptyArray]
    /\ view = [v \in Views |-> EmptyView]
    /\ heap = [b \in Buffers \cup {External} |-> IF b = External THEN Cells(MaxElements) ELSE <<>>]
    /\ calls = 0
    /\ want = [a \in Arrays |-> <<>>]
    /\ saw = [v \in Views |-> NoHistory]
    /\ spoiled = FALSE

ViewCall ==
    \/ \E a \in Arrays :
          \/ \E b \in Buffers, shape \in Shapes : Construct(a, b, shape)
          \/ \E shape \in Shapes : Wrap(a, shape)
          \/ \E c \in Arrays, shape \in Shapes : Share(a, c, shape)
          \/ \E c \in Arrays : TakeOver(a, c)
          \/ \E i \in 0 .. MaxElements - 1, c \in Buffers : Write(a, i, c)
          \/ Drop(a)
          \/ \E v \in Views, shape \in Shapes :
                \/ \E b \in Buffers : CopyView(a, b, v, shape)
                \/ ReshapeOwned(a, v, shape)
    \/ \E v \in Views :
          \/ \E a \in Arrays : ViewOf(v, a)
          \/ \E shape \in Shapes : \/ Broadcast(v, shape) \/ Reshape(v, shape)
                                   \/ \E stride \in 1 .. MaxElements : WrapRows(v, shape, stride)
          \/ Permute(v) \/ Transpose(v) \/ Swapaxes(v) \/ SliceAt(v) \/ SliceRange(v)
          \/ DropView(v)

\* After a shared buffer was written in place there is nothing left to check.
ViewsNext ==
    /\ calls < MaxCalls /\ ~spoiled
    /\ calls' = calls + 1
    /\ \/ ViewCall /\ UNCHANGED spoiled
       \/ \E a \in Arrays : LogicalInPlace(a)

----------------------------------------------------------------------------
(* Properties *)

\* "Copies of a wrap alias the same bytes"; every other array keeps what was put into it,
\* whatever is written to the arrays and views it shares a buffer with.
ArraysKeepContents ==
    \A a \in Arrays : array[a].buffer \in Buffers =>
        \A i \in 0 .. Count(array[a].shape) - 1 : heap[array[a].buffer][i] = want[a][i]

\* A view shows the elements it was made to show, through all its strides, by flat index and
\* by coordinates; it stays inside its buffer.
ViewsKeepContents ==
    \A v \in Views : view[v].buffer # NoBuffer =>
        LET V == view[v] IN
        \A k \in 0 .. Count(V.shape) - 1 :
            /\ elementOffset(V, k) \in DOMAIN heap[V.buffer]
            /\ heap[V.buffer][elementOffset(V, k)] = Shown(v, k)
            /\ computeOffset(V, Coordinate(V.shape, k)) = elementOffset(V, k)

ViewsRight == spoiled \/ (ArraysKeepContents /\ ViewsKeepContents)
=============================================================================
