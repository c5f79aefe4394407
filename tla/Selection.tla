----------------------------- MODULE Selection -----------------------------
(***************************************************************************)
(* structures/fixed_reverse_heap.rs, which keeps the least of the items it *)
(* is given, and the selections of structures/heap.rs, nsmallest and       *)
(* nlargest, which do the same to an array at once.  Both have a heap in   *)
(* the reverse order, whose front is the first to go.                      *)
(*                                                                         *)
(* Comparators answer and do nothing else; direction 1 is the caller's     *)
(* order, -1 its reverse.  Positions count from one: the children of p are *)
(* 2p and 2p + 1.                                                          *)
(***************************************************************************)
EXTENDS Integers, SequencesExt

CONSTANTS
    Values,      \* numbers; the caller's comparator sees Rank of them
    Infinite,    \* the value that nsmallest starts from, and
    NegInfinite, \* nlargest: Infinity and -Infinity
    MaxGiven,    \* bound on the items between two clears
    MaxCapacity,
    None         \* undefined

VARIABLES
    capacity,
    slots,       \* the array of a FixedReverseHeap
    held,      \* its size
    given        \* history: the items since it was last emptied

selectionVars == <<capacity, slots, held, given>>

Rank(v) == v \div 2

Less(direction, a, b) == a # None /\ b # None /\ direction * (Rank(a) - Rank(b)) < 0

-----------------------------------------------------------------------------
(* The heap in an array *)

RECURSIVE SiftDown(_, _, _, _, _), SiftUp(_, _, _, _, _, _)

(* The item is carried to start, or as far as it is less than the parents. *)
SiftDown(direction, heap, start, p, item) ==
    IF p > start /\ Less(direction, item, heap[p \div 2])
    THEN SiftDown(direction, [heap EXCEPT ![p] = heap[p \div 2]], start, p \div 2, item)
    ELSE [heap EXCEPT ![p] = item]

LesserChild(direction, heap, end, p) ==
    IF 2 * p + 1 <= end /\ ~Less(direction, heap[2 * p], heap[2 * p + 1]) THEN 2 * p + 1 ELSE 2 * p

(* The hole goes to a leaf below end first, then the item is carried back. *)
SiftUp(direction, heap, end, start, p, item) ==
    LET child == LesserChild(direction, heap, end, p)
    IN  IF 2 * p <= end
        THEN SiftUp(direction, [heap EXCEPT ![p] = heap[child]], end, start, child, item)
        ELSE SiftDown(direction, heap, start, p, item)

Heapify(direction, array) ==
    FoldLeft(LAMBDA heap, p : SiftUp(direction, heap, Len(heap), p, p, heap[p]),
             array, [n \in 1 .. Len(array) \div 2 |-> Len(array) \div 2 + 1 - n])

(* The front gives way to an item that is before it.                       *)
Offer(direction, heap, v) ==
    IF heap # <<>> /\ Less(direction, v, heap[1])
    THEN SiftUp(-direction, heap, Len(heap), 1, 1, v)
    ELSE heap

(* consume: the front goes behind the heap, which is one shorter.          *)
Consumed(heap) ==
    LET Drain[n \in 0 .. Len(heap)] ==
            LET later == Drain[n + 1]
            IN  IF n = Len(heap) THEN [left |-> heap, out |-> <<>>]
                ELSE [left |-> IF n = 0 THEN later.left
                               ELSE SiftUp(-1, later.left, n, 1, 1, later.left[n + 1]),
                      out |-> <<later.left[1]>> \o later.out]
    IN  Drain[0]

-----------------------------------------------------------------------------
(* Sorts *)

RECURSIVE Merge(_, _, _), MergeSort(_, _)

(* Mutant: of two equal items the right one comes first.                   *)
MergeUnstable(direction, left, right) ==
    IF left = <<>> \/ right = <<>> THEN left \o right
    ELSE IF ~Less(direction, Head(left), Head(right))
    THEN <<Head(right)>> \o Merge(direction, left, Tail(right))
    ELSE <<Head(left)>> \o Merge(direction, Tail(left), right)

Merge(direction, left, right) ==
    IF left = <<>> \/ right = <<>> THEN left \o right
    ELSE IF Less(direction, Head(right), Head(left))
    THEN <<Head(right)>> \o Merge(direction, left, Tail(right))
    ELSE <<Head(left)>> \o Merge(direction, Tail(left), right)

MergeSort(direction, a) ==
    LET half == Len(a) \div 2
    IN  IF Len(a) <= 1 THEN a
        ELSE Merge(direction, MergeSort(direction, SubSeq(a, 1, half)),
                   MergeSort(direction, SubSeq(a, half + 1, Len(a))))

(* What is undefined is not compared: it comes last.                       *)
SortWith(direction, a) ==
    MergeSort(direction, SelectSeq(a, LAMBDA v : v # None)) \o SelectSeq(a, LAMBDA v : v = None)

RECURSIVE Insert(_, _, _)

(* inplace_insertion_sort: an item sinks past all that are greater.  The   *)
(* array is one of items, key the identity, or of indices into another.    *)
Insert(key, sorted, v) ==
    IF sorted # <<>> /\ key[Last(sorted)] > key[v]
    THEN Append(Insert(key, Front(sorted), v), Last(sorted))
    ELSE Append(sorted, v)

InsertionSort(key, a, lo, hi) ==
    SubSeq(a, 1, lo - 1) \o FoldLeft(LAMBDA sorted, v : Insert(key, sorted, v), <<>>, SubSeq(a, lo, hi))
        \o SubSeq(a, hi + 1, Len(a))

RECURSIVE FromRight(_, _, _, _, _), FromLeft(_, _, _, _, _), QuickSort(_, _, _, _)

(* The two scans of a partition take turns, each filling the other's hole. *)
FromRight(key, a, pivot, l, r) ==
    IF l < r /\ key[a[r]] >= key[pivot] THEN FromRight(key, a, pivot, l, r - 1)
    ELSE IF l < r THEN FromLeft(key, [a EXCEPT ![l] = a[r]], pivot, l + 1, r)
    ELSE [array |-> [a EXCEPT ![l] = pivot], at |-> l]

FromLeft(key, a, pivot, l, r) ==
    IF l < r /\ key[a[l]] <= key[pivot] THEN FromLeft(key, a, pivot, l + 1, r)
    ELSE IF l < r THEN FromRight(key, [a EXCEPT ![r] = a[l]], pivot, l, r - 1)
    ELSE [array |-> [a EXCEPT ![l] = pivot], at |-> l]

(* Mutant: the larger half is done first, and the stack grows with it.     *)
PushHalvesLargerLast(windows, left, right) ==
    windows \o IF right[2] - right[1] > left[2] - left[1] THEN <<left, right>> ELSE <<right, left>>

(* Of two halves the lesser is done first.                                 *)
PushHalves(windows, left, right) ==
    windows \o IF right[2] - right[1] > left[2] - left[1] THEN <<right, left>> ELSE <<left, right>>

(* windows is the stack of the bounds yet to do, depth how high it was.    *)
QuickSort(key, a, windows, depth) ==
    LET lo == Last(windows)[1]
        hi == Last(windows)[2]
        split == FromRight(key, a, a[lo], lo, hi)
        halved == PushHalves(Front(windows), <<lo, split.at - 1>>, <<split.at + 1, hi>>)
    IN  IF windows = <<>> THEN [array |-> a, depth |-> depth]
        ELSE IF lo >= hi THEN QuickSort(key, a, Front(windows), depth)
        ELSE QuickSort(key, split.array, halved, Max({depth, Len(halved)}))

-----------------------------------------------------------------------------
(* nsmallest (direction 1) and nlargest (-1) *)

(* n = 1: the first thing to beat is taken for there being nothing yet.    *)
Sentinel(direction) == IF direction = 1 THEN Infinite ELSE NegInfinite

Extreme(direction, a) ==
    FoldLeft(LAMBDA best, v : IF best = Sentinel(direction) \/ Less(direction, v, best) THEN v ELSE best,
             Sentinel(direction), a)

SliceEnd(n, length) == IF n < 0 THEN Max({0, length + n}) ELSE Min({n, length})

(* Mutant: the scan goes on where the slice ended.                         *)
ScanBehindSlice(n, a) == SubSeq(a, SliceEnd(n, Len(a)) + 1, Len(a))

(* The scan goes from n on, before the array too if n is negative.         *)
Scan(n, a) == [k \in 1 .. Len(a) - n |-> IF n + k > 0 THEN a[n + k] ELSE None]

SelectFromArray(direction, n, a) ==
    IF n = 1 THEN <<Extreme(direction, a)>>
    ELSE IF n >= Len(a) THEN SortWith(direction, a)
    ELSE SortWith(direction,
             FoldLeft(LAMBDA heap, v : Offer(direction, heap, v),
                      Heapify(-direction, SubSeq(a, 1, SliceEnd(n, Len(a)))), Scan(n, a)))

(* bounded: the length that was guessed is believed.                       *)
SelectFromIterable(direction, asked, guessed, values) ==
    LET n == IF guessed = None THEN asked ELSE Min({asked, guessed})
        kept == SubSeq(values, 1, Min({n, Len(values)}))
    IN  IF asked = 1 THEN <<Extreme(direction, values)>>
        ELSE IF Len(values) <= n THEN SortWith(direction, kept)
        ELSE SortWith(direction,
                 FoldLeft(LAMBDA heap, v : Offer(direction, heap, v),
                          Heapify(-direction, kept), SubSeq(values, n + 1, Len(values))))

-----------------------------------------------------------------------------
(* FixedReverseHeap *)

Init ==
    /\ capacity \in 0 .. MaxCapacity
    /\ slots = [p \in 1 .. capacity |-> None]
    /\ held = 0
    /\ given = <<>>

(* Mutant: a full heap takes whatever is not behind its front.             *)
PushIntoLargest(v) ==
    /\ Len(given) < MaxGiven
    /\ IF held < capacity
       THEN slots' = SiftDown(-1, [slots EXCEPT ![held + 1] = v], 1, held + 1, v)
       ELSE slots' = IF slots # <<>> /\ ~Less(1, v, slots[1])
                     THEN SiftUp(-1, slots, capacity, 1, 1, v) ELSE slots
    /\ held' = IF held < capacity THEN held + 1 ELSE held
    /\ given' = Append(given, v)
    /\ UNCHANGED capacity

Push(v) ==
    /\ Len(given) < MaxGiven
    /\ IF held < capacity
       THEN slots' = SiftDown(-1, [slots EXCEPT ![held + 1] = v], 1, held + 1, v)
       ELSE slots' = Offer(1, slots, v)
    /\ held' = IF held < capacity THEN held + 1 ELSE held
    /\ given' = Append(given, v)
    /\ UNCHANGED capacity

(* What the slots hold stays.                                              *)
Clear ==
    /\ held' = 0
    /\ given' = <<>>
    /\ UNCHANGED <<capacity, slots>>

ToArray == Consumed(SubSeq(slots, 1, held)).out

Consume ==
    /\ slots' = Consumed(SubSeq(slots, 1, held)).left \o SubSeq(slots, held + 1, capacity)
    /\ held' = 0
    /\ given' = <<>>
    /\ UNCHANGED capacity

Next ==
    \/ \E v \in Values : Push(v)
    \/ Clear
    \/ Consume

-----------------------------------------------------------------------------

Sorts(direction, a, result) ==
    /\ Len(a) = Len(result)
    /\ \A v \in ToSet(a) \cup {None} :
          Len(SelectSeq(a, LAMBDA w : w = v)) = Len(SelectSeq(result, LAMBDA w : w = v))
    /\ \A n \in 1 .. Len(a) - 1 : ~Less(direction, result[n + 1], result[n])

(* The stable order, by rank and then by place.                            *)
Stable(direction, a) ==
    LET Before(m, n) == \/ Less(direction, a[m], a[n])
                        \/ Rank(a[m]) = Rank(a[n]) /\ m <= n
        place == [n \in DOMAIN a |-> Cardinality({m \in DOMAIN a : Before(m, n)})]
    IN  [k \in DOMAIN a |-> a[CHOOSE n \in DOMAIN a : place[n] = k]]

Ranks(a) == [n \in DOMAIN a |-> IF a[n] = None THEN None ELSE Rank(a[n])]

(* The n first of a, ties in any order.                                    *)
Selects(direction, n, a, result) ==
    /\ Ranks(result) = Ranks(SubSeq(Stable(direction, a), 1, Min({n, Len(a)})))
    /\ \A v \in ToSet(result) :
          Len(SelectSeq(result, LAMBDA w : w = v)) <= Len(SelectSeq(a, LAMBDA w : w = v))

(* A reverse heap holds the least it was given, in heap order, and gives   *)
(* them sorted, ties, clears and consumptions notwithstanding.             *)
KeepsLeast ==
    /\ Selects(1, capacity, given, Stable(1, SubSeq(slots, 1, held)))
    /\ Sorts(1, SubSeq(slots, 1, held), ToArray)
    /\ \A p \in 2 .. held : ~Less(1, slots[p \div 2], slots[p])

(* The selections: the n first, also when an iterable guesses its length   *)
(* right; where one is asked for, unless the infinity that stands for none *)
(* is in the array, not last, and first in the order of the comparator.    *)
SelectionsExact ==
    \A direction \in {1, -1}, n \in 0 .. Len(given) + 1 :
        LET hidden == n = 1 /\ Sentinel(direction) \in ToSet(Front(given))
        IN  given # <<>> /\ ~hidden =>
                /\ Selects(direction, n, given, SelectFromArray(direction, n, given))
                /\ \A guessed \in {None, Len(given)} :
                      Selects(direction, n, given, SelectFromIterable(direction, n, guessed, given))

(* A guess that is too low is believed.  A negative n leaves out that many *)
(* places, as a slice does, and what is before its end is offered to the   *)
(* heap once more: the first of it and of the whole array together stay.   *)
SelectionsBounded ==
    \A direction \in {1, -1} :
        /\ \A n \in 2 .. Len(given), guessed \in 0 .. Len(given) :
              Selects(direction, Min({n, guessed}), given, SelectFromIterable(direction, n, guessed, given))
        /\ \A n \in -Len(given) .. -1 :
              LET sliced == SubSeq(given, 1, Len(given) + n)
              IN  Selects(direction, Len(sliced), sliced \o given, SelectFromArray(direction, n, given))

(* The sorts sort, those of heap.rs and insertion.rs stably, and the stack *)
(* of the quick sort stays logarithmic.                                    *)
SortsExact ==
    LET identity == [v \in Values |-> v]
        key == [n \in DOMAIN given |-> Rank(given[n])]
        indices == [n \in DOMAIN given |-> n]
        quick == QuickSort(identity, given, <<<<1, Len(given)>>>>, 1)
        quickIndices == QuickSort(key, indices, <<<<1, Len(given)>>>>, 1)
        insertion == InsertionSort(key, indices, 1, Len(given))
    IN  /\ \A direction \in {1, -1} : SortWith(direction, given) = Stable(direction, given)
        /\ SortWith(1, <<None>> \o given) = Stable(1, given) \o <<None>>
        /\ quick.array = SortSeq(given, <)
        /\ \A sort \in {quick, quickIndices} : 2 ^ (sort.depth - 1) <= Max({1, Len(given)})
        /\ Sorts(1, given, [n \in DOMAIN given |-> given[quickIndices.array[n]]])
        /\ [n \in DOMAIN given |-> given[insertion[n]]] = Stable(1, given)
        /\ \A lo, hi \in DOMAIN given :
              lo <= hi =>
                  InsertionSort(identity, given, lo, hi) =
                      SubSeq(given, 1, lo - 1) \o SortSeq(SubSeq(given, lo, hi), <)
                          \o SubSeq(given, hi + 1, Len(given))
=============================================================================
