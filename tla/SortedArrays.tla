---------------------------- MODULE SortedArrays ----------------------------
(***************************************************************************)
(* utils/binary_search.rs and utils/merge.rs: searches in arrays sorted in *)
(* ascending order, and what is made of several of them.  Positions count  *)
(* from zero, as in the code.  structures/set.rs: what is made of sets.    *)
(***************************************************************************)
EXTENDS Integers, Sequences, SequencesExt

-----------------------------------------------------------------------------
(* Searches.  The variants with a comparator, which is one of the order,   *)
(* are the same loops; what is past the array is neither less nor greater. *)

AtMost(v, a, i) == i < Len(a) /\ v <= a[i + 1]
AtLeast(v, a, i) == i < Len(a) /\ v >= a[i + 1]

(* The first position from lo on, below hi, where the upper half begins.   *)
Bisect(lo, hi, InUpper(_)) ==
    LET Narrow[l \in 0 .. hi + lo, h \in 0 .. hi] ==
            LET mid == (l + h) \div 2
            IN  IF l >= h THEN l
                ELSE IF InUpper(mid) THEN Narrow[l, mid] ELSE Narrow[mid + 1, h]
    IN Narrow[lo, hi]

LowerBoundIn(a, v, lo, hi) == Bisect(lo, hi, LAMBDA mid : AtMost(v, a, mid))
LowerBound(a, v, lo) == LowerBoundIn(a, v, lo, Len(a))

UpperBoundIn(a, v, lo, hi) == Bisect(lo, hi, LAMBDA mid : ~AtLeast(v, a, mid))
UpperBound(a, v) == UpperBoundIn(a, v, 0, Len(a))

(* The array in the order of indices, which may be fewer than its items.   *)
LowerBoundIndices(a, indices, v) ==
    Bisect(0, Len(a), LAMBDA mid : mid < Len(indices) /\ AtMost(v, a, indices[mid + 1]))

(* Any position of v, or -1.                                               *)
Search(a, v, lo, hi) ==
    LET Probe[l \in 0 .. hi + lo + 1, h \in -1 .. hi] ==
            LET mid == (l + h) \div 2
            IN  IF l > h THEN -1
                ELSE IF ~AtLeast(v, a, mid) THEN Probe[l, mid - 1]
                ELSE IF ~AtMost(v, a, mid) THEN Probe[mid + 1, h]
                ELSE mid
    IN Probe[lo, hi - 1]

-----------------------------------------------------------------------------
(* Intersections *)

(* Mutant: a search starts behind the element it should find.              *)
MeetFromNext(a, b, start, limit) ==
    LET Meet[i \in 0 .. Len(a) + 1, j \in 0 .. Len(b) + 1] ==
            IF i >= Len(a) \/ j >= limit THEN <<>>
            ELSE IF a[i + 1] < b[j + 1] THEN Meet[LowerBound(a, b[j + 1], i + 2), j]
            ELSE IF a[i + 1] > b[j + 1] THEN Meet[i, LowerBound(b, a[i + 1], j + 1)]
            ELSE <<a[i + 1]>> \o Meet[i + 1, j + 1]
    IN Meet[start[1], start[2]]

(* The array behind skips to the head of the other.                        *)
MeetFrom(a, b, start, limit) ==
    LET Meet[i \in 0 .. Len(a) + 1, j \in 0 .. Len(b) + 1] ==
            IF i >= Len(a) \/ j >= limit THEN <<>>
            ELSE IF a[i + 1] < b[j + 1] THEN Meet[LowerBound(a, b[j + 1], i + 1), j]
            ELSE IF a[i + 1] > b[j + 1] THEN Meet[i, LowerBound(b, a[i + 1], j + 1)]
            ELSE <<a[i + 1]>> \o Meet[i + 1, j + 1]
    IN Meet[start[1], start[2]]

(* The one that starts lower comes first.                                  *)
Ordered(a, b) == IF a[1] > b[1] THEN <<b, a>> ELSE <<a, b>>

(* Disjoint ranges are not looked into.                                    *)
IntersectionUnique(a, b) ==
    LET low == Ordered(a, b)[1]
        high == Ordered(a, b)[2]
    IN IF a = <<>> \/ b = <<>> THEN <<>>
       ELSE IF Last(low) < Head(high) THEN <<>>
       ELSE MeetFrom(low, high, <<LowerBound(low, Head(high), 0), 0>>, UpperBound(high, Last(low)))

(* Of any number: what is common to the first ones is met with the next,   *)
(* from the least it can still have.                                       *)
IntersectionUniqueK(arrays) ==
    LET start == Max({Head(a) : a \in ToSet(arrays)})
        end == Min({Last(a) : a \in ToSet(arrays)})
        met(common, b) ==
            MeetFrom(common.of, b, <<0, LowerBound(b, common.from, 0)>>, Len(b))
        next(common, b) ==
            IF common.of = <<>> \/ met(common, b) = <<>> THEN [common EXCEPT !.of = <<>>]
            ELSE [of |-> met(common, b), from |-> Head(met(common, b))]
    IN  IF arrays = <<>> \/ <<>> \in ToSet(arrays) THEN <<>>
        ELSE IF start > end THEN <<>>
        ELSE IF start = end THEN <<start>>
        ELSE FoldLeft(next, [of |-> arrays[1], from |-> start], Tail(arrays)).of

-----------------------------------------------------------------------------
(* Merges and unions: a union leaves out what it has just taken.           *)

PushUnique(out, v) == IF out # <<>> /\ Last(out) = v THEN out ELSE Append(out, v)

RECURSIVE Interleaved(_, _)

Interleaved(a, b) ==
    IF a = <<>> \/ b = <<>> THEN a \o b
    ELSE IF Head(a) <= Head(b) THEN <<Head(a)>> \o Interleaved(Tail(a), b)
    ELSE <<Head(b)>> \o Interleaved(a, Tail(b))

MergeTwo(a, b) ==
    LET low == Ordered(a, b)[1]
        high == Ordered(a, b)[2]
    IN  IF a = <<>> \/ b = <<>> THEN a \o b
        ELSE IF Last(low) <= Head(high) THEN low \o high
        ELSE Interleaved(low, high)

(* Mutant: what is in both arrays before the second begins is taken twice. *)
UnionUniqueTwoTouching(a, b) ==
    LET low == Ordered(a, b)[1]
        high == Ordered(a, b)[2]
    IN  IF a = <<>> \/ b = <<>> THEN a \o b
        ELSE IF Last(low) <= Head(high) THEN low \o high
        ELSE FoldLeft(PushUnique, <<>>, Interleaved(low, high))

(* What is below the other array, or an only array, is taken as it is.     *)
UnionUniqueTwo(a, b) ==
    LET low == Ordered(a, b)[1]
        high == Ordered(a, b)[2]
        below == SelectSeq(low, LAMBDA v : v < Head(high))
    IN  IF a = <<>> \/ b = <<>> THEN a \o b
        ELSE IF Last(low) < Head(high) THEN low \o high
        ELSE FoldLeft(PushUnique, below, Interleaved(SubSeq(low, Len(below) + 1, Len(low)), high))

RECURSIVE KWayScan(_)

(* The arrays are in a Fibonacci heap by the heads they have then.         *)
KWayScan(arrays) ==
    LET open == SelectSeq(arrays, LAMBDA a : a # <<>>)
        least == CHOOSE n \in DOMAIN open : \A k \in DOMAIN open : open[n][1] <= open[k][1]
    IN  IF open = <<>> THEN <<>>
        ELSE <<open[least][1]>> \o KWayScan([open EXCEPT ![least] = Tail(@)])

Failure == "StaleLengthMismatch"

(* With three arrays or more, an empty one among them is an error.         *)
KWay(arrays, Two(_, _), All(_)) ==
    LET full == SelectSeq(arrays, LAMBDA a : a # <<>>)
    IN  IF Len(full) <= 2 THEN FoldLeft(Two, <<>>, full)
        ELSE IF full # arrays THEN <<Failure>>
        ELSE All(KWayScan(arrays))

MergeK(arrays) == KWay(arrays, MergeTwo, LAMBDA merged : merged)
UnionUniqueK(arrays) == KWay(arrays, UnionUniqueTwo, LAMBDA merged : FoldLeft(PushUnique, <<>>, merged))

-----------------------------------------------------------------------------

Ascending(a) == \A n \in 1 .. Len(a) - 1 : a[n] <= a[n + 1]
Increasing(S) == SetToSortSeq(S, <)
Elements(arrays) == UNION {ToSet(a) : a \in ToSet(arrays)}

Common(arrays) ==
    {v \in Elements(arrays) : \A a \in ToSet(arrays) : v \in ToSet(a)}

(* The ranges of the arrays have one value in common, which is taken for   *)
(* their intersection although an array may pass over it, as <<1, 3>>      *)
(* passes over 2.                                                          *)
Touching(arrays) ==
    /\ arrays # <<>> /\ <<>> \notin ToSet(arrays)
    /\ Max({Head(a) : a \in ToSet(arrays)}) = Min({Last(a) : a \in ToSet(arrays)})

(* Every search finds what a scan would, also in a part of the array, and  *)
(* through indices.                                                        *)
SearchesExact(a, values) ==
    \A v \in values :
        /\ \A hi \in 0 .. Len(a) : \A lo \in 0 .. hi :
            LET part == SubSeq(a, lo + 1, hi)
                found == Search(a, v, lo, hi)
            IN  /\ LowerBoundIn(a, v, lo, hi) = lo + Len(SelectSeq(part, LAMBDA w : w < v))
                /\ UpperBoundIn(a, v, lo, hi) = lo + Len(SelectSeq(part, LAMBDA w : w <= v))
                /\ IF v \in ToSet(part) THEN found \in lo .. hi - 1 /\ a[found + 1] = v
                   ELSE found = -1
        /\ LowerBoundIndices(Reverse(a), [n \in DOMAIN a |-> Len(a) - n], v) = LowerBound(a, v, 0)

(* Merges are sorted and lose nothing, unions and intersections of arrays  *)
(* without duplicates are those of the sets, of any number of arrays; the  *)
(* error is raised where the comments say it is.                           *)
CombinationsExact(arrays) ==
    LET empty == Len(SelectSeq(arrays, LAMBDA a : a = <<>>))
        fails == empty > 0 /\ Len(arrays) - empty > 2
        merged == MergeK(arrays)
        unique == \A a \in ToSet(arrays) : \A n \in 1 .. Len(a) - 1 : a[n] < a[n + 1]
    IN  /\ fails => merged = <<Failure>> /\ UnionUniqueK(arrays) = <<Failure>>
        /\ ~fails =>
            /\ Ascending(merged)
            /\ \A v \in Elements(arrays) :
                  Len(SelectSeq(merged, LAMBDA w : w = v)) =
                      Len(SelectSeq(FlattenSeq(arrays), LAMBDA w : w = v))
        /\ unique /\ ~fails => UnionUniqueK(arrays) = Increasing(Elements(arrays))
        /\ unique /\ ~Touching(arrays) => IntersectionUniqueK(arrays) = Increasing(Common(arrays))
        /\ unique /\ ~Touching(arrays) /\ Len(arrays) = 2 =>
               IntersectionUniqueK(arrays) = IntersectionUnique(arrays[1], arrays[2])

-----------------------------------------------------------------------------
(* structures/set.rs: operations on sets, which are JavaScript's and so    *)
(* have an order, that of insertion: sequences without repetition.  The    *)
(* calls that change their first argument do it by a list of additions and *)
(* deletions, made up before the first of them and done again by the       *)
(* bridge on the caller's set; the second argument may be that very set.   *)

Has(s, x) == x \in ToSet(s)

Adding(x) == [op |-> "add", member |-> x]
Deleting(x) == [op |-> "delete", member |-> x]

Perform(s, step) ==
    IF step.op = "delete" THEN SelectSeq(s, LAMBDA x : x # step.member)
    ELSE IF Has(s, step.member) THEN s ELSE Append(s, step.member)

Apply(s, steps) == FoldLeft(Perform, s, steps)

Each(Step(_), s) == [n \in DOMAIN s |-> Step(s[n])]

(* The first of the smallest is walked; an empty one decides at once.      *)
Intersection(sets) ==
    LET least == Min({Len(s) : s \in ToSet(sets)})
        smallest == sets[CHOOSE n \in DOMAIN sets :
                            Len(sets[n]) = least /\ \A k \in 1 .. n - 1 : Len(sets[k]) > least]
    IN  SelectSeq(smallest, LAMBDA x : \A s \in ToSet(sets) : Has(s, x))

Union(sets) == Apply(<<>>, Each(Adding, FlattenSeq(sets)))

Difference(a, b) == SelectSeq(a, LAMBDA x : ~Has(b, x))

SymmetricDifference(a, b) == Apply(Difference(a, b), Each(Adding, Difference(b, a)))

IsSubsetOf(a, b) == Len(a) <= Len(b) /\ \A x \in ToSet(a) : Has(b, x)

AddAll(a, b) == Each(Adding, b)

Subtract(a, b) == Each(Deleting, b)

Intersect(a, b) == Each(Deleting, Difference(a, b))

(* Mutant: the deletions are worked out after the additions are made.      *)
DisjunctLate(a, b) ==
    LET additions == Each(Adding, Difference(b, a))
    IN  additions \o Each(Deleting, SelectSeq(Apply(a, additions), LAMBDA x : Has(b, x)))

Disjunct(a, b) ==
    Each(Adding, Difference(b, a)) \o Each(Deleting, SelectSeq(a, LAMBDA x : Has(b, x)))

IntersectionSize(a, b) ==
    IF Len(a) > Len(b) THEN Len(SelectSeq(b, LAMBDA x : Has(a, x)))
    ELSE Len(SelectSeq(a, LAMBDA x : Has(b, x)))

UnionSize(a, b) == Len(a) + Len(b) - IntersectionSize(a, b)

(* The numerator and the denominator; nothing in common is zero.           *)
Jaccard(a, b) == <<IntersectionSize(a, b), Len(a) + Len(b) - IntersectionSize(a, b)>>
Overlap(a, b) == <<IntersectionSize(a, b), Min({Len(a), Len(b)})>>

-----------------------------------------------------------------------------

IsSet(s) == IsInjective(s)

(* The operations are those of the sets, each makes a set, whose order is  *)
(* the arguments'; what changes the first argument in place makes of it    *)
(* what the operation beside it makes anew, also of a set and itself.      *)
SetsExact(a, b, c) ==
    LET A == ToSet(a)
        B == ToSet(b)
        same(s, S) == IsSet(s) /\ ToSet(s) = S
    IN  /\ same(Intersection(<<a, b, c>>), A \cap B \cap ToSet(c))
        /\ same(Union(<<a, b, c>>), A \cup B \cup ToSet(c))
        /\ IsPrefix(a, Union(<<a, b>>))
        /\ same(Difference(a, b), A \ B)
        /\ same(SymmetricDifference(a, b), (A \ B) \cup (B \ A))
        /\ IsSubsetOf(a, b) <=> A \subseteq B
        /\ Apply(a, AddAll(a, b)) = Union(<<a, b>>)
        /\ Apply(a, Subtract(a, b)) = Difference(a, b)
        /\ Apply(a, Intersect(a, b)) = SelectSeq(a, LAMBDA x : x \in B)
        /\ same(Apply(a, Disjunct(a, b)), (A \ B) \cup (B \ A))
        /\ Apply(a, Disjunct(a, a)) = <<>> /\ Apply(a, Subtract(a, a)) = <<>>
        /\ IntersectionSize(a, b) = Cardinality(A \cap B)
        /\ UnionSize(a, b) = Cardinality(A \cup B)
        /\ Jaccard(a, b) = <<Cardinality(A \cap B), Cardinality(A \cup B)>>
        /\ A \subseteq B => Overlap(a, b)[1] = Overlap(a, b)[2]
=============================================================================
