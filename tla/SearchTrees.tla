---------------------------- MODULE SearchTrees ----------------------------
(***************************************************************************)
(* bk_tree.rs, vp_tree.rs, kd_tree.rs and static_interval_tree.rs: trees   *)
(* that are searched for what is near a query, and leave out the branches  *)
(* where there can be nothing.  Points are in the plane; the metric that   *)
(* callers give is the sum of the differences.  Positions in arrays of     *)
(* nodes count from zero, items and intervals from one.                    *)
(***************************************************************************)
EXTENDS SortedArrays, FiniteSets, TLC

CONSTANTS Points, MaxItems

VARIABLES tree,  \* a BK tree: items by the distances on the way to them
          size,
          past   \* history: what was added, or what a tree was built from

vars == <<tree, size, past>>

Sorting == INSTANCE Selection WITH
    Values <- {}, Infinite <- 0, NegInfinite <- 0, MaxGiven <- 0, MaxCapacity <- 0, None <- 0,
    capacity <- 0, slots <- <<>>, held <- 0, given <- <<>>

(* The positions from lo on, below hi, of the array ids put in order.      *)
Window(key, ids, lo, hi) == Sorting!QuickSort(key, ids, <<<<lo + 1, hi>>>>, 0).array

Abs(x) == IF x < 0 THEN -x ELSE x

Distance(p, q) == Abs(p[1] - q[1]) + Abs(p[2] - q[2])

-----------------------------------------------------------------------------
(* BK trees *)

InitBK ==
    /\ tree = <<>>
    /\ size = 0
    /\ past = <<>>

(* Where an item belongs: below the item at every distance that is taken.  *)
RECURSIVE PlaceBelow(_, _)
PlaceBelow(item, path) ==
    IF path \notin DOMAIN tree THEN path
    ELSE PlaceBelow(item, Append(path, Distance(item, tree[path])))

BKAdd(item) ==
    /\ size < MaxItems
    /\ tree' = PlaceBelow(item, <<>>) :> item @@ tree
    /\ size' = size + 1
    /\ past' = Append(past, item)

(* The distance throws on the way, for all but the first item.             *)
BKAddThrows(item) == tree # <<>> /\ UNCHANGED <<tree, size, past>>

BKClear ==
    /\ tree' = <<>>
    /\ size' = 0
    /\ past' = <<>>

BKNext == BKClear \/ \E item \in Points : BKAdd(item) \/ BKAddThrows(item)

(* Mutant: the branch at the greatest distance that may do is left out.    *)
BranchesOpen(d, n) == d - n .. d + n - 1

Branches(d, n) == d - n .. d + n

RECURSIVE BKFound(_, _, _)
BKFound(stack, n, query) ==
    LET path == Last(stack)
        d == Distance(query, tree[path])
        children == {i \in Branches(d, n) : Append(path, i) \in DOMAIN tree}
    IN  IF stack = <<>> THEN <<>>
        ELSE (IF d <= n THEN <<path>> ELSE <<>>) \o
             BKFound(Front(stack) \o [i \in 1 .. Cardinality(children) |->
                        Append(path, SetToSortSeq(children, <)[i])], n, query)

BKSearch(n, query) == IF tree = <<>> THEN <<>> ELSE BKFound(<<<<>>>>, n, query)

(* A search finds every item within the distance as often as it was added. *)
BKExact ==
    /\ size = Len(past)
    /\ \A query \in Points, n \in 0 .. 3 :
        LET found == BKSearch(n, query)
        IN  /\ IsInjective(found)
            /\ \A p \in Points : Cardinality({path \in ToSet(found) : tree[path] = p}) =
                   IF Distance(p, query) <= n THEN Len(SelectSeq(past, LAMBDA q : q = p)) ELSE 0

-----------------------------------------------------------------------------
(* VP trees: twice the distances are used, so that means are whole.        *)

RECURSIVE VPGrown(_, _)
VPGrown(items, t) ==
    LET node == Last(t.stack)[1]
        lo == Last(t.stack)[2]
        hi == Last(t.stack)[3] - 1
        vantage == t.ids[hi + 1]
        far == [n \in DOMAIN items |-> Distance(items[vantage], items[n])]
        ids == Window(far, t.ids, lo, hi)
        at(i) == far[ids[i + 1]]
        half == (hi - lo) \div 2
        mu == IF (hi - lo) % 2 = 0 THEN at(lo + half - 1) + at(lo + half) ELSE 2 * at(lo + half)
        mid == Bisect(lo, hi, LAMBDA m : mu <= 2 * at(m))
        popped == [t EXCEPT !.stack = Front(@), !.nodes[node] = vantage]
        right == [popped EXCEPT !.ids = ids, !.mus[node] = mu, !.free = @ + 1,
                                !.rights[node] = t.free + 1, !.stack = Append(@, <<t.free + 1, mid, hi>>)]
    IN  IF t.stack = <<>> THEN t
        ELSE IF hi = lo THEN VPGrown(items, popped)
        ELSE IF hi = lo + 1 THEN VPGrown(items,
            [popped EXCEPT !.mus[node] = 2 * far[t.ids[lo + 1]], !.free = @ + 1,
                           !.rights[node] = t.free + 1, !.nodes[t.free + 1] = t.ids[lo + 1]])
        ELSE IF mid = lo THEN VPGrown(items, right)
        ELSE VPGrown(items, [right EXCEPT
            !.free = @ + 1, !.lefts[node] = t.free + 2, !.stack = Append(@, <<t.free + 2, lo, mid>>)])

VPBuilt(items) ==
    LET zero == [n \in 0 .. Len(items) - 1 |-> 0]
    IN  VPGrown(items, [nodes |-> zero, lefts |-> zero, rights |-> zero, mus |-> zero, free |-> 0,
                        ids |-> [n \in DOMAIN items |-> n],
                        stack |-> IF items = <<>> THEN <<>> ELSE <<<<0, 0, Len(items)>>>>])

(* Mutant: what is as far from the vantage point as the mean is not sought.*)
AheadBeyondMean(t, node, d, tau) ==
    (IF t.rights[node] # 0 /\ 2 * d > t.mus[node] - 2 * tau THEN <<t.rights[node]>> ELSE <<>>) \o
    (IF t.lefts[node] # 0 /\ 2 * d < t.mus[node] + 2 * tau THEN <<t.lefts[node]>> ELSE <<>>)

(* The sides of a node where something may be nearer than tau.             *)
Ahead(t, node, d, tau) ==
    LET right == IF t.rights[node] # 0 /\ 2 * d >= t.mus[node] - 2 * tau THEN <<t.rights[node]>> ELSE <<>>
        left == IF t.lefts[node] # 0 /\ 2 * d < t.mus[node] + 2 * tau THEN <<t.lefts[node]>> ELSE <<>>
    IN IF 2 * d < t.mus[node] THEN left \o right ELSE right \o left

RECURSIVE VPWithin(_, _, _, _, _)
VPWithin(items, t, stack, radius, query) ==
    LET node == Last(stack)
        d == Distance(items[t.nodes[node]], query)
    IN  IF stack = <<>> THEN <<>>
        ELSE (IF d <= radius THEN <<t.nodes[node]>> ELSE <<>>) \o
             VPWithin(items, t, Front(stack) \o Ahead(t, node, d, radius), radius, query)

(* best is the heap of those found, nearest first; tau is infinite (100,   *)
(* past every distance) until it is full.                                  *)
RECURSIVE VPNearest(_, _, _, _, _, _)
VPNearest(items, t, stack, k, query, best) ==
    LET node == Last(stack)
        far(n) == Distance(items[n], query)
        d == far(t.nodes[node])
        tau(b) == IF Len(b) < k THEN 100 ELSE far(Last(b))
        nearer == SelectSeq(best, LAMBDA n : far(n) <= d)
        next == IF d >= tau(best) THEN best
                ELSE SubSeq(nearer \o <<t.nodes[node]>> \o SubSeq(best, Len(nearer) + 1, Len(best)), 1, Min({k, Len(best) + 1}))
    IN  IF stack = <<>> THEN best
        ELSE VPNearest(items, t, Front(stack) \o Ahead(t, node, d, tau(next)), k, query, next)

(* What is near is found, all of it or the nearest of it.                  *)
VPExact ==
    LET t == VPBuilt(past)
        stack == IF past = <<>> THEN <<>> ELSE <<0>>
    IN  \A query \in Points :
        LET far(n) == Distance(past[n], query)
            ranked == SortSeq([n \in DOMAIN past |-> far(n)], <)
        IN  /\ \A radius \in 0 .. 2 :
                LET found == VPWithin(past, t, stack, radius, query)
                IN IsInjective(found) /\ ToSet(found) = {n \in DOMAIN past : far(n) <= radius}
            /\ \A k \in 1 .. 3 :
                LET found == VPNearest(past, t, stack, k, query, <<>>)
                IN  /\ IsInjective(found)
                    /\ [n \in DOMAIN found |-> far(found[n])] = SubSeq(ranked, 1, Min({k, Len(past)}))

-----------------------------------------------------------------------------
(* KD trees: of two dimensions, by the squares of distances. *)

Squared(p, q) == (p[1] - q[1]) ^ 2 + (p[2] - q[2]) ^ 2

(* A window is its axis, its bounds, and where the node is hung.           *)
RECURSIVE KDGrown(_, _)
KDGrown(items, t) ==
    LET top == Last(t.stack)
        ids == Window([n \in DOMAIN items |-> items[n][top.axis]], t.ids, top.lo, top.hi)
        median == top.lo + (top.hi - top.lo) \div 2
        node == Len(t.pivots)
        part(lo, hi, side) == [axis |-> 3 - top.axis, lo |-> lo, hi |-> hi, parent |-> node, side |-> side]
        right == IF median \in {top.lo, top.hi - 1} THEN <<>> ELSE <<part(median + 1, top.hi, "right")>>
        left == IF median = top.lo THEN <<>> ELSE <<part(top.lo, median, "left")>>
        hung(side, links) == IF top.side = side THEN [links EXCEPT ![top.parent] = node + 1] ELSE links
    IN  IF t.stack = <<>> THEN t
        ELSE KDGrown(items,
            [pivots |-> Append(t.pivots, ids[median + 1]), ids |-> ids,
             lefts |-> hung("left", t.lefts), rights |-> hung("right", t.rights),
             stack |-> Front(t.stack) \o right \o left])

KDBuilt(items) ==
    LET zero == [n \in 0 .. Len(items) - 1 |-> 0]
        whole == [axis |-> 1, lo |-> 0, hi |-> Len(items), parent |-> 0, side |-> "none"]
    IN  KDGrown(items, [pivots |-> <<>>, lefts |-> zero, rights |-> zero, ids |-> [n \in DOMAIN items |-> n],
                        stack |-> IF items = <<>> THEN <<>> ELSE <<whole>>])

(* Below and above what splits at a node, the side of the query first.     *)
Sides(items, t, axis, node, query) ==
    IF query[axis] < items[t.pivots[node + 1]][axis]
    THEN <<t.lefts[node], t.rights[node]>> ELSE <<t.rights[node], t.lefts[node]>>

Across(items, t, axis, node, query) == (items[t.pivots[node + 1]][axis] - query[axis]) ^ 2

RECURSIVE KDNearest(_, _, _, _, _, _)
KDNearest(items, t, axis, node, query, best) ==
    LET pivot == t.pivots[node + 1]
        far == Squared(items[pivot], query)
        nearer == best = <<>> \/ far < best[1]
        sought(side, found) == IF side = 0 THEN found
                               ELSE KDNearest(items, t, 3 - axis, side - 1, query, found)
        sides == Sides(items, t, axis, node, query)
        near == sought(sides[1], IF nearer THEN <<far, pivot>> ELSE best)
    IN  IF nearer /\ far = 0 THEN <<far, pivot>>
        ELSE IF Across(items, t, axis, node, query) < near[1] THEN sought(sides[2], near)
        ELSE near

(* What a reverse heap of capacity k keeps of the triples it is given.     *)
Kept(triples, k) ==
    LET Before(p, q) == p[1] < q[1] \/ (p[1] = q[1] /\ p[2] < q[2])
        sorted == SortSeq(triples, Before)
    IN SubSeq(sorted, 1, Min({k, Len(sorted)}))

RECURSIVE KDAmong(_, _, _, _, _, _, _)
KDAmong(items, t, axis, node, query, k, heap) ==
    LET pivot == t.pivots[node + 1]
        kept == [visited |-> heap.visited + 1,
                 best |-> Kept(Append(heap.best, <<Squared(items[pivot], query), heap.visited, pivot>>), k)]
        sought(side, found) == IF side = 0 THEN found
                               ELSE KDAmong(items, t, 3 - axis, side - 1, query, k, found)
        sides == Sides(items, t, axis, node, query)
        near == sought(sides[1], kept)
    IN  IF Across(items, t, axis, node, query) < Last(near.best)[1] \/ Len(near.best) < k
        THEN sought(sides[2], near) ELSE near

Third(triples) == [n \in DOMAIN triples |-> triples[n][3]]

(* k is brought down to the size; for one, the nearest is looked for.      *)
KDNearestK(items, t, k, query) ==
    IF items = <<>> THEN <<>>
    ELSE IF Min({k, Len(items)}) = 1 THEN <<KDNearest(items, t, 1, 0, query, <<>>)[2]>>
    ELSE Third(KDAmong(items, t, 1, 0, query, Min({k, Len(items)}), [visited |-> 0, best |-> <<>>]).best)

KDLinear(items, t, k, query) ==
    Third(Kept([n \in DOMAIN items |-> <<Squared(items[t.pivots[n]], query), n, t.pivots[n]>>], k))

(* The k nearest are found, in order, by the tree and by the scan of it.   *)
KDExact ==
    LET t == KDBuilt(past)
    IN  \A query \in Points, k \in 1 .. 3 :
        LET far(n) == Squared(past[n], query)
            ranked == SortSeq([n \in DOMAIN past |-> far(n)], <)
        IN  \A found \in {KDNearestK(past, t, k, query), KDLinear(past, t, k, query)} :
                /\ IsInjective(found)
                /\ [n \in DOMAIN found |-> far(found[n])] = SubSeq(ranked, 1, Min({k, Len(past)}))

-----------------------------------------------------------------------------
(* Static interval trees: an interval is its start and its end. *)

RECURSIVE Planted(_, _, _, _), Furthest(_, _, _)

(* build_bst: by the middle, the children of i at 2i + 1 and 2i + 2.       *)
Planted(order, i, lo, hi) ==
    LET mid == (lo + hi) \div 2
    IN  IF lo > hi THEN <<>>
        ELSE i :> order[mid + 1] @@ Planted(order, 2 * i + 1, lo, mid - 1)
                 @@ Planted(order, 2 * i + 2, mid + 1, hi)

(* The augmentation: the interval below that ends last, a left one first.  *)
Furthest(intervals, t, i) ==
    LET below(c) == IF c \in DOMAIN t THEN {Furthest(intervals, t, c)} ELSE {}
        end == Max({intervals[n][2] : n \in {t[i]} \cup below(2 * i + 1) \cup below(2 * i + 2)})
        ending(S) == {n \in S : intervals[n][2] = end}
    IN  IF ending(below(2 * i + 1)) # {} THEN Furthest(intervals, t, 2 * i + 1)
        ELSE IF ending(below(2 * i + 2)) # {} THEN Furthest(intervals, t, 2 * i + 2)
        ELSE t[i]

(* Intervals that start together stay in their order.                      *)
IntervalsBuilt(intervals) ==
    LET Before(m, n) == \/ intervals[m][1] < intervals[n][1]
                        \/ intervals[m][1] = intervals[n][1] /\ m < n
    IN Planted(SetToSortSeq(DOMAIN intervals, Before), 0, 0, Len(intervals) - 1)

Height(intervals) == CHOOSE h \in 0 .. 9 : 2 ^ h > Len(intervals) /\ \A l \in 0 .. h - 1 : 2 ^ l <= Len(intervals)

(* A point is sought as the interval from it to itself.                    *)
RECURSIVE Overlapping(_, _, _, _, _)
Overlapping(intervals, t, from, to, s) ==
    LET i == Last(s.stack)
        interval == intervals[t[i]]
        child(c) == IF c \in DOMAIN t THEN <<c>> ELSE <<>>
        pushed == Front(s.stack) \o child(2 * i + 1)
                      \o (IF to < interval[1] THEN <<>> ELSE child(2 * i + 2))
        meets == to >= interval[1] /\ from <= interval[2]
    IN  IF s.stack = <<>> THEN s
        ELSE IF from > intervals[Furthest(intervals, t, i)][2]
        THEN Overlapping(intervals, t, from, to, [s EXCEPT !.stack = Front(@)])
        ELSE Overlapping(intervals, t, from, to,
            [stack |-> pushed, found |-> IF meets THEN Append(s.found, t[i]) ELSE s.found,
             depth |-> Max({s.depth, Len(pushed)})])

(* Every interval that meets the query is found, once, and the stack whose *)
(* capacity is the height of the tree does not overflow.                   *)
IntervalsExact(intervals, times) ==
    LET t == IntervalsBuilt(intervals)
    IN  \A from, to \in times :
        LET s == Overlapping(intervals, t, from, to, [stack |-> <<0>>, found |-> <<>>, depth |-> 1])
        IN  intervals # <<>> /\ from <= to =>
                /\ IsInjective(s.found)
                /\ ToSet(s.found) = {n \in DOMAIN intervals :
                                        intervals[n][1] <= to /\ from <= intervals[n][2]}
                /\ s.depth <= Height(intervals)
=============================================================================
