------------------------------ MODULE MultiSet ------------------------------
(***************************************************************************)
(* multi_set.rs: a map from items to counts, with the sum of the counts    *)
(* and the number of items counted beside it.  Counts come from JavaScript *)
(* and may be negative, zero or NaN; the size becomes NaN when an absent   *)
(* item is deleted, and stays it.                                          *)
(***************************************************************************)
EXTENDS Entries

CONSTANTS Items, Counts, NaN, MaxTotal, MaxDrift

VARIABLES items, size, dimension,
          walk,  \* a RepeatCursor: its iterator of the map, the item it is
                 \* at, how often it was given and how often it is to be
          drift  \* history: what deletions of absent items and edits have
                 \* put between the counters and the map since it was cleared

vars == <<items, size, dimension, walk, drift>>

Count(n) == IF n = NaN THEN 1 ELSE n

Plus(a, b) == IF a = NaN THEN NaN ELSE a + b

Multiplicity(item) == IF item \in Keys(items) THEN ValueOf(items, item) ELSE 0

Copies(m) == UNION {{m[n].key} \X (1 .. m[n].value) : n \in DOMAIN m}

Total(m) == Cardinality(Copies(m))

NoDrift == [size |-> 0, dimension |-> 0]

OpenedOn(m) == OuterWalk(m) @@ [current |-> NaN, i |-> 0, limit |-> 0]

Init ==
    /\ items = <<>>
    /\ size = 0
    /\ dimension = 0
    /\ walk = OpenedOn(items)
    /\ drift = NoDrift

Clear ==
    /\ items' = <<>>
    /\ size' = 0
    /\ dimension' = 0
    /\ walk' = AfterClear(walk)
    /\ drift' = NoDrift

(* The end of add and of set: both add to the count there is.              *)
PutIn(item, count) ==
    /\ Total(items) + count <= MaxTotal
    /\ items' = Put(items, item, Multiplicity(item) + count)
    /\ size' = Plus(size, count)
    /\ dimension' = IF item \in Keys(items) THEN dimension ELSE dimension + 1
    /\ walk' = Disturbed(walk, items')
    /\ UNCHANGED drift

DropOut(item) ==
    /\ items' = Drop(items, item)
    /\ size' = Plus(size, -Multiplicity(item))
    /\ dimension' = dimension - 1
    /\ walk' = AfterDrop(walk, items, item)
    /\ UNCHANGED drift

(* Mutant: the size loses what was asked for, not what there was.          *)
TakenAsked(item, count) == count

Taken(item, count) == IF Multiplicity(item) <= count THEN Multiplicity(item) ELSE count

(* The end of remove: nothing if the item is absent, and no more than      *)
(* there is if it is present.                                              *)
TakeOut(item, count) ==
    /\ item \in Keys(items)
    /\ size' = Plus(size, -Taken(item, count))
    /\ IF Multiplicity(item) <= count
       THEN /\ items' = Drop(items, item)
            /\ dimension' = dimension - 1
            /\ walk' = AfterDrop(walk, items, item)
       ELSE /\ items' = Put(items, item, Multiplicity(item) - count)
            /\ walk' = Disturbed(walk, items')
            /\ UNCHANGED dimension
    /\ UNCHANGED drift

(* NaN is not negative, and is then folded to one.                         *)
Negative(n) == n # NaN /\ n < 0

Add(item, n) == n # 0 /\ ~Negative(n) /\ PutIn(item, Count(n))

AddNegative(item, n) == Negative(n) /\ TakeOut(item, -n)

RemoveItem(item, n) == n # 0 /\ ~Negative(n) /\ TakeOut(item, Count(n))

RemoveNegative(item, n) == Negative(n) /\ PutIn(item, -n)

Set(item, n) == n # 0 /\ ~Negative(n) /\ PutIn(item, Count(n))

SetToNothing(item, n) == (n = 0 \/ Negative(n)) /\ item \in Keys(items) /\ DropOut(item)

Delete(item) == item \in Keys(items) /\ DropOut(item)

(* delete takes undefined from the size, and reports success.              *)
DeleteAbsent(item) ==
    /\ item \notin Keys(items)
    /\ drift.dimension > -MaxDrift
    /\ size' = NaN
    /\ dimension' = dimension - 1
    /\ drift' = [size |-> NaN, dimension |-> drift.dimension - 1]
    /\ UNCHANGED <<items, walk>>

(* Move the count of a to b: b is written before a is deleted, and neither *)
(* counter is touched, although b may have been there or be a.             *)
Edit(a, b) ==
    /\ a \in Keys(items)
    /\ b \in Keys(items) => drift.dimension < MaxDrift
    /\ LET written == Put(items, b, Multiplicity(a) + Multiplicity(b))
       IN items' = Drop(written, a) /\ walk' = AfterDrop(walk, written, a)
    /\ drift' = [size |-> Plus(drift.size, Total(items) - Total(items')),
                 dimension |-> drift.dimension + Len(items) - Len(items')]
    /\ UNCHANGED <<size, dimension>>

OpenWalk ==
    /\ walk' = OpenedOn(items)
    /\ UNCHANGED <<items, size, dimension, drift>>

(* Mutant: the repeat count is not started again for the next item.        *)
ArriveKeepsI(w, entry) ==
    [w EXCEPT !.passed = @ + 1, !.current = entry.key, !.limit = entry.value, !.i = @ + 1]

(* The count is read when the iterator comes to an item, and the item is   *)
(* given that often, whatever becomes of it meanwhile.                     *)
Arrive(w, entry) ==
    [w EXCEPT !.passed = @ + 1, !.current = entry.key, !.limit = entry.value, !.i = 1]

StepWalk ==
    /\ ~walk.ended
    /\ walk' =
        IF walk.i < walk.limit
        THEN Given([walk EXCEPT !.i = @ + 1], walk.current, walk.current)
        ELSE IF walk.passed < Len(items)
        THEN LET entry == items[walk.passed + 1]
             IN Given(Arrive(walk, entry), entry.key, entry.key)
        ELSE [walk EXCEPT !.ended = TRUE]
    /\ UNCHANGED <<items, size, dimension, drift>>

Next ==
    \/ Clear
    \/ \E item \in Items, n \in Counts :
           \/ Add(item, n) \/ AddNegative(item, n)
           \/ RemoveItem(item, n) \/ RemoveNegative(item, n)
           \/ Set(item, n) \/ SetToNothing(item, n)
    \/ \E item \in Items : Delete(item) \/ DeleteAbsent(item)
    \/ \E a, b \in Items : Edit(a, b)
    \/ OpenWalk
    \/ StepWalk

Spec == Init /\ [][Next]_vars

-----------------------------------------------------------------------------

(* No item is kept with a count of zero or less; the counters differ from  *)
(* the map by what edits and deletions of absent items made of them.       *)
CountsAccounted ==
    /\ \A n \in DOMAIN items : items[n].value > 0
    /\ size = Plus(drift.size, Total(items))
    /\ dimension = Len(items) + drift.dimension

(* isSubset asks the dimensions first.                                     *)
IsSubset(a, aDimension, bag, bagDimension) ==
    /\ aDimension <= bagDimension
    /\ \A n \in DOMAIN a : a[n].value <= bag[a[n].key]

(* Compared with a sound multiset: what is said to be a subset is one, and *)
(* what is one is said to be unless an edit has left the dimension high.   *)
SubsetExact ==
    \A bag \in [Items -> 0 .. MaxTotal] :
        LET bagDimension == Cardinality({x \in Items : bag[x] > 0})
            within == \A n \in DOMAIN items : items[n].value <= bag[items[n].key]
            said == IsSubset(items, dimension, bag, bagDimension)
        IN /\ said => within
           /\ within /\ drift.dimension <= 0 => said

RepeatedFrom(m) == FlattenSeq([n \in DOMAIN m |-> [i \in 1 .. m[n].value |-> m[n].key]])

(* A walk nothing disturbs gives every item as often as it is there; one   *)
(* that is disturbed gives every item that stays at least once.            *)
WalkExact == WalkSound(walk, RepeatedFrom(items))
=============================================================================
