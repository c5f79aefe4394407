------------------------------- MODULE BiMap -------------------------------
(***************************************************************************)
(* bi_map.rs: two ordered maps, one from keys to values and one back, that *)
(* every call edits one after the other.  The inverse view (set_reverse,   *)
(* delete_reverse, clear_reverse) is the same code with the maps swapped.  *)
(***************************************************************************)
EXTENDS Entries

CONSTANT Members

VARIABLES items, inverse, size, inverse_size

vars == <<items, inverse, size, inverse_size>>

Init ==
    /\ items = <<>>
    /\ inverse = <<>>
    /\ size = 0
    /\ inverse_size = 0

(* Mutant: the key that had the value keeps its entry.                     *)
LinkLeavesHolder(primary, secondary, key, value) ==
    LET freed == IF key \in Keys(primary) THEN Drop(secondary, ValueOf(primary, key))
                 ELSE secondary
    IN [primary |-> Put(primary, key, value), secondary |-> Put(freed, value, key)]

(* Entries that exist are overwritten in place: first the key's, releasing *)
(* its old value, then the value's, releasing the key that had it.         *)
Link(primary, secondary, key, value) ==
    LET had == key \in Keys(primary)
        freed == IF had THEN Drop(secondary, ValueOf(primary, key)) ELSE secondary
        moved == IF had THEN Put(primary, key, value) ELSE primary
        taken == value \in Keys(freed)
        holder == ValueOf(freed, value)
    IN IF had /\ ValueOf(primary, key) = value
       THEN [primary |-> primary, secondary |-> secondary]
       ELSE IF taken /\ holder = key
       THEN [primary |-> moved, secondary |-> freed]
       ELSE [primary |-> Put(IF taken THEN Drop(moved, holder) ELSE moved, key, value),
             secondary |-> Put(freed, value, key)]

Unlink(primary, secondary, key) ==
    [primary |-> Drop(primary, key), secondary |-> Drop(secondary, ValueOf(primary, key))]

(* Mutant: only the counter of the forward view is read again.             *)
ResyncOwnCounter == size' = Len(items') /\ UNCHANGED inverse_size

ResyncCounters ==
    /\ size' = Len(items')
    /\ inverse_size' = Len(inverse')

Set(key, value) ==
    /\ LET linked == Link(items, inverse, key, value)
       IN items' = linked.primary /\ inverse' = linked.secondary
    /\ ResyncCounters

SetReverse(value, key) ==
    /\ LET linked == Link(inverse, items, value, key)
       IN inverse' = linked.primary /\ items' = linked.secondary
    /\ ResyncCounters

(* A key that is not there is left alone, and so are the counters.         *)
Delete(key) ==
    /\ key \in Keys(items)
    /\ LET unlinked == Unlink(items, inverse, key)
       IN items' = unlinked.primary /\ inverse' = unlinked.secondary
    /\ ResyncCounters

DeleteReverse(value) ==
    /\ value \in Keys(inverse)
    /\ LET unlinked == Unlink(inverse, items, value)
       IN inverse' = unlinked.primary /\ items' = unlinked.secondary
    /\ ResyncCounters

Clear ==
    /\ items' = <<>>
    /\ inverse' = <<>>
    /\ size' = 0
    /\ UNCHANGED inverse_size

ClearReverse ==
    /\ items' = <<>>
    /\ inverse' = <<>>
    /\ inverse_size' = 0
    /\ UNCHANGED size

Next ==
    \/ \E k, v \in Members : Set(k, v) \/ SetReverse(v, k)
    \/ \E x \in Members : Delete(x) \/ DeleteReverse(x)
    \/ Clear
    \/ ClearReverse

Spec == Init /\ [][Next]_vars

(* The two maps as one relation and two orders.                            *)
Pairs == {<<items[n].key, items[n].value>> : n \in DOMAIN items}

Before(m) ==
    {r \in Members \X Members :
        \E i, j \in DOMAIN m : i < j /\ r = <<m[i].key, m[j].key>>}

Orders == [s \in {"key", "value"} |-> Before(IF s = "key" THEN items ELSE inverse)]

Sizes == [s \in {"key", "value"} |-> IF s = "key" THEN size ELSE inverse_size]

(* Each of the two maps is the other one read backwards.                   *)
Converse == {<<e.value, e.key>> : e \in Range(inverse)} = Pairs

(* The maps are equally long, and both counters are that length while      *)
(* there are entries.  When there are none, at most one is not zero: that  *)
(* of the side which a clear through the other one did not reset.          *)
SizesExact ==
    /\ Len(inverse) = Len(items)
    /\ items # <<>> => size = Len(items) /\ inverse_size = Len(items)
    /\ items = <<>> => size = 0 \/ inverse_size = 0
=============================================================================
