------------------------------ MODULE MultiMap ------------------------------
(***************************************************************************)
(* multi_map.rs, and FuzzyMultiMap, which delegates to it: an ordered map  *)
(* from keys to buckets, that are lists or sets, and the number of values  *)
(* in them.  Members of a bucket are found by comparing one after the      *)
(* other, and a comparison may fail.                                       *)
(***************************************************************************)
EXTENDS Entries, FiniteSets

CONSTANTS MapKeys, Values, Unique, \* whether buckets are sets
          MaxTotal

VARIABLES items, size,
          walk  \* a FlattenedCursor: its iterator of the map, the key it is
                \* at, and what is left of its copy of the bucket

vars == <<items, size, walk>>

OpenedOn(m) == OuterWalk(m) @@ [current |-> <<>>, pending |-> <<>>]

Init ==
    /\ items = <<>>
    /\ size = 0
    /\ walk = OpenedOn(items)

Bucket(k) == IF k \in Keys(items) THEN ValueOf(items, k) ELSE <<>>

Clear ==
    /\ items' = <<>>
    /\ size' = 0
    /\ walk' = AfterClear(walk)

Delete(k) ==
    /\ k \in Keys(items)
    /\ items' = Drop(items, k)
    /\ size' = size - Len(Bucket(k))
    /\ walk' = AfterDrop(walk, items, k)

(* The value of a set's bucket that is there already changes nothing.  A   *)
(* comparison only fails where there is something to compare with, so the  *)
(* bucket made for a new key always gets its value.                        *)
Set(k, v) ==
    /\ Unique => v \notin Range(Bucket(k))
    /\ size < MaxTotal
    /\ items' = Put(items, k, Append(Bucket(k), v))
    /\ size' = size + 1
    /\ walk' = Disturbed(walk, items')

FirstOf(bucket, v) == CHOOSE i \in DOMAIN bucket :
    bucket[i] = v /\ \A j \in 1 .. i - 1 : bucket[j] # v

(* The first equal value goes, and the key with the last of them.          *)
RemoveValue(k, v) ==
    /\ v \in Range(Bucket(k))
    /\ size' = size - 1
    /\ IF Len(Bucket(k)) = 1
       THEN /\ items' = Drop(items, k)
            /\ walk' = AfterDrop(walk, items, k)
       ELSE /\ items' = Put(items, k, RemoveAt(Bucket(k), FirstOf(Bucket(k), v)))
            /\ walk' = Disturbed(walk, items')

OpenWalk ==
    /\ walk' = OpenedOn(items)
    /\ UNCHANGED <<items, size>>

(* The bucket is copied when the iterator comes to its key.                *)
Arrive(w, entry) ==
    [w EXCEPT !.passed = @ + 1, !.current = entry.key, !.pending = Tail(entry.value)]

StepWalk ==
    /\ ~walk.ended
    /\ walk' =
        IF walk.pending # <<>>
        THEN Given([walk EXCEPT !.pending = Tail(@)],
                   walk.current, <<walk.current, Head(walk.pending)>>)
        ELSE IF walk.passed < Len(items)
        THEN LET entry == items[walk.passed + 1]
             IN Given(Arrive(walk, entry), entry.key, <<entry.key, Head(entry.value)>>)
        ELSE [walk EXCEPT !.ended = TRUE]
    /\ UNCHANGED <<items, size>>

Next ==
    \/ Clear
    \/ \E k \in MapKeys : Delete(k)
    \/ \E k \in MapKeys, v \in Values : Set(k, v) \/ RemoveValue(k, v)
    \/ OpenWalk
    \/ StepWalk

Spec == Init /\ [][Next]_vars

-----------------------------------------------------------------------------

Held == UNION {{items[n].key} \X DOMAIN items[n].value : n \in DOMAIN items}

(* The size is the number of values; no key has an empty bucket, and a set *)
(* has no value twice.                                                     *)
CountsExact ==
    /\ size = Cardinality(Held)
    /\ \A n \in DOMAIN items : items[n].value # <<>> /\ (Unique => IsInjective(items[n].value))

Flattened(m) ==
    FlattenSeq([n \in DOMAIN m |->
        [i \in DOMAIN m[n].value |-> <<m[n].key, m[n].value[i]>>]])

(* A walk nothing disturbs gives every value under its key, in order; one  *)
(* that is disturbed comes to every key that stays.                        *)
WalkExact == WalkSound(walk, Flattened(items))
=============================================================================
