------------------------------ MODULE Entries ------------------------------
(***************************************************************************)
(* The ordered map of map/mod.rs as the structures built on it see it: the *)
(* live entries in order of insertion, and iterators that stand between    *)
(* two of them.  OrderedMap is shown to do what is said of it here (run    *)
(* ordered_map).                                                           *)
(***************************************************************************)
EXTENDS Integers, Sequences, SequencesExt

Keys(m) == {m[n].key : n \in DOMAIN m}

PlaceOf(m, k) == CHOOSE n \in DOMAIN m : m[n].key = k

ValueOf(m, k) == m[PlaceOf(m, k)].value

(* Overwriting keeps the place; a new key goes to the end.                 *)
Put(m, k, v) ==
    IF k \in Keys(m)
    THEN [m EXCEPT ![PlaceOf(m, k)].value = v]
    ELSE Append(m, [key |-> k, value |-> v])

Drop(m, k) == IF k \in Keys(m) THEN RemoveAt(m, PlaceOf(m, k)) ELSE m

(* What an iterator keeps of the outer map: how many live entries it has   *)
(* passed.  The rest is history: what it has given while nothing else was  *)
(* called, whether it is done (for good), and which of the keys that were  *)
(* there all the time it has not come to.                                  *)
OuterWalk(m) ==
    [passed |-> 0, fresh |-> TRUE, seen |-> <<>>, ended |-> FALSE, missing |-> Keys(m)]

Given(w, key, what) ==
    [w EXCEPT !.seen = IF w.fresh THEN Append(@, what) ELSE @, !.missing = @ \ {key}]

(* The iterator after m has become n by entries added or overwritten, by   *)
(* the deletion of a key, or by being cleared.                             *)
Disturbed(w, n) ==
    [w EXCEPT !.fresh = FALSE, !.seen = <<>>, !.missing = @ \cap Keys(n)]

AfterDrop(w, m, k) ==
    [Disturbed(w, Drop(m, k)) EXCEPT
        !.passed = IF k \in Keys(m) /\ PlaceOf(m, k) <= @ THEN @ - 1 ELSE @]

AfterClear(w) == [Disturbed(w, <<>>) EXCEPT !.passed = 0]

(* What a walk that gives whole, entry after entry, must come to.          *)
WalkSound(w, whole) ==
    /\ w.fresh => IF w.ended THEN w.seen = whole ELSE IsPrefix(w.seen, whole)
    /\ w.ended => w.missing = {}
=============================================================================
