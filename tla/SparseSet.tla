----------------------------- MODULE SparseSet -----------------------------
(***************************************************************************)
(* sparse_set.rs and sparse_map.rs: a set of the integers below Length in  *)
(* two pointer arrays.  dense has the members in slots, sparse the slot of *)
(* each member; what either holds beyond that is left over and never       *)
(* cleared.  A SparseMap (HoldsValues) has a value in every slot.          *)
(*                                                                         *)
(* No call checks its member.  One past the end is cut to the width of the *)
(* array where it is stored, and where it is an index, nothing is.         *)
(***************************************************************************)
EXTENDS CursorState

CONSTANTS Length,
          Members,     \* what is added; may lie past the end
          Width,       \* a pointer is stored modulo this
          HoldsValues, \* a SparseMap
          Values,
          MaxSize      \* a bound on the size, past which the model adds nothing

VARIABLES dense, sparse, vals, size, call, walk,
          spoilt,   \* a member past the end was added since the last clear
          moved,    \* the members moved to another slot since they were set
          promised, \* member -> the value last set
          since     \* what happened since the walk opened

vars == <<dense, sparse, vals, size, call, walk, spoilt, moved, promised, since>>

Slots == 0 .. Length - 1

TryGet(array, index) == IF index \in DOMAIN array THEN array[index] ELSE None

TrySet(array, index, value) ==
    IF index \in DOMAIN array THEN [array EXCEPT ![index] = value % Width] ELSE array

Closed == [OpenCursor(None, 0) EXCEPT !.ended = TRUE, !.fresh = FALSE]

Nothing == [missing |-> {}, deleted |-> FALSE, refilled |-> FALSE]

Init ==
    /\ dense = [s \in Slots |-> 0]
    /\ sparse = [m \in Slots |-> 0]
    /\ vals = [s \in Slots |-> None]
    /\ size = 0
    /\ call = [op |-> "new", answer |-> None]
    /\ walk = Closed
    /\ spoilt = FALSE
    /\ moved = {}
    /\ promised = [m \in Slots |-> None]
    /\ since = Nothing

Has(m) ==
    LET index == TryGet(sparse, m)
    IN  /\ index # None
        /\ index < size
        /\ TryGet(dense, index) = m

(* The members, in the order of their slots.                               *)
Content == [n \in 1 .. size |-> TryGet(dense, n - 1)]

MembersNow == {m \in Slots : Has(m)}

(* A walk that has ended is forgotten at the next call.                    *)
Called(op, answer) ==
    /\ call' = [op |-> op, answer |-> answer]
    /\ walk' = IF walk.ended THEN Closed ELSE [Disturbed(walk) EXCEPT !.seen = <<>>]

Met(history) == since' = IF walk.ended THEN Nothing ELSE history

-----------------------------------------------------------------------------

(* add and, with a value, set.                                             *)
Add(m, v) ==
    LET old == TryGet(sparse, m)
        slot == IF Has(m) THEN old ELSE size
    IN  /\ IF Has(m)
           THEN UNCHANGED <<dense, sparse, size, spoilt>> /\ Met(since)
           ELSE /\ size < MaxSize
                /\ dense' = TrySet(dense, size, m)
                /\ sparse' = TrySet(sparse, m, size)
                /\ size' = size + 1
                /\ spoilt' = (spoilt \/ m >= Length)
                /\ Met([since EXCEPT !.refilled = @ \/ since.deleted \/ spoilt'])
        /\ vals' = IF HoldsValues
                   THEN [s \in DOMAIN vals \cup {slot} |-> IF s = slot THEN v ELSE TryGet(vals, s)]
                   ELSE vals
        /\ promised' = IF m \in Slots THEN [promised EXCEPT ![m] = v] ELSE promised
        /\ moved' = moved \ {m}
        /\ Called("add", ~Has(m))

(* Mutant: the member moved into the hole keeps its old slot in sparse.    *)
DeleteForgetsMove(m) ==
    /\ IF ~Has(m)
       THEN UNCHANGED <<dense, sparse, size, moved, promised>> /\ Met(since)
       ELSE LET slot == sparse[m]
                lastMember == TryGet(dense, size - 1)
            IN  /\ dense' = TrySet(dense, slot, IF lastMember = None THEN 0 ELSE lastMember)
                /\ size' = size - 1
                /\ moved' = IF HoldsValues THEN (moved \ {m}) \cup ({lastMember} \ {m}) ELSE {}
                /\ promised' = [promised EXCEPT ![m] = None]
                /\ Met([since EXCEPT !.missing = @ \ {m}, !.deleted = TRUE])
                /\ UNCHANGED sparse
    /\ Called("delete", Has(m))
    /\ UNCHANGED <<vals, spoilt>>

(* The last member moves into the hole; its value does not.                *)
Delete(m) ==
    /\ IF ~Has(m)
       THEN UNCHANGED <<dense, sparse, size, moved, promised>> /\ Met(since)
       ELSE LET slot == sparse[m]
                lastMember == TryGet(dense, size - 1)
            IN  /\ dense' = TrySet(dense, slot, IF lastMember = None THEN 0 ELSE lastMember)
                /\ sparse' = IF lastMember = None THEN sparse
                             ELSE TrySet(sparse, lastMember, slot)
                /\ size' = size - 1
                /\ moved' = IF HoldsValues THEN (moved \ {m}) \cup ({lastMember} \ {m}) ELSE {}
                /\ promised' = [promised EXCEPT ![m] = None]
                /\ Met([since EXCEPT !.missing = @ \ {m}, !.deleted = TRUE])
    /\ Called("delete", Has(m))
    /\ UNCHANGED <<vals, spoilt>>

Clear ==
    /\ size' = 0
    /\ spoilt' = FALSE
    /\ Met([since EXCEPT !.missing = {}, !.deleted = TRUE])
    /\ Called("clear", None)
    /\ moved' = {}
    /\ promised' = [m \in Slots |-> None]
    /\ UNCHANGED <<dense, sparse, vals>>

Get(m) == IF Has(m) THEN TryGet(vals, sparse[m]) ELSE None

OpenWalk ==
    /\ walk' = OpenCursor(None, size)
    /\ since' = [missing |-> MembersNow, deleted |-> FALSE, refilled |-> spoilt]
    /\ UNCHANGED <<dense, sparse, vals, size, call, spoilt, moved, promised>>

(* What a disturbed walk has seen is not kept, only what it still misses.  *)
Report(item) ==
    /\ walk' = [StepCursor(walk, walk.len, item) EXCEPT !.seen = IF walk.fresh THEN @ ELSE <<>>]
    /\ since' = IF walk'.ended THEN since ELSE [since EXCEPT !.missing = @ \ {item}]

(* The size is captured, the slots are not.                                *)
StepWalk ==
    /\ ~walk.ended
    /\ Report(TryGet(dense, walk.ordinal))
    /\ UNCHANGED <<dense, sparse, vals, size, call, spoilt, moved, promised>>

Next ==
    \/ \E m \in Members, v \in IF HoldsValues THEN Values ELSE {None} : Add(m, v)
    \/ \E m \in Members : Delete(m)
    \/ Clear
    \/ OpenWalk
    \/ StepWalk

Spec == Init /\ [][Next]_vars

-----------------------------------------------------------------------------

(* A value is found again until its key is moved by a deletion.            *)
ValuesFound ==
    HoldsValues /\ ~spoilt =>
        \A m \in Slots \ moved : Has(m) => Get(m) = promised[m]
=============================================================================
