--------------------------- MODULE SparseQueueSet ---------------------------
(***************************************************************************)
(* sparse_queue_set.rs: a queue without duplicates of the integers below   *)
(* Capacity.  dense is a ring of slots, sparse the slot of each member.    *)
(* Who leaves is marked with a slot that there is not, the capacity: where *)
(* the width of the array is the capacity, the mark is cut to slot zero.   *)
(*                                                                         *)
(* Nothing asks whether the ring is full, because a set of what is below   *)
(* the capacity cannot have more members than that.                        *)
(***************************************************************************)
EXTENDS CursorState

CONSTANTS Capacity,
          Members, \* what is added; may lie past the end
          Width,   \* a pointer is stored modulo this
          MaxSize  \* a bound on the size, past which the model adds nothing

VARIABLES dense, sparse, start, size, call, walk,
          spoilt,  \* since the last clear, a member past the end was added
                   \* or a mark was cut
          since    \* what happened since the walk opened

vars == <<dense, sparse, start, size, call, walk, spoilt, since>>

Slots == 0 .. Capacity - 1

TryGet(array, index) == IF index \in DOMAIN array THEN array[index] ELSE None

TrySet(array, index, value) ==
    IF index \in DOMAIN array THEN [array EXCEPT ![index] = value % Width] ELSE array

Closed == [OpenCursor(0, 0) EXCEPT !.ended = TRUE, !.fresh = FALSE]

Nothing == [missing |-> {}, spoilt |-> FALSE]

Init ==
    /\ dense = [s \in Slots |-> 0]
    /\ sparse = [m \in Slots |-> 0]
    /\ start = 0
    /\ size = 0
    /\ call = [op |-> "new", answer |-> None]
    /\ walk = Closed
    /\ spoilt = FALSE
    /\ since = Nothing

(* Mutant: the window stops where the ring does.                           *)
InWindowUnwrapped(slot) == slot < Capacity /\ slot >= start /\ slot < start + size

(* Asked of what wraps round, and also of a window that does not.          *)
InWindow(slot) ==
    \/ slot < Capacity /\ slot >= start /\ slot < start + size
    \/ Capacity # 0 /\ slot < (start + size) % Capacity

Has(m) ==
    LET slot == TryGet(sparse, m)
    IN  /\ size # 0
        /\ slot # None
        /\ InWindow(slot)
        /\ TryGet(dense, slot) = m

Slot(first, ordinal) ==
    TryGet(dense, IF Capacity = 0 THEN first + ordinal ELSE (first + ordinal) % Capacity)

(* The members, from the front of the queue to its end.                    *)
Content == [n \in 1 .. size |-> Slot(start, n - 1)]

(* A walk that has ended is forgotten at the next call.                    *)
Called(op, answer, history) ==
    /\ call' = [op |-> op, answer |-> answer]
    /\ walk' = IF walk.ended THEN Closed ELSE [Disturbed(walk) EXCEPT !.seen = <<>>]
    /\ since' = IF walk.ended THEN Nothing
                ELSE [history EXCEPT !.spoilt = @ \/ spoilt']

-----------------------------------------------------------------------------

SlotAfterEnd == IF Capacity = 0 THEN None ELSE (start + size) % Capacity

Enqueue(m) ==
    /\ IF Has(m)
       THEN UNCHANGED <<dense, sparse, size, spoilt>>
       ELSE /\ size < MaxSize
            /\ dense' = TrySet(dense, SlotAfterEnd, m)
            /\ sparse' = IF SlotAfterEnd = None THEN sparse ELSE TrySet(sparse, m, SlotAfterEnd)
            /\ size' = size + 1
            /\ spoilt' = (spoilt \/ m >= Capacity)
    /\ Called("add", ~Has(m), since)
    /\ UNCHANGED start

Dequeue ==
    /\ IF size = 0
       THEN /\ UNCHANGED <<sparse, start, size, spoilt>>
            /\ Called("dequeue", None, since)
       ELSE LET member == TryGet(dense, start)
            IN  /\ start < MaxSize
                /\ size' = size - 1
                /\ start' = IF start + 1 = Capacity THEN 0 ELSE start + 1
                /\ sparse' = IF member = None THEN sparse ELSE TrySet(sparse, member, Capacity)
                /\ spoilt' = (spoilt \/ Capacity % Width # Capacity)
                /\ Called("dequeue", member, [since EXCEPT !.missing = @ \ {member}])
    /\ UNCHANGED dense

Clear ==
    /\ start' = 0
    /\ size' = 0
    /\ spoilt' = FALSE
    /\ Called("clear", None, [since EXCEPT !.missing = {}])
    /\ UNCHANGED <<dense, sparse>>

OpenWalk ==
    /\ walk' = OpenCursor(start, size)
    /\ since' = [missing |-> {m \in Slots : Has(m)}, spoilt |-> spoilt]
    /\ UNCHANGED <<dense, sparse, start, size, call, spoilt>>

(* What a disturbed walk has seen is not kept, only what it still misses.  *)
Report(item) ==
    /\ walk' = [StepCursor(walk, walk.len, item) EXCEPT !.seen = IF walk.fresh THEN @ ELSE <<>>]
    /\ since' = IF walk'.ended THEN since ELSE [since EXCEPT !.missing = @ \ {item}]

(* The start and the size are captured, the slots are not.                 *)
StepWalk ==
    /\ ~walk.ended
    /\ Report(Slot(walk.frozen, walk.ordinal))
    /\ UNCHANGED <<dense, sparse, start, size, call, spoilt>>

Next ==
    \/ \E m \in Members : Enqueue(m)
    \/ Dequeue
    \/ Clear
    \/ OpenWalk
    \/ StepWalk

Spec == Init /\ [][Next]_vars
=============================================================================
