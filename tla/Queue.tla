------------------------------- MODULE Queue -------------------------------
(***************************************************************************)
(* queue.rs: items are appended to an array and taken from an offset in    *)
(* it; when half of the array is behind the offset, what is left moves to  *)
(* a new array.  An iterator holds the array it was opened on: it sees     *)
(* what is appended until the queue moves, and is left with the old array  *)
(* then.  Items are numbered as they arrive.                               *)
(***************************************************************************)
EXTENDS CursorState

CONSTANT MaxItems

VARIABLES items, offset, size, arrived, call,
          walk \* its frozen has the offset, and the array it was left with
               \* (None while it is still the queue's)

vars == <<items, offset, size, arrived, call, walk>>

(* new, or collected from n items.                                         *)
Init ==
    \E n \in 0 .. 2 :
        /\ items = [s \in 1 .. n |-> s]
        /\ offset = 0
        /\ size = n
        /\ arrived = n
        /\ call = [op |-> "new", answer |-> None]
        /\ walk = OpenCursor([array |-> None, offset |-> 0], n)

LeftBehind(w) ==
    IF w.frozen.array = None THEN [w EXCEPT !.frozen.array = items] ELSE w

Called(op, answer) == call' = [op |-> op, answer |-> answer]

ToVec == SubSeq(items, offset + 1, Len(items))

Clear ==
    /\ items' = <<>>
    /\ offset' = 0
    /\ size' = 0
    /\ Called("clear", None)
    /\ walk' = Disturbed(LeftBehind(walk))
    /\ UNCHANGED arrived

Enqueue ==
    /\ arrived < MaxItems
    /\ arrived' = arrived + 1
    /\ items' = Append(items, arrived + 1)
    /\ size' = size + 1
    /\ Called("push", size + 1)
    /\ walk' = Disturbed(walk)
    /\ UNCHANGED offset

(* Mutant: compaction drops the items in place, under the iterators too.   *)
DequeueInPlace ==
    /\ size > 0
    /\ Called("shift", items[offset + 1])
    /\ size' = size - 1
    /\ IF (offset + 1) * 2 >= Len(items)
       THEN items' = SubSeq(items, offset + 2, Len(items)) /\ offset' = 0
       ELSE offset' = offset + 1 /\ UNCHANGED items
    /\ walk' = Disturbed(walk)
    /\ UNCHANGED arrived

Dequeue ==
    \/ /\ size = 0
       /\ Called("shift", None)
       /\ walk' = Disturbed(walk)
       /\ UNCHANGED <<items, offset, size, arrived>>
    \/ /\ size > 0
       /\ Called("shift", items[offset + 1])
       /\ size' = size - 1
       /\ IF (offset + 1) * 2 >= Len(items)
          THEN /\ items' = SubSeq(items, offset + 2, Len(items))
               /\ offset' = 0
               /\ walk' = Disturbed(LeftBehind(walk))
          ELSE /\ offset' = offset + 1
               /\ walk' = Disturbed(walk)
               /\ UNCHANGED items
       /\ UNCHANGED arrived

Peek == IF size = 0 THEN None ELSE items[offset + 1]

OpenWalk ==
    /\ walk' = OpenCursor([array |-> None, offset |-> offset], Len(items) - offset)
    /\ UNCHANGED <<items, offset, size, arrived, call>>

(* The end is that of the array as it is now: an ended walk may go on.     *)
StepWalk ==
    LET held == IF walk.frozen.array = None THEN items ELSE walk.frozen.array
        at == walk.frozen.offset + walk.ordinal + 1
        limit == IF Len(held) > walk.frozen.offset
                 THEN Len(held) - walk.frozen.offset ELSE 0
    IN  /\ walk' = StepCursor(walk, limit, IF at \in DOMAIN held THEN held[at] ELSE None)
        /\ UNCHANGED <<items, offset, size, arrived, call>>

Next == Clear \/ Enqueue \/ Dequeue \/ OpenWalk \/ StepWalk

Spec == Init /\ [][Next]_vars

-----------------------------------------------------------------------------

(* The size is what lies past the offset, and less than half of the array  *)
(* is waste.                                                               *)
LayoutSound ==
    /\ size = Len(items) - offset
    /\ offset = 0 \/ offset * 2 < Len(items)

ReadsAgree == Peek = IF size = 0 THEN None ELSE ToVec[1]

(* Whatever the queue does, a walk reports items that arrived one after    *)
(* the other, from the one that was at the head when it was opened.        *)
WalkIsContiguous ==
    \A i \in DOMAIN walk.seen : walk.seen[i] = walk.seen[1] + i - 1
=============================================================================
