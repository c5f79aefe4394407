------------------------------- MODULE Stack -------------------------------
(***************************************************************************)
(* stack.rs and fixed_stack.rs.  A Stack grows and shrinks an array, and a *)
(* clear leaves the array to the iterators that hold it.  A FixedStack     *)
(* (Capacity # None) has its slots from the start, keeps in them what is   *)
(* taken out, and refuses an item when they are full; one that was made of *)
(* more values than it has slots is overfilled, in an array that grows or  *)
(* in one that drops them.  Iterators go from the top they captured down   *)
(* to the bottom.                                                          *)
(***************************************************************************)
EXTENDS CursorState

CONSTANTS Capacity, MaxItems, MaxSurplus, FullError

Fixed == Capacity # None

VARIABLES items,   \* a FixedStack's has Capacity elements, None if not stored
          size, arrived, call,
          walk     \* its frozen has the length, and the array it was left
                   \* with (None while it is still the stack's)

vars == <<items, size, arrived, call, walk>>

Overfilled == Fixed /\ size > Capacity

(* How many of its items an overfilled one has no slots for.               *)
Dropped == IF size > Len(items) THEN size - Len(items) ELSE 0

Grows == ~Fixed \/ Len(items) > Capacity

(* new, from or from_array_like of n items.                                *)
Init ==
    \E n \in 0 .. IF Fixed THEN Capacity + MaxSurplus ELSE 2 :
        /\ items \in {[s \in 1 .. slots |-> IF s <= n THEN s ELSE None] :
                        slots \in IF ~Fixed THEN {n} ELSE IF n > Capacity THEN {n, Capacity} ELSE {Capacity}}
        /\ size = n
        /\ arrived = n
        /\ call = [op |-> "new", answer |-> None]
        /\ walk = OpenCursor([array |-> None, top |-> n], n)

Called(op, answer) == call' = [op |-> op, answer |-> answer]

Push ==
    \/ /\ Fixed /\ size = Capacity
       /\ Called("push", FullError)
       /\ walk' = Disturbed(walk)
       /\ UNCHANGED <<items, size, arrived>>
    \/ /\ Fixed => size # Capacity
       /\ arrived < MaxItems
       /\ arrived' = arrived + 1
       /\ items' = IF size < Len(items) THEN [items EXCEPT ![size + 1] = arrived + 1]
                   ELSE IF Grows THEN Append(items, arrived + 1) ELSE items
       /\ size' = size + 1
       /\ Called("push", size + 1)
       /\ walk' = Disturbed(walk)

ItemAt(array, index) == IF index \in DOMAIN array THEN array[index] ELSE None

(* Mutant: the array is left as it is, whatever the stack.                 *)
PopKeepsItem ==
    /\ IF size = 0
       THEN Called("pop", None) /\ UNCHANGED <<items, size>>
       ELSE /\ Called("pop", ItemAt(items, size))
            /\ size' = size - 1
            /\ UNCHANGED items
    /\ walk' = Disturbed(walk)
    /\ UNCHANGED arrived

(* A pop shortens the array under the iterators: they meet a gap.          *)
Pop ==
    /\ IF size = 0
       THEN Called("pop", None) /\ UNCHANGED <<items, size>>
       ELSE /\ Called("pop", ItemAt(items, size))
            /\ size' = size - 1
            /\ items' = IF Fixed THEN items ELSE SubSeq(items, 1, size - 1)
    /\ walk' = Disturbed(walk)
    /\ UNCHANGED arrived

Clear ==
    /\ size' = 0
    /\ Called("clear", None)
    /\ IF Fixed
       THEN walk' = Disturbed(walk) /\ UNCHANGED items
       ELSE /\ items' = <<>>
            /\ walk' = Disturbed(IF walk.frozen.array # None THEN walk
                                 ELSE [walk EXCEPT !.frozen.array = items])
    /\ UNCHANGED arrived

Peek == ItemAt(items, size)

(* From the top to the bottom.                                             *)
ToVec == [n \in 1 .. size |-> ItemAt(items, size - n + 1)]

OpenWalk ==
    LET top == IF Fixed THEN size ELSE Len(items)
    IN  /\ walk' = OpenCursor([array |-> None, top |-> top], top)
        /\ UNCHANGED <<items, size, arrived, call>>

StepWalk ==
    LET held == IF walk.frozen.array = None THEN items ELSE walk.frozen.array
    IN  /\ ~walk.ended
        /\ walk' = StepCursor(walk, walk.len, ItemAt(held, walk.frozen.top - walk.ordinal))
        /\ UNCHANGED <<items, size, arrived, call>>

Next == Push \/ Pop \/ Clear \/ OpenWalk \/ StepWalk

Spec == Init /\ [][Next]_vars

-----------------------------------------------------------------------------

(* "size and items.length diverged": the size of a Stack is that of its    *)
(* array, and a FixedStack has stored to every slot below its size, but    *)
(* for those that an overfilled one dropped.                               *)
LayoutSound ==
    /\ Fixed \/ size = Len(items)
    /\ \A n \in 1 .. size : n \in DOMAIN items => items[n] # None
    /\ size > Len(items) => Overfilled /\ ~Grows

ReadsAgree == Peek = IF size = 0 THEN None ELSE ToVec[1]

(* An overfilled stack refuses nothing.                                    *)
PastPromise == Overfilled /\ call'.op = "push"
=============================================================================
