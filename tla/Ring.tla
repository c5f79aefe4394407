-------------------------------- MODULE Ring --------------------------------
(***************************************************************************)
(* fixed_deque.rs and circular_buffer.rs: a deque in Capacity slots, that  *)
(* starts anywhere and wraps round.  A FixedDeque refuses an item when it  *)
(* is full; a CircularBuffer (Overwrites) takes it over the item at the    *)
(* other end.  Items are numbered as they arrive.                          *)
(*                                                                         *)
(* One made of more values than it has room for is overfilled: its size is *)
(* past the capacity, and the slots past it are there if its array grows.  *)
(***************************************************************************)
EXTENDS CursorState

CONSTANTS Capacity, MaxItems, MaxSurplus, Overwrites, FullError

VARIABLES items,   \* slot -> item, None where none was ever stored
          start, size,
          arrived, \* number of items ever added
          call,    \* [op, answer] of the last call
          walk     \* an iterator

vars == <<items, start, size, arrived, call, walk>>

Slots == 0 .. Capacity - 1

ItemAt(index) == IF index \in DOMAIN items THEN items[index] ELSE None

Grows == DOMAIN items # Slots

Overfilled == size > Capacity

(* new, or from_array_like, in an array that grows or in one that does not.*)
Init ==
    \E n \in 0 .. Capacity + MaxSurplus :
        /\ items \in {[s \in all |-> IF s < n THEN s + 1 ELSE None] :
                        all \in {Slots, Slots \cup 0 .. n - 1}}
        /\ start = 0
        /\ size = n
        /\ arrived = n
        /\ call = [op |-> "new", answer |-> None]
        /\ walk = OpenCursor(0, n)

Called(op, answer) ==
    /\ call' = [op |-> op, answer |-> answer]
    /\ walk' = Disturbed(walk)

(* Mutant: the last slot is skipped by what goes round.                    *)
WrapOnceEarly(index) ==
    IF index >= Capacity - 1 THEN index - (Capacity - 1) ELSE index

WrapOnce(index) == IF index >= Capacity THEN index - Capacity ELSE index

PreviousStart == IF start = 0 THEN Capacity - 1 ELSE start - 1

-----------------------------------------------------------------------------

Refuse(op) ==
    /\ size = Capacity /\ ~Overwrites
    /\ Called(op, FullError)
    /\ UNCHANGED <<items, start, size, arrived>>

Store(index) ==
    /\ arrived < MaxItems
    /\ arrived' = arrived + 1
    /\ items' = [s \in DOMAIN items \cup (IF Grows THEN 0 .. index ELSE {}) |->
                     IF s = index THEN arrived + 1 ELSE ItemAt(s)]

(* Mutant: a full buffer is overwritten and still starts where it did.     *)
PushKeepsStart ==
    \/ Refuse("push")
    \/ /\ size # Capacity \/ Overwrites
       /\ Store(WrapOnce(start + size))
       /\ size' = IF size = Capacity THEN size ELSE size + 1
       /\ UNCHANGED start
       /\ Called("push", size')

Push ==
    LET index == WrapOnce(start + size)
    IN  \/ Refuse("push")
        \/ /\ size # Capacity
           /\ Store(index)
           /\ size' = size + 1
           /\ UNCHANGED start
           /\ Called("push", size + 1)
        \/ /\ size = Capacity /\ Overwrites
           /\ Store(index)
           /\ start' = IF index + 1 >= Capacity THEN 0 ELSE index + 1
           /\ UNCHANGED size
           /\ Called("push", size)

Unshift ==
    \/ Refuse("unshift")
    \/ /\ size # Capacity \/ Overwrites
       /\ Store(PreviousStart)
       /\ start' = PreviousStart
       /\ size' = IF size = Capacity THEN size ELSE size + 1
       /\ Called("unshift", size')

Pop ==
    /\ IF size = 0
       THEN Called("pop", None) /\ UNCHANGED size
       ELSE /\ size' = size - 1
            /\ Called("pop", ItemAt(WrapOnce(start + size')))
    /\ UNCHANGED <<items, start, arrived>>

(* The slots keep what is taken out of them.                               *)
Shift ==
    /\ IF size = 0
       THEN Called("shift", None) /\ UNCHANGED <<start, size>>
       ELSE /\ size' = size - 1
            /\ start' = IF start + 1 = Capacity THEN 0 ELSE start + 1
            /\ Called("shift", items[start])
    /\ UNCHANGED <<items, arrived>>

Clear ==
    /\ start' = 0
    /\ size' = 0
    /\ Called("clear", None)
    /\ UNCHANGED <<items, arrived>>

PeekFirst == IF size = 0 THEN None ELSE items[start]

PeekLast == IF size = 0 THEN None ELSE ItemAt(WrapOnce(start + size - 1))

(* Bounded by the capacity, not by the size: past the end it answers with  *)
(* what was taken out.                                                     *)
Get(index) ==
    IF size = 0 \/ index >= Capacity THEN None ELSE ItemAt(WrapOnce(start + index))

(* The start and the size are captured, the slots are not.                 *)
Slot(first, ordinal) == items[(first + ordinal) % Capacity]

ToArray == [n \in 1 .. size |-> Slot(start, n - 1)]

OpenWalk ==
    /\ walk' = OpenCursor(start, size)
    /\ UNCHANGED <<items, start, size, arrived, call>>

StepWalk ==
    /\ ~walk.ended
    /\ walk' = StepCursor(walk, walk.len, Slot(walk.frozen, walk.ordinal))
    /\ UNCHANGED <<items, start, size, arrived, call>>

Next == Push \/ Unshift \/ Pop \/ Shift \/ Clear \/ OpenWalk \/ StepWalk

Spec == Init /\ [][Next]_vars

-----------------------------------------------------------------------------

(* The window of the live items stays within the slots, and every slot of  *)
(* it has been stored to, also of one that is no longer overfilled.        *)
LayoutSound ==
    /\ start \in Slots /\ size \in Nat
    /\ \A n \in 1 .. size : ToArray[n] # None

(* Subtracting the capacity once finds the slot that the iterator finds    *)
(* with a remainder, unless the window of an overfilled one ends behind    *)
(* its second time round.                                                  *)
ReadsAgree ==
    /\ PeekFirst = IF size = 0 THEN None ELSE ToArray[1]
    /\ start + size <= 2 * Capacity =>
           PeekLast = IF size = 0 THEN None ELSE ToArray[size]
    /\ \A index \in 0 .. size - 1 : index < Capacity => Get(index) = ToArray[index + 1]

(* An overfilled one gives the items of its slots round and round, and is  *)
(* as good as any when it is not overfilled any more.  Until then there is *)
(* no room to refuse an item for, and it is put over others.               *)
PastPromise ==
    /\ Overfilled
    /\ call'.op \in {"push", "unshift"} \/ (call'.op = "pop" /\ start + size > 2 * Capacity)
=============================================================================
