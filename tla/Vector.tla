------------------------------- MODULE Vector -------------------------------
(***************************************************************************)
(* vector.rs: an array that is replaced by a longer one when it is full,   *)
(* by as much as a policy says, or by one of any length when asked.  What  *)
(* is popped stays in the array, and moves with it.  Iterators freeze the  *)
(* length and read the array that is there at every step.  Values are      *)
(* numbered as they are written.                                           *)
(***************************************************************************)
EXTENDS CursorState

CONSTANTS MaxItems, MaxCapacity, FullError

VARIABLES array, length, capacity, arrived, call, walk

vars == <<array, length, capacity, arrived, call, walk>>

Init ==
    \E n \in 0 .. 2, c \in 0 .. 2 :
        /\ length = n
        /\ capacity = IF c < n THEN n ELSE c
        /\ array = [i \in 1 .. capacity |-> 0]
        /\ arrived = 0
        /\ call = [op |-> "new", answer |-> None]
        /\ walk = OpenCursor(None, n)

Called(op, answer) ==
    /\ call' = [op |-> op, answer |-> answer]
    /\ walk' = Disturbed(walk)

(* The next value to write, as long as there are some.                     *)
Arrives ==
    /\ arrived < MaxItems
    /\ arrived' = arrived + 1

(* The guard lets the position at the length pass: what is written there   *)
(* is not in the vector.                                                   *)
Set(index) ==
    /\ Arrives
    /\ array' = IF index <= length /\ index < capacity
                THEN [array EXCEPT ![index + 1] = arrived + 1] ELSE array
    /\ Called("set", IF length < index THEN FullError ELSE None)
    /\ UNCHANGED <<length, capacity>>

Get(index) == IF index <= length /\ index < capacity THEN array[index + 1] ELSE None

Greater(a, b) == IF a > b THEN a ELSE b

DefaultPolicy(n) == Greater((3 * n + 1) \div 2, 1)

(* Mutant: only what is below the length is copied, from the wrong end.    *)
CopiedFromTheEnd(n) ==
    [i \in 1 .. n |-> IF i + Len(array) - n \in DOMAIN array THEN array[i + Len(array) - n] ELSE 0]

(* The longer or shorter array, with all that the old one had.             *)
Copied(n) == [i \in 1 .. n |-> IF i \in DOMAIN array THEN array[i] ELSE 0]

(* The length is cut to what there is room for.                            *)
ReallocateTo(n, len) ==
    /\ n <= MaxCapacity
    /\ array' = Copied(n)
    /\ capacity' = n
    /\ length' = IF n < len THEN n ELSE len

Reallocate(n) ==
    /\ ReallocateTo(n, length)
    /\ Called("reallocate", None)
    /\ UNCHANGED arrived

(* The policy is the caller's: the default one, or one whose answer is     *)
(* refused.                                                                *)
Refused ==
    /\ Called("refused", FullError)
    /\ UNCHANGED <<array, length, capacity, arrived>>

Grow ==
    \/ Refused
    \/ /\ ReallocateTo(DefaultPolicy(capacity), length)
       /\ Called("grow", None)
       /\ UNCHANGED arrived

GrownTo(target) ==
    LET after[n \in 0 .. target] ==
            IF n = 0 THEN capacity
            ELSE IF after[n - 1] >= target THEN after[n - 1] ELSE DefaultPolicy(after[n - 1])
    IN after[target]

GrowTo(target) ==
    /\ capacity < target
    /\ ReallocateTo(GrownTo(target), length)
    /\ Called("grow", None)
    /\ UNCHANGED arrived

(* A vector made longer is reallocated to exactly its length, which may be *)
(* less than there was; what the array had there becomes its contents.     *)
Resize(len) ==
    /\ len # length
    /\ Called("resize", None)
    /\ IF len < length
       THEN length' = len /\ UNCHANGED <<array, capacity>>
       ELSE ReallocateTo(len, len)
    /\ UNCHANGED arrived

Push ==
    \/ /\ capacity = length
       /\ Refused
    \/ /\ Arrives
       /\ LET room == IF capacity = length THEN DefaultPolicy(capacity) ELSE capacity
          IN /\ room <= MaxCapacity
             /\ array' = [Copied(room) EXCEPT ![length + 1] = arrived + 1]
             /\ capacity' = room
       /\ length' = length + 1
       /\ Called("push", length + 1)

Pop ==
    /\ length' = IF length = 0 THEN 0 ELSE length - 1
    /\ Called("pop", IF length = 0 THEN None ELSE array[length])
    /\ UNCHANGED <<array, capacity, arrived>>

ToVec == SubSeq(array, 1, length)

OpenWalk ==
    /\ walk' = OpenCursor(None, length)
    /\ UNCHANGED <<array, length, capacity, arrived, call>>

StepWalk ==
    /\ ~walk.ended
    /\ walk' = StepCursor(walk, walk.len,
                          IF walk.ordinal < capacity THEN array[walk.ordinal + 1] ELSE None)
    /\ UNCHANGED <<array, length, capacity, arrived, call>>

Next ==
    \/ \E n \in 0 .. MaxCapacity : Set(n) \/ Reallocate(n) \/ GrowTo(n) \/ Resize(n)
    \/ Grow
    \/ Push
    \/ Pop
    \/ OpenWalk
    \/ StepWalk

-----------------------------------------------------------------------------

LayoutSound == length <= capacity /\ capacity = Len(array)

ReadsAgree == \A index \in 0 .. length - 1 : Get(index) = ToVec[index + 1]

(* An iterator has no gap ahead of it.                                     *)
NoGapAhead == walk.ordinal < walk.len => walk.ordinal < capacity
=============================================================================
