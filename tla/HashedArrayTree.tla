-------------------------- MODULE HashedArrayTree --------------------------
(***************************************************************************)
(* hashed_array_tree.rs: an array in blocks of one size, to which blocks   *)
(* are added and never taken away; nothing ever moves.  A position is a    *)
(* block and an offset.  Values are numbered as they are written.          *)
(***************************************************************************)
EXTENDS Integers, Sequences

CONSTANTS BlockSize, MaxItems, MaxCapacity, None, FullError

VARIABLES blocks, length, capacity, arrived, call

vars == <<blocks, length, capacity, arrived, call>>

Block == [offset \in 0 .. BlockSize - 1 |-> 0]

Blocks(n) == [b \in 1 .. n |-> Block]

Init ==
    \E n \in 0 .. 2, c \in 0 .. 2 :
        LET requested == IF c < n THEN n ELSE c
            initial == (requested + BlockSize - 1) \div BlockSize
        IN /\ length = n
           /\ capacity = initial * BlockSize
           /\ blocks = Blocks(initial)
           /\ arrived = 0
           /\ call = [op |-> "new", answer |-> None]

Called(op, answer) == call' = [op |-> op, answer |-> answer]

Arrives ==
    /\ arrived < MaxItems
    /\ arrived' = arrived + 1

BlockOf(index) == index \div BlockSize + 1

Offset(index) == index % BlockSize

(* The guard lets the position at the length pass, and the block it is in  *)
(* may not be there.                                                       *)
Refuses(index) == length < index \/ BlockOf(index) > Len(blocks)

Set(index) ==
    /\ Arrives
    /\ IF Refuses(index)
       THEN Called("set", FullError) /\ UNCHANGED blocks
       ELSE /\ blocks' = [blocks EXCEPT ![BlockOf(index)][Offset(index)] = arrived + 1]
            /\ Called("set", None)
    /\ UNCHANGED <<length, capacity>>

Get(index) ==
    CASE length < index -> None
      [] Refuses(index) /\ length >= index -> FullError
      [] OTHER -> blocks[BlockOf(index)][Offset(index)]

(* Mutant: a last block that would not be full is not added.               *)
AddedWhole(target) ==
    IF capacity >= target THEN 0 ELSE (target - capacity) \div BlockSize

(* Blocks are added until there is room for target.                        *)
Added(target) ==
    IF capacity >= target THEN 0 ELSE (target - capacity + BlockSize - 1) \div BlockSize

Room(target) ==
    /\ target <= MaxCapacity
    /\ blocks' = blocks \o Blocks(Added(target))
    /\ capacity' = capacity + Added(target) * BlockSize

GrowTo(target) ==
    /\ Room(target)
    /\ Called("grow", None)
    /\ UNCHANGED <<length, arrived>>

Grow == GrowTo(capacity + BlockSize)

(* A tree made longer shows what its blocks have.                          *)
Resize(len) ==
    /\ len # length
    /\ length' = len
    /\ IF len < length THEN UNCHANGED <<blocks, capacity>> ELSE Room(len)
    /\ Called("resize", None)
    /\ UNCHANGED arrived

Push ==
    /\ Arrives
    /\ LET added == IF capacity = length THEN Blocks(1) ELSE <<>>
           room == blocks \o added
       IN /\ capacity + Len(added) * BlockSize <= MaxCapacity
          /\ blocks' = [room EXCEPT ![BlockOf(length)][Offset(length)] = arrived + 1]
          /\ capacity' = capacity + Len(added) * BlockSize
    /\ length' = length + 1
    /\ Called("push", length + 1)

(* The offset is that of the last element; the block is the last there is, *)
(* whether the element is in it or not.                                    *)
Pop ==
    /\ length' = IF length = 0 THEN 0 ELSE length - 1
    /\ Called("pop", IF length = 0 THEN None ELSE blocks[Len(blocks)][Offset(length - 1)])
    /\ UNCHANGED <<blocks, capacity, arrived>>

ToVec == [n \in 1 .. length |-> blocks[BlockOf(n - 1)][Offset(n - 1)]]

Next ==
    \/ \E n \in 0 .. MaxCapacity : Set(n) \/ GrowTo(n) \/ Resize(n)
    \/ Grow
    \/ Push
    \/ Pop

-----------------------------------------------------------------------------

LayoutSound == length <= capacity /\ capacity = Len(blocks) * BlockSize

(* A position below the length is in a block that is there.                *)
ReadsAgree == \A index \in 0 .. length - 1 : ~Refuses(index) /\ Get(index) = ToVec[index + 1]

(* The last call, as it would be if pop took the block its element is in:  *)
(* what it removed is still there.                                         *)
CallMeant ==
    IF call.op = "pop" /\ call.answer # None /\ BlockOf(length) # Len(blocks)
    THEN [call EXCEPT !.answer = blocks[BlockOf(length)][Offset(length)]]
    ELSE call
=============================================================================
