----------------------------- MODULE LinkedList -----------------------------
(***************************************************************************)
(* linked_list.rs: a singly linked list in an arena that is never freed.   *)
(* shift does not touch the tail, so that an emptied list still has the    *)
(* last item it had; an iterator is the index of the node it is at.        *)
(*                                                                         *)
(* Indexes count from 1, Nil is the code's None; a node is the item that   *)
(* arrived with its index.                                                 *)
(***************************************************************************)
EXTENDS Integers, Sequences

CONSTANTS MaxItems, None

Nil == 0

VARIABLES next,  \* index -> index of the next node: the arena
          head, tail, size,
          call,
          walk   \* [current, seen, fresh, ended]

vars == <<next, head, tail, size, call, walk>>

arrived == Len(next)

OpenCursorAt(start) ==
    [current |-> start, seen |-> <<>>, fresh |-> TRUE, ended |-> FALSE]

(* new, or collected from n items.                                         *)
Init ==
    \E n \in 0 .. 2 :
        /\ next = [i \in 1 .. n |-> IF i < n THEN i + 1 ELSE Nil]
        /\ head = IF n = 0 THEN Nil ELSE 1
        /\ tail = n
        /\ size = n
        /\ call = [op |-> "new", answer |-> None]
        /\ walk = OpenCursorAt(head)

Called(op, answer) ==
    /\ call' = [op |-> op, answer |-> answer]
    /\ walk' = [walk EXCEPT !.fresh = FALSE]

Clear ==
    /\ head' = Nil
    /\ tail' = Nil
    /\ size' = 0
    /\ Called("clear", None)
    /\ UNCHANGED next

(* Mutant: an emptied list is linked to the tail it still has.             *)
PushAfterTail ==
    LET index == Len(next) + 1
    IN  /\ index <= MaxItems
        /\ IF tail = Nil
           THEN next' = Append(next, Nil) /\ head' = index
           ELSE next' = Append([next EXCEPT ![tail] = index], Nil) /\ UNCHANGED head
        /\ tail' = index
        /\ size' = size + 1
        /\ Called("push", size + 1)

Push ==
    LET index == Len(next) + 1
    IN  /\ index <= MaxItems
        /\ IF head = Nil
           THEN next' = Append(next, Nil) /\ head' = index
           ELSE next' = Append([next EXCEPT ![tail] = index], Nil) /\ UNCHANGED head
        /\ tail' = index
        /\ size' = size + 1
        /\ Called("push", size + 1)

Unshift ==
    LET index == Len(next) + 1
    IN  /\ index <= MaxItems
        /\ next' = Append(next, head)
        /\ head' = index
        /\ tail' = IF head = Nil THEN index ELSE tail
        /\ size' = size + 1
        /\ Called("unshift", size + 1)

Shift ==
    \/ /\ head = Nil
       /\ Called("shift", None)
       /\ UNCHANGED <<next, head, tail, size>>
    \/ /\ head # Nil
       /\ head' = next[head]
       /\ size' = size - 1
       /\ Called("shift", head)
       /\ UNCHANGED <<next, tail>>

OpenWalk ==
    /\ walk' = OpenCursorAt(head)
    /\ UNCHANGED <<next, head, tail, size, call>>

StepWalk ==
    /\ ~walk.ended
    /\ walk' = IF walk.current = Nil THEN [walk EXCEPT !.ended = TRUE]
               ELSE [walk EXCEPT !.current = next[walk.current],
                                 !.seen = Append(@, walk.current)]
    /\ UNCHANGED <<next, head, tail, size, call>>

Next == Clear \/ Push \/ Unshift \/ Shift \/ OpenWalk \/ StepWalk

Spec == Init /\ [][Next]_vars

-----------------------------------------------------------------------------

(* The nodes on the way from the head, as many as the arena has and one    *)
(* more: a way with a cycle is too long.                                   *)
ToArray ==
    LET at[n \in 1 .. Len(next) + 1] ==
            IF n = 1 THEN head
            ELSE IF at[n - 1] = Nil THEN Nil ELSE next[at[n - 1]]
    IN  [n \in {m \in DOMAIN at : at[m] # Nil} |-> at[n]]

(* The size is the number of nodes on the way from the head, and the way   *)
(* ends at the tail.  The tail of an empty list is Nil or a stale node.    *)
LayoutSound ==
    /\ size = Len(ToArray)
    /\ head # Nil => tail = ToArray[Len(ToArray)] /\ next[tail] = Nil

First == IF head = Nil THEN None ELSE head

(* last: of an emptied list, the item it had last.                         *)
LastItem == IF tail = Nil THEN None ELSE tail

ReadsAgree ==
    /\ First = IF size = 0 THEN None ELSE ToArray[1]
    /\ size > 0 => LastItem = ToArray[size]
=============================================================================
