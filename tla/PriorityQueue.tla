---------------------------- MODULE PriorityQueue ----------------------------
(***************************************************************************)
(* What a heap promises: a bag of items out of which pop takes a least one *)
(* (and replace and pushpop, on the way of putting another in).            *)
(***************************************************************************)
EXTENDS Naturals

CONSTANTS Items, None

VARIABLES content,  \* how many of each item the queue holds
          popped    \* what the last pop returned

Held == {v \in Items : content[v] > 0}

Least(v) == v \in Held /\ \A u \in Held : v <= u

Init ==
    /\ content \in [Items -> Nat]
    /\ popped = None

Push(v) ==
    /\ content' = [content EXCEPT ![v] = @ + 1]
    /\ UNCHANGED popped

Pop ==
    IF Held = {}
    THEN popped' = None /\ UNCHANGED content
    ELSE \E v \in Items :
            /\ Least(v)
            /\ content' = [content EXCEPT ![v] = @ - 1]
            /\ popped' = v

(* v goes in and a least item comes out, of those that were there.         *)
Replace(v) ==
    \E u \in Items :
        /\ Least(u)
        /\ content' = [w \in Items |->
               content[w] + (IF w = v THEN 1 ELSE 0) - (IF w = u THEN 1 ELSE 0)]
        /\ popped' = u

(* v comes out again unless an item is less.                               *)
Pushpop(v) ==
    IF \E u \in Held : u < v THEN Replace(v)
    ELSE popped' = v /\ UNCHANGED content

Clear ==
    /\ content' = [v \in Items |-> 0]
    /\ UNCHANGED popped

Next == (\E v \in Items : Push(v) \/ Replace(v) \/ Pushpop(v)) \/ Pop \/ Clear

Spec == Init /\ [][Next]_<<content, popped>>
=============================================================================
