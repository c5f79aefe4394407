------------------------------ MODULE ListSpec ------------------------------
(***************************************************************************)
(* What the linear structures promise: a list, added to and taken from at  *)
(* its two ends, and the answer of every call.  A stack uses one end, a    *)
(* queue one end each way; a list with a capacity refuses an item when it  *)
(* is full, or makes room for it by dropping the one at the other end.     *)
(***************************************************************************)
EXTENDS Integers, Sequences

CONSTANTS Items, None,
          FullError \* the answer of a structure that refuses an item

VARIABLES list,
          call,     \* [op, answer] of the last call
          capacity,
          policy    \* what a full list does: "refuse" or "evict"

vars == <<list, call, capacity, policy>>

Full == Len(list) = capacity

Answers(op, answer) == call' = [op |-> op, answer |-> answer]

Init ==
    /\ list \in Seq(Items) /\ Len(list) <= capacity
    /\ call = [op |-> "new", answer |-> None]
    /\ policy \in {"refuse", "evict"}

Push ==
    \/ /\ ~Full
       /\ \E x \in Items : list' = Append(list, x)
       /\ Answers("push", Len(list) + 1)
    \/ /\ Full /\ policy = "evict"
       /\ \E x \in Items : list' = Append(Tail(list), x)
       /\ Answers("push", capacity)
    \/ /\ Full /\ policy = "refuse"
       /\ Answers("push", FullError)
       /\ UNCHANGED list

Unshift ==
    \/ /\ ~Full
       /\ \E x \in Items : list' = <<x>> \o list
       /\ Answers("unshift", Len(list) + 1)
    \/ /\ Full /\ policy = "evict"
       /\ \E x \in Items : list' = <<x>> \o SubSeq(list, 1, capacity - 1)
       /\ Answers("unshift", capacity)
    \/ /\ Full /\ policy = "refuse"
       /\ Answers("unshift", FullError)
       /\ UNCHANGED list

Pop ==
    IF list = <<>>
    THEN Answers("pop", None) /\ UNCHANGED list
    ELSE /\ Answers("pop", list[Len(list)])
         /\ list' = SubSeq(list, 1, Len(list) - 1)

Shift ==
    IF list = <<>>
    THEN Answers("shift", None) /\ UNCHANGED list
    ELSE Answers("shift", Head(list)) /\ list' = Tail(list)

Clear == list' = <<>> /\ Answers("clear", None)

(* A list that is an array: an element is written, or none when what is    *)
(* named is past the end.                                                  *)
Set ==
    \/ \E n \in DOMAIN list, x \in Items : list' = [list EXCEPT ![n] = x] /\ Answers("set", None)
    \/ \E answer \in {None, FullError} : Answers("set", answer) /\ UNCHANGED list

(* What is in the elements that a longer array gains is not promised.      *)
Resize ==
    /\ \/ \E n \in 0 .. Len(list) : list' = SubSeq(list, 1, n)
       \/ Len(list') > Len(list) /\ list = SubSeq(list', 1, Len(list))
    /\ Answers("resize", None)

Reallocate ==
    /\ \E n \in 0 .. Len(list) : list' = SubSeq(list, 1, n)
    /\ Answers("reallocate", None)

(* Room is made, or the caller's policy makes none: the contents stay.     *)
Grow ==
    /\ Answers("grow", None) \/ Answers("refused", FullError)
    /\ UNCHANGED list

Next ==
    /\ \/ Push \/ Unshift \/ Pop \/ Shift \/ Clear
       \/ Set \/ Resize \/ Reallocate \/ Grow
    /\ UNCHANGED <<capacity, policy>>

Spec == Init /\ [][Next]_vars
=============================================================================
