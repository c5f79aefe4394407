------------------------------ MODULE SetSpec ------------------------------
(***************************************************************************)
(* What the sparse structures promise: a set of members, in the order a    *)
(* walk reports them.  A set fills the hole that a deletion leaves with    *)
(* its last member; a queue takes its members out at the front.            *)
(*                                                                         *)
(* The promise is void once a call has spoilt the structure (the sources   *)
(* say which calls do), and holds again after it has been cleared.         *)
(***************************************************************************)
EXTENDS Integers, Sequences

CONSTANTS Members, None

VARIABLES content, \* the members, in order
          call,    \* [op, answer] of the last call
          spoilt

vars == <<content, call, spoilt>>

Holds(m) == \E n \in DOMAIN content : content[n] = m

Answers(op, answer) == call' = [op |-> op, answer |-> answer]

Init ==
    /\ content = <<>>
    /\ call = [op |-> "new", answer |-> None]
    /\ spoilt = FALSE

Add(m) ==
    /\ Answers("add", ~Holds(m))
    /\ content' = IF Holds(m) THEN content ELSE Append(content, m)

Delete(m) ==
    /\ Answers("delete", Holds(m))
    /\ IF Holds(m)
       THEN \E n \in DOMAIN content :
                /\ content[n] = m
                /\ content' = SubSeq([content EXCEPT ![n] = content[Len(content)]],
                                     1, Len(content) - 1)
       ELSE UNCHANGED content

Dequeue ==
    IF content = <<>>
    THEN Answers("dequeue", None) /\ UNCHANGED content
    ELSE Answers("dequeue", Head(content)) /\ content' = Tail(content)

Clear == content' = <<>> /\ Answers("clear", None) /\ spoilt' = FALSE

Next ==
    \/ Clear
    \/ /\ ~spoilt /\ ~spoilt'
       /\ (\E m \in Members : Add(m) \/ Delete(m)) \/ Dequeue
    \/ /\ spoilt'
       /\ call'.op # "clear"

Spec == Init /\ [][Next]_vars
=============================================================================
