--------------------------- MODULE PartitionSpec ---------------------------
(***************************************************************************)
(* What a disjoint set promises: a partition of the items, whose classes   *)
(* are merged and never split, and how many there are.                     *)
(***************************************************************************)
EXTENDS Integers, FiniteSets

CONSTANTS Items, None

VARIABLES partition, \* the set of classes
          dimension, \* the number of classes
          call       \* [op, answer] of the last call

vars == <<partition, dimension, call>>

ClassOf(x) == UNION {class \in partition : x \in class}

Answers(op, answer) == call' = [op |-> op, answer |-> answer]

Init ==
    /\ partition = {{x} : x \in Items}
    /\ dimension = Cardinality(Items)
    /\ call = [op |-> "new", answer |-> None]

Union(x, y) ==
    /\ partition' = (partition \ {ClassOf(x), ClassOf(y)}) \cup {ClassOf(x) \cup ClassOf(y)}
    /\ dimension' = Cardinality(partition')
    /\ Answers("union", ClassOf(x) # ClassOf(y))

Asked == UNCHANGED <<partition, dimension>>

Connected(x, y) == Answers("connected", ClassOf(x) = ClassOf(y)) /\ Asked

(* Any member may stand for its class.                                     *)
Find(x) == (\E r \in ClassOf(x) : Answers("find", r)) /\ Asked

(* Classes are numbered in the order of their least members.               *)
Number(x) ==
    Cardinality({class \in partition :
                    \E y \in class : \A z \in ClassOf(x) : y < z})

Mapping == Answers("mapping", [x \in Items |-> Number(x)]) /\ Asked

Compile ==
    /\ Answers("compile", [n \in 0 .. dimension - 1 |-> {x \in Items : Number(x) = n}])
    /\ Asked

Next ==
    \/ \E x, y \in Items : Union(x, y) \/ Connected(x, y)
    \/ \E x \in Items : Find(x)
    \/ Mapping
    \/ Compile

Spec == Init /\ [][Next]_vars
=============================================================================
