----------------------------- MODULE MultiArray -----------------------------
(***************************************************************************)
(* multi_array.rs: containers of items, all in one array.  A container is  *)
(* the position of its last item, its length, and a pointer from every     *)
(* item to the one before it; nothing marks the first.  A capacity fixes   *)
(* the arrays and bounds items and containers.  Items are numbered as they *)
(* arrive.                                                                 *)
(***************************************************************************)
EXTENDS Integers, Sequences, SequencesExt, FiniteSets

CONSTANTS Indices, Fixed, Capacity

VARIABLES storage, pointers, tails, lengths, size, dimension,
          arrivals \* history: the container of every item

vars == <<storage, pointers, tails, lengths, size, dimension, arrivals>>

Zeros(n) == [i \in 1 .. n |-> 0]

Init ==
    /\ storage = IF Fixed THEN Zeros(Capacity) ELSE <<>>
    /\ pointers = IF Fixed THEN Zeros(Capacity) ELSE <<>>
    /\ tails = <<>>
    /\ lengths = <<>>
    /\ size = 0
    /\ dimension = 0
    /\ arrivals = <<>>

(* push_or_write, and the same choice for the pointers.                    *)
Written(array, v) == IF Fixed THEN [array EXCEPT ![size + 1] = v] ELSE Append(array, v)

(* Mutant: the container's tail is moved before its pointer is taken.      *)
PlaceSwapped(index) ==
    /\ pointers' = Written(pointers, size)
    /\ tails' = [tails EXCEPT ![index + 1] = size]
    /\ lengths' = [lengths EXCEPT ![index + 1] = @ + 1]
    /\ UNCHANGED dimension

(* An item of a container that exists points to the last one before it.    *)
Place(index) ==
    /\ pointers' = Written(pointers, tails[index + 1])
    /\ tails' = [tails EXCEPT ![index + 1] = size]
    /\ lengths' = [lengths EXCEPT ![index + 1] = @ + 1]
    /\ UNCHANGED dimension

(* One that does not exist is made, with empty ones up to it; the pointer  *)
(* of its item is not set when the arrays are fixed.                       *)
MakeAndPlace(index) ==
    /\ pointers' = IF Fixed THEN pointers ELSE Append(pointers, 0)
    /\ tails' = Append(tails \o Zeros(index - dimension), size)
    /\ lengths' = Append(lengths \o Zeros(index - dimension), 1)
    /\ dimension' = index + 1

Allowed(index) == Fixed => index < Capacity

Stored(index) ==
    /\ size < Capacity \* refused when fixed, the bound of the model otherwise
    /\ Allowed(index)
    /\ storage' = Written(storage, size + 1)
    /\ size' = size + 1
    /\ arrivals' = Append(arrivals, index)

Set(index) ==
    /\ Stored(index)
    /\ IF index < dimension THEN Place(index) ELSE MakeAndPlace(index)

(* push makes a container for its item.                                    *)
Push ==
    /\ dimension \in Indices
    /\ Stored(dimension)
    /\ MakeAndPlace(dimension)

(* A call that is refused changes nothing, and neither does a read.        *)
Refuse ==
    /\ Fixed
    /\ size = Capacity \/ \E index \in Indices \cup {dimension} : ~Allowed(index)
    /\ UNCHANGED vars

Read == UNCHANGED vars

Next == Push \/ Refuse \/ Read \/ \E index \in Indices : Set(index)

Spec == Init /\ [][Next]_vars

-----------------------------------------------------------------------------

(* Where the items of a container are, from the last to the first.         *)
Chain(index) ==
    LET At[n \in 0 .. lengths[index + 1] - 1] ==
            IF n = 0 THEN tails[index + 1] ELSE pointers[At[n - 1] + 1]
    IN At

Get(index) ==
    LET chain == Chain(index)
        length == lengths[index + 1]
    IN [i \in 1 .. length |-> storage[chain[length - i] + 1]]

(* A container has the items that were put in it, in order, and no others. *)
ContainersExact ==
    \A index \in 0 .. dimension - 1 :
        LET given == Get(index)
        IN  /\ \A n \in 1 .. Len(given) - 1 : given[n] < given[n + 1]
            /\ ToSet(given) = {n \in 1 .. size : arrivals[n] = index}

CountsExact ==
    /\ size = Len(arrivals)
    /\ dimension = Len(tails)
    /\ \A n \in 1 .. size : storage[n] = n /\ arrivals[n] < dimension
    /\ \A index \in 0 .. dimension - 1 :
           lengths[index + 1] = Cardinality({n \in 1 .. size : arrivals[n] = index})
=============================================================================
