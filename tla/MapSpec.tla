------------------------------- MODULE MapSpec -------------------------------
(***************************************************************************)
(* The JavaScript Map, as ECMA-262 describes it and map/mod.rs promises    *)
(* it: a list of entries to which new ones are appended and in which a     *)
(* deleted one leaves an empty place for ever, and iterators that are      *)
(* positions in that list.                                                 *)
(***************************************************************************)
EXTENDS Naturals, Sequences

CONSTANTS Keys, Values, Cursors, None

VARIABLES data,  \* the entries ever appended, None where one was deleted
          iters  \* the iterators: the next place to look at, and whether done

mapVars == <<data, iters>>

Places(k) == {i \in DOMAIN data : data[i] # None /\ data[i].key = k}
Has(k) == Places(k) # {}

Init ==
    /\ data = <<>>
    /\ iters = [c \in Cursors |-> [at |-> 1, done |-> FALSE]]

(* Overwriting keeps the place; a new key, also one deleted before, goes   *)
(* to the end.                                                             *)
Set(k, v) ==
    /\ IF Has(k)
       THEN \E i \in Places(k) : data' = [data EXCEPT ![i].value = v]
       ELSE data' = Append(data, [key |-> k, value |-> v])
    /\ UNCHANGED iters

Delete(k) ==
    /\ \E i \in Places(k) : data' = [data EXCEPT ![i] = None]
    /\ UNCHANGED iters

Clear ==
    /\ data' = [i \in DOMAIN data |-> None]
    /\ UNCHANGED iters

Open(c) ==
    /\ iters' = [iters EXCEPT ![c] = [at |-> 1, done |-> FALSE]]
    /\ UNCHANGED data

(* next() returns the first entry from here on, deleted ones skipped and   *)
(* appended ones included; an iterator that found none is done for good.   *)
Ahead(c) == {i \in DOMAIN data : i >= iters[c].at /\ data[i] # None}

Step(c) ==
    /\ ~iters[c].done
    /\ IF Ahead(c) # {}
       THEN \E i \in Ahead(c) :
                /\ \A j \in Ahead(c) : i <= j
                /\ iters' = [iters EXCEPT ![c].at = i + 1]
       ELSE iters' = [iters EXCEPT ![c] = [at |-> 0, done |-> TRUE]]
    /\ UNCHANGED data

Next ==
    \/ \E k \in Keys, v \in Values : Set(k, v)
    \/ \E k \in Keys : Delete(k)
    \/ Clear
    \/ \E c \in Cursors : Open(c) \/ Step(c)

Spec == Init /\ [][Next]_mapVars
=============================================================================
