--------------------------- MODULE BijectionSpec ---------------------------
(***************************************************************************)
(* What a BiMap promises: a one-to-one relation that can be read in either *)
(* direction, each in the order in which that side's members came.         *)
(* Relating two members releases whoever either was related to.            *)
(***************************************************************************)
EXTENDS Naturals, FiniteSets

CONSTANT Members

VARIABLES pairs,   \* the relation: pairs of a key and a value
          orders,  \* of both sides: who comes before whom
          sizes    \* what either side says its size is

bijectionVars == <<pairs, orders, sizes>>

Sides == {"key", "value"}

Side(pair, s) == IF s = "key" THEN pair[1] ELSE pair[2]

Present(s) == {Side(p, s) : p \in pairs}

Left(s) == {Side(p, s) : p \in pairs'}

(* Members keep their places, and whoever is new comes after all of them.  *)
Reordered ==
    orders' = [s \in Sides |->
        (orders[s] \cap (Left(s) \X Left(s)))
        \cup ((Left(s) \cap Present(s)) \X (Left(s) \ Present(s)))]

Resized == sizes' = [s \in Sides |-> Cardinality(pairs')]

Init ==
    /\ pairs = {}
    /\ orders = [s \in Sides |-> {}]
    /\ sizes = [s \in Sides |-> 0]

Relate(k, v) ==
    /\ pairs' = {p \in pairs : p[1] # k /\ p[2] # v} \cup {<<k, v>>}
    /\ Reordered
    /\ Resized

Unrelate(s, x) ==
    /\ \E p \in pairs : Side(p, s) = x
    /\ pairs' = {p \in pairs : Side(p, s) # x}
    /\ Reordered
    /\ Resized

(* Only the side that is cleared learns of it.                             *)
Clear(s) ==
    /\ pairs' = {}
    /\ Reordered
    /\ sizes' = [sizes EXCEPT ![s] = 0]

Next ==
    \/ \E k, v \in Members : Relate(k, v)
    \/ \E s \in Sides : Clear(s) \/ \E x \in Members : Unrelate(s, x)

Spec == Init /\ [][Next]_bijectionVars
=============================================================================
