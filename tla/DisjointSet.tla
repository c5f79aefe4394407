---------------------------- MODULE DisjointSet ----------------------------
(***************************************************************************)
(* static_disjoint_set.rs: union-find over the integers below Size.  find  *)
(* points all it passed at the root.  union compares the ranks of its two  *)
(* arguments, not those of their roots, so the rank of a root may rise     *)
(* with every union; ranks are kept modulo RankWidth.                      *)
(***************************************************************************)
EXTENDS Integers, FiniteSets

CONSTANTS Size, RankWidth, None

VARIABLES parents, ranks, dimension, call

vars == <<parents, ranks, dimension, call>>

Items == 0 .. Size - 1

Init ==
    /\ parents = [x \in Items |-> x]
    /\ ranks = [x \in Items |-> 0]
    /\ dimension = Size
    /\ call = [op |-> "new", answer |-> None]

(* The nodes from x upwards: no climb without a cycle is longer than this. *)
Climb(p, x) ==
    LET at[n \in 0 .. Size] == IF n = 0 THEN x ELSE p[at[n - 1]]
    IN  at

RootIn(p, x) == Climb(p, x)[Size]

Root(x) == RootIn(parents, x)

(* All on the way from x is pointed at the root.                           *)
Compress(p, x) ==
    LET passed == {Climb(p, x)[n] : n \in 0 .. Size}
    IN  [y \in Items |-> IF y \in passed THEN RootIn(p, x) ELSE p[y]]

Called(op, answer) == call' = [op |-> op, answer |-> answer]

Find(x) ==
    /\ parents' = Compress(parents, x)
    /\ Called("find", Root(x))
    /\ UNCHANGED <<ranks, dimension>>

(* Mutant: the arguments are linked where their roots should be.           *)
LinkArguments(p, x, y) ==
    IF ranks[x] < ranks[y] THEN [p EXCEPT ![x] = Root(y)] ELSE [p EXCEPT ![y] = Root(x)]

Link(p, x, y) ==
    IF ranks[x] < ranks[y] THEN [p EXCEPT ![Root(x)] = Root(y)]
    ELSE [p EXCEPT ![Root(y)] = Root(x)]

Union(x, y) ==
    LET found == Compress(Compress(parents, x), y)
    IN  /\ Called("union", Root(x) # Root(y))
        /\ IF Root(x) = Root(y)
           THEN parents' = found /\ UNCHANGED <<ranks, dimension>>
           ELSE /\ dimension' = dimension - 1
                /\ parents' = Link(found, x, y)
                /\ ranks' = IF ranks[x] = ranks[y]
                            THEN [ranks EXCEPT ![Root(x)] = (@ + 1) % RankWidth]
                            ELSE ranks

Connected(x, y) ==
    /\ parents' = Compress(Compress(parents, x), y)
    /\ Called("connected", Root(x) = Root(y))
    /\ UNCHANGED <<ranks, dimension>>

(* root -> number, after the first n items: a class gets its number when   *)
(* the first of its members is met.                                        *)
Ids[n \in 0 .. Size] ==
    IF n = 0 THEN <<>>
    ELSE LET ids == Ids[n - 1]
         IN  [r \in DOMAIN ids \cup {Root(n - 1)} |->
                IF r \in DOMAIN ids THEN ids[r] ELSE Cardinality(DOMAIN ids)]

Number(x) == Ids[Size][Root(x)]

FindAll ==
    /\ parents' = [x \in Items |-> Root(x)]
    /\ UNCHANGED <<ranks, dimension>>

Mapping == Called("mapping", [x \in Items |-> Number(x)]) /\ FindAll

Compile ==
    /\ Called("compile",
              [n \in {Number(x) : x \in Items} |-> {x \in Items : Number(x) = n}])
    /\ FindAll

Next ==
    \/ \E x, y \in Items : Union(x, y) \/ Connected(x, y)
    \/ \E x \in Items : Find(x)
    \/ Mapping
    \/ Compile

Spec == Init /\ [][Next]_vars

-----------------------------------------------------------------------------

Partition == {{y \in Items : Root(y) = Root(x)} : x \in Items}

(* Every climb ends, at a node that is its own parent.                     *)
FindEnds == \A x \in Items : parents[Root(x)] = Root(x)
=============================================================================
