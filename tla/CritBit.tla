------------------------------ MODULE CritBit ------------------------------
(***************************************************************************)
(* critbit_tree_map.rs and fixed_critbit_tree_map.rs: a tree that branches *)
(* on the bits in which keys, sequences of bytes, differ first.  Keys with *)
(* their values are in one arena, inner nodes in another; a pointer is     *)
(* positive to an inner node, negative to a key, and 0 to nothing.  The    *)
(* fixed map gives its inner nodes a limited number of slots, drops what   *)
(* is written past them, and goes on counting after it was cleared.        *)
(***************************************************************************)
EXTENDS Integers, Sequences, SequencesExt, FiniteSets, TLC, Bitwise

CONSTANTS BitKeys, Values, Undefined, Fixed, Capacity,
          MaxStored \* how many keys are ever put in an arena

VARIABLES stored,    \* the keys there ever were, and their values
          inner,     \* critbits, lefts and rights by position
          next_internal, root, size,
          past       \* history: the value last set for each key

vars == <<stored, inner, next_internal, root, size, past>>

EMPTY == 0
Internal(i) == i + 1
External(i) == -i - 1

IsInternal(p) == p > 0
At(p) == IF IsInternal(p) THEN p - 1 ELSE -p - 1

(* Reads and writes past the slots of the fixed map do nothing.            *)
Within(array, i) == i \in DOMAIN inner[array]
Written(nodes, array, i, x) ==
    IF Fixed /\ i \notin DOMAIN nodes[array] THEN nodes
    ELSE [nodes EXCEPT ![array] = i :> x @@ @]

Slots(n, x) == [i \in 0 .. n - 1 |-> x]

Init ==
    /\ stored = <<>>
    /\ inner = IF Fixed
               THEN [critbit |-> Slots(Capacity, <<0, 0>>),
                     left |-> Slots(Capacity - 1, EMPTY), right |-> Slots(Capacity - 1, EMPTY)]
               ELSE [critbit |-> <<>>, left |-> <<>>, right |-> <<>>]
    /\ next_internal = 0
    /\ root = EMPTY
    /\ size = 0
    /\ past = <<>>

-----------------------------------------------------------------------------

(* The highest bit of a byte.                                              *)
MostSignificant(x) ==
    IF x = 0 THEN 0 ELSE CHOOSE b \in {2 ^ n : n \in 0 .. 7} : b <= x /\ x < 2 * b

(* The one map has the bit as its mask, the other all bits but this one.   *)
MaskFor(a, b) ==
    IF Fixed THEN MostSignificant(a ^^ b) ELSE 255 - MostSignificant(a ^^ b)

(* Mutant: what is not there counts as all ones.                           *)
GoesRightPastEnd(key, critbit) ==
    IF critbit[1] >= Len(key) THEN TRUE
    ELSE IF Fixed THEN key[critbit[1] + 1] & critbit[2] # 0
    ELSE key[critbit[1] + 1] | critbit[2] = 255

(* A key that ends before the byte goes left.                              *)
GoesRight(key, critbit) ==
    IF critbit[1] >= Len(key) THEN FALSE
    ELSE IF Fixed THEN key[critbit[1] + 1] & critbit[2] # 0
    ELSE key[critbit[1] + 1] | critbit[2] = 255

(* Where two keys differ first, and in what; zero is for what is not there.*)
Diverging(a, b) ==
    LET byte(k, i) == IF i < Len(k) THEN k[i + 1] ELSE 0
        common == Len(LongestCommonPrefix({a, b}))
    IN [index |-> common, mask |-> MaskFor(byte(a, common), byte(b, common))]

(* The inner nodes from the root to where a key belongs, with the sides    *)
(* taken, and what is there: a key, nothing, or a slot that is missing.    *)
Descent(key) ==
    LET Down[p \in Int, path \in Seq(Nat \X {"left", "right"})] ==
            LET side == IF GoesRight(key, inner.critbit[At(p)]) THEN "right" ELSE "left"
            IN  IF ~IsInternal(p) THEN [path |-> path, at |-> p, missing |-> FALSE]
                ELSE IF ~Within("critbit", At(p)) THEN [path |-> path, at |-> p, missing |-> TRUE]
                ELSE IF ~Within(side, At(p)) THEN [path |-> path, at |-> p, missing |-> TRUE]
                ELSE Down[inner[side][At(p)], Append(path, <<At(p), side>>)]
    IN Down[root, <<>>]

Get(key) ==
    LET found == Descent(key)
    IN  IF found.missing \/ found.at = EMPTY THEN Undefined
        ELSE IF stored[At(found.at) + 1].key # key THEN Undefined
        ELSE stored[At(found.at) + 1].value

(* Whether an ancestor branches on a later bit than the new node.          *)
Later(ancestor, new) ==
    IF ancestor[1] # new[1] THEN ancestor[1] > new[1]
    ELSE IF Fixed THEN ancestor[2] < new[2] ELSE ancestor[2] > new[2]

-----------------------------------------------------------------------------

(* A key that is stored again takes the place of one a clear left behind.  *)
StoredAs(i, key, value) ==
    IF i < Len(stored) THEN [stored EXCEPT ![i + 1] = [key |-> key, value |-> value]]
    ELSE Append(stored, [key |-> key, value |-> value])

NextExternal == IF Fixed THEN size ELSE Len(stored)

SetFirst(key, value) ==
    /\ size = 0
    /\ LET i == IF Fixed THEN 0 ELSE Len(stored)
       IN  /\ stored' = StoredAs(i, key, value)
           /\ root' = External(i)
    /\ size' = 1
    /\ UNCHANGED <<inner, next_internal>>

(* The new node takes the place of the first ancestor that branches on a   *)
(* later bit, or of the key that was found, and has it on its other side.  *)
Insert(key, value, path, at) ==
    LET found == Diverging(key, stored[At(at) + 1].key)
        new == <<found.index, found.mask>>
        mine == IF GoesRight(key, new) THEN "right" ELSE "left"
        others == IF mine = "left" THEN "right" ELSE "left"
        ancestors == [n \in DOMAIN path |-> path[n][1]]
        best == Max({0} \cup {n \in DOMAIN path : ~Later(inner.critbit[ancestors[n]], new)})
        below == IF best = Len(path) THEN at ELSE Internal(ancestors[best + 1])
        made == Written(Written(Written(inner,
                    "critbit", next_internal, new),
                    mine, next_internal, External(NextExternal)),
                    others, next_internal, below)
    IN  /\ stored' = StoredAs(NextExternal, key, value)
        /\ size' = size + 1
        /\ next_internal' = next_internal + 1
        /\ IF best = 0
           THEN root' = Internal(next_internal) /\ inner' = made
           ELSE /\ inner' = Written(made, path[best][2], ancestors[best], Internal(next_internal))
                /\ UNCHANGED root

SetFound(key, value) ==
    LET found == Descent(key)
    IN  /\ size # 0
        /\ ~found.missing
        /\ found.at # EMPTY
        /\ IF stored[At(found.at) + 1].key = key
           THEN /\ stored' = [stored EXCEPT ![At(found.at) + 1].value = value]
                /\ UNCHANGED <<inner, next_internal, root, size>>
           ELSE Insert(key, value, found.path, found.at)

Set(key, value) ==
    /\ key \in DOMAIN past \/ (IF Fixed THEN next_internal ELSE Len(stored)) < MaxStored
    /\ SetFirst(key, value) \/ SetFound(key, value)
    /\ past' = key :> value @@ past

(* The fixed map fails where a slot is missing, before it changes anything.*)
SetCorrupted(key) ==
    /\ size # 0 /\ Descent(key).missing
    /\ UNCHANGED <<stored, inner, next_internal, root, size, past>>

(* The sibling takes the place of the parent.  The arenas keep what goes.  *)
Delete(key) ==
    LET found == Descent(key)
        path == found.path
        parent == Last(path)
        sibling == inner[IF parent[2] = "left" THEN "right" ELSE "left"][parent[1]]
        grandparent == path[Len(path) - 1]
    IN  /\ ~Fixed
        /\ Get(key) # Undefined
        /\ size' = size - 1
        /\ stored' = [stored EXCEPT ![At(found.at) + 1].value = Undefined]
        /\ root' = IF path = <<>> THEN EMPTY ELSE IF Len(path) = 1 THEN sibling ELSE root
        /\ inner' = IF Len(path) < 2 THEN inner
                    ELSE Written(inner, grandparent[2], grandparent[1], sibling)
        /\ past' = [k \in DOMAIN past \ {key} |-> past[k]]
        /\ UNCHANGED next_internal

Clear ==
    /\ root' = EMPTY
    /\ size' = 0
    /\ past' = <<>>
    /\ IF Fixed THEN UNCHANGED <<stored, inner, next_internal>>
       ELSE /\ stored' = <<>>
            /\ inner' = [critbit |-> <<>>, left |-> <<>>, right |-> <<>>]
            /\ next_internal' = 0

Next ==
    \/ \E key \in BitKeys, value \in Values : Set(key, value)
    \/ \E key \in BitKeys : SetCorrupted(key) \/ Delete(key)
    \/ Clear

(* From left to right; children that are missing are passed over.          *)
ForEach ==
    LET child(side, i) == IF Within(side, i) THEN inner[side][i] ELSE EMPTY
        Under[p \in Int] ==
            IF p = EMPTY THEN <<>>
            ELSE IF IsInternal(p) THEN Under[child("left", At(p))] \o Under[child("right", At(p))]
            ELSE <<stored[At(p) + 1]>>
    IN Under[root]

-----------------------------------------------------------------------------

Before(a, b) ==
    LET common == Len(LongestCommonPrefix({a, b}))
    IN  Len(b) > common /\ (Len(a) > common => a[common + 1] < b[common + 1])

(* Two keys of which one is the other and a zero byte: the fixed map has   *)
(* no bit to tell them apart by, and loses the shorter one.                *)
Alike(a, b) == a # b /\ MaskFor(0, 0) = 0 /\ IsPrefix(a \o <<0>>, b)

(* Every inner node has had a slot of its own, also those of before a      *)
(* clear, and all keys can be told apart: as far as that the fixed map is  *)
(* sound.                                                                  *)
Sound ==
    Fixed => next_internal < Capacity /\ \A a, b \in DOMAIN past : ~Alike(a, b)

(* While the map is sound it answers what was last set, and a walk gives   *)
(* all of it in the order of the keys.  After that what is answered is     *)
(* still right, though it may be missing.                                  *)
LookupsExact ==
    LET given == ForEach
    IN  /\ \A k \in BitKeys :
               \/ Get(k) = (IF k \in DOMAIN past THEN past[k] ELSE Undefined)
               \/ ~Sound /\ Get(k) = Undefined
        /\ Sound =>
            /\ {<<given[n].key, given[n].value>> : n \in DOMAIN given} = {<<k, past[k]>> : k \in DOMAIN past}
            /\ \A n \in 1 .. Len(given) - 1 : Before(given[n].key, given[n + 1].key)

(* The size counts the keys, while the map is sound.  The branch of set    *)
(* for a node with an empty side is never taken: each that is reached, is  *)
(* made with both.                                                         *)
CountsExact ==
    /\ Sound => size = Cardinality(DOMAIN past)
    /\ \A k \in BitKeys : Descent(k).at = EMPTY => root = EMPTY
=============================================================================
