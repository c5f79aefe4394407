--------------------------- MODULE MCIntegerSets ---------------------------
(* Sets of small integers under one roof: kind names the structure that    *)
(* the behaviour is about.  The variables have the names they have in the  *)
(* sparse sets; the other structures use the ones they need of them.       *)
EXTENDS Integers, Sequences, SequencesExt

CONSTANTS Length, Size, WordBits, MaxCapacity, MaxDrift, None, v1, v2

(* None is not a number, an array of words nor a word.                     *)
ASSUME IntegerSetsAssumption ==
    /\ Length \in Nat \ {0} /\ Size \in Nat /\ WordBits \in Nat \ {0} /\ MaxCapacity \in Nat
    /\ None \notin Int
    /\ \A word \in SUBSET (0 .. WordBits - 1) : word # None
    /\ \A n \in 0 .. MaxCapacity : \A array \in [0 .. n - 1 -> SUBSET (0 .. WordBits - 1)] : array # None

VARIABLES kind, dense, sparse, vals, start, size, call, walk, spoilt, moved, promised, since

vars == <<kind, dense, sparse, vals, start, size, call, walk, spoilt, moved, promised, since>>

InRange == 0 .. Length - 1

(* The structures that get members past the end are smaller by one.        *)
Short == Length - 1

Plain == INSTANCE SparseSet WITH
    Members <- InRange, Width <- Length + 1, HoldsValues <- FALSE, Values <- {}, MaxSize <- Length

Map == INSTANCE SparseSet WITH
    Length <- Short, Members <- InRange, Width <- Short, HoldsValues <- TRUE,
    Values <- {v1, v2}, MaxSize <- Short + 1

Ring == INSTANCE SparseQueueSet WITH
    Capacity <- Length, Members <- InRange, Width <- Length + 1, MaxSize <- Length

(* A queue of 256 or 65536: as many as there are pointers of a width.      *)
Brim == INSTANCE SparseQueueSet WITH
    Capacity <- Short, Members <- InRange, Width <- Short, MaxSize <- Short + 1

Void == INSTANCE SparseQueueSet WITH
    Capacity <- 0, Members <- InRange, Width <- Length, MaxSize <- Length

Classes == INSTANCE DisjointSet WITH
    parents <- dense, ranks <- sparse, dimension <- size, RankWidth <- 2

Bits == INSTANCE BitSet WITH
    words <- dense, length <- start, capacity <- vals, drift <- spoilt, Grows <- FALSE,
    MinDrift <- -MaxDrift

(* Resets lead the size of a vector astray no farther than back.           *)
Vector == INSTANCE BitSet WITH
    words <- dense, length <- start, capacity <- vals, drift <- spoilt, Grows <- TRUE,
    MinDrift <- 0

Unused(v) == v = None

Init ==
    \/ kind = "SparseSet" /\ Plain!Init /\ Unused(start)
    \/ kind = "SparseMap" /\ Map!Init /\ Unused(start)
    \/ kind = "SparseQueueSet" /\ Ring!Init /\ Unused(vals) /\ Unused(moved) /\ Unused(promised)
    \/ kind = "SparseQueueSet, full width" /\ Brim!Init
       /\ Unused(vals) /\ Unused(moved) /\ Unused(promised)
    \/ kind = "SparseQueueSet, no capacity" /\ Void!Init
       /\ Unused(vals) /\ Unused(moved) /\ Unused(promised)
    \/ kind = "StaticDisjointSet" /\ Classes!Init
       /\ Unused(vals) /\ Unused(start) /\ Unused(walk) /\ Unused(spoilt)
       /\ Unused(moved) /\ Unused(promised) /\ Unused(since)
    \/ kind \in {"BitSet", "BitVector"} /\ Bits!Init
       /\ Unused(sparse) /\ Unused(call) /\ Unused(moved) /\ Unused(promised) /\ Unused(since)

Next ==
    /\ \/ kind = "SparseSet" /\ Plain!Next /\ UNCHANGED start
       \/ kind = "SparseMap" /\ Map!Next /\ UNCHANGED start
       \/ kind = "SparseQueueSet" /\ Ring!Next /\ UNCHANGED <<vals, moved, promised>>
       \/ kind = "SparseQueueSet, full width" /\ Brim!Next /\ UNCHANGED <<vals, moved, promised>>
       \/ kind = "SparseQueueSet, no capacity" /\ Void!Next /\ UNCHANGED <<vals, moved, promised>>
       \/ kind = "StaticDisjointSet" /\ Classes!Next
          /\ UNCHANGED <<vals, start, walk, spoilt, moved, promised, since>>
       \/ kind = "BitSet" /\ Bits!Next /\ UNCHANGED <<sparse, call, moved, promised, since>>
       \/ kind = "BitVector" /\ Vector!Next /\ UNCHANGED <<sparse, call, moved, promised, since>>
    /\ UNCHANGED kind

Spec == Init /\ [][Next]_vars

-----------------------------------------------------------------------------

IsQueue == kind \in {"SparseQueueSet", "SparseQueueSet, full width", "SparseQueueSet, no capacity"}
IsSparse == IsQueue \/ kind \in {"SparseSet", "SparseMap"}
IsPartition == kind = "StaticDisjointSet"
IsBits == kind \in {"BitSet", "BitVector"}

Content ==
    CASE kind = "SparseSet" -> Plain!Content
      [] kind = "SparseMap" -> Map!Content
      [] kind = "SparseQueueSet" -> Ring!Content
      [] kind = "SparseQueueSet, full width" -> Brim!Content
      [] kind = "SparseQueueSet, no capacity" -> Void!Content

Has(m) ==
    CASE kind = "SparseSet" -> Plain!Has(m)
      [] kind = "SparseMap" -> Map!Has(m)
      [] kind = "SparseQueueSet" -> Ring!Has(m)
      [] kind = "SparseQueueSet, full width" -> Brim!Has(m)
      [] kind = "SparseQueueSet, no capacity" -> Void!Has(m)

(* Members are found where they are and nowhere else and no more of them   *)
(* than there is room for, and a value until a deletion moves its key.     *)
MembersFound ==
    /\ IsSparse /\ ~spoilt =>
           /\ size <= Length
           /\ \A m \in InRange : Has(m) = \E n \in DOMAIN Content : Content[n] = m
    /\ kind = "SparseMap" => Map!ValuesFound

(* The n-th set bit is found by its rank, and the root of an item by any   *)
(* climb.                                                                  *)
QueriesExact ==
    /\ IsPartition => Classes!FindEnds
    /\ IsBits => Bits!SelectInvertsRank

(* A walk that nothing disturbs reports the members in order.  A disturbed *)
(* one misses none that stay throughout, unless one was added after one    *)
(* was deleted; a queue's never does.  A walk over bits reports of every   *)
(* index a bit that was there since it opened.                             *)
WalksMissNothing ==
    /\ IsSparse /\ ~spoilt /\ walk.fresh =>
           IF walk.ended THEN walk.seen = Content ELSE IsPrefix(walk.seen, Content)
    /\ IsSparse /\ walk.ended =>
           since.missing = {} \/ (IF IsQueue THEN since.spoilt ELSE since.refilled)
    /\ IsBits => Bits!WalksHonest

(* The size of a bit set differs from what is set in its words by the      *)
(* resets under a sign, the bits pushed over set ones and those cut off,   *)
(* and by nothing else; a vector's length is within its words.             *)
SizeAccounted == IsBits => Bits!SizeAccounted /\ (kind = "BitVector" => Vector!LayoutSound)

Set == INSTANCE SetSpec WITH
    Members <- InRange, content <- IF spoilt THEN <<>> ELSE Content

setVars == Set!vars

(* Until it is spoilt, and again after it is cleared, a sparse structure   *)
(* does and answers what a set does.                                       *)
ImplementsSet ==
    /\ IsSparse => Set!Init
    /\ [][IsSparse => Set!Next]_setVars

Partition == INSTANCE PartitionSpec WITH
    Items <- 0 .. Size - 1, partition <- Classes!Partition, dimension <- size

partitionVars == Partition!vars

(* Whatever the ranks come to and the climbs compress, the disjoint set    *)
(* merges classes, counts and numbers them as a partition does.            *)
ImplementsPartition ==
    /\ IsPartition => Partition!Init
    /\ [][IsPartition => Partition!Next]_partitionVars
=============================================================================
