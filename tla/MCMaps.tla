------------------------------- MODULE MCMaps -------------------------------
(* The structures built on the ordered map, MultiArray, FixedReverseHeap,  *)
(* tries, trees and indexes under one roof: kind names the structure that  *)
(* the behaviour is about, which uses of the variables those it needs.  Of *)
(* what has no state of its own, past is an input, and the behaviour stays *)
(* there.                                                                  *)
EXTENDS Integers, Sequences, TLC

CONSTANTS Members, NaN, None, MaxTotal, MaxDrift, MaxSize, MaxDepth,
          Positions, Capacity, Tokens, MaxDocuments

Counts == {NaN} \cup -2 .. 2

VARIABLES kind, items, other, size, dimension, lengths, walk, past

vars == <<kind, items, other, size, dimension, lengths, walk, past>>

Bi == INSTANCE BiMap WITH inverse <- other, inverse_size <- dimension

Default == INSTANCE DefaultMap WITH
    MapKeys <- Members, Values <- {1}, Undefined <- None, factories <- walk, overwrites <- past

Multi == INSTANCE MultiSet WITH Items <- Members, drift <- past

Lists == INSTANCE MultiMap WITH MapKeys <- Members, Values <- {1, 2}, Unique <- FALSE

Sets == INSTANCE MultiMap WITH MapKeys <- Members, Values <- {1, 2}, Unique <- TRUE

Dynamic == INSTANCE MultiArray WITH
    Indices <- Positions, Fixed <- FALSE, storage <- items, pointers <- other, tails <- walk,
    arrivals <- past

FixedArray == INSTANCE MultiArray WITH
    Indices <- Positions, Fixed <- TRUE, storage <- items, pointers <- other, tails <- walk,
    arrivals <- past

Index == INSTANCE InvertedIndex WITH mapping <- other, arrived <- dimension

UpTo(S, n) == UNION {[1 .. k -> S] : k \in 0 .. n}

Trie == INSTANCE TrieMap WITH
    Words <- {<<>>, <<1>>, <<1, 1>>, <<1, 2>>}, Values <- {1, 2}, Undefined <- None,
    MaxWords <- 3, MaxUpdates <- 1, nodes <- items, updates <- dimension

CritBits == INSTANCE CritBit WITH
    BitKeys <- {<<>>, <<0>>, <<1>>, <<1, 0>>}, Values <- {1, 2}, Undefined <- None, Fixed <- FALSE, MaxStored <- 4,
    stored <- items, inner <- other, next_internal <- dimension, root <- lengths

FixedCritBits == INSTANCE CritBit WITH
    BitKeys <- {<<>>, <<1>>, <<1, 0>>, <<2>>}, Values <- {1, 2}, Undefined <- None,
    Fixed <- TRUE, Capacity <- 2, MaxStored <- 3,
    stored <- items, inner <- other, next_internal <- dimension, root <- lengths

Hashed == INSTANCE Hashing WITH
    ProbeKeys <- 0 .. 3, TableSizes <- 1 .. 3, Hashes <- {0, 7, 11}, Values <- {1, 2},
    Undefined <- None, Seeds <- {1, 2}, Bytes <- {0, 1}, table <- items, hash <- other

Least == INSTANCE Selection WITH
    Values <- 0 .. 4, Infinite <- 0, NegInfinite <- 4, MaxGiven <- 5, MaxCapacity <- 3,
    capacity <- dimension, slots <- items, held <- size, given <- past

Points == {<<0, 0>>, <<1, 0>>, <<2, 0>>, <<1, 2>>, <<3, 1>>}

Trees == INSTANCE SearchTrees WITH MaxItems <- 4, tree <- items

Strings == UpTo({1, 2}, 3) \cup {<<1, 1, 2, 1>>}

Added == {<<1>>, <<1, 2>>, <<2, 1>>, <<1, 2, 1>>, <<1, 1, 2, 1>>}

Texts == INSTANCE StringIndexes WITH
    MaxAdds <- 3, index <- items, strings <- other, settings <- lengths, max_length <- dimension

Sorted == INSTANCE SortedArrays

Arrays == {a \in UpTo(1 .. 3, 3) : Sorted!Ascending(a)}

(* What algorithms without a state are given: three sets, one sorted array *)
(* and up to four, texts of one byte and of two, also of the least length  *)
(* whose reduced string has itself halves that may run together.           *)
Inputs ==
    [sets |-> [1 .. 3 -> {s \in UpTo(Members, 3) : Sorted!IsSet(s)}],
     array |-> Arrays,
     arrays |-> UpTo(Arrays, 3) \cup [1 .. 4 -> {<<>>, <<1, 3>>, <<2>>, <<1, 2>>}],
     words |-> {Hashed!Words},
     points |-> UpTo(Points, 4),
     intervals |-> UpTo({<<0, 0>>, <<0, 1>>, <<0, 3>>, <<1, 2>>, <<2, 2>>, <<2, 3>>}, 4),
     text |-> UpTo({1, 2}, 8) \cup UpTo({1, 256, 257}, 5) \cup {[n \in 1 .. 11 |-> 1]},
     texts |-> UpTo({2, 3}, 3) \X UpTo({2, 3}, 4)]

Symmetry == Permutations(Members) \cup Permutations(Tokens)

Unused(v) == v = None

Init ==
    \/ kind = "BiMap" /\ Bi!Init /\ Unused(lengths) /\ Unused(walk) /\ Unused(past)
    \/ kind = "DefaultMap" /\ Default!Init /\ Unused(other) /\ Unused(dimension) /\ Unused(lengths)
    \/ kind = "MultiSet" /\ Multi!Init /\ Unused(other) /\ Unused(lengths)
    \/ kind \in {"MultiMap of lists", "MultiMap of sets"} /\ Lists!Init
       /\ Unused(other) /\ Unused(dimension) /\ Unused(lengths) /\ Unused(past)
    \/ kind = "MultiArray" /\ Dynamic!Init
    \/ kind = "MultiArray, fixed" /\ FixedArray!Init
    \/ kind = "InvertedIndex" /\ Index!Init /\ Unused(lengths)
    \/ kind = "TrieMap" /\ Trie!Init /\ Unused(other) /\ Unused(lengths)
    \/ kind = "CritBitTreeMap" /\ CritBits!Init /\ Unused(walk)
    \/ kind = "FixedCritBitTreeMap" /\ FixedCritBits!Init /\ Unused(walk)
    \/ kind = "hash table" /\ Hashed!InitTable
       /\ Unused(size) /\ Unused(dimension) /\ Unused(lengths) /\ Unused(walk)
    \/ kind = "BloomFilter" /\ Hashed!InitFilter
       /\ Unused(size) /\ Unused(dimension) /\ Unused(lengths) /\ Unused(walk)
    \/ kind = "BKTree" /\ Trees!InitBK
       /\ Unused(other) /\ Unused(dimension) /\ Unused(lengths) /\ Unused(walk)
    \/ kind = "FixedReverseHeap" /\ Least!Init
       /\ Unused(other) /\ Unused(lengths) /\ Unused(walk)
    \/ kind = "SymSpell" /\ Texts!InitSymSpell /\ Unused(walk)
    \/ kind = "PassjoinIndex" /\ Texts!InitPassjoin /\ Unused(walk)
    \/ kind \in DOMAIN Inputs /\ past \in Inputs[kind]
       /\ Unused(items) /\ Unused(other) /\ Unused(size) /\ Unused(dimension)
       /\ Unused(lengths) /\ Unused(walk)

Next ==
    /\ \/ kind = "BiMap" /\ Bi!Next /\ UNCHANGED <<lengths, walk, past>>
       \/ kind = "DefaultMap" /\ Default!Next /\ UNCHANGED <<other, dimension, lengths>>
       \/ kind = "MultiSet" /\ Multi!Next /\ UNCHANGED <<other, lengths>>
       \/ kind = "MultiMap of lists" /\ Lists!Next /\ UNCHANGED <<other, dimension, lengths, past>>
       \/ kind = "MultiMap of sets" /\ Sets!Next /\ UNCHANGED <<other, dimension, lengths, past>>
       \/ kind = "MultiArray" /\ Dynamic!Next
       \/ kind = "MultiArray, fixed" /\ FixedArray!Next
       \/ kind = "InvertedIndex" /\ Index!Next /\ UNCHANGED lengths
       \/ kind = "TrieMap" /\ Trie!Next /\ UNCHANGED <<other, lengths>>
       \/ kind = "CritBitTreeMap" /\ CritBits!Next /\ UNCHANGED walk
       \/ kind = "FixedCritBitTreeMap" /\ FixedCritBits!Next /\ UNCHANGED walk
       \/ kind = "hash table" /\ Hashed!TableNext /\ UNCHANGED <<size, dimension, lengths, walk>>
       \/ kind = "BloomFilter" /\ Hashed!FilterNext /\ UNCHANGED <<size, dimension, lengths, walk>>
       \/ kind = "BKTree" /\ Trees!BKNext /\ UNCHANGED <<other, dimension, lengths, walk>>
       \/ kind = "FixedReverseHeap" /\ Least!Next /\ UNCHANGED <<other, lengths, walk>>
       \/ kind = "SymSpell" /\ Texts!SymSpellNext /\ UNCHANGED walk
       \/ kind = "PassjoinIndex" /\ Texts!PassjoinNext /\ UNCHANGED walk
       \/ kind \in DOMAIN Inputs
          /\ UNCHANGED <<items, other, size, dimension, lengths, walk, past>>
    /\ UNCHANGED kind

Spec == Init /\ [][Next]_vars

-----------------------------------------------------------------------------

(* What is counted beside the data agrees with it: exactly where no call   *)
(* can part them, and otherwise up to what the calls that do are known to  *)
(* do (an overwriting factory insertion, an edit, a deletion of what is    *)
(* absent).  What is empty is not kept: a branch of a trie without words.  *)
CountsAgree ==
    /\ kind = "BiMap" => Bi!Converse /\ Bi!SizesExact
    /\ kind = "DefaultMap" => Default!SizeAccounted
    /\ kind = "MultiSet" => Multi!CountsAccounted
    /\ kind = "MultiMap of lists" => Lists!CountsExact
    /\ kind = "MultiMap of sets" => Sets!CountsExact
    /\ kind \in {"MultiArray", "MultiArray, fixed"} => Dynamic!CountsExact
    /\ kind = "InvertedIndex" => Index!CountsExact
    /\ kind = "TrieMap" => Trie!CountsExact
    /\ kind = "CritBitTreeMap" => CritBits!CountsExact
    /\ kind = "FixedCritBitTreeMap" => FixedCritBits!CountsExact

(* Answers that are put together from several parts are those of a scan:   *)
(* the containers of a MultiArray, the documents of a query, whether a     *)
(* multiset is a subset as long as its dimension is not too high, what is  *)
(* found by a descent, and what a search leaves whole branches out of.     *)
AnswersExact ==
    /\ kind = "MultiSet" => Multi!SubsetExact
    /\ kind \in {"MultiArray", "MultiArray, fixed"} => Dynamic!ContainersExact
    /\ kind = "InvertedIndex" => Index!GetExact
    /\ kind = "TrieMap" => Trie!FindExact
    /\ kind = "CritBitTreeMap" => CritBits!LookupsExact
    /\ kind = "FixedCritBitTreeMap" => FixedCritBits!LookupsExact
    /\ kind = "hash table" => Hashed!TableExact
    /\ kind = "BloomFilter" => Hashed!FilterExact
    /\ kind = "BKTree" => Trees!BKExact
    /\ kind = "SymSpell" => Texts!WordsExact
    /\ kind = "PassjoinIndex" => Texts!PassjoinExact
    /\ kind = "sets" => Sorted!SetsExact(past[1], past[2], past[3])
    /\ kind = "array" => Sorted!SearchesExact(past, 0 .. 4)
    /\ kind = "arrays" => Sorted!CombinationsExact(past)
    /\ kind = "words" => Hashed!BitsExact(past, {0, 1, 2, 3, 5, 64, 127, 128, 255})
    /\ kind = "points" => Trees!VPExact /\ Trees!KDExact
    /\ kind = "intervals" => Trees!IntervalsExact(past, 0 .. 4)
    /\ kind = "text" => Texts!SuffixesExact(past)
    /\ kind = "texts" => Texts!CommonExact(past[1], past[2])

(* A FixedReverseHeap keeps the least of what it was given, and the        *)
(* selections and the sorts, done here to what one without slots was given *)
(* return what the n first of a stable order are.                          *)
SelectionExact ==
    kind = "FixedReverseHeap" =>
        /\ Least!KeepsLeast
        /\ dimension = 0 =>
            /\ Least!SelectionsExact
            /\ Least!SelectionsBounded
            /\ Least!SortsExact

(* Walks that give several things for an entry, or that outlive what they  *)
(* walk, give what they promised and come to everything that stays.        *)
WalksExact ==
    /\ kind = "MultiSet" => Multi!WalkExact
    /\ kind = "MultiMap of lists" => Lists!WalkExact
    /\ kind = "MultiMap of sets" => Sets!WalkExact
    /\ kind = "InvertedIndex" => Index!WalkExact
    /\ kind = "TrieMap" => Trie!WalkExact

Bijection == INSTANCE BijectionSpec WITH
    pairs <- Bi!Pairs, orders <- Bi!Orders, sizes <- Bi!Sizes

bijectionVars == Bijection!bijectionVars

(* The two maps of a BiMap, edited one after the other, are one one-to-one *)
(* relation in two orders, and its sizes differ only after a clear.        *)
ImplementsBijection ==
    /\ kind = "BiMap" => Bijection!Init
    /\ [][kind = "BiMap" => Bijection!Next]_bijectionVars
=============================================================================
