-------------------------- MODULE IntegerSetsProofs --------------------------
(***************************************************************************)
(* What holds of the sparse sets, maps and queue sets, the disjoint sets,  *)
(* and the bit sets and vectors with the walks over them, for every        *)
(* length, width of a word, capacity and bound on the drift: members are   *)
(* found where they are and nowhere else, walks miss nothing that stays,   *)
(* every sparse structure is a set (SetSpec) and every disjoint set a      *)
(* partition (PartitionSpec), the size of a bit set is accounted for, and  *)
(* rank and select answer with what is set.                                *)
(*                                                                         *)
(* Each has an inductive invariant of its own; SetsInv is that of the      *)
(* structure the behaviour is about.  What a sparse structure rests on is  *)
(* that dense and sparse point at each other for as many slots as there    *)
(* are members (Paired, Queued), so that what is left over beyond them     *)
(* cannot say yes; a queue, whose window is asked about slots that it does *)
(* not have, needs that nobody is left over behind its start.  A walk over *)
(* bits rests on what it holds: the array as it was when the vector last   *)
(* moved its words, and the word it is in the midst of (Honest); the size, *)
(* on the order of the numbers that words are read as (ReadingOrder).  In  *)
(* a disjoint set no nodes without a root among them are closed under      *)
(* parents (Rooted), whatever the ranks are.                               *)
(*                                                                         *)
(* P and Q are the sparse modules for any length: the five structures of   *)
(* MCIntegerSets are instances of them.                                    *)
(***************************************************************************)
EXTENDS MCIntegerSets, FunctionTheorems, FiniteSetTheorems, SequenceTheorems, WellFoundedInduction, TLAPS

P(len, width, valued, values, bound) == INSTANCE SparseSet WITH
    Length <- len, Members <- InRange, Width <- width, HoldsValues <- valued,
    Values <- values, MaxSize <- bound

Q(cap, width, bound) == INSTANCE SparseQueueSet WITH
    Capacity <- cap, Members <- InRange, Width <- width, MaxSize <- bound

(* In place of an induction: what fails somewhere fails first somewhere.    *)
LEMMA Least ==
    ASSUME NEW S \in SUBSET Nat, S # {}
    PROVE  \E i \in S : \A j \in S : ~(j < i)
<1>1. IsWellFoundedOn(OpToRel(<, Nat), Nat)
  BY NatLessThanWellFounded
<1>2. PICK i \in S : \A j \in S : <<j, i>> \notin OpToRel(<, Nat)
  BY <1>1, WFMin
<1>3. \A j \in S : ~(j < i)
  BY <1>2, Zenon DEF OpToRel
<1> QED BY <1>3

-----------------------------------------------------------------------------
(* Two arrays that point at each other.                                    *)

Below(n) == 0 .. n - 1

At(array, i) == IF i \in DOMAIN array THEN array[i] ELSE None

Arrays(len) ==
    /\ dense \in [Below(len) -> Nat]
    /\ sparse \in [Below(len) -> Nat]
    /\ size \in Nat
    /\ spoilt \in BOOLEAN

LEMMA NoneNoNumber == None \notin Int
  BY IntegerSetsAssumption

Put(array, i, v, width) == IF i \in DOMAIN array THEN [array EXCEPT ![i] = v % width] ELSE array

LEMMA Stored ==
    ASSUME NEW len \in Nat, NEW width \in Nat, len <= width,
           NEW a \in [Below(len) -> Nat], NEW i, NEW v \in Nat
    PROVE  /\ Put(a, i, v, width) \in [Below(len) -> Nat]
           /\ \A j \in Below(len) : j # i => Put(a, i, v, width)[j] = a[j]
           /\ i \in Below(len) /\ v < width => Put(a, i, v, width)[i] = v
<1>1. CASE i \in Below(len)
  <2>1. width \in Nat \ {0}
    BY <1>1 DEF Below
  <2>2. (v % width) \in Nat /\ (v < width => (v % width) = v)
    BY <2>1
  <2> QED BY <1>1, <2>2 DEF Put
<1>2. CASE i \notin Below(len)
  BY <1>2 DEF Put
<1> QED BY <1>1, <1>2

(* Whoever is not in an array without repetitions has room in it.          *)
LEMMA Room ==
    ASSUME NEW len \in Nat, NEW n \in Nat, n <= len, NEW d,
           \A i \in Below(n) : d[i] \in Below(len),
           \A i, j \in Below(n) : d[i] = d[j] => i = j,
           NEW m \in Below(len), \A i \in Below(n) : d[i] # m
    PROVE  n < len
<1> SUFFICES ASSUME n = len PROVE FALSE
  OBVIOUS
<1> DEFINE f == [i \in 0 .. len |-> IF i = len THEN m ELSE d[i]]
<1>1. f \in [0 .. len -> Below(len)]
  BY DEF Below
<1>2. IsFiniteSet(0 .. len) /\ Cardinality(0 .. len) = len + 1
  BY FS_Interval
<1>3. IsFiniteSet(Below(len)) /\ Cardinality(Below(len)) = len
  BY FS_Interval DEF Below
<1>4. PICK x, y \in 0 .. len : x # y /\ f[x] = f[y]
  <2> HIDE DEF f
  <2>1. Cardinality(Below(len)) < Cardinality(0 .. len)
    BY <1>2, <1>3
  <2> QED BY <1>1, <1>2, <1>3, <2>1, FS_PigeonHole
<1> QED BY <1>4 DEF Below

-----------------------------------------------------------------------------
(* Sparse sets and maps.                                                   *)

Found(m) ==
    /\ At(sparse, m) # None
    /\ At(sparse, m) < size
    /\ At(dense, At(sparse, m)) = m

Paired(len) ==
    /\ size <= len
    /\ \A i \in Below(size) : dense[i] \in Below(len) /\ sparse[dense[i]] = i

Listed == [n \in 1 .. size |-> At(dense, n - 1)]

LEMMA FoundThere ==
    ASSUME NEW len \in Nat, Arrays(len), NEW m \in Int
    PROVE  Found(m) <=> /\ m \in Below(len)
                        /\ sparse[m] \in Below(size) /\ sparse[m] \in Below(len)
                        /\ dense[sparse[m]] = m
  BY NoneNoNumber DEF Found, At, Arrays, Below

LEMMA FoundNext ==
    ASSUME NEW len \in Nat, Arrays(len)', NEW m \in Int
    PROVE  Found(m)' <=> /\ m \in Below(len)
                         /\ sparse'[m] \in Below(size') /\ sparse'[m] \in Below(len)
                         /\ dense'[sparse'[m]] = m
  BY NoneNoNumber DEF Found, At, Arrays, Below

LEMMA FoundListed ==
    ASSUME NEW len \in Nat, Arrays(len), Paired(len), NEW m \in Int
    PROVE  Found(m) <=> \E i \in Below(size) : dense[i] = m
<1>1. ASSUME NEW i \in Below(size), dense[i] = m
      PROVE  Found(m)
  <2>1. i \in Below(len) /\ m \in Below(len) /\ sparse[m] = i
    BY <1>1 DEF Paired, Arrays, Below
  <2> QED BY <1>1, <2>1, FoundThere
<1> QED BY <1>1, FoundThere

LEMMA ListedSeq ==
    ASSUME NEW len \in Nat, Arrays(len), size <= len
    PROVE  /\ Listed \in Seq(Nat) /\ Len(Listed) = size
           /\ \A n \in 1 .. size : Listed[n] = dense[n - 1] /\ n - 1 \in Below(size)
<1>1. \A n \in 1 .. size : n - 1 \in Below(len) /\ n - 1 \in Below(size)
  BY DEF Arrays, Below
<1>2. \A n \in 1 .. size : At(dense, n - 1) = dense[n - 1] /\ dense[n - 1] \in Nat
  BY <1>1 DEF Arrays, At
<1> QED BY <1>1, <1>2 DEF Listed, Arrays

(* Holding in the list is being found.                                     *)
LEMMA FoundHeld ==
    ASSUME NEW len \in Nat, Arrays(len), Paired(len), NEW m \in Int
    PROVE  Found(m) <=> \E n \in DOMAIN Listed : Listed[n] = m
<1>1. DOMAIN Listed = 1 .. size /\ size \in Nat
  BY DEF Listed, Arrays
<1>2. \A n \in 1 .. size : Listed[n] = dense[n - 1] /\ n - 1 \in Below(size)
  BY ListedSeq DEF Paired
<1>3. Found(m) <=> \E i \in Below(size) : dense[i] = m
  BY FoundListed
<1>4. ASSUME NEW i \in Below(size), dense[i] = m
      PROVE  \E n \in DOMAIN Listed : Listed[n] = m
  <2>1. i + 1 \in 1 .. size /\ (i + 1) - 1 = i
    BY <1>1 DEF Below
  <2>2. Listed[i + 1] = m
    BY <1>2, <1>4, <2>1
  <2> QED BY <1>1, <2>1, <2>2
<1>5. ASSUME NEW n \in DOMAIN Listed, Listed[n] = m
      PROVE  \E i \in Below(size) : dense[i] = m
  BY <1>1, <1>2, <1>5
<1> QED BY <1>3, <1>4, <1>5

LEMMA PairedOnce ==
    ASSUME NEW len \in Nat, Paired(len), size \in Nat
    PROVE  \A i, j \in Below(size) : dense[i] = dense[j] => i = j
  BY DEF Paired

LEMMA AddStores ==
    ASSUME NEW len \in Nat, NEW width \in Nat, len <= width, NEW valued, NEW values, NEW bound,
           NEW m \in Nat, NEW v, Arrays(len), ~spoilt => Paired(len),
           P(len, width, valued, values, bound)!Add(m, v)
    PROVE  /\ Arrays(len)'
           /\ ~spoilt' => Paired(len)'
           /\ call' = [op |-> "add", answer |-> ~Found(m)]
           /\ Found(m) => UNCHANGED <<dense, sparse, size, spoilt>>
           /\ ~Found(m) => /\ size' = size + 1 /\ spoilt' = (spoilt \/ m >= len)
                           /\ \A j \in Below(len) : j # size => dense'[j] = dense[j]
                           /\ ~spoilt' => /\ size \in Below(len) /\ dense'[size] = m
                                          /\ sparse'[m] = size
                                          /\ \A x \in Below(len) : x # m => sparse'[x] = sparse[x]
<1>1. P(len, width, valued, values, bound)!Has(m) = Found(m)
  BY DEF P!Has, P!TryGet, Found, At
<1>2. call' = [op |-> "add", answer |-> ~Found(m)]
  BY <1>1 DEF P!Add, P!Called
<1>3. CASE Found(m)
  <2>1. UNCHANGED <<dense, sparse, size, spoilt>>
    BY <1>1, <1>3 DEF P!Add
  <2>2. Arrays(len)' /\ (~spoilt' => Paired(len)')
    BY <2>1 DEF Arrays, Paired
  <2> QED BY <1>2, <1>3, <2>1, <2>2
<1>4. CASE ~Found(m)
  <2>1. /\ dense' = Put(dense, size, m, width)
        /\ sparse' = Put(sparse, m, size, width)
        /\ size' = size + 1 /\ spoilt' = (spoilt \/ m >= len)
    BY <1>1, <1>4 DEF P!Add, P!TrySet, Put
  <2>2. dense \in [Below(len) -> Nat] /\ sparse \in [Below(len) -> Nat] /\ size \in Nat /\ spoilt \in BOOLEAN
    BY DEF Arrays
  <2>3. /\ dense' \in [Below(len) -> Nat]
        /\ \A j \in Below(len) : j # size => dense'[j] = dense[j]
        /\ size \in Below(len) /\ m < width => dense'[size] = m
    BY <2>1, <2>2, Stored
  <2>4. /\ sparse' \in [Below(len) -> Nat]
        /\ \A j \in Below(len) : j # m => sparse'[j] = sparse[j]
        /\ m \in Below(len) /\ size < width => sparse'[m] = size
    BY <2>1, <2>2, Stored
  <2>5. Arrays(len)'
    BY <2>1, <2>2, <2>3, <2>4 DEF Arrays
  <2>6. ASSUME ~spoilt'
        PROVE  /\ size \in Below(len) /\ dense'[size] = m
               /\ sparse'[m] = size /\ m \in Below(len)
               /\ Paired(len)'
    <3>1. ~spoilt /\ m \in Below(len) /\ Paired(len)
      <4>1. ~spoilt /\ ~(m >= len)
        BY <2>1, <2>6, Zenon
      <4> QED BY <4>1 DEF Below
    <3>2. \A i \in Below(size) : dense[i] # m
      BY <1>4, <3>1, FoundListed
    <3>3. size < len
      <4>1. size <= len /\ \A i \in Below(size) : dense[i] \in Below(len)
        BY <3>1 DEF Paired
      <4>2. \A i, j \in Below(size) : dense[i] = dense[j] => i = j
        BY <2>2, <3>1, PairedOnce
      <4> QED BY <2>2, <3>1, <3>2, <4>1, <4>2, Room
    <3>4. size \in Below(len) /\ m < width /\ size < width
      BY <2>2, <3>1, <3>3 DEF Below
    <3>5. dense'[size] = m /\ sparse'[m] = size
      BY <2>3, <2>4, <3>1, <3>4
    <3>6. ASSUME NEW i \in Below(size')
          PROVE  dense'[i] \in Below(len) /\ sparse'[dense'[i]] = i
      <4>1. CASE i = size
        BY <3>1, <3>5, <4>1
      <4>2. CASE i # size
        <5>1. i \in Below(size) /\ i \in Below(len)
          BY <2>1, <2>2, <3>3, <4>2 DEF Below
        <5>2. dense'[i] = dense[i] /\ dense[i] \in Below(len) /\ sparse[dense[i]] = i /\ dense[i] # m
          BY <2>3, <3>1, <3>2, <4>2, <5>1 DEF Paired
        <5> QED BY <2>4, <5>2
      <4> QED BY <4>1, <4>2
    <3>7. size' <= len
      BY <2>1, <2>2, <3>3
    <3> QED BY <3>1, <3>4, <3>5, <3>6, <3>7 DEF Paired
  <2> QED BY <1>2, <1>4, <2>1, <2>3, <2>4, <2>5, <2>6
<1> QED BY <1>3, <1>4

LEMMA DeleteStores ==
    ASSUME NEW len \in Nat, NEW width \in Nat, len <= width, NEW valued, NEW values, NEW bound,
           NEW m \in Nat, Arrays(len), ~spoilt => Paired(len),
           P(len, width, valued, values, bound)!Delete(m)
    PROVE  /\ Arrays(len)'
           /\ ~spoilt' => Paired(len)'
           /\ call' = [op |-> "delete", answer |-> Found(m)]
           /\ spoilt' = spoilt
           /\ ~Found(m) => UNCHANGED <<dense, sparse, size>>
           /\ Found(m) =>
                  /\ size' = size - 1
                  /\ \A j \in Below(len) : j # sparse[m] => dense'[j] = dense[j]
                  /\ ~spoilt => LET moving == dense[size - 1]
                                IN  /\ moving \in Below(len) /\ dense'[sparse[m]] = moving
                                    /\ \A x \in Below(len) : x # moving => sparse'[x] = sparse[x]
<1>1. P(len, width, valued, values, bound)!Has(m) = Found(m)
  BY DEF P!Has, P!TryGet, Found, At
<1>2. call' = [op |-> "delete", answer |-> Found(m)] /\ spoilt' = spoilt
  BY <1>1 DEF P!Delete, P!Called
<1>3. CASE ~Found(m)
  <2>1. UNCHANGED <<dense, sparse, size>>
    BY <1>1, <1>3 DEF P!Delete
  <2>2. Arrays(len)' /\ (~spoilt' => Paired(len)')
    BY <1>2, <2>1 DEF Arrays, Paired
  <2> QED BY <1>2, <1>3, <2>1, <2>2
<1>4. CASE Found(m)
  <2> DEFINE moving == At(dense, size - 1)
             slot == sparse[m]
             item == IF moving = None THEN 0 ELSE moving
  <2>1. /\ dense' = Put(dense, slot, item, width)
        /\ sparse' = IF moving = None THEN sparse
                     ELSE Put(sparse, moving, slot, width)
        /\ size' = size - 1
    BY <1>1, <1>4 DEF P!Delete, P!TrySet, P!TryGet, At, Put
  <2>2. dense \in [Below(len) -> Nat] /\ sparse \in [Below(len) -> Nat] /\ size \in Nat /\ spoilt \in BOOLEAN
    BY DEF Arrays
  <2>3. /\ m \in Below(len) /\ slot \in Below(size) /\ slot \in Below(len) /\ dense[slot] = m
        /\ slot \in Nat /\ slot < len
    BY <1>4, FoundThere DEF Below
  <2>4. moving = None \/ moving \in Nat
    BY <2>2 DEF At
  <2>5. item \in Nat
    BY <2>4
  <2> HIDE DEF moving, slot, item
  <2>6. /\ dense' \in [Below(len) -> Nat]
        /\ \A j \in Below(len) : j # slot => dense'[j] = dense[j]
        /\ item < width => dense'[slot] = item
    BY <2>1, <2>2, <2>3, <2>5, Stored
  <2>7. /\ sparse' \in [Below(len) -> Nat]
        /\ \A x \in Below(len) : x # moving => sparse'[x] = sparse[x]
        /\ moving \in Below(len) => sparse'[moving] = slot
    <3>1. CASE moving = None
      <4>1. sparse' = sparse /\ moving \notin Below(len)
        BY <2>1, <3>1, NoneNoNumber DEF Below
      <4> QED BY <2>2, <4>1
    <3>2. CASE moving # None
      <4>1. sparse' = Put(sparse, moving, slot, width)
        BY <2>1, <3>2
      <4>2. slot < width
        BY <2>3
      <4> QED BY <2>2, <2>3, <4>1, <4>2, Stored
    <3> QED BY <3>1, <3>2
  <2>8. size' \in Nat /\ size - 1 \in Nat
    BY <2>1, <2>2, <2>3 DEF Below
  <2>9. Arrays(len)'
    BY <1>2, <2>2, <2>6, <2>7, <2>8 DEF Arrays
  <2>10. ASSUME ~spoilt
         PROVE  /\ moving = dense[size - 1] /\ moving \in Below(len) /\ dense'[slot] = moving
                /\ Paired(len)'
    <3>1. /\ Paired(len) /\ size <= len
          /\ \A i \in Below(size) : dense[i] \in Below(len) /\ sparse[dense[i]] = i
      BY <2>10 DEF Paired
    <3>2. size - 1 \in Below(size) /\ size - 1 \in Below(len)
      BY <2>2, <2>3, <3>1 DEF Below
    <3>3. moving = dense[size - 1] /\ moving \in Below(len) /\ sparse[moving] = size - 1 /\ moving # None
      <4>1. moving = dense[size - 1]
        BY <2>2, <3>2 DEF moving, At
      <4>2. moving \in Below(len)
        BY <3>1, <3>2, <4>1
      <4> QED BY <3>1, <3>2, <4>1, <4>2, NoneNoNumber DEF Below
    <3>4. item = moving /\ item < width
      BY <3>3 DEF item, Below
    <3>5. ASSUME NEW i \in Below(size')
          PROVE  dense'[i] \in Below(len) /\ sparse'[dense'[i]] = i
      <4>1. i \in Below(size) /\ i \in Below(len) /\ i # size - 1
        BY <2>1, <2>2, <3>1 DEF Below
      <4>2. CASE i = slot
        BY <2>6, <2>7, <3>3, <3>4, <4>2
      <4>3. CASE i # slot
        <5>1. dense'[i] = dense[i] /\ dense[i] \in Below(len) /\ sparse[dense[i]] = i
          BY <2>6, <3>1, <4>1, <4>3
        <5>2. dense[i] # moving
          BY <3>3, <4>1, <5>1
        <5> QED BY <2>7, <5>1, <5>2
      <4> QED BY <4>2, <4>3
    <3>6. size' <= len
      BY <2>1, <2>2, <3>1
    <3> QED BY <2>6, <3>3, <3>4, <3>5, <3>6 DEF Paired
  <2>11. \A j \in Below(len) : j # sparse[m] => dense'[j] = dense[j]
    BY <2>6 DEF slot
  <2>12. ~spoilt => /\ dense[size - 1] \in Below(len) /\ dense'[sparse[m]] = dense[size - 1]
                    /\ \A x \in Below(len) : x # dense[size - 1] => sparse'[x] = sparse[x]
    BY <2>7, <2>10 DEF slot
  <2> QED BY <1>2, <1>4, <2>1, <2>9, <2>10, <2>11, <2>12
<1> QED BY <1>3, <1>4

-----------------------------------------------------------------------------
(* What the calls of a set do to the list.                                 *)

LEMMA IsAppend ==
    ASSUME NEW S, NEW s \in Seq(S), NEW t \in Seq(S), NEW x \in S,
           Len(t) = Len(s) + 1, t[Len(s) + 1] = x, \A i \in 1 .. Len(s) : t[i] = s[i]
    PROVE  t = Append(s, x)
<1> DEFINE u == Append(s, x)
<1>1. /\ u \in Seq(S) /\ Len(u) = Len(s) + 1 /\ u[Len(s) + 1] = x
      /\ \A i \in 1 .. Len(s) : u[i] = s[i]
  OBVIOUS
<1> HIDE DEF u
<1>2. Len(s) \in Nat /\ 1 .. Len(s) + 1 = 1 .. Len(s) \cup {Len(s) + 1}
  OBVIOUS
<1>3. Len(t) = Len(u) /\ \A i \in 1 .. Len(t) : t[i] = u[i]
  BY <1>1, <1>2
<1> QED BY <1>1, <1>3, SeqEqual DEF u

LEMMA IsFront ==
    ASSUME NEW S, NEW s \in Seq(S), NEW t \in Seq(S), Len(s) # 0,
           Len(t) = Len(s) - 1, \A i \in 1 .. Len(t) : t[i] = s[i]
    PROVE  t = SubSeq(s, 1, Len(s) - 1)
<1> DEFINE u == SubSeq(s, 1, Len(s) - 1)
           m == 1
           n == Len(s) - 1
<1>1. m \in 1 .. Len(s) + 1 /\ n \in m - 1 .. Len(s) /\ (n - m) + 1 = Len(s) - 1 /\ m - 1 = 0
  OBVIOUS
<1>2. u = SubSeq(s, m, n)
  OBVIOUS
<1> HIDE DEF u, m, n
<1>3. /\ u \in Seq(S) /\ Len(u) = (n - m) + 1
      /\ \A i \in 1 .. Len(u) : u[i] = s[i + (m - 1)]
  BY <1>1, <1>2, SubSeqProperties
<1>4. Len(u) = Len(t) /\ \A i \in 1 .. Len(t) : u[i] = t[i]
  BY <1>1, <1>3
<1> QED BY <1>3, <1>4, SeqEqual DEF u

LEMMA IsTail ==
    ASSUME NEW S, NEW s \in Seq(S), NEW t \in Seq(S), Len(s) # 0,
           Len(t) = Len(s) - 1, \A i \in 1 .. Len(t) : t[i] = s[i + 1]
    PROVE  t = Tail(s)
<1> DEFINE u == Tail(s)
<1>1. u \in Seq(S) /\ Len(u) = Len(s) - 1 /\ \A i \in 1 .. Len(u) : u[i] = s[i + 1]
  OBVIOUS
<1> HIDE DEF u
<1> QED BY <1>1, SeqEqual DEF u

LEMMA ListedNext ==
    ASSUME NEW len \in Nat, Arrays(len)', size' <= len
    PROVE  /\ Listed' \in Seq(Nat) /\ Len(Listed') = size' /\ size' \in Nat
           /\ \A n \in 1 .. size' : Listed'[n] = dense'[n - 1] /\ n - 1 \in Below(size')
<1>1. (Arrays(len) /\ size <= len =>
           /\ Listed \in Seq(Nat) /\ Len(Listed) = size
           /\ \A n \in 1 .. size : Listed[n] = dense[n - 1] /\ n - 1 \in Below(size))'
  BY ListedSeq, PTL
<1> QED BY <1>1 DEF Arrays

LEMMA AddLists ==
    ASSUME NEW len \in Nat, NEW m \in Nat, Arrays(len), Arrays(len)', Paired(len), Paired(len)',
           size' = size + 1, \A j \in Below(len) : j # size => dense'[j] = dense[j],
           size \in Below(len), dense'[size] = m
    PROVE  Listed' = Append(Listed, m)
<1>1. /\ Listed \in Seq(Nat) /\ Len(Listed) = size /\ size \in Nat /\ size <= len
      /\ \A n \in 1 .. size : Listed[n] = dense[n - 1] /\ n - 1 \in Below(size)
  BY ListedSeq DEF Paired, Arrays
<1>2. /\ Listed' \in Seq(Nat) /\ Len(Listed') = size'
      /\ \A n \in 1 .. size' : Listed'[n] = dense'[n - 1]
  BY ListedNext DEF Paired
<1>3. ASSUME NEW n \in 1 .. size PROVE Listed'[n] = Listed[n]
  <2>1. n \in 1 .. size' /\ n - 1 \in Below(len) /\ n - 1 # size
    BY <1>1 DEF Below
  <2> QED BY <1>1, <1>2, <2>1
<1>4. Listed'[size + 1] = m
  <2>1. size + 1 \in 1 .. size' /\ (size + 1) - 1 = size
    BY <1>1
  <2> QED BY <1>2, <2>1
<1> QED BY <1>1, <1>2, <1>3, <1>4, IsAppend

LEMMA DeleteLists ==
    ASSUME NEW len \in Nat, NEW m \in Nat, Arrays(len), Arrays(len)', Paired(len), Paired(len)', Found(m),
           size' = size - 1, \A j \in Below(len) : j # sparse[m] => dense'[j] = dense[j],
           dense'[sparse[m]] = dense[size - 1]
    PROVE  \E n \in DOMAIN Listed :
               /\ Listed[n] = m
               /\ Listed' = SubSeq([Listed EXCEPT ![n] = Listed[Len(Listed)]], 1, Len(Listed) - 1)
<1>1. /\ Listed \in Seq(Nat) /\ Len(Listed) = size /\ size \in Nat /\ size <= len /\ DOMAIN Listed = 1 .. size
      /\ \A n \in 1 .. size : Listed[n] = dense[n - 1] /\ n - 1 \in Below(size)
  BY ListedSeq DEF Paired, Arrays, Listed
<1>2. /\ Listed' \in Seq(Nat) /\ Len(Listed') = size'
      /\ \A n \in 1 .. size' : Listed'[n] = dense'[n - 1]
  BY ListedNext DEF Paired
<1> DEFINE n == sparse[m] + 1
           s == [Listed EXCEPT ![n] = Listed[size]]
<1>3. n \in 1 .. size /\ n - 1 = sparse[m] /\ dense[sparse[m]] = m /\ size # 0 /\ size \in 1 .. size
  <2>1. sparse[m] \in Below(size) /\ dense[sparse[m]] = m
    BY FoundThere
  <2> QED BY <1>1, <2>1 DEF Below
<1>4. Listed[n] = m /\ Listed[size] = dense[size - 1]
  BY <1>1, <1>3
<1>5. s \in Seq(Nat) /\ Len(s) = size /\ \A i \in 1 .. size : s[i] = IF i = n THEN dense[size - 1] ELSE Listed[i]
  <2> HIDE DEF n
  <2>1. Listed[size] \in Nat
    BY <1>1, <1>3
  <2> QED BY <1>1, <1>3, <1>4, <2>1
<1>6. ASSUME NEW i \in 1 .. size - 1 PROVE Listed'[i] = s[i]
  <2>1. i \in 1 .. size /\ i \in 1 .. size' /\ i - 1 \in Below(len) /\ (i = n <=> i - 1 = sparse[m])
    BY <1>1, <1>3 DEF Below
  <2>2. Listed'[i] = dense'[i - 1] /\ Listed[i] = dense[i - 1]
    BY <1>1, <1>2, <2>1
  <2> QED BY <1>5, <2>1, <2>2
<1> HIDE DEF n, s
<1>7. Listed' = SubSeq(s, 1, size - 1)
  <2>1. Len(Listed') = Len(s) - 1 /\ Len(s) # 0 /\ Len(s) - 1 = size - 1
    BY <1>2, <1>3, <1>5
  <2>2. \A i \in 1 .. Len(Listed') : Listed'[i] = s[i]
    BY <1>5, <1>6, <2>1
  <2>3. Listed' = SubSeq(s, 1, Len(s) - 1)
    BY <1>2, <1>5, <2>1, <2>2, IsFront
  <2> QED BY <2>1, <2>3
<1> QED BY <1>1, <1>3, <1>4, <1>7 DEF s

-----------------------------------------------------------------------------
(* The calls of the promise, said of the list.                             *)

Holds(m) == \E n \in DOMAIN Content : Content[n] = m

LEMMA SetAdds ==
    ASSUME ~spoilt, ~spoilt', NEW m \in InRange, call' = [op |-> "add", answer |-> ~Holds(m)],
           Content' = IF Holds(m) THEN Content ELSE Append(Content, m)
    PROVE  Set!Next
<1>1. Set!Add(m)
  BY DEF Set!Add, Set!Answers, Set!Holds, Holds
<1> QED BY <1>1 DEF Set!Next

LEMMA SetDeletes ==
    ASSUME ~spoilt, ~spoilt', NEW m \in InRange, call' = [op |-> "delete", answer |-> Holds(m)],
           IF Holds(m)
           THEN \E n \in DOMAIN Content :
                    /\ Content[n] = m
                    /\ Content' = SubSeq([Content EXCEPT ![n] = Content[Len(Content)]], 1, Len(Content) - 1)
           ELSE UNCHANGED Content
    PROVE  Set!Next
<1>1. Set!Delete(m)
  BY DEF Set!Delete, Set!Answers, Set!Holds, Holds
<1> QED BY <1>1 DEF Set!Next

LEMMA SetDequeues ==
    ASSUME ~spoilt, ~spoilt',
           IF Content = <<>>
           THEN call' = [op |-> "dequeue", answer |-> None] /\ UNCHANGED Content
           ELSE call' = [op |-> "dequeue", answer |-> Head(Content)] /\ Content' = Tail(Content)
    PROVE  Set!Next
<1>1. Set!Dequeue
  BY DEF Set!Dequeue, Set!Answers
<1> QED BY <1>1 DEF Set!Next

LEMMA SetClears ==
    ASSUME spoilt' = FALSE, Content' = <<>>, call' = [op |-> "clear", answer |-> None]
    PROVE  Set!Next
<1>1. Set!Clear
  BY DEF Set!Clear, Set!Answers
<1> QED BY <1>1 DEF Set!Next

LEMMA SetSpoils ==
    ASSUME spoilt', call'.op # "clear"
    PROVE  Set!Next
  BY DEF Set!Next

LEMMA SetStutters ==
    ASSUME spoilt' = spoilt, call' = call, ~spoilt => Content' = Content
    PROVE  UNCHANGED setVars
  BY DEF setVars, Set!vars

-----------------------------------------------------------------------------
(* The steps of a sparse set.                                              *)

(* Where a value is, if its key has not moved.                             *)
Valued(len) ==
    \A m \in Below(len) \ moved : Found(m) => At(vals, sparse[m]) = promised[m]

Cursors(frozens) ==
    [frozen : frozens, len : Nat, ordinal : Nat, seen : Seq(Nat), fresh : BOOLEAN, ended : BOOLEAN]

(* A walk has seen the slots before it, while it is fresh; and what it has *)
(* not missed is in those that are left.                                   *)
SetWalk(len) ==
    /\ walk \in Cursors({None})
    /\ since \in [missing : SUBSET Nat, deleted : BOOLEAN, refilled : BOOLEAN]
    /\ walk.ordinal <= walk.len
    /\ walk.fresh /\ ~spoilt =>
           /\ walk.len = size /\ Len(walk.seen) = walk.ordinal
           /\ \A i \in 1 .. walk.ordinal : walk.seen[i] = dense[i - 1]
           /\ walk.ended => walk.ordinal = size
    /\ ~walk.ended /\ ~since.refilled =>
           /\ ~since.deleted => walk.len <= size
           /\ \A m \in since.missing : \E i \in Below(len) :
                  walk.ordinal <= i /\ i < walk.len /\ dense[i] = m
    /\ walk.ended /\ ~since.refilled => since.missing = {}

SetInv(len, valued) ==
    /\ Arrays(len)
    /\ ~spoilt => Paired(len)
    /\ promised = [m \in Below(len) |-> promised[m]]
    /\ valued /\ ~spoilt => Valued(len)
    /\ SetWalk(len)

Opened(frozen, len) ==
    [frozen |-> frozen, len |-> len, ordinal |-> 0, seen |-> <<>>, fresh |-> TRUE, ended |-> FALSE]

Shut(frozen) == [[Opened(frozen, 0) EXCEPT !.ended = TRUE] EXCEPT !.fresh = FALSE]

Quieted(w) == [[w EXCEPT !.fresh = FALSE] EXCEPT !.seen = <<>>]

LEMMA SetShut ==
    ASSUME NEW len, NEW width, NEW valued, NEW values, NEW bound
    PROVE  P(len, width, valued, values, bound)!Closed = Shut(None)
  BY DEF P!Closed, P!OpenCursor, Shut, Opened

LEMMA Quiet ==
    ASSUME NEW frozens, NEW w \in Cursors(frozens)
    PROVE  /\ Quieted(w) \in Cursors(frozens)
           /\ Quieted(w).ordinal = w.ordinal /\ Quieted(w).len = w.len /\ Quieted(w).frozen = w.frozen
           /\ Quieted(w).ended = w.ended /\ Quieted(w).fresh = FALSE
<1> DEFINE mid == [w EXCEPT !.fresh = FALSE]
           quiet == [mid EXCEPT !.seen = <<>>]
           nothing == <<>>
<1>1. /\ mid \in Cursors(frozens) /\ mid.fresh = FALSE
      /\ mid.ordinal = w.ordinal /\ mid.len = w.len /\ mid.frozen = w.frozen /\ mid.ended = w.ended
  BY DEF Cursors
<1>2. nothing \in Seq(Nat) /\ quiet = [mid EXCEPT !.seen = nothing]
  OBVIOUS
<1> HIDE DEF mid, nothing
<1>3. /\ quiet \in Cursors(frozens) /\ quiet.fresh = FALSE
      /\ quiet.ordinal = w.ordinal /\ quiet.len = w.len /\ quiet.frozen = w.frozen /\ quiet.ended = w.ended
  BY <1>1, <1>2 DEF Cursors
<1>4. Quieted(w) = quiet
  BY DEF Quieted, mid
<1> QED BY <1>3, <1>4

LEMMA OpenedFields ==
    ASSUME NEW frozens, NEW frozen \in frozens, NEW len \in Nat
    PROVE  /\ Opened(frozen, len) \in Cursors(frozens)
           /\ Opened(frozen, len).ordinal = 0 /\ Opened(frozen, len).len = len
           /\ Opened(frozen, len).frozen = frozen /\ Opened(frozen, len).ended = FALSE
           /\ Opened(frozen, len).seen = <<>>
<1>1. <<>> \in Seq(Nat)
  OBVIOUS
<1> QED BY <1>1 DEF Opened, Cursors

LEMMA ShutFields ==
    ASSUME NEW frozens, NEW frozen \in frozens
    PROVE  /\ Shut(frozen) \in Cursors(frozens)
           /\ Shut(frozen).ordinal = 0 /\ Shut(frozen).len = 0 /\ Shut(frozen).ended = TRUE
           /\ Shut(frozen).fresh = FALSE
<1> DEFINE none == Opened(frozen, 0)
           ended == [none EXCEPT !.ended = TRUE]
           zero == 0
<1>1. none \in Cursors(frozens) /\ none.ordinal = 0 /\ none.len = 0
  <2>1. zero \in Nat
    OBVIOUS
  <2> HIDE DEF zero
  <2>2. /\ Opened(frozen, zero) \in Cursors(frozens)
        /\ Opened(frozen, zero).ordinal = 0 /\ Opened(frozen, zero).len = zero
    BY <2>1, OpenedFields
  <2> QED BY <2>2 DEF zero
<1> HIDE DEF none
<1>2. ended \in Cursors(frozens) /\ ended.ordinal = 0 /\ ended.len = 0 /\ ended.ended = TRUE
  BY <1>1 DEF Cursors
<1>3. Shut(frozen) = [ended EXCEPT !.fresh = FALSE]
  BY DEF Shut, none
<1> HIDE DEF ended
<1> QED BY <1>2, <1>3 DEF Cursors

Histories == [missing : SUBSET Nat, deleted : BOOLEAN, refilled : BOOLEAN]

NoHistory == [missing |-> {}, deleted |-> FALSE, refilled |-> FALSE]

LEMMA SetCalled ==
    ASSUME NEW len \in Nat, SetWalk(len), NEW history \in Histories,
           walk' = IF walk.ended THEN Shut(None) ELSE Quieted(walk),
           since' = IF walk.ended THEN NoHistory ELSE history,
           ~walk.ended /\ ~history.refilled =>
               /\ ~history.deleted => walk.len <= size'
               /\ \A m \in history.missing : \E i \in Below(len) :
                      walk.ordinal <= i /\ i < walk.len /\ dense'[i] = m
    PROVE  SetWalk(len)'
<1>1. CASE walk.ended
  <2>1. walk' = Shut(None) /\ since' = NoHistory
    BY <1>1
  <2>2. walk' \in Cursors({None}) /\ walk'.ordinal = 0 /\ walk'.len = 0 /\ walk'.ended = TRUE /\ walk'.fresh = FALSE
    BY <2>1, ShutFields
  <2>3. since' \in Histories /\ since'.missing = {}
    BY <2>1 DEF Histories, NoHistory
  <2> QED BY <2>2, <2>3 DEF SetWalk, Histories
<1>2. CASE ~walk.ended
  <2>1. walk' = Quieted(walk) /\ since' = history
    BY <1>2
  <2>2. walk \in Cursors({None}) /\ walk.ordinal <= walk.len
    BY DEF SetWalk
  <2>3. /\ walk' \in Cursors({None}) /\ walk'.ordinal = walk.ordinal /\ walk'.len = walk.len
        /\ walk'.ended = walk.ended /\ walk'.fresh = FALSE
    <3>1. /\ Quieted(walk) \in Cursors({None}) /\ Quieted(walk).ordinal = walk.ordinal
          /\ Quieted(walk).len = walk.len /\ Quieted(walk).ended = walk.ended /\ Quieted(walk).fresh = FALSE
      BY <2>2, Quiet
    <3> QED BY <2>1, <3>1
  <2> QED BY <1>2, <2>1, <2>2, <2>3 DEF SetWalk, Histories
<1> QED BY <1>1, <1>2

LEMMA WitnessKept ==
    ASSUME NEW len \in Nat, Arrays(len), SetWalk(len)
    PROVE  /\ walk \in Cursors({None}) /\ since \in Histories
           /\ ~walk.ended /\ ~since.refilled =>
                  /\ ~since.deleted => walk.len <= size
                  /\ \A m \in since.missing : \E i \in Below(len) :
                         walk.ordinal <= i /\ i < walk.len /\ dense[i] = m
  BY DEF SetWalk, Histories

LEMMA SetAdd ==
    ASSUME NEW len \in Nat, NEW width \in Nat, len <= width, NEW valued \in BOOLEAN, NEW values, NEW bound,
           NEW m \in Nat, NEW v, SetInv(len, valued),
           P(len, width, valued, values, bound)!Add(m, v)
    PROVE  SetInv(len, valued)'
<1>1. Arrays(len) /\ (~spoilt => Paired(len)) /\ SetWalk(len)
  BY DEF SetInv
<1>2. /\ Arrays(len)'
      /\ ~spoilt' => Paired(len)'
      /\ Found(m) => UNCHANGED <<dense, sparse, size, spoilt>>
      /\ ~Found(m) => /\ size' = size + 1 /\ spoilt' = (spoilt \/ m >= len)
                      /\ \A j \in Below(len) : j # size => dense'[j] = dense[j]
                      /\ ~spoilt' => /\ size \in Below(len) /\ dense'[size] = m
                                     /\ sparse'[m] = size
                                     /\ \A x \in Below(len) : x # m => sparse'[x] = sparse[x]
  BY <1>1, AddStores
<1>3. P(len, width, valued, values, bound)!Has(m) = Found(m)
  BY DEF P!Has, P!TryGet, Found, At
<1>4. /\ promised' = IF m \in Below(len) THEN [promised EXCEPT ![m] = v] ELSE promised
      /\ moved' = moved \ {m}
      /\ walk' = IF walk.ended THEN Shut(None) ELSE Quieted(walk)
  <2>1. walk' = IF walk.ended THEN Shut(None) ELSE Quieted(walk)
    BY SetShut DEF P!Add, P!Called, P!Disturbed, Quieted
  <2>2. moved' = moved \ {m}
    BY DEF P!Add
  <2>3. promised' = IF m \in Below(len) THEN [promised EXCEPT ![m] = v] ELSE promised
    BY DEF P!Add, P!Slots, Below
  <2> QED BY <2>1, <2>2, <2>3
<1>5. promised' = [x \in Below(len) |-> promised'[x]]
  BY <1>4 DEF SetInv
<1>6. SetWalk(len)'
  <2>1. /\ walk \in Cursors({None}) /\ since \in Histories
        /\ ~walk.ended /\ ~since.refilled =>
               /\ ~since.deleted => walk.len <= size
               /\ \A x \in since.missing : \E i \in Below(len) :
                      walk.ordinal <= i /\ i < walk.len /\ dense[i] = x
    BY <1>1, WitnessKept
  <2>2. CASE Found(m)
    <3>1. since' = IF walk.ended THEN NoHistory ELSE since
      BY <1>3, <2>2 DEF P!Add, P!Met, P!Nothing, NoHistory
    <3> QED BY <1>1, <1>2, <1>4, <2>1, <2>2, <3>1, SetCalled
  <2>3. CASE ~Found(m)
    <3> DEFINE history == [since EXCEPT !.refilled = @ \/ since.deleted \/ spoilt']
    <3>1. since' = IF walk.ended THEN NoHistory ELSE history
      BY <1>3, <2>3 DEF P!Add, P!Met, P!Nothing, NoHistory
    <3>2. spoilt' \in BOOLEAN /\ size \in Nat /\ size' = size + 1
      BY <1>1, <1>2, <2>3 DEF Arrays
    <3>3. /\ history \in Histories /\ history.missing = since.missing /\ history.deleted = since.deleted
          /\ history.refilled = (since.refilled \/ since.deleted \/ spoilt')
      BY <2>1, <3>2 DEF Histories
    <3> HIDE DEF history
    <3>4. ASSUME ~walk.ended, ~history.refilled
          PROVE  /\ walk.len <= size'
                 /\ \A x \in history.missing : \E i \in Below(len) :
                        walk.ordinal <= i /\ i < walk.len /\ dense'[i] = x
      <4>1. ~since.refilled /\ ~since.deleted /\ walk.len <= size
        BY <2>1, <3>3, <3>4
      <4>2. walk.len \in Nat
        BY <2>1 DEF Cursors
      <4>3. ASSUME NEW x \in history.missing
            PROVE  \E i \in Below(len) : walk.ordinal <= i /\ i < walk.len /\ dense'[i] = x
        <5>1. PICK i \in Below(len) : walk.ordinal <= i /\ i < walk.len /\ dense[i] = x
          BY <2>1, <3>3, <3>4, <4>1
        <5>2. i # size
          BY <3>2, <4>1, <4>2, <5>1 DEF Below
        <5> QED BY <1>2, <2>3, <5>1, <5>2
      <4> QED BY <3>2, <4>1, <4>2, <4>3
    <3> QED BY <1>1, <1>4, <3>1, <3>3, <3>4, SetCalled
  <2> QED BY <2>2, <2>3
<1>7. ASSUME valued, ~spoilt'
      PROVE  Valued(len)'
  <2> DEFINE slot == IF Found(m) THEN At(sparse, m) ELSE size
  <2>1. ~spoilt /\ m \in Below(len) /\ Valued(len) /\ Paired(len)
    <3>1. CASE Found(m)
      BY <1>1, <1>2, <1>7, <3>1, FoundThere DEF SetInv
    <3>2. CASE ~Found(m)
      <4>1. ~spoilt /\ ~(m >= len)
        BY <1>2, <1>7, <3>2, Zenon
      <4> QED BY <1>1, <1>7, <4>1 DEF SetInv, Below
    <3> QED BY <3>1, <3>2
  <2>2. /\ vals' = [s \in DOMAIN vals \cup {slot} |-> IF s = slot THEN v ELSE At(vals, s)]
    BY <1>3, <1>7 DEF P!Add, P!TryGet, At
  <2>3. At(vals', slot) = v /\ \A s : s # slot => At(vals', s) = At(vals, s)
    BY <2>2 DEF At
  <2>4. sparse'[m] = slot /\ \A x \in Below(len) : x # m => sparse'[x] = sparse[x]
    BY <1>1, <1>2, <1>7, <2>1, FoundThere DEF At, Arrays
  <2>5. ASSUME NEW x \in Below(len) \ moved', Found(x)'
        PROVE  At(vals, sparse[x])' = promised'[x]
    <3>1. CASE x = m
      BY <1>4, <2>1, <2>3, <2>4, <3>1 DEF SetInv
    <3>2. CASE x # m
      <4>1. x \notin moved /\ promised'[x] = promised[x] /\ sparse'[x] = sparse[x] /\ x \in Int
        BY <1>4, <2>4, <3>2 DEF SetInv, Below
      <4>2. sparse'[x] \in Below(size') /\ dense'[sparse'[x]] = x /\ sparse'[x] \in Below(len)
        BY <1>2, <2>5, <4>1, FoundNext
      <4>3. Found(x) /\ sparse[x] # slot
        <5>1. CASE Found(m)
          <6>1. Found(x)
            BY <1>1, <1>2, <4>1, <4>2, <5>1, FoundThere
          <6>2. sparse[x] # sparse[m] /\ slot = sparse[m]
            BY <1>1, <3>2, <4>1, <5>1, <6>1, FoundThere DEF At, Arrays
          <6> QED BY <6>1, <6>2
        <5>2. CASE ~Found(m)
          <6>1. sparse'[x] # size
            BY <1>2, <1>7, <3>2, <4>2, <5>2
          <6>2. sparse[x] \in Below(size) /\ dense[sparse[x]] = x
            BY <1>1, <1>2, <4>1, <4>2, <5>2, <6>1 DEF Below, Arrays
          <6> QED BY <1>1, <4>1, <4>2, <5>2, <6>1, <6>2, FoundThere
        <5> QED BY <5>1, <5>2
      <4>4. At(vals, sparse[x]) = promised[x]
        BY <2>1, <4>1, <4>3 DEF Valued
      <4> QED BY <2>3, <4>1, <4>3, <4>4
    <3> QED BY <3>1, <3>2
  <2> QED BY <2>5 DEF Valued
<1> QED BY <1>2, <1>5, <1>6, <1>7 DEF SetInv

LEMMA SetDelete ==
    ASSUME NEW len \in Nat, NEW width \in Nat, len <= width, NEW valued \in BOOLEAN, NEW values, NEW bound,
           NEW m \in Nat, SetInv(len, valued),
           P(len, width, valued, values, bound)!Delete(m)
    PROVE  SetInv(len, valued)'
<1>1. Arrays(len) /\ (~spoilt => Paired(len)) /\ SetWalk(len)
  BY DEF SetInv
<1>2. /\ Arrays(len)'
      /\ ~spoilt' => Paired(len)'
      /\ spoilt' = spoilt
      /\ ~Found(m) => UNCHANGED <<dense, sparse, size>>
      /\ Found(m) =>
             /\ size' = size - 1
             /\ \A j \in Below(len) : j # sparse[m] => dense'[j] = dense[j]
             /\ ~spoilt => /\ dense[size - 1] \in Below(len) /\ dense'[sparse[m]] = dense[size - 1]
                           /\ \A x \in Below(len) : x # dense[size - 1] => sparse'[x] = sparse[x]
  BY <1>1, DeleteStores
<1>3. P(len, width, valued, values, bound)!Has(m) = Found(m)
  BY DEF P!Has, P!TryGet, Found, At
<1>4. walk' = (IF walk.ended THEN Shut(None) ELSE Quieted(walk)) /\ vals' = vals
  BY SetShut DEF P!Delete, P!Called, P!Disturbed, Quieted
<1>5. /\ ~Found(m) => promised' = promised /\ moved' = moved /\ since' = IF walk.ended THEN NoHistory ELSE since
      /\ Found(m) => promised' = [promised EXCEPT ![m] = None]
  BY <1>3 DEF P!Delete, P!Met, P!Nothing, NoHistory
<1>6. promised' = [x \in Below(len) |-> promised'[x]]
  <2>1. promised = [x \in Below(len) |-> promised[x]]
    BY DEF SetInv
  <2>2. CASE Found(m)
    <3>1. DOMAIN promised = Below(len)
      BY <2>1
    <3>2. promised' = [x \in Below(len) |-> IF x = m THEN None ELSE promised[x]]
      BY <1>5, <2>1, <2>2, <3>1
    <3> QED BY <3>2
  <2> QED BY <1>5, <2>1, <2>2
<1>7. SetWalk(len)'
  <2>1. /\ walk \in Cursors({None}) /\ since \in Histories
        /\ ~walk.ended /\ ~since.refilled =>
               /\ ~since.deleted => walk.len <= size
               /\ \A x \in since.missing : \E i \in Below(len) :
                      walk.ordinal <= i /\ i < walk.len /\ dense[i] = x
    BY <1>1, WitnessKept
  <2>2. CASE ~Found(m)
    BY <1>1, <1>2, <1>4, <1>5, <2>1, <2>2, SetCalled
  <2>3. CASE Found(m)
    <3> DEFINE history == [since EXCEPT !.missing = @ \ {m}, !.deleted = TRUE]
    <3>1. since' = IF walk.ended THEN NoHistory ELSE history
      BY <1>3, <2>3 DEF P!Delete, P!Met, P!Nothing, NoHistory
    <3>2. /\ history \in Histories /\ history.missing = since.missing \ {m} /\ history.deleted = TRUE
          /\ history.refilled = since.refilled
      BY <2>1 DEF Histories
    <3> HIDE DEF history
    <3>3. ASSUME ~walk.ended, ~history.refilled, NEW x \in history.missing
          PROVE  \E i \in Below(len) : walk.ordinal <= i /\ i < walk.len /\ dense'[i] = x
      <4>1. PICK i \in Below(len) : walk.ordinal <= i /\ i < walk.len /\ dense[i] = x
        BY <2>1, <3>2, <3>3
      <4>2. i # sparse[m]
        BY <1>1, <2>3, <3>2, <3>3, <4>1, FoundThere
      <4> QED BY <1>2, <2>3, <4>1, <4>2
    <3> QED BY <1>1, <1>4, <3>1, <3>2, <3>3, SetCalled
  <2> QED BY <2>2, <2>3
<1>8. ASSUME valued, ~spoilt'
      PROVE  Valued(len)'
  <2>1. ~spoilt /\ Valued(len) /\ Paired(len) /\ Paired(len)'
    BY <1>1, <1>2, <1>8 DEF SetInv
  <2>2. CASE ~Found(m)
    BY <1>2, <1>4, <1>5, <2>1, <2>2 DEF Valued, Found
  <2>3. CASE Found(m)
    <3>1. moved' = (moved \ {m}) \cup ({At(dense, size - 1)} \ {m})
      BY <1>3, <1>8, <2>3 DEF P!Delete, P!TryGet, At
    <3>2. m \in Below(len) /\ sparse[m] \in Below(size) /\ dense[sparse[m]] = m /\ sparse[m] \in Below(len)
      BY <1>1, <2>3, FoundThere
    <3>3. At(dense, size - 1) = dense[size - 1] /\ size - 1 \in Below(size) /\ size - 1 \in Below(len)
      BY <1>1, <2>1, <3>2 DEF At, Arrays, Paired, Below
    <3>4. ASSUME NEW x \in Below(len) \ moved', Found(x)'
          PROVE  At(vals, sparse[x])' = promised'[x]
      <4>1. x \in Int /\ sparse'[x] \in Below(size') /\ dense'[sparse'[x]] = x /\ sparse'[x] \in Below(len)
        BY <1>2, <3>4, FoundNext DEF Below
      <4>2. x # m
        <5>1. SUFFICES ASSUME x = m PROVE FALSE
          OBVIOUS
        <5>2. dense[size - 1] = m
          <6>1. SUFFICES ASSUME dense[size - 1] # m PROVE FALSE
            OBVIOUS
          <6>2. sparse'[m] = sparse[m]
            BY <1>2, <2>1, <2>3, <3>2, <6>1
          <6> QED BY <1>2, <2>1, <2>3, <4>1, <5>1, <6>1, <6>2
        <5>3. sparse[m] = size - 1
          BY <2>1, <3>3, <5>2 DEF Paired
        <5>4. sparse'[m] # sparse[m]
          BY <1>1, <1>2, <2>3, <4>1, <5>1, <5>3 DEF Below, Arrays
        <5>5. dense'[sparse'[m]] = dense[sparse'[m]]
          BY <1>2, <2>3, <4>1, <5>1, <5>4
        <5>6. sparse'[m] \in Below(size)
          BY <1>1, <1>2, <2>3, <4>1, <5>1 DEF Below, Arrays
        <5> QED BY <2>1, <4>1, <5>1, <5>4, <5>5, <5>6 DEF Paired
      <4>3. x \notin moved /\ x # dense[size - 1]
        BY <3>1, <3>3, <3>4, <4>2
      <4>4. sparse'[x] = sparse[x] /\ promised'[x] = promised[x]
        BY <1>2, <1>5, <2>1, <2>3, <4>3, <4>2 DEF SetInv
      <4>5. sparse[x] # sparse[m]
        BY <1>2, <2>1, <2>3, <4>1, <4>3, <4>4
      <4>6. dense[sparse[x]] = x /\ sparse[x] \in Below(size)
        BY <1>1, <1>2, <2>3, <4>1, <4>4, <4>5 DEF Below, Arrays
      <4>7. Found(x)
        BY <1>1, <4>1, <4>4, <4>6, FoundThere
      <4> QED BY <1>4, <2>1, <4>3, <4>4, <4>7 DEF Valued
    <3> QED BY <3>4 DEF Valued
  <2> QED BY <2>2, <2>3
<1> QED BY <1>2, <1>6, <1>7, <1>8 DEF SetInv

LEMMA SetClear ==
    ASSUME NEW len \in Nat, NEW width \in Nat, NEW valued \in BOOLEAN, NEW values, NEW bound,
           SetInv(len, valued), P(len, width, valued, values, bound)!Clear
    PROVE  SetInv(len, valued)'
<1>1. Arrays(len) /\ SetWalk(len)
  BY DEF SetInv
<1>2. size' = 0 /\ spoilt' = FALSE /\ UNCHANGED <<dense, sparse>>
  BY DEF P!Clear
<1>3. Arrays(len)' /\ Paired(len)'
  <2>1. Arrays(len)'
    BY <1>1, <1>2 DEF Arrays
  <2>2. Paired(len)'
    BY <1>2 DEF Paired, Below
  <2> QED BY <2>1, <2>2
<1>4. promised' = [m \in Below(len) |-> promised'[m]]
  <2>1. promised' = [m \in Below(len) |-> None]
    BY DEF P!Clear, P!Slots, Below
  <2> QED BY <2>1
<1>5. \A m \in Below(len) : ~Found(m)'
  <2> SUFFICES ASSUME NEW m \in Below(len) PROVE ~Found(m)'
    OBVIOUS
  <2>1. m \in Int
    BY DEF Below
  <2> QED BY <1>2, <1>3, <2>1, FoundNext DEF Below
<1>6. SetWalk(len)'
  <2> DEFINE history == [since EXCEPT !.missing = {}, !.deleted = TRUE]
  <2>1. walk' = (IF walk.ended THEN Shut(None) ELSE Quieted(walk))
    BY SetShut DEF P!Clear, P!Called, P!Disturbed, Quieted
  <2>2. since' = IF walk.ended THEN NoHistory ELSE history
    BY DEF P!Clear, P!Met, P!Nothing, NoHistory
  <2>3. since \in Histories
    BY <1>1 DEF SetWalk, Histories
  <2>4. history \in Histories /\ history.missing = {} /\ history.deleted = TRUE
    BY <2>3 DEF Histories
  <2> HIDE DEF history
  <2> QED BY <1>1, <2>1, <2>2, <2>4, SetCalled
<1> QED BY <1>2, <1>3, <1>4, <1>5, <1>6 DEF SetInv, Valued

LEMMA SetOpenWalk ==
    ASSUME NEW len \in Nat, NEW width \in Nat, NEW valued \in BOOLEAN, NEW values, NEW bound,
           SetInv(len, valued), P(len, width, valued, values, bound)!OpenWalk
    PROVE  SetInv(len, valued)'
<1>1. Arrays(len) /\ (~spoilt => Paired(len)) /\ size \in Nat /\ spoilt \in BOOLEAN
  BY DEF SetInv, Arrays
<1>2. /\ walk' = Opened(None, size)
      /\ UNCHANGED <<dense, sparse, vals, size, spoilt, moved, promised>>
  BY DEF P!OpenWalk, P!OpenCursor, Opened
<1>3. since' = [missing |-> {m \in Below(len) : Found(m)}, deleted |-> FALSE, refilled |-> spoilt]
  BY DEF P!OpenWalk, P!MembersNow, P!Slots, P!Has, P!TryGet, Found, At, Below
<1>4. SetInv(len, valued) =>
          /\ Arrays(len)' /\ (~spoilt' => Paired(len)')
          /\ promised' = [m \in Below(len) |-> promised'[m]]
          /\ (valued /\ ~spoilt' => Valued(len)')
  BY <1>2 DEF SetInv, Arrays, Paired, Valued, Found, At
<1>5. /\ walk' \in Cursors({None}) /\ walk'.ordinal = 0 /\ walk'.len = size
      /\ walk'.ended = FALSE /\ walk'.seen = <<>>
  <2> DEFINE frozens == {None}
             opened == Opened(None, size)
  <2>1. None \in frozens
    OBVIOUS
  <2> HIDE DEF frozens
  <2>2. /\ opened \in Cursors(frozens) /\ opened.ordinal = 0 /\ opened.len = size
        /\ opened.ended = FALSE /\ opened.seen = <<>>
    <3>1. opened \in Cursors(frozens)
      BY <1>1, <2>1, OpenedFields
    <3> QED BY <3>1 DEF Opened
  <2> QED BY <1>2, <2>2 DEF frozens
<1>6. /\ since' \in Histories /\ since'.missing = {m \in Below(len) : Found(m)}
      /\ since'.deleted = FALSE /\ since'.refilled = spoilt
  BY <1>1, <1>3 DEF Histories, Below
<1>7. \A m \in since'.missing : \E i \in Below(len) :
          walk'.ordinal <= i /\ i < walk'.len /\ dense'[i] = m
  <2> SUFFICES ASSUME NEW m \in Below(len), Found(m)
               PROVE  \E i \in Below(len) : 0 <= i /\ i < size /\ dense[i] = m
    BY <1>2, <1>5, <1>6
  <2>1. m \in Int
    BY DEF Below
  <2>2. sparse[m] \in Below(size) /\ sparse[m] \in Below(len) /\ dense[sparse[m]] = m
    BY <1>1, <2>1, FoundThere
  <2> QED BY <1>1, <2>2 DEF Below
<1>8. SetWalk(len)'
  <2>1. Len(walk'.seen) = 0
    BY <1>5
  <2> QED BY <1>1, <1>2, <1>5, <1>6, <1>7, <2>1 DEF SetWalk, Histories
<1> QED BY <1>4, <1>8 DEF SetInv

(* What a step of a cursor reports.                                        *)
Stepped(w, item) ==
    [(IF w.ordinal >= w.len THEN [w EXCEPT !.ended = TRUE]
      ELSE [w EXCEPT !.ordinal = @ + 1, !.seen = IF item = None THEN @ ELSE Append(@, item)])
        EXCEPT !.seen = IF w.fresh THEN @ ELSE <<>>]

LEMMA StepFields ==
    ASSUME NEW frozens, NEW w \in Cursors(frozens), NEW item \in Nat \cup {None}
    PROVE  /\ Stepped(w, item) \in Cursors(frozens)
           /\ Stepped(w, item).len = w.len /\ Stepped(w, item).frozen = w.frozen
           /\ Stepped(w, item).fresh = w.fresh
           /\ w.ordinal >= w.len => /\ Stepped(w, item).ended = TRUE
                                    /\ Stepped(w, item).ordinal = w.ordinal
                                    /\ w.fresh => Stepped(w, item).seen = w.seen
           /\ ~(w.ordinal >= w.len) => /\ Stepped(w, item).ended = w.ended
                                       /\ Stepped(w, item).ordinal = w.ordinal + 1
                                       /\ w.fresh /\ item # None =>
                                              Stepped(w, item).seen = Append(w.seen, item)
<1> DEFINE more == IF item = None THEN w.seen ELSE Append(w.seen, item)
           nothing == <<>>
<1>1. w.seen \in Seq(Nat) /\ nothing \in Seq(Nat)
  BY DEF Cursors
<1>2. more \in Seq(Nat)
  <2>1. CASE item = None  BY <2>1, <1>1
  <2>2. CASE item # None
    <3>1. item \in Nat  BY <2>2
    <3>2. Append(w.seen, item) \in Seq(Nat)  BY <1>1, <3>1
    <3> QED BY <2>2, <3>2
  <2> QED BY <2>1, <2>2
<1>3. CASE w.ordinal >= w.len
  <2> DEFINE mid == [w EXCEPT !.ended = TRUE]
             rest == IF w.fresh THEN mid.seen ELSE nothing
             next == [mid EXCEPT !.seen = rest]
  <2>1. /\ mid \in Cursors(frozens) /\ mid.len = w.len /\ mid.frozen = w.frozen /\ mid.fresh = w.fresh
        /\ mid.ended = TRUE /\ mid.ordinal = w.ordinal /\ mid.seen = w.seen
    BY DEF Cursors
  <2>2. Stepped(w, item) = next
    BY <1>3 DEF Stepped
  <2> HIDE DEF mid, nothing
  <2>3. rest \in Seq(Nat) /\ (w.fresh => rest = w.seen)
    BY <1>1, <2>1
  <2> HIDE DEF rest
  <2>4. /\ next \in Cursors(frozens) /\ next.len = w.len /\ next.frozen = w.frozen /\ next.fresh = w.fresh
        /\ next.ended = TRUE /\ next.ordinal = w.ordinal /\ next.seen = rest
    BY <2>1, <2>3 DEF Cursors
  <2> QED BY <1>3, <2>2, <2>3, <2>4
<1>4. CASE ~(w.ordinal >= w.len)
  <2> DEFINE first == [w EXCEPT !.ordinal = @ + 1]
             mid == [first EXCEPT !.seen = more]
             rest == IF w.fresh THEN mid.seen ELSE nothing
             next == [mid EXCEPT !.seen = rest]
  <2>1. /\ first \in Cursors(frozens) /\ first.len = w.len /\ first.frozen = w.frozen /\ first.fresh = w.fresh
        /\ first.ended = w.ended /\ first.ordinal = w.ordinal + 1
    <3>1. w.ordinal + 1 \in Nat
      BY DEF Cursors
    <3> QED BY <3>1 DEF Cursors
  <2>2. Stepped(w, item) = next
    BY <1>4 DEF Stepped
  <2> HIDE DEF first, nothing, more
  <2>3. /\ mid \in Cursors(frozens) /\ mid.len = w.len /\ mid.frozen = w.frozen /\ mid.fresh = w.fresh
        /\ mid.ended = w.ended /\ mid.ordinal = w.ordinal + 1 /\ mid.seen = more
    BY <1>2, <2>1 DEF Cursors
  <2> HIDE DEF mid
  <2>4. rest \in Seq(Nat) /\ (w.fresh => rest = more)
    BY <1>1, <1>2, <2>3
  <2> HIDE DEF rest
  <2>5. /\ next \in Cursors(frozens) /\ next.len = w.len /\ next.frozen = w.frozen /\ next.fresh = w.fresh
        /\ next.ended = w.ended /\ next.ordinal = w.ordinal + 1 /\ next.seen = rest
    BY <2>3, <2>4 DEF Cursors
  <2>6. item # None => more = Append(w.seen, item)
    BY DEF more
  <2> HIDE DEF next
  <2> QED BY <1>4, <2>2, <2>4, <2>5, <2>6
<1> QED BY <1>3, <1>4

LEMMA SetStepWalk ==
    ASSUME NEW len \in Nat, NEW width \in Nat, NEW valued \in BOOLEAN, NEW values, NEW bound,
           SetInv(len, valued), P(len, width, valued, values, bound)!StepWalk
    PROVE  SetInv(len, valued)'
<1> DEFINE item == At(dense, walk.ordinal)
<1>1. Arrays(len) /\ (~spoilt => Paired(len)) /\ SetWalk(len)
  BY DEF SetInv
<1>2. ~walk.ended /\ UNCHANGED <<dense, sparse, vals, size, spoilt, moved, promised>>
  BY DEF P!StepWalk
<1>3. /\ walk' = Stepped(walk, item)
      /\ since' = IF walk'.ended THEN since ELSE [since EXCEPT !.missing = @ \ {item}]
  BY DEF P!StepWalk, P!Report, P!StepCursor, P!TryGet, At, Stepped
<1>4. SetInv(len, valued) =>
          /\ Arrays(len)' /\ (~spoilt' => Paired(len)')
          /\ promised' = [m \in Below(len) |-> promised'[m]]
          /\ (valued /\ ~spoilt' => Valued(len)')
  BY <1>2 DEF SetInv, Arrays, Paired, Valued, Found, At
<1>5. /\ walk \in Cursors({None}) /\ since \in Histories
      /\ walk.ordinal \in Nat /\ walk.len \in Nat /\ walk.ordinal <= walk.len /\ walk.seen \in Seq(Nat)
      /\ size \in Nat
  BY <1>1 DEF SetWalk, Cursors, Histories, Arrays
<1>6. item \in Nat \cup {None} /\ (walk.ordinal \in Below(len) => item = dense[walk.ordinal] /\ item \in Nat)
  BY <1>1 DEF At, Arrays
<1> HIDE DEF item
<1>7. /\ walk' \in Cursors({None}) /\ walk'.len = walk.len /\ walk'.fresh = walk.fresh
      /\ walk.ordinal >= walk.len => /\ walk'.ended = TRUE /\ walk'.ordinal = walk.ordinal
                                     /\ walk.fresh => walk'.seen = walk.seen
      /\ ~(walk.ordinal >= walk.len) => /\ walk'.ended = walk.ended
                                        /\ walk'.ordinal = walk.ordinal + 1
                                        /\ walk.fresh /\ item # None =>
                                               walk'.seen = Append(walk.seen, item)
  BY <1>3, <1>5, <1>6, StepFields
<1>8. CASE walk.ordinal >= walk.len
  <2>1. walk.ordinal = walk.len /\ since' = since /\ walk'.ended = TRUE /\ walk'.ordinal = walk.ordinal
    BY <1>3, <1>5, <1>7, <1>8
  <2>2. ~since.refilled => since.missing = {}
    <3> SUFFICES ASSUME ~since.refilled, NEW m \in since.missing PROVE FALSE
      OBVIOUS
    <3>1. PICK i \in Below(len) : walk.ordinal <= i /\ i < walk.len
      BY <1>1, <1>2 DEF SetWalk
    <3> QED BY <1>5, <2>1, <3>1 DEF Below
  <2>3. walk.fresh /\ ~spoilt =>
            /\ walk.len = size /\ Len(walk.seen) = walk.ordinal
            /\ \A i \in 1 .. walk.ordinal : walk.seen[i] = dense[i - 1]
    BY <1>1 DEF SetWalk
  <2>4. SetWalk(len)'
    BY <1>2, <1>5, <1>7, <1>8, <2>1, <2>2, <2>3 DEF SetWalk, Histories
  <2> QED BY <1>4, <2>4 DEF SetInv
<1>9. CASE ~(walk.ordinal >= walk.len)
  <2>1. walk'.ordinal = walk.ordinal + 1 /\ ~walk'.ended /\ walk.ordinal < walk.len
    BY <1>2, <1>5, <1>7, <1>9
  <2>2. since' = [since EXCEPT !.missing = @ \ {item}]
    BY <1>3, <2>1
  <2>3. /\ since' \in Histories /\ since'.missing = since.missing \ {item}
        /\ since'.refilled = since.refilled /\ since'.deleted = since.deleted
    BY <1>5, <2>2 DEF Histories
  <2>4. ~since'.refilled =>
            /\ ~since'.deleted => walk'.len <= size'
            /\ \A m \in since'.missing : \E i \in Below(len) :
                   walk'.ordinal <= i /\ i < walk'.len /\ dense'[i] = m
    <3> SUFFICES ASSUME ~since.refilled
                 PROVE  /\ ~since.deleted => walk.len <= size
                        /\ \A m \in since.missing \ {item} : \E i \in Below(len) :
                               walk.ordinal + 1 <= i /\ i < walk.len /\ dense[i] = m
      BY <1>2, <1>7, <2>1, <2>3
    <3>1. ~since.deleted => walk.len <= size
      BY <1>1, <1>2 DEF SetWalk
    <3>2. ASSUME NEW m \in since.missing \ {item}
          PROVE  \E i \in Below(len) : walk.ordinal + 1 <= i /\ i < walk.len /\ dense[i] = m
      <4>1. PICK i \in Below(len) : walk.ordinal <= i /\ i < walk.len /\ dense[i] = m
        BY <1>1, <1>2 DEF SetWalk
      <4>2. i # walk.ordinal
        BY <1>6, <4>1
      <4>3. walk.ordinal + 1 <= i
        BY <1>5, <4>1, <4>2 DEF Below
      <4> QED BY <4>1, <4>3
    <3> QED BY <3>1, <3>2
  <2>5. walk'.fresh /\ ~spoilt' =>
            /\ walk'.len = size' /\ Len(walk'.seen) = walk'.ordinal
            /\ \A i \in 1 .. walk'.ordinal : walk'.seen[i] = dense'[i - 1]
    <3> SUFFICES ASSUME walk.fresh, ~spoilt
                 PROVE  /\ walk.len = size /\ Len(walk'.seen) = walk.ordinal + 1
                        /\ \A i \in 1 .. walk.ordinal + 1 : walk'.seen[i] = dense[i - 1]
      BY <1>2, <1>7, <2>1
    <3>1. /\ walk.len = size /\ Len(walk.seen) = walk.ordinal
          /\ \A i \in 1 .. walk.ordinal : walk.seen[i] = dense[i - 1]
      BY <1>1 DEF SetWalk
    <3>2. walk.ordinal \in Below(len)
      <4>1. size <= len
        BY <1>1 DEF Paired
      <4> QED BY <1>5, <2>1, <3>1, <4>1 DEF Below
    <3>3. item \in Nat /\ item # None /\ item = dense[walk.ordinal]
      BY <1>6, <3>2, NoneNoNumber
    <3>4. walk'.seen = Append(walk.seen, item)
      BY <1>7, <1>9, <3>3
    <3>5. /\ Len(walk'.seen) = Len(walk.seen) + 1 /\ walk'.seen[Len(walk.seen) + 1] = item
          /\ \A i \in 1 .. Len(walk.seen) : walk'.seen[i] = walk.seen[i]
      BY <1>5, <3>3, <3>4
    <3>6. ASSUME NEW i \in 1 .. walk.ordinal + 1
          PROVE  walk'.seen[i] = dense[i - 1]
      <4>1. CASE i = walk.ordinal + 1
        <5>1. i - 1 = walk.ordinal
          BY <1>5, <4>1
        <5> QED BY <3>1, <3>3, <3>5, <4>1, <5>1
      <4>2. CASE i # walk.ordinal + 1
        <5>1. i \in 1 .. walk.ordinal
          BY <1>5, <4>2
        <5> QED BY <3>1, <3>5, <5>1
      <4> QED BY <4>1, <4>2
    <3> QED BY <3>1, <3>5, <3>6
  <2>6. walk'.ordinal <= walk'.len
    BY <1>5, <1>7, <2>1
  <2>7. SetWalk(len)'
    BY <1>7, <2>1, <2>3, <2>4, <2>5, <2>6 DEF SetWalk, Histories
  <2> QED BY <1>4, <2>7 DEF SetInv
<1> QED BY <1>8, <1>9

LEMMA SetInit ==
    ASSUME NEW len \in Nat, NEW width \in Nat, NEW valued \in BOOLEAN, NEW values, NEW bound,
           P(len, width, valued, values, bound)!Init
    PROVE  SetInv(len, valued) /\ Listed = <<>> /\ call = [op |-> "new", answer |-> None] /\ spoilt = FALSE
<1>1. /\ dense = [s \in Below(len) |-> 0] /\ sparse = [m \in Below(len) |-> 0]
      /\ size = 0 /\ spoilt = FALSE /\ call = [op |-> "new", answer |-> None]
      /\ walk = Shut(None) /\ promised = [m \in Below(len) |-> None] /\ since = NoHistory
  BY SetShut DEF P!Init, P!Slots, P!Nothing, Below, NoHistory
<1>2. Arrays(len)
  BY <1>1 DEF Arrays
<1>3. Paired(len)
  BY <1>1 DEF Paired, Below
<1>4. Valued(len)
  <2>1. \A m \in Below(len) : ~Found(m)
    BY <1>1, <1>2, FoundThere DEF Below
  <2> QED BY <2>1 DEF Valued
<1>5. SetWalk(len)
  <2>1. walk \in Cursors({None}) /\ walk.ordinal = 0 /\ walk.len = 0 /\ walk.ended = TRUE /\ walk.fresh = FALSE
    BY <1>1, ShutFields
  <2>2. since \in Histories /\ since.missing = {}
    BY <1>1 DEF Histories, NoHistory
  <2> QED BY <2>1, <2>2 DEF SetWalk, Histories
<1>6. Listed = <<>>
  BY <1>1 DEF Listed
<1>7. promised = [m \in Below(len) |-> promised[m]]
  BY <1>1
<1> QED BY <1>1, <1>2, <1>3, <1>4, <1>5, <1>6, <1>7 DEF SetInv

LEMMA SetStep ==
    ASSUME NEW len \in Nat, NEW width \in Nat, len <= width, NEW valued \in BOOLEAN, NEW values, NEW bound,
           SetInv(len, valued), P(len, width, valued, values, bound)!Next
    PROVE  SetInv(len, valued)'
<1>1. InRange \subseteq Nat
  BY IntegerSetsAssumption DEF InRange
<1> QED BY <1>1, SetAdd, SetDelete, SetClear, SetOpenWalk, SetStepWalk DEF P!Next

LEMMA SetPromise ==
    ASSUME NEW len \in Nat, NEW width \in Nat, len <= width, NEW valued \in BOOLEAN, NEW values, NEW bound,
           SetInv(len, valued), SetInv(len, valued)', P(len, width, valued, values, bound)!Next,
           Content = Listed, Content' = Listed'
    PROVE  Set!Next \/ UNCHANGED setVars
<1>1. /\ Arrays(len) /\ Arrays(len)' /\ (~spoilt => Paired(len)) /\ (~spoilt' => Paired(len)')
  BY DEF SetInv
<1>2. \A m \in InRange : m \in Nat /\ m \in Int
  BY IntegerSetsAssumption DEF InRange
<1>3. ~spoilt => \A m \in InRange : Found(m) <=> Holds(m)
  BY <1>1, <1>2, FoundHeld DEF Holds
<1>4. ASSUME NEW m \in InRange, NEW v, P(len, width, valued, values, bound)!Add(m, v)
      PROVE  Set!Next
  <2>1. /\ call' = [op |-> "add", answer |-> ~Found(m)]
        /\ Found(m) => UNCHANGED <<dense, sparse, size, spoilt>>
        /\ ~Found(m) => /\ size' = size + 1 /\ spoilt' = (spoilt \/ m >= len)
                        /\ \A j \in Below(len) : j # size => dense'[j] = dense[j]
                        /\ ~spoilt' => size \in Below(len) /\ dense'[size] = m
    BY <1>1, <1>2, <1>4, AddStores
  <2>2. CASE spoilt'
    BY <2>1, <2>2, SetSpoils
  <2>3. CASE ~spoilt'
    <3>1. ~spoilt
      <4>1. CASE Found(m)
        BY <2>1, <2>3, <4>1
      <4>2. CASE ~Found(m)
        BY <2>1, <2>3, <4>2, Zenon
      <4> QED BY <4>1, <4>2
    <3>2. Found(m) <=> Holds(m)
      BY <1>3, <3>1
    <3>3. CASE Found(m)
      <4>1. Content' = Content
        BY <2>1, <3>3 DEF Listed
      <4>2. call' = [op |-> "add", answer |-> ~Holds(m)]
        BY <2>1, <3>2
      <4> QED BY <2>3, <3>1, <3>2, <3>3, <4>1, <4>2, SetAdds
    <3>4. CASE ~Found(m)
      <4>1. Content' = Append(Content, m)
        <5>1. Listed' = Append(Listed, m)
          BY <1>1, <1>2, <2>1, <2>3, <3>1, <3>4, AddLists
        <5> QED BY <5>1
      <4>2. call' = [op |-> "add", answer |-> ~Holds(m)]
        BY <2>1, <3>2
      <4> QED BY <2>3, <3>1, <3>2, <3>4, <4>1, <4>2, SetAdds
    <3> QED BY <3>3, <3>4
  <2> QED BY <2>2, <2>3
<1>5. ASSUME NEW m \in InRange, P(len, width, valued, values, bound)!Delete(m)
      PROVE  Set!Next
  <2>1. /\ call' = [op |-> "delete", answer |-> Found(m)] /\ spoilt' = spoilt
        /\ ~Found(m) => UNCHANGED <<dense, sparse, size>>
        /\ Found(m) =>
               /\ size' = size - 1
               /\ \A j \in Below(len) : j # sparse[m] => dense'[j] = dense[j]
               /\ ~spoilt => dense'[sparse[m]] = dense[size - 1]
    BY <1>1, <1>2, <1>5, DeleteStores
  <2>2. CASE spoilt
    BY <2>1, <2>2, SetSpoils
  <2>3. CASE ~spoilt
    <3>1. (Found(m) <=> Holds(m)) /\ ~spoilt'
      BY <1>3, <2>1, <2>3
    <3>2. call' = [op |-> "delete", answer |-> Holds(m)]
      <4>1. Found(m) = Holds(m)
        BY <3>1 DEF Found, Holds
      <4> QED BY <2>1, <4>1
    <3>3. CASE ~Found(m)
      <4>1. Content' = Content
        BY <2>1, <3>3 DEF Listed
      <4> QED BY <2>3, <3>1, <3>2, <3>3, <4>1, SetDeletes
    <3>4. CASE Found(m)
      <4>1. \E n \in DOMAIN Content :
                /\ Content[n] = m
                /\ Content' = SubSeq([Content EXCEPT ![n] = Content[Len(Content)]], 1, Len(Content) - 1)
        <5>1. \E n \in DOMAIN Listed :
                  /\ Listed[n] = m
                  /\ Listed' = SubSeq([Listed EXCEPT ![n] = Listed[Len(Listed)]], 1, Len(Listed) - 1)
          BY <1>1, <1>2, <2>1, <2>3, <3>1, <3>4, DeleteLists
        <5> QED BY <5>1
      <4> QED BY <2>3, <3>1, <3>2, <3>4, <4>1, SetDeletes
    <3> QED BY <3>3, <3>4
  <2> QED BY <2>2, <2>3
<1>6. ASSUME P(len, width, valued, values, bound)!Clear
      PROVE  Set!Next
  <2>1. size' = 0 /\ spoilt' = FALSE /\ call' = [op |-> "clear", answer |-> None]
    BY <1>6 DEF P!Clear, P!Called
  <2>2. Content' = <<>>
    BY <2>1 DEF Listed
  <2> QED BY <2>1, <2>2, SetClears
<1>7. ASSUME P(len, width, valued, values, bound)!OpenWalk \/ P(len, width, valued, values, bound)!StepWalk
      PROVE  UNCHANGED setVars
  <2>1. UNCHANGED <<dense, size, call, spoilt>>
    BY <1>7 DEF P!OpenWalk, P!StepWalk
  <2>2. Content' = Content
    BY <2>1 DEF Listed
  <2> QED BY <2>1, <2>2, SetStutters
<1> QED BY <1>4, <1>5, <1>6, <1>7 DEF P!Next

(* What a fresh walk has seen, of a list it has come so far in.            *)
LEMMA FreshSeen ==
    ASSUME NEW S, NEW all \in Seq(S), NEW seen \in Seq(S), Len(seen) <= Len(all),
           \A i \in 1 .. Len(seen) : seen[i] = all[i],
           NEW ended, ended => Len(seen) = Len(all)
    PROVE  IF ended THEN seen = all ELSE IsPrefix(seen, all)
<1>1. CASE ended
  <2>1. seen = all
    BY <1>1, SeqEqual
  <2> QED BY <1>1, <2>1
<1>2. CASE ~ended
  <2> DEFINE k == Len(seen)
             a == SubSeq(seen, 1, k)
             b == SubSeq(all, 1, k)
             one == 1
  <2>1. one \in 1 .. Len(seen) + 1 /\ k \in one - 1 .. Len(seen) /\ one - 1 = 0 /\ k \in Nat
        /\ one \in 1 .. Len(all) + 1 /\ k \in one - 1 .. Len(all) /\ (k - one) + 1 = k
    OBVIOUS
  <2>2. a = SubSeq(seen, one, k) /\ b = SubSeq(all, one, k)
    OBVIOUS
  <2> HIDE DEF k, a, b, one
  <2>3. a \in Seq(S) /\ Len(a) = (k - one) + 1 /\ \A i \in 1 .. Len(a) : a[i] = seen[i + (one - 1)]
    BY <2>1, <2>2, SubSeqProperties
  <2>4. b \in Seq(S) /\ Len(b) = (k - one) + 1 /\ \A i \in 1 .. Len(b) : b[i] = all[i + (one - 1)]
    BY <2>1, <2>2, SubSeqProperties
  <2>5. \A i \in 1 .. k : a[i] = seen[i] /\ b[i] = all[i] /\ seen[i] = all[i]
    BY <2>1, <2>3, <2>4 DEF k
  <2>6. a = b
    BY <2>1, <2>3, <2>4, <2>5, SeqEqual
  <2> QED BY <1>2, <2>6 DEF IsPrefix, a, b, k
<1> QED BY <1>1, <1>2

LEMMA SetWalks ==
    ASSUME NEW len \in Nat, NEW valued \in BOOLEAN, SetInv(len, valued), Content = Listed
    PROVE  /\ ~spoilt /\ walk.fresh =>
                  IF walk.ended THEN walk.seen = Content ELSE IsPrefix(walk.seen, Content)
           /\ walk.ended => since.missing = {} \/ since.refilled
<1>1. Arrays(len) /\ (~spoilt => Paired(len)) /\ SetWalk(len)
  BY DEF SetInv
<1>2. ASSUME ~spoilt, walk.fresh
      PROVE  IF walk.ended THEN walk.seen = Content ELSE IsPrefix(walk.seen, Content)
  <2>1. /\ Listed \in Seq(Nat) /\ Len(Listed) = size /\ size \in Nat
        /\ \A n \in 1 .. size : Listed[n] = dense[n - 1]
    BY <1>1, <1>2, ListedSeq DEF Paired, Arrays
  <2>2. /\ walk.seen \in Seq(Nat) /\ walk.ordinal <= walk.len /\ walk.len = size /\ Len(walk.seen) = walk.ordinal
        /\ \A i \in 1 .. walk.ordinal : walk.seen[i] = dense[i - 1]
        /\ walk.ended => walk.ordinal = size
    BY <1>1, <1>2 DEF SetWalk, Cursors
  <2>3. Len(walk.seen) <= Len(Listed) /\ \A i \in 1 .. Len(walk.seen) : walk.seen[i] = Listed[i]
    <3>1. Len(walk.seen) \in Nat /\ Len(walk.seen) <= size
      BY <2>2
    <3>2. ASSUME NEW i \in 1 .. Len(walk.seen)
          PROVE  i \in 1 .. size /\ walk.seen[i] = dense[i - 1]
      <4>1. i \in 1 .. size
        BY <2>1, <3>1
      <4>2. i \in 1 .. walk.ordinal
        BY <2>2
      <4> QED BY <2>2, <4>1, <4>2
    <3> QED BY <2>1, <3>1, <3>2
  <2>4. walk.ended => Len(walk.seen) = Len(Listed)
    BY <2>1, <2>2
  <2>5. IF walk.ended THEN walk.seen = Listed ELSE IsPrefix(walk.seen, Listed)
    BY <2>1, <2>2, <2>3, <2>4, FreshSeen
  <2> QED BY <2>5
<1>3. walk.ended => since.missing = {} \/ since.refilled
  BY <1>1 DEF SetWalk
<1> QED BY <1>2, <1>3

-----------------------------------------------------------------------------
(* The slots of a ring.                                                    *)

Spot(cap, first, i) == IF cap = 0 THEN first + i ELSE (first + i) % cap

LEMMA ModSmall ==
    ASSUME NEW c \in Nat \ {0}, NEW a \in 0 .. 2 * c - 1
    PROVE  (a % c) = IF a < c THEN a ELSE a - c
<1>1. CASE a \in 0 .. c - 1  BY <1>1
<1>2. CASE a \in c .. 2 * c - 1  BY <1>2
<1> QED BY <1>1, <1>2

LEMMA SpotRange ==
    ASSUME NEW cap \in Nat \ {0}, NEW first \in Nat, NEW i \in Nat
    PROVE  Spot(cap, first, i) \in Below(cap)
<1>1. first + i \in Nat
  OBVIOUS
<1>2. ((first + i) % cap) \in 0 .. cap - 1
  BY <1>1
<1> QED BY <1>2 DEF Spot, Below

LEMMA SpotSmall ==
    ASSUME NEW cap \in Nat \ {0}, NEW first \in Below(cap), NEW i \in 0 .. cap
    PROVE  Spot(cap, first, i) = IF first + i < cap THEN first + i ELSE first + i - cap
<1> DEFINE a == first + i
<1>1. a \in 0 .. 2 * cap - 1
  BY DEF Below
<1>2. Spot(cap, first, i) = a % cap
  BY DEF Spot
<1> HIDE DEF a
<1>3. Spot(cap, first, i) = IF a < cap THEN a ELSE a - cap
  BY <1>1, <1>2, ModSmall
<1>4. first \in Int /\ i \in Int /\ cap \in Int
  BY DEF Below
<1> QED BY <1>3, <1>4 DEF a

LEMMA SpotsApart ==
    ASSUME NEW cap \in Nat \ {0}, NEW first \in Below(cap), NEW i \in Below(cap), NEW j \in 0 .. cap,
           Spot(cap, first, i) = Spot(cap, first, j), j < cap \/ i # 0
    PROVE  i = j
<1>1. i \in 0 .. cap
  BY DEF Below
<1> QED BY <1>1, SpotSmall DEF Below

LEMMA SpotNext ==
    ASSUME NEW cap \in Nat \ {0}, NEW first \in Below(cap), NEW i \in Below(cap)
    PROVE  LET next == IF first + 1 = cap THEN 0 ELSE first + 1
           IN  next \in Below(cap) /\ Spot(cap, next, i) = Spot(cap, first, i + 1)
<1> DEFINE next == IF first + 1 = cap THEN 0 ELSE first + 1
<1>1. next \in Below(cap) /\ i \in 0 .. cap /\ i + 1 \in 0 .. cap
  BY DEF Below
<1>2. Spot(cap, next, i) = IF next + i < cap THEN next + i ELSE next + i - cap
  BY <1>1, SpotSmall
<1>3. Spot(cap, first, i + 1) = IF first + (i + 1) < cap THEN first + (i + 1) ELSE first + (i + 1) - cap
  BY <1>1, SpotSmall
<1> QED BY <1>1, <1>2, <1>3 DEF Below

-----------------------------------------------------------------------------
(* Queue sets.                                                             *)

RingArrays(cap) ==
    /\ Arrays(cap)
    /\ start \in Nat
    /\ cap # 0 => start < cap

Inside(cap, slot) ==
    \/ slot < cap /\ slot >= start /\ slot < start + size
    \/ cap # 0 /\ slot < (start + size) % cap

Awaits(cap, m) ==
    /\ size # 0
    /\ At(sparse, m) # None
    /\ Inside(cap, At(sparse, m))
    /\ At(dense, At(sparse, m)) = m

(* Members and slots point at each other; and of who is left over from     *)
(* before a clear, none is behind the start: for those the test of the     *)
(* window would say yes when it does not wrap round.                       *)
Queued(cap) ==
    /\ size <= cap
    /\ \A i \in Below(size) : /\ dense[Spot(cap, start, i)] \in Below(cap)
                              /\ sparse[dense[Spot(cap, start, i)]] = Spot(cap, start, i)
    /\ \A m \in Below(cap) :
           sparse[m] < start /\ dense[sparse[m]] = m => sparse[m] < start + size - cap

Lined(cap) == [n \in 1 .. size |-> At(dense, Spot(cap, start, n - 1))]

LEMMA QueueHas ==
    ASSUME NEW cap, NEW width, NEW bound, NEW m
    PROVE  Q(cap, width, bound)!Has(m) = Awaits(cap, m)
  BY DEF Q!Has, Q!TryGet, Q!InWindow, Awaits, Inside, At

LEMMA AwaitsThere ==
    ASSUME NEW cap \in Nat, RingArrays(cap), Queued(cap), NEW m \in Int
    PROVE  Awaits(cap, m) <=> \E i \in Below(size) : dense[Spot(cap, start, i)] = m
<1>1. /\ dense \in [Below(cap) -> Nat] /\ sparse \in [Below(cap) -> Nat] /\ size \in Nat
      /\ start \in Nat /\ (cap # 0 => start < cap) /\ size <= cap
  BY DEF RingArrays, Arrays, Queued
<1>2. ASSUME Awaits(cap, m)
      PROVE  \E i \in Below(size) : dense[Spot(cap, start, i)] = m
  <2> DEFINE s == sparse[m]
  <2>1. m \in Below(cap) /\ s \in Nat /\ At(sparse, m) = s
    <3>1. m \in Below(cap)
      BY <1>1, <1>2 DEF Awaits, At
    <3> QED BY <1>1, <3>1 DEF At
  <2>2. cap # 0 /\ start \in Below(cap)
    BY <1>1, <2>1 DEF Below
  <2> HIDE DEF s
  <2>3. At(dense, s) = m /\ s \in Below(cap) /\ dense[s] = m
    <3>1. At(dense, s) = m /\ m # None
      BY <1>2, <2>1, NoneNoNumber DEF Awaits
    <3> QED BY <1>1, <3>1 DEF At
  <2>4. (start + size) % cap = IF start + size < cap THEN start + size ELSE start + size - cap
    <3>1. size \in 0 .. cap
      BY <1>1
    <3> QED BY <1>1, <2>2, <3>1, SpotSmall DEF Spot
  <2>5. (s >= start /\ s < start + size) \/ (s < start /\ s < start + size - cap)
    <3>1. s < start => s < start + size - cap
      BY <2>1, <2>3 DEF Queued, s
    <3>2. \/ s >= start /\ s < start + size
          \/ s < IF start + size < cap THEN start + size ELSE start + size - cap
      BY <1>2, <2>1, <2>4 DEF Awaits, Inside
    <3> QED BY <1>1, <2>1, <2>2, <3>1, <3>2
  <2>6. CASE s >= start /\ s < start + size
    <3>1. s - start \in Below(size) /\ s - start \in 0 .. cap
      BY <1>1, <2>1, <2>6 DEF Below
    <3>2. Spot(cap, start, s - start) = s
      BY <1>1, <2>2, <2>3, <3>1, SpotSmall DEF Below
    <3> QED BY <2>3, <3>1, <3>2
  <2>7. CASE s < start /\ s < start + size - cap
    <3>1. s + cap - start \in Below(size) /\ s + cap - start \in 0 .. cap
      BY <1>1, <2>1, <2>7 DEF Below
    <3>2. Spot(cap, start, s + cap - start) = s
      BY <1>1, <2>1, <2>2, <2>3, <3>1, SpotSmall DEF Below
    <3> QED BY <2>3, <3>1, <3>2
  <2> QED BY <2>5, <2>6, <2>7
<1>3. ASSUME NEW i \in Below(size), dense[Spot(cap, start, i)] = m
      PROVE  Awaits(cap, m)
  <2> DEFINE s == Spot(cap, start, i)
  <2>1. cap # 0 /\ start \in Below(cap) /\ i \in 0 .. cap /\ size \in 0 .. cap /\ size # 0 /\ i \in Nat
    BY <1>1 DEF Below
  <2>2. s = IF start + i < cap THEN start + i ELSE start + i - cap
    BY <2>1, SpotSmall
  <2>3. (start + size) % cap = IF start + size < cap THEN start + size ELSE start + size - cap
    BY <2>1, SpotSmall DEF Spot
  <2>4. m \in Below(cap) /\ sparse[m] = s
    BY <1>3 DEF Queued
  <2> HIDE DEF s
  <2>5. s \in Below(cap) /\ Inside(cap, s)
    BY <1>1, <2>1, <2>2, <2>3 DEF Inside, Below
  <2>6. At(sparse, m) = s /\ At(dense, s) = m /\ s # None
    BY <1>1, <1>3, <2>4, <2>5, NoneNoNumber DEF At, Below, s
  <2> QED BY <2>1, <2>5, <2>6 DEF Awaits
<1> QED BY <1>2, <1>3

LEMMA LinedSeq ==
    ASSUME NEW cap \in Nat, RingArrays(cap), size <= cap
    PROVE  /\ Lined(cap) \in Seq(Nat) /\ Len(Lined(cap)) = size /\ DOMAIN Lined(cap) = 1 .. size
           /\ \A n \in 1 .. size : /\ Lined(cap)[n] = dense[Spot(cap, start, n - 1)]
                                   /\ n - 1 \in Below(size)
<1>1. dense \in [Below(cap) -> Nat] /\ size \in Nat /\ start \in Nat
  BY DEF RingArrays, Arrays
<1>2. ASSUME NEW n \in 1 .. size
      PROVE  /\ n - 1 \in Below(size)
             /\ At(dense, Spot(cap, start, n - 1)) = dense[Spot(cap, start, n - 1)]
             /\ dense[Spot(cap, start, n - 1)] \in Nat
  <2>1. n - 1 \in Below(size) /\ n - 1 \in Nat /\ cap \in Nat \ {0}
    BY <1>1 DEF Below
  <2>2. Spot(cap, start, n - 1) \in Below(cap)
    BY <1>1, <2>1, SpotRange
  <2> QED BY <1>1, <2>1, <2>2 DEF At
<1> QED BY <1>1, <1>2 DEF Lined

LEMMA AwaitsHeld ==
    ASSUME NEW cap \in Nat, RingArrays(cap), Queued(cap), NEW m \in Int
    PROVE  Awaits(cap, m) <=> \E n \in DOMAIN Lined(cap) : Lined(cap)[n] = m
<1>1. /\ size \in Nat /\ DOMAIN Lined(cap) = 1 .. size
      /\ \A n \in 1 .. size : /\ Lined(cap)[n] = dense[Spot(cap, start, n - 1)]
                              /\ n - 1 \in Below(size)
  BY LinedSeq DEF RingArrays, Arrays, Queued
<1>2. Awaits(cap, m) <=> \E i \in Below(size) : dense[Spot(cap, start, i)] = m
  BY AwaitsThere
<1>3. ASSUME NEW i \in Below(size), dense[Spot(cap, start, i)] = m
      PROVE  \E n \in DOMAIN Lined(cap) : Lined(cap)[n] = m
  <2>1. i + 1 \in 1 .. size /\ (i + 1) - 1 = i
    BY <1>1 DEF Below
  <2>2. Lined(cap)[i + 1] = m
    BY <1>1, <1>3, <2>1
  <2> QED BY <1>1, <2>1, <2>2
<1> QED BY <1>1, <1>2, <1>3

LEMMA EnqueueStores ==
    ASSUME NEW cap \in Nat, NEW width \in Nat, cap <= width, NEW bound, NEW m \in Nat,
           RingArrays(cap), ~spoilt => Queued(cap),
           Q(cap, width, bound)!Enqueue(m)
    PROVE  /\ RingArrays(cap)'
           /\ ~spoilt' => Queued(cap)'
           /\ call' = [op |-> "add", answer |-> ~Awaits(cap, m)]
           /\ start' = start
           /\ Awaits(cap, m) => UNCHANGED <<dense, sparse, size, spoilt>>
           /\ ~Awaits(cap, m) =>
                  /\ size' = size + 1 /\ spoilt' = (spoilt \/ m >= cap)
                  /\ ~spoilt' => /\ size < cap /\ start \in Below(cap)
                                 /\ dense'[Spot(cap, start, size)] = m
                                 /\ \A i \in Below(size) :
                                        dense'[Spot(cap, start, i)] = dense[Spot(cap, start, i)]
<1>1. /\ dense \in [Below(cap) -> Nat] /\ sparse \in [Below(cap) -> Nat] /\ size \in Nat
      /\ spoilt \in BOOLEAN /\ start \in Nat /\ (cap # 0 => start < cap)
  BY DEF RingArrays, Arrays
<1>2. /\ call' = [op |-> "add", answer |-> ~Awaits(cap, m)]
      /\ start' = start
  BY QueueHas DEF Q!Enqueue, Q!Called
<1>3. CASE Awaits(cap, m)
  <2>1. UNCHANGED <<dense, sparse, size, spoilt>>
    BY <1>3, QueueHas DEF Q!Enqueue
  <2>2. RingArrays(cap)' /\ (~spoilt' => Queued(cap)')
    BY <1>2, <2>1 DEF RingArrays, Arrays, Queued, Spot
  <2> QED BY <1>2, <1>3, <2>1, <2>2
<1>4. CASE ~Awaits(cap, m)
  <2> DEFINE t == Spot(cap, start, size)
             place == IF cap = 0 THEN None ELSE t
  <2>1. /\ dense' = Put(dense, place, m, width)
        /\ sparse' = IF place = None THEN sparse ELSE Put(sparse, m, place, width)
        /\ size' = size + 1 /\ spoilt' = (spoilt \/ m >= cap)
    BY <1>4, QueueHas DEF Q!Enqueue, Q!TrySet, Q!SlotAfterEnd, Put, Spot
  <2>2. cap # 0 => t \in Below(cap)
    BY <1>1, SpotRange
  <2> HIDE DEF t
  <2>3. \/ place = None /\ cap = 0
        \/ place = t /\ place \in Below(cap) /\ cap # 0 /\ place # None
    BY <2>2, NoneNoNumber DEF Below
  <2> HIDE DEF place
  <2>4. /\ dense' \in [Below(cap) -> Nat]
        /\ \A j \in Below(cap) : j # place => dense'[j] = dense[j]
        /\ place \in Below(cap) /\ m < width => dense'[place] = m
    BY <1>1, <2>1, Stored
  <2>5. /\ sparse' \in [Below(cap) -> Nat]
        /\ \A j \in Below(cap) : j # m => sparse'[j] = sparse[j]
        /\ place \in Below(cap) /\ m \in Below(cap) => sparse'[m] = place
    <3>1. CASE place = None
      <4>1. sparse' = sparse /\ place \notin Below(cap)
        BY <2>1, <3>1, NoneNoNumber DEF Below
      <4> QED BY <1>1, <4>1
    <3>2. CASE place # None
      <4>1. place \in Nat /\ place < width /\ sparse' = Put(sparse, m, place, width)
        BY <2>1, <2>3, <3>2 DEF Below
      <4> QED BY <1>1, <4>1, Stored
    <3> QED BY <3>1, <3>2
  <2>6. RingArrays(cap)'
    BY <1>1, <1>2, <2>1, <2>4, <2>5 DEF RingArrays, Arrays
  <2>7. ASSUME ~spoilt'
        PROVE  /\ size < cap /\ start \in Below(cap) /\ dense'[t] = m
               /\ \A i \in Below(size) :
                      dense'[Spot(cap, start, i)] = dense[Spot(cap, start, i)]
               /\ Queued(cap)'
    <3>1. ~spoilt /\ m \in Below(cap) /\ Queued(cap)
      <4>1. ~spoilt /\ ~(m >= cap)
        BY <2>1, <2>7, Zenon
      <4> QED BY <4>1 DEF Below
    <3>2. cap \in Nat \ {0} /\ start \in Below(cap) /\ m < width /\ place = t /\ place \in Below(cap)
      BY <1>1, <2>3, <3>1 DEF Below
    <3>3. /\ size <= cap
          /\ \A i \in Below(size) : /\ dense[Spot(cap, start, i)] \in Below(cap)
                                    /\ sparse[dense[Spot(cap, start, i)]] = Spot(cap, start, i)
          /\ \A x \in Below(cap) :
                 sparse[x] < start /\ dense[sparse[x]] = x => sparse[x] < start + size - cap
      BY <3>1 DEF Queued
    <3>4. \A i \in Below(size) : dense[Spot(cap, start, i)] # m
      BY <1>4, <3>1, AwaitsThere
    <3>5. size < cap
      <4> DEFINE d == [i \in Below(size) |-> dense[Spot(cap, start, i)]]
      <4>1. \A i \in Below(size) : d[i] = dense[Spot(cap, start, i)]
        OBVIOUS
      <4> HIDE DEF d
      <4>2. \A i \in Below(size) : d[i] \in Below(cap) /\ d[i] # m
        BY <3>3, <3>4, <4>1
      <4>3. ASSUME NEW i \in Below(size), NEW j \in Below(size), d[i] = d[j]
            PROVE  i = j
        <5>1. Spot(cap, start, i) = Spot(cap, start, j)
          BY <3>3, <4>1, <4>3
        <5>2. i \in Below(cap) /\ j \in 0 .. cap /\ j < cap
          BY <1>1, <3>3 DEF Below
        <5> QED BY <3>2, <5>1, <5>2, SpotsApart
      <4> QED BY <1>1, <3>1, <3>3, <4>2, <4>3, Room
    <3>6. dense'[t] = m /\ sparse'[m] = t
      BY <2>4, <2>5, <3>1, <3>2
    <3>7. ASSUME NEW i \in Below(size)
          PROVE  Spot(cap, start, i) \in Below(cap) /\ Spot(cap, start, i) # t
      <4>1. i \in Below(cap) /\ size \in 0 .. cap /\ i \in Nat /\ i # size
        BY <1>1, <3>5 DEF Below
      <4> QED BY <1>1, <3>2, <3>5, <4>1, SpotRange, SpotsApart DEF t
    <3>8. \A i \in Below(size) : dense'[Spot(cap, start, i)] = dense[Spot(cap, start, i)]
      BY <2>4, <3>2, <3>7
    <3>9. ASSUME NEW i \in Below(size')
          PROVE  /\ dense'[Spot(cap, start, i)] \in Below(cap)
                 /\ sparse'[dense'[Spot(cap, start, i)]] = Spot(cap, start, i)
      <4>1. CASE i = size
        BY <3>1, <3>6, <4>1 DEF t
      <4>2. CASE i # size
        <5>1. i \in Below(size)
          BY <1>1, <2>1, <4>2 DEF Below
        <5> QED BY <2>5, <3>3, <3>4, <3>8, <5>1
      <4> QED BY <4>1, <4>2
    <3>10. ASSUME NEW x \in Below(cap), sparse'[x] < start, dense'[sparse'[x]] = x
           PROVE  sparse'[x] < start + size' - cap
      <4>1. CASE x = m
        <5>1. size \in 0 .. cap /\ t = IF start + size < cap THEN start + size ELSE start + size - cap
          BY <1>1, <3>2, <3>5, SpotSmall DEF t
        <5> QED BY <1>1, <2>1, <3>2, <3>6, <3>10, <4>1, <5>1
      <4>2. CASE x # m
        <5>1. sparse'[x] = sparse[x] /\ sparse[x] \in Nat /\ sparse[x] \in Below(cap)
          BY <1>1, <2>5, <3>2, <3>10, <4>2 DEF Below
        <5>2. sparse[x] # t
          BY <3>6, <3>10, <4>2, <5>1
        <5>3. dense[sparse[x]] = x
          BY <2>4, <3>2, <3>10, <5>1, <5>2
        <5>4. sparse[x] < start + size - cap
          BY <3>3, <3>10, <5>1, <5>3
        <5> QED BY <1>1, <2>1, <5>1, <5>4
      <4> QED BY <4>1, <4>2
    <3>11. Queued(cap)'
      <4>1. size' <= cap /\ start' = start
        BY <1>1, <1>2, <2>1, <3>5
      <4> QED BY <3>9, <3>10, <4>1 DEF Queued, Spot
    <3> QED BY <3>2, <3>5, <3>6, <3>8, <3>11
  <2>8. ~spoilt' => /\ size < cap /\ start \in Below(cap)
                    /\ dense'[Spot(cap, start, size)] = m
                    /\ \A i \in Below(size) :
                           dense'[Spot(cap, start, i)] = dense[Spot(cap, start, i)]
    BY <2>7 DEF t
  <2> QED BY <1>2, <1>4, <2>1, <2>6, <2>7, <2>8
<1> QED BY <1>3, <1>4

LEMMA DequeueStores ==
    ASSUME NEW cap \in Nat, NEW width \in Nat, cap <= width, NEW bound,
           RingArrays(cap), ~spoilt => Queued(cap),
           Q(cap, width, bound)!Dequeue
    PROVE  /\ RingArrays(cap)'
           /\ ~spoilt' => Queued(cap)' /\ ~spoilt
           /\ dense' = dense
           /\ size = 0 => /\ UNCHANGED <<sparse, start, size, spoilt>>
                          /\ call' = [op |-> "dequeue", answer |-> None]
           /\ size # 0 => /\ size' = size - 1
                          /\ call' = [op |-> "dequeue", answer |-> At(dense, start)]
                          /\ ~spoilt' => /\ start \in Below(cap) /\ cap # 0
                                         /\ \A i \in Below(size') :
                                                Spot(cap, start', i) = Spot(cap, start, i + 1)
<1>1. /\ dense \in [Below(cap) -> Nat] /\ sparse \in [Below(cap) -> Nat] /\ size \in Nat
      /\ spoilt \in BOOLEAN /\ start \in Nat /\ (cap # 0 => start < cap)
  BY DEF RingArrays, Arrays
<1>2. dense' = dense
  BY DEF Q!Dequeue
<1>3. CASE size = 0
  <2>1. UNCHANGED <<sparse, start, size, spoilt>> /\ call' = [op |-> "dequeue", answer |-> None]
    BY <1>3 DEF Q!Dequeue, Q!Called
  <2>2. RingArrays(cap)' /\ (~spoilt' => Queued(cap)' /\ ~spoilt)
    BY <1>2, <2>1 DEF RingArrays, Arrays, Queued, Spot
  <2> QED BY <1>2, <1>3, <2>1, <2>2
<1>4. CASE size # 0
  <2> DEFINE member == At(dense, start)
  <2>1. /\ size' = size - 1
        /\ start' = IF start + 1 = cap THEN 0 ELSE start + 1
        /\ sparse' = IF member = None THEN sparse ELSE Put(sparse, member, cap, width)
        /\ spoilt' = (spoilt \/ cap % width # cap)
        /\ call' = [op |-> "dequeue", answer |-> member]
    BY <1>4 DEF Q!Dequeue, Q!Called, Q!TryGet, Q!TrySet, At, Put
  <2>2. member = None \/ member \in Nat
    BY <1>1 DEF At
  <2>3. /\ sparse' \in [Below(cap) -> Nat]
        /\ \A x \in Below(cap) : x # member => sparse'[x] = sparse[x]
    <3> HIDE DEF member
    <3>1. CASE member = None
      BY <1>1, <2>1, <3>1
    <3>2. CASE member # None
      <4>1. sparse' = Put(sparse, member, cap, width)
        BY <2>1, <3>2
      <4> QED BY <1>1, <4>1, Stored
    <3> QED BY <3>1, <3>2
  <2>4. RingArrays(cap)'
    <3>1. size' \in Nat /\ start' \in Nat /\ (cap # 0 => start' < cap)
      BY <1>1, <1>4, <2>1
    <3>2. spoilt' \in BOOLEAN
      BY <2>1
    <3> QED BY <1>1, <1>2, <2>3, <3>1, <3>2 DEF RingArrays, Arrays
  <2>5. ASSUME ~spoilt'
        PROVE  /\ ~spoilt /\ start \in Below(cap) /\ cap # 0
               /\ \A i \in Below(size') : Spot(cap, start', i) = Spot(cap, start, i + 1)
               /\ Queued(cap)'
    <3>1. ~spoilt /\ cap % width = cap /\ Queued(cap)
      <4>1. ~spoilt /\ ~(cap % width # cap)
        BY <2>1, <2>5, Zenon
      <4> QED BY <4>1
    <3>2. /\ size <= cap
          /\ \A i \in Below(size) : /\ dense[Spot(cap, start, i)] \in Below(cap)
                                    /\ sparse[dense[Spot(cap, start, i)]] = Spot(cap, start, i)
          /\ \A x \in Below(cap) :
                 sparse[x] < start /\ dense[sparse[x]] = x => sparse[x] < start + size - cap
      BY <3>1 DEF Queued
    <3>3. cap \in Nat \ {0} /\ start \in Below(cap) /\ 0 \in Below(size) /\ 0 \in 0 .. cap
      BY <1>1, <1>4, <3>2 DEF Below
    <3>4. Spot(cap, start, 0) = start
      <4> DEFINE zero == 0
      <4>1. zero \in 0 .. cap /\ zero = 0
        BY <3>3
      <4> HIDE DEF zero
      <4>2. Spot(cap, start, zero) = IF start + zero < cap THEN start + zero ELSE start + zero - cap
        BY <3>3, <4>1, SpotSmall
      <4> QED BY <1>1, <3>3, <4>1, <4>2 DEF Below
    <3>5. member = dense[start] /\ member \in Below(cap) /\ sparse[member] = start /\ member # None
      <4>1. member = dense[start]
        BY <1>1, <3>3 DEF At
      <4>2. member \in Below(cap) /\ sparse[member] = start
        BY <3>2, <3>3, <3>4, <4>1
      <4> QED BY <4>1, <4>2, NoneNoNumber DEF Below
    <3>6. sparse'[member] = cap
      <4> HIDE DEF member
      <4>1. sparse' = [sparse EXCEPT ![member] = cap]
        BY <1>1, <2>1, <3>1, <3>5 DEF Put
      <4> QED BY <1>1, <3>5, <4>1
    <3>7. ASSUME NEW i \in Below(size')
          PROVE  /\ Spot(cap, start', i) = Spot(cap, start, i + 1)
                 /\ i + 1 \in Below(size)
      <4>1. i \in Below(cap) /\ i + 1 \in Below(size)
        BY <1>1, <2>1, <3>2 DEF Below
      <4> QED BY <2>1, <3>3, <4>1, SpotNext
    <3>8. ASSUME NEW i \in Below(size')
          PROVE  /\ dense[Spot(cap, start', i)] \in Below(cap)
                 /\ sparse'[dense[Spot(cap, start', i)]] = Spot(cap, start', i)
      <4>1. Spot(cap, start', i) = Spot(cap, start, i + 1) /\ i + 1 \in Below(size)
        BY <3>7
      <4>2. /\ dense[Spot(cap, start, i + 1)] \in Below(cap)
            /\ sparse[dense[Spot(cap, start, i + 1)]] = Spot(cap, start, i + 1)
        BY <3>2, <4>1
      <4>3. Spot(cap, start, i + 1) # start
        <5> DEFINE zero == 0
                   j == i + 1
        <5>1. zero \in 0 .. cap /\ zero < cap /\ j \in Below(cap) /\ j # zero
          BY <1>1, <3>2, <3>3, <4>1 DEF Below
        <5>2. Spot(cap, start, zero) = start
          BY <3>4
        <5> HIDE DEF zero, j
        <5>3. Spot(cap, start, j) # start
          BY <3>3, <5>1, <5>2, SpotsApart
        <5> QED BY <5>3 DEF j
      <4>4. dense[Spot(cap, start, i + 1)] # member
        BY <3>5, <4>2, <4>3
      <4> QED BY <2>3, <4>1, <4>2, <4>4
    <3>9. ASSUME NEW x \in Below(cap), sparse'[x] < start', dense[sparse'[x]] = x
          PROVE  sparse'[x] < start' + size' - cap
      <4>1. x # member
        BY <1>1, <2>1, <3>3, <3>6, <3>9 DEF Below
      <4>2. sparse'[x] = sparse[x] /\ sparse[x] \in Nat
        BY <1>1, <2>3, <4>1
      <4>3. start' = start + 1 /\ sparse[x] # start
        BY <1>1, <2>1, <3>5, <3>9, <4>1, <4>2
      <4>4. sparse[x] < start + size - cap
        BY <1>1, <3>2, <3>9, <4>2, <4>3
      <4> QED BY <1>1, <2>1, <4>2, <4>3, <4>4
    <3>10. Queued(cap)'
      <4>1. size' <= cap
        BY <1>1, <2>1, <3>2
      <4> QED BY <1>2, <3>8, <3>9, <4>1 DEF Queued, Spot
    <3> QED BY <3>1, <3>3, <3>7, <3>10
  <2> QED BY <1>2, <1>4, <2>1, <2>4, <2>5
<1> QED BY <1>3, <1>4

LEMMA LinedNext ==
    ASSUME NEW cap \in Nat, RingArrays(cap)', size' <= cap
    PROVE  /\ Lined(cap)' \in Seq(Nat) /\ Len(Lined(cap)') = size' /\ size' \in Nat
           /\ \A n \in 1 .. size' : Lined(cap)'[n] = dense'[Spot(cap, start', n - 1)]
<1>1. (RingArrays(cap) /\ size <= cap =>
           /\ Lined(cap) \in Seq(Nat) /\ Len(Lined(cap)) = size /\ DOMAIN Lined(cap) = 1 .. size
           /\ \A n \in 1 .. size : /\ Lined(cap)[n] = dense[Spot(cap, start, n - 1)]
                                   /\ n - 1 \in Below(size))'
  BY LinedSeq, PTL
<1>2. size' \in Nat
  BY DEF RingArrays, Arrays
<1>3. /\ Lined(cap)' \in Seq(Nat) /\ Len(Lined(cap)') = size'
      /\ \A n \in 1 .. size' : Lined(cap)'[n] = dense'[Spot(cap, start, n - 1)']
  BY <1>1
<1>4. \A n : Spot(cap, start, n - 1)' = Spot(cap, start', n - 1)
  BY DEF Spot
<1> QED BY <1>2, <1>3, <1>4

LEMMA EnqueueLists ==
    ASSUME NEW cap \in Nat, NEW m \in Nat, RingArrays(cap), RingArrays(cap)', Queued(cap), Queued(cap)',
           size' = size + 1, start' = start, dense'[Spot(cap, start, size)] = m,
           \A i \in Below(size) : dense'[Spot(cap, start, i)] = dense[Spot(cap, start, i)]
    PROVE  Lined(cap)' = Append(Lined(cap), m)
<1>1. /\ Lined(cap) \in Seq(Nat) /\ Len(Lined(cap)) = size /\ size \in Nat
      /\ \A n \in 1 .. size : /\ Lined(cap)[n] = dense[Spot(cap, start, n - 1)]
                              /\ n - 1 \in Below(size)
  BY LinedSeq DEF Queued, RingArrays, Arrays
<1>2. /\ Lined(cap)' \in Seq(Nat) /\ Len(Lined(cap)') = size'
      /\ \A n \in 1 .. size' : Lined(cap)'[n] = dense'[Spot(cap, start, n - 1)]
  BY LinedNext DEF Queued
<1>3. ASSUME NEW n \in 1 .. size PROVE Lined(cap)'[n] = Lined(cap)[n]
  <2>1. n \in 1 .. size' /\ n - 1 \in Below(size)
    BY <1>1 DEF Below
  <2> QED BY <1>1, <1>2, <2>1
<1>4. Lined(cap)'[size + 1] = m
  <2>1. size + 1 \in 1 .. size' /\ (size + 1) - 1 = size
    BY <1>1
  <2> QED BY <1>2, <2>1
<1> QED BY <1>1, <1>2, <1>3, <1>4, IsAppend

LEMMA DequeueLists ==
    ASSUME NEW cap \in Nat, RingArrays(cap), RingArrays(cap)', Queued(cap), Queued(cap)',
           size # 0, size' = size - 1, dense' = dense, start \in Below(cap),
           \A i \in Below(size') : Spot(cap, start', i) = Spot(cap, start, i + 1)
    PROVE  /\ Lined(cap) # <<>> /\ Lined(cap)' = Tail(Lined(cap))
           /\ At(dense, start) = Head(Lined(cap))
<1>1. /\ Lined(cap) \in Seq(Nat) /\ Len(Lined(cap)) = size /\ size \in Nat
      /\ \A n \in 1 .. size : /\ Lined(cap)[n] = dense[Spot(cap, start, n - 1)]
                              /\ n - 1 \in Below(size)
  BY LinedSeq DEF Queued, RingArrays, Arrays
<1>2. /\ Lined(cap)' \in Seq(Nat) /\ Len(Lined(cap)') = size'
      /\ \A n \in 1 .. size' : Lined(cap)'[n] = dense[Spot(cap, start', n - 1)]
  BY LinedNext DEF Queued
<1>3. ASSUME NEW n \in 1 .. size' PROVE Lined(cap)'[n] = Lined(cap)[n + 1]
  <2>1. n - 1 \in Below(size') /\ n + 1 \in 1 .. size /\ (n + 1) - 1 = n /\ (n - 1) + 1 = n
    BY <1>1 DEF Below
  <2>2. Spot(cap, start', n - 1) = Spot(cap, start, n)
    BY <2>1
  <2> QED BY <1>1, <1>2, <2>1, <2>2
<1>4. Lined(cap)' = Tail(Lined(cap))
  BY <1>1, <1>2, <1>3, IsTail
<1>5. At(dense, start) = Lined(cap)[1]
  <2> DEFINE zero == 0
  <2>1. 1 \in 1 .. size /\ 1 - 1 = zero /\ zero = 0 /\ dense \in [Below(cap) -> Nat] /\ cap \in Nat \ {0}
    BY <1>1 DEF RingArrays, Arrays, Below
  <2>2. zero \in 0 .. cap
    BY <2>1
  <2> HIDE DEF zero
  <2>3. Spot(cap, start, zero) = IF start + zero < cap THEN start + zero ELSE start + zero - cap
    BY <2>1, <2>2, SpotSmall
  <2>4. Spot(cap, start, zero) = start
    BY <2>1, <2>3 DEF Below
  <2>5. Lined(cap)[1] = dense[start]
    BY <1>1, <2>1, <2>4
  <2> QED BY <2>1, <2>5 DEF At
<1>6. Lined(cap) # <<>> /\ Head(Lined(cap)) = Lined(cap)[1]
  BY <1>1
<1> QED BY <1>4, <1>5, <1>6

-----------------------------------------------------------------------------
(* The steps of a queue set.                                               *)

Outcomes == [missing : SUBSET Nat, spoilt : BOOLEAN]

NoOutcome == [missing |-> {}, spoilt |-> FALSE]

(* Who is missed is still in the queue, in a slot that the walk has yet to *)
(* come to, by the start that it has held on to.                           *)
Ahead(cap, m) ==
    \E j \in Below(size), i \in Nat :
        /\ walk.ordinal <= i /\ i < walk.len
        /\ dense[Spot(cap, start, j)] = m
        /\ Spot(cap, start, j) = Spot(cap, walk.frozen, i)

QueueWalk(cap) ==
    /\ walk \in Cursors(Nat)
    /\ since \in Outcomes
    /\ walk.ordinal <= walk.len
    /\ walk.fresh /\ ~spoilt =>
           /\ walk.frozen = start /\ walk.len = size /\ Len(walk.seen) = walk.ordinal
           /\ \A i \in 1 .. walk.ordinal : walk.seen[i] = dense[Spot(cap, start, i - 1)]
           /\ walk.ended => walk.ordinal = size
    /\ ~walk.ended /\ ~since.spoilt => ~spoilt /\ \A m \in since.missing : Ahead(cap, m)
    /\ walk.ended /\ ~since.spoilt => since.missing = {}

QueueInv(cap) ==
    /\ RingArrays(cap)
    /\ ~spoilt => Queued(cap)
    /\ QueueWalk(cap)

LEMMA QueueShut ==
    ASSUME NEW cap, NEW width, NEW bound
    PROVE  Q(cap, width, bound)!Closed = Shut(0)
  BY DEF Q!Closed, Q!OpenCursor, Shut, Opened

LEMMA ShutQueue ==
    /\ Shut(0) \in Cursors(Nat)
    /\ Shut(0).ordinal = 0 /\ Shut(0).len = 0 /\ Shut(0).ended = TRUE /\ Shut(0).fresh = FALSE
<1> DEFINE zero == 0
<1>1. zero \in Nat
  OBVIOUS
<1> HIDE DEF zero
<1>2. /\ Shut(zero) \in Cursors(Nat)
      /\ Shut(zero).ordinal = 0 /\ Shut(zero).len = 0 /\ Shut(zero).ended = TRUE /\ Shut(zero).fresh = FALSE
  BY <1>1, ShutFields
<1> QED BY <1>2 DEF zero

LEMMA QueueCalled ==
    ASSUME NEW cap \in Nat, QueueWalk(cap), NEW history \in Outcomes, spoilt' \in BOOLEAN,
           walk' = IF walk.ended THEN Shut(0) ELSE Quieted(walk),
           since' = IF walk.ended THEN NoOutcome ELSE [history EXCEPT !.spoilt = @ \/ spoilt'],
           ~walk.ended /\ ~history.spoilt /\ ~spoilt' =>
               \A m \in history.missing : \E j \in Below(size'), i \in Nat :
                   /\ walk.ordinal <= i /\ i < walk.len
                   /\ dense'[Spot(cap, start', j)] = m
                   /\ Spot(cap, start', j) = Spot(cap, walk.frozen, i)
    PROVE  QueueWalk(cap)'
<1>1. CASE walk.ended
  <2>1. walk' = Shut(0) /\ since' = NoOutcome
    BY <1>1
  <2>2. walk' \in Cursors(Nat) /\ walk'.ordinal = 0 /\ walk'.len = 0 /\ walk'.ended = TRUE /\ walk'.fresh = FALSE
    BY <2>1, ShutQueue
  <2>3. since' \in Outcomes /\ since'.missing = {}
    BY <2>1 DEF Outcomes, NoOutcome
  <2> QED BY <2>2, <2>3 DEF QueueWalk
<1>2. CASE ~walk.ended
  <2>1. walk' = Quieted(walk) /\ since' = [history EXCEPT !.spoilt = @ \/ spoilt']
    BY <1>2
  <2>2. walk \in Cursors(Nat) /\ walk.ordinal <= walk.len
    BY DEF QueueWalk
  <2>3. /\ walk' \in Cursors(Nat) /\ walk'.ordinal = walk.ordinal /\ walk'.len = walk.len
        /\ walk'.ended = walk.ended /\ walk'.fresh = FALSE /\ walk'.frozen = walk.frozen
    <3>1. /\ Quieted(walk) \in Cursors(Nat) /\ Quieted(walk).ordinal = walk.ordinal
          /\ Quieted(walk).len = walk.len /\ Quieted(walk).ended = walk.ended /\ Quieted(walk).fresh = FALSE
          /\ Quieted(walk).frozen = walk.frozen
      BY <2>2, Quiet
    <3> QED BY <2>1, <3>1
  <2>4. /\ since' \in Outcomes /\ since'.missing = history.missing
        /\ since'.spoilt = (history.spoilt \/ spoilt')
    BY <2>1 DEF Outcomes
  <2>5. ~since'.spoilt => ~spoilt' /\ \A m \in since'.missing : Ahead(cap, m)'
    <3> SUFFICES ASSUME ~since'.spoilt, NEW m \in since'.missing
                 PROVE  ~spoilt' /\ Ahead(cap, m)'
      BY <2>4
    <3>1. ~history.spoilt /\ ~spoilt'
      BY <2>4 DEF Outcomes
    <3>2. PICK j \in Below(size'), i \in Nat :
              /\ walk.ordinal <= i /\ i < walk.len
              /\ dense'[Spot(cap, start', j)] = m
              /\ Spot(cap, start', j) = Spot(cap, walk.frozen, i)
      BY <1>2, <2>4, <3>1
    <3>3. Ahead(cap, m)'
      BY <2>3, <3>2 DEF Ahead, Spot
    <3> QED BY <3>1, <3>3
  <2> QED BY <1>2, <2>2, <2>3, <2>4, <2>5 DEF QueueWalk
<1> QED BY <1>1, <1>2

LEMMA QueueEnqueue ==
    ASSUME NEW cap \in Nat, NEW width \in Nat, cap <= width, NEW bound, NEW m \in Nat,
           QueueInv(cap), Q(cap, width, bound)!Enqueue(m)
    PROVE  QueueInv(cap)'
<1>1. RingArrays(cap) /\ (~spoilt => Queued(cap)) /\ QueueWalk(cap)
  BY DEF QueueInv
<1>2. /\ RingArrays(cap)'
      /\ ~spoilt' => Queued(cap)'
      /\ start' = start
      /\ Awaits(cap, m) => UNCHANGED <<dense, sparse, size, spoilt>>
      /\ ~Awaits(cap, m) =>
             /\ size' = size + 1 /\ spoilt' = (spoilt \/ m >= cap)
             /\ ~spoilt' => \A i \in Below(size) :
                                dense'[Spot(cap, start, i)] = dense[Spot(cap, start, i)]
  BY <1>1, EnqueueStores
<1>3. /\ walk' = IF walk.ended THEN Shut(0) ELSE Quieted(walk)
      /\ since' = IF walk.ended THEN NoOutcome ELSE [since EXCEPT !.spoilt = @ \/ spoilt']
  BY QueueShut DEF Q!Enqueue, Q!Called, Q!Disturbed, Q!Nothing, Quieted, NoOutcome
<1>4. since \in Outcomes /\ spoilt' \in BOOLEAN /\ size \in Nat
  BY <1>1, <1>2 DEF QueueWalk, RingArrays, Arrays
<1>5. ASSUME ~walk.ended, ~since.spoilt, ~spoilt', NEW x \in since.missing
      PROVE  \E j \in Below(size'), i \in Nat :
                 /\ walk.ordinal <= i /\ i < walk.len
                 /\ dense'[Spot(cap, start', j)] = x
                 /\ Spot(cap, start', j) = Spot(cap, walk.frozen, i)
  <2>1. Ahead(cap, x)
    BY <1>1, <1>5 DEF QueueWalk
  <2>2. PICK j \in Below(size), i \in Nat :
            /\ walk.ordinal <= i /\ i < walk.len
            /\ dense[Spot(cap, start, j)] = x
            /\ Spot(cap, start, j) = Spot(cap, walk.frozen, i)
    BY <2>1 DEF Ahead
  <2>3. j \in Below(size') /\ dense'[Spot(cap, start, j)] = x
    BY <1>2, <1>4, <1>5, <2>2 DEF Below
  <2>4. start' = start
    BY <1>2
  <2> QED BY <2>2, <2>3, <2>4
<1>6. QueueWalk(cap)'
  BY <1>1, <1>3, <1>4, <1>5, QueueCalled
<1> QED BY <1>2, <1>6 DEF QueueInv

LEMMA QueueDequeue ==
    ASSUME NEW cap \in Nat, NEW width \in Nat, cap <= width, NEW bound,
           QueueInv(cap), Q(cap, width, bound)!Dequeue
    PROVE  QueueInv(cap)'
<1>1. RingArrays(cap) /\ (~spoilt => Queued(cap)) /\ QueueWalk(cap)
  BY DEF QueueInv
<1>2. /\ RingArrays(cap)'
      /\ ~spoilt' => Queued(cap)' /\ ~spoilt
      /\ dense' = dense
      /\ size = 0 => UNCHANGED <<sparse, start, size, spoilt>>
      /\ size # 0 => /\ size' = size - 1
                     /\ ~spoilt' => /\ start \in Below(cap) /\ cap # 0
                                    /\ \A i \in Below(size') :
                                           Spot(cap, start', i) = Spot(cap, start, i + 1)
  BY <1>1, DequeueStores
<1>3. walk' = IF walk.ended THEN Shut(0) ELSE Quieted(walk)
  BY QueueShut DEF Q!Dequeue, Q!Called, Q!Disturbed, Quieted
<1>4. since \in Outcomes /\ spoilt' \in BOOLEAN /\ size \in Nat
  BY <1>1, <1>2 DEF QueueWalk, RingArrays, Arrays
<1>5. CASE size = 0
  <2>1. since' = IF walk.ended THEN NoOutcome ELSE [since EXCEPT !.spoilt = @ \/ spoilt']
    BY <1>5 DEF Q!Dequeue, Q!Called, Q!Nothing, NoOutcome
  <2>2. ~walk.ended /\ ~since.spoilt => \A m \in since.missing : Ahead(cap, m)
    BY <1>1 DEF QueueWalk
  <2>3. UNCHANGED <<dense, start, size>>
    BY <1>2, <1>5
  <2> QED BY <1>1, <1>2, <1>3, <1>4, <2>1, <2>2, <2>3, QueueCalled DEF QueueInv, Ahead
<1>6. CASE size # 0
  <2> DEFINE member == At(dense, start)
             history == [since EXCEPT !.missing = @ \ {member}]
  <2>1. since' = IF walk.ended THEN NoOutcome ELSE [history EXCEPT !.spoilt = @ \/ spoilt']
    BY <1>6 DEF Q!Dequeue, Q!Called, Q!Nothing, NoOutcome, Q!TryGet, At
  <2>2. history \in Outcomes /\ history.missing = since.missing \ {member} /\ history.spoilt = since.spoilt
    BY <1>4 DEF Outcomes
  <2> HIDE DEF history, member
  <2>3. ASSUME ~walk.ended, ~history.spoilt, ~spoilt', NEW x \in history.missing
        PROVE  \E j \in Below(size'), i \in Nat :
                   /\ walk.ordinal <= i /\ i < walk.len
                   /\ dense'[Spot(cap, start', j)] = x
                   /\ Spot(cap, start', j) = Spot(cap, walk.frozen, i)
    <3>1. Ahead(cap, x) /\ x # member
      BY <1>1, <2>2, <2>3 DEF QueueWalk
    <3>2. PICK j \in Below(size), i \in Nat :
              /\ walk.ordinal <= i /\ i < walk.len
              /\ dense[Spot(cap, start, j)] = x
              /\ Spot(cap, start, j) = Spot(cap, walk.frozen, i)
      BY <3>1 DEF Ahead
    <3>3. j # 0
      <4> SUFFICES ASSUME j = 0 PROVE FALSE
        OBVIOUS
      <4>1. j \in 0 .. cap /\ cap \in Nat \ {0} /\ start \in Below(cap)
        BY <1>2, <1>6, <2>3
      <4>2. Spot(cap, start, j) = IF start + j < cap THEN start + j ELSE start + j - cap
        BY <4>1, SpotSmall
      <4>3. Spot(cap, start, j) = start
        BY <4>1, <4>2 DEF Below
      <4>4. member = dense[start]
        BY <1>1, <4>1 DEF member, At, RingArrays, Arrays
      <4> QED BY <3>1, <3>2, <4>3, <4>4
    <3>4. j - 1 \in Below(size') /\ (j - 1) + 1 = j
      BY <1>2, <1>4, <1>6, <3>3 DEF Below
    <3>5. Spot(cap, start', j - 1) = Spot(cap, start, j)
      BY <1>2, <1>6, <2>3, <3>4
    <3> QED BY <1>2, <3>2, <3>4, <3>5
  <2>4. QueueWalk(cap)'
    BY <1>1, <1>3, <1>4, <2>1, <2>2, <2>3, QueueCalled
  <2> QED BY <1>2, <2>4 DEF QueueInv
<1> QED BY <1>5, <1>6

LEMMA QueueClear ==
    ASSUME NEW cap \in Nat, NEW width \in Nat, NEW bound,
           QueueInv(cap), Q(cap, width, bound)!Clear
    PROVE  QueueInv(cap)'
<1>1. RingArrays(cap) /\ QueueWalk(cap)
  BY DEF QueueInv
<1>2. start' = 0 /\ size' = 0 /\ spoilt' = FALSE /\ UNCHANGED <<dense, sparse>>
  BY DEF Q!Clear
<1>3. RingArrays(cap)'
  <2>1. Arrays(cap)'
    BY <1>1, <1>2 DEF RingArrays, Arrays
  <2>2. start' \in Nat /\ (cap # 0 => start' < cap)
    BY <1>2
  <2> QED BY <2>1, <2>2 DEF RingArrays
<1>4. Queued(cap)'
  <2>1. \A m \in Below(cap) : ~(sparse'[m] < 0)
    BY <1>3 DEF RingArrays, Arrays
  <2> QED BY <1>2, <2>1 DEF Queued, Below
<1>5. walk' = IF walk.ended THEN Shut(0) ELSE Quieted(walk)
  BY QueueShut DEF Q!Clear, Q!Called, Q!Disturbed, Quieted
<1> DEFINE history == [since EXCEPT !.missing = {}]
<1>6. since' = IF walk.ended THEN NoOutcome ELSE [history EXCEPT !.spoilt = @ \/ spoilt']
  BY DEF Q!Clear, Q!Called, Q!Nothing, NoOutcome
<1>7. history \in Outcomes /\ history.missing = {}
  BY <1>1 DEF QueueWalk, Outcomes
<1> HIDE DEF history
<1>8. QueueWalk(cap)'
  BY <1>1, <1>2, <1>5, <1>6, <1>7, QueueCalled
<1> QED BY <1>3, <1>4, <1>8 DEF QueueInv

LEMMA QueueKept ==
    ASSUME NEW cap, QueueInv(cap), UNCHANGED <<dense, sparse, start, size, spoilt>>
    PROVE  RingArrays(cap)' /\ (~spoilt' => Queued(cap)')
  BY DEF QueueInv, RingArrays, Arrays, Queued, Spot

LEMMA QueueOpenWalk ==
    ASSUME NEW cap \in Nat, NEW width \in Nat, NEW bound,
           QueueInv(cap), Q(cap, width, bound)!OpenWalk
    PROVE  QueueInv(cap)'
<1>1. /\ RingArrays(cap) /\ (~spoilt => Queued(cap))
      /\ size \in Nat /\ start \in Nat /\ spoilt \in BOOLEAN
  BY DEF QueueInv, RingArrays, Arrays
<1>2. /\ walk' = Opened(start, size)
      /\ UNCHANGED <<dense, sparse, start, size, spoilt>>
  BY DEF Q!OpenWalk, Q!OpenCursor, Opened
<1>3. since' = [missing |-> {m \in Below(cap) : Awaits(cap, m)}, spoilt |-> spoilt]
  BY QueueHas DEF Q!OpenWalk, Q!Slots, Below
<1>4. /\ walk' \in Cursors(Nat) /\ walk'.ordinal = 0 /\ walk'.len = size /\ walk'.frozen = start
      /\ walk'.ended = FALSE /\ walk'.seen = <<>>
  <2>1. Opened(start, size) \in Cursors(Nat)
    BY <1>1, OpenedFields
  <2> QED BY <1>2, <2>1 DEF Opened
<1>5. /\ since' \in Outcomes /\ since'.missing = {m \in Below(cap) : Awaits(cap, m)}
      /\ since'.spoilt = spoilt
  BY <1>1, <1>3 DEF Outcomes, Below
<1>6. ASSUME ~spoilt, NEW m \in Below(cap), Awaits(cap, m)
      PROVE  Ahead(cap, m)'
  <2>1. m \in Int
    BY DEF Below
  <2>2. PICK j \in Below(size) : dense[Spot(cap, start, j)] = m
    BY <1>1, <1>6, <2>1, AwaitsThere
  <2>3. j \in Nat /\ 0 <= j /\ j < size
    BY <1>1 DEF Below
  <2> QED BY <1>2, <1>4, <2>2, <2>3 DEF Ahead, Spot
<1>7. QueueWalk(cap)'
  <2>1. Len(walk'.seen) = 0
    BY <1>4
  <2> QED BY <1>1, <1>2, <1>4, <1>5, <1>6, <2>1 DEF QueueWalk
<1> QED BY <1>2, <1>7, QueueKept DEF QueueInv

LEMMA QueueStepWalk ==
    ASSUME NEW cap \in Nat, NEW width \in Nat, NEW bound,
           QueueInv(cap), Q(cap, width, bound)!StepWalk
    PROVE  QueueInv(cap)'
<1> DEFINE item == At(dense, Spot(cap, walk.frozen, walk.ordinal))
<1>1. RingArrays(cap) /\ (~spoilt => Queued(cap)) /\ QueueWalk(cap)
  BY DEF QueueInv
<1>2. ~walk.ended /\ UNCHANGED <<dense, sparse, start, size, spoilt>>
  BY DEF Q!StepWalk
<1>3. /\ walk' = Stepped(walk, item)
      /\ since' = IF walk'.ended THEN since ELSE [since EXCEPT !.missing = @ \ {item}]
  BY DEF Q!StepWalk, Q!Report, Q!StepCursor, Q!TryGet, Q!Slot, At, Spot, Stepped
<1>4. /\ walk \in Cursors(Nat) /\ since \in Outcomes
      /\ walk.ordinal \in Nat /\ walk.len \in Nat /\ walk.ordinal <= walk.len /\ walk.seen \in Seq(Nat)
      /\ walk.frozen \in Nat /\ size \in Nat /\ start \in Nat
  BY <1>1 DEF QueueWalk, Cursors, Outcomes, RingArrays, Arrays
<1>5. /\ item \in Nat \cup {None}
      /\ cap # 0 => item = dense[Spot(cap, walk.frozen, walk.ordinal)] /\ item \in Nat
  <2>1. cap # 0 => Spot(cap, walk.frozen, walk.ordinal) \in Below(cap)
    BY <1>4, SpotRange
  <2> QED BY <1>1, <2>1 DEF At, RingArrays, Arrays
<1> HIDE DEF item
<1>6. /\ walk' \in Cursors(Nat) /\ walk'.len = walk.len /\ walk'.fresh = walk.fresh
      /\ walk'.frozen = walk.frozen
      /\ walk.ordinal >= walk.len => /\ walk'.ended = TRUE /\ walk'.ordinal = walk.ordinal
                                     /\ walk.fresh => walk'.seen = walk.seen
      /\ ~(walk.ordinal >= walk.len) => /\ walk'.ended = walk.ended
                                        /\ walk'.ordinal = walk.ordinal + 1
                                        /\ walk.fresh /\ item # None =>
                                               walk'.seen = Append(walk.seen, item)
  BY <1>3, <1>4, <1>5, StepFields
<1>7. ~since.spoilt => ~spoilt /\ \A m \in since.missing : Ahead(cap, m)
  BY <1>1, <1>2 DEF QueueWalk
<1>8. walk.fresh /\ ~spoilt =>
          /\ walk.frozen = start /\ walk.len = size /\ Len(walk.seen) = walk.ordinal
          /\ \A i \in 1 .. walk.ordinal : walk.seen[i] = dense[Spot(cap, start, i - 1)]
  BY <1>1 DEF QueueWalk
<1>9. CASE walk.ordinal >= walk.len
  <2>1. walk.ordinal = walk.len /\ since' = since /\ walk'.ended = TRUE /\ walk'.ordinal = walk.ordinal
    BY <1>3, <1>4, <1>6, <1>9
  <2>2. ~since.spoilt => since.missing = {}
    <3> SUFFICES ASSUME ~since.spoilt, NEW m \in since.missing PROVE FALSE
      OBVIOUS
    <3>1. PICK i \in Nat : walk.ordinal <= i /\ i < walk.len
      BY <1>7 DEF Ahead
    <3> QED BY <1>4, <2>1, <3>1
  <2>3. walk'.fresh /\ ~spoilt' =>
            /\ walk'.frozen = start' /\ walk'.len = size' /\ Len(walk'.seen) = walk'.ordinal
            /\ \A i \in 1 .. walk'.ordinal : walk'.seen[i] = dense'[Spot(cap, start', i - 1)]
            /\ walk'.ended => walk'.ordinal = size'
    BY <1>2, <1>6, <1>8, <1>9, <2>1
  <2>4. QueueWalk(cap)'
    BY <1>2, <1>4, <1>6, <2>1, <2>2, <2>3 DEF QueueWalk
  <2> QED BY <1>2, <2>4, QueueKept DEF QueueInv
<1>10. CASE ~(walk.ordinal >= walk.len)
  <2>1. walk'.ordinal = walk.ordinal + 1 /\ ~walk'.ended /\ walk.ordinal < walk.len
    BY <1>2, <1>4, <1>6, <1>10
  <2>2. since' = [since EXCEPT !.missing = @ \ {item}]
    BY <1>3, <2>1
  <2>3. since' \in Outcomes /\ since'.missing = since.missing \ {item} /\ since'.spoilt = since.spoilt
    BY <1>4, <2>2 DEF Outcomes
  <2>4. ~since'.spoilt => ~spoilt' /\ \A m \in since'.missing : Ahead(cap, m)'
    <3> SUFFICES ASSUME ~since.spoilt, NEW m \in since.missing, m # item
                 PROVE  ~spoilt' /\ Ahead(cap, m)'
      BY <1>2, <1>7, <2>3
    <3>1. PICK j \in Below(size), i \in Nat :
              /\ walk.ordinal <= i /\ i < walk.len
              /\ dense[Spot(cap, start, j)] = m
              /\ Spot(cap, start, j) = Spot(cap, walk.frozen, i)
      BY <1>7 DEF Ahead
    <3>2. cap # 0
      BY <1>1, <1>4, <1>7 DEF Queued, Below
    <3>3. i # walk.ordinal
      BY <1>5, <3>1, <3>2
    <3>4. walk.ordinal + 1 <= i
      BY <1>4, <3>1, <3>3
    <3>5. Ahead(cap, m)'
      BY <1>2, <1>6, <2>1, <3>1, <3>4 DEF Ahead, Spot
    <3> QED BY <1>2, <1>7, <3>5
  <2>5. walk'.fresh /\ ~spoilt' =>
            /\ walk'.frozen = start' /\ walk'.len = size' /\ Len(walk'.seen) = walk'.ordinal
            /\ \A i \in 1 .. walk'.ordinal : walk'.seen[i] = dense'[Spot(cap, start', i - 1)]
    <3> SUFFICES ASSUME walk.fresh, ~spoilt
                 PROVE  /\ walk.frozen = start /\ walk.len = size /\ Len(walk'.seen) = walk.ordinal + 1
                        /\ \A i \in 1 .. walk.ordinal + 1 : walk'.seen[i] = dense[Spot(cap, start, i - 1)]
      BY <1>2, <1>6, <2>1
    <3>1. /\ walk.frozen = start /\ walk.len = size /\ Len(walk.seen) = walk.ordinal
          /\ \A i \in 1 .. walk.ordinal : walk.seen[i] = dense[Spot(cap, start, i - 1)]
      BY <1>8
    <3>2. cap # 0
      BY <1>1, <1>4, <2>1, <3>1 DEF Queued
    <3>3. item \in Nat /\ item # None /\ item = dense[Spot(cap, start, walk.ordinal)]
      BY <1>5, <3>1, <3>2, NoneNoNumber
    <3>4. walk'.seen = Append(walk.seen, item)
      BY <1>6, <1>10, <3>3
    <3>5. /\ Len(walk'.seen) = Len(walk.seen) + 1 /\ walk'.seen[Len(walk.seen) + 1] = item
          /\ \A i \in 1 .. Len(walk.seen) : walk'.seen[i] = walk.seen[i]
      BY <1>4, <3>3, <3>4
    <3>6. ASSUME NEW i \in 1 .. walk.ordinal + 1
          PROVE  walk'.seen[i] = dense[Spot(cap, start, i - 1)]
      <4>1. CASE i = walk.ordinal + 1
        <5>1. i - 1 = walk.ordinal
          BY <1>4, <4>1
        <5> QED BY <3>1, <3>3, <3>5, <4>1, <5>1
      <4>2. CASE i # walk.ordinal + 1
        <5>1. i \in 1 .. walk.ordinal
          BY <1>4, <4>2
        <5> QED BY <3>1, <3>5, <5>1
      <4> QED BY <4>1, <4>2
    <3> QED BY <3>1, <3>5, <3>6
  <2>6. walk'.ordinal <= walk'.len
    BY <1>4, <1>6, <2>1
  <2>7. QueueWalk(cap)'
    BY <1>6, <2>1, <2>3, <2>4, <2>5, <2>6 DEF QueueWalk
  <2> QED BY <1>2, <2>7, QueueKept DEF QueueInv
<1> QED BY <1>9, <1>10

LEMMA QueueInit ==
    ASSUME NEW cap \in Nat, NEW width \in Nat, NEW bound, Q(cap, width, bound)!Init
    PROVE  QueueInv(cap) /\ Lined(cap) = <<>> /\ call = [op |-> "new", answer |-> None] /\ spoilt = FALSE
<1>1. /\ dense = [s \in Below(cap) |-> 0] /\ sparse = [m \in Below(cap) |-> 0]
      /\ start = 0 /\ size = 0 /\ spoilt = FALSE /\ call = [op |-> "new", answer |-> None]
      /\ walk = Shut(0) /\ since = NoOutcome
  BY QueueShut DEF Q!Init, Q!Slots, Q!Nothing, Below, NoOutcome
<1>2. RingArrays(cap)
  <2>1. Arrays(cap)
    BY <1>1 DEF Arrays
  <2>2. start \in Nat /\ (cap # 0 => start < cap)
    BY <1>1
  <2> QED BY <2>1, <2>2 DEF RingArrays
<1>3. Queued(cap)
  <2>1. \A m \in Below(cap) : ~(sparse[m] < 0)
    BY <1>1
  <2> QED BY <1>1, <2>1 DEF Queued, Below
<1>4. QueueWalk(cap)
  <2>1. walk \in Cursors(Nat) /\ walk.ordinal = 0 /\ walk.len = 0 /\ walk.ended = TRUE /\ walk.fresh = FALSE
    BY <1>1, ShutQueue
  <2>2. since \in Outcomes /\ since.missing = {}
    BY <1>1 DEF Outcomes, NoOutcome
  <2> QED BY <2>1, <2>2 DEF QueueWalk
<1>5. Lined(cap) = <<>>
  BY <1>1 DEF Lined
<1> QED BY <1>1, <1>2, <1>3, <1>4, <1>5 DEF QueueInv

LEMMA QueueStep ==
    ASSUME NEW cap \in Nat, NEW width \in Nat, cap <= width, NEW bound,
           QueueInv(cap), Q(cap, width, bound)!Next
    PROVE  QueueInv(cap)'
<1>1. InRange \subseteq Nat
  BY IntegerSetsAssumption DEF InRange
<1> QED BY <1>1, QueueEnqueue, QueueDequeue, QueueClear, QueueOpenWalk, QueueStepWalk DEF Q!Next

LEMMA QueuePromise ==
    ASSUME NEW cap \in Nat, NEW width \in Nat, cap <= width, NEW bound,
           QueueInv(cap), QueueInv(cap)', Q(cap, width, bound)!Next,
           Content = Lined(cap), Content' = Lined(cap)'
    PROVE  Set!Next \/ UNCHANGED setVars
<1>1. RingArrays(cap) /\ RingArrays(cap)' /\ (~spoilt => Queued(cap)) /\ (~spoilt' => Queued(cap)')
  BY DEF QueueInv
<1>2. \A m \in InRange : m \in Nat /\ m \in Int
  BY IntegerSetsAssumption DEF InRange
<1>3. ASSUME NEW m \in InRange, Q(cap, width, bound)!Enqueue(m)
      PROVE  Set!Next
  <2>1. /\ call' = [op |-> "add", answer |-> ~Awaits(cap, m)]
        /\ start' = start
        /\ Awaits(cap, m) => UNCHANGED <<dense, sparse, size, spoilt>>
        /\ ~Awaits(cap, m) =>
               /\ size' = size + 1 /\ spoilt' = (spoilt \/ m >= cap)
               /\ ~spoilt' => /\ dense'[Spot(cap, start, size)] = m
                              /\ \A i \in Below(size) :
                                     dense'[Spot(cap, start, i)] = dense[Spot(cap, start, i)]
    BY <1>1, <1>2, <1>3, EnqueueStores
  <2>2. CASE spoilt'
    BY <2>1, <2>2, SetSpoils
  <2>3. CASE ~spoilt'
    <3>1. ~spoilt
      <4>1. CASE Awaits(cap, m)
        BY <2>1, <2>3, <4>1
      <4>2. CASE ~Awaits(cap, m)
        BY <2>1, <2>3, <4>2, Zenon
      <4> QED BY <4>1, <4>2
    <3>2. Awaits(cap, m) <=> Holds(m)
      BY <1>1, <1>2, <3>1, AwaitsHeld DEF Holds
    <3>3. call' = [op |-> "add", answer |-> ~Holds(m)]
      <4>1. Awaits(cap, m) = Holds(m)
        BY <3>2 DEF Awaits, Holds
      <4> QED BY <2>1, <4>1
    <3>4. CASE Awaits(cap, m)
      <4>1. Content' = Content
        BY <2>1, <3>4 DEF Lined, Spot
      <4> QED BY <2>3, <3>1, <3>2, <3>3, <3>4, <4>1, SetAdds
    <3>5. CASE ~Awaits(cap, m)
      <4>1. Content' = Append(Content, m)
        <5>1. Lined(cap)' = Append(Lined(cap), m)
          BY <1>1, <1>2, <2>1, <2>3, <3>1, <3>5, EnqueueLists
        <5> QED BY <5>1
      <4> QED BY <2>3, <3>1, <3>2, <3>3, <3>5, <4>1, SetAdds
    <3> QED BY <3>4, <3>5
  <2> QED BY <2>2, <2>3
<1>4. ASSUME Q(cap, width, bound)!Dequeue
      PROVE  Set!Next
  <2>1. /\ ~spoilt' => ~spoilt
        /\ dense' = dense
        /\ size = 0 => /\ UNCHANGED <<sparse, start, size, spoilt>>
                       /\ call' = [op |-> "dequeue", answer |-> None]
        /\ size # 0 => /\ size' = size - 1
                       /\ call' = [op |-> "dequeue", answer |-> At(dense, start)]
                       /\ ~spoilt' => /\ start \in Below(cap)
                                      /\ \A i \in Below(size') :
                                             Spot(cap, start', i) = Spot(cap, start, i + 1)
    BY <1>1, <1>4, DequeueStores
  <2>2. CASE spoilt'
    <3>1. call'.op = "dequeue"
      BY <2>1
    <3> QED BY <2>2, <3>1, SetSpoils
  <2>3. CASE ~spoilt'
    <3>1. ~spoilt
      BY <2>1, <2>3
    <3>2. CASE size = 0
      <4>1. Content' = Content
        BY <2>1, <3>2 DEF Lined, Spot
      <4>2. Content = <<>>
        BY <3>2 DEF Lined
      <4>3. call' = [op |-> "dequeue", answer |-> None]
        BY <2>1, <3>2
      <4> QED BY <2>3, <3>1, <4>1, <4>2, <4>3, SetDequeues
    <3>3. CASE size # 0
      <4>1. /\ Lined(cap) # <<>> /\ Lined(cap)' = Tail(Lined(cap))
            /\ At(dense, start) = Head(Lined(cap))
        BY <1>1, <2>1, <2>3, <3>1, <3>3, DequeueLists
      <4>2. /\ Content # <<>> /\ Content' = Tail(Content)
            /\ call' = [op |-> "dequeue", answer |-> Head(Content)]
        BY <2>1, <3>3, <4>1
      <4> QED BY <2>3, <3>1, <4>2, SetDequeues
    <3> QED BY <3>2, <3>3
  <2> QED BY <2>2, <2>3
<1>5. ASSUME Q(cap, width, bound)!Clear
      PROVE  Set!Next
  <2>1. size' = 0 /\ spoilt' = FALSE /\ call' = [op |-> "clear", answer |-> None]
    BY <1>5 DEF Q!Clear, Q!Called
  <2>2. Content' = <<>>
    BY <2>1 DEF Lined
  <2> QED BY <2>1, <2>2, SetClears
<1>6. ASSUME Q(cap, width, bound)!OpenWalk \/ Q(cap, width, bound)!StepWalk
      PROVE  UNCHANGED setVars
  <2>1. UNCHANGED <<dense, start, size, call, spoilt>>
    BY <1>6 DEF Q!OpenWalk, Q!StepWalk
  <2>2. Content' = Content
    BY <2>1 DEF Lined, Spot
  <2> QED BY <2>1, <2>2, SetStutters
<1> QED BY <1>3, <1>4, <1>5, <1>6 DEF Q!Next

LEMMA QueueWalks ==
    ASSUME NEW cap \in Nat, QueueInv(cap), Content = Lined(cap)
    PROVE  /\ ~spoilt /\ walk.fresh =>
                  IF walk.ended THEN walk.seen = Content ELSE IsPrefix(walk.seen, Content)
           /\ walk.ended => since.missing = {} \/ since.spoilt
<1>1. RingArrays(cap) /\ (~spoilt => Queued(cap)) /\ QueueWalk(cap)
  BY DEF QueueInv
<1>2. ASSUME ~spoilt, walk.fresh
      PROVE  IF walk.ended THEN walk.seen = Content ELSE IsPrefix(walk.seen, Content)
  <2>1. /\ Lined(cap) \in Seq(Nat) /\ Len(Lined(cap)) = size /\ size \in Nat
        /\ \A n \in 1 .. size : Lined(cap)[n] = dense[Spot(cap, start, n - 1)]
    BY <1>1, <1>2, LinedSeq DEF Queued, RingArrays, Arrays
  <2>2. /\ walk.seen \in Seq(Nat) /\ walk.ordinal <= walk.len /\ walk.len = size /\ Len(walk.seen) = walk.ordinal
        /\ \A i \in 1 .. walk.ordinal : walk.seen[i] = dense[Spot(cap, start, i - 1)]
        /\ walk.ended => walk.ordinal = size
    BY <1>1, <1>2 DEF QueueWalk, Cursors
  <2>3. Len(walk.seen) <= Len(Lined(cap)) /\ \A i \in 1 .. Len(walk.seen) : walk.seen[i] = Lined(cap)[i]
    <3>1. Len(walk.seen) \in Nat /\ Len(walk.seen) <= size
      BY <2>2
    <3>2. ASSUME NEW i \in 1 .. Len(walk.seen)
          PROVE  walk.seen[i] = Lined(cap)[i]
      <4>1. i \in 1 .. size /\ i \in 1 .. walk.ordinal
        BY <2>1, <2>2, <3>1
      <4> QED BY <2>1, <2>2, <4>1
    <3> QED BY <2>1, <3>1, <3>2
  <2>4. walk.ended => Len(walk.seen) = Len(Lined(cap))
    BY <2>1, <2>2
  <2>5. IF walk.ended THEN walk.seen = Lined(cap) ELSE IsPrefix(walk.seen, Lined(cap))
    <3> DEFINE all == Lined(cap)
               seen == walk.seen
    <3>1. /\ all \in Seq(Nat) /\ seen \in Seq(Nat) /\ Len(seen) <= Len(all)
          /\ \A i \in 1 .. Len(seen) : seen[i] = all[i]
          /\ walk.ended => Len(seen) = Len(all)
      BY <2>1, <2>2, <2>3, <2>4
    <3> HIDE DEF all, seen
    <3>2. IF walk.ended THEN seen = all ELSE IsPrefix(seen, all)
      BY <3>1, FreshSeen
    <3> QED BY <3>2 DEF all, seen
  <2> QED BY <2>5
<1>3. walk.ended => since.missing = {} \/ since.spoilt
  BY <1>1 DEF QueueWalk
<1> QED BY <1>2, <1>3

-----------------------------------------------------------------------------
(* Words and positions.                                                    *)

Positions == 0 .. WordBits - 1

Words(n) == [Below(n) -> SUBSET Positions]

LEMMA WordsNotNone ==
    /\ \A word \in SUBSET Positions : word # None
    /\ \A n \in 0 .. MaxCapacity : \A array \in Words(n) : array # None
  BY IntegerSetsAssumption DEF Positions, Words, Below

LEMMA Division ==
    ASSUME NEW i \in Int
    PROVE  /\ (i \div WordBits) \in Int /\ (i % WordBits) \in Positions
           /\ i = ((i \div WordBits) * WordBits) + (i % WordBits)
  BY IntegerSetsAssumption DEF Positions

LEMMA DivisionOf ==
    ASSUME NEW q \in Nat, NEW r \in Positions
    PROVE  ((q * WordBits) + r) % WordBits = r /\ ((q * WordBits) + r) \div WordBits = q
<1>1. WordBits \in Nat \ {0} /\ r \in 0 .. WordBits - 1
  BY IntegerSetsAssumption DEF Positions
<1> QED BY <1>1

LEMMA Scaled ==
    ASSUME NEW n \in Nat, NEW m \in Nat
    PROVE  /\ n <= n * WordBits
           /\ n * WordBits < m * WordBits => n < m
           /\ n * WordBits = m * WordBits => n = m
<1>1. WordBits \in Nat /\ WordBits >= 1
  BY IntegerSetsAssumption
<1>2. n * WordBits < m * WordBits => n < m
  <2>1. SUFFICES ASSUME m <= n PROVE m * WordBits <= n * WordBits
    BY <1>1
  <2>2. PICK d \in Nat : n = m + d
    <3>1. n - m \in Nat /\ n = m + (n - m)
      BY <2>1
    <3> QED BY <3>1
  <2>3. n * WordBits = m * WordBits + d * WordBits /\ d * WordBits >= 0
    BY <1>1, <2>2
  <2> QED BY <1>1, <2>3
<1>3. n * WordBits = m * WordBits => n = m
  <2>1. SUFFICES ASSUME n # m PROVE n * WordBits # m * WordBits
    OBVIOUS
  <2>2. (n - m) * WordBits # 0
    BY <1>1, <2>1
  <2> QED BY <1>1, <2>2
<1>4. n <= n * WordBits
  BY <1>1
<1> QED BY <1>2, <1>3, <1>4

WordsOf(bits) == (bits + WordBits - 1) \div WordBits

LEMMA WordsEnough ==
    ASSUME NEW bits \in Nat
    PROVE  WordsOf(bits) \in Nat /\ WordsOf(bits) <= bits
<1>1. WordBits \in Nat \ {0}
  BY IntegerSetsAssumption
<1> DEFINE q == WordsOf(bits)
           a == bits + WordBits - 1
<1>2. a \in Nat
  BY <1>1
<1>3. q \in Nat /\ (a % WordBits) \in Nat /\ a = (q * WordBits) + (a % WordBits)
  <2>1. q = a \div WordBits
    BY DEF WordsOf
  <2> HIDE DEF a, q
  <2> QED BY <1>1, <1>2, <2>1
<1>4. q <= bits
  <2> SUFFICES ASSUME q >= bits + 1 PROVE FALSE
    BY <1>3
  <2> HIDE DEF q
  <2>1. (bits + 1) * WordBits <= q * WordBits
    <3>1. PICK d \in Nat : q = (bits + 1) + d
      <4>1. q - (bits + 1) \in Nat /\ q = (bits + 1) + (q - (bits + 1))
        BY <1>3
      <4> QED BY <4>1
    <3>2. q * WordBits = (bits + 1) * WordBits + d * WordBits /\ d * WordBits >= 0
      BY <1>1, <3>1
    <3> QED BY <1>1, <3>2
  <2>2. (bits + 1) * WordBits = bits * WordBits + WordBits /\ bits * WordBits \in Nat
    BY <1>1
  <2>3. bits <= bits * WordBits
    BY Scaled
  <2> QED BY <1>1, <1>3, <2>1, <2>2, <2>3
<1> QED BY <1>3, <1>4

LEMMA WordsCover ==
    ASSUME NEW bits \in Nat
    PROVE  bits <= WordsOf(bits) * WordBits
<1>1. WordBits \in Nat \ {0}
  BY IntegerSetsAssumption
<1> DEFINE q == WordsOf(bits)
           a == bits + WordBits - 1
<1>2. a \in Nat
  BY <1>1
<1>3. q \in Nat /\ (a % WordBits) \in 0 .. WordBits - 1 /\ a = (q * WordBits) + (a % WordBits)
  <2>1. q = a \div WordBits
    BY DEF WordsOf
  <2> HIDE DEF a, q
  <2> QED BY <1>1, <1>2, <2>1
<1> DEFINE r == a % WordBits
           p == q * WordBits
<1>4. p \in Nat /\ r \in 0 .. WordBits - 1 /\ bits + WordBits - 1 = p + r
  BY <1>1, <1>3
<1> HIDE DEF r, p
<1>5. bits <= p
  BY <1>1, <1>4
<1> QED BY <1>5 DEF p

LEMMA WordsExact ==
    ASSUME NEW n \in Nat
    PROVE  WordsOf(n * WordBits) = n
<1>1. WordBits \in Nat \ {0} /\ WordBits - 1 \in Positions
  BY IntegerSetsAssumption DEF Positions
<1>2. n * WordBits + WordBits - 1 = (n * WordBits) + (WordBits - 1)
  BY <1>1
<1>3. ((n * WordBits) + (WordBits - 1)) \div WordBits = n
  BY <1>1, DivisionOf
<1> QED BY <1>2, <1>3 DEF WordsOf

LEMMA CountOf ==
    ASSUME NEW n \in Nat, NEW array, DOMAIN array = Below(n)
    PROVE  Cardinality(DOMAIN array) = n
<1>1. Cardinality(0 .. n - 1) = n
  BY FS_Interval
<1> QED BY <1>1 DEF Below

-----------------------------------------------------------------------------
(* Walks over bits.                                                        *)

BitOf(word, i) == IF i % WordBits \in word THEN 1 ELSE 0

Bit(array, i) ==
    IF i \div WordBits \in DOMAIN array /\ i % WordBits \in array[i \div WordBits] THEN 1 ELSE 0

Mark(at, len, held, loaded, was, honest) ==
    [at |-> at, len |-> len, held |-> held, loaded |-> loaded, was |-> was, honest |-> honest]

Still == Mark(0, 0, None, None, <<>>, TRUE)

Held(w, array) == IF w.held = None THEN array ELSE w.held

(* For every index a walk has yet to come to, the array it holds has a bit *)
(* that was there since it opened, and so does the word it is in the midst *)
(* of, which may be older than the array.                                  *)
Honest(w, held) ==
    /\ w = Mark(w.at, w.len, w.held, w.loaded, w.was, w.honest)
    /\ w.honest = TRUE
    /\ w.at \in Nat /\ w.len \in Nat /\ w.at <= w.len
    /\ DOMAIN w.was = w.at .. w.len - 1
    /\ \E n \in 0 .. MaxCapacity : held \in Words(n) /\ w.len <= n * WordBits
    /\ \A i \in w.at .. w.len - 1 : Bit(held, i) \in w.was[i]
    /\ w.loaded # None /\ w.at % WordBits # 0 =>
           \A i \in w.at .. w.len - 1 :
               i \div WordBits = w.at \div WordBits => BitOf(w.loaded, i) \in w.was[i]

Count == Cardinality(DOMAIN dense)

BitState ==
    /\ Count \in 0 .. MaxCapacity
    /\ dense \in Words(Count)
    /\ start \in Nat

BitInv == BitState /\ Honest(walk, Held(walk, dense))

Touched(w, array) ==
    Mark(w.at, w.len, w.held, w.loaded,
         [i \in DOMAIN w.was |-> w.was[i] \cup {Bit(array, i)}], w.honest)

Left(w, array) ==
    IF w.held = None /\ w # Still THEN Mark(w.at, w.len, array, w.loaded, w.was, w.honest) ELSE w

After(w, array) == IF w.at = w.len THEN Still ELSE Touched(w, array)

LEMMA MarkFields ==
    ASSUME NEW at, NEW len, NEW held, NEW loaded, NEW was, NEW honest
    PROVE  LET w == Mark(at, len, held, loaded, was, honest)
           IN  /\ w.at = at /\ w.len = len /\ w.held = held /\ w.loaded = loaded /\ w.was = was
               /\ w.honest = honest
               /\ w = Mark(w.at, w.len, w.held, w.loaded, w.was, w.honest)
  BY DEF Mark

LEMMA StillHonest ==
    ASSUME NEW n \in 0 .. MaxCapacity, NEW array \in Words(n)
    PROVE  Honest(Still, array) /\ Held(Still, array) = array
<1>1. /\ Still.at = 0 /\ Still.len = 0 /\ Still.held = None /\ Still.loaded = None /\ Still.was = <<>>
      /\ Still = Mark(Still.at, Still.len, Still.held, Still.loaded, Still.was, Still.honest)
      /\ Still.honest = TRUE
  BY DEF Still, Mark
<1>2. DOMAIN <<>> = 0 .. 0 - 1
  OBVIOUS
<1>3. n * WordBits >= 0
  BY IntegerSetsAssumption
<1> QED BY <1>1, <1>2, <1>3 DEF Honest, Held

LEMMA TouchedHonest ==
    ASSUME NEW w, NEW held, Honest(w, held), NEW now, NEW next,
           \/ next = held
           \/ next = now /\ \A n \in 0 .. MaxCapacity : held \in Words(n) => now \in Words(n)
    PROVE  Honest(Touched(w, now), next)
<1> DEFINE was == [i \in DOMAIN w.was |-> w.was[i] \cup {Bit(now, i)}]
           t == Touched(w, now)
<1>1. /\ t.at = w.at /\ t.len = w.len /\ t.held = w.held /\ t.loaded = w.loaded
      /\ t.was = was /\ t.honest = w.honest
      /\ t = Mark(t.at, t.len, t.held, t.loaded, t.was, t.honest)
  BY MarkFields DEF Touched
<1>2. w.honest = TRUE
  BY DEF Honest
<1>3. /\ DOMAIN w.was = w.at .. w.len - 1 /\ DOMAIN was = w.at .. w.len - 1
      /\ \A i \in w.at .. w.len - 1 : was[i] = w.was[i] \cup {Bit(now, i)}
  BY DEF Honest
<1> HIDE DEF was, t
<1>4. \A i \in w.at .. w.len - 1 : Bit(next, i) \in was[i]
  BY <1>3 DEF Honest
<1>5. \E n \in 0 .. MaxCapacity : next \in Words(n) /\ w.len <= n * WordBits
  BY DEF Honest
<1>6. w.loaded # None /\ w.at % WordBits # 0 =>
          \A i \in w.at .. w.len - 1 :
              i \div WordBits = w.at \div WordBits => BitOf(w.loaded, i) \in was[i]
  BY <1>3 DEF Honest
<1>7. w.at \in Nat /\ w.len \in Nat /\ w.at <= w.len
  BY DEF Honest
<1>8. Honest(t, next)
  BY <1>1, <1>2, <1>3, <1>4, <1>5, <1>6, <1>7 DEF Honest
<1> QED BY <1>8 DEF t

LEMMA CountWords ==
    ASSUME BitState
    PROVE  /\ dense # None
           /\ \A n \in 0 .. MaxCapacity : dense \in Words(n) => n = Count
<1>1. dense # None
  BY WordsNotNone DEF BitState
<1>2. ASSUME NEW n \in 0 .. MaxCapacity, dense \in Words(n)
      PROVE  n = Count
  <2>1. DOMAIN dense = Below(n)
    BY <1>2 DEF Words
  <2> QED BY <2>1, CountOf DEF Count
<1> QED BY <1>1, <1>2

(* The words change in place, or a walk is left behind with the old ones.  *)
LEMMA KeepsWalk ==
    ASSUME BitInv, BitState', Count' = Count, walk' = After(walk, dense')
    PROVE  BitInv'
<1>1. Count' \in 0 .. MaxCapacity /\ dense' \in Words(Count')
  BY DEF BitState
<1>2. CASE walk.at = walk.len
  <2>1. walk' = Still
    BY <1>2 DEF After
  <2> QED BY <1>1, <2>1, StillHonest DEF BitInv
<1>3. CASE walk.at # walk.len
  <2>1. walk' = Touched(walk, dense')
    BY <1>3 DEF After
  <2>2. walk'.held = walk.held
    BY <2>1, MarkFields DEF Touched
  <2>3. \/ Held(walk', dense') = Held(walk, dense)
        \/ Held(walk', dense') = dense' /\ Held(walk, dense) = dense
    BY <2>2 DEF Held
  <2>4. \A n \in 0 .. MaxCapacity : dense \in Words(n) => dense' \in Words(n)
    BY <1>1, CountWords DEF BitInv
  <2>5. Honest(Touched(walk, dense'), Held(walk', dense'))
    BY <2>3, <2>4, TouchedHonest DEF BitInv
  <2> QED BY <2>1, <2>5 DEF BitInv
<1> QED BY <1>2, <1>3

LEMMA LeavesWalk ==
    ASSUME BitInv, BitState', walk' = After(Left(walk, dense), dense')
    PROVE  BitInv'
<1>1. Count' \in 0 .. MaxCapacity /\ dense' \in Words(Count')
  BY DEF BitState
<1> DEFINE w == Left(walk, dense)
<1>2. /\ w.at = walk.at /\ w.len = walk.len /\ w.was = walk.was /\ w.loaded = walk.loaded
      /\ w.honest = walk.honest
      /\ w = Mark(w.at, w.len, w.held, w.loaded, w.was, w.honest)
      /\ walk # Still => w.held = Held(walk, dense) /\ w.held # None
  <2>1. walk = Mark(walk.at, walk.len, walk.held, walk.loaded, walk.was, walk.honest)
    BY DEF BitInv, Honest
  <2>2. dense # None
    BY CountWords DEF BitInv
  <2>3. CASE walk.held = None /\ walk # Still
    <3>1. w = Mark(walk.at, walk.len, dense, walk.loaded, walk.was, walk.honest)
      BY <2>3 DEF Left
    <3> HIDE DEF w
    <3> QED BY <2>2, <2>3, <3>1, MarkFields DEF Held
  <2>4. CASE ~(walk.held = None /\ walk # Still)
    <3>1. w = walk
      BY <2>4 DEF Left
    <3> QED BY <2>1, <2>4, <3>1 DEF Held
  <2> QED BY <2>3, <2>4
<1> HIDE DEF w
<1>3. CASE walk.at = walk.len
  <2>1. walk' = Still
    BY <1>2, <1>3 DEF After, w
  <2> QED BY <1>1, <2>1, StillHonest DEF BitInv
<1>4. CASE walk.at # walk.len
  <2>1. walk # Still
    <3>1. Still.at = 0 /\ Still.len = 0
      BY DEF Still, Mark
    <3> QED BY <1>4, <3>1
  <2>2. walk' = Touched(w, dense')
    BY <1>2, <1>4 DEF After, w
  <2>3. Honest(w, w.held)
    <3>1. Honest(walk, w.held)
      BY <1>2, <2>1 DEF BitInv
    <3> QED BY <1>2, <3>1 DEF Honest
  <2>4. Held(walk', dense') = w.held
    BY <1>2, <2>1, <2>2, MarkFields DEF Held, Touched
  <2>5. Honest(Touched(w, dense'), w.held)
    BY <2>3, TouchedHonest
  <2> QED BY <2>2, <2>4, <2>5 DEF BitInv
<1> QED BY <1>3, <1>4

LEMMA BitsWalked ==
    ASSUME NEW w, w = Mark(w.at, w.len, w.held, w.loaded, w.was, w.honest)
    PROVE  /\ Bits!Walk(w) \/ Vector!Walk(w) => walk' = After(w, dense')
           /\ Bits!LeftBehind(w) = Left(w, dense)
           /\ Vector!LeftBehind(w) = Left(w, dense)
           /\ Bits!Closed = Still /\ Vector!Closed = Still
<1>1. Bits!Closed = Still /\ Vector!Closed = Still
  BY DEF Bits!Closed, Vector!Closed, Still, Mark
<1>2. Bits!Disturbed(w) = Touched(w, dense') /\ Vector!Disturbed(w) = Touched(w, dense')
  <2>1. [w EXCEPT !.was = [i \in DOMAIN @ |-> @[i] \cup {Bit(dense', i)}]] = Touched(w, dense')
    BY DEF Touched, Mark
  <2> QED BY <2>1 DEF Bits!Disturbed, Vector!Disturbed, Bits!BitIn, Vector!BitIn, Bit
<1>3. [w EXCEPT !.held = dense] = Mark(w.at, w.len, dense, w.loaded, w.was, w.honest)
  BY DEF Mark
<1>4. Bits!LeftBehind(w) = Left(w, dense) /\ Vector!LeftBehind(w) = Left(w, dense)
  BY <1>1, <1>3 DEF Bits!LeftBehind, Vector!LeftBehind, Left
<1>5. Bits!Walk(w) \/ Vector!Walk(w) => walk' = After(w, dense')
  BY <1>1, <1>2 DEF Bits!Walk, Vector!Walk, After
<1> QED BY <1>1, <1>4, <1>5

LEMMA LeftMark ==
    ASSUME NEW w, w = Mark(w.at, w.len, w.held, w.loaded, w.was, w.honest), NEW array
    PROVE  LET v == Left(w, array) IN v = Mark(v.at, v.len, v.held, v.loaded, v.was, v.honest)
  BY MarkFields DEF Left

(* A word of the array is another.                                         *)
LEMMA WordPut ==
    ASSUME BitState, start' = start,
           \/ dense' = dense
           \/ \E w \in DOMAIN dense, word \in SUBSET Positions : dense' = [dense EXCEPT ![w] = word]
    PROVE  BitState' /\ Count' = Count
<1>1. Count \in 0 .. MaxCapacity /\ dense \in Words(Count) /\ start \in Nat
  BY DEF BitState
<1>2. dense' \in Words(Count)
  BY <1>1 DEF Words
<1>3. Count' = Count
  <2>1. DOMAIN dense' = DOMAIN dense
    BY <1>1, <1>2 DEF Words
  <2> QED BY <2>1 DEF Count
<1> QED BY <1>1, <1>2, <1>3 DEF BitState

LEMMA BitsPut ==
    ASSUME BitInv, NEW i \in Int, NEW value \in BOOLEAN,
           \/ Bits!SetBit(i, value) \/ Bits!FlipBit(i) \/ Bits!ResetBit(i)
           \/ Vector!SetBit(i, value) \/ Vector!FlipBit(i) \/ Vector!ResetBit(i)
    PROVE  BitInv' /\ Count' = Count /\ UNCHANGED <<vals, start>>
<1>1. BitState /\ walk = Mark(walk.at, walk.len, walk.held, walk.loaded, walk.was, walk.honest)
  BY DEF BitInv, Honest
<1> DEFINE w == i \div WordBits
           b == i % WordBits
<1>2. b \in Positions /\ \A v \in DOMAIN dense : dense[v] \in SUBSET Positions
  BY <1>1, Division DEF BitState, Words
<1> HIDE DEF w, b
<1>3. \A v \in DOMAIN dense : /\ dense[v] \cup {b} \in SUBSET Positions
                              /\ dense[v] \ {b} \in SUBSET Positions
  BY <1>2
<1>4. /\ UNCHANGED <<vals, start>> /\ walk' = After(walk, dense')
      /\ \/ dense' = dense
         \/ w \in DOMAIN dense /\ \/ dense' = [dense EXCEPT ![w] = dense[w] \cup {b}]
                                  \/ dense' = [dense EXCEPT ![w] = dense[w] \ {b}]
  <2>1. CASE Bits!SetBit(i, value)
    <3>1. walk' = After(walk, dense') /\ UNCHANGED <<vals, start>>
      BY <1>1, <2>1, BitsWalked DEF Bits!SetBit
    <3> QED BY <2>1, <3>1 DEF Bits!SetBit, w, b
  <2>2. CASE Vector!SetBit(i, value)
    <3>1. walk' = After(walk, dense') /\ UNCHANGED <<vals, start>>
      BY <1>1, <2>2, BitsWalked DEF Vector!SetBit
    <3> QED BY <2>2, <3>1 DEF Vector!SetBit, w, b
  <2>3. CASE Bits!FlipBit(i)
    <3>1. walk' = After(walk, dense') /\ UNCHANGED <<vals, start>>
      BY <1>1, <2>3, BitsWalked DEF Bits!FlipBit
    <3> QED BY <2>3, <3>1 DEF Bits!FlipBit, w, b
  <2>4. CASE Vector!FlipBit(i)
    <3>1. walk' = After(walk, dense') /\ UNCHANGED <<vals, start>>
      BY <1>1, <2>4, BitsWalked DEF Vector!FlipBit
    <3> QED BY <2>4, <3>1 DEF Vector!FlipBit, w, b
  <2>5. CASE Bits!ResetBit(i)
    <3>1. walk' = After(walk, dense') /\ UNCHANGED <<vals, start>>
      BY <1>1, <2>5, BitsWalked DEF Bits!ResetBit
    <3> QED BY <2>5, <3>1 DEF Bits!ResetBit, w, b
  <2>6. CASE Vector!ResetBit(i)
    <3>1. walk' = After(walk, dense') /\ UNCHANGED <<vals, start>>
      BY <1>1, <2>6, BitsWalked DEF Vector!ResetBit
    <3> QED BY <2>6, <3>1 DEF Vector!ResetBit, w, b
  <2> QED BY <2>1, <2>2, <2>3, <2>4, <2>5, <2>6
<1>5. BitState' /\ Count' = Count
  <2>1. \/ dense' = dense
        \/ \E v \in DOMAIN dense, word \in SUBSET Positions : dense' = [dense EXCEPT ![v] = word]
    BY <1>3, <1>4
  <2> QED BY <1>1, <1>4, <2>1, WordPut
<1> QED BY <1>4, <1>5, KeepsWalk

LEMMA BitsOpenWalk ==
    ASSUME BitInv, Bits!OpenWalk \/ Vector!OpenWalk
    PROVE  BitInv' /\ UNCHANGED <<dense, vals, start>>
<1>1. BitState /\ walk = Mark(walk.at, walk.len, walk.held, walk.loaded, walk.was, walk.honest)
  BY DEF BitInv, Honest
<1> DEFINE rest == IF start % WordBits = 0 THEN WordBits ELSE start % WordBits
           len == IF Count = 0 THEN 0 ELSE (Count - 1) * WordBits + rest
           was == [i \in 0 .. len - 1 |-> {Bit(dense, i)}]
           nothing == None
           zero == 0
           true == TRUE
<1>2. UNCHANGED <<dense, start, vals>>
  BY DEF Bits!OpenWalk, Vector!OpenWalk
<1>3. len \in Nat /\ len <= Count * WordBits
  <2>1. rest \in 1 .. WordBits /\ WordBits \in Nat \ {0} /\ Count \in Nat
    BY <1>1, Division, IntegerSetsAssumption DEF BitState, Positions
  <2> HIDE DEF rest
  <2>2. CASE Count # 0
    <3>1. (Count - 1) * WordBits \in Nat /\ Count * WordBits = (Count - 1) * WordBits + WordBits
      BY <2>1, <2>2
    <3> QED BY <2>1, <2>2, <3>1
  <2>3. CASE Count = 0
    BY <2>1, <2>3
  <2> QED BY <2>2, <2>3
<1>4. walk' = Mark(zero, len, nothing, nothing, was, true)
  <2>1. Bits!WalkLen = len /\ Vector!WalkLen = len
    <3>1. (Count - 1) + 1 = Count
      BY <1>1 DEF BitState
    <3>2. Bits!WordCount = Count /\ Vector!WordCount = Count
      <4>1. Bits!Cardinality(DOMAIN dense) = Count /\ Vector!Cardinality(DOMAIN dense) = Count
        BY DEF Bits!Cardinality, Vector!Cardinality, Cardinality, Count
      <4> QED BY <4>1 DEF Bits!WordCount, Vector!WordCount
    <3>3. Bits!BitsInWord(Count - 1) = rest /\ Vector!BitsInWord(Count - 1) = rest
      BY <3>1, <3>2, Zenon DEF Bits!BitsInWord, Vector!BitsInWord
    <3> HIDE DEF rest
    <3> QED BY <3>2, <3>3, Zenon DEF Bits!WalkLen, Vector!WalkLen
  <2> HIDE DEF len
  <2>2. walk' = [Still EXCEPT !.len = len, !.was = was]
    BY <1>1, <2>1, BitsWalked DEF Bits!OpenWalk, Vector!OpenWalk, Bits!GetBit, Vector!GetBit,
                                  Bits!BitIn, Vector!BitIn, Bit
  <2> HIDE DEF was
  <2> QED BY <2>2 DEF Still, Mark
<1> HIDE DEF len, was, nothing, zero, true
<1>5. /\ walk'.at = zero /\ walk'.len = len /\ walk'.held = nothing /\ walk'.loaded = nothing
      /\ walk'.was = was /\ walk'.honest = true
      /\ walk' = Mark(walk'.at, walk'.len, walk'.held, walk'.loaded, walk'.was, walk'.honest)
  BY <1>4, MarkFields
<1>6. DOMAIN was = 0 .. len - 1 /\ \A i \in 0 .. len - 1 : was[i] = {Bit(dense, i)}
  BY DEF was
<1>7. Honest(walk', dense)
  <2>1. Count \in 0 .. MaxCapacity /\ dense \in Words(Count)
    BY <1>1 DEF BitState
  <2> QED BY <1>3, <1>5, <1>6, <2>1 DEF Honest, zero, nothing, true
<1>8. Held(walk', dense') = dense
  BY <1>2, <1>5 DEF Held, nothing
<1>9. BitState'
  BY <1>1, <1>2 DEF BitState, Count
<1> QED BY <1>2, <1>7, <1>8, <1>9 DEF BitInv

LEMMA BitsStepWalk ==
    ASSUME BitInv, Bits!StepWalk \/ Vector!StepWalk
    PROVE  BitInv' /\ UNCHANGED <<dense, vals, start>>
<1> DEFINE held == Held(walk, dense)
           at == walk.at
           q == at \div WordBits
           word == IF walk.loaded = None \/ at % WordBits = 0 THEN held[q] ELSE walk.loaded
           was == [i \in DOMAIN walk.was \ {at} |-> walk.was[i]]
           honest == BitOf(word, at) \in walk.was[at]
           next == at + 1
<1>1. BitState /\ walk = Mark(walk.at, walk.len, walk.held, walk.loaded, walk.was, walk.honest)
      /\ Honest(walk, held)
  BY DEF BitInv, Honest
<1>2. UNCHANGED <<dense, start, vals>> /\ at < walk.len
  BY DEF Bits!StepWalk, Vector!StepWalk
<1>3. walk' = Mark(next, walk.len, walk.held, word, was, honest)
  <2>1. walk' = [walk EXCEPT !.at = @ + 1, !.loaded = word,
                             !.was = [i \in DOMAIN @ \ {walk.at} |-> @[i]],
                             !.honest = BitOf(word, at) \in walk.was[walk.at]]
    BY DEF Bits!StepWalk, Vector!StepWalk, Bits!Load, Vector!Load, Held, BitOf
  <2> HIDE DEF held, word
  <2> QED BY <1>1, <2>1 DEF Mark
<1> HIDE DEF held, word, was, honest, next
<1>4. /\ walk'.at = next /\ walk'.len = walk.len /\ walk'.held = walk.held /\ walk'.loaded = word
      /\ walk'.was = was /\ walk'.honest = honest
      /\ walk' = Mark(walk'.at, walk'.len, walk'.held, walk'.loaded, walk'.was, walk'.honest)
  BY <1>3, MarkFields
<1>5. PICK n \in 0 .. MaxCapacity : held \in Words(n) /\ walk.len <= n * WordBits
  BY <1>1 DEF Honest
<1>6. /\ at \in Nat /\ walk.len \in Nat /\ at \in at .. walk.len - 1 /\ q \in Nat /\ next = at + 1
      /\ at = (q * WordBits) + (at % WordBits) /\ (at % WordBits) \in Positions
  <2>1. at \in Nat /\ walk.len \in Nat /\ next = at + 1
    BY <1>1 DEF Honest, next
  <2>2. q \in Nat
    BY <2>1, IntegerSetsAssumption
  <2> QED BY <1>2, <2>1, <2>2, Division
<1>7. q \in DOMAIN held
  <2>1. q * WordBits < n * WordBits
    <3> DEFINE p == at % WordBits
               s == q * WordBits
               all == n * WordBits
               len == walk.len
    <3> HIDE DEF q
    <3>1. s \in Nat /\ all \in Nat /\ p \in Nat /\ len \in Nat
      BY <1>5, <1>6, IntegerSetsAssumption DEF Positions
    <3>2. at = s + p /\ at < len /\ len <= all
      BY <1>2, <1>5, <1>6
    <3> HIDE DEF p, s, all, len, at
    <3>3. s < all
      BY <3>1, <3>2
    <3> QED BY <3>3 DEF s, all
  <2>2. q < n
    BY <1>5, <1>6, <2>1, Scaled
  <2> QED BY <1>5, <1>6, <2>2 DEF Words, Below
<1>8. \A i \in at .. walk.len - 1 : i \div WordBits = q => BitOf(word, i) \in walk.was[i]
  <2>1. CASE walk.loaded = None \/ at % WordBits = 0
    <3>1. word = held[q]
      BY <2>1 DEF word
    <3>2. ASSUME NEW i \in at .. walk.len - 1, i \div WordBits = q
          PROVE  BitOf(word, i) \in walk.was[i]
      <4>1. Bit(held, i) = BitOf(word, i)
        BY <1>7, <3>1, <3>2 DEF Bit, BitOf
      <4> QED BY <1>1, <4>1 DEF Honest
    <3> QED BY <3>2
  <2>2. CASE ~(walk.loaded = None \/ at % WordBits = 0)
    BY <1>1, <2>2 DEF Honest, word
  <2> QED BY <2>1, <2>2
<1>9. honest = TRUE
  <2>1. at \div WordBits = q
    OBVIOUS
  <2>2. BitOf(word, at) \in walk.was[at]
    BY <1>6, <1>8, <2>1
  <2> QED BY <2>2 DEF honest
<1>10. /\ DOMAIN was = next .. walk.len - 1
       /\ \A i \in next .. walk.len - 1 : was[i] = walk.was[i] /\ i \in at .. walk.len - 1
  <2>1. DOMAIN walk.was = at .. walk.len - 1
    BY <1>1 DEF Honest
  <2>2. (at .. walk.len - 1) \ {at} = next .. walk.len - 1
    BY <1>6
  <2> QED BY <1>6, <2>1, <2>2 DEF was
<1>11. Honest(walk', held)
  <2>1. \A i \in next .. walk.len - 1 : Bit(held, i) \in was[i]
    BY <1>1, <1>10 DEF Honest
  <2>2. ASSUME next % WordBits # 0, NEW i \in next .. walk.len - 1, i \div WordBits = next \div WordBits
        PROVE  BitOf(word, i) \in was[i]
    <3> DEFINE r == (at % WordBits) + 1
    <3> HIDE DEF q
    <3>1. next = (q * WordBits) + r /\ r \in 1 .. WordBits /\ WordBits \in Nat \ {0}
      <4> DEFINE p == at % WordBits
                 s == q * WordBits
      <4>1. WordBits \in Nat \ {0} /\ p \in 0 .. WordBits - 1 /\ s \in Nat
        BY <1>6, IntegerSetsAssumption DEF Positions
      <4>2. at = s + p /\ next = at + 1 /\ r = p + 1
        BY <1>6
      <4> HIDE DEF p, s, r, at
      <4>3. next = s + r /\ r \in 1 .. WordBits
        BY <4>1, <4>2
      <4> QED BY <4>1, <4>3 DEF s
    <3> HIDE DEF r
    <3>2. r \in Positions
      <4> SUFFICES ASSUME r = WordBits PROVE FALSE
        BY <3>1 DEF Positions
      <4> DEFINE zero == 0
                 more == q + 1
      <4>1. next = (more * WordBits) + zero /\ more \in Nat /\ zero \in Positions
        <5>1. (q + 1) * WordBits = q * WordBits + WordBits /\ q * WordBits \in Nat
          BY <1>6, <3>1
        <5>2. zero \in Positions
          BY <3>1 DEF Positions
        <5> QED BY <1>6, <3>1, <5>1, <5>2
      <4>2. zero = 0
        OBVIOUS
      <4> HIDE DEF zero, more
      <4>3. next % WordBits = zero
        BY <4>1, DivisionOf
      <4> QED BY <2>2, <4>2, <4>3
    <3>3. next \div WordBits = q
      BY <1>6, <3>1, <3>2, DivisionOf
    <3> QED BY <1>8, <1>10, <2>2, <3>3
  <2>3. next \in Nat /\ next <= walk.len
    BY <1>2, <1>6
  <2> QED BY <1>4, <1>5, <1>6, <1>9, <1>10, <2>1, <2>2, <2>3 DEF Honest
<1>12. Held(walk', dense') = held
  BY <1>2, <1>4 DEF Held, held
<1>13. BitState'
  BY <1>1, <1>2 DEF BitState, Count
<1> QED BY <1>2, <1>11, <1>12, <1>13 DEF BitInv

LEMMA ZeroedWords ==
    ASSUME NEW n \in 0 .. MaxCapacity, dense' = [w \in 0 .. n - 1 |-> {}], start' \in Nat
    PROVE  BitState' /\ Count' = n
<1>1. dense' \in Words(n) /\ DOMAIN dense' = Below(n) /\ n \in Nat
  BY DEF Words, Below
<1>2. Count' = n
  BY <1>1, CountOf DEF Count
<1> QED BY <1>1, <1>2 DEF BitState

LEMMA BitsClear ==
    ASSUME BitInv, WordsOf(start) \in 0 .. MaxCapacity, Bits!Clear
    PROVE  BitInv' /\ start' = start
<1>1. BitState /\ walk = Mark(walk.at, walk.len, walk.held, walk.loaded, walk.was, walk.honest)
  BY DEF BitInv, Honest
<1>2. start' = start /\ dense' = [w \in 0 .. WordsOf(start) - 1 |-> {}]
  BY DEF Bits!Clear, Bits!Zeroed, Bits!WordsFor, WordsOf
<1>3. walk' = After(Left(walk, dense), dense')
  <2> DEFINE v == Left(walk, dense)
  <2>1. v = Mark(v.at, v.len, v.held, v.loaded, v.was, v.honest)
    BY <1>1, LeftMark
  <2>2. Bits!LeftBehind(walk) = v
    BY <1>1, BitsWalked
  <2> HIDE DEF v
  <2>3. Bits!Walk(v)
    BY <2>2 DEF Bits!Clear
  <2>4. walk' = After(v, dense')
    BY <2>1, <2>3, BitsWalked
  <2> QED BY <2>4 DEF v
<1>4. BitState'
  <2> DEFINE n == WordsOf(start)
  <2>1. n \in 0 .. MaxCapacity /\ dense' = [w \in 0 .. n - 1 |-> {}] /\ start' \in Nat
    BY <1>1, <1>2 DEF BitState
  <2> HIDE DEF n
  <2> QED BY <2>1, ZeroedWords
<1> QED BY <1>2, <1>3, <1>4, LeavesWalk

LEMMA BitsInit ==
    ASSUME Bits!Init
    PROVE  /\ BitInv /\ WordsOf(start) \in 0 .. MaxCapacity /\ vals = Count * WordBits
<1> DEFINE n == WordsOf(start)
<1>1. /\ start \in 0 .. MaxCapacity /\ dense = [w \in 0 .. n - 1 |-> {}]
      /\ vals = n * WordBits
  BY DEF Bits!Init, Bits!Zeroed, Bits!WordsFor, WordsOf
<1>2. n \in 0 .. MaxCapacity
  <2>1. WordsOf(start) \in Nat /\ WordsOf(start) <= start
    BY <1>1, WordsEnough
  <2> QED BY <1>1, <2>1, IntegerSetsAssumption
<1> HIDE DEF n
<1>3. dense \in Words(n) /\ DOMAIN dense = Below(n)
  BY <1>1 DEF Words, Below
<1>4. Count = n
  BY <1>2, <1>3, CountOf DEF Count
<1>5. BitState
  BY <1>1, <1>2, <1>3, <1>4 DEF BitState
<1>6. walk = Still
  BY DEF Bits!Init, Bits!Closed, Still, Mark
<1>7. Honest(walk, Held(walk, dense))
  BY <1>2, <1>3, <1>6, StillHonest
<1> QED BY <1>1, <1>2, <1>4, <1>5, <1>7 DEF BitInv, n

LEMMA BitsStep ==
    ASSUME BitInv, WordsOf(start) \in 0 .. MaxCapacity, Bits!Next
    PROVE  BitInv' /\ start' = start
<1>1. Bits!Indices \subseteq Int
  BY DEF Bits!Indices
<1>2. CASE \E i \in Bits!Indices, value \in BOOLEAN : Bits!SetBit(i, value)
  BY <1>1, <1>2, BitsPut
<1>3. CASE \E i \in Bits!Indices : Bits!ResetBit(i) \/ Bits!FlipBit(i)
  <2>1. PICK i \in Int : Bits!ResetBit(i) \/ Bits!FlipBit(i)
    BY <1>1, <1>3
  <2>2. TRUE \in BOOLEAN
    OBVIOUS
  <2> QED BY <2>1, <2>2, BitsPut
<1>4. CASE Bits!Clear
  BY <1>4, BitsClear
<1>5. CASE Bits!OpenWalk
  BY <1>5, BitsOpenWalk
<1>6. CASE Bits!StepWalk
  BY <1>6, BitsStepWalk
<1>7. ~Bits!Grow /\ \A n \in 0 .. MaxCapacity : ~Bits!Reallocate(n) /\ ~Bits!GrowTo(n) /\ ~Bits!Resize(n)
  BY DEF Bits!Grow, Bits!Reallocate, Bits!GrowTo, Bits!Resize
<1>8. ~Bits!Pop /\ \A value \in BOOLEAN : ~Bits!Push(value)
  BY DEF Bits!Pop, Bits!Push
<1> QED BY <1>2, <1>3, <1>4, <1>5, <1>6, <1>7, <1>8 DEF Bits!Next

-----------------------------------------------------------------------------
(* The vector.                                                             *)

Grows(target, c) ==
    IF c >= target THEN c
    ELSE WordsOf(IF (3 * c + 1) \div 2 > 1 THEN (3 * c + 1) \div 2 ELSE 1) * WordBits

Growth(target, t, f) == f = [n \in 0 .. t |-> IF n = 0 THEN vals ELSE Grows(target, f[n - 1])]

LEMMA GrowsNat ==
    ASSUME NEW target \in Nat, NEW c \in Nat
    PROVE  Grows(target, c) \in Nat
<1> DEFINE bits == IF (3 * c + 1) \div 2 > 1 THEN (3 * c + 1) \div 2 ELSE 1
<1>1. bits \in Nat
  OBVIOUS
<1> HIDE DEF bits
<1>2. WordsOf(bits) \in Nat /\ WordBits \in Nat
  BY <1>1, WordsEnough, IntegerSetsAssumption
<1>3. WordsOf(bits) * WordBits \in Nat
  BY <1>2
<1> QED BY <1>3 DEF Grows, bits

LEMMA GrowthIs ==
    ASSUME NEW target \in Nat
    PROVE  \A t \in Nat : \E f : Growth(target, t, f)
<1> DEFINE S == {t \in Nat : ~ \E f : Growth(target, t, f)}
<1> SUFFICES ASSUME S # {} PROVE FALSE
  OBVIOUS
<1>1. PICK t \in S : \A j \in S : ~(j < t)
  <2>1. S \in SUBSET Nat
    OBVIOUS
  <2> HIDE DEF S
  <2> QED BY <2>1, Least
<1>2. t \in Nat /\ ~ \E f : Growth(target, t, f)
  OBVIOUS
<1>3. CASE t = 0
  <2> DEFINE f == [n \in 0 .. t |-> vals]
  <2>1. \A n \in 0 .. t : n = 0
    BY <1>3
  <2>2. f = [n \in 0 .. t |-> IF n = 0 THEN vals ELSE Grows(target, f[n - 1])]
    BY <2>1
  <2> QED BY <1>2, <2>2 DEF Growth
<1>4. CASE t # 0
  <2>1. t - 1 \in Nat /\ t - 1 < t
    BY <1>2, <1>4
  <2>2. PICK f : Growth(target, t - 1, f)
    BY <1>1, <2>1
  <2> DEFINE g == [n \in 0 .. t |-> IF n = t THEN Grows(target, f[t - 1]) ELSE f[n]]
  <2>3. \A n \in 0 .. t - 1 : f[n] = IF n = 0 THEN vals ELSE Grows(target, f[n - 1])
    BY <2>2 DEF Growth
  <2>4. ASSUME NEW n \in 0 .. t
        PROVE  g[n] = IF n = 0 THEN vals ELSE Grows(target, g[n - 1])
    <3>1. CASE n = t
      <4>1. g[n] = Grows(target, f[t - 1]) /\ n - 1 \in 0 .. t /\ n - 1 # t
        BY <1>2, <1>4, <3>1
      <4>2. g[n - 1] = f[t - 1]
        BY <3>1, <4>1
      <4> QED BY <1>4, <3>1, <4>1, <4>2
    <3>2. CASE n # t
      <4>1. n \in 0 .. t - 1 /\ g[n] = f[n]
        BY <1>2, <3>2
      <4>2. n # 0 => n - 1 \in 0 .. t /\ n - 1 # t
        BY <1>2, <4>1
      <4>3. n # 0 => g[n - 1] = f[n - 1]
        BY <4>2
      <4> QED BY <2>3, <4>1, <4>3
    <3> QED BY <3>1, <3>2
  <2>5. g = [n \in 0 .. t |-> g[n]]
    OBVIOUS
  <2> HIDE DEF g
  <2>6. g = [n \in 0 .. t |-> IF n = 0 THEN vals ELSE Grows(target, g[n - 1])]
    BY <2>4, <2>5
  <2> QED BY <1>2, <2>6 DEF Growth
<1> QED BY <1>3, <1>4

LEMMA GrowthNat ==
    ASSUME NEW target \in Nat, vals \in Nat, NEW f, Growth(target, target, f)
    PROVE  f[target] \in Nat
<1>1. \A n \in 0 .. target : f[n] = IF n = 0 THEN vals ELSE Grows(target, f[n - 1])
  BY DEF Growth
<1> DEFINE S == {n \in 0 .. target : f[n] \notin Nat}
<1> SUFFICES ASSUME S # {} PROVE FALSE
  OBVIOUS
<1>2. PICK n \in S : \A j \in S : ~(j < n)
  <2>1. S \in SUBSET Nat
    OBVIOUS
  <2> HIDE DEF S
  <2> QED BY <2>1, Least
<1>3. n \in 0 .. target /\ f[n] \notin Nat /\ n \in Nat
  OBVIOUS
<1>4. n # 0
  BY <1>1, <1>3
<1>5. n - 1 \in 0 .. target /\ n - 1 < n
  BY <1>3, <1>4
<1>6. f[n - 1] \in Nat
  BY <1>2, <1>5
<1> QED BY <1>1, <1>3, <1>4, <1>6, GrowsNat

LEMMA GrownToNat ==
    ASSUME NEW target \in Nat, vals \in Nat
    PROVE  Vector!GrownTo(target) \in Nat
<1> DEFINE f == CHOOSE g : Growth(target, target, g)
<1>1. Vector!GrownTo(target) = f[target]
  BY DEF Vector!GrownTo, Growth, Grows, Vector!ApplyPolicy, Vector!RoundUp, Vector!WordsFor, WordsOf,
         Vector!DefaultPolicy, Vector!Greater
<1>2. Growth(target, target, f)
  BY GrowthIs
<1> HIDE DEF f
<1> QED BY <1>1, <1>2, GrowthNat

VectorInv == BitInv /\ vals = Count * WordBits

LEMMA ResizedWords ==
    ASSUME BitState, NEW bits \in Nat, WordsOf(bits) * WordBits <= MaxCapacity
    PROVE  /\ WordsOf(bits) \in 0 .. MaxCapacity
           /\ Vector!Resized(bits) \in Words(WordsOf(bits))
<1> DEFINE n == WordsOf(bits)
<1>1. n \in Nat
  BY WordsEnough
<1> HIDE DEF n
<1>2. n * WordBits <= MaxCapacity
  BY DEF n
<1>3. n <= n * WordBits /\ n * WordBits \in Nat
  BY <1>1, Scaled, IntegerSetsAssumption
<1>4. n \in 0 .. MaxCapacity
  BY <1>1, <1>2, <1>3, IntegerSetsAssumption
<1>5. Vector!Resized(bits) = [w \in Below(n) |-> IF w \in DOMAIN dense THEN dense[w] ELSE {}]
  BY DEF Vector!Resized, Vector!WordsFor, WordsOf, n, Below
<1>6. \A w \in DOMAIN dense : dense[w] \in SUBSET Positions
  BY DEF BitState, Words
<1>7. Vector!Resized(bits) \in Words(n)
  BY <1>5, <1>6 DEF Words
<1> QED BY <1>4, <1>7 DEF n

(* Where the count of words stays the walk stays with them.                *)
LEMMA VectorMoves ==
    ASSUME VectorInv, NEW n \in 0 .. MaxCapacity, dense' \in Words(n), vals' = n * WordBits, start' \in Nat,
           \/ walk' = After(Left(walk, dense), dense')
           \/ walk' = After(walk, dense') /\ n = Count
    PROVE  VectorInv'
<1>1. DOMAIN dense' = Below(n) /\ n \in Nat
  BY DEF Words
<1>2. Count' = n
  BY <1>1, CountOf DEF Count
<1>3. BitState'
  BY <1>2 DEF BitState
<1>4. BitInv'
  <2>1. CASE walk' = After(Left(walk, dense), dense')
    BY <1>3, <2>1, LeavesWalk DEF VectorInv
  <2>2. CASE walk' = After(walk, dense') /\ n = Count
    BY <1>2, <1>3, <2>2, KeepsWalk DEF VectorInv
  <2> QED BY <2>1, <2>2
<1> QED BY <1>2, <1>4 DEF VectorInv

LEMMA VectorWalked ==
    ASSUME VectorInv
    PROVE  /\ Vector!Walk(walk) => walk' = After(walk, dense')
           /\ Vector!Walk(Vector!LeftBehind(walk)) => walk' = After(Left(walk, dense), dense')
<1> DEFINE v == Left(walk, dense)
<1>1. walk = Mark(walk.at, walk.len, walk.held, walk.loaded, walk.was, walk.honest)
  BY DEF VectorInv, BitInv, Honest
<1>2. v = Mark(v.at, v.len, v.held, v.loaded, v.was, v.honest)
  BY <1>1, LeftMark
<1>3. Vector!LeftBehind(walk) = v
  BY <1>1, BitsWalked
<1> HIDE DEF v
<1>4. Vector!Walk(v) => walk' = After(v, dense')
  BY <1>2, BitsWalked
<1>5. Vector!Walk(walk) => walk' = After(walk, dense')
  BY <1>1, BitsWalked
<1> QED BY <1>3, <1>4, <1>5 DEF v

LEMMA VectorReallocate ==
    ASSUME VectorInv, NEW bits \in Nat, NEW len \in Nat, Vector!ReallocateTo(bits, len)
    PROVE  VectorInv'
<1> DEFINE n == WordsOf(bits)
<1>1. BitState /\ vals = Count * WordBits /\ Count \in Nat
  BY DEF VectorInv, BitInv, BitState
<1>2. Vector!RoundUp(bits) = n * WordBits
  BY DEF Vector!RoundUp, Vector!WordsFor, WordsOf
<1>3. n * WordBits <= MaxCapacity /\ vals' = n * WordBits /\ dense' = Vector!Resized(bits)
  BY <1>2 DEF Vector!ReallocateTo
<1>4. start' \in Nat
  BY DEF Vector!ReallocateTo
<1>5. n \in 0 .. MaxCapacity /\ dense' \in Words(n)
  BY <1>1, <1>3, ResizedWords
<1> HIDE DEF n
<1>6. \/ walk' = After(Left(walk, dense), dense')
      \/ walk' = After(walk, dense') /\ n * WordBits = vals
  <2>1. Vector!Walk(IF n * WordBits = vals THEN walk ELSE Vector!LeftBehind(walk))
    BY <1>2 DEF Vector!ReallocateTo
  <2>2. CASE n * WordBits = vals
    BY <2>1, <2>2, VectorWalked
  <2>3. CASE n * WordBits # vals
    BY <2>1, <2>3, VectorWalked
  <2> QED BY <2>2, <2>3
<1>7. n * WordBits = vals => n = Count
  BY <1>1, <1>5, Scaled
<1> QED BY <1>3, <1>4, <1>5, <1>6, <1>7, VectorMoves

LEMMA VectorStays ==
    ASSUME VectorInv, dense' = dense, vals' = vals, start' \in Nat, Vector!Walk(walk)
    PROVE  VectorInv'
<1>1. Count \in 0 .. MaxCapacity /\ dense \in Words(Count) /\ vals = Count * WordBits
  BY DEF VectorInv, BitInv, BitState
<1>2. walk' = After(walk, dense')
  BY VectorWalked
<1> DEFINE n == Count
<1>3. n \in 0 .. MaxCapacity /\ dense' \in Words(n) /\ vals' = n * WordBits /\ n = Count
  BY <1>1
<1> HIDE DEF n
<1> QED BY <1>2, <1>3, VectorMoves

LEMMA CapacityNat ==
    ASSUME VectorInv
    PROVE  vals \in Nat /\ start \in Nat /\ Count \in Nat
  BY IntegerSetsAssumption DEF VectorInv, BitInv, BitState

LEMMA PolicyNat ==
    ASSUME NEW c \in Nat
    PROVE  Vector!ApplyPolicy(c) \in Nat
<1> DEFINE bits == Vector!DefaultPolicy(c)
<1>1. bits \in Nat
  BY DEF Vector!DefaultPolicy, Vector!Greater
<1> HIDE DEF bits
<1>2. WordsOf(bits) \in Nat /\ WordBits \in Nat
  BY <1>1, WordsEnough, IntegerSetsAssumption
<1>3. WordsOf(bits) * WordBits \in Nat
  BY <1>2
<1> QED BY <1>3 DEF Vector!ApplyPolicy, Vector!RoundUp, Vector!WordsFor, WordsOf, bits

LEMMA VectorGrow ==
    ASSUME VectorInv, Vector!Grow
    PROVE  VectorInv'
<1>1. CASE Vector!Refused
  BY <1>1, VectorStays, CapacityNat DEF Vector!Refused
<1>2. CASE Vector!ReallocateTo(Vector!ApplyPolicy(vals), start)
  <2>1. Vector!ApplyPolicy(vals) \in Nat /\ start \in Nat
    BY CapacityNat, PolicyNat
  <2> QED BY <1>2, <2>1, VectorReallocate
<1> QED BY <1>1, <1>2 DEF Vector!Grow

LEMMA VectorGrowTo ==
    ASSUME VectorInv, NEW target \in Nat, Vector!GrowTo(target)
    PROVE  VectorInv'
<1>1. CASE Vector!Refused
  BY <1>1, VectorStays, CapacityNat DEF Vector!Refused
<1>2. CASE Vector!ReallocateTo(Vector!GrownTo(target), start)
  <2>1. Vector!GrownTo(target) \in Nat /\ start \in Nat
    BY CapacityNat, GrownToNat
  <2> QED BY <1>2, <2>1, VectorReallocate
<1> QED BY <1>1, <1>2 DEF Vector!GrowTo

LEMMA VectorResize ==
    ASSUME VectorInv, NEW len \in Nat, Vector!Resize(len)
    PROVE  VectorInv'
<1>1. CASE len <= start
  BY <1>1, VectorStays DEF Vector!Resize
<1>2. CASE ~(len <= start)
  BY <1>2, VectorReallocate DEF Vector!Resize
<1> QED BY <1>1, <1>2

LEMMA VectorPop ==
    ASSUME VectorInv, Vector!Pop
    PROVE  VectorInv'
<1>1. start' \in Nat
  BY CapacityNat DEF Vector!Pop
<1> QED BY <1>1, VectorStays DEF Vector!Pop

LEMMA VectorPush ==
    ASSUME VectorInv, NEW value \in BOOLEAN, Vector!Push(value)
    PROVE  VectorInv'
<1> DEFINE full == vals = start
           bits == IF full THEN Vector!ApplyPolicy(vals) ELSE vals
           grown == Vector!Resized(bits)
           n == WordsOf(bits)
           b == start % WordBits
           w == start \div WordBits
<1>1. BitState /\ vals = Count * WordBits /\ Count \in Nat /\ vals \in Nat /\ start \in Nat
  BY CapacityNat DEF VectorInv, BitInv
<1>2. CASE full /\ Vector!Refused
  BY <1>1, <1>2, VectorStays DEF Vector!Refused
<1>3. CASE ~(full /\ Vector!Refused)
  <2>1. /\ Vector!Cardinality(DOMAIN grown) * WordBits <= MaxCapacity
        /\ vals' = Vector!Cardinality(DOMAIN grown) * WordBits
        /\ start' = start + 1
        /\ dense' = (IF value THEN [grown EXCEPT ![w] = @ \cup {b}] ELSE grown)
        /\ Vector!Walk(IF full THEN Vector!LeftBehind(walk) ELSE walk)
    BY <1>3 DEF Vector!Push
  <2>2. bits \in Nat
    BY <1>1, PolicyNat
  <2>3. ~full => n = Count
    BY <1>1, WordsExact
  <2>4. b \in Positions
    BY <1>1, Division
  <2>5. DOMAIN grown = Below(n) /\ n \in Nat
    <3>1. n \in Nat
      BY <2>2, WordsEnough
    <3> QED BY <3>1 DEF Vector!Resized, Vector!WordsFor, WordsOf, Below
  <2>6. Vector!Cardinality(DOMAIN grown) = n
    <3>1. Vector!Cardinality(DOMAIN grown) = Cardinality(DOMAIN grown)
      BY DEF Vector!Cardinality, Cardinality
    <3> HIDE DEF grown, n
    <3> QED BY <2>5, <3>1, CountOf
  <2>7. n * WordBits <= MaxCapacity /\ vals' = n * WordBits
    BY <2>1, <2>6
  <2>8. n \in 0 .. MaxCapacity /\ grown \in Words(n)
    <3> HIDE DEF bits
    <3> QED BY <1>1, <2>2, <2>7, ResizedWords
  <2>9. walk' = After(Left(walk, dense), dense') \/ (walk' = After(walk, dense') /\ n = Count)
    <3> HIDE DEF n
    <3> QED BY <2>1, <2>3, VectorWalked
  <2> HIDE DEF grown, n, b, w
  <2>10. dense' \in Words(n)
    <3>1. CASE value
      <4>1. dense' = [grown EXCEPT ![w] = grown[w] \cup {b}]
        BY <2>1, <3>1
      <4>2. w \in Below(n) => grown[w] \cup {b} \in SUBSET Positions
        BY <2>4, <2>8 DEF Words
      <4> QED BY <2>8, <4>1, <4>2 DEF Words
    <3>2. CASE ~value
      BY <2>1, <2>8, <3>2
    <3> QED BY <3>1, <3>2
  <2>11. start' \in Nat
    BY <1>1, <2>1
  <2> QED BY <2>7, <2>8, <2>9, <2>10, <2>11, VectorMoves
<1> QED BY <1>2, <1>3

LEMMA VectorStep ==
    ASSUME VectorInv, Vector!Next
    PROVE  VectorInv'
<1>1. Vector!Indices \subseteq Int
  BY DEF Vector!Indices
<1>2. BitInv /\ vals = Count * WordBits
  BY DEF VectorInv
<1>3. CASE \E i \in Vector!Indices, value \in BOOLEAN : Vector!SetBit(i, value)
  <2>1. BitInv' /\ Count' = Count /\ vals' = vals
    BY <1>1, <1>2, <1>3, BitsPut
  <2> QED BY <1>2, <2>1 DEF VectorInv
<1>4. CASE \E i \in Vector!Indices : Vector!ResetBit(i) \/ Vector!FlipBit(i)
  <2>1. PICK i \in Int : Vector!ResetBit(i) \/ Vector!FlipBit(i)
    BY <1>1, <1>4
  <2>2. TRUE \in BOOLEAN
    OBVIOUS
  <2>3. BitInv' /\ Count' = Count /\ vals' = vals
    BY <1>2, <2>1, <2>2, BitsPut
  <2> QED BY <1>2, <2>3 DEF VectorInv
<1>5. ~Vector!Clear
  BY DEF Vector!Clear
<1>6. ASSUME NEW n \in 0 .. MaxCapacity, Vector!Reallocate(n) \/ Vector!GrowTo(n) \/ Vector!Resize(n)
      PROVE  VectorInv'
  <2>1. n \in Nat /\ start \in Nat
    BY CapacityNat
  <2>2. CASE Vector!Reallocate(n)
    BY <2>1, <2>2, VectorReallocate DEF Vector!Reallocate
  <2> QED BY <1>6, <2>1, <2>2, VectorGrowTo, VectorResize
<1>7. CASE Vector!OpenWalk \/ Vector!StepWalk
  <2>1. BitInv' /\ UNCHANGED <<dense, vals>>
    BY <1>2, <1>7, BitsOpenWalk, BitsStepWalk
  <2> QED BY <1>2, <2>1 DEF VectorInv, Count
<1> QED BY <1>3, <1>4, <1>5, <1>6, <1>7, VectorGrow, VectorPush, VectorPop DEF Vector!Next

-----------------------------------------------------------------------------
(* What is set in the words, and what a word comes to as a number.         *)

IsReading(word, top, t, f) ==
    f = [n \in 1 .. t |-> IF n = 1 THEN IF WordBits - 1 \in word THEN top ELSE 0
                          ELSE 2 * f[n - 1] + IF WordBits - n \in word THEN 1 ELSE 0]

Read(word, top) == (CHOOSE f : IsReading(word, top, WordBits, f))[WordBits]

LEMMA ReadingExists ==
    ASSUME NEW word, NEW top
    PROVE  \A t \in Nat : \E f : IsReading(word, top, t, f)
<1> DEFINE S == {t \in Nat : ~ \E f : IsReading(word, top, t, f)}
           Digit(n) == IF WordBits - n \in word THEN 1 ELSE 0
           First == IF WordBits - 1 \in word THEN top ELSE 0
<1> SUFFICES ASSUME S # {} PROVE FALSE
  OBVIOUS
<1>1. PICK t \in S : \A j \in S : ~(j < t)
  <2>1. S \in SUBSET Nat
    OBVIOUS
  <2> HIDE DEF S
  <2> QED BY <2>1, Least
<1>2. t \in Nat /\ ~ \E f : IsReading(word, top, t, f)
  OBVIOUS
<1>3. CASE t = 0
  <2> DEFINE f == [n \in 1 .. t |-> First]
  <2>1. 1 .. t = {}
    BY <1>3
  <2>2. f = [n \in 1 .. t |-> IF n = 1 THEN First ELSE 2 * f[n - 1] + Digit(n)]
    BY <2>1
  <2> QED BY <1>2, <2>2 DEF IsReading
<1>4. CASE t # 0
  <2>1. t - 1 \in Nat /\ t - 1 < t
    BY <1>2, <1>4
  <2>2. PICK f : IsReading(word, top, t - 1, f)
    BY <1>1, <2>1
  <2> DEFINE Next1(n, v) == IF n = 1 THEN First ELSE 2 * v + Digit(n)
             g == [n \in 1 .. t |-> IF n = t THEN Next1(t, f[t - 1]) ELSE f[n]]
  <2>3. \A n \in 1 .. t - 1 : f[n] = Next1(n, f[n - 1])
    BY <2>2 DEF IsReading
  <2> HIDE DEF Next1, First, Digit
  <2>4. ASSUME NEW n \in 1 .. t
        PROVE  g[n] = Next1(n, g[n - 1])
    <3>1. CASE n = t
      <4>1. g[n] = Next1(n, f[n - 1])
        BY <3>1
      <4>2. CASE n = 1
        BY <4>1, <4>2 DEF Next1
      <4>3. CASE n # 1
        <5>1. n - 1 \in 1 .. t /\ n - 1 # t
          BY <1>2, <3>1, <4>3
        <5>2. g[n - 1] = f[n - 1]
          BY <5>1
        <5> QED BY <4>1, <5>2
      <4> QED BY <4>2, <4>3
    <3>2. CASE n # t
      <4>1. n \in 1 .. t - 1 /\ g[n] = f[n]
        BY <1>2, <3>2
      <4>2. CASE n = 1
        BY <2>3, <4>1, <4>2 DEF Next1
      <4>3. CASE n # 1
        <5>1. n - 1 \in 1 .. t /\ n - 1 # t
          BY <1>2, <4>1, <4>3
        <5>2. g[n - 1] = f[n - 1]
          BY <5>1
        <5> QED BY <2>3, <4>1, <5>2
      <4> QED BY <4>2, <4>3
    <3> QED BY <3>1, <3>2
  <2>5. g = [n \in 1 .. t |-> g[n]]
    OBVIOUS
  <2> HIDE DEF g
  <2>6. g = [n \in 1 .. t |-> Next1(n, g[n - 1])]
    BY <2>4, <2>5
  <2>7. IsReading(word, top, t, g)
    BY <2>6 DEF IsReading, Next1, First, Digit
  <2> QED BY <1>2, <2>7
<1> QED BY <1>3, <1>4

LEMMA ReadingSteps ==
    ASSUME NEW word, NEW top \in Int
    PROVE  \E f : /\ Read(word, top) = f[WordBits]
                  /\ \A n \in 1 .. WordBits :
                         /\ f[n] \in Int
                         /\ f[n] = IF n = 1 THEN IF WordBits - 1 \in word THEN top ELSE 0
                                   ELSE 2 * f[n - 1] + IF WordBits - n \in word THEN 1 ELSE 0
<1> DEFINE f == CHOOSE g : IsReading(word, top, WordBits, g)
           First == IF WordBits - 1 \in word THEN top ELSE 0
           Digit(n) == IF WordBits - n \in word THEN 1 ELSE 0
<1>0. WordBits \in Nat
  BY IntegerSetsAssumption
<1>1. IsReading(word, top, WordBits, f)
  BY <1>0, ReadingExists
<1>2. Read(word, top) = f[WordBits]
  BY DEF Read
<1> HIDE DEF f
<1>3. \A n \in 1 .. WordBits : f[n] = IF n = 1 THEN First ELSE 2 * f[n - 1] + Digit(n)
  BY <1>1 DEF IsReading
<1>4. First \in Int /\ \A n : Digit(n) \in Int
  OBVIOUS
<1> HIDE DEF First, Digit
<1> DEFINE S == {n \in 1 .. WordBits : f[n] \notin Int}
<1>5. S = {}
  <2> SUFFICES ASSUME S # {} PROVE FALSE
    OBVIOUS
  <2>1. PICK n \in S : \A j \in S : ~(j < n)
    <3>1. S \in SUBSET Nat
      OBVIOUS
    <3> HIDE DEF S
    <3> QED BY <3>1, Least
  <2>2. n \in 1 .. WordBits /\ f[n] \notin Int
    OBVIOUS
  <2>3. n # 1
    BY <1>3, <1>4, <2>2
  <2>4. n - 1 \in 1 .. WordBits /\ n - 1 < n
    BY <1>0, <2>2, <2>3
  <2>5. f[n - 1] \in Int
    BY <2>1, <2>4
  <2>6. f[n] = 2 * f[n - 1] + Digit(n) /\ Digit(n) \in Int
    BY <1>3, <1>4, <2>2, <2>3
  <2> QED BY <2>2, <2>5, <2>6
<1> QED BY <1>2, <1>3, <1>5 DEF First, Digit

(* A word with all the bits of another is no less, and greater if it has   *)
(* one more or its sign counts for more.                                   *)
LEMMA ReadingOrder ==
    ASSUME NEW less \in SUBSET Positions, NEW more \in SUBSET Positions, less \subseteq more,
           NEW low \in Int, low <= 1
    PROVE  /\ Read(less, low) \in Int /\ Read(more, 1) \in Int
           /\ Read(less, low) <= Read(more, 1)
           /\ (\E b \in Positions : b \in more /\ b \notin less) => Read(less, low) < Read(more, 1)
           /\ low < 1 /\ WordBits - 1 \in less => Read(less, low) < Read(more, 1)
<1> DEFINE LowDigit(n) == IF WordBits - n \in less THEN 1 ELSE 0
           HighDigit(n) == IF WordBits - n \in more THEN 1 ELSE 0
           LowFirst == IF WordBits - 1 \in less THEN low ELSE 0
           HighFirst == IF WordBits - 1 \in more THEN 1 ELSE 0
<1>0. WordBits \in Nat /\ WordBits >= 1 /\ 1 \in Int
  BY IntegerSetsAssumption
<1>1. PICK f : /\ Read(less, low) = f[WordBits]
               /\ \A n \in 1 .. WordBits :
                      /\ f[n] \in Int
                      /\ f[n] = IF n = 1 THEN LowFirst ELSE 2 * f[n - 1] + LowDigit(n)
  BY ReadingSteps
<1>2. PICK g : /\ Read(more, 1) = g[WordBits]
               /\ \A n \in 1 .. WordBits :
                      /\ g[n] \in Int
                      /\ g[n] = IF n = 1 THEN HighFirst ELSE 2 * g[n - 1] + HighDigit(n)
  BY <1>0, ReadingSteps
<1>3. /\ LowFirst \in Int /\ HighFirst \in Int /\ LowFirst <= HighFirst
      /\ WordBits - 1 \in more /\ WordBits - 1 \notin less => LowFirst < HighFirst
      /\ low < 1 /\ WordBits - 1 \in less => LowFirst < HighFirst
  BY <1>0
<1>4. \A n : /\ LowDigit(n) \in Int /\ HighDigit(n) \in Int /\ LowDigit(n) <= HighDigit(n)
             /\ LowDigit(n) >= 0 /\ HighDigit(n) <= 1
             /\ WordBits - n \in more /\ WordBits - n \notin less => LowDigit(n) < HighDigit(n)
  OBVIOUS
<1> DEFINE Signs == low < 1 /\ WordBits - 1 \in less
           Above(n) == Signs \/ \E m \in 1 .. n : WordBits - m \in more /\ WordBits - m \notin less
           Ordered(n) == f[n] <= g[n] /\ (Above(n) => f[n] < g[n])
           S == {n \in 1 .. WordBits : ~Ordered(n)}
<1> HIDE DEF LowFirst, HighFirst, LowDigit, HighDigit
<1>5. S = {}
  <2> SUFFICES ASSUME S # {} PROVE FALSE
    OBVIOUS
  <2>1. PICK n \in S : \A j \in S : ~(j < n)
    <3>1. S \in SUBSET Nat
      OBVIOUS
    <3> HIDE DEF S
    <3> QED BY <3>1, Least
  <2>2. n \in 1 .. WordBits /\ ~Ordered(n)
    OBVIOUS
  <2>3. CASE n = 1
    <3>1. f[n] = LowFirst /\ g[n] = HighFirst
      BY <1>1, <1>2, <2>2, <2>3
    <3>2. Above(n) => Signs \/ (WordBits - 1 \in more /\ WordBits - 1 \notin less)
      BY <2>3
    <3>3. Ordered(n)
      BY <1>3, <3>1, <3>2
    <3> QED BY <2>2, <3>3
  <2>4. CASE n # 1
    <3>1. n - 1 \in 1 .. WordBits /\ n - 1 < n
      BY <1>0, <2>2, <2>4
    <3>2. Ordered(n - 1)
      BY <2>1, <3>1
    <3> DEFINE Here == WordBits - n \in more /\ WordBits - n \notin less
    <3>3. f[n] = 2 * f[n - 1] + LowDigit(n) /\ g[n] = 2 * g[n - 1] + HighDigit(n)
      BY <1>1, <1>2, <2>2, <2>4
    <3>4. Above(n) => Above(n - 1) \/ Here
      <4> SUFFICES ASSUME NEW m \in 1 .. n, WordBits - m \in more, WordBits - m \notin less, m # n
                   PROVE  m \in 1 .. n - 1
        OBVIOUS
      <4> QED BY <2>2
    <3>5. f[n - 1] \in Int /\ g[n - 1] \in Int
      BY <1>1, <1>2, <3>1
    <3>6. Here => LowDigit(n) < HighDigit(n)
      BY <1>4
    <3> DEFINE a == f[n - 1]
               c == g[n - 1]
               d == LowDigit(n)
               e == HighDigit(n)
    <3>7. a \in Int /\ c \in Int /\ d \in Int /\ e \in Int /\ d <= e /\ d >= 0 /\ e <= 1 /\ a <= c
      BY <1>4, <3>2, <3>5
    <3>8. Above(n - 1) => a < c
      BY <3>2
    <3>9. f[n] = 2 * a + d /\ g[n] = 2 * c + e
      BY <3>3
    <3> HIDE DEF a, c, d, e, Here, Above
    <3>10. f[n] <= g[n] /\ (a < c => f[n] < g[n]) /\ (d < e => f[n] < g[n])
      BY <3>7, <3>9
    <3>11. Here => d < e
      BY <3>6 DEF d, e
    <3>12. Ordered(n)
      BY <3>4, <3>8, <3>10, <3>11
    <3> QED BY <2>2, <3>12
  <2> QED BY <2>3, <2>4
<1>6. WordBits \in 1 .. WordBits
  BY <1>0
<1>7. Ordered(WordBits)
  BY <1>5, <1>6
<1>8. ASSUME NEW b \in Positions, b \in more, b \notin less
      PROVE  Above(WordBits)
  <2>1. WordBits - b \in 1 .. WordBits /\ WordBits - (WordBits - b) = b
    BY <1>0 DEF Positions
  <2> QED BY <1>8, <2>1
<1>9. f[WordBits] \in Int /\ g[WordBits] \in Int
  BY <1>1, <1>2, <1>6
<1> QED BY <1>1, <1>2, <1>7, <1>8, <1>9

(* The places of the bits that are set.                                    *)
MarksOf(array) == {p \in (DOMAIN array) \X Positions : p[2] \in array[p[1]]}

Total(array) == Cardinality(MarksOf(array))

LEMMA MarksFinite ==
    ASSUME NEW n \in Nat, NEW array \in Words(n)
    PROVE  /\ IsFiniteSet(MarksOf(array)) /\ Total(array) \in Nat
           /\ \A p : p \in MarksOf(array) <=> /\ p = <<p[1], p[2]>>
                                              /\ p[1] \in Below(n) /\ p[2] \in Positions
                                              /\ p[2] \in array[p[1]]
<1>1. DOMAIN array = Below(n)
  BY DEF Words
<1>2. IsFiniteSet(Below(n)) /\ IsFiniteSet(Positions)
  <2>1. n - 1 \in Int /\ WordBits - 1 \in Int /\ 0 \in Int
    BY IntegerSetsAssumption
  <2> DEFINE top == n - 1
             sign == WordBits - 1
  <2>2. IsFiniteSet(0 .. top) /\ IsFiniteSet(0 .. sign)
    <3>1. top \in Int /\ sign \in Int
      BY <2>1
    <3> HIDE DEF top, sign
    <3> QED BY <3>1, FS_Interval
  <2> QED BY <2>2 DEF Below, Positions
<1>3. IsFiniteSet(Below(n) \X Positions)
  BY <1>2, FS_Product
<1>4. MarksOf(array) \subseteq Below(n) \X Positions
  BY <1>1 DEF MarksOf
<1>5. IsFiniteSet(MarksOf(array))
  BY <1>3, <1>4, FS_Subset
<1>6. Total(array) \in Nat
  BY <1>5, FS_CardinalityType DEF Total
<1>7. ASSUME NEW p
      PROVE  p \in MarksOf(array) <=> /\ p = <<p[1], p[2]>>
                                      /\ p[1] \in Below(n) /\ p[2] \in Positions
                                      /\ p[2] \in array[p[1]]
  <2>1. p \in Below(n) \X Positions => p = <<p[1], p[2]>> /\ p[1] \in Below(n) /\ p[2] \in Positions
    OBVIOUS
  <2>2. p = <<p[1], p[2]>> /\ p[1] \in Below(n) /\ p[2] \in Positions => p \in Below(n) \X Positions
    OBVIOUS
  <2> QED BY <1>1, <2>1, <2>2 DEF MarksOf
<1> QED BY <1>5, <1>6, <1>7

(* A bit that is set or taken back is one more or one less.                *)
LEMMA MarksPut ==
    ASSUME NEW n \in Nat, NEW array \in Words(n), NEW w \in Below(n), NEW b \in Positions
    PROVE  /\ Total([array EXCEPT ![w] = array[w] \cup {b}]) =
                  Total(array) + IF b \in array[w] THEN 0 ELSE 1
           /\ Total([array EXCEPT ![w] = array[w] \ {b}]) =
                  Total(array) - IF b \in array[w] THEN 1 ELSE 0
<1> DEFINE with == [array EXCEPT ![w] = array[w] \cup {b}]
           without == [array EXCEPT ![w] = array[w] \ {b}]
           mark == <<w, b>>
<1>0. DOMAIN array = Below(n) /\ array[w] \in SUBSET Positions
  BY DEF Words
<1>1. with \in Words(n) /\ without \in Words(n)
  <2>1. array[w] \cup {b} \in SUBSET Positions /\ array[w] \ {b} \in SUBSET Positions
    BY <1>0
  <2> QED BY <2>1 DEF Words
<1>2. \A v \in Below(n) : /\ with[v] = IF v = w THEN array[w] \cup {b} ELSE array[v]
                          /\ without[v] = IF v = w THEN array[w] \ {b} ELSE array[v]
  BY <1>0
<1> HIDE DEF with, without
<1>3. MarksOf(with) = MarksOf(array) \cup {mark}
  <2>1. ASSUME NEW p PROVE p \in MarksOf(with) <=> p \in MarksOf(array) \cup {mark}
    <3>1. p \in MarksOf(with) <=> /\ p = <<p[1], p[2]>> /\ p[1] \in Below(n) /\ p[2] \in Positions
                                  /\ p[2] \in with[p[1]]
      BY <1>1, MarksFinite
    <3>2. p \in MarksOf(array) <=> /\ p = <<p[1], p[2]>> /\ p[1] \in Below(n) /\ p[2] \in Positions
                                   /\ p[2] \in array[p[1]]
      BY MarksFinite
    <3>3. CASE p = mark
      <4>1. p[1] = w /\ p[2] = b
        BY <3>3
      <4> QED BY <1>2, <3>1, <3>3, <4>1
    <3>4. CASE p # mark
      BY <1>2, <3>1, <3>2, <3>4
    <3> QED BY <3>3, <3>4
  <2> QED BY <2>1
<1>4. MarksOf(without) = MarksOf(array) \ {mark}
  <2>1. ASSUME NEW p PROVE p \in MarksOf(without) <=> p \in MarksOf(array) \ {mark}
    <3>1. p \in MarksOf(without) <=> /\ p = <<p[1], p[2]>> /\ p[1] \in Below(n) /\ p[2] \in Positions
                                     /\ p[2] \in without[p[1]]
      BY <1>1, MarksFinite
    <3>2. p \in MarksOf(array) <=> /\ p = <<p[1], p[2]>> /\ p[1] \in Below(n) /\ p[2] \in Positions
                                   /\ p[2] \in array[p[1]]
      BY MarksFinite
    <3>3. CASE p = mark
      <4>1. p[1] = w /\ p[2] = b
        BY <3>3
      <4> QED BY <1>2, <3>1, <3>3, <4>1
    <3>4. CASE p # mark
      BY <1>2, <3>1, <3>2, <3>4
    <3> QED BY <3>3, <3>4
  <2> QED BY <2>1
<1>5. mark \in MarksOf(array) <=> b \in array[w]
  <2>1. mark[1] = w /\ mark[2] = b
    OBVIOUS
  <2> QED BY <2>1, MarksFinite
<1>6. IsFiniteSet(MarksOf(array)) /\ Cardinality(MarksOf(array)) \in Nat
  BY MarksFinite DEF Total
<1> HIDE DEF mark
<1>7. Total(with) = Total(array) + IF b \in array[w] THEN 0 ELSE 1
  <2>1. Cardinality(MarksOf(array) \cup {mark}) =
            IF mark \in MarksOf(array) THEN Cardinality(MarksOf(array)) ELSE Cardinality(MarksOf(array)) + 1
    BY <1>6, FS_AddElement
  <2> QED BY <1>3, <1>5, <1>6, <2>1 DEF Total
<1>8. Total(without) = Total(array) - IF b \in array[w] THEN 1 ELSE 0
  <2>1. Cardinality(MarksOf(array) \ {mark}) =
            IF mark \in MarksOf(array) THEN Cardinality(MarksOf(array)) - 1 ELSE Cardinality(MarksOf(array))
    BY <1>6, FS_RemoveElement
  <2> QED BY <1>4, <1>5, <1>6, <2>1 DEF Total
<1> QED BY <1>7, <1>8 DEF with, without

LEMMA MarksNone ==
    ASSUME NEW n \in Nat
    PROVE  Total([w \in 0 .. n - 1 |-> {}]) = 0
<1> DEFINE array == [w \in 0 .. n - 1 |-> {}]
<1>1. MarksOf(array) = {}
  BY DEF MarksOf
<1> QED BY <1>1, FS_EmptySet DEF Total

(* The words that are kept have what they had, the others took theirs with *)
(* them.                                                                   *)
LEMMA MarksResized ==
    ASSUME NEW n \in Nat, NEW array \in Words(n), NEW m \in Nat, NEW kept \in Words(m),
           \A w \in Below(m) : kept[w] = IF w \in Below(n) THEN array[w] ELSE {}
    PROVE  LET lost == Cardinality({p \in MarksOf(array) : p[1] >= m})
           IN  /\ lost \in Nat
               /\ Total(array) = Total(kept) + lost
<1> DEFINE lost == {p \in MarksOf(array) : p[1] >= m}
<1>1. IsFiniteSet(MarksOf(array)) /\ IsFiniteSet(MarksOf(kept))
  BY MarksFinite
<1>2. IsFiniteSet(lost)
  <2>1. lost \subseteq MarksOf(array)
    OBVIOUS
  <2> QED BY <1>1, <2>1, FS_Subset
<1>3. ASSUME NEW p
      PROVE  /\ p \in MarksOf(array) <=> p \in MarksOf(kept) \cup lost
             /\ ~(p \in MarksOf(kept) /\ p \in lost)
  <2>1. p \in MarksOf(array) <=> /\ p = <<p[1], p[2]>> /\ p[1] \in Below(n) /\ p[2] \in Positions
                                 /\ p[2] \in array[p[1]]
    BY MarksFinite
  <2>2. p \in MarksOf(kept) <=> /\ p = <<p[1], p[2]>> /\ p[1] \in Below(m) /\ p[2] \in Positions
                                /\ p[2] \in kept[p[1]]
    BY MarksFinite
  <2>3. p[1] \in Below(n) => (p[1] >= m <=> p[1] \notin Below(m))
    BY DEF Below
  <2>4. p[1] \in Below(m) => ~(p[1] >= m)
    BY DEF Below
  <2> QED BY <2>1, <2>2, <2>3, <2>4
<1>4. MarksOf(array) = MarksOf(kept) \cup lost /\ MarksOf(kept) \cap lost = {}
  BY <1>3
<1> HIDE DEF lost
<1>5. Cardinality(MarksOf(kept) \cup lost) =
          Cardinality(MarksOf(kept)) + Cardinality(lost) - Cardinality(MarksOf(kept) \cap lost)
  BY <1>1, <1>2, FS_Union
<1>6. Cardinality(MarksOf(kept) \cap lost) = 0
  BY <1>4, FS_EmptySet
<1>7. Cardinality(lost) \in Nat /\ Cardinality(MarksOf(kept)) \in Nat
  BY <1>1, <1>2, FS_CardinalityType
<1>8. Cardinality(MarksOf(array)) = Cardinality(MarksOf(kept)) + Cardinality(lost)
  BY <1>4, <1>5, <1>6, <1>7
<1> QED BY <1>7, <1>8 DEF Total, lost

(* The size and what is set differ by what the size has been led astray by. *)
Sized == spoilt \in Int /\ size = Total(dense) + spoilt

Fits == start <= vals

LEMMA ReadIs ==
    ASSUME NEW word
    PROVE  /\ Bits!Unsigned(word) = Read(word, 1) /\ Bits!Signed(word) = Read(word, -1)
           /\ Vector!Unsigned(word) = Read(word, 1) /\ Vector!Signed(word) = Read(word, -1)
  BY DEF Bits!Unsigned, Bits!Signed, Bits!Reading, Bits!SignBit,
         Vector!Unsigned, Vector!Signed, Vector!Reading, Vector!SignBit, Read, IsReading

(* How a word compares tells whether a bit of it was set or taken back.    *)
LEMMA ComparedIs ==
    ASSUME NEW old \in SUBSET Positions, NEW b \in Positions
    PROVE  /\ Bits!Compared(old, old \cup {b}) = IF b \in old THEN 0 ELSE 1
           /\ Bits!Compared(old, old \ {b}) = IF b \in old THEN -1 ELSE 0
           /\ Vector!Compared(old, old \cup {b}) = IF b \in old THEN 0 ELSE 1
           /\ Vector!Compared(old, old \ {b}) = IF b \in old THEN -1 ELSE 0
<1> DEFINE with == old \cup {b}
           without == old \ {b}
<1>1. with \in SUBSET Positions /\ without \in SUBSET Positions /\ old \subseteq with /\ without \subseteq old
  OBVIOUS
<1>2. b \in old => with = old
  OBVIOUS
<1>3. b \notin old => without = old
  OBVIOUS
<1>4. b \in with /\ b \notin without
  OBVIOUS
<1> HIDE DEF with, without
<1> DEFINE v(word) == Read(word, 1)
<1>5. v(old) \in Int /\ v(with) \in Int /\ v(without) \in Int
  BY <1>1, ReadingOrder
<1>6. b \notin old => v(old) < v(with)
  BY <1>1, <1>4, ReadingOrder
<1>7. b \in old => v(without) < v(old)
  BY <1>1, <1>4, ReadingOrder
<1>8. /\ Bits!Unsigned(old) = v(old) /\ Bits!Unsigned(with) = v(with) /\ Bits!Unsigned(without) = v(without)
      /\ Vector!Unsigned(old) = v(old) /\ Vector!Unsigned(with) = v(with)
      /\ Vector!Unsigned(without) = v(without)
  BY ReadIs
<1>9. b \in old => v(with) = v(old)
  BY <1>2
<1>10. b \notin old => v(without) = v(old)
  BY <1>3
<1> HIDE DEF v
<1>11. /\ Bits!Compared(old, with) = IF b \in old THEN 0 ELSE 1
       /\ Vector!Compared(old, with) = IF b \in old THEN 0 ELSE 1
  BY <1>5, <1>6, <1>8, <1>9 DEF Bits!Compared, Vector!Compared
<1>12. /\ Bits!Compared(old, without) = IF b \in old THEN -1 ELSE 0
       /\ Vector!Compared(old, without) = IF b \in old THEN -1 ELSE 0
  BY <1>5, <1>7, <1>8, <1>10 DEF Bits!Compared, Vector!Compared
<1> QED BY <1>11, <1>12 DEF with, without

(* A reset compares a signed number with an unsigned one: it takes one off *)
(* for a bit that was set, and under a sign also for one that was not.     *)
LEMMA ResetCounts ==
    ASSUME NEW old \in SUBSET Positions, NEW b \in Positions
    PROVE  Read(old \ {b}, -1) < Read(old, 1) <=> b \in old \/ WordBits - 1 \in old
<1> DEFINE without == old \ {b}
<1>1. without \in SUBSET Positions /\ without \subseteq old /\ b \notin without
  OBVIOUS
<1>2. -1 \in Int /\ -1 <= 1 /\ -1 < 1 /\ WordBits - 1 \in Positions
  BY IntegerSetsAssumption DEF Positions
<1>3. b \notin old => without = old
  OBVIOUS
<1> HIDE DEF without
<1>4. CASE b \in old
  BY <1>1, <1>2, <1>4, ReadingOrder DEF without
<1>5. CASE b \notin old /\ WordBits - 1 \in old
  <2>1. Read(old, -1) < Read(old, 1)
    BY <1>2, <1>5, ReadingOrder
  <2> QED BY <1>3, <1>5, <2>1 DEF without
<1>6. CASE b \notin old /\ WordBits - 1 \notin old
  <2>1. (IF WordBits - 1 \in old THEN -1 ELSE 0) = (IF WordBits - 1 \in old THEN 1 ELSE 0)
    BY <1>6
  <2>2. Read(old, -1) = Read(old, 1)
    BY <2>1 DEF Read, IsReading
  <2>3. Read(old, 1) \in Int
    BY ReadingOrder
  <2> QED BY <1>3, <1>6, <2>2, <2>3 DEF without
<1> QED BY <1>4, <1>5, <1>6

(* One bit of the words is set or taken back, or none.                     *)
SizeMoves(w, b, d) ==
    /\ spoilt' = spoilt + d
    /\ \/ dense' = dense /\ size' = size + d
       \/ /\ w \in DOMAIN dense
          /\ dense' = [dense EXCEPT ![w] = dense[w] \cup {b}]
          /\ size' = size + (IF b \in dense[w] THEN 0 ELSE 1) + d
       \/ /\ w \in DOMAIN dense
          /\ dense' = [dense EXCEPT ![w] = dense[w] \ {b}]
          /\ size' = size - (IF b \in dense[w] THEN 1 ELSE 0) + d

LEMMA SizeMoved ==
    ASSUME BitState, Sized, NEW w, NEW b \in Positions, NEW d \in Int, SizeMoves(w, b, d)
    PROVE  Sized'
<1> DEFINE n == Count
           s == size'
           p == spoilt'
           t == Total(dense')
<1>1. n \in Nat /\ dense \in Words(n) /\ DOMAIN dense = Below(n)
  BY DEF BitState, Words
<1>2. Total(dense) \in Int /\ spoilt \in Int /\ size = Total(dense) + spoilt /\ p = spoilt + d
  <2> HIDE DEF n
  <2> QED BY <1>1, MarksFinite DEF Sized, SizeMoves
<1> HIDE DEF n
<1>3. CASE dense' = dense /\ size' = size + d
  <2>1. t = Total(dense) /\ s = size + d
    BY <1>3
  <2> HIDE DEF s, p, t
  <2>2. p \in Int /\ s = t + p
    BY <1>2, <2>1
  <2> QED BY <2>2 DEF Sized, s, p, t, Total, MarksOf
<1>4. CASE /\ w \in DOMAIN dense
           /\ dense' = [dense EXCEPT ![w] = dense[w] \cup {b}]
           /\ size' = size + (IF b \in dense[w] THEN 0 ELSE 1) + d
  <2>1. t = Total(dense) + (IF b \in dense[w] THEN 0 ELSE 1)
    BY <1>1, <1>4, MarksPut
  <2>2. s = size + (IF b \in dense[w] THEN 0 ELSE 1) + d
    BY <1>4
  <2> HIDE DEF s, p, t
  <2>3. p \in Int /\ s = t + p
    BY <1>2, <2>1, <2>2
  <2> QED BY <2>3 DEF Sized, s, p, t, Total, MarksOf
<1>5. CASE /\ w \in DOMAIN dense
           /\ dense' = [dense EXCEPT ![w] = dense[w] \ {b}]
           /\ size' = size - (IF b \in dense[w] THEN 1 ELSE 0) + d
  <2>1. t = Total(dense) - (IF b \in dense[w] THEN 1 ELSE 0)
    BY <1>1, <1>5, MarksPut
  <2>2. s = size - (IF b \in dense[w] THEN 1 ELSE 0) + d
    BY <1>5
  <2> HIDE DEF s, p, t
  <2>3. p \in Int /\ s = t + p
    BY <1>2, <2>1, <2>2
  <2> QED BY <2>3 DEF Sized, s, p, t, Total, MarksOf
<1> QED BY <1>3, <1>4, <1>5 DEF SizeMoves

LEMMA BitsSized ==
    ASSUME BitState, Sized, NEW i \in Int, NEW value \in BOOLEAN,
           \/ Bits!SetBit(i, value) \/ Bits!FlipBit(i) \/ Bits!ResetBit(i)
           \/ Vector!SetBit(i, value) \/ Vector!FlipBit(i) \/ Vector!ResetBit(i)
    PROVE  Sized'
<1> DEFINE w == i \div WordBits
           b == i % WordBits
           old == dense[w]
           new == dense'[w]
           sign == WordBits - 1
<1>1. b \in Positions /\ \A v \in DOMAIN dense : dense[v] \in SUBSET Positions
  BY Division DEF BitState, Words
<1>2. size \in Int /\ spoilt \in Int
  <2> DEFINE n == Count
  <2>1. n \in Nat /\ dense \in Words(n)
    BY DEF BitState
  <2> HIDE DEF n
  <2>2. Total(dense) \in Nat
    BY <2>1, MarksFinite
  <2> QED BY <2>2 DEF Sized
<1> DEFINE Kept == dense' = dense /\ size' = size /\ spoilt' = spoilt
           With == w \in DOMAIN dense /\ dense' = [dense EXCEPT ![w] = dense[w] \cup {b}]
           Without == w \in DOMAIN dense /\ dense' = [dense EXCEPT ![w] = dense[w] \ {b}]
           Sizes1 == /\ spoilt' = spoilt
                     /\ \/ size' = size + Bits!Compared(old, new)
                        \/ size' = size + Vector!Compared(old, new)
           Sizes2 == /\ size' = IF Read(new, -1) < Read(old, 1) THEN size - 1 ELSE size
                     /\ spoilt' = IF b \notin old /\ sign \in old THEN spoilt - 1 ELSE spoilt
<1>3. With => new = old \cup {b} /\ old \in SUBSET Positions
  BY <1>1
<1>4. Without => new = old \ {b} /\ old \in SUBSET Positions
  BY <1>1
<1>5. \/ Kept
      \/ With /\ Sizes1
      \/ Without /\ Sizes1
      \/ Without /\ Sizes2
  <2>1. CASE Bits!SetBit(i, value)
    BY <2>1 DEF Bits!SetBit
  <2>2. CASE Vector!SetBit(i, value)
    BY <2>2 DEF Vector!SetBit
  <2>3. CASE Bits!FlipBit(i)
    BY <2>3 DEF Bits!FlipBit
  <2>4. CASE Vector!FlipBit(i)
    BY <2>4 DEF Vector!FlipBit
  <2>5. CASE Bits!ResetBit(i)
    BY <2>5, ReadIs DEF Bits!ResetBit, Bits!SignBit
  <2>6. CASE Vector!ResetBit(i)
    BY <2>6, ReadIs DEF Vector!ResetBit, Vector!SignBit
  <2> QED BY <2>1, <2>2, <2>3, <2>4, <2>5, <2>6
<1> HIDE DEF w, b, sign
<1>6. CASE Kept
  <2>1. SizeMoves(w, b, 0)
    BY <1>2, <1>6 DEF SizeMoves
  <2> QED BY <1>1, <2>1, SizeMoved
<1>7. CASE With /\ Sizes1
  <2>1. Bits!Compared(old, new) = (IF b \in old THEN 0 ELSE 1) /\ Vector!Compared(old, new) = (IF b \in old THEN 0 ELSE 1)
    BY <1>1, <1>3, <1>7, ComparedIs
  <2>2. size' = size + (IF b \in old THEN 0 ELSE 1) + 0 /\ spoilt' = spoilt + 0
    <3> HIDE DEF old, new
    <3> QED BY <1>2, <1>7, <2>1
  <2>3. SizeMoves(w, b, 0)
    BY <1>7, <2>2 DEF SizeMoves
  <2> QED BY <1>1, <2>3, SizeMoved
<1>8. CASE Without /\ Sizes1
  <2>1. Bits!Compared(old, new) = (IF b \in old THEN -1 ELSE 0) /\ Vector!Compared(old, new) = (IF b \in old THEN -1 ELSE 0)
    BY <1>1, <1>4, <1>8, ComparedIs
  <2>2. size' = size - (IF b \in old THEN 1 ELSE 0) + 0 /\ spoilt' = spoilt + 0
    <3> HIDE DEF old, new
    <3> QED BY <1>2, <1>8, <2>1
  <2>3. SizeMoves(w, b, 0)
    BY <1>8, <2>2 DEF SizeMoves
  <2> QED BY <1>1, <2>3, SizeMoved
<1>9. CASE Without /\ Sizes2
  <2>1. Read(new, -1) < Read(old, 1) <=> b \in old \/ sign \in old
    BY <1>1, <1>4, <1>9, ResetCounts DEF sign
  <2> DEFINE d == IF b \notin old /\ sign \in old THEN -1 ELSE 0
  <2>2. size' = size - (IF b \in old THEN 1 ELSE 0) + d /\ spoilt' = spoilt + d
    <3> HIDE DEF old, new
    <3> QED BY <1>2, <1>9, <2>1
  <2>3. d \in Int
    OBVIOUS
  <2> HIDE DEF d
  <2>4. SizeMoves(w, b, d)
    BY <1>9, <2>2 DEF SizeMoves
  <2> QED BY <1>1, <2>3, <2>4, SizeMoved
<1> QED BY <1>5, <1>6, <1>7, <1>8, <1>9

LEMMA SizeKept ==
    ASSUME Sized, dense' = dense, size' = size, spoilt' = spoilt
    PROVE  Sized'
  BY DEF Sized, Total, MarksOf

(* Nothing is set in new words.                                            *)
LEMMA ZeroedSized ==
    ASSUME Bits!Init
    PROVE  Sized /\ Fits
<1> DEFINE n == WordsOf(start)
<1>1. start \in Nat /\ dense = [w \in 0 .. n - 1 |-> {}] /\ size = 0 /\ spoilt = 0 /\ vals = n * WordBits
  BY DEF Bits!Init, Bits!Zeroed, Bits!WordsFor, WordsOf
<1>2. n \in Nat
  BY <1>1, WordsEnough
<1>3. start <= n * WordBits
  BY <1>1, WordsCover
<1> HIDE DEF n
<1>4. Total(dense) = 0
  BY <1>1, <1>2, MarksNone
<1> QED BY <1>1, <1>3, <1>4 DEF Sized, Fits

LEMMA BitsSizedStep ==
    ASSUME BitState, Sized, WordsOf(start) \in 0 .. MaxCapacity, Bits!Next
    PROVE  Sized'
<1>1. Bits!Indices \subseteq Int
  BY DEF Bits!Indices
<1>2. CASE \E i \in Bits!Indices, value \in BOOLEAN : Bits!SetBit(i, value)
  BY <1>1, <1>2, BitsSized
<1>3. CASE \E i \in Bits!Indices : Bits!ResetBit(i) \/ Bits!FlipBit(i)
  <2>1. PICK i \in Int : Bits!ResetBit(i) \/ Bits!FlipBit(i)
    BY <1>1, <1>3
  <2>2. TRUE \in BOOLEAN
    OBVIOUS
  <2> QED BY <2>1, <2>2, BitsSized
<1>4. CASE Bits!Clear
  <2> DEFINE n == WordsOf(start)
             t == Total(dense')
  <2>1. dense' = [w \in 0 .. n - 1 |-> {}] /\ size' = 0 /\ spoilt' = 0
    BY <1>4 DEF Bits!Clear, Bits!Zeroed, Bits!WordsFor, WordsOf
  <2> HIDE DEF n
  <2>2. t = 0
    BY <2>1, MarksNone DEF n
  <2> HIDE DEF t
  <2>3. spoilt' \in Int /\ size' = t + spoilt'
    BY <2>1, <2>2
  <2> QED BY <2>3 DEF Sized, t, Total, MarksOf
<1>5. CASE Bits!OpenWalk
  BY <1>5, SizeKept DEF Bits!OpenWalk
<1>6. CASE Bits!StepWalk
  BY <1>6, SizeKept DEF Bits!StepWalk
<1>7. ~Bits!Grow /\ \A n \in 0 .. MaxCapacity : ~Bits!Reallocate(n) /\ ~Bits!GrowTo(n) /\ ~Bits!Resize(n)
  BY DEF Bits!Grow, Bits!Reallocate, Bits!GrowTo, Bits!Resize
<1>8. ~Bits!Pop /\ \A value \in BOOLEAN : ~Bits!Push(value)
  BY DEF Bits!Pop, Bits!Push
<1> QED BY <1>2, <1>3, <1>4, <1>5, <1>6, <1>7, <1>8 DEF Bits!Next

(* The words of a vector after a reallocation, and what went with the rest. *)
LEMMA ResizedMarks ==
    ASSUME BitState, NEW bits \in Nat, WordsOf(bits) * WordBits <= MaxCapacity
    PROVE  /\ Vector!BitsLost(bits) \in Nat
           /\ Total(Vector!Resized(bits)) \in Nat /\ Total(dense) \in Nat
           /\ Total(dense) = Total(Vector!Resized(bits)) + Vector!BitsLost(bits)
           /\ Count <= WordsOf(bits) => Vector!BitsLost(bits) = 0
<1> DEFINE n == Count
           m == WordsOf(bits)
           kept == Vector!Resized(bits)
           lost == {p \in MarksOf(dense) : p[1] >= m}
<1>1. n \in Nat /\ dense \in Words(n) /\ DOMAIN dense = Below(n)
  BY DEF BitState, Words
<1>2. m \in Nat /\ kept \in Words(m)
  BY ResizedWords, WordsEnough
<1>3. \A w \in Below(m) : kept[w] = IF w \in Below(n) THEN dense[w] ELSE {}
  <2>1. kept = [w \in Below(m) |-> IF w \in DOMAIN dense THEN dense[w] ELSE {}]
    BY DEF Vector!Resized, Vector!WordsFor, WordsOf, Below
  <2> HIDE DEF kept, m, n
  <2> QED BY <1>1, <2>1
<1>4. Vector!BitsLost(bits) = Cardinality(lost)
  <2>1. Vector!Marks = MarksOf(dense)
    BY DEF Vector!Marks, Vector!SignBit, MarksOf, Positions
  <2>2. Vector!BitsLost(bits) = Vector!Cardinality(lost)
    BY <2>1 DEF Vector!BitsLost, Vector!WordsFor, WordsOf
  <2> HIDE DEF lost
  <2> QED BY <2>2 DEF Vector!Cardinality, Cardinality
<1> HIDE DEF kept, m, n
<1>5. Cardinality(lost) \in Nat /\ Total(dense) = Total(kept) + Cardinality(lost)
  BY <1>1, <1>2, <1>3, MarksResized
<1>6. Total(dense) \in Nat /\ Total(kept) \in Nat
  BY <1>1, <1>2, MarksFinite
<1>7. ASSUME n <= m PROVE Cardinality(lost) = 0
  <2>1. \A p \in MarksOf(dense) : p[1] \in Below(n)
    BY <1>1, MarksFinite
  <2>2. lost = {}
    BY <1>1, <1>2, <1>7, <2>1 DEF Below
  <2> QED BY <2>2, FS_EmptySet
<1> QED BY <1>4, <1>5, <1>6, <1>7 DEF kept, m, n

LEMMA ReallocatedSized ==
    ASSUME VectorInv, Sized, NEW bits \in Nat, NEW len \in Nat, Vector!ReallocateTo(bits, len)
    PROVE  Sized' /\ Fits'
<1> DEFINE c == WordsOf(bits) * WordBits
           lost == Vector!BitsLost(bits)
           kept == Vector!Resized(bits)
<1>1. BitState /\ spoilt \in Int /\ size = Total(dense) + spoilt
  BY DEF VectorInv, BitInv, Sized
<1>2. /\ c <= MaxCapacity /\ vals' = c /\ start' = (IF bits < len THEN bits ELSE len)
      /\ dense' = kept /\ spoilt' = spoilt + lost /\ size' = size
  BY DEF Vector!ReallocateTo, Vector!RoundUp, Vector!WordsFor, WordsOf
<1>3. lost \in Nat /\ Total(kept) \in Nat /\ Total(dense) = Total(kept) + lost
  BY <1>1, <1>2, ResizedMarks
<1>4. bits <= c /\ c \in Int
  BY WordsCover, WordsEnough, IntegerSetsAssumption
<1> HIDE DEF c, lost, kept
<1>5. Fits'
  BY <1>2, <1>4 DEF Fits
<1> DEFINE p == spoilt'
           s == size'
<1>6. p = spoilt + lost /\ s = size
  BY <1>2
<1> HIDE DEF p, s
<1>7. p \in Int /\ s = Total(kept) + p
  BY <1>1, <1>3, <1>6
<1>8. Sized'
  BY <1>2, <1>7 DEF Sized, p, s, Total, MarksOf
<1> QED BY <1>5, <1>8

LEMMA VectorSizedStays ==
    ASSUME Sized, dense' = dense, vals' = vals, size' = size, spoilt' = spoilt, start' <= vals
    PROVE  Sized' /\ Fits'
  BY SizeKept DEF Fits

(* The policy asks for more than there is, and the words cover it.         *)
LEMMA PolicyGrows ==
    ASSUME NEW c \in Nat
    PROVE  Vector!ApplyPolicy(c) \in Nat /\ Vector!ApplyPolicy(c) >= c + 1
<1> DEFINE bits == Vector!DefaultPolicy(c)
<1>1. bits \in Nat /\ bits >= c + 1
  BY DEF Vector!DefaultPolicy, Vector!Greater
<1> HIDE DEF bits
<1>2. bits <= WordsOf(bits) * WordBits
  BY <1>1, WordsCover
<1>3. Vector!ApplyPolicy(c) = WordsOf(bits) * WordBits
  BY DEF Vector!ApplyPolicy, Vector!RoundUp, Vector!WordsFor, WordsOf, bits
<1>4. Vector!ApplyPolicy(c) \in Nat
  BY PolicyNat
<1> QED BY <1>1, <1>2, <1>3, <1>4

LEMMA PushSized ==
    ASSUME VectorInv, Sized, Fits, NEW value \in BOOLEAN, Vector!Push(value)
    PROVE  Sized' /\ Fits'
<1> DEFINE full == vals = start
           bits == IF full THEN Vector!ApplyPolicy(vals) ELSE vals
           grown == Vector!Resized(bits)
           n == WordsOf(bits)
           b == start % WordBits
           w == start \div WordBits
<1>1. /\ BitState /\ vals = Count * WordBits /\ Count \in Nat /\ vals \in Nat /\ start \in Nat
      /\ start <= vals
  BY CapacityNat DEF VectorInv, BitInv, Fits
<1>2. CASE full /\ Vector!Refused
  BY <1>1, <1>2, VectorSizedStays DEF Vector!Refused
<1>3. CASE ~(full /\ Vector!Refused)
  <2>1. /\ Vector!Cardinality(DOMAIN grown) * WordBits <= MaxCapacity
        /\ vals' = Vector!Cardinality(DOMAIN grown) * WordBits
        /\ start' = start + 1
        /\ dense' = (IF value THEN [grown EXCEPT ![w] = @ \cup {b}] ELSE grown)
        /\ size' = (IF value THEN size + 1 ELSE size)
        /\ spoilt' = (IF value /\ b \in grown[w] THEN spoilt + 1 ELSE spoilt)
    BY <1>3 DEF Vector!Push
  <2>2. bits \in Nat /\ bits >= start + 1 /\ bits >= vals
    BY <1>1, PolicyGrows
  <2>3. n \in Nat /\ bits <= n * WordBits
    BY <2>2, WordsCover, WordsEnough
  <2>4. b \in Positions /\ w \in Nat /\ start = (w * WordBits) + b
    <3>1. WordBits \in Nat \ {0} /\ start \in Int
      BY <1>1, IntegerSetsAssumption
    <3>2. b \in Positions /\ start = (w * WordBits) + b
      BY <3>1, Division
    <3>3. w \in Nat
      BY <1>1, <3>1
    <3> QED BY <3>2, <3>3
  <2>5. DOMAIN grown = Below(n)
    BY DEF Vector!Resized, Vector!WordsFor, WordsOf, Below
  <2>6. Vector!Cardinality(DOMAIN grown) = n
    <3>1. Vector!Cardinality(DOMAIN grown) = Cardinality(DOMAIN grown)
      BY DEF Vector!Cardinality, Cardinality
    <3> HIDE DEF grown, n
    <3> QED BY <2>3, <2>5, <3>1, CountOf
  <2>7. n * WordBits <= MaxCapacity /\ vals' = n * WordBits /\ n * WordBits \in Nat
    BY <2>1, <2>3, <2>6, IntegerSetsAssumption
  <2>8. Count <= n
    <3> HIDE DEF n, bits
    <3> SUFFICES ASSUME n < Count PROVE FALSE
      BY <1>1, <2>3
    <3>1. PICK d \in Nat : Count = n + 1 + d
      <4>1. Count - (n + 1) \in Nat /\ Count = n + 1 + (Count - (n + 1))
        BY <1>1, <2>3
      <4> QED BY <4>1
    <3>2. WordBits \in Nat /\ WordBits >= 1
      BY IntegerSetsAssumption
    <3>3. Count * WordBits = n * WordBits + WordBits + d * WordBits /\ d * WordBits >= 0
      BY <2>3, <3>1, <3>2
    <3>4. n * WordBits < vals
      BY <1>1, <2>7, <3>2, <3>3
    <3> QED BY <1>1, <2>2, <2>3, <2>7, <3>4
  <2>9. w \in Below(n)
    <3> HIDE DEF n, bits, b, w
    <3>1. w * WordBits \in Nat /\ b \in Nat
      BY <2>4, IntegerSetsAssumption DEF Positions
    <3>2. w * WordBits < n * WordBits
      BY <1>1, <2>2, <2>3, <2>4, <2>7, <3>1
    <3>3. w < n
      BY <2>3, <2>4, <3>2, Scaled
    <3> QED BY <2>3, <2>4, <3>3 DEF Below
  <2>10. grown \in Words(n) /\ Total(grown) = Total(dense) /\ Total(dense) \in Nat
    <3> HIDE DEF bits
    <3>1. grown \in Words(n)
      BY <1>1, <2>2, <2>7, ResizedWords
    <3>2. Vector!BitsLost(bits) = 0 /\ Total(grown) \in Nat /\ Total(dense) \in Nat
          /\ Total(dense) = Total(grown) + Vector!BitsLost(bits)
      BY <1>1, <2>2, <2>7, <2>8, ResizedMarks
    <3> QED BY <3>1, <3>2
  <2> HIDE DEF grown, n, b, w, bits
  <2> DEFINE t == Total(dense')
             s == size'
             p == spoilt'
  <2>11. spoilt \in Int /\ size = Total(dense) + spoilt
    BY DEF Sized
  <2>12. p \in Int /\ s = t + p
    <3>1. CASE value
      <4> DEFINE with == [grown EXCEPT ![w] = grown[w] \cup {b}]
      <4>1. Total(with) = Total(grown) + IF b \in grown[w] THEN 0 ELSE 1
        <5>1. \A array \in Words(n), v \in Below(n), c \in Positions :
                  Total([array EXCEPT ![v] = array[v] \cup {c}]) =
                      Total(array) + IF c \in array[v] THEN 0 ELSE 1
          BY <2>3, MarksPut
        <5>2. grown \in Words(n) /\ w \in Below(n) /\ b \in Positions
          BY <2>4, <2>9, <2>10
        <5> QED BY <5>1, <5>2, Zenon
      <4>2. t = Total(grown) + IF b \in grown[w] THEN 0 ELSE 1
        <5>1. dense' = with
          BY <2>1, <3>1
        <5> HIDE DEF with
        <5> QED BY <4>1, <5>1
      <4>3. s = size + 1 /\ p = IF b \in grown[w] THEN spoilt + 1 ELSE spoilt
        BY <2>1, <3>1
      <4> HIDE DEF t, s, p
      <4> QED BY <2>10, <2>11, <4>2, <4>3
    <3>2. CASE ~value
      <4>1. t = Total(grown) /\ s = size /\ p = spoilt
        BY <2>1, <3>2
      <4> HIDE DEF t, s, p
      <4> QED BY <2>10, <2>11, <4>1
    <3> QED BY <3>1, <3>2
  <2>13. Sized'
    BY <2>12 DEF Sized, Total, MarksOf
  <2>14. Fits'
    <3>1. start + 1 <= n * WordBits
      BY <1>1, <2>2, <2>3, <2>7
    <3> QED BY <2>1, <2>7, <3>1 DEF Fits
  <2> QED BY <2>13, <2>14
<1> QED BY <1>2, <1>3

LEMMA VectorSizedStep ==
    ASSUME VectorInv, Sized, Fits, Vector!Next
    PROVE  Sized' /\ Fits'
<1>1. Vector!Indices \subseteq Int
  BY DEF Vector!Indices
<1>2. BitInv /\ BitState /\ vals \in Nat /\ start \in Nat /\ start <= vals
  BY CapacityNat DEF VectorInv, BitInv, Fits
<1>3. CASE \E i \in Vector!Indices, value \in BOOLEAN : Vector!SetBit(i, value)
  <2>1. PICK i \in Int, value \in BOOLEAN : Vector!SetBit(i, value)
    BY <1>1, <1>3
  <2>2. Sized'
    BY <1>2, <2>1, BitsSized
  <2>3. UNCHANGED <<vals, start>>
    BY <1>2, <2>1, BitsPut
  <2> QED BY <2>2, <2>3 DEF Fits
<1>4. CASE \E i \in Vector!Indices : Vector!ResetBit(i) \/ Vector!FlipBit(i)
  <2>1. PICK i \in Int : Vector!ResetBit(i) \/ Vector!FlipBit(i)
    BY <1>1, <1>4
  <2>2. TRUE \in BOOLEAN
    OBVIOUS
  <2>3. Sized'
    BY <1>2, <2>1, <2>2, BitsSized
  <2>4. UNCHANGED <<vals, start>>
    BY <1>2, <2>1, <2>2, BitsPut
  <2> QED BY <2>3, <2>4 DEF Fits
<1>5. ~Vector!Clear
  BY DEF Vector!Clear
<1>6. ASSUME Vector!Refused PROVE Sized' /\ Fits'
  BY <1>2, <1>6, VectorSizedStays DEF Vector!Refused
<1>7. CASE Vector!Grow
  <2>1. CASE Vector!ReallocateTo(Vector!ApplyPolicy(vals), start)
    BY <1>2, <2>1, PolicyNat, ReallocatedSized
  <2> QED BY <1>6, <1>7, <2>1 DEF Vector!Grow
<1>8. ASSUME NEW n \in 0 .. MaxCapacity, Vector!Reallocate(n) \/ Vector!GrowTo(n) \/ Vector!Resize(n)
      PROVE  Sized' /\ Fits'
  <2>0. n \in Nat
    OBVIOUS
  <2>1. CASE Vector!Reallocate(n)
    BY <1>2, <2>0, <2>1, ReallocatedSized DEF Vector!Reallocate
  <2>2. CASE Vector!GrowTo(n)
    <3>1. CASE Vector!ReallocateTo(Vector!GrownTo(n), start)
      BY <1>2, <2>0, <3>1, GrownToNat, ReallocatedSized
    <3> QED BY <1>6, <2>2, <3>1 DEF Vector!GrowTo
  <2>3. CASE Vector!Resize(n)
    <3>1. CASE n <= start
      <4>1. dense' = dense /\ vals' = vals /\ size' = size /\ spoilt' = spoilt /\ start' = n
        BY <2>3, <3>1 DEF Vector!Resize
      <4>2. start' <= vals
        BY <1>2, <2>0, <3>1, <4>1
      <4> QED BY <4>1, <4>2, VectorSizedStays
    <3>2. CASE ~(n <= start)
      BY <2>0, <2>3, <3>2, ReallocatedSized DEF Vector!Resize
    <3> QED BY <3>1, <3>2
  <2> QED BY <1>8, <2>1, <2>2, <2>3
<1>9. CASE Vector!Pop
  <2>1. dense' = dense /\ vals' = vals /\ size' = size /\ spoilt' = spoilt
        /\ start' = (IF start = 0 THEN 0 ELSE start - 1)
    BY <1>9 DEF Vector!Pop
  <2>2. start' <= vals
    BY <1>2, <2>1
  <2> QED BY <2>1, <2>2, VectorSizedStays
<1>10. CASE Vector!OpenWalk \/ Vector!StepWalk
  <2>1. dense' = dense /\ vals' = vals /\ size' = size /\ spoilt' = spoilt /\ start' = start
    BY <1>10 DEF Vector!OpenWalk, Vector!StepWalk
  <2> QED BY <1>2, <2>1, VectorSizedStays
<1> QED BY <1>3, <1>4, <1>5, <1>7, <1>8, <1>9, <1>10, PushSized DEF Vector!Next

-----------------------------------------------------------------------------
(* What rank and select answer.                                            *)

(* As many positions as a walk has.                                        *)
Reach ==
    IF Count = 0 THEN 0
    ELSE (Count - 1) * WordBits + IF start % WordBits = 0 THEN WordBits ELSE start % WordBits

LEMMA ReachIs ==
    ASSUME BitState
    PROVE  Reach \in Nat /\ Reach <= Count * WordBits /\ Bits!WalkLen = Reach
<1> DEFINE rest == IF start % WordBits = 0 THEN WordBits ELSE start % WordBits
<1>1. Reach \in Nat /\ Reach <= Count * WordBits
  <2>1. rest \in 1 .. WordBits /\ WordBits \in Nat \ {0} /\ Count \in Nat
    BY Division, IntegerSetsAssumption DEF BitState, Positions
  <2>2. Reach = IF Count = 0 THEN 0 ELSE (Count - 1) * WordBits + rest
    BY DEF Reach
  <2> HIDE DEF rest
  <2>3. CASE Count # 0
    <3>1. (Count - 1) * WordBits \in Nat /\ Count * WordBits = (Count - 1) * WordBits + WordBits
      BY <2>1, <2>3
    <3> QED BY <2>1, <2>2, <2>3, <3>1
  <2>4. CASE Count = 0
    BY <2>1, <2>2, <2>4
  <2> QED BY <2>3, <2>4
<1>2. Bits!WalkLen = Reach
  <2>1. (Count - 1) + 1 = Count
    BY DEF BitState
  <2>2. Bits!WordCount = Count
    BY DEF Bits!WordCount, Bits!Cardinality, Cardinality, Count
  <2>3. Bits!BitsInWord(Count - 1) = rest
    BY <2>1, <2>2, Zenon DEF Bits!BitsInWord
  <2>4. Reach = IF Count = 0 THEN 0 ELSE (Count - 1) * WordBits + rest
    BY DEF Reach
  <2> HIDE DEF rest
  <2> QED BY <2>2, <2>3, <2>4, Zenon DEF Bits!WalkLen
<1> QED BY <1>1, <1>2

LEMMA UpTo ==
    ASSUME NEW n \in Nat
    PROVE  IsFiniteSet(Below(n)) /\ Cardinality(Below(n)) = n
<1> DEFINE top == n - 1
<1>1. top \in Int /\ 0 \in Int
  OBVIOUS
<1>2. IsFiniteSet(0 .. top) /\ Cardinality(0 .. top) = IF 0 > top THEN 0 ELSE top - 0 + 1
  <2> HIDE DEF top
  <2> QED BY <1>1, FS_Interval
<1> QED BY <1>2 DEF Below

(* Every zero word before a word of a position hides as many positions as  *)
(* a word has.                                                             *)
LEMMA ZeroPositions ==
    ASSUME NEW n \in Nat, NEW array \in Words(n), NEW p \in Below(n * WordBits),
           array[p \div WordBits] # {}
    PROVE  LET positions == {k \in Below(p) : array[k \div WordBits] = {}}
               zeros == {w \in Below(n) : w < p \div WordBits /\ array[w] = {}}
           IN  /\ IsFiniteSet(positions) /\ Cardinality(zeros) \in Nat
               /\ Cardinality(positions) = Cardinality(zeros) * WordBits
<1> DEFINE positions == {k \in Below(p) : array[k \div WordBits] = {}}
           zeros == {w \in Below(n) : w < p \div WordBits /\ array[w] = {}}
           q == p \div WordBits
           f == [k \in positions |-> <<k \div WordBits, k % WordBits>>]
<1>0. WordBits \in Nat \ {0} /\ n * WordBits \in Nat /\ p \in Nat /\ p < n * WordBits
  <2>1. WordBits \in Nat \ {0} /\ n * WordBits \in Nat
    BY IntegerSetsAssumption
  <2> QED BY <2>1 DEF Below
<1>1. q \in Nat /\ (p % WordBits) \in Positions /\ p = (q * WordBits) + (p % WordBits)
  BY <1>0, Division
<1>2. q < n
  <2>1. q * WordBits \in Nat /\ (p % WordBits) \in Nat
    BY <1>0, <1>1 DEF Positions
  <2>2. q * WordBits < n * WordBits
    BY <1>0, <1>1, <2>1
  <2> QED BY <1>1, <2>2, Scaled
<1>3. IsFiniteSet(positions) /\ IsFiniteSet(zeros) /\ IsFiniteSet(Positions) /\ Cardinality(Positions) = WordBits
  <2>1. positions \in SUBSET Below(p) /\ zeros \in SUBSET Below(n) /\ Positions = Below(WordBits)
    BY DEF Positions, Below
  <2> HIDE DEF positions, zeros
  <2> QED BY <1>0, <2>1, UpTo, FS_Subset
<1>4. ASSUME NEW k \in positions
      PROVE  /\ k \div WordBits \in zeros /\ k % WordBits \in Positions
             /\ k = ((k \div WordBits) * WordBits) + (k % WordBits)
  <2> DEFINE w == k \div WordBits
  <2>1. k \in Nat /\ k < p /\ array[w] = {}
    BY <1>0 DEF Below
  <2>2. w \in Nat /\ k % WordBits \in Positions /\ k = (w * WordBits) + (k % WordBits)
    BY <1>0, <2>1, Division
  <2>3. w # q
    BY <2>1
  <2>4. w <= q
    <3>1. w * WordBits \in Nat /\ (k % WordBits) \in 0 .. WordBits - 1 /\ (q + 1) * WordBits = q * WordBits + WordBits
      BY <1>0, <1>1, <2>2 DEF Positions
    <3>2. (p % WordBits) \in 0 .. WordBits - 1 /\ q * WordBits \in Nat
      BY <1>0, <1>1 DEF Positions
    <3> DEFINE a == w * WordBits
               e == q * WordBits
               r == k % WordBits
               s == p % WordBits
               next == (q + 1) * WordBits
    <3>3. /\ a \in Nat /\ e \in Nat /\ r \in Nat /\ s \in 0 .. WordBits - 1
          /\ k = a + r /\ p = e + s /\ next = e + WordBits
      BY <1>1, <2>2, <3>1, <3>2
    <3> HIDE DEF a, e, r, s, next
    <3>5. a < next
      BY <1>0, <2>1, <3>3
    <3> HIDE DEF w, q
    <3>4. w < q + 1
      BY <1>1, <2>2, <3>5, Scaled DEF a, next
    <3> QED BY <1>1, <2>2, <3>4
  <2>5. w \in Below(n) /\ w < q
    BY <1>1, <1>2, <2>2, <2>3, <2>4 DEF Below
  <2> QED BY <2>1, <2>2, <2>5
<1>5. ASSUME NEW w \in zeros, NEW b \in Positions
      PROVE  \E k \in positions : k \div WordBits = w /\ k % WordBits = b
  <2>1. w \in Nat /\ w < q /\ array[w] = {}
    BY DEF Below
  <2> DEFINE k == (w * WordBits) + b
  <2>2. k % WordBits = b /\ k \div WordBits = w
    BY <2>1, DivisionOf
  <2>3. k \in Below(p)
    <3>1. PICK d \in Nat : q = w + 1 + d
      <4>1. q - (w + 1) \in Nat /\ q = w + 1 + (q - (w + 1))
        BY <1>1, <2>1
      <4> QED BY <4>1
    <3>2. q * WordBits = w * WordBits + WordBits + d * WordBits /\ d * WordBits \in Nat /\ w * WordBits \in Nat
      BY <1>0, <2>1, <3>1
    <3>3. b \in 0 .. WordBits - 1 /\ (p % WordBits) \in 0 .. WordBits - 1
      BY <1>1 DEF Positions
    <3> DEFINE a == w * WordBits
               c == d * WordBits
               e == q * WordBits
    <3> HIDE DEF a, c, e, q
    <3>4. a \in Nat /\ c \in Nat /\ e = a + WordBits + c /\ k = a + b /\ p = e + (p % WordBits)
      BY <1>1, <3>2 DEF a, c, e
    <3>5. k \in Nat /\ k < p
      <4> HIDE DEF k
      <4> QED BY <1>0, <3>3, <3>4
    <3> QED BY <1>0, <3>5 DEF Below
  <2> HIDE DEF k
  <2> QED BY <2>1, <2>2, <2>3
<1>6. f \in [positions -> zeros \X Positions]
  BY <1>4
<1>7. \A k, l \in positions : f[k] = f[l] => k = l
  <2> SUFFICES ASSUME NEW k \in positions, NEW l \in positions, f[k] = f[l] PROVE k = l
    OBVIOUS
  <2>1. k \div WordBits = l \div WordBits /\ k % WordBits = l % WordBits
    OBVIOUS
  <2>2. k = ((k \div WordBits) * WordBits) + (k % WordBits) /\ l = ((l \div WordBits) * WordBits) + (l % WordBits)
    BY <1>4
  <2> QED BY <2>1, <2>2
<1>8. \A c \in zeros \X Positions : \E k \in positions : f[k] = c
  BY <1>5
<1> HIDE DEF f, positions, zeros
<1>9. f \in Bijection(positions, zeros \X Positions)
  BY <1>6, <1>7, <1>8 DEF Bijection, Injection, Surjection, IsInjective
<1>10. Cardinality(zeros \X Positions) = Cardinality(positions)
  BY <1>3, <1>9, FS_Bijection DEF ExistsBijection
<1>11. Cardinality(zeros \X Positions) = Cardinality(zeros) * WordBits /\ Cardinality(zeros) \in Nat
  BY <1>3, FS_Product, FS_CardinalityType
<1> QED BY <1>3, <1>10, <1>11 DEF positions, zeros

LEMMA BitsCounted == \A S : Bits!Cardinality(S) = Cardinality(S)
  BY DEF Bits!Cardinality, Cardinality

(* The bit of a rank is found where it is, but for the positions of the    *)
(* zero words before it.                                                   *)
LEMMA SelectFinds ==
    ASSUME BitState
    PROVE  Bits!SelectInvertsRank
<1> DEFINE n == Count
           width == n * WordBits
           set == {i \in Below(width) : Bit(dense, i) = 1}
           scanned == {i \in Below(Reach) : dense[i \div WordBits] # {}}
<1>0. n \in Nat /\ dense \in Words(n) /\ DOMAIN dense = Below(n)
  BY DEF BitState, Words
<1>1. width \in Nat /\ Reach \in Nat /\ Reach <= width /\ WordBits \in Nat
  BY <1>0, ReachIs, IntegerSetsAssumption
<1>2. Bits!WordCount = n
  BY BitsCounted DEF Bits!WordCount, Count
<1>3. \A i : Bits!GetBit(i) = Bit(dense, i)
  BY DEF Bits!GetBit, Bits!BitIn, Bit
<1>4. \A i : Bit(dense, i) = 1 => dense[i \div WordBits] # {}
  BY DEF Bit
<1>5. Bits!Scanned = scanned
  BY ReachIs DEF Bits!Scanned, Below
<1>6. \A p : size # 0 => Bits!Rank(p) = Cardinality({i \in set : i < p})
  <2> SUFFICES ASSUME NEW p, size # 0 PROVE Bits!Rank(p) = Cardinality({i \in set : i < p})
    OBVIOUS
  <2>1. Bits!Rank(p) = Bits!Cardinality({i \in 0 .. width - 1 : i < p /\ Bit(dense, i) = 1})
    BY <1>2, <1>3 DEF Bits!Rank
  <2>2. {i \in 0 .. width - 1 : i < p /\ Bit(dense, i) = 1} = {i \in set : i < p}
    BY DEF Below
  <2> HIDE DEF set
  <2> QED BY <2>1, <2>2, BitsCounted
<1> SUFFICES ASSUME size # 0, NEW p \in Below(Reach), Bit(dense, p) = 1,
                    Bits!Rank(p) + 1 < start
             PROVE  Bits!Select(Bits!Rank(p) + 1) =
                        p - WordBits * Cardinality({w \in Below(n) : w < p \div WordBits /\ dense[w] = {}})
  <2> HIDE DEF n
  <2> QED BY <1>0, <1>3, ReachIs, BitsCounted DEF Bits!SelectInvertsRank, Below
<1> DEFINE before == {i \in set : i < p}
           count(i) == Cardinality({k \in scanned : k <= i /\ Bit(dense, k) = 1})
           r == Cardinality(before) + 1
           hits == {i \in scanned : count(i) = r}
<1>7. p \in Nat /\ p < Reach /\ p \in Below(width) /\ p \in set /\ p \in scanned
  BY <1>1, <1>4 DEF Below
<1>8. IsFiniteSet(set) /\ IsFiniteSet(before) /\ Cardinality(before) \in Nat
  <2>1. set \in SUBSET Below(width) /\ before \in SUBSET set
    OBVIOUS
  <2> HIDE DEF set, before, width
  <2> QED BY <1>1, <2>1, UpTo, FS_Subset, FS_CardinalityType
<1>9. ASSUME NEW i \in scanned, i <= p
      PROVE  {k \in scanned : k <= i /\ Bit(dense, k) = 1} = {k \in set : k <= i}
  <2>1. i \in Nat /\ i < Reach
    BY <1>1 DEF Below
  <2>2. \A k \in Nat : k <= i => k \in Below(Reach) /\ k \in Below(width)
    <3> HIDE DEF width
    <3> QED BY <1>1, <2>1 DEF Below
  <2> QED BY <1>4, <2>2 DEF Below
<1>10. count(p) = r
  <2>1. {k \in set : k <= p} = before \cup {p} /\ p \notin before
    <3>1. \A k \in set : k \in Nat
      BY DEF Below
    <3>2. p \in Nat /\ p \in set
      BY <1>7
    <3> HIDE DEF set
    <3>3. ASSUME NEW k PROVE (k \in set /\ k <= p) <=> ((k \in set /\ k < p) \/ k = p)
      <4>1. CASE k \notin set
        BY <3>2, <4>1
      <4>2. CASE k \in set
        <5>1. k \in Nat
          BY <3>1, <4>2
        <5>2. k <= p <=> k < p \/ k = p
          BY <3>2, <5>1
        <5> QED BY <4>2, <5>2
      <4> QED BY <4>1, <4>2
    <3>4. ~(p < p)
      BY <3>2
    <3> QED BY <3>3, <3>4
  <2>2. p <= p
    BY <1>7
  <2>3. count(p) = Cardinality(before \cup {p})
    BY <1>7, <1>9, <2>1, <2>2
  <2> HIDE DEF before
  <2> QED BY <1>8, <2>1, <2>3, FS_AddElement
<1>11. ASSUME NEW i \in scanned, i < p
       PROVE  count(i) # r
  <2>1. {k \in set : k <= i} \in SUBSET before
    <3>1. i \in Nat /\ \A k \in set : k \in Nat
      BY DEF Below
    <3>2. \A k \in set : k <= i => k < p
      <4>1. p \in Nat
        BY <1>7
      <4> HIDE DEF set, scanned
      <4> QED BY <1>11, <3>1, <4>1
    <3> HIDE DEF set
    <3> QED BY <3>2
  <2>2. i <= p
    BY <1>7, <1>11 DEF Below
  <2>3. count(i) = Cardinality({k \in set : k <= i})
    BY <1>9, <2>2
  <2> DEFINE these == {k \in set : k <= i}
             c == count(i)
  <2> HIDE DEF before, these, c
  <2>4. c <= Cardinality(before) /\ c \in Nat
    BY <1>8, <2>1, <2>3, FS_Subset, FS_CardinalityType DEF these, c
  <2>5. c # Cardinality(before) + 1
    BY <1>8, <2>4
  <2> QED BY <2>5 DEF c
<1>12. Bits!Select(Bits!Rank(p) + 1) = Cardinality({k \in scanned : k < p})
  <2>1. Bits!Rank(p) + 1 = r
    BY <1>6
  <2>2. ~(size = 0 \/ r >= start) 
    <3>1. r < start /\ r \in Nat /\ start \in Nat
      BY <1>8, <2>1 DEF BitState
    <3> QED BY <3>1
  <2>3. Bits!Select(r) =
            LET found == {i \in scanned : Bits!Cardinality({k \in scanned : k <= i /\ Bits!GetBit(k) = 1}) = r}
            IN  IF found = {} THEN None ELSE Bits!Cardinality({k \in scanned : k < Bits!Min(found)})
    <3> HIDE DEF scanned, r
    <3> QED BY <1>5, <2>2 DEF Bits!Select
  <2>4. Bits!Select(r) =
            IF hits = {} THEN None ELSE Cardinality({k \in scanned : k < Bits!Min(hits)})
    <3>1. hits = {i \in scanned : Bits!Cardinality({k \in scanned : k <= i /\ Bits!GetBit(k) = 1}) = r}
      <4> HIDE DEF scanned, r
      <4> QED BY <1>3, BitsCounted
    <3> HIDE DEF scanned, r, hits
    <3> QED BY <2>3, <3>1, BitsCounted
  <2>5. p \in hits /\ \A i \in hits : i \in Nat /\ ~(i < p)
    <3>1. scanned \subseteq Nat
      BY DEF Below
    <3> HIDE DEF scanned, r, count
    <3> QED BY <1>7, <1>10, <1>11, <3>1
  <2> HIDE DEF hits, scanned, r
  <2>6. \A i \in hits : p <= i
    BY <1>7, <2>5
  <2>7. Bits!Min(hits) = p
    <3> DEFINE m == CHOOSE x \in hits : \A y \in hits : x <= y
    <3>1. m \in hits /\ \A y \in hits : m <= y
      BY <2>5, <2>6, Zenon
    <3>2. Bits!Min(hits) = m
      BY DEF Bits!Min
    <3> HIDE DEF m
    <3>3. m \in Nat /\ m <= p /\ p <= m
      BY <2>5, <2>6, <3>1
    <3> QED BY <1>7, <3>2, <3>3
  <2> QED BY <2>1, <2>4, <2>5, <2>7
<1>13. Cardinality({k \in scanned : k < p}) =
           p - WordBits * Cardinality({w \in Below(n) : w < p \div WordBits /\ dense[w] = {}})
  <2> DEFINE hidden == {k \in Below(p) : dense[k \div WordBits] = {}}
             zeros == {w \in Below(n) : w < p \div WordBits /\ dense[w] = {}}
  <2>1. {k \in scanned : k < p} = Below(p) \ hidden /\ Below(p) \cap hidden = hidden
    BY <1>1, <1>7 DEF Below
  <2>2. IsFiniteSet(hidden) /\ Cardinality(zeros) \in Nat /\ Cardinality(hidden) = Cardinality(zeros) * WordBits
    <3>1. dense[p \div WordBits] # {} /\ p \in Below(n * WordBits)
      BY <1>4, <1>7
    <3> HIDE DEF n
    <3> QED BY <1>0, <3>1, ZeroPositions
  <2> HIDE DEF hidden, zeros, n
  <2>3. Cardinality(Below(p) \ hidden) = Cardinality(Below(p)) - Cardinality(Below(p) \cap hidden)
    BY <1>7, UpTo, FS_Difference
  <2>4. Cardinality(Below(p)) = p
    BY <1>7, UpTo
  <2>5. Cardinality(zeros) * WordBits = WordBits * Cardinality(zeros)
    BY <1>1, <2>2
  <2> QED BY <2>1, <2>2, <2>3, <2>4, <2>5 DEF zeros
<1> QED BY <1>12, <1>13

-----------------------------------------------------------------------------
(* Disjoint sets.  No set of nodes without a root is closed under parents.  *)

Nodes == 0 .. Size - 1

Parents == [Nodes -> Nodes]

Rooted(p) ==
    \A T \in SUBSET Nodes : T # {} => \E x \in T : p[x] = x \/ p[x] \notin T

(* r takes every node to where its climb ends.                              *)
Leads(p, r) ==
    /\ r \in Parents
    /\ \A x \in Nodes : r[p[x]] = r[x] /\ p[r[x]] = r[x] /\ (p[x] = x => r[x] = x)

LEMMA NodesFinite == IsFiniteSet(Nodes) /\ Cardinality(Nodes) = Size
<1>0. Size \in Nat
  BY IntegerSetsAssumption
<1> DEFINE top == Size - 1
<1>1. top \in Int /\ 0 \in Int
  BY <1>0
<1>2. IsFiniteSet(0 .. top) /\ Cardinality(0 .. top) = IF 0 > top THEN 0 ELSE top - 0 + 1
  <2> HIDE DEF top
  <2> QED BY <1>1, FS_Interval
<1> QED BY <1>0, <1>2 DEF Nodes

IsClimb(p, x, t, f) == f = [n \in 0 .. t |-> IF n = 0 THEN x ELSE p[f[n - 1]]]

LEMMA ClimbExists ==
    ASSUME NEW p, NEW x
    PROVE  \A t \in Nat : \E f : IsClimb(p, x, t, f)
<1> DEFINE S == {t \in Nat : ~ \E f : IsClimb(p, x, t, f)}
<1> SUFFICES ASSUME S # {} PROVE FALSE
  OBVIOUS
<1>1. PICK t \in S : \A j \in S : ~(j < t)
  <2>1. S \in SUBSET Nat
    OBVIOUS
  <2> HIDE DEF S
  <2> QED BY <2>1, Least
<1>2. t \in Nat /\ ~ \E f : IsClimb(p, x, t, f)
  OBVIOUS
<1>3. CASE t = 0
  <2> DEFINE f == [n \in 0 .. t |-> x]
  <2>1. \A n \in 0 .. t : n = 0
    BY <1>3
  <2>2. f = [n \in 0 .. t |-> IF n = 0 THEN x ELSE p[f[n - 1]]]
    BY <2>1
  <2> QED BY <1>2, <2>2 DEF IsClimb
<1>4. CASE t # 0
  <2>1. t - 1 \in Nat /\ t - 1 < t
    BY <1>2, <1>4
  <2>2. PICK f : IsClimb(p, x, t - 1, f)
    BY <1>1, <2>1
  <2> DEFINE g == [n \in 0 .. t |-> IF n = t THEN p[f[t - 1]] ELSE f[n]]
  <2>3. \A n \in 0 .. t - 1 : f[n] = IF n = 0 THEN x ELSE p[f[n - 1]]
    BY <2>2 DEF IsClimb
  <2>4. ASSUME NEW n \in 0 .. t
        PROVE  g[n] = IF n = 0 THEN x ELSE p[g[n - 1]]
    <3>1. CASE n = t
      <4>1. g[n] = p[f[t - 1]] /\ n - 1 \in 0 .. t /\ n - 1 # t
        BY <1>2, <1>4, <3>1
      <4>2. g[n - 1] = f[t - 1]
        BY <3>1, <4>1
      <4> QED BY <1>4, <3>1, <4>1, <4>2
    <3>2. CASE n # t
      <4>1. n \in 0 .. t - 1 /\ g[n] = f[n]
        BY <1>2, <3>2
      <4>2. n # 0 => n - 1 \in 0 .. t /\ n - 1 # t
        BY <1>2, <4>1
      <4>3. n # 0 => g[n - 1] = f[n - 1]
        BY <4>2
      <4> QED BY <2>3, <4>1, <4>3
    <3> QED BY <3>1, <3>2
  <2>5. g = [n \in 0 .. t |-> g[n]]
    OBVIOUS
  <2> HIDE DEF g
  <2>6. g = [n \in 0 .. t |-> IF n = 0 THEN x ELSE p[g[n - 1]]]
    BY <2>4, <2>5
  <2> QED BY <1>2, <2>6 DEF IsClimb
<1> QED BY <1>3, <1>4

LEMMA ClimbSteps ==
    ASSUME NEW p \in Parents, NEW x \in Nodes
    PROVE  LET at == Classes!Climb(p, x)
           IN  /\ at[0] = x
               /\ \A n \in 1 .. Size : at[n] = p[at[n - 1]]
               /\ \A n \in 0 .. Size : at[n] \in Nodes
<1>0. Size \in Nat
  BY IntegerSetsAssumption
<1> DEFINE at == CHOOSE f : IsClimb(p, x, Size, f)
<1>1. IsClimb(p, x, Size, at)
  BY <1>0, ClimbExists
<1>2. Classes!Climb(p, x) = at
  BY DEF Classes!Climb, IsClimb
<1> HIDE DEF at
<1>3. \A n \in 0 .. Size : at[n] = IF n = 0 THEN x ELSE p[at[n - 1]]
  BY <1>1 DEF IsClimb
<1>4. at[0] = x
  BY <1>0, <1>3
<1>5. ASSUME NEW n \in 1 .. Size
      PROVE  at[n] = p[at[n - 1]]
  <2>1. n \in 0 .. Size /\ n # 0
    OBVIOUS
  <2> QED BY <1>3, <2>1
<1>6. ASSUME NEW k \in 0 .. Size, at[k] \notin Nodes
      PROVE  FALSE
  <2> DEFINE S == {n \in 0 .. Size : at[n] \notin Nodes}
  <2>1. S \in SUBSET Nat /\ S # {}
    BY <1>6
  <2>2. PICK n \in S : \A j \in S : ~(j < n)
    <3> HIDE DEF S
    <3> QED BY <2>1, Least
  <2>3. n \in 0 .. Size /\ at[n] \notin Nodes
    BY <2>2
  <2>4. n # 0
    BY <1>4, <2>3
  <2>5. n \in 1 .. Size /\ n - 1 \in 0 .. Size /\ n - 1 < n
    BY <1>0, <2>3, <2>4
  <2>6. at[n - 1] \in Nodes
    BY <2>2, <2>5
  <2> QED BY <1>5, <2>3, <2>5, <2>6 DEF Parents
<1> QED BY <1>2, <1>4, <1>5, <1>6

(* What holds of a node and of the parent of whatever it holds of, holds    *)
(* all the way up.                                                          *)
LEMMA ClimbWithin ==
    ASSUME NEW p \in Parents, NEW x \in Nodes, NEW T \in SUBSET Nodes,
           NEW from \in 0 .. Size, Classes!Climb(p, x)[from] \in T, \A y \in T : p[y] \in T
    PROVE  \A n \in from .. Size : Classes!Climb(p, x)[n] \in T
<1> DEFINE at == Classes!Climb(p, x)
           S == {n \in from .. Size : at[n] \notin T}
<1>0. Size \in Nat
  BY IntegerSetsAssumption
<1>1. \A n \in 1 .. Size : at[n] = p[at[n - 1]]
  BY ClimbSteps
<1> HIDE DEF at
<1> SUFFICES ASSUME S # {} PROVE FALSE
  BY DEF at
<1>2. S \in SUBSET Nat
  BY <1>0
<1>3. PICK n \in S : \A j \in S : ~(j < n)
  <2> HIDE DEF S
  <2> QED BY <1>2, Least
<1>4. n \in from .. Size /\ at[n] \notin T /\ n # from
  BY <1>3 DEF at
<1>5. n \in 1 .. Size /\ n - 1 \in from .. Size /\ n - 1 < n
  BY <1>0, <1>4
<1>6. at[n - 1] \in T
  BY <1>3, <1>5
<1> QED BY <1>1, <1>4, <1>5, <1>6

LEMMA RootEnds ==
    ASSUME NEW p \in Parents, Rooted(p), NEW x \in Nodes
    PROVE  /\ Classes!RootIn(p, x) \in Nodes
           /\ p[Classes!RootIn(p, x)] = Classes!RootIn(p, x)
<1> DEFINE at == Classes!Climb(p, x)
<1>0. Size \in Nat
  BY IntegerSetsAssumption
<1>1. /\ at[0] = x
      /\ \A n \in 1 .. Size : at[n] = p[at[n - 1]]
      /\ \A n \in 0 .. Size : at[n] \in Nodes
  BY ClimbSteps
<1>2. ASSUME NEW i \in 0 .. Size, p[at[i]] = at[i]
      PROVE  at[Size] = at[i]
  <2>1. Size \in i .. Size
    BY <1>0
  <2> DEFINE T == {at[i]}
  <2>2. T \in SUBSET Nodes /\ at[i] \in T /\ \A y \in T : p[y] \in T
    BY <1>1, <1>2
  <2>3. \A n \in i .. Size : at[n] \in T
    <3> HIDE DEF T
    <3> QED BY <2>2, ClimbWithin
  <2> QED BY <2>1, <2>3
<1> SUFFICES ASSUME p[at[Size]] # at[Size] PROVE FALSE
  BY <1>0, <1>1 DEF Classes!RootIn
<1>3. \A i \in 0 .. Size : p[at[i]] # at[i]
  BY <1>2
<1> HIDE DEF at
<1>4. PICK i, j \in 0 .. Size : i < j /\ at[i] = at[j]
  <2> DEFINE Times == 0 .. Size
  <2>1. IsFiniteSet(Times) /\ Cardinality(Times) = Size + 1
    BY <1>0, FS_Interval
  <2>2. IsFiniteSet(Nodes) /\ Cardinality(Nodes) = Size
    BY NodesFinite
  <2> DEFINE f == [n \in Times |-> at[n]]
  <2>3. f \in [Times -> Nodes]
    BY <1>1
  <2>4. PICK a, b \in Times : a # b /\ f[a] = f[b]
    <3>1. Cardinality(Nodes) < Cardinality(Times)
      BY <1>0, <2>1, <2>2
    <3> HIDE DEF f, Times
    <3> QED BY <2>1, <2>2, <2>3, <3>1, FS_PigeonHole
  <2>5. at[a] = at[b]
    BY <2>4
  <2> QED BY <1>0, <2>4, <2>5
<1> DEFINE T == {at[n] : n \in i .. j - 1}
<1>5. T \in SUBSET Nodes /\ T # {}
  <2>1. i \in i .. j - 1 /\ \A n \in i .. j - 1 : n \in 0 .. Size
    BY <1>0, <1>4
  <2> QED BY <1>1, <2>1
<1>6. PICK y \in T : p[y] = y \/ p[y] \notin T
  <2> HIDE DEF T
  <2> QED BY <1>5 DEF Rooted
<1>7. PICK n \in i .. j - 1 : y = at[n]
  BY <1>6
<1>8. n \in 0 .. Size /\ n + 1 \in 1 .. Size /\ n + 1 - 1 = n
  BY <1>0, <1>4
<1>9. p[y] = at[n + 1]
  BY <1>1, <1>7, <1>8
<1>10. p[y] \in T
  <2>1. CASE n + 1 = j
    <3>1. i \in i .. j - 1
      BY <1>0, <1>4
    <3> QED BY <1>4, <1>9, <2>1, <3>1
  <2>2. CASE n + 1 # j
    <3>1. n + 1 \in i .. j - 1
      BY <1>0, <1>4, <2>2
    <3> QED BY <1>9, <3>1
  <2> QED BY <2>1, <2>2
<1> QED BY <1>3, <1>6, <1>7, <1>8, <1>10

LEMMA LeadsRoot ==
    ASSUME NEW p \in Parents, Rooted(p), NEW r, Leads(p, r), NEW x \in Nodes
    PROVE  Classes!RootIn(p, x) = r[x]
<1> DEFINE T == {y \in Nodes : r[y] = r[x]}
           at == Classes!Climb(p, x)
<1>0. Size \in Nat
  BY IntegerSetsAssumption
<1>1. T \in SUBSET Nodes /\ \A y \in T : p[y] \in T
  BY DEF Leads, Parents
<1>2. at[0] \in T /\ 0 \in 0 .. Size /\ Size \in 0 .. Size
  BY <1>0, ClimbSteps
<1>3. at[Size] \in T
  <2> HIDE DEF T
  <2> QED BY <1>1, <1>2, ClimbWithin
<1>4. p[at[Size]] = at[Size]
  BY RootEnds DEF Classes!RootIn
<1> QED BY <1>3, <1>4 DEF Leads, Classes!RootIn

RootsOf(p) == [x \in Nodes |-> Classes!RootIn(p, x)]

LEMMA RootsLead ==
    ASSUME NEW p \in Parents, Rooted(p)
    PROVE  Leads(p, RootsOf(p))
<1>0. Size \in Nat
  BY IntegerSetsAssumption
<1>1. RootsOf(p) \in Parents
  BY RootEnds DEF RootsOf, Parents
<1>2. ASSUME NEW x \in Nodes
      PROVE  /\ RootsOf(p)[p[x]] = RootsOf(p)[x]
             /\ p[RootsOf(p)[x]] = RootsOf(p)[x]
             /\ p[x] = x => RootsOf(p)[x] = x
  <2> DEFINE at == Classes!Climb(p, x)
             up == Classes!Climb(p, p[x])
  <2>0. p[x] \in Nodes
    BY DEF Parents
  <2>1. /\ at[0] = x
        /\ \A n \in 1 .. Size : at[n] = p[at[n - 1]]
    BY ClimbSteps
  <2>2. /\ up[0] = p[x]
        /\ \A n \in 1 .. Size : up[n] = p[up[n - 1]]
    BY <2>0, ClimbSteps
  <2>3. p[at[Size]] = at[Size]
    BY RootEnds DEF Classes!RootIn
  <2> HIDE DEF at, up
  <2>4. up[Size] = p[at[Size]]
    <3> DEFINE S == {n \in 0 .. Size : up[n] # p[at[n]]}
    <3> SUFFICES ASSUME S # {} PROVE FALSE
      BY <1>0
    <3>1. S \in SUBSET Nat
      OBVIOUS
    <3>2. PICK n \in S : \A j \in S : ~(j < n)
      <4> HIDE DEF S
      <4> QED BY <3>1, Least
    <3>3. n \in 0 .. Size /\ up[n] # p[at[n]] /\ n # 0
      BY <2>1, <2>2, <3>2
    <3>4. n \in 1 .. Size /\ n - 1 \in 0 .. Size /\ n - 1 < n
      BY <1>0, <3>3
    <3>5. up[n - 1] = p[at[n - 1]]
      BY <3>2, <3>4
    <3> QED BY <2>1, <2>2, <3>3, <3>4, <3>5
  <2>5. RootsOf(p)[p[x]] = RootsOf(p)[x] /\ p[RootsOf(p)[x]] = RootsOf(p)[x]
    BY <2>0, <2>3, <2>4 DEF RootsOf, Classes!RootIn, at, up
  <2>6. ASSUME p[x] = x
        PROVE  RootsOf(p)[x] = x
    <3> DEFINE T == {x}
    <3>1. T \in SUBSET Nodes /\ at[0] \in T /\ 0 \in 0 .. Size /\ Size \in 0 .. Size /\ \A y \in T : p[y] \in T
      BY <1>0, <2>1, <2>6
    <3>2. at[Size] \in T
      <4> HIDE DEF T
      <4> QED BY <3>1, ClimbWithin DEF at
    <3> QED BY <3>2 DEF RootsOf, Classes!RootIn, at
  <2> QED BY <2>5, <2>6
<1> QED BY <1>1, <1>2 DEF Leads

(* What stays on the way of a climb has the root it has.                    *)
LEMMA PassedRoot ==
    ASSUME NEW p \in Parents, Rooted(p), NEW x \in Nodes, NEW n \in 0 .. Size
    PROVE  /\ Classes!Climb(p, x)[n] \in Nodes
           /\ Classes!RootIn(p, Classes!Climb(p, x)[n]) = Classes!RootIn(p, x)
<1> DEFINE r == RootsOf(p)
           T == {y \in Nodes : r[y] = r[x]}
           at == Classes!Climb(p, x)
<1>0. Size \in Nat
  BY IntegerSetsAssumption
<1>1. Leads(p, r)
  BY RootsLead
<1>2. \A y \in Nodes : r[y] = Classes!RootIn(p, y)
  BY DEF RootsOf
<1> HIDE DEF r
<1>3. T \in SUBSET Nodes /\ \A y \in T : p[y] \in T
  BY <1>1 DEF Leads, Parents
<1>4. at[0] \in T /\ 0 \in 0 .. Size /\ n \in 0 .. Size
  BY <1>0, ClimbSteps
<1>5. at[n] \in T
  <2> HIDE DEF T
  <2> QED BY <1>3, <1>4, ClimbWithin
<1> QED BY <1>2, <1>5

(* To point nodes at their roots changes no root.                           *)
LEMMA Flattened ==
    ASSUME NEW p \in Parents, Rooted(p), NEW q \in Parents,
           \A y \in Nodes : q[y] \in {p[y], Classes!RootIn(p, y)}
    PROVE  Rooted(q) /\ \A y \in Nodes : Classes!RootIn(q, y) = Classes!RootIn(p, y)
<1> DEFINE r == RootsOf(p)
<1>1. Leads(p, r)
  BY RootsLead
<1>2. \A y \in Nodes : r[y] = Classes!RootIn(p, y)
  BY DEF RootsOf
<1> HIDE DEF r
<1>3. \A y \in Nodes : q[y] \in {p[y], r[y]} /\ r[y] \in Nodes
  BY <1>1, <1>2 DEF Leads, Parents
<1>4. \A y \in Nodes : r[r[y]] = r[y]
  BY <1>1, <1>3 DEF Leads
<1>5. \A y \in Nodes : q[r[y]] = r[y]
  BY <1>1, <1>3, <1>4 DEF Leads
<1>6. ASSUME NEW T \in SUBSET Nodes, T # {}, \A x \in T : q[x] # x /\ q[x] \in T
      PROVE  FALSE
  <2>1. \A x \in T : q[x] # r[x]
    BY <1>5, <1>6
  <2>2. \A x \in T : q[x] = p[x]
    BY <1>3, <2>1
  <2> QED BY <1>6, <2>2 DEF Rooted
<1>7. Rooted(q)
  BY <1>6 DEF Rooted
<1>8. \A x \in Nodes : r[q[x]] = r[x] /\ (q[x] = x => r[x] = x)
  BY <1>1, <1>3, <1>4 DEF Leads
<1>9. Leads(q, r)
  BY <1>1, <1>5, <1>8 DEF Leads
<1> QED BY <1>2, <1>7, <1>9, LeadsRoot

LEMMA Compressed ==
    ASSUME NEW p \in Parents, Rooted(p), NEW x \in Nodes
    PROVE  /\ Classes!Compress(p, x) \in Parents
           /\ Rooted(Classes!Compress(p, x))
           /\ \A y \in Nodes : Classes!RootIn(Classes!Compress(p, x), y) = Classes!RootIn(p, y)
<1> DEFINE passed == {Classes!Climb(p, x)[n] : n \in 0 .. Size}
           q == Classes!Compress(p, x)
<1>1. q = [y \in Nodes |-> IF y \in passed THEN Classes!RootIn(p, x) ELSE p[y]]
  BY DEF Classes!Compress, Classes!Items, Nodes
<1>2. \A y \in passed : Classes!RootIn(p, y) = Classes!RootIn(p, x)
  BY PassedRoot
<1> HIDE DEF passed, q
<1>3. \A y \in Nodes : q[y] \in {p[y], Classes!RootIn(p, y)}
  BY <1>1, <1>2
<1>4. q \in Parents
  <2>1. Classes!RootIn(p, x) \in Nodes
    BY RootEnds
  <2> QED BY <1>1, <2>1 DEF Parents
<1> QED BY <1>3, <1>4, Flattened DEF q

Joins(p, q, a, b) == q = [p EXCEPT ![a] = b]

LEMMA Linked ==
    ASSUME NEW p \in Parents, Rooted(p), NEW a \in Nodes, NEW b \in Nodes,
           p[a] = a, p[b] = b, a # b, NEW q, Joins(p, q, a, b)
    PROVE  /\ q \in Parents /\ Rooted(q)
           /\ \A y \in Nodes : Classes!RootIn(q, y) =
                  IF Classes!RootIn(p, y) = a THEN b ELSE Classes!RootIn(p, y)
<1> DEFINE r == RootsOf(p)
           s == [y \in Nodes |-> IF r[y] = a THEN b ELSE r[y]]
<1>1. Leads(p, r)
  BY RootsLead
<1>2. \A y \in Nodes : r[y] = Classes!RootIn(p, y)
  BY DEF RootsOf
<1> HIDE DEF r
<1>3. q \in Parents /\ q[a] = b /\ \A y \in Nodes : y # a => q[y] = p[y]
  BY DEF Parents, Joins
<1>4. ASSUME NEW T \in SUBSET Nodes, T # {}, \A x \in T : q[x] # x /\ q[x] \in T
      PROVE  FALSE
  <2>1. b \notin T
    BY <1>3, <1>4
  <2>2. a \notin T
    BY <1>3, <1>4, <2>1
  <2>3. \A x \in T : q[x] = p[x]
    BY <1>3, <2>2
  <2> QED BY <1>4, <2>3 DEF Rooted
<1>5. Rooted(q)
  BY <1>4 DEF Rooted
<1>6. r \in Parents /\ r[a] = a /\ r[b] = b
  BY <1>1 DEF Leads
<1>7. s \in Parents
  BY <1>6 DEF Parents
<1>8. ASSUME NEW x \in Nodes
      PROVE  s[q[x]] = s[x] /\ q[s[x]] = s[x] /\ (q[x] = x => s[x] = x)
  <2>0. q[x] \in Nodes /\ p[x] \in Nodes /\ r[x] \in Nodes
    BY <1>3, <1>6 DEF Parents
  <2>1. s[q[x]] = s[x]
    BY <1>1, <1>3, <1>6, <2>0 DEF Leads
  <2>2. q[s[x]] = s[x]
    BY <1>1, <1>3, <1>6, <2>0 DEF Leads
  <2>3. q[x] = x => s[x] = x
    BY <1>1, <1>3, <1>6, <2>0 DEF Leads
  <2> QED BY <2>1, <2>2, <2>3
<1>9. Leads(q, s)
  <2> HIDE DEF s
  <2> QED BY <1>7, <1>8 DEF Leads
<1>10. \A y \in Nodes : Classes!RootIn(q, y) = s[y]
  <2> HIDE DEF s
  <2> QED BY <1>3, <1>5, <1>9, LeadsRoot
<1> QED BY <1>2, <1>3, <1>5, <1>10

-----------------------------------------------------------------------------
(* The classes of a function: the nodes it takes to the same place.         *)

ClassIn(r, x) == {y \in Nodes : r[y] = r[x]}

ClassesIn(r) == {ClassIn(r, x) : x \in Nodes}

(* A class for each place, and so for any set of places.                    *)
LEMMA ClassesCounted ==
    ASSUME NEW r \in Parents, NEW S \in SUBSET Nodes
    PROVE  LET places == {r[x] : x \in S}
               classes == {ClassIn(r, x) : x \in S}
           IN  /\ IsFiniteSet(classes) /\ IsFiniteSet(places)
               /\ Cardinality(classes) = Cardinality(places)
<1> DEFINE places == {r[x] : x \in S}
           classes == {ClassIn(r, x) : x \in S}
           f == [d \in places |-> {y \in Nodes : r[y] = d}]
<1>1. IsFiniteSet(places)
  <2>1. places \in SUBSET Nodes
    BY DEF Parents
  <2> QED BY <2>1, NodesFinite, FS_Subset
<1>2. f \in [places -> classes]
  BY DEF ClassIn
<1>3. \A d, e \in places : f[d] = f[e] => d = e
  <2> SUFFICES ASSUME NEW x \in S, NEW y \in S, f[r[x]] = f[r[y]] PROVE r[x] = r[y]
    OBVIOUS
  <2>1. x \in f[r[x]]
    OBVIOUS
  <2> QED BY <2>1
<1>4. \A c \in classes : \E d \in places : f[d] = c
  BY DEF ClassIn
<1> HIDE DEF f, places, classes
<1>5. f \in Bijection(places, classes)
  BY <1>2, <1>3, <1>4 DEF Bijection, Injection, Surjection, IsInjective
<1>6. ExistsBijection(places, classes)
  BY <1>5 DEF ExistsBijection
<1>7. IsFiniteSet(classes) /\ Cardinality(classes) = Cardinality(places)
  BY <1>1, <1>6, FS_Bijection
<1> QED BY <1>1, <1>7 DEF places, classes

LEMMA ClassesFinite ==
    ASSUME NEW r \in Parents
    PROVE  /\ IsFiniteSet(ClassesIn(r)) /\ Cardinality(ClassesIn(r)) \in Nat
           /\ Cardinality(ClassesIn(r)) = Cardinality({r[x] : x \in Nodes})
<1>1. Nodes \in SUBSET Nodes
  OBVIOUS
<1> QED BY <1>1, ClassesCounted, FS_CardinalityType DEF ClassesIn

(* Two classes become one when the place of one is given for the other's.   *)
LEMMA ClassesMerged ==
    ASSUME NEW r \in Parents, NEW q \in Parents, NEW x \in Nodes, NEW y \in Nodes, r[x] # r[y],
           \A z \in Nodes : q[z] = IF r[z] = r[x] THEN r[y] ELSE r[z]
    PROVE  /\ ClassesIn(q) = (ClassesIn(r) \ {ClassIn(r, x), ClassIn(r, y)})
                               \cup {ClassIn(r, x) \cup ClassIn(r, y)}
           /\ Cardinality(ClassesIn(q)) = Cardinality(ClassesIn(r)) - 1
<1> DEFINE A == ClassIn(r, x)
           B == ClassIn(r, y)
           Rest == ClassesIn(r) \ {A, B}
<1>1. ASSUME NEW z \in Nodes, r[z] \in {r[x], r[y]}
      PROVE  ClassIn(q, z) = A \cup B
  BY <1>1 DEF ClassIn
<1>2. ASSUME NEW z \in Nodes, r[z] \notin {r[x], r[y]}
      PROVE  ClassIn(q, z) = ClassIn(r, z) /\ ClassIn(r, z) # A /\ ClassIn(r, z) # B
  <2>1. ClassIn(q, z) = ClassIn(r, z)
    BY <1>2 DEF ClassIn
  <2>2. z \in ClassIn(r, z) /\ z \notin A /\ z \notin B
    BY <1>2 DEF ClassIn
  <2> QED BY <2>1, <2>2
<1>3. ASSUME NEW z \in Nodes, ClassIn(r, z) # A, ClassIn(r, z) # B
      PROVE  r[z] \notin {r[x], r[y]}
  BY <1>3 DEF ClassIn
<1>4. ClassesIn(q) \subseteq Rest \cup {A \cup B}
  <2> SUFFICES ASSUME NEW z \in Nodes PROVE ClassIn(q, z) \in Rest \cup {A \cup B}
    BY DEF ClassesIn
  <2> HIDE DEF A, B
  <2> QED BY <1>1, <1>2 DEF ClassesIn
<1>5. Rest \cup {A \cup B} \subseteq ClassesIn(q)
  <2>1. ASSUME NEW c \in Rest PROVE c \in ClassesIn(q)
    <3>1. PICK z \in Nodes : c = ClassIn(r, z)
      BY DEF ClassesIn
    <3>2. ClassIn(q, z) = c
      BY <1>2, <1>3, <3>1
    <3> QED BY <3>2 DEF ClassesIn
  <2>2. A \cup B \in ClassesIn(q)
    <3>1. ClassIn(q, x) = A \cup B
      BY <1>1
    <3> QED BY <3>1 DEF ClassesIn
  <2> QED BY <2>1, <2>2
<1>6. A \in ClassesIn(r) /\ B \in ClassesIn(r) /\ A # B
  <2>1. x \in A /\ x \notin B
    BY DEF ClassIn
  <2> QED BY <2>1 DEF ClassesIn
<1>7. A \cup B \notin Rest
  <2> SUFFICES ASSUME NEW z \in Nodes, ClassIn(r, z) = A \cup B PROVE FALSE
    BY DEF ClassesIn
  <2>1. x \in ClassIn(r, z) /\ y \in ClassIn(r, z)
    BY DEF ClassIn
  <2> QED BY <2>1 DEF ClassIn
<1> HIDE DEF A, B
<1>8. IsFiniteSet(ClassesIn(r)) /\ Cardinality(ClassesIn(r)) \in Nat
  BY ClassesFinite
<1>9. IsFiniteSet(ClassesIn(r) \ {A}) /\ Cardinality(ClassesIn(r) \ {A}) = Cardinality(ClassesIn(r)) - 1
  BY <1>6, <1>8, FS_RemoveElement
<1> DEFINE Most == ClassesIn(r) \ {A}
<1>10. B \in Most /\ Rest = Most \ {B}
  BY <1>6
<1>11. IsFiniteSet(Rest) /\ Cardinality(Rest) = Cardinality(Most) - 1
  <2>1. IsFiniteSet(Most)
    BY <1>9
  <2>2. B \in Most /\ Rest = Most \ {B}
    BY <1>10
  <2> HIDE DEF Most, Rest
  <2> QED BY <2>1, <2>2, FS_RemoveElement
<1>12. Cardinality(Rest \cup {A \cup B}) = Cardinality(Rest) + 1
  <2>1. IsFiniteSet(Rest) /\ A \cup B \notin Rest
    BY <1>7, <1>11
  <2> HIDE DEF Rest
  <2> QED BY <2>1, FS_AddElement
<1>13. ClassesIn(q) = Rest \cup {A \cup B}
  BY <1>4, <1>5
<1>14. Cardinality(Rest) = Cardinality(ClassesIn(r)) - 2
  BY <1>8, <1>9, <1>11
<1> HIDE DEF Rest, Most
<1>15. Cardinality(ClassesIn(q)) = Cardinality(ClassesIn(r)) - 1
  BY <1>8, <1>12, <1>13, <1>14
<1> QED BY <1>13, <1>15 DEF A, B, Rest

-----------------------------------------------------------------------------
(* Numbers of classes: how many have a member before all of x's.            *)

Foremost(r, x) == {k \in Nodes : \A z \in ClassIn(r, x) : k < z}

NumberIn(r, x) == Cardinality({r[k] : k \in Foremost(r, x)})

WithNext(ids, d) ==
    [e \in DOMAIN ids \cup {d} |-> IF e \in DOMAIN ids THEN ids[e] ELSE Cardinality(DOMAIN ids)]

IsIds(r, t, f) == f = [n \in 0 .. t |-> IF n = 0 THEN <<>> ELSE WithNext(f[n - 1], r[n - 1])]

LEMMA IdsExist ==
    ASSUME NEW r
    PROVE  \A t \in Nat : \E f : IsIds(r, t, f)
<1> DEFINE S == {t \in Nat : ~ \E f : IsIds(r, t, f)}
<1> SUFFICES ASSUME S # {} PROVE FALSE
  OBVIOUS
<1>1. PICK t \in S : \A j \in S : ~(j < t)
  <2>1. S \in SUBSET Nat
    OBVIOUS
  <2> HIDE DEF S
  <2> QED BY <2>1, Least
<1>2. t \in Nat /\ ~ \E f : IsIds(r, t, f)
  OBVIOUS
<1>3. CASE t = 0
  <2> DEFINE f == [n \in 0 .. t |-> <<>>]
  <2>1. \A n \in 0 .. t : n = 0
    BY <1>3
  <2>2. f = [n \in 0 .. t |-> IF n = 0 THEN <<>> ELSE WithNext(f[n - 1], r[n - 1])]
    BY <2>1
  <2> QED BY <1>2, <2>2 DEF IsIds
<1>4. CASE t # 0
  <2>1. t - 1 \in Nat /\ t - 1 < t
    BY <1>2, <1>4
  <2>2. PICK f : IsIds(r, t - 1, f)
    BY <1>1, <2>1
  <2> DEFINE g == [n \in 0 .. t |-> IF n = t THEN WithNext(f[t - 1], r[t - 1]) ELSE f[n]]
  <2>3. \A n \in 0 .. t - 1 : f[n] = IF n = 0 THEN <<>> ELSE WithNext(f[n - 1], r[n - 1])
    BY <2>2 DEF IsIds
  <2>4. ASSUME NEW n \in 0 .. t
        PROVE  g[n] = IF n = 0 THEN <<>> ELSE WithNext(g[n - 1], r[n - 1])
    <3>1. CASE n = t
      <4>1. g[n] = WithNext(f[t - 1], r[t - 1]) /\ n - 1 \in 0 .. t /\ n - 1 # t
        BY <1>2, <1>4, <3>1
      <4>2. g[n - 1] = f[t - 1]
        BY <3>1, <4>1
      <4> QED BY <1>4, <3>1, <4>1, <4>2
    <3>2. CASE n # t
      <4>1. n \in 0 .. t - 1 /\ g[n] = f[n]
        BY <1>2, <3>2
      <4>2. n # 0 => n - 1 \in 0 .. t /\ n - 1 # t
        BY <1>2, <4>1
      <4>3. n # 0 => g[n - 1] = f[n - 1]
        BY <4>2
      <4> QED BY <2>3, <4>1, <4>3
    <3> QED BY <3>1, <3>2
  <2>5. g = [n \in 0 .. t |-> g[n]]
    OBVIOUS
  <2> HIDE DEF g
  <2>6. g = [n \in 0 .. t |-> IF n = 0 THEN <<>> ELSE WithNext(g[n - 1], r[n - 1])]
    BY <2>4, <2>5
  <2> QED BY <1>2, <2>6 DEF IsIds
<1> QED BY <1>3, <1>4

(* Of the first n nodes: their classes are numbered, without a gap.         *)
Numbered(r, n, ids) ==
    /\ DOMAIN ids = {r[m] : m \in 0 .. n - 1}
    /\ \A m \in 0 .. n - 1 : ids[r[m]] = NumberIn(r, m)
    /\ {ids[d] : d \in DOMAIN ids} = 0 .. Cardinality(DOMAIN ids) - 1

LEMMA NumberedNext ==
    ASSUME NEW r \in Parents, NEW n \in Nodes, NEW ids, Numbered(r, n, ids)
    PROVE  Numbered(r, n + 1, WithNext(ids, r[n]))
<1> DEFINE next == WithNext(ids, r[n])
           c == Cardinality(DOMAIN ids)
<1>0. Size \in Nat /\ n \in Nat /\ r[n] \in Nodes /\ \A m \in 0 .. n : m \in Nodes
  BY IntegerSetsAssumption DEF Nodes, Parents
<1>1. /\ DOMAIN ids = {r[m] : m \in 0 .. n - 1}
      /\ \A m \in 0 .. n - 1 : ids[r[m]] = NumberIn(r, m)
      /\ {ids[d] : d \in DOMAIN ids} = 0 .. c - 1
  BY DEF Numbered
<1>2. /\ DOMAIN next = DOMAIN ids \cup {r[n]}
      /\ \A d \in DOMAIN ids : next[d] = ids[d]
      /\ r[n] \notin DOMAIN ids => next[r[n]] = c
  BY DEF WithNext
<1>3. IsFiniteSet(DOMAIN ids) /\ c \in Nat
  <2>1. DOMAIN ids \in SUBSET Nodes
    BY <1>0, <1>1 DEF Parents
  <2> QED BY <2>1, NodesFinite, FS_Subset, FS_CardinalityType
<1>4. /\ 0 .. (n + 1) - 1 = 0 .. n
      /\ \A m \in 0 .. n : m = n \/ m \in 0 .. n - 1
      /\ \A m \in 0 .. n - 1 : m \in 0 .. n
  BY <1>0
<1>5. DOMAIN ids \cup {r[n]} = {r[m] : m \in 0 .. n}
  BY <1>0, <1>1, <1>4
<1> HIDE DEF next
<1>6. CASE r[n] \in DOMAIN ids
  <2>1. PICK m \in 0 .. n - 1 : r[m] = r[n]
    BY <1>1, <1>6
  <2>2. NumberIn(r, m) = NumberIn(r, n)
    BY <2>1 DEF NumberIn, Foremost, ClassIn
  <2>3. DOMAIN next = DOMAIN ids
    BY <1>2, <1>6
  <2>4. \A k \in 0 .. n : next[r[k]] = NumberIn(r, k)
    BY <1>1, <1>2, <1>4, <1>6, <2>1, <2>2
  <2>5. {next[d] : d \in DOMAIN next} = {ids[d] : d \in DOMAIN ids}
    BY <1>2, <2>3
  <2> QED BY <1>1, <1>4, <1>5, <2>3, <2>4, <2>5, <1>6 DEF Numbered, next
<1>7. CASE r[n] \notin DOMAIN ids
  <2>1. Foremost(r, n) = 0 .. n - 1
    <3>1. ASSUME NEW k \in Foremost(r, n) PROVE k \in 0 .. n - 1
      <4>1. n \in ClassIn(r, n) /\ k \in Nodes
        BY DEF ClassIn, Foremost
      <4>2. k < n
        BY <4>1 DEF Foremost
      <4> QED BY <1>0, <4>1, <4>2 DEF Nodes
    <3>2. ASSUME NEW k \in 0 .. n - 1, NEW z \in ClassIn(r, n) PROVE k < z
      <4>1. z \in Nodes /\ r[z] = r[n]
        BY DEF ClassIn
      <4>2. z \notin 0 .. n - 1
        BY <1>1, <1>7, <4>1
      <4> QED BY <1>0, <4>1, <4>2 DEF Nodes
    <3>3. \A k \in 0 .. n - 1 : k \in Nodes
      BY <1>0
    <3> QED BY <3>1, <3>2, <3>3 DEF Foremost
  <2>2. NumberIn(r, n) = c
    BY <1>1, <2>1 DEF NumberIn
  <2>3. \A k \in 0 .. n : next[r[k]] = NumberIn(r, k)
    BY <1>1, <1>2, <1>4, <1>7, <2>2
  <2>4. Cardinality(DOMAIN next) = c + 1
    BY <1>2, <1>3, <1>7, FS_AddElement
  <2>5. {next[d] : d \in DOMAIN next} = {ids[d] : d \in DOMAIN ids} \cup {c}
    BY <1>2, <1>7
  <2>6. (0 .. c - 1) \cup {c} = 0 .. (c + 1) - 1
    BY <1>3
  <2> QED BY <1>1, <1>2, <1>4, <1>5, <2>3, <2>4, <2>5, <2>6 DEF Numbered, next
<1> QED BY <1>6, <1>7

LEMMA IdsNumber ==
    ASSUME NEW r \in Parents, NEW f, IsIds(r, Size, f)
    PROVE  Numbered(r, Size, f[Size])
<1>0. Size \in Nat
  BY IntegerSetsAssumption
<1>1. \A n \in 0 .. Size : f[n] = IF n = 0 THEN <<>> ELSE WithNext(f[n - 1], r[n - 1])
  BY DEF IsIds
<1> DEFINE S == {n \in 0 .. Size : ~Numbered(r, n, f[n])}
<1> SUFFICES ASSUME S # {} PROVE FALSE
  BY <1>0
<1>2. S \in SUBSET Nat
  OBVIOUS
<1>3. PICK n \in S : \A j \in S : ~(j < n)
  <2> HIDE DEF S
  <2> QED BY <1>2, Least
<1>4. n \in 0 .. Size /\ ~Numbered(r, n, f[n])
  BY <1>3
<1>5. n # 0
  <2> SUFFICES ASSUME n = 0 PROVE Numbered(r, 0, <<>>)
    BY <1>1, <1>4
  <2>1. 0 .. 0 - 1 = {} /\ DOMAIN <<>> = {}
    OBVIOUS
  <2> QED BY <2>1, FS_EmptySet DEF Numbered
<1>6. n - 1 \in 0 .. Size /\ n - 1 < n /\ n - 1 \in Nodes /\ (n - 1) + 1 = n
  BY <1>0, <1>4, <1>5 DEF Nodes
<1>7. Numbered(r, n - 1, f[n - 1])
  BY <1>3, <1>6
<1>8. f[n] = WithNext(f[n - 1], r[n - 1])
  BY <1>1, <1>4, <1>5
<1>9. Numbered(r, (n - 1) + 1, WithNext(f[n - 1], r[n - 1]))
  BY <1>6, <1>7, NumberedNext
<1> QED BY <1>4, <1>6, <1>8, <1>9

-----------------------------------------------------------------------------
(* The disjoint set as it is.                                               *)

Homes == RootsOf(dense)

PartitionInv ==
    /\ dense \in Parents
    /\ Rooted(dense)
    /\ size = Cardinality(ClassesIn(Homes))

LEMMA CountedAlike ==
    \A S : Classes!Cardinality(S) = Cardinality(S) /\ Partition!Cardinality(S) = Cardinality(S)
  BY DEF Classes!Cardinality, Partition!Cardinality, Cardinality

PartitionIs == Classes!Partition = ClassesIn(Homes)

LEMMA PartitionKnown == PartitionIs
  BY DEF PartitionIs, Classes!Partition, Classes!Root, Classes!Items, ClassesIn, ClassIn, Homes, RootsOf, Nodes

LEMMA HomesAre ==
    ASSUME PartitionInv
    PROVE  /\ Homes \in Parents
           /\ \A x \in Nodes : Homes[x] = Classes!Root(x) /\ Homes[Homes[x]] = Homes[x]
<1>1. Leads(dense, Homes)
  BY RootsLead DEF PartitionInv, Homes
<1>2. \A x \in Nodes : Homes[x] = Classes!Root(x)
  BY DEF Homes, RootsOf, Classes!Root
<1> QED BY <1>1, <1>2 DEF Leads, Parents

LEMMA ClassOfIs ==
    ASSUME PartitionInv, NEW x \in Nodes
    PROVE  Partition!ClassOf(x) = ClassIn(Homes, x)
<1> DEFINE r == Homes
<1>1. Partition!ClassOf(x) = UNION {c \in ClassesIn(r) : x \in c}
  BY PartitionKnown DEF PartitionIs, Partition!ClassOf
<1> HIDE DEF r
<1>2. {c \in ClassesIn(r) : x \in c} = {ClassIn(r, x)}
  BY DEF ClassesIn, ClassIn
<1> QED BY <1>1, <1>2 DEF r

LEMMA NumbersPromised ==
    ASSUME PartitionInv, NEW x \in Nodes
    PROVE  Partition!Number(x) = NumberIn(Homes, x)
<1> DEFINE r == Homes
           A == Foremost(r, x)
<1>1. Partition!Number(x) =
        Cardinality({c \in ClassesIn(r) : \E y \in c : \A z \in ClassIn(r, x) : y < z})
  <2>1. Partition!ClassOf(x) = ClassIn(r, x) /\ Classes!Partition = ClassesIn(r)
    BY PartitionKnown, ClassOfIs DEF PartitionIs
  <2> HIDE DEF r
  <2> QED BY <2>1, CountedAlike DEF Partition!Number
<1>2. r \in Parents
  BY HomesAre
<1> HIDE DEF r
<1>3. {c \in ClassesIn(r) : \E y \in c : \A z \in ClassIn(r, x) : y < z} = {ClassIn(r, k) : k \in A}
  <2>1. ASSUME NEW c \in ClassesIn(r), NEW y \in c, \A z \in ClassIn(r, x) : y < z
        PROVE  c \in {ClassIn(r, k) : k \in A}
    <3>1. PICK u \in Nodes : c = ClassIn(r, u)
      BY DEF ClassesIn
    <3>2. y \in Nodes /\ c = ClassIn(r, y)
      BY <3>1 DEF ClassIn
    <3>3. y \in A
      BY <2>1, <3>2 DEF Foremost
    <3> QED BY <3>2, <3>3
  <2>2. ASSUME NEW k \in A
        PROVE  /\ ClassIn(r, k) \in ClassesIn(r)
               /\ \E y \in ClassIn(r, k) : \A z \in ClassIn(r, x) : y < z
    <3>1. k \in Nodes /\ k \in ClassIn(r, k) /\ \A z \in ClassIn(r, x) : k < z
      BY DEF Foremost, ClassIn
    <3> QED BY <3>1 DEF ClassesIn
  <2> HIDE DEF A
  <2> QED BY <2>1, <2>2
<1>4. A \in SUBSET Nodes
  BY DEF Foremost
<1>5. Cardinality({ClassIn(r, k) : k \in A}) = Cardinality({r[k] : k \in A})
  <2> HIDE DEF A
  <2> QED BY <1>2, <1>4, ClassesCounted
<1> QED BY <1>1, <1>3, <1>5 DEF NumberIn, r

LEMMA NumbersGiven ==
    ASSUME PartitionInv
    PROVE  /\ \A x \in Nodes : Classes!Number(x) = NumberIn(Homes, x)
           /\ {Classes!Number(x) : x \in Nodes} = 0 .. size - 1
<1> DEFINE r == Homes
           f == Classes!Ids
<1>0. Size \in Nat /\ r \in Parents
  BY IntegerSetsAssumption, HomesAre
<1>1. IsIds(r, Size, f)
  <2> DEFINE Defines(g) ==
        g = [n \in 0 .. Size |->
               IF n = 0 THEN <<>>
               ELSE [d \in DOMAIN g[n - 1] \cup {Classes!Root(n - 1)} |->
                       IF d \in DOMAIN g[n - 1] THEN g[n - 1][d]
                       ELSE Classes!Cardinality(DOMAIN g[n - 1])]]
  <2>1. \A n \in 1 .. Size : Classes!Root(n - 1) = r[n - 1]
    <3>1. \A n \in 1 .. Size : n - 1 \in Nodes
      BY <1>0 DEF Nodes
    <3> QED BY <3>1, HomesAre
  <2>2. ASSUME NEW g
        PROVE  IsIds(r, Size, g) <=> Defines(g)
    <3>1. ASSUME NEW n \in 0 .. Size, n # 0
          PROVE  WithNext(g[n - 1], r[n - 1]) =
                   [d \in DOMAIN g[n - 1] \cup {Classes!Root(n - 1)} |->
                        IF d \in DOMAIN g[n - 1] THEN g[n - 1][d]
                        ELSE Classes!Cardinality(DOMAIN g[n - 1])]
      <4>1. n \in 1 .. Size
        BY <1>0, <3>1
      <4>2. Classes!Root(n - 1) = r[n - 1]
        BY <2>1, <4>1
      <4> HIDE DEF r
      <4> QED BY <4>2, CountedAlike DEF WithNext
    <3> HIDE DEF r
    <3> QED BY <3>1 DEF IsIds
  <2>3. f = CHOOSE g : Defines(g)
    BY DEF Classes!Ids
  <2>4. \E g : Defines(g)
    BY <1>0, <2>2, IdsExist
  <2> HIDE DEF f, r, Defines
  <2>5. Defines(f)
    BY <2>3, <2>4
  <2> QED BY <2>2, <2>5
<1> HIDE DEF f
<1>3. Numbered(r, Size, f[Size])
  BY <1>0, <1>1, IdsNumber
<1>4. 0 .. Size - 1 = Nodes
  BY DEF Nodes
<1>5. \A x \in Nodes : Classes!Number(x) = f[Size][r[x]]
  BY HomesAre DEF Classes!Number, f
<1>6. \A x \in Nodes : Classes!Number(x) = NumberIn(r, x)
  BY <1>3, <1>4, <1>5 DEF Numbered
<1>7. DOMAIN f[Size] = {r[x] : x \in Nodes} /\ {f[Size][d] : d \in DOMAIN f[Size]} = 0 .. Cardinality(DOMAIN f[Size]) - 1
  BY <1>3, <1>4 DEF Numbered
<1>8. {Classes!Number(x) : x \in Nodes} = {f[Size][d] : d \in DOMAIN f[Size]}
  BY <1>5, <1>7
<1>9. size = Cardinality({r[x] : x \in Nodes})
  BY <1>0, ClassesFinite DEF PartitionInv
<1> QED BY <1>6, <1>7, <1>8, <1>9

LEMMA PartitionInit ==
    ASSUME Classes!Init
    PROVE  PartitionInv /\ Partition!Init
<1> DEFINE p == [x \in Nodes |-> x]
<1>1. dense = p /\ size = Size /\ call = [op |-> "new", answer |-> None]
  BY DEF Classes!Init, Classes!Items, Nodes
<1>2. p \in Parents /\ \A x \in Nodes : p[x] = x
  BY DEF Parents
<1> HIDE DEF p
<1>3. Rooted(p) /\ Leads(p, p)
  BY <1>2 DEF Rooted, Leads
<1>4. \A x \in Nodes : Homes[x] = x
  BY <1>1, <1>2, <1>3, LeadsRoot DEF Homes, RootsOf
<1>5. Homes \in Parents /\ \A x \in Nodes : ClassIn(Homes, x) = {x}
  <2>1. DOMAIN Homes = Nodes /\ Homes = [x \in Nodes |-> Homes[x]]
    BY DEF Homes, RootsOf
  <2> QED BY <1>4, <2>1 DEF Parents, ClassIn
<1>6. ClassesIn(Homes) = {{x} : x \in Nodes}
  BY <1>5 DEF ClassesIn
<1>7. Cardinality(ClassesIn(Homes)) = Size
  <2>1. {Homes[x] : x \in Nodes} = Nodes
    BY <1>4
  <2> QED BY <1>5, <2>1, ClassesFinite, NodesFinite
<1>8. PartitionInv
  BY <1>1, <1>2, <1>3, <1>7 DEF PartitionInv
<1>9. Partition!Init
  BY <1>1, <1>6, PartitionKnown, CountedAlike, NodesFinite DEF Partition!Init, PartitionIs, Nodes
<1> QED BY <1>8, <1>9

(* A climb, whatever it compresses.                                         *)
LEMMA HomesKept ==
    ASSUME PartitionInv, dense' \in Parents, Rooted(dense)',
           \A y \in Nodes : Classes!RootIn(dense', y) = Classes!RootIn(dense, y), size' = size
    PROVE  PartitionInv' /\ Partition!Asked
<1>1. Homes' = Homes
  BY DEF Homes, RootsOf
<1>2. Classes!Partition' = Classes!Partition
  <2>1. PartitionIs /\ PartitionIs'
    BY PartitionKnown, PTL
  <2> QED BY <1>1, <2>1 DEF PartitionIs, ClassesIn, ClassIn
<1>3. PartitionInv'
  BY <1>1 DEF PartitionInv, ClassesIn, ClassIn
<1> QED BY <1>2, <1>3 DEF Partition!Asked

LEMMA BothFound ==
    ASSUME PartitionInv, NEW x \in Nodes, NEW y \in Nodes
    PROVE  LET found == Classes!Compress(Classes!Compress(dense, x), y)
           IN  /\ found \in Parents /\ Rooted(found)
               /\ \A z \in Nodes : Classes!RootIn(found, z) = Classes!RootIn(dense, z)
<1> DEFINE once == Classes!Compress(dense, x)
<1>1. dense \in Parents /\ Rooted(dense)
  BY DEF PartitionInv
<1>2. once \in Parents /\ Rooted(once) /\ \A z \in Nodes : Classes!RootIn(once, z) = Classes!RootIn(dense, z)
  BY <1>1, Compressed
<1> HIDE DEF once
<1>3. LET found == Classes!Compress(once, y)
      IN  /\ found \in Parents /\ Rooted(found)
          /\ \A z \in Nodes : Classes!RootIn(found, z) = Classes!RootIn(once, z)
  BY <1>2, Compressed
<1> QED BY <1>2, <1>3 DEF once

LEMMA ClassesDiffer ==
    ASSUME PartitionInv, NEW x \in Nodes, NEW y \in Nodes
    PROVE  /\ Classes!Root(x) = Classes!Root(y) <=> Partition!ClassOf(x) = Partition!ClassOf(y)
           /\ Classes!Root(x) \in Partition!ClassOf(x)
           /\ Partition!ClassOf(x) \in Classes!Partition
<1>1. x \in ClassIn(Homes, x)
  BY DEF ClassIn
<1>2. Homes \in Parents /\ \A z \in Nodes : Homes[z] = Classes!Root(z) /\ Homes[Homes[z]] = Homes[z]
  BY HomesAre
<1>3. Homes[x] \in ClassIn(Homes, x)
  BY <1>2 DEF ClassIn, Parents
<1>4. Homes[x] = Homes[y] <=> ClassIn(Homes, x) = ClassIn(Homes, y)
  BY <1>1 DEF ClassIn
<1>5. ClassIn(Homes, x) \in ClassesIn(Homes)
  BY DEF ClassesIn
<1> QED BY <1>2, <1>3, <1>4, <1>5, ClassOfIs, PartitionKnown DEF PartitionIs

LEMMA UnionMerges ==
    ASSUME PartitionInv, NEW x \in Nodes, NEW y \in Nodes, Classes!Union(x, y)
    PROVE  PartitionInv' /\ Partition!Union(x, y)
<1> DEFINE found == Classes!Compress(Classes!Compress(dense, x), y)
           r == Homes
           A == ClassIn(r, x)
           B == ClassIn(r, y)
<1>1. found \in Parents /\ Rooted(found) /\ \A z \in Nodes : Classes!RootIn(found, z) = Classes!RootIn(dense, z)
  BY BothFound
<1>2. r \in Parents /\ \A z \in Nodes : r[z] = Classes!Root(z) /\ r[z] = Classes!RootIn(dense, z)
  BY HomesAre DEF Classes!Root
<1>3. Partition!ClassOf(x) = A /\ Partition!ClassOf(y) = B
  BY ClassOfIs
<1>4. call' = [op |-> "union", answer |-> Classes!Root(x) # Classes!Root(y)]
  BY DEF Classes!Union, Classes!Called
<1>5. Partition!Answers("union", Partition!ClassOf(x) # Partition!ClassOf(y))
  BY <1>4, ClassesDiffer DEF Partition!Answers
<1>6. PartitionIs /\ PartitionIs'
  BY PartitionKnown, PTL
<1>7. IsFiniteSet(ClassesIn(r)) /\ Cardinality(ClassesIn(r)) \in Nat /\ size = Cardinality(ClassesIn(r))
  BY <1>2, ClassesFinite DEF PartitionInv
<1>8. CASE r[x] = r[y]
  <2>1. dense' = found /\ size' = size
    BY <1>2, <1>8 DEF Classes!Union
  <2>2. PartitionInv' /\ Classes!Partition' = Classes!Partition
    <3> HIDE DEF found, r
    <3> QED BY <1>1, <2>1, HomesKept DEF Partition!Asked
  <2>3. A = B /\ A \in ClassesIn(r)
    BY <1>8 DEF ClassIn, ClassesIn
  <2>4. Classes!Partition' = (Classes!Partition \ {A, B}) \cup {A \cup B}
    <3> HIDE DEF A, B, r
    <3> QED BY <1>6, <2>2, <2>3 DEF PartitionIs, r
  <2>5. size' = Cardinality(Classes!Partition')
    BY <1>6, <1>7, <2>1, <2>2 DEF PartitionIs
  <2> HIDE DEF A, B, r, found
  <2> QED BY <1>3, <1>5, <2>2, <2>4, <2>5, CountedAlike DEF Partition!Union
<1>9. CASE r[x] # r[y]
  <2>1. PICK u, v \in {x, y} : /\ r[u] # r[v] /\ {u, v} = {x, y}
                               /\ dense' = [found EXCEPT ![r[u]] = r[v]]
    <3>1. dense' = Classes!Link(found, x, y)
      BY <1>2, <1>9 DEF Classes!Union
    <3> HIDE DEF found, r
    <3>2. CASE sparse[x] < sparse[y]
      <4>1. dense' = [found EXCEPT ![r[x]] = r[y]]
        BY <1>2, <3>1, <3>2 DEF Classes!Link
      <4> QED BY <1>9, <4>1
    <3>3. CASE ~(sparse[x] < sparse[y])
      <4>1. dense' = [found EXCEPT ![r[y]] = r[x]]
        BY <1>2, <3>1, <3>3 DEF Classes!Link
      <4> QED BY <1>9, <4>1
    <3> QED BY <3>2, <3>3
  <2>2. size' = size - 1
    BY <1>2, <1>9 DEF Classes!Union
  <2> DEFINE a == r[u]
             b == r[v]
  <2>3. a \in Nodes /\ b \in Nodes /\ a # b /\ u \in Nodes /\ v \in Nodes
    BY <1>2, <2>1 DEF Parents
  <2>4. found[a] = a /\ found[b] = b
    <3>1. Classes!RootIn(found, u) = a /\ Classes!RootIn(found, v) = b
      BY <1>1, <1>2, <2>3
    <3> HIDE DEF found, r, a, b
    <3> QED BY <1>1, <2>3, <3>1, RootEnds
  <2>5. /\ dense' \in Parents /\ Rooted(dense)'
        /\ \A z \in Nodes : Classes!RootIn(dense', z) =
              IF Classes!RootIn(found, z) = a THEN b ELSE Classes!RootIn(found, z)
    <3> DEFINE q == dense'
    <3>1. Joins(found, q, a, b)
      BY <2>1 DEF Joins
    <3>2. /\ q \in Parents /\ Rooted(q)
          /\ \A z \in Nodes : Classes!RootIn(q, z) =
                IF Classes!RootIn(found, z) = a THEN b ELSE Classes!RootIn(found, z)
      <4> HIDE DEF found, r, a, b, q
      <4> QED BY <1>1, <2>3, <2>4, <3>1, Linked
    <3>3. Rooted(dense)' <=> Rooted(q)
      BY DEF Rooted
    <3> QED BY <3>2, <3>3
  <2> DEFINE q == Homes'
  <2>6. q \in Parents /\ \A z \in Nodes : q[z] = Classes!RootIn(dense', z)
    <3>1. q = [z \in Nodes |-> Classes!RootIn(dense', z)]
      BY DEF Homes, RootsOf
    <3> HIDE DEF q, a, b, found
    <3>2. \A z \in Nodes : Classes!RootIn(dense', z) \in Nodes
      BY <1>1, <1>2, <2>3, <2>5 DEF Parents
    <3> QED BY <3>1, <3>2 DEF Parents
  <2>7. \A z \in Nodes : q[z] = IF r[z] = r[u] THEN r[v] ELSE r[z]
    <3> HIDE DEF q, r, found
    <3> QED BY <1>1, <1>2, <2>5, <2>6
  <2>8. /\ ClassesIn(q) = (ClassesIn(r) \ {ClassIn(r, u), ClassIn(r, v)})
                            \cup {ClassIn(r, u) \cup ClassIn(r, v)}
        /\ Cardinality(ClassesIn(q)) = Cardinality(ClassesIn(r)) - 1
    <3> HIDE DEF q, r
    <3> QED BY <1>2, <2>1, <2>3, <2>6, <2>7, ClassesMerged
  <2>9. ClassesIn(q) = (ClassesIn(r) \ {A, B}) \cup {A \cup B}
    <3>1. (u = x /\ v = y) \/ (u = y /\ v = x)
      BY <2>1
    <3> HIDE DEF q, r
    <3> QED BY <2>8, <3>1
  <2>10. Classes!Partition' = ClassesIn(q) /\ Classes!Partition = ClassesIn(r)
    <3>1. ClassesIn(Homes)' = ClassesIn(q)
      BY DEF ClassesIn, ClassIn
    <3> QED BY <1>6, <3>1 DEF PartitionIs
  <2>11. size' = Cardinality(Classes!Partition')
    <3> HIDE DEF q, r
    <3> QED BY <1>7, <2>2, <2>8, <2>10
  <2>12. PartitionInv'
    <3>1. ClassesIn(Homes)' = Classes!Partition'
      BY <1>6 DEF PartitionIs
    <3> QED BY <2>5, <2>11, <3>1 DEF PartitionInv
  <2> HIDE DEF q, r, A, B, a, b
  <2> QED BY <1>3, <1>5, <2>9, <2>10, <2>11, <2>12, CountedAlike DEF Partition!Union
<1> QED BY <1>8, <1>9

LEMMA PartitionStep ==
    ASSUME PartitionInv, Classes!Next
    PROVE  PartitionInv' /\ Partition!Next
<1>0. 0 .. Size - 1 = Nodes /\ Classes!Items = Nodes
  BY DEF Nodes, Classes!Items
<1>1. ASSUME NEW x \in Nodes, NEW y \in Nodes, Classes!Union(x, y)
      PROVE  PartitionInv' /\ Partition!Next
  BY <1>0, <1>1, UnionMerges DEF Partition!Next
<1>2. ASSUME NEW x \in Nodes, NEW y \in Nodes, Classes!Connected(x, y)
      PROVE  PartitionInv' /\ Partition!Next
  <2>1. PartitionInv' /\ Partition!Asked
    <3>1. dense' = Classes!Compress(Classes!Compress(dense, x), y) /\ size' = size
      BY <1>2 DEF Classes!Connected
    <3>2. LET found == Classes!Compress(Classes!Compress(dense, x), y)
          IN  found \in Parents /\ Rooted(found)
              /\ \A z \in Nodes : Classes!RootIn(found, z) = Classes!RootIn(dense, z)
      BY BothFound
    <3>3. Rooted(dense)'
      BY <3>1, <3>2 DEF Rooted
    <3> QED BY <3>1, <3>2, <3>3, HomesKept
  <2>2. call' = [op |-> "connected", answer |-> Classes!Root(x) = Classes!Root(y)]
    BY <1>2 DEF Classes!Connected, Classes!Called
  <2>3. (Classes!Root(x) = Classes!Root(y)) = (Partition!ClassOf(x) = Partition!ClassOf(y))
    BY ClassesDiffer
  <2>4. Partition!Connected(x, y)
    BY <2>1, <2>2, <2>3 DEF Partition!Connected, Partition!Answers
  <2> QED BY <1>0, <2>1, <2>4 DEF Partition!Next
<1>3. ASSUME NEW x \in Nodes, Classes!Find(x)
      PROVE  PartitionInv' /\ Partition!Next
  <2>1. PartitionInv' /\ Partition!Asked
    <3>1. dense' = Classes!Compress(dense, x) /\ size' = size
      BY <1>3 DEF Classes!Find
    <3>2. LET found == Classes!Compress(dense, x)
          IN  found \in Parents /\ Rooted(found)
              /\ \A z \in Nodes : Classes!RootIn(found, z) = Classes!RootIn(dense, z)
      BY Compressed DEF PartitionInv
    <3>3. Rooted(dense)'
      BY <3>1, <3>2 DEF Rooted
    <3> QED BY <3>1, <3>2, <3>3, HomesKept
  <2>2. call' = [op |-> "find", answer |-> Classes!Root(x)]
    BY <1>3 DEF Classes!Find, Classes!Called
  <2>3. Classes!Root(x) \in Partition!ClassOf(x)
    BY ClassesDiffer
  <2>4. Partition!Find(x)
    BY <2>1, <2>2, <2>3 DEF Partition!Find, Partition!Answers
  <2> QED BY <1>0, <2>1, <2>4 DEF Partition!Next
<1>4. ASSUME Classes!FindAll
      PROVE  PartitionInv' /\ Partition!Asked
  <2> DEFINE q == RootsOf(dense)
  <2>1. dense' = q /\ size' = size
    BY <1>0, <1>4 DEF Classes!FindAll, Classes!Root, RootsOf
  <2>2. Leads(dense, q) /\ dense \in Parents /\ Rooted(dense)
    BY RootsLead DEF PartitionInv
  <2>3. q \in Parents /\ \A y \in Nodes : q[y] \in {dense[y], Classes!RootIn(dense, y)}
    BY <2>2 DEF Leads, RootsOf
  <2>4. Rooted(q) /\ \A y \in Nodes : Classes!RootIn(q, y) = Classes!RootIn(dense, y)
    <3> HIDE DEF q
    <3> QED BY <2>2, <2>3, Flattened
  <2> HIDE DEF q
  <2>5. Rooted(dense)'
    BY <2>1, <2>4 DEF Rooted
  <2> QED BY <2>1, <2>3, <2>4, <2>5, HomesKept
<1>5. \A x \in Nodes : Partition!Number(x) = Classes!Number(x)
  BY NumbersGiven, NumbersPromised
<1>6. CASE Classes!Mapping
  <2>1. PartitionInv' /\ Partition!Asked
    BY <1>4, <1>6 DEF Classes!Mapping
  <2>2. call' = [op |-> "mapping", answer |-> [x \in Nodes |-> Classes!Number(x)]]
    BY <1>0, <1>6 DEF Classes!Mapping, Classes!Called
  <2>3. Partition!Mapping
    BY <1>0, <1>5, <2>1, <2>2 DEF Partition!Mapping, Partition!Answers
  <2> QED BY <2>1, <2>3 DEF Partition!Next
<1>7. CASE Classes!Compile
  <2>1. PartitionInv' /\ Partition!Asked
    BY <1>4, <1>7 DEF Classes!Compile
  <2> DEFINE given == [n \in {Classes!Number(x) : x \in Nodes} |-> {x \in Nodes : Classes!Number(x) = n}]
  <2>2. call' = [op |-> "compile", answer |-> given]
    BY <1>0, <1>7 DEF Classes!Compile, Classes!Called
  <2>3. given = [n \in 0 .. size - 1 |-> {x \in Nodes : Partition!Number(x) = n}]
    <3>1. {Classes!Number(x) : x \in Nodes} = 0 .. size - 1
      BY NumbersGiven
    <3>2. \A n : {x \in Nodes : Classes!Number(x) = n} = {x \in Nodes : Partition!Number(x) = n}
      BY <1>5
    <3> QED BY <3>1, <3>2
  <2> HIDE DEF given
  <2>4. Partition!Compile
    BY <1>0, <2>1, <2>2, <2>3 DEF Partition!Compile, Partition!Answers
  <2> QED BY <2>1, <2>4 DEF Partition!Next
<1> QED BY <1>0, <1>1, <1>2, <1>3, <1>6, <1>7 DEF Classes!Next

-----------------------------------------------------------------------------
(* All of them.                                                            *)

(* The invariant of the structure that the behaviour is about.             *)
SetsInv ==
    /\ kind = "SparseSet" => SetInv(Length, FALSE)
    /\ kind = "SparseMap" => SetInv(Short, TRUE)
    /\ kind = "SparseQueueSet" => QueueInv(Length)
    /\ kind = "SparseQueueSet, full width" => QueueInv(Short)
    /\ kind = "SparseQueueSet, no capacity" => QueueInv(0)
    /\ kind = "BitSet" => BitInv /\ WordsOf(start) \in 0 .. MaxCapacity
    /\ kind = "BitVector" => VectorInv /\ Fits
    /\ kind \in {"BitSet", "BitVector"} => Sized
    /\ kind = "StaticDisjointSet" => PartitionInv

Sizes ==
    /\ Length \in Nat /\ Short \in Nat /\ Length + 1 \in Nat /\ 0 \in Nat
    /\ Length <= Length /\ Length <= Length + 1 /\ Short <= Short /\ Short <= Length /\ 0 <= Length

LEMMA SizesNat == Sizes
  BY IntegerSetsAssumption DEF Sizes, Short

LEMMA PlainIs ==
    /\ Plain!Init => P(Length, Length + 1, FALSE, {}, Length)!Init
    /\ Plain!Next => P(Length, Length + 1, FALSE, {}, Length)!Next
    /\ Plain!Content = Listed
    /\ \A m : Plain!Has(m) = Found(m)
<1>1. Plain!Init => P(Length, Length + 1, FALSE, {}, Length)!Init
  BY DEF Plain!Init, P!Init, Plain!Slots, P!Slots, Plain!Closed, P!Closed, Plain!OpenCursor, P!OpenCursor,
         Plain!Nothing, P!Nothing
<1>2. Plain!Next => P(Length, Length + 1, FALSE, {}, Length)!Next
  BY DEF Plain!Next, P!Next, Plain!Add, P!Add, Plain!Delete, P!Delete, Plain!Clear, P!Clear,
         Plain!OpenWalk, P!OpenWalk, Plain!StepWalk, P!StepWalk, Plain!Report, P!Report,
         Plain!StepCursor, P!StepCursor, Plain!Disturbed, P!Disturbed, Plain!Called, P!Called,
         Plain!Met, P!Met, Plain!Has, P!Has, Plain!TryGet, P!TryGet, Plain!TrySet, P!TrySet,
         Plain!MembersNow, P!MembersNow, Plain!Slots, P!Slots, Plain!Closed, P!Closed,
         Plain!OpenCursor, P!OpenCursor, Plain!Nothing, P!Nothing
<1>3. Plain!Content = Listed
  BY DEF Plain!Content, Plain!TryGet, Listed, At
<1>4. \A m : Plain!Has(m) = Found(m)
  BY DEF Plain!Has, Plain!TryGet, Found, At
<1> QED BY <1>1, <1>2, <1>3, <1>4

LEMMA MapIs ==
    /\ Map!Init => P(Short, Short, TRUE, {v1, v2}, Short + 1)!Init
    /\ Map!Next => P(Short, Short, TRUE, {v1, v2}, Short + 1)!Next
    /\ Map!Content = Listed
    /\ \A m : Map!Has(m) = Found(m)
<1>1. Map!Init => P(Short, Short, TRUE, {v1, v2}, Short + 1)!Init
  BY DEF Map!Init, P!Init, Map!Slots, P!Slots, Map!Closed, P!Closed, Map!OpenCursor, P!OpenCursor,
         Map!Nothing, P!Nothing
<1>2. Map!Next => P(Short, Short, TRUE, {v1, v2}, Short + 1)!Next
  BY DEF Map!Next, P!Next, Map!Add, P!Add, Map!Delete, P!Delete, Map!Clear, P!Clear,
         Map!OpenWalk, P!OpenWalk, Map!StepWalk, P!StepWalk, Map!Report, P!Report,
         Map!StepCursor, P!StepCursor, Map!Disturbed, P!Disturbed, Map!Called, P!Called,
         Map!Met, P!Met, Map!Has, P!Has, Map!TryGet, P!TryGet, Map!TrySet, P!TrySet,
         Map!MembersNow, P!MembersNow, Map!Slots, P!Slots, Map!Closed, P!Closed,
         Map!OpenCursor, P!OpenCursor, Map!Nothing, P!Nothing
<1>3. Map!Content = Listed
  BY DEF Map!Content, Map!TryGet, Listed, At
<1>4. \A m : Map!Has(m) = Found(m)
  BY DEF Map!Has, Map!TryGet, Found, At
<1> QED BY <1>1, <1>2, <1>3, <1>4

LEMMA RingIs ==
    /\ Ring!Init => Q(Length, Length + 1, Length)!Init
    /\ Ring!Next => Q(Length, Length + 1, Length)!Next
    /\ Ring!Content = Lined(Length)
    /\ \A m : Ring!Has(m) = Awaits(Length, m)
<1>1. Ring!Init => Q(Length, Length + 1, Length)!Init
  BY DEF Ring!Init, Q!Init, Ring!Slots, Q!Slots, Ring!Closed, Q!Closed, Ring!OpenCursor, Q!OpenCursor,
         Ring!Nothing, Q!Nothing
<1>2. Ring!Next => Q(Length, Length + 1, Length)!Next
  BY DEF Ring!Next, Q!Next, Ring!Enqueue, Q!Enqueue, Ring!Dequeue, Q!Dequeue, Ring!Clear, Q!Clear,
         Ring!OpenWalk, Q!OpenWalk, Ring!StepWalk, Q!StepWalk, Ring!Report, Q!Report,
         Ring!StepCursor, Q!StepCursor, Ring!Disturbed, Q!Disturbed, Ring!Called, Q!Called,
         Ring!Has, Q!Has, Ring!InWindow, Q!InWindow, Ring!Slot, Q!Slot, Ring!SlotAfterEnd, Q!SlotAfterEnd,
         Ring!TryGet, Q!TryGet, Ring!TrySet, Q!TrySet, Ring!Slots, Q!Slots, Ring!Closed, Q!Closed,
         Ring!OpenCursor, Q!OpenCursor, Ring!Nothing, Q!Nothing
<1>3. Ring!Content = Lined(Length)
  BY DEF Ring!Content, Ring!Slot, Ring!TryGet, Lined, Spot, At
<1>4. \A m : Ring!Has(m) = Awaits(Length, m)
  BY DEF Ring!Has, Ring!TryGet, Ring!InWindow, Awaits, Inside, At
<1> QED BY <1>1, <1>2, <1>3, <1>4

LEMMA BrimIs ==
    /\ Brim!Init => Q(Short, Short, Short + 1)!Init
    /\ Brim!Next => Q(Short, Short, Short + 1)!Next
    /\ Brim!Content = Lined(Short)
    /\ \A m : Brim!Has(m) = Awaits(Short, m)
<1>1. Brim!Init => Q(Short, Short, Short + 1)!Init
  BY DEF Brim!Init, Q!Init, Brim!Slots, Q!Slots, Brim!Closed, Q!Closed, Brim!OpenCursor, Q!OpenCursor,
         Brim!Nothing, Q!Nothing
<1>2. Brim!Next => Q(Short, Short, Short + 1)!Next
  BY DEF Brim!Next, Q!Next, Brim!Enqueue, Q!Enqueue, Brim!Dequeue, Q!Dequeue, Brim!Clear, Q!Clear,
         Brim!OpenWalk, Q!OpenWalk, Brim!StepWalk, Q!StepWalk, Brim!Report, Q!Report,
         Brim!StepCursor, Q!StepCursor, Brim!Disturbed, Q!Disturbed, Brim!Called, Q!Called,
         Brim!Has, Q!Has, Brim!InWindow, Q!InWindow, Brim!Slot, Q!Slot, Brim!SlotAfterEnd, Q!SlotAfterEnd,
         Brim!TryGet, Q!TryGet, Brim!TrySet, Q!TrySet, Brim!Slots, Q!Slots, Brim!Closed, Q!Closed,
         Brim!OpenCursor, Q!OpenCursor, Brim!Nothing, Q!Nothing
<1>3. Brim!Content = Lined(Short)
  BY DEF Brim!Content, Brim!Slot, Brim!TryGet, Lined, Spot, At
<1>4. \A m : Brim!Has(m) = Awaits(Short, m)
  BY DEF Brim!Has, Brim!TryGet, Brim!InWindow, Awaits, Inside, At
<1> QED BY <1>1, <1>2, <1>3, <1>4

LEMMA VoidIs ==
    /\ Void!Init => Q(0, Length, Length)!Init
    /\ Void!Next => Q(0, Length, Length)!Next
    /\ Void!Content = Lined(0)
    /\ \A m : Void!Has(m) = Awaits(0, m)
<1>1. Void!Init => Q(0, Length, Length)!Init
  BY DEF Void!Init, Q!Init, Void!Slots, Q!Slots, Void!Closed, Q!Closed, Void!OpenCursor, Q!OpenCursor,
         Void!Nothing, Q!Nothing
<1>2. Void!Next => Q(0, Length, Length)!Next
  BY DEF Void!Next, Q!Next, Void!Enqueue, Q!Enqueue, Void!Dequeue, Q!Dequeue, Void!Clear, Q!Clear,
         Void!OpenWalk, Q!OpenWalk, Void!StepWalk, Q!StepWalk, Void!Report, Q!Report,
         Void!StepCursor, Q!StepCursor, Void!Disturbed, Q!Disturbed, Void!Called, Q!Called,
         Void!Has, Q!Has, Void!InWindow, Q!InWindow, Void!Slot, Q!Slot, Void!SlotAfterEnd, Q!SlotAfterEnd,
         Void!TryGet, Q!TryGet, Void!TrySet, Q!TrySet, Void!Slots, Q!Slots, Void!Closed, Q!Closed,
         Void!OpenCursor, Q!OpenCursor, Void!Nothing, Q!Nothing
<1>3. Void!Content = Lined(0)
  BY DEF Void!Content, Void!Slot, Void!TryGet, Lined, Spot, At
<1>4. \A m : Void!Has(m) = Awaits(0, m)
  BY DEF Void!Has, Void!TryGet, Void!InWindow, Awaits, Inside, At
<1> QED BY <1>1, <1>2, <1>3, <1>4

(* The members in order, of every sparse structure, and who is found.      *)
ContentsAre ==
    /\ kind \in {"SparseSet", "SparseMap"} => Content = Listed
    /\ kind = "SparseQueueSet" => Content = Lined(Length)
    /\ kind = "SparseQueueSet, full width" => Content = Lined(Short)
    /\ kind = "SparseQueueSet, no capacity" => Content = Lined(0)

FoundAre ==
    /\ kind \in {"SparseSet", "SparseMap"} => \A m : Has(m) = Found(m)
    /\ kind = "SparseQueueSet" => \A m : Has(m) = Awaits(Length, m)
    /\ kind = "SparseQueueSet, full width" => \A m : Has(m) = Awaits(Short, m)
    /\ kind = "SparseQueueSet, no capacity" => \A m : Has(m) = Awaits(0, m)

LEMMA ContentsKnown == ContentsAre
  BY PlainIs, MapIs, RingIs, BrimIs, VoidIs DEF ContentsAre, Content

LEMMA FoundKnown == FoundAre
<1>1. CASE kind = "SparseSet"
  BY <1>1, PlainIs DEF FoundAre, Has
<1>2. CASE kind = "SparseMap"
  BY <1>2, MapIs DEF FoundAre, Has
<1>3. CASE kind = "SparseQueueSet"
  BY <1>3, RingIs DEF FoundAre, Has
<1>4. CASE kind = "SparseQueueSet, full width"
  BY <1>4, BrimIs DEF FoundAre, Has
<1>5. CASE kind = "SparseQueueSet, no capacity"
  BY <1>5, VoidIs DEF FoundAre, Has
<1> QED BY <1>1, <1>2, <1>3, <1>4, <1>5 DEF FoundAre

LEMMA SetsInit ==
    ASSUME Init
    PROVE  SetsInv /\ (IsSparse => Set!Init) /\ (IsPartition => Partition!Init)
<1>0. Sizes /\ ContentsAre /\ FALSE \in BOOLEAN /\ TRUE \in BOOLEAN
  BY SizesNat, ContentsKnown
<1>1. ASSUME NEW len \in Nat, NEW width \in Nat, NEW valued \in BOOLEAN, NEW values, NEW bound,
             P(len, width, valued, values, bound)!Init, Content = Listed
      PROVE  SetInv(len, valued) /\ Set!Init
  <2>1. SetInv(len, valued) /\ Listed = <<>> /\ call = [op |-> "new", answer |-> None] /\ spoilt = FALSE
    BY <1>1, SetInit
  <2> QED BY <1>1, <2>1 DEF Set!Init
<1>2. ASSUME NEW cap \in Nat, NEW width \in Nat, NEW bound,
             Q(cap, width, bound)!Init, Content = Lined(cap)
      PROVE  QueueInv(cap) /\ Set!Init
  <2>1. QueueInv(cap) /\ Lined(cap) = <<>> /\ call = [op |-> "new", answer |-> None] /\ spoilt = FALSE
    BY <1>2, QueueInit
  <2> QED BY <1>2, <2>1 DEF Set!Init
<1>3. CASE kind = "SparseSet" /\ Plain!Init
  <2>1. SetInv(Length, FALSE) /\ Set!Init
    BY <1>0, <1>1, <1>3, PlainIs DEF Sizes, ContentsAre
  <2> QED BY <1>3, <2>1 DEF SetsInv, IsPartition
<1>4. CASE kind = "SparseMap" /\ Map!Init
  <2>1. SetInv(Short, TRUE) /\ Set!Init
    BY <1>0, <1>1, <1>4, MapIs DEF Sizes, ContentsAre
  <2> QED BY <1>4, <2>1 DEF SetsInv, IsPartition
<1>5. CASE kind = "SparseQueueSet" /\ Ring!Init
  <2>1. QueueInv(Length) /\ Set!Init
    BY <1>0, <1>2, <1>5, RingIs DEF Sizes, ContentsAre
  <2> QED BY <1>5, <2>1 DEF SetsInv, IsPartition
<1>6. CASE kind = "SparseQueueSet, full width" /\ Brim!Init
  <2>1. QueueInv(Short) /\ Set!Init
    BY <1>0, <1>2, <1>6, BrimIs DEF Sizes, ContentsAre
  <2> QED BY <1>6, <2>1 DEF SetsInv, IsPartition
<1>7. CASE kind = "SparseQueueSet, no capacity" /\ Void!Init
  <2>1. QueueInv(0) /\ Set!Init
    BY <1>0, <1>2, <1>7, VoidIs DEF Sizes, ContentsAre
  <2> QED BY <1>7, <2>1 DEF SetsInv, IsPartition
<1>8. CASE kind = "StaticDisjointSet" /\ Classes!Init
  <2>1. PartitionInv /\ Partition!Init
    BY <1>8, PartitionInit
  <2> QED BY <1>8, <2>1 DEF SetsInv, IsSparse, IsQueue
<1>9. CASE kind \in {"BitSet", "BitVector"} /\ Bits!Init
  <2>1. /\ BitInv /\ WordsOf(start) \in 0 .. MaxCapacity /\ vals = Count * WordBits
        /\ Sized /\ Fits
    BY <1>9, BitsInit, ZeroedSized
  <2> QED BY <1>9, <2>1 DEF SetsInv, VectorInv, IsSparse, IsQueue, IsPartition
<1> QED BY <1>3, <1>4, <1>5, <1>6, <1>7, <1>8, <1>9 DEF Init, IsPartition

LEMMA SetsStep ==
    ASSUME SetsInv, Next
    PROVE  SetsInv' /\ (IsSparse => Set!Next \/ UNCHANGED setVars) /\ (IsPartition => Partition!Next)
<1>0. Sizes /\ ContentsAre /\ FALSE \in BOOLEAN /\ TRUE \in BOOLEAN /\ kind' = kind
  BY SizesNat, ContentsKnown DEF Next
<1>1. ContentsAre'
  BY ContentsKnown, PTL
<1>2. ASSUME NEW len \in Nat, NEW width \in Nat, len <= width, NEW valued \in BOOLEAN, NEW values, NEW bound,
             SetInv(len, valued), P(len, width, valued, values, bound)!Next,
             Content = Listed, Content' = Listed'
      PROVE  SetInv(len, valued)' /\ (Set!Next \/ UNCHANGED setVars)
  <2>1. SetInv(len, valued)'
    BY <1>2, SetStep
  <2>2. Set!Next \/ UNCHANGED setVars
    BY <1>2, <2>1, SetPromise
  <2> QED BY <2>1, <2>2
<1>3. ASSUME NEW cap \in Nat, NEW width \in Nat, cap <= width, NEW bound,
             QueueInv(cap), Q(cap, width, bound)!Next,
             Content = Lined(cap), Content' = Lined(cap)'
      PROVE  QueueInv(cap)' /\ (Set!Next \/ UNCHANGED setVars)
  <2>1. QueueInv(cap)'
    BY <1>3, QueueStep
  <2>2. Set!Next \/ UNCHANGED setVars
    BY <1>3, <2>1, QueuePromise
  <2> QED BY <2>1, <2>2
<1>4. CASE kind = "SparseSet" /\ Plain!Next
  <2>0. Length <= Length + 1 /\ Content = Listed /\ Content' = Listed'
    BY <1>0, <1>1, <1>4 DEF Sizes, ContentsAre
  <2>1. SetInv(Length, FALSE)
    BY <1>4 DEF SetsInv
  <2>2. SetInv(Length, FALSE)' /\ (Set!Next \/ UNCHANGED setVars)
    BY <1>0, <1>2, <1>4, <2>0, <2>1, PlainIs DEF Sizes
  <2> QED BY <1>0, <1>4, <2>2 DEF SetsInv, IsPartition
<1>5. CASE kind = "SparseMap" /\ Map!Next
  <2>0. Short <= Short /\ Content = Listed /\ Content' = Listed'
    BY <1>0, <1>1, <1>5 DEF Sizes, ContentsAre
  <2>1. SetInv(Short, TRUE)
    BY <1>5 DEF SetsInv
  <2>2. SetInv(Short, TRUE)' /\ (Set!Next \/ UNCHANGED setVars)
    BY <1>0, <1>2, <1>5, <2>0, <2>1, MapIs DEF Sizes
  <2> QED BY <1>0, <1>5, <2>2 DEF SetsInv, IsPartition
<1>6. CASE kind = "SparseQueueSet" /\ Ring!Next
  <2>0. Length <= Length + 1 /\ Content = Lined(Length) /\ Content' = Lined(Length)'
    BY <1>0, <1>1, <1>6 DEF Sizes, ContentsAre
  <2>1. QueueInv(Length)
    BY <1>6 DEF SetsInv
  <2>2. QueueInv(Length)' /\ (Set!Next \/ UNCHANGED setVars)
    BY <1>0, <1>3, <1>6, <2>0, <2>1, RingIs DEF Sizes
  <2> QED BY <1>0, <1>6, <2>2 DEF SetsInv, IsPartition
<1>7. CASE kind = "SparseQueueSet, full width" /\ Brim!Next
  <2>0. Short <= Short /\ Content = Lined(Short) /\ Content' = Lined(Short)'
    BY <1>0, <1>1, <1>7 DEF Sizes, ContentsAre
  <2>1. QueueInv(Short)
    BY <1>7 DEF SetsInv
  <2>2. QueueInv(Short)' /\ (Set!Next \/ UNCHANGED setVars)
    BY <1>0, <1>3, <1>7, <2>0, <2>1, BrimIs DEF Sizes
  <2> QED BY <1>0, <1>7, <2>2 DEF SetsInv, IsPartition
<1>8. CASE kind = "SparseQueueSet, no capacity" /\ Void!Next
  <2>0. 0 <= Length /\ Content = Lined(0) /\ Content' = Lined(0)'
    BY <1>0, <1>1, <1>8 DEF Sizes, ContentsAre
  <2>1. QueueInv(0)
    BY <1>8 DEF SetsInv
  <2>2. QueueInv(0)' /\ (Set!Next \/ UNCHANGED setVars)
    BY <1>0, <1>3, <1>8, <2>0, <2>1, VoidIs DEF Sizes
  <2> QED BY <1>0, <1>8, <2>2 DEF SetsInv, IsPartition
<1>9. CASE kind = "StaticDisjointSet" /\ Classes!Next
  <2>1. PartitionInv' /\ Partition!Next
    BY <1>9, PartitionStep DEF SetsInv
  <2> QED BY <1>0, <1>9, <2>1 DEF SetsInv, IsSparse, IsQueue
<1>10. CASE kind = "BitSet" /\ Bits!Next
  <2>1. BitInv' /\ start' = start
    BY <1>10, BitsStep DEF SetsInv
  <2>2. WordsOf(start)' \in 0 .. MaxCapacity
    BY <1>10, <2>1 DEF SetsInv, WordsOf
  <2>3. Sized'
    BY <1>10, BitsSizedStep DEF SetsInv, BitInv
  <2> QED BY <1>0, <1>10, <2>1, <2>2, <2>3 DEF SetsInv, IsSparse, IsQueue, IsPartition
<1>11. CASE kind = "BitVector" /\ Vector!Next
  <2>1. VectorInv'
    BY <1>11, VectorStep DEF SetsInv
  <2>2. Sized' /\ Fits'
    BY <1>11, VectorSizedStep DEF SetsInv
  <2> QED BY <1>0, <1>11, <2>1, <2>2 DEF SetsInv, IsSparse, IsQueue, IsPartition
<1> QED BY <1>4, <1>5, <1>6, <1>7, <1>8, <1>9, <1>10, <1>11 DEF Next, IsPartition

LEMMA SetsStutter ==
    ASSUME UNCHANGED vars
    PROVE  (SetsInv => SetsInv') /\ (IsSparse => UNCHANGED setVars) /\ UNCHANGED partitionVars
<1>1. UNCHANGED <<kind, dense, sparse, vals, start, size, call, walk, spoilt, moved, promised, since>>
  BY DEF vars
<1>2. \A n : Found(n)' <=> Found(n)
  BY <1>1 DEF Found, At
<1>3. \A len \in Nat, valued \in BOOLEAN : SetInv(len, valued)' <=> SetInv(len, valued)
  BY <1>1, <1>2 DEF SetInv, Arrays, Paired, Valued, SetWalk, At
<1>4. \A cap \in Nat : QueueInv(cap)' <=> QueueInv(cap)
  BY <1>1 DEF QueueInv, RingArrays, Arrays, Queued, QueueWalk, Ahead, Spot
<1>5. (BitInv' <=> BitInv) /\ WordsOf(start)' = WordsOf(start) /\ (VectorInv' <=> VectorInv)
  BY <1>1 DEF BitInv, BitState, Honest, Held, Count, VectorInv, WordsOf
<1>10. (PartitionInv' <=> PartitionInv) /\ UNCHANGED partitionVars
  <2>1. Homes' = Homes
    BY <1>1 DEF Homes, RootsOf
  <2>2. ClassesIn(Homes)' = ClassesIn(Homes)
    BY <2>1 DEF ClassesIn, ClassIn
  <2>3. PartitionIs /\ PartitionIs'
    BY PartitionKnown, PTL
  <2>4. Rooted(dense)' <=> Rooted(dense)
    BY <1>1 DEF Rooted
  <2> QED BY <1>1, <2>2, <2>3, <2>4 DEF PartitionInv, PartitionIs, partitionVars, Partition!vars
<1>11. (Sized' <=> Sized) /\ (Fits' <=> Fits)
  BY <1>1 DEF Sized, Total, MarksOf, Fits
<1>6. SetsInv => SetsInv'
  BY <1>1, <1>3, <1>4, <1>5, <1>10, <1>11, SizesNat DEF SetsInv, Sizes
<1>7. ContentsAre /\ ContentsAre'
  BY ContentsKnown, PTL
<1>8. IsSparse => Content' = Content
  <2>1. Listed' = Listed
    BY <1>1 DEF Listed, At
  <2>2. Lined(Length)' = Lined(Length) /\ Lined(Short)' = Lined(Short) /\ Lined(0)' = Lined(0)
    BY <1>1 DEF Lined, Spot, At
  <2>0. kind' = kind
    BY <1>1
  <2>3. CASE kind \in {"SparseSet", "SparseMap"}
    BY <1>7, <2>0, <2>1, <2>3 DEF ContentsAre
  <2>4. CASE kind = "SparseQueueSet"
    BY <1>7, <2>0, <2>2, <2>4, Zenon DEF ContentsAre
  <2>5. CASE kind = "SparseQueueSet, full width"
    BY <1>7, <2>0, <2>2, <2>5, Zenon DEF ContentsAre
  <2>6. CASE kind = "SparseQueueSet, no capacity"
    BY <1>7, <2>0, <2>2, <2>6, Zenon DEF ContentsAre
  <2> QED BY <2>3, <2>4, <2>5, <2>6 DEF IsSparse, IsQueue
<1>9. IsSparse => UNCHANGED setVars
  BY <1>1, <1>8, SetStutters
<1> QED BY <1>6, <1>9, <1>10

LEMMA Inductive == Spec => []SetsInv
<1>1. SetsInv /\ [Next]_vars => SetsInv'
  BY SetsStep, SetsStutter
<1> QED BY <1>1, SetsInit, PTL DEF Spec

LEMMA MembersKnown ==
    ASSUME SetsInv
    PROVE  MembersFound
<1>0. Sizes /\ ContentsAre /\ FoundAre /\ InRange \subseteq Int
  BY SizesNat, ContentsKnown, FoundKnown DEF InRange
<1>1. ASSUME NEW len \in Nat, len <= Length, NEW valued \in BOOLEAN, SetInv(len, valued), ~spoilt
      PROVE  /\ size <= Length
             /\ \A m \in InRange : Found(m) = \E n \in DOMAIN Listed : Listed[n] = m
  <2>1. Arrays(len) /\ Paired(len)
    BY <1>1 DEF SetInv
  <2>2. size <= Length
    BY <1>0, <1>1, <2>1 DEF Paired, Arrays, Sizes
  <2>3. \A m \in InRange : Found(m) <=> \E n \in DOMAIN Listed : Listed[n] = m
    BY <1>0, <2>1, FoundHeld
  <2>4. \A m \in InRange : Found(m) = \E n \in DOMAIN Listed : Listed[n] = m
    BY <2>3 DEF Found
  <2> QED BY <2>2, <2>4
<1>2. ASSUME NEW cap \in Nat, cap <= Length, QueueInv(cap), ~spoilt
      PROVE  /\ size <= Length
             /\ \A m \in InRange : Awaits(cap, m) = \E n \in DOMAIN Lined(cap) : Lined(cap)[n] = m
  <2>1. RingArrays(cap) /\ Queued(cap)
    BY <1>2 DEF QueueInv
  <2>2. size <= Length
    BY <1>0, <1>2, <2>1 DEF Queued, RingArrays, Arrays, Sizes
  <2>3. \A m \in InRange : Awaits(cap, m) <=> \E n \in DOMAIN Lined(cap) : Lined(cap)[n] = m
    BY <1>0, <2>1, AwaitsHeld
  <2>4. \A m \in InRange : Awaits(cap, m) = \E n \in DOMAIN Lined(cap) : Lined(cap)[n] = m
    BY <2>3 DEF Awaits
  <2> QED BY <2>2, <2>4
<1> DEFINE Members == size <= Length /\ \A m \in InRange : Has(m) = \E n \in DOMAIN Content : Content[n] = m
<1>3. CASE kind = "SparseSet"
  <2>1. SetInv(Length, FALSE) /\ Length <= Length /\ FALSE \in BOOLEAN
    <3>1. SetInv(Length, FALSE)
      BY <1>3 DEF SetsInv
    <3> QED BY <1>0, <3>1 DEF Sizes
  <2>2. Content = Listed /\ \A m : Has(m) = Found(m)
    BY <1>0, <1>3 DEF ContentsAre, FoundAre
  <2>3. ~spoilt => Members
    BY <1>0, <1>1, <2>1, <2>2 DEF Sizes
  <2> QED BY <1>3, <2>3 DEF MembersFound
<1>4. CASE kind = "SparseMap"
  <2>1. SetInv(Short, TRUE) /\ Short <= Length /\ TRUE \in BOOLEAN
    BY <1>0, <1>4 DEF SetsInv, Sizes
  <2>2. Content = Listed /\ \A m : Has(m) = Found(m)
    BY <1>0, <1>4 DEF ContentsAre, FoundAre
  <2>3. ~spoilt => Members
    BY <1>0, <1>1, <2>1, <2>2 DEF Sizes
  <2>4. Map!ValuesFound
    <3>1. ~spoilt => Valued(Short)
      BY <2>1 DEF SetInv
    <3>2. \A m : Map!Has(m) = Found(m)
      BY MapIs
    <3>3. \A m : Found(m) => Map!Get(m) = At(vals, sparse[m])
      BY <3>2 DEF Map!Get, Map!TryGet, At
    <3> QED BY <3>1, <3>2, <3>3 DEF Map!ValuesFound, Map!Slots, Valued, Below
  <2> QED BY <2>3, <2>4 DEF MembersFound
<1>5. CASE kind = "SparseQueueSet"
  <2>1. QueueInv(Length) /\ Length <= Length
    BY <1>0, <1>5 DEF SetsInv, Sizes
  <2>2. Content = Lined(Length) /\ \A m : Has(m) = Awaits(Length, m)
    BY <1>0, <1>5 DEF ContentsAre, FoundAre
  <2>3. ~spoilt => Members
    BY <1>0, <1>2, <2>1, <2>2 DEF Sizes
  <2> QED BY <1>5, <2>3 DEF MembersFound
<1>6. CASE kind = "SparseQueueSet, full width"
  <2>1. QueueInv(Short) /\ Short <= Length
    BY <1>0, <1>6 DEF SetsInv, Sizes
  <2>2. Content = Lined(Short) /\ \A m : Has(m) = Awaits(Short, m)
    BY <1>0, <1>6 DEF ContentsAre, FoundAre
  <2>3. ~spoilt => Members
    BY <1>0, <1>2, <2>1, <2>2 DEF Sizes
  <2> QED BY <1>6, <2>3 DEF MembersFound
<1>7. CASE kind = "SparseQueueSet, no capacity"
  <2>1. QueueInv(0) /\ 0 <= Length
    <3>1. QueueInv(0)
      BY <1>7 DEF SetsInv
    <3> QED BY <1>0, <3>1 DEF Sizes
  <2>2. Content = Lined(0) /\ \A m : Has(m) = Awaits(0, m)
    BY <1>0, <1>7 DEF ContentsAre, FoundAre
  <2>3. ~spoilt => Members
    BY <1>0, <1>2, <2>1, <2>2 DEF Sizes
  <2> QED BY <1>7, <2>3 DEF MembersFound
<1> QED BY <1>3, <1>4, <1>5, <1>6, <1>7 DEF MembersFound, IsSparse, IsQueue

LEMMA WalksKnown ==
    ASSUME SetsInv
    PROVE  WalksMissNothing
<1>0. Sizes /\ ContentsAre /\ FALSE \in BOOLEAN /\ TRUE \in BOOLEAN
  BY SizesNat, ContentsKnown
<1>1. CASE kind = "SparseSet"
  <2>1. SetInv(Length, FALSE) /\ Content = Listed
    BY <1>0, <1>1 DEF SetsInv, ContentsAre
  <2> QED BY <1>0, <1>1, <2>1, SetWalks DEF WalksMissNothing, IsSparse, IsQueue, IsBits, Sizes
<1>2. CASE kind = "SparseMap"
  <2>1. SetInv(Short, TRUE) /\ Content = Listed
    BY <1>0, <1>2 DEF SetsInv, ContentsAre
  <2> QED BY <1>0, <1>2, <2>1, SetWalks DEF WalksMissNothing, IsSparse, IsQueue, IsBits, Sizes
<1>3. CASE kind = "SparseQueueSet"
  <2>1. QueueInv(Length) /\ Content = Lined(Length)
    BY <1>0, <1>3 DEF SetsInv, ContentsAre
  <2> QED BY <1>0, <1>3, <2>1, QueueWalks DEF WalksMissNothing, IsSparse, IsQueue, IsBits, Sizes
<1>4. CASE kind = "SparseQueueSet, full width"
  <2>1. QueueInv(Short) /\ Content = Lined(Short)
    BY <1>0, <1>4 DEF SetsInv, ContentsAre
  <2> QED BY <1>0, <1>4, <2>1, QueueWalks DEF WalksMissNothing, IsSparse, IsQueue, IsBits, Sizes
<1>5. CASE kind = "SparseQueueSet, no capacity"
  <2>1. QueueInv(0) /\ Content = Lined(0)
    BY <1>0, <1>5 DEF SetsInv, ContentsAre
  <2> QED BY <1>0, <1>5, <2>1, QueueWalks DEF WalksMissNothing, IsSparse, IsQueue, IsBits, Sizes
<1>6. CASE kind \in {"BitSet", "BitVector"}
  <2>1. BitInv
    BY <1>6 DEF SetsInv, VectorInv
  <2>2. Bits!WalksHonest
    BY <2>1 DEF BitInv, Honest, Bits!WalksHonest
  <2> QED BY <1>6, <2>2 DEF WalksMissNothing, IsSparse, IsQueue
<1> QED BY <1>1, <1>2, <1>3, <1>4, <1>5, <1>6 DEF WalksMissNothing, IsSparse, IsQueue, IsBits

LEMMA SizesKnown ==
    ASSUME SetsInv
    PROVE  SizeAccounted
<1>1. CASE kind \in {"BitSet", "BitVector"}
  <2>1. Sized
    BY <1>1 DEF SetsInv
  <2>2. Bits!BitsSet = Total(dense)
    BY DEF Bits!BitsSet, Bits!Marks, Bits!SignBit, Bits!Cardinality, Total, MarksOf, Positions, Cardinality
  <2>3. Bits!SizeAccounted
    BY <2>1, <2>2 DEF Sized, Bits!SizeAccounted
  <2>4. ASSUME kind = "BitVector" PROVE Vector!LayoutSound
    <3>1. VectorInv /\ Fits
      BY <2>4 DEF SetsInv
    <3>2. Vector!WordCount = Count
      BY DEF Vector!WordCount, Vector!Cardinality, Count, Cardinality
    <3> QED BY <3>1, <3>2 DEF VectorInv, Fits, Vector!LayoutSound
  <2> QED BY <2>3, <2>4 DEF SizeAccounted
<1> QED BY <1>1 DEF SizeAccounted, IsBits

LEMMA QueriesKnown ==
    ASSUME SetsInv
    PROVE  QueriesExact
<1>1. ASSUME IsPartition PROVE Classes!FindEnds
  <2>1. PartitionInv
    BY <1>1 DEF SetsInv, IsPartition
  <2>2. Leads(dense, Homes)
    BY <2>1, RootsLead DEF PartitionInv, Homes
  <2>3. \A x \in Nodes : Homes[x] = Classes!Root(x)
    BY <2>1, HomesAre
  <2> QED BY <2>2, <2>3 DEF Leads, Classes!FindEnds, Classes!Items, Nodes
<1>2. ASSUME IsBits PROVE Bits!SelectInvertsRank
  <2>1. BitState
    BY <1>2 DEF SetsInv, VectorInv, BitInv, IsBits
  <2> QED BY <2>1, SelectFinds
<1> QED BY <1>1, <1>2 DEF QueriesExact

(* A member is found exactly when the walk would report it, and there are  *)
(* never more than there is room for: whatever dense and sparse have left  *)
(* over of deletions and clears, past the end of a ring and round it, for  *)
(* any length.  And a value is found until its key has moved.              *)
THEOREM MembersCorrect == Spec => []MembersFound
  BY Inductive, MembersKnown, PTL

(* A walk nothing was called under reports every member in order; one over *)
(* a queue that is called under it misses none who stay; and one over bits *)
(* that are stored to, moved or cut off reports of every index a bit that  *)
(* was there since it opened.                                              *)
THEOREM WalksCorrect == Spec => []WalksMissNothing
  BY Inductive, WalksKnown, PTL

(* The size of a bit set, which is kept by comparing a word before and     *)
(* after, differs from what is set in its words by the resets under a      *)
(* sign, the bits pushed over set ones and those cut off, and by nothing   *)
(* else; and the length of a vector stays within its words.                *)
THEOREM SizeCorrect == Spec => []SizeAccounted
  BY Inductive, SizesKnown, PTL

(* The climb from any node ends at one that is its own parent; and select  *)
(* finds the bit of a rank that rank gave, but does not count the          *)
(* positions of the zero words before it: rank and select of bits.rs are   *)
(* converse up to exactly these words, for a rank short of the length.     *)
THEOREM QueriesCorrect == Spec => []QueriesExact
  BY Inductive, QueriesKnown, PTL

(* Each of the sparse structures is a set (SetSpec) until a member past    *)
(* its end, or a mark that is cut, spoils it, and again from the next      *)
(* clear on: it answers, and keeps, what a set of that history does.       *)
THEOREM SetImplemented == Spec => ImplementsSet
<1>1. SetsInv /\ [Next]_vars => [IsSparse => Set!Next]_setVars
  BY SetsStep, SetsStutter
<1>2. Init => (IsSparse => Set!Init)
  BY SetsInit
<1> QED BY <1>1, <1>2, Inductive, PTL DEF Spec, ImplementsSet

(* Whatever the ranks wrap to, and whatever climbs have compressed, union  *)
(* of static_disjoint_set.rs merges the classes of its two arguments and   *)
(* no others, dimension counts classes, find answers with a member of the  *)
(* class, and mapping and compile number the classes as they are met.      *)
THEOREM PartitionImplemented == Spec => ImplementsPartition
<1>1. SetsInv /\ [Next]_vars => [IsPartition => Partition!Next]_partitionVars
  BY SetsStep, SetsStutter
<1>2. Init => (IsPartition => Partition!Init)
  BY SetsInit
<1> QED BY <1>1, <1>2, Inductive, PTL DEF Spec, ImplementsPartition
=============================================================================
