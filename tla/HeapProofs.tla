----------------------------- MODULE HeapProofs -----------------------------
(***************************************************************************)
(* What the heap keeps, for any items, any length and any depth of calls   *)
(* made by comparators, as long as a comparator only pushes into the heap  *)
(* it compares for, or only clears it (Tame).                              *)
(*                                                                         *)
(* The order is proved along the way of an item through the sifts.  A sift *)
(* has a hole; around it the parents are not greater than their children,  *)
(* also across it (HoleOrdered), and what is below the hole is not less    *)
(* than the item when it comes back up.  from_items orders the array from  *)
(* its end, so there all this holds from the root of the sift on, and the  *)
(* hole never leaves the subtree of that root (Descends).                  *)
(*                                                                         *)
(* With a comparator that only answers the heap is a priority queue: the   *)
(* bag of what the array holds when the hole is filled changes only when   *)
(* an operation returns, and what the operation hands out was chosen as a  *)
(* least element when it began and still is one then (Hands).              *)
(***************************************************************************)
EXTENDS Heap, SequenceTheorems, FiniteSetTheorems, WellFoundedInduction, TLAPS

Value == Items \cup {None}

Tame == comparator.calls \subseteq {"push"} \/ comparator.calls \subseteq {"clear"}

(* Nothing but clears came in between, and nothing was cut short.          *)
Clean == comparator.calls \subseteq {"clear"} /\ throws = 0

Sifting == {"up", "right", "down", "parent"}

FrameType ==
    [op : {"push", "pop", "replace", "pushpop", "consume", "from"},
     array : Handles, given : Value, out : Value, left : Nat,
     at : Sifting \cup {"front", "done"}, item : Value, start : Nat, i : Nat,
     child : Nat, end : Nat, a : Value, b : Value]

Types ==
    /\ arrays \in [Handles -> Seq(Value)]
    /\ items \in Handles
    /\ size \in Nat
    /\ frames \in Seq(FrameType)
    /\ popped \in Value
    /\ comparator \in Comparators
    /\ throws \in Nat

(* The frame's indexes are within its array of n elements.                 *)
InRange(f, n) ==
    /\ f.at \in Sifting => f.i < n
    /\ f.at \in {"up", "right"} => f.end <= n /\ f.child = 2 * f.i + 1
    /\ f.at = "right" => f.child + 1 < f.end
    /\ f.at = "parent" => f.i > f.start
    /\ f.at = "front" => n > 0 /\ f.op = "pushpop"
    /\ f.op = "from" => f.left <= n
    /\ f.op \notin {"consume", "from"} => f.left = 0

(* Only pushes are made by comparators, on the array of the operation they *)
(* interrupt; a heap that was cleared meanwhile is empty, and so are the   *)
(* arrays nobody holds.                                                    *)
Stacked ==
    /\ \A n \in DOMAIN frames : InRange(frames[n], Len(arrays[frames[n].array]))
    /\ \A n \in DOMAIN frames : n > 1 => frames[n].op = "push"
    /\ comparator.calls \subseteq {"clear"} => Len(frames) <= 1
    /\ ~Idle /\ frames[1].op = "from" =>
           Len(frames) = 1 /\ frames[1].array # items /\ size = 0
    /\ ~Idle /\ frames[1].op # "from" /\ comparator.calls \subseteq {"push"} =>
           \A n \in DOMAIN frames : frames[n].array = items
    /\ ~Idle /\ frames[1].array # items => arrays[items] = <<>>
    /\ \A h \in Handles : h \notin {items} \cup Held(frames) => arrays[h] = <<>>

(* What the operations under way have yet to add to the size, or to take   *)
(* out of the array.                                                       *)
Cost(f) == IF f.op = "push" THEN 1 ELSE IF f.op = "consume" THEN f.left ELSE 0

Due == IF Idle THEN 0 ELSE Len(frames) - 1 + Cost(frames[1])

Counted ==
    /\ comparator.calls = {} => size + Due <= Len(arrays[items])
    /\ comparator.calls \subseteq {"push"} /\ throws = 0 => size + Due = Len(arrays[items])
    /\ comparator.calls = {"clear"} /\ throws = 0 => Len(arrays[items]) <= size + Due

(* i is in the subtree of s.                                               *)
Descends(i, s) ==
    \A S \in SUBSET Nat : s \in S /\ (\A j \in S : 2 * j + 1 \in S /\ 2 * j + 2 \in S) => i \in S

(* No element is less than its parent if that is at base or after it; with *)
(* a hole at i, whose own element does not count.                          *)
Ordered(a, base) ==
    \A j \in 1 .. Len(a) - 1 : Parent(j) >= base => At(a, Parent(j)) <= At(a, j)

HoleOrdered(a, base, i) ==
    \A j \in 1 .. Len(a) - 1 :
        /\ Parent(j) >= base /\ j # i /\ Parent(j) # i => At(a, Parent(j)) <= At(a, j)
        /\ Parent(j) = i /\ i # base => At(a, Parent(i)) <= At(a, j)

NotAbove(a, i, item) == \A j \in 1 .. Len(a) - 1 : Parent(j) = i => item <= At(a, j)

Base(f) == IF f.op = "from" THEN f.left ELSE 0

(* Where a sift stands in its array a.                                     *)
InOrder(f, a) ==
    /\ f.at \in {"done", "front"} => Ordered(a, Base(f))
    /\ f.at = "front" => f.out \in Items
    /\ f.at \in Sifting =>
           /\ f.start = Base(f) /\ f.item \in Items
           /\ Descends(f.i, f.start)
           /\ HoleOrdered(a, f.start, f.i)
    /\ f.at \in {"up", "right"} => f.end = Len(a)
    /\ f.at = "right" => f.a = At(a, f.child) /\ f.b = At(a, f.child + 1)
    /\ f.at \in {"down", "parent"} => NotAbove(a, f.i, f.item)
    /\ f.at = "parent" => f.a = f.item /\ f.b = At(a, Parent(f.i))

Sorted ==
    /\ \A h \in Handles : arrays[h] \in Seq(Items)
    /\ IF Idle THEN Ordered(arrays[items], 0) ELSE InOrder(Top, Ours)

Kept ==
    /\ Types
    /\ Stacked
    /\ Counted
    /\ Clean => Sorted

IInv == Tame => Kept

-----------------------------------------------------------------------------
(* Arrays *)

LEMMA AtTyped ==
    ASSUME NEW V, NEW a \in Seq(V)
    PROVE  /\ \A j \in 0 .. Len(a) - 1 : At(a, j) \in V
           /\ \A j : At(a, j) \in V \cup {None}
<1>1. ASSUME NEW j \in 0 .. Len(a) - 1 PROVE At(a, j) \in V /\ At(a, j) = a[j + 1]
  <2>1. Len(a) \in Nat /\ j + 1 \in 1 .. Len(a)
    BY LenProperties
  <2>. QED
    BY <2>1, ElementOfSeq DEF At
<1>. QED
  BY <1>1 DEF At

IsPut(b, a, i, v) ==
    /\ Len(b) = Len(a)
    /\ \A j \in 0 .. Len(a) - 1 : At(b, j) = IF j = i THEN v ELSE At(a, j)

LEMMA PutProperties ==
    ASSUME NEW V, NEW a \in Seq(V), NEW i \in Nat, i < Len(a), NEW v \in V
    PROVE  Put(a, i, v) \in Seq(V) /\ IsPut(Put(a, i, v), a, i, v)
<1> DEFINE n == Len(a)
           b == [k \in 1 .. n |-> IF k = i + 1 THEN v ELSE At(a, k - 1)]
<1>1. n \in Nat
  BY LenProperties
<1>2. Put(a, i, v) = b
  BY DEF Put
<1>3. \A k \in 1 .. n : b[k] \in V
  <2> TAKE k \in 1 .. n
  <2>1. k - 1 \in 0 .. Len(a) - 1
    BY <1>1
  <2>. QED
    BY <2>1, AtTyped
<1>4. b \in Seq(V) /\ Len(b) = n
  <2>1. b \in [1 .. n -> V]
    BY <1>3
  <2>. QED
    BY <1>1, <2>1, SeqDef, LenProperties
<1>5. ASSUME NEW j \in 0 .. n - 1 PROVE At(b, j) = IF j = i THEN v ELSE At(a, j)
  <2>1. j + 1 \in 1 .. n /\ (j + 1) - 1 = j /\ (j + 1 = i + 1 <=> j = i)
    BY <1>1
  <2>2. At(b, j) = b[j + 1]
    BY <1>4 DEF At
  <2>. QED
    BY <2>1, <2>2
<1> HIDE DEF b
<1>. QED
  BY <1>2, <1>4, <1>5 DEF IsPut

LEMMA AppendedAt ==
    ASSUME NEW V, NEW a \in Seq(V), NEW v \in V
    PROVE  /\ Append(a, v) \in Seq(V) /\ Len(Append(a, v)) = Len(a) + 1
           /\ \A j \in 0 .. Len(a) : At(Append(a, v), j) = IF j = Len(a) THEN v ELSE At(a, j)
<1>1. /\ Append(a, v) \in Seq(V) /\ Len(Append(a, v)) = Len(a) + 1 /\ Len(a) \in Nat
      /\ \A k \in 1 .. Len(a) : Append(a, v)[k] = a[k]
      /\ Append(a, v)[Len(a) + 1] = v
  BY AppendProperties, LenProperties
<1>2. ASSUME NEW j \in 0 .. Len(a)
      PROVE  At(Append(a, v), j) = IF j = Len(a) THEN v ELSE At(a, j)
  BY <1>1 DEF At
<1>. QED
  BY <1>1, <1>2

LEMMA PulledAt ==
    ASSUME NEW V, NEW a \in Seq(V)
    PROVE  /\ Pulled(a) \in Seq(V)
           /\ Pulled(a) = <<>> <=> Len(a) \in {0, 1}
           /\ Len(Pulled(a)) = IF Len(a) = 0 THEN 0 ELSE Len(a) - 1
           /\ \A j \in 0 .. Len(a) - 2 : At(Pulled(a), j) = At(a, j)
<1>1. Len(a) \in Nat /\ (a = <<>> <=> Len(a) = 0)
  BY LenProperties, EmptySeq
<1>2. CASE a = <<>>
  BY <1>1, <1>2 DEF Pulled
<1>3. CASE a # <<>>
  <2> DEFINE n == Len(a)
             b == SubSeq(a, 1, n - 1)
  <2>1. \A k \in 1 .. n - 1 : a[k] \in V
    BY <1>1, ElementOfSeq
  <2>2. /\ b \in Seq(V) /\ Len(b) = IF 1 <= n - 1 THEN n - 1 - 1 + 1 ELSE 0
        /\ \A k \in 1 .. n - 1 - 1 + 1 : b[k] = a[1 + k - 1]
    BY <1>1, <2>1, SubSeqProperties
  <2> HIDE DEF b
  <2>3. Len(b) = n - 1 /\ \A k \in 1 .. n - 1 : b[k] = a[k]
    <3>1. n \in Nat \ {0} /\ n - 1 - 1 + 1 = n - 1
      BY <1>1, <1>3
    <3>2. \A k \in 1 .. n - 1 : k \in 1 .. n - 1 - 1 + 1 /\ 1 + k - 1 = k
      BY <3>1
    <3>3. n - 1 = 0 \/ 1 <= n - 1
      BY <3>1
    <3>4. Len(b) = n - 1
      BY <2>2, <3>1, <3>3
    <3>. QED
      BY <2>2, <3>2, <3>4
  <2>4. Pulled(a) = b
    BY <1>3 DEF Pulled, b
  <2>5. b = <<>> <=> n = 1
    <3>1. b = <<>> <=> Len(b) = 0
      BY <2>2, EmptySeq
    <3>. QED
      BY <1>1, <2>3, <3>1
  <2>6. \A j \in 0 .. n - 2 : At(b, j) = At(a, j)
    BY <1>1, <2>3 DEF At
  <2>. QED
    BY <1>1, <1>3, <2>2, <2>3, <2>4, <2>5, <2>6
<1>. QED
  BY <1>2, <1>3

-----------------------------------------------------------------------------
(* The tree *)

LEMMA ParentFacts ==
    ASSUME NEW n \in Nat, NEW j \in 1 .. n - 1
    PROVE  /\ j \in 0 .. n - 1 /\ Parent(j) \in 0 .. n - 1 /\ Parent(j) < j
           /\ j = 2 * Parent(j) + 1 \/ j = 2 * Parent(j) + 2
  BY DEF Parent

LEMMA ChildFacts ==
    ASSUME NEW i \in Nat
    PROVE  /\ Parent(2 * i + 1) = i /\ Parent(2 * i + 2) = i
           /\ i # 0 => Parent(i) \in Nat /\ Parent(i) < i
  BY DEF Parent

LEMMA DescendsFacts ==
    ASSUME NEW s \in Nat, NEW i \in Nat
    PROVE  /\ Descends(s, s)
           /\ Descends(i, s) => /\ Descends(2 * i + 1, s) /\ Descends(2 * i + 2, s)
                                /\ i >= s
                                /\ i > s => Descends(Parent(i), s) /\ Parent(i) >= s
<1>1. Descends(s, s)
  BY DEF Descends
<1>2. Descends(i, s) => Descends(2 * i + 1, s) /\ Descends(2 * i + 2, s)
  BY DEF Descends
<1>3. ASSUME NEW j \in Nat, Descends(j, s) PROVE j >= s
  <2> DEFINE S == {k \in Nat : k >= s}
  <2>1. S \in SUBSET Nat /\ s \in S /\ \A k \in S : 2 * k + 1 \in S /\ 2 * k + 2 \in S
    OBVIOUS
  <2> HIDE DEF S
  <2>2. j \in S
    BY <1>3, <2>1 DEF Descends
  <2>. QED
    BY <2>2 DEF S
<1>4. ASSUME Descends(i, s), i > s PROVE Descends(Parent(i), s)
  <2> SUFFICES ASSUME NEW S \in SUBSET Nat, s \in S,
                      \A j \in S : 2 * j + 1 \in S /\ 2 * j + 2 \in S
               PROVE  Parent(i) \in S
    BY DEF Descends
  <2> DEFINE R == {j \in S : j = s \/ Parent(j) \in S}
  <2>1. ASSUME NEW j \in R PROVE 2 * j + 1 \in R /\ 2 * j + 2 \in R
    <3>1. j \in S /\ j \in Nat
      OBVIOUS
    <3>2. Parent(2 * j + 1) = j /\ Parent(2 * j + 2) = j
      BY <3>1, ChildFacts
    <3>. QED
      BY <3>1, <3>2
  <2>2. R \in SUBSET Nat /\ s \in R
    OBVIOUS
  <2> HIDE DEF R
  <2>3. i \in R
    BY <1>4, <2>1, <2>2 DEF Descends
  <2>. QED
    BY <1>4, <2>3 DEF R
<1>5. ASSUME Descends(i, s), i > s PROVE Parent(i) >= s
  <2>1. Parent(i) \in Nat
    BY <1>5, ChildFacts
  <2>. QED
    BY <1>3, <1>4, <1>5, <2>1
<1>. QED
  BY <1>1, <1>2, <1>3, <1>4, <1>5

(* The hole moves down to the child that is not greater than its siblings. *)
LEMMA LowerKeepsOrder ==
    ASSUME NEW a \in Seq(Items), NEW base \in Nat, NEW i \in Nat, NEW c \in Nat,
           c < Len(a), c = 2 * i + 1 \/ c = 2 * i + 2,
           HoleOrdered(a, base, i), Descends(i, base), NotAbove(a, i, At(a, c))
    PROVE  HoleOrdered(Put(a, i, At(a, c)), base, c)
<1> DEFINE n == Len(a)
           b == Put(a, i, At(a, c))
<1>1. /\ n \in Nat /\ i < n /\ i < c /\ c \in 1 .. n - 1 /\ i \in 0 .. n - 1
      /\ Parent(c) = i
  <2>1. n \in Nat
    BY LenProperties
  <2>2. Parent(2 * i + 1) = i /\ Parent(2 * i + 2) = i
    BY ChildFacts
  <2>. QED
    BY <2>1, <2>2
<1>2. \A j \in 0 .. n - 1 : At(a, j) \in Int
  BY AtTyped, HeapAssumption
<1>3. Len(b) = n /\ \A j \in 0 .. n - 1 : At(b, j) = IF j = i THEN At(a, c) ELSE At(a, j)
  <2>1. At(a, c) \in Items
    BY <1>1, AtTyped
  <2>. QED
    <3>1. IsPut(Put(a, i, At(a, c)), a, i, At(a, c))
      <4>1. i < Len(a)
        BY <1>1
      <4>. QED
        BY <2>1, <4>1, PutProperties
    <3>. QED
      BY <3>1 DEF IsPut
<1> HIDE DEF b
<1>4. i >= base /\ (i > base => Parent(i) >= base)
  BY DescendsFacts
<1>5. ASSUME NEW j \in 1 .. n - 1
      PROVE  /\ Parent(j) >= base /\ j # c /\ Parent(j) # c => At(b, Parent(j)) <= At(b, j)
             /\ Parent(j) = c /\ c # base => At(b, Parent(c)) <= At(b, j)
  <2>1. j \in 0 .. n - 1 /\ Parent(j) \in 0 .. n - 1 /\ Parent(j) < j
    BY <1>1, ParentFacts
  <2>2. ASSUME Parent(j) >= base, j # c, Parent(j) # c PROVE At(b, Parent(j)) <= At(b, j)
    <3>1. CASE Parent(j) = i
      <4>1. At(b, Parent(j)) = At(a, c) /\ At(b, j) = At(a, j)
        BY <1>3, <2>1, <3>1
      <4>. QED
        BY <3>1, <4>1 DEF NotAbove
    <3>2. CASE j = i
      <4>1. At(b, j) = At(a, c) /\ At(b, Parent(j)) = At(a, Parent(i))
        BY <1>3, <2>1, <3>2
      <4>2. i # base
        BY <1>1, <2>1, <2>2, <3>2
      <4>. QED
        BY <1>1, <4>1, <4>2 DEF HoleOrdered
    <3>3. CASE Parent(j) # i /\ j # i
      <4>1. At(b, j) = At(a, j) /\ At(b, Parent(j)) = At(a, Parent(j))
        BY <1>3, <2>1, <3>3
      <4>. QED
        BY <2>2, <3>3, <4>1 DEF HoleOrdered
    <3>. QED
      BY <3>1, <3>2, <3>3
  <2>3. ASSUME Parent(j) = c PROVE At(b, Parent(c)) <= At(b, j)
    <3>1. At(b, Parent(c)) = At(a, c) /\ At(b, j) = At(a, j)
      BY <1>1, <1>3, <2>1, <2>3
    <3>2. c >= base /\ j # i /\ c # i
      BY <1>1, <1>4, <2>1, <2>3
    <3>. QED
      BY <2>3, <3>1, <3>2 DEF HoleOrdered
  <2>. QED
    BY <2>2, <2>3
<1>. QED
  BY <1>3, <1>5 DEF HoleOrdered, b

(* The item comes to the hole at a leaf.                                   *)
LEMMA FillKeepsOrder ==
    ASSUME NEW a \in Seq(Items), NEW base \in Nat, NEW i \in Nat, i < Len(a),
           2 * i + 1 >= Len(a), NEW item \in Items, HoleOrdered(a, base, i)
    PROVE  /\ HoleOrdered(Put(a, i, item), base, i)
           /\ NotAbove(Put(a, i, item), i, item)
<1> DEFINE n == Len(a)
           b == Put(a, i, item)
<1>1. n \in Nat
  BY LenProperties
<1>2. Len(b) = n /\ \A j \in 0 .. n - 1 : At(b, j) = IF j = i THEN item ELSE At(a, j)
  <2>1. IsPut(Put(a, i, item), a, i, item)
    BY PutProperties
  <2>. QED
    BY <2>1 DEF IsPut
<1> HIDE DEF b
<1>3. ASSUME NEW j \in 1 .. n - 1
      PROVE  /\ Parent(j) # i
             /\ Parent(j) >= base /\ j # i /\ Parent(j) # i => At(b, Parent(j)) <= At(b, j)
  <2>1. /\ j \in 0 .. n - 1 /\ Parent(j) \in 0 .. n - 1
        /\ j = 2 * Parent(j) + 1 \/ j = 2 * Parent(j) + 2
    BY <1>1, ParentFacts
  <2>2. Parent(j) # i
    BY <1>1, <2>1
  <2>. QED
    BY <1>2, <2>1, <2>2 DEF HoleOrdered
<1>. QED
  BY <1>2, <1>3 DEF HoleOrdered, NotAbove, b

(* The hole moves up, its parent is greater than the item.                 *)
LEMMA RaiseKeepsOrder ==
    ASSUME NEW a \in Seq(Items), NEW base \in Nat, NEW i \in Nat, i < Len(a), i > base,
           NEW item \in Items, HoleOrdered(a, base, i), Descends(i, base),
           NotAbove(a, i, item), item < At(a, Parent(i))
    PROVE  /\ HoleOrdered(Put(a, i, At(a, Parent(i))), base, Parent(i))
           /\ NotAbove(Put(a, i, At(a, Parent(i))), Parent(i), item)
<1> DEFINE n == Len(a)
           p == Parent(i)
           b == Put(a, i, At(a, p))
<1>1. /\ n \in Nat /\ p \in Nat /\ p < i /\ i \in 1 .. n - 1 /\ p \in 0 .. n - 1 /\ p >= base
      /\ p > base => Parent(p) >= base /\ Parent(p) \in 0 .. n - 1 /\ Parent(p) < p
  <2>1. n \in Nat /\ p \in Nat /\ p < i /\ i \in 1 .. n - 1 /\ p \in 0 .. n - 1
    <3>1. n \in Nat /\ i # 0
      BY LenProperties
    <3>2. Parent(i) \in Nat /\ Parent(i) < i
      BY <3>1, ChildFacts
    <3>. QED
      BY <3>1, <3>2
  <2>2. p >= base /\ Descends(p, base)
    BY DescendsFacts
  <2>3. p > base => Parent(p) >= base
    BY <2>1, <2>2, DescendsFacts
  <2>4. p > base => Parent(p) \in Nat /\ Parent(p) < p
    <3> HIDE DEF p
    <3>1. p > base => p # 0
      BY <2>1
    <3>. QED
      BY <2>1, <3>1, ChildFacts
  <2>. QED
    BY <2>1, <2>2, <2>3, <2>4
<1>2. item \in Int /\ \A j \in 0 .. n - 1 : At(a, j) \in Int
  BY AtTyped, HeapAssumption
<1>3. Len(b) = n /\ \A j \in 0 .. n - 1 : At(b, j) = IF j = i THEN At(a, p) ELSE At(a, j)
  <2>1. At(a, p) \in Items
    BY <1>1, AtTyped
  <2>. QED
    <3>1. IsPut(Put(a, i, At(a, Parent(i))), a, i, At(a, Parent(i)))
      BY <2>1, PutProperties
    <3>. QED
      BY <3>1 DEF IsPut
<1> HIDE DEF b, p
<1>4. \A j \in 1 .. n - 1 : j \in 0 .. n - 1 /\ Parent(j) \in 0 .. n - 1 /\ Parent(j) < j
  BY <1>1, ParentFacts
<1>5. \A j \in 1 .. n - 1 :
          /\ Parent(j) >= base /\ j # i /\ Parent(j) # i => At(a, Parent(j)) <= At(a, j)
          /\ Parent(j) = i => At(a, p) <= At(a, j)
  BY <1>1 DEF HoleOrdered, p
<1>6. Parent(i) = p
  BY DEF p
<1>7. ASSUME NEW j \in 1 .. n - 1, Parent(j) >= base, j # p, Parent(j) # p
      PROVE  At(b, Parent(j)) <= At(b, j)
  <2>1. j # i
    BY <1>6, <1>7
  <2>2. CASE Parent(j) = i
    <3>1. At(b, Parent(j)) = At(a, p) /\ At(b, j) = At(a, j)
      BY <1>3, <1>4, <2>1, <2>2
    <3>. QED
      BY <1>5, <2>2, <3>1
  <2>3. CASE Parent(j) # i
    BY <1>3, <1>4, <1>5, <1>7, <2>1, <2>3
  <2>. QED
    BY <2>2, <2>3
<1>8. ASSUME NEW j \in 1 .. n - 1, Parent(j) = p
      PROVE  At(a, p) <= At(b, j) /\ (p # base => At(b, Parent(p)) <= At(b, j))
  <2>1. At(a, p) <= At(b, j)
    <3>1. CASE j = i
      BY <1>1, <1>2, <1>3, <3>1
    <3>2. CASE j # i
      BY <1>1, <1>3, <1>4, <1>5, <1>8, <3>2
    <3>. QED
      BY <3>1, <3>2
  <2>2. ASSUME p # base PROVE At(b, Parent(p)) <= At(b, j)
    <3>1. /\ p \in 1 .. n - 1 /\ Parent(p) >= base /\ Parent(p) # i /\ p # i
          /\ Parent(p) \in 0 .. n - 1
      BY <1>1, <2>2
    <3>2. At(b, Parent(p)) = At(a, Parent(p)) /\ At(a, Parent(p)) <= At(a, p)
      BY <1>3, <1>5, <3>1
    <3>3. At(b, j) \in Int
      BY <1>1, <1>2, <1>3, <1>4
    <3>4. At(a, Parent(p)) \in Int /\ At(a, p) \in Int
      BY <1>1, <1>2, <3>1
    <3>5. At(a, Parent(p)) <= At(b, j)
      BY <2>1, <3>2, <3>3, <3>4
    <3>. QED
      BY <3>2, <3>5
  <2>. QED
    BY <2>1, <2>2
<1>9. HoleOrdered(b, base, p)
  BY <1>3, <1>7, <1>8 DEF HoleOrdered
<1>10. NotAbove(b, p, item)
  <2> SUFFICES ASSUME NEW j \in 1 .. n - 1, Parent(j) = p PROVE item <= At(b, j)
    BY <1>3 DEF NotAbove
  <2>1. At(b, j) \in Int /\ At(a, p) \in Int /\ At(a, p) <= At(b, j)
    BY <1>1, <1>2, <1>3, <1>4, <1>8
  <2>2. item < At(a, p)
    BY DEF p
  <2>. QED
    BY <1>2, <2>1, <2>2
<1>. QED
  BY <1>9, <1>10 DEF b, p

(* The item stays in the hole.                                             *)
LEMMA SettleKeepsOrder ==
    ASSUME NEW a \in Seq(Items), NEW base \in Nat, NEW i \in Nat, i < Len(a),
           NEW item \in Items, HoleOrdered(a, base, i), Descends(i, base),
           NotAbove(a, i, item), i > base => At(a, Parent(i)) <= item
    PROVE  Ordered(Put(a, i, item), base)
<1> DEFINE n == Len(a)
           b == Put(a, i, item)
<1>1. n \in Nat /\ i >= base
  BY LenProperties, DescendsFacts
<1>2. Len(b) = n /\ \A j \in 0 .. n - 1 : At(b, j) = IF j = i THEN item ELSE At(a, j)
  <2>1. IsPut(Put(a, i, item), a, i, item)
    BY PutProperties
  <2>. QED
    BY <2>1 DEF IsPut
<1> HIDE DEF b
<1>3. ASSUME NEW j \in 1 .. n - 1, Parent(j) >= base PROVE At(b, Parent(j)) <= At(b, j)
  <2>1. j \in 0 .. n - 1 /\ Parent(j) \in 0 .. n - 1 /\ Parent(j) < j
    BY <1>1, ParentFacts
  <2>2. CASE j = i
    <3>1. i > base
      BY <1>1, <1>3, <2>1, <2>2
    <3>. QED
      BY <1>2, <2>1, <2>2, <3>1
  <2>3. CASE Parent(j) = i
    BY <1>2, <2>1, <2>3 DEF NotAbove
  <2>4. CASE j # i /\ Parent(j) # i
    BY <1>2, <1>3, <2>1, <2>4 DEF HoleOrdered
  <2>. QED
    BY <2>2, <2>3, <2>4
<1>. QED
  BY <1>2, <1>3 DEF Ordered, b

(* A sift begins with a hole at the root of what is not yet in order.      *)
LEMMA RootHole ==
    ASSUME NEW a, NEW b, Len(a) \in Nat, Len(b) \in Nat, Len(b) <= Len(a),
           NEW base \in Nat, Ordered(a, base) \/ Ordered(a, base + 1),
           \A j \in 0 .. Len(b) - 1 : j # base => At(b, j) = At(a, j)
    PROVE  HoleOrdered(b, base, base)
<1>1. ASSUME NEW j \in 1 .. Len(b) - 1, Parent(j) >= base, j # base, Parent(j) # base
      PROVE  At(b, Parent(j)) <= At(b, j)
  <2>1. /\ j \in 0 .. Len(b) - 1 /\ Parent(j) \in 0 .. Len(b) - 1 /\ j \in 1 .. Len(a) - 1
        /\ Parent(j) >= base + 1
    BY <1>1, ParentFacts
  <2>. QED
    BY <1>1, <2>1 DEF Ordered
<1>. QED
  BY <1>1 DEF HoleOrdered

LEMMA LeastMember ==
    ASSUME NEW S \in SUBSET Nat, S # {}
    PROVE  \E i \in S : \A j \in S : i <= j
<1>1. IsWellFoundedOn(OpToRel(<, Nat), Nat)
  BY NatLessThanWellFounded
<1>2. PICK i \in S : \A j \in S : <<j, i>> \notin OpToRel(<, Nat)
  BY <1>1, WFMin
<1>3. \A j \in S : ~(j < i)
  BY <1>2, Zenon DEF OpToRel
<1>. QED
  BY <1>3

LEMMA AllDescend ==
    ASSUME NEW i \in Nat
    PROVE  Descends(i, 0)
<1> SUFFICES ASSUME NEW S \in SUBSET Nat, 0 \in S,
                    \A j \in S : 2 * j + 1 \in S /\ 2 * j + 2 \in S
             PROVE  i \in S
  BY DEF Descends
<1> SUFFICES ASSUME Nat \ S # {} PROVE FALSE
  OBVIOUS
<1>1. PICK k \in Nat \ S : \A j \in Nat \ S : k <= j
  BY LeastMember
<1>2. k \in Nat /\ k # 0
  OBVIOUS
<1>3. /\ Parent(k) \in Nat /\ Parent(k) < k
      /\ k = 2 * Parent(k) + 1 \/ k = 2 * Parent(k) + 2
  BY <1>2 DEF Parent
<1>4. Parent(k) \in S
  BY <1>1, <1>2, <1>3
<1>. QED
  BY <1>3, <1>4

(* A push puts a hole at the end, which has nothing below it.              *)
LEMMA NewLeaf ==
    ASSUME NEW a \in Seq(Items), NEW v \in Items, Ordered(a, 0)
    PROVE  /\ HoleOrdered(Append(a, v), 0, Len(a))
           /\ NotAbove(Append(a, v), Len(a), v)
           /\ Descends(Len(a), 0)
<1> DEFINE n == Len(a)
           b == Append(a, v)
<1>1. n \in Nat /\ Len(b) = n + 1 /\ \A j \in 0 .. n : At(b, j) = IF j = n THEN v ELSE At(a, j)
  BY AppendedAt, LenProperties
<1> HIDE DEF b
<1>2. ASSUME NEW j \in 1 .. n PROVE j \in 0 .. n /\ Parent(j) \in 0 .. n - 1 /\ Parent(j) # n
  <2>1. n + 1 \in Nat /\ j \in 1 .. n + 1 - 1
    BY <1>1
  <2>2. Parent(j) \in 0 .. n + 1 - 1 /\ Parent(j) < j
    BY <2>1, ParentFacts
  <2>. QED
    BY <1>1, <2>2
<1>3. ASSUME NEW j \in 1 .. n, j # n PROVE At(b, Parent(j)) <= At(b, j)
  <2>1. j \in 1 .. n - 1 /\ Parent(j) \in 0 .. n - 1 /\ Parent(j) >= 0
    BY <1>1, <1>2, <1>3
  <2>2. At(a, Parent(j)) <= At(a, j)
    BY <2>1 DEF Ordered
  <2>3. At(b, j) = At(a, j) /\ At(b, Parent(j)) = At(a, Parent(j))
    BY <1>1, <1>2, <1>3, <2>1
  <2>. QED
    BY <2>2, <2>3
<1>4. Len(b) - 1 = n
  BY <1>1
<1>5. HoleOrdered(b, 0, n)
  BY <1>2, <1>3, <1>4 DEF HoleOrdered
<1>6. NotAbove(b, n, v)
  BY <1>2, <1>4 DEF NotAbove
<1>. QED
  BY <1>1, <1>5, <1>6, AllDescend DEF b

-----------------------------------------------------------------------------
(* One frame and its array *)

Sound(f, a) ==
    /\ f \in FrameType /\ a \in Seq(Value) /\ InRange(f, Len(a))
    /\ Clean => a \in Seq(Items) /\ InOrder(f, a)

Alike(f, g) == f.op = g.op /\ f.array = g.array /\ f.left = g.left

(* The current operation takes a step in its own array.                    *)
LEMMA TopFacts ==
    ASSUME Types, Stacked, frames # <<>>
    PROVE  /\ Len(frames) \in Nat \ {0} /\ DOMAIN frames = 1 .. Len(frames)
           /\ Top \in FrameType /\ Top.array \in Handles
           /\ Ours \in Seq(Value) /\ InRange(Top, Len(Ours))
           /\ Clean => Len(frames) = 1
<1>1. Len(frames) \in Nat \ {0} /\ DOMAIN frames = 1 .. Len(frames)
  BY LenProperties, EmptySeq DEF Types
<1>2. Top \in FrameType
  BY <1>1, ElementOfSeq DEF Types, Top
<1>3. Top.array \in Handles
  BY <1>2 DEF FrameType
<1>4. Ours \in Seq(Value)
  BY <1>3 DEF Types, Ours
<1>5. InRange(Top, Len(Ours))
  BY <1>1 DEF Stacked, Ours, Top
<1>6. Clean => Len(frames) = 1
  BY <1>1 DEF Clean, Stacked
<1>. QED
  BY <1>1, <1>2, <1>3, <1>4, <1>5, <1>6

LEMMA GoSound ==
    ASSUME Kept, frames # <<>>,
           NEW f, NEW a, Sound(f, a), Alike(f, Top), Len(a) = Len(Ours), Go(f, a)
    PROVE  Kept'
<1>0. Types /\ Stacked /\ Counted /\ (Clean => Sorted)
  BY DEF Kept
<1> USE <1>0
<1> DEFINE m == Len(frames)
<1>1. /\ m \in Nat \ {0} /\ DOMAIN frames = 1 .. m /\ Top.array \in Handles
      /\ frames \in Seq(FrameType)
  BY TopFacts DEF Types
<1>2. frames' = [frames EXCEPT ![m] = f]
  BY DEF Go, Resume
<1>3. f \in FrameType /\ a \in Seq(Value)
  BY DEF Sound
<1>4. frames' \in Seq(FrameType) /\ Len(frames') = m
  BY <1>1, <1>2, <1>3, ExceptSeq
<1>5. /\ DOMAIN frames' = 1 .. m /\ frames'[m] = f
      /\ \A n \in 1 .. m : n # m => frames'[n] = frames[n]
  <2>1. PICK r : r = m
    OBVIOUS
  <2>2. r \in 1 .. m /\ frames' = [frames EXCEPT ![r] = f]
    BY <1>1, <1>2, <2>1
  <2>3. /\ DOMAIN frames' = DOMAIN frames /\ frames'[r] = f
        /\ \A n \in DOMAIN frames : n # r => frames'[n] = frames[n]
    BY <1>1, <2>2
  <2>. QED
    BY <1>1, <2>1, <2>3
<1>6. ASSUME NEW n \in 1 .. m PROVE Alike(frames'[n], frames[n])
  BY <1>1, <1>5 DEF Alike, Top
<1>7. /\ arrays' \in [Handles -> Seq(Value)]
      /\ arrays'[Top.array] = a
      /\ \A h \in Handles : h # Top.array => arrays'[h] = arrays[h]
      /\ items' = items /\ size' = size /\ popped' = popped
      /\ comparator' = comparator /\ throws' = throws
  BY <1>1, <1>3 DEF Go, Types, history
<1>8. ASSUME NEW h \in Handles
      PROVE  Len(arrays'[h]) = Len(arrays[h]) /\ (arrays[h] = <<>> => arrays'[h] = <<>>)
  <2>1. CASE h = Top.array
    <3>1. Len(arrays'[h]) = Len(arrays[h])
      BY <1>7, <2>1 DEF Ours
    <3>2. arrays'[h] \in Seq(Value) /\ arrays[h] \in Seq(Value)
      BY <1>7 DEF Types
    <3>3. /\ arrays'[h] = <<>> <=> Len(arrays'[h]) = 0
          /\ arrays[h] = <<>> <=> Len(arrays[h]) = 0
      BY <3>2, EmptySeq
    <3>. QED
      BY <3>1, <3>3
  <2>2. CASE h # Top.array
    BY <1>7, <2>2
  <2>. QED
    BY <2>1, <2>2
<1>9. Types'
  BY <1>4, <1>7 DEF Types
<1>10. Held(frames') = Held(frames)
  BY <1>1, <1>5, <1>6 DEF Held, Alike
<1>11. Idle' = Idle /\ ~Idle /\ frames'[1].op = frames[1].op /\ frames'[1].left = frames[1].left
       /\ frames'[1].array = frames[1].array
  <2>1. frames' # <<>>
    BY <1>1, <1>4, EmptySeq
  <2>. QED
    BY <1>1, <1>6, <2>1 DEF Idle, Alike
<1>12. Stacked'
  <2>1. ASSUME NEW n \in 1 .. m PROVE InRange(frames'[n], Len(arrays'[frames'[n].array]))
    <3>1. frames'[n].array = frames[n].array /\ frames[n].array \in Handles
      <4>1. frames[n] \in FrameType
        BY <1>1, ElementOfSeq
      <4>2. frames'[n].array = frames[n].array
        BY <1>6 DEF Alike
      <4>. QED
        BY <4>1, <4>2 DEF FrameType
    <3>2. Len(arrays'[frames'[n].array]) = Len(arrays[frames[n].array])
      BY <1>8, <3>1
    <3>3. CASE n = m
      <4>1. Len(arrays'[frames'[n].array]) = Len(a)
        BY <3>2, <3>3 DEF Ours, Top
      <4>. QED
        BY <1>5, <3>3, <4>1 DEF Sound
    <3>4. CASE n # m
      BY <1>1, <1>5, <3>2, <3>4 DEF Stacked
    <3>. QED
      BY <3>3, <3>4
  <2>2. \A n \in 1 .. m : n > 1 => frames'[n].op = "push"
    BY <1>1, <1>6 DEF Stacked, Alike
  <2>3. ~Idle /\ frames[1].op # "from" /\ comparator.calls \subseteq {"push"} =>
            \A n \in 1 .. m : frames'[n].array = items
    BY <1>1, <1>6 DEF Stacked, Alike
  <2>4. items \in Handles
    BY DEF Types
  <2>. QED
    BY <1>1, <1>4, <1>5, <1>7, <1>8, <1>10, <1>11, <2>1, <2>2, <2>3, <2>4 DEF Stacked
<1>13. Counted'
  <2>1. Due' = Due
    BY <1>4, <1>11 DEF Due, Cost
  <2>2. Len(arrays'[items]) = Len(arrays[items])
    BY <1>8 DEF Types
  <2>. QED
    BY <1>7, <2>1, <2>2 DEF Counted
<1>14. (Clean => Sorted)'
  <2> SUFFICES ASSUME Clean PROVE Sorted'
    BY <1>7 DEF Clean
  <2>1. \A h \in Handles : arrays'[h] \in Seq(Items)
    BY <1>7 DEF Sound, Sorted
  <2>2. Top' = f /\ Ours' = a
    <3>1. Top' = f
      BY <1>4, <1>5 DEF Top
    <3>2. Ours' = arrays'[Top.array]
      BY <3>1 DEF Ours, Alike
    <3>. QED
      BY <1>7, <3>1, <3>2
  <2>3. InOrder(Top', Ours')
    BY <2>2 DEF Sound
  <2>. QED
    BY <1>11, <2>1, <2>3 DEF Sorted
<1>. QED
  BY <1>9, <1>12, <1>13, <1>14 DEF Kept

(* The sift that the operations begin.                                     *)
LEMMA SiftUpSound ==
    ASSUME NEW f \in FrameType, NEW ns \in Seq(Value), NEW i \in Nat, i < Len(ns),
           f.op = "from" => f.left <= Len(ns),
           f.op \notin {"consume", "from"} => f.left = 0,
           Clean => ns \in Seq(Items) /\ i = Base(f) /\ HoleOrdered(ns, i, i)
    PROVE  Sound(SiftUp(f, ns, i), ns) /\ Alike(SiftUp(f, ns, i), f)
<1> DEFINE g == SiftUp(f, ns, i)
<1>1. Len(ns) \in Nat /\ i \in 0 .. Len(ns) - 1 /\ 2 * i + 1 \in Nat
  BY LenProperties
<1>2. At(ns, i) \in Value
  BY <1>1, AtTyped DEF Value
<1>3. g \in FrameType
  BY <1>1, <1>2 DEF FrameType, SiftUp, Sifting
<1>4. /\ g.op = f.op /\ g.array = f.array /\ g.left = f.left
      /\ g.at = "up" /\ g.start = i /\ g.i = i /\ g.child = 2 * i + 1 /\ g.end = Len(ns)
      /\ g.item = At(ns, i)
  BY DEF FrameType, SiftUp
<1> HIDE DEF g
<1>5. InRange(g, Len(ns))
  BY <1>1, <1>4 DEF InRange
<1>6. ASSUME Clean PROVE InOrder(g, ns)
  <2>1. At(ns, i) \in Items
    BY <1>1, <1>6, AtTyped
  <2>2. Descends(i, i) /\ HoleOrdered(ns, i, i) /\ i = Base(f)
    BY <1>6, DescendsFacts
  <2>3. Base(g) = Base(f)
    BY <1>4 DEF Base
  <2>. QED
    BY <1>4, <2>1, <2>2, <2>3 DEF InOrder
<1>. QED
  BY <1>3, <1>4, <1>5, <1>6 DEF Sound, Alike, g

LEMMA PoppingSound ==
    ASSUME NEW f \in FrameType, NEW ns \in Seq(Value), f.op \in {"pop", "consume"},
           f.op = "pop" => f.left = 0,
           Clean => ns \in Seq(Items) /\ Ordered(ns, 0)
    PROVE  /\ Sound(Popping(f, ns).frame, Popping(f, ns).array)
           /\ Alike(Popping(f, ns).frame, f)
           /\ Len(Popping(f, ns).array) = IF Len(ns) = 0 THEN 0 ELSE Len(ns) - 1
<1> DEFINE rest == Pulled(ns)
           last == At(ns, Len(ns) - 1)
           moved == Put(rest, 0, last)
           done == [f EXCEPT !.at = "done", !.out = last]
           taken == [f EXCEPT !.out = At(rest, 0)]
<1>1. Len(ns) \in Nat
  BY LenProperties
<1>2. /\ rest \in Seq(Value)
      /\ rest = <<>> <=> Len(ns) \in {0, 1}
      /\ Len(rest) = IF Len(ns) = 0 THEN 0 ELSE Len(ns) - 1
      /\ \A j \in 0 .. Len(ns) - 2 : At(rest, j) = At(ns, j)
  BY PulledAt
<1>3. last \in Value /\ At(rest, 0) \in Value
  BY <1>2, AtTyped DEF Value
<1>4. CASE rest = <<>>
  <2>1. Popping(f, ns) = [frame |-> done, array |-> rest]
    BY <1>4 DEF Popping
  <2>2. done \in FrameType /\ Alike(done, f) /\ done.at = "done" /\ done.op = f.op /\ done.left = f.left
    BY <1>3 DEF FrameType, Alike
  <2>3. InRange(done, Len(rest))
    BY <2>2 DEF InRange, Sifting
  <2>4. Clean => rest \in Seq(Items) /\ InOrder(done, rest)
    <3>1. rest \in Seq(Items) /\ Ordered(rest, Base(done))
      BY <1>4, EmptySeq DEF Ordered
    <3>. QED
      BY <2>2, <3>1 DEF InOrder, Sifting
  <2> HIDE DEF done, rest, last
  <2>5. Popping(f, ns).frame = done /\ Popping(f, ns).array = rest
    BY <2>1
  <2>6. Sound(done, rest)
    BY <1>2, <2>2, <2>3, <2>4 DEF Sound
  <2>. QED
    BY <1>2, <2>2, <2>5, <2>6
<1>5. CASE rest # <<>>
  <2>1. Popping(f, ns) = [frame |-> SiftUp(taken, moved, 0), array |-> moved]
    BY <1>5 DEF Popping
  <2>2. taken \in FrameType /\ Alike(taken, f)
    BY <1>3 DEF FrameType, Alike
  <2>3. Len(ns) >= 2 /\ Len(rest) = Len(ns) - 1 /\ Len(ns) - 1 \in 0 .. Len(ns) - 1
    BY <1>1, <1>2, <1>5
  <2>4. 0 < Len(rest) /\ Len(rest) \in Nat
    BY <2>3, <1>1
  <2> HIDE DEF rest, last, taken
  <2>5. moved \in Seq(Value) /\ IsPut(moved, rest, 0, last)
    BY <1>2, <1>3, <2>4, PutProperties
  <2>6. ASSUME Clean PROVE moved \in Seq(Items) /\ HoleOrdered(moved, 0, 0)
    <3>1. ns \in Seq(Items) /\ Ordered(ns, 0)
      BY <2>6
    <3>2. rest \in Seq(Items)
      BY <3>1, PulledAt DEF rest
    <3>3. last \in Items
      BY <2>3, <3>1, AtTyped DEF last
    <3>4. moved \in Seq(Items)
      BY <2>4, <3>2, <3>3, PutProperties
    <3>5. /\ Len(moved) = Len(rest) /\ Len(moved) <= Len(ns)
          /\ \A j \in 0 .. Len(moved) - 1 : j # 0 => At(moved, j) = At(ns, j)
      <4> HIDE DEF moved
      <4>1. Len(moved) = Len(rest) /\ \A j \in 0 .. Len(rest) - 1 : j # 0 => At(moved, j) = At(rest, j)
        BY <2>5 DEF IsPut
      <4>2. \A j \in 0 .. Len(rest) - 1 : j \in 0 .. Len(ns) - 2
        BY <1>1, <2>3
      <4>. QED
        BY <1>1, <1>2, <2>3, <4>1, <4>2
    <3> HIDE DEF moved
    <3>6. Len(moved) \in Nat
      BY <2>4, <3>5
    <3>. QED
      BY <1>1, <3>1, <3>4, <3>5, <3>6, RootHole
  <2>7. Len(moved) = Len(rest)
    BY <2>5 DEF IsPut
  <2> HIDE DEF moved
  <2>8. Sound(SiftUp(taken, moved, 0), moved) /\ Alike(SiftUp(taken, moved, 0), taken)
    <3>1. 0 \in Nat /\ 0 < Len(moved)
      BY <2>4, <2>7
    <3>2. taken.op = f.op /\ taken.left = f.left /\ taken.op # "from"
      BY <2>2 DEF Alike
    <3>3. Base(taken) = 0
      BY <3>2 DEF Base
    <3>. QED
      BY <2>2, <2>5, <2>6, <3>1, <3>2, <3>3, SiftUpSound
  <2>9. Popping(f, ns).frame = SiftUp(taken, moved, 0) /\ Popping(f, ns).array = moved
    BY <2>1
  <2>. QED
    BY <2>2, <2>3, <2>7, <2>8, <2>9 DEF Alike
<1>. QED
  BY <1>4, <1>5

-----------------------------------------------------------------------------
(* The stack of operations *)

LEMMA AppendedFrames ==
    ASSUME Types, NEW f \in FrameType, NEW a \in Seq(Value), Enter(f, a)
    PROVE  /\ frames' \in Seq(FrameType) /\ Len(frames) \in Nat /\ Len(frames') = Len(frames) + 1
           /\ DOMAIN frames' = 1 .. Len(frames) + 1 /\ ~Idle'
           /\ frames'[Len(frames) + 1] = f /\ Top' = f
           /\ \A n \in 1 .. Len(frames) : frames'[n] = frames[n]
           /\ arrays' \in [Handles -> Seq(Value)] /\ arrays'[items] = a
           /\ \A h \in Handles : h # items => arrays'[h] = arrays[h]
<1>1. frames' = Append(frames, f) /\ frames \in Seq(FrameType)
  BY DEF Enter, Types
<1>2. /\ frames' \in Seq(FrameType) /\ Len(frames) \in Nat /\ Len(frames') = Len(frames) + 1
      /\ frames'[Len(frames) + 1] = f
      /\ \A n \in 1 .. Len(frames) : frames'[n] = frames[n]
  BY <1>1, AppendProperties, LenProperties
<1>3. DOMAIN frames' = 1 .. Len(frames) + 1 /\ ~Idle'
  <2>1. DOMAIN frames' = 1 .. Len(frames')
    BY <1>2, LenProperties
  <2>2. frames' # <<>>
    BY <1>2, EmptySeq
  <2>. QED
    BY <1>2, <2>1, <2>2 DEF Idle
<1>4. Top' = f
  BY <1>2 DEF Top
<1>5. /\ arrays' \in [Handles -> Seq(Value)] /\ arrays'[items] = a
      /\ \A h \in Handles : h # items => arrays'[h] = arrays[h]
  BY DEF Enter, Types
<1>. QED
  BY <1>2, <1>3, <1>4, <1>5

(* An operation begins when none is under way.                             *)
LEMMA BeginSound ==
    ASSUME Kept, frames = <<>>,
           NEW f, NEW a, Sound(f, a), f.array = items, f.op # "from", Enter(f, a),
           UNCHANGED <<items, popped, history>>, size' \in Nat,
           comparator.calls = {} => size' + Cost(f) <= Len(a),
           comparator.calls \subseteq {"push"} /\ throws = 0 => size' + Cost(f) = Len(a),
           comparator.calls = {"clear"} /\ throws = 0 => Len(a) <= size' + Cost(f)
    PROVE  Kept'
<1>0. Types /\ Stacked /\ Counted /\ (Clean => Sorted)
  BY DEF Kept
<1> USE <1>0
<1>1. f \in FrameType /\ a \in Seq(Value)
  BY DEF Sound
<1>2. Len(frames) = 0
  BY EmptySeq DEF Types
<1>3. /\ frames' \in Seq(FrameType) /\ Len(frames') = 1 /\ DOMAIN frames' = {1} /\ ~Idle'
      /\ frames'[1] = f /\ Top' = f
      /\ arrays' \in [Handles -> Seq(Value)] /\ arrays'[items] = a
      /\ \A h \in Handles : h # items => arrays'[h] = arrays[h]
  <2>1. 1 .. 0 + 1 = {1} /\ 0 + 1 = 1
    OBVIOUS
  <2>. QED
    BY <1>1, <1>2, <2>1, AppendedFrames
<1>4. items' = items /\ popped' = popped /\ comparator' = comparator /\ throws' = throws
  BY DEF history
<1>5. Types'
  BY <1>3, <1>4 DEF Types
<1>6. Stacked'
  <2>1. \A h \in Handles : h # items => arrays'[h] = <<>>
    <3>1. Held(frames) = {}
      BY DEF Held
    <3>. QED
      BY <1>3, <3>1 DEF Stacked
  <2>2. items \in Held(frames')
    BY <1>3 DEF Held
  <2>3. InRange(f, Len(a))
    BY DEF Sound
  <2>. QED
    BY <1>3, <1>4, <2>1, <2>2, <2>3 DEF Stacked
<1>7. Counted'
  <2>1. Due' = Cost(f)
    <3>1. Cost(f) \in Nat
      BY <1>1 DEF Cost, FrameType
    <3>2. Due' = 1 - 1 + Cost(f)
      BY <1>3 DEF Due, Cost
    <3>. QED
      BY <3>1, <3>2
  <2>. QED
    BY <1>3, <1>4, <2>1 DEF Counted
<1>8. (Clean => Sorted)'
  <2> SUFFICES ASSUME Clean PROVE Sorted'
    BY <1>4 DEF Clean
  <2>1. a \in Seq(Items) /\ InOrder(f, a)
    BY DEF Sound
  <2>2. \A h \in Handles : arrays'[h] \in Seq(Items)
    BY <1>3, <2>1 DEF Sorted
  <2>3. Ours' = a
    BY <1>3 DEF Ours
  <2>. QED
    BY <1>3, <2>1, <2>2, <2>3 DEF Sorted
<1>. QED
  BY <1>5, <1>6, <1>7, <1>8 DEF Kept

LEMMA InRangeGrows ==
    ASSUME NEW f \in FrameType, NEW n \in Nat, NEW m \in Nat, n <= m, InRange(f, n)
    PROVE  InRange(f, m)
  BY DEF InRange, FrameType

(* A comparator pushes.                                                    *)
LEMMA NestSound ==
    ASSUME Tame, Kept, frames # <<>>, frames[1].op # "from",
           "push" \in comparator.calls, NEW f, NEW a, Sound(f, a),
           f.array = items, f.op = "push", Enter(f, a), Len(a) = Len(arrays[items]) + 1,
           UNCHANGED <<items, size, popped, history>>
    PROVE  Kept'
<1>0. Types /\ Stacked /\ Counted /\ (Clean => Sorted)
  BY DEF Kept
<1> USE <1>0
<1> DEFINE m == Len(frames)
<1>1. f \in FrameType /\ a \in Seq(Value)
  BY DEF Sound
<1>2. m \in Nat \ {0} /\ DOMAIN frames = 1 .. m /\ frames \in Seq(FrameType)
  BY TopFacts DEF Types
<1>3. /\ frames' \in Seq(FrameType) /\ Len(frames') = m + 1
      /\ DOMAIN frames' = 1 .. m + 1 /\ ~Idle'
      /\ frames'[m + 1] = f
      /\ \A n \in 1 .. m : frames'[n] = frames[n]
      /\ arrays' \in [Handles -> Seq(Value)] /\ arrays'[items] = a
      /\ \A h \in Handles : h # items => arrays'[h] = arrays[h]
  BY <1>1, AppendedFrames
<1>4. /\ items' = items /\ size' = size /\ popped' = popped
      /\ comparator' = comparator /\ throws' = throws
  BY DEF history
<1>5. /\ comparator.calls \subseteq {"push"} /\ comparator.calls # {}
      /\ ~(comparator.calls \subseteq {"clear"})
  BY DEF Tame
<1>6. \A n \in 1 .. m : frames[n].array = items
  BY <1>2, <1>5 DEF Stacked, Idle
<1>7. Types'
  BY <1>3, <1>4 DEF Types
<1>8. frames'[1] = frames[1] /\ frames[1].array = items
  BY <1>2, <1>3, <1>6
<1>9. Stacked'
  <2>1. ASSUME NEW n \in 1 .. m + 1
        PROVE  /\ InRange(frames'[n], Len(arrays'[frames'[n].array]))
               /\ n > 1 => frames'[n].op = "push"
               /\ frames'[n].array = items
    <3>1. CASE n = m + 1
      BY <1>3, <3>1 DEF Sound
    <3>2. CASE n \in 1 .. m
      <4>1. frames'[n] = frames[n] /\ frames[n].array = items
        BY <1>3, <1>6, <3>2
      <4>2. frames[n] \in FrameType /\ InRange(frames[n], Len(arrays[items]))
        BY <1>2, <3>2, <4>1, ElementOfSeq DEF Stacked
      <4>3. Len(arrays[items]) \in Nat /\ Len(a) \in Nat /\ Len(arrays[items]) <= Len(a)
        BY LenProperties DEF Types
      <4>4. InRange(frames[n], Len(a))
        BY <4>2, <4>3, InRangeGrows
      <4>. QED
        BY <1>2, <1>3, <3>2, <4>1, <4>4 DEF Stacked
    <3>. QED
      BY <1>2, <3>1, <3>2
  <2>2. \A h \in Handles : h # items => arrays'[h] = <<>>
    <3>1. Held(frames) \subseteq {items}
      BY <1>2, <1>6 DEF Held
    <3>. QED
      BY <1>3, <3>1 DEF Stacked
  <2>3. \A n \in DOMAIN frames' : /\ InRange(frames'[n], Len(arrays'[frames'[n].array]))
                                  /\ n > 1 => frames'[n].op = "push"
                                  /\ frames'[n].array = items
    BY <1>3, <2>1
  <2>. QED
    BY <1>4, <1>5, <1>8, <2>2, <2>3 DEF Stacked
<1>10. Counted'
  <2>1. Due' = Due + 1
    <3>1. Due' = (m + 1) - 1 + Cost(frames[1])
      BY <1>3, <1>8 DEF Due, Cost
    <3>2. Due = m - 1 + Cost(frames[1])
      BY DEF Due, Idle
    <3>3. Cost(frames[1]) \in Nat
      <4>1. frames[1] \in FrameType
        BY <1>2, ElementOfSeq
      <4>. QED
        BY <4>1 DEF Cost, FrameType
    <3>. QED
      BY <1>2, <3>1, <3>2, <3>3
  <2>2. throws = 0 => size + Due = Len(arrays[items])
    BY <1>5 DEF Counted
  <2>3. throws = 0 => size + Due' = Len(arrays'[items])
    <3>1. Due \in Int /\ size \in Nat
      <4>1. frames[1] \in FrameType
        BY <1>2, ElementOfSeq
      <4>. QED
        BY <1>2, <4>1 DEF Due, Cost, FrameType, Types
    <3>. QED
      BY <1>3, <2>1, <2>2, <3>1
  <2>. QED
    BY <1>4, <1>5, <2>3 DEF Counted
<1>11. (Clean => Sorted)'
  BY <1>4, <1>5 DEF Clean
<1>. QED
  BY <1>7, <1>9, <1>10, <1>11 DEF Kept

-----------------------------------------------------------------------------
(* The operations, up to the first comparison *)

LEMMA FrameTyped ==
    ASSUME Types, NEW op \in {"push", "pop", "replace", "pushpop", "consume", "from"},
           NEW given \in Value, NEW left \in Nat
    PROVE  Frame(op, given, left) \in FrameType
  BY DEF Frame, FrameType, Types, Value, Sifting

LEMMA SiftDownSound ==
    ASSUME NEW f \in FrameType, NEW ns \in Seq(Value), NEW start \in Nat, NEW i \in Nat,
           i < Len(ns), f.op = "from" => f.left <= Len(ns),
           f.op \notin {"consume", "from"} => f.left = 0,
           Clean => /\ ns \in Seq(Items) /\ start = Base(f)
                    /\ Descends(i, start) /\ HoleOrdered(ns, start, i)
                    /\ NotAbove(ns, i, At(ns, i))
    PROVE  Sound(SiftDown(f, ns, start, i), ns) /\ Alike(SiftDown(f, ns, start, i), f)
<1> DEFINE g == SiftDown(f, ns, start, i)
<1>1. Len(ns) \in Nat /\ i \in 0 .. Len(ns) - 1
  BY LenProperties
<1>2. At(ns, i) \in Value
  BY <1>1, AtTyped DEF Value
<1>3. g \in FrameType
  BY <1>1, <1>2 DEF FrameType, SiftDown, Sifting
<1>4. /\ g.op = f.op /\ g.array = f.array /\ g.left = f.left
      /\ g.at = "down" /\ g.start = start /\ g.i = i /\ g.item = At(ns, i)
  BY DEF FrameType, SiftDown
<1> HIDE DEF g
<1>5. InRange(g, Len(ns))
  BY <1>1, <1>4 DEF InRange
<1>6. ASSUME Clean PROVE InOrder(g, ns)
  <2>1. At(ns, i) \in Items
    BY <1>1, <1>6, AtTyped
  <2>2. Base(g) = Base(f)
    BY <1>4 DEF Base
  <2>. QED
    BY <1>4, <1>6, <2>1, <2>2 DEF InOrder
<1>. QED
  BY <1>3, <1>4, <1>5, <1>6 DEF Sound, Alike, g

LEMMA IdleFacts ==
    ASSUME Kept, frames = <<>>
    PROVE  /\ arrays[items] \in Seq(Value) /\ size \in Nat
           /\ comparator.calls = {} => size <= Len(arrays[items])
           /\ comparator.calls \subseteq {"push"} /\ throws = 0 => size = Len(arrays[items])
           /\ comparator.calls = {"clear"} /\ throws = 0 => Len(arrays[items]) <= size
           /\ Clean => arrays[items] \in Seq(Items) /\ Ordered(arrays[items], 0)
  BY DEF Kept, Types, Counted, Due, Idle, Sorted

LEMMA PushKeeps ==
    ASSUME Tame, Kept, NEW v \in Items, Push(v)
    PROVE  Kept'
<1> DEFINE ns == arrays[items]
           longer == Append(ns, v)
           f == SiftDown(Frame("push", v, 0), longer, 0, Len(longer) - 1)
<1>1. Types
  BY DEF Kept
<1>2. ns \in Seq(Value) /\ v \in Value
  BY <1>1 DEF Types, Value
<1>3. Enter(f, longer) /\ UNCHANGED <<items, size, popped, history>> /\ MayCall("push")
  BY DEF Push
<1>4. /\ longer \in Seq(Value) /\ Len(longer) = Len(ns) + 1 /\ Len(ns) \in Nat
      /\ At(longer, Len(ns)) = v
  <2>1. Len(ns) \in Nat
    BY <1>2, LenProperties
  <2>2. Len(ns) \in 0 .. Len(ns)
    BY <2>1
  <2>. QED
    BY <1>2, <2>1, <2>2, AppendedAt
<1>5. Frame("push", v, 0) \in FrameType
  BY <1>1, <1>2, FrameTyped
<1>6. /\ Frame("push", v, 0).op = "push" /\ Frame("push", v, 0).left = 0
      /\ Frame("push", v, 0).array = items
  BY DEF Frame
<1>7. Clean => frames = <<>>
  <2>1. Clean => "push" \notin comparator.calls
    BY DEF Clean
  <2>. QED
    BY <1>3, <2>1 DEF MayCall
<1>8. ASSUME Clean
      PROVE  /\ longer \in Seq(Items) /\ HoleOrdered(longer, 0, Len(ns))
             /\ NotAbove(longer, Len(ns), v) /\ Descends(Len(ns), 0)
  <2>1. ns \in Seq(Items) /\ Ordered(ns, 0)
    BY <1>7, <1>8, IdleFacts
  <2>2. longer \in Seq(Items)
    BY <2>1, AppendedAt
  <2>. QED
    BY <2>1, <2>2, NewLeaf
<1> HIDE DEF longer
<1>9. Len(longer) - 1 = Len(ns) /\ Len(ns) < Len(longer)
  BY <1>4
<1>10. f = SiftDown(Frame("push", v, 0), longer, 0, Len(ns))
  BY <1>9
<1>11. Sound(f, longer) /\ Alike(f, Frame("push", v, 0))
  <2>1. Base(Frame("push", v, 0)) = 0
    BY <1>6 DEF Base
  <2>. QED
    BY <1>4, <1>5, <1>6, <1>8, <1>9, <1>10, <2>1, SiftDownSound
<1> HIDE DEF f
<1>12. f.op = "push" /\ f.array = items /\ Cost(f) = 1
  BY <1>6, <1>11 DEF Alike, Cost
<1>13. CASE frames = <<>>
  <2>1. /\ size \in Nat
        /\ comparator.calls = {} => size <= Len(arrays[items])
        /\ comparator.calls \subseteq {"push"} /\ throws = 0 => size = Len(arrays[items])
        /\ comparator.calls = {"clear"} /\ throws = 0 => Len(arrays[items]) <= size
    BY <1>13, IdleFacts
  <2>2. /\ size' \in Nat
        /\ comparator.calls = {} => size' + Cost(f) <= Len(longer)
        /\ comparator.calls \subseteq {"push"} /\ throws = 0 => size' + Cost(f) = Len(longer)
        /\ comparator.calls = {"clear"} /\ throws = 0 => Len(longer) <= size' + Cost(f)
    <3>1. size' = size /\ Cost(f) = 1 /\ Len(longer) = Len(ns) + 1
      BY <1>3, <1>4, <1>12
    <3>. QED
      BY <1>4, <2>1, <3>1
  <2>. QED
    BY <1>3, <1>11, <1>12, <1>13, <2>2, BeginSound
<1>14. CASE frames # <<>>
  <2>1. "push" \in comparator.calls /\ frames[1].op # "from"
    BY <1>3, <1>14 DEF MayCall
  <2>. QED
    BY <1>3, <1>4, <1>11, <1>12, <1>14, <2>1, NestSound
<1>. QED
  BY <1>13, <1>14

LEMMA CalledIdle ==
    ASSUME Tame, NEW op, MayCall(op), op \notin {"push", "clear"}
    PROVE  frames = <<>>
  BY DEF MayCall, Tame

LEMMA PopKeeps ==
    ASSUME Tame, Kept, Pop
    PROVE  Kept'
<1> DEFINE ns == arrays[items]
           f == Frame("pop", None, 0)
           begun == Popping(f, ns)
<1>1. Enter(begun.frame, begun.array) /\ UNCHANGED <<items, popped, history>>
  BY DEF Pop
<1>2. frames = <<>>
  <2>1. MayCall("pop") /\ "pop" \notin {"push", "clear"}
    BY DEF Pop
  <2>. QED
    BY <2>1, CalledIdle
<1>3. ns \in Seq(Value) /\ Len(ns) \in Nat /\ (Clean => ns \in Seq(Items) /\ Ordered(ns, 0))
  BY <1>2, IdleFacts, LenProperties
<1>4. f \in FrameType /\ f.op = "pop" /\ f.left = 0 /\ f.array = items
  <2>1. Types /\ None \in Value /\ 0 \in Nat
    BY DEF Kept, Value
  <2>2. f \in FrameType
    BY <2>1, FrameTyped
  <2>. QED
    BY <2>2 DEF Frame
<1> HIDE DEF f
<1>5. /\ Sound(begun.frame, begun.array) /\ Alike(begun.frame, f)
      /\ Len(begun.array) = IF Len(ns) = 0 THEN 0 ELSE Len(ns) - 1
  BY <1>3, <1>4, PoppingSound
<1>6. size' = IF size # 0 THEN size - 1 ELSE 0
  BY DEF Pop
<1> HIDE DEF begun
<1>7. begun.frame.op = "pop" /\ begun.frame.array = items /\ Cost(begun.frame) = 0
  BY <1>4, <1>5 DEF Alike, Cost
<1>8. /\ size' \in Nat
      /\ comparator.calls = {} => size' + 0 <= Len(begun.array)
      /\ comparator.calls \subseteq {"push"} /\ throws = 0 => size' + 0 = Len(begun.array)
      /\ comparator.calls = {"clear"} /\ throws = 0 => Len(begun.array) <= size' + 0
  <2>1. /\ size \in Nat
        /\ comparator.calls = {} => size <= Len(ns)
        /\ comparator.calls \subseteq {"push"} /\ throws = 0 => size = Len(ns)
        /\ comparator.calls = {"clear"} /\ throws = 0 => Len(ns) <= size
    BY <1>2, IdleFacts
  <2>2. size' \in Nat /\ size' + 0 = size'
    BY <1>6, <2>1
  <2>3. size <= Len(ns) => size' <= Len(begun.array)
    BY <1>3, <1>5, <1>6, <2>1
  <2>4. Len(ns) <= size => Len(begun.array) <= size'
    BY <1>3, <1>5, <1>6, <2>1
  <2>5. Len(ns) = size => Len(begun.array) = size'
    BY <1>3, <1>5, <1>6, <2>1
  <2>. QED
    BY <2>1, <2>2, <2>3, <2>4, <2>5
<1>. QED
  BY <1>1, <1>2, <1>5, <1>7, <1>8, BeginSound

LEMMA ConsumeKeeps ==
    ASSUME Tame, Kept, Consume
    PROVE  Kept'
<1> DEFINE ns == arrays[items]
           f == Frame("consume", None, Len(ns) - 1)
           begun == Popping(f, ns)
<1>1. frames = <<>>
  <2>1. MayCall("consume") /\ "consume" \notin {"push", "clear"}
    BY DEF Consume
  <2>. QED
    BY <2>1, CalledIdle
<1>2. ns \in Seq(Value) /\ Len(ns) \in Nat /\ (Clean => ns \in Seq(Items) /\ Ordered(ns, 0))
  BY <1>1, IdleFacts, LenProperties
<1>3. size' = 0 /\ UNCHANGED <<items, popped, history>>
  BY DEF Consume
<1>4. CASE ns = <<>>
  <2>1. UNCHANGED <<frames, arrays>>
    BY <1>4 DEF Consume
  <2>2. Len(ns) = 0
    BY <1>2, <1>4, EmptySeq
  <2>3. Types' /\ Stacked'
    BY <1>1, <1>3, <2>1 DEF Kept, Types, Stacked, Idle, history, Held
  <2>4. Counted'
    BY <1>1, <1>3, <2>1, <2>2 DEF Counted, Due, Idle, history
  <2>5. (Clean => Sorted)'
    BY <1>1, <1>3, <2>1 DEF Kept, Clean, Sorted, Idle, history
  <2>. QED
    BY <2>3, <2>4, <2>5 DEF Kept
<1>5. CASE ns # <<>>
  <2>1. Enter(begun.frame, begun.array)
    BY <1>5 DEF Consume
  <2>2. Len(ns) - 1 \in Nat /\ Len(ns) # 0
    BY <1>2, <1>5, EmptySeq
  <2>3. f \in FrameType /\ f.op = "consume" /\ f.left = Len(ns) - 1 /\ f.array = items
    <3>1. Types /\ None \in Value
      BY DEF Kept, Value
    <3>2. f \in FrameType
      BY <2>2, <3>1, FrameTyped
    <3>. QED
      BY <3>2 DEF Frame
  <2> HIDE DEF f
  <2>4. /\ Sound(begun.frame, begun.array) /\ Alike(begun.frame, f)
        /\ Len(begun.array) = Len(ns) - 1
    BY <1>2, <2>2, <2>3, PoppingSound
  <2> HIDE DEF begun
  <2>5. /\ begun.frame.op = "consume" /\ begun.frame.array = items
        /\ Cost(begun.frame) = Len(ns) - 1
    BY <2>3, <2>4 DEF Alike, Cost
  <2>6. size' \in Nat /\ size' + Cost(begun.frame) = Len(begun.array)
        /\ size' + Cost(begun.frame) <= Len(begun.array)
        /\ Len(begun.array) <= size' + Cost(begun.frame)
    BY <1>3, <2>2, <2>4, <2>5
  <2>7. begun.frame.op # "from"
    BY <2>5
  <2> HIDE DEF ns
  <2>. QED
    BY <1>1, <1>3, <2>1, <2>4, <2>5, <2>6, <2>7, BeginSound
<1>. QED
  BY <1>4, <1>5

LEMMA ReplaceKeeps ==
    ASSUME Tame, Kept, NEW v \in Items, Replace(v)
    PROVE  Kept'
<1> DEFINE ns == arrays[items]
           given == Put(ns, 0, v)
           e == Frame("replace", v, 0)
           g == [e EXCEPT !.out = At(ns, 0)]
           f == SiftUp(g, given, 0)
<1>1. /\ frames = <<>> /\ ns # <<>> /\ Enter(f, given)
      /\ UNCHANGED <<items, size, popped, history>>
  <2>1. MayCall("replace") /\ "replace" \notin {"push", "clear"}
    BY DEF Replace
  <2>2. frames = <<>>
    BY <2>1, CalledIdle
  <2>. QED
    BY <2>2 DEF Replace
<1>2. /\ ns \in Seq(Value) /\ Len(ns) \in Nat \ {0} /\ v \in Value
      /\ Clean => ns \in Seq(Items) /\ Ordered(ns, 0)
  <2>1. ns \in Seq(Value) /\ (Clean => ns \in Seq(Items) /\ Ordered(ns, 0))
    BY <1>1, IdleFacts
  <2>. QED
    BY <1>1, <2>1, LenProperties, EmptySeq DEF Value
<1>3. At(ns, 0) \in Value
  BY <1>2, AtTyped DEF Value
<1>4. g \in FrameType /\ g.op = "replace" /\ g.left = 0 /\ g.array = items
  <2>1. Types /\ 0 \in Nat
    BY DEF Kept
  <2>2. e \in FrameType
    BY <1>2, <2>1, FrameTyped
  <2>3. e.op = "replace" /\ e.left = 0 /\ e.array = items
    BY DEF Frame
  <2> HIDE DEF e
  <2>. QED
    BY <1>3, <2>2, <2>3 DEF FrameType
<1> HIDE DEF g
<1>5. /\ 0 < Len(ns) /\ given \in Seq(Value) /\ Len(given) = Len(ns)
      /\ \A j \in 0 .. Len(ns) - 1 : j # 0 => At(given, j) = At(ns, j)
  <2>1. 0 < Len(ns)
    BY <1>2
  <2>2. given \in Seq(Value) /\ IsPut(given, ns, 0, v)
    BY <1>2, <2>1, PutProperties
  <2>. QED
    BY <2>1, <2>2 DEF IsPut
<1>6. ASSUME Clean PROVE given \in Seq(Items) /\ HoleOrdered(given, 0, 0)
  <2>1. given \in Seq(Items)
    BY <1>2, <1>5, <1>6, PutProperties
  <2> HIDE DEF given
  <2>2. Len(given) \in Nat /\ Len(given) <= Len(ns)
        /\ \A j \in 0 .. Len(given) - 1 : j # 0 => At(given, j) = At(ns, j)
    BY <1>2, <1>5
  <2>. QED
    BY <1>2, <1>6, <2>1, <2>2, RootHole
<1> HIDE DEF given
<1>7. Sound(f, given) /\ Alike(f, g)
  <2>1. Base(g) = 0 /\ 0 < Len(given)
    BY <1>4, <1>5 DEF Base
  <2>. QED
    BY <1>4, <1>5, <1>6, <2>1, SiftUpSound
<1> HIDE DEF f
<1>8. f.op = "replace" /\ f.array = items /\ Cost(f) = 0
  BY <1>4, <1>7 DEF Alike, Cost
<1>9. /\ size' \in Nat
      /\ comparator.calls = {} => size' + 0 <= Len(given)
      /\ comparator.calls \subseteq {"push"} /\ throws = 0 => size' + 0 = Len(given)
      /\ comparator.calls = {"clear"} /\ throws = 0 => Len(given) <= size' + 0
  <2>1. /\ size \in Nat
        /\ comparator.calls = {} => size <= Len(ns)
        /\ comparator.calls \subseteq {"push"} /\ throws = 0 => size = Len(ns)
        /\ comparator.calls = {"clear"} /\ throws = 0 => Len(ns) <= size
    BY <1>1, IdleFacts
  <2>2. size' = size /\ size' + 0 = size /\ Len(given) = Len(ns)
    BY <1>1, <1>5, <2>1
  <2>. QED
    BY <2>1, <2>2
<1>. QED
  BY <1>1, <1>7, <1>8, <1>9, BeginSound

LEMMA PushpopKeeps ==
    ASSUME Tame, Kept, NEW v \in Items, Pushpop(v)
    PROVE  Kept'
<1> DEFINE ns == arrays[items]
           e == Frame("pushpop", v, 0)
           g == [e EXCEPT !.out = v]
           compared == [g EXCEPT !.at = "front", !.a = At(ns, 0), !.b = v]
           f == IF ns = <<>> THEN g ELSE compared
<1>1. frames = <<>> /\ Enter(f, ns) /\ UNCHANGED <<items, size, popped, history>>
  <2>1. MayCall("pushpop") /\ "pushpop" \notin {"push", "clear"}
    BY DEF Pushpop
  <2>2. frames = <<>>
    BY <2>1, CalledIdle
  <2>. QED
    BY <2>2 DEF Pushpop
<1>2. /\ ns \in Seq(Value) /\ Len(ns) \in Nat /\ v \in Value
      /\ ns = <<>> <=> Len(ns) = 0
      /\ Clean => ns \in Seq(Items) /\ Ordered(ns, 0)
  <2>1. ns \in Seq(Value) /\ (Clean => ns \in Seq(Items) /\ Ordered(ns, 0))
    BY <1>1, IdleFacts
  <2>. QED
    BY <2>1, LenProperties, EmptySeq DEF Value
<1>3. At(ns, 0) \in Value
  BY <1>2, AtTyped DEF Value
<1>4. /\ g \in FrameType /\ g.op = "pushpop" /\ g.left = 0 /\ g.array = items
      /\ g.out = v /\ g.at = "done"
  <2>1. Types /\ 0 \in Nat
    BY DEF Kept
  <2>2. e \in FrameType
    BY <1>2, <2>1, FrameTyped
  <2>3. e.op = "pushpop" /\ e.left = 0 /\ e.array = items /\ e.at = "done"
    BY DEF Frame
  <2> HIDE DEF e
  <2>. QED
    BY <1>2, <2>2, <2>3 DEF FrameType
<1> HIDE DEF g
<1>5. /\ f \in FrameType /\ f.op = "pushpop" /\ f.left = 0 /\ f.array = items /\ f.out = v
      /\ f.at \in {"done", "front"} /\ (f.at = "front" => Len(ns) > 0)
  <2>1. CASE ns = <<>>
    BY <1>4, <2>1
  <2>2. CASE ns # <<>>
    <3>1. /\ compared \in FrameType /\ compared.op = "pushpop" /\ compared.left = 0
          /\ compared.array = items /\ compared.out = v /\ compared.at = "front"
      BY <1>2, <1>3, <1>4 DEF FrameType
    <3> HIDE DEF compared
    <3>. QED
      BY <1>2, <2>2, <3>1
  <2>. QED
    BY <2>1, <2>2
<1> HIDE DEF f
<1>6. Sound(f, ns)
  <2>1. InRange(f, Len(ns))
    BY <1>5 DEF InRange, Sifting
  <2>2. Clean => InOrder(f, ns)
    BY <1>2, <1>5 DEF InOrder, Base, Sifting
  <2>. QED
    BY <1>2, <1>5, <2>1, <2>2 DEF Sound
<1>7. f.op = "pushpop" /\ f.array = items /\ Cost(f) = 0
  BY <1>5 DEF Cost
<1>8. /\ size' \in Nat
      /\ comparator.calls = {} => size' + 0 <= Len(ns)
      /\ comparator.calls \subseteq {"push"} /\ throws = 0 => size' + 0 = Len(ns)
      /\ comparator.calls = {"clear"} /\ throws = 0 => Len(ns) <= size' + 0
  <2>1. /\ size \in Nat
        /\ comparator.calls = {} => size <= Len(ns)
        /\ comparator.calls \subseteq {"push"} /\ throws = 0 => size = Len(ns)
        /\ comparator.calls = {"clear"} /\ throws = 0 => Len(ns) <= size
    BY <1>1, IdleFacts
  <2>2. size' = size /\ size' + 0 = size
    BY <1>1, <2>1
  <2>. QED
    BY <2>1, <2>2
<1>. QED
  BY <1>1, <1>6, <1>7, <1>8, BeginSound

LEMMA DueTyped ==
    ASSUME Types
    PROVE  Due \in Nat
<1>1. CASE frames = <<>>
  BY <1>1 DEF Due, Idle
<1>2. CASE frames # <<>>
  <2>1. Len(frames) \in Nat \ {0}
    BY <1>2, LenProperties, EmptySeq DEF Types
  <2>2. frames[1] \in FrameType
    BY <2>1, ElementOfSeq DEF Types
  <2>. QED
    BY <1>2, <2>1, <2>2 DEF Due, Idle, Cost, FrameType
<1>. QED
  BY <1>1, <1>2

(* The heap's new array is none that is held.                              *)
LEMMA ClearKeeps ==
    ASSUME Tame, Kept, Clear
    PROVE  Kept'
<1>1. Types /\ Stacked /\ Counted /\ (Clean => Sorted)
  BY DEF Kept
<1>2. /\ items' = CHOOSE h \in Handles : h \notin {items} \cup Held(frames)
      /\ arrays' = Collected(arrays, items', frames)
      /\ size' = 0 /\ frames' = frames /\ popped' = popped
      /\ comparator' = comparator /\ throws' = throws
  BY DEF Clear, history
<1>3. \/ frames = <<>>
      \/ /\ frames # <<>> /\ "clear" \in comparator.calls /\ comparator.calls \subseteq {"clear"}
         /\ Len(frames) = 1 /\ DOMAIN frames = {1} /\ MaxDepth >= 2 /\ frames[1].op # "from"
  <2> SUFFICES ASSUME frames # <<>>
               PROVE  /\ "clear" \in comparator.calls /\ comparator.calls \subseteq {"clear"}
                      /\ Len(frames) = 1 /\ DOMAIN frames = {1} /\ MaxDepth >= 2
                      /\ frames[1].op # "from"
    OBVIOUS
  <2>1. /\ "clear" \in comparator.calls /\ Len(frames) \in 1 .. MaxDepth - 1
        /\ frames[1].op # "from"
    BY DEF Clear, MayCall
  <2>2. comparator.calls \subseteq {"clear"}
    BY <2>1 DEF Tame
  <2>3. Len(frames) \in Nat \ {0} /\ DOMAIN frames = 1 .. Len(frames) /\ Len(frames) <= 1
    BY <1>1, <2>2, TopFacts DEF Stacked
  <2>4. Len(frames) = 1
    BY <2>3
  <2>5. DOMAIN frames = {1}
    BY <2>3, <2>4
  <2>6. MaxDepth >= 2
    BY <2>1, HeapAssumption
  <2>. QED
    BY <2>1, <2>2, <2>4, <2>5, <2>6
<1>4. items' \in Handles /\ items' \notin {items} \cup Held(frames)
  <2>1. \E h \in Handles : h \notin {items} \cup Held(frames)
    <3>1. CASE frames = <<>>
      <4>1. Held(frames) = {}
        BY <3>1 DEF Held
      <4>2. 1 \in Handles /\ 2 \in Handles
        BY HeapAssumption DEF Handles
      <4>. QED
        BY <4>1, <4>2
    <3>2. CASE frames # <<>>
      <4>1. Held(frames) = {frames[1].array}
        BY <1>3, <3>2 DEF Held
      <4>2. 1 \in Handles /\ 2 \in Handles /\ 3 \in Handles
        BY <1>3, <3>2, HeapAssumption DEF Handles
      <4>. QED
        BY <4>1, <4>2
    <3>. QED
      BY <3>1, <3>2
  <2>. QED
    BY <1>2, <2>1
<1>5. /\ \A h \in Handles : arrays'[h] = IF h \in {items'} \cup Held(frames) THEN arrays[h] ELSE <<>>
      /\ arrays'[items'] = <<>>
  <2>1. \A h \in Handles : arrays'[h] = IF h \in {items'} \cup Held(frames) THEN arrays[h] ELSE <<>>
    BY <1>2 DEF Collected
  <2>2. arrays[items'] = <<>>
    BY <1>1, <1>4 DEF Stacked
  <2>. QED
    BY <1>4, <2>1, <2>2
<1>6. Types'
  <2>1. \A h \in Handles : arrays'[h] \in Seq(Value)
    BY <1>1, <1>5, EmptySeq DEF Types
  <2>2. DOMAIN arrays' = Handles /\ arrays' = [h \in Handles |-> arrays'[h]]
    BY <1>2 DEF Collected
  <2>3. arrays' \in [Handles -> Seq(Value)]
    BY <2>1, <2>2
  <2>. QED
    BY <1>1, <1>2, <1>4, <2>3 DEF Types
<1>7. \A n \in DOMAIN frames : arrays'[frames[n].array] = arrays[frames[n].array]
  <2> TAKE n \in DOMAIN frames
  <2>1. frames[n].array \in Held(frames)
    BY DEF Held
  <2>2. frames[n].array \in Handles
    <3>1. Len(frames) \in Nat /\ DOMAIN frames = 1 .. Len(frames)
      BY <1>1, LenProperties DEF Types
    <3>2. frames[n] \in FrameType
      BY <1>1, <3>1, ElementOfSeq DEF Types
    <3>. QED
      BY <3>2 DEF FrameType
  <2>. QED
    BY <1>5, <2>1, <2>2
<1>8. Stacked'
  <2>1. \A n \in DOMAIN frames : InRange(frames[n], Len(arrays'[frames[n].array]))
    BY <1>1, <1>7 DEF Stacked
  <2>2. \A h \in Handles : h \notin {items'} \cup Held(frames) => arrays'[h] = <<>>
    BY <1>5
  <2>3. CASE frames = <<>>
    BY <1>1, <1>2, <2>1, <2>2, <2>3 DEF Stacked, Idle
  <2>4. CASE frames # <<>>
    <3>1. /\ comparator.calls # {} /\ ~(comparator.calls \subseteq {"push"})
          /\ frames[1].op # "from" /\ Len(frames) <= 1
      <4>1. "clear" \in comparator.calls /\ frames[1].op # "from" /\ Len(frames) = 1
        BY <1>3, <2>4
      <4>2. "clear" \notin {"push"} /\ 1 <= 1
        OBVIOUS
      <4>. QED
        BY <4>1, <4>2
    <3>2. \A n \in DOMAIN frames : ~(n > 1)
      BY <1>3, <2>4
    <3>. QED
      BY <1>2, <1>5, <2>1, <2>2, <2>4, <3>1, <3>2 DEF Stacked, Idle
  <2>. QED
    BY <2>3, <2>4
<1>9. Counted'
  <2>1. Due' = Due /\ Due \in Nat /\ (frames = <<>> => Due = 0)
    BY <1>1, <1>2, DueTyped DEF Due, Idle, Cost
  <2>2. Len(arrays'[items']) = 0
    BY <1>5, EmptySeq
  <2>3. comparator.calls \subseteq {"push"} => Due = 0
    BY <1>3, <2>1
  <2>4. 0 + Due = Due
    BY <2>1
  <2>5. Due >= 0
    BY <2>1
  <2>. QED
    BY <1>2, <2>1, <2>2, <2>3, <2>4, <2>5 DEF Counted
<1>10. (Clean => Sorted)'
  <2> SUFFICES ASSUME Clean PROVE Sorted'
    BY <1>2 DEF Clean
  <2>1. Sorted
    BY <1>1
  <2>2. \A h \in Handles : arrays'[h] \in Seq(Items)
    BY <1>5, <2>1, EmptySeq DEF Sorted
  <2>3. CASE frames = <<>>
    <3>1. Ordered(<<>>, 0)
      BY EmptySeq DEF Ordered
    <3>. QED
      BY <1>2, <1>5, <2>2, <2>3, <3>1 DEF Sorted, Idle
  <2>4. CASE frames # <<>>
    <3>1. Top' = Top
      BY <1>2 DEF Top
    <3>2. Ours' = Ours
      <4>1. Len(frames) \in DOMAIN frames
        BY <1>3, <2>4
      <4>2. Ours' = arrays'[Top.array]
        BY <3>1 DEF Ours
      <4>. QED
        BY <1>7, <4>1, <4>2 DEF Ours, Top
    <3>3. InOrder(Top, Ours)
      BY <2>1, <2>4 DEF Sorted, Idle
    <3>. QED
      BY <1>2, <2>2, <2>4, <3>1, <3>2, <3>3 DEF Sorted, Idle
  <2>. QED
    BY <2>3, <2>4
<1>. QED
  BY <1>6, <1>8, <1>9, <1>10 DEF Kept

-----------------------------------------------------------------------------
(* The sifts *)

(* What is known of the operation that takes a step.                       *)
LEMMA Underway ==
    ASSUME Kept, frames # <<>>
    PROVE  /\ Sound(Top, Ours) /\ Len(Ours) \in Nat
           /\ \A j \in 0 .. Len(Ours) - 1 : At(Ours, j) \in Value
           /\ \A j : At(Ours, j) \in Value
           /\ Clean => \A j \in 0 .. Len(Ours) - 1 : At(Ours, j) \in Items
<1>1. Types /\ Stacked /\ (Clean => Sorted)
  BY DEF Kept
<1>2. /\ Top \in FrameType /\ Top.array \in Handles
      /\ Ours \in Seq(Value) /\ InRange(Top, Len(Ours))
  BY <1>1, TopFacts
<1>3. Clean => Ours \in Seq(Items) /\ InOrder(Top, Ours)
  BY <1>1, <1>2 DEF Sorted, Ours, Idle
<1>4. Sound(Top, Ours)
  BY <1>2, <1>3 DEF Sound
<1>5. Len(Ours) \in Nat
  BY <1>2, LenProperties
<1>6. /\ \A j \in 0 .. Len(Ours) - 1 : At(Ours, j) \in Value
      /\ \A j : At(Ours, j) \in Value
  BY <1>2, AtTyped DEF Value
<1>7. Clean => \A j \in 0 .. Len(Ours) - 1 : At(Ours, j) \in Items
  BY <1>3, AtTyped
<1>. QED
  BY <1>4, <1>5, <1>6, <1>7

(* Lower makes room at the child c of the hole for the hole.               *)
LEMMA LowerKeeps ==
    ASSUME Kept, frames # <<>>, Top.at \in {"up", "right"},
           NEW c \in Nat, c = Top.child \/ c = Top.child + 1, c < Len(Ours),
           Clean => NotAbove(Ours, Top.i, At(Ours, c)), Lower(c)
    PROVE  Kept'
<1> DEFINE g == [Top EXCEPT !.at = "up", !.i = c, !.child = 2 * c + 1]
           b == Put(Ours, Top.i, At(Ours, c))
<1>1. Go(g, b)
  BY DEF Lower
<1>2. /\ Top \in FrameType /\ Ours \in Seq(Value) /\ InRange(Top, Len(Ours))
      /\ Clean => Ours \in Seq(Items) /\ InOrder(Top, Ours)
      /\ Len(Ours) \in Nat
  BY Underway DEF Sound
<1>3. /\ Top.i \in Nat /\ Top.i < Len(Ours) /\ Top.child = 2 * Top.i + 1
      /\ Top.end <= Len(Ours) /\ Top.start \in Nat
      /\ Top.op = "from" => Top.left <= Len(Ours)
      /\ Top.op \notin {"consume", "from"} => Top.left = 0
  BY <1>2 DEF InRange, FrameType, Sifting
<1>4. At(Ours, c) \in Value
  BY Underway
<1>5. b \in Seq(Value) /\ Len(b) = Len(Ours)
  <2>1. b \in Seq(Value) /\ IsPut(b, Ours, Top.i, At(Ours, c))
    BY <1>2, <1>3, <1>4, PutProperties
  <2>. QED
    BY <2>1 DEF IsPut
<1>6. /\ g \in FrameType /\ Alike(g, Top)
      /\ g.at = "up" /\ g.i = c /\ g.child = 2 * c + 1 /\ g.end = Top.end
      /\ g.start = Top.start /\ g.item = Top.item /\ g.op = Top.op /\ g.left = Top.left
  <2>1. 2 * c + 1 \in Nat
    OBVIOUS
  <2>. QED
    BY <1>2, <2>1 DEF FrameType, Alike, Sifting
<1> HIDE DEF b, g
<1>7. InRange(g, Len(b))
  BY <1>3, <1>5, <1>6 DEF InRange
<1>8. ASSUME Clean PROVE b \in Seq(Items) /\ InOrder(g, b)
  <2>1. /\ Ours \in Seq(Items) /\ Top.start = Base(Top) /\ Top.item \in Items
        /\ Descends(Top.i, Top.start) /\ HoleOrdered(Ours, Top.start, Top.i)
        /\ Top.end = Len(Ours)
    BY <1>2, <1>8 DEF InOrder, Sifting
  <2>2. At(Ours, c) \in Items
    BY <1>2, <1>8, Underway
  <2>3. b \in Seq(Items)
    BY <1>3, <2>1, <2>2, PutProperties DEF b
  <2>4. c = 2 * Top.i + 1 \/ c = 2 * Top.i + 2
    BY <1>3
  <2>5. HoleOrdered(b, Top.start, c)
    BY <1>3, <1>8, <2>1, <2>4, LowerKeepsOrder DEF b
  <2>6. Descends(c, Top.start)
    <3>1. Descends(2 * Top.i + 1, Top.start) /\ Descends(2 * Top.i + 2, Top.start)
      BY <1>3, <2>1, DescendsFacts
    <3>. QED
      BY <2>4, <3>1
  <2>7. Base(g) = Base(Top)
    BY <1>6 DEF Base
  <2>. QED
    BY <1>5, <1>6, <2>1, <2>3, <2>5, <2>6, <2>7 DEF InOrder
<1>9. Sound(g, b)
  BY <1>5, <1>6, <1>7, <1>8 DEF Sound
<1>. QED
  BY <1>1, <1>5, <1>6, <1>9, GoSound

LEMMA UpKeeps ==
    ASSUME Kept, Up
    PROVE  Kept'
<1>1. frames # <<>> /\ Top.at = "up"
  BY DEF Up, Running
<1>2. /\ Top \in FrameType /\ Ours \in Seq(Value) /\ InRange(Top, Len(Ours))
      /\ Clean => Ours \in Seq(Items) /\ InOrder(Top, Ours)
      /\ Len(Ours) \in Nat /\ \A j : At(Ours, j) \in Value
  BY <1>1, Underway DEF Sound
<1>3. /\ Top.i \in Nat /\ Top.i < Len(Ours) /\ Top.child = 2 * Top.i + 1 /\ Top.child \in Nat
      /\ Top.end <= Len(Ours) /\ Top.end \in Nat /\ Top.start \in Nat
      /\ Top.op = "from" => Top.left <= Len(Ours)
      /\ Top.op \notin {"consume", "from"} => Top.left = 0
      /\ Top.item \in Value
  BY <1>1, <1>2 DEF InRange, FrameType, Sifting
<1>4. ASSUME Clean
      PROVE  /\ Ours \in Seq(Items) /\ Top.start = Base(Top) /\ Top.item \in Items
             /\ Descends(Top.i, Top.start) /\ HoleOrdered(Ours, Top.start, Top.i)
             /\ Top.end = Len(Ours)
  BY <1>1, <1>2, <1>4 DEF InOrder, Sifting
<1>5. CASE Top.child + 1 < Top.end
  <2> DEFINE g == [Top EXCEPT !.at = "right", !.a = At(Ours, Top.child), !.b = At(Ours, Top.child + 1)]
  <2>1. Go(g, Ours)
    BY <1>5 DEF Up
  <2>2. /\ g \in FrameType /\ Alike(g, Top)
        /\ g.at = "right" /\ g.i = Top.i /\ g.child = Top.child /\ g.end = Top.end
        /\ g.start = Top.start /\ g.item = Top.item /\ g.op = Top.op /\ g.left = Top.left
        /\ g.a = At(Ours, Top.child) /\ g.b = At(Ours, Top.child + 1)
    BY <1>2 DEF FrameType, Alike, Sifting
  <2> HIDE DEF g
  <2>3. InRange(g, Len(Ours))
    BY <1>3, <1>5, <2>2 DEF InRange
  <2>4. ASSUME Clean PROVE InOrder(g, Ours)
    <3>1. Base(g) = Base(Top)
      BY <2>2 DEF Base
    <3>. QED
      BY <1>4, <2>2, <2>4, <3>1 DEF InOrder, Sifting
  <2>5. Sound(g, Ours)
    BY <1>2, <2>2, <2>3, <2>4 DEF Sound
  <2>. QED
    BY <1>1, <2>1, <2>2, <2>5, GoSound
<1>6. CASE ~(Top.child + 1 < Top.end) /\ Top.child < Top.end
  <2>1. Lower(Top.child)
    BY <1>6 DEF Up
  <2>2. Top.child < Len(Ours)
    BY <1>3, <1>6
  <2>3. ASSUME Clean PROVE NotAbove(Ours, Top.i, At(Ours, Top.child))
    <3> SUFFICES ASSUME NEW j \in 1 .. Len(Ours) - 1, Parent(j) = Top.i
                 PROVE  At(Ours, Top.child) <= At(Ours, j)
      BY DEF NotAbove
    <3>1. j = 2 * Parent(j) + 1 \/ j = 2 * Parent(j) + 2
      BY <1>2, ParentFacts
    <3>2. j = Top.child
      BY <1>3, <1>4, <1>6, <2>3, <3>1
    <3>3. At(Ours, j) \in Items
      BY <1>1, <2>3, Underway
    <3>4. At(Ours, j) \in Int
      BY <3>3, HeapAssumption
    <3>. QED
      BY <3>2, <3>4
  <2>. QED
    BY <1>1, <1>3, <2>1, <2>2, <2>3, LowerKeeps
<1>7. CASE ~(Top.child < Top.end)
  <2> DEFINE b == Put(Ours, Top.i, Top.item)
             g == SiftDown(Top, b, Top.start, Top.i)
  <2>1. Go(g, b)
    <3>1. ~(Top.child + 1 < Top.end)
      BY <1>3, <1>7
    <3>. QED
      BY <1>7, <3>1 DEF Up
  <2>2. b \in Seq(Value) /\ Len(b) = Len(Ours) /\ At(b, Top.i) = Top.item
    <3>1. b \in Seq(Value) /\ IsPut(b, Ours, Top.i, Top.item)
      BY <1>2, <1>3, PutProperties
    <3>2. Top.i \in 0 .. Len(Ours) - 1
      BY <1>2, <1>3
    <3> HIDE DEF b
    <3>. QED
      BY <3>1, <3>2 DEF IsPut
  <2>3. ASSUME Clean
        PROVE  /\ b \in Seq(Items) /\ HoleOrdered(b, Top.start, Top.i)
               /\ NotAbove(b, Top.i, Top.item)
    <3>1. Ours \in Seq(Items) /\ Top.item \in Items /\ HoleOrdered(Ours, Top.start, Top.i)
      BY <1>4, <2>3
    <3>2. 2 * Top.i + 1 >= Len(Ours)
      BY <1>3, <1>4, <1>7, <2>3
    <3>3. b \in Seq(Items)
      BY <1>3, <3>1, PutProperties
    <3>. QED
      BY <1>3, <3>1, <3>2, <3>3, FillKeepsOrder
  <2> HIDE DEF b
  <2>4. Top.i < Len(b) /\ (Top.op = "from" => Top.left <= Len(b))
    BY <1>3, <2>2
  <2>5. Clean => /\ b \in Seq(Items) /\ Top.start = Base(Top)
                 /\ Descends(Top.i, Top.start) /\ HoleOrdered(b, Top.start, Top.i)
                 /\ NotAbove(b, Top.i, At(b, Top.i))
    BY <1>4, <2>2, <2>3
  <2>6. Sound(g, b) /\ Alike(g, Top)
    BY <1>2, <1>3, <2>2, <2>4, <2>5, SiftDownSound
  <2>. QED
    BY <1>1, <2>1, <2>2, <2>6, GoSound
<1>. QED
  BY <1>5, <1>6, <1>7

(* Of two children that are there the lesser one is found.                 *)
LEMMA AnswerRightKeeps ==
    ASSUME Kept, AnswerRight
    PROVE  Kept'
<1> DEFINE c == IF NotLess(Top.a, Top.b) THEN Top.child + 1 ELSE Top.child
<1>1. frames # <<>> /\ Top.at = "right" /\ Lower(c)
  BY DEF AnswerRight, Running
<1>2. /\ Top \in FrameType /\ Ours \in Seq(Value) /\ InRange(Top, Len(Ours))
      /\ Clean => Ours \in Seq(Items) /\ InOrder(Top, Ours)
      /\ Len(Ours) \in Nat
  BY <1>1, Underway DEF Sound
<1>3. /\ Top.i \in Nat /\ Top.child = 2 * Top.i + 1 /\ Top.child \in Nat
      /\ Top.child + 1 < Len(Ours) /\ Top.child + 1 \in Nat
  BY <1>1, <1>2 DEF InRange, FrameType
<1>4. /\ c \in Nat /\ c < Len(Ours)
      /\ c = Top.child \/ c = Top.child + 1
  BY <1>2, <1>3
<1>5. ASSUME Clean PROVE NotAbove(Ours, Top.i, At(Ours, c))
  <2>1. Top.a = At(Ours, Top.child) /\ Top.b = At(Ours, Top.child + 1)
    BY <1>1, <1>2, <1>5 DEF InOrder
  <2>2. /\ Top.a \in Int /\ Top.b \in Int /\ Top.a # None /\ Top.b # None
    <3>1. Top.child \in 0 .. Len(Ours) - 1 /\ Top.child + 1 \in 0 .. Len(Ours) - 1
      BY <1>2, <1>3
    <3>2. Top.a \in Items /\ Top.b \in Items
      BY <1>1, <1>5, <2>1, <3>1, Underway
    <3>. QED
      BY <3>2, HeapAssumption
  <2>3. At(Ours, c) <= Top.a /\ At(Ours, c) <= Top.b
    <3>1. CASE NotLess(Top.a, Top.b)
      <4>1. At(Ours, c) = Top.b
        BY <2>1, <3>1
      <4>2. ~(Top.a < Top.b)
        BY <2>2, <3>1 DEF NotLess, Less
      <4>. QED
        BY <2>2, <4>1, <4>2
    <3>2. CASE ~NotLess(Top.a, Top.b)
      <4>1. At(Ours, c) = Top.a
        BY <2>1, <3>2
      <4>2. Top.a < Top.b
        BY <2>2, <3>2 DEF NotLess, Less
      <4>. QED
        BY <2>2, <4>1, <4>2
    <3>. QED
      BY <3>1, <3>2
  <2> HIDE DEF c
  <2> SUFFICES ASSUME NEW j \in 1 .. Len(Ours) - 1, Parent(j) = Top.i
               PROVE  At(Ours, c) <= At(Ours, j)
    BY DEF NotAbove
  <2>4. j = 2 * Parent(j) + 1 \/ j = 2 * Parent(j) + 2
    BY <1>2, ParentFacts
  <2>5. j = Top.child \/ j = Top.child + 1
    BY <1>3, <2>4
  <2>. QED
    BY <2>1, <2>3, <2>5
<1> HIDE DEF c
<1>. QED
  BY <1>1, <1>4, <1>5, LowerKeeps

(* The item settles in the hole.                                           *)
LEMMA SettleKeeps ==
    ASSUME Kept, frames # <<>>, Top.at \in {"down", "parent"},
           Go([Top EXCEPT !.at = "done"], Put(Ours, Top.i, Top.item)),
           Clean /\ Top.i > Top.start => At(Ours, Parent(Top.i)) <= Top.item
    PROVE  Kept'
<1> DEFINE g == [Top EXCEPT !.at = "done"]
           b == Put(Ours, Top.i, Top.item)
<1>1. Go(g, b)
  OBVIOUS
<1>2. /\ Top \in FrameType /\ Ours \in Seq(Value) /\ InRange(Top, Len(Ours))
      /\ Clean => Ours \in Seq(Items) /\ InOrder(Top, Ours)
      /\ Len(Ours) \in Nat
  BY Underway DEF Sound
<1>3. /\ Top.i \in Nat /\ Top.i < Len(Ours) /\ Top.start \in Nat /\ Top.item \in Value
      /\ Top.op = "from" => Top.left <= Len(Ours)
      /\ Top.op \notin {"consume", "from"} => Top.left = 0
  BY <1>2 DEF InRange, FrameType, Sifting
<1>4. b \in Seq(Value) /\ Len(b) = Len(Ours)
  <2>1. b \in Seq(Value) /\ IsPut(b, Ours, Top.i, Top.item)
    BY <1>2, <1>3, PutProperties
  <2>. QED
    BY <2>1 DEF IsPut
<1>5. g \in FrameType /\ Alike(g, Top) /\ g.at = "done" /\ g.op = Top.op /\ g.left = Top.left
  BY <1>2 DEF FrameType, Alike
<1>6. ASSUME Clean PROVE b \in Seq(Items) /\ Ordered(b, Base(Top))
  <2>1. /\ Ours \in Seq(Items) /\ Top.start = Base(Top) /\ Top.item \in Items
        /\ Descends(Top.i, Top.start) /\ HoleOrdered(Ours, Top.start, Top.i)
        /\ NotAbove(Ours, Top.i, Top.item)
    BY <1>2, <1>6 DEF InOrder, Sifting
  <2>2. b \in Seq(Items)
    BY <1>3, <2>1, PutProperties
  <2>3. Ordered(b, Top.start)
    BY <1>3, <1>6, <2>1, SettleKeepsOrder
  <2>. QED
    BY <2>1, <2>2, <2>3
<1> HIDE DEF b, g
<1>7. InRange(g, Len(b))
  BY <1>3, <1>4, <1>5 DEF InRange, Sifting
<1>8. Clean => InOrder(g, b)
  <2>1. Base(g) = Base(Top)
    BY <1>5 DEF Base
  <2>. QED
    BY <1>5, <1>6, <2>1 DEF InOrder, Sifting
<1>9. Sound(g, b)
  BY <1>4, <1>5, <1>6, <1>7, <1>8 DEF Sound
<1>. QED
  BY <1>1, <1>4, <1>5, <1>9, GoSound

LEMMA DownKeeps ==
    ASSUME Kept, Down
    PROVE  Kept'
<1>1. frames # <<>> /\ Top.at = "down"
  BY DEF Down, Running
<1>2. /\ Top \in FrameType /\ Ours \in Seq(Value) /\ InRange(Top, Len(Ours))
      /\ Clean => Ours \in Seq(Items) /\ InOrder(Top, Ours)
      /\ Len(Ours) \in Nat /\ \A j : At(Ours, j) \in Value
  BY <1>1, Underway DEF Sound
<1>3. CASE Top.i > Top.start
  <2> DEFINE g == [Top EXCEPT !.at = "parent", !.a = Top.item, !.b = At(Ours, Parent(Top.i))]
  <2>1. Go(g, Ours)
    BY <1>3 DEF Down
  <2>2. Top.item \in Value
    BY <1>2 DEF FrameType
  <2>3. /\ g \in FrameType /\ Alike(g, Top)
        /\ g.at = "parent" /\ g.i = Top.i /\ g.start = Top.start /\ g.item = Top.item
        /\ g.op = Top.op /\ g.left = Top.left
        /\ g.a = Top.item /\ g.b = At(Ours, Parent(Top.i))
    BY <1>2, <2>2 DEF FrameType, Alike, Sifting
  <2> HIDE DEF g
  <2>4. InRange(g, Len(Ours))
    BY <1>1, <1>2, <1>3, <2>3 DEF InRange, Sifting
  <2>5. ASSUME Clean PROVE InOrder(g, Ours)
    <3>1. Base(g) = Base(Top)
      BY <2>3 DEF Base
    <3>2. /\ Top.start = Base(Top) /\ Top.item \in Items
          /\ Descends(Top.i, Top.start) /\ HoleOrdered(Ours, Top.start, Top.i)
          /\ NotAbove(Ours, Top.i, Top.item)
      BY <1>1, <1>2, <2>5 DEF InOrder, Sifting
    <3>. QED
      BY <2>3, <3>1, <3>2 DEF InOrder, Sifting
  <2>6. Sound(g, Ours)
    BY <1>2, <2>3, <2>4, <2>5 DEF Sound
  <2>. QED
    BY <1>1, <2>1, <2>3, <2>6, GoSound
<1>4. CASE ~(Top.i > Top.start)
  <2>1. Go([Top EXCEPT !.at = "done"], Put(Ours, Top.i, Top.item))
    BY <1>4 DEF Down
  <2>. QED
    BY <1>1, <1>4, <2>1, SettleKeeps
<1>. QED
  BY <1>3, <1>4

LEMMA AnswerParentKeeps ==
    ASSUME Kept, AnswerParent
    PROVE  Kept'
<1>1. frames # <<>> /\ Top.at = "parent"
  BY DEF AnswerParent, Running
<1>2. /\ Top \in FrameType /\ Ours \in Seq(Value) /\ InRange(Top, Len(Ours))
      /\ Clean => Ours \in Seq(Items) /\ InOrder(Top, Ours)
      /\ Len(Ours) \in Nat
  BY <1>1, Underway DEF Sound
<1>3. /\ Top.i \in Nat /\ Top.i < Len(Ours) /\ Top.start \in Nat /\ Top.i > Top.start
      /\ Top.b \in Value
      /\ Top.op = "from" => Top.left <= Len(Ours)
      /\ Top.op \notin {"consume", "from"} => Top.left = 0
  BY <1>1, <1>2 DEF InRange, FrameType, Sifting
<1>4. Parent(Top.i) \in Nat /\ Parent(Top.i) < Top.i /\ Parent(Top.i) \in 0 .. Len(Ours) - 1
  <2>1. Top.i # 0
    BY <1>3
  <2>2. Parent(Top.i) \in Nat /\ Parent(Top.i) < Top.i
    BY <1>3, <2>1, ChildFacts
  <2>. QED
    BY <1>2, <1>3, <2>2
<1>5. ASSUME Clean
      PROVE  /\ Ours \in Seq(Items) /\ Top.start = Base(Top) /\ Top.item \in Items
             /\ Descends(Top.i, Top.start) /\ HoleOrdered(Ours, Top.start, Top.i)
             /\ NotAbove(Ours, Top.i, Top.item)
             /\ Top.a = Top.item /\ Top.b = At(Ours, Parent(Top.i))
             /\ Top.a \in Int /\ Top.b \in Int /\ Top.a # None /\ Top.b # None
  <2>1. /\ Ours \in Seq(Items) /\ Top.start = Base(Top) /\ Top.item \in Items
        /\ Descends(Top.i, Top.start) /\ HoleOrdered(Ours, Top.start, Top.i)
        /\ NotAbove(Ours, Top.i, Top.item)
        /\ Top.a = Top.item /\ Top.b = At(Ours, Parent(Top.i))
    BY <1>1, <1>2, <1>5 DEF InOrder, Sifting
  <2>2. Top.b \in Items
    BY <1>1, <1>4, <1>5, <2>1, Underway
  <2>. QED
    BY <2>1, <2>2, HeapAssumption
<1>6. CASE Less(Top.a, Top.b)
  <2> DEFINE g == [Top EXCEPT !.at = "down", !.i = Parent(Top.i)]
             b == Put(Ours, Top.i, Top.b)
  <2>1. Go(g, b)
    BY <1>6 DEF AnswerParent
  <2>2. b \in Seq(Value) /\ Len(b) = Len(Ours)
    <3>1. b \in Seq(Value) /\ IsPut(b, Ours, Top.i, Top.b)
      BY <1>2, <1>3, PutProperties
    <3>. QED
      BY <3>1 DEF IsPut
  <2>3. /\ g \in FrameType /\ Alike(g, Top)
        /\ g.at = "down" /\ g.i = Parent(Top.i) /\ g.start = Top.start /\ g.item = Top.item
        /\ g.op = Top.op /\ g.left = Top.left
    BY <1>2, <1>4 DEF FrameType, Alike, Sifting
  <2>4. ASSUME Clean
        PROVE  /\ b \in Seq(Items) /\ HoleOrdered(b, Top.start, Parent(Top.i))
               /\ NotAbove(b, Parent(Top.i), Top.item) /\ Descends(Parent(Top.i), Top.start)
    <3>1. Top.b \in Items
      BY <1>1, <1>4, <1>5, <2>4, Underway
    <3>2. b \in Seq(Items)
      BY <1>3, <1>5, <2>4, <3>1, PutProperties
    <3>3. Top.item < At(Ours, Parent(Top.i))
      BY <1>5, <1>6, <2>4 DEF Less
    <3>4. /\ HoleOrdered(Put(Ours, Top.i, At(Ours, Parent(Top.i))), Top.start, Parent(Top.i))
          /\ NotAbove(Put(Ours, Top.i, At(Ours, Parent(Top.i))), Parent(Top.i), Top.item)
      BY <1>3, <1>5, <2>4, <3>3, RaiseKeepsOrder
    <3>5. Descends(Parent(Top.i), Top.start)
      BY <1>3, <1>5, <2>4, DescendsFacts
    <3>6. b = Put(Ours, Top.i, At(Ours, Parent(Top.i)))
      BY <1>5, <2>4
    <3>. QED
      BY <3>2, <3>4, <3>5, <3>6
  <2> HIDE DEF b, g
  <2>5. InRange(g, Len(b))
    BY <1>2, <1>3, <1>4, <2>2, <2>3 DEF InRange, Sifting
  <2>6. Clean => InOrder(g, b)
    <3>1. Base(g) = Base(Top)
      BY <2>3 DEF Base
    <3>. QED
      BY <1>5, <2>3, <2>4, <3>1 DEF InOrder, Sifting
  <2>7. Sound(g, b)
    BY <2>2, <2>3, <2>4, <2>5, <2>6 DEF Sound
  <2>. QED
    BY <1>1, <2>1, <2>2, <2>3, <2>7, GoSound
<1>7. CASE ~Less(Top.a, Top.b)
  <2>1. Go([Top EXCEPT !.at = "done"], Put(Ours, Top.i, Top.item))
    BY <1>7 DEF AnswerParent
  <2>2. ASSUME Clean PROVE At(Ours, Parent(Top.i)) <= Top.item
    <3>1. ~(Top.a < Top.b)
      BY <1>5, <1>7, <2>2 DEF Less
    <3>. QED
      BY <1>5, <2>2, <3>1
  <2>. QED
    BY <1>1, <2>1, <2>2, SettleKeeps
<1>. QED
  BY <1>6, <1>7

LEMMA AnswerFrontKeeps ==
    ASSUME Kept, AnswerFront
    PROVE  Kept'
<1>1. frames # <<>> /\ Top.at = "front"
  BY DEF AnswerFront, Running
<1>2. /\ Top \in FrameType /\ Ours \in Seq(Value) /\ InRange(Top, Len(Ours))
      /\ Clean => Ours \in Seq(Items) /\ InOrder(Top, Ours)
      /\ Len(Ours) \in Nat /\ \A j : At(Ours, j) \in Value
  BY <1>1, Underway DEF Sound
<1>3. Top.op = "pushpop" /\ Top.left = 0 /\ 0 < Len(Ours) /\ Top.out \in Value /\ Base(Top) = 0
  BY <1>1, <1>2 DEF InRange, FrameType, Base
<1>4. Clean => Ours \in Seq(Items) /\ Ordered(Ours, 0) /\ Top.out \in Items
  BY <1>1, <1>2, <1>3 DEF InOrder
<1>5. CASE Less(Top.a, Top.b)
  <2> DEFINE given == Put(Ours, 0, Top.out)
             e == [Top EXCEPT !.out = At(Ours, 0)]
             g == SiftUp(e, given, 0)
  <2>1. Go(g, given)
    BY <1>5 DEF AnswerFront
  <2>2. e \in FrameType /\ Alike(e, Top) /\ e.op = "pushpop" /\ e.left = 0
    BY <1>2, <1>3 DEF FrameType, Alike
  <2>3. /\ given \in Seq(Value) /\ Len(given) = Len(Ours)
        /\ \A j \in 0 .. Len(Ours) - 1 : j # 0 => At(given, j) = At(Ours, j)
    <3>1. given \in Seq(Value) /\ IsPut(given, Ours, 0, Top.out)
      BY <1>2, <1>3, PutProperties
    <3>. QED
      BY <3>1 DEF IsPut
  <2>4. ASSUME Clean PROVE given \in Seq(Items) /\ HoleOrdered(given, 0, 0)
    <3>1. given \in Seq(Items)
      BY <1>3, <1>4, <2>4, PutProperties
    <3> HIDE DEF given
    <3>2. Len(given) \in Nat /\ Len(given) <= Len(Ours)
          /\ \A j \in 0 .. Len(given) - 1 : j # 0 => At(given, j) = At(Ours, j)
      BY <1>2, <2>3
    <3>. QED
      BY <1>2, <1>4, <2>4, <3>1, <3>2, RootHole
  <2> HIDE DEF given, e
  <2>5. Sound(g, given) /\ Alike(g, e)
    <3>1. Base(e) = 0 /\ 0 < Len(given)
      BY <1>3, <2>2, <2>3 DEF Base
    <3>. QED
      BY <2>2, <2>3, <2>4, <3>1, SiftUpSound
  <2>6. Alike(g, Top)
    BY <2>2, <2>5 DEF Alike
  <2>. QED
    BY <1>1, <2>1, <2>3, <2>5, <2>6, GoSound
<1>6. CASE ~Less(Top.a, Top.b)
  <2> DEFINE g == [Top EXCEPT !.at = "done"]
  <2>1. Go(g, Ours)
    BY <1>6 DEF AnswerFront
  <2>2. g \in FrameType /\ Alike(g, Top) /\ g.at = "done" /\ g.op = "pushpop" /\ g.left = 0
    BY <1>2, <1>3 DEF FrameType, Alike
  <2> HIDE DEF g
  <2>3. Sound(g, Ours)
    <3>1. InRange(g, Len(Ours))
      BY <2>2 DEF InRange, Sifting
    <3>2. Clean => InOrder(g, Ours)
      BY <1>4, <2>2 DEF InOrder, Base, Sifting
    <3>. QED
      BY <1>2, <2>2, <3>1, <3>2 DEF Sound
  <2>. QED
    BY <1>1, <2>1, <2>2, <2>3, GoSound
<1>. QED
  BY <1>5, <1>6

-----------------------------------------------------------------------------
(* After the sift *)

(* consume and heapify have another round; neither is nested.              *)
LEMMA AgainKeeps ==
    ASSUME Kept, frames # <<>>, Top.op \in {"from", "consume"}, Top.left # 0,
           NEW f, NEW a, Sound(f, a), f.op = Top.op, f.array = Top.array, f.left = Top.left - 1,
           frames' = Resume(f), arrays' = [arrays EXCEPT ![Top.array] = a],
           UNCHANGED <<items, size, history>>, popped' \in Value,
           Top.op = "from" => a = Ours,
           Top.op = "consume" => Len(a) = IF Len(Ours) = 0 THEN 0 ELSE Len(Ours) - 1
    PROVE  Kept'
<1>1. Types /\ Stacked /\ Counted /\ (Clean => Sorted)
  BY DEF Kept
<1>2. /\ Top \in FrameType /\ Top.array \in Handles /\ Ours \in Seq(Value)
      /\ Len(Ours) \in Nat /\ Top.left \in Nat \ {0}
      /\ f \in FrameType /\ a \in Seq(Value) /\ Len(a) \in Nat
  BY <1>1, TopFacts, LenProperties DEF Sound, FrameType
<1>3. Len(frames) = 1 /\ DOMAIN frames = {1} /\ Top = frames[1] /\ frames \in Seq(FrameType)
  <2>1. /\ Len(frames) \in Nat \ {0} /\ DOMAIN frames = 1 .. Len(frames)
        /\ frames \in Seq(FrameType)
    BY <1>1, TopFacts DEF Types
  <2>2. ~(Len(frames) > 1)
    BY <1>1, <2>1 DEF Stacked, Top
  <2>3. Len(frames) = 1
    BY <2>1, <2>2
  <2>. QED
    BY <2>1, <2>3 DEF Top
<1>4. /\ frames' \in Seq(FrameType) /\ Len(frames') = 1 /\ DOMAIN frames' = {1}
      /\ frames'[1] = f /\ Top' = f /\ ~Idle' /\ ~Idle
  <2>1. frames' = [frames EXCEPT ![1] = f]
    BY <1>3 DEF Resume
  <2>2. 1 \in 1 .. Len(frames)
    BY <1>3
  <2>3. frames' \in Seq(FrameType) /\ Len(frames') = 1 /\ frames'[1] = f
    BY <1>2, <1>3, <2>1, <2>2, ExceptSeq
  <2>4. DOMAIN frames' = {1}
    BY <1>3, <2>1
  <2>5. frames' # <<>>
    <3>1. Len(frames') = 0 <=> frames' = <<>>
      BY <2>3, EmptySeq
    <3>. QED
      BY <2>3, <3>1
  <2>. QED
    BY <2>3, <2>4, <2>5 DEF Top, Idle
<1>5. /\ arrays' \in [Handles -> Seq(Value)] /\ arrays'[Top.array] = a
      /\ \A h \in Handles : h # Top.array => arrays'[h] = arrays[h]
      /\ items' = items /\ size' = size /\ items \in Handles
      /\ comparator' = comparator /\ throws' = throws
  BY <1>1, <1>2 DEF Types, history
<1>6. Types'
  BY <1>1, <1>4, <1>5 DEF Types
<1>7. Top.array # items => arrays[items] = <<>> /\ arrays'[items] = <<>>
  BY <1>1, <1>3, <1>4, <1>5 DEF Stacked
<1>8. Top.op = "from" => Top.array # items /\ size = 0
  BY <1>1, <1>3, <1>4 DEF Stacked
<1>9. Stacked'
  <2>1. Held(frames) = {Top.array} /\ Held(frames') = {Top.array}
    BY <1>3, <1>4 DEF Held
  <2>2. \A h \in Handles : h \notin {items} \cup Held(frames') => arrays'[h] = <<>>
    BY <1>1, <1>5, <2>1 DEF Stacked
  <2>3. InRange(f, Len(a))
    BY DEF Sound
  <2>4. ~(1 > 1) /\ 1 <= 1
    OBVIOUS
  <2>5. frames[1].op # "from" /\ comparator.calls \subseteq {"push"} => frames[1].array = items
    BY <1>1, <1>3, <1>4 DEF Stacked
  <2>. QED
    BY <1>3, <1>4, <1>5, <1>7, <1>8, <2>2, <2>3, <2>4, <2>5 DEF Stacked
<1>10. Counted'
  <2>1. Due = Cost(Top) /\ Due' = Cost(f) /\ Cost(Top) \in Nat /\ Cost(f) \in Nat
    <3>1. Cost(Top) \in Nat /\ Cost(f) \in Nat
      BY <1>2 DEF Cost, FrameType
    <3>2. Due = 1 - 1 + Cost(Top)
      BY <1>3, <1>4 DEF Due
    <3>3. Due' = 1 - 1 + Cost(f)
      BY <1>4 DEF Due, Cost
    <3>. QED
      BY <3>1, <3>2, <3>3
  <2>2. size \in Nat
    BY <1>1 DEF Types
  <2>3. CASE Top.op = "from"
    <3>1. Due' = Due
      BY <2>1, <2>3 DEF Cost
    <3>2. arrays'[items] = arrays[items]
      BY <1>5, <1>8, <2>3
    <3>. QED
      BY <1>1, <1>5, <3>1, <3>2 DEF Counted
  <2>4. CASE Top.op = "consume"
    <3>1. Due = Top.left /\ Due' = Top.left - 1
      BY <2>1, <2>4 DEF Cost
    <3>2. /\ Len(arrays[items]) \in Nat
          /\ Len(arrays'[items]) = IF Len(arrays[items]) = 0 THEN 0 ELSE Len(arrays[items]) - 1
      <4>1. CASE Top.array = items
        <5>1. Ours = arrays[items] /\ arrays'[items] = a
          BY <1>5, <4>1 DEF Ours
        <5>. QED
          BY <1>2, <2>4, <5>1
      <4>2. CASE Top.array # items
        BY <1>7, <4>2, EmptySeq
      <4>. QED
        BY <4>1, <4>2
    <3>3. size + Due <= Len(arrays[items]) => size + Due' <= Len(arrays'[items])
      BY <1>2, <2>2, <3>1, <3>2
    <3>4. Len(arrays[items]) <= size + Due => Len(arrays'[items]) <= size + Due'
      BY <1>2, <2>2, <3>1, <3>2
    <3>5. size + Due = Len(arrays[items]) => size + Due' = Len(arrays'[items])
      BY <1>2, <2>2, <3>1, <3>2
    <3>. QED
      BY <1>1, <1>5, <3>3, <3>4, <3>5 DEF Counted
  <2>. QED
    BY <2>3, <2>4
<1>11. (Clean => Sorted)'
  <2> SUFFICES ASSUME Clean PROVE Sorted'
    BY <1>5 DEF Clean
  <2>1. a \in Seq(Items) /\ InOrder(f, a)
    BY DEF Sound
  <2>2. \A h \in Handles : arrays'[h] \in Seq(Items)
    BY <1>1, <1>5, <2>1 DEF Sorted
  <2>3. Ours' = a
    <3>1. Ours' = arrays'[f.array]
      BY <1>4 DEF Ours
    <3>. QED
      BY <1>5, <3>1
  <2>. QED
    BY <1>4, <2>1, <2>2, <2>3 DEF Sorted
<1>. QED
  BY <1>6, <1>9, <1>10, <1>11 DEF Kept

(* An operation ends, with its result or with what its comparator threw.   *)
LEMMA ReturnSound ==
    ASSUME Kept, frames # <<>>, frames' = Return, arrays' = Collected(arrays, items', Return),
           items' = items \/ (Top.op = "from" /\ items' = Top.array),
           comparator' = comparator, size' \in Nat, popped' \in Value, throws' \in Nat
    PROVE  /\ Types' /\ Stacked'
           /\ arrays'[items'] = arrays[items']
           /\ \A h \in Handles : arrays'[h] \in {arrays[h], <<>>}
           /\ Len(frames) = 1 => Idle'
           /\ Len(frames) > 1 => /\ Top.op = "push" /\ ~Idle' /\ frames'[1] = frames[1]
                                 /\ Len(frames') = Len(frames) - 1
<1> DEFINE m == Len(frames)
<1>1. Types /\ Stacked
  BY DEF Kept
<1>2. m \in Nat \ {0} /\ DOMAIN frames = 1 .. m /\ frames \in Seq(FrameType)
  BY <1>1, TopFacts DEF Types
<1>3. /\ frames' \in Seq(FrameType) /\ Len(frames') = m - 1 /\ DOMAIN frames' = 1 .. m - 1
      /\ \A n \in 1 .. m - 1 : frames'[n] = frames[n]
      /\ frames' = <<>> <=> m = 1
  <2>1. frames' = Pulled(frames)
    BY DEF Return, Pulled
  <2>2. /\ Pulled(frames) \in Seq(FrameType)
        /\ Pulled(frames) = <<>> <=> m \in {0, 1}
        /\ Len(Pulled(frames)) = IF m = 0 THEN 0 ELSE m - 1
        /\ \A j \in 0 .. m - 2 : At(Pulled(frames), j) = At(frames, j)
    BY <1>2, PulledAt
  <2>3. Len(frames') = m - 1 /\ (frames' = <<>> <=> m = 1)
    BY <1>2, <2>1, <2>2
  <2>4. ASSUME NEW n \in 1 .. m - 1 PROVE frames'[n] = frames[n]
    <3>1. n - 1 \in 0 .. m - 2 /\ n - 1 \in 0 .. m - 1 - 1 /\ n - 1 \in 0 .. m - 1 /\ (n - 1) + 1 = n
      BY <1>2
    <3>2. At(frames', n - 1) = At(frames, n - 1)
      BY <2>1, <2>2, <3>1
    <3>. QED
      BY <2>3, <3>1, <3>2 DEF At
  <2>5. DOMAIN frames' = 1 .. m - 1
    BY <2>1, <2>2, <2>3, LenProperties
  <2>. QED
    BY <2>1, <2>2, <2>3, <2>4, <2>5
<1>4. Top.array \in Handles /\ items \in Handles /\ items' \in Handles
  BY <1>1, TopFacts DEF Types
<1>5. \A h \in Handles :
          arrays'[h] = IF h \in {items'} \cup Held(frames') THEN arrays[h] ELSE <<>>
  BY DEF Collected
<1>6. arrays'[items'] = arrays[items'] /\ \A h \in Handles : arrays'[h] \in {arrays[h], <<>>}
  BY <1>4, <1>5
<1>7. Types'
  <2>1. \A h \in Handles : arrays'[h] \in Seq(Value)
    BY <1>1, <1>5, EmptySeq DEF Types
  <2>2. arrays' = [h \in Handles |-> arrays'[h]]
    BY DEF Collected
  <2>3. arrays' \in [Handles -> Seq(Value)]
    BY <2>1, <2>2
  <2>. QED
    BY <1>1, <1>3, <1>4, <2>3 DEF Types
<1>8. \A h \in Handles : h \notin {items'} \cup Held(frames') => arrays'[h] = <<>>
  BY <1>5
<1>9. ASSUME m > 1
      PROVE  /\ Top.op = "push" /\ ~Idle' /\ frames'[1] = frames[1] /\ items' = items
             /\ frames[1].op # "from"
  <2>1. Top.op = "push"
    BY <1>1, <1>2, <1>9 DEF Stacked, Top
  <2>2. 1 \in 1 .. m - 1
    BY <1>2, <1>9
  <2>3. frames[1].op # "from"
    BY <1>1, <1>2, <1>9 DEF Stacked, Idle
  <2>. QED
    BY <1>2, <1>3, <1>9, <2>1, <2>2, <2>3 DEF Idle
<1>10. Stacked'
  <2>1. CASE m = 1
    <3>1. frames' = <<>> /\ Len(frames') = 0 /\ DOMAIN frames' = {}
      BY <1>3, <2>1
    <3>. QED
      BY <1>8, <3>1 DEF Stacked, Idle
  <2>2. CASE m > 1
    <3>1. ASSUME NEW n \in DOMAIN frames'
          PROVE  /\ frames'[n] = frames[n] /\ n \in DOMAIN frames
                 /\ arrays'[frames'[n].array] = arrays[frames[n].array]
      <4>1. frames'[n] = frames[n] /\ n \in 1 .. m
        BY <1>2, <1>3
      <4>2. frames[n] \in FrameType /\ frames'[n].array \in Held(frames')
        BY <1>2, <4>1, ElementOfSeq DEF Held
      <4>3. frames[n].array \in Handles
        BY <4>2 DEF FrameType
      <4>. QED
        BY <1>2, <1>5, <4>1, <4>2, <4>3
    <3>2. \A n \in DOMAIN frames' : InRange(frames'[n], Len(arrays'[frames'[n].array]))
      BY <1>1, <3>1 DEF Stacked
    <3>3. \A n \in DOMAIN frames' : n > 1 => frames'[n].op = "push"
      BY <1>1, <3>1 DEF Stacked
    <3>4. comparator.calls \subseteq {"clear"} => Len(frames') <= 1
      BY <1>1, <1>2, <1>3 DEF Stacked
    <3>5. comparator.calls \subseteq {"push"} => \A n \in DOMAIN frames' : frames'[n].array = items
      BY <1>1, <1>9, <2>2, <3>1 DEF Stacked, Idle
    <3>6. frames'[1].array # items => arrays'[items] = <<>>
      <4>1. frames'[1].array = frames[1].array /\ items' = items
        BY <1>9, <2>2
      <4>2. frames[1].array # items => arrays[items] = <<>>
        BY <1>1 DEF Stacked, Idle
      <4>. QED
        BY <1>6, <4>1, <4>2
    <3>7. frames'[1].op # "from" /\ items' = items
      BY <1>9, <2>2
    <3>. QED
      BY <1>8, <3>2, <3>3, <3>4, <3>5, <3>6, <3>7 DEF Stacked
  <2>. QED
    BY <1>2, <2>1, <2>2
<1>11. m = 1 => Idle'
  BY <1>3 DEF Idle
<1>. QED
  BY <1>3, <1>6, <1>7, <1>9, <1>10, <1>11

LEMMA FinishKeeps ==
    ASSUME Kept, Finish
    PROVE  Kept'
<1>1. frames # <<>> /\ Top.at = "done"
  BY DEF Finish, Running
<1>2. Types /\ Stacked /\ Counted /\ (Clean => Sorted)
  BY DEF Kept
<1>3. /\ Top \in FrameType /\ Top.array \in Handles /\ Ours \in Seq(Value)
      /\ InRange(Top, Len(Ours)) /\ Len(Ours) \in Nat
      /\ Clean => Ours \in Seq(Items) /\ InOrder(Top, Ours)
      /\ \A j : At(Ours, j) \in Value
  BY <1>1, <1>2, Underway, TopFacts DEF Sound
<1>4. Top.left \in Nat /\ Top.out \in Value /\ (Clean => Ordered(Ours, Base(Top)))
  BY <1>1, <1>3 DEF FrameType, InOrder
<1>5. /\ popped' = IF Top.op \in {"push", "from"} THEN popped ELSE Top.out
      /\ size' = IF Top.op = "push" THEN size + 1
                 ELSE IF Top.op = "from" /\ Top.left = 0 THEN Len(Ours) ELSE size
      /\ items' = IF Top.op = "from" /\ Top.left = 0 THEN Top.array ELSE items
      /\ comparator' = comparator /\ throws' = throws
  BY DEF Finish, history
<1>6. size \in Nat /\ size' \in Nat /\ popped' \in Value /\ throws \in Nat
  BY <1>2, <1>3, <1>4, <1>5 DEF Types
<1>7. CASE Top.left = 0
  <2>1. frames' = Return /\ arrays' = Collected(arrays, items', Return)
    BY <1>7 DEF Finish
  <2>2. items' = items \/ (Top.op = "from" /\ items' = Top.array)
    BY <1>5
  <2>3. /\ Types' /\ Stacked'
        /\ arrays'[items'] = arrays[items']
        /\ \A h \in Handles : arrays'[h] \in {arrays[h], <<>>}
        /\ Len(frames) = 1 => Idle'
        /\ Len(frames) > 1 => /\ Top.op = "push" /\ ~Idle' /\ frames'[1] = frames[1]
                              /\ Len(frames') = Len(frames) - 1
    BY <1>1, <1>5, <1>6, <2>1, <2>2, ReturnSound
  <2>4. Len(frames) \in Nat \ {0}
    BY <1>1, <1>2, TopFacts
  <2>5. Len(frames) = 1 => Top = frames[1]
    BY DEF Top
  <2>6. Counted'
    <3>1. CASE Top.op = "from"
      <4>1. Len(frames) = 1
        BY <2>3, <2>4, <3>1
      <4>2. Due' = 0 /\ size' = Len(Ours) /\ arrays'[items'] = Ours
        BY <1>5, <1>7, <2>3, <3>1, <4>1 DEF Due, Ours
      <4>3. size' + Due' = Len(arrays'[items']) /\ size' + Due' <= Len(arrays'[items'])
            /\ Len(arrays'[items']) <= size' + Due'
        BY <1>3, <4>2
      <4>. QED
        BY <4>3 DEF Counted
    <3>2. CASE Top.op # "from"
      <4>1. arrays'[items'] = arrays[items] /\ items' = items
        BY <1>5, <2>3, <3>2
      <4>2. size' + Due' = size + Due
        <5>1. CASE Len(frames) = 1
          <6>1. Due = 1 - 1 + Cost(Top) /\ Due' = 0
            BY <1>1, <2>3, <2>5, <5>1 DEF Due, Idle
          <6>2. Cost(Top) = IF Top.op = "push" THEN 1 ELSE 0
            BY <1>7 DEF Cost
          <6>. QED
            BY <1>5, <1>6, <3>2, <6>1, <6>2
        <5>2. CASE Len(frames) > 1
          <6>1. /\ Due = Len(frames) - 1 + Cost(frames[1])
                /\ Due' = Len(frames) - 1 - 1 + Cost(frames[1])
            BY <1>1, <2>3, <5>2 DEF Due, Idle, Cost
          <6>2. Cost(frames[1]) \in Nat
            <7>1. frames[1] \in FrameType
              BY <1>2, <2>4, ElementOfSeq DEF Types
            <7>. QED
              BY <7>1 DEF Cost, FrameType
          <6>3. size' = size + 1
            BY <1>5, <2>3, <5>2
          <6>. QED
            BY <1>6, <2>4, <6>1, <6>2, <6>3
        <5>. QED
          <6>1. Len(frames) = 1 \/ Len(frames) > 1
            <7>1. PICK k \in Nat \ {0} : k = Len(frames)
              BY <2>4
            <7>2. k = 1 \/ k > 1
              OBVIOUS
            <7>. QED
              BY <7>1, <7>2
          <6>. QED
            BY <5>1, <5>2, <6>1
      <4>. QED
        BY <1>2, <1>5, <4>1, <4>2 DEF Counted
    <3>. QED
      BY <3>1, <3>2
  <2>7. (Clean => Sorted)'
    <3> SUFFICES ASSUME Clean PROVE Sorted'
      BY <1>5 DEF Clean
    <3>1. Len(frames) = 1 /\ Idle' /\ Top = frames[1]
      BY <1>1, <1>2, <2>3, <2>5, TopFacts
    <3>2. Sorted
      BY <1>2
    <3>3. \A h \in Handles : arrays'[h] \in Seq(Items)
      BY <2>3, <3>2, EmptySeq DEF Sorted
    <3>4. Ordered(Ours, 0)
      BY <1>4, <1>7 DEF Base
    <3>5. Ordered(arrays'[items'], 0)
      <4>1. CASE items' = Top.array
        BY <2>3, <3>4, <4>1 DEF Ours
      <4>2. CASE items' # Top.array
        <5>1. items' = items /\ frames[1].array # items
          BY <2>2, <3>1, <4>2
        <5>2. arrays'[items'] = <<>>
          BY <1>1, <1>2, <2>3, <5>1 DEF Stacked, Idle
        <5>3. Ordered(<<>>, 0)
          BY EmptySeq DEF Ordered
        <5>. QED
          BY <5>2, <5>3
      <4>. QED
        BY <4>1, <4>2
    <3>. QED
      BY <3>1, <3>3, <3>5 DEF Sorted
  <2>. QED
    BY <2>3, <2>6, <2>7 DEF Kept
<1>8. CASE Top.left # 0
  <2> DEFINE e == [Top EXCEPT !.left = @ - 1]
  <2>1. Top.op \in {"from", "consume"}
    BY <1>3, <1>8 DEF InRange
  <2>2. Top.left - 1 \in Nat
    BY <1>4, <1>8
  <2>3. /\ e \in FrameType /\ e.op = Top.op /\ e.array = Top.array /\ e.left = Top.left - 1
    BY <1>3, <2>2 DEF FrameType
  <2>4. UNCHANGED <<items, size, history>>
    BY <1>5, <1>8, <2>1 DEF history
  <2>5. CASE Top.op = "from"
    <3> DEFINE f == SiftUp(e, Ours, Top.left - 1)
    <3>1. frames' = Resume(f) /\ arrays' = arrays
      BY <1>8, <2>5 DEF Finish
    <3>2. Top.left <= Len(Ours) /\ Top.left - 1 < Len(Ours) /\ e.left <= Len(Ours)
      BY <1>3, <1>4, <2>3, <2>5 DEF InRange
    <3>3. Base(e) = Top.left - 1
      BY <2>3, <2>5 DEF Base
    <3>4. ASSUME Clean
          PROVE  Ours \in Seq(Items) /\ HoleOrdered(Ours, Top.left - 1, Top.left - 1)
      <4>1. Ordered(Ours, Top.left)
        BY <1>4, <2>5, <3>4 DEF Base
      <4>2. PICK r \in Nat : r = Top.left - 1
        BY <2>2
      <4>3. Ordered(Ours, r + 1)
        BY <1>4, <4>1, <4>2
      <4>4. Len(Ours) <= Len(Ours)
        BY <1>3
      <4>5. HoleOrdered(Ours, r, r)
        BY <1>3, <4>3, <4>4, RootHole
      <4>. QED
        BY <1>3, <3>4, <4>2, <4>5
    <3> HIDE DEF e
    <3>5. Sound(f, Ours) /\ Alike(f, e)
      <4>1. e.op \notin {"consume", "from"} => e.left = 0
        BY <2>3, <2>5
      <4>. QED
        BY <1>3, <2>2, <2>3, <3>2, <3>3, <3>4, <4>1, SiftUpSound
    <3>6. arrays' = [arrays EXCEPT ![Top.array] = Ours]
      BY <1>2, <1>3, <3>1 DEF Ours, Types
    <3>7. f.op = Top.op /\ f.array = Top.array /\ f.left = Top.left - 1
      BY <2>3, <3>5 DEF Alike
    <3> HIDE DEF f
    <3>. QED
      BY <1>1, <1>6, <1>8, <2>1, <2>4, <2>5, <3>1, <3>5, <3>6, <3>7, AgainKeeps
  <2>6. CASE Top.op = "consume"
    <3> DEFINE again == Popping(e, Ours)
    <3>1. frames' = Resume(again.frame) /\ arrays' = [arrays EXCEPT ![Top.array] = again.array]
      BY <1>8, <2>6 DEF Finish
    <3>2. Clean => Ours \in Seq(Items) /\ Ordered(Ours, 0)
      BY <1>3, <1>4, <2>6 DEF Base
    <3> HIDE DEF e
    <3>3. /\ Sound(again.frame, again.array) /\ Alike(again.frame, e)
          /\ Len(again.array) = IF Len(Ours) = 0 THEN 0 ELSE Len(Ours) - 1
      BY <1>3, <2>3, <2>6, <3>2, PoppingSound
    <3> HIDE DEF again
    <3>4. /\ again.frame.op = Top.op /\ again.frame.array = Top.array
          /\ again.frame.left = Top.left - 1 /\ Top.op # "from"
      BY <2>3, <2>6, <3>3 DEF Alike
    <3>. QED
      BY <1>1, <1>6, <1>8, <2>1, <2>4, <3>1, <3>3, <3>4, AgainKeeps
  <2>. QED
    BY <2>1, <2>5, <2>6
<1>. QED
  BY <1>7, <1>8

LEMMA ThrowKeeps ==
    ASSUME Tame, Kept, Throw
    PROVE  Kept'
<1>1. /\ frames # <<>> /\ frames' = Return /\ arrays' = Collected(arrays, items', Return)
      /\ items' = items /\ size' = size /\ popped' = popped
      /\ comparator' = comparator /\ throws' = throws + 1
  BY DEF Throw, Running
<1>2. Types /\ Stacked /\ Counted
  BY DEF Kept
<1>3. /\ size' \in Nat /\ popped' \in Value /\ throws' \in Nat /\ throws' # 0
  BY <1>1, <1>2 DEF Types
<1>4. /\ Types' /\ Stacked'
      /\ arrays'[items'] = arrays[items']
      /\ Len(frames) = 1 => Idle'
  BY <1>1, <1>3, ReturnSound
<1>5. Counted'
  <2>1. ASSUME comparator.calls = {} PROVE size' + Due' <= Len(arrays'[items'])
    <3>1. Len(frames) \in Nat \ {0}
      BY <1>1, <1>2, TopFacts
    <3>2. Len(frames) <= 1
      BY <1>2, <2>1 DEF Stacked
    <3>3. Due' = 0
      <4>1. PICK k \in Nat \ {0} : k = Len(frames)
        BY <3>1
      <4>2. k = 1
        BY <3>2, <4>1
      <4>. QED
        BY <1>4, <4>1, <4>2 DEF Due
    <3>4. Due \in Nat /\ size \in Nat /\ size + Due <= Len(arrays[items])
      BY <1>2, <2>1, DueTyped DEF Types, Counted
    <3>5. Len(arrays[items]) \in Nat
      BY <1>2, LenProperties DEF Types
    <3>6. size + 0 <= Len(arrays[items])
      BY <3>4, <3>5
    <3>. QED
      BY <1>1, <1>4, <3>3, <3>6
  <2>. QED
    BY <1>1, <1>3, <2>1 DEF Counted
<1>6. ~Clean'
  BY <1>3 DEF Clean
<1>. QED
  BY <1>4, <1>5, <1>6 DEF Kept

-----------------------------------------------------------------------------
(* The theorems *)

LEMMA InitKeeps ==
    ASSUME Init
    PROVE  Kept
<1>1. /\ comparator \in Comparators /\ throws = 0 /\ size = 0 /\ popped = None /\ items = 1
      /\ items \in Handles /\ 2 \in Handles
  BY HeapAssumption DEF Init, Handles
<1>2. CASE arrays = [h \in Handles |-> <<>>] /\ frames = <<>>
  <2>1. \A S : <<>> \in Seq(S)
    BY EmptySeq
  <2>2. frames \in Seq(FrameType) /\ Len(frames) = 0 /\ DOMAIN frames = {}
    BY <1>2, <2>1
  <2>3. Types
    BY <1>1, <1>2, <2>1, <2>2 DEF Types, Value
  <2>4. Stacked
    BY <1>2, <2>2 DEF Stacked, Idle
  <2>5. Len(arrays[items]) = 0 /\ Due = 0
    BY <1>1, <1>2 DEF Due, Idle
  <2>6. Counted
    BY <1>1, <2>5 DEF Counted
  <2>7. Ordered(<<>>, 0)
    BY EmptySeq DEF Ordered
  <2>8. Sorted
    BY <1>1, <1>2, <2>1, <2>7 DEF Sorted, Idle
  <2>. QED
    BY <2>3, <2>4, <2>6, <2>8 DEF Kept
<1>3. ASSUME NEW n \in 2 .. MaxLength, NEW given \in [1 .. n -> Items],
             arrays = [h \in Handles |-> IF h = 2 THEN given ELSE <<>>],
             frames = <<[Frame("from", None, n \div 2) EXCEPT !.array = 2]>>
      PROVE  Kept
  <2> DEFINE e == Frame("from", None, n \div 2)
             f == [e EXCEPT !.array = 2]
  <2>1. n \in Nat /\ n >= 2 /\ n \div 2 \in Nat /\ n \div 2 <= n
    BY HeapAssumption
  <2>2. f \in FrameType /\ f.op = "from" /\ f.array = 2 /\ f.left = n \div 2 /\ f.at = "done"
    BY <1>1, <2>1 DEF Frame, FrameType, Value, Sifting
  <2> HIDE DEF f
  <2>3. /\ frames = <<f>> /\ frames \in Seq(FrameType) /\ Len(frames) = 1 /\ DOMAIN frames = {1}
        /\ frames[1] = f /\ ~Idle /\ Top = f
    <3>1. frames = <<f>>
      BY <1>3 DEF f
    <3>. QED
      BY <2>2, <3>1 DEF Idle, Top
  <2>4. /\ given \in Seq(Items) /\ given \in Seq(Value) /\ Len(given) = n
    <3>1. given \in [1 .. n -> Items] /\ given \in [1 .. n -> Value]
      BY <1>3 DEF Value
    <3>2. given \in Seq(Items)
      BY <2>1, <3>1, SeqDef
    <3>3. given \in Seq(Value)
      BY <2>1, <3>1, SeqDef
    <3>4. Len(given) \in Nat /\ DOMAIN given = 1 .. Len(given)
      BY <3>2, LenProperties
    <3>. QED
      BY <2>1, <3>1, <3>2, <3>3, <3>4
  <2>5. /\ arrays[2] = given /\ arrays[1] = <<>>
        /\ \A h \in Handles : h # 2 => arrays[h] = <<>>
        /\ Ours = given
    BY <1>1, <1>3, <2>2, <2>3 DEF Ours
  <2>6. Types
    <3>1. \A h \in Handles : arrays[h] \in Seq(Value)
      BY <2>4, <2>5, EmptySeq
    <3>2. arrays \in [Handles -> Seq(Value)]
      BY <1>3, <3>1
    <3>. QED
      BY <1>1, <2>3, <3>2 DEF Types, Value
  <2>7. Stacked
    <3>1. InRange(f, Len(given))
      BY <2>1, <2>2, <2>4 DEF InRange, Sifting
    <3>2. Held(frames) = {2}
      BY <2>2, <2>3 DEF Held
    <3>. QED
      BY <1>1, <2>2, <2>3, <2>5, <3>1, <3>2 DEF Stacked
  <2>8. Counted
    <3>1. Cost(f) = 0
      BY <2>2 DEF Cost
    <3>2. Due = 0
      BY <2>3, <3>1 DEF Due
    <3>3. Len(arrays[items]) = 0
      BY <1>1, <2>5
    <3>. QED
      BY <1>1, <3>2, <3>3 DEF Counted
  <2>9. Ordered(given, n \div 2)
    <3>1. ASSUME NEW j \in 1 .. n - 1 PROVE ~(Parent(j) >= n \div 2)
      BY <2>1 DEF Parent
    <3>. QED
      BY <2>4, <3>1 DEF Ordered
  <2>10. Sorted
    <3>1. \A h \in Handles : arrays[h] \in Seq(Items)
      BY <2>4, <2>5, EmptySeq
    <3>2. InOrder(Top, Ours)
      BY <2>2, <2>3, <2>5, <2>9 DEF InOrder, Base, Sifting
    <3>. QED
      BY <2>3, <3>1, <3>2 DEF Sorted
  <2>. QED
    BY <2>6, <2>7, <2>8, <2>10 DEF Kept
<1>. QED
  BY <1>2, <1>3 DEF Init

LEMMA NextKeeps ==
    ASSUME IInv, [Next]_vars
    PROVE  IInv'
<1>1. comparator' = comparator
  BY DEF Next, vars, history, Push, Pop, Replace, Pushpop, Consume, Clear,
         Up, AnswerRight, Down, AnswerParent, AnswerFront, Finish, Throw, Lower, Go
<1>2. Tame' <=> Tame
  BY <1>1 DEF Tame
<1> SUFFICES ASSUME Tame PROVE Kept'
  BY <1>2 DEF IInv
<1>3. Kept
  BY DEF IInv
<1>4. ASSUME NEW v \in Items, Push(v) PROVE Kept'
  BY <1>3, <1>4, PushKeeps
<1>5. ASSUME NEW v \in Items, Replace(v) PROVE Kept'
  BY <1>3, <1>5, ReplaceKeeps
<1>6. ASSUME NEW v \in Items, Pushpop(v) PROVE Kept'
  BY <1>3, <1>6, PushpopKeeps
<1>7. CASE Pop
  BY <1>3, <1>7, PopKeeps
<1>8. CASE Consume
  BY <1>3, <1>8, ConsumeKeeps
<1>9. CASE Clear
  BY <1>3, <1>9, ClearKeeps
<1>10. CASE Up
  BY <1>3, <1>10, UpKeeps
<1>11. CASE AnswerRight
  BY <1>3, <1>11, AnswerRightKeeps
<1>12. CASE Down
  BY <1>3, <1>12, DownKeeps
<1>13. CASE AnswerParent
  BY <1>3, <1>13, AnswerParentKeeps
<1>14. CASE AnswerFront
  BY <1>3, <1>14, AnswerFrontKeeps
<1>15. CASE Finish
  BY <1>3, <1>15, FinishKeeps
<1>16. CASE Throw
  BY <1>3, <1>16, ThrowKeeps
<1>17. CASE UNCHANGED vars
  BY <1>3, <1>17 DEF vars, history, Kept, Types, Stacked, Counted, Clean, Sorted, Due, Idle,
                     Top, Ours, Held, Cost
<1>. QED
  BY <1>4, <1>5, <1>6, <1>7, <1>8, <1>9, <1>10, <1>11, <1>12, <1>13, <1>14, <1>15, <1>16, <1>17
     DEF Next

LEMMA Invariant == Spec => []IInv
<1>1. Init => IInv
  BY InitKeeps DEF IInv
<1>2. IInv /\ [Next]_vars => IInv'
  BY NextKeeps
<1>. QED
  BY <1>1, <1>2, PTL DEF Spec

(* Between the operations the array of structures/heap.rs is a heap,       *)
(* without holes, whatever the items are and whatever a comparator cleared *)
(* while it was asked, until one throws: of push, pop, replace, pushpop,   *)
(* consume and from_items none leaves an item below its parent.            *)
THEOREM OrderHolds == Spec => []HeapOrdered
<1>1. IInv => HeapOrdered
  <2> SUFFICES ASSUME IInv, comparator.calls \subseteq {"clear"}, throws = 0, Idle,
                      NEW i \in 0 .. Len(arrays[items]) - 1
               PROVE  /\ At(arrays[items], i) # None
                      /\ i > 0 => ~Less(At(arrays[items], i), At(arrays[items], Parent(i)))
    BY DEF HeapOrdered
  <2>1. Tame /\ Clean /\ frames = <<>>
    BY DEF Tame, Clean, Idle
  <2>2. /\ arrays[items] \in Seq(Items) /\ Ordered(arrays[items], 0)
        /\ Len(arrays[items]) \in Nat
    BY <2>1, IdleFacts, LenProperties DEF IInv
  <2>3. \A j \in 0 .. Len(arrays[items]) - 1 : At(arrays[items], j) \in Items
    BY <2>2, AtTyped
  <2>4. At(arrays[items], i) # None
    BY <2>3, HeapAssumption
  <2>5. ASSUME i > 0
        PROVE  ~Less(At(arrays[items], i), At(arrays[items], Parent(i)))
    <3>1. i \in 1 .. Len(arrays[items]) - 1
      BY <2>2, <2>5
    <3>2. Parent(i) \in 0 .. Len(arrays[items]) - 1
      BY <2>2, <3>1, ParentFacts
    <3>3. At(arrays[items], Parent(i)) <= At(arrays[items], i)
      BY <2>2, <3>1, <3>2 DEF Ordered
    <3>4. At(arrays[items], i) \in Int /\ At(arrays[items], Parent(i)) \in Int
      BY <2>3, <3>2, HeapAssumption
    <3>. QED
      BY <3>3, <3>4 DEF Less
  <2>. QED
    BY <2>4, <2>5
<1>. QED
  BY <1>1, Invariant, PTL

(* The size the heap keeps beside its array (structures/heap.rs, size) is  *)
(* never ahead of it when comparators only answer or throw; it is exact    *)
(* when they also push, at any depth and in the middle of a consume, and   *)
(* never behind when they clear, as long as none throws.                   *)
THEOREM SizeCorrect == Spec => []SizeCounts
<1>1. IInv => SizeCounts
  <2> SUFFICES ASSUME IInv, Idle
               PROVE  /\ comparator.calls = {} => size <= Len(arrays[items])
                      /\ comparator.calls \subseteq {"push"} /\ throws = 0 =>
                             size = Len(arrays[items])
                      /\ comparator.calls = {"clear"} /\ throws = 0 =>
                             Len(arrays[items]) <= size
    BY DEF SizeCounts
  <2>1. frames = <<>>
    BY DEF Idle
  <2>2. CASE Tame
    BY <2>1, <2>2, IdleFacts DEF IInv
  <2>3. CASE ~Tame
    BY <2>3 DEF Tame
  <2>. QED
    BY <2>2, <2>3
<1>. QED
  BY <1>1, Invariant, PTL

-----------------------------------------------------------------------------
(* The priority queue *)

One(u, v) == IF u = v THEN 1 ELSE 0

FilledBy(f, a) == IF f.at \in {"done", "front"} THEN a ELSE Put(a, f.i, f.item)

Holding(f, a, v) == Count(v, FilledBy(f, a)) + (One(f.out, v) - One(f.given, v))

Bag(a) == [v \in Items |-> Count(v, a)]

Contents(f, a) == [v \in Items |-> Holding(f, a, v)]

Shown == IF Pure THEN popped ELSE None

LeastIn(c, u) == u \in Items /\ c[u] > 0 /\ \A w \in Items : c[w] > 0 => u <= w

(* What the operation f on the array a is going to hand out, and was       *)
(* given; c is the content of the queue.                                   *)
Hands(f, a, c) ==
    /\ f.op = "push" => f.given \in Items /\ f.out = None
    /\ f.op = "from" => f.given = None /\ f.out = None
    /\ f.op \in {"pop", "consume"} =>
           /\ f.given = None
           /\ LeastIn(c, f.out) \/ (f.out = None /\ \A w \in Items : ~(c[w] > 0))
    /\ f.op = "replace" => f.given \in Items /\ LeastIn(c, f.out)
    /\ f.op = "pushpop" =>
           /\ f.given \in Items
           /\ IF f.at = "front"
              THEN f.out = f.given /\ f.a = At(a, 0) /\ f.b = f.given
              ELSE \/ LeastIn(c, f.out) /\ f.out < f.given
                   \/ f.out = f.given /\ \A w \in Items : c[w] > 0 => ~(w < f.given)

Handed ==
    /\ Pure => throws = 0
    /\ Pure /\ ~Idle => Hands(Top, Ours, content)

Elsewhere(v, a, i) == {n \in DOMAIN a : n # i /\ a[n] = v}

LEMMA CountSplit ==
    ASSUME NEW V, NEW a \in Seq(V), NEW v
    PROVE  /\ Count(v, a) \in Nat
           /\ Count(v, a) = 0 <=> \A n \in DOMAIN a : a[n] # v
           /\ \A i \in DOMAIN a :
                  Count(v, a) = Cardinality(Elsewhere(v, a, i)) + One(a[i], v)
<1> DEFINE S == {n \in DOMAIN a : a[n] = v}
<1>1. Len(a) \in Nat /\ DOMAIN a = 1 .. Len(a)
  BY LenProperties
<1>2. IsFiniteSet(1 .. Len(a))
  BY <1>1, FS_Interval
<1>3. IsFiniteSet(S)
  BY <1>1, <1>2, FS_Subset
<1>4. Count(v, a) = Cardinality(S)
  BY DEF Count
<1>5. Cardinality(S) \in Nat /\ (Cardinality(S) = 0 <=> S = {})
  BY <1>3, FS_CardinalityType, FS_EmptySet
<1>6. ASSUME NEW i \in DOMAIN a
      PROVE  Cardinality(S) = Cardinality(Elsewhere(v, a, i)) + One(a[i], v)
  <2> DEFINE R == Elsewhere(v, a, i)
  <2>1. IsFiniteSet(R)
    <3>1. R \subseteq S
      BY DEF Elsewhere
    <3>. QED
      BY <1>3, <3>1, FS_Subset
  <2>2. Cardinality(R) \in Nat
    BY <2>1, FS_CardinalityType
  <2>3. CASE a[i] = v
    <3>1. S = R \cup {i} /\ i \notin R
      BY <1>6, <2>3 DEF Elsewhere
    <3> HIDE DEF S, R
    <3>2. Cardinality(R \cup {i}) = Cardinality(R) + 1
      BY <2>1, <3>1, FS_AddElement
    <3>3. Cardinality(S) = Cardinality(R) + 1
      BY <3>1, <3>2
    <3>. QED
      BY <2>3, <3>3 DEF One, R
  <2>4. CASE a[i] # v
    <3>1. S = R
      BY <2>4 DEF Elsewhere
    <3> HIDE DEF S, R
    <3>2. Cardinality(S) = Cardinality(R) + 0
      BY <2>2, <3>1
    <3>. QED
      BY <2>4, <3>2 DEF One, R
  <2>. QED
    BY <2>3, <2>4
<1> HIDE DEF S
<1>7. S = {} <=> \A n \in DOMAIN a : a[n] # v
  BY DEF S
<1>. QED
  BY <1>4, <1>5, <1>6, <1>7

LEMMA OneTyped == \A u, v : One(u, v) \in 0 .. 1
  BY DEF One

LEMMA CountPut ==
    ASSUME NEW V, NEW a \in Seq(V), NEW i \in Nat, i < Len(a), NEW w \in V, NEW v
    PROVE  /\ Count(v, Put(a, i, w)) \in Nat /\ Count(v, a) \in Nat
           /\ Count(v, Put(a, i, w)) + One(At(a, i), v) = Count(v, a) + One(w, v)
<1> DEFINE b == Put(a, i, w)
<1>1. b \in Seq(V) /\ IsPut(b, a, i, w)
  BY PutProperties
<1> HIDE DEF b
<1>2. /\ Len(a) \in Nat /\ DOMAIN a = 1 .. Len(a) /\ DOMAIN b = 1 .. Len(a) /\ Len(b) = Len(a)
      /\ i + 1 \in DOMAIN a /\ i + 1 \in DOMAIN b /\ i \in 0 .. Len(a) - 1
  <2>1. Len(a) \in Nat /\ DOMAIN a = 1 .. Len(a) /\ DOMAIN b = 1 .. Len(b) /\ Len(b) = Len(a)
    BY <1>1, LenProperties DEF IsPut
  <2>. QED
    BY <2>1
<1>3. ASSUME NEW n \in DOMAIN a PROVE b[n] = IF n = i + 1 THEN w ELSE a[n]
  <2>1. n - 1 \in 0 .. Len(a) - 1 /\ (n - 1) + 1 = n /\ (n - 1 = i <=> n = i + 1)
    BY <1>2
  <2>2. At(b, n - 1) = IF n - 1 = i THEN w ELSE At(a, n - 1)
    BY <1>1, <2>1 DEF IsPut
  <2>3. At(b, n - 1) = b[n] /\ At(a, n - 1) = a[n]
    BY <1>2, <2>1 DEF At
  <2>. QED
    BY <2>1, <2>2, <2>3
<1>4. Elsewhere(v, b, i + 1) = Elsewhere(v, a, i + 1)
  BY <1>2, <1>3 DEF Elsewhere
<1>5. b[i + 1] = w /\ a[i + 1] = At(a, i)
  BY <1>2, <1>3 DEF At
<1>6. Count(v, b) \in Nat /\ Count(v, a) \in Nat
  BY <1>1, CountSplit
<1>7. Count(v, b) = Cardinality(Elsewhere(v, a, i + 1)) + One(w, v)
  BY <1>1, <1>2, <1>4, <1>5, CountSplit
<1>8. Count(v, a) = Cardinality(Elsewhere(v, a, i + 1)) + One(At(a, i), v)
  BY <1>2, <1>5, CountSplit
<1>9. Cardinality(Elsewhere(v, a, i + 1)) \in Int
  <2>1. Elsewhere(v, a, i + 1) \subseteq 1 .. Len(a)
    BY <1>2 DEF Elsewhere
  <2>2. IsFiniteSet(1 .. Len(a))
    BY <1>2, FS_Interval
  <2>3. IsFiniteSet(Elsewhere(v, a, i + 1))
    BY <2>1, <2>2, FS_Subset
  <2>. QED
    BY <2>3, FS_CardinalityType
<1>10. One(w, v) \in Int /\ One(At(a, i), v) \in Int
  BY OneTyped
<1>11. Count(v, b) + One(At(a, i), v) = Count(v, a) + One(w, v)
  BY <1>7, <1>8, <1>9, <1>10
<1>. QED
  BY <1>6, <1>11 DEF b

LEMMA CountAppend ==
    ASSUME NEW V, NEW a \in Seq(V), NEW w \in V, NEW v
    PROVE  Count(v, a) \in Nat /\ Count(v, Append(a, w)) = Count(v, a) + One(w, v)
<1> DEFINE b == Append(a, w)
<1>1. /\ b \in Seq(V) /\ Len(a) \in Nat /\ DOMAIN a = 1 .. Len(a) /\ DOMAIN b = 1 .. Len(a) + 1
      /\ b[Len(a) + 1] = w /\ \A n \in 1 .. Len(a) : b[n] = a[n]
  <2>1. /\ b \in Seq(V) /\ Len(b) = Len(a) + 1 /\ b[Len(a) + 1] = w
        /\ \A n \in 1 .. Len(a) : b[n] = a[n]
    BY AppendProperties
  <2> HIDE DEF b
  <2>2. Len(a) \in Nat /\ DOMAIN a = 1 .. Len(a) /\ DOMAIN b = 1 .. Len(b)
    BY <2>1, LenProperties
  <2>. QED
    BY <2>1, <2>2
<1> HIDE DEF b
<1>2. Elsewhere(v, b, Len(a) + 1) = {n \in DOMAIN a : a[n] = v}
  <2>1. \A n : n \in 1 .. Len(a) <=> n \in 1 .. Len(a) + 1 /\ n # Len(a) + 1
    BY <1>1
  <2>. QED
    BY <1>1, <2>1 DEF Elsewhere
<1>3. Count(v, a) = Cardinality(Elsewhere(v, b, Len(a) + 1))
  BY <1>2 DEF Count
<1>4. Len(a) + 1 \in DOMAIN b
  BY <1>1
<1>5. Count(v, b) = Count(v, a) + One(w, v)
  BY <1>1, <1>3, <1>4, CountSplit
<1>6. Count(v, a) \in Nat
  BY CountSplit
<1>. QED
  BY <1>5, <1>6 DEF b

LEMMA CountPulled ==
    ASSUME NEW V, NEW a \in Seq(V), a # <<>>, NEW v
    PROVE  /\ Count(v, Pulled(a)) \in Nat
           /\ Count(v, a) = Count(v, Pulled(a)) + One(At(a, Len(a) - 1), v)
<1> DEFINE b == Pulled(a)
<1>1. Len(a) \in Nat /\ Len(a) # 0 /\ DOMAIN a = 1 .. Len(a)
  BY LenProperties, EmptySeq
<1>2. /\ b \in Seq(V) /\ Len(b) = Len(a) - 1 /\ DOMAIN b = 1 .. Len(a) - 1
      /\ \A j \in 0 .. Len(a) - 2 : At(b, j) = At(a, j)
  <2>1. /\ b \in Seq(V) /\ Len(b) = Len(a) - 1
        /\ \A j \in 0 .. Len(a) - 2 : At(b, j) = At(a, j)
    BY <1>1, PulledAt
  <2> HIDE DEF b
  <2>2. DOMAIN b = 1 .. Len(b)
    BY <2>1, LenProperties
  <2>. QED
    BY <2>1, <2>2
<1> HIDE DEF b
<1>3. ASSUME NEW n \in 1 .. Len(a) - 1 PROVE b[n] = a[n]
  <2>1. n - 1 \in 0 .. Len(a) - 2 /\ n - 1 \in 0 .. Len(a) - 1 /\ n - 1 \in 0 .. Len(a) - 1 - 1
        /\ (n - 1) + 1 = n
    BY <1>1
  <2>2. At(b, n - 1) = At(a, n - 1)
    BY <1>2, <2>1
  <2>. QED
    BY <1>2, <2>1, <2>2 DEF At
<1>4. Elsewhere(v, a, Len(a)) = {n \in DOMAIN b : b[n] = v}
  <2>1. \A n : n \in 1 .. Len(a) - 1 <=> n \in 1 .. Len(a) /\ n # Len(a)
    BY <1>1
  <2>. QED
    BY <1>1, <1>2, <1>3, <2>1 DEF Elsewhere
<1>5. Count(v, b) = Cardinality(Elsewhere(v, a, Len(a)))
  BY <1>4 DEF Count
<1>6. Len(a) \in DOMAIN a
  BY <1>1
<1>7. At(a, Len(a) - 1) = a[Len(a)]
  BY <1>1 DEF At
<1>8. Count(v, a) = Count(v, b) + One(a[Len(a)], v)
  BY <1>5, <1>6, CountSplit
<1>9. Count(v, b) \in Nat
  BY <1>2, CountSplit
<1>. QED
  BY <1>7, <1>8, <1>9 DEF b

(* The hole moves from i to j, what was at j to i.                         *)
LEMMA CountMove ==
    ASSUME NEW V, NEW a \in Seq(V), NEW i \in Nat, i < Len(a), NEW j \in Nat, j < Len(a), i # j,
           NEW w \in V, NEW v
    PROVE  Count(v, Put(Put(a, i, At(a, j)), j, w)) = Count(v, Put(a, i, w))
<1> DEFINE b == Put(a, i, At(a, j))
<1>1. Len(a) \in Nat /\ i \in 0 .. Len(a) - 1 /\ j \in 0 .. Len(a) - 1
  BY LenProperties
<1>2. At(a, j) \in V
  BY <1>1, AtTyped
<1>3. b \in Seq(V) /\ IsPut(b, a, i, At(a, j))
  BY <1>2, PutProperties
<1>4. /\ Count(v, b) \in Nat /\ Count(v, a) \in Nat
      /\ Count(v, b) + One(At(a, i), v) = Count(v, a) + One(At(a, j), v)
  BY <1>2, CountPut
<1> HIDE DEF b
<1>5. j < Len(b) /\ At(b, j) = At(a, j)
  BY <1>1, <1>3 DEF IsPut
<1>6. /\ Count(v, Put(b, j, w)) \in Nat
      /\ Count(v, Put(b, j, w)) + One(At(b, j), v) = Count(v, b) + One(w, v)
  BY <1>3, <1>5, CountPut
<1>7. /\ Count(v, Put(a, i, w)) \in Nat
      /\ Count(v, Put(a, i, w)) + One(At(a, i), v) = Count(v, a) + One(w, v)
  BY CountPut
<1>8. /\ One(At(a, i), v) \in Int /\ One(At(a, j), v) \in Int /\ One(w, v) \in Int
  BY OneTyped
<1>9. Count(v, Put(b, j, w)) = Count(v, Put(a, i, w))
  BY <1>4, <1>5, <1>6, <1>7, <1>8
<1>. QED
  BY <1>9 DEF b

LEMMA CountSingle ==
    ASSUME NEW u, NEW v
    PROVE  Count(v, <<u>>) = One(u, v)
<1>1. CASE u = v
  <2>1. {n \in DOMAIN <<u>> : <<u>>[n] = v} = {1}
    BY <1>1
  <2>2. Cardinality({1}) = 1
    BY FS_Singleton
  <2>. QED
    BY <1>1, <2>1, <2>2 DEF Count, One
<1>2. CASE u # v
  <2>1. {n \in DOMAIN <<u>> : <<u>>[n] = v} = {}
    BY <1>2
  <2>2. Cardinality({}) = 0
    BY FS_EmptySet
  <2>. QED
    BY <1>2, <2>1, <2>2 DEF Count, One
<1>. QED
  BY <1>1, <1>2

LEMMA ContentBusy ==
    ASSUME Pure, ~Idle
    PROVE  content = Contents(Top, Ours)
<1>1. filled = FilledBy(Top, Ours)
  BY DEF filled, FilledBy
<1>2. \A v : /\ Count(v, <<Top.out>>) = One(Top.out, v)
             /\ Count(v, <<Top.given>>) = One(Top.given, v)
  BY CountSingle
<1>. QED
  BY <1>1, <1>2 DEF content, Contents, Holding

LEMMA ContentIdle ==
    ASSUME Types, Pure, Idle
    PROVE  content = Bag(arrays[items])
<1>1. arrays[items] \in Seq(Value)
  BY DEF Types
<1>2. \A v : Count(v, arrays[items]) \in Nat
  BY <1>1, CountSplit
<1>3. \A v : Count(v, arrays[items]) + 0 = Count(v, arrays[items])
  BY <1>2
<1>4. content = [v \in Items |-> Count(v, arrays[items]) + 0]
  BY DEF content, filled
<1>. QED
  BY <1>3, <1>4 DEF Bag

LEMMA ContentBusyNext == (Pure /\ ~Idle => content = Contents(Top, Ours))'
<1>1. Pure /\ ~Idle => content = Contents(Top, Ours)
  BY ContentBusy
<1>. QED
  BY <1>1, PTL

LEMMA ContentIdleNext == (Types /\ Pure /\ Idle => content = Bag(arrays[items]))'
<1>1. Types /\ Pure /\ Idle => content = Bag(arrays[items])
  BY ContentIdle
<1>. QED
  BY <1>1, PTL

(* The root of an ordered array is a least element of it.                  *)
LEMMA LeastRoot ==
    ASSUME NEW a \in Seq(Items), a # <<>>, Ordered(a, 0)
    PROVE  LeastIn(Bag(a), At(a, 0))
<1>1. Len(a) \in Nat /\ Len(a) # 0 /\ DOMAIN a = 1 .. Len(a) /\ 0 \in 0 .. Len(a) - 1
  BY LenProperties, EmptySeq
<1>2. \A j \in 0 .. Len(a) - 1 : At(a, j) \in Items /\ At(a, j) \in Int
  BY AtTyped, HeapAssumption
<1>3. \A j \in 0 .. Len(a) - 1 : At(a, 0) <= At(a, j)
  <2> DEFINE bad == {j \in 0 .. Len(a) - 1 : ~(At(a, 0) <= At(a, j))}
  <2> SUFFICES ASSUME bad # {} PROVE FALSE
    OBVIOUS
  <2>1. bad \in SUBSET Nat
    BY <1>1
  <2>2. PICK j \in bad : \A k \in bad : j <= k
    BY <2>1, LeastMember
  <2>3. j \in 1 .. Len(a) - 1
    BY <1>1, <1>2, <2>2
  <2>4. Parent(j) \in 0 .. Len(a) - 1 /\ Parent(j) < j
    BY <1>1, <2>3, ParentFacts
  <2>5. At(a, 0) <= At(a, Parent(j))
    <3>1. Parent(j) \notin bad
      BY <1>1, <2>2, <2>4
    <3>. QED
      BY <2>4, <3>1
  <2>6. At(a, Parent(j)) <= At(a, j)
    BY <1>1, <2>3, <2>4 DEF Ordered
  <2>7. At(a, 0) \in Int /\ At(a, Parent(j)) \in Int /\ At(a, j) \in Int
    BY <1>1, <1>2, <2>2, <2>4
  <2>8. At(a, 0) <= At(a, j)
    BY <2>5, <2>6, <2>7
  <2>. QED
    BY <2>2, <2>8
<1>4. ASSUME NEW n \in DOMAIN a
      PROVE  n - 1 \in 0 .. Len(a) - 1 /\ At(a, n - 1) = a[n]
  <2>1. n - 1 \in 0 .. Len(a) - 1 /\ (n - 1) + 1 = n
    BY <1>1
  <2>. QED
    BY <2>1 DEF At
<1>5. Count(At(a, 0), a) > 0
  <2>1. At(a, 0) = a[1] /\ 1 \in DOMAIN a
    BY <1>1 DEF At
  <2>2. Count(At(a, 0), a) \in Nat /\ Count(At(a, 0), a) # 0
    BY <2>1, CountSplit
  <2>. QED
    BY <2>2
<1>6. ASSUME NEW w \in Items, Count(w, a) > 0 PROVE At(a, 0) <= w
  <2>1. Count(w, a) # 0
    BY <1>6
  <2>2. PICK n \in DOMAIN a : a[n] = w
    BY <2>1, CountSplit
  <2>. QED
    BY <1>3, <1>4, <2>2
<1>. QED
  BY <1>1, <1>2, <1>5, <1>6 DEF LeastIn, Bag

LEMMA CountEmpty ==
    ASSUME NEW a \in Seq(Items), a = <<>>
    PROVE  \A w \in Items : Count(w, a) = 0 /\ Bag(a)[w] = 0
<1>1. Len(a) = 0
  BY EmptySeq
<1>2. \A w \in Items : \A n \in DOMAIN a : a[n] # w
  BY <1>1, LenProperties
<1>3. \A w \in Items : Count(w, a) = 0
  BY <1>2, CountSplit
<1>. QED
  BY <1>3 DEF Bag

(* What a pop of the array leaves and hands out.                           *)
LEMMA PoppingHolds ==
    ASSUME NEW f \in FrameType, NEW ns \in Seq(Items), f.given = None
    PROVE  /\ Contents(Popping(f, ns).frame, Popping(f, ns).array) = Bag(ns)
           /\ Popping(f, ns).frame.given = None
           /\ Popping(f, ns).frame.out = At(ns, 0)
<1> DEFINE rest == Pulled(ns)
           last == At(ns, Len(ns) - 1)
           moved == Put(rest, 0, last)
           done == [f EXCEPT !.at = "done", !.out = last]
           taken == [f EXCEPT !.out = At(rest, 0)]
           sift == SiftUp(taken, moved, 0)
<1>1. Len(ns) \in Nat /\ (ns = <<>> <=> Len(ns) = 0)
  BY LenProperties, EmptySeq
<1>2. /\ rest \in Seq(Items)
      /\ rest = <<>> <=> Len(ns) \in {0, 1}
      /\ Len(rest) = IF Len(ns) = 0 THEN 0 ELSE Len(ns) - 1
      /\ \A j \in 0 .. Len(ns) - 2 : At(rest, j) = At(ns, j)
  BY PulledAt
<1>3. \A v \in Items : One(None, v) = 0 /\ Count(v, ns) \in Nat
  <2> TAKE v \in Items
  <2>1. Count(v, ns) \in Nat
    BY CountSplit
  <2>. QED
    BY <2>1, HeapAssumption DEF One
<1>4. ns # <<>> => \A v \in Items : /\ Count(v, ns) = Count(v, rest) + One(last, v)
                                    /\ Count(v, rest) \in Nat
  BY CountPulled
<1>5. CASE rest = <<>>
  <2>1. Popping(f, ns) = [frame |-> done, array |-> rest]
    BY <1>5 DEF Popping
  <2>2. done.at = "done" /\ done.out = last /\ done.given = None
    BY DEF FrameType
  <2> HIDE DEF done
  <2>3. Popping(f, ns).frame = done /\ Popping(f, ns).array = rest
    BY <2>1
  <2>4. last = At(ns, 0)
    <3>1. CASE Len(ns) = 1
      BY <3>1
    <3>2. CASE Len(ns) = 0
      BY <3>2 DEF At
    <3>. QED
      BY <1>2, <1>5, <3>1, <3>2
  <2>5. ASSUME NEW v \in Items PROVE Holding(done, rest, v) = Count(v, ns)
    <3>1. Holding(done, rest, v) = Count(v, rest) + (One(last, v) - One(None, v))
      BY <2>2 DEF Holding, FilledBy
    <3>2. One(last, v) \in Int /\ One(None, v) = 0
      BY <1>3, OneTyped
    <3>3. CASE ns = <<>>
      <4>1. last = None
        BY <1>1, <3>3 DEF At
      <4>2. rest = ns
        BY <1>5, <3>3
      <4>. QED
        BY <1>3, <3>1, <3>2, <4>1, <4>2
    <3>4. CASE ns # <<>>
      <4>1. Count(v, ns) = Count(v, rest) + One(last, v) /\ Count(v, rest) \in Nat
        BY <1>4, <3>4
      <4>. QED
        BY <3>1, <3>2, <4>1
    <3>. QED
      BY <3>3, <3>4
  <2>. QED
    BY <2>2, <2>3, <2>4, <2>5 DEF Contents, Bag
<1>6. CASE rest # <<>>
  <2>1. Popping(f, ns) = [frame |-> sift, array |-> moved]
    BY <1>6 DEF Popping
  <2>2. /\ Len(ns) >= 2 /\ Len(rest) = Len(ns) - 1 /\ Len(ns) - 1 \in 0 .. Len(ns) - 1
        /\ 0 < Len(rest) /\ 0 \in 0 .. Len(ns) - 2 /\ ns # <<>> /\ 0 \in 0 .. Len(rest) - 1
    BY <1>1, <1>2, <1>6
  <2>3. At(rest, 0) = At(ns, 0) /\ At(rest, 0) \in Items /\ last \in Items
    BY <1>2, <2>2, AtTyped
  <2>4. /\ sift.at = "up" /\ sift.i = 0 /\ sift.item = At(moved, 0)
        /\ sift.out = At(rest, 0) /\ sift.given = None
    <3>1. taken.out = At(rest, 0) /\ taken.given = None /\ taken \in FrameType
      BY <2>3 DEF FrameType, Value
    <3> HIDE DEF taken, moved, rest, last
    <3>. QED
      BY <3>1 DEF SiftUp, FrameType
  <2> HIDE DEF sift
  <2>5. Popping(f, ns).frame = sift /\ Popping(f, ns).array = moved
    BY <2>1
  <2>6. ASSUME NEW v \in Items PROVE Holding(sift, moved, v) = Count(v, ns)
    <3> HIDE DEF rest, last
    <3>1. moved \in Seq(Items) /\ IsPut(moved, rest, 0, last)
      BY <1>2, <2>2, <2>3, PutProperties
    <3>2. /\ Count(v, moved) \in Nat /\ Count(v, rest) \in Nat
          /\ Count(v, moved) + One(At(rest, 0), v) = Count(v, rest) + One(last, v)
      BY <1>2, <2>2, <2>3, CountPut
    <3> HIDE DEF moved
    <3>3. 0 < Len(moved) /\ At(moved, 0) = last
      BY <2>2, <3>1 DEF IsPut
    <3>4. /\ Count(v, Put(moved, 0, last)) \in Nat
          /\ Count(v, Put(moved, 0, last)) + One(At(moved, 0), v) = Count(v, moved) + One(last, v)
      BY <2>3, <3>1, <3>3, CountPut
    <3>5. One(last, v) \in Int /\ One(At(rest, 0), v) \in Int /\ One(None, v) = 0
      BY <1>3, OneTyped
    <3>6. Count(v, Put(moved, 0, last)) = Count(v, moved)
      BY <3>2, <3>3, <3>4, <3>5
    <3>7. Holding(sift, moved, v)
              = Count(v, Put(moved, 0, last)) + (One(At(rest, 0), v) - One(None, v))
      BY <2>4, <3>3 DEF Holding, FilledBy
    <3>8. Count(v, ns) = Count(v, rest) + One(last, v)
      BY <1>4, <2>2
    <3>. QED
      BY <3>2, <3>5, <3>6, <3>7, <3>8
  <2>. QED
    BY <2>3, <2>4, <2>5, <2>6 DEF Contents, Bag
<1>. QED
  BY <1>5, <1>6

(* What is filled stays the same when the hole moves, and when it is filled. *)
Carries(g, f) == g.out = f.out /\ g.given = f.given

LEMMA SameContents ==
    ASSUME NEW f, NEW g, NEW a, NEW b, Carries(g, f),
           \A v \in Items : Count(v, FilledBy(g, b)) = Count(v, FilledBy(f, a))
    PROVE  Contents(g, b) = Contents(f, a)
  BY DEF Carries, Contents, Holding

LEMMA MoveHolds ==
    ASSUME NEW f, NEW g, NEW a \in Seq(Items), NEW j \in Nat, j < Len(a),
           f.i \in Nat, f.i < Len(a), f.i # j, f.item \in Items,
           f.at \in Sifting, g.at \in Sifting, g.i = j, g.item = f.item, Carries(g, f)
    PROVE  Contents(g, Put(a, f.i, At(a, j))) = Contents(f, a)
<1>1. f.at \notin {"done", "front"} /\ g.at \notin {"done", "front"}
  BY DEF Sifting
<1>2. /\ FilledBy(f, a) = Put(a, f.i, f.item)
      /\ FilledBy(g, Put(a, f.i, At(a, j))) = Put(Put(a, f.i, At(a, j)), j, f.item)
  BY <1>1 DEF FilledBy
<1>3. \A v \in Items :
          Count(v, Put(Put(a, f.i, At(a, j)), j, f.item)) = Count(v, Put(a, f.i, f.item))
  BY CountMove
<1>. QED
  BY <1>2, <1>3, SameContents

LEMMA FillHolds ==
    ASSUME NEW f, NEW g, NEW a \in Seq(Items),
           f.i \in Nat, f.i < Len(a), f.item \in Items,
           f.at \in Sifting, Carries(g, f),
           \/ g.at = "done"
           \/ g.at = "down" /\ g.i = f.i /\ g.item = At(Put(a, f.i, f.item), f.i)
    PROVE  Contents(g, Put(a, f.i, f.item)) = Contents(f, a)
<1> DEFINE b == Put(a, f.i, f.item)
<1>1. FilledBy(f, a) = b
  BY DEF Sifting, FilledBy
<1>2. CASE g.at = "done"
  <2>1. FilledBy(g, b) = b
    BY <1>2 DEF FilledBy
  <2> HIDE DEF b
  <2>2. Contents(g, b) = Contents(f, a)
    BY <1>1, <2>1, SameContents
  <2>. QED
    BY <2>2 DEF b
<1>3. CASE g.at = "down" /\ g.i = f.i /\ g.item = At(Put(a, f.i, f.item), f.i)
  <2>1. b \in Seq(Items) /\ IsPut(b, a, f.i, f.item)
    BY PutProperties
  <2> HIDE DEF b
  <2>2. f.i < Len(b) /\ At(b, f.i) = f.item
    <3>1. f.i \in 0 .. Len(a) - 1
      BY LenProperties
    <3>. QED
      BY <2>1, <3>1 DEF IsPut
  <2>3. FilledBy(g, b) = Put(b, f.i, f.item)
    BY <1>3, <2>2 DEF FilledBy, b
  <2>4. ASSUME NEW v \in Items PROVE Count(v, FilledBy(g, b)) = Count(v, FilledBy(f, a))
    <3>1. /\ Count(v, Put(b, f.i, f.item)) \in Nat /\ Count(v, b) \in Nat
          /\ Count(v, Put(b, f.i, f.item)) + One(At(b, f.i), v) = Count(v, b) + One(f.item, v)
      BY <2>1, <2>2, CountPut
    <3>2. One(f.item, v) \in Int
      BY OneTyped
    <3>. QED
      BY <1>1, <2>2, <2>3, <3>1, <3>2
  <2>5. Contents(g, b) = Contents(f, a)
    BY <2>4, SameContents
  <2>. QED
    BY <2>5 DEF b
<1>. QED
  BY <1>2, <1>3

(* A hole that still has its item.                                         *)
LEMMA HoleHolds ==
    ASSUME NEW g, NEW a \in Seq(Items), g.i \in Nat, g.i < Len(a), g.at \in Sifting,
           g.item = At(a, g.i), NEW v \in Items
    PROVE  Holding(g, a, v) = Count(v, a) + (One(g.out, v) - One(g.given, v))
<1>1. FilledBy(g, a) = Put(a, g.i, g.item)
  BY DEF Sifting, FilledBy
<1>2. g.item \in Items
  <2>1. g.i \in 0 .. Len(a) - 1
    BY LenProperties
  <2>. QED
    BY <2>1, AtTyped
<1>3. /\ Count(v, Put(a, g.i, g.item)) \in Nat /\ Count(v, a) \in Nat
      /\ Count(v, Put(a, g.i, g.item)) + One(At(a, g.i), v) = Count(v, a) + One(g.item, v)
  BY <1>2, CountPut
<1>4. One(g.item, v) \in Int
  BY OneTyped
<1>5. Count(v, Put(a, g.i, g.item)) = Count(v, a)
  BY <1>3, <1>4
<1>. QED
  BY <1>1, <1>5 DEF Holding

LEMMA HandsOn ==
    ASSUME NEW f, NEW g, NEW a, NEW b, NEW c, Hands(f, a, c), Carries(g, f), g.op = f.op,
           f.at # "front", g.at # "front"
    PROVE  Hands(g, b, c)
  BY DEF Hands, Carries

-----------------------------------------------------------------------------
(* Steps the queue does not see, and steps it does                         *)

Promised == Handed' /\ [Abstract!Next]_<<content, Shown>>

LEMMA PureFacts ==
    ASSUME IInv, Handed, Pure
    PROVE  /\ Tame /\ Clean /\ Kept /\ Types /\ Stacked /\ Sorted
           /\ comparator.calls = {} /\ throws = 0
           /\ Idle => /\ content = Bag(arrays[items])
                      /\ arrays[items] \in Seq(Items) /\ Ordered(arrays[items], 0)
           /\ ~Idle => /\ content = Contents(Top, Ours) /\ Hands(Top, Ours, content)
                       /\ Len(frames) = 1 /\ Top = frames[1] /\ Sound(Top, Ours)
                       /\ Top.op # "from" => Top.array = items
<1>1. Tame /\ comparator.calls = {}
  BY DEF Pure, Tame
<1>2. Kept
  BY <1>1 DEF IInv
<1>3. Types /\ Stacked /\ (Clean => Sorted)
  BY <1>2 DEF Kept
<1>4. throws = 0
  BY <1>3 DEF Types, Handed, Pure
<1>5. Clean
  BY <1>1, <1>4 DEF Clean
<1>6. ASSUME Idle
      PROVE  /\ content = Bag(arrays[items])
             /\ arrays[items] \in Seq(Items) /\ Ordered(arrays[items], 0)
  <2>1. content = Bag(arrays[items])
    BY <1>3, <1>6, ContentIdle
  <2>. QED
    BY <1>2, <1>5, <1>6, <2>1, IdleFacts DEF Idle
<1>7. ASSUME ~Idle
      PROVE  /\ content = Contents(Top, Ours) /\ Hands(Top, Ours, content)
             /\ Len(frames) = 1 /\ Top = frames[1] /\ Sound(Top, Ours)
             /\ Top.op # "from" => Top.array = items
  <2>1. content = Contents(Top, Ours) /\ Hands(Top, Ours, content)
    BY <1>7, ContentBusy DEF Handed
  <2>2. Len(frames) = 1
    BY <1>3, <1>5, <1>7, TopFacts DEF Idle
  <2>3. Top = frames[1] /\ 1 \in DOMAIN frames
    BY <1>3, <1>7, <2>2, TopFacts DEF Top, Idle
  <2>4. Sound(Top, Ours)
    BY <1>2, <1>7, Underway DEF Idle
  <2>5. Top.op # "from" => Top.array = items
    BY <1>1, <1>3, <1>7, <2>3 DEF Stacked
  <2>. QED
    BY <2>1, <2>2, <2>3, <2>4, <2>5
<1>. QED
  BY <1>1, <1>2, <1>3, <1>4, <1>5, <1>6, <1>7

LEMMA Silently ==
    ASSUME Handed', content' = content, popped' = popped, comparator' = comparator
    PROVE  Promised
  BY DEF Promised, Shown, Pure

(* A comparator that only answers leaves the queue alone while it is asked. *)
Resumed(f, array) ==
    /\ frames' = Resume(f)
    /\ arrays' = [arrays EXCEPT ![Top.array] = array]
    /\ UNCHANGED history

LEMMA GoTop ==
    ASSUME IInv, IInv', Handed, Pure, ~Idle, NEW f, NEW a, Resumed(f, a), f.array = Top.array
    PROVE  /\ Top' = f /\ Ours' = a /\ ~Idle' /\ a \in Seq(Items) /\ InOrder(f, a)
           /\ Pure' /\ throws' = 0
           /\ comparator' = comparator
           /\ content' = Contents(f, a)
           /\ Hands(f, a, content') => Handed'
<1>1. /\ comparator' = comparator /\ throws' = throws
      /\ frames' = [frames EXCEPT ![Len(frames)] = f]
      /\ arrays' = [arrays EXCEPT ![Top.array] = a]
  BY DEF Resumed, Resume, history
<1>2. Types /\ Len(frames) = 1 /\ Top \in FrameType
  BY PureFacts DEF Sound
<1>3. Pure' /\ Tame' /\ Clean' /\ throws' = 0
  BY <1>1, PureFacts DEF Pure, Tame, Clean, Handed
<1>4. Types' /\ Sorted'
  BY <1>3 DEF IInv, Kept
<1>5. /\ DOMAIN frames = 1 .. Len(frames)
      /\ Len(frames') \in Nat /\ DOMAIN frames' = 1 .. Len(frames')
  BY <1>2, <1>4, LenProperties DEF Types
<1>6. frames' = [frames EXCEPT ![1] = f] /\ DOMAIN frames = 1 .. 1
  BY <1>1, <1>2, <1>5
<1>7. DOMAIN frames' = 1 .. 1 /\ frames'[1] = f
  BY <1>6
<1>8. Len(frames') = 1
  <2>1. PICK n \in Nat : n = Len(frames')
    BY <1>5
  <2>2. 1 .. 1 = 1 .. n
    BY <1>5, <1>7, <2>1
  <2>3. 1 \in 1 .. n
    BY <2>2
  <2>4. n \in 1 .. n
    BY <2>3
  <2>5. n \in 1 .. 1
    BY <2>2, <2>4
  <2>6. n = 1
    BY <2>5
  <2>. QED
    BY <2>1, <2>6
<1>9. Top' = f /\ ~Idle'
  <2>1. frames' \in Seq(FrameType)
    BY <1>4 DEF Types
  <2>2. Len(frames') = 0 <=> frames' = <<>>
    BY <2>1, EmptySeq
  <2>. QED
    BY <1>7, <1>8, <2>2 DEF Top, Idle
<1>10. Ours' = a
  <2>1. Top.array \in Handles /\ arrays \in [Handles -> Seq(Value)]
    BY <1>2 DEF Types, FrameType
  <2>2. arrays'[Top.array] = a
    BY <1>1, <2>1
  <2>. QED
    BY <1>9, <2>2 DEF Ours
<1>11. a \in Seq(Items) /\ InOrder(f, a)
  <2>1. InOrder(Top, Ours)'
    BY <1>4, <1>9 DEF Sorted
  <2>2. f.array \in Handles
    BY <1>2 DEF FrameType
  <2>3. arrays'[f.array] \in Seq(Items)
    BY <1>4, <2>2 DEF Sorted
  <2>4. Ours' = arrays'[f.array]
    BY <1>9 DEF Ours
  <2>. QED
    BY <1>9, <1>10, <2>1, <2>3, <2>4
<1>12. content' = Contents(f, a)
  BY <1>3, <1>9, <1>10, ContentBusyNext
<1>13. Hands(f, a, content') => Handed'
  BY <1>3, <1>9, <1>10 DEF Handed
<1>. QED
  BY <1>1, <1>3, <1>9, <1>10, <1>11, <1>12, <1>13

LEMMA GoSilent ==
    ASSUME IInv, IInv', Handed, Pure, ~Idle, NEW f, NEW a, Go(f, a), f.array = Top.array,
           Contents(f, a) = Contents(Top, Ours), Hands(f, a, content)
    PROVE  Promised
<1>1. Resumed(f, a) /\ popped' = popped
  BY DEF Go, Resumed
<1>2. content' = content
  BY <1>1, GoTop, PureFacts
<1>3. Handed' /\ comparator' = comparator
  BY <1>1, <1>2, GoTop
<1>. QED
  BY <1>1, <1>2, <1>3, Silently

LEMMA SiftOn ==
    ASSUME IInv, IInv', Handed, Pure, ~Idle, NEW f, NEW a, Go(f, a),
           f.array = Top.array, f.op = Top.op, Carries(f, Top),
           Top.at # "front", f.at # "front", Contents(f, a) = Contents(Top, Ours)
    PROVE  Promised
<1>1. Hands(Top, Ours, content)
  BY PureFacts
<1>2. Hands(f, a, content)
  BY <1>1, HandsOn
<1>. QED
  BY <1>2, GoSilent

(* The operation that is under way.                                        *)
LEMMA PureTop ==
    ASSUME IInv, Handed, Pure, ~Idle
    PROVE  /\ Top \in FrameType /\ Ours \in Seq(Items) /\ Len(Ours) \in Nat
           /\ InRange(Top, Len(Ours)) /\ InOrder(Top, Ours)
           /\ Top.at \in Sifting => Top.i \in Nat /\ Top.i < Len(Ours) /\ Top.item \in Items
           /\ Hands(Top, Ours, content) /\ content = Contents(Top, Ours)
<1>1. /\ Top \in FrameType /\ Ours \in Seq(Items) /\ InRange(Top, Len(Ours)) /\ InOrder(Top, Ours)
      /\ Hands(Top, Ours, content) /\ content = Contents(Top, Ours)
  BY PureFacts DEF Sound
<1>2. Len(Ours) \in Nat
  BY <1>1, LenProperties
<1>3. Top.i \in Nat
  BY <1>1 DEF FrameType
<1>. QED
  BY <1>1, <1>2, <1>3 DEF InRange, InOrder

LEMMA LowerSilent ==
    ASSUME IInv, IInv', Handed, Pure, ~Idle, Top.at \in {"up", "right"},
           NEW c \in Nat, c = Top.child \/ c = Top.child + 1, c < Len(Ours), Lower(c)
    PROVE  Promised
<1> DEFINE g == [Top EXCEPT !.at = "up", !.i = c, !.child = 2 * c + 1]
           b == Put(Ours, Top.i, At(Ours, c))
<1>1. Go(g, b)
  BY DEF Lower
<1>2. /\ Top \in FrameType /\ Ours \in Seq(Items) /\ InRange(Top, Len(Ours))
      /\ Top.at \in Sifting /\ Top.i \in Nat /\ Top.i < Len(Ours) /\ Top.item \in Items
  BY PureTop DEF Sifting
<1>3. Top.i # c
  BY <1>2 DEF InRange
<1>4. /\ g.at = "up" /\ g.i = c /\ g.item = Top.item /\ g.array = Top.array /\ g.op = Top.op
      /\ Carries(g, Top)
  BY <1>2 DEF FrameType, Carries
<1> HIDE DEF g
<1>5. g.at \in Sifting
  BY <1>4 DEF Sifting
<1>6. Contents(g, b) = Contents(Top, Ours)
  BY <1>2, <1>3, <1>4, <1>5, MoveHolds
<1> HIDE DEF b
<1>7. Top.at # "front" /\ g.at # "front"
  BY <1>4
<1>. QED
  BY <1>1, <1>4, <1>6, <1>7, SiftOn

LEMMA UpSilent ==
    ASSUME IInv, IInv', Handed, Pure, ~Idle, Up
    PROVE  Promised
<1>1. Top.at = "up"
  BY DEF Up, Running
<1>2. /\ Top \in FrameType /\ Ours \in Seq(Items) /\ InRange(Top, Len(Ours)) /\ Len(Ours) \in Nat
      /\ Top.at \in Sifting /\ Top.i \in Nat /\ Top.i < Len(Ours) /\ Top.item \in Items
      /\ Top.child \in Nat /\ Top.end \in Nat /\ Top.end <= Len(Ours)
  <2>1. Top.at \in Sifting
    BY <1>1 DEF Sifting
  <2>2. /\ Top \in FrameType /\ Ours \in Seq(Items) /\ InRange(Top, Len(Ours)) /\ Len(Ours) \in Nat
        /\ Top.i \in Nat /\ Top.i < Len(Ours) /\ Top.item \in Items
    BY <2>1, PureTop
  <2>. QED
    BY <1>1, <2>1, <2>2 DEF InRange, FrameType
<1>3. CASE Top.child + 1 < Top.end
  <2> DEFINE g == [Top EXCEPT !.at = "right", !.a = At(Ours, Top.child), !.b = At(Ours, Top.child + 1)]
  <2>1. Go(g, Ours)
    BY <1>3 DEF Up
  <2>2. /\ g.at = "right" /\ g.i = Top.i /\ g.item = Top.item
        /\ g.array = Top.array /\ g.op = Top.op /\ Carries(g, Top)
    BY <1>2 DEF FrameType, Carries
  <2> HIDE DEF g
  <2>3. FilledBy(g, Ours) = FilledBy(Top, Ours)
    BY <1>1, <2>2 DEF FilledBy
  <2>4. Contents(g, Ours) = Contents(Top, Ours)
    BY <2>2, <2>3, SameContents
  <2>5. Top.at # "front" /\ g.at # "front"
    BY <1>1, <2>2
  <2>. QED
    BY <2>1, <2>2, <2>4, <2>5, SiftOn
<1>4. CASE ~(Top.child + 1 < Top.end) /\ Top.child < Top.end
  <2>1. Lower(Top.child)
    BY <1>4 DEF Up
  <2>2. Top.child < Len(Ours)
    BY <1>2, <1>4
  <2>. QED
    BY <1>1, <1>2, <2>1, <2>2, LowerSilent
<1>5. CASE ~(Top.child + 1 < Top.end) /\ ~(Top.child < Top.end)
  <2> DEFINE b == Put(Ours, Top.i, Top.item)
             g == SiftDown(Top, b, Top.start, Top.i)
  <2>1. Go(g, b)
    BY <1>5 DEF Up
  <2>2. /\ g.at = "down" /\ g.i = Top.i /\ g.item = At(b, Top.i)
        /\ g.array = Top.array /\ g.op = Top.op /\ Carries(g, Top)
    BY <1>2 DEF FrameType, SiftDown, Carries
  <2> HIDE DEF g
  <2>3. Contents(g, b) = Contents(Top, Ours)
    BY <1>2, <2>2, FillHolds
  <2> HIDE DEF b
  <2>4. Top.at # "front" /\ g.at # "front"
    BY <1>1, <2>2
  <2>. QED
    BY <2>1, <2>2, <2>3, <2>4, SiftOn
<1>. QED
  BY <1>3, <1>4, <1>5

LEMMA AnswerRightSilent ==
    ASSUME IInv, IInv', Handed, Pure, ~Idle, AnswerRight
    PROVE  Promised
<1>1. Top.at = "right"
  BY DEF AnswerRight, Running
<1>2. /\ Top.child \in Nat /\ Top.child + 1 \in Nat
      /\ Top.child < Len(Ours) /\ Top.child + 1 < Len(Ours)
  BY <1>1, PureTop DEF InRange, FrameType
<1>3. PICK c \in Nat : (c = Top.child \/ c = Top.child + 1) /\ Lower(c)
  BY <1>2 DEF AnswerRight
<1>. QED
  BY <1>1, <1>2, <1>3, LowerSilent

LEMMA SettleSilent ==
    ASSUME IInv, IInv', Handed, Pure, ~Idle, Top.at \in {"down", "parent"},
           Go([Top EXCEPT !.at = "done"], Put(Ours, Top.i, Top.item))
    PROVE  Promised
<1> DEFINE g == [Top EXCEPT !.at = "done"]
           b == Put(Ours, Top.i, Top.item)
<1>1. /\ Top \in FrameType /\ Ours \in Seq(Items)
      /\ Top.at \in Sifting /\ Top.i \in Nat /\ Top.i < Len(Ours) /\ Top.item \in Items
  BY PureTop DEF Sifting
<1>2. g.at = "done" /\ g.array = Top.array /\ g.op = Top.op /\ Carries(g, Top)
  BY <1>1 DEF FrameType, Carries
<1>3. Go(g, b)
  OBVIOUS
<1> HIDE DEF g
<1>4. Contents(g, b) = Contents(Top, Ours)
  BY <1>1, <1>2, FillHolds
<1> HIDE DEF b
<1>5. Top.at # "front" /\ g.at # "front"
  BY <1>2
<1>. QED
  BY <1>2, <1>3, <1>4, <1>5, SiftOn

LEMMA DownSilent ==
    ASSUME IInv, IInv', Handed, Pure, ~Idle, Down
    PROVE  Promised
<1>1. Top.at = "down"
  BY DEF Down, Running
<1>2. CASE Top.i > Top.start
  <2> DEFINE g == [Top EXCEPT !.at = "parent", !.a = Top.item, !.b = At(Ours, Parent(Top.i))]
  <2>1. Go(g, Ours)
    BY <1>2 DEF Down
  <2>2. /\ g.at = "parent" /\ g.i = Top.i /\ g.item = Top.item
        /\ g.array = Top.array /\ g.op = Top.op /\ Carries(g, Top)
    BY PureTop DEF FrameType, Carries
  <2> HIDE DEF g
  <2>3. FilledBy(g, Ours) = FilledBy(Top, Ours)
    BY <1>1, <2>2 DEF FilledBy
  <2>4. Contents(g, Ours) = Contents(Top, Ours)
    BY <2>2, <2>3, SameContents
  <2>5. Top.at # "front" /\ g.at # "front"
    BY <1>1, <2>2
  <2>. QED
    BY <2>1, <2>2, <2>4, <2>5, SiftOn
<1>3. CASE ~(Top.i > Top.start)
  <2>1. Go([Top EXCEPT !.at = "done"], Put(Ours, Top.i, Top.item))
    BY <1>3 DEF Down
  <2>. QED
    BY <1>1, <2>1, SettleSilent
<1>. QED
  BY <1>2, <1>3

LEMMA AnswerParentSilent ==
    ASSUME IInv, IInv', Handed, Pure, ~Idle, AnswerParent
    PROVE  Promised
<1>1. Top.at = "parent"
  BY DEF AnswerParent, Running
<1>2. CASE Less(Top.a, Top.b)
  <2> DEFINE p == Parent(Top.i)
             g == [Top EXCEPT !.at = "down", !.i = p]
  <2>1. /\ Top \in FrameType /\ Ours \in Seq(Items) /\ Top.i \in Nat /\ Top.i < Len(Ours)
        /\ Top.item \in Items /\ Top.at \in Sifting
        /\ Top.i > Top.start /\ Top.b = At(Ours, p) /\ Len(Ours) \in Nat /\ Top.start \in Nat
    <3>1. Top.at \in Sifting
      BY <1>1 DEF Sifting
    <3>2. InRange(Top, Len(Ours)) /\ InOrder(Top, Ours) /\ Top \in FrameType
      BY PureTop
    <3>3. Top.i > Top.start /\ Top.b = At(Ours, p) /\ Top.start \in Nat
      BY <1>1, <3>2 DEF InRange, InOrder, FrameType
    <3>. QED
      BY <3>1, <3>3, PureTop
  <2>2. p \in Nat /\ p < Len(Ours) /\ Top.i # p
    <3>1. Top.i \in Nat /\ Top.i # 0
      BY <2>1
    <3>2. p \in Nat /\ p < Top.i
      BY <3>1, ChildFacts
    <3>. QED
      BY <2>1, <3>2
  <2>3. Go(g, Put(Ours, Top.i, At(Ours, p)))
    BY <1>2, <2>1 DEF AnswerParent
  <2> HIDE DEF p
  <2>4. /\ g.at = "down" /\ g.i = p /\ g.item = Top.item
        /\ g.array = Top.array /\ g.op = Top.op /\ Carries(g, Top)
    BY <2>1 DEF FrameType, Carries
  <2> HIDE DEF g
  <2>5. g.at \in Sifting
    BY <2>4 DEF Sifting
  <2>6. Contents(g, Put(Ours, Top.i, At(Ours, p))) = Contents(Top, Ours)
    BY <2>1, <2>2, <2>4, <2>5, MoveHolds
  <2>7. Top.at # "front" /\ g.at # "front"
    BY <1>1, <2>4
  <2>. QED
    BY <2>3, <2>4, <2>6, <2>7, SiftOn
<1>3. CASE ~Less(Top.a, Top.b)
  <2>1. Go([Top EXCEPT !.at = "done"], Put(Ours, Top.i, Top.item))
    BY <1>3 DEF AnswerParent
  <2>. QED
    BY <1>1, <2>1, SettleSilent
<1>. QED
  BY <1>2, <1>3

(* The item put at the front in place of the least one.                    *)
LEMMA SwapHolds ==
    ASSUME NEW a \in Seq(Items), a # <<>>, NEW w \in Items, NEW f \in FrameType, f.given = w,
           f.out = At(a, 0)
    PROVE  /\ Contents(SiftUp(f, Put(a, 0, w), 0), Put(a, 0, w)) = Bag(a)
           /\ SiftUp(f, Put(a, 0, w), 0).out = At(a, 0) /\ SiftUp(f, Put(a, 0, w), 0).given = w
           /\ SiftUp(f, Put(a, 0, w), 0).at = "up"
<1> DEFINE b == Put(a, 0, w)
           g == SiftUp(f, b, 0)
<1>1. Len(a) \in Nat /\ Len(a) # 0
  BY LenProperties, EmptySeq
<1>2. b \in Seq(Items) /\ IsPut(b, a, 0, w)
  BY <1>1, PutProperties
<1>3. ASSUME NEW v \in Items
      PROVE  /\ Count(v, b) \in Nat /\ Count(v, a) \in Nat
             /\ Count(v, b) + One(At(a, 0), v) = Count(v, a) + One(w, v)
  BY <1>1, CountPut
<1> HIDE DEF b
<1>4. 0 < Len(b)
  BY <1>1, <1>2 DEF IsPut
<1>5. /\ g.at = "up" /\ g.i = 0 /\ g.item = At(b, 0) /\ g.out = At(a, 0) /\ g.given = w
  BY DEF SiftUp, FrameType
<1> HIDE DEF g
<1>6. ASSUME NEW v \in Items PROVE Holding(g, b, v) = Count(v, a)
  <2>1. g.at \in Sifting
    BY <1>5 DEF Sifting
  <2>2. Holding(g, b, v) = Count(v, b) + (One(At(a, 0), v) - One(w, v))
    BY <1>2, <1>4, <1>5, <2>1, HoleHolds
  <2>3. One(At(a, 0), v) \in Int /\ One(w, v) \in Int
    BY OneTyped
  <2>4. /\ Count(v, b) \in Nat /\ Count(v, a) \in Nat
        /\ Count(v, b) + One(At(a, 0), v) = Count(v, a) + One(w, v)
    BY <1>3
  <2>. QED
    BY <2>2, <2>3, <2>4
<1>7. Contents(g, b) = Bag(a)
  BY <1>6 DEF Contents, Bag
<1>. QED
  BY <1>5, <1>7 DEF b, g

LEMMA AnswerFrontSilent ==
    ASSUME IInv, IInv', Handed, Pure, ~Idle, AnswerFront
    PROVE  Promised
<1>1. Top.at = "front"
  BY DEF AnswerFront, Running
<1>2. /\ Top \in FrameType /\ Ours \in Seq(Items) /\ Len(Ours) > 0 /\ Top.op = "pushpop"
      /\ Ordered(Ours, 0) /\ Len(Ours) \in Nat
  <2>1. /\ Top \in FrameType /\ Ours \in Seq(Items) /\ Len(Ours) \in Nat
        /\ InRange(Top, Len(Ours)) /\ InOrder(Top, Ours)
    BY PureTop
  <2>2. Len(Ours) > 0 /\ Top.op = "pushpop" /\ Ordered(Ours, Base(Top))
    BY <1>1, <2>1 DEF InRange, InOrder
  <2>. QED
    BY <2>1, <2>2 DEF Base
<1>3. /\ Top.given \in Items /\ Top.out = Top.given
      /\ Top.a = At(Ours, 0) /\ Top.b = Top.given
  BY <1>1, <1>2, PureTop DEF Hands
<1>4. Ours # <<>>
  <2>1. Len(Ours) = 0 <=> Ours = <<>>
    BY <1>2, EmptySeq
  <2>. QED
    BY <1>2, <2>1
<1>5. LeastIn(Bag(Ours), At(Ours, 0))
  BY <1>2, <1>4, LeastRoot
<1>6. content = Bag(Ours)
  <2>1. FilledBy(Top, Ours) = Ours
    BY <1>1 DEF FilledBy
  <2>2. ASSUME NEW v \in Items PROVE Holding(Top, Ours, v) = Count(v, Ours)
    <3>1. One(Top.out, v) = One(Top.given, v) /\ One(Top.given, v) \in Int
      BY <1>3, OneTyped
    <3>2. Count(v, Ours) \in Nat
      BY <1>2, CountSplit
    <3>. QED
      BY <2>1, <3>1, <3>2 DEF Holding
  <2>. QED
    BY <2>2, PureTop DEF Contents, Bag
<1>7. At(Ours, 0) \in Items /\ At(Ours, 0) # None /\ Top.given # None
  BY <1>3, <1>5, HeapAssumption DEF LeastIn
<1>8. CASE Less(Top.a, Top.b)
  <2> DEFINE w == Top.given
             f == [Top EXCEPT !.out = At(Ours, 0)]
             b == Put(Ours, 0, w)
             g == SiftUp(f, b, 0)
  <2>1. Go(g, b)
    BY <1>3, <1>8 DEF AnswerFront
  <2>2. /\ f \in FrameType /\ f.given = w /\ f.out = At(Ours, 0)
        /\ f.op = "pushpop" /\ f.array = Top.array
    BY <1>2, <1>7 DEF FrameType, Value
  <2> HIDE DEF f
  <2>3. /\ Contents(g, b) = Bag(Ours)
        /\ g.out = At(Ours, 0) /\ g.given = w /\ g.at = "up"
    BY <1>2, <1>3, <1>4, <2>2, SwapHolds
  <2>4. g.op = "pushpop" /\ g.array = Top.array
    BY <2>2 DEF SiftUp, FrameType
  <2> HIDE DEF g, b
  <2>5. At(Ours, 0) < w
    BY <1>3, <1>8 DEF Less
  <2>6. Hands(g, b, content)
    BY <1>3, <1>5, <1>6, <2>3, <2>4, <2>5 DEF Hands
  <2>7. Contents(g, b) = Contents(Top, Ours)
    BY <1>6, <2>3, PureTop
  <2>. QED
    BY <2>1, <2>4, <2>6, <2>7, GoSilent
<1>9. CASE ~Less(Top.a, Top.b)
  <2> DEFINE g == [Top EXCEPT !.at = "done"]
  <2>1. Go(g, Ours)
    BY <1>9 DEF AnswerFront
  <2>2. /\ g.at = "done" /\ g.op = "pushpop" /\ g.array = Top.array
        /\ g.out = Top.given /\ g.given = Top.given /\ Carries(g, Top)
    BY <1>2, <1>3 DEF FrameType, Carries
  <2> HIDE DEF g
  <2>3. ASSUME NEW v \in Items, Bag(Ours)[v] > 0 PROVE ~(v < Top.given)
    <3>1. ~(At(Ours, 0) < Top.given)
      BY <1>3, <1>7, <1>9 DEF Less
    <3>2. At(Ours, 0) <= v
      BY <1>5, <2>3 DEF LeastIn
    <3>3. At(Ours, 0) \in Int /\ v \in Int /\ Top.given \in Int
      BY <1>3, <1>7, HeapAssumption
    <3>. QED
      BY <3>1, <3>2, <3>3
  <2>4. Hands(g, Ours, content)
    BY <1>3, <1>6, <2>2, <2>3 DEF Hands
  <2>5. Contents(g, Ours) = Contents(Top, Ours)
    <3>1. FilledBy(g, Ours) = FilledBy(Top, Ours)
      BY <1>1, <2>2 DEF FilledBy
    <3>. QED
      BY <2>2, <3>1, SameContents
  <2>. QED
    BY <2>1, <2>2, <2>4, <2>5, GoSilent
<1>. QED
  BY <1>8, <1>9

-----------------------------------------------------------------------------
(* Beginning                                                               *)

LEMMA EnterTop ==
    ASSUME IInv, IInv', Handed, Pure, Idle, NEW f, NEW a, Enter(f, a), f.array = items,
           UNCHANGED <<items, popped, history>>,
           Contents(f, a) = Bag(arrays[items]), Hands(f, a, Bag(arrays[items]))
    PROVE  Promised
<1>1. comparator' = comparator /\ popped' = popped /\ throws' = throws /\ items' = items
  BY DEF history
<1>2. /\ Types /\ frames = <<>> /\ content = Bag(arrays[items])
  BY PureFacts DEF Idle
<1>3. Pure' /\ throws' = 0
  BY <1>1 DEF Pure, Handed
<1>4. frames' = Append(frames, f) /\ arrays' = [arrays EXCEPT ![items] = a]
  BY DEF Enter
<1>5. frames \in Seq({f}) /\ Len(frames) = 0
  BY <1>2, EmptySeq
<1>6. frames' \in Seq({f}) /\ Len(frames') = 1 /\ frames'[1] = f
  <2>1. /\ Append(frames, f) \in Seq({f}) /\ Len(Append(frames, f)) = Len(frames) + 1
        /\ Append(frames, f)[Len(frames) + 1] = f
    BY <1>5, AppendProperties
  <2>. QED
    BY <1>4, <1>5, <2>1
<1>7. ~Idle' /\ Top' = f
  <2>1. Len(frames') = 0 <=> frames' = <<>>
    BY <1>6, EmptySeq
  <2>. QED
    BY <1>6, <2>1 DEF Idle, Top
<1>8. Ours' = a
  <2>1. items \in Handles /\ arrays \in [Handles -> Seq(Value)]
    BY <1>2 DEF Types
  <2>2. arrays'[items] = a
    BY <1>4, <2>1
  <2>. QED
    BY <1>7, <2>2 DEF Ours
<1>9. content' = content
  BY <1>2, <1>3, <1>7, <1>8, ContentBusyNext
<1>10. Handed'
  BY <1>2, <1>3, <1>7, <1>8, <1>9 DEF Handed
<1>. QED
  BY <1>1, <1>9, <1>10, Silently

LEMMA PushSilent ==
    ASSUME IInv, IInv', Handed, Pure, NEW v \in Items, Push(v)
    PROVE  Promised
<1> DEFINE ns == arrays[items]
           longer == Append(ns, v)
           h == Frame("push", v, 0)
           g == SiftDown(h, longer, 0, Len(longer) - 1)
<1>1. Enter(g, longer) /\ UNCHANGED <<items, popped, history>>
  BY DEF Push
<1>2. Idle
  <2>1. MayCall("push") /\ comparator.calls = {}
    BY PureFacts DEF Push
  <2>. QED
    BY <2>1 DEF MayCall, Idle
<1>3. ns \in Seq(Items)
  BY <1>2, PureFacts
<1>4. /\ longer \in Seq(Items) /\ Len(ns) \in Nat /\ Len(longer) = Len(ns) + 1
      /\ At(longer, Len(ns)) = v
  <2>1. /\ longer \in Seq(Items) /\ Len(longer) = Len(ns) + 1
        /\ \A j \in 0 .. Len(ns) : At(longer, j) = IF j = Len(ns) THEN v ELSE At(ns, j)
    BY <1>3, AppendedAt
  <2>2. Len(ns) \in Nat
    BY <1>3, LenProperties
  <2>3. Len(ns) \in 0 .. Len(ns)
    BY <2>2
  <2>. QED
    BY <2>1, <2>2, <2>3
<1>5. /\ h \in FrameType /\ h.op = "push" /\ h.given = v /\ h.out = None /\ h.array = items
  <2>1. v \in Value /\ Types
    BY PureFacts DEF Value
  <2>2. h \in FrameType
    BY <2>1, FrameTyped
  <2>. QED
    BY <2>2 DEF Frame
<1>6. ASSUME NEW w \in Items
      PROVE  Count(w, ns) \in Nat /\ Count(w, longer) = Count(w, ns) + One(v, w)
  BY <1>3, CountAppend
<1> HIDE DEF h, longer, ns
<1>7. /\ g.at = "down" /\ g.i = Len(ns) /\ g.item = v /\ g.item = At(longer, g.i)
      /\ g.op = "push" /\ g.given = v /\ g.out = None /\ g.array = items
  <2>1. Len(longer) - 1 = Len(ns)
    BY <1>4
  <2>. QED
    BY <1>4, <1>5, <2>1 DEF SiftDown, FrameType
<1> HIDE DEF g
<1>8. ASSUME NEW w \in Items PROVE Holding(g, longer, w) = Count(w, ns)
  <2>1. g.at \in Sifting /\ g.i \in Nat /\ g.i < Len(longer)
    BY <1>4, <1>7 DEF Sifting
  <2>2. Holding(g, longer, w) = Count(w, longer) + (One(None, w) - One(v, w))
    BY <1>4, <1>7, <2>1, HoleHolds
  <2>3. One(None, w) = 0 /\ One(v, w) \in Int
    BY OneTyped, HeapAssumption DEF One
  <2>. QED
    BY <1>6, <2>2, <2>3
<1>9. Contents(g, longer) = Bag(ns)
  BY <1>8 DEF Contents, Bag
<1>10. Hands(g, longer, Bag(ns))
  BY <1>7 DEF Hands
<1>. QED
  BY <1>1, <1>2, <1>7, <1>9, <1>10, EnterTop DEF ns

(* The front of the array is a least item, or the array is empty.          *)
LEMMA FrontOut ==
    ASSUME NEW a \in Seq(Items), Ordered(a, 0)
    PROVE  \/ LeastIn(Bag(a), At(a, 0))
           \/ At(a, 0) = None /\ \A w \in Items : ~(Bag(a)[w] > 0)
<1>1. CASE a = <<>>
  <2>1. Len(a) = 0
    BY <1>1, EmptySeq
  <2>2. At(a, 0) = None
    BY <2>1 DEF At
  <2>3. \A w \in Items : Bag(a)[w] = 0
    BY <1>1, CountEmpty
  <2>. QED
    BY <2>2, <2>3
<1>2. CASE a # <<>>
  BY <1>2, LeastRoot
<1>. QED
  BY <1>1, <1>2

LEMMA PoppingSilent ==
    ASSUME IInv, IInv', Handed, Pure, Idle, NEW f \in FrameType,
           f.op \in {"pop", "consume"}, f.given = None, f.array = items,
           Enter(Popping(f, arrays[items]).frame, Popping(f, arrays[items]).array),
           UNCHANGED <<items, popped, history>>
    PROVE  Promised
<1> DEFINE ns == arrays[items]
           g == Popping(f, ns).frame
           b == Popping(f, ns).array
<1>1. ns \in Seq(Items) /\ Ordered(ns, 0)
  BY PureFacts
<1>2. Contents(g, b) = Bag(ns) /\ g.given = None /\ g.out = At(ns, 0)
  BY <1>1, PoppingHolds
<1>3. g.op = f.op /\ g.array = items
  BY DEF Popping, SiftUp, FrameType
<1>4. \/ LeastIn(Bag(ns), At(ns, 0))
      \/ At(ns, 0) = None /\ \A w \in Items : ~(Bag(ns)[w] > 0)
  BY <1>1, FrontOut
<1>5. Enter(g, b)
  OBVIOUS
<1> HIDE DEF g, b, ns
<1>6. Hands(g, b, Bag(ns))
  BY <1>2, <1>3, <1>4 DEF Hands
<1>. QED
  BY <1>2, <1>3, <1>5, <1>6, EnterTop DEF ns

LEMMA CalledPure ==
    ASSUME IInv, Handed, Pure, NEW op, MayCall(op)
    PROVE  Idle
<1>1. comparator.calls = {}
  BY PureFacts
<1>. QED
  BY <1>1 DEF MayCall, Idle

LEMMA PopSilent ==
    ASSUME IInv, IInv', Handed, Pure, Pop
    PROVE  Promised
<1> DEFINE f == Frame("pop", None, 0)
<1>1. MayCall("pop") /\ UNCHANGED <<items, popped, history>>
  BY DEF Pop
<1>2. Enter(Popping(f, arrays[items]).frame, Popping(f, arrays[items]).array)
  BY DEF Pop
<1>3. Idle
  BY <1>1, CalledPure
<1>4. f \in FrameType
  BY PureFacts, FrameTyped DEF Value
<1>5. f.op = "pop" /\ f.given = None /\ f.array = items
  BY DEF Frame
<1> HIDE DEF f
<1>. QED
  BY <1>1, <1>2, <1>3, <1>4, <1>5, PoppingSilent

(* An empty heap is consumed without a round.                              *)
LEMMA ConsumeSilent ==
    ASSUME IInv, IInv', Handed, Pure, Consume
    PROVE  Promised
<1> DEFINE f == Frame("consume", None, Len(arrays[items]) - 1)
<1>1. MayCall("consume") /\ UNCHANGED <<items, popped, history>>
  BY DEF Consume
<1>2. Idle
  BY <1>1, CalledPure
<1>3. CASE arrays[items] = <<>>
  <2>1. /\ frames' = frames /\ arrays' = arrays /\ items' = items
        /\ popped' = popped /\ comparator' = comparator /\ throws' = throws
    BY <1>1, <1>3 DEF Consume, history
  <2>2. Idle' /\ Pure' /\ throws' = 0
    BY <1>2, <2>1 DEF Idle, Pure, Handed
  <2>3. Handed'
    BY <2>2 DEF Handed
  <2>4. content = Bag(arrays[items])
    BY <1>2, PureFacts
  <2>5. Types'
    BY <2>1, PureFacts DEF Pure, Tame, IInv, Kept
  <2>6. content' = Bag(arrays'[items'])
    BY <2>2, <2>5, ContentIdleNext
  <2>7. content' = content
    BY <2>1, <2>4, <2>6
  <2>. QED
    BY <2>1, <2>3, <2>7, Silently
<1>4. CASE arrays[items] # <<>>
  <2>1. Enter(Popping(f, arrays[items]).frame, Popping(f, arrays[items]).array)
    BY <1>4 DEF Consume
  <2>2. f \in FrameType
    <3>1. arrays[items] \in Seq(Value) /\ Types
      BY PureFacts DEF Types
    <3>2. Len(arrays[items]) - 1 \in Nat
      BY <1>4, <3>1, EmptySeq, LenProperties
    <3>. QED
      BY <3>1, <3>2, FrameTyped DEF Value
  <2>3. f.op = "consume" /\ f.given = None /\ f.array = items
    BY DEF Frame
  <2> HIDE DEF f
  <2>. QED
    BY <1>1, <1>2, <2>1, <2>2, <2>3, PoppingSilent
<1>. QED
  BY <1>3, <1>4

LEMMA ReplaceSilent ==
    ASSUME IInv, IInv', Handed, Pure, NEW v \in Items, Replace(v)
    PROVE  Promised
<1> DEFINE ns == arrays[items]
           f == [Frame("replace", v, 0) EXCEPT !.out = At(ns, 0)]
           b == Put(ns, 0, v)
           g == SiftUp(f, b, 0)
<1>1. MayCall("replace") /\ ns # <<>> /\ Enter(g, b) /\ UNCHANGED <<items, popped, history>>
  BY DEF Replace
<1>2. Idle
  BY <1>1, CalledPure
<1>3. ns \in Seq(Items) /\ Ordered(ns, 0)
  BY <1>2, PureFacts
<1>4. LeastIn(Bag(ns), At(ns, 0))
  BY <1>1, <1>3, LeastRoot
<1>5. /\ f \in FrameType /\ f.op = "replace" /\ f.given = v /\ f.out = At(ns, 0)
      /\ f.array = items
  <2> DEFINE h == Frame("replace", v, 0)
  <2>1. v \in Value /\ Types /\ At(ns, 0) \in Value
    BY <1>4, PureFacts DEF Value, LeastIn
  <2>2. h \in FrameType
    BY <2>1, FrameTyped
  <2>3. h.op = "replace" /\ h.given = v /\ h.array = items
    BY DEF Frame
  <2> HIDE DEF h, ns
  <2>4. f = [h EXCEPT !.out = At(ns, 0)]
    BY DEF h
  <2>. QED
    BY <2>1, <2>2, <2>3, <2>4 DEF FrameType
<1> HIDE DEF f
<1>6. Contents(g, b) = Bag(ns) /\ g.out = At(ns, 0) /\ g.given = v
  BY <1>1, <1>3, <1>5, SwapHolds
<1>7. g.op = "replace" /\ g.array = items
  BY <1>5 DEF SiftUp, FrameType
<1> HIDE DEF g, b, ns
<1>8. Hands(g, b, Bag(ns))
  BY <1>4, <1>6, <1>7 DEF Hands
<1>. QED
  BY <1>1, <1>2, <1>6, <1>7, <1>8, EnterTop DEF ns

LEMMA PushpopSilent ==
    ASSUME IInv, IInv', Handed, Pure, NEW v \in Items, Pushpop(v)
    PROVE  Promised
<1> DEFINE ns == arrays[items]
           h == Frame("pushpop", v, 0)
           f == [h EXCEPT !.out = v]
           g == [f EXCEPT !.at = "front", !.a = At(ns, 0), !.b = v]
           e == IF ns = <<>> THEN f ELSE g
<1>1. MayCall("pushpop") /\ Enter(e, ns) /\ UNCHANGED <<items, popped, history>>
  BY DEF Pushpop
<1>2. Idle
  BY <1>1, CalledPure
<1>3. ns \in Seq(Items)
  BY <1>2, PureFacts
<1>4. /\ h \in FrameType /\ h.op = "pushpop" /\ h.given = v /\ h.array = items /\ h.at = "done"
  BY PureFacts, FrameTyped DEF Value, Frame
<1> HIDE DEF h
<1>5. /\ f \in FrameType /\ f.op = "pushpop" /\ f.given = v /\ f.array = items
      /\ f.at = "done" /\ f.out = v
  BY <1>4 DEF FrameType, Value
<1> HIDE DEF f
<1>6. /\ g.op = "pushpop" /\ g.given = v /\ g.array = items
      /\ g.at = "front" /\ g.out = v /\ g.a = At(ns, 0) /\ g.b = v
  BY <1>5 DEF FrameType, Value
<1> HIDE DEF g
<1>7. /\ e.op = "pushpop" /\ e.given = v /\ e.array = items
      /\ e.at \in {"done", "front"} /\ e.out = v
  BY <1>5, <1>6
<1>8. Hands(e, ns, Bag(ns))
  <2>1. CASE ns = <<>>
    <3>1. \A w \in Items : Bag(ns)[w] = 0
      BY <1>3, <2>1, CountEmpty
    <3>. QED
      BY <1>5, <2>1, <3>1 DEF Hands
  <2>2. CASE ns # <<>>
    BY <1>6, <2>2 DEF Hands
  <2>. QED
    BY <2>1, <2>2
<1> HIDE DEF e
<1>9. ASSUME NEW w \in Items PROVE Holding(e, ns, w) = Count(w, ns)
  <2>1. Holding(e, ns, w) = Count(w, ns) + (One(v, w) - One(v, w))
    BY <1>7 DEF Holding, FilledBy
  <2>2. Count(w, ns) \in Nat /\ One(v, w) \in Int
    BY <1>3, CountSplit, OneTyped
  <2>. QED
    BY <2>1, <2>2
<1>10. Contents(e, ns) = Bag(ns)
  BY <1>9 DEF Contents, Bag
<1> HIDE DEF ns
<1>. QED
  BY <1>1, <1>2, <1>7, <1>8, <1>10, EnterTop DEF ns

LEMMA ClearRefines ==
    ASSUME IInv, IInv', Handed, Pure, Clear
    PROVE  Promised
<1>1. /\ MayCall("clear") /\ size' = 0 /\ frames' = frames /\ popped' = popped
      /\ comparator' = comparator /\ throws' = throws
  BY DEF Clear, history
<1>2. Idle
  BY <1>1, CalledPure
<1>3. Idle' /\ Pure' /\ throws' = 0 /\ comparator'.calls = {}
  BY <1>1, <1>2, PureFacts DEF Idle, Pure, Handed
<1>4. Handed'
  BY <1>3 DEF Handed
<1>5. Types' /\ Counted'
  BY <1>3 DEF Tame, IInv, Kept
<1>6. /\ size' + Due' = Len(arrays'[items']) /\ Due' = 0
      /\ arrays'[items'] \in Seq(Value)
  BY <1>3, <1>5 DEF Counted, Due, Types
<1>7. arrays'[items'] = <<>>
  <2>1. Len(arrays'[items']) = 0
    BY <1>1, <1>6
  <2>2. Len(arrays'[items']) = 0 <=> arrays'[items'] = <<>>
    BY <1>6, EmptySeq
  <2>. QED
    BY <2>1, <2>2
<1>8. content' = Bag(arrays'[items'])
  BY <1>3, <1>5, ContentIdleNext
<1>9. content' = [v \in Items |-> 0]
  <2>1. PICK a \in Seq(Items) : a = <<>>
    BY EmptySeq
  <2>2. \A v \in Items : Count(v, a) = 0
    BY <2>1, CountEmpty
  <2>3. Bag(a) = [v \in Items |-> 0]
    BY <2>2 DEF Bag
  <2>. QED
    BY <1>7, <1>8, <2>1, <2>3
<1>10. Shown' = Shown
  BY <1>1, <1>3 DEF Shown, Pure
<1>11. Abstract!Clear
  BY <1>9, <1>10 DEF Abstract!Clear, Shown
<1>. QED
  BY <1>4, <1>11 DEF Promised, Abstract!Next

-----------------------------------------------------------------------------
(* Handing out                                                             *)

(* What content is while the array is complete.                            *)
LEMMA ContentDone ==
    ASSUME IInv, Handed, Pure, ~Idle, Top.at = "done"
    PROVE  /\ Ours \in Seq(Items)
           /\ content = [v \in Items |-> Count(v, Ours) + (One(Top.out, v) - One(Top.given, v))]
           /\ \A v \in Items : Count(v, Ours) \in Nat /\ content[v] \in Int
<1>1. Ours \in Seq(Items) /\ content = Contents(Top, Ours)
  BY PureTop
<1>2. content = [v \in Items |-> Count(v, Ours) + (One(Top.out, v) - One(Top.given, v))]
  BY <1>1 DEF Contents, Holding, FilledBy
<1>3. ASSUME NEW v \in Items
      PROVE  Count(v, Ours) \in Nat /\ content[v] \in Int
  <2>1. Count(v, Ours) \in Nat /\ One(Top.out, v) \in Int /\ One(Top.given, v) \in Int
    BY <1>1, CountSplit, OneTyped
  <2>. QED
    BY <1>2, <2>1
<1>. QED
  BY <1>1, <1>2, <1>3

LEMMA Taken ==
    ASSUME NEW u, LeastIn(content, u) \/ (u = None /\ \A w \in Items : ~(content[w] > 0)),
           content = [v \in Items |-> content[v]], \A v \in Items : content[v] \in Int,
           content' = [v \in Items |-> content[v] - One(u, v)], Shown' = u
    PROVE  Abstract!Pop
<1>1. Abstract!Held = {v \in Items : content[v] > 0}
  BY DEF Abstract!Held
<1>2. CASE LeastIn(content, u)
  <2>1. u \in Items /\ content[u] > 0 /\ \A w \in Items : content[w] > 0 => u <= w
    BY <1>2 DEF LeastIn
  <2>2. Abstract!Least(u)
    BY <1>1, <2>1 DEF Abstract!Least
  <2>3. \A v \in Items : content[v] - One(u, v) = IF v = u THEN content[v] - 1 ELSE content[v]
    BY DEF One
  <2>4. content' = [content EXCEPT ![u] = @ - 1]
    BY <2>3
  <2>5. Abstract!Held # {}
    BY <1>1, <2>1
  <2>. QED
    BY <2>1, <2>2, <2>4, <2>5 DEF Abstract!Pop, Shown
<1>3. CASE u = None /\ \A w \in Items : ~(content[w] > 0)
  <2>1. Abstract!Held = {}
    BY <1>1, <1>3
  <2>2. \A v \in Items : content[v] - One(u, v) = content[v]
    BY <1>3, HeapAssumption DEF One
  <2>3. content' = content
    BY <2>2
  <2>. QED
    BY <1>3, <2>1, <2>3 DEF Abstract!Pop, Shown
<1>. QED
  BY <1>2, <1>3

LEMMA Replaced ==
    ASSUME NEW v \in Items, NEW u, LeastIn(content, u), \A w \in Items : content[w] \in Int,
           content' = [w \in Items |-> content[w] + (One(v, w) - One(u, w))], Shown' = u
    PROVE  Abstract!Replace(v)
<1>1. Abstract!Held = {w \in Items : content[w] > 0}
  BY DEF Abstract!Held
<1>2. u \in Items /\ content[u] > 0 /\ \A w \in Items : content[w] > 0 => u <= w
  BY DEF LeastIn
<1>3. Abstract!Least(u)
  BY <1>1, <1>2 DEF Abstract!Least
<1>4. ASSUME NEW w \in Items
      PROVE  content[w] + (One(v, w) - One(u, w))
                 = content[w] + (IF w = v THEN 1 ELSE 0) - (IF w = u THEN 1 ELSE 0)
  <2>1. One(v, w) = (IF w = v THEN 1 ELSE 0) /\ One(u, w) = (IF w = u THEN 1 ELSE 0)
    BY DEF One
  <2>2. content[w] \in Int /\ One(v, w) \in Int /\ One(u, w) \in Int
    BY OneTyped
  <2>3. content[w] + (One(v, w) - One(u, w)) = content[w] + One(v, w) - One(u, w)
    BY <2>2
  <2>. QED
    BY <2>1, <2>3
<1>5. content' = [w \in Items |->
          content[w] + (IF w = v THEN 1 ELSE 0) - (IF w = u THEN 1 ELSE 0)]
  BY <1>4
<1>. QED
  BY <1>2, <1>3, <1>5 DEF Abstract!Replace, Shown

(* The operation returns, and the array it worked on is the heap's.        *)
LEMMA Returned ==
    ASSUME IInv, IInv', Handed, Pure, ~Idle, Finish, Top.left = 0
    PROVE  /\ Pure' /\ Handed' /\ comparator' = comparator
           /\ content' = Bag(Ours) /\ Shown' = popped' /\ Shown = popped
<1>1. /\ frames' = Return /\ arrays' = Collected(arrays, items', Return)
      /\ comparator' = comparator /\ throws' = throws
      /\ items' = IF Top.op = "from" THEN Top.array ELSE items
  BY DEF Finish, history
<1>2. /\ Types /\ Len(frames) = 1 /\ Top \in FrameType
      /\ Top.op # "from" => Top.array = items
  BY PureFacts DEF Sound
<1>3. Return = <<>>
  <2>1. frames \in Seq(FrameType) /\ Len(frames) - 1 = 0
    BY <1>2 DEF Types
  <2>2. /\ SubSeq(frames, 1, 0) \in Seq(FrameType)
        /\ Len(SubSeq(frames, 1, 0)) = IF 1 <= 0 THEN 0 - 1 + 1 ELSE 0
    <3>1. \A k \in 1 .. 0 : frames[k] \in FrameType
      OBVIOUS
    <3>. QED
      BY <3>1, SubSeqProperties
  <2>3. Return = SubSeq(frames, 1, 0)
    BY <2>1 DEF Return
  <2>4. Return \in Seq(FrameType) /\ Len(Return) = 0
    BY <2>2, <2>3
  <2>. QED
    BY <2>4, EmptySeq
<1>4. Idle' /\ Pure' /\ Shown' = popped' /\ Shown = popped
  BY <1>1, <1>3 DEF Idle, Pure, Shown
<1>5. throws' = 0
  BY <1>1 DEF Handed
<1>6. Handed'
  BY <1>4, <1>5 DEF Handed
<1>7. Types'
  BY <1>4 DEF Pure, Tame, IInv, Kept
<1>8. content' = Bag(arrays'[items'])
  BY <1>4, <1>7, ContentIdleNext
<1>9. items' = Top.array /\ items' \in Handles
  BY <1>1, <1>2 DEF FrameType
<1>10. arrays'[items'] = arrays[items']
  BY <1>1, <1>9 DEF Collected
<1>. QED
  BY <1>1, <1>4, <1>6, <1>8, <1>9, <1>10 DEF Ours

(* consume and heapify have another round.                                 *)
LEMMA AgainRefines ==
    ASSUME IInv, IInv', Handed, Pure, ~Idle, Finish, Top.left # 0
    PROVE  Promised
<1>1. Top.at = "done"
  BY DEF Finish, Running
<1>2. /\ Ours \in Seq(Items) /\ Len(Ours) \in Nat /\ Top \in FrameType
      /\ Top.op \in {"consume", "from"} /\ Top.left \in Nat \ {0}
      /\ Top.op = "from" => Top.left <= Len(Ours)
      /\ Hands(Top, Ours, content) /\ Ordered(Ours, Base(Top))
  <2>1. /\ Ours \in Seq(Items) /\ Len(Ours) \in Nat /\ Top \in FrameType
        /\ InRange(Top, Len(Ours)) /\ InOrder(Top, Ours) /\ Hands(Top, Ours, content)
    BY PureTop
  <2>2. Top.left \in Nat \ {0}
    BY <2>1 DEF FrameType
  <2>. QED
    BY <1>1, <2>1, <2>2 DEF InRange, InOrder
<1>3. /\ content = [v \in Items |-> Count(v, Ours) + (One(Top.out, v) - One(Top.given, v))]
      /\ \A v \in Items : Count(v, Ours) \in Nat /\ content[v] \in Int
  BY <1>1, ContentDone
<1>4. Top.given = None
  BY <1>2 DEF Hands
<1>5. ASSUME NEW v \in Items
      PROVE  /\ One(None, v) = 0 /\ One(Top.out, v) \in Int
             /\ content[v] = Count(v, Ours) + (One(Top.out, v) - One(None, v))
  BY <1>3, <1>4, OneTyped, HeapAssumption DEF One
<1>6. comparator' = comparator
  BY DEF Finish, history
<1>7. Shown = popped /\ Shown' = popped'
  BY <1>6 DEF Shown, Pure
<1> DEFINE f == [Top EXCEPT !.left = @ - 1]
<1>8. /\ f \in FrameType /\ f.given = None /\ f.out = Top.out /\ f.op = Top.op
      /\ f.array = Top.array
  <2>1. Top.left - 1 \in Nat
    BY <1>2
  <2>. QED
    BY <1>2, <1>4, <2>1 DEF FrameType
<1>9. CASE Top.op = "from"
  <2> DEFINE g == SiftUp(f, Ours, Top.left - 1)
  <2>1. frames' = Resume(g) /\ arrays' = arrays /\ popped' = popped
    BY <1>9 DEF Finish
  <2>2. Resumed(g, Ours)
    <3>1. arrays \in [Handles -> Seq(Value)] /\ Top.array \in Handles
      BY <1>2, PureFacts DEF Types, FrameType
    <3>2. arrays = [arrays EXCEPT ![Top.array] = Ours]
      BY <3>1 DEF Ours
    <3>. QED
      BY <2>1, <3>2 DEF Resumed, Finish
  <2> HIDE DEF f
  <2>3. /\ g.at = "up" /\ g.i = Top.left - 1 /\ g.item = At(Ours, g.i)
        /\ g.out = Top.out /\ g.given = None /\ g.op = "from" /\ g.array = Top.array
    BY <1>8, <1>9 DEF SiftUp, FrameType
  <2> HIDE DEF g
  <2>4. Top.out = None
    BY <1>2, <1>9 DEF Hands
  <2>5. ASSUME NEW v \in Items PROVE Holding(g, Ours, v) = content[v]
    <3>1. g.at \in Sifting /\ g.i \in Nat /\ g.i < Len(Ours)
      BY <1>2, <1>9, <2>3 DEF Sifting
    <3>2. Holding(g, Ours, v) = Count(v, Ours) + (One(g.out, v) - One(g.given, v))
      BY <1>2, <2>3, <3>1, HoleHolds
    <3>. QED
      BY <1>5, <2>3, <3>2
  <2>6. content' = content
    <3>1. content' = Contents(g, Ours)
      BY <2>2, <2>3, GoTop
    <3>2. content = [v \in Items |-> content[v]]
      BY <1>3
    <3>. QED
      BY <2>5, <3>1, <3>2 DEF Contents
  <2>7. Hands(g, Ours, content')
    BY <2>3, <2>4 DEF Hands
  <2>8. Handed'
    BY <2>2, <2>3, <2>7, GoTop
  <2>. QED
    BY <1>6, <2>1, <2>6, <2>8, Silently
<1>10. CASE Top.op = "consume"
  <2> DEFINE g == Popping(f, Ours).frame
             b == Popping(f, Ours).array
  <2>1. Resumed(g, b) /\ popped' = Top.out
    BY <1>10 DEF Finish, Resumed
  <2>2. Contents(g, b) = Bag(Ours) /\ g.given = None /\ g.out = At(Ours, 0)
    BY <1>2, <1>8, PoppingHolds
  <2>3. g.op = "consume" /\ g.array = Top.array
    BY <1>8, <1>10 DEF Popping, SiftUp, FrameType
  <2> HIDE DEF f, g, b
  <2>4. content' = Bag(Ours)
    BY <2>1, <2>2, <2>3, GoTop
  <2>5. Ordered(Ours, 0)
    BY <1>2, <1>10 DEF Base
  <2>6. \/ LeastIn(Bag(Ours), At(Ours, 0))
        \/ At(Ours, 0) = None /\ \A w \in Items : ~(Bag(Ours)[w] > 0)
    BY <1>2, <2>5, FrontOut
  <2>7. Hands(g, b, content')
    BY <2>2, <2>3, <2>4, <2>6 DEF Hands
  <2>8. Handed'
    BY <2>1, <2>3, <2>7, GoTop
  <2>9. content' = [v \in Items |-> content[v] - One(Top.out, v)]
    <3>1. ASSUME NEW v \in Items PROVE Count(v, Ours) = content[v] - One(Top.out, v)
      <4>1. Count(v, Ours) \in Nat
        BY <1>3
      <4>2. /\ One(None, v) = 0 /\ One(Top.out, v) \in Int
            /\ content[v] = Count(v, Ours) + (One(Top.out, v) - One(None, v))
        BY <1>5
      <4>. QED
        BY <4>1, <4>2
    <3>. QED
      BY <2>4, <3>1 DEF Bag
  <2>10. /\ LeastIn(content, Top.out) \/ (Top.out = None /\ \A w \in Items : ~(content[w] > 0))
         /\ content = [v \in Items |-> content[v]] /\ \A v \in Items : content[v] \in Int
    BY <1>2, <1>3, <1>10 DEF Hands
  <2>11. Abstract!Pop
    BY <1>7, <2>1, <2>9, <2>10, Taken
  <2>. QED
    BY <2>8, <2>11 DEF Promised, Abstract!Next
<1>. QED
  BY <1>2, <1>9, <1>10

LEMMA FinishRefines ==
    ASSUME IInv, IInv', Handed, Pure, ~Idle, Finish
    PROVE  Promised
<1>1. CASE Top.left # 0
  BY <1>1, AgainRefines
<1>2. CASE Top.left = 0
  <2>1. /\ Handed' /\ comparator' = comparator
        /\ content' = Bag(Ours) /\ Shown' = popped' /\ Shown = popped
    BY <1>2, Returned
  <2>2. Top.at = "done" /\ popped' = IF Top.op \in {"push", "from"} THEN popped ELSE Top.out
    BY DEF Finish, Running
  <2>3. /\ content = [v \in Items |-> Count(v, Ours) + (One(Top.out, v) - One(Top.given, v))]
        /\ \A v \in Items : Count(v, Ours) \in Nat /\ content[v] \in Int
    BY <2>2, ContentDone
  <2>4. Top \in FrameType /\ Hands(Top, Ours, content)
    BY PureTop
  <2>5. ASSUME NEW v \in Items
        PROVE  /\ One(None, v) = 0 /\ One(Top.out, v) \in Int /\ One(Top.given, v) \in Int
               /\ content[v] \in Int /\ Count(v, Ours) \in Int
               /\ content[v] = Count(v, Ours) + (One(Top.out, v) - One(Top.given, v))
               /\ content'[v] = Count(v, Ours)
    BY <2>1, <2>3, OneTyped, HeapAssumption DEF One, Bag
  <2>6. content' = [v \in Items |-> content'[v]] /\ content = [v \in Items |-> content[v]]
    BY <2>1, <2>3 DEF Bag
  <2>7. CASE Top.op = "from"
    <3>1. Top.out = None /\ Top.given = None /\ popped' = popped
      BY <2>2, <2>4, <2>7 DEF Hands
    <3>2. ASSUME NEW v \in Items PROVE content'[v] = content[v]
      BY <2>5, <3>1
    <3>3. content' = content
      BY <2>6, <3>2
    <3>. QED
      BY <2>1, <3>1, <3>3, Silently
  <2>8. CASE Top.op = "push"
    <3>1. Top.out = None /\ Top.given \in Items /\ popped' = popped
      BY <2>2, <2>4, <2>8 DEF Hands
    <3>2. ASSUME NEW v \in Items
          PROVE  content'[v] = IF v = Top.given THEN content[v] + 1 ELSE content[v]
      <4>1. content'[v] = content[v] + One(Top.given, v)
        BY <2>5, <3>1
      <4>2. CASE v = Top.given
        BY <4>1, <4>2 DEF One
      <4>3. CASE v # Top.given
        BY <2>5, <4>1, <4>3 DEF One
      <4>. QED
        BY <4>2, <4>3
    <3>3. content' = [content EXCEPT ![Top.given] = @ + 1]
      BY <2>6, <3>1, <3>2
    <3>4. Abstract!Push(Top.given)
      BY <2>1, <3>1, <3>3 DEF Abstract!Push, Shown
    <3>. QED
      BY <2>1, <3>1, <3>4 DEF Promised, Abstract!Next
  <2>9. CASE Top.op \in {"pop", "consume"}
    <3>1. /\ Top.given = None /\ popped' = Top.out
          /\ LeastIn(content, Top.out) \/ (Top.out = None /\ \A w \in Items : ~(content[w] > 0))
      BY <2>2, <2>4, <2>9 DEF Hands
    <3>2. ASSUME NEW v \in Items PROVE content'[v] = content[v] - One(Top.out, v)
      BY <2>5, <3>1
    <3>3. content' = [v \in Items |-> content[v] - One(Top.out, v)]
      BY <2>6, <3>2
    <3>4. Abstract!Pop
      BY <2>1, <2>3, <2>6, <3>1, <3>3, Taken
    <3>. QED
      BY <2>1, <3>4 DEF Promised, Abstract!Next
  <2>10. CASE Top.op \in {"replace", "pushpop"}
    <3>1. Top.given \in Items /\ popped' = Top.out
      BY <2>2, <2>4, <2>10 DEF Hands
    <3>2. ASSUME NEW v \in Items
          PROVE  content'[v] = content[v] + (One(Top.given, v) - One(Top.out, v))
      BY <2>5
    <3>3. content' = [v \in Items |-> content[v] + (One(Top.given, v) - One(Top.out, v))]
      BY <2>6, <3>2
    <3>4. LeastIn(content, Top.out) => Abstract!Replace(Top.given)
      BY <2>1, <2>3, <3>1, <3>3, Replaced
    <3>5. CASE Top.op = "replace"
      <4>1. Abstract!Replace(Top.given)
        BY <2>4, <3>4, <3>5 DEF Hands
      <4>. QED
        BY <2>1, <3>1, <4>1 DEF Promised, Abstract!Next
    <3>6. CASE Top.op = "pushpop" /\ LeastIn(content, Top.out) /\ Top.out < Top.given
      <4>1. \E u \in Abstract!Held : u < Top.given
        BY <3>6 DEF LeastIn, Abstract!Held
      <4>2. Abstract!Pushpop(Top.given)
        BY <3>4, <3>6, <4>1 DEF Abstract!Pushpop
      <4>. QED
        BY <2>1, <3>1, <4>2 DEF Promised, Abstract!Next
    <3>7. CASE /\ Top.op = "pushpop" /\ Top.out = Top.given
               /\ \A w \in Items : content[w] > 0 => ~(w < Top.given)
      <4>1. ~\E u \in Abstract!Held : u < Top.given
        BY <3>7 DEF Abstract!Held
      <4>2. ASSUME NEW v \in Items PROVE content'[v] = content[v]
        BY <2>5, <3>2, <3>7
      <4>3. content' = content
        BY <2>6, <4>2
      <4>4. Abstract!Pushpop(Top.given)
        BY <2>1, <3>1, <3>7, <4>1, <4>3 DEF Abstract!Pushpop, Shown
      <4>. QED
        BY <2>1, <3>1, <4>4 DEF Promised, Abstract!Next
    <3>. QED
      BY <2>2, <2>4, <2>10, <3>5, <3>6, <3>7 DEF Hands
  <2>. QED
    BY <2>4, <2>7, <2>8, <2>9, <2>10 DEF FrameType
<1>. QED
  BY <1>1, <1>2

LEMMA PureRefines ==
    ASSUME IInv, IInv', Handed, Pure, Next
    PROVE  Promised
<1>1. CASE \E v \in Items : Push(v) \/ Replace(v) \/ Pushpop(v)
  BY <1>1, PushSilent, ReplaceSilent, PushpopSilent
<1>2. CASE Pop \/ Consume \/ Clear
  BY <1>2, PopSilent, ConsumeSilent, ClearRefines
<1>3. CASE Up \/ AnswerRight \/ Down \/ AnswerParent \/ AnswerFront \/ Finish
  <2>1. ~Idle
    BY <1>3 DEF Up, AnswerRight, Down, AnswerParent, AnswerFront, Finish, Running, Idle
  <2>. QED
    BY <1>3, <2>1, UpSilent, AnswerRightSilent, DownSilent, AnswerParentSilent,
       AnswerFrontSilent, FinishRefines
<1>4. CASE Throw
  <2>1. comparator.throws = 0 /\ throws = 0 /\ throws < comparator.throws
    BY <1>4 DEF Throw, Handed, Pure
  <2>. QED
    BY <2>1
<1>. QED
  BY <1>1, <1>2, <1>3, <1>4 DEF Next

(* Beside a comparator that does more than answer nothing is promised.     *)
LEMMA NextRefines ==
    ASSUME IInv, IInv', Handed, [Next]_vars
    PROVE  Promised
<1>1. CASE UNCHANGED vars
  <2>1. /\ frames' = frames /\ arrays' = arrays /\ items' = items /\ throws' = throws
        /\ popped' = popped /\ comparator' = comparator
    BY <1>1 DEF vars
  <2>2. Top' = Top /\ Ours' = Ours /\ (Idle' <=> Idle) /\ (Pure' <=> Pure)
    BY <2>1 DEF Top, Ours, Idle, Pure
  <2>3. content' = content
    <3>1. filled' = filled
      BY <2>1, <2>2 DEF filled
    <3>. QED
      BY <2>2, <3>1 DEF content
  <2>4. Handed'
    BY <2>1, <2>2, <2>3 DEF Handed
  <2>. QED
    BY <2>1, <2>3, <2>4, Silently
<1>2. CASE Next
  <2>1. CASE Pure
    BY <1>2, <2>1, PureRefines
  <2>2. CASE ~Pure
    <3>1. comparator' = comparator
      BY <1>2 DEF Next, Push, Pop, Replace, Pushpop, Consume, Clear, Up, AnswerRight, Down,
                  AnswerParent, AnswerFront, Finish, Throw, Lower, Go, history
    <3>2. ~Pure'
      BY <2>2, <3>1 DEF Pure
    <3>3. content = [v \in Items |-> 0] /\ content' = [v \in Items |-> 0]
      BY <2>2, <3>2 DEF content
    <3>4. Shown = None /\ Shown' = None
      BY <2>2, <3>2 DEF Shown
    <3>5. Handed'
      BY <3>2 DEF Handed
    <3>. QED
      BY <3>3, <3>4, <3>5 DEF Promised
  <2>. QED
    BY <2>1, <2>2
<1>. QED
  BY <1>1, <1>2

LEMMA InitRefines ==
    ASSUME Init
    PROVE  Handed /\ Abstract!Init
<1>1. throws = 0 /\ popped = None /\ items = 1 /\ comparator \in Comparators
  BY DEF Init
<1>2. IInv
  BY InitKeeps DEF IInv
<1>3. Pure => Types
  BY <1>2 DEF IInv, Kept, Tame, Pure
<1>4. ASSUME Pure, ~Idle
      PROVE  /\ Len(frames) = 1 /\ Top.op = "from" /\ Top.at = "done"
             /\ Top.given = None /\ Top.out = None
  <2>1. PICK n \in Nat : frames = <<[Frame("from", None, n \div 2) EXCEPT !.array = 2]>>
    BY <1>4 DEF Init, Idle
  <2> DEFINE h == Frame("from", None, n \div 2)
             f == [h EXCEPT !.array = 2]
  <2>2. h.op = "from" /\ h.at = "done" /\ h.given = None /\ h.out = None
    BY DEF Frame
  <2>3. f.op = "from" /\ f.at = "done" /\ f.given = None /\ f.out = None
    BY <2>2 DEF Frame
  <2> HIDE DEF f
  <2>4. frames = <<f>>
    BY <2>1 DEF f
  <2>5. Len(frames) = 1 /\ frames[1] = f
    BY <2>4
  <2>6. Top = f
    BY <2>5 DEF Top
  <2>. QED
    BY <2>3, <2>5, <2>6
<1>5. Handed
  BY <1>1, <1>4 DEF Handed, Hands
<1>6. content \in [Items -> Nat]
  <2>1. CASE Pure /\ Idle
    <3>1. content = Bag(arrays[items]) /\ arrays[items] \in Seq(Value)
      BY <1>3, <2>1, ContentIdle DEF Types
    <3>2. \A v \in Items : Count(v, arrays[items]) \in Nat
      BY <3>1, CountSplit
    <3>. QED
      BY <3>1, <3>2 DEF Bag
  <2>2. CASE Pure /\ ~Idle
    <3>1. Ours \in Seq(Items)
      BY <1>2, <1>5, <2>2, PureTop
    <3>2. content = Contents(Top, Ours)
      BY <2>2, ContentBusy
    <3>3. ASSUME NEW v \in Items PROVE Holding(Top, Ours, v) \in Nat
      <4>1. Holding(Top, Ours, v) = Count(v, Ours) + (One(None, v) - One(None, v))
        BY <1>4, <2>2 DEF Holding, FilledBy
      <4>2. Count(v, Ours) \in Nat /\ One(None, v) \in Int
        BY <3>1, CountSplit, OneTyped
      <4>. QED
        BY <4>1, <4>2
    <3>. QED
      BY <3>2, <3>3 DEF Contents
  <2>3. CASE ~Pure
    <3>1. content = [v \in Items |-> 0]
      BY <2>3 DEF content
    <3>. QED
      BY <3>1
  <2>. QED
    BY <2>1, <2>2, <2>3
<1>7. Abstract!Init
  BY <1>1, <1>6 DEF Abstract!Init
<1>. QED
  BY <1>5, <1>7

(* With a comparator that only answers, structures/heap.rs is a priority   *)
(* queue, for any items and any length: push puts its item in, pop, every  *)
(* round of consume, replace and pushpop hand out a least one of those in  *)
(* the queue, from_items starts from what it is given, and no step of a    *)
(* sift loses an item or has one twice.                                    *)
THEOREM QueueImplemented == Spec => ImplementsPriorityQueue
<1>1. Init => Handed /\ Abstract!Init
  BY InitRefines
<1>2. IInv /\ IInv' /\ Handed /\ [Next]_vars => Handed' /\ [Abstract!Next]_<<content, Shown>>
  BY NextRefines DEF Promised
<1>3. Spec => []IInv
  BY Invariant
<1>. QED
  BY <1>1, <1>2, <1>3, PTL DEF Spec, ImplementsPriorityQueue, Abstract!Spec, Shown
=============================================================================
