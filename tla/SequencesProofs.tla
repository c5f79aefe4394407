--------------------------- MODULE SequencesProofs --------------------------
(***************************************************************************)
(* What holds of the eight linear structures for every capacity, block     *)
(* size, number of items and surplus: their layouts are sound, their reads *)
(* answer as their contents do, their walks report what they should and    *)
(* never anything twice, and each of them is a list (ListSpec).            *)
(*                                                                         *)
(* Each has an inductive invariant of its own; SeqInv is that of the       *)
(* structure the behaviour is about.  They say three things together:      *)
(* where the items are (the window of a ring, what a queue has not         *)
(* compacted away, the way through the arena of a list), that no two slots *)
(* have the same item (Numbered), and that what a walk has seen is not     *)
(* ahead of it (Once), whatever was called since it opened.                *)
(***************************************************************************)
EXTENDS MCSequences, FunctionTheorems, SequenceTheorems, WellFoundedInduction, TLAPS

R(overwrites) == INSTANCE Ring WITH items <- store, start <- first, Overwrites <- overwrites

-----------------------------------------------------------------------------
(* Remainders.                                                             *)

LEMMA ModRange ==
    ASSUME NEW c \in Nat \ {0}, NEW a \in Nat
    PROVE  (a % c) \in 0 .. c - 1
  OBVIOUS

LEMMA ModSmall ==
    ASSUME NEW c \in Nat \ {0}, NEW a \in 0 .. 2 * c - 1
    PROVE  (a % c) = IF a < c THEN a ELSE a - c
<1>1. CASE a \in 0 .. c - 1  BY <1>1
<1>2. CASE a \in c .. 2 * c - 1  BY <1>2
<1> QED BY <1>1, <1>2

LEMMA DivMod ==
    ASSUME NEW c \in Nat \ {0}, NEW a \in Nat
    PROVE  /\ (a \div c) \in Nat
           /\ (a % c) \in 0 .. c - 1
           /\ a = ((a \div c) * c) + (a % c)
  OBVIOUS

LEMMA DivModOf ==
    ASSUME NEW c \in Nat \ {0}, NEW q \in Nat, NEW r \in 0 .. c - 1
    PROVE  /\ ((q * c) + r) % c = r
           /\ ((q * c) + r) \div c = q
  OBVIOUS

LEMMA ModShift ==
    ASSUME NEW c \in Nat \ {0}, NEW a \in Nat
    PROVE  ((a + c) % c) = (a % c)
<1> DEFINE q == a \div c
           r == a % c
<1>1. q \in Nat /\ r \in 0 .. c - 1 /\ a = (q * c) + r
  BY DivMod
<1>2. q + 1 \in Nat /\ a + c = ((q + 1) * c) + r
  BY <1>1
<1> HIDE DEF q, r
<1>3. (((q + 1) * c) + r) % c = r
  BY <1>1, <1>2, DivModOf
<1> QED BY <1>2, <1>3 DEF r

-----------------------------------------------------------------------------
(* Histories of walks.                                                     *)

(* What an array has are items that have arrived, each in one slot.        *)
Numbered(array, n) ==
    /\ \A s \in DOMAIN array : array[s] \in 0 .. n \cup {None}
    /\ \A s, t \in DOMAIN array :
           array[s] = array[t] /\ array[s] \in 1 .. n => s = t

(* A walk has passed the slots in which the items are that it has seen.    *)
Once(array, passed, seen, n) ==
    /\ seen \in Seq(0 .. n)
    /\ \A i \in DOMAIN seen, s \in DOMAIN array :
           array[s] = seen[i] /\ seen[i] # 0 => s \in passed
    /\ \A i, j \in DOMAIN seen : i # j /\ seen[i] # 0 => seen[i] # seen[j]

LEMMA NoneNoInt == None \notin Int
  BY SequencesAssumption

LEMMA NumberedAfter ==
    ASSUME NEW n \in Nat, NEW m \in {n, n + 1}, NEW a, NEW b, NEW s0, Numbered(a, n),
           \A s \in DOMAIN b :
               \/ s = s0 /\ b[s] = m /\ m = n + 1
               \/ s \in DOMAIN a /\ b[s] = a[s]
               \/ b[s] \in {0, None}
    PROVE  Numbered(b, m)
  BY NoneNoInt DEF Numbered

LEMMA OnceAfter ==
    ASSUME NEW n \in Nat, NEW m \in {n, n + 1}, NEW a, NEW b, NEW s0, NEW passed, NEW seen,
           Once(a, passed, seen, n),
           \A s \in DOMAIN b :
               \/ s = s0 /\ b[s] = m /\ m = n + 1
               \/ s \in DOMAIN a /\ b[s] = a[s]
               \/ b[s] \in {0, None}
    PROVE  Once(b, passed, seen, m)
<1>1. seen \in Seq(0 .. m)
  BY DEF Once
<1>2. \A i \in DOMAIN seen : seen[i] \in 0 .. n
  BY DEF Once
<1>3. ASSUME NEW i \in DOMAIN seen, NEW s \in DOMAIN b, b[s] = seen[i], seen[i] # 0
      PROVE  s \in passed
  BY <1>2, <1>3, NoneNoInt DEF Once
<1> QED BY <1>1, <1>3 DEF Once

LEMMA OnceReports ==
    ASSUME NEW n \in Nat, NEW a, NEW passed, NEW seen, NEW s0 \in DOMAIN a,
           Numbered(a, n), Once(a, passed, seen, n), s0 \notin passed, a[s0] # None
    PROVE  Once(a, passed \cup {s0}, Append(seen, a[s0]), n)
<1> DEFINE x == a[s0]
           more == Append(seen, x)
<1>1. x \in 0 .. n
  BY DEF Numbered
<1>2. seen \in Seq(0 .. n)
  BY DEF Once
<1>3. /\ more \in Seq(0 .. n) /\ DOMAIN more = 1 .. Len(seen) + 1 /\ Len(seen) \in Nat
      /\ DOMAIN seen = 1 .. Len(seen)
      /\ \A i \in DOMAIN seen : more[i] = seen[i] /\ more[i] \in 0 .. n
      /\ more[Len(seen) + 1] = x
  BY <1>1, <1>2
<1> HIDE DEF more, x
<1>4. ASSUME NEW i \in DOMAIN more, NEW s \in DOMAIN a, a[s] = more[i], more[i] # 0
      PROVE  s \in passed \cup {s0}
  <2>1. CASE i \in DOMAIN seen
    BY <2>1, <1>3, <1>4 DEF Once
  <2>2. CASE i = Len(seen) + 1
    BY <2>2, <1>1, <1>3, <1>4 DEF Numbered, x
  <2> QED BY <2>1, <2>2, <1>3
<1>5. ASSUME NEW i \in DOMAIN more, NEW j \in DOMAIN more, i # j, more[i] # 0
      PROVE  more[i] # more[j]
  <2>1. CASE i \in DOMAIN seen /\ j \in DOMAIN seen
    BY <2>1, <1>3, <1>5 DEF Once
  <2>2. CASE i = Len(seen) + 1 /\ j \in DOMAIN seen
    BY <2>2, <1>3, <1>5 DEF Once, x
  <2>3. CASE j = Len(seen) + 1 /\ i \in DOMAIN seen
    BY <2>3, <1>3, <1>5 DEF Once, x
  <2> QED BY <2>1, <2>2, <2>3, <1>3, <1>5
<1> QED BY <1>3, <1>4, <1>5 DEF Once, more, x

LEMMA OncePasses ==
    ASSUME NEW n \in Nat, NEW a, NEW passed, NEW more, NEW seen,
           Once(a, passed, seen, n), passed \subseteq more
    PROVE  Once(a, more, seen, n)
  BY DEF Once

LEMMA OnceNothing ==
    ASSUME NEW n \in Nat, NEW a, NEW passed
    PROVE  Once(a, passed, <<>>, n)
<1>1. <<>> \in Seq(0 .. n) /\ DOMAIN <<>> = {}
  OBVIOUS
<1> QED BY <1>1 DEF Once

(* The state of an iterator that captured one of frozens.                  *)
Cursor(frozens, n) ==
    [frozen : frozens, len : Nat, ordinal : Nat, seen : Seq(0 .. n),
     fresh : BOOLEAN, ended : BOOLEAN]

CursorDisturbed(w) == [w EXCEPT !.fresh = FALSE]

CursorEnded(w) == [w EXCEPT !.ended = TRUE]

CursorMoved(w, x) ==
    [w EXCEPT !.ordinal = @ + 1, !.seen = IF x = None THEN @ ELSE Append(@, x)]

LEMMA DisturbedFields ==
    ASSUME NEW frozens, NEW n \in Nat, NEW m \in {n, n + 1}, NEW w \in Cursor(frozens, n)
    PROVE  /\ CursorDisturbed(w) \in Cursor(frozens, m)
           /\ CursorDisturbed(w).frozen = w.frozen /\ CursorDisturbed(w).len = w.len /\ CursorDisturbed(w).ordinal = w.ordinal
           /\ CursorDisturbed(w).seen = w.seen /\ ~CursorDisturbed(w).fresh /\ CursorDisturbed(w).ended = w.ended
<1>1. Seq(0 .. n) \subseteq Seq(0 .. m)
  OBVIOUS
<1> QED BY <1>1 DEF Cursor, CursorDisturbed

LEMMA EndedFields ==
    ASSUME NEW frozens, NEW n \in Nat, NEW w \in Cursor(frozens, n)
    PROVE  /\ CursorEnded(w) \in Cursor(frozens, n)
           /\ CursorEnded(w).frozen = w.frozen /\ CursorEnded(w).len = w.len /\ CursorEnded(w).ordinal = w.ordinal
           /\ CursorEnded(w).seen = w.seen /\ CursorEnded(w).fresh = w.fresh /\ CursorEnded(w).ended
  BY DEF Cursor, CursorEnded

LEMMA MovedFields ==
    ASSUME NEW frozens, NEW n \in Nat, NEW w \in Cursor(frozens, n), NEW x \in 0 .. n \cup {None}
    PROVE  /\ CursorMoved(w, x) \in Cursor(frozens, n)
           /\ CursorMoved(w, x).frozen = w.frozen /\ CursorMoved(w, x).len = w.len /\ CursorMoved(w, x).ordinal = w.ordinal + 1
           /\ CursorMoved(w, x).seen = (IF x = None THEN w.seen ELSE Append(w.seen, x))
           /\ CursorMoved(w, x).fresh = w.fresh /\ CursorMoved(w, x).ended = w.ended
<1> DEFINE more == IF x = None THEN w.seen ELSE Append(w.seen, x)
<1>1. w.seen \in Seq(0 .. n)
  BY DEF Cursor
<1>2. more \in Seq(0 .. n)
  <2>1. CASE x = None  BY <2>1, <1>1
  <2>2. CASE x # None
    <3>1. x \in 0 .. n  BY <2>2
    <3>2. Append(w.seen, x) \in Seq(0 .. n)  BY <1>1, <3>1
    <3> QED BY <2>2, <3>2
  <2> QED BY <2>1, <2>2
<1>3. CursorMoved(w, x) = [w EXCEPT !.ordinal = @ + 1, !.seen = more]
  BY DEF CursorMoved
<1> DEFINE mid == [w EXCEPT !.ordinal = @ + 1]
           next == CursorMoved(w, x)
<1>5. /\ mid \in Cursor(frozens, n)
      /\ mid.frozen = w.frozen /\ mid.len = w.len /\ mid.ordinal = w.ordinal + 1
      /\ mid.fresh = w.fresh /\ mid.ended = w.ended
  BY DEF Cursor
<1>6. next = [mid EXCEPT !.seen = more]
  BY <1>3
<1> HIDE DEF more, mid, next
<1>4. /\ next \in Cursor(frozens, n)
      /\ next.frozen = w.frozen /\ next.len = w.len /\ next.ordinal = w.ordinal + 1
      /\ next.seen = more
      /\ next.fresh = w.fresh /\ next.ended = w.ended
  BY <1>2, <1>5, <1>6 DEF Cursor
<1> QED BY <1>4 DEF more, next

-----------------------------------------------------------------------------
(* What makes a sequence that is known by its elements the result of an    *)
(* operator on sequences.                                                  *)

LEMMA IsAppend ==
    ASSUME NEW S, NEW s \in Seq(S), NEW t \in Seq(S), NEW x \in S,
           Len(t) = Len(s) + 1, t[Len(s) + 1] = x, \A i \in 1 .. Len(s) : t[i] = s[i]
    PROVE  t = Append(s, x)
<1> DEFINE u == Append(s, x)
<1>1. /\ u \in Seq(S) /\ Len(u) = Len(s) + 1 /\ u[Len(s) + 1] = x
      /\ \A i \in 1 .. Len(s) : u[i] = s[i]
  OBVIOUS
<1> HIDE DEF u
<1>2. Len(s) \in Nat /\ 1 .. Len(s) + 1 = 1 .. Len(s) \cup {Len(s) + 1}
  OBVIOUS
<1>3. Len(t) = Len(u) /\ \A i \in 1 .. Len(t) : t[i] = u[i]
  BY <1>1, <1>2
<1> QED BY <1>1, <1>3, SeqEqual DEF u

LEMMA SubSeqIs ==
    ASSUME NEW S, NEW s \in Seq(S), NEW m \in 1 .. Len(s) + 1, NEW n \in m - 1 .. Len(s)
    PROVE  /\ SubSeq(s, m, n) \in Seq(S) /\ Len(SubSeq(s, m, n)) = (n - m) + 1
           /\ \A i \in 1 .. Len(SubSeq(s, m, n)) : SubSeq(s, m, n)[i] = s[i + (m - 1)]
  BY SubSeqProperties

LEMMA IsSubSeq ==
    ASSUME NEW S, NEW s \in Seq(S), NEW t \in Seq(S), NEW m \in 1 .. Len(s) + 1, NEW n \in m - 1 .. Len(s),
           Len(t) = (n - m) + 1, \A i \in 1 .. Len(t) : t[i] = s[i + (m - 1)]
    PROVE  t = SubSeq(s, m, n)
<1> DEFINE u == SubSeq(s, m, n)
<1>1. /\ u \in Seq(S) /\ Len(u) = (n - m) + 1
      /\ \A i \in 1 .. Len(u) : u[i] = s[i + (m - 1)]
  BY SubSeqIs
<1> HIDE DEF u
<1> QED BY <1>1, SeqEqual DEF u

(* What a fresh walk has seen, of the contents past those that are not     *)
(* there.                                                                  *)
LEMMA FreshFrom ==
    ASSUME NEW S, NEW all \in Seq(S), NEW seen \in Seq(S), NEW d \in 0 .. Len(all),
           Len(seen) <= Len(all) - d, \A i \in 1 .. Len(seen) : seen[i] = all[i + d],
           NEW ended, ended => Len(seen) = Len(all) - d
    PROVE  IF ended THEN seen = SubSeq(all, d + 1, Len(all))
           ELSE IsPrefix(seen, SubSeq(all, d + 1, Len(all)))
<1> DEFINE m == d + 1
           n == Len(all)
           there == SubSeq(all, m, n)
<1>1. m \in 1 .. Len(all) + 1 /\ n \in m - 1 .. Len(all) /\ (n - m) + 1 = Len(all) - d /\ m - 1 = d /\ d \in Nat
  OBVIOUS
<1> HIDE DEF m, n, there
<1>2. there \in Seq(S) /\ Len(there) = (n - m) + 1 /\ \A i \in 1 .. Len(there) : there[i] = all[i + (m - 1)]
  BY <1>1, SubSeqIs DEF there
<1>3. /\ Len(there) = Len(all) - d /\ Len(seen) \in Nat /\ Len(there) \in Nat
      /\ \A i \in 1 .. Len(there) : there[i] = all[i + d]
  BY <1>1, <1>2
<1>4. \A i \in 1 .. Len(seen) : i \in 1 .. Len(there) /\ seen[i] = there[i]
  <2>1. Len(seen) <= Len(there)
    BY <1>3
  <2>2. \A i \in 1 .. Len(seen) : i \in 1 .. Len(there)
    BY <1>3, <2>1
  <2> QED BY <1>3, <2>2
<1>5. CASE ended
  <2>1. seen = there
    BY <1>2, <1>3, <1>4, <1>5, SeqEqual
  <2> QED BY <1>5, <2>1 DEF there, m, n
<1>6. CASE ~ended
  <2> DEFINE k == Len(seen)
             a == SubSeq(seen, 1, k)
             b == SubSeq(there, 1, k)
             one == 1
  <2>1. one \in 1 .. Len(seen) + 1 /\ k \in one - 1 .. Len(seen) /\ one - 1 = 0
        /\ one \in 1 .. Len(there) + 1 /\ k \in one - 1 .. Len(there) /\ (k - one) + 1 = k /\ k \in Nat
    BY <1>3
  <2>2. a = SubSeq(seen, one, k) /\ b = SubSeq(there, one, k)
    OBVIOUS
  <2> HIDE DEF k, a, b, one
  <2>3. a \in Seq(S) /\ Len(a) = (k - one) + 1 /\ \A i \in 1 .. Len(a) : a[i] = seen[i + (one - 1)]
    BY <2>1, <2>2, SubSeqIs
  <2>4. b \in Seq(S) /\ Len(b) = (k - one) + 1 /\ \A i \in 1 .. Len(b) : b[i] = there[i + (one - 1)]
    BY <1>2, <2>1, <2>2, SubSeqIs
  <2>5. \A i \in 1 .. k : a[i] = seen[i] /\ b[i] = there[i] /\ seen[i] = there[i]
    BY <1>4, <2>1, <2>3, <2>4 DEF k
  <2>6. a = b
    BY <2>1, <2>3, <2>4, <2>5, SeqEqual
  <2> QED BY <1>3, <1>6, <2>6 DEF IsPrefix, there, m, n, a, b, k
<1> QED BY <1>5, <1>6

LEMMA IsTail ==
    ASSUME NEW S, NEW s \in Seq(S), NEW t \in Seq(S), Len(s) # 0,
           Len(t) = Len(s) - 1, \A i \in 1 .. Len(t) : t[i] = s[i + 1]
    PROVE  t = Tail(s)
<1> DEFINE u == Tail(s)
<1>1. u \in Seq(S) /\ Len(u) = Len(s) - 1 /\ \A i \in 1 .. Len(u) : u[i] = s[i + 1]
  OBVIOUS
<1> HIDE DEF u
<1> QED BY <1>1, SeqEqual DEF u

LEMMA IsCons ==
    ASSUME NEW S, NEW s \in Seq(S), NEW t \in Seq(S), NEW x \in S,
           Len(t) = Len(s) + 1, t[1] = x, \A i \in 1 .. Len(s) : t[i + 1] = s[i]
    PROVE  t = <<x>> \o s
<1> DEFINE u == <<x>> \o s
<1>1. /\ u \in Seq(S) /\ Len(u) = Len(s) + 1 /\ u[1] = x
      /\ \A i \in 1 .. Len(s) : u[i + 1] = s[i]
  OBVIOUS
<1> HIDE DEF u
<1>2. ASSUME NEW i \in 1 .. Len(t) PROVE t[i] = u[i]
  <2>1. CASE i = 1  BY <2>1, <1>1
  <2>2. CASE i # 1
    <3>1. i - 1 \in 1 .. Len(s) /\ (i - 1) + 1 = i  BY <2>2
    <3> QED BY <3>1, <1>1
  <2> QED BY <2>1, <2>2
<1> QED BY <1>1, <1>2, SeqEqual DEF u

-----------------------------------------------------------------------------
(* FixedDeque and CircularBuffer.                                          *)

Slots == 0 .. Capacity - 1

At(n) == store[(first + n) % Capacity]

RingPassed == {(walk.frozen + j) % Capacity : j \in 0 .. walk.ordinal - 1}

RingStored ==
    /\ Slots \subseteq DOMAIN store
    /\ first \in Slots /\ size \in Nat
    /\ arrived \in 0 .. MaxItems
    /\ Numbered(store, arrived)
    /\ \A n \in 0 .. size - 1 : At(n) # None

RingWalk ==
    /\ walk \in Cursor(Slots, arrived)
    /\ walk.ordinal <= walk.len
    /\ walk.ended => walk.ordinal = walk.len
    /\ walk.len <= Capacity => Once(store, RingPassed, walk.seen, arrived)
    /\ walk.fresh => /\ walk.frozen = first /\ walk.len = size
                     /\ Len(walk.seen) = walk.ordinal
                     /\ \A i \in 1 .. walk.ordinal : walk.seen[i] = At(i - 1)

RingInv == RingStored /\ RingWalk

LEMMA SlotOf ==
    ASSUME NEW f \in Slots, NEW n \in Nat
    PROVE  (f + n) % Capacity \in Slots
<1>1. Capacity \in Nat \ {0} /\ f + n \in Nat
  BY SequencesAssumption DEF Slots
<1> QED BY <1>1, ModRange DEF Slots

LEMMA SlotAfter ==
    ASSUME NEW f \in Slots, NEW j \in Slots
    PROVE  (f + j) % Capacity = IF f + j < Capacity THEN f + j ELSE (f + j) - Capacity
<1> DEFINE a == f + j
<1>1. Capacity \in Nat \ {0} /\ a \in 0 .. 2 * Capacity - 1
  BY SequencesAssumption DEF Slots
<1> HIDE DEF a
<1>2. (a % Capacity) = IF a < Capacity THEN a ELSE a - Capacity
  BY <1>1, ModSmall
<1> QED BY <1>2 DEF a

LEMMA SlotItself ==
    ASSUME NEW f \in Slots
    PROVE  /\ (f + 0) % Capacity = f
           /\ (f % Capacity) = f
           /\ (f + Capacity) % Capacity = f
<1>1. Capacity \in Nat \ {0} /\ f \in 0 .. Capacity - 1 /\ f + 0 = f /\ f \in Nat
  BY SequencesAssumption DEF Slots
<1>2. (f % Capacity) = f
  BY <1>1
<1>3. ((f + Capacity) % Capacity) = (f % Capacity)
  BY <1>1, ModShift
<1> QED BY <1>1, <1>2, <1>3

LEMMA SlotReached ==
    ASSUME NEW f \in Slots, NEW s \in Slots
    PROVE  \E j \in Slots : (f + j) % Capacity = s
<1> DEFINE j == IF s >= f THEN s - f ELSE s - f + Capacity
<1>1. Capacity \in Nat \ {0} /\ j \in Slots
  BY SequencesAssumption DEF Slots
<1>2. (f + j) % Capacity = IF f + j < Capacity THEN f + j ELSE (f + j) - Capacity
  BY <1>1, SlotAfter
<1>3. (f + j) % Capacity = s
  BY <1>1, <1>2 DEF Slots
<1> QED BY <1>1, <1>3

LEMMA SlotsApart ==
    ASSUME NEW f \in Slots, NEW i \in Slots, NEW j \in Slots, i # j
    PROVE  (f + i) % Capacity # (f + j) % Capacity
<1>1. /\ Capacity \in Nat \ {0}
      /\ f \in 0 .. Capacity - 1 /\ i \in 0 .. Capacity - 1 /\ j \in 0 .. Capacity - 1
  BY SequencesAssumption DEF Slots
<1>2. /\ (f + i) % Capacity = IF f + i < Capacity THEN f + i ELSE (f + i) - Capacity
      /\ (f + j) % Capacity = IF f + j < Capacity THEN f + j ELSE (f + j) - Capacity
  BY SlotAfter
<1> QED BY <1>1, <1>2

(* A full one has stored to every slot.                                    *)
LEMMA RingFilled ==
    ASSUME RingStored, size >= Capacity
    PROVE  \A s \in Slots : store[s] # None
<1> SUFFICES ASSUME NEW s \in Slots PROVE store[s] # None
  OBVIOUS
<1>1. PICK j \in Slots : (first + j) % Capacity = s
  BY SlotReached DEF RingStored
<1>2. j \in 0 .. size - 1
  BY <1>1, SequencesAssumption DEF RingStored, Slots
<1> QED BY <1>1, <1>2 DEF RingStored, At

LEMMA RingCalled ==
    ASSUME RingInv, NEW o \in BOOLEAN, NEW op, NEW answer, R(o)!Called(op, answer),
           arrived' \in {arrived, arrived + 1}, NEW s0,
           \A s \in DOMAIN store' :
               \/ s = s0 /\ store'[s] = arrived' /\ arrived' = arrived + 1
               \/ s \in DOMAIN store /\ store'[s] = store[s]
               \/ store'[s] \in {0, None}
    PROVE  Numbered(store', arrived') /\ RingWalk'
<1>1. arrived \in Nat /\ Numbered(store, arrived) /\ walk \in Cursor(Slots, arrived)
  BY DEF RingInv, RingStored, RingWalk
<1>2. Numbered(store', arrived')
  BY <1>1, NumberedAfter
<1>3. walk' = CursorDisturbed(walk)
  BY DEF R!Called, R!Disturbed, CursorDisturbed
<1>4. /\ walk' \in Cursor(Slots, arrived')
      /\ walk'.frozen = walk.frozen /\ walk'.len = walk.len /\ walk'.ordinal = walk.ordinal
      /\ walk'.seen = walk.seen /\ ~walk'.fresh /\ walk'.ended = walk.ended
  BY <1>1, <1>3, DisturbedFields
<1>5. RingPassed' = RingPassed
  BY <1>4 DEF RingPassed
<1>6. ASSUME walk.len <= Capacity
      PROVE  Once(store', RingPassed, walk.seen, arrived')
  <2>1. Once(store, RingPassed, walk.seen, arrived)
    BY <1>6 DEF RingInv, RingWalk
  <2> QED BY <1>1, <2>1, OnceAfter
<1> QED BY <1>2, <1>4, <1>5, <1>6 DEF RingInv, RingWalk

LEMMA RingStore ==
    ASSUME RingInv, NEW o \in BOOLEAN, NEW index \in Nat, R(o)!Store(index)
    PROVE  /\ arrived' = arrived + 1 /\ arrived' \in 0 .. MaxItems
           /\ DOMAIN store \subseteq DOMAIN store'
           /\ \A s \in DOMAIN store : s # index => store'[s] = store[s]
           /\ index \in DOMAIN store' => store'[index] = arrived + 1
           /\ \A s \in DOMAIN store : store[s] # None => store'[s] # None
           /\ \A s \in DOMAIN store' :
                  \/ s = index /\ store'[s] = arrived' /\ arrived' = arrived + 1
                  \/ s \in DOMAIN store /\ store'[s] = store[s]
                  \/ store'[s] \in {0, None}
<1>1. arrived \in Nat /\ MaxItems \in Nat /\ arrived < MaxItems /\ arrived' = arrived + 1
  BY SequencesAssumption DEF RingInv, RingStored, R!Store
<1>2. PICK more : store' = [s \in DOMAIN store \cup more |->
                              IF s = index THEN arrived + 1
                              ELSE IF s \in DOMAIN store THEN store[s] ELSE None]
  BY DEF R!Store, R!ItemAt
<1>3. DOMAIN store' = DOMAIN store \cup more
  BY <1>2
<1> QED BY <1>1, <1>2, <1>3, NoneNoInt

LEMMA RingRefuse ==
    ASSUME RingInv, NEW o \in BOOLEAN, NEW op, R(o)!Refuse(op)
    PROVE  RingInv'
<1>1. UNCHANGED <<store, first, size, arrived>> /\ R(o)!Called(op, FullError)
  BY DEF R!Refuse
<1>2. Numbered(store', arrived') /\ RingWalk'
  BY <1>1, RingCalled
<1> QED BY <1>1, <1>2 DEF RingInv, RingStored, At

LEMMA RingPush ==
    ASSUME RingInv, NEW o \in BOOLEAN, R(o)!Push
    PROVE  RingInv'
<1> DEFINE index == R(o)!WrapOnce(first + size)
<1>0. Capacity \in Nat \ {0} /\ first \in 0 .. Capacity - 1 /\ size \in Nat /\ first \in Slots
  BY SequencesAssumption DEF RingInv, RingStored, Slots
<1>1. index \in Nat
  BY <1>0 DEF R!WrapOnce
<1>2. CASE R(o)!Refuse("push")
  BY <1>2, RingRefuse
<1>3. ASSUME NEW answer, R(o)!Store(index), R(o)!Called("push", answer),
             \/ size # Capacity /\ size' = size + 1 /\ first' = first
             \/ /\ size = Capacity /\ size' = size
                /\ first' = IF index + 1 >= Capacity THEN 0 ELSE index + 1
      PROVE  RingInv'
  <2>1. Numbered(store', arrived') /\ RingWalk'
    BY <1>1, <1>3, RingStore, RingCalled
  <2>2. /\ arrived' \in 0 .. MaxItems /\ DOMAIN store \subseteq DOMAIN store'
        /\ \A s \in DOMAIN store : store[s] # None => store'[s] # None
        /\ index \in DOMAIN store' => store'[index] # None
    BY <1>1, <1>3, RingStore, NoneNoInt DEF RingInv, RingStored
  <2>3. first' \in Slots /\ size' \in Nat
    BY <1>0, <1>1, <1>3 DEF Slots
  <2>4. Slots \subseteq DOMAIN store
    BY DEF RingInv, RingStored
  <2>5. ASSUME NEW n \in 0 .. size' - 1
        PROVE  At(n)' # None
    <3>0. n \in Nat
      BY <2>3
    <3>1. (first + n) % Capacity \in Slots /\ (first' + n) % Capacity \in Slots
      BY <3>0, <1>0, <2>3, SlotOf
    <3>2. CASE size >= Capacity
      BY <3>1, <3>2, <2>2, <2>4, RingFilled DEF At, RingInv
    <3>3. CASE size < Capacity /\ n < size
      <4>1. n \in 0 .. size - 1 /\ first' = first
        BY <3>3, <1>0, <1>3, <2>5
      <4> QED BY <4>1, <3>1, <2>2, <2>4 DEF At, RingInv, RingStored
    <3>4. CASE size < Capacity /\ n = size
      <4>1. first' = first /\ n \in Slots
        BY <3>4, <1>0, <1>3, <2>5 DEF Slots
      <4>2. (first + n) % Capacity = IF first + n < Capacity THEN first + n ELSE (first + n) - Capacity
        BY <4>1, <1>0, SlotAfter
      <4>3. (first + n) % Capacity = index
        BY <4>2, <3>4, <1>0 DEF R!WrapOnce
      <4> QED BY <4>1, <4>3, <3>1, <2>2, <2>4 DEF At
    <3> QED BY <3>2, <3>3, <3>4, <1>0, <1>3, <2>5
  <2> QED BY <2>1, <2>2, <2>3, <2>4, <2>5 DEF RingInv, RingStored
<1> QED BY <1>2, <1>3 DEF R!Push

LEMMA RingUnshift ==
    ASSUME RingInv, NEW o \in BOOLEAN, R(o)!Unshift
    PROVE  RingInv'
<1> DEFINE index == R(o)!PreviousStart
<1>0. Capacity \in Nat \ {0} /\ first \in 0 .. Capacity - 1 /\ size \in Nat /\ first \in Slots
  BY SequencesAssumption DEF RingInv, RingStored, Slots
<1>1. index \in Nat /\ index \in Slots /\ index = IF first = 0 THEN Capacity - 1 ELSE first - 1
  BY <1>0 DEF R!PreviousStart, Slots
<1>2. CASE R(o)!Refuse("unshift")
  BY <1>2, RingRefuse
<1>3. ASSUME R(o)!Store(index), R(o)!Called("unshift", size'), first' = index,
             size' = IF size = Capacity THEN size ELSE size + 1
      PROVE  RingInv'
  <2>1. Numbered(store', arrived') /\ RingWalk'
    BY <1>1, <1>3, RingStore, RingCalled
  <2>2. /\ arrived' \in 0 .. MaxItems /\ DOMAIN store \subseteq DOMAIN store'
        /\ \A s \in DOMAIN store : store[s] # None => store'[s] # None
        /\ index \in DOMAIN store' => store'[index] # None
    BY <1>1, <1>3, RingStore, NoneNoInt DEF RingInv, RingStored
  <2>3. first' \in Slots /\ size' \in Nat
    BY <1>0, <1>1, <1>3
  <2>4. Slots \subseteq DOMAIN store
    BY DEF RingInv, RingStored
  <2>5. ASSUME NEW n \in 0 .. size' - 1
        PROVE  At(n)' # None
    <3>0. n \in Nat
      BY <2>3
    <3>1. (first' + n) % Capacity \in Slots
      BY <2>3, <3>0, SlotOf
    <3>2. CASE size >= Capacity
      BY <3>1, <3>2, <2>2, <2>4, RingFilled DEF At, RingInv
    <3>3. CASE size < Capacity
      <4>1. n \in Slots
        BY <3>3, <1>0, <1>3, <2>5 DEF Slots
      <4>2. (index + n) % Capacity = IF index + n < Capacity THEN index + n ELSE (index + n) - Capacity
        BY <4>1, <1>1, SlotAfter
      <4>3. CASE n = 0
        BY <4>3, <4>2, <1>0, <1>1, <1>3, <2>2, <2>4 DEF At, Slots
      <4>4. CASE n > 0
        <5>1. n - 1 \in Slots /\ n - 1 \in 0 .. size - 1
          BY <4>4, <4>1, <3>3, <1>3, <1>0, <2>5 DEF Slots
        <5>2. (first + (n - 1)) % Capacity =
                IF first + (n - 1) < Capacity THEN first + (n - 1) ELSE (first + (n - 1)) - Capacity
          BY <5>1, <1>0, SlotAfter
        <5>3. (first + (n - 1)) % Capacity = (index + n) % Capacity
          BY <5>2, <4>2, <4>1, <1>0, <1>1, <4>4 DEF Slots
        <5>4. store[(first + (n - 1)) % Capacity] # None
          BY <5>1 DEF At, RingInv, RingStored
        <5> QED BY <5>3, <5>4, <1>3, <2>2, <2>4, <3>1 DEF At
      <4> QED BY <4>3, <4>4, <2>5
    <3> QED BY <3>2, <3>3, <1>0
  <2> QED BY <2>1, <2>2, <2>3, <2>4, <2>5 DEF RingInv, RingStored
<1> QED BY <1>2, <1>3 DEF R!Unshift

LEMMA RingPop ==
    ASSUME RingInv, NEW o \in BOOLEAN, R(o)!Pop
    PROVE  RingInv'
<1>1. PICK answer : R(o)!Called("pop", answer)
  BY DEF R!Pop
<1>2. UNCHANGED <<store, first, arrived>> /\ size' = IF size = 0 THEN size ELSE size - 1
  BY DEF R!Pop
<1>3. Numbered(store', arrived') /\ RingWalk'
  BY <1>1, <1>2, RingCalled
<1>4. size' \in Nat /\ 0 .. size' - 1 \subseteq 0 .. size - 1
  BY <1>2 DEF RingInv, RingStored
<1> QED BY <1>2, <1>3, <1>4 DEF RingInv, RingStored, At

(* Where the n-th item is when the first has been taken out.               *)
LEMMA NextSlot ==
    ASSUME NEW f \in Slots, NEW g, g = (IF f + 1 = Capacity THEN 0 ELSE f + 1), NEW n \in Nat
    PROVE  g \in Slots /\ (g + n) % Capacity = (f + (n + 1)) % Capacity
<1>1. Capacity \in Nat \ {0} /\ f \in 0 .. Capacity - 1
  BY SequencesAssumption DEF Slots
<1>2. CASE f + 1 = Capacity
  <2>1. g + n = n /\ f + (n + 1) = n + Capacity
    BY <1>1, <1>2
  <2>2. ((n + Capacity) % Capacity) = (n % Capacity)
    BY <1>1, ModShift
  <2> QED BY <1>1, <1>2, <2>1, <2>2 DEF Slots
<1>3. CASE f + 1 # Capacity
  BY <1>1, <1>3 DEF Slots
<1> QED BY <1>2, <1>3

LEMMA RingShift ==
    ASSUME RingInv, NEW o \in BOOLEAN, R(o)!Shift
    PROVE  RingInv'
<1>1. PICK answer : R(o)!Called("shift", answer)
  BY DEF R!Shift
<1>2. UNCHANGED <<store, arrived>>
  BY DEF R!Shift
<1>3. Numbered(store', arrived') /\ RingWalk'
  BY <1>1, <1>2, RingCalled
<1>4. CASE size = 0
  BY <1>2, <1>3, <1>4 DEF RingInv, RingStored, At, R!Shift
<1>5. CASE size # 0
  <2>1. size' = size - 1 /\ first' = IF first + 1 = Capacity THEN 0 ELSE first + 1
    BY <1>5 DEF R!Shift
  <2>2. first \in Slots /\ size \in Nat /\ size' \in Nat
    BY <1>5, <2>1 DEF RingInv, RingStored
  <2>3. first' \in Slots
    BY <2>1, <2>2, NextSlot
  <2>4. ASSUME NEW n \in 0 .. size' - 1
        PROVE  At(n)' # None
    <3>1. n \in Nat /\ n + 1 \in 0 .. size - 1
      BY <2>1, <2>2, <2>4
    <3>2. (first' + n) % Capacity = (first + (n + 1)) % Capacity
      BY <2>1, <2>2, <3>1, NextSlot
    <3> QED BY <1>2, <3>1, <3>2 DEF RingInv, RingStored, At
  <2> QED BY <1>2, <1>3, <2>2, <2>3, <2>4 DEF RingInv, RingStored
<1> QED BY <1>4, <1>5

LEMMA RingClear ==
    ASSUME RingInv, NEW o \in BOOLEAN, R(o)!Clear
    PROVE  RingInv'
<1>1. R(o)!Called("clear", None) /\ UNCHANGED <<store, arrived>> /\ first' = 0 /\ size' = 0
  BY DEF R!Clear
<1>2. Numbered(store', arrived') /\ RingWalk'
  BY <1>1, RingCalled
<1>3. 0 \in Slots /\ 0 .. 0 - 1 = {}
  BY SequencesAssumption DEF Slots
<1> QED BY <1>1, <1>2, <1>3 DEF RingInv, RingStored

LEMMA RingOpenWalk ==
    ASSUME RingInv, NEW o \in BOOLEAN, R(o)!OpenWalk
    PROVE  RingInv'
<1>1. /\ UNCHANGED <<store, first, size, arrived>>
      /\ walk' = [frozen |-> first, len |-> size, ordinal |-> 0, seen |-> <<>>,
                  fresh |-> TRUE, ended |-> FALSE]
  BY DEF R!OpenWalk, R!OpenCursor
<1>2. RingStored'
  BY <1>1 DEF RingInv, RingStored, At
<1>3. first \in Slots /\ size \in Nat /\ arrived \in Nat /\ <<>> \in Seq(0 .. arrived) /\ Len(<<>>) = 0
  BY SequencesAssumption DEF RingInv, RingStored
<1>4. walk' \in Cursor(Slots, arrived')
  BY <1>1, <1>3 DEF Cursor
<1>5. Once(store', RingPassed', walk'.seen, arrived')
  BY <1>1, <1>3, OnceNothing
<1> QED BY <1>1, <1>2, <1>3, <1>4, <1>5 DEF RingInv, RingWalk

LEMMA RingStepWalk ==
    ASSUME RingInv, NEW o \in BOOLEAN, R(o)!StepWalk
    PROVE  RingInv'
<1> DEFINE item == store[(walk.frozen + walk.ordinal) % Capacity]
<1>1. /\ UNCHANGED <<store, first, size, arrived>> /\ ~walk.ended
      /\ walk' = R(o)!StepCursor(walk, walk.len, item)
  BY DEF R!StepWalk, R!Slot
<1>2. RingStored'
  BY <1>1 DEF RingInv, RingStored, At
<1>3. /\ walk \in Cursor(Slots, arrived) /\ walk.frozen \in Slots /\ walk.ordinal \in Nat /\ walk.len \in Nat
      /\ walk.ordinal <= walk.len /\ walk.seen \in Seq(0 .. arrived) /\ arrived \in Nat
      /\ Slots \subseteq DOMAIN store /\ Numbered(store, arrived)
      /\ Capacity \in Nat \ {0} /\ arrived' = arrived /\ store' = store
      /\ first' = first /\ size' = size
  BY <1>1, SequencesAssumption DEF RingInv, RingWalk, RingStored, Cursor
<1>4. CASE walk.ordinal >= walk.len
  <2>1. walk' = CursorEnded(walk)
    BY <1>1, <1>4 DEF R!StepCursor, CursorEnded
  <2>2. /\ walk' \in Cursor(Slots, arrived')
        /\ walk'.frozen = walk.frozen /\ walk'.len = walk.len /\ walk'.ordinal = walk.ordinal
        /\ walk'.seen = walk.seen /\ walk'.fresh = walk.fresh /\ walk'.ended
    BY <1>3, <2>1, EndedFields
  <2>3. RingPassed' = RingPassed
    BY <2>2 DEF RingPassed
  <2> QED BY <1>1, <1>2, <1>3, <1>4, <2>2, <2>3 DEF RingInv, RingWalk, At
<1>5. CASE walk.ordinal < walk.len
  <2> DEFINE slot == (walk.frozen + walk.ordinal) % Capacity
  <2>1. walk' = CursorMoved(walk, item)
    BY <1>1, <1>3, <1>5 DEF R!StepCursor, CursorMoved
  <2>2. slot \in Slots /\ slot \in DOMAIN store /\ item = store[slot]
    BY <1>3, SlotOf
  <2>3. item \in 0 .. arrived \cup {None}
    BY <1>3, <2>2 DEF Numbered
  <2> HIDE DEF item, slot
  <2>5. /\ walk' \in Cursor(Slots, arrived')
        /\ walk'.frozen = walk.frozen /\ walk'.len = walk.len /\ walk'.ordinal = walk.ordinal + 1
        /\ walk'.seen = (IF item = None THEN walk.seen ELSE Append(walk.seen, item))
        /\ walk'.fresh = walk.fresh /\ walk'.ended = walk.ended
    BY <1>3, <2>1, <2>3, MovedFields, SMTT(60)
  <2>6. RingPassed' = RingPassed \cup {slot}
    <3>1. 0 .. walk'.ordinal - 1 = (0 .. walk.ordinal - 1) \cup {walk.ordinal}
      BY <1>3, <2>5, SMTT(60)
    <3> QED BY <3>1, <2>5 DEF RingPassed, slot
  <2>7. ASSUME walk.len <= Capacity
        PROVE  Once(store', RingPassed', walk'.seen, arrived')
    <3>1. Once(store, RingPassed, walk.seen, arrived)
      BY <2>7 DEF RingInv, RingWalk
    <3>2. slot \notin RingPassed
      <4> SUFFICES ASSUME NEW j \in 0 .. walk.ordinal - 1
                   PROVE  (walk.frozen + j) % Capacity # slot
        BY DEF RingPassed
      <4>1. j \in Slots /\ walk.ordinal \in Slots /\ j # walk.ordinal
        BY <1>3, <1>5, <2>7 DEF Slots
      <4> QED BY <4>1, <1>3, SlotsApart DEF slot
    <3>3. CASE item = None
      BY <1>3, <3>1, <3>3, <2>5, <2>6, OncePasses
    <3>4. CASE item # None
      <4>1. Once(store, RingPassed \cup {slot}, Append(walk.seen, store[slot]), arrived)
        BY <1>3, <3>1, <3>2, <3>4, <2>2, OnceReports
      <4> QED BY <4>1, <1>3, <3>4, <2>2, <2>5, <2>6 DEF slot
    <3> QED BY <3>3, <3>4
  <2>8. ASSUME walk.fresh
        PROVE  /\ walk.frozen = first /\ walk.len = size
               /\ Len(walk'.seen) = walk'.ordinal
               /\ \A i \in 1 .. walk'.ordinal : walk'.seen[i] = At(i - 1)
    <3>1. /\ walk.frozen = first /\ walk.len = size /\ Len(walk.seen) = walk.ordinal
          /\ \A i \in 1 .. walk.ordinal : walk.seen[i] = At(i - 1)
      BY <2>8 DEF RingInv, RingWalk
    <3>2. item = At(walk.ordinal) /\ walk.ordinal \in 0 .. size - 1
      BY <3>1, <1>3, <1>5 DEF At, item
    <3>3. item # None
      BY <3>2 DEF RingInv, RingStored
    <3>4. /\ walk'.seen = Append(walk.seen, item) /\ Len(walk'.seen) = walk.ordinal + 1
          /\ walk'.seen[walk.ordinal + 1] = item
          /\ \A i \in 1 .. walk.ordinal : walk'.seen[i] = walk.seen[i]
      BY <2>3, <2>5, <3>1, <3>3, <1>3, SMTT(60)
    <3>5. (walk.ordinal + 1) - 1 = walk.ordinal /\ 1 .. walk.ordinal + 1 = 1 .. walk.ordinal \cup {walk.ordinal + 1}
      BY <1>3
    <3> QED BY <3>1, <3>2, <3>4, <3>5, <2>5
  <2> QED BY <1>2, <1>3, <1>5, <1>1, <2>5, <2>7, <2>8 DEF RingInv, RingWalk, At
<1> QED BY <1>3, <1>4, <1>5

LEMMA RingInit ==
    ASSUME NEW o \in BOOLEAN, R(o)!Init
    PROVE  RingInv
<1>1. PICK n \in 0 .. Capacity + MaxSurplus :
        /\ store \in {[s \in all |-> IF s < n THEN s + 1 ELSE None] :
                        all \in {Slots, Slots \cup 0 .. n - 1}}
        /\ first = 0 /\ size = n /\ arrived = n
        /\ walk = [frozen |-> 0, len |-> n, ordinal |-> 0, seen |-> <<>>,
                   fresh |-> TRUE, ended |-> FALSE]
  BY DEF R!Init, R!Slots, R!OpenCursor, Slots
<1>2. PICK all \in {Slots, Slots \cup 0 .. n - 1} :
        store = [s \in all |-> IF s < n THEN s + 1 ELSE None]
  BY <1>1
<1>3. /\ DOMAIN store = all /\ Slots \subseteq all /\ all \subseteq Nat
      /\ \A s \in all : store[s] = IF s < n THEN s + 1 ELSE None
      /\ Capacity \in Nat \ {0} /\ MaxSurplus \in Nat /\ n \in Nat /\ n \in 0 .. MaxItems
      /\ 0 \in Slots
  BY <1>2, SequencesAssumption DEF Slots
<1>4. Numbered(store, n)
  <2>0. ASSUME NEW s \in all
        PROVE  s \in Nat /\ ((store[s] = s + 1 /\ s + 1 \in 1 .. n) \/ store[s] = None)
    <3>1. CASE s < n  BY <3>1, <1>3
    <3>2. CASE ~(s < n)  BY <3>2, <1>3
    <3> QED BY <3>1, <3>2
  <2>3. DOMAIN store = all /\ n \in Nat
    BY <1>3
  <2>1. \A s \in DOMAIN store : store[s] \in 0 .. n \cup {None}
    BY <2>3, <2>0
  <2>2. \A s, t \in DOMAIN store : store[s] = store[t] /\ store[s] \in 1 .. n => s = t
    BY <2>3, <2>0, NoneNoInt
  <2> QED BY <2>1, <2>2 DEF Numbered
<1>5. ASSUME NEW j \in 0 .. size - 1
      PROVE  At(j) # None
  <2>1. j \in Nat /\ j < n /\ 0 + j = j /\ (0 + j) % Capacity \in Slots
    BY <1>1, <1>3, SlotOf
  <2>2. (j % Capacity) <= j
    <3>1. CASE j < Capacity  BY <3>1, <2>1, <1>3
    <3>2. CASE j >= Capacity  BY <3>2, <2>1, <1>3 DEF Slots
    <3> QED BY <3>1, <3>2, <1>3, <2>1
  <2>3. (j % Capacity) \in all /\ (j % Capacity) < n /\ (j % Capacity) \in Nat
    BY <2>1, <2>2, <1>3 DEF Slots
  <2> QED BY <1>1, <1>3, <2>1, <2>3, NoneNoInt DEF At
<1>6. RingStored
  BY <1>1, <1>3, <1>4, <1>5 DEF RingStored
<1>7. <<>> \in Seq(0 .. arrived) /\ Len(<<>>) = 0
  OBVIOUS
<1>8. walk \in Cursor(Slots, arrived)
  BY <1>1, <1>3, <1>7 DEF Cursor
<1>9. Once(store, RingPassed, walk.seen, arrived)
  BY <1>1, <1>3, OnceNothing
<1> QED BY <1>1, <1>3, <1>6, <1>7, <1>8, <1>9 DEF RingInv, RingWalk

-----------------------------------------------------------------------------

RingContents == [n \in 1 .. size |-> At(n - 1)]

LEMMA RingItems ==
    ASSUME RingStored
    PROVE  /\ size \in Nat /\ first \in Slots /\ Capacity \in Nat \ {0}
           /\ RingContents \in Seq(0 .. MaxItems) /\ Len(RingContents) = size
           /\ \A n \in 0 .. size - 1 : At(n) \in 0 .. MaxItems
           /\ \A n \in 1 .. size : RingContents[n] = At(n - 1)
<1>1. /\ size \in Nat /\ first \in Slots /\ Capacity \in Nat \ {0} /\ MaxItems \in Nat
      /\ arrived \in 0 .. MaxItems
  BY SequencesAssumption DEF RingStored
<1>2. ASSUME NEW n \in 0 .. size - 1
      PROVE  At(n) \in 0 .. MaxItems
  <2>1. (first + n) % Capacity \in DOMAIN store
    BY <1>1, SlotOf DEF RingStored
  <2>2. At(n) \in 0 .. arrived \cup {None} /\ At(n) # None
    BY <2>1 DEF At, Numbered, RingStored
  <2> QED BY <1>1, <2>2
<1>3. \A n \in 1 .. size : n - 1 \in 0 .. size - 1
  BY <1>1
<1> QED BY <1>1, <1>2, <1>3 DEF RingContents

(* Where Pop, PeekLast and Get look.                                       *)
LEMMA WrapsOnce ==
    ASSUME NEW o \in BOOLEAN, NEW a \in 0 .. 2 * Capacity - 1
    PROVE  R(o)!WrapOnce(a) = (a % Capacity) /\ (a % Capacity) \in Slots
<1>1. Capacity \in Nat \ {0} /\ a \in Nat
  BY SequencesAssumption
<1>2. (a % Capacity) = IF a < Capacity THEN a ELSE a - Capacity
  BY <1>1, ModSmall
<1> QED BY <1>1, <1>2 DEF R!WrapOnce, Slots

LEMMA RingReads ==
    ASSUME RingStored, NEW o \in BOOLEAN
    PROVE  R(o)!LayoutSound /\ R(o)!ReadsAgree
<1>1. /\ size \in Nat /\ first \in Slots /\ Capacity \in Nat \ {0} /\ first \in 0 .. Capacity - 1
      /\ Slots \subseteq DOMAIN store
  BY RingItems DEF Slots, RingStored
<1>2. /\ \A n \in 1 .. size : R(o)!ToArray[n] = At(n - 1)
      /\ \A n \in 1 .. size : n - 1 \in 0 .. size - 1
  BY <1>1 DEF R!ToArray, R!Slot, At
<1>3. R(o)!LayoutSound
  BY <1>1, <1>2 DEF R!LayoutSound, R!Slots, Slots, RingStored
<1>4. R(o)!PeekFirst = IF size = 0 THEN None ELSE R(o)!ToArray[1]
  <2>1. CASE size = 0  BY <2>1 DEF R!PeekFirst
  <2>2. CASE size # 0
    <3>1. (first + 0) % Capacity = first
      BY <1>1
    <3>2. 1 \in 1 .. size /\ 1 - 1 = 0
      BY <1>1, <2>2
    <3> QED BY <2>2, <3>1, <3>2, <1>2 DEF R!PeekFirst, At
  <2> QED BY <2>1, <2>2
<1>5. ASSUME first + size <= 2 * Capacity
      PROVE  R(o)!PeekLast = IF size = 0 THEN None ELSE R(o)!ToArray[size]
  <2>1. CASE size = 0  BY <2>1 DEF R!PeekLast
  <2>2. CASE size # 0
    <3> DEFINE a == first + (size - 1)
    <3>1. a \in 0 .. 2 * Capacity - 1 /\ size \in 1 .. size
      BY <1>1, <1>5, <2>2
    <3> HIDE DEF a
    <3>2. R(o)!WrapOnce(a) = (a % Capacity) /\ (a % Capacity) \in Slots
      BY <3>1, WrapsOnce
    <3>3. R(o)!PeekLast = R(o)!ItemAt(R(o)!WrapOnce(a))
      BY <2>2 DEF R!PeekLast, a
    <3> QED BY <1>1, <1>2, <2>2, <3>1, <3>2, <3>3 DEF R!ItemAt, At, a
  <2> QED BY <2>1, <2>2
<1>6. ASSUME NEW index \in 0 .. size - 1, index < Capacity
      PROVE  R(o)!Get(index) = R(o)!ToArray[index + 1]
  <2> DEFINE a == first + index
  <2>1. a \in 0 .. 2 * Capacity - 1 /\ index + 1 \in 1 .. size /\ (index + 1) - 1 = index /\ size # 0
    BY <1>1, <1>6
  <2> HIDE DEF a
  <2>2. R(o)!WrapOnce(a) = (a % Capacity) /\ (a % Capacity) \in Slots
    BY <2>1, WrapsOnce
  <2>3. R(o)!Get(index) = R(o)!ItemAt(R(o)!WrapOnce(a))
    BY <1>1, <1>6, <2>1 DEF R!Get, a
  <2> QED BY <1>1, <1>2, <2>1, <2>2, <2>3 DEF R!ItemAt, At, a
<1> QED BY <1>3, <1>4, <1>5, <1>6 DEF R!ReadsAgree

-----------------------------------------------------------------------------
(* The calls of the promise, said of the variables.                        *)

Item == 0 .. MaxItems

CallSeen == IF kind = "HashedArrayTree" THEN Tree!CallMeant ELSE call

Room == IF kind \in {"FixedDeque", "CircularBuffer", "FixedStack"}
        THEN Capacity ELSE MaxItems + MaxCapacity

Policy == IF kind = "CircularBuffer" THEN "evict" ELSE "refuse"

LEMMA ListPushes ==
    ASSUME UNCHANGED kind, NEW x \in Item, Contents' = Append(Contents, x), Len(Contents) # Room,
           CallSeen' = [op |-> "push", answer |-> Len(Contents) + 1]
    PROVE  List!Next
<1>1. List!Push
  BY DEF List!Push, List!Full, List!Answers, CallSeen, Room, Item
<1> QED BY <1>1 DEF List!Next

LEMMA ListEvicts ==
    ASSUME UNCHANGED kind, NEW x \in Item, Contents' = Append(Tail(Contents), x),
           Len(Contents) = Room, Policy = "evict", CallSeen' = [op |-> "push", answer |-> Room]
    PROVE  List!Next
<1>1. List!Push
  BY DEF List!Push, List!Full, List!Answers, CallSeen, Room, Item, Policy
<1> QED BY <1>1 DEF List!Next

LEMMA ListRefuses ==
    ASSUME UNCHANGED kind, UNCHANGED Contents, Len(Contents) = Room, Policy = "refuse",
           NEW op \in {"push", "unshift"}, CallSeen' = [op |-> op, answer |-> FullError]
    PROVE  List!Next
<1>1. List!Push \/ List!Unshift
  BY DEF List!Push, List!Unshift, List!Full, List!Answers, CallSeen, Room, Policy
<1> QED BY <1>1 DEF List!Next

LEMMA ListUnshifts ==
    ASSUME UNCHANGED kind, NEW x \in Item, Contents' = <<x>> \o Contents, Len(Contents) # Room,
           CallSeen' = [op |-> "unshift", answer |-> Len(Contents) + 1]
    PROVE  List!Next
<1>1. List!Unshift
  BY DEF List!Unshift, List!Full, List!Answers, CallSeen, Room, Item
<1> QED BY <1>1 DEF List!Next

LEMMA ListEvictsLast ==
    ASSUME UNCHANGED kind, NEW x \in Item, Contents' = <<x>> \o SubSeq(Contents, 1, Room - 1),
           Len(Contents) = Room, Policy = "evict", CallSeen' = [op |-> "unshift", answer |-> Room]
    PROVE  List!Next
<1>1. List!Unshift
  BY DEF List!Unshift, List!Full, List!Answers, CallSeen, Room, Item, Policy
<1> QED BY <1>1 DEF List!Next

LEMMA ListPops ==
    ASSUME UNCHANGED kind,
           IF Contents = <<>>
           THEN CallSeen' = [op |-> "pop", answer |-> None] /\ UNCHANGED Contents
           ELSE /\ CallSeen' = [op |-> "pop", answer |-> Contents[Len(Contents)]]
                /\ Contents' = SubSeq(Contents, 1, Len(Contents) - 1)
    PROVE  List!Next
<1>1. List!Pop
  BY DEF List!Pop, List!Answers, CallSeen
<1> QED BY <1>1 DEF List!Next

LEMMA ListShifts ==
    ASSUME UNCHANGED kind,
           IF Contents = <<>>
           THEN CallSeen' = [op |-> "shift", answer |-> None] /\ UNCHANGED Contents
           ELSE /\ CallSeen' = [op |-> "shift", answer |-> Head(Contents)]
                /\ Contents' = Tail(Contents)
    PROVE  List!Next
<1>1. List!Shift
  BY DEF List!Shift, List!Answers, CallSeen
<1> QED BY <1>1 DEF List!Next

LEMMA ListClears ==
    ASSUME UNCHANGED kind, Contents' = <<>>, CallSeen' = [op |-> "clear", answer |-> None]
    PROVE  List!Next
<1>1. List!Clear
  BY DEF List!Clear, List!Answers, CallSeen
<1> QED BY <1>1 DEF List!Next

LEMMA ListStutters ==
    ASSUME UNCHANGED kind, UNCHANGED Contents, UNCHANGED CallSeen
    PROVE  UNCHANGED listVars
  BY DEF listVars, List!vars, CallSeen

-----------------------------------------------------------------------------
(* What the calls of a ring do to the list.                                *)

RingKind(o) == kind = (IF o THEN "CircularBuffer" ELSE "FixedDeque")

LEMMA RingList ==
    ASSUME NEW o \in BOOLEAN, RingKind(o)
    PROVE  /\ Contents = RingContents /\ CallSeen = call /\ Room = Capacity
           /\ Policy = (IF o THEN "evict" ELSE "refuse")
  BY DEF RingKind, Contents, InWalkOrder, RingContents, At, Deque!ToArray, Deque!Slot,
         CallSeen, Room, Policy

LEMMA RingListNext ==
    ASSUME NEW o \in BOOLEAN, RingKind(o), UNCHANGED kind
    PROVE  /\ Contents' = RingContents' /\ CallSeen' = call'
           /\ Policy' = Policy
  BY DEF RingKind, Contents, InWalkOrder, RingContents, At, Deque!ToArray, Deque!Slot,
         CallSeen, Policy

LEMMA EmptyContents ==
    ASSUME NEW S, NEW s \in Seq(S)
    PROVE  s = <<>> <=> Len(s) = 0
  OBVIOUS

LEMMA RingItemsNext ==
    ASSUME RingStored'
    PROVE  /\ size' \in Nat /\ first' \in Slots
           /\ RingContents' \in Seq(Item) /\ Len(RingContents') = size'
           /\ \A n \in 1 .. size' : RingContents'[n] = At(n - 1)'
<1>1. (RingStored => /\ size \in Nat /\ first \in Slots
                     /\ RingContents \in Seq(0 .. MaxItems) /\ Len(RingContents) = size
                     /\ \A n \in 1 .. size : RingContents[n] = At(n - 1))'
  BY RingItems, PTL
<1> QED BY <1>1 DEF Item

LEMMA RingStoreAt ==
    ASSUME RingInv, NEW o \in BOOLEAN, NEW index \in Slots, R(o)!Store(index)
    PROVE  /\ arrived + 1 \in Item
           /\ \A s \in Slots : store'[s] = IF s = index THEN arrived + 1 ELSE store[s]
<1>1. Slots \subseteq DOMAIN store /\ index \in Nat
  BY SequencesAssumption DEF RingInv, RingStored, Slots
<1> QED BY <1>1, RingStore DEF Item

LEMMA RingListPush ==
    ASSUME RingInv, NEW o \in BOOLEAN, RingKind(o), UNCHANGED kind, R(o)!Push, RingInv', ~(size > Capacity)
    PROVE  List!Next
<1> DEFINE index == R(o)!WrapOnce(first + size)
           x == arrived + 1
<1>0. /\ size \in Nat /\ first \in Slots /\ Capacity \in Nat \ {0} /\ first \in 0 .. Capacity - 1
      /\ RingContents \in Seq(Item) /\ Len(RingContents) = size
      /\ \A n \in 1 .. size : RingContents[n] = At(n - 1)
      /\ size <= Capacity
  BY RingItems DEF Slots, Item, RingInv
<1>1. /\ size' \in Nat /\ first' \in Slots
      /\ RingContents' \in Seq(Item) /\ Len(RingContents') = size'
      /\ \A n \in 1 .. size' : RingContents'[n] = At(n - 1)'
  BY RingItemsNext DEF RingInv
<1>2. /\ Contents = RingContents /\ CallSeen = call /\ Room = Capacity
      /\ Policy = (IF o THEN "evict" ELSE "refuse")
      /\ Contents' = RingContents' /\ CallSeen' = call' /\ Policy' = Policy
  BY RingList, RingListNext
<1>3. first + size \in 0 .. 2 * Capacity - 1
  BY <1>0
<1>4. index = (first + size) % Capacity /\ index \in Slots
  BY <1>3, WrapsOnce
<1>5. CASE R(o)!Refuse("push")
  <2>1. /\ size = Capacity /\ ~o /\ UNCHANGED <<store, first, size>>
        /\ call' = [op |-> "push", answer |-> FullError]
    BY <1>5 DEF R!Refuse, R!Called
  <2>2. RingContents' = RingContents
    BY <2>1 DEF RingContents, At
  <2> QED BY <1>0, <1>2, <2>1, <2>2, ListRefuses
<1>6. CASE /\ size # Capacity /\ R(o)!Store(index) /\ size' = size + 1 /\ UNCHANGED first
           /\ R(o)!Called("push", size + 1)
  <2>1. x \in Item /\ \A s \in Slots : store'[s] = IF s = index THEN x ELSE store[s]
    BY <1>4, <1>6, RingStoreAt
  <2>2. ASSUME NEW n \in 0 .. size - 1
        PROVE  At(n)' = At(n)
    <3>1. n \in Slots /\ size \in Slots /\ n # size /\ n \in Nat
      BY <1>0, <1>6 DEF Slots
    <3>2. (first + n) % Capacity # (first + size) % Capacity /\ (first + n) % Capacity \in Slots
      BY <1>0, <3>1, SlotsApart, SlotOf
    <3> QED BY <1>4, <1>6, <2>1, <3>2 DEF At
  <2>3. store'[(first' + size) % Capacity] = x
    BY <1>4, <1>6, <2>1
  <2>4. \A n \in 1 .. size : RingContents'[n] = RingContents[n]
    <3> SUFFICES ASSUME NEW n \in 1 .. size PROVE RingContents'[n] = RingContents[n]
      OBVIOUS
    <3>1. n - 1 \in 0 .. size - 1 /\ n \in 1 .. size'
      BY <1>0, <1>6
    <3> QED BY <1>0, <1>1, <2>2, <3>1
  <2>5. RingContents'[size + 1] = x
    <3>1. size + 1 \in 1 .. size' /\ (size + 1) - 1 = size
      BY <1>0, <1>6
    <3>2. \A n \in 1 .. size' : RingContents'[n] = store'[(first' + (n - 1)) % Capacity]
      BY <1>1 DEF At
    <3> QED BY <2>3, <3>1, <3>2
  <2> HIDE DEF x
  <2>6. RingContents' = Append(RingContents, x)
    BY <1>0, <1>1, <1>6, <2>1, <2>4, <2>5, IsAppend
  <2>7. call' = [op |-> "push", answer |-> Len(RingContents) + 1]
    BY <1>0, <1>6 DEF R!Called
  <2> QED BY <1>0, <1>2, <1>6, <2>1, <2>6, <2>7, ListPushes
<1>7. CASE /\ size = Capacity /\ o /\ R(o)!Store(index) /\ UNCHANGED size
           /\ first' = IF index + 1 >= Capacity THEN 0 ELSE index + 1
           /\ R(o)!Called("push", size)
  <2>1. x \in Item /\ \A s \in Slots : store'[s] = IF s = index THEN x ELSE store[s]
    BY <1>4, <1>7, RingStoreAt
  <2>2. index = first
    BY <1>0, <1>4, <1>7, SlotItself
  <2>3. \A n \in Nat : (first' + n) % Capacity = (first + (n + 1)) % Capacity
    <3>1. first' = (IF first + 1 >= Capacity THEN 0 ELSE first + 1)
      BY <1>7, <2>2
    <3>2. first + 1 >= Capacity <=> first + 1 = Capacity
      BY <1>0
    <3>3. first' = (IF first + 1 = Capacity THEN 0 ELSE first + 1)
      BY <3>1, <3>2
    <3> QED BY <3>3, <1>0, NextSlot
  <2>4. ASSUME NEW n \in 0 .. size - 2
        PROVE  At(n)' = At(n + 1)
    <3>1. n \in Nat /\ n + 1 \in Nat /\ n + 1 \in Slots /\ 0 \in Slots /\ n + 1 # 0
      BY <1>0, <1>7 DEF Slots
    <3>2. (first + (n + 1)) % Capacity # (first + 0) % Capacity /\ (first + 0) % Capacity = first
      BY <1>0, <3>1, SlotsApart, SlotItself
    <3>3. (first + (n + 1)) % Capacity \in Slots
      BY <1>0, <3>1, SlotOf
    <3> QED BY <2>1, <2>2, <2>3, <3>1, <3>2, <3>3 DEF At
  <2>5. At(size - 1)' = x
    <3>1. size - 1 \in Nat /\ (size - 1) + 1 = size
      BY <1>0, <1>7
    <3>2. (first' + (size - 1)) % Capacity = index
      BY <3>1, <1>4, <2>3
    <3> QED BY <1>4, <1>7, <2>1, <3>2 DEF At
  <2> DEFINE rest == Tail(RingContents)
  <2>6. rest \in Seq(Item) /\ Len(rest) = size - 1 /\ \A n \in 1 .. size - 1 : rest[n] = RingContents[n + 1]
    BY <1>0, <1>7
  <2>7. \A n \in 1 .. Len(rest) : RingContents'[n] = rest[n]
    <3> SUFFICES ASSUME NEW n \in 1 .. size - 1 PROVE RingContents'[n] = rest[n]
      BY <2>6
    <3>1. n - 1 \in 0 .. size - 2 /\ n \in 1 .. size' /\ n + 1 \in 1 .. size /\ (n - 1) + 1 = (n + 1) - 1
      BY <1>0, <1>7
    <3>2. RingContents'[n] = At((n - 1) + 1)
      BY <1>1, <2>4, <3>1
    <3> QED BY <1>0, <2>6, <3>1, <3>2
  <2>8. RingContents'[Len(rest) + 1] = x
    <3>1. Len(rest) + 1 = size /\ size \in 1 .. size'
      BY <1>0, <1>7, <2>6
    <3>2. RingContents'[size] = At(size - 1)'
      BY <3>1, <1>1, <1>7
    <3> QED BY <3>1, <3>2, <2>5
  <2> HIDE DEF x, rest
  <2>9. RingContents' = Append(rest, x)
    <3>1. Len(RingContents') = Len(rest) + 1
      BY <1>0, <1>1, <1>7, <2>6
    <3> QED BY <1>1, <2>1, <2>6, <2>7, <2>8, <3>1, IsAppend
  <2>10. call' = [op |-> "push", answer |-> Capacity]
    BY <1>7 DEF R!Called
  <2> QED BY <1>0, <1>2, <1>7, <2>1, <2>9, <2>10, ListEvicts DEF rest
<1> QED BY <1>5, <1>6, <1>7 DEF R!Push

LEMMA RingListUnshift ==
    ASSUME RingInv, NEW o \in BOOLEAN, RingKind(o), UNCHANGED kind, R(o)!Unshift, RingInv', ~(size > Capacity)
    PROVE  List!Next
<1> DEFINE index == R(o)!PreviousStart
           x == arrived + 1
<1>0. /\ size \in Nat /\ first \in Slots /\ Capacity \in Nat \ {0} /\ first \in 0 .. Capacity - 1
      /\ RingContents \in Seq(Item) /\ Len(RingContents) = size
      /\ \A n \in 1 .. size : RingContents[n] = At(n - 1)
      /\ size <= Capacity
  BY RingItems DEF Slots, Item, RingInv
<1>1. /\ size' \in Nat /\ first' \in Slots
      /\ RingContents' \in Seq(Item) /\ Len(RingContents') = size'
      /\ \A n \in 1 .. size' : RingContents'[n] = At(n - 1)'
  BY RingItemsNext DEF RingInv
<1>2. /\ Contents = RingContents /\ CallSeen = call /\ Room = Capacity
      /\ Policy = (IF o THEN "evict" ELSE "refuse")
      /\ Contents' = RingContents' /\ CallSeen' = call' /\ Policy' = Policy
  BY RingList, RingListNext
<1>3. index \in Slots /\ first = (IF index + 1 = Capacity THEN 0 ELSE index + 1)
  BY <1>0 DEF R!PreviousStart, Slots
<1>4. \A n \in Nat : (first + n) % Capacity = (index + (n + 1)) % Capacity
  BY <1>3, NextSlot
<1>5. CASE R(o)!Refuse("unshift")
  <2>1. /\ size = Capacity /\ ~o /\ UNCHANGED <<store, first, size>>
        /\ call' = [op |-> "unshift", answer |-> FullError]
    BY <1>5 DEF R!Refuse, R!Called
  <2>2. RingContents' = RingContents
    BY <2>1 DEF RingContents, At
  <2> QED BY <1>0, <1>2, <2>1, <2>2, ListRefuses
<1>6. CASE /\ size # Capacity \/ o
           /\ R(o)!Store(index) /\ first' = index
           /\ size' = IF size = Capacity THEN size ELSE size + 1
           /\ R(o)!Called("unshift", size')
  <2> DEFINE kept == size' - 1
             rest == SubSeq(RingContents, 1, kept)
  <2>0. kept \in 0 .. size /\ size' = kept + 1 /\ size' <= Capacity
    BY <1>0, <1>6
  <2>1. x \in Item /\ \A s \in Slots : store'[s] = IF s = index THEN x ELSE store[s]
    BY <1>3, <1>6, RingStoreAt
  <2>2. ASSUME NEW n \in 0 .. kept - 1
        PROVE  At(n + 1)' = At(n)
    <3>1. n \in Nat /\ n + 1 \in Nat /\ n + 1 \in Slots /\ 0 \in Slots /\ n + 1 # 0
      BY <1>0, <2>0 DEF Slots
    <3>2. (index + (n + 1)) % Capacity # (index + 0) % Capacity /\ (index + 0) % Capacity = index
      BY <1>3, <3>1, SlotsApart, SlotItself
    <3>3. (index + (n + 1)) % Capacity \in Slots
      BY <1>3, <3>1, SlotOf
    <3> QED BY <1>4, <1>6, <2>1, <3>1, <3>2, <3>3 DEF At
  <2>3. At(0)' = x
    <3>1. (index + 0) % Capacity = index
      BY <1>3, SlotItself
    <3> QED BY <1>3, <1>6, <2>1, <3>1 DEF At
  <2>4. /\ rest \in Seq(Item) /\ Len(rest) = kept
        /\ \A n \in 1 .. kept : rest[n] = RingContents[n]
    BY <1>0, <2>0
  <2>5. RingContents'[1] = x
    <3>1. 1 \in 1 .. size' /\ 1 - 1 = 0
      BY <1>0, <2>0
    <3> QED BY <1>1, <2>3, <3>1
  <2>6. \A n \in 1 .. Len(rest) : RingContents'[n + 1] = rest[n]
    <3> SUFFICES ASSUME NEW n \in 1 .. kept PROVE RingContents'[n + 1] = rest[n]
      BY <2>4
    <3>1. /\ n - 1 \in 0 .. kept - 1 /\ n + 1 \in 1 .. size' /\ n \in 1 .. size
          /\ (n + 1) - 1 = (n - 1) + 1
      BY <1>0, <2>0
    <3>2. RingContents'[n + 1] = At((n - 1) + 1)'
      BY <1>1, <3>1
    <3> QED BY <1>0, <2>2, <2>4, <3>1, <3>2
  <2> HIDE DEF x, rest
  <2>7. RingContents' = <<x>> \o rest
    <3>1. /\ Len(RingContents') = Len(rest) + 1 /\ RingContents' \in Seq(Item)
          /\ rest \in Seq(Item) /\ x \in Item
      BY <1>1, <2>0, <2>1, <2>4
    <3> QED BY <2>5, <2>6, <3>1, IsCons, SMTT(60)
  <2>8. call' = [op |-> "unshift", answer |-> size']
    BY <1>6 DEF R!Called
  <2>9. CASE size = Capacity
    <3>1. size' = Capacity /\ kept = Capacity - 1 /\ o
      BY <1>6, <2>9
    <3> QED BY <1>0, <1>2, <2>1, <2>7, <2>8, <2>9, <3>1, ListEvictsLast DEF rest
  <2>10. CASE size # Capacity
    <3>1. size' = size + 1 /\ kept = size
      BY <1>0, <1>6, <2>10
    <3>2. rest = RingContents
      BY <1>0, <2>4, <3>1, SeqEqual
    <3> QED BY <1>0, <1>2, <2>1, <2>7, <2>8, <2>10, <3>1, <3>2, ListUnshifts
  <2> QED BY <2>9, <2>10
<1> QED BY <1>5, <1>6 DEF R!Unshift

LEMMA RingListPop ==
    ASSUME RingInv, NEW o \in BOOLEAN, RingKind(o), UNCHANGED kind, R(o)!Pop, RingInv',
           ~(size > Capacity /\ first + size > 2 * Capacity)
    PROVE  List!Next
<1>0. /\ size \in Nat /\ first \in Slots /\ Capacity \in Nat \ {0} /\ first \in 0 .. Capacity - 1
      /\ RingContents \in Seq(Item) /\ Len(RingContents) = size
      /\ \A n \in 1 .. size : RingContents[n] = At(n - 1)
      /\ Slots \subseteq DOMAIN store
  BY RingItems DEF Slots, Item, RingInv, RingStored
<1>1. /\ size' \in Nat
      /\ RingContents' \in Seq(Item) /\ Len(RingContents') = size'
      /\ \A n \in 1 .. size' : RingContents'[n] = At(n - 1)'
  BY RingItemsNext DEF RingInv
<1>2. Contents = RingContents /\ Contents' = RingContents' /\ CallSeen' = call'
  BY RingList, RingListNext
<1>3. UNCHANGED <<store, first>> /\ \A n \in Int : At(n)' = At(n)
  BY DEF R!Pop, At
<1>4. CASE size = 0
  <2>1. RingContents = <<>>
    BY <1>0, <1>4, EmptyContents
  <2>2. call' = [op |-> "pop", answer |-> None] /\ size' = size
    BY <1>4 DEF R!Pop, R!Called
  <2>3. RingContents' = RingContents
    BY <2>2, <1>3 DEF RingContents, At
  <2> QED BY <1>2, <2>1, <2>2, <2>3, ListPops
<1>5. CASE size # 0
  <2> DEFINE a == first + (size - 1)
  <2>1. size' = size - 1 /\ R(o)!Called("pop", R(o)!ItemAt(R(o)!WrapOnce(first + size')))
    BY <1>5 DEF R!Pop
  <2>2. a \in 0 .. 2 * Capacity - 1 /\ size \in 1 .. size /\ size - 1 \in 0 .. size - 1
    BY <1>0, <1>5
  <2>3. R(o)!WrapOnce(a) = (a % Capacity) /\ (a % Capacity) \in Slots
    BY <2>2, WrapsOnce
  <2>4. R(o)!ItemAt(a % Capacity) = RingContents[size]
    BY <1>0, <2>2, <2>3 DEF R!ItemAt, At
  <2>5. call' = [op |-> "pop", answer |-> RingContents[Len(RingContents)]]
    BY <1>0, <2>1, <2>3, <2>4 DEF R!Called
  <2>6. \A n \in 1 .. Len(RingContents') : RingContents'[n] = RingContents[n + (1 - 1)]
    <3> SUFFICES ASSUME NEW n \in 1 .. size' PROVE RingContents'[n] = RingContents[n]
      BY <1>1
    <3>1. n \in 1 .. size /\ n - 1 \in Int
      BY <1>0, <2>1
    <3> QED BY <1>0, <1>1, <1>3, <3>1
  <2>7. RingContents' = SubSeq(RingContents, 1, Len(RingContents) - 1)
    <3>1. /\ 1 \in 1 .. Len(RingContents) + 1 /\ size - 1 \in 1 - 1 .. Len(RingContents)
          /\ Len(RingContents') = ((size - 1) - 1) + 1
      BY <1>0, <1>1, <1>5, <2>1
    <3>2. RingContents' = SubSeq(RingContents, 1, size - 1)
      BY <1>0, <1>1, <2>6, <3>1, IsSubSeq
    <3> QED BY <1>0, <3>2
  <2>8. RingContents # <<>>
    BY <1>0, <1>5, EmptyContents
  <2> QED BY <1>2, <2>5, <2>7, <2>8, ListPops
<1> QED BY <1>4, <1>5

LEMMA RingListShift ==
    ASSUME RingInv, NEW o \in BOOLEAN, RingKind(o), UNCHANGED kind, R(o)!Shift, RingInv'
    PROVE  List!Next
<1>0. /\ size \in Nat /\ first \in Slots /\ Capacity \in Nat \ {0} /\ first \in 0 .. Capacity - 1
      /\ RingContents \in Seq(Item) /\ Len(RingContents) = size
      /\ \A n \in 1 .. size : RingContents[n] = At(n - 1)
  BY RingItems DEF Slots, Item, RingInv
<1>1. /\ size' \in Nat
      /\ RingContents' \in Seq(Item) /\ Len(RingContents') = size'
      /\ \A n \in 1 .. size' : RingContents'[n] = At(n - 1)'
  BY RingItemsNext DEF RingInv
<1>2. Contents = RingContents /\ Contents' = RingContents' /\ CallSeen' = call' /\ store' = store
  BY RingList, RingListNext DEF R!Shift
<1>4. CASE size = 0
  <2>1. RingContents = <<>>
    BY <1>0, <1>4, EmptyContents
  <2>2. call' = [op |-> "shift", answer |-> None] /\ size' = size /\ first' = first
    BY <1>4 DEF R!Shift, R!Called
  <2>3. RingContents' = RingContents
    BY <2>2, <1>2 DEF RingContents, At
  <2> QED BY <1>2, <2>1, <2>2, <2>3, ListShifts
<1>5. CASE size # 0
  <2>1. /\ size' = size - 1 /\ first' = (IF first + 1 = Capacity THEN 0 ELSE first + 1)
        /\ R(o)!Called("shift", store[first])
    BY <1>5 DEF R!Shift
  <2>2. \A n \in Nat : (first' + n) % Capacity = (first + (n + 1)) % Capacity
    BY <1>0, <2>1, NextSlot
  <2>3. RingContents[1] = store[first]
    <3>1. 1 \in 1 .. size /\ 1 - 1 = 0 /\ (first + 0) % Capacity = first
      BY <1>0, <1>5, SlotItself
    <3> QED BY <3>1, <1>0 DEF At
  <2>4. \A n \in 1 .. Len(RingContents') : RingContents'[n] = RingContents[n + 1]
    <3> SUFFICES ASSUME NEW n \in 1 .. size' PROVE RingContents'[n] = RingContents[n + 1]
      BY <1>1
    <3>1. n + 1 \in 1 .. size /\ n - 1 \in Nat /\ (n + 1) - 1 = (n - 1) + 1
      BY <1>0, <2>1
    <3>2. At(n - 1)' = At((n - 1) + 1)
      BY <1>2, <2>2, <3>1 DEF At
    <3> QED BY <1>0, <1>1, <3>1, <3>2
  <2>5. RingContents' = Tail(RingContents)
    <3>1. Len(RingContents) # 0 /\ Len(RingContents') = Len(RingContents) - 1
      BY <1>0, <1>1, <1>5, <2>1
    <3> QED BY <1>0, <1>1, <2>4, <3>1, IsTail
  <2>6. RingContents # <<>> /\ call' = [op |-> "shift", answer |-> Head(RingContents)]
    <3>1. RingContents # <<>>
      BY <1>0, <1>5, EmptyContents
    <3>2. Head(RingContents) = RingContents[1]
      BY <1>0, <3>1
    <3> QED BY <2>1, <2>3, <3>1, <3>2 DEF R!Called
  <2> QED BY <1>2, <2>5, <2>6, ListShifts
<1> QED BY <1>4, <1>5

(* A step of a ring leaves it in order, and is one of the list unless it   *)
(* is past the promise.                                                    *)
LEMMA RingStep ==
    ASSUME RingInv, NEW o \in BOOLEAN, R(o)!Next
    PROVE  RingInv'
  BY RingPush, RingUnshift, RingPop, RingShift, RingClear, RingOpenWalk, RingStepWalk DEF R!Next

LEMMA RingListStep ==
    ASSUME RingInv, NEW o \in BOOLEAN, RingKind(o), UNCHANGED kind, R(o)!Next
    PROVE  List!Next \/ PastPromise \/ UNCHANGED listVars
<1>1. RingInv'
  BY RingStep
<1>2. RingKind(o) => kind \in {"FixedDeque", "CircularBuffer"}
  BY DEF RingKind
<1>3. CASE R(o)!Push
  <2>1. call'.op = "push"
    BY <1>3 DEF R!Push, R!Refuse, R!Called
  <2>2. CASE size > Capacity
    BY <1>2, <2>1, <2>2 DEF PastPromise, Deque!PastPromise, Deque!Overfilled
  <2> QED BY <1>1, <1>3, <2>2, RingListPush
<1>4. CASE R(o)!Unshift
  <2>1. call'.op = "unshift"
    BY <1>4 DEF R!Unshift, R!Refuse, R!Called
  <2>2. CASE size > Capacity
    BY <1>2, <2>1, <2>2 DEF PastPromise, Deque!PastPromise, Deque!Overfilled
  <2> QED BY <1>1, <1>4, <2>2, RingListUnshift
<1>5. CASE R(o)!Pop
  <2>1. call'.op = "pop"
    BY <1>5 DEF R!Pop, R!Called
  <2>2. CASE size > Capacity /\ first + size > 2 * Capacity
    BY <1>2, <2>1, <2>2 DEF PastPromise, Deque!PastPromise, Deque!Overfilled
  <2> QED BY <1>1, <1>5, <2>2, RingListPop
<1>6. CASE R(o)!Shift
  BY <1>1, <1>6, RingListShift
<1>7. CASE R(o)!Clear
  <2>1. size' = 0 /\ call' = [op |-> "clear", answer |-> None]
    BY <1>7 DEF R!Clear, R!Called
  <2>2. RingContents' = <<>>
    BY <1>1, <2>1, RingItemsNext, EmptyContents DEF RingInv
  <2> QED BY <2>1, <2>2, RingListNext, ListClears
<1>8. CASE R(o)!OpenWalk \/ R(o)!StepWalk
  <2>1. UNCHANGED <<store, first, size, call>>
    BY <1>8 DEF R!OpenWalk, R!StepWalk
  <2>2. RingContents' = RingContents
    BY <2>1 DEF RingContents, At
  <2> QED BY <2>1, <2>2, RingList, RingListNext, ListStutters
<1> QED BY <1>3, <1>4, <1>5, <1>6, <1>7, <1>8 DEF R!Next

-----------------------------------------------------------------------------
(* Queue.                                                                  *)

QueueStored ==
    /\ arrived \in 0 .. MaxItems
    /\ store \in Seq(1 .. arrived)
    /\ first \in Nat /\ first <= Len(store) /\ size = Len(store) - first
    /\ first = 0 \/ first * 2 < Len(store)
    /\ \A i \in 1 .. Len(store) : store[i] = (arrived - Len(store)) + i

QueueHeld == IF walk.frozen.array = None THEN store ELSE walk.frozen.array

QueueFrozen == [array : Seq(Int) \cup {None}, offset : Nat]

QueueWalk ==
    /\ walk \in Cursor(QueueFrozen, arrived)
    /\ QueueHeld \in Seq(1 .. arrived)
    /\ \A i, j \in 1 .. Len(QueueHeld) : QueueHeld[i] - i = QueueHeld[j] - j
    /\ Len(walk.seen) = walk.ordinal
    /\ walk.frozen.offset + walk.ordinal <= Len(QueueHeld)
    /\ \A i \in 1 .. walk.ordinal : walk.seen[i] = QueueHeld[walk.frozen.offset + i]
    /\ walk.fresh => /\ walk.frozen.array = None /\ walk.frozen.offset = first
                     /\ walk.ended => walk.ordinal = size

QueueInv == QueueStored /\ QueueWalk

LEMMA NoneNoSeq ==
    ASSUME NEW n \in Nat, NEW array \in Seq(0 .. n \cup {None})
    PROVE  array \in Seq(Int \cup {None}) /\ array # None
<1>1. array \in Seq(Int \cup {None})
  OBVIOUS
<1> QED BY <1>1, SequencesAssumption

(* What a call does to a walk that keeps the array it reads.               *)
LEMMA QueueCalled ==
    ASSUME QueueInv, arrived' \in {arrived, arrived + 1},
           \/ /\ walk' = CursorDisturbed(walk)
              /\ store' = store \/ (store' = Append(store, arrived + 1) /\ arrived' = arrived + 1)
           \/ walk' = CursorDisturbed(Fifo!LeftBehind(walk))
    PROVE  QueueWalk'
<1>1. /\ arrived \in Nat /\ walk \in Cursor(QueueFrozen, arrived) /\ store \in Seq(1 .. arrived)
      /\ store \in Seq(Int) /\ store # None /\ walk.frozen \in QueueFrozen
      /\ \A i \in 1 .. Len(store) : store[i] = (arrived - Len(store)) + i
  <2>1. arrived \in Nat /\ store \in Seq(1 .. arrived) /\ walk \in Cursor(QueueFrozen, arrived)
    BY SequencesAssumption DEF QueueInv, QueueStored, QueueWalk
  <2>2. store \in Seq(Int) /\ store \in Seq(0 .. arrived \cup {None})
    BY <2>1
  <2>3. store # None
    BY <2>1, <2>2, NoneNoSeq
  <2> QED BY <2>1, <2>2, <2>3 DEF QueueInv, QueueStored, Cursor
<1> DEFINE w == Fifo!LeftBehind(walk)
<1>2. /\ w \in Cursor(QueueFrozen, arrived)
      /\ w.frozen.offset = walk.frozen.offset /\ w.ordinal = walk.ordinal /\ w.seen = walk.seen
      /\ w.frozen.array = QueueHeld /\ w.frozen.array # None
  <2>1. CASE walk.frozen.array = None
    <3> DEFINE left == [walk.frozen EXCEPT !.array = store]
    <3>1. left \in QueueFrozen /\ left.offset = walk.frozen.offset /\ left.array = store
      BY <1>1 DEF QueueFrozen
    <3>2. w = [walk EXCEPT !.frozen = left]
      BY <2>1 DEF Fifo!LeftBehind
    <3> HIDE DEF left, w
    <3> QED BY <1>1, <2>1, <3>1, <3>2 DEF Cursor, QueueHeld
  <2>2. CASE walk.frozen.array # None
    BY <1>1, <2>2 DEF Fifo!LeftBehind, QueueHeld
  <2> QED BY <2>1, <2>2
<1> HIDE DEF w
<1>3. QueueHeld \in Seq(1 .. arrived) /\ QueueHeld \in Seq(1 .. arrived')
  BY <1>1 DEF QueueInv, QueueWalk
<1>4. CASE walk' = CursorDisturbed(w)
  <2>1. /\ walk' \in Cursor(QueueFrozen, arrived')
        /\ walk'.frozen = w.frozen /\ walk'.ordinal = w.ordinal /\ walk'.seen = w.seen
        /\ ~walk'.fresh
    BY <1>1, <1>2, <1>4, DisturbedFields
  <2>2. QueueHeld' = QueueHeld
    BY <1>2, <2>1 DEF QueueHeld
  <2> QED BY <1>2, <1>3, <2>1, <2>2 DEF QueueInv, QueueWalk
<1>5. CASE /\ walk' = CursorDisturbed(walk)
           /\ store' = store \/ (store' = Append(store, arrived + 1) /\ arrived' = arrived + 1)
  <2>1. /\ walk' \in Cursor(QueueFrozen, arrived')
        /\ walk'.frozen = walk.frozen /\ walk'.ordinal = walk.ordinal /\ walk'.seen = walk.seen
        /\ ~walk'.fresh
    BY <1>1, <1>5, DisturbedFields
  <2>2. CASE QueueHeld' = QueueHeld
    BY <1>3, <2>1, <2>2 DEF QueueInv, QueueWalk
  <2>3. CASE QueueHeld = store /\ QueueHeld' = Append(store, arrived + 1) /\ arrived' = arrived + 1
    <3> DEFINE more == Append(store, arrived + 1)
    <3>0. /\ walk.ordinal \in Nat /\ walk.frozen.offset \in Nat
          /\ walk.frozen.offset + walk.ordinal <= Len(store)
          /\ \A i \in 1 .. walk.ordinal : walk.seen[i] = store[walk.frozen.offset + i]
          /\ Len(walk.seen) = walk.ordinal
      BY <1>1, <2>3 DEF QueueInv, QueueWalk, Cursor, QueueFrozen
    <3>1. /\ more \in Seq(1 .. arrived') /\ Len(more) = Len(store) + 1
          /\ more[Len(store) + 1] = arrived + 1
          /\ \A i \in 1 .. Len(store) : more[i] = store[i]
          /\ Len(store) \in Nat
      <4>1. store \in Seq(1 .. arrived') /\ arrived + 1 \in 1 .. arrived'
        BY <1>1, <2>3
      <4> QED BY <4>1
    <3> HIDE DEF more
    <3>2. \A i \in 1 .. Len(more) : more[i] = (arrived - Len(store)) + i
      <4> SUFFICES ASSUME NEW i \in 1 .. Len(more) PROVE more[i] = (arrived - Len(store)) + i
        OBVIOUS
      <4>1. CASE i \in 1 .. Len(store)  BY <4>1, <1>1, <3>1
      <4>2. CASE i = Len(store) + 1  BY <4>2, <1>1, <3>1
      <4> QED BY <4>1, <4>2, <3>1
    <3>3. \A i, j \in 1 .. Len(more) : more[i] - i = more[j] - j
      BY <1>1, <3>1, <3>2
    <3>4. \A i \in 1 .. walk.ordinal : walk.seen[i] = more[walk.frozen.offset + i]
      <4> SUFFICES ASSUME NEW i \in 1 .. walk.ordinal
                   PROVE  walk.seen[i] = more[walk.frozen.offset + i]
        OBVIOUS
      <4>1. walk.frozen.offset + i \in 1 .. Len(store)
        BY <3>0, <3>1, SMTT(60)
      <4> QED BY <4>1, <3>0, <3>1
    <3>5. walk.frozen.offset + walk.ordinal <= Len(more)
      BY <3>0, <3>1
    <3> QED BY <2>1, <2>3, <3>0, <3>1, <3>3, <3>4, <3>5 DEF QueueWalk, more
  <2> QED BY <1>5, <2>1, <2>2, <2>3 DEF QueueHeld
<1> QED BY <1>4, <1>5 DEF w

LEMMA QueueClear ==
    ASSUME QueueInv, Fifo!Clear
    PROVE  QueueInv'
<1>1. QueueWalk'
  BY QueueCalled DEF Fifo!Clear, Fifo!Disturbed, CursorDisturbed
<1>2. store' = <<>> /\ first' = 0 /\ size' = 0 /\ arrived' = arrived
  BY DEF Fifo!Clear
<1> QED BY <1>1, <1>2 DEF QueueInv, QueueStored

LEMMA QueueEnqueue ==
    ASSUME QueueInv, Fifo!Enqueue
    PROVE  QueueInv'
<1>1. /\ arrived' = arrived + 1 /\ store' = Append(store, arrived + 1) /\ first' = first
      /\ size' = size + 1 /\ walk' = CursorDisturbed(walk) /\ arrived < MaxItems
  BY DEF Fifo!Enqueue, Fifo!Disturbed, CursorDisturbed
<1>2. QueueWalk'
  BY <1>1, QueueCalled
<1>3. /\ arrived \in 0 .. MaxItems /\ store \in Seq(1 .. arrived) /\ MaxItems \in Nat
      /\ first \in Nat /\ first <= Len(store) /\ size = Len(store) - first
      /\ first = 0 \/ first * 2 < Len(store)
      /\ \A i \in 1 .. Len(store) : store[i] = (arrived - Len(store)) + i
  BY SequencesAssumption DEF QueueInv, QueueStored
<1>4. arrived' \in 0 .. MaxItems /\ store \in Seq(1 .. arrived') /\ arrived + 1 \in 1 .. arrived'
  BY <1>1, <1>3
<1>5. /\ store' \in Seq(1 .. arrived') /\ Len(store') = Len(store) + 1 /\ Len(store) \in Nat
      /\ store'[Len(store) + 1] = arrived + 1 /\ \A i \in 1 .. Len(store) : store'[i] = store[i]
  BY <1>1, <1>4
<1>6. ASSUME NEW i \in 1 .. Len(store')
      PROVE  store'[i] = (arrived' - Len(store')) + i
  <2>1. CASE i \in 1 .. Len(store)  BY <2>1, <1>1, <1>3, <1>5
  <2>2. CASE i = Len(store) + 1  BY <2>2, <1>1, <1>3, <1>5
  <2> QED BY <2>1, <2>2, <1>5
<1>7. /\ first' \in Nat /\ first' <= Len(store') /\ size' = Len(store') - first'
      /\ first' = 0 \/ first' * 2 < Len(store')
  <2> DEFINE n == Len(store)
             twice == first * 2
  <2>1. n \in Nat /\ first \in Nat /\ first <= n /\ size = n - first /\ (first = 0 \/ twice < n) /\ twice \in Nat
    BY <1>3, <1>5
  <2>2. Len(store') = n + 1 /\ first' = first /\ size' = size + 1 /\ first' * 2 = twice
    BY <1>1, <1>5
  <2> HIDE DEF n, twice
  <2> QED BY ONLY <2>1, <2>2
<1> QED BY <1>2, <1>4, <1>5, <1>6, <1>7 DEF QueueInv, QueueStored

LEMMA QueueDequeue ==
    ASSUME QueueInv, Fifo!Dequeue
    PROVE  QueueInv'
<1>0. /\ arrived \in 0 .. MaxItems /\ store \in Seq(1 .. arrived) /\ Len(store) \in Nat
      /\ first \in Nat /\ first <= Len(store) /\ size = Len(store) - first
      /\ \A i \in 1 .. Len(store) : store[i] = (arrived - Len(store)) + i
      /\ arrived' = arrived
  BY DEF QueueInv, QueueStored, Fifo!Dequeue
<1>1. CASE size = 0
  <2>1. UNCHANGED <<store, first, size>> /\ walk' = CursorDisturbed(walk)
    BY <1>0, <1>1 DEF Fifo!Dequeue, Fifo!Disturbed, CursorDisturbed
  <2>2. QueueWalk'
    BY <1>0, <2>1, QueueCalled
  <2> QED BY <1>0, <2>1, <2>2 DEF QueueInv, QueueStored
<1>2. CASE size > 0 /\ (first + 1) * 2 >= Len(store)
  <2>1. /\ store' = SubSeq(store, first + 2, Len(store)) /\ first' = 0 /\ size' = size - 1
        /\ walk' = CursorDisturbed(Fifo!LeftBehind(walk))
    BY <1>2 DEF Fifo!Dequeue, Fifo!Disturbed, CursorDisturbed
  <2>2. QueueWalk'
    BY <1>0, <2>1, QueueCalled
  <2>3. first + 2 \in 1 .. Len(store) + 1 /\ Len(store) \in (first + 2) - 1 .. Len(store)
    BY <1>0, <1>2
  <2>4. /\ store' \in Seq(1 .. arrived) /\ Len(store') = (Len(store) - (first + 2)) + 1
        /\ \A i \in 1 .. Len(store') : store'[i] = store[i + ((first + 2) - 1)]
    <3> DEFINE m == first + 2
               n == Len(store)
    <3>1. store \in Seq(1 .. arrived) /\ m \in 1 .. Len(store) + 1 /\ n \in m - 1 .. Len(store)
      BY <1>0, <2>3
    <3>2. store' = SubSeq(store, m, n)
      BY <2>1
    <3> HIDE DEF m, n
    <3>3. /\ store' \in Seq(1 .. arrived) /\ Len(store') = (n - m) + 1
          /\ \A i \in 1 .. Len(store') : store'[i] = store[i + (m - 1)]
      BY <3>1, <3>2, SubSeqIs, ZenonT(60)
    <3> QED BY <3>3 DEF m, n
  <2>5. ASSUME NEW i \in 1 .. Len(store')
        PROVE  store'[i] = (arrived' - Len(store')) + i
    <3>1. i + ((first + 2) - 1) \in 1 .. Len(store)
      BY <1>0, <2>4
    <3> QED BY <3>1, <1>0, <2>4
  <2>6. first' \in Nat /\ first' <= Len(store') /\ size' = Len(store') - first'
    BY <1>0, <1>2, <2>1, <2>4, SMTT(60)
  <2> QED BY <1>0, <2>1, <2>2, <2>4, <2>5, <2>6 DEF QueueInv, QueueStored
<1>3. CASE size > 0 /\ ~((first + 1) * 2 >= Len(store))
  <2>1. store' = store /\ first' = first + 1 /\ size' = size - 1 /\ walk' = CursorDisturbed(walk)
    BY <1>3 DEF Fifo!Dequeue, Fifo!Disturbed, CursorDisturbed
  <2>2. QueueWalk'
    BY <1>0, <2>1, QueueCalled
  <2>3. /\ first' \in Nat /\ first' <= Len(store') /\ size' = Len(store') - first'
        /\ first' = 0 \/ first' * 2 < Len(store')
    BY <1>0, <1>3, <2>1
  <2> QED BY <1>0, <2>1, <2>2, <2>3 DEF QueueInv, QueueStored
<1> QED BY <1>0, <1>1, <1>2, <1>3

LEMMA QueueOpenWalk ==
    ASSUME QueueInv, Fifo!OpenWalk
    PROVE  QueueInv'
<1>1. /\ UNCHANGED <<store, first, size, arrived>>
      /\ walk' = [frozen |-> [array |-> None, offset |-> first], len |-> Len(store) - first,
                  ordinal |-> 0, seen |-> <<>>, fresh |-> TRUE, ended |-> FALSE]
  BY DEF Fifo!OpenWalk, Fifo!OpenCursor
<1>2. QueueStored /\ QueueStored'
  BY <1>1 DEF QueueInv, QueueStored
<1>3. /\ first \in Nat /\ arrived \in Nat /\ <<>> \in Seq(0 .. arrived) /\ Len(<<>>) = 0 /\ Len(store) - first \in Nat
      /\ store \in Seq(1 .. arrived) /\ Len(store) \in Nat
      /\ \A i \in 1 .. Len(store) : store[i] = (arrived - Len(store)) + i
  BY <1>2, SequencesAssumption DEF QueueStored
<1>4. walk' \in Cursor(QueueFrozen, arrived')
  BY <1>1, <1>3 DEF Cursor, QueueFrozen
<1>5. QueueHeld' = store
  BY <1>1 DEF QueueHeld
<1>6. \A i, j \in 1 .. Len(store) : store[i] - i = store[j] - j
  BY <1>3, SMTT(60)
<1>7. QueueWalk'
  BY <1>1, <1>2, <1>3, <1>4, <1>5, <1>6 DEF QueueWalk, QueueStored
<1> QED BY <1>2, <1>7 DEF QueueInv

LEMMA QueueStepWalk ==
    ASSUME QueueInv, Fifo!StepWalk
    PROVE  QueueInv'
<1> DEFINE at == walk.frozen.offset + walk.ordinal + 1
           limit == IF Len(QueueHeld) > walk.frozen.offset
                    THEN Len(QueueHeld) - walk.frozen.offset ELSE 0
           item == IF at \in DOMAIN QueueHeld THEN QueueHeld[at] ELSE None
<1>1. UNCHANGED <<store, first, size, arrived>> /\ walk' = Fifo!StepCursor(walk, limit, item)
  BY DEF Fifo!StepWalk, QueueHeld
<1>2. QueueStored'
  BY <1>1 DEF QueueInv, QueueStored
<1>3. /\ walk \in Cursor(QueueFrozen, arrived) /\ walk.frozen.offset \in Nat /\ walk.ordinal \in Nat
      /\ walk.seen \in Seq(0 .. arrived) /\ arrived \in Nat
      /\ QueueHeld \in Seq(1 .. arrived) /\ Len(QueueHeld) \in Nat /\ DOMAIN QueueHeld = 1 .. Len(QueueHeld)
      /\ walk.frozen.offset + walk.ordinal <= Len(QueueHeld)
      /\ Len(walk.seen) = walk.ordinal
      /\ \A i \in 1 .. walk.ordinal : walk.seen[i] = QueueHeld[walk.frozen.offset + i]
      /\ arrived' = arrived
  <2>1. QueueWalk /\ arrived \in Nat /\ arrived' = arrived
    BY <1>1 DEF QueueInv, QueueStored
  <2>2. walk \in Cursor(QueueFrozen, arrived) /\ QueueHeld \in Seq(1 .. arrived)
    BY <2>1 DEF QueueWalk
  <2>3. /\ walk.frozen \in QueueFrozen /\ walk.ordinal \in Nat /\ walk.seen \in Seq(0 .. arrived)
    BY <2>2 DEF Cursor
  <2>4. walk.frozen.offset \in Nat
    BY <2>3 DEF QueueFrozen
  <2>5. Len(QueueHeld) \in Nat /\ DOMAIN QueueHeld = 1 .. Len(QueueHeld)
    BY <2>2
  <2> QED BY <2>1, <2>2, <2>3, <2>4, <2>5 DEF QueueWalk
<1>0. walk.frozen.offset \in Nat /\ walk.ordinal \in Nat
  BY <1>3
<1>4. limit \in Nat /\ walk.ordinal <= limit
  BY <1>3, SMTT(60)
<1>5. walk.fresh => QueueHeld = store /\ limit = size /\ walk.frozen.array = None
                    /\ walk.frozen.offset = first /\ first' = first /\ size' = size
                    /\ (walk.ended => walk.ordinal = size)
  <2>1. SUFFICES ASSUME walk.fresh
                 PROVE  QueueHeld = store /\ limit = size /\ walk.frozen.array = None
                        /\ walk.frozen.offset = first /\ (walk.ended => walk.ordinal = size)
    BY <1>1
  <2>2. walk.frozen.array = None /\ walk.frozen.offset = first /\ (walk.ended => walk.ordinal = size)
    BY <2>1 DEF QueueInv, QueueWalk
  <2>3. QueueHeld = store
    BY <2>2 DEF QueueHeld
  <2> QED BY <1>3, <2>2, <2>3 DEF QueueInv, QueueStored
<1> HIDE DEF limit
<1>6. CASE walk.ordinal >= limit
  <2>1. walk' = CursorEnded(walk)
    BY <1>1, <1>6 DEF Fifo!StepCursor, CursorEnded
  <2> HIDE DEF item, at
  <2>2. /\ walk' \in Cursor(QueueFrozen, arrived')
        /\ walk'.frozen = walk.frozen /\ walk'.ordinal = walk.ordinal
        /\ walk'.seen = walk.seen /\ walk'.fresh = walk.fresh /\ walk'.ended
    BY <1>3, <2>1, EndedFields
  <2>3. QueueHeld' = QueueHeld
    BY <1>1, <2>2 DEF QueueHeld
  <2>4. walk.fresh => walk.ordinal = size
    BY <1>3, <1>4, <1>5, <1>6
  <2>5. QueueWalk'
    BY <1>3, <1>5, <2>2, <2>3, <2>4 DEF QueueInv, QueueWalk
  <2> QED BY <1>2, <2>5 DEF QueueInv
<1>7. CASE walk.ordinal < limit
  <2>1. walk' = CursorMoved(walk, item)
    BY <1>1, <1>3, <1>4, <1>7 DEF Fifo!StepCursor, CursorMoved
  <2>2. at \in 1 .. Len(QueueHeld)
    BY <1>3, <1>7, SMTT(60) DEF limit
  <2>3. item = QueueHeld[at] /\ item \in 1 .. arrived /\ item # None
    BY <1>3, <2>2, NoneNoInt
  <2> HIDE DEF item
  <2>4. /\ walk' \in Cursor(QueueFrozen, arrived')
        /\ walk'.frozen = walk.frozen /\ walk'.ordinal = walk.ordinal + 1
        /\ walk'.seen = Append(walk.seen, item)
        /\ walk'.fresh = walk.fresh /\ walk'.ended = walk.ended
    <3>1. item \in 0 .. arrived \cup {None}
      BY <2>3
    <3>2. walk \in Cursor(QueueFrozen, arrived) /\ arrived \in Nat
      BY <1>3
    <3>3. walk' = CursorMoved(walk, item)
      BY <2>1
    <3> HIDE DEF at
    <3> DEFINE moved == CursorMoved(walk, item)
    <3>4. /\ moved \in Cursor(QueueFrozen, arrived)
          /\ moved.frozen = walk.frozen /\ moved.ordinal = walk.ordinal + 1
          /\ moved.seen = (IF item = None THEN walk.seen ELSE Append(walk.seen, item))
          /\ moved.fresh = walk.fresh /\ moved.ended = walk.ended
      BY ONLY <3>1, <3>2, MovedFields
    <3>5. walk' = moved
      BY <3>3
    <3> HIDE DEF moved
    <3> QED BY <1>3, <2>3, <3>4, <3>5
  <2>5. QueueHeld' = QueueHeld
    BY <1>1, <2>4 DEF QueueHeld
  <2>6. /\ Len(walk'.seen) = walk.ordinal + 1 /\ walk'.seen[walk.ordinal + 1] = item
        /\ \A i \in 1 .. walk.ordinal : walk'.seen[i] = walk.seen[i]
    BY <1>3, <2>3, <2>4, SMTT(60)
  <2>7. \A i \in 1 .. walk'.ordinal : walk'.seen[i] = QueueHeld[walk.frozen.offset + i]
    <3> SUFFICES ASSUME NEW i \in 1 .. walk.ordinal + 1
                 PROVE  walk'.seen[i] = QueueHeld[walk.frozen.offset + i]
      BY <2>4
    <3>1. CASE i \in 1 .. walk.ordinal  BY <3>1, <1>3, <2>6
    <3>2. CASE i = walk.ordinal + 1
      <4>1. at = walk.frozen.offset + i
        BY <3>2, <1>0
      <4> QED BY <3>2, <4>1, <2>3, <2>6
    <3> QED BY <3>1, <3>2, <1>3
  <2>8. walk.frozen.offset + walk'.ordinal <= Len(QueueHeld)
    <3>1. at <= Len(QueueHeld) /\ at = walk.frozen.offset + (walk.ordinal + 1) /\ walk'.ordinal = walk.ordinal + 1
      BY <1>0, <2>2, <2>4, SMTT(60)
    <3> QED BY <3>1
  <2>9. walk.fresh => ~walk.ended
    BY <1>3, <1>5, <1>7
  <2>10. QueueWalk'
    BY <1>3, <1>5, <2>4, <2>5, <2>6, <2>7, <2>8, <2>9 DEF QueueInv, QueueWalk
  <2> QED BY <1>2, <2>10 DEF QueueInv
<1> QED BY <1>3, <1>4, <1>6, <1>7

LEMMA QueueInit ==
    ASSUME Fifo!Init
    PROVE  QueueInv
<1>1. PICK n \in 0 .. 2 :
        /\ store = [s \in 1 .. n |-> s] /\ first = 0 /\ size = n /\ arrived = n
        /\ walk = [frozen |-> [array |-> None, offset |-> 0], len |-> n, ordinal |-> 0,
                   seen |-> <<>>, fresh |-> TRUE, ended |-> FALSE]
  BY DEF Fifo!Init, Fifo!OpenCursor
<1>2. /\ store \in Seq(1 .. n) /\ Len(store) = n /\ \A i \in 1 .. n : store[i] = i
      /\ n \in Nat /\ n \in 0 .. MaxItems
  BY <1>1, SequencesAssumption
<1>3. QueueStored
  BY <1>1, <1>2 DEF QueueStored
<1>4. <<>> \in Seq(0 .. arrived) /\ Len(<<>>) = 0
  OBVIOUS
<1>5. walk \in Cursor(QueueFrozen, arrived) /\ QueueHeld = store
  BY <1>1, <1>2, <1>4 DEF Cursor, QueueFrozen, QueueHeld
<1>6. \A i, j \in 1 .. Len(store) : store[i] - i = store[j] - j
  BY <1>2
<1>7. QueueWalk
  BY <1>1, <1>2, <1>4, <1>5, <1>6 DEF QueueWalk
<1> QED BY <1>3, <1>7 DEF QueueInv

LEMMA QueueStep ==
    ASSUME QueueInv, Fifo!Next
    PROVE  QueueInv'
  BY QueueClear, QueueEnqueue, QueueDequeue, QueueOpenWalk, QueueStepWalk, SMTT(60) DEF Fifo!Next

LEMMA QueueItems ==
    ASSUME QueueStored
    PROVE  /\ Fifo!ToVec \in Seq(Item) /\ Len(Fifo!ToVec) = size /\ size \in Nat
           /\ \A i \in 1 .. size : Fifo!ToVec[i] = store[i + first]
           /\ size <= arrived /\ arrived \in 0 .. MaxItems /\ first \in Nat
           /\ Len(store) \in Nat /\ size = Len(store) - first /\ store \in Seq(1 .. arrived)
           /\ DOMAIN store = 1 .. Len(store)
<1>1. /\ arrived \in 0 .. MaxItems /\ store \in Seq(1 .. arrived) /\ Len(store) \in Nat
      /\ DOMAIN store = 1 .. Len(store)
      /\ first \in Nat /\ first <= Len(store) /\ size = Len(store) - first
      /\ \A i \in 1 .. Len(store) : store[i] \in 1 .. arrived
      /\ \A i \in 1 .. Len(store) : store[i] = (arrived - Len(store)) + i
  BY DEF QueueStored
<1> DEFINE m == first + 1
           n == Len(store)
           there == SubSeq(store, m, n)
<1>2. m \in 1 .. Len(store) + 1 /\ n \in m - 1 .. Len(store)
  BY <1>1
<1> HIDE DEF m, n, there
<1>3. /\ there \in Seq(1 .. arrived) /\ Len(there) = (n - m) + 1
      /\ \A i \in 1 .. Len(there) : there[i] = store[i + (m - 1)]
  BY <1>1, <1>2, SubSeqIs, SMTT(60) DEF there
<1>4. (n - m) + 1 = size /\ m - 1 = first /\ size \in Nat
  BY <1>1 DEF m, n
<1>5. size <= arrived
  <2>1. CASE Len(store) = 0  BY <2>1, <1>1
  <2>2. CASE Len(store) # 0
    <3>1. 1 \in 1 .. Len(store)
      BY <1>1, <2>2
    <3>2. store[1] \in 1 .. arrived /\ store[1] = (arrived - Len(store)) + 1
      BY <3>1, <1>1
    <3> QED BY <3>2, <1>1
  <2> QED BY <2>1, <2>2
<1>6. there \in Seq(Item)
  <2>1. 1 .. arrived \subseteq Item
    BY <1>1, SequencesAssumption DEF Item
  <2> QED BY <1>3, <2>1, SeqMonotonic
<1>7. Fifo!ToVec = there
  BY DEF Fifo!ToVec, there, m, n
<1> QED BY <1>1, <1>3, <1>4, <1>5, <1>6, <1>7, ZenonT(60)

LEMMA QueueReads ==
    ASSUME QueueInv
    PROVE  Fifo!LayoutSound /\ Fifo!ReadsAgree
<1>1. Fifo!LayoutSound
  BY DEF QueueInv, QueueStored, Fifo!LayoutSound
<1>2. CASE size = 0
  BY <1>1, <1>2 DEF Fifo!ReadsAgree, Fifo!Peek
<1>3. CASE size # 0
  <2>1. 1 \in 1 .. size /\ 1 + first = first + 1
    BY <1>3, QueueItems DEF QueueInv
  <2>2. Fifo!ToVec[1] = store[first + 1]
    BY <2>1, QueueItems DEF QueueInv
  <2> QED BY <1>1, <1>3, <2>2 DEF Fifo!ReadsAgree, Fifo!Peek
<1> QED BY <1>1, <1>2, <1>3

LEMMA QueueList ==
    ASSUME kind = "Queue"
    PROVE  /\ Contents = Fifo!ToVec /\ InWalkOrder = Fifo!ToVec /\ CallSeen = call
           /\ Room = MaxItems + MaxCapacity /\ Policy = "refuse"
  BY DEF Contents, InWalkOrder, CallSeen, Room, Policy

LEMMA QueueListStep ==
    ASSUME QueueInv, kind = "Queue", UNCHANGED kind, Fifo!Next
    PROVE  List!Next \/ UNCHANGED listVars
<1>1. QueueInv'
  BY QueueStep
<1>2. /\ Contents = Fifo!ToVec /\ CallSeen = call /\ Room = MaxItems + MaxCapacity
  BY QueueList
<1>3. /\ Contents' = Fifo!ToVec' /\ CallSeen' = call'
  <2>1. kind' = "Queue"
    OBVIOUS
  <2>2. (kind = "Queue" => Contents = Fifo!ToVec /\ CallSeen = call)'
    BY QueueList, PTL
  <2> QED BY <2>1, <2>2
<1>4. /\ Fifo!ToVec \in Seq(Item) /\ Len(Fifo!ToVec) = size /\ size \in Nat
      /\ \A i \in 1 .. size : Fifo!ToVec[i] = store[i + first]
      /\ size <= arrived /\ arrived \in 0 .. MaxItems /\ first \in Nat
      /\ Len(store) \in Nat /\ size = Len(store) - first /\ store \in Seq(1 .. arrived)
      /\ MaxItems \in Nat /\ MaxCapacity \in Nat
  BY QueueItems, SequencesAssumption DEF QueueInv
<1>5. /\ Fifo!ToVec' \in Seq(Item) /\ Len(Fifo!ToVec') = size' /\ size' \in Nat
      /\ \A i \in 1 .. size' : Fifo!ToVec'[i] = store'[i + first']
  <2>1. (QueueStored => /\ Fifo!ToVec \in Seq(Item) /\ Len(Fifo!ToVec) = size /\ size \in Nat
                        /\ \A i \in 1 .. size : Fifo!ToVec[i] = store[i + first])'
    BY QueueItems, PTL
  <2> QED BY <1>1, <2>1 DEF QueueInv
<1>6. CASE Fifo!Clear
  <2>1. size' = 0 /\ call' = [op |-> "clear", answer |-> None]
    BY <1>6 DEF Fifo!Clear, Fifo!Called
  <2>2. Fifo!ToVec' = <<>>
    BY <1>5, <2>1, EmptyContents
  <2> QED BY <1>3, <2>1, <2>2, ListClears
<1>7. CASE Fifo!Enqueue
  <2> DEFINE x == arrived + 1
  <2>1. /\ store' = Append(store, x) /\ first' = first /\ size' = size + 1 /\ arrived < MaxItems
        /\ call' = [op |-> "push", answer |-> size + 1]
    BY <1>7 DEF Fifo!Enqueue, Fifo!Called
  <2>2. x \in Item
    BY <1>4, <2>1 DEF Item
  <2> HIDE DEF x
  <2>3. store'[Len(store) + 1] = x /\ \A i \in 1 .. Len(store) : store'[i] = store[i]
    BY <1>4, <2>1
  <2>4. ASSUME NEW i \in 1 .. size
        PROVE  Fifo!ToVec'[i] = Fifo!ToVec[i]
    <3>1. i \in 1 .. size' /\ i + first \in 1 .. Len(store)
      BY <1>4, <2>1, SMTT(60)
    <3> QED BY <3>1, <1>4, <1>5, <2>1, <2>3
  <2>5. Fifo!ToVec'[size + 1] = x
    <3>1. size + 1 \in 1 .. size' /\ (size + 1) + first = Len(store) + 1
      BY <1>4, <2>1
    <3> QED BY <3>1, <1>5, <2>1, <2>3
  <2>6. Fifo!ToVec' = Append(Fifo!ToVec, x)
    <3>1. /\ Fifo!ToVec \in Seq(Item) /\ Fifo!ToVec' \in Seq(Item) /\ Len(Fifo!ToVec') = Len(Fifo!ToVec) + 1
          /\ Fifo!ToVec'[Len(Fifo!ToVec) + 1] = x
          /\ \A i \in 1 .. Len(Fifo!ToVec) : Fifo!ToVec'[i] = Fifo!ToVec[i]
      BY <1>4, <1>5, <2>1, <2>4, <2>5
    <3> QED BY <2>2, <3>1, IsAppend
  <2>7. Len(Contents) # Room /\ CallSeen' = [op |-> "push", answer |-> Len(Contents) + 1]
    BY <1>2, <1>3, <1>4, <2>1
  <2> QED BY <1>2, <1>3, <2>2, <2>6, <2>7, ListPushes
<1>8. CASE Fifo!Dequeue
  <2>1. CASE size = 0
    <3>1. UNCHANGED <<store, first, size>> /\ call' = [op |-> "shift", answer |-> None]
      BY <2>1, <1>8, <1>4 DEF Fifo!Dequeue, Fifo!Called
    <3>2. Fifo!ToVec' = Fifo!ToVec
      BY <3>1 DEF Fifo!ToVec
    <3>3. Fifo!ToVec = <<>>
      BY <1>4, <2>1, EmptyContents
    <3> QED BY <1>2, <1>3, <3>1, <3>2, <3>3, ListShifts
  <2>2. CASE size # 0
    <3>0. size' = size - 1 /\ call' = [op |-> "shift", answer |-> store[first + 1]]
      BY <2>2, <1>8 DEF Fifo!Dequeue, Fifo!Called
    <3>1. Fifo!ToVec # <<>>
      BY <1>4, <2>2, EmptyContents
    <3>2. Head(Fifo!ToVec) = store[first + 1]
      <4>1. 1 \in 1 .. size /\ 1 + first = first + 1
        BY <1>4, <2>2
      <4>2. Head(Fifo!ToVec) = Fifo!ToVec[1]
        BY <1>4, <3>1
      <4> QED BY <1>4, <4>1, <4>2
    <3>3. ASSUME NEW i \in 1 .. size'
          PROVE  store'[i + first'] = store[(i + 1) + first]
      <4>1. CASE store' = store /\ first' = first + 1
        <5>1. i + first' = (i + 1) + first
          BY <1>4, <3>0, <4>1
        <5> QED BY <5>1, <4>1
      <4>2. CASE store' = SubSeq(store, first + 2, Len(store)) /\ first' = 0
        <5> DEFINE m == first + 2
                   n == Len(store)
        <5>1. m \in 1 .. Len(store) + 1 /\ n \in m - 1 .. Len(store) /\ m - 1 = first + 1 /\ (n - m) + 1 = size'
          BY <1>4, <2>2, <3>0, SMTT(60)
        <5>2. store' = SubSeq(store, m, n) /\ store \in Seq(1 .. arrived)
          BY <4>2, <1>4
        <5> HIDE DEF m, n
        <5>3. Len(store') = (n - m) + 1 /\ \A j \in 1 .. Len(store') : store'[j] = store[j + (m - 1)]
          BY <5>1, <5>2, SubSeqIs, SMTT(60)
        <5>6. i \in 1 .. Len(store') /\ i \in Int
          BY <5>1, <5>3, <1>5
        <5>4. store'[i] = store[i + (first + 1)] /\ i \in Int
          BY <5>1, <5>3, <5>6
        <5>5. i + (first + 1) = (i + 1) + first /\ i + first' = i
          BY <5>4, <4>2, <1>4
        <5> QED BY <5>4, <5>5
      <4> QED BY <4>1, <4>2, <2>2, <1>8 DEF Fifo!Dequeue
    <3>4. ASSUME NEW i \in 1 .. Len(Fifo!ToVec')
          PROVE  Fifo!ToVec'[i] = Fifo!ToVec[i + 1]
      <4>1. i \in 1 .. size' /\ i + 1 \in 1 .. size
        BY <1>4, <1>5, <3>0
      <4> QED BY <4>1, <1>4, <1>5, <3>3
    <3>5. Fifo!ToVec' = Tail(Fifo!ToVec)
      <4>1. Len(Fifo!ToVec) # 0 /\ Len(Fifo!ToVec') = Len(Fifo!ToVec) - 1
        BY <1>4, <1>5, <2>2, <3>0
      <4> QED BY <1>4, <1>5, <3>4, <4>1, IsTail
    <3> QED BY <1>2, <1>3, <3>0, <3>1, <3>2, <3>5, ListShifts
  <2> QED BY <2>1, <2>2
<1>9. CASE Fifo!OpenWalk \/ Fifo!StepWalk
  <2>1. UNCHANGED <<store, first, call>>
    BY <1>9 DEF Fifo!OpenWalk, Fifo!StepWalk
  <2>2. Fifo!ToVec' = Fifo!ToVec
    BY <2>1 DEF Fifo!ToVec
  <2> QED BY <1>2, <1>3, <2>1, <2>2, ListStutters
<1> QED BY <1>6, <1>7, <1>8, <1>9 DEF Fifo!Next

-----------------------------------------------------------------------------
(* What the walks of each report.                                          *)

LEMMA RingWalks ==
    ASSUME RingInv, NEW o \in BOOLEAN, RingKind(o)
    PROVE  FreshWalksComplete /\ WalksReportOnce
<1>1. /\ InWalkOrder = RingContents /\ kind \in {"FixedDeque", "CircularBuffer"}
      /\ kind # "FixedStack" /\ kind # "Queue"
  BY DEF RingKind, InWalkOrder, RingContents, At, Deque!ToArray, Deque!Slot
<1>2. /\ RingContents \in Seq(0 .. MaxItems) /\ Len(RingContents) = size /\ size \in Nat
      /\ \A n \in 1 .. size : RingContents[n] = At(n - 1)
      /\ arrived \in 0 .. MaxItems /\ MaxItems \in Nat
  BY RingItems, SequencesAssumption DEF RingInv, RingStored
<1>3. /\ walk.seen \in Seq(0 .. arrived) /\ walk.ordinal \in Nat /\ walk.ordinal <= walk.len
      /\ walk.ended => walk.ordinal = walk.len
      /\ walk.fresh => /\ walk.len = size /\ Len(walk.seen) = walk.ordinal
                       /\ \A i \in 1 .. walk.ordinal : walk.seen[i] = At(i - 1)
      /\ walk.len <= Capacity => Once(store, RingPassed, walk.seen, arrived)
  BY DEF RingInv, RingWalk, Cursor
<1>4. ASSUME walk.fresh
      PROVE  IF walk.ended THEN walk.seen = SubSeq(RingContents, 0 + 1, Len(RingContents))
             ELSE IsPrefix(walk.seen, SubSeq(RingContents, 0 + 1, Len(RingContents)))
  <2>1. walk.seen \in Seq(0 .. MaxItems)
    <3>1. 0 .. arrived \subseteq 0 .. MaxItems
      BY <1>2
    <3> QED BY <1>3, <3>1, SeqMonotonic
  <2> DEFINE d == 0
  <2>2. /\ d \in 0 .. Len(RingContents) /\ Len(walk.seen) <= Len(RingContents) - d
        /\ walk.ended => Len(walk.seen) = Len(RingContents) - d
        /\ \A i \in 1 .. Len(walk.seen) : walk.seen[i] = RingContents[i + d]
    <3>1. /\ Len(walk.seen) = walk.ordinal /\ walk.ordinal \in Nat /\ walk.ordinal <= size
          /\ Len(RingContents) = size /\ size \in Nat /\ size - d = size
      BY <1>2, <1>3, <1>4
    <3>2. walk.ended => walk.ordinal = size
      BY <1>3, <1>4
    <3>3. \A i \in 1 .. walk.ordinal : walk.seen[i] = RingContents[i + d]
      <4> SUFFICES ASSUME NEW i \in 1 .. walk.ordinal PROVE walk.seen[i] = RingContents[i + d]
        OBVIOUS
      <4>1. i \in 1 .. size /\ i + d = i
        BY <3>1
      <4> QED BY <4>1, <1>2, <1>3, <1>4
    <3> QED BY <3>1, <3>2, <3>3
  <2>3. RingContents \in Seq(0 .. MaxItems)
    BY <1>2
  <2> HIDE DEF d
  <2>4. IF walk.ended THEN walk.seen = SubSeq(RingContents, d + 1, Len(RingContents))
        ELSE IsPrefix(walk.seen, SubSeq(RingContents, d + 1, Len(RingContents)))
    BY <2>1, <2>2, <2>3, FreshFrom
  <2> QED BY <2>4 DEF d
<1>5. FreshWalksComplete
  BY <1>1, <1>4 DEF FreshWalksComplete
<1>6. WalksReportOnce
  BY <1>1, <1>3 DEF WalksReportOnce, Once
<1> QED BY <1>5, <1>6

LEMMA QueueWalks ==
    ASSUME QueueInv, kind = "Queue"
    PROVE  FreshWalksComplete /\ WalksReportOnce
<1>1. InWalkOrder = Fifo!ToVec
  BY QueueList
<1>2. /\ Fifo!ToVec \in Seq(Item) /\ Len(Fifo!ToVec) = size /\ size \in Nat
      /\ \A i \in 1 .. size : Fifo!ToVec[i] = store[i + first]
      /\ arrived \in 0 .. MaxItems /\ MaxItems \in Nat /\ Len(store) \in Nat
      /\ size = Len(store) - first /\ first \in Nat
  BY QueueItems, SequencesAssumption DEF QueueInv
<1>3. /\ walk \in Cursor(QueueFrozen, arrived)
      /\ QueueHeld \in Seq(1 .. arrived) /\ walk.frozen.offset + walk.ordinal <= Len(QueueHeld)
      /\ \A i, j \in 1 .. Len(QueueHeld) : QueueHeld[i] - i = QueueHeld[j] - j
      /\ Len(walk.seen) = walk.ordinal
      /\ \A i \in 1 .. walk.ordinal : walk.seen[i] = QueueHeld[walk.frozen.offset + i]
      /\ walk.fresh => /\ QueueHeld = store /\ walk.frozen.offset = first
                       /\ (walk.ended => walk.ordinal = size)
  BY DEF QueueInv, QueueWalk, QueueHeld
<1>4. /\ walk.ordinal \in Nat /\ walk.frozen.offset \in Nat /\ walk.seen \in Seq(0 .. arrived)
      /\ Len(QueueHeld) \in Nat /\ \A i \in 1 .. Len(QueueHeld) : QueueHeld[i] \in 1 .. arrived
  <2>1. walk.frozen \in QueueFrozen /\ walk.ordinal \in Nat /\ walk.seen \in Seq(0 .. arrived)
    BY <1>3 DEF Cursor
  <2>2. walk.frozen.offset \in Nat
    BY <2>1 DEF QueueFrozen
  <2>3. Len(QueueHeld) \in Nat /\ \A i \in 1 .. Len(QueueHeld) : QueueHeld[i] \in 1 .. arrived
    <3>1. QueueHeld \in Seq(1 .. arrived)
      BY <1>3
    <3> QED BY <3>1, ElementOfSeq, LenProperties
  <2> QED BY <2>1, <2>2, <2>3
<1>5. ASSUME walk.fresh
      PROVE  IF walk.ended THEN walk.seen = SubSeq(Fifo!ToVec, 0 + 1, Len(Fifo!ToVec))
             ELSE IsPrefix(walk.seen, SubSeq(Fifo!ToVec, 0 + 1, Len(Fifo!ToVec)))
  <2>1. walk.seen \in Seq(Item)
    <3>1. 0 .. arrived \subseteq Item
      BY <1>2 DEF Item
    <3> QED BY <1>4, <3>1, SeqMonotonic
  <2> DEFINE d == 0
  <2>2. first + walk.ordinal <= Len(store) /\ walk.ordinal <= size
    BY <1>2, <1>3, <1>4, <1>5
  <2>3. ASSUME NEW i \in 1 .. walk.ordinal
        PROVE  walk.seen[i] = Fifo!ToVec[i + d]
    <3>1. walk.seen[i] = store[first + i]
      BY <1>3, <1>5
    <3>2. i \in 1 .. size /\ first + i = i + first /\ i + d = i
      BY <1>2, <1>4, <2>2
    <3>3. Fifo!ToVec[i] = store[i + first]
      BY <1>2, <3>2
    <3> QED BY <3>1, <3>2, <3>3
  <2>4. /\ d \in 0 .. Len(Fifo!ToVec) /\ Len(walk.seen) <= Len(Fifo!ToVec) - d
        /\ walk.ended => Len(walk.seen) = Len(Fifo!ToVec) - d
        /\ \A i \in 1 .. Len(walk.seen) : walk.seen[i] = Fifo!ToVec[i + d]
    <3>1. Len(walk.seen) = walk.ordinal /\ Len(Fifo!ToVec) = size /\ (walk.ended => walk.ordinal = size)
      BY <1>2, <1>3, <1>5
    <3> QED BY <3>1, <1>2, <1>4, <2>2, <2>3
  <2>5. Fifo!ToVec \in Seq(Item)
    BY <1>2
  <2> HIDE DEF d
  <2>6. IF walk.ended THEN walk.seen = SubSeq(Fifo!ToVec, d + 1, Len(Fifo!ToVec))
        ELSE IsPrefix(walk.seen, SubSeq(Fifo!ToVec, d + 1, Len(Fifo!ToVec)))
    BY <2>1, <2>4, <2>5, FreshFrom
  <2> QED BY <2>6 DEF d
<1>6. FreshWalksComplete
  BY <1>1, <1>5 DEF FreshWalksComplete
<1>7. ASSUME NEW i \in DOMAIN walk.seen
      PROVE  /\ i \in 1 .. walk.ordinal /\ i \in Nat
             /\ walk.frozen.offset + i \in 1 .. Len(QueueHeld)
             /\ walk.seen[i] = QueueHeld[walk.frozen.offset + i] /\ walk.seen[i] \in Int
  <2>1. i \in 1 .. walk.ordinal
    BY <1>3, <1>4
  <2>2. walk.frozen.offset + i \in 1 .. Len(QueueHeld)
    BY <1>3, <1>4, <2>1, SMTT(60)
  <2> QED BY <1>3, <1>4, <2>1, <2>2
<1>8. ASSUME NEW i \in DOMAIN walk.seen, NEW j \in DOMAIN walk.seen
      PROVE  walk.seen[i] - i = walk.seen[j] - j
  <2> DEFINE a == walk.frozen.offset + i
             b == walk.frozen.offset + j
  <2>1. /\ a \in 1 .. Len(QueueHeld) /\ b \in 1 .. Len(QueueHeld) /\ i \in Nat /\ j \in Nat
        /\ walk.seen[i] = QueueHeld[a] /\ walk.seen[j] = QueueHeld[b]
        /\ walk.seen[i] \in Int /\ walk.seen[j] \in Int
    BY <1>7
  <2> HIDE DEF a, b
  <2>2. QueueHeld[a] - a = QueueHeld[b] - b
    BY <1>3, <2>1
  <2>3. walk.seen[i] - a = walk.seen[j] - b
    BY <2>1, <2>2
  <2> DEFINE f == walk.frozen.offset
             x == walk.seen[i]
             y == walk.seen[j]
  <2>4. f \in Nat /\ x \in Int /\ y \in Int /\ i \in Nat /\ j \in Nat
    BY <1>4, <2>1
  <2>5. x - (f + i) = y - (f + j)
    BY <2>3 DEF a, b
  <2> HIDE DEF f, x, y
  <2>6. x - i = y - j
    BY <2>4, <2>5
  <2> QED BY <2>6 DEF x, y
<1>9. \A i, j \in DOMAIN walk.seen : i # j => walk.seen[i] # walk.seen[j]
  <2> SUFFICES ASSUME NEW i \in DOMAIN walk.seen, NEW j \in DOMAIN walk.seen, i # j
               PROVE  walk.seen[i] # walk.seen[j]
    OBVIOUS
  <2>1. walk.seen[i] - i = walk.seen[j] - j /\ i \in Nat /\ j \in Nat /\ walk.seen[i] \in Int /\ walk.seen[j] \in Int
    BY <1>7, <1>8
  <2> QED BY <2>1
<1>10. Fifo!WalkIsContiguous
  <2> SUFFICES ASSUME NEW i \in DOMAIN walk.seen
               PROVE  walk.seen[i] = walk.seen[1] + i - 1
    BY DEF Fifo!WalkIsContiguous
  <2>1. 1 \in DOMAIN walk.seen
    BY <1>4
  <2>2. /\ walk.seen[i] - i = walk.seen[1] - 1 /\ i \in Nat
        /\ walk.seen[i] \in Int /\ walk.seen[1] \in Int
    BY <1>7, <1>8, <2>1
  <2> QED BY <2>2
<1>11. WalksReportOnce
  BY <1>9, <1>10 DEF WalksReportOnce
<1> QED BY <1>6, <1>11

-----------------------------------------------------------------------------
(* Stack and FixedStack: c is the Capacity of the instance.                *)

S(c) == INSTANCE Stack WITH items <- store, Capacity <- c

Stored(array, n) == array \in Seq(0 .. n \cup {None}) /\ Numbered(array, n)

StackStored(c) ==
    /\ arrived \in 0 .. MaxItems /\ size \in Nat /\ size <= arrived
    /\ Stored(store, arrived)
    /\ \A s \in 1 .. size : s \in DOMAIN store => store[s] # None
    /\ c = None => size = Len(store)
    /\ c # None => Len(store) >= Capacity
    /\ size > Len(store) => c # None /\ size > Capacity /\ Len(store) = Capacity

StackHeld == IF walk.frozen.array = None THEN store ELSE walk.frozen.array

StackFrozen == [array : Seq(Int \cup {None}) \cup {None}, top : Nat]

StackPassed == {s \in Nat : s > walk.frozen.top - walk.ordinal}

StackDropped == IF size > Len(store) THEN size - Len(store) ELSE 0

StackWalk(c) ==
    /\ walk \in Cursor(StackFrozen, arrived)
    /\ walk.frozen.top = walk.len /\ walk.ordinal <= walk.len
    /\ walk.ended => walk.ordinal = walk.len
    /\ Stored(StackHeld, arrived)
    /\ Once(StackHeld, StackPassed, walk.seen, arrived)
    /\ walk.fresh =>
           /\ walk.frozen.array = None /\ walk.len = size
           /\ Len(walk.seen) = IF walk.ordinal <= StackDropped THEN 0 ELSE walk.ordinal - StackDropped
           /\ \A i \in 1 .. Len(walk.seen) : walk.seen[i] = S(c)!ToVec[i + StackDropped]

StackInv(c) == StackStored(c) /\ StackWalk(c)

IsArray(b, k) == b = [s \in 1 .. k |-> b[s]]

LEMMA StoredSeq ==
    ASSUME NEW n \in Nat, NEW array, Stored(array, n)
    PROVE  /\ array \in Seq(0 .. n \cup {None}) /\ Len(array) \in Nat /\ DOMAIN array = 1 .. Len(array)
           /\ array \in Seq(Int \cup {None}) /\ array # None
           /\ IsArray(array, Len(array))
  BY NoneNoSeq DEF Stored, IsArray

LEMMA StoredAfter ==
    ASSUME NEW n \in Nat, NEW m \in {n, n + 1}, NEW a, NEW b, NEW k \in Nat, NEW s0, Stored(a, n),
           IsArray(b, k),
           \A s \in 1 .. k :
               \/ s = s0 /\ b[s] = m /\ m = n + 1
               \/ s \in DOMAIN a /\ b[s] = a[s]
    PROVE  Stored(b, m)
<1>1. DOMAIN b = 1 .. k /\ b = [s \in 1 .. k |-> b[s]]
  BY DEF IsArray
<1>2. Numbered(a, n)
  BY DEF Stored
<1>3. Numbered(b, m)
  BY <1>1, <1>2, NumberedAfter
<1>4. \A s \in 1 .. k : b[s] \in 0 .. m \cup {None}
  BY <1>1, <1>3 DEF Numbered
<1>5. b \in Seq(0 .. m \cup {None})
  BY <1>1, <1>4
<1> QED BY <1>3, <1>5 DEF Stored

LEMMA StoredLater ==
    ASSUME NEW n \in Nat, NEW m \in {n, n + 1}, NEW a, Stored(a, n)
    PROVE  Stored(a, m)
<1>1. Numbered(a, n) /\ DOMAIN a = 1 .. Len(a) /\ Len(a) \in Nat /\ IsArray(a, Len(a))
  BY StoredSeq DEF Stored
<1>2. \A s \in 1 .. Len(a) : s \in DOMAIN a /\ a[s] = a[s]
  BY <1>1
<1> QED BY <1>1, <1>2, StoredAfter

LEMMA StackCalled ==
    ASSUME NEW c, StackInv(c), arrived' \in {arrived, arrived + 1}, NEW s0,
           walk' = CursorDisturbed(walk), Stored(store', arrived'),
           \A s \in DOMAIN store' :
               \/ s = s0 /\ store'[s] = arrived' /\ arrived' = arrived + 1
               \/ s \in DOMAIN store /\ store'[s] = store[s]
    PROVE  StackWalk(c)'
<1>1. /\ arrived \in Nat /\ walk \in Cursor(StackFrozen, arrived)
      /\ Stored(StackHeld, arrived) /\ Once(StackHeld, StackPassed, walk.seen, arrived)
  BY DEF StackInv, StackStored, StackWalk
<1>2. /\ walk' \in Cursor(StackFrozen, arrived')
      /\ walk'.frozen = walk.frozen /\ walk'.len = walk.len /\ walk'.ordinal = walk.ordinal
      /\ walk'.seen = walk.seen /\ ~walk'.fresh /\ walk'.ended = walk.ended
  BY <1>1, DisturbedFields
<1>3. StackPassed' = StackPassed
  BY <1>2 DEF StackPassed
<1>4. \A s \in DOMAIN StackHeld' :
          \/ s = s0 /\ StackHeld'[s] = arrived' /\ arrived' = arrived + 1
          \/ s \in DOMAIN StackHeld /\ StackHeld'[s] = StackHeld[s]
          \/ StackHeld'[s] \in {0, None}
  BY <1>2 DEF StackHeld
<1>5. Once(StackHeld', StackPassed, walk.seen, arrived')
  <2>1. arrived \in Nat /\ Once(StackHeld, StackPassed, walk.seen, arrived)
    BY <1>1
  <2> QED BY ONLY <2>1, <1>4, OnceAfter, arrived' \in {arrived, arrived + 1}
<1>6. Stored(StackHeld', arrived')
  <2>1. CASE walk.frozen.array = None
    BY <2>1, <1>2 DEF StackHeld
  <2>2. CASE walk.frozen.array # None
    <3>1. StackHeld' = StackHeld /\ Stored(StackHeld, arrived) /\ arrived \in Nat
      BY <2>2, <1>1, <1>2 DEF StackHeld
    <3> QED BY <3>1, StoredLater
  <2> QED BY <2>1, <2>2
<1> QED BY <1>2, <1>3, <1>5, <1>6 DEF StackInv, StackWalk

LEMMA StackPush ==
    ASSUME NEW c \in {None, Capacity}, StackInv(c), S(c)!Push
    PROVE  StackInv(c)'
<1>1. /\ arrived \in Nat /\ size \in Nat /\ size <= arrived /\ Stored(store, arrived)
      /\ \A s \in 1 .. size : s \in DOMAIN store => store[s] # None
      /\ c = None => size = Len(store)
      /\ c # None => Len(store) >= Capacity
      /\ size > Len(store) => c # None /\ size > Capacity /\ Len(store) = Capacity
      /\ Capacity \in Nat \ {0} /\ arrived \in 0 .. MaxItems /\ MaxItems \in Nat
  BY SequencesAssumption DEF StackInv, StackStored
<1>0. size \in Nat /\ arrived \in Nat /\ Len(store) \in Nat /\ Capacity \in Nat
  BY <1>1, StoredSeq
<1>2. /\ store \in Seq(0 .. arrived \cup {None}) /\ Len(store) \in Nat /\ DOMAIN store = 1 .. Len(store)
  BY <1>1, StoredSeq
<1>3. walk' = CursorDisturbed(walk)
  BY DEF S!Push, S!Disturbed, CursorDisturbed
<1>4. CASE UNCHANGED <<store, size, arrived>>
  <2>1. StackWalk(c)'
    BY <1>1, <1>3, <1>4, StackCalled
  <2> QED BY <2>1, <1>4 DEF StackInv, StackStored
<1>5. CASE /\ c # None => size # Capacity
           /\ arrived < MaxItems /\ arrived' = arrived + 1 /\ size' = size + 1
           /\ store' = IF size < Len(store) THEN [store EXCEPT ![size + 1] = arrived + 1]
                       ELSE IF c = None \/ Len(store) > Capacity THEN Append(store, arrived + 1) ELSE store
  <2> DEFINE k == IF size < Len(store) THEN Len(store)
                  ELSE IF c = None \/ Len(store) > Capacity THEN Len(store) + 1 ELSE Len(store)
  <2>1. /\ k \in Nat /\ k >= Len(store) /\ IsArray(store', k)
        /\ \A s \in 1 .. Len(store) : s # size + 1 => store'[s] = store[s]
        /\ size + 1 \in 1 .. k => store'[size + 1] = arrived'
        /\ k > Len(store) => k = size + 1 /\ k = Len(store) + 1
        /\ size < Len(store) \/ c = None \/ Len(store) > Capacity => size + 1 \in 1 .. k
    <3>1. CASE size < Len(store)
      <4>1. store' = [store EXCEPT ![size + 1] = arrived'] /\ k = Len(store)
        BY <3>1, <1>5
      <4>2. size + 1 \in 1 .. k /\ k \in Nat /\ DOMAIN store = 1 .. k
        BY <3>1, <4>1, <1>0, <1>2
      <4> HIDE DEF k
      <4>3. DOMAIN store' = 1 .. k /\ \A s \in 1 .. k : s # size + 1 => store'[s] = store[s]
        BY <4>1, <4>2
      <4>4. store'[size + 1] = arrived' /\ store' = [s \in 1 .. k |-> store'[s]]
        BY <4>1, <4>2
      <4> QED BY <4>1, <4>2, <4>3, <4>4, <1>0 DEF IsArray
    <3>2. CASE ~(size < Len(store)) /\ (c = None \/ Len(store) > Capacity)
      <4>0. ~(size > Len(store))
        BY <3>2, <1>0, <1>1
      <4>1. size = Len(store)
        BY <3>2, <4>0, <1>0
      <4>2. store' = Append(store, arrived + 1)
        BY <3>2, <1>5
      <4> QED BY <3>2, <4>1, <4>2, <1>1, <1>2, <1>5 DEF IsArray
    <3>3. CASE ~(size < Len(store)) /\ ~(c = None \/ Len(store) > Capacity)
      <4>1. store' = store /\ k = Len(store)
        BY <3>3, <1>5
      <4>2. ~(size + 1 \in 1 .. k) /\ k \in Nat
        BY <3>3, <4>1, <1>0
      <4>3. IsArray(store', k)
        <5>1. IsArray(store, Len(store))
          BY <1>1, StoredSeq
        <5> HIDE DEF k
        <5> QED BY <4>1, <5>1
      <4> HIDE DEF k
      <4> QED BY <3>3, <4>1, <4>2, <4>3, <1>0
    <3> QED BY <3>1, <3>2, <3>3
  <2> HIDE DEF k
  <2>2. \A s \in 1 .. k :
            \/ s = size + 1 /\ store'[s] = arrived' /\ arrived' = arrived + 1
            \/ s \in DOMAIN store /\ store'[s] = store[s]
    <3> SUFFICES ASSUME NEW s \in 1 .. k, s # size + 1
                 PROVE  s \in DOMAIN store /\ store'[s] = store[s]
      BY <1>5, <2>1
    <3>1. s \in 1 .. Len(store)
      <4>1. CASE k > Len(store)  BY <4>1, <1>0, <2>1
      <4>2. CASE ~(k > Len(store))  BY <4>2, <1>0, <2>1
      <4> QED BY <4>1, <4>2
    <3> QED BY <3>1, <1>2, <2>1
  <2>10. Stored(store, arrived) /\ arrived' \in {arrived, arrived + 1} /\ k \in Nat
        /\ IsArray(store', k)
    BY <1>1, <1>5, <2>1
  <2>11. Stored(store', arrived')
    BY <1>0, <2>2, <2>10, StoredAfter, ZenonT(60)
  <2>3. Stored(store', arrived') /\ DOMAIN store' = 1 .. k
    BY <2>10, <2>11 DEF IsArray
  <2>4. StackWalk(c)'
    BY <1>3, <1>5, <2>2, <2>3, StackCalled
  <2>5. Len(store') = k
    BY <2>1, <2>3
  <2>6. \A s \in 1 .. size' : s \in DOMAIN store' => store'[s] # None
    <3> SUFFICES ASSUME NEW s \in 1 .. size + 1, s \in 1 .. k PROVE store'[s] # None
      BY <1>5, <2>3
    <3>1. CASE s = size + 1
      BY <3>1, <1>1, <1>5, <2>1, NoneNoInt
    <3>2. CASE s # size + 1
      <4>1. s \in 1 .. size
        BY <3>2, <1>1
      <4> QED BY <4>1, <3>2, <1>1, <2>2
    <3> QED BY <3>1, <3>2
  <2>7. /\ arrived' \in 0 .. MaxItems /\ size' \in Nat /\ size' <= arrived'
        /\ c # None => Len(store') >= Capacity
    <3>1. arrived' \in 0 .. MaxItems /\ size' \in Nat /\ size' <= arrived'
      BY <1>1, <1>5
    <3>2. c # None => Len(store') >= Capacity
      BY <1>0, <1>1, <2>1, <2>5
    <3> QED BY <3>1, <3>2
  <2>8. c = None => size' = Len(store')
    BY <1>1, <1>2, <1>5, <2>5 DEF k
  <2>9. ASSUME size' > Len(store')
        PROVE  c # None /\ size' > Capacity /\ Len(store') = Capacity
    <3>1. size' = size + 1 /\ Len(store') = k /\ k \in Nat
      BY <1>5, <2>1, <2>5
    <3>2. ~(size < Len(store) \/ c = None \/ Len(store) > Capacity)
      BY <2>1, <2>9, <3>1, <1>0
    <3>3. k = Len(store) /\ c # None /\ Len(store) >= Capacity /\ ~(Len(store) > Capacity)
      BY <3>2, <1>1 DEF k
    <3> QED BY <3>1, <3>3, <2>9, <1>0
  <2> QED BY <2>3, <2>4, <2>6, <2>7, <2>8, <2>9 DEF StackInv, StackStored
<1> QED BY <1>4, <1>5 DEF S!Push, S!Fixed, S!Grows

LEMMA StackPop ==
    ASSUME NEW c \in {None, Capacity}, StackInv(c), S(c)!Pop
    PROVE  StackInv(c)'
<1>1. /\ arrived \in Nat /\ size \in Nat /\ size <= arrived /\ Stored(store, arrived)
      /\ \A s \in 1 .. size : s \in DOMAIN store => store[s] # None
      /\ c = None => size = Len(store)
      /\ c # None => Len(store) >= Capacity
      /\ size > Len(store) => c # None /\ size > Capacity /\ Len(store) = Capacity
      /\ Capacity \in Nat \ {0} /\ arrived \in 0 .. MaxItems /\ MaxItems \in Nat
  BY SequencesAssumption DEF StackInv, StackStored
<1>2. /\ Len(store) \in Nat /\ DOMAIN store = 1 .. Len(store) /\ store \in Seq(0 .. arrived \cup {None})
  BY <1>1, StoredSeq
<1>3. walk' = CursorDisturbed(walk) /\ arrived' = arrived
  BY DEF S!Pop, S!Disturbed, CursorDisturbed
<1>4. CASE UNCHANGED <<store, size>>
  <2>1. StackWalk(c)'
    BY <1>1, <1>3, <1>4, StackCalled
  <2> QED BY <2>1, <1>3, <1>4 DEF StackInv, StackStored
<1>5. CASE c # None /\ size # 0 /\ size' = size - 1 /\ store' = store
  <2>1. StackWalk(c)'
    BY <1>1, <1>3, <1>5, StackCalled
  <2>2. /\ size' \in Nat /\ size' <= arrived /\ 1 .. size' \subseteq 1 .. size
        /\ size' > Len(store) => size' > Capacity /\ Len(store) = Capacity
    <3>1. size \in Nat /\ arrived \in Nat /\ Len(store) \in Nat /\ size <= arrived /\ size # 0 /\ size' = size - 1
      BY <1>1, <1>2, <1>5, ZenonT(60)
    <3>2. size' \in Nat /\ size' <= arrived /\ 1 .. size' \subseteq 1 .. size
      BY <3>1
    <3>3. ASSUME size' > Len(store)
          PROVE  size' > Capacity /\ Len(store) = Capacity
      <4>1. size > Len(store)
        BY <3>1, <3>3
      <4>2. Len(store) = Capacity
        BY <4>1, <1>1
      <4> QED BY <4>2, <3>3
    <3> QED BY <3>2, <3>3, SMTT(60)
  <2> QED BY <2>1, <2>2, <1>1, <1>3, <1>5 DEF StackInv, StackStored
<1>6. CASE c = None /\ size # 0 /\ size' = size - 1 /\ store' = SubSeq(store, 1, size - 1)
  <2> DEFINE one == 1
             n == size - 1
  <2>0. one \in 1 .. Len(store) + 1 /\ n \in one - 1 .. Len(store) /\ one - 1 = 0 /\ (n - one) + 1 = n /\ n \in Nat
        /\ Len(store) = n + 1
    BY <1>1, <1>2, <1>6
  <2>1. store' = SubSeq(store, one, n) /\ size' = n
    BY <1>6
  <2> HIDE DEF one, n
  <2>2. /\ store' \in Seq(0 .. arrived \cup {None}) /\ Len(store') = (n - one) + 1
        /\ \A i \in 1 .. Len(store') : store'[i] = store[i + (one - 1)]
    BY <1>2, <2>0, <2>1, SubSeqIs
  <2>3. Len(store') = n /\ DOMAIN store' = 1 .. n /\ IsArray(store', n) /\ \A i \in 1 .. n : store'[i] = store[i]
    BY <2>0, <2>2 DEF IsArray
  <2>4. \A s \in 1 .. n : s \in DOMAIN store /\ store'[s] = store[s]
    BY <1>2, <2>0, <2>3
  <2>5. Stored(store', arrived')
    BY <1>1, <1>3, <2>0, <2>3, <2>4, StoredAfter
  <2>6. StackWalk(c)'
    BY <1>3, <2>3, <2>4, <2>5, StackCalled
  <2>7. \A s \in 1 .. size' : s \in DOMAIN store' => store'[s] # None
    <3> SUFFICES ASSUME NEW s \in 1 .. n PROVE store'[s] # None
      BY <2>1
    <3>1. s \in 1 .. size
      BY <1>1, <1>6, <2>0
    <3> QED BY <1>1, <2>4, <3>1
  <2> QED BY <1>1, <1>3, <1>6, <2>0, <2>1, <2>3, <2>5, <2>6, <2>7 DEF StackInv, StackStored
<1> QED BY <1>4, <1>5, <1>6 DEF S!Pop, S!Fixed

LEMMA StackClear ==
    ASSUME NEW c \in {None, Capacity}, StackInv(c), S(c)!Clear
    PROVE  StackInv(c)'
<1>1. /\ arrived \in Nat /\ size \in Nat /\ size <= arrived /\ Stored(store, arrived)
      /\ c # None => Len(store) >= Capacity
      /\ Capacity \in Nat \ {0} /\ arrived \in 0 .. MaxItems /\ MaxItems \in Nat
      /\ Len(store) \in Nat
  BY SequencesAssumption, StoredSeq DEF StackInv, StackStored
<1>2. size' = 0 /\ arrived' = arrived /\ 1 .. 0 = {} /\ 0 <= arrived
  BY <1>1 DEF S!Clear
<1>3. CASE c # None
  <2>1. store' = store /\ walk' = CursorDisturbed(walk)
    BY <1>3 DEF S!Clear, S!Fixed, S!Disturbed, CursorDisturbed
  <2>2. StackWalk(c)'
    BY <1>1, <1>2, <2>1, StackCalled
  <2> QED BY <1>1, <1>2, <1>3, <2>1, <2>2 DEF StackInv, StackStored
<1>4. CASE c = None
  <2> DEFINE w == IF walk.frozen.array # None THEN walk ELSE [walk EXCEPT !.frozen.array = store]
  <2>1. store' = <<>> /\ walk' = CursorDisturbed(w)
    BY <1>4 DEF S!Clear, S!Fixed, S!Disturbed, CursorDisturbed
  <2>2. /\ walk \in Cursor(StackFrozen, arrived) /\ walk.frozen \in StackFrozen
        /\ Stored(StackHeld, arrived) /\ Once(StackHeld, StackPassed, walk.seen, arrived)
        /\ walk.frozen.top = walk.len /\ walk.ordinal <= walk.len
        /\ walk.ended => walk.ordinal = walk.len
    BY DEF StackInv, StackWalk, Cursor
  <2>3. store # None /\ store \in Seq(Int \cup {None}) /\ StackHeld # None
    BY <1>1, <2>2, StoredSeq
  <2>4. /\ w \in Cursor(StackFrozen, arrived)
        /\ w.frozen.top = walk.frozen.top /\ w.len = walk.len /\ w.ordinal = walk.ordinal
        /\ w.seen = walk.seen /\ w.ended = walk.ended
        /\ w.frozen.array = StackHeld
    <3>1. CASE walk.frozen.array = None
      <4> DEFINE left == [walk.frozen EXCEPT !.array = store]
      <4>1. left \in StackFrozen /\ left.top = walk.frozen.top /\ left.array = store
        BY <2>2, <2>3 DEF StackFrozen
      <4>2. w = [walk EXCEPT !.frozen = left]
        BY <3>1
      <4> HIDE DEF left, w
      <4> QED BY <2>2, <3>1, <4>1, <4>2 DEF Cursor, StackHeld
    <3>2. CASE walk.frozen.array # None
      BY <2>2, <3>2 DEF StackHeld
    <3> QED BY <3>1, <3>2
  <2> HIDE DEF w
  <2>5. /\ walk' \in Cursor(StackFrozen, arrived')
        /\ walk'.frozen = w.frozen /\ walk'.len = w.len /\ walk'.ordinal = w.ordinal
        /\ walk'.seen = w.seen /\ ~walk'.fresh /\ walk'.ended = w.ended
    <3>1. arrived' = arrived /\ arrived \in Nat
      BY <1>1, <1>2
    <3>2. arrived' \in {arrived, arrived + 1}
      BY <1>2
    <3> QED BY <3>1, <3>2, <2>1, <2>4, DisturbedFields
  <2>6. StackHeld' = StackHeld /\ StackPassed' = StackPassed
    BY <2>3, <2>4, <2>5 DEF StackHeld, StackPassed
  <2>7. StackWalk(c)'
    BY <1>2, <2>2, <2>4, <2>5, <2>6 DEF StackWalk
  <2>8. Stored(store', arrived')
    <3>1. <<>> \in Seq(0 .. arrived \cup {None}) /\ DOMAIN <<>> = {} /\ Numbered(<<>>, arrived)
      BY DEF Numbered
    <3> QED BY <3>1, <1>2, <2>1 DEF Stored
  <2>9. Len(store') = 0
    BY <2>1
  <2> QED BY <1>1, <1>2, <1>4, <2>7, <2>8, <2>9 DEF StackInv, StackStored
<1> QED BY <1>3, <1>4

LEMMA StackOpenWalk ==
    ASSUME NEW c \in {None, Capacity}, StackInv(c), S(c)!OpenWalk
    PROVE  StackInv(c)'
<1>1. UNCHANGED <<store, size, arrived>> /\ StackStored(c)
  BY DEF S!OpenWalk, StackInv
<1>2. StackStored(c)'
  BY <1>1 DEF StackStored
<1>3. /\ walk' = [frozen |-> [array |-> None, top |-> size], len |-> size, ordinal |-> 0,
                  seen |-> <<>>, fresh |-> TRUE, ended |-> FALSE]
  BY <1>1 DEF S!OpenWalk, S!OpenCursor, S!Fixed, StackStored
<1>4. /\ size \in Nat /\ arrived \in Nat /\ Stored(store, arrived)
      /\ <<>> \in Seq(0 .. arrived) /\ Len(<<>>) = 0 /\ 1 .. 0 = {} /\ Len(store) \in Nat
  BY <1>1, StoredSeq, SequencesAssumption DEF StackStored
<1>5. walk' \in Cursor(StackFrozen, arrived')
  BY <1>1, <1>3, <1>4 DEF Cursor, StackFrozen
<1>6. StackHeld' = store
  BY <1>1, <1>3 DEF StackHeld
<1>7. Once(StackHeld', StackPassed', walk'.seen, arrived')
  BY <1>1, <1>3, <1>4, OnceNothing
<1>8. walk'.ordinal <= StackDropped'
  BY <1>1, <1>3, <1>4 DEF StackDropped
<1>9. StackWalk(c)'
  BY <1>1, <1>3, <1>4, <1>5, <1>6, <1>7, <1>8 DEF StackWalk
<1> QED BY <1>2, <1>9 DEF StackInv

(* What a stack has from the top down, by the position it is at.           *)
LEMMA StackItems ==
    ASSUME NEW c \in {None, Capacity}, StackStored(c)
    PROVE  /\ S(c)!ToVec \in Seq(Item \cup {None}) /\ Len(S(c)!ToVec) = size /\ size \in Nat
           /\ Len(store) \in Nat /\ DOMAIN store = 1 .. Len(store)
           /\ \A n \in 1 .. size :
                  /\ (size - n) + 1 \in 1 .. size
                  /\ S(c)!ToVec[n] = S(c)!ItemAt(store, (size - n) + 1)
           /\ \A s \in 1 .. size :
                  /\ s \in 1 .. Len(store) => S(c)!ItemAt(store, s) = store[s] /\ store[s] \in 0 .. arrived
                  /\ s \notin 1 .. Len(store) => S(c)!ItemAt(store, s) = None
                  /\ S(c)!ItemAt(store, s) \in Item \cup {None}
<1>1. /\ size \in Nat /\ Stored(store, arrived) /\ arrived \in Nat /\ arrived \in 0 .. MaxItems /\ MaxItems \in Nat
      /\ \A s \in 1 .. size : s \in DOMAIN store => store[s] # None
  BY SequencesAssumption DEF StackStored
<1>2. /\ Len(store) \in Nat /\ DOMAIN store = 1 .. Len(store) /\ store \in Seq(0 .. arrived \cup {None})
  BY <1>1, StoredSeq
<1>3. ASSUME NEW s \in 1 .. size
      PROVE  /\ s \in 1 .. Len(store) => S(c)!ItemAt(store, s) = store[s] /\ store[s] \in 0 .. arrived
             /\ s \notin 1 .. Len(store) => S(c)!ItemAt(store, s) = None
             /\ S(c)!ItemAt(store, s) \in Item \cup {None}
  <2>1. CASE s \in 1 .. Len(store)
    <3>1. store[s] \in 0 .. arrived \cup {None} /\ store[s] # None
      BY <1>1, <1>2, <2>1
    <3> QED BY <1>1, <1>2, <2>1, <3>1 DEF S!ItemAt, Item
  <2>2. CASE s \notin 1 .. Len(store)
    BY <1>2, <2>2 DEF S!ItemAt
  <2> QED BY <2>1, <2>2
<1>4. \A n \in 1 .. size : (size - n) + 1 \in 1 .. size
  BY <1>1
<1>5. S(c)!ToVec = [n \in 1 .. size |-> S(c)!ItemAt(store, (size - n) + 1)]
  BY <1>1 DEF S!ToVec
<1>6. \A n \in 1 .. size : S(c)!ItemAt(store, (size - n) + 1) \in Item \cup {None}
  BY <1>3, <1>4
<1>7. S(c)!ToVec \in Seq(Item \cup {None}) /\ Len(S(c)!ToVec) = size
  BY <1>1, <1>5, <1>6
<1>8. \A n \in 1 .. size : S(c)!ToVec[n] = S(c)!ItemAt(store, (size - n) + 1)
  BY <1>5
<1> QED BY <1>1, <1>2, <1>3, <1>4, <1>7, <1>8

LEMMA StackStepWalk ==
    ASSUME NEW c \in {None, Capacity}, StackInv(c), S(c)!StepWalk
    PROVE  StackInv(c)'
<1> DEFINE p == walk.frozen.top - walk.ordinal
           item == S(c)!ItemAt(StackHeld, p)
           w == walk
<1>1. /\ UNCHANGED <<store, size, arrived>> /\ ~walk.ended /\ walk' = S(c)!StepCursor(walk, walk.len, item)
      /\ StackStored(c)
  BY DEF S!StepWalk, StackHeld, StackInv
<1>2. StackStored(c)'
  BY <1>1 DEF StackStored
<1>3. /\ walk \in Cursor(StackFrozen, arrived) /\ walk.len \in Nat /\ walk.ordinal \in Nat
      /\ walk.frozen.top = walk.len /\ walk.ordinal <= walk.len
      /\ Stored(StackHeld, arrived) /\ arrived \in Nat
      /\ Once(StackHeld, StackPassed, walk.seen, arrived) /\ walk.seen \in Seq(0 .. arrived)
  BY SequencesAssumption DEF StackInv, StackWalk, StackStored, Cursor
<1>4. /\ Len(StackHeld) \in Nat /\ DOMAIN StackHeld = 1 .. Len(StackHeld) /\ Numbered(StackHeld, arrived)
  BY <1>3, StoredSeq DEF Stored
<1>5. walk.fresh =>
        /\ StackHeld = store /\ walk.frozen.array = None /\ walk.len = size
        /\ Len(walk.seen) = IF walk.ordinal <= StackDropped THEN 0 ELSE walk.ordinal - StackDropped
        /\ \A i \in 1 .. Len(walk.seen) : walk.seen[i] = S(c)!ToVec[i + StackDropped]
  BY DEF StackInv, StackWalk, StackHeld
<1>6. StackDropped' = StackDropped /\ S(c)!ToVec' = S(c)!ToVec /\ arrived' = arrived /\ size' = size
  BY <1>1 DEF StackDropped, S!ToVec, S!ItemAt
<1>7. CASE walk.ordinal >= walk.len
  <2>1. walk' = CursorEnded(walk)
    BY <1>1, <1>7 DEF S!StepCursor, CursorEnded
  <2>2. /\ walk' \in Cursor(StackFrozen, arrived)
        /\ walk'.frozen = walk.frozen /\ walk'.len = walk.len /\ walk'.ordinal = walk.ordinal
        /\ walk'.seen = walk.seen /\ walk'.fresh = walk.fresh /\ walk'.ended
    BY <1>3, <2>1, EndedFields
  <2>3. StackHeld' = StackHeld /\ StackPassed' = StackPassed
    BY <1>1, <2>2 DEF StackHeld, StackPassed
  <2>4. StackWalk(c)'
    BY <1>3, <1>5, <1>6, <1>7, <2>2, <2>3 DEF StackWalk
  <2> QED BY <1>2, <2>4 DEF StackInv
<1>8. CASE walk.ordinal < walk.len
  <2>1. walk' = CursorMoved(walk, item)
    BY <1>1, <1>3, <1>8 DEF S!StepCursor, CursorMoved
  <2>2. p \in Nat /\ p \in 1 .. walk.len
    BY <1>3, <1>8
  <2>3. item = IF p \in DOMAIN StackHeld THEN StackHeld[p] ELSE None
    BY DEF S!ItemAt
  <2> HIDE DEF item
  <2>4. item \in 0 .. arrived \cup {None}
    BY <1>4, <2>3 DEF Numbered
  <2>5. /\ walk' \in Cursor(StackFrozen, arrived)
        /\ walk'.frozen = walk.frozen /\ walk'.len = walk.len /\ walk'.ordinal = walk.ordinal + 1
        /\ walk'.seen = (IF item = None THEN walk.seen ELSE Append(walk.seen, item))
        /\ walk'.fresh = walk.fresh /\ walk'.ended = walk.ended
    BY <1>3, <2>1, <2>4, MovedFields, SMTT(60)
  <2>6. StackHeld' = StackHeld
    BY <1>1, <2>5 DEF StackHeld
  <2>7. StackPassed' = StackPassed \cup {p} /\ p \notin StackPassed
    <3>1. \A s \in Nat : s > walk.len - (walk.ordinal + 1) <=> (s > walk.len - walk.ordinal \/ s = p)
      BY <1>3, <2>2
    <3> HIDE DEF p
    <3>2. StackPassed' = {s \in Nat : s > walk.len - (walk.ordinal + 1)} /\ StackPassed = {s \in Nat : s > walk.len - walk.ordinal}
      BY <1>3, <2>5 DEF StackPassed
    <3>3. StackPassed' = StackPassed \cup {p}
      BY <2>2, <3>1, <3>2
    <3>4. ~(p > walk.len - walk.ordinal)
      BY <1>3 DEF p
    <3> QED BY <3>2, <3>3, <3>4
  <2> HIDE DEF p
  <2>8. Once(StackHeld', StackPassed', walk'.seen, arrived')
    <3>1. CASE item = None
      BY <1>3, <1>6, <2>5, <2>6, <2>7, <3>1, OncePasses
    <3>2. CASE item # None
      <4>1. p \in DOMAIN StackHeld /\ StackHeld[p] # None /\ item = StackHeld[p]
        BY <2>3, <3>2
      <4>2. Once(StackHeld, StackPassed \cup {p}, Append(walk.seen, StackHeld[p]), arrived)
        BY <1>3, <1>4, <2>7, <4>1, OnceReports
      <4> QED BY <1>6, <2>5, <2>6, <2>7, <3>2, <4>1, <4>2
    <3> QED BY <3>1, <3>2
  <2>9. ASSUME walk.fresh
        PROVE  /\ Len(walk'.seen) = IF walk'.ordinal <= StackDropped THEN 0 ELSE walk'.ordinal - StackDropped
               /\ \A i \in 1 .. Len(walk'.seen) : walk'.seen[i] = S(c)!ToVec[i + StackDropped]
    <3> DEFINE d == StackDropped
    <3>1. /\ StackHeld = store /\ walk.len = size
          /\ Len(walk.seen) = IF walk.ordinal <= d THEN 0 ELSE walk.ordinal - d
          /\ \A i \in 1 .. Len(walk.seen) : walk.seen[i] = S(c)!ToVec[i + d]
      BY <1>5, <2>9
    <3>2. /\ size \in Nat /\ Len(store) \in Nat /\ DOMAIN store = 1 .. Len(store) /\ d \in Nat
          /\ walk.ordinal \in Nat
          /\ p = size - walk.ordinal /\ walk.ordinal < size
      BY <1>1, <1>3, <1>8, <3>1, StackItems DEF StackDropped, p
    <3>3. walk.ordinal < d <=> p > Len(store)
      BY <3>2 DEF StackDropped
    <3> DEFINE n == walk.ordinal + 1
    <3>4. n \in 1 .. size /\ (size - n) + 1 = p /\ p \in 1 .. size
      BY <3>2
    <3>5. S(c)!ToVec[n] = S(c)!ItemAt(store, p)
      BY <1>1, <3>4, StackItems
    <3>6. item = S(c)!ToVec[n]
      BY <2>3, <3>1, <3>5 DEF S!ItemAt
    <3> HIDE DEF d
    <3>7. CASE walk.ordinal < d
      <4>1. item = None
        BY <2>3, <3>1, <3>2, <3>3, <3>7
      <4>2. walk'.seen = walk.seen /\ walk'.ordinal <= d /\ walk.ordinal <= d
        BY <2>5, <3>2, <3>7, <4>1
      <4> QED BY <3>1, <4>2 DEF d
    <3>8. CASE ~(walk.ordinal < d)
      <4>1. p \in 1 .. size /\ p \in DOMAIN store
        BY <3>2, <3>3, <3>4, <3>8
      <4>2. item # None
        BY <1>1, <2>3, <3>1, <4>1 DEF StackStored
      <4>3. /\ walk'.seen = Append(walk.seen, item) /\ walk.seen \in Seq(0 .. arrived) /\ item \in 0 .. arrived
        BY <1>3, <2>4, <2>5, <4>2
      <4>4. /\ Len(walk.seen) = walk.ordinal - d /\ Len(walk.seen) \in Nat
        BY <3>1, <3>2, <3>8
      <4>5. /\ Len(walk'.seen) = Len(walk.seen) + 1
            /\ walk'.seen[Len(walk.seen) + 1] = item
            /\ \A i \in 1 .. Len(walk.seen) : walk'.seen[i] = walk.seen[i]
        BY <4>3, <4>4
      <4>6. (Len(walk.seen) + 1) + d = n /\ ~(walk.ordinal + 1 <= d) /\ Len(walk.seen) + 1 = (walk.ordinal + 1) - d
        BY <3>2, <3>8, <4>4, SMTT(60)
      <4>7. \A i \in 1 .. Len(walk.seen) + 1 : walk'.seen[i] = S(c)!ToVec[i + d]
        <5> SUFFICES ASSUME NEW i \in 1 .. Len(walk.seen) + 1 PROVE walk'.seen[i] = S(c)!ToVec[i + d]
          OBVIOUS
        <5>1. CASE i \in 1 .. Len(walk.seen)  BY <5>1, <3>1, <4>5
        <5>2. CASE i = Len(walk.seen) + 1
          <6>1. i + d = n
            BY <5>2, <4>6
          <6> HIDE DEF n
          <6> QED BY <5>2, <6>1, <3>6, <4>5
        <5> QED BY <5>1, <5>2, <4>4
      <4> QED BY <2>5, <4>5, <4>6, <4>7 DEF d
    <3> QED BY <3>7, <3>8
  <2>10. Stored(StackHeld', arrived') /\ walk'.frozen.top = walk'.len /\ walk'.ordinal <= walk'.len
         /\ ~walk'.ended /\ walk' \in Cursor(StackFrozen, arrived')
    BY <1>1, <1>3, <1>6, <1>8, <2>5, <2>6
  <2>11. StackWalk(c)'
    BY <1>5, <1>6, <2>5, <2>8, <2>9, <2>10 DEF StackWalk
  <2> QED BY <1>2, <2>11 DEF StackInv
<1> QED BY <1>3, <1>7, <1>8

LEMMA StackInit ==
    ASSUME NEW c \in {None, Capacity}, S(c)!Init
    PROVE  StackInv(c)
<1>0. /\ Capacity \in Nat \ {0} /\ MaxSurplus \in Nat /\ MaxItems \in Nat /\ MaxItems >= 2
      /\ Capacity + MaxSurplus <= MaxItems /\ None \notin Int /\ (c # None <=> c = Capacity)
  BY SequencesAssumption
<1>1. PICK n \in 0 .. IF c # None THEN Capacity + MaxSurplus ELSE 2 :
        /\ store \in {[s \in 1 .. slots |-> IF s <= n THEN s ELSE None] :
                        slots \in IF c = None THEN {n} ELSE IF n > Capacity THEN {n, Capacity} ELSE {Capacity}}
        /\ size = n /\ arrived = n
        /\ walk = [frozen |-> [array |-> None, top |-> n], len |-> n, ordinal |-> 0, seen |-> <<>>,
                   fresh |-> TRUE, ended |-> FALSE]
  <2>1. (c = None) <=> ~(c # None)
    OBVIOUS
  <2> QED BY <1>0, <2>1 DEF S!Init, S!OpenCursor, S!Fixed
<1>2. PICK slots \in IF c = None THEN {n} ELSE IF n > Capacity THEN {n, Capacity} ELSE {Capacity} :
        store = [s \in 1 .. slots |-> IF s <= n THEN s ELSE None]
  BY <1>1
<1>3. n \in Nat /\ n \in 0 .. MaxItems
  BY <1>0, <1>1
<1>4. /\ slots \in Nat /\ (c = None => slots = n) /\ (c # None => slots >= Capacity)
      /\ n > slots => c # None /\ n > Capacity /\ slots = Capacity
  BY <1>0, <1>2, <1>3
<1>5. ASSUME NEW s \in 1 .. slots
      PROVE  s \in Nat /\ ((store[s] = s /\ s \in 1 .. n) \/ (store[s] = None /\ s > n))
  <2>1. CASE s <= n  BY <1>2, <1>3, <1>4, <2>1
  <2>2. CASE ~(s <= n)  BY <1>2, <1>3, <1>4, <2>2
  <2> QED BY <2>1, <2>2
<1>6. DOMAIN store = 1 .. slots /\ \A s \in 1 .. slots : store[s] \in 0 .. n \cup {None}
  <2>1. DOMAIN store = 1 .. slots
    BY <1>2
  <2>2. ASSUME NEW s \in 1 .. slots PROVE store[s] \in 0 .. n \cup {None}
    <3>1. CASE store[s] = None  BY <3>1
    <3>2. CASE store[s] = s /\ s \in 1 .. n  BY <3>2, <1>3
    <3> QED BY <3>1, <3>2, <1>5
  <2> QED BY <2>1, <2>2
<1>7. Numbered(store, n)
  <2>1. \A s, t \in 1 .. slots : store[s] = store[t] /\ store[s] \in 1 .. n => s = t
    BY <1>0, <1>5
  <2> QED BY <1>6, <2>1 DEF Numbered
<1>8. store \in Seq(0 .. n \cup {None}) /\ Len(store) = slots
  BY <1>2, <1>4, <1>6
<1>9. Stored(store, arrived)
  BY <1>1, <1>7, <1>8 DEF Stored
<1>10. StackStored(c)
  <2>1. \A s \in 1 .. size : s \in DOMAIN store => store[s] # None
    BY <1>0, <1>1, <1>3, <1>5, <1>6
  <2>2. size \in Nat /\ size <= arrived /\ arrived \in 0 .. MaxItems
    BY <1>1, <1>3
  <2> QED BY <1>1, <1>4, <1>8, <1>9, <2>1, <2>2 DEF StackStored
<1>11. <<>> \in Seq(0 .. arrived) /\ Len(<<>>) = 0 /\ 1 .. 0 = {}
  OBVIOUS
<1>12. walk \in Cursor(StackFrozen, arrived) /\ StackHeld = store
  BY <1>1, <1>3, <1>11 DEF Cursor, StackFrozen, StackHeld
<1>13. Once(StackHeld, StackPassed, walk.seen, arrived)
  BY <1>1, <1>3, OnceNothing
<1>14. walk.ordinal <= StackDropped
  BY <1>1, <1>3, <1>4, <1>8 DEF StackDropped
<1>15. StackWalk(c)
  BY <1>1, <1>3, <1>9, <1>11, <1>12, <1>13, <1>14 DEF StackWalk
<1> QED BY <1>10, <1>15 DEF StackInv

LEMMA StackStep ==
    ASSUME NEW c \in {None, Capacity}, StackInv(c), S(c)!Next
    PROVE  StackInv(c)'
  BY StackPush, StackPop, StackClear, StackOpenWalk, StackStepWalk DEF S!Next

LEMMA StackReads ==
    ASSUME NEW c \in {None, Capacity}, StackInv(c)
    PROVE  S(c)!LayoutSound /\ S(c)!ReadsAgree
<1>1. StackStored(c) /\ (c # None <=> c = Capacity)
  BY SequencesAssumption DEF StackInv
<1>2. /\ size \in Nat /\ Len(store) \in Nat /\ DOMAIN store = 1 .. Len(store)
      /\ \A n \in 1 .. size :
             /\ (size - n) + 1 \in 1 .. size
             /\ S(c)!ToVec[n] = S(c)!ItemAt(store, (size - n) + 1)
  BY <1>1, StackItems
<1>3. S(c)!LayoutSound
  <2>1. c # None \/ size = Len(store)
    BY <1>1 DEF StackStored
  <2>2. \A n \in 1 .. size : n \in DOMAIN store => store[n] # None
    BY <1>1 DEF StackStored
  <2>3. ASSUME size > Len(store)
        PROVE  c # None /\ size > c /\ ~(c = None \/ Len(store) > c)
    <3>1. c # None /\ size > Capacity /\ Len(store) = Capacity
      BY <1>1, <2>3 DEF StackStored
    <3>2. c = Capacity
      BY <1>1, <3>1
    <3> QED BY <1>2, <3>1, <3>2
  <2> QED BY <2>1, <2>2, <2>3 DEF S!LayoutSound, S!Fixed, S!Overfilled, S!Grows
<1>4. S(c)!ReadsAgree
  <2>1. CASE size = 0
    BY <1>2, <2>1 DEF S!ReadsAgree, S!Peek, S!ItemAt
  <2>2. CASE size # 0
    <3>1. 1 \in 1 .. size /\ (size - 1) + 1 = size
      BY <1>2, <2>2
    <3>2. S(c)!ToVec[1] = S(c)!ItemAt(store, size)
      BY <1>2, <3>1
    <3> QED BY <2>2, <3>2 DEF S!ReadsAgree, S!Peek
  <2> QED BY <2>1, <2>2
<1> QED BY <1>3, <1>4

StackKind(c) == kind = (IF c = None THEN "Stack" ELSE "FixedStack")

StackContents(c) == [n \in 1 .. size |-> S(c)!ItemAt(store, n)]

LEMMA StackList ==
    ASSUME NEW c \in {None, Capacity}, StackStored(c), StackKind(c)
    PROVE  /\ Contents = StackContents(c) /\ InWalkOrder = S(c)!ToVec /\ CallSeen = call
           /\ Room = (IF c = None THEN MaxItems + MaxCapacity ELSE Capacity) /\ Policy = "refuse"
           /\ StackContents(c) \in Seq(Item \cup {None}) /\ Len(StackContents(c)) = size
           /\ \A n \in 1 .. size : StackContents(c)[n] = S(c)!ItemAt(store, n)
<1>0. c # None <=> c = Capacity
  BY SequencesAssumption
<1>1. /\ S(c)!ToVec \in Seq(Item \cup {None}) /\ Len(S(c)!ToVec) = size /\ size \in Nat
      /\ \A n \in 1 .. size :
             /\ (size - n) + 1 \in 1 .. size
             /\ S(c)!ToVec[n] = S(c)!ItemAt(store, (size - n) + 1)
      /\ \A s \in 1 .. size : S(c)!ItemAt(store, s) \in Item \cup {None}
  BY StackItems
<1>2. InWalkOrder = S(c)!ToVec
  <2>1. CASE c = None
    BY <2>1 DEF StackKind, InWalkOrder, S!ToVec, S!ItemAt, Lifo!ToVec, Lifo!ItemAt
  <2>2. CASE c = Capacity
    BY <2>2, <1>0 DEF StackKind, InWalkOrder, S!ToVec, S!ItemAt, FixedLifo!ToVec, FixedLifo!ItemAt
  <2> QED BY <2>1, <2>2
<1>3. Contents = Reverse(S(c)!ToVec)
  BY <1>2 DEF StackKind, Contents
<1>4. Contents = [n \in 1 .. size |-> S(c)!ToVec[(size - n) + 1]]
  BY <1>1, <1>3 DEF Reverse
<1>5. ASSUME NEW n \in 1 .. size
      PROVE  S(c)!ToVec[(size - n) + 1] = S(c)!ItemAt(store, n)
  <2> DEFINE k == (size - n) + 1
  <2>1. k \in 1 .. size /\ (size - k) + 1 = n
    BY <1>1
  <2> HIDE DEF k
  <2>2. S(c)!ToVec[k] = S(c)!ItemAt(store, (size - k) + 1)
    BY <1>1, <2>1
  <2> QED BY <2>1, <2>2 DEF k
<1>6. Contents = StackContents(c)
  BY <1>4, <1>5 DEF StackContents
<1>7. StackContents(c) \in Seq(Item \cup {None}) /\ Len(StackContents(c)) = size
  BY <1>1 DEF StackContents
<1>8. CallSeen = call /\ Room = (IF c = None THEN MaxItems + MaxCapacity ELSE Capacity) /\ Policy = "refuse"
  BY DEF StackKind, CallSeen, Room, Policy
<1>9. \A n \in 1 .. size : StackContents(c)[n] = S(c)!ItemAt(store, n)
  BY DEF StackContents
<1> QED BY <1>2, <1>6, <1>7, <1>8, <1>9

LEMMA StackListStep ==
    ASSUME NEW c \in {None, Capacity}, StackInv(c), StackKind(c), UNCHANGED kind, S(c)!Next
    PROVE  List!Next \/ PastPromise \/ UNCHANGED listVars
<1> DEFINE C == StackContents(c)
           T == Item \cup {None}
<1>0. /\ StackStored(c) /\ (c # None <=> c = Capacity) /\ Capacity \in Nat \ {0}
      /\ MaxItems \in Nat /\ MaxCapacity \in Nat
  BY SequencesAssumption DEF StackInv
<1>1. /\ Contents = C /\ CallSeen = call
      /\ Room = (IF c = None THEN MaxItems + MaxCapacity ELSE Capacity) /\ Policy = "refuse"
      /\ C \in Seq(T) /\ Len(C) = size
      /\ \A n \in 1 .. size : C[n] = S(c)!ItemAt(store, n)
  BY <1>0, StackList
<1>2. StackInv(c)'
  BY StackStep
<1>3. /\ Contents' = C' /\ CallSeen' = call'
      /\ C' \in Seq(T) /\ Len(C') = size'
      /\ \A n \in 1 .. size' : C'[n] = S(c)!ItemAt(store', n)
  <2>1. (StackStored(c) /\ StackKind(c) =>
            /\ Contents = C /\ CallSeen = call
            /\ C \in Seq(T) /\ Len(C) = size
            /\ \A n \in 1 .. size : C[n] = S(c)!ItemAt(store, n))'
    BY StackList, PTL
  <2>2. StackStored(c)' /\ StackKind(c)'
    BY <1>2 DEF StackInv, StackKind
  <2>3. (\A n \in 1 .. size : C[n] = S(c)!ItemAt(store, n))' =>
            \A n \in 1 .. size' : C'[n] = S(c)!ItemAt(store', n)
    BY DEF S!ItemAt
  <2> QED BY <2>1, <2>2, <2>3
<1>4. /\ size \in Nat /\ Len(store) \in Nat /\ DOMAIN store = 1 .. Len(store) /\ size <= arrived /\ arrived \in 0 .. MaxItems
      /\ c = None => size = Len(store)
      /\ store \in Seq(0 .. arrived \cup {None})
      /\ size > Len(store) => c # None /\ size > Capacity /\ Len(store) = Capacity
      /\ c # None => Len(store) >= Capacity
  <2>1. /\ arrived \in 0 .. MaxItems /\ size \in Nat /\ size <= arrived /\ Stored(store, arrived)
        /\ c = None => size = Len(store)
        /\ size > Len(store) => c # None /\ size > Capacity /\ Len(store) = Capacity
        /\ c # None => Len(store) >= Capacity
    BY <1>0 DEF StackStored
  <2>2. arrived \in Nat
    BY <2>1, SequencesAssumption
  <2>3. store \in Seq(0 .. arrived \cup {None}) /\ Len(store) \in Nat /\ DOMAIN store = 1 .. Len(store)
    BY <2>1, <2>2, StoredSeq
  <2> QED BY <2>1, <2>3, ZenonT(60)
<1>9. /\ size \in Nat /\ Len(store) \in Nat /\ arrived \in Nat /\ size <= arrived /\ arrived <= MaxItems
      /\ MaxItems \in Nat /\ MaxCapacity \in Nat \ {0} /\ Capacity \in Nat \ {0}
  <2>1. size \in Nat /\ Len(store) \in Nat /\ size <= arrived /\ arrived \in 0 .. MaxItems
    BY <1>4
  <2>2. MaxItems \in Nat /\ MaxCapacity \in Nat \ {0} /\ Capacity \in Nat \ {0}
    BY SequencesAssumption, SMTT(60)
  <2> QED BY <2>1, <2>2, SMTT(60)
<1>10. DOMAIN store = 1 .. Len(store) /\ store \in Seq(0 .. arrived \cup {None})
  BY <1>4
<1>11. /\ c = None => size = Len(store)
       /\ c # None => c = Capacity /\ Len(store) >= Capacity
       /\ c = Capacity => c # None
  BY <1>0, <1>4, ZenonT(60)
<1> HIDE DEF C, T
<1>5. CASE S(c)!Push
  <2>1. CASE c # None /\ size > Capacity
    <3>1. call'.op = "push"
      BY <1>5 DEF S!Push, S!Called
    <3>2. kind = "FixedStack" /\ c = Capacity
      BY <1>0, <2>1 DEF StackKind
    <3> QED BY <1>0, <2>1, <3>1, <3>2 DEF PastPromise, FixedLifo!PastPromise, FixedLifo!Overfilled, FixedLifo!Fixed
  <2>2. CASE c # None /\ size = c
    <3>1. UNCHANGED <<store, size>> /\ call' = [op |-> "push", answer |-> FullError]
      BY <1>5, <2>2 DEF S!Push, S!Called, S!Fixed
    <3>2. C' = C
      BY <3>1 DEF C, StackContents, S!ItemAt
    <3> QED BY <1>0, <1>1, <1>3, <2>2, <3>1, <3>2, ListRefuses
  <2>3. CASE c # None => size < Capacity
    <3> DEFINE x == arrived + 1
    <3>1. /\ size' = size + 1 /\ call' = [op |-> "push", answer |-> size + 1] /\ arrived < MaxItems
          /\ store' = IF size < Len(store) THEN [store EXCEPT ![size + 1] = x]
                      ELSE IF c = None \/ Len(store) > c THEN Append(store, x) ELSE store
      <4>1. ~(c # None /\ size = c)
        BY <1>9, <1>11, <2>3
      <4> QED BY <4>1, <1>5 DEF S!Push, S!Called, S!Fixed, S!Grows
    <3>2. x \in Item
      BY <1>9, <3>1 DEF Item
    <3>3. size < Len(store) \/ (c = None /\ size = Len(store))
      <4>1. CASE c = None  BY <1>11, <4>1
      <4>2. CASE c # None  BY <1>9, <1>11, <2>3, <4>2
      <4> QED BY <4>1, <4>2
    <3> HIDE DEF x
    <3>4. /\ \A s \in 1 .. size : s \in DOMAIN store' /\ s \in DOMAIN store /\ store'[s] = store[s]
          /\ size + 1 \in DOMAIN store' /\ store'[size + 1] = x
      <4>1. CASE size < Len(store)
        <5>1. store' = [store EXCEPT ![size + 1] = x] /\ size + 1 \in 1 .. Len(store)
          BY <1>9, <3>1, <4>1
        <5> QED BY <1>9, <1>10, <4>1, <5>1
      <4>2. CASE c = None /\ size = Len(store)
        <5>1. store' = Append(store, x)
          BY <1>4, <3>1, <4>2
        <5> QED BY <1>4, <4>2, <5>1, SMTT(60)
      <4> QED BY <3>3, <4>1, <4>2
    <3>5. \A n \in 1 .. size : C'[n] = C[n]
      <4> SUFFICES ASSUME NEW n \in 1 .. size PROVE C'[n] = C[n]
        OBVIOUS
      <4>1. n \in 1 .. size'
        BY <1>9, <3>1
      <4> QED BY <1>1, <1>3, <3>4, <4>1 DEF S!ItemAt
    <3>6. C'[size + 1] = x
      <4>1. size + 1 \in 1 .. size'
        BY <1>9, <3>1
      <4> QED BY <1>3, <3>4, <4>1 DEF S!ItemAt
    <3>7. C' = Append(C, x)
      <4>1. C \in Seq(T) /\ C' \in Seq(T) /\ x \in T /\ Len(C') = Len(C) + 1
        BY <1>1, <1>3, <3>1, <3>2 DEF T
      <4>2. C'[Len(C) + 1] = x /\ \A n \in 1 .. Len(C) : C'[n] = C[n]
        BY <1>1, <3>5, <3>6
      <4> QED BY <4>1, <4>2, IsAppend
    <3>8. Len(Contents) # Room /\ CallSeen' = [op |-> "push", answer |-> Len(Contents) + 1]
      <4>1. CASE c = None
        BY <4>1, <1>9, <1>1, <1>3, <3>1
      <4>2. CASE c # None
        <5>1. size # Capacity
          BY <4>2, <2>3, <1>9
        <5> QED BY <4>2, <5>1, <1>1, <1>3, <3>1
      <4> QED BY <4>1, <4>2
    <3> QED BY <1>1, <1>3, <3>2, <3>7, <3>8, ListPushes
  <2> QED BY <1>9, <1>11, <2>1, <2>2, <2>3
<1>6. CASE S(c)!Pop
  <2>1. CASE size = 0
    <3>1. UNCHANGED <<store, size>> /\ call' = [op |-> "pop", answer |-> None]
      BY <1>6, <2>1 DEF S!Pop, S!Called
    <3>2. C' = C
      BY <3>1 DEF C, StackContents, S!ItemAt
    <3>3. C = <<>>
      BY <1>1, <2>1, EmptyContents
    <3> QED BY <1>1, <1>3, <3>1, <3>2, <3>3, ListPops
  <2>2. CASE size # 0
    <3>1. /\ size' = size - 1 /\ call' = [op |-> "pop", answer |-> S(c)!ItemAt(store, size)]
          /\ store' = IF c # None THEN store ELSE SubSeq(store, 1, size - 1)
      BY <1>6, <2>2 DEF S!Pop, S!Called, S!Fixed
    <3>2. \A s \in 1 .. size - 1 : S(c)!ItemAt(store', s) = S(c)!ItemAt(store, s)
      <4>1. CASE c # None  BY <3>1, <4>1 DEF S!ItemAt
      <4>2. CASE c = None
        <5> DEFINE one == 1
                   n == size - 1
        <5>1. one \in 1 .. Len(store) + 1 /\ n \in one - 1 .. Len(store) /\ one - 1 = 0 /\ (n - one) + 1 = n /\ n \in Nat
              /\ size - 1 = n
          BY <1>4, <2>2, <4>2
        <5>2. store' = SubSeq(store, one, n)
          BY <3>1, <4>2, SMTT(60)
        <5> HIDE DEF one, n
        <5>3. /\ store' \in Seq(0 .. arrived \cup {None}) /\ Len(store') = (n - one) + 1
              /\ \A i \in 1 .. Len(store') : store'[i] = store[i + (one - 1)]
          BY <1>4, <5>1, <5>2, SubSeqIs, ZenonT(60)
        <5>4. DOMAIN store' = 1 .. n /\ \A i \in 1 .. n : store'[i] = store[i]
          BY <5>1, <5>3
        <5>5. \A i \in 1 .. n : i \in DOMAIN store
          BY <1>4, <4>2, <5>1
        <5> QED BY <5>1, <5>4, <5>5 DEF S!ItemAt
      <4> QED BY <4>1, <4>2
    <3>3. C # <<>>
      BY <1>1, <2>2, EmptyContents
    <3>4. call' = [op |-> "pop", answer |-> C[Len(C)]]
      <4>1. size \in 1 .. size
        BY <1>9, <2>2
      <4> QED BY <1>1, <3>1, <4>1
    <3>5. C' = SubSeq(C, 1, Len(C) - 1)
      <4> DEFINE one == 1
                 n == Len(C) - 1
      <4>1. one \in 1 .. Len(C) + 1 /\ n \in one - 1 .. Len(C) /\ one - 1 = 0 /\ (n - one) + 1 = n /\ n \in Nat
            /\ n = size - 1
        BY <1>1, <1>9, <2>2
      <4> HIDE DEF one, n
      <4>2. C \in Seq(T) /\ C' \in Seq(T) /\ Len(C') = (n - one) + 1
        BY <1>1, <1>3, <3>1, <4>1
      <4>3. \A i \in 1 .. Len(C') : C'[i] = C[i + (one - 1)]
        <5> SUFFICES ASSUME NEW i \in 1 .. size - 1 PROVE C'[i] = C[i]
          BY <4>1, <4>2
        <5>1. i \in 1 .. size /\ i \in 1 .. size'
          BY <1>9, <3>1
        <5> QED BY <5>1, <1>1, <1>3, <3>2
      <4>4. C' = SubSeq(C, one, n)
        BY <4>1, <4>2, <4>3, IsSubSeq
      <4> QED BY <4>4 DEF one, n
    <3> QED BY <1>1, <1>3, <3>3, <3>4, <3>5, ListPops
  <2> QED BY <2>1, <2>2
<1>7. CASE S(c)!Clear
  <2>1. size' = 0 /\ call' = [op |-> "clear", answer |-> None]
    BY <1>7 DEF S!Clear, S!Called
  <2>2. C' = <<>>
    BY <1>3, <2>1, EmptyContents
  <2> QED BY <1>3, <2>1, <2>2, ListClears
<1>8. CASE S(c)!OpenWalk \/ S(c)!StepWalk
  <2>1. UNCHANGED <<store, size, call>>
    BY <1>8 DEF S!OpenWalk, S!StepWalk
  <2>2. C' = C
    BY <2>1 DEF C, StackContents, S!ItemAt
  <2> QED BY <1>1, <1>3, <2>1, <2>2, ListStutters
<1> QED BY <1>5, <1>6, <1>7, <1>8 DEF S!Next

LEMMA StackWalks ==
    ASSUME NEW c \in {None, Capacity}, StackInv(c), StackKind(c)
    PROVE  FreshWalksComplete /\ WalksReportOnce
<1> DEFINE all == S(c)!ToVec
           T == Item \cup {None}
<1>1. /\ StackStored(c) /\ (c # None <=> c = Capacity)
  BY SequencesAssumption DEF StackInv
<1>2. /\ InWalkOrder = all
  BY <1>1, StackList
<1>3. /\ all \in Seq(T) /\ Len(all) = size /\ size \in Nat /\ Len(store) \in Nat
      /\ arrived \in 0 .. MaxItems /\ MaxItems \in Nat
  BY <1>1, StackItems, SequencesAssumption DEF StackStored
<1>4. /\ walk.seen \in Seq(0 .. arrived) /\ walk.ordinal \in Nat /\ walk.len \in Nat /\ walk.ordinal <= walk.len
      /\ walk.ended => walk.ordinal = walk.len
      /\ Once(StackHeld, StackPassed, walk.seen, arrived)
      /\ walk.fresh =>
           /\ walk.len = size
           /\ Len(walk.seen) = IF walk.ordinal <= StackDropped THEN 0 ELSE walk.ordinal - StackDropped
           /\ \A i \in 1 .. Len(walk.seen) : walk.seen[i] = S(c)!ToVec[i + StackDropped]
  BY DEF StackInv, StackWalk, Cursor
<1> DEFINE dropped == IF kind = "FixedStack" THEN FixedLifo!Dropped ELSE 0
<1>5. dropped = StackDropped
  <2>1. CASE c = None
    <3>1. ~(size > Len(store))
      BY <1>1, <2>1 DEF StackStored
    <3> QED BY <2>1, <3>1 DEF StackKind, StackDropped
  <2>2. CASE c # None
    BY <2>2 DEF StackKind, StackDropped, FixedLifo!Dropped
  <2> QED BY <2>1, <2>2
<1> DEFINE d == StackDropped
<1>6. ASSUME walk.fresh
      PROVE  IF walk.ended THEN walk.seen = SubSeq(all, d + 1, Len(all))
             ELSE IsPrefix(walk.seen, SubSeq(all, d + 1, Len(all)))
  <2>1. walk.seen \in Seq(T)
    <3>1. 0 .. arrived \subseteq T
      BY <1>3 DEF Item
    <3> QED BY <1>4, <3>1, SeqMonotonic
  <2>2. d \in 0 .. Len(all)
    BY <1>3 DEF StackDropped
  <2>3. all \in Seq(T)
    BY <1>3
  <2> HIDE DEF d, all, T
  <2>4. /\ Len(walk.seen) <= Len(all) - d
        /\ walk.ended => Len(walk.seen) = Len(all) - d
    <3>1. /\ Len(all) = size /\ size \in Nat /\ d \in 0 .. size /\ walk.ordinal \in Nat /\ walk.ordinal <= size
          /\ walk.ended => walk.ordinal = size
          /\ Len(walk.seen) = IF walk.ordinal <= d THEN 0 ELSE walk.ordinal - d
      BY <1>3, <1>4, <1>6, <2>2 DEF d, all
    <3> QED BY <3>1
  <2>5. \A i \in 1 .. Len(walk.seen) : walk.seen[i] = all[i + d]
    BY <1>4, <1>6 DEF d, all
  <2> QED BY <2>1, <2>2, <2>3, <2>4, <2>5, FreshFrom, ZenonT(60)
<1>7. FreshWalksComplete
  BY <1>2, <1>5, <1>6 DEF FreshWalksComplete
<1>8. WalksReportOnce
  <2>1. kind # "Queue"
    BY DEF StackKind
  <2> QED BY <1>4, <2>1 DEF WalksReportOnce, Once
<1> QED BY <1>7, <1>8

-----------------------------------------------------------------------------
(* Induction on the naturals, as their least element.                      *)

LEMMA LeastMember ==
    ASSUME NEW T \in SUBSET Nat, T # {}
    PROVE  \E i \in T : \A j \in T : i <= j
<1>1. IsWellFoundedOn(OpToRel(<, Nat), Nat)
  BY NatLessThanWellFounded
<1>2. PICK i \in T : \A j \in T : <<j, i>> \notin OpToRel(<, Nat)
  BY <1>1, WFMin
<1>3. \A j \in T : ~(j < i)
  BY <1>2, Zenon DEF OpToRel
<1> QED BY <1>3

-----------------------------------------------------------------------------
(* Vector.                                                                 *)

VecStored ==
    /\ arrived \in 0 .. MaxWrites
    /\ store \in Seq(0 .. arrived) /\ Numbered(store, arrived)
    /\ first = Len(store) /\ size \in Nat /\ size <= first

VecWalk ==
    /\ walk \in Cursor({None}, arrived)
    /\ walk.ordinal <= walk.len
    /\ walk.ended => walk.ordinal = walk.len
    /\ Once(store, 1 .. walk.ordinal, walk.seen, arrived)
    /\ walk.fresh => /\ walk.len = size /\ Len(walk.seen) = walk.ordinal
                     /\ \A i \in 1 .. walk.ordinal : walk.seen[i] = store[i]

VecInv == VecStored /\ VecWalk

LEMMA VecFacts ==
    ASSUME VecStored
    PROVE  /\ arrived \in Nat /\ arrived <= MaxWrites /\ MaxWrites \in Nat /\ MaxWrites <= MaxItems
           /\ MaxItems \in Nat /\ Capacity \in Nat \ {0}
           /\ size \in Nat /\ first \in Nat /\ size <= first /\ first = Len(store)
           /\ DOMAIN store = 1 .. first /\ store \in Seq(0 .. arrived)
           /\ IsArray(store, first)
           /\ \A s \in 1 .. first : store[s] \in 0 .. arrived
<1>1. /\ arrived \in Nat /\ arrived <= MaxWrites /\ MaxWrites \in Nat /\ MaxWrites <= MaxItems
      /\ MaxItems \in Nat /\ Capacity \in Nat \ {0}
  BY SequencesAssumption DEF VecStored
<1>2. store \in Seq(0 .. arrived) /\ first = Len(store) /\ size \in Nat /\ size <= first
  BY DEF VecStored
<1>3. first \in Nat /\ DOMAIN store = 1 .. first
  BY <1>2
<1>5. \A s \in 1 .. first : store[s] \in 0 .. arrived
  BY <1>2, <1>3, ElementOfSeq
<1>4. store = [s \in 1 .. first |-> store[s]]
  BY <1>2, <1>3
<1> QED BY <1>1, <1>2, <1>3, <1>4, <1>5 DEF IsArray

OnArray(a, n) == Numbered(a, n) /\ \A s \in DOMAIN a : a[s] \in 0 .. n

OnArrayAfter(a, b, k, s0, n, m) ==
    \A s \in 1 .. k :
        \/ s = s0 /\ b[s] = m /\ m = n + 1
        \/ s \in DOMAIN a /\ b[s] = a[s]
        \/ b[s] = 0

LEMMA VecArray ==
    ASSUME NEW n \in Nat, NEW m \in {n, n + 1}, NEW a, NEW b, NEW k \in Nat, NEW s0,
           OnArray(a, n), IsArray(b, k), OnArrayAfter(a, b, k, s0, n, m)
    PROVE  b \in Seq(0 .. m) /\ Len(b) = k /\ Numbered(b, m)
<1>1. DOMAIN b = 1 .. k /\ b = [s \in 1 .. k |-> b[s]]
  BY DEF IsArray
<1>2. Numbered(b, m)
  BY <1>1, NumberedAfter, ZenonT(60) DEF OnArray, OnArrayAfter
<1>3. \A s \in 1 .. k : b[s] \in 0 .. m
  BY DEF OnArray, OnArrayAfter
<1>4. b \in Seq(0 .. m) /\ Len(b) = k
  BY <1>1, <1>3
<1> QED BY <1>2, <1>4

(* What every call that writes or moves the array, or cuts the length,     *)
(* does.                                                                   *)
LEMMA VecCalled ==
    ASSUME VecInv, NEW k \in Nat, NEW s0, IsArray(store', k), first' = k, size' \in 0 .. k,
           arrived' \in {arrived, arrived + 1}, arrived' <= MaxWrites, walk' = CursorDisturbed(walk),
           \A s \in 1 .. k :
               \/ s = s0 /\ store'[s] = arrived' /\ arrived' = arrived + 1
               \/ s \in DOMAIN store /\ store'[s] = store[s]
               \/ store'[s] = 0
    PROVE  VecInv'
<1>1. /\ arrived \in Nat /\ MaxWrites \in Nat /\ Numbered(store, arrived)
      /\ \A s \in DOMAIN store : store[s] \in 0 .. arrived
  BY VecFacts DEF VecInv, VecStored
<1>2. /\ store' \in Seq(0 .. arrived') /\ Len(store') = k /\ Numbered(store', arrived')
  <2>1. arrived \in Nat
    BY <1>1
  <2>2. Numbered(store, arrived) /\ \A s \in DOMAIN store : store[s] \in 0 .. arrived
    BY <1>1
  <2>3. IsArray(store', k) /\ k \in Nat
    OBVIOUS
  <2>4. \A s \in 1 .. k :
            \/ s = s0 /\ store'[s] = arrived' /\ arrived' = arrived + 1
            \/ s \in DOMAIN store /\ store'[s] = store[s]
            \/ store'[s] = 0
    OBVIOUS
  <2>5. /\ OnArray(store, arrived) /\ OnArrayAfter(store, store', k, s0, arrived, arrived')
    BY <2>2, <2>4 DEF OnArray, OnArrayAfter
  <2> QED BY ONLY <2>1, <2>3, <2>5, VecArray, arrived' \in {arrived, arrived + 1}
<1>3. VecStored'
  <2>1. arrived' \in 0 .. MaxWrites /\ size' \in Nat /\ size' <= k
    BY <1>1
  <2> QED BY <1>2, <2>1 DEF VecStored
<1>4. walk \in Cursor({None}, arrived) /\ Once(store, 1 .. walk.ordinal, walk.seen, arrived)
      /\ walk.ordinal <= walk.len /\ (walk.ended => walk.ordinal = walk.len)
  BY DEF VecInv, VecWalk
<1>5. /\ walk' \in Cursor({None}, arrived')
      /\ walk'.frozen = walk.frozen /\ walk'.len = walk.len /\ walk'.ordinal = walk.ordinal
      /\ walk'.seen = walk.seen /\ ~walk'.fresh /\ walk'.ended = walk.ended
  BY <1>1, <1>4, DisturbedFields
<1>6. Once(store', 1 .. walk.ordinal, walk.seen, arrived')
  <2>1. \A s \in DOMAIN store' :
            \/ s = s0 /\ store'[s] = arrived' /\ arrived' = arrived + 1
            \/ s \in DOMAIN store /\ store'[s] = store[s]
            \/ store'[s] \in {0, None}
    BY DEF IsArray
  <2>2. arrived \in Nat /\ Once(store, 1 .. walk.ordinal, walk.seen, arrived)
    BY <1>1, <1>4
  <2> QED BY ONLY <2>1, <2>2, OnceAfter, arrived' \in {arrived, arrived + 1}
<1>7. VecWalk'
  BY <1>4, <1>5, <1>6 DEF VecWalk
<1> QED BY <1>3, <1>7 DEF VecInv

LEMMA VecStays ==
    ASSUME VecInv, store' = store, first' = first, arrived' \in {arrived, arrived + 1}, arrived' <= MaxWrites,
           size' \in 0 .. first, walk' = CursorDisturbed(walk)
    PROVE  VecInv'
<1>1. first \in Nat /\ IsArray(store', first) /\ DOMAIN store = 1 .. first
  BY VecFacts DEF VecInv
<1>2. \A s \in 1 .. first : s \in DOMAIN store /\ store'[s] = store[s]
  BY <1>1
<1> QED BY <1>1, <1>2, VecCalled

LEMMA VecCopied ==
    ASSUME VecStored, NEW n \in Nat
    PROVE  /\ IsArray(Vec!Copied(n), n)
           /\ \A s \in 1 .. n : s \in 1 .. first => s \in DOMAIN store /\ Vec!Copied(n)[s] = store[s]
           /\ \A s \in 1 .. n : s \notin 1 .. first => Vec!Copied(n)[s] = 0
  BY VecFacts DEF Vec!Copied, IsArray

LEMMA VecReallocates ==
    ASSUME VecInv, NEW n \in Nat, NEW len \in Nat, Vec!ReallocateTo(n, len), arrived' = arrived,
           walk' = CursorDisturbed(walk)
    PROVE  /\ VecInv' /\ size' = (IF n < len THEN n ELSE len)
           /\ \A s \in 1 .. n : s \in 1 .. first => store'[s] = store[s]
<1>1. /\ arrived' \in {arrived, arrived + 1} /\ arrived' <= MaxWrites
      /\ store' = Vec!Copied(n) /\ first' = n /\ size' = (IF n < len THEN n ELSE len)
  BY VecFacts DEF VecInv, Vec!ReallocateTo
<1>2. size' \in 0 .. n
  BY <1>1
<1>3. /\ IsArray(store', n)
      /\ \A s \in 1 .. n : s \in 1 .. first => s \in DOMAIN store /\ store'[s] = store[s]
      /\ \A s \in 1 .. n : s \notin 1 .. first => store'[s] = 0
  BY <1>1, VecCopied DEF VecInv
<1>4. VecInv'
  BY <1>1, <1>2, <1>3, VecCalled
<1> QED BY <1>1, <1>3, <1>4

LEMMA PolicyGrows ==
    ASSUME NEW n \in Nat
    PROVE  Vec!DefaultPolicy(n) \in Nat \ {0} /\ Vec!DefaultPolicy(n) >= n
           /\ (n # 0 => Vec!DefaultPolicy(n) > n)
  BY DEF Vec!DefaultPolicy, Vec!Greater

(* The capacities that a policy gives one after the other, up to the t-th, *)
(* until there is room for target.                                         *)
Longer(c, target) == IF c >= target THEN c ELSE Vec!DefaultPolicy(c)

Growth(f, c, target, t) ==
    f = [n \in 0 .. t |-> IF n = 0 THEN c ELSE Longer(f[n - 1], target)]

LEMMA GrowthExists ==
    ASSUME NEW c, NEW target, NEW t \in Nat
    PROVE  \E f : Growth(f, c, target, t)
<1> DEFINE Missing == {n \in Nat : ~\E f : Growth(f, c, target, n)}
<1> SUFFICES ASSUME Missing # {} PROVE FALSE
  OBVIOUS
<1>1. PICK k \in Missing : \A j \in Missing : k <= j
  BY LeastMember
<1>2. k \in Nat /\ ~\E f : Growth(f, c, target, k)
  BY <1>1
<1>3. CASE k = 0
  <2> DEFINE f == [n \in 0 .. 0 |-> c]
  <2>1. f = [n \in 0 .. 0 |-> IF n = 0 THEN c ELSE Longer(f[n - 1], target)]
    OBVIOUS
  <2> QED BY <1>2, <1>3, <2>1 DEF Growth
<1>4. CASE k # 0
  <2> DEFINE j == k - 1
  <2>1. j \in Nat /\ k = j + 1 /\ ~(k <= j)
    BY <1>2, <1>4
  <2> HIDE DEF j
  <2>2. j \notin Missing
    BY <1>1, <2>1
  <2>3. PICK f : Growth(f, c, target, j)
    BY <2>1, <2>2
  <2> DEFINE g == [n \in 0 .. k |-> IF n = k THEN Longer(f[j], target) ELSE f[n]]
  <2>4. \A n \in 0 .. j : f[n] = IF n = 0 THEN c ELSE Longer(f[n - 1], target)
    BY <2>3 DEF Growth
  <2>5. ASSUME NEW n \in 0 .. k
        PROVE  g[n] = IF n = 0 THEN c ELSE Longer(g[n - 1], target)
    <3>1. CASE n = k
      <4>1. n # 0 /\ n - 1 = j /\ j \in 0 .. k /\ j # k
        BY <2>1, <3>1
      <4>2. g[n] = Longer(f[j], target) /\ g[n - 1] = f[j]
        BY <3>1, <4>1
      <4> QED BY <4>1, <4>2
    <3>2. CASE n # k /\ n # 0
      <4>1. n \in 0 .. j /\ n - 1 \in 0 .. k /\ n - 1 # k
        BY <2>1, <3>2
      <4>2. g[n] = f[n] /\ g[n - 1] = f[n - 1]
        BY <3>2, <4>1
      <4> QED BY <2>4, <3>2, <4>1, <4>2
    <3>3. CASE n = 0
      <4>1. 0 \in 0 .. j /\ 0 # k /\ 0 \in 0 .. k
        BY <2>1
      <4>2. f[0] = c
        BY <2>4, <4>1
      <4> QED BY <3>3, <4>1, <4>2
    <3> QED BY <3>1, <3>2, <3>3
  <2>6. g = [n \in 0 .. k |-> g[n]]
    OBVIOUS
  <2> HIDE DEF g
  <2>7. g = [n \in 0 .. k |-> IF n = 0 THEN c ELSE Longer(g[n - 1], target)]
    BY <2>5, <2>6
  <2> QED BY <1>2, <2>7 DEF Growth
<1> QED BY <1>3, <1>4

LEMMA GrowthBounds ==
    ASSUME NEW c \in Nat, NEW target \in Nat, NEW t \in Nat, NEW f, Growth(f, c, target, t)
    PROVE  f[t] \in Nat /\ f[t] >= c
<1> DEFINE Wrong == {n \in 0 .. t : ~(f[n] \in Nat /\ f[n] >= c)}
<1> SUFFICES ASSUME Wrong # {} PROVE FALSE
  OBVIOUS
<1>0. Wrong \in SUBSET Nat
  OBVIOUS
<1>1. PICK k \in Wrong : \A j \in Wrong : k <= j
  BY <1>0, LeastMember
<1>2. k \in 0 .. t /\ ~(f[k] \in Nat /\ f[k] >= c)
  BY <1>1
<1>3. f[k] = IF k = 0 THEN c ELSE Longer(f[k - 1], target)
  BY <1>2 DEF Growth
<1>4. k # 0
  BY <1>2, <1>3
<1>5. k - 1 \in 0 .. t /\ ~(k <= k - 1)
  BY <1>2, <1>4
<1>6. k - 1 \notin Wrong
  BY <1>1, <1>5
<1>7. f[k - 1] \in Nat /\ f[k - 1] >= c
  BY <1>5, <1>6
<1> DEFINE x == f[k - 1]
<1>8. x \in Nat /\ x >= c /\ f[k] = Longer(x, target)
  BY <1>3, <1>4, <1>7
<1> HIDE DEF x
<1>9. Vec!DefaultPolicy(x) \in Nat /\ Vec!DefaultPolicy(x) >= x
  BY <1>8, PolicyGrows
<1>10. Longer(x, target) \in Nat /\ Longer(x, target) >= c
  BY <1>8, <1>9 DEF Longer
<1> QED BY <1>2, <1>8, <1>10

LEMMA VecGrownTo ==
    ASSUME first \in Nat, NEW target \in Nat
    PROVE  Vec!GrownTo(target) \in Nat /\ Vec!GrownTo(target) >= first
<1> DEFINE after == CHOOSE f : Growth(f, first, target, target)
<1>1. Growth(after, first, target, target)
  BY GrowthExists
<1>2. Vec!GrownTo(target) = after[target]
  BY DEF Vec!GrownTo, Growth, Longer
<1> HIDE DEF after
<1> QED BY <1>1, <1>2, GrowthBounds

LEMMA VecSet ==
    ASSUME VecInv, NEW index \in Nat, Vec!Set(index)
    PROVE  VecInv'
<1>1. /\ arrived \in Nat /\ MaxWrites \in Nat /\ arrived < MaxWrites /\ arrived' = arrived + 1
      /\ size \in Nat /\ first \in Nat /\ size <= first /\ size' = size /\ first' = first
      /\ DOMAIN store = 1 .. first
  BY VecFacts DEF VecInv, Vec!Set, Vec!Arrives
<1>2. /\ walk' = CursorDisturbed(walk)
      /\ store' = IF index <= size /\ index < first THEN [store EXCEPT ![index + 1] = arrived'] ELSE store
  BY <1>1 DEF Vec!Set, Vec!Called, Vec!Disturbed, CursorDisturbed
<1>3. IsArray(store', first)
  <2>1. IsArray(store, first)
    BY VecFacts DEF VecInv
  <2> QED BY <1>1, <1>2, <2>1 DEF IsArray
<1>4. \A s \in 1 .. first :
          \/ s = index + 1 /\ store'[s] = arrived' /\ arrived' = arrived + 1
          \/ s \in DOMAIN store /\ store'[s] = store[s]
          \/ store'[s] = 0
  BY <1>1, <1>2
<1>5. size' \in 0 .. first /\ arrived' \in {arrived, arrived + 1} /\ arrived' <= MaxWrites
  BY <1>1
<1> QED BY <1>1, <1>2, <1>3, <1>4, <1>5, VecCalled

LEMMA VecGrows ==
    ASSUME VecInv, \/ Vec!Grow
                   \/ \E n \in 0 .. Capacity : Vec!GrowTo(n)
    PROVE  /\ VecInv' /\ size' = size
           /\ \A s \in 1 .. size : store'[s] = store[s]
           /\ \/ call' = [op |-> "grow", answer |-> None]
              \/ call' = [op |-> "refused", answer |-> FullError]
<1>1. /\ size \in Nat /\ first \in Nat /\ size <= first /\ arrived <= MaxWrites
  BY VecFacts DEF VecInv
<1>2. ASSUME NEW n \in Nat, n >= first, Vec!ReallocateTo(n, size), Vec!Called("grow", None), UNCHANGED arrived
      PROVE  /\ VecInv' /\ size' = size
             /\ \A s \in 1 .. size : store'[s] = store[s]
             /\ call' = [op |-> "grow", answer |-> None]
  <2>1. walk' = CursorDisturbed(walk) /\ call' = [op |-> "grow", answer |-> None]
    BY <1>2 DEF Vec!Called, Vec!Disturbed, CursorDisturbed
  <2>2. VecInv' /\ size' = (IF n < size THEN n ELSE size)
        /\ \A s \in 1 .. n : s \in 1 .. first => store'[s] = store[s]
    BY <1>1, <1>2, <2>1, VecReallocates
  <2>3. ~(n < size) /\ \A s \in 1 .. size : s \in 1 .. n /\ s \in 1 .. first
    BY <1>1, <1>2
  <2> QED BY <2>1, <2>2, <2>3
<1>3. CASE Vec!Refused
  <2>1. /\ UNCHANGED <<store, first, size, arrived>> /\ walk' = CursorDisturbed(walk)
        /\ call' = [op |-> "refused", answer |-> FullError]
    BY <1>3 DEF Vec!Refused, Vec!Called, Vec!Disturbed, CursorDisturbed
  <2>2. size' \in 0 .. first /\ arrived' \in {arrived, arrived + 1} /\ arrived' <= MaxWrites
    BY <1>1, <2>1
  <2>3. VecInv'
    BY <2>1, <2>2, VecStays
  <2> QED BY <2>1, <2>3
<1>4. CASE /\ Vec!ReallocateTo(Vec!DefaultPolicy(first), size) /\ Vec!Called("grow", None) /\ UNCHANGED arrived
  <2>1. Vec!DefaultPolicy(first) \in Nat /\ Vec!DefaultPolicy(first) >= first
    BY <1>1, PolicyGrows
  <2> QED BY <1>2, <1>4, <2>1
<1>5. ASSUME NEW n \in 0 .. Capacity, Vec!GrowTo(n)
      PROVE  VecInv' /\ size' = size /\ (\A s \in 1 .. size : store'[s] = store[s])
             /\ call' = [op |-> "grow", answer |-> None]
  <2>1. n \in Nat
    OBVIOUS
  <2>2. Vec!GrownTo(n) \in Nat /\ Vec!GrownTo(n) >= first
    BY <1>1, <2>1, VecGrownTo
  <2>3. Vec!ReallocateTo(Vec!GrownTo(n), size) /\ Vec!Called("grow", None) /\ UNCHANGED arrived
    BY <1>5 DEF Vec!GrowTo
  <2> HIDE DEF Vec!GrownTo
  <2> QED BY <1>2, <2>2, <2>3
<1> QED BY <1>3, <1>4, <1>5 DEF Vec!Grow

LEMMA VecResize ==
    ASSUME VecInv, NEW len \in Nat, Vec!Resize(len)
    PROVE  /\ VecInv' /\ size' = len
           /\ \A s \in 1 .. len : s \in 1 .. size => store'[s] = store[s]
           /\ call' = [op |-> "resize", answer |-> None]
<1>1. /\ size \in Nat /\ first \in Nat /\ size <= first /\ arrived <= MaxWrites
  BY VecFacts DEF VecInv
<1>2. arrived' = arrived /\ walk' = CursorDisturbed(walk) /\ call' = [op |-> "resize", answer |-> None]
  BY DEF Vec!Resize, Vec!Called, Vec!Disturbed, CursorDisturbed
<1>3. CASE len < size /\ size' = len /\ UNCHANGED <<store, first>>
  <2>1. size' \in 0 .. first /\ arrived' \in {arrived, arrived + 1} /\ arrived' <= MaxWrites
    BY <1>1, <1>2, <1>3
  <2>2. VecInv'
    BY <1>2, <1>3, <2>1, VecStays
  <2> QED BY <1>2, <1>3, <2>2
<1>4. CASE ~(len < size) /\ Vec!ReallocateTo(len, len)
  <2>1. /\ VecInv' /\ size' = len
        /\ \A s \in 1 .. len : s \in 1 .. first => store'[s] = store[s]
    BY <1>2, <1>4, VecReallocates
  <2>2. \A s \in 1 .. size : s \in 1 .. first
    BY <1>1
  <2> QED BY <1>2, <2>1, <2>2
<1> QED BY <1>3, <1>4 DEF Vec!Resize

LEMMA VecReallocate ==
    ASSUME VecInv, NEW n \in Nat, Vec!Reallocate(n)
    PROVE  /\ VecInv' /\ size' = (IF n < size THEN n ELSE size)
           /\ \A s \in 1 .. size' : store'[s] = store[s]
           /\ call' = [op |-> "reallocate", answer |-> None]
<1>1. /\ size \in Nat /\ first \in Nat /\ size <= first
  BY VecFacts DEF VecInv
<1>2. /\ arrived' = arrived /\ walk' = CursorDisturbed(walk) /\ call' = [op |-> "reallocate", answer |-> None]
      /\ Vec!ReallocateTo(n, size)
  BY DEF Vec!Reallocate, Vec!Called, Vec!Disturbed, CursorDisturbed
<1>3. /\ VecInv' /\ size' = (IF n < size THEN n ELSE size)
      /\ \A s \in 1 .. n : s \in 1 .. first => store'[s] = store[s]
  BY <1>1, <1>2, VecReallocates
<1>4. \A s \in 1 .. size' : s \in 1 .. n /\ s \in 1 .. first
  BY <1>1, <1>3
<1> QED BY <1>2, <1>3, <1>4

LEMMA VecPush ==
    ASSUME VecInv, Vec!Push
    PROVE  \/ /\ VecInv' /\ size' = size /\ store' = store
              /\ call' = [op |-> "refused", answer |-> FullError]
           \/ /\ VecInv' /\ size' = size + 1 /\ size < Capacity /\ arrived + 1 \in Item
              /\ store'[size + 1] = arrived + 1
              /\ \A s \in 1 .. size : store'[s] = store[s]
              /\ call' = [op |-> "push", answer |-> size + 1]
<1>1. /\ size \in Nat /\ first \in Nat /\ size <= first /\ arrived <= MaxWrites /\ arrived \in Nat
      /\ MaxWrites \in Nat /\ MaxItems \in Nat /\ MaxWrites <= MaxItems /\ Capacity \in Nat
      /\ DOMAIN store = 1 .. first /\ VecStored
  BY VecFacts DEF VecInv
<1>2. CASE Vec!Refused
  <2>1. /\ UNCHANGED <<store, first, size, arrived>> /\ walk' = CursorDisturbed(walk)
        /\ call' = [op |-> "refused", answer |-> FullError]
    BY <1>2 DEF Vec!Refused, Vec!Called, Vec!Disturbed, CursorDisturbed
  <2>2. size' \in 0 .. first /\ arrived' \in {arrived, arrived + 1} /\ arrived' <= MaxWrites
    BY <1>1, <2>1
  <2>3. VecInv'
    BY <2>1, <2>2, VecStays
  <2> QED BY <2>1, <2>3
<1>3. CASE ~Vec!Refused
  <2> DEFINE room == IF first = size THEN Vec!DefaultPolicy(first) ELSE first
             copied == Vec!Copied(room)
  <2>1. /\ arrived < MaxWrites /\ arrived' = arrived + 1 /\ size' = size + 1 /\ first' = room /\ room <= Capacity
        /\ store' = [copied EXCEPT ![size + 1] = arrived + 1]
        /\ call' = [op |-> "push", answer |-> size + 1] /\ walk' = CursorDisturbed(walk)
    BY <1>3 DEF Vec!Push, Vec!Arrives, Vec!Called, Vec!Disturbed, CursorDisturbed
  <2>2. room \in Nat /\ room >= size + 1
    <3>1. Vec!DefaultPolicy(first) \in Nat /\ Vec!DefaultPolicy(first) >= first /\ Vec!DefaultPolicy(first) # 0
          /\ (first # 0 => Vec!DefaultPolicy(first) > first)
      BY <1>1, PolicyGrows
    <3> QED BY <1>1, <3>1
  <2> HIDE DEF room
  <2>3. /\ IsArray(copied, room)
        /\ \A s \in 1 .. room : s \in 1 .. first => s \in DOMAIN store /\ copied[s] = store[s]
        /\ \A s \in 1 .. room : s \notin 1 .. first => copied[s] = 0
    BY <1>1, <2>2, VecCopied
  <2> HIDE DEF copied
  <2>4. size + 1 \in 1 .. room /\ DOMAIN copied = 1 .. room
    BY <1>1, <2>2, <2>3 DEF IsArray
  <2>5. /\ IsArray(store', room) /\ store'[size + 1] = arrived'
        /\ \A s \in 1 .. room : s # size + 1 => store'[s] = copied[s]
    BY <2>1, <2>4 DEF IsArray
  <2>6. \A s \in 1 .. room :
            \/ s = size + 1 /\ store'[s] = arrived' /\ arrived' = arrived + 1
            \/ s \in DOMAIN store /\ store'[s] = store[s]
            \/ store'[s] = 0
    BY <2>1, <2>3, <2>5
  <2>7. size' \in 0 .. room /\ arrived' \in {arrived, arrived + 1} /\ arrived' <= MaxWrites
    BY <1>1, <2>1, <2>2
  <2>8. VecInv'
    BY <2>1, <2>2, <2>5, <2>6, <2>7, VecCalled
  <2>9. \A s \in 1 .. size : s \in 1 .. room /\ s \in 1 .. first /\ s # size + 1
    BY <1>1, <2>2
  <2>10. size < Capacity /\ arrived + 1 \in Item
    BY <1>1, <2>1, <2>2 DEF Item
  <2> QED BY <2>1, <2>3, <2>5, <2>8, <2>9, <2>10
<1> QED BY <1>2, <1>3

LEMMA VecPop ==
    ASSUME VecInv, Vec!Pop
    PROVE  /\ VecInv' /\ store' = store /\ size' = (IF size = 0 THEN 0 ELSE size - 1)
           /\ call' = [op |-> "pop", answer |-> IF size = 0 THEN None ELSE store[size]]
<1>1. /\ size \in Nat /\ first \in Nat /\ size <= first /\ arrived <= MaxWrites
  BY VecFacts DEF VecInv
<1>2. /\ UNCHANGED <<store, first, arrived>> /\ walk' = CursorDisturbed(walk)
      /\ size' = (IF size = 0 THEN 0 ELSE size - 1)
      /\ call' = [op |-> "pop", answer |-> IF size = 0 THEN None ELSE store[size]]
  BY DEF Vec!Pop, Vec!Called, Vec!Disturbed, CursorDisturbed
<1>3. size' \in 0 .. first /\ arrived' \in {arrived, arrived + 1} /\ arrived' <= MaxWrites
  BY <1>1, <1>2
<1>4. VecInv'
  BY <1>2, <1>3, VecStays
<1> QED BY <1>2, <1>4

VecOpened ==
    walk = [frozen |-> None, len |-> size, ordinal |-> 0, seen |-> <<>>, fresh |-> TRUE, ended |-> FALSE]

LEMMA VecOpens == VecStored /\ VecOpened => VecWalk
<1> SUFFICES ASSUME VecStored, VecOpened PROVE VecWalk
  OBVIOUS
<1>1. size \in Nat /\ arrived \in Nat /\ <<>> \in Seq(0 .. arrived) /\ Len(<<>>) = 0 /\ 1 .. 0 = {}
  BY VecFacts
<1>2. walk \in Cursor({None}, arrived)
  BY <1>1 DEF Cursor, VecOpened
<1>3. Once(store, 1 .. walk.ordinal, walk.seen, arrived)
  BY <1>1, OnceNothing DEF VecOpened
<1> QED BY <1>1, <1>2, <1>3 DEF VecWalk, VecOpened

LEMMA VecOpenWalk ==
    ASSUME VecInv, Vec!OpenWalk
    PROVE  VecInv' /\ UNCHANGED <<store, size, call>>
<1>1. /\ UNCHANGED <<store, size, first, arrived, call>>
      /\ walk' = [frozen |-> None, len |-> size, ordinal |-> 0, seen |-> <<>>, fresh |-> TRUE, ended |-> FALSE]
  BY DEF Vec!OpenWalk, Vec!OpenCursor
<1>2. VecStored'
  BY <1>1 DEF VecInv, VecStored
<1>3. VecOpened'
  BY <1>1 DEF VecOpened
<1>4. (VecStored /\ VecOpened => VecWalk)'
  BY VecOpens, PTL
<1> QED BY <1>1, <1>2, <1>3, <1>4 DEF VecInv

LEMMA VecStepWalk ==
    ASSUME VecInv, Vec!StepWalk
    PROVE  VecInv' /\ UNCHANGED <<store, size, call>>
<1> DEFINE p == walk.ordinal + 1
           item == IF walk.ordinal < first THEN store[p] ELSE None
<1>1. /\ UNCHANGED <<store, size, first, arrived, call>> /\ ~walk.ended
      /\ walk' = Vec!StepCursor(walk, walk.len, item)
  BY DEF Vec!StepWalk
<1>2. VecStored'
  BY <1>1 DEF VecInv, VecStored
<1>3. /\ walk \in Cursor({None}, arrived) /\ walk.len \in Nat /\ walk.ordinal \in Nat
      /\ walk.ordinal <= walk.len /\ walk.seen \in Seq(0 .. arrived)
      /\ Once(store, 1 .. walk.ordinal, walk.seen, arrived)
  BY DEF VecInv, VecWalk, Cursor
<1>4. /\ size \in Nat /\ first \in Nat /\ size <= first /\ arrived \in Nat
      /\ DOMAIN store = 1 .. first /\ \A s \in 1 .. first : store[s] \in 0 .. arrived
  BY VecFacts DEF VecInv
<1>5. Numbered(store, arrived)
  BY DEF VecInv, VecStored
<1>6. walk.fresh => /\ walk.len = size /\ Len(walk.seen) = walk.ordinal
                    /\ \A i \in 1 .. walk.ordinal : walk.seen[i] = store[i]
  BY DEF VecInv, VecWalk
<1>7. CASE walk.ordinal >= walk.len
  <2>1. walk' = CursorEnded(walk)
    BY <1>1, <1>7 DEF Vec!StepCursor, CursorEnded
  <2>2. /\ walk' \in Cursor({None}, arrived)
        /\ walk'.frozen = walk.frozen /\ walk'.len = walk.len /\ walk'.ordinal = walk.ordinal
        /\ walk'.seen = walk.seen /\ walk'.fresh = walk.fresh /\ walk'.ended
    BY <1>3, <1>4, <2>1, EndedFields
  <2>3. VecWalk'
    BY <1>1, <1>3, <1>6, <1>7, <2>2 DEF VecWalk
  <2> QED BY <1>1, <1>2, <2>3 DEF VecInv
<1>8. CASE walk.ordinal < walk.len
  <2>1. walk' = CursorMoved(walk, item)
    BY <1>1, <1>3, <1>8 DEF Vec!StepCursor, CursorMoved
  <2>2. item \in 0 .. arrived \cup {None}
    BY <1>3, <1>4, SMTT(60)
  <2>3. item # None => p \in 1 .. first /\ item = store[p]
    BY <1>3, <1>4
  <2>4. walk.fresh => item # None
    BY <1>3, <1>4, <1>6, <1>8, NoneNoInt, SMTT(60)
  <2> HIDE DEF item
  <2>5. /\ walk' \in Cursor({None}, arrived)
        /\ walk'.frozen = walk.frozen /\ walk'.len = walk.len /\ walk'.ordinal = walk.ordinal + 1
        /\ walk'.seen = (IF item = None THEN walk.seen ELSE Append(walk.seen, item))
        /\ walk'.fresh = walk.fresh /\ walk'.ended = walk.ended
    BY <1>3, <1>4, <2>1, <2>2, MovedFields, SMTT(60)
  <2>6. /\ 1 .. walk.ordinal + 1 = 1 .. walk.ordinal \cup {p} /\ p \notin 1 .. walk.ordinal
    BY <1>3
  <2> HIDE DEF p
  <2>7. Once(store, 1 .. walk.ordinal + 1, walk'.seen, arrived)
    <3>1. CASE item = None
      BY <1>3, <1>4, <2>5, <2>6, <3>1, OncePasses
    <3>2. CASE item # None
      <4>1. p \in DOMAIN store /\ store[p] # None /\ item = store[p]
        BY <1>4, <2>3, <3>2
      <4>2. Once(store, 1 .. walk.ordinal \cup {p}, Append(walk.seen, store[p]), arrived)
        BY <1>3, <1>4, <1>5, <2>6, <4>1, OnceReports
      <4> QED BY <2>5, <2>6, <3>2, <4>1, <4>2
    <3> QED BY <3>1, <3>2
  <2>8. ASSUME walk.fresh
        PROVE  /\ Len(walk'.seen) = walk.ordinal + 1
               /\ \A i \in 1 .. walk.ordinal + 1 : walk'.seen[i] = store[i]
    <3>1. walk'.seen = Append(walk.seen, item) /\ item \in 0 .. arrived /\ walk.seen \in Seq(0 .. arrived)
      BY <1>3, <2>2, <2>4, <2>5, <2>8
    <3>2. Len(walk.seen) = walk.ordinal /\ \A i \in 1 .. walk.ordinal : walk.seen[i] = store[i]
      BY <1>6, <2>8
    <3>3. /\ Len(walk'.seen) = walk.ordinal + 1 /\ walk'.seen[walk.ordinal + 1] = item
          /\ \A i \in 1 .. walk.ordinal : walk'.seen[i] = walk.seen[i]
      BY <3>1, <3>2
    <3>4. item = store[walk.ordinal + 1]
      BY <2>3, <2>4, <2>8 DEF p
    <3>5. \A i \in 1 .. walk.ordinal + 1 : i \in 1 .. walk.ordinal \/ i = walk.ordinal + 1
      BY <1>3
    <3> QED BY <3>2, <3>3, <3>4, <3>5
  <2>9. walk'.ordinal <= walk'.len /\ ~walk'.ended
    BY <1>1, <1>3, <1>8, <2>5
  <2>10. VecWalk'
    BY <1>1, <1>6, <2>5, <2>7, <2>8, <2>9 DEF VecWalk
  <2> QED BY <1>1, <1>2, <2>10 DEF VecInv
<1> QED BY <1>3, <1>7, <1>8

LEMMA VecInit ==
    ASSUME Vec!Init
    PROVE  VecInv
<1>1. PICK n \in 0 .. 2, c \in 0 .. 2 :
        /\ size = n
        /\ first = IF c < n THEN n ELSE c
        /\ store = [i \in 1 .. first |-> 0]
        /\ arrived = 0
        /\ walk = [frozen |-> None, len |-> n, ordinal |-> 0, seen |-> <<>>, fresh |-> TRUE, ended |-> FALSE]
  BY DEF Vec!Init, Vec!OpenCursor
<1>2. size \in Nat /\ first \in Nat /\ size <= first /\ arrived \in 0 .. MaxWrites
  BY <1>1, SequencesAssumption
<1>3. store \in Seq(0 .. arrived) /\ Len(store) = first
  BY <1>1, <1>2
<1>4. Numbered(store, arrived)
  BY <1>1, <1>2 DEF Numbered
<1>5. VecStored
  BY <1>2, <1>3, <1>4 DEF VecStored
<1>6. VecWalk
  BY <1>1, <1>5, VecOpens DEF VecOpened
<1> QED BY <1>5, <1>6 DEF VecInv

LEMMA VecStep ==
    ASSUME VecInv, Vec!Next
    PROVE  VecInv'
<1>1. ASSUME NEW n \in 0 .. Capacity, Vec!Set(n) \/ Vec!Reallocate(n) \/ Vec!Resize(n)
      PROVE  VecInv'
  <2>1. n \in Nat
    OBVIOUS
  <2> QED BY <1>1, <2>1, VecSet, VecReallocate, VecResize
<1>2. CASE Vec!Grow \/ \E n \in 0 .. Capacity : Vec!GrowTo(n)
  BY <1>2, VecGrows
<1>3. CASE Vec!Push  BY <1>3, VecPush
<1>4. CASE Vec!Pop  BY <1>4, VecPop
<1>5. CASE Vec!OpenWalk  BY <1>5, VecOpenWalk
<1>6. CASE Vec!StepWalk  BY <1>6, VecStepWalk
<1> QED BY <1>1, <1>2, <1>3, <1>4, <1>5, <1>6 DEF Vec!Next

VecContents == SubSeq(store, 1, size)

VecListed ==
    /\ VecContents \in Seq(Item) /\ Len(VecContents) = size
    /\ \A n \in 1 .. size : VecContents[n] = store[n]

LEMMA VecItems == VecStored => VecListed
<1> SUFFICES ASSUME VecStored PROVE VecListed
  OBVIOUS
<1> DEFINE one == 1
<1>1. /\ size \in Nat /\ first \in Nat /\ size <= first /\ first = Len(store) /\ arrived \in Nat
      /\ arrived <= MaxWrites /\ MaxWrites <= MaxItems /\ MaxItems \in Nat /\ MaxWrites \in Nat
      /\ store \in Seq(0 .. arrived)
  BY VecFacts
<1>2. store \in Seq(Item)
  <2>1. 0 .. arrived \subseteq Item
    BY <1>1 DEF Item
  <2> QED BY <1>1, <2>1, SeqMonotonic
<1>3. one \in 1 .. Len(store) + 1 /\ size \in one - 1 .. Len(store) /\ (size - one) + 1 = size /\ one - 1 = 0
  BY <1>1
<1>4. VecContents = SubSeq(store, one, size)
  BY DEF VecContents
<1> HIDE DEF one
<1>5. /\ VecContents \in Seq(Item) /\ Len(VecContents) = (size - one) + 1
      /\ \A i \in 1 .. Len(VecContents) : VecContents[i] = store[i + (one - 1)]
  BY <1>2, <1>3, <1>4, SubSeqIs
<1>6. \A i \in 1 .. size : i + (one - 1) = i
  BY <1>3
<1> QED BY <1>3, <1>5, <1>6 DEF VecListed

LEMMA VecReads ==
    ASSUME VecInv
    PROVE  Vec!LayoutSound /\ Vec!ReadsAgree
<1>1. /\ size \in Nat /\ first \in Nat /\ size <= first /\ first = Len(store)
  BY VecFacts DEF VecInv
<1>2. VecListed /\ Vec!ToVec = VecContents
  BY VecItems DEF VecInv, Vec!ToVec, VecContents
<1>3. ASSUME NEW index \in 0 .. size - 1
      PROVE  Vec!Get(index) = Vec!ToVec[index + 1]
  <2>1. index <= size /\ index < first /\ index + 1 \in 1 .. size
    BY <1>1
  <2> QED BY <1>2, <2>1 DEF Vec!Get, VecListed
<1> QED BY <1>1, <1>3 DEF Vec!LayoutSound, Vec!ReadsAgree

(* The calls of an array that is a list.                                   *)
LEMMA ListSets ==
    ASSUME UNCHANGED kind,
           \/ \E n \in DOMAIN Contents, x \in Item :
                  Contents' = [Contents EXCEPT ![n] = x] /\ CallSeen' = [op |-> "set", answer |-> None]
           \/ /\ UNCHANGED Contents
              /\ \E answer \in {None, FullError} : CallSeen' = [op |-> "set", answer |-> answer]
    PROVE  List!Next
<1>1. List!Set
  BY DEF List!Set, List!Answers, CallSeen, Item
<1> QED BY <1>1 DEF List!Next

LEMMA ListResizes ==
    ASSUME UNCHANGED kind, CallSeen' = [op |-> "resize", answer |-> None],
           \/ \E n \in 0 .. Len(Contents) : Contents' = SubSeq(Contents, 1, n)
           \/ Len(Contents') > Len(Contents) /\ Contents = SubSeq(Contents', 1, Len(Contents))
    PROVE  List!Next
<1>1. List!Resize
  BY DEF List!Resize, List!Answers, CallSeen
<1> QED BY <1>1 DEF List!Next

LEMMA ListReallocates ==
    ASSUME UNCHANGED kind, CallSeen' = [op |-> "reallocate", answer |-> None],
           NEW n \in 0 .. Len(Contents), Contents' = SubSeq(Contents, 1, n)
    PROVE  List!Next
<1>1. List!Reallocate
  BY DEF List!Reallocate, List!Answers, CallSeen
<1> QED BY <1>1 DEF List!Next

LEMMA ListGrows ==
    ASSUME UNCHANGED kind, UNCHANGED Contents,
           \/ CallSeen' = [op |-> "grow", answer |-> None]
           \/ CallSeen' = [op |-> "refused", answer |-> FullError]
    PROVE  List!Next
<1>1. List!Grow
  BY DEF List!Grow, List!Answers, CallSeen
<1> QED BY <1>1 DEF List!Next

(* A list cut to n elements.                                               *)
LEMMA IsCut ==
    ASSUME NEW T, NEW s \in Seq(T), NEW t \in Seq(T), NEW n \in 0 .. Len(s),
           Len(t) = n, \A i \in 1 .. n : t[i] = s[i]
    PROVE  t = SubSeq(s, 1, n)
<1> DEFINE one == 1
<1>1. one \in 1 .. Len(s) + 1 /\ n \in one - 1 .. Len(s) /\ (n - one) + 1 = n /\ one - 1 = 0
  OBVIOUS
<1> HIDE DEF one
<1>2. Len(t) = (n - one) + 1 /\ \A i \in 1 .. Len(t) : t[i] = s[i + (one - 1)]
  BY <1>1
<1>3. t = SubSeq(s, one, n)
  BY <1>1, <1>2, IsSubSeq
<1> QED BY <1>3 DEF one

LEMMA VecListStep ==
    ASSUME VecInv, kind = "Vector", UNCHANGED kind, Vec!Next
    PROVE  List!Next \/ UNCHANGED listVars
<1> DEFINE C == VecContents
<1>1. /\ Contents = C /\ Contents' = C' /\ CallSeen' = call' /\ CallSeen = call
      /\ Room = MaxItems + MaxCapacity
  BY DEF Contents, InWalkOrder, VecContents, Vec!ToVec, CallSeen, Room
<1>2. VecInv'
  BY VecStep
<1>3. /\ C \in Seq(Item) /\ Len(C) = size /\ \A n \in 1 .. size : C[n] = store[n]
  BY VecItems DEF VecInv, VecListed
<1>4. /\ C' \in Seq(Item) /\ Len(C') = size' /\ \A n \in 1 .. size' : C'[n] = store'[n]
  <2>1. (VecStored => VecListed)'
    BY VecItems, PTL
  <2> QED BY <1>2, <2>1 DEF VecInv, VecListed
<1>5. /\ size \in Nat /\ first \in Nat /\ size <= first /\ arrived \in Nat /\ MaxItems \in Nat
      /\ MaxWrites \in Nat /\ arrived <= MaxWrites /\ MaxWrites <= MaxItems
  BY VecFacts DEF VecInv
<1>6. size' \in Nat /\ MaxCapacity \in Nat \ {0} /\ Capacity \in Nat /\ Capacity <= MaxItems
  BY <1>2, SequencesAssumption DEF VecInv, VecStored
<1>11. ASSUME size' = size, \A s \in 1 .. size : store'[s] = store[s]
       PROVE  C' = C
  BY <1>3, <1>4, <1>11, SeqEqual DEF C
<1> HIDE DEF C
<1>7. ASSUME NEW index \in 0 .. Capacity, Vec!Set(index)
      PROVE  List!Next
  <2>1. /\ size' = size /\ arrived' = arrived + 1 /\ arrived < MaxWrites
        /\ store' = IF index <= size /\ index < first THEN [store EXCEPT ![index + 1] = arrived + 1] ELSE store
        /\ call' = [op |-> "set", answer |-> IF size < index THEN FullError ELSE None]
    BY <1>7 DEF Vec!Set, Vec!Arrives, Vec!Called
  <2>2. CASE index < size
    <3> DEFINE n == index + 1
               x == arrived + 1
    <3>1. n \in DOMAIN C /\ x \in Item /\ n \in 1 .. size /\ ~(size < index) /\ index <= size /\ index < first
      BY <1>3, <1>5, <2>1, <2>2 DEF Item
    <3>2. store' = [store EXCEPT ![n] = x] /\ n \in DOMAIN store
      <4>1. DOMAIN store = 1 .. first /\ n \in 1 .. first
        BY <1>5, <3>1, VecFacts DEF VecInv
      <4> QED BY <2>1, <3>1, <4>1
    <3> HIDE DEF n, x
    <3> DEFINE D == [C EXCEPT ![n] = x]
    <3>3. D \in Seq(Item) /\ Len(D) = size /\ \A s \in 1 .. size : D[s] = IF s = n THEN x ELSE C[s]
      BY <1>3, <1>5, <3>1
    <3>4. \A s \in 1 .. size : C'[s] = IF s = n THEN x ELSE C[s]
      <4>1. \A s \in 1 .. size : s \in DOMAIN store
        BY <1>5, VecFacts DEF VecInv
      <4> QED BY <1>3, <1>4, <2>1, <3>2, <4>1
    <3> HIDE DEF D
    <3>5. C' = D
      BY <1>4, <2>1, <3>3, <3>4, SeqEqual
    <3> QED BY <1>1, <2>1, <3>1, <3>5, ListSets DEF D
  <2>3. CASE ~(index < size)
    <3>1. \A s \in 1 .. size : store'[s] = store[s]
      BY <1>5, <2>1, <2>3
    <3>2. C' = C
      BY <1>11, <2>1, <3>1
    <3> QED BY <1>1, <2>1, <3>2, ListSets
  <2> QED BY <2>2, <2>3
<1>8. ASSUME NEW n \in 0 .. Capacity, Vec!Reallocate(n)
      PROVE  List!Next
  <2>0. n \in Nat
    OBVIOUS
  <2>1. /\ size' = (IF n < size THEN n ELSE size)
        /\ \A s \in 1 .. size' : store'[s] = store[s]
        /\ call' = [op |-> "reallocate", answer |-> None]
    BY <1>8, <2>0, VecReallocate
  <2>2. size' \in 0 .. Len(C) /\ \A s \in 1 .. size' : s \in 1 .. size
    BY <1>3, <1>5, <2>0, <2>1
  <2>3. C' = SubSeq(C, 1, size')
    BY <1>3, <1>4, <2>1, <2>2, IsCut, SMTT(60)
  <2> QED BY <1>1, <2>1, <2>2, <2>3, ListReallocates
<1>9. ASSUME NEW n \in 0 .. Capacity, Vec!Resize(n)
      PROVE  List!Next
  <2>0. n \in Nat
    OBVIOUS
  <2>1. /\ size' = n /\ \A s \in 1 .. n : s \in 1 .. size => store'[s] = store[s]
        /\ call' = [op |-> "resize", answer |-> None]
    BY <1>9, <2>0, VecResize
  <2>2. CASE n <= size
    <3>1. n \in 0 .. Len(C) /\ \A s \in 1 .. n : s \in 1 .. size
      BY <1>3, <1>5, <2>0, <2>2
    <3>2. C' = SubSeq(C, 1, n)
      BY <1>3, <1>4, <2>1, <3>1, IsCut
    <3> QED BY <1>1, <2>1, <3>1, <3>2, ListResizes
  <2>3. CASE ~(n <= size)
    <3>1. size \in 0 .. Len(C') /\ Len(C') > Len(C) /\ \A s \in 1 .. size : s \in 1 .. n /\ s \in 1 .. size'
      BY <1>3, <1>4, <1>5, <2>0, <2>1, <2>3
    <3>2. C = SubSeq(C', 1, size)
      BY <1>3, <1>4, <2>1, <3>1, IsCut
    <3> QED BY <1>1, <1>3, <2>1, <3>1, <3>2, ListResizes
  <2> QED BY <2>2, <2>3
<1>10. CASE Vec!Grow \/ \E n \in 0 .. Capacity : Vec!GrowTo(n)
  <2>1. /\ size' = size /\ \A s \in 1 .. size : store'[s] = store[s]
        /\ \/ call' = [op |-> "grow", answer |-> None]
           \/ call' = [op |-> "refused", answer |-> FullError]
    BY <1>10, VecGrows
  <2>2. C' = C
    BY <1>11, <2>1
  <2> QED BY <1>1, <2>1, <2>2, ListGrows
<1>12. CASE Vec!Push
  <2>1. CASE /\ size' = size /\ store' = store /\ call' = [op |-> "refused", answer |-> FullError]
    <3>1. C' = C
      BY <1>11, <2>1
    <3> QED BY <1>1, <2>1, <3>1, ListGrows
  <2>2. CASE /\ size' = size + 1 /\ size < Capacity /\ arrived + 1 \in Item
             /\ store'[size + 1] = arrived + 1
             /\ \A s \in 1 .. size : store'[s] = store[s]
             /\ call' = [op |-> "push", answer |-> size + 1]
    <3> DEFINE x == arrived + 1
    <3>1. x \in Item /\ store'[size + 1] = x
      BY <2>2
    <3> HIDE DEF x
    <3>2. Len(C') = Len(C) + 1 /\ Len(C) # Room
      BY <1>1, <1>3, <1>4, <1>5, <1>6, <2>2
    <3>3. C'[Len(C) + 1] = x /\ \A n \in 1 .. Len(C) : C'[n] = C[n]
      <4>1. size + 1 \in 1 .. size' /\ \A s \in 1 .. size : s \in 1 .. size'
        BY <1>5, <2>2
      <4> QED BY <1>3, <1>4, <2>2, <3>1, <4>1
    <3>4. C' = Append(C, x)
      BY <1>3, <1>4, <3>1, <3>2, <3>3, IsAppend
    <3> QED BY <1>1, <1>3, <2>2, <3>1, <3>2, <3>4, ListPushes
  <2> QED BY <1>12, <2>1, <2>2, VecPush
<1>13. CASE Vec!Pop
  <2>1. /\ store' = store /\ size' = (IF size = 0 THEN 0 ELSE size - 1)
        /\ call' = [op |-> "pop", answer |-> IF size = 0 THEN None ELSE store[size]]
    BY <1>13, VecPop
  <2>2. CASE size = 0
    <3>1. C' = C /\ C = <<>>
      BY <1>3, <1>11, <2>1, <2>2, EmptyContents
    <3> QED BY <1>1, <2>1, <2>2, <3>1, ListPops
  <2>3. CASE size # 0
    <3>1. /\ size - 1 \in 0 .. Len(C) /\ size' = size - 1 /\ size \in 1 .. size
          /\ \A s \in 1 .. size - 1 : s \in 1 .. size
      BY <1>3, <1>5, <2>1, <2>3
    <3>2. C' = SubSeq(C, 1, size - 1)
      BY <1>3, <1>4, <2>1, <3>1, IsCut, ZenonT(60)
    <3>3. C # <<>> /\ call' = [op |-> "pop", answer |-> C[Len(C)]]
      BY <1>3, <2>1, <2>3, <3>1, EmptyContents
    <3> QED BY <1>1, <1>3, <3>2, <3>3, ListPops
  <2> QED BY <2>2, <2>3
<1>14. CASE Vec!OpenWalk \/ Vec!StepWalk
  <2>1. UNCHANGED <<store, size, call>>
    BY <1>14, VecOpenWalk, VecStepWalk
  <2>2. C' = C
    BY <1>11, <2>1
  <2> QED BY <1>1, <2>1, <2>2, ListStutters
<1> QED BY <1>7, <1>8, <1>9, <1>10, <1>12, <1>13, <1>14 DEF Vec!Next

LEMMA VecWalks ==
    ASSUME VecInv, kind = "Vector"
    PROVE  FreshWalksComplete /\ WalksReportOnce
<1> DEFINE all == VecContents
           d == 0
<1>1. InWalkOrder = all
  BY DEF InWalkOrder, VecContents, Vec!ToVec
<1>2. /\ all \in Seq(Item) /\ Len(all) = size /\ \A n \in 1 .. size : all[n] = store[n]
  BY VecItems DEF VecInv, VecListed
<1>3. /\ size \in Nat /\ arrived \in Nat /\ arrived <= MaxWrites /\ MaxWrites <= MaxItems
      /\ MaxWrites \in Nat /\ MaxItems \in Nat
  BY VecFacts DEF VecInv
<1>4. /\ walk.seen \in Seq(0 .. arrived) /\ walk.ordinal \in Nat /\ walk.len \in Nat
      /\ walk.ordinal <= walk.len /\ (walk.ended => walk.ordinal = walk.len)
      /\ Once(store, 1 .. walk.ordinal, walk.seen, arrived)
      /\ walk.fresh => /\ walk.len = size /\ Len(walk.seen) = walk.ordinal
                       /\ \A i \in 1 .. walk.ordinal : walk.seen[i] = store[i]
  BY DEF VecInv, VecWalk, Cursor
<1>5. walk.seen \in Seq(Item)
  <2>1. 0 .. arrived \subseteq Item
    BY <1>3 DEF Item
  <2> QED BY <1>4, <2>1, SeqMonotonic
<1> HIDE DEF all
<1>6. ASSUME walk.fresh
      PROVE  IF walk.ended THEN walk.seen = SubSeq(all, d + 1, Len(all))
             ELSE IsPrefix(walk.seen, SubSeq(all, d + 1, Len(all)))
  <2>1. d \in 0 .. Len(all) /\ \A i \in 1 .. Len(walk.seen) : i + d = i
    BY <1>2, <1>3
  <2> HIDE DEF d
  <2>2. /\ walk.len = size /\ Len(walk.seen) = walk.ordinal
        /\ \A i \in 1 .. walk.ordinal : walk.seen[i] = store[i]
    BY <1>4, <1>6
  <2>3. \A i \in 1 .. Len(walk.seen) : walk.seen[i] = all[i + d]
    <3>1. \A i \in 1 .. walk.ordinal : i \in 1 .. size
      BY <1>3, <1>4, <2>2
    <3> QED BY <1>2, <2>1, <2>2, <3>1
  <2>4. /\ Len(walk.seen) <= Len(all) - d
        /\ walk.ended => Len(walk.seen) = Len(all) - d
    <3>1. walk.ordinal \in Nat /\ walk.ordinal <= size /\ Len(all) = size
      BY <1>2, <1>4, <2>2
    <3>2. walk.ended => walk.ordinal = size
      BY <1>4, <2>2
    <3>3. Len(walk.seen) = walk.ordinal
      BY <2>2
    <3> QED BY <1>3, <3>1, <3>2, <3>3 DEF d
  <2> QED BY <1>2, <1>5, <2>1, <2>3, <2>4, FreshFrom
<1>7. FreshWalksComplete
  BY <1>1, <1>6 DEF FreshWalksComplete
<1>8. WalksReportOnce
  BY <1>4 DEF WalksReportOnce, Once
<1> QED BY <1>7, <1>8

-----------------------------------------------------------------------------
(* HashedArrayTree.                                                        *)

Offsets == 0 .. BlockSize - 1

BlockArrays(n) == Seq([Offsets -> 0 .. n])

Written(a, b, o, x) == [a EXCEPT ![b][o] = x]

Elem(i) == store[Tree!BlockOf(i)][Tree!Offset(i)]

TreeInv ==
    /\ arrived \in 0 .. MaxWrites
    /\ store \in BlockArrays(arrived)
    /\ first = Len(store) * BlockSize /\ size \in Nat /\ size <= first
    /\ walk = Vec!OpenCursor(None, 0)

LEMMA TimesFacts ==
    ASSUME NEW a \in Nat, NEW b \in Nat, NEW c \in Nat
    PROVE  /\ a * c \in Nat
           /\ a <= b => a * c <= b * c
           /\ (a + b) * c = (a * c) + (b * c)
  OBVIOUS

(* A position is in a block and at an offset of its own.                   *)
LEMMA Position ==
    ASSUME NEW i \in Nat
    PROVE  /\ Tree!BlockOf(i) \in Nat \ {0} /\ Tree!Offset(i) \in Offsets
           /\ \A n \in Nat : Tree!BlockOf(i) <= n <=> i < n * BlockSize
<1> DEFINE q == i \div BlockSize
           r == i % BlockSize
<1>0. BlockSize \in Nat \ {0}
  BY SequencesAssumption
<1>1. q \in Nat /\ r \in 0 .. BlockSize - 1 /\ i = (q * BlockSize) + r
  BY <1>0, DivMod
<1>2. Tree!BlockOf(i) = q + 1 /\ Tree!Offset(i) = r
  BY DEF Tree!BlockOf, Tree!Offset
<1> HIDE DEF q, r
<1>3. ASSUME NEW n \in Nat
      PROVE  q + 1 <= n <=> i < n * BlockSize
  <2>1. CASE q + 1 <= n
    <3>1. q + 1 \in Nat
      BY <1>1
    <3>2. (q + 1) * BlockSize <= n * BlockSize
      BY <1>0, <2>1, <3>1, TimesFacts
    <3>3. (q + 1) * BlockSize = (q * BlockSize) + BlockSize
      BY <1>0, <1>1
    <3>4. q * BlockSize \in Nat /\ n * BlockSize \in Nat
      BY <1>0, <1>1, TimesFacts
    <3> QED BY <1>0, <1>1, <2>1, <3>2, <3>3, <3>4
  <2>2. CASE ~(q + 1 <= n)
    <3>1. n <= q
      BY <1>1, <2>2
    <3>2. n * BlockSize <= q * BlockSize
      BY <1>0, <1>1, <3>1, TimesFacts
    <3>4. q * BlockSize \in Nat /\ n * BlockSize \in Nat
      BY <1>0, <1>1, TimesFacts
    <3> QED BY <1>0, <1>1, <2>2, <3>2, <3>4
  <2> QED BY <2>1, <2>2
<1> QED BY <1>1, <1>2, <1>3 DEF Offsets

LEMMA PositionsApart ==
    ASSUME NEW i \in Nat, NEW j \in Nat, i # j
    PROVE  Tree!BlockOf(i) # Tree!BlockOf(j) \/ Tree!Offset(i) # Tree!Offset(j)
<1>0. BlockSize \in Nat \ {0}
  BY SequencesAssumption
<1>1. /\ i = ((i \div BlockSize) * BlockSize) + (i % BlockSize)
      /\ j = ((j \div BlockSize) * BlockSize) + (j % BlockSize)
      /\ (i \div BlockSize) \in Nat /\ (j \div BlockSize) \in Nat
  BY <1>0, DivMod
<1>2. ASSUME (i \div BlockSize) + 1 = (j \div BlockSize) + 1
      PROVE  i \div BlockSize = j \div BlockSize
  BY <1>1, <1>2
<1> QED BY <1>1, <1>2 DEF Tree!BlockOf, Tree!Offset

LEMMA TreeFacts ==
    ASSUME TreeInv
    PROVE  /\ arrived \in Nat /\ arrived <= MaxWrites /\ MaxWrites \in Nat /\ MaxWrites <= MaxItems /\ MaxItems \in Nat
           /\ BlockSize \in Nat \ {0} /\ MaxCapacity \in Nat \ {0}
           /\ size \in Nat /\ first \in Nat /\ size <= first /\ first = Len(store) * BlockSize /\ Len(store) \in Nat
           /\ DOMAIN store = 1 .. Len(store)
           /\ \A b \in 1 .. Len(store) : store[b] \in [Offsets -> 0 .. arrived]
<1>1. /\ arrived \in Nat /\ arrived <= MaxWrites /\ MaxWrites \in Nat /\ MaxWrites <= MaxItems /\ MaxItems \in Nat
      /\ BlockSize \in Nat \ {0} /\ MaxCapacity \in Nat \ {0}
  BY SequencesAssumption DEF TreeInv
<1>2. /\ store \in Seq([Offsets -> 0 .. arrived]) /\ size \in Nat /\ size <= first /\ first = Len(store) * BlockSize
  BY DEF TreeInv, BlockArrays
<1>3. Len(store) \in Nat /\ DOMAIN store = 1 .. Len(store)
  BY <1>2
<1>4. \A b \in 1 .. Len(store) : store[b] \in [Offsets -> 0 .. arrived]
  BY <1>2, <1>3, ElementOfSeq
<1>5. first \in Nat
  BY <1>1, <1>2, <1>3, TimesFacts
<1> QED BY <1>1, <1>2, <1>3, <1>4, <1>5

(* What is at a position that there is a block for.                        *)
LEMMA TreeElem ==
    ASSUME TreeInv, NEW i \in Nat, i < first
    PROVE  /\ Tree!BlockOf(i) \in 1 .. Len(store) /\ Tree!Offset(i) \in Offsets
           /\ Elem(i) \in 0 .. arrived
<1>1. Tree!BlockOf(i) \in Nat \ {0} /\ Tree!Offset(i) \in Offsets
      /\ Tree!BlockOf(i) <= Len(store)
  BY TreeFacts, Position
<1>2. Tree!BlockOf(i) \in 1 .. Len(store)
  BY <1>1, TreeFacts
<1>3. store[Tree!BlockOf(i)] \in [Offsets -> 0 .. arrived]
  BY <1>2, TreeFacts
<1> QED BY <1>1, <1>2, <1>3 DEF Elem

LEMMA BlocksAdded ==
    ASSUME NEW n \in Nat, NEW a \in BlockArrays(n), NEW k \in Nat
    PROVE  /\ a \o Tree!Blocks(k) \in BlockArrays(n)
           /\ Len(a \o Tree!Blocks(k)) = Len(a) + k
           /\ \A b \in 1 .. Len(a) : (a \o Tree!Blocks(k))[b] = a[b]
<1> DEFINE T == [Offsets -> 0 .. n]
           more == Tree!Blocks(k)
<1>1. Tree!Block \in T
  BY DEF Tree!Block, Offsets
<1>2. more = [b \in 1 .. k |-> Tree!Block]
  BY DEF Tree!Blocks
<1> HIDE DEF T, more
<1>3. more \in Seq(T) /\ Len(more) = k
  BY <1>1, <1>2
<1>4. a \in Seq(T)
  BY DEF T, BlockArrays
<1>5. a \o more \in Seq(T) /\ Len(a \o more) = Len(a) + k /\ \A b \in 1 .. Len(a) : (a \o more)[b] = a[b]
  BY <1>3, <1>4
<1> QED BY <1>5 DEF T, more, BlockArrays

LEMMA BlockWritten ==
    ASSUME NEW n \in Nat, NEW a \in BlockArrays(n), NEW b \in 1 .. Len(a), NEW o \in Offsets
    PROVE  /\ Written(a, b, o, n + 1) \in BlockArrays(n + 1) /\ Len(Written(a, b, o, n + 1)) = Len(a)
           /\ \A d \in 1 .. Len(a), p \in Offsets :
                  Written(a, b, o, n + 1)[d][p] = IF d = b /\ p = o THEN n + 1 ELSE a[d][p]
<1> DEFINE c == [a EXCEPT ![b][o] = n + 1]
<1>1. a \in Seq([Offsets -> 0 .. n]) /\ Len(a) \in Nat /\ DOMAIN a = 1 .. Len(a)
  BY DEF BlockArrays
<1>2. \A d \in 1 .. Len(a) : a[d] \in [Offsets -> 0 .. n]
  BY <1>1, ElementOfSeq
<1>3. DOMAIN c = 1 .. Len(a) /\ c = [d \in 1 .. Len(a) |-> c[d]]
  BY <1>1
<1>4. \A d \in 1 .. Len(a) : d # b => c[d] = a[d]
  BY <1>1
<1>5. c[b] = [a[b] EXCEPT ![o] = n + 1]
  BY <1>1
<1>6. c[b] \in [Offsets -> 0 .. n + 1] /\ \A p \in Offsets : c[b][p] = IF p = o THEN n + 1 ELSE a[b][p]
  BY <1>2, <1>5
<1>7. [Offsets -> 0 .. n] \subseteq [Offsets -> 0 .. n + 1]
  OBVIOUS
<1>8. \A d \in 1 .. Len(a) : c[d] \in [Offsets -> 0 .. n + 1]
  BY <1>2, <1>4, <1>6, <1>7
<1> DEFINE T == [Offsets -> 0 .. n + 1]
           k == Len(a)
<1>9. c \in [1 .. k -> T] /\ k \in Nat
  BY <1>1, <1>3, <1>8
<1> HIDE DEF T, k, c
<1>10. c \in Seq(T) /\ Len(c) = k
  BY ONLY <1>9
<1> QED BY <1>4, <1>6, <1>10, SMTT(60) DEF T, k, c, Written, BlockArrays

(* Enough blocks are added.                                                *)
LEMMA TreeAdded ==
    ASSUME first \in Nat, NEW target \in Nat
    PROVE  /\ Tree!Added(target) \in Nat
           /\ first + (Tree!Added(target) * BlockSize) \in Nat
           /\ first + (Tree!Added(target) * BlockSize) >= target
           /\ first + (Tree!Added(target) * BlockSize) >= first
<1>0. BlockSize \in Nat \ {0}
  BY SequencesAssumption
<1>1. CASE first >= target
  <2>1. Tree!Added(target) = 0
    BY <1>1 DEF Tree!Added
  <2> QED BY <1>0, <1>1, <2>1
<1>2. CASE ~(first >= target)
  <2> DEFINE a == target - first + BlockSize - 1
             q == a \div BlockSize
  <2>1. a \in Nat /\ Tree!Added(target) = q
    BY <1>0, <1>2 DEF Tree!Added
  <2>2. a = (target - first) + (BlockSize - 1)
    BY <1>0
  <2> HIDE DEF a
  <2>3. q \in Nat /\ (a % BlockSize) \in 0 .. BlockSize - 1 /\ a = (q * BlockSize) + (a % BlockSize)
    BY <1>0, <2>1, DivMod
  <2> HIDE DEF q
  <2> DEFINE m == q * BlockSize
             r == a % BlockSize
  <2>4. m \in Nat /\ r \in 0 .. BlockSize - 1 /\ a = m + r
    BY <1>0, <2>3, TimesFacts
  <2> HIDE DEF m, r
  <2>5. first + m \in Nat /\ first + m >= target /\ first + m >= first
    BY <1>0, <1>2, <2>2, <2>4
  <2> QED BY <2>1, <2>3, <2>5 DEF m
<1> QED BY <1>1, <1>2

(* A call that adds k blocks, and changes the length.                      *)
LEMMA TreeGrows ==
    ASSUME TreeInv, NEW k \in Nat, store' = store \o Tree!Blocks(k), first' = first + (k * BlockSize),
           size' \in Nat, size' <= first', arrived' = arrived, walk' = walk
    PROVE  /\ TreeInv' /\ \A i \in 0 .. first - 1 : Elem(i)' = Elem(i)
<1>1. /\ arrived \in Nat /\ arrived <= MaxWrites /\ MaxWrites \in Nat
      /\ BlockSize \in Nat \ {0}
      /\ first \in Nat /\ first = Len(store) * BlockSize /\ Len(store) \in Nat
  BY TreeFacts
<1>2. store \in BlockArrays(arrived)
  BY DEF TreeInv
<1>3. /\ store' \in BlockArrays(arrived) /\ Len(store') = Len(store) + k
      /\ \A b \in 1 .. Len(store) : store'[b] = store[b]
  BY <1>1, <1>2, BlocksAdded
<1>4. first' = Len(store') * BlockSize
  BY <1>1, <1>3, TimesFacts
<1>5. TreeInv'
  BY <1>1, <1>3, <1>4 DEF TreeInv, Vec!OpenCursor
<1>6. ASSUME NEW i \in 0 .. first - 1
      PROVE  Elem(i)' = Elem(i)
  <2>1. i \in Nat /\ i < first
    BY <1>1
  <2>2. Tree!BlockOf(i) \in 1 .. Len(store)
    BY <2>1, TreeElem
  <2> QED BY <1>3, <2>2 DEF Elem, Tree!BlockOf, Tree!Offset
<1> QED BY <1>5, <1>6

(* A call that writes to a position there is a block for.                  *)
LEMMA TreeWrites ==
    ASSUME NEW a \in BlockArrays(arrived), NEW i \in Nat, arrived \in Nat, arrived < MaxWrites, MaxWrites \in Nat,
           first' = Len(a) * BlockSize, i < first',
           store' = Written(a, Tree!BlockOf(i), Tree!Offset(i), arrived + 1),
           size' \in Nat, size' <= first', arrived' = arrived + 1, walk' = walk, walk = Vec!OpenCursor(None, 0)
    PROVE  /\ TreeInv'
           /\ \A j \in 0 .. first' - 1 :
                  Elem(j)' = IF j = i THEN arrived + 1 ELSE a[Tree!BlockOf(j)][Tree!Offset(j)]
<1>1. BlockSize \in Nat \ {0} /\ Len(a) \in Nat /\ first' \in Nat
  BY SequencesAssumption, TimesFacts DEF BlockArrays
<1>2. ASSUME NEW j \in Nat, j < first'
      PROVE  Tree!BlockOf(j) \in 1 .. Len(a) /\ Tree!Offset(j) \in Offsets
  <2>1. Tree!BlockOf(j) \in Nat \ {0} /\ Tree!Offset(j) \in Offsets /\ Tree!BlockOf(j) <= Len(a)
    BY <1>1, <1>2, Position
  <2> QED BY <1>1, <2>1
<1> DEFINE b == Tree!BlockOf(i)
           o == Tree!Offset(i)
<1>3. b \in 1 .. Len(a) /\ o \in Offsets /\ store' = Written(a, b, o, arrived + 1)
  BY <1>2
<1> HIDE DEF b, o
<1>4. /\ store' \in BlockArrays(arrived + 1) /\ Len(store') = Len(a)
      /\ \A d \in 1 .. Len(a), p \in Offsets :
             store'[d][p] = IF d = b /\ p = o THEN arrived + 1 ELSE a[d][p]
  <2> DEFINE c == Written(a, b, o, arrived + 1)
  <2>1. arrived \in Nat /\ a \in BlockArrays(arrived) /\ b \in 1 .. Len(a) /\ o \in Offsets
    BY <1>3
  <2>2. /\ c \in BlockArrays(arrived + 1) /\ Len(c) = Len(a)
        /\ \A d \in 1 .. Len(a), p \in Offsets :
               c[d][p] = IF d = b /\ p = o THEN arrived + 1 ELSE a[d][p]
    BY ONLY <2>1, BlockWritten
  <2>3. store' = c
    BY <1>3
  <2> HIDE DEF c
  <2> QED BY ONLY <2>2, <2>3
<1>5. arrived + 1 \in 0 .. MaxWrites
  OBVIOUS
<1>6. TreeInv'
  BY <1>4, <1>5 DEF TreeInv, Vec!OpenCursor
<1>7. ASSUME NEW j \in 0 .. first' - 1
      PROVE  Elem(j)' = IF j = i THEN arrived + 1 ELSE a[Tree!BlockOf(j)][Tree!Offset(j)]
  <2>1. j \in Nat /\ j < first'
    BY <1>1
  <2>2. Tree!BlockOf(j) \in 1 .. Len(a) /\ Tree!Offset(j) \in Offsets
    BY <1>2, <2>1
  <2>3. Elem(j)' = store'[Tree!BlockOf(j)][Tree!Offset(j)]
    BY DEF Elem, Tree!BlockOf, Tree!Offset
  <2>4. j = i <=> Tree!BlockOf(j) = b /\ Tree!Offset(j) = o
    BY <2>1, PositionsApart DEF b, o
  <2> QED BY <1>4, <2>2, <2>3, <2>4
<1> QED BY <1>6, <1>7

LEMMA TreeSet ==
    ASSUME TreeInv, NEW index \in Nat, Tree!Set(index), walk' = walk
    PROVE  /\ TreeInv' /\ size' = size /\ arrived + 1 \in Item
           /\ index < size =>
                  /\ call' = [op |-> "set", answer |-> None]
                  /\ \A j \in 0 .. size - 1 : Elem(j)' = IF j = index THEN arrived + 1 ELSE Elem(j)
           /\ ~(index < size) =>
                  /\ \E answer \in {None, FullError} : call' = [op |-> "set", answer |-> answer]
                  /\ \A j \in 0 .. size - 1 : Elem(j)' = Elem(j)
<1>1. /\ arrived \in Nat /\ MaxWrites \in Nat /\ MaxWrites <= MaxItems /\ MaxItems \in Nat
      /\ size \in Nat /\ first \in Nat /\ size <= first /\ first = Len(store) * BlockSize /\ Len(store) \in Nat
  BY TreeFacts
<1>2. arrived < MaxWrites /\ arrived' = arrived + 1 /\ size' = size /\ first' = first
  BY DEF Tree!Set, Tree!Arrives
<1>3. arrived + 1 \in Item /\ arrived' \in 0 .. MaxWrites /\ store \in BlockArrays(arrived) /\ walk = Vec!OpenCursor(None, 0)
  BY <1>1, <1>2 DEF Item, TreeInv
<1>4. Tree!Refuses(index) <=> (size < index \/ ~(index < first))
  <2>1. Tree!BlockOf(index) \in Nat /\ (Tree!BlockOf(index) <= Len(store) <=> index < first)
    BY <1>1, Position
  <2>2. Tree!BlockOf(index) > Len(store) <=> ~(index < first)
    BY <1>1, <2>1
  <2> QED BY <2>2 DEF Tree!Refuses
<1>5. CASE Tree!Refuses(index)
  <2>1. store' = store /\ call' = [op |-> "set", answer |-> FullError]
    BY <1>5 DEF Tree!Set, Tree!Called
  <2>2. store \in BlockArrays(arrived')
    <3>1. [Offsets -> 0 .. arrived] \subseteq [Offsets -> 0 .. arrived + 1]
      BY <1>1
    <3> QED BY <1>2, <1>3, <3>1, SeqMonotonic DEF BlockArrays
  <2>3. TreeInv'
    BY <1>1, <1>2, <1>3, <2>1, <2>2 DEF TreeInv, Vec!OpenCursor
  <2>4. ~(index < size)
    BY <1>1, <1>4, <1>5
  <2>5. \A j \in 0 .. size - 1 : Elem(j)' = Elem(j)
    BY <2>1 DEF Elem, Tree!BlockOf, Tree!Offset
  <2> QED BY <1>2, <1>3, <2>1, <2>3, <2>4, <2>5
<1>6. CASE ~Tree!Refuses(index)
  <2>1. /\ store' = Written(store, Tree!BlockOf(index), Tree!Offset(index), arrived + 1)
        /\ call' = [op |-> "set", answer |-> None]
    BY <1>6 DEF Tree!Set, Tree!Called, Written
  <2>2. index < first' /\ first' = Len(store) * BlockSize /\ size' \in Nat /\ size' <= first'
    BY <1>1, <1>2, <1>4, <1>6
  <2>3. /\ TreeInv'
        /\ \A j \in 0 .. first' - 1 :
               Elem(j)' = IF j = index THEN arrived + 1 ELSE store[Tree!BlockOf(j)][Tree!Offset(j)]
    BY <1>1, <1>2, <1>3, <2>1, <2>2, TreeWrites
  <2>4. \A j \in 0 .. size - 1 : j \in 0 .. first' - 1
    BY <1>1, <1>2
  <2>5. \A j \in 0 .. size - 1 : Elem(j)' = IF j = index THEN arrived + 1 ELSE Elem(j)
    BY <2>3, <2>4 DEF Elem
  <2>6. ~(index < size) => \A j \in 0 .. size - 1 : j # index
    BY <1>1
  <2> QED BY <1>2, <1>3, <2>1, <2>3, <2>5, <2>6
<1> QED BY <1>5, <1>6

(* Room for target, whatever the length becomes of what there is room for. *)
LEMMA TreeRoom ==
    ASSUME TreeInv, NEW target \in Nat, Tree!Room(target), size' \in Nat, size' <= size \/ size' <= target,
           arrived' = arrived, walk' = walk
    PROVE  TreeInv' /\ \A j \in 0 .. size - 1 : Elem(j)' = Elem(j)
<1>1. size \in Nat /\ first \in Nat /\ size <= first
  BY TreeFacts
<1> DEFINE k == Tree!Added(target)
<1>2. /\ k \in Nat /\ first + (k * BlockSize) \in Nat
      /\ first + (k * BlockSize) >= target /\ first + (k * BlockSize) >= first
  BY <1>1, TreeAdded
<1>3. store' = store \o Tree!Blocks(k) /\ first' = first + (k * BlockSize)
  BY DEF Tree!Room
<1> HIDE DEF k
<1>4. size' <= first'
  BY <1>1, <1>2, <1>3
<1>5. TreeInv' /\ \A i \in 0 .. first - 1 : Elem(i)' = Elem(i)
  BY <1>2, <1>3, <1>4, TreeGrows
<1>6. \A j \in 0 .. size - 1 : j \in 0 .. first - 1
  BY <1>1
<1> QED BY <1>5, <1>6

LEMMA TreeGrow ==
    ASSUME TreeInv, Tree!Grow \/ \E n \in 0 .. MaxCapacity : Tree!GrowTo(n), walk' = walk
    PROVE  /\ TreeInv' /\ size' = size /\ call' = [op |-> "grow", answer |-> None]
           /\ \A j \in 0 .. size - 1 : Elem(j)' = Elem(j)
<1>1. size \in Nat /\ first \in Nat /\ BlockSize \in Nat \ {0} /\ MaxCapacity \in Nat
  BY TreeFacts
<1>2. first + BlockSize \in Nat /\ \A n \in 0 .. MaxCapacity : n \in Nat
  BY <1>1
<1>3. ASSUME NEW n \in Nat, Tree!GrowTo(n)
      PROVE  /\ TreeInv' /\ size' = size /\ call' = [op |-> "grow", answer |-> None]
             /\ \A j \in 0 .. size - 1 : Elem(j)' = Elem(j)
  <2>1. Tree!Room(n) /\ size' = size /\ arrived' = arrived /\ call' = [op |-> "grow", answer |-> None]
    BY <1>3 DEF Tree!GrowTo, Tree!Called
  <2>2. size' \in Nat /\ size' <= size
    BY <1>1, <2>1
  <2> QED BY <2>1, <2>2, TreeRoom
<1> QED BY <1>2, <1>3 DEF Tree!Grow

LEMMA TreeResize ==
    ASSUME TreeInv, NEW len \in Nat, Tree!Resize(len), walk' = walk
    PROVE  /\ TreeInv' /\ size' = len /\ call' = [op |-> "resize", answer |-> None]
           /\ \A j \in 0 .. size - 1 : Elem(j)' = Elem(j)
<1>1. size \in Nat /\ first \in Nat /\ size <= first
  BY TreeFacts
<1>2. size' = len /\ arrived' = arrived /\ call' = [op |-> "resize", answer |-> None]
  BY DEF Tree!Resize, Tree!Called
<1>3. CASE len < size /\ UNCHANGED <<store, first>>
  <2>1. size' \in Nat /\ size' <= first
    BY <1>1, <1>2, <1>3
  <2>2. TreeInv'
    BY <1>2, <1>3, <2>1 DEF TreeInv, Vec!OpenCursor
  <2>3. \A j \in 0 .. size - 1 : Elem(j)' = Elem(j)
    BY <1>3 DEF Elem, Tree!BlockOf, Tree!Offset
  <2> QED BY <1>2, <2>2, <2>3
<1>4. CASE ~(len < size) /\ Tree!Room(len)
  <2>1. size' \in Nat /\ size' <= len
    BY <1>2
  <2> QED BY <1>2, <1>4, <2>1, TreeRoom
<1> QED BY <1>3, <1>4 DEF Tree!Resize

LEMMA TreePush ==
    ASSUME TreeInv, Tree!Push, walk' = walk
    PROVE  /\ TreeInv' /\ size' = size + 1 /\ size < MaxCapacity /\ arrived + 1 \in Item
           /\ call' = [op |-> "push", answer |-> size + 1]
           /\ \A j \in 0 .. size : Elem(j)' = IF j = size THEN arrived + 1 ELSE Elem(j)
<1>1. /\ arrived \in Nat /\ MaxWrites \in Nat /\ MaxWrites <= MaxItems /\ MaxItems \in Nat
      /\ size \in Nat /\ first \in Nat /\ size <= first /\ first = Len(store) * BlockSize /\ Len(store) \in Nat
      /\ BlockSize \in Nat \ {0} /\ MaxCapacity \in Nat
  BY TreeFacts
<1> DEFINE k == IF first = size THEN 1 ELSE 0
           a == store \o (IF first = size THEN Tree!Blocks(1) ELSE <<>>)
<1>2. store \in BlockArrays(arrived) /\ walk = Vec!OpenCursor(None, 0)
  BY DEF TreeInv
<1>3. /\ a \in BlockArrays(arrived) /\ Len(a) = Len(store) + k
      /\ \A b \in 1 .. Len(store) : a[b] = store[b]
  <2>1. CASE first = size
    <3> DEFINE one == 1
    <3>1. one \in Nat /\ arrived \in Nat /\ store \in BlockArrays(arrived)
      BY <1>1, <1>2
    <3>2. a = store \o Tree!Blocks(one) /\ k = one
      BY <2>1
    <3> HIDE DEF one, a, k
    <3>3. /\ store \o Tree!Blocks(one) \in BlockArrays(arrived)
          /\ Len(store \o Tree!Blocks(one)) = Len(store) + one
          /\ \A b \in 1 .. Len(store) : (store \o Tree!Blocks(one))[b] = store[b]
      BY ONLY <3>1, BlocksAdded
    <3> QED BY <3>2, <3>3
  <2>2. CASE first # size
    <3>1. store \o <<>> = store
      BY <1>2 DEF BlockArrays
    <3> QED BY <1>1, <1>2, <2>2, <3>1
  <2> QED BY <2>1, <2>2
<1>4. Len(IF first = size THEN Tree!Blocks(1) ELSE <<>>) = k
  BY DEF Tree!Blocks
<1>5. /\ arrived < MaxWrites /\ arrived' = arrived + 1 /\ size' = size + 1
      /\ first + (k * BlockSize) <= MaxCapacity /\ first' = first + (k * BlockSize)
      /\ store' = Written(a, Tree!BlockOf(size), Tree!Offset(size), arrived + 1)
      /\ call' = [op |-> "push", answer |-> size + 1]
  BY <1>4 DEF Tree!Push, Tree!Arrives, Tree!Called, Written
<1>6. size < first' /\ first' \in Nat /\ first' <= MaxCapacity
  <2>1. CASE first = size
    <3>1. k * BlockSize = BlockSize
      BY <1>1, <2>1
    <3> QED BY <1>1, <1>5, <2>1, <3>1
  <2>2. CASE first # size
    <3>1. k * BlockSize = 0
      BY <1>1, <2>2
    <3> QED BY <1>1, <1>5, <2>2, <3>1
  <2> QED BY <2>1, <2>2
<1>7. k \in Nat
  OBVIOUS
<1> HIDE DEF a, k
<1>8. first' = Len(a) * BlockSize
  BY <1>1, <1>3, <1>5, <1>7, TimesFacts
<1>9. size' \in Nat /\ size' <= first'
  BY <1>1, <1>5, <1>6
<1>10. /\ TreeInv'
       /\ \A j \in 0 .. first' - 1 :
              Elem(j)' = IF j = size THEN arrived + 1 ELSE a[Tree!BlockOf(j)][Tree!Offset(j)]
  BY <1>1, <1>2, <1>3, <1>5, <1>6, <1>8, <1>9, TreeWrites
<1>11. ASSUME NEW j \in 0 .. size
       PROVE  Elem(j)' = IF j = size THEN arrived + 1 ELSE Elem(j)
  <2>1. j \in 0 .. first' - 1 /\ j \in Nat
    <3>1. size \in Nat /\ size < first' /\ first' \in Nat
      BY <1>1, <1>6
    <3>2. j \in Nat /\ j <= size
      BY <3>1
    <3>3. j < first'
      BY <3>1, <3>2
    <3>4. \A m, n \in Nat : m < n => m \in 0 .. n - 1
      OBVIOUS
    <3>5. j \in Nat /\ first' \in Nat /\ j < first'
      BY <3>1, <3>2, <3>3
    <3> QED BY ONLY <3>4, <3>5
  <2>2. CASE j = size
    BY <1>10, <2>1, <2>2
  <2>3. CASE j # size
    <3>1. j < first
      BY <1>1, <2>3
    <3>2. Tree!BlockOf(j) \in 1 .. Len(store)
      BY <2>1, <3>1, TreeElem
    <3> QED BY <1>3, <1>10, <2>1, <2>3, <3>2 DEF Elem
  <2> QED BY <2>2, <2>3
<1>12. size < MaxCapacity /\ arrived + 1 \in Item
  BY <1>1, <1>5, <1>6 DEF Item
<1> QED BY <1>5, <1>10, <1>11, <1>12

(* What pop answers is meant to be what the list had last.                 *)
LEMMA TreePop ==
    ASSUME TreeInv, Tree!Pop, walk' = walk
    PROVE  /\ TreeInv' /\ size' = (IF size = 0 THEN 0 ELSE size - 1)
           /\ \A j \in 0 .. size - 1 : Elem(j)' = Elem(j)
           /\ Tree!CallMeant' = [op |-> "pop", answer |-> IF size = 0 THEN None ELSE Elem(size - 1)]
<1>1. /\ size \in Nat /\ first \in Nat /\ size <= first /\ first = Len(store) * BlockSize /\ Len(store) \in Nat
      /\ arrived \in Nat /\ BlockSize \in Nat \ {0}
      /\ \A b \in 1 .. Len(store) : store[b] \in [Offsets -> 0 .. arrived]
  BY TreeFacts
<1>2. /\ UNCHANGED <<store, first, arrived>> /\ size' = (IF size = 0 THEN 0 ELSE size - 1)
      /\ call' = [op |-> "pop", answer |-> IF size = 0 THEN None ELSE store[Len(store)][Tree!Offset(size - 1)]]
  BY DEF Tree!Pop, Tree!Called
<1>3. TreeInv'
  <2>1. size' \in Nat /\ size' <= first
    BY <1>1, <1>2
  <2> QED BY <1>2, <2>1 DEF TreeInv, Vec!OpenCursor
<1>4. \A j \in 0 .. size - 1 : Elem(j)' = Elem(j)
  BY <1>2 DEF Elem, Tree!BlockOf, Tree!Offset
<1>5. CASE size = 0
  <2>1. Tree!CallMeant' = call'
    BY <1>2, <1>5 DEF Tree!CallMeant
  <2> QED BY <1>2, <1>3, <1>4, <1>5, <2>1
<1>6. CASE size # 0
  <2> DEFINE i == size - 1
             o == Tree!Offset(i)
  <2>1. i \in Nat /\ i < first /\ size' = i
    BY <1>1, <1>2, <1>6
  <2> HIDE DEF i
  <2>2. Tree!BlockOf(i) \in 1 .. Len(store) /\ o \in Offsets
    BY <2>1, TreeElem
  <2>3. Len(store) \in 1 .. Len(store)
    BY <1>1, <2>2
  <2>4. store[Len(store)][o] \in 0 .. arrived
    BY <1>1, <2>2, <2>3
  <2>5. store[Len(store)][o] # None
    BY <1>1, <2>4, NoneNoInt
  <2>6. call' = [op |-> "pop", answer |-> store[Len(store)][o]]
    BY <1>2, <1>6 DEF i
  <2>7. Tree!CallMeant' = IF Tree!BlockOf(i) # Len(store)
                         THEN [call' EXCEPT !.answer = store[Tree!BlockOf(i)][o]] ELSE call'
    BY <1>2, <2>1, <2>5, <2>6 DEF Tree!CallMeant, Tree!BlockOf, Tree!Offset
  <2>8. Tree!CallMeant' = [op |-> "pop", answer |-> store[Tree!BlockOf(i)][o]]
    BY <2>6, <2>7
  <2> QED BY <1>2, <1>3, <1>4, <1>6, <2>8 DEF Elem, i
<1> QED BY <1>5, <1>6

LEMMA TreeInit ==
    ASSUME Tree!Init, walk = Vec!OpenCursor(None, 0)
    PROVE  TreeInv
<1>1. PICK n \in 0 .. 2, c \in 0 .. 2 :
        LET requested == IF c < n THEN n ELSE c
            initial == (requested + BlockSize - 1) \div BlockSize
        IN /\ size = n
           /\ first = initial * BlockSize
           /\ store = Tree!Blocks(initial)
           /\ arrived = 0
  BY DEF Tree!Init
<1> DEFINE requested == IF c < n THEN n ELSE c
           a == requested + BlockSize - 1
           initial == a \div BlockSize
<1>0. BlockSize \in Nat \ {0} /\ MaxWrites \in Nat
  BY SequencesAssumption
<1>2. requested \in Nat /\ requested >= n /\ n \in Nat
  OBVIOUS
<1>3. size = n /\ first = initial * BlockSize /\ store = Tree!Blocks(initial) /\ arrived = 0
  BY <1>1
<1> HIDE DEF requested
<1>4. a \in Nat /\ a = requested + (BlockSize - 1)
  BY <1>0, <1>2
<1> HIDE DEF a
<1>5. initial \in Nat /\ (a % BlockSize) \in 0 .. BlockSize - 1 /\ a = (initial * BlockSize) + (a % BlockSize)
  BY <1>0, <1>4, DivMod
<1> HIDE DEF initial
<1> DEFINE m == initial * BlockSize
           r == a % BlockSize
<1>6. m \in Nat /\ r \in 0 .. BlockSize - 1 /\ a = m + r
  BY <1>0, <1>5, TimesFacts
<1> HIDE DEF m, r
<1>7. m >= requested
  BY <1>0, <1>2, <1>4, <1>6
<1>8. size \in Nat /\ size <= first
  BY <1>2, <1>3, <1>6, <1>7 DEF m
<1>9. store \in BlockArrays(0) /\ Len(store) = initial
  <2> DEFINE T == [Offsets -> 0 .. 0]
             block == Tree!Block
  <2>1. block \in T
    BY DEF Tree!Block, Offsets
  <2>2. store = [b \in 1 .. initial |-> block]
    BY <1>3 DEF Tree!Blocks
  <2> HIDE DEF T, block
  <2>3. store \in Seq(T) /\ Len(store) = initial
    BY ONLY <1>5, <2>1, <2>2
  <2> QED BY <2>3 DEF T, BlockArrays
<1> QED BY <1>0, <1>3, <1>8, <1>9 DEF TreeInv

TreeContents == [n \in 1 .. size |-> Elem(n - 1)]

TreeListed ==
    /\ TreeContents \in Seq(Item) /\ Len(TreeContents) = size
    /\ \A n \in 1 .. size : TreeContents[n] = Elem(n - 1)

LEMMA TreeItems == TreeInv => TreeListed
<1> SUFFICES ASSUME TreeInv PROVE TreeListed
  OBVIOUS
<1>1. /\ size \in Nat /\ first \in Nat /\ size <= first /\ arrived \in Nat
      /\ arrived <= MaxWrites /\ MaxWrites \in Nat /\ MaxWrites <= MaxItems /\ MaxItems \in Nat
  BY TreeFacts
<1>2. ASSUME NEW n \in 1 .. size
      PROVE  Elem(n - 1) \in Item
  <2>1. n - 1 \in Nat /\ n - 1 < first
    BY <1>1
  <2>2. Elem(n - 1) \in 0 .. arrived
    BY <2>1, TreeElem
  <2> QED BY <1>1, <2>2 DEF Item
<1>3. TreeContents \in Seq(Item) /\ Len(TreeContents) = size
  BY <1>1, <1>2 DEF TreeContents
<1> QED BY <1>3 DEF TreeListed, TreeContents

LEMMA TreeReads ==
    ASSUME TreeInv
    PROVE  Tree!LayoutSound /\ Tree!ReadsAgree
<1>1. /\ size \in Nat /\ first \in Nat /\ size <= first /\ first = Len(store) * BlockSize /\ Len(store) \in Nat
  BY TreeFacts
<1>2. ASSUME NEW index \in 0 .. size - 1
      PROVE  ~Tree!Refuses(index) /\ Tree!Get(index) = Tree!ToVec[index + 1]
  <2>1. index \in Nat /\ index < first /\ ~(size < index) /\ index + 1 \in 1 .. size /\ (index + 1) - 1 = index
    BY <1>1
  <2>2. Tree!BlockOf(index) \in 1 .. Len(store)
    BY <2>1, TreeElem
  <2>3. ~Tree!Refuses(index)
    BY <1>1, <2>1, <2>2 DEF Tree!Refuses
  <2>4. Tree!Get(index) = Elem(index)
    BY <2>1, <2>3 DEF Tree!Get, Elem
  <2>5. Tree!ToVec[index + 1] = Elem(index)
    BY <2>1 DEF Tree!ToVec, Elem
  <2> QED BY <2>3, <2>4, <2>5
<1> QED BY <1>1, <1>2 DEF Tree!LayoutSound, Tree!ReadsAgree

LEMMA TreeStep ==
    ASSUME TreeInv, Tree!Next, walk' = walk
    PROVE  TreeInv'
<1>1. ASSUME NEW n \in 0 .. MaxCapacity, Tree!Set(n) \/ Tree!Resize(n)
      PROVE  TreeInv'
  <2>1. n \in Nat
    OBVIOUS
  <2> QED BY <1>1, <2>1, TreeSet, TreeResize
<1>2. CASE Tree!Grow \/ \E n \in 0 .. MaxCapacity : Tree!GrowTo(n)
  BY <1>2, TreeGrow
<1>3. CASE Tree!Push  BY <1>3, TreePush
<1>4. CASE Tree!Pop  BY <1>4, TreePop
<1> QED BY <1>1, <1>2, <1>3, <1>4 DEF Tree!Next

LEMMA TreeListStep ==
    ASSUME TreeInv, kind = "HashedArrayTree", UNCHANGED kind, Tree!Next, walk' = walk
    PROVE  List!Next
<1> DEFINE C == TreeContents
<1>1. /\ Contents = C /\ Contents' = C' /\ CallSeen' = Tree!CallMeant'
      /\ Room = MaxItems + MaxCapacity
  BY DEF Contents, InWalkOrder, TreeContents, Tree!ToVec, Elem, CallSeen, Room
<1>2. TreeInv'
  BY TreeStep
<1>3. /\ C \in Seq(Item) /\ Len(C) = size /\ \A n \in 1 .. size : C[n] = Elem(n - 1)
  BY TreeItems DEF TreeListed
<1>4. /\ C' \in Seq(Item) /\ Len(C') = size' /\ \A n \in 1 .. size' : C'[n] = Elem(n - 1)'
  <2>1. (TreeInv => TreeListed)'
    BY TreeItems, PTL
  <2> QED BY <1>2, <2>1 DEF TreeListed
<1>5. /\ size \in Nat /\ arrived \in Nat /\ MaxItems \in Nat /\ MaxCapacity \in Nat \ {0}
  BY TreeFacts
<1>6. size' \in Nat
  BY <1>2 DEF TreeInv
<1> HIDE DEF C
<1>7. \A n \in 1 .. size : n - 1 \in 0 .. size - 1
  BY <1>5
<1>11. ASSUME size' = size, \A j \in 0 .. size - 1 : Elem(j)' = Elem(j)
       PROVE  C' = C
  <2>1. \A n \in 1 .. size : C'[n] = C[n]
    BY <1>3, <1>4, <1>7, <1>11
  <2> QED BY <1>3, <1>4, <1>11, <2>1, SeqEqual
<1>12. ASSUME NEW n \in 0 .. size, n <= size', \A j \in 0 .. size - 1 : Elem(j)' = Elem(j)
       PROVE  \A i \in 1 .. n : C'[i] = C[i]
  <2>1. \A i \in 1 .. n : i \in 1 .. size /\ i \in 1 .. size'
    BY <1>5, <1>6, <1>12
  <2> QED BY <1>3, <1>4, <1>7, <1>12, <2>1
<1>13. ASSUME call'.op # "pop"
       PROVE  CallSeen' = call'
  BY <1>1, <1>13 DEF Tree!CallMeant
<1>8. ASSUME NEW index \in 0 .. MaxCapacity, Tree!Set(index)
      PROVE  List!Next
  <2>0. index \in Nat
    OBVIOUS
  <2>1. /\ size' = size /\ arrived + 1 \in Item
        /\ index < size =>
               /\ call' = [op |-> "set", answer |-> None]
               /\ \A j \in 0 .. size - 1 : Elem(j)' = IF j = index THEN arrived + 1 ELSE Elem(j)
        /\ ~(index < size) =>
               /\ \E answer \in {None, FullError} : call' = [op |-> "set", answer |-> answer]
               /\ \A j \in 0 .. size - 1 : Elem(j)' = Elem(j)
    BY <1>8, <2>0, TreeSet
  <2>2. CASE index < size
    <3> DEFINE n == index + 1
               x == arrived + 1
    <3>1. n \in DOMAIN C /\ x \in Item /\ n \in 1 .. size /\ \A s \in 1 .. size : s - 1 = index <=> s = n
      BY <1>3, <1>5, <2>0, <2>1, <2>2
    <3>2. \A j \in 0 .. size - 1 : Elem(j)' = IF j = index THEN x ELSE Elem(j)
      BY <2>1, <2>2
    <3>3. CallSeen' = [op |-> "set", answer |-> None]
      BY <1>13, <2>1, <2>2
    <3> HIDE DEF n, x
    <3> DEFINE D == [C EXCEPT ![n] = x]
    <3>4. D \in Seq(Item) /\ Len(D) = size /\ \A s \in 1 .. size : D[s] = IF s = n THEN x ELSE C[s]
      BY <1>3, <1>5, <3>1
    <3>5. \A s \in 1 .. size : C'[s] = IF s = n THEN x ELSE C[s]
      BY <1>3, <1>4, <1>7, <2>1, <3>1, <3>2
    <3> HIDE DEF D
    <3>6. C' = D
      BY <1>4, <2>1, <3>4, <3>5, SeqEqual
    <3> QED BY <1>1, <3>1, <3>3, <3>6, ListSets DEF D
  <2>3. CASE ~(index < size)
    <3>1. C' = C
      BY <1>11, <2>1, <2>3
    <3>2. \E answer \in {None, FullError} : CallSeen' = [op |-> "set", answer |-> answer]
      BY <1>13, <2>1, <2>3
    <3> QED BY <1>1, <3>1, <3>2, ListSets
  <2> QED BY <2>2, <2>3
<1>9. ASSUME NEW n \in 0 .. MaxCapacity, Tree!Resize(n)
      PROVE  List!Next
  <2>0. n \in Nat
    OBVIOUS
  <2>1. /\ size' = n /\ \A j \in 0 .. size - 1 : Elem(j)' = Elem(j)
        /\ CallSeen' = [op |-> "resize", answer |-> None]
    <3>1. /\ size' = n /\ \A j \in 0 .. size - 1 : Elem(j)' = Elem(j)
          /\ call' = [op |-> "resize", answer |-> None]
      BY <1>9, <2>0, TreeResize
    <3> QED BY <1>13, <3>1
  <2>2. CASE n <= size
    <3>1. n \in 0 .. size /\ n \in 0 .. Len(C) /\ n <= size'
      BY <1>3, <1>5, <2>0, <2>1, <2>2
    <3>2. \A i \in 1 .. n : C'[i] = C[i]
      BY <1>12, <2>1, <3>1
    <3>3. C' = SubSeq(C, 1, n)
      BY <1>3, <1>4, <2>1, <3>1, <3>2, IsCut
    <3> QED BY <1>1, <2>1, <3>1, <3>3, ListResizes
  <2>3. CASE ~(n <= size)
    <3>1. size \in 0 .. Len(C') /\ Len(C') > Len(C) /\ size \in 0 .. size /\ size <= size'
      BY <1>3, <1>4, <1>5, <2>0, <2>1, <2>3
    <3>2. \A i \in 1 .. size : C[i] = C'[i]
      BY <1>12, <2>1, <3>1
    <3>3. C = SubSeq(C', 1, size)
      BY <1>3, <1>4, <3>1, <3>2, IsCut
    <3> QED BY <1>1, <1>3, <2>1, <3>1, <3>3, ListResizes
  <2> QED BY <2>2, <2>3
<1>10. CASE Tree!Grow \/ \E n \in 0 .. MaxCapacity : Tree!GrowTo(n)
  <2>1. /\ size' = size /\ \A j \in 0 .. size - 1 : Elem(j)' = Elem(j)
        /\ call' = [op |-> "grow", answer |-> None]
    BY <1>10, TreeGrow
  <2>2. C' = C /\ CallSeen' = [op |-> "grow", answer |-> None]
    BY <1>11, <1>13, <2>1
  <2> QED BY <1>1, <2>2, ListGrows
<1>14. CASE Tree!Push
  <2> DEFINE x == arrived + 1
  <2>1. /\ size' = size + 1 /\ size < MaxCapacity /\ x \in Item
        /\ call' = [op |-> "push", answer |-> size + 1]
        /\ \A j \in 0 .. size : Elem(j)' = IF j = size THEN x ELSE Elem(j)
    BY <1>14, TreePush
  <2>2. CallSeen' = [op |-> "push", answer |-> size + 1]
    BY <1>13, <2>1
  <2> HIDE DEF x
  <2>3. Len(C') = Len(C) + 1 /\ Len(C) # Room
    BY <1>1, <1>3, <1>4, <1>5, <2>1
  <2>4. C'[Len(C) + 1] = x /\ \A n \in 1 .. Len(C) : C'[n] = C[n]
    <3>1. /\ size + 1 \in 1 .. size' /\ (size + 1) - 1 = size /\ size \in 0 .. size
          /\ \A s \in 1 .. size : s \in 1 .. size' /\ s - 1 \in 0 .. size /\ s - 1 # size
      BY <1>5, <2>1
    <3>2. \A s \in 1 .. size : C'[s] = C[s]
      BY <1>3, <1>4, <2>1, <3>1
    <3>3. PICK m \in Nat : m = size
      BY <1>5
    <3>4. Elem(m)' = x
      BY <2>1, <3>1, <3>3
    <3> DEFINE t == m + 1
    <3>5. t \in 1 .. size' /\ t - 1 = m
      BY <3>1, <3>3
    <3> HIDE DEF t
    <3>6. C'[t] = store'[Tree!BlockOf(t - 1)][Tree!Offset(t - 1)]
      BY <1>4, <3>5 DEF Elem, Tree!BlockOf, Tree!Offset
    <3>7. C'[t] = store'[Tree!BlockOf(m)][Tree!Offset(m)]
      BY <3>5, <3>6
    <3>8. C'[t] = x
      BY <3>4, <3>7 DEF Elem, Tree!BlockOf, Tree!Offset
    <3>9. C'[size + 1] = x
      BY <3>3, <3>8 DEF t
    <3> QED BY <1>3, <3>2, <3>9
  <2>5. C' = Append(C, x)
    BY <1>3, <1>4, <2>1, <2>3, <2>4, IsAppend
  <2> QED BY <1>1, <1>3, <2>1, <2>2, <2>3, <2>5, ListPushes
<1>15. CASE Tree!Pop
  <2>1. /\ size' = (IF size = 0 THEN 0 ELSE size - 1)
        /\ \A j \in 0 .. size - 1 : Elem(j)' = Elem(j)
        /\ CallSeen' = [op |-> "pop", answer |-> IF size = 0 THEN None ELSE Elem(size - 1)]
    BY <1>1, <1>15, TreePop
  <2>2. CASE size = 0
    <3>1. C' = C /\ C = <<>>
      BY <1>3, <1>11, <2>1, <2>2, EmptyContents
    <3> QED BY <1>1, <2>1, <2>2, <3>1, ListPops
  <2>3. CASE size # 0
    <3> DEFINE n == size - 1
    <3>1. /\ n \in 0 .. size /\ n \in 0 .. Len(C) /\ size' = n /\ size \in 1 .. size /\ n <= size'
          /\ Len(C) - 1 = n
      BY <1>3, <1>5, <2>1, <2>3
    <3> HIDE DEF n
    <3>2. \A i \in 1 .. n : C'[i] = C[i]
      BY <1>12, <2>1, <3>1
    <3>3. C' = SubSeq(C, 1, n)
      BY <1>3, <1>4, <3>1, <3>2, IsCut
    <3>4. C # <<>> /\ CallSeen' = [op |-> "pop", answer |-> C[Len(C)]]
      BY <1>3, <2>1, <2>3, <3>1, EmptyContents
    <3> QED BY <1>1, <3>1, <3>3, <3>4, ListPops
  <2> QED BY <2>2, <2>3
<1> QED BY <1>8, <1>9, <1>10, <1>14, <1>15 DEF Tree!Next

LEMMA TreeWalks ==
    ASSUME TreeInv, kind = "HashedArrayTree"
    PROVE  FreshWalksComplete /\ WalksReportOnce
<1> DEFINE all == TreeContents
           d == 0
           seen == walk.seen
<1>1. InWalkOrder = all
  BY DEF InWalkOrder, TreeContents, Tree!ToVec, Elem
<1>2. all \in Seq(Item) /\ Len(all) = size /\ size \in Nat
  BY TreeItems, TreeFacts DEF TreeListed
<1>3. /\ walk.seen = <<>> /\ walk.ended = FALSE
      /\ <<>> \in Seq(Item) /\ Len(<<>>) = 0 /\ DOMAIN <<>> = {} /\ 1 .. 0 = {}
  BY DEF TreeInv, Vec!OpenCursor
<1>4. seen \in Seq(Item) /\ Len(seen) = 0 /\ seen = walk.seen
  BY <1>3
<1> HIDE DEF all, seen
<1>5. IF walk.ended THEN seen = SubSeq(all, d + 1, Len(all))
      ELSE IsPrefix(seen, SubSeq(all, d + 1, Len(all)))
  <2>1. d \in 0 .. Len(all) /\ Len(seen) <= Len(all) - d
    BY <1>2, <1>4
  <2> HIDE DEF d
  <2>2. \A i \in 1 .. Len(seen) : seen[i] = all[i + d]
    BY <1>3, <1>4
  <2>3. walk.ended => Len(seen) = Len(all) - d
    BY <1>3
  <2> QED BY <1>2, <1>4, <2>1, <2>2, <2>3, FreshFrom
<1>6. FreshWalksComplete
  BY <1>1, <1>4, <1>5 DEF FreshWalksComplete
<1>7. WalksReportOnce
  BY <1>3 DEF WalksReportOnce
<1> QED BY <1>6, <1>7

-----------------------------------------------------------------------------
(* LinkedList.                                                             *)

(* The nodes from the head on, in order; as many as there are.             *)
Way(way, next, head, tail, n) ==
    /\ next \in Seq(Nat) /\ \A i \in 1 .. Len(next) : next[i] \in 0 .. Len(next)
    /\ n \in Nat /\ n <= Len(next)
    /\ way \in Seq(1 .. Len(next)) /\ Len(way) = n
    /\ head = IF n = 0 THEN 0 ELSE way[1]
    /\ tail \in 0 .. Len(next) /\ (n # 0 => tail = way[n])
    /\ \A i \in 1 .. n : next[way[i]] = IF i = n THEN 0 ELSE way[i + 1]

(* Every link of the arena goes up in rank, those of the nodes that were   *)
(* taken out of the list as well: no way through it comes back.            *)
Rank(rank, next) ==
    /\ rank \in [1 .. Len(next) -> Int]
    /\ \A i \in 1 .. Len(next) : next[i] # 0 => rank[i] < rank[next[i]]

Climbs(w, rank, n) ==
    /\ w \in [current : 0 .. n, seen : Seq(1 .. n), fresh : BOOLEAN, ended : BOOLEAN]
    /\ \A i, j \in DOMAIN w.seen : i < j => rank[w.seen[i]] < rank[w.seen[j]]
    /\ w.current # 0 => \A i \in DOMAIN w.seen : rank[w.seen[i]] < rank[w.current]
    /\ w.ended => w.current = 0

OnTheWay(w, way, n) ==
    /\ Len(w.seen) <= n
    /\ \A i \in 1 .. Len(w.seen) : w.seen[i] = way[i]
    /\ w.current = IF Len(w.seen) = n THEN 0 ELSE way[Len(w.seen) + 1]

LinkedInv ==
    /\ Len(store) <= MaxItems
    /\ \E way, rank :
           /\ Way(way, store, first, last, size)
           /\ Rank(rank, store)
           /\ Climbs(walk, rank, Len(store))
           /\ walk.fresh => OnTheWay(walk, way, size)

LEMMA WayFacts ==
    ASSUME NEW way, NEW next, NEW head, NEW tail, NEW n, Way(way, next, head, tail, n)
    PROVE  /\ Len(next) \in Nat /\ n \in Nat /\ n <= Len(next) /\ DOMAIN next = 1 .. Len(next)
           /\ Len(way) = n /\ DOMAIN way = 1 .. n
           /\ \A i \in 1 .. n : way[i] \in 1 .. Len(next) /\ next[way[i]] = IF i = n THEN 0 ELSE way[i + 1]
           /\ head = 0 <=> n = 0
<1>1. /\ next \in Seq(Nat) /\ n \in Nat /\ n <= Len(next) /\ way \in Seq(1 .. Len(next)) /\ Len(way) = n
      /\ head = IF n = 0 THEN 0 ELSE way[1]
      /\ \A i \in 1 .. n : next[way[i]] = IF i = n THEN 0 ELSE way[i + 1]
  BY DEF Way
<1>2. Len(next) \in Nat /\ DOMAIN next = 1 .. Len(next)
  BY <1>1
<1>3. \A i \in 1 .. n : way[i] \in 1 .. Len(next)
  BY <1>1, <1>2, ElementOfSeq
<1>4. DOMAIN way = 1 .. n
  BY <1>1
<1>5. head = 0 <=> n = 0
  <2>1. n # 0 => 1 \in 1 .. n
    BY <1>1
  <2> QED BY <1>1, <1>3, <2>1
<1> QED BY <1>1, <1>2, <1>3, <1>4, <1>5

(* The way is what the list is read as.                                    *)
LEMMA WayIsArray == \A way : Way(way, store, first, last, size) => Linked!ToArray = way
<1> SUFFICES ASSUME NEW way, Way(way, store, first, last, size)
             PROVE  Linked!ToArray = way
  OBVIOUS
<1> DEFINE top == Len(store) + 1
           g == [n \in 1 .. top |-> IF n <= size THEN way[n] ELSE 0]
           Follows(f) == f = [n \in 1 .. top |-> IF n = 1 THEN first
                                                 ELSE IF f[n - 1] = 0 THEN 0 ELSE store[f[n - 1]]]
           at == CHOOSE f : Follows(f)
<1>1. /\ Len(store) \in Nat /\ size \in Nat /\ size <= Len(store) /\ way \in Seq(1 .. Len(store)) /\ Len(way) = size
      /\ \A i \in 1 .. size : way[i] \in 1 .. Len(store) /\ store[way[i]] = IF i = size THEN 0 ELSE way[i + 1]
      /\ first = IF size = 0 THEN 0 ELSE way[1]
  BY WayFacts, SMTT(60) DEF Way
<1>2. top \in Nat /\ size < top
  BY <1>1
<1>3. Linked!ToArray = [n \in {m \in DOMAIN at : at[m] # 0} |-> at[n]]
  BY DEF Linked!ToArray, Linked!Nil
<1> HIDE DEF top
<1>4. DOMAIN g = 1 .. top /\ \A n \in 1 .. top : g[n] = IF n <= size THEN way[n] ELSE 0
  OBVIOUS
<1>5. ASSUME NEW n \in 1 .. top, n # 1
      PROVE  g[n] = IF g[n - 1] = 0 THEN 0 ELSE store[g[n - 1]]
  <2>1. n - 1 \in 1 .. top /\ n - 1 \in Nat /\ (n - 1) + 1 = n
    BY <1>2, <1>5
  <2>2. CASE n <= size
    <3>1. n - 1 \in 1 .. size /\ n - 1 # size
      BY <1>1, <1>5, <2>1, <2>2
    <3>2. g[n - 1] = way[n - 1] /\ g[n] = way[n]
      BY <1>4, <2>1, <2>2, <3>1
    <3>3. way[n - 1] # 0 /\ store[way[n - 1]] = way[(n - 1) + 1]
      BY <1>1, <3>1
    <3> QED BY <2>1, <3>2, <3>3
  <2>3. CASE ~(n <= size) /\ n - 1 <= size
    <3>1. n - 1 = size /\ n - 1 \in 1 .. size
      BY <1>1, <1>5, <2>1, <2>3
    <3>2. g[n - 1] = way[n - 1] /\ g[n] = 0
      BY <1>4, <2>1, <2>3
    <3>3. store[way[n - 1]] = 0
      BY <1>1, <3>1
    <3> QED BY <3>2, <3>3
  <2>4. CASE ~(n <= size) /\ ~(n - 1 <= size)
    BY <1>4, <2>1, <2>4
  <2> QED BY <2>2, <2>3, <2>4
<1>6. 1 \in 1 .. top /\ g[1] = first
  <2>1. 1 \in 1 .. top /\ (1 <= size <=> size # 0)
    BY <1>1, <1>2
  <2> QED BY <1>1, <1>4, <2>1
<1>7. Follows(g)
  <2>1. \A n \in 1 .. top : g[n] = IF n = 1 THEN first ELSE IF g[n - 1] = 0 THEN 0 ELSE store[g[n - 1]]
    BY <1>5, <1>6
  <2>2. g = [n \in 1 .. top |-> g[n]]
    BY SMTT(60)
  <2> HIDE DEF g
  <2> QED BY <2>1, <2>2
<1> HIDE DEF g
<1>8. Follows(at)
  BY <1>7, ZenonT(60)
<1>9. DOMAIN at = 1 .. top
      /\ \A n \in 1 .. top : at[n] = IF n = 1 THEN first ELSE IF at[n - 1] = 0 THEN 0 ELSE store[at[n - 1]]
  <2>1. at = [n \in 1 .. top |-> IF n = 1 THEN first ELSE IF at[n - 1] = 0 THEN 0 ELSE store[at[n - 1]]]
    BY <1>8, ZenonT(60)
  <2> HIDE DEF at
  <2> QED BY <2>1, ZenonT(60)
<1> HIDE DEF at, Follows
<1>10. \A n \in 1 .. top : at[n] = g[n]
  <2> DEFINE Wrong == {n \in 1 .. top : at[n] # g[n]}
  <2> SUFFICES ASSUME Wrong # {} PROVE FALSE
    OBVIOUS
  <2>1. Wrong \in SUBSET Nat
    BY <1>2
  <2>2. PICK k \in Wrong : \A j \in Wrong : k <= j
    BY <2>1, LeastMember
  <2>3. k \in 1 .. top /\ at[k] # g[k] /\ k \in Nat
    BY <2>2
  <2>4. k # 1
    BY <1>6, <1>9, <2>3
  <2>5. k - 1 \in 1 .. top /\ ~(k <= k - 1)
    BY <1>2, <2>3, <2>4
  <2>6. at[k - 1] = g[k - 1]
    BY <2>2, <2>5
  <2> QED BY <1>5, <1>9, <2>3, <2>4, <2>6
<1>11. {m \in DOMAIN at : at[m] # 0} = 1 .. size
  <2>1. \A m \in 1 .. size : m \in 1 .. top /\ m <= size /\ way[m] # 0
    BY <1>1, <1>2
  <2>2. \A m \in 1 .. top : m <= size => m \in 1 .. size
    BY <1>1, <1>2
  <2> QED BY <1>4, <1>9, <1>10, <2>1, <2>2
<1>12. \A m \in 1 .. size : at[m] = way[m]
  <2>1. \A m \in 1 .. size : m \in 1 .. top /\ m <= size
    BY <1>1, <1>2
  <2> QED BY <1>4, <1>10, <2>1
<1>13. Linked!ToArray = [m \in 1 .. size |-> way[m]]
  BY <1>3, <1>11, <1>12
<1>14. way = [m \in 1 .. size |-> way[m]]
  BY <1>1
<1> QED BY <1>13, <1>14

LEMMA LinkedReads ==
    ASSUME LinkedInv
    PROVE  Linked!LayoutSound /\ Linked!ReadsAgree
<1>1. PICK way : Way(way, store, first, last, size)
  BY DEF LinkedInv
<1>2. Linked!ToArray = way
  BY <1>1, WayIsArray
<1>3. /\ size \in Nat /\ Len(way) = size /\ (first = 0 <=> size = 0)
      /\ \A i \in 1 .. size : way[i] \in 1 .. Len(store) /\ store[way[i]] = IF i = size THEN 0 ELSE way[i + 1]
      /\ Len(store) \in Nat
  BY <1>1, WayFacts
<1>4. first = IF size = 0 THEN 0 ELSE way[1]
  BY <1>1 DEF Way
<1>5. size # 0 => last = way[size] /\ size \in 1 .. size
  BY <1>1, <1>3 DEF Way
<1>6. Linked!LayoutSound
  BY <1>2, <1>3, <1>5 DEF Linked!LayoutSound, Linked!Nil
<1>7. Linked!ReadsAgree
  <2>1. Linked!First = IF size = 0 THEN None ELSE way[1]
    BY <1>3, <1>4 DEF Linked!First, Linked!Nil
  <2>2. size > 0 => Linked!LastItem = way[size]
    BY <1>3, <1>5 DEF Linked!LastItem, Linked!Nil
  <2> QED BY <1>2, <2>1, <2>2 DEF Linked!ReadsAgree
<1> QED BY <1>6, <1>7

(* The way with a node added at its end or its front, or without the first.*)
LEMMA WayPush ==
    ASSUME NEW way, NEW next, NEW head, NEW tail, NEW n, Way(way, next, head, tail, n),
           NEW ix, ix = Len(next) + 1, NEW next2 \in Seq(Nat), Len(next2) = ix, next2[ix] = 0,
           \A i \in 1 .. Len(next) : next2[i] = IF n # 0 /\ i = tail THEN ix ELSE next[i]
    PROVE  Way(Append(way, ix), next2, IF n = 0 THEN ix ELSE head, ix, n + 1)
<1> DEFINE k == Len(next)
           longer == Append(way, ix)
<1>1. /\ k \in Nat /\ n \in Nat /\ n <= k /\ Len(way) = n
      /\ \A i \in 1 .. n : way[i] \in 1 .. k /\ next[way[i]] = IF i = n THEN 0 ELSE way[i + 1]
  BY WayFacts
<1>2. /\ way \in Seq(1 .. k) /\ (n # 0 => tail = way[n]) /\ head = IF n = 0 THEN 0 ELSE way[1]
      /\ \A i \in 1 .. k : next[i] \in 0 .. k
  BY DEF Way
<1>3. ix = k + 1 /\ ix \in Nat /\ Len(next2) = ix /\ ix \in 1 .. ix
  BY <1>1
<1> HIDE DEF k
<1>4. longer \in Seq(1 .. ix) /\ Len(longer) = n + 1 /\ longer[n + 1] = ix
      /\ \A i \in 1 .. n : longer[i] = way[i]
  <2>1. way \in Seq(1 .. ix)
    <3>1. 1 .. k \subseteq 1 .. ix
      BY <1>1, <1>3
    <3> QED BY <1>2, <3>1, SeqMonotonic
  <2> QED BY <1>1, <1>3, <2>1
<1> HIDE DEF longer
<1>5. \A i \in 1 .. ix : next2[i] \in 0 .. ix
  <2> SUFFICES ASSUME NEW i \in 1 .. ix PROVE next2[i] \in 0 .. ix
    OBVIOUS
  <2>1. CASE i = ix  BY <2>1, <1>3
  <2>2. CASE i # ix
    <3>1. i \in 1 .. k
      BY <2>2, <1>1, <1>3
    <3>2. next[i] \in 0 .. ix
      BY <1>1, <1>2, <1>3, <3>1
    <3>3. next2[i] = IF n # 0 /\ i = tail THEN ix ELSE next[i]
      BY <3>1 DEF k
    <3> QED BY <1>3, <3>2, <3>3
  <2> QED BY <2>1, <2>2
<1>6. ASSUME NEW i \in 1 .. n + 1
      PROVE  next2[longer[i]] = IF i = n + 1 THEN 0 ELSE longer[i + 1]
  <2>1. CASE i = n + 1
    BY <2>1, <1>4
  <2>2. CASE i = n /\ i # n + 1
    <3>1. n \in 1 .. n /\ n # 0 /\ longer[i] = tail /\ tail \in 1 .. k
      BY <2>2, <1>1, <1>2, <1>4
    <3>2. next2[tail] = ix
      BY <3>1 DEF k
    <3> QED BY <2>2, <3>1, <3>2, <1>4
  <2>3. CASE i # n /\ i # n + 1
    <3>1. i \in 1 .. n /\ i + 1 \in 1 .. n /\ n \in 1 .. n
      BY <2>3, <1>1
    <3>2. next[way[i]] = way[i + 1] /\ way[i + 1] # 0 /\ next[way[n]] = 0 /\ way[i] \in 1 .. k
      BY <3>1, <2>3, <1>1, SMTT(60)
    <3>3. way[i] # tail
      BY <3>1, <3>2, <1>2, SMTT(60)
    <3>4. next2[way[i]] = next[way[i]]
      BY <3>2, <3>3 DEF k
    <3> QED BY <3>1, <3>2, <3>4, <2>3, <1>4
  <2> QED BY <2>1, <2>2, <2>3
<1>7. (IF n = 0 THEN ix ELSE head) = longer[1]
  <2>1. n # 0 => 1 \in 1 .. n
    BY <1>1
  <2>2. n = 0 => n + 1 = 1
    OBVIOUS
  <2> QED BY <1>2, <1>4, <2>1, <2>2
<1>8. n + 1 \in Nat /\ n + 1 <= ix /\ n + 1 # 0 /\ ix \in 0 .. ix
  BY <1>1, <1>3
<1> QED BY <1>3, <1>4, <1>5, <1>6, <1>7, <1>8 DEF Way, longer

LEMMA WayUnshift ==
    ASSUME NEW way, NEW next, NEW head, NEW tail, NEW n, Way(way, next, head, tail, n),
           NEW ix, ix = Len(next) + 1, NEW next2 \in Seq(Nat), Len(next2) = ix, next2[ix] = head,
           \A i \in 1 .. Len(next) : next2[i] = next[i]
    PROVE  Way(<<ix>> \o way, next2, ix, IF n = 0 THEN ix ELSE tail, n + 1)
<1> DEFINE k == Len(next)
           longer == <<ix>> \o way
<1>1. /\ k \in Nat /\ n \in Nat /\ n <= k /\ Len(way) = n
      /\ \A i \in 1 .. n : way[i] \in 1 .. k /\ next[way[i]] = IF i = n THEN 0 ELSE way[i + 1]
  BY WayFacts
<1>2. /\ way \in Seq(1 .. k) /\ (n # 0 => tail = way[n]) /\ head = IF n = 0 THEN 0 ELSE way[1]
      /\ (\A i \in 1 .. k : next[i] \in 0 .. k) /\ tail \in 0 .. k
  BY DEF Way
<1>3. ix = k + 1 /\ ix \in Nat /\ Len(next2) = ix /\ ix \in 1 .. ix
  BY <1>1
<1> HIDE DEF k
<1>4. longer \in Seq(1 .. ix) /\ Len(longer) = n + 1 /\ longer[1] = ix
      /\ \A i \in 1 .. n : longer[i + 1] = way[i]
  <2>1. way \in Seq(1 .. ix)
    <3>1. 1 .. k \subseteq 1 .. ix
      BY <1>1, <1>3
    <3> QED BY <1>2, <3>1, SeqMonotonic
  <2> QED BY <1>1, <1>3, <2>1
<1> HIDE DEF longer
<1>5. \A i \in 1 .. ix : next2[i] \in 0 .. ix
  <2> SUFFICES ASSUME NEW i \in 1 .. ix PROVE next2[i] \in 0 .. ix
    OBVIOUS
  <2>1. CASE i = ix
    <3>1. n # 0 => 1 \in 1 .. n
      BY <1>1
    <3> QED BY <2>1, <3>1, <1>1, <1>2, <1>3
  <2>2. CASE i # ix
    <3>1. i \in 1 .. k
      BY <2>2, <1>1, <1>3
    <3>2. next[i] \in 0 .. ix
      BY <1>1, <1>2, <1>3, <3>1, SMTT(60)
    <3> QED BY <3>1, <3>2 DEF k
  <2> QED BY <2>1, <2>2
<1>6. ASSUME NEW i \in 1 .. n + 1
      PROVE  next2[longer[i]] = IF i = n + 1 THEN 0 ELSE longer[i + 1]
  <2>1. CASE i = 1
    <3>1. n # 0 => 1 \in 1 .. n
      BY <1>1
    <3>2. n = 0 <=> i = n + 1
      BY <2>1, <1>1
    <3> QED BY <2>1, <3>1, <3>2, <1>2, <1>4
  <2>2. CASE i # 1
    <3> DEFINE j == i - 1
    <3>1. j \in 1 .. n /\ j + 1 = i /\ (j = n <=> i = n + 1) /\ (j # n => j + 1 \in 1 .. n)
      BY <2>2, <1>1
    <3> HIDE DEF j
    <3>2. longer[i] = way[j] /\ way[j] \in 1 .. k /\ next2[way[j]] = next[way[j]]
      <4>1. longer[j + 1] = way[j] /\ way[j] \in 1 .. k
        BY <3>1, <1>1, <1>4
      <4> QED BY <3>1, <4>1 DEF k
    <3>3. next[way[j]] = IF j = n THEN 0 ELSE way[j + 1]
      BY <3>1, <1>1
    <3>4. j # n => longer[i + 1] = way[j + 1]
      BY <3>1, <1>4
    <3> QED BY <3>1, <3>2, <3>3, <3>4
  <2> QED BY <2>1, <2>2
<1>7. (IF n = 0 THEN ix ELSE tail) = longer[n + 1] /\ (IF n = 0 THEN ix ELSE tail) \in 0 .. ix
  <2>1. n # 0 => n \in 1 .. n
    BY <1>1
  <2>2. n = 0 => n + 1 = 1
    OBVIOUS
  <2>3. tail \in 0 .. ix
    BY <1>1, <1>2, <1>3
  <2> QED BY <1>1, <1>2, <1>3, <1>4, <2>1, <2>2, <2>3
<1>8. n + 1 \in Nat /\ n + 1 <= ix /\ n + 1 # 0
  BY <1>1, <1>3
<1> QED BY <1>3, <1>4, <1>5, <1>6, <1>7, <1>8 DEF Way, longer

LEMMA WayShift ==
    ASSUME NEW way, NEW next, NEW head, NEW tail, NEW n, Way(way, next, head, tail, n), head # 0
    PROVE  Way(Tail(way), next, next[head], tail, n - 1)
<1> DEFINE k == Len(next)
           rest == Tail(way)
           m == n - 1
<1>1. /\ k \in Nat /\ n \in Nat /\ n <= k /\ Len(way) = n /\ n # 0
      /\ \A i \in 1 .. n : way[i] \in 1 .. k /\ next[way[i]] = IF i = n THEN 0 ELSE way[i + 1]
  BY WayFacts
<1>2. /\ way \in Seq(1 .. k) /\ tail = way[n] /\ head = way[1] /\ tail \in 0 .. k
      /\ next \in Seq(Nat) /\ \A i \in 1 .. k : next[i] \in 0 .. k
  BY <1>1 DEF Way
<1>3. m \in Nat /\ m + 1 = n /\ m <= k /\ n - 1 = m
  BY <1>1
<1> HIDE DEF k, m
<1>4. way # <<>>
  BY <1>1, <1>2, EmptyContents
<1>5. rest \in Seq(1 .. k) /\ Len(rest) = m
  BY <1>1, <1>2, <1>3, <1>4
<1>6. \A i \in 1 .. m : rest[i] = way[i + 1]
  BY <1>1, <1>2, <1>3, <1>4
<1> HIDE DEF rest
<1>7. next[head] = IF m = 0 THEN 0 ELSE rest[1]
  <2>1. 1 \in 1 .. n /\ (1 = n <=> m = 0) /\ (m # 0 => 1 \in 1 .. m)
    BY <1>1, <1>3
  <2>2. m # 0 => rest[1] = way[1 + 1]
    BY <2>1, <1>6
  <2> QED BY <2>1, <2>2, <1>1, <1>2
<1>8. m # 0 => tail = rest[m]
  <2>1. m # 0 => m \in 1 .. m
    BY <1>3
  <2> QED BY <2>1, <1>2, <1>3, <1>6
<1>9. ASSUME NEW i \in 1 .. m
      PROVE  next[rest[i]] = IF i = m THEN 0 ELSE rest[i + 1]
  <2>1. i + 1 \in 1 .. n /\ (i + 1 = n <=> i = m) /\ (i # m => i + 1 \in 1 .. m)
    BY <1>1, <1>3
  <2> QED BY <2>1, <1>1, <1>6
<1> QED BY <1>2, <1>3, <1>5, <1>7, <1>8, <1>9 DEF Way, rest, k

(* A node that is added ranks one above the tail, or one below the head.   *)
Ranked(rank, ix, r) == [i \in 1 .. ix |-> IF i = ix THEN r ELSE rank[i]]

LEMMA RankPush ==
    ASSUME NEW way, NEW next, NEW head, NEW tail, NEW n, Way(way, next, head, tail, n),
           NEW rank, Rank(rank, next),
           NEW ix, ix = Len(next) + 1, NEW next2 \in Seq(Nat), Len(next2) = ix, next2[ix] = 0,
           \A i \in 1 .. Len(next) : next2[i] = IF n # 0 /\ i = tail THEN ix ELSE next[i]
    PROVE  \E r \in Int : Rank(Ranked(rank, ix, r), next2)
<1> DEFINE k == Len(next)
           r == IF n = 0 THEN 0 ELSE rank[tail] + 1
           after == Ranked(rank, ix, r)
<1>1. /\ k \in Nat /\ n \in Nat /\ ix = k + 1 /\ Len(next2) = ix
      /\ \A i \in 1 .. n : way[i] \in 1 .. k
  BY WayFacts
<1>2. n # 0 => tail \in 1 .. k
  <2>1. n # 0 => n \in 1 .. n
    BY <1>1
  <2> QED BY <1>1, <2>1 DEF Way
<1>3. rank \in [1 .. k -> Int] /\ \A i \in 1 .. k : next[i] # 0 => rank[i] < rank[next[i]]
  BY DEF Rank
<1>4. \A i \in 1 .. k : next[i] # 0 => next[i] \in 1 .. k
  <2>1. \A i \in 1 .. k : next[i] \in 0 .. k
    BY DEF Way
  <2> QED BY <1>1, <2>1
<1>5. \A i \in 1 .. k : next2[i] = IF n # 0 /\ i = tail THEN ix ELSE next[i]
  OBVIOUS
<1> HIDE DEF k
<1>6. r \in Int /\ (n # 0 => r = rank[tail] + 1 /\ rank[tail] \in Int)
  BY <1>2, <1>3
<1> HIDE DEF r
<1>7. /\ after \in [1 .. ix -> Int] /\ after[ix] = r
      /\ \A i \in 1 .. k : after[i] = rank[i]
  <2>1. \A i \in 1 .. k : i \in 1 .. ix /\ i # ix
    BY <1>1
  <2>2. ix \in 1 .. ix
    BY <1>1
  <2>3. \A i \in 1 .. ix : i # ix => i \in 1 .. k
    BY <1>1
  <2>4. after \in [1 .. ix -> Int]
    <3>1. \A i \in 1 .. ix : (IF i = ix THEN r ELSE rank[i]) \in Int
      BY <1>3, <1>6, <2>3
    <3> QED BY <3>1 DEF Ranked
  <2> QED BY <2>1, <2>2, <2>4 DEF Ranked
<1> HIDE DEF after
<1>8. ASSUME NEW i \in 1 .. ix, next2[i] # 0
      PROVE  after[i] < after[next2[i]]
  <2>1. i \in 1 .. k
    <3>1. i # ix
      BY <1>8
    <3> QED BY <3>1, <1>1
  <2>2. CASE n # 0 /\ i = tail
    <3>1. next2[i] = ix /\ after[i] = rank[tail] /\ after[ix] = r
      BY <2>1, <2>2, <1>5, <1>7
    <3>2. rank[tail] < r
      BY <2>2, <1>6
    <3> QED BY <3>1, <3>2
  <2>3. CASE ~(n # 0 /\ i = tail)
    <3>1. next2[i] = next[i]
      BY <2>1, <2>3, <1>5
    <3>2. next[i] \in 1 .. k
      BY <3>1, <2>1, <1>4, <1>8
    <3>3. rank[i] < rank[next[i]]
      BY <3>1, <2>1, <1>3, <1>8
    <3>4. after[i] = rank[i] /\ after[next[i]] = rank[next[i]]
      BY <2>1, <3>2, <1>7
    <3> QED BY <3>1, <3>3, <3>4
  <2> QED BY <2>2, <2>3
<1>9. Rank(after, next2)
  BY <1>1, <1>7, <1>8 DEF Rank
<1> QED BY <1>6, <1>9 DEF after

LEMMA RankUnshift ==
    ASSUME NEW way, NEW next, NEW head, NEW tail, NEW n, Way(way, next, head, tail, n),
           NEW rank, Rank(rank, next),
           NEW ix, ix = Len(next) + 1, NEW next2 \in Seq(Nat), Len(next2) = ix, next2[ix] = head,
           \A i \in 1 .. Len(next) : next2[i] = next[i]
    PROVE  \E r \in Int : Rank(Ranked(rank, ix, r), next2)
<1> DEFINE k == Len(next)
           r == IF head = 0 THEN 0 ELSE rank[head] - 1
           after == Ranked(rank, ix, r)
<1>1. /\ k \in Nat /\ ix = k + 1 /\ Len(next2) = ix
      /\ \A i \in 1 .. n : way[i] \in 1 .. k
  BY WayFacts
<1>2. head # 0 => head \in 1 .. k
  <2>1. n \in Nat /\ (head # 0 => n # 0) /\ (n # 0 => 1 \in 1 .. n)
    BY WayFacts
  <2> QED BY <1>1, <2>1 DEF Way
<1>3. rank \in [1 .. k -> Int] /\ \A i \in 1 .. k : next[i] # 0 => rank[i] < rank[next[i]]
  BY DEF Rank
<1>4. \A i \in 1 .. k : next[i] # 0 => next[i] \in 1 .. k
  <2>1. \A i \in 1 .. k : next[i] \in 0 .. k
    BY DEF Way
  <2> QED BY <1>1, <2>1
<1>5. \A i \in 1 .. k : next2[i] = next[i]
  OBVIOUS
<1> HIDE DEF k
<1>6. r \in Int /\ (head # 0 => r = rank[head] - 1 /\ rank[head] \in Int)
  BY <1>2, <1>3
<1> HIDE DEF r
<1>7. /\ after \in [1 .. ix -> Int] /\ after[ix] = r
      /\ \A i \in 1 .. k : after[i] = rank[i]
  <2>1. \A i \in 1 .. k : i \in 1 .. ix /\ i # ix
    BY <1>1
  <2>2. ix \in 1 .. ix
    BY <1>1
  <2>3. \A i \in 1 .. ix : i # ix => i \in 1 .. k
    BY <1>1
  <2>4. after \in [1 .. ix -> Int]
    <3>1. \A i \in 1 .. ix : (IF i = ix THEN r ELSE rank[i]) \in Int
      BY <1>3, <1>6, <2>3
    <3> QED BY <3>1 DEF Ranked
  <2> QED BY <2>1, <2>2, <2>4 DEF Ranked
<1> HIDE DEF after
<1>8. ASSUME NEW i \in 1 .. ix, next2[i] # 0
      PROVE  after[i] < after[next2[i]]
  <2>1. CASE i = ix
    <3>1. head # 0 /\ next2[i] = head
      BY <2>1, <1>8
    <3>2. after[i] = r /\ after[head] = rank[head] /\ r < rank[head]
      BY <2>1, <3>1, <1>2, <1>6, <1>7
    <3> QED BY <3>1, <3>2
  <2>2. CASE i # ix
    <3>1. i \in 1 .. k
      BY <2>2, <1>1
    <3>2. next2[i] = next[i] /\ next[i] # 0
      BY <3>1, <1>5, <1>8
    <3>3. next[i] \in 1 .. k /\ rank[i] < rank[next[i]]
      BY <3>1, <3>2, <1>3, <1>4
    <3>4. after[i] = rank[i] /\ after[next[i]] = rank[next[i]]
      BY <3>1, <3>3, <1>7
    <3> QED BY <3>2, <3>3, <3>4
  <2> QED BY <2>1, <2>2
<1>9. Rank(after, next2)
  BY <1>1, <1>7, <1>8 DEF Rank
<1> QED BY <1>6, <1>9 DEF after

LEMMA ClimbsOn ==
    ASSUME NEW w, NEW rank, NEW n \in Nat, Climbs(w, rank, n), NEW r \in Int
    PROVE  Climbs(w, Ranked(rank, n + 1, r), n + 1)
<1> DEFINE after == Ranked(rank, n + 1, r)
<1>1. /\ w \in [current : 0 .. n, seen : Seq(1 .. n), fresh : BOOLEAN, ended : BOOLEAN]
      /\ \A i, j \in DOMAIN w.seen : i < j => rank[w.seen[i]] < rank[w.seen[j]]
      /\ w.current # 0 => \A i \in DOMAIN w.seen : rank[w.seen[i]] < rank[w.current]
      /\ w.ended => w.current = 0
  BY DEF Climbs
<1>2. \A i \in 1 .. n : after[i] = rank[i]
  <2>1. \A i \in 1 .. n : i \in 1 .. n + 1 /\ i # n + 1
    OBVIOUS
  <2> QED BY <2>1 DEF Ranked
<1> HIDE DEF after
<1>3. w.seen \in Seq(1 .. n) /\ w.current \in 0 .. n
  BY <1>1
<1>4. \A i \in DOMAIN w.seen : w.seen[i] \in 1 .. n
  BY <1>3, ElementOfSeq, LenProperties
<1>5. w.seen \in Seq(1 .. n + 1) /\ w.current \in 0 .. n + 1 /\ (w.current # 0 => w.current \in 1 .. n)
  <2>1. 1 .. n \subseteq 1 .. n + 1
    OBVIOUS
  <2>2. w.seen \in Seq(1 .. n + 1)
    BY <1>3, <2>1, SeqMonotonic
  <2> QED BY <1>3, <2>2
<1>6. w \in [current : 0 .. n + 1, seen : Seq(1 .. n + 1), fresh : BOOLEAN, ended : BOOLEAN]
  BY <1>1, <1>5
<1>7. \A i, j \in DOMAIN w.seen : i < j => after[w.seen[i]] < after[w.seen[j]]
  BY <1>1, <1>2, <1>4
<1>8. w.current # 0 => \A i \in DOMAIN w.seen : after[w.seen[i]] < after[w.current]
  BY <1>1, <1>2, <1>4, <1>5
<1> QED BY <1>1, <1>6, <1>7, <1>8 DEF Climbs, after

LEMMA ClimbsCalled ==
    ASSUME NEW w, NEW rank, NEW n, Climbs(w, rank, n)
    PROVE  Climbs([w EXCEPT !.fresh = FALSE], rank, n) /\ ~[w EXCEPT !.fresh = FALSE].fresh
<1> DEFINE v == [w EXCEPT !.fresh = FALSE]
<1>1. w \in [current : 0 .. n, seen : Seq(1 .. n), fresh : BOOLEAN, ended : BOOLEAN]
  BY DEF Climbs
<1>2. /\ v.current = w.current /\ v.seen = w.seen /\ v.fresh = FALSE /\ v.ended = w.ended
      /\ v \in [current : 0 .. n, seen : Seq(1 .. n), fresh : BOOLEAN, ended : BOOLEAN]
  BY <1>1
<1> HIDE DEF v
<1>3. Climbs(v, rank, n) /\ ~v.fresh
  BY <1>2 DEF Climbs
<1> QED BY <1>3 DEF v

LEMMA LinkedCalled ==
    ASSUME NEW way, NEW rank, Len(store') <= MaxItems,
           Way(way, store', first', last', size'), Rank(rank, store'),
           Climbs(walk, rank, Len(store')), walk' = [walk EXCEPT !.fresh = FALSE]
    PROVE  LinkedInv'
<1>1. Climbs(walk', rank, Len(store')) /\ ~walk'.fresh
  BY ClimbsCalled
<1> QED BY <1>1 DEF LinkedInv

LEMMA LinkedClear ==
    ASSUME LinkedInv, Linked!Clear
    PROVE  LinkedInv'
<1>1. PICK way, rank : Way(way, store, first, last, size) /\ Rank(rank, store) /\ Climbs(walk, rank, Len(store))
  BY DEF LinkedInv
<1>2. /\ first' = 0 /\ last' = 0 /\ size' = 0 /\ store' = store
      /\ walk' = [walk EXCEPT !.fresh = FALSE]
  BY DEF Linked!Clear, Linked!Called, Linked!Nil
<1>3. Way(<<>>, store, 0, 0, 0)
  <2>1. Len(store) \in Nat /\ store \in Seq(Nat) /\ \A i \in 1 .. Len(store) : store[i] \in 0 .. Len(store)
    BY <1>1, WayFacts DEF Way
  <2>2. <<>> \in Seq(1 .. Len(store)) /\ Len(<<>>) = 0 /\ 0 \in 0 .. Len(store) /\ 0 <= Len(store) /\ 0 \in Nat
    BY <2>1
  <2>3. ~\E i \in 1 .. 0 : TRUE
    OBVIOUS
  <2> QED BY <2>1, <2>2, <2>3 DEF Way
<1>4. Len(store) <= MaxItems
  BY DEF LinkedInv
<1> QED BY <1>1, <1>2, <1>3, <1>4, LinkedCalled

LEMMA LinkedPush ==
    ASSUME LinkedInv, Linked!Push
    PROVE  /\ LinkedInv'
           /\ \A way : Way(way, store, first, last, size) =>
                  Way(Append(way, Len(store) + 1), store', first', last', size')
<1> DEFINE ix == Len(store) + 1
           linked == IF first = 0 THEN store ELSE [store EXCEPT ![last] = ix]
<1>1. /\ store' = Append(linked, 0)
      /\ first' = IF first = 0 THEN ix ELSE first
      /\ last' = ix /\ size' = size + 1 /\ ix <= MaxItems
      /\ walk' = [walk EXCEPT !.fresh = FALSE]
  BY DEF Linked!Push, Linked!Called, Linked!Nil
<1>2. PICK way0, rank : Way(way0, store, first, last, size) /\ Rank(rank, store) /\ Climbs(walk, rank, Len(store))
  BY DEF LinkedInv
<1>3. /\ store \in Seq(Nat) /\ Len(store) \in Nat /\ size \in Nat /\ (first = 0 <=> size = 0)
      /\ DOMAIN store = 1 .. Len(store)
  BY <1>2, WayFacts DEF Way
<1>4. ix \in Nat /\ ix = Len(store) + 1
  BY <1>3
<1> HIDE DEF ix
<1>5. size # 0 => last \in 1 .. Len(store)
  <2>1. size # 0 => size \in 1 .. size
    BY <1>3
  <2> QED BY <2>1, <1>2, WayFacts DEF Way
<1>6. linked \in Seq(Nat) /\ Len(linked) = Len(store)
      /\ \A i \in 1 .. Len(store) : linked[i] = IF size # 0 /\ i = last THEN ix ELSE store[i]
  <2>1. CASE size = 0
    BY <2>1, <1>3
  <2>2. CASE size # 0
    BY <2>2, <1>3, <1>4, <1>5
  <2> QED BY <2>1, <2>2
<1> HIDE DEF linked
<1>7. /\ store' \in Seq(Nat) /\ Len(store') = ix /\ store'[ix] = 0
      /\ \A i \in 1 .. Len(store) : store'[i] = IF size # 0 /\ i = last THEN ix ELSE store[i]
  <2>1. \A i \in 1 .. Len(store) : store'[i] = linked[i]
    BY <1>1, <1>3, <1>6
  <2>2. store' \in Seq(Nat) /\ Len(store') = ix /\ store'[ix] = 0
    BY <1>1, <1>3, <1>4, <1>6
  <2> QED BY <2>1, <2>2, <1>6
<1>8. \A way : Way(way, store, first, last, size) => Way(Append(way, ix), store', first', last', size')
  <2> SUFFICES ASSUME NEW way, Way(way, store, first, last, size)
               PROVE  Way(Append(way, ix), store', first', last', size')
    OBVIOUS
  <2>1. Way(Append(way, ix), store', IF size = 0 THEN ix ELSE first, ix, size + 1)
    BY <1>4, <1>7, WayPush
  <2>2. first' = IF size = 0 THEN ix ELSE first
    BY <1>1, <1>3
  <2> QED BY <1>1, <2>1, <2>2
<1>9. PICK r \in Int : Rank(Ranked(rank, ix, r), store')
  BY <1>2, <1>4, <1>7, RankPush
<1>10. Climbs(walk, Ranked(rank, ix, r), ix)
  BY <1>2, <1>3, <1>4, ClimbsOn
<1>11. LinkedInv'
  <2>1. Way(Append(way0, ix), store', first', last', size')
    BY <1>2, <1>8
  <2>2. Len(store') <= MaxItems /\ Climbs(walk, Ranked(rank, ix, r), Len(store'))
    BY <1>1, <1>7, <1>10
  <2> QED BY <1>1, <1>9, <2>1, <2>2, LinkedCalled
<1> QED BY <1>8, <1>11 DEF ix

LEMMA LinkedUnshift ==
    ASSUME LinkedInv, Linked!Unshift
    PROVE  /\ LinkedInv'
           /\ \A way : Way(way, store, first, last, size) =>
                  Way(<<Len(store) + 1>> \o way, store', first', last', size')
<1> DEFINE ix == Len(store) + 1
<1>1. /\ store' = Append(store, first) /\ first' = ix
      /\ last' = (IF first = 0 THEN ix ELSE last) /\ size' = size + 1 /\ ix <= MaxItems
      /\ walk' = [walk EXCEPT !.fresh = FALSE]
  BY DEF Linked!Unshift, Linked!Called, Linked!Nil
<1>2. PICK way0, rank : Way(way0, store, first, last, size) /\ Rank(rank, store) /\ Climbs(walk, rank, Len(store))
  BY DEF LinkedInv
<1>3. /\ store \in Seq(Nat) /\ Len(store) \in Nat /\ size \in Nat /\ (first = 0 <=> size = 0)
      /\ DOMAIN store = 1 .. Len(store)
  BY <1>2, WayFacts DEF Way
<1>4. ix \in Nat /\ ix = Len(store) + 1
  BY <1>3
<1> HIDE DEF ix
<1>5. first \in Nat
  <2>1. size # 0 => 1 \in 1 .. size
    BY <1>3
  <2>2. \A i \in 1 .. size : way0[i] \in 1 .. Len(store)
    BY <1>2, WayFacts
  <2>3. first = IF size = 0 THEN 0 ELSE way0[1]
    BY <1>2 DEF Way
  <2> QED BY <2>1, <2>2, <2>3
<1>7. /\ store' \in Seq(Nat) /\ Len(store') = ix /\ store'[ix] = first
      /\ \A i \in 1 .. Len(store) : store'[i] = store[i]
  BY <1>1, <1>3, <1>4, <1>5
<1>8. \A way : Way(way, store, first, last, size) => Way(<<ix>> \o way, store', first', last', size')
  <2> SUFFICES ASSUME NEW way, Way(way, store, first, last, size)
               PROVE  Way(<<ix>> \o way, store', first', last', size')
    OBVIOUS
  <2>1. Way(<<ix>> \o way, store', ix, IF size = 0 THEN ix ELSE last, size + 1)
    BY <1>4, <1>7, WayUnshift
  <2>2. last' = IF size = 0 THEN ix ELSE last
    BY <1>1, <1>3
  <2> QED BY <1>1, <2>1, <2>2
<1>9. PICK r \in Int : Rank(Ranked(rank, ix, r), store')
  BY <1>2, <1>4, <1>7, RankUnshift
<1>10. Climbs(walk, Ranked(rank, ix, r), ix)
  BY <1>2, <1>3, <1>4, ClimbsOn
<1>11. LinkedInv'
  <2>1. Way(<<ix>> \o way0, store', first', last', size')
    BY <1>2, <1>8
  <2>2. Len(store') <= MaxItems /\ Climbs(walk, Ranked(rank, ix, r), Len(store'))
    BY <1>1, <1>7, <1>10
  <2> QED BY <1>1, <1>9, <2>1, <2>2, LinkedCalled
<1> QED BY <1>8, <1>11 DEF ix

LEMMA LinkedShift ==
    ASSUME LinkedInv, Linked!Shift
    PROVE  LinkedInv'
<1>1. PICK way, rank : Way(way, store, first, last, size) /\ Rank(rank, store) /\ Climbs(walk, rank, Len(store))
  BY DEF LinkedInv
<1>2. /\ store' = store /\ last' = last /\ walk' = [walk EXCEPT !.fresh = FALSE]
      /\ Len(store) <= MaxItems
  BY DEF Linked!Shift, Linked!Called, LinkedInv
<1>3. \E rest : Way(rest, store', first', last', size')
  <2>1. CASE first = 0
    <3>1. first' = first /\ size' = size
      BY <2>1 DEF Linked!Shift, Linked!Nil
    <3> QED BY <3>1, <1>1, <1>2
  <2>2. CASE first # 0
    <3>1. first' = store[first] /\ size' = size - 1
      BY <2>2 DEF Linked!Shift, Linked!Nil
    <3>2. Way(Tail(way), store, store[first], last, size - 1)
      BY <1>1, <2>2, WayShift
    <3> QED BY <3>1, <3>2, <1>2
  <2> QED BY <2>1, <2>2
<1> QED BY <1>1, <1>2, <1>3, LinkedCalled

LEMMA OpenOnTheWay ==
    ASSUME NEW way, NEW rank, Way(way, store, first, last, size)
    PROVE  /\ Climbs(Linked!OpenCursorAt(first), rank, Len(store))
           /\ OnTheWay(Linked!OpenCursorAt(first), way, size)
<1> DEFINE w == Linked!OpenCursorAt(first)
<1>1. w.current = first /\ w.seen = <<>> /\ w.fresh = TRUE /\ w.ended = FALSE
  BY DEF Linked!OpenCursorAt
<1>2. Len(store) \in Nat /\ size \in Nat /\ first = (IF size = 0 THEN 0 ELSE way[1]) /\ first \in 0 .. Len(store)
  <2>1. Len(store) \in Nat /\ size \in Nat /\ \A i \in 1 .. size : way[i] \in 1 .. Len(store)
    BY WayFacts
  <2>2. first = IF size = 0 THEN 0 ELSE way[1]
    BY DEF Way
  <2>3. size # 0 => 1 \in 1 .. size
    BY <2>1
  <2> QED BY <2>1, <2>2, <2>3
<1>3. w \in [current : 0 .. Len(store), seen : Seq(1 .. Len(store)), fresh : BOOLEAN, ended : BOOLEAN]
  BY <1>2 DEF Linked!OpenCursorAt
<1> HIDE DEF w
<1>4. DOMAIN w.seen = {} /\ Len(w.seen) = 0 /\ 1 .. 0 = {}
  BY <1>1
<1>5. Climbs(w, rank, Len(store))
  BY <1>1, <1>3, <1>4 DEF Climbs
<1>6. OnTheWay(w, way, size)
  <2>1. w.current = IF Len(w.seen) = size THEN 0 ELSE way[Len(w.seen) + 1]
    BY <1>1, <1>2, <1>4
  <2>2. Len(w.seen) <= size /\ 1 .. Len(w.seen) = {}
    BY <1>2, <1>4
  <2> QED BY <2>1, <2>2 DEF OnTheWay
<1> QED BY <1>5, <1>6 DEF w

LEMMA LinkedOpenWalk ==
    ASSUME LinkedInv, Linked!OpenWalk
    PROVE  LinkedInv'
<1>1. PICK way, rank : Way(way, store, first, last, size) /\ Rank(rank, store)
  BY DEF LinkedInv
<1>2. /\ walk' = Linked!OpenCursorAt(first) /\ UNCHANGED <<store, first, last, size>>
      /\ Len(store) <= MaxItems
  BY DEF Linked!OpenWalk, LinkedInv
<1>3. Climbs(walk', rank, Len(store)) /\ OnTheWay(walk', way, size)
  BY <1>1, <1>2, OpenOnTheWay
<1> QED BY <1>1, <1>2, <1>3 DEF LinkedInv

LEMMA LinkedInit ==
    ASSUME Linked!Init
    PROVE  LinkedInv
<1>1. PICK n \in 0 .. 2 :
          /\ store = [i \in 1 .. n |-> IF i < n THEN i + 1 ELSE 0]
          /\ first = (IF n = 0 THEN 0 ELSE 1) /\ last = n /\ size = n
          /\ walk = Linked!OpenCursorAt(first)
  BY DEF Linked!Init, Linked!Nil
<1> DEFINE way == [i \in 1 .. n |-> i]
<1>2. n \in Nat /\ n <= MaxItems
  BY SequencesAssumption
<1>3. store \in Seq(Nat) /\ Len(store) = n /\ \A i \in 1 .. n : store[i] = IF i < n THEN i + 1 ELSE 0
  <2>1. \A i \in 1 .. n : (IF i < n THEN i + 1 ELSE 0) \in Nat
    BY <1>2
  <2> QED BY <1>1, <1>2, <2>1
<1>4. way \in Seq(1 .. n) /\ Len(way) = n /\ \A i \in 1 .. n : way[i] = i
  BY <1>2
<1>5. way \in [1 .. n -> Int]
  BY <1>2
<1> HIDE DEF way
<1>6. Way(way, store, first, last, size)
  <2>1. \A i \in 1 .. n : store[i] \in 0 .. n
    BY <1>2, <1>3
  <2>2. n # 0 => n \in 1 .. n /\ 1 \in 1 .. n
    BY <1>2
  <2>3. \A i \in 1 .. n : store[way[i]] = IF i = n THEN 0 ELSE way[i + 1]
    <3> SUFFICES ASSUME NEW i \in 1 .. n PROVE store[way[i]] = IF i = n THEN 0 ELSE way[i + 1]
      OBVIOUS
    <3>1. i # n => i + 1 \in 1 .. n /\ i < n
      BY <1>2
    <3> QED BY <3>1, <1>2, <1>3, <1>4
  <2>4. first = (IF n = 0 THEN 0 ELSE way[1]) /\ last \in 0 .. n /\ (n # 0 => last = way[n]) /\ n <= n
    BY <1>1, <1>2, <1>4, <2>2
  <2> QED BY <1>1, <1>2, <1>3, <1>4, <2>1, <2>3, <2>4 DEF Way
<1>7. Rank(way, store)
  <2>1. \A i \in 1 .. n : store[i] # 0 => way[i] < way[store[i]]
    <3> SUFFICES ASSUME NEW i \in 1 .. n, store[i] # 0 PROVE way[i] < way[store[i]]
      OBVIOUS
    <3>1. store[i] = i + 1 /\ i + 1 \in 1 .. n
      BY <1>2, <1>3
    <3> QED BY <3>1, <1>4
  <2> QED BY <2>1, <1>3, <1>5 DEF Rank
<1>8. Climbs(walk, way, Len(store)) /\ OnTheWay(walk, way, size)
  BY <1>1, <1>6, OpenOnTheWay
<1> QED BY <1>1, <1>2, <1>3, <1>6, <1>7, <1>8 DEF LinkedInv

(* A cursor that goes on: the node it was at is the last that it has seen, *)
(* and the next one is above it, as on every way.                          *)
LEMMA LinkedStepWalk ==
    ASSUME LinkedInv, Linked!StepWalk
    PROVE  LinkedInv'
<1>1. PICK way, rank :
          /\ Way(way, store, first, last, size) /\ Rank(rank, store)
          /\ Climbs(walk, rank, Len(store))
          /\ walk.fresh => OnTheWay(walk, way, size)
  BY DEF LinkedInv
<1> DEFINE k == Len(store)
           at == walk.current
           seen == walk.seen
           seen2 == Append(seen, at)
<1>2. UNCHANGED <<store, first, last, size>> /\ k <= MaxItems
  BY DEF Linked!StepWalk, LinkedInv
<1>3. walk' = IF at = 0 THEN [walk EXCEPT !.ended = TRUE]
              ELSE [walk EXCEPT !.current = store[at], !.seen = seen2]
  BY DEF Linked!StepWalk, Linked!Nil
<1>4. /\ walk \in [current : 0 .. k, seen : Seq(1 .. k), fresh : BOOLEAN, ended : BOOLEAN]
      /\ \A i, j \in DOMAIN seen : i < j => rank[seen[i]] < rank[seen[j]]
      /\ at # 0 => \A i \in DOMAIN seen : rank[seen[i]] < rank[at]
      /\ walk.ended => at = 0
  BY <1>1 DEF Climbs
<1>5. k \in Nat /\ size \in Nat /\ Len(way) = size /\ size <= k
      /\ \A i \in 1 .. size : way[i] \in 1 .. k /\ store[way[i]] = IF i = size THEN 0 ELSE way[i + 1]
  BY <1>1, WayFacts
<1>6. /\ rank \in [1 .. k -> Int] /\ \A i \in 1 .. k : store[i] # 0 => rank[i] < rank[store[i]]
      /\ \A i \in 1 .. k : store[i] \in 0 .. k
  BY <1>1 DEF Rank, Way
<1> HIDE DEF k
<1>7. CASE at = 0
  <2> DEFINE v == [walk EXCEPT !.ended = TRUE]
  <2>1. /\ v.current = 0 /\ v.seen = seen /\ v.fresh = walk.fresh /\ v.ended = TRUE /\ walk' = v
        /\ v \in [current : 0 .. k, seen : Seq(1 .. k), fresh : BOOLEAN, ended : BOOLEAN]
    BY <1>3, <1>4, <1>7
  <2> HIDE DEF v
  <2>2. Climbs(v, rank, k)
    BY <2>1, <1>4 DEF Climbs
  <2>3. v.fresh => OnTheWay(v, way, size)
    BY <2>1, <1>1, <1>7 DEF OnTheWay
  <2> QED BY <2>1, <2>2, <2>3, <1>1, <1>2 DEF LinkedInv, k
<1>8. CASE at # 0
  <2> DEFINE v == [walk EXCEPT !.current = store[at], !.seen = seen2]
  <2>1. at \in 1 .. k /\ seen \in Seq(1 .. k)
    <3>1. at \in 0 .. k /\ seen \in Seq(1 .. k)
      BY <1>4
    <3> QED BY <3>1, <1>5, <1>8
  <2>2. Len(seen) \in Nat /\ DOMAIN seen = 1 .. Len(seen) /\ \A i \in 1 .. Len(seen) : seen[i] \in 1 .. k
    BY <2>1, ElementOfSeq, LenProperties
  <2>3. /\ seen2 \in Seq(1 .. k) /\ Len(seen2) = Len(seen) + 1 /\ DOMAIN seen2 = 1 .. Len(seen) + 1
        /\ seen2[Len(seen) + 1] = at /\ \A i \in 1 .. Len(seen) : seen2[i] = seen[i]
    BY <2>1
  <2> HIDE DEF seen2
  <2>4. store[at] \in 0 .. k
    BY <2>1, <1>6
  <2>5. /\ v.current = store[at] /\ v.seen = seen2 /\ v.fresh = walk.fresh /\ v.ended = walk.ended /\ walk' = v
        /\ v \in [current : 0 .. k, seen : Seq(1 .. k), fresh : BOOLEAN, ended : BOOLEAN]
    BY <1>3, <1>4, <1>8, <2>3, <2>4
  <2>6. ~walk.ended
    BY DEF Linked!StepWalk
  <2> HIDE DEF v
  <2>7. \A i, j \in DOMAIN seen2 : i < j => rank[seen2[i]] < rank[seen2[j]]
    <3> SUFFICES ASSUME NEW i \in DOMAIN seen2, NEW j \in DOMAIN seen2, i < j
                 PROVE  rank[seen2[i]] < rank[seen2[j]]
      OBVIOUS
    <3>1. i \in 1 .. Len(seen) /\ seen2[i] = seen[i]
      BY <2>2, <2>3
    <3>2. CASE j = Len(seen) + 1
      BY <3>1, <3>2, <2>2, <2>3, <1>4, <1>8
    <3>3. CASE j # Len(seen) + 1
      <4>1. j \in 1 .. Len(seen) /\ seen2[j] = seen[j]
        BY <3>3, <2>2, <2>3
      <4> QED BY <3>1, <4>1, <2>2, <1>4
    <3> QED BY <3>2, <3>3
  <2>8. ASSUME store[at] # 0, NEW i \in DOMAIN seen2
        PROVE  rank[seen2[i]] < rank[store[at]]
    <3>1. rank[at] < rank[store[at]] /\ rank[at] \in Int /\ rank[store[at]] \in Int
      <4>1. store[at] \in 1 .. k
        BY <2>4, <2>8, <1>5
      <4> QED BY <4>1, <2>1, <2>8, <1>6
    <3>2. CASE i = Len(seen) + 1
      BY <3>1, <3>2, <2>3
    <3>3. CASE i # Len(seen) + 1
      <4>1. i \in 1 .. Len(seen) /\ seen2[i] = seen[i]
        BY <3>3, <2>2, <2>3
      <4>2. rank[seen[i]] < rank[at] /\ rank[seen[i]] \in Int
        BY <4>1, <2>2, <1>4, <1>6, <1>8
      <4> QED BY <3>1, <4>1, <4>2
    <3> QED BY <3>2, <3>3
  <2>9. Climbs(v, rank, k)
    BY <2>5, <2>6, <2>7, <2>8 DEF Climbs
  <2>10. ASSUME walk.fresh
         PROVE  OnTheWay(v, way, size)
    <3>1. /\ Len(seen) <= size /\ \A i \in 1 .. Len(seen) : seen[i] = way[i]
          /\ at = IF Len(seen) = size THEN 0 ELSE way[Len(seen) + 1]
      BY <1>1, <2>10 DEF OnTheWay
    <3> DEFINE m == Len(seen) + 1
    <3>2. Len(seen) # size
      BY <3>1, <1>8
    <3>3. m \in 1 .. size /\ at = way[m] /\ Len(seen2) = m
      BY <3>1, <3>2, <1>5, <2>2, <2>3
    <3>4. \A i \in 1 .. m : seen2[i] = way[i]
      <4> SUFFICES ASSUME NEW i \in 1 .. m PROVE seen2[i] = way[i]
        OBVIOUS
      <4>1. i = m \/ i \in 1 .. Len(seen)
        BY <2>2
      <4> QED BY <4>1, <3>1, <3>3, <2>3
    <3> HIDE DEF m
    <3>5. m <= size /\ store[at] = IF m = size THEN 0 ELSE way[m + 1]
      BY <3>3, <1>5
    <3> QED BY <3>3, <3>4, <3>5, <2>5 DEF OnTheWay
  <2> QED BY <2>5, <2>9, <2>10, <1>1, <1>2 DEF LinkedInv, k
<1> QED BY <1>7, <1>8

LEMMA LinkedStep ==
    ASSUME LinkedInv, Linked!Next
    PROVE  LinkedInv'
  BY LinkedClear, LinkedPush, LinkedUnshift, LinkedShift, LinkedOpenWalk, LinkedStepWalk DEF Linked!Next

LEMMA LinkedList ==
    ASSUME kind = "LinkedList"
    PROVE  /\ Contents = Linked!ToArray /\ InWalkOrder = Linked!ToArray /\ CallSeen = call
           /\ Room = MaxItems + MaxCapacity
  BY DEF Contents, InWalkOrder, CallSeen, Room

ReadOnWay == \A way : Way(way, store, first, last, size) => Linked!ToArray = way

LEMMA LinkedItems == ReadOnWay
  BY WayIsArray DEF ReadOnWay

LEMMA LinkedListStep ==
    ASSUME LinkedInv, kind = "LinkedList", UNCHANGED kind, Linked!Next
    PROVE  List!Next \/ UNCHANGED listVars
<1>0. PICK way, rank : Way(way, store, first, last, size)
  BY DEF LinkedInv
<1>1. /\ Contents = way /\ CallSeen = call /\ Room = MaxItems + MaxCapacity
  BY <1>0, WayIsArray, LinkedList
<1>2. CallSeen' = call' /\ \A new : Way(new, store', first', last', size') => Contents' = new
  <2>1. kind' = "LinkedList"
    OBVIOUS
  <2>2. (kind = "LinkedList" => Contents = Linked!ToArray /\ CallSeen = call)'
    BY LinkedList, PTL
  <2>3. ReadOnWay'
    BY LinkedItems, PTL
  <2>4. \A new : Way(new, store', first', last', size') => Linked!ToArray' = new
    BY <2>3 DEF ReadOnWay
  <2> QED BY <2>1, <2>2, <2>4
<1>3. /\ size \in Nat /\ Len(way) = size /\ Len(store) \in Nat /\ (first = 0 <=> size = 0) /\ size <= Len(store)
      /\ way \in Seq(1 .. Len(store)) /\ (size # 0 => first = way[1] /\ way # <<>>)
  BY <1>0, WayFacts, EmptyContents DEF Way
<1>4. MaxItems \in Nat /\ MaxCapacity \in Nat /\ MaxCapacity # 0
  BY SequencesAssumption
<1>5. CASE Linked!Clear
  <2>1. /\ first' = 0 /\ last' = 0 /\ size' = 0 /\ call' = [op |-> "clear", answer |-> None] /\ LinkedInv'
    BY <1>5, LinkedClear DEF Linked!Clear, Linked!Called, Linked!Nil
  <2>2. PICK new : Way(new, store', first', last', size')
    BY <2>1 DEF LinkedInv
  <2>3. new = <<>>
    <3>1. new \in Seq(1 .. Len(store')) /\ Len(new) = size'
      BY <2>2 DEF Way
    <3> QED BY <3>1, <2>1, EmptyContents
  <2> QED BY <1>2, <2>1, <2>2, <2>3, ListClears
<1>6. CASE Linked!Push
  <2> DEFINE x == Len(store) + 1
  <2>1. x <= MaxItems /\ call' = [op |-> "push", answer |-> size + 1]
    BY <1>6 DEF Linked!Push, Linked!Called
  <2>2. Contents' = Append(way, x)
    BY <1>0, <1>2, <1>6, LinkedPush
  <2>3. x \in Item
    BY <1>3, <1>4, <2>1 DEF Item
  <2> HIDE DEF x
  <2>4. Len(Contents) # Room /\ CallSeen' = [op |-> "push", answer |-> Len(Contents) + 1]
    <3>1. size # MaxItems + MaxCapacity
      BY <1>3, <1>4, <2>1 DEF x
    <3> QED BY <1>1, <1>2, <1>3, <2>1, <3>1
  <2> QED BY <1>1, <2>2, <2>3, <2>4, ListPushes
<1>7. CASE Linked!Unshift
  <2> DEFINE x == Len(store) + 1
  <2>1. x <= MaxItems /\ call' = [op |-> "unshift", answer |-> size + 1]
    BY <1>7 DEF Linked!Unshift, Linked!Called
  <2>2. Contents' = <<x>> \o way
    BY <1>0, <1>2, <1>7, LinkedUnshift
  <2>3. x \in Item
    BY <1>3, <1>4, <2>1 DEF Item
  <2> HIDE DEF x
  <2>4. Len(Contents) # Room /\ CallSeen' = [op |-> "unshift", answer |-> Len(Contents) + 1]
    <3>1. size # MaxItems + MaxCapacity
      BY <1>3, <1>4, <2>1 DEF x
    <3> QED BY <1>1, <1>2, <1>3, <2>1, <3>1
  <2> QED BY <1>1, <2>2, <2>3, <2>4, ListUnshifts
<1>8. CASE Linked!Shift
  <2>1. CASE first = 0
    <3>1. UNCHANGED <<store, first, last, size>> /\ call' = [op |-> "shift", answer |-> None]
      BY <2>1, <1>8 DEF Linked!Shift, Linked!Called, Linked!Nil
    <3>2. Contents' = way /\ way = <<>>
      BY <3>1, <2>1, <1>0, <1>2, <1>3, EmptyContents
    <3> QED BY <1>1, <1>2, <3>1, <3>2, ListShifts
  <2>2. CASE first # 0
    <3>1. /\ UNCHANGED <<store, last>> /\ first' = store[first] /\ size' = size - 1
          /\ call' = [op |-> "shift", answer |-> first]
      BY <2>2, <1>8 DEF Linked!Shift, Linked!Called, Linked!Nil
    <3>2. Contents' = Tail(way)
      <4>1. Way(Tail(way), store, store[first], last, size - 1)
        BY <1>0, <2>2, WayShift
      <4> QED BY <3>1, <4>1, <1>2
    <3>3. way # <<>> /\ first = Head(way)
      BY <2>2, <1>3
    <3> QED BY <1>1, <1>2, <3>1, <3>2, <3>3, ListShifts
  <2> QED BY <2>1, <2>2
<1>9. CASE Linked!OpenWalk \/ Linked!StepWalk
  <2>1. UNCHANGED <<store, first, last, size, call>>
    BY <1>9 DEF Linked!OpenWalk, Linked!StepWalk
  <2>2. Contents' = way
    BY <2>1, <1>0, <1>2
  <2> QED BY <1>1, <1>2, <2>1, <2>2, ListStutters
<1> QED BY <1>5, <1>6, <1>7, <1>8, <1>9 DEF Linked!Next

LEMMA LinkedWalks ==
    ASSUME LinkedInv, kind = "LinkedList"
    PROVE  FreshWalksComplete /\ WalksReportOnce
<1>1. PICK way, rank :
          /\ Way(way, store, first, last, size) /\ Rank(rank, store)
          /\ Climbs(walk, rank, Len(store))
          /\ walk.fresh => OnTheWay(walk, way, size)
  BY DEF LinkedInv
<1> DEFINE k == Len(store)
           d == 0
           seen == walk.seen
<1>2. InWalkOrder = way
  BY <1>1, WayIsArray, LinkedList
<1>3. /\ k \in Nat /\ size \in Nat /\ Len(way) = size
      /\ \A i \in 1 .. size : way[i] \in 1 .. k
  BY <1>1, WayFacts
<1>4. way \in Seq(1 .. k) /\ rank \in [1 .. k -> Int]
  BY <1>1 DEF Way, Rank
<1>5. /\ walk \in [current : 0 .. k, seen : Seq(1 .. k), fresh : BOOLEAN, ended : BOOLEAN]
      /\ \A i, j \in DOMAIN seen : i < j => rank[seen[i]] < rank[seen[j]]
      /\ walk.ended => walk.current = 0
  BY <1>1 DEF Climbs
<1>6. seen \in Seq(1 .. k)
  BY <1>5
<1>7. Len(seen) \in Nat /\ DOMAIN seen = 1 .. Len(seen) /\ \A i \in 1 .. Len(seen) : seen[i] \in 1 .. k
  BY <1>6, ElementOfSeq, LenProperties
<1>8. ASSUME walk.fresh
      PROVE  IF walk.ended THEN seen = SubSeq(way, d + 1, Len(way))
             ELSE IsPrefix(seen, SubSeq(way, d + 1, Len(way)))
  <2>1. /\ Len(seen) <= size /\ \A i \in 1 .. Len(seen) : seen[i] = way[i]
        /\ walk.current = IF Len(seen) = size THEN 0 ELSE way[Len(seen) + 1]
    BY <1>1, <1>8 DEF OnTheWay
  <2>2. walk.ended => Len(seen) = Len(way) - d
    <3>1. Len(seen) # size => Len(seen) + 1 \in 1 .. size
      BY <2>1, <1>3, <1>7
    <3> QED BY <2>1, <3>1, <1>3, <1>5
  <2>3. d \in 0 .. Len(way) /\ Len(seen) <= Len(way) - d
    BY <2>1, <1>3
  <2>4. \A i \in 1 .. Len(seen) : seen[i] = way[i + d]
    BY <2>1, <1>7
  <2> HIDE DEF d, k, seen
  <2> QED BY <1>4, <1>6, <2>2, <2>3, <2>4, FreshFrom
<1>9. FreshWalksComplete
  BY <1>2, <1>8 DEF FreshWalksComplete
<1>10. WalksReportOnce
  <2>1. \A i, j \in DOMAIN seen : i # j => seen[i] # seen[j]
    <3> SUFFICES ASSUME NEW i \in DOMAIN seen, NEW j \in DOMAIN seen, i # j
                 PROVE  seen[i] # seen[j]
      OBVIOUS
    <3>1. i < j \/ j < i
      BY <1>7
    <3>2. rank[seen[i]] < rank[seen[j]] \/ rank[seen[j]] < rank[seen[i]]
      BY <3>1, <1>5
    <3>3. rank[seen[i]] \in Int /\ rank[seen[j]] \in Int
      BY <1>4, <1>7
    <3> QED BY <3>2, <3>3
  <2> QED BY <2>1 DEF WalksReportOnce
<1> QED BY <1>9, <1>10

-----------------------------------------------------------------------------
(* All of them.                                                            *)

Kinds == {"FixedDeque", "CircularBuffer", "Queue", "Stack", "FixedStack",
          "LinkedList", "Vector", "HashedArrayTree"}

(* The invariant of the structure that the behaviour is about.             *)
SeqInv ==
    /\ kind \in Kinds
    /\ kind \in {"FixedDeque", "CircularBuffer"} => RingInv
    /\ kind = "Queue" => QueueInv
    /\ kind = "Stack" => StackInv(None)
    /\ kind = "FixedStack" => StackInv(Capacity)
    /\ kind = "LinkedList" => LinkedInv
    /\ kind = "Vector" => VecInv
    /\ kind = "HashedArrayTree" => TreeInv

(* The two rings, and the two stacks, are one module each.                 *)
LEMMA DequeIsRing ==
    /\ Deque!Init => R(FALSE)!Init
    /\ Deque!Next => R(FALSE)!Next
    /\ R(FALSE)!LayoutSound => Deque!LayoutSound
    /\ R(FALSE)!ReadsAgree => Deque!ReadsAgree
  BY DEF Deque!Init, Deque!Next, Deque!LayoutSound, Deque!ReadsAgree,
         Deque!Push, Deque!Unshift, Deque!Pop, Deque!Shift, Deque!Clear, Deque!OpenWalk, Deque!StepWalk,
         Deque!Refuse, Deque!Store, Deque!Called, Deque!WrapOnce, Deque!PreviousStart, Deque!Slots,
         Deque!ItemAt, Deque!Grows, Deque!PeekFirst, Deque!PeekLast, Deque!Get, Deque!Slot, Deque!ToArray,
         Deque!OpenCursor, Deque!StepCursor, Deque!Disturbed,
         R!Init, R!Next, R!LayoutSound, R!ReadsAgree,
         R!Push, R!Unshift, R!Pop, R!Shift, R!Clear, R!OpenWalk, R!StepWalk,
         R!Refuse, R!Store, R!Called, R!WrapOnce, R!PreviousStart, R!Slots,
         R!ItemAt, R!Grows, R!PeekFirst, R!PeekLast, R!Get, R!Slot, R!ToArray,
         R!OpenCursor, R!StepCursor, R!Disturbed

LEMMA BufferIsRing ==
    /\ Buffer!Init => R(TRUE)!Init
    /\ Buffer!Next => R(TRUE)!Next
    /\ R(TRUE)!LayoutSound => Buffer!LayoutSound
    /\ R(TRUE)!ReadsAgree => Buffer!ReadsAgree
  BY DEF Buffer!Init, Buffer!Next, Buffer!LayoutSound, Buffer!ReadsAgree,
         Buffer!Push, Buffer!Unshift, Buffer!Pop, Buffer!Shift, Buffer!Clear, Buffer!OpenWalk, Buffer!StepWalk,
         Buffer!Refuse, Buffer!Store, Buffer!Called, Buffer!WrapOnce, Buffer!PreviousStart, Buffer!Slots,
         Buffer!ItemAt, Buffer!Grows, Buffer!PeekFirst, Buffer!PeekLast, Buffer!Get, Buffer!Slot, Buffer!ToArray,
         Buffer!OpenCursor, Buffer!StepCursor, Buffer!Disturbed,
         R!Init, R!Next, R!LayoutSound, R!ReadsAgree,
         R!Push, R!Unshift, R!Pop, R!Shift, R!Clear, R!OpenWalk, R!StepWalk,
         R!Refuse, R!Store, R!Called, R!WrapOnce, R!PreviousStart, R!Slots,
         R!ItemAt, R!Grows, R!PeekFirst, R!PeekLast, R!Get, R!Slot, R!ToArray,
         R!OpenCursor, R!StepCursor, R!Disturbed

LEMMA LifoIsStack ==
    /\ Lifo!Init => S(None)!Init
    /\ Lifo!Next => S(None)!Next
    /\ S(None)!LayoutSound => Lifo!LayoutSound
    /\ S(None)!ReadsAgree => Lifo!ReadsAgree
  BY DEF Lifo!Init, Lifo!Next, Lifo!LayoutSound, Lifo!ReadsAgree,
         Lifo!Push, Lifo!Pop, Lifo!Clear, Lifo!OpenWalk, Lifo!StepWalk,
         Lifo!Called, Lifo!ItemAt, Lifo!Grows, Lifo!Fixed, Lifo!Peek, Lifo!ToVec, Lifo!Overfilled,
         Lifo!OpenCursor, Lifo!StepCursor, Lifo!Disturbed,
         S!Init, S!Next, S!LayoutSound, S!ReadsAgree,
         S!Push, S!Pop, S!Clear, S!OpenWalk, S!StepWalk,
         S!Called, S!ItemAt, S!Grows, S!Fixed, S!Peek, S!ToVec, S!Overfilled,
         S!OpenCursor, S!StepCursor, S!Disturbed

LEMMA FixedLifoIsStack ==
    /\ FixedLifo!Init => S(Capacity)!Init
    /\ FixedLifo!Next => S(Capacity)!Next
    /\ S(Capacity)!LayoutSound => FixedLifo!LayoutSound
    /\ S(Capacity)!ReadsAgree => FixedLifo!ReadsAgree
  BY DEF FixedLifo!Init, FixedLifo!Next, FixedLifo!LayoutSound, FixedLifo!ReadsAgree,
         FixedLifo!Push, FixedLifo!Pop, FixedLifo!Clear, FixedLifo!OpenWalk, FixedLifo!StepWalk,
         FixedLifo!Called, FixedLifo!ItemAt, FixedLifo!Grows, FixedLifo!Fixed, FixedLifo!Peek, FixedLifo!ToVec,
         FixedLifo!Overfilled, FixedLifo!OpenCursor, FixedLifo!StepCursor, FixedLifo!Disturbed,
         S!Init, S!Next, S!LayoutSound, S!ReadsAgree,
         S!Push, S!Pop, S!Clear, S!OpenWalk, S!StepWalk,
         S!Called, S!ItemAt, S!Grows, S!Fixed, S!Peek, S!ToVec, S!Overfilled,
         S!OpenCursor, S!StepCursor, S!Disturbed

LEMMA InitSeqInv == Init => SeqInv
<1> SUFFICES ASSUME Init PROVE SeqInv
  OBVIOUS
<1>1. CASE kind = "FixedDeque" /\ Deque!Init
  BY <1>1, DequeIsRing, RingInit DEF SeqInv, Kinds
<1>2. CASE kind = "CircularBuffer" /\ Buffer!Init
  BY <1>2, BufferIsRing, RingInit DEF SeqInv, Kinds
<1>3. CASE kind = "Queue" /\ Fifo!Init
  BY <1>3, QueueInit DEF SeqInv, Kinds
<1>4. CASE kind = "Stack" /\ Lifo!Init
  BY <1>4, LifoIsStack, StackInit DEF SeqInv, Kinds
<1>5. CASE kind = "FixedStack" /\ FixedLifo!Init
  BY <1>5, FixedLifoIsStack, StackInit DEF SeqInv, Kinds
<1>6. CASE kind = "LinkedList" /\ Linked!Init
  BY <1>6, LinkedInit DEF SeqInv, Kinds
<1>7. CASE kind = "Vector" /\ Vec!Init
  BY <1>7, VecInit DEF SeqInv, Kinds
<1>8. CASE kind = "HashedArrayTree" /\ Tree!Init /\ walk = Vec!OpenCursor(None, 0)
  BY <1>8, TreeInit DEF SeqInv, Kinds
<1> QED BY <1>1, <1>2, <1>3, <1>4, <1>5, <1>6, <1>7, <1>8 DEF Init

LEMMA StutterSeqInv ==
    ASSUME SeqInv, UNCHANGED vars
    PROVE  SeqInv'
<1>1. /\ kind' = kind /\ store' = store /\ first' = first /\ last' = last /\ size' = size
      /\ arrived' = arrived /\ walk' = walk
  BY DEF vars
<1>2. kind \in {"FixedDeque", "CircularBuffer"} => RingInv'
  <2>1. RingInv => RingInv'
    BY <1>1 DEF RingInv, RingStored, RingWalk, RingPassed, At
  <2> QED BY <2>1 DEF SeqInv
<1>3. kind = "Queue" => QueueInv'
  <2>1. QueueInv => QueueInv'
    BY <1>1 DEF QueueInv, QueueStored, QueueWalk, QueueHeld
  <2> QED BY <2>1 DEF SeqInv
<1>4. ASSUME NEW c \in {None, Capacity}
      PROVE  StackInv(c) => StackInv(c)'
  BY <1>1, ZenonT(60) DEF StackInv, StackStored, StackWalk, StackHeld, StackPassed, StackDropped, S!ToVec, S!ItemAt
<1>5. kind = "LinkedList" => LinkedInv'
  <2>1. LinkedInv => LinkedInv'
    BY <1>1 DEF LinkedInv
  <2> QED BY <2>1 DEF SeqInv
<1>6. kind = "Vector" => VecInv'
  <2>1. VecInv => VecInv'
    BY <1>1 DEF VecInv, VecStored, VecWalk, Vec!ToVec
  <2> QED BY <2>1 DEF SeqInv
<1>7. kind = "HashedArrayTree" => TreeInv'
  <2>1. TreeInv => TreeInv'
    BY <1>1 DEF TreeInv
  <2> QED BY <2>1 DEF SeqInv
<1>8. (kind = "Stack" => StackInv(None)') /\ (kind = "FixedStack" => StackInv(Capacity)')
  BY <1>4 DEF SeqInv
<1>9. kind \in Kinds
  BY DEF SeqInv
<1> QED BY <1>1, <1>2, <1>3, <1>5, <1>6, <1>7, <1>8, <1>9 DEF SeqInv

LEMMA NextSeqInv == SeqInv /\ [Next]_vars => SeqInv'
<1> SUFFICES ASSUME SeqInv, [Next]_vars PROVE SeqInv'
  OBVIOUS
<1>1. CASE UNCHANGED vars
  BY <1>1, StutterSeqInv
<1>2. ASSUME Next
      PROVE  SeqInv'
  <2>0. kind' = kind
    BY <1>2 DEF Next
  <2>1. CASE kind = "FixedDeque" /\ Deque!Next
    <3>1. RingInv'
      BY <2>1, DequeIsRing, RingStep DEF SeqInv
    <3> QED BY <2>0, <2>1, <3>1 DEF SeqInv, Kinds
  <2>2. CASE kind = "CircularBuffer" /\ Buffer!Next
    <3>1. RingInv'
      BY <2>2, BufferIsRing, RingStep DEF SeqInv
    <3> QED BY <2>0, <2>2, <3>1 DEF SeqInv, Kinds
  <2>3. CASE kind = "Queue" /\ Fifo!Next
    <3>1. QueueInv'
      BY <2>3, QueueStep DEF SeqInv
    <3> QED BY <2>0, <2>3, <3>1 DEF SeqInv, Kinds
  <2>4. CASE kind = "Stack" /\ Lifo!Next
    <3>1. StackInv(None)'
      BY <2>4, LifoIsStack, StackStep DEF SeqInv
    <3> QED BY <2>0, <2>4, <3>1 DEF SeqInv, Kinds
  <2>5. CASE kind = "FixedStack" /\ FixedLifo!Next
    <3>1. StackInv(Capacity)'
      BY <2>5, FixedLifoIsStack, StackStep DEF SeqInv
    <3> QED BY <2>0, <2>5, <3>1 DEF SeqInv, Kinds
  <2>6. CASE kind = "LinkedList" /\ Linked!Next
    <3>1. LinkedInv'
      BY <2>6, LinkedStep DEF SeqInv
    <3> QED BY <2>0, <2>6, <3>1 DEF SeqInv, Kinds
  <2>7. CASE kind = "Vector" /\ Vec!Next
    <3>1. VecInv'
      BY <2>7, VecStep DEF SeqInv
    <3> QED BY <2>0, <2>7, <3>1 DEF SeqInv, Kinds
  <2>8. CASE kind = "HashedArrayTree" /\ Tree!Next /\ walk' = walk
    <3>1. TreeInv'
      BY <2>8, TreeStep DEF SeqInv
    <3> QED BY <2>0, <2>8, <3>1 DEF SeqInv, Kinds
  <2> QED BY <1>2, <2>1, <2>2, <2>3, <2>4, <2>5, <2>6, <2>7, <2>8 DEF Next
<1> QED BY <1>1, <1>2

LEMMA Inductive == Spec => []SeqInv
  BY InitSeqInv, NextSeqInv, PTL DEF Spec

LEMMA SoundReads == SeqInv => LayoutSound /\ ReadsAgree
<1> SUFFICES ASSUME SeqInv PROVE LayoutSound /\ ReadsAgree
  OBVIOUS
<1>1. CASE kind = "FixedDeque"
  <2>1. Deque!LayoutSound /\ Deque!ReadsAgree
    BY <1>1, DequeIsRing, RingReads DEF SeqInv, RingInv
  <2> QED BY <1>1, <2>1 DEF LayoutSound, ReadsAgree
<1>2. CASE kind = "CircularBuffer"
  <2>1. Buffer!LayoutSound /\ Buffer!ReadsAgree
    BY <1>2, BufferIsRing, RingReads DEF SeqInv, RingInv
  <2> QED BY <1>2, <2>1 DEF LayoutSound, ReadsAgree
<1>3. CASE kind = "Queue"
  <2>1. Fifo!LayoutSound /\ Fifo!ReadsAgree
    BY <1>3, QueueReads DEF SeqInv, QueueInv
  <2> QED BY <1>3, <2>1 DEF LayoutSound, ReadsAgree
<1>4. CASE kind = "Stack"
  <2>1. Lifo!LayoutSound /\ Lifo!ReadsAgree
    BY <1>4, LifoIsStack, StackReads DEF SeqInv
  <2> QED BY <1>4, <2>1 DEF LayoutSound, ReadsAgree
<1>5. CASE kind = "FixedStack"
  <2>1. FixedLifo!LayoutSound /\ FixedLifo!ReadsAgree
    BY <1>5, FixedLifoIsStack, StackReads DEF SeqInv
  <2> QED BY <1>5, <2>1 DEF LayoutSound, ReadsAgree
<1>6. CASE kind = "LinkedList"
  <2>1. Linked!LayoutSound /\ Linked!ReadsAgree
    BY <1>6, LinkedReads DEF SeqInv
  <2> QED BY <1>6, <2>1 DEF LayoutSound, ReadsAgree
<1>7. CASE kind = "Vector"
  <2>1. Vec!LayoutSound /\ Vec!ReadsAgree
    BY <1>7, VecReads DEF SeqInv
  <2> QED BY <1>7, <2>1 DEF LayoutSound, ReadsAgree
<1>8. CASE kind = "HashedArrayTree"
  <2>1. Tree!LayoutSound /\ Tree!ReadsAgree
    BY <1>8, TreeReads DEF SeqInv
  <2> QED BY <1>8, <2>1 DEF LayoutSound, ReadsAgree
<1> QED BY <1>1, <1>2, <1>3, <1>4, <1>5, <1>6, <1>7, <1>8 DEF SeqInv, Kinds

LEMMA SoundWalks == SeqInv => FreshWalksComplete /\ WalksReportOnce
<1> SUFFICES ASSUME SeqInv PROVE FreshWalksComplete /\ WalksReportOnce
  OBVIOUS
<1>1. CASE kind = "FixedDeque"
  BY <1>1, RingWalks DEF SeqInv, RingKind
<1>2. CASE kind = "CircularBuffer"
  BY <1>2, RingWalks DEF SeqInv, RingKind
<1>3. CASE kind \in {"Queue", "LinkedList", "Vector", "HashedArrayTree"}
  BY <1>3, QueueWalks, LinkedWalks, VecWalks, TreeWalks DEF SeqInv
<1>4. CASE kind = "Stack"
  BY <1>4, StackWalks DEF SeqInv, StackKind
<1>5. CASE kind = "FixedStack"
  <2>1. Capacity # None
    BY SequencesAssumption
  <2> QED BY <1>5, <2>1, StackWalks DEF SeqInv, StackKind
<1> QED BY <1>1, <1>2, <1>3, <1>4, <1>5 DEF SeqInv, Kinds

LEMMA ListMade ==
    ASSUME Contents \in Seq(Item), Len(Contents) <= Room, CallSeen = [op |-> "new", answer |-> None]
    PROVE  List!Init
  BY DEF List!Init, CallSeen, Room, Item

(* Whatever is made is a list, or an overfilled ring or stack.             *)
LEMMA InitLists == Init => Overfilled \/ List!Init
<1> SUFFICES ASSUME Init, ~Overfilled PROVE List!Init
  OBVIOUS
<1>0. /\ SeqInv /\ MaxItems \in Nat /\ MaxItems >= 2 /\ MaxCapacity \in Nat /\ Capacity \in Nat
      /\ Capacity # None
  BY InitSeqInv, SequencesAssumption
<1>1. ASSUME NEW o \in BOOLEAN, RingKind(o), R(o)!Init
      PROVE  List!Init
  <2>1. /\ RingContents \in Seq(Item) /\ Len(RingContents) = size /\ size \in Nat
    BY <1>0, <1>1, RingItems DEF SeqInv, RingInv, RingKind, Item
  <2>2. Contents = RingContents /\ CallSeen = call /\ Room = Capacity
    BY <1>1, RingList
  <2>3. size <= Capacity
    <3>1. ~(size > Capacity)
      BY <1>1 DEF Overfilled, RingKind, Deque!Overfilled
    <3> QED BY <3>1, <2>1, <1>0
  <2>4. call = [op |-> "new", answer |-> None]
    BY <1>1 DEF R!Init
  <2> QED BY <2>1, <2>2, <2>3, <2>4, ListMade
<1>2. ASSUME NEW c \in {None, Capacity}, StackKind(c), S(c)!Init, StackInv(c)
      PROVE  List!Init
  <2>1. /\ Contents = StackContents(c) /\ CallSeen = call
        /\ Room = (IF c = None THEN MaxItems + MaxCapacity ELSE Capacity)
        /\ StackContents(c) \in Seq(Item \cup {None}) /\ Len(StackContents(c)) = size
        /\ \A n \in 1 .. size : StackContents(c)[n] = S(c)!ItemAt(store, n)
    BY <1>2, StackList DEF StackInv
  <2>2. /\ size \in Nat /\ Len(store) \in Nat /\ DOMAIN store = 1 .. Len(store) /\ arrived \in Nat
        /\ size <= arrived /\ arrived <= MaxItems
        /\ \A s \in 1 .. size :
               s \in 1 .. Len(store) => S(c)!ItemAt(store, s) = store[s] /\ store[s] \in 0 .. arrived
        /\ size > Len(store) => c # None /\ size > Capacity
    <3>1. arrived \in 0 .. MaxItems /\ size \in Nat /\ size <= arrived
      BY <1>2 DEF StackInv, StackStored
    <3> QED BY <3>1, <1>0, <1>2, StackItems DEF StackInv, StackStored
  <2>3. c # None => ~(size > Capacity)
    BY <1>0, <1>2 DEF Overfilled, StackKind, FixedLifo!Overfilled, FixedLifo!Fixed
  <2>4. size <= Len(store)
    BY <2>2, <2>3
  <2>5. \A n \in 1 .. size : StackContents(c)[n] \in Item
    <3> SUFFICES ASSUME NEW n \in 1 .. size PROVE StackContents(c)[n] \in Item
      OBVIOUS
    <3>1. n \in 1 .. Len(store)
      BY <2>2, <2>4
    <3>2. StackContents(c)[n] = store[n] /\ store[n] \in 0 .. arrived
      BY <3>1, <2>1, <2>2
    <3> QED BY <3>2, <2>2, <1>0 DEF Item
  <2>6. StackContents(c) \in Seq(Item)
    <3>1. StackContents(c) = [n \in 1 .. size |-> StackContents(c)[n]]
      BY DEF StackContents
    <3> DEFINE C == StackContents(c)
    <3>2. C \in [1 .. size -> Item]
      BY <2>5, <3>1
    <3> HIDE DEF C
    <3>3. C \in Seq(Item)
      BY <3>2, <2>2
    <3> QED BY <3>3 DEF C
  <2>7. size <= Room
    BY <2>1, <2>2, <2>3, <1>0
  <2>8. call = [op |-> "new", answer |-> None]
    BY <1>2 DEF S!Init
  <2> QED BY <2>1, <2>6, <2>7, <2>8, ListMade
<1>3. CASE kind = "FixedDeque" /\ Deque!Init
  BY <1>1, <1>3, DequeIsRing DEF RingKind
<1>4. CASE kind = "CircularBuffer" /\ Buffer!Init
  BY <1>1, <1>4, BufferIsRing DEF RingKind
<1>5. CASE kind = "Stack" /\ Lifo!Init
  BY <1>0, <1>2, <1>5, LifoIsStack DEF StackKind, SeqInv
<1>6. CASE kind = "FixedStack" /\ FixedLifo!Init
  BY <1>0, <1>2, <1>6, FixedLifoIsStack DEF StackKind, SeqInv
<1>7. CASE kind = "Queue" /\ Fifo!Init
  <2>1. /\ Contents = Fifo!ToVec /\ CallSeen = call /\ Room = MaxItems + MaxCapacity
    BY <1>7, QueueList
  <2>2. /\ Fifo!ToVec \in Seq(Item) /\ Len(Fifo!ToVec) = size /\ size \in Nat
        /\ size <= arrived /\ arrived \in 0 .. MaxItems
    BY <1>0, <1>7, QueueItems DEF SeqInv, QueueInv
  <2>3. call = [op |-> "new", answer |-> None]
    BY <1>7 DEF Fifo!Init
  <2> QED BY <1>0, <2>1, <2>2, <2>3, ListMade
<1>8. CASE kind = "LinkedList" /\ Linked!Init
  <2>1. PICK way : Way(way, store, first, last, size)
    BY <1>0, <1>8 DEF SeqInv, LinkedInv
  <2>2. /\ Contents = way /\ CallSeen = call /\ Room = MaxItems + MaxCapacity
    BY <1>8, <2>1, WayIsArray, LinkedList
  <2>3. size \in Nat /\ Len(store) \in Nat /\ size <= Len(store) /\ Len(store) <= MaxItems
        /\ Len(way) = size /\ way \in Seq(1 .. Len(store))
    BY <1>0, <1>8, <2>1, WayFacts DEF Way, SeqInv, LinkedInv
  <2>4. way \in Seq(Item)
    <3>1. 1 .. Len(store) \subseteq Item
      BY <1>0, <2>3 DEF Item
    <3> QED BY <2>3, <3>1, SeqMonotonic
  <2>5. call = [op |-> "new", answer |-> None]
    BY <1>8 DEF Linked!Init
  <2> QED BY <1>0, <2>2, <2>3, <2>4, <2>5, ListMade
<1>9. CASE kind = "Vector" /\ Vec!Init
  <2>1. Contents = VecContents /\ CallSeen = call /\ Room = MaxItems + MaxCapacity
    BY <1>9 DEF Contents, InWalkOrder, VecContents, Vec!ToVec, CallSeen, Room
  <2>2. VecContents \in Seq(Item) /\ Len(VecContents) = size
    BY <1>0, <1>9, VecItems DEF SeqInv, VecInv, VecListed
  <2>3. size \in 0 .. 2 /\ call = [op |-> "new", answer |-> None]
    BY <1>9 DEF Vec!Init
  <2> QED BY <1>0, <2>1, <2>2, <2>3, ListMade
<1>10. CASE kind = "HashedArrayTree" /\ Tree!Init
  <2>1. Contents = TreeContents /\ CallSeen = Tree!CallMeant /\ Room = MaxItems + MaxCapacity
    BY <1>10 DEF Contents, InWalkOrder, TreeContents, Tree!ToVec, Elem, CallSeen, Room
  <2>2. TreeContents \in Seq(Item) /\ Len(TreeContents) = size
    BY <1>0, <1>10, TreeItems DEF SeqInv, TreeListed
  <2>3. size \in 0 .. 2 /\ call = [op |-> "new", answer |-> None]
    BY <1>10 DEF Tree!Init
  <2>4. CallSeen = call
    BY <2>1, <2>3 DEF Tree!CallMeant
  <2> QED BY <1>0, <2>1, <2>2, <2>3, <2>4, ListMade
<1> QED BY <1>3, <1>4, <1>5, <1>6, <1>7, <1>8, <1>9, <1>10 DEF Init

LEMMA NextLists ==
    ASSUME SeqInv, Next
    PROVE  List!Next \/ PastPromise \/ UNCHANGED listVars
<1>0. UNCHANGED kind /\ Capacity # None
  BY SequencesAssumption DEF Next
<1>1. CASE kind = "FixedDeque" /\ Deque!Next
  BY <1>0, <1>1, DequeIsRing, RingListStep DEF RingKind, SeqInv
<1>2. CASE kind = "CircularBuffer" /\ Buffer!Next
  BY <1>0, <1>2, BufferIsRing, RingListStep DEF RingKind, SeqInv
<1>3. CASE kind = "Queue" /\ Fifo!Next
  BY <1>0, <1>3, QueueListStep DEF SeqInv
<1>4. CASE kind = "Stack" /\ Lifo!Next
  BY <1>0, <1>4, LifoIsStack, StackListStep DEF StackKind, SeqInv
<1>5. CASE kind = "FixedStack" /\ FixedLifo!Next
  BY <1>0, <1>5, FixedLifoIsStack, StackListStep DEF StackKind, SeqInv
<1>6. CASE kind = "LinkedList" /\ Linked!Next
  BY <1>0, <1>6, LinkedListStep DEF SeqInv
<1>7. CASE kind = "Vector" /\ Vec!Next
  BY <1>0, <1>7, VecListStep DEF SeqInv
<1>8. CASE kind = "HashedArrayTree" /\ Tree!Next /\ walk' = walk
  BY <1>0, <1>8, TreeListStep DEF SeqInv
<1> QED BY <1>1, <1>2, <1>3, <1>4, <1>5, <1>6, <1>7, <1>8 DEF Next

LEMMA StutterLists ==
    ASSUME UNCHANGED vars
    PROVE  UNCHANGED listVars
<1>1. /\ kind' = kind /\ store' = store /\ first' = first /\ last' = last /\ size' = size /\ call' = call
  BY DEF vars
<1>2. Contents' = Contents
  BY <1>1 DEF Contents, InWalkOrder, Deque!ToArray, Deque!Slot, Fifo!ToVec, Lifo!ToVec, Lifo!ItemAt,
        FixedLifo!ToVec, FixedLifo!ItemAt, Linked!ToArray, Vec!ToVec, Tree!ToVec
<1>3. CallSeen' = CallSeen
  BY <1>1 DEF CallSeen, Tree!CallMeant, Tree!BlockOf, Tree!Offset
<1> QED BY <1>1, <1>2, <1>3, ListStutters

(* The window of a ring stays within its slots and every slot of it has    *)
(* been stored to, the sizes are those of the arrays and of the ways, and  *)
(* a way through the arena of a LinkedList ends at its tail: after any     *)
(* calls, for any capacity, any block size and any number of items.        *)
THEOREM LayoutCorrect == Spec => []LayoutSound
  BY Inductive, SoundReads, PTL

(* Peeks and reads by index answer as the array of the contents does: a    *)
(* single subtraction, a shift by the block and a pointer to the last node *)
(* find what counting from the first item finds.                           *)
THEOREM ReadsCorrect == Spec => []ReadsAgree
  BY Inductive, SoundReads, PTL

(* A walk over a structure that nothing was called on since it opened      *)
(* reports its contents, in order and to the last.                         *)
THEOREM FreshWalksCorrect == Spec => []FreshWalksComplete
  BY Inductive, SoundWalks, PTL

(* Whatever is done to a structure under its walk, be it cleared, popped   *)
(* from, compacted or grown, no item is reported twice.                    *)
THEOREM WalksCorrect == Spec => []WalksReportOnce
  BY Inductive, SoundWalks, PTL

(* Each of the eight is a list: what is made of values is one (or is       *)
(* overfilled), every call does to the contents, and answers, what the     *)
(* list promises, and a step of a walk does nothing to them.               *)
THEOREM ListImplemented == Spec => ImplementsList
<1>1. SeqInv /\ [Next]_vars => [List!Next \/ PastPromise]_listVars
  BY NextLists, StutterLists
<1> QED BY <1>1, InitLists, Inductive, PTL DEF Spec, ImplementsList
=============================================================================
